CONSTANTS
  token = token
  swap = swap
  sent = sent
  paid = paid
  Address = {token, swap}
  Topic = {sent, paid}
  Batches <- MCBatches
  BlockLogs <- MCBlockLogs
  Fees = {1, 2}
  MaxBlocks = 3
  Absent = Absent
  Null = Null
  Malformed = Malformed
  Latest = Latest
  Pending = Pending
  Earliest = Earliest
  Wildcard = Wildcard
  Error = Error
  Falcon512 = Falcon512
  Dilithium3 = Dilithium3
  VerifyGas <- MCVerifyGas
  PublicKeyLen <- MCPublicKeyLen
  SignatureLen = 1
  Genuine <- MCGenuine
  Nothing = Nothing
SPECIFICATION Spec
INVARIANTS
  GetLogsExact
  HeadCoversLogs
  FeePromiseKept
  VerifiesExactly
