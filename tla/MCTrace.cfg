CONSTANTS
  BlockGasLimit = 4
  MaxU128 = 1000
  U64Modulus = 256
  alice = alice
  treasury = treasury
  bob = bob
  x = x
  k1 = k1
  k2 = k2
  Addr <- MCAddr
  Beneficiary = treasury
  Slot <- MCSlot
  Unloaded = Unloaded
  Tx <- TxAndDrip
  Specs <- MCSpecs
  Journals <- MCJournals
  Keys = {k1, k2}
  Time = {1, 2}
  MaxBlocks = 3
  Faults = {}
  NoBlock = NoBlock
  NoReceipt = NoReceipt
  NoRoot = NoRoot
  NoJournal = NoJournal
  NoKey = NoKey
  NoChain = NoChain
  Refused = Refused
  NoView = NoView
  ZeroHash = ZeroHash
  KeyAccount <- MCKeyAccount
  FaucetCap = 20
  TransferGas = 1
SPECIFICATION DripSpec
INVARIANTS
  ReplayReproduces
  AnswersAreDurable
  TraceMissesOnlyCredits
  WalkReachesGenesis
  ReceiptsMissOnlyHeadroom
  GrantedDripsSeal
PROPERTIES
  HistoryImmutable
  ImplementsLedger
CHECK_DEADLOCK FALSE
