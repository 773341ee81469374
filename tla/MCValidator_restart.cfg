CONSTANTS
  v1 = v1
  v2 = v2
  opener = opener
  follower = follower
  cheap = cheap
  drip1 = drip1
  drip2 = drip2
  gap = gap
  dev = dev
  other = other
  tap = tap
  Validators <- MCValidators
  Account <- MCAccount
  Nonce <- MCNonce
  After <- MCAfter
  Drips <- MCDrips
  Clock = {1, 2}
  ChannelSize = 1
  Payloads <- MCPayloads
  Raises = {opener}
  Thrifty = {cheap}
  Clients <- MCClients
  Shapes <- MCShapes
  MaxPending = 2
  MaxSubmits = 3
  MaxEmpty = 0
  Faults = {"crash"}
  MaxFaults = 1
SPECIFICATION Spec
INVARIANT PureFunctionOfCommits
CHECK_DEADLOCK FALSE
