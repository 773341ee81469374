CONSTANTS
  v1 = v1
  v2 = v2
  opener = opener
  follower = follower
  cheap = cheap
  drip1 = drip1
  drip2 = drip2
  gap = gap
  dev = dev
  other = other
  tap = tap
  Validators <- MCValidators
  Account <- MCAccount
  Nonce <- MCNonce
  After <- MCAfter
  Drips <- MCDrips
  Clock = {1, 2}
  ChannelSize = 1
  Payloads <- LivePayloads
  Raises = {opener}
  Thrifty = {}
  Clients <- LiveClients
  Shapes <- FewShapes
  MaxPending = 3
  MaxSubmits = 3
  MaxEmpty = 0
  Faults = {}
  MaxFaults = 0
SPECIFICATION FairSpec
PROPERTY EventuallySealed
CHECK_DEADLOCK FALSE
