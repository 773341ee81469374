\* A data directory that is used, reopened and killed while a fork is fetched
\* from a remote chain that gets its second block.
CONSTANTS
  k1 = k1
  k2 = k2
  k3 = k3
  k4 = k4
  friend = friend
  counter = counter
  Dev = Dev
  Keys = {k1, k2, k3, k4}
  Flags = {k1}
  Others = {friend}
  DevChain = 1
  DevBalance = 9
  Fundings <- MCFundings
  Journals <- MCJournals
  NoKey = NoKey
  NoChain = NoChain
  NoJournal = NoJournal
  Accounts <- MCAccounts
  Slots <- MCSlots
  Blocks = {1, 2, Latest}
  Latest = Latest
  Values = {0, 1}
  Empty = 0
  MaxHead = 2
SPECIFICATION ForkSpec
INVARIANTS
  GenesisPinned
  NumberedForkIsExact
PROPERTY RetiredStayRetired
CHECK_DEADLOCK FALSE
