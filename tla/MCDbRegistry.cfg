\* Three threads, two names of one path, and another path to its directory.
SPECIFICATION FairSpec
CONSTANTS
  Threads = {t1, t2, t3}
  chainAbs = chainAbs
  chainRel = chainRel
  chainLink = chainLink
  chainDir = chainDir
  Paths <- MCPaths
  Joined <- MCJoined
  Dir <- MCDir
  MaxCalls = 4
INVARIANTS LiveIsFindable 
PROPERTIES RefusedOnlyInRaces OpenReturns
CHECK_DEADLOCK FALSE
