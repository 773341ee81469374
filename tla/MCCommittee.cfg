CONSTANTS
  NodeCounts = {3, 4, 5}
  BasePorts = {3500, 6513, 6514, 6523, 6524, 65535}
  MaxRuns = 3
  NoFile = NoFile
  Torn = Torn
SPECIFICATION KeygenSpec
INVARIANTS
  SeatsAreOwned
  WholeCommitteeLoads
  MeshPortsUsable
CHECK_DEADLOCK FALSE
