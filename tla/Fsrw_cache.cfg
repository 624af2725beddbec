SPECIFICATION Spec
CONSTANTS
  NSectors = 1
  SectorsPerCluster = 1
  PerPage = 4
  TotClusters = 7
  EndOfChain = 8
  Disks <- MCDisks
  MaxFaults = 1
INVARIANTS CacheCoherent
CHECK_DEADLOCK FALSE
