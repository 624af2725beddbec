SPECIFICATION Spec
CONSTANTS
  NSectors = 5
  SectorsPerCluster = 2
  PerPage = 4
  TotClusters = 7
  EndOfChain = 8
  Disks <- MCDisks
  MaxFaults = 3
INVARIANTS IInv SizeCovered FileStored NothingLeaked
PROPERTIES OtherUntouched WriteEnds
CHECK_DEADLOCK FALSE
