SPECIFICATION LossySpec
CONSTANTS
  NPackets = 1
  CheckSum <- MCImageSum
  Sum <- MCSum
  LoadType = {"run"}
  GarbageIDs = {}
  ShortReads = FALSE
  MaxFaults = 1
PROPERTIES LossIsRepaired
CHECK_DEADLOCK FALSE
