SPECIFICATION Spec
CONSTANTS
  NPackets = 3
  CheckSum <- MCImageSum
  Sum <- MCSum
  LoadType = {"run", "program"}
  GarbageIDs = {0, 1}
  ShortReads = TRUE
  MaxFaults = 3
INVARIANTS IInv LaunchVerified SuccessIsReal InOrder NoSpuriousFailure
PROPERTIES ExecutedOnce AttemptSpec BothEnd SuccessRuns
CHECK_DEADLOCK FALSE
