SPECIFICATION SafeSpec
CONSTANTS
  NBlocks = 1
  MaxFaults = 1
INVARIANTS FailureIsReported
CHECK_DEADLOCK FALSE
