SPECIFICATION Spec
CONSTANTS
  Images <- MCImages
  Damaged <- MCDamaged
  Tasks = {"run", "program", "programRun", "response"}
  Polls <- MCPolls
  Slowest <- MCSlowest
  MaxFaults = 2
INVARIANTS SuccessIsReal FailureIsReal
PROPERTIES AttemptSpec
CHECK_DEADLOCK FALSE
