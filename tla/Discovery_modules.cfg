SPECIFICATION Spec
CONSTANTS
  m1 = m1
  m2 = m2
  Modules = {m1, m2}
  Interfaces = 2
  Reach <- MCReach
  Attempts = 2
  MaxKnown = 1
  MaxFaults = 3
INVARIANTS NoneMissed ListIsRight
PROPERTY SearchEnds
CHECK_DEADLOCK FALSE
