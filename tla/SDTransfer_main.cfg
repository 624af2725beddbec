SPECIFICATION Spec
CONSTANTS
  NBlocks = 3
  MaxFaults = 3
INVARIANTS IInv HandledInOrder OneAhead NoSpuriousFailure
PROPERTIES HandedOverIsStable StoreSpec HostReturns
CHECK_DEADLOCK FALSE
