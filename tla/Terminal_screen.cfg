SPECIFICATION Spec
CONSTANTS
  Symbols = {"FF", "00", "CR", "x"}
  BufferSize = 3
  MaxBytes = 5
INVARIANT ScreenIsStream
CHECK_DEADLOCK FALSE
