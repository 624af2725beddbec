SPECIFICATION Spec
CONSTANTS
  Configs <- MCConfigs
  ArgLists <- MCArgLists
  RawNames <- MCRawNames
  Boards <- MCBoards
  None = "none"
  MaxName = 3
  LoaderBaud = 115200
  TerminalBaud = 115200
  Rates = {115200, 9600}
  Supported = {115200, 230400, 921600}
  LineRate = 115200
INVARIANTS IInv SuccessIsReal NoSpuriousFailure StepsDownFirst TerminalRate AsAsked
PROPERTIES EEPROMWrittenOnce StartsAfresh SessionEnds
CHECK_DEADLOCK FALSE
