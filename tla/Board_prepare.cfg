SPECIFICATION Spec
CONSTANTS
  MaxImageSize = 40
  Numerals <- MCNumerals
  Hyphenated = {"pin-do", "fast-loader-clkfreq"}
  Tags <- MCTags
  BuiltIn <- MCBuiltIn
  Cases <- MCCases
INVARIANTS SettingsMeanWhatTheySay ImageStaysValid
CHECK_DEADLOCK FALSE
