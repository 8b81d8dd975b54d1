SPECIFICATION KeypadSpec
CONSTANTS
  Keys = {"1", "#"}
  NoKey = "none"
  Debounce = 3
  LongPress = 6
  QueueDepth = 3
  MaxGap = 4
INVARIANTS
  KeypadTypeOK
  KeysAreReal
  LosesOnlyWhenAway
