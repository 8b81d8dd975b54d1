SPECIFICATION CodesSpec
CONSTANTS
  Slots = 2
  Ids = {"a", "t", "dev"}
  NoId = "none"
  Hashes = {"h"}
  NoHash = "zero"
  MaxFailedAttempts = 2
  LockoutSeconds = 3
  TransientMax = 2
  CounterMax = 4
  BackendIds = {"a"}
  StoredIds = {"t"}
  GenWrap = 4
INVARIANTS
  CodesTypeOK
PROPERTIES
  KeepsCodes
  AnswersHoldUnlessOvertaken
