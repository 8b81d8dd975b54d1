SPECIFICATION Spec
CONSTANTS
  Slots = 2
  Ids = {"a", "b", "t", "dev"}
  NoId = "none"
  Hashes = {"h"}
  NoHash = "zero"
  MaxFailedAttempts = 2
  LockoutSeconds = 3
  TransientMax = 2
  CounterMax = 4
  Callers = {"sync", "console"}
  MaxGeneration = 1
  SetOf <- MCSetOf
  MaxEntries = 2
  BackendIds = {"a", "b"}
  StoredIds = {"t"}
  Commands = {"add", "persist", "del", "erase"}
  Images <- MCImages
  Period = 1
  Wrap = 1
  BotPushes = TRUE
  MaxBoots = 1
  Timed = FALSE
INVARIANTS
  TypeOK
  GuestsAreAccountedFor
PROPERTIES
  NeverOlder
