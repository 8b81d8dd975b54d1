SPECIFICATION FairSpec
CONSTANTS
  Slots = 2
  Ids = {"a", "b", "c", "dev"}
  NoId = "none"
  Hashes = {"h"}
  NoHash = "zero"
  MaxFailedAttempts = 2
  LockoutSeconds = 3
  TransientMax = 2
  CounterMax = 4
  Callers = {"sync"}
  MaxGeneration = 2
  SetOf <- MCSetOfWithBad
  MaxEntries = 2
  BackendIds = {"a", "b", "c"}
  StoredIds = {}
  Commands = {"add"}
  Images <- MCImagesWithRoom
  Period = 1
  Wrap = 5
  BotPushes = FALSE
  MaxBoots = 1
  Timed = TRUE
PROPERTIES
  PollsOnTime
  Converges
  InstallsWholeSet
