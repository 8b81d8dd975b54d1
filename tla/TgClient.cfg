SPECIFICATION FairSpec
CONSTANTS
  Slots = 1
  Ids = {"a", "dev"}
  NoId = "none"
  Hashes = {"h"}
  NoHash = "zero"
  MaxFailedAttempts = 2
  LockoutSeconds = 3
  TransientMax = 2
  CounterMax = 4
  Wrap = 6
  Script <- MCScript
  BackendIds = {"a"}
  BatchLimit = 2
  BodyMax = 3
  JunkSizes = {2, 4}
  MinGap = 1
  BackoffMin = 1
  BackoffMax = 2
  MaxPosts = 3
  MaxBoots = 1
INVARIANTS
  TypeOK
  RevokedStaysRevoked
PROPERTIES
  AcknowledgedWasHandled
  ChannelAdvances
