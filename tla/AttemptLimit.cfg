SPECIFICATION FairSpec
CONSTANTS
  Slots = 1
  Ids = {"a"}
  NoId = "none"
  Hashes = {"good"}
  NoHash = "zero"
  MaxFailedAttempts = 2
  LockoutSeconds = 2
  TransientMax = 2
  CounterMax = 4
  Guesses = {"good", "bad"}
  Tables <- MCTables
  MaxNow = 6
  MaxJumps = 1
  MaxLapses = 1
INVARIANTS
  TypeOK
  CounterAndLockoutAgree
  WrongCodesBound
PROPERTIES
  LockoutHolds
  TrustsStoreOnly
  LockoutLifts
