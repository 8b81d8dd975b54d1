SPECIFICATION FairSpec
CONSTANTS
  Clients = {"anna", "bob"}
  NoClient = "nobody"
  HoldMs = 2
  SessionMs = 3
  VerifyMs = 2
  MaxLoginFailures = 2
  Wrap = 5
INVARIANTS
  TypeOK
  SessionCapped
  ServedOnlyAfterLogin
PROPERTIES
  SessionsAreOwned
  LoopComesBack
