SPECIFICATION Spec
CONSTANTS
  Clients = {"anna", "bob"}
  NoClient = "nobody"
  HoldMs = 2
  SessionMs = 3
  VerifyMs = 2
  MaxLoginFailures = 2
  Wrap = 8
PROPERTIES
  ClosedSessionIsSeen
