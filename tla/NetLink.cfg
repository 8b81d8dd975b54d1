SPECIFICATION NetFairSpec
CONSTANTS
  Creds = {"home", "typo"}
  Works = {"home"}
  NoCreds = "none"
  RetryFirst = 1
  RetryMax = 3
  MaxEvents = 3
INVARIANTS
  NetTypeOK
  RadioInStep
PROPERTIES
  ComesBack
