SPECIFICATION Spec
CONSTANTS
  Slots = 1
  Ids = {"a"}
  NoId = "none"
  Hashes = {"good"}
  NoHash = "zero"
  MaxFailedAttempts = 2
  LockoutSeconds = 2
  TransientMax = 2
  CounterMax = 4
  Wrap = 10
  CodeLen = 3
  EntryTimeout = 2
  NoticeSpan <- MCNoticeSpan
  Keys = {1, 2}
  NoKey = 0
  HashOf <- MCHashOf
  Tables <- MCTables
  Stall = 2
  MaxTime = 12
  MaxEpoch = 3
INVARIANTS
  TypeOK
  EntryInStep
  PanelGoesDark
PROPERTIES
  OpensOnlyForTypedCode
