SPECIFICATION Spec
CONSTANTS
  ConfigPulse = 0
  DefaultPulse = 2
  MaxPulse = 3
  Cooldown = 4
  Watchdog = 3
  Wrap = 32
  MaxTime = 80
INVARIANTS
  TypeOK
  LockBounded
PROPERTIES
  StartsSpaced
