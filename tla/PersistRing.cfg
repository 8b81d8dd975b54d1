SPECIFICATION Spec
CONSTANTS
  RingSlots = 3
  Values = {0, 1, 2}
  Initial = 0
  MaxSeq = 8
INVARIANTS
  TypeOK
  RingOrdered
PROPERTIES
  KeepsAttempts
