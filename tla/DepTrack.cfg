SPECIFICATION Spec
CONSTANTS
  kLog2Lane = 2
  kParity = 4
  Control = {}
  MaxId = 24
  MaxAccesses = 4
INVARIANTS
  AssertionsHold
  ConflictsOrdered
  GenerationsOrdered
PROPERTIES
  BarriersSeparate
CHECK_DEADLOCK FALSE
