\* The same calls against the meaning of OR, which the code does not have.
CONSTANTS
  ByteBase = 2
  WordBits = 4
  Trap = Trap
  None = None
SPECIFICATION Spec
INVARIANTS
  SumIsOrPlusAnd
CHECK_DEADLOCK FALSE
