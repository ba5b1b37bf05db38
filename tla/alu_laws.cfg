\* Words of four bits: every operation on every pair of operands.
CONSTANTS
  ByteBase = 2
  WordBits = 4
  Trap = Trap
  None = None
SPECIFICATION Spec
INVARIANTS
  TypeOK
  ShiftsMoveBits
  SumIsXorPlusCarries
  DivisionTruncates
CHECK_DEADLOCK FALSE
