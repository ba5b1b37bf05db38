\* x0 as cpu_init leaves it.
CONSTANTS
  ByteBase = 4
  WordBits = 8
  Trap = Trap
  RegNumber = 4
  MaxInstructions = 6
  MaxLength = 1
  Pool <- WidePool
  Programs <- MCPrograms
  DataSections <- MCDataSections
  MemorySizes = {20}
  UninitializedWords = {0, 1}
  Fields <- MCFields
  Alu <- MCAlu
SPECIFICATION Spec
INVARIANTS
  ZeroRegisterIsZero
