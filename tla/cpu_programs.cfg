\* All programs of at most three instructions of the wide pool, run for at most
\* six instructions, in memories of 0, 8 and 20 bytes: allocation failed, too
\* small for three instructions, room for the program and the data.
CONSTANTS
  ByteBase = 4
  WordBits = 8
  Trap = Trap
  RegNumber = 4
  MaxInstructions = 6
  MaxLength = 3
  Pool <- WidePool
  Programs <- MCPrograms
  DataSections <- MCDataSections
  MemorySizes = {0, 8, 20}
  UninitializedWords = {0, 1}
  Fields <- MCFields
  Alu <- MCAlu
SPECIFICATION FairSpec
INVARIANTS
  TypeOK
  RaHoldsReturnAddress
  PcHalfwordAligned
  ResultSound
  OversizedProgramNeverRuns
PROPERTIES
  ErrorLatched
  TextChangesOnlyByLowStore
  ActsAsIsaMachine
  Terminates
  ErrorReported
