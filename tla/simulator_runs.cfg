\* All files of at most three lines with data, loads and stores, or with labels
\* and jumps, and files of four lines of fewer kinds.  The memory holds two
\* words, or four and one byte, or could not be allocated.
CONSTANTS
  ByteBase = 4
  WordBits = 8
  Int32Mod = 65536
  Refused = Refused
  Trap = Trap
  LowerCase <- MCLowerCase
  XNumber <- MCXNumber
  Numbers <- MCNumbers
  Memories <- MCMemories
  LetterTexts <- MCLetterTexts
  LabelSegments = 2
  MAX_OPERANDS = 3
  MAX_INSTRUCTIONS = 4
  MAX_DATA = 4
  MAX_SYMBOLS = 4
  RegNumber = 4
  MaxInstructions = 5
  UninitializedWords = {0, 1}
  Fields <- MCFields
  Alu <- MCAlu
  WordOf <- MCWordOf
  MaxLines = 3
  Files <- DataAndJumpFiles
  MemorySizes = {0, 8, 17}
SPECIFICATION FairMainSpec
CHECK_DEADLOCK FALSE
INVARIANTS
  FreedAtTheEnd
PROPERTIES
  SuccessIsEarned
  LoadsReadTheData
  JumpsLandAtTheirLabel
  Exits
