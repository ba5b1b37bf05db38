\* Every mnemonic with every operand text, one instruction per file, and all
\* files of at most four lines of thirteen kinds, with labels and jumps.
\* Int32Mod stands for 2^32: it is above every limit of an immediate.
CONSTANTS
  Int32Mod = 8388608
  Refused = Refused
  LowerCase <- MCLowerCase
  XNumber <- MCXNumber
  Numbers <- MCNumbers
  Memories <- MCMemories
  LetterTexts <- MCLetterTexts
  LabelSegments = 2
  MAX_OPERANDS = 3
  MAX_INSTRUCTIONS = 4
  MAX_DATA = 8
  MAX_SYMBOLS = 4
  MaxLines = 4
  Files <- AllFiles
SPECIFICATION TranslationSpec
CHECK_DEADLOCK FALSE
INVARIANTS
  ReadAsWritten
  BranchesReachTheirLabel
  BranchAndJalAgree
  JumpTargetsAreInstructions
