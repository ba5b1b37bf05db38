\* All files of at most two lines: a label at the end, and a jump to it.
CONSTANTS
  Int32Mod = 8388608
  Refused = Refused
  LowerCase <- MCLowerCase
  XNumber <- MCXNumber
  Numbers <- MCNumbers
  Memories <- MCMemories
  LetterTexts <- MCLetterTexts
  LabelSegments = 2
  MAX_OPERANDS = 3
  MAX_INSTRUCTIONS = 4
  MAX_DATA = 8
  MAX_SYMBOLS = 4
  MaxLines = 2
  Files <- JumpFiles
SPECIFICATION TranslationSpec
CHECK_DEADLOCK FALSE
INVARIANTS
  JumpsReachTheirLabel
