\* All files of at most four lines with two labels, one of which begins with the
\* other, a statement, and a branch to the longer one.
CONSTANTS
  Int32Mod = 8388608
  Refused = Refused
  LowerCase <- MCLowerCase
  XNumber <- MCXNumber
  Numbers <- MCNumbers
  Memories <- MCMemories
  LetterTexts <- MCLetterTexts
  LabelSegments = 2
  MAX_OPERANDS = 3
  MAX_INSTRUCTIONS = 4
  MAX_DATA = 8
  MAX_SYMBOLS = 4
  MaxLines = 4
  Files <- CutFiles
SPECIFICATION TranslationSpec
CHECK_DEADLOCK FALSE
INVARIANTS
  BranchesReachTheWholeName
