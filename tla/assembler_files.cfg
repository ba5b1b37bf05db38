\* All files of at most five lines of ten kinds, in both sections, with room for
\* three instructions and three words.
CONSTANTS
  Int32Mod = 65536
  LowerCase <- MCLowerCase
  XNumber <- MCXNumber
  Numbers <- MCNumbers
  Memories <- MCMemories
  LabelSegments = 2
  MAX_OPERANDS = 3
  MAX_INSTRUCTIONS = 3
  MAX_DATA = 3
  MAX_SYMBOLS = 3
  MaxLines = 5
  LineKinds <- MixedLines
  Files <- AllFiles
SPECIFICATION Spec
CHECK_DEADLOCK FALSE
INVARIANTS
  TypeOK
  StatementsBecomeInstructions
  DataIsTheWords
  LabelsNameWhatFollows
  LabelsAreFound
PROPERTIES
  LabelsNameTheNextStatement
