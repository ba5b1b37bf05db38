\* Every text of at most five characters of six kinds, and every one of six or
\* seven slashes, stars and newlines, in lines of at most four.
CONSTANTS
  MAX_LINE_SIZE = 5
  MaxLength = 5
  MaxLong = 7
  Texts <- AllTexts
SPECIFICATION FairSpec
CHECK_DEADLOCK FALSE
INVARIANTS
  BlocksAreRemovedOnce
  LinesAreTheCode
PROPERTIES
  EveryTextIsRead
