\* Bytes of two values; memories of no byte, of less than a word, of two words
\* and of two words and a half; every address up to just past their end.
CONSTANTS
  ByteBase = 2
  None = None
  Sizes = {0, 3, 8, 10}
  Addresses = {0, 1, 3, 4, 6, 8, 11}
  Values = {0, 2, 13}
  MaxWords = 2
SPECIFICATION Spec
INVARIANTS
  TypeOK
  ReadsWhatWasWritten
  DumpsShowTheMemory
  LoadingIsWritingWordByWord
PROPERTIES
  DisjointWordsKept
