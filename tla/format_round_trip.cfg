\* Immediates around every limit, words with every field at its limits.  A word
\* is executed once, so every behaviour ends.
CONSTANTS
  None = None
  Refused = Refused
  Sources <- MCSources
  StoredWords <- MCStoredWords
  Registers = {0, 1, 2, 16, 31}
  Powers = {1, 2, 4, 16, 32, 64, 1024, 2048, 4096, 32768, 524288, 1048576}
  Functs7 = {0, 1, 32, 64, 127}
SPECIFICATION Spec
INVARIANTS
  TypeOK
  ExecutedAsWritten
  ReadsEveryBit
CHECK_DEADLOCK FALSE
