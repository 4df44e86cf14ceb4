SPECIFICATION Ex2Spec
CONSTANTS
  SEMVMX = 5
  SEMAEM = 5
  BUFFER_SIZE = 3
  MaxChars = 9
INVARIANTS
  NothingLostOrReordered
PROPERTIES
  ReadingGoesOn
