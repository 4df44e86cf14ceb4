SPECIFICATION Ex4Spec
CONSTANTS
  SEMVMX = 6
  SEMAEM = 6
  SleepIsEnough = TRUE
INVARIANTS
  InOrderAndWhole
  VIsNeverRefused
PROPERTIES
  ReceivedUnlessEnded
  RemovalEndsBoth
