SPECIFICATION PCSpec
CONSTANTS
  MaxProd = 3
  MaxCons = 3
  MAXFILA = 2
  MAXNUM = 2
INVARIANTS
  NothingLeftBehind
PROPERTIES
  ImplementsFifo
  EveryThreadEnds
