SPECIFICATION FairSpec
CONSTANTS
  N = 2
  MAX = 1
  IrqFifoCap = 2
  SyscallFifoCap = 1
  MaxPauses = 1
  Regime = "prompt"
INVARIANTS
  RecordIsReal
PROPERTIES
  WaiterIsReleased
  TerminatesUnlessPaused
