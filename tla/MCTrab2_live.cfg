SPECIFICATION FairSystemSpec
CONSTANTS
  N = 2
  MAX = 1
  FileOps <- MCFileOps
  DirOps <- MCDirOps
  IrqFifoCap = 2
  SyscallFifoCap = 1
  MaxSignals = 0
  MaxLoss = 0
  Regime = "prompt"
INVARIANTS
  ResponseForMyRequest
  SyscallFromCurrent
  ContextFaithful
PROPERTIES
  WaiterIsReleased
  TerminatesUnlessBroken
