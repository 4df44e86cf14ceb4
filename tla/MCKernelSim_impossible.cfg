SPECIFICATION Spec
CONSTANTS
  N = 2
  MAX = 1
  FileOps <- MCFileOps
  DirOps <- MCDirOps
  IrqFifoCap = 1
  SyscallFifoCap = 3
  MaxSignals = 1
  MaxLoss = 0
  Regime = "paused"
INVARIANTS
  ImpossibleNeverHappens
