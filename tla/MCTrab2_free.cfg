SPECIFICATION SystemSpec
CONSTANTS
  N = 2
  MAX = 0
  FileOps <- MCFileOps
  DirOps <- MCDirOps
  IrqFifoCap = 1
  SyscallFifoCap = 2
  MaxSignals = 1
  MaxLoss = 1
  Regime = "free"
INVARIANTS
  SingleRunner
  EndOfFileIsALateStart
  HappyEndIsReal
PROPERTIES
  ImplementsScheduler
