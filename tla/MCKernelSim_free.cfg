SPECIFICATION Spec
CONSTANTS
  N = 2
  MAX = 0
  FileOps <- MCFileOps
  DirOps <- MCDirOps
  IrqFifoCap = 1
  SyscallFifoCap = 1
  MaxSignals = 1
  MaxLoss = 1
  Regime = "free"
INVARIANTS
  TypeOK
  ExactlyOnePlace
  WorkConserving
  DoneCount
  WaiterIsAnswerable
  OneMessagePerWaiter
PROPERTIES
  ReleasedWithItsResponse
