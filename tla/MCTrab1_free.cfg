SPECIFICATION Spec
CONSTANTS
  N = 2
  MAX = 1
  IrqFifoCap = 1
  SyscallFifoCap = 2
  MaxPauses = 1
  Regime = "free"
INVARIANTS
  TypeOK
  SingleRunner
  SyscallValidIfWaiting
  ContextFaithful
  HappyEndIsReal
PROPERTY ImplementsScheduler
