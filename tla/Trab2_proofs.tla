----------------------------- MODULE Trab2_proofs -----------------------------
(***************************************************************************)
(* The whole of trab2, for every value of the constants: it implements     *)
(* KernelSim, so that all that is proved of the kernel holds of it; its    *)
(* happy end is real, and only a process that starts late makes it read an *)
(* end of file, in every regime; and when the kernel is faster than the    *)
(* sleeps a process finds its own response.                                *)
(***************************************************************************)
EXTENDS Trab2, KernelSim_proofs

USE NAssumption, MAXAssumption, OpsAssumption, BoundsAssumption, RegimeAssumption,
    ListingAssumption

------------------------------------------------------------------------------
(***************************************************************************)
(* Types.                                                                  *)
(***************************************************************************)
Locations == {"opening", "start", "afterListing", "loop", "afterSyscall", "endOfIteration",
              "returning", "gone"}

SystemType ==
  /\ loc \in [Procs -> Locations]
  /\ asked \in [Procs -> IoOps \cup {"NO_OPERATION"}]
  /\ burst \in Bursts

LEMMA SystemTypeInit == SystemInit => SystemType
BY DEF SystemInit, SystemType, Locations, Bursts

LEMMA BurstTail ==
  ASSUME burst \in Bursts, burst # <<>>
  PROVE  Head(burst) \in IrqTypes /\ Tail(burst) \in Bursts
<1>1. CASE burst = <<"IRQ1">>
  BY <1>1 DEF Bursts, IrqTypes
<1>2. CASE burst = <<"IRQ2">>
  BY <1>2 DEF Bursts, IrqTypes
<1>3. CASE burst = <<"IRQ1", "IRQ2">>
  <2>1. Head(burst) = "IRQ1" /\ Tail(burst) = <<"IRQ2">>
    BY <1>3
  <2> QED BY <2>1 DEF Bursts, IrqTypes
<1> QED BY <1>1, <1>2, <1>3 DEF Bursts

LEMMA SystemTypeStep == SystemType /\ [SystemNext]_allVars => SystemType'
<1> SUFFICES ASSUME SystemType, [SystemNext]_allVars PROVE SystemType'
  OBVIOUS
<1> USE DEF SystemType, apps
<1>1. ASSUME NEW p \in Procs, A(p), UNCHANGED burst PROVE SystemType'
  <2>1. \E to \in Locations : loc' = [loc EXCEPT ![p] = to]
    BY <1>1 DEF A, OpenFifo, InitialListing, maybe_syscall, print_response,
                EndIteration, ExitSyscall, Return, Goto, Locations
  <2>2. \/ asked' = asked
        \/ \E op \in IoOps \cup {"NO_OPERATION"} : asked' = [asked EXCEPT ![p] = op]
    BY <1>1 DEF A, OpenFifo, InitialListing, maybe_syscall, print_response,
                EndIteration, ExitSyscall, Return, IoOps
  <2> QED BY <1>1, <2>1, <2>2
<1>2. CASE interControllerSim /\ UNCHANGED apps
  BY <1>2, BurstTail DEF interControllerSim, TimeSlice, SendDrawn
<1>3. CASE UNCHANGED <<apps, burst>>
  BY <1>3
<1> QED BY <1>1, <1>2, <1>3 DEF SystemNext, allVars

------------------------------------------------------------------------------
(***************************************************************************)
(* The ends.  Every exit syscall that was written is still in the FIFO or  *)
(* was counted, whoever it was charged to: the happy end and the hang-ups  *)
(* of the FIFO rest on that.                                               *)
(***************************************************************************)
\* The processes that wrote their exit.
Left == {p \in Procs : loc[p] \in {"returning", "gone"}}
ExitMessages == {m \in SyscallArgs : m.op = "EXIT"}

ExitsCounted ==
  /\ numDone + CountIn(syscallFifo, ExitMessages) = Cardinality(Left)
  /\ \A p \in Left : iter[p] = MAX

\* Unless the scheduling is free, nobody is gone before all opened the FIFO.
OpenedInTime ==
  Regime # "free" /\ (\E p \in Procs : loc[p] = "gone") =>
    \A q \in Procs : loc[q] # "opening"

SystemInv == MessageInv /\ SystemType /\ ExitsCounted /\ OpenedInTime

LEMMA LeftFinite ==
  /\ IsFiniteSet(Procs) /\ Cardinality(Procs) = N
  /\ IsFiniteSet(Left) /\ Cardinality(Left) \in Nat
<1>1. IsFiniteSet(Procs) /\ Cardinality(Procs) = N
  BY FinishedFinite
<1>2. Left \in SUBSET Procs
  BY DEF Left
<1> QED BY <1>1, <1>2, FS_Subset, FS_CardinalityType

LEMMA SystemInvInit == SystemInit => SystemInv
<1> SUFFICES ASSUME SystemInit PROVE SystemInv
  OBVIOUS
<1>1. MessageInv /\ SystemType
  BY MessageInit, SystemTypeInit DEF SystemInit
<1>2. Left = {} /\ numDone = 0 /\ syscallFifo = <<>>
  BY DEF SystemInit, Init, Left
<1>3. CountIn(syscallFifo, ExitMessages) = 0
  <2>1. syscallFifo \in Seq(SyscallArgs)
    BY <1>2
  <2> QED BY <1>2, <2>1, CountType
<1>4. ExitsCounted
  BY <1>2, <1>3, FS_EmptySet DEF ExitsCounted
<1>5. OpenedInTime
  BY DEF SystemInit, OpenedInTime
<1> QED BY <1>1, <1>4, <1>5 DEF SystemInv

\* The kernel counts an exit when it reads one, and at no other time.
LEMMA ExitsRead ==
  ASSUME SystemInv, KernelStep(HungUp) \/ SignalStep \/ NetworkStep, UNCHANGED apps
  PROVE  ExitsCounted'
<1> USE DEF channels, history
<1>1. /\ syscallFifo \in Seq(SyscallArgs) /\ numDone \in 0..N /\ ExitsCounted
      /\ iter' = iter /\ Left' = Left
  <2>1. TypeOK
    BY DEF SystemInv, MessageInv, PlaceInv, ContextInv, TypeInv
  <2>2. iter' = iter
    BY DEF KernelStep, SignalStep, NetworkStep, CheckPaused, Pselect, PselectTimeout,
           StopCurrent, handle_udp_response, handle_syscall, ImpossibleSyscall,
           EmptyRead, handle_irq, ResumeCurrent, manual_pause, manual_unpause, handle_ctrl_c,
           SfssReply, LoseMessage
  <2> QED BY <2>1, <2>2 DEF TypeOK, SystemInv, Left, apps
<1>2. CASE handle_syscall
  <2> DEFINE m == Head(syscallFifo)
  <2>1. /\ syscallFifo # <<>> /\ syscallFifo' = Tail(syscallFifo) /\ m \in SyscallArgs
        /\ Tail(syscallFifo) \in Seq(SyscallArgs)
    BY <1>1, <1>2, HeadTailProperties DEF handle_syscall
  <2>2. numDone' = IF m \in ExitMessages THEN numDone + 1 ELSE numDone
    <3>1. m \in ExitMessages <=> m.op = "EXIT"
      BY <2>1 DEF ExitMessages
    <3> QED BY <1>2, <3>1 DEF handle_syscall, Block, Finish, IoOps
  <2>3. CountIn(syscallFifo, ExitMessages) =
          IF m \in ExitMessages THEN CountIn(syscallFifo', ExitMessages) + 1
                                ELSE CountIn(syscallFifo', ExitMessages)
    BY <1>1, <2>1, CountRemoved
  <2>4. CountIn(syscallFifo', ExitMessages) \in Nat
    BY <2>1, CountType
  <2> HIDE DEF m
  <2> QED BY <1>1, <2>2, <2>3, <2>4 DEF ExitsCounted
<1>3. CASE ~handle_syscall
  <2>1. UNCHANGED <<numDone, syscallFifo>>
    BY <1>3 DEF KernelStep, SignalStep, NetworkStep, CheckPaused, Pselect, PselectTimeout,
           StopCurrent, handle_udp_response, ImpossibleSyscall, EmptyRead,
           handle_irq, ResumeCurrent, manual_pause, manual_unpause, handle_ctrl_c,
           SfssReply, LoseMessage
  <2> QED BY <1>1, <2>1 DEF ExitsCounted
<1> QED BY <1>2, <1>3

\* A process writes one exit, after its last iteration.
LEMMA ExitsWritten ==
  ASSUME SystemInv, NEW p \in Procs, A(p)
  PROVE  ExitsCounted'
<1> DEFINE count == CountIn(syscallFifo, ExitMessages)
<1>1. /\ syscallFifo \in Seq(SyscallArgs) /\ numDone \in 0..N /\ count \in Nat
      /\ iter \in [Procs -> Nat] /\ loc \in [Procs -> Locations] /\ cpu \in State
      /\ asked \in [Procs -> IoOps \cup {"NO_OPERATION"}]
      /\ SingleRunner /\ ContextFaithful /\ ExitsCounted
  <2>1. TypeOK /\ SingleRunner /\ ContextFaithful
    BY DEF SystemInv, MessageInv, PlaceInv, ContextInv, TypeInv
  <2>2. syscallFifo \in Seq(SyscallArgs)
    BY <2>1 DEF TypeOK
  <2> QED BY <2>1, <2>2, CountType DEF TypeOK, SystemInv, SystemType
<1> HIDE DEF count
<1>2. numDone' = numDone
  BY DEF A, OpenFifo, InitialListing, maybe_syscall, print_response, EndIteration,
         ExitSyscall, Return, WriteSyscall, ConsumeResponse, AdvancePC, kernelVars, vars
<1>3. cpu.pid = p /\ iter[p] = cpu.PC
  <2>1. p \in running
    BY DEF A, OpenFifo, InitialListing, maybe_syscall, print_response, EndIteration,
           ExitSyscall, Return, Goto, MayRun
  <2> QED BY <1>1, <2>1 DEF SingleRunner, OnCpu, ContextFaithful
<1>4. ASSUME NEW op \in IoOps \cup {"EXIT"}, WriteSyscall(p, op)
      PROVE  /\ iter' = iter
             /\ CountIn(syscallFifo', ExitMessages) = IF op = "EXIT" THEN count + 1 ELSE count
  <2> DEFINE m == [from |-> p, op |-> op]
  <2>1. m \in SyscallArgs /\ (m \in ExitMessages <=> op = "EXIT")
    BY DEF SyscallArgs, ExitMessages
  <2>2. syscallFifo' = Append(syscallFifo, m) /\ iter' = iter
    BY <1>4 DEF WriteSyscall, history
  <2> HIDE DEF m
  <2> QED BY <1>1, <2>1, <2>2, CountAppended DEF count
<1>5. ASSUME \A q \in Left' : q \in Left /\ iter'[q] = iter[q],
             Left \subseteq Left', CountIn(syscallFifo', ExitMessages) = count
      PROVE  ExitsCounted'
  <2>1. Left' = Left
    BY <1>5
  <2> QED BY <1>1, <1>2, <1>5, <2>1 DEF ExitsCounted, count
<1>6. ASSUME NEW from \in Locations \ {"returning", "gone"},
             NEW to \in Locations \ {"returning", "gone"}, Goto(p, from, to),
             \A q \in Procs \ {p} : iter'[q] = iter[q],
             CountIn(syscallFifo', ExitMessages) = count
      PROVE  ExitsCounted'
  <2>1. \A q \in Procs : q \in Left' <=> q \in Left
    BY <1>1, <1>6 DEF Goto, Left
  <2>2. p \notin Left
    BY <1>6 DEF Goto, Left
  <2>3. Left \subseteq Procs /\ Left' \subseteq Procs
    BY DEF Left
  <2> QED BY <1>5, <1>6, <2>1, <2>2, <2>3
<1>7. CASE InitialListing(p)
  BY <1>4, <1>6, <1>7 DEF InitialListing, IoOps, Locations
<1>8. CASE maybe_syscall(p)
  <2>1. PICK op \in IoOps \cup {"NO_OPERATION"} :
          IF op = "NO_OPERATION" THEN UNCHANGED kernelVars ELSE WriteSyscall(p, op)
    BY <1>8 DEF maybe_syscall
  <2>2. Goto(p, "loop", "afterSyscall")
    BY <1>8 DEF maybe_syscall
  <2>3. CASE op = "NO_OPERATION"
    <3>1. UNCHANGED <<iter, syscallFifo>>
      BY <2>1, <2>3 DEF kernelVars, vars, channels, history
    <3> QED BY <1>6, <2>2, <3>1 DEF Locations, count
  <2>4. CASE op # "NO_OPERATION"
    <3>1. op \in IoOps /\ op # "EXIT" /\ WriteSyscall(p, op)
      BY <2>1, <2>4 DEF IoOps
    <3> QED BY <1>4, <1>6, <2>2, <3>1 DEF Locations
  <2> QED BY <2>3, <2>4
<1>9. CASE print_response(p)
  <2>1. UNCHANGED <<iter, syscallFifo>>
    BY <1>9 DEF print_response, ConsumeResponse, kernelVars, vars, channels, history
  <2> QED BY <1>6, <1>9, <2>1 DEF print_response, Locations, count
<1>10. CASE EndIteration(p)
  <2>1. syscallFifo' = syscallFifo /\ \A q \in Procs \ {p} : iter'[q] = iter[q]
    BY <1>1, <1>10 DEF EndIteration, AdvancePC, channels
  <2> QED BY <1>6, <1>10, <2>1 DEF EndIteration, Locations, count
<1>11. CASE ExitSyscall(p)
  <2>1. iter' = iter /\ CountIn(syscallFifo', ExitMessages) = count + 1
    BY <1>4, <1>11 DEF ExitSyscall
  <2>2. Left' = Left \cup {p} /\ p \notin Left
    BY <1>1, <1>11 DEF ExitSyscall, Goto, Left
  <2>3. Cardinality(Left') = Cardinality(Left) + 1
    BY <2>2, LeftFinite, FS_AddElement
  <2>4. cpu.PC = MAX
    BY <1>1, <1>11 DEF ExitSyscall, IterationsLeft, State
  <2>5. \A q \in Left' : iter'[q] = MAX
    BY <1>1, <1>3, <2>1, <2>2, <2>4 DEF ExitsCounted
  <2>6. numDone' + CountIn(syscallFifo', ExitMessages) = Cardinality(Left')
    BY <1>1, <1>2, <2>1, <2>3 DEF ExitsCounted, count
  <2> QED BY <2>5, <2>6 DEF ExitsCounted
<1>12. CASE Return(p)
  <2>1. UNCHANGED <<iter, syscallFifo>>
    BY <1>12 DEF Return, kernelVars, vars, channels, history
  <2>2. Left' = Left
    BY <1>1, <1>12 DEF Return, Left
  <2> QED BY <1>1, <1>2, <2>1, <2>2 DEF ExitsCounted
<1>13. CASE OpenFifo(p)
  <2>1. UNCHANGED <<iter, syscallFifo>>
    BY <1>13 DEF OpenFifo, kernelVars, vars, channels, history
  <2> QED BY <1>6, <1>13, <2>1 DEF OpenFifo, Locations, count
<1> QED BY <1>7, <1>8, <1>9, <1>10, <1>11, <1>12, <1>13 DEF A

LEMMA OpenedInTimeStep ==
  ASSUME SystemInv, NEW p \in Procs, A(p)
  PROVE  OpenedInTime'
<1> SUFFICES ASSUME Regime # "free", NEW g \in Procs, loc'[g] = "gone", NEW q \in Procs
             PROVE  loc'[q] # "opening"
  BY DEF OpenedInTime
<1>1. loc \in [Procs -> Locations] /\ OpenedInTime
  BY DEF SystemInv, SystemType
<1>2. loc'[q] = "opening" => loc[q] = "opening"
  BY <1>1 DEF A, OpenFifo, InitialListing, maybe_syscall, print_response, EndIteration,
              ExitSyscall, Return, Goto
<1>3. CASE Return(p)
  BY <1>2, <1>3 DEF Return
<1>4. CASE ~Return(p)
  <2>1. loc[g] = "gone"
    BY <1>1, <1>4 DEF A, OpenFifo, InitialListing, maybe_syscall, print_response,
                      EndIteration, ExitSyscall, Goto
  <2> QED BY <1>1, <1>2, <2>1 DEF OpenedInTime
<1> QED BY <1>3, <1>4

\* While the kernel goes on it has not counted all the exits: if every process is
\* gone, one is unread.
LEMMA SomeExitIsUnread ==
  ASSUME SystemInv, \A p \in Procs : loc[p] = "gone", kpc # "exited"
  PROVE  syscallFifo # <<>>
<1> SUFFICES ASSUME syscallFifo = <<>> PROVE kpc = "exited"
  OBVIOUS
<1>1. Left = Procs
  BY DEF Left
<1>2. CountIn(syscallFifo, ExitMessages) = 0
  BY CountType DEF SystemInv, MessageInv, PlaceInv, ContextInv, TypeInv, TypeOK
<1>3. numDone = N
  BY <1>1, <1>2, LeftFinite
  DEF SystemInv, ExitsCounted, MessageInv, PlaceInv, ContextInv, TypeInv, TypeOK
<1> QED BY <1>3 DEF SystemInv, MessageInv, PlaceInv, DoneCount

------------------------------------------------------------------------------
(***************************************************************************)
(* The environment that KernelSim assumes covers A.c and the controller.   *)
(***************************************************************************)
\* Every step of A.c is one the kernel allows its applications, or none.
LEMMA AppRefines ==
  ASSUME NEW p \in Procs, A(p)
  PROVE  AppStep(p) \/ UNCHANGED vars
<1> USE DEF Goto, kernelVars, AppStep
<1>1. CASE InitialListing(p)
  BY <1>1 DEF InitialListing, IoOps
<1>2. CASE maybe_syscall(p)
  BY <1>2 DEF maybe_syscall
<1>3. CASE print_response(p)
  BY <1>3 DEF print_response
<1>4. CASE EndIteration(p)
  BY <1>4 DEF EndIteration
<1>5. CASE ExitSyscall(p)
  BY <1>5 DEF ExitSyscall
<1>6. CASE Return(p) \/ OpenFifo(p)
  BY <1>6 DEF Return, OpenFifo
<1> QED BY <1>1, <1>2, <1>3, <1>4, <1>5, <1>6 DEF A

\* Unless the scheduling is free the FIFO may be at its end, but not read there:
\* an exit is unread as long as the kernel goes on.
LEMMA KernelRefines ==
  ASSUME SystemInv, KernelStep(HungUp)
  PROVE  \E hungUp \in HangUps : KernelStep(hungUp)
<1>1. HungUp \in BOOLEAN
  BY DEF HungUp
<1>2. CASE Regime = "free"
  BY <1>1, <1>2 DEF HangUps
<1>3. CASE Regime # "free" /\ ~HungUp
  <2>1. HungUp = FALSE
    BY <1>1, <1>3
  <2> QED BY <1>3, <2>1 DEF HangUps
<1>4. CASE Regime # "free" /\ HungUp
  <2>1. \A p \in Procs : loc[p] = "gone"
    BY <1>4 DEF HungUp, SystemInv, OpenedInTime
  <2>2. kpc # "exited" => syscallFifo # <<>>
    BY <2>1, SomeExitIsUnread
  <2>3. KernelStep(FALSE)
    <3>1. CASE Pselect(HungUp)
      <4>1. syscallFifo # <<>> \/ HungUp <=> syscallFifo # <<>> \/ FALSE
        BY <2>2, <3>1 DEF Pselect
      <4>2. Pselect(FALSE)
        BY <3>1, <4>1 DEF Pselect
      <4> QED BY <4>2 DEF KernelStep
    <3>2. CASE ~Pselect(HungUp)
      BY <1>4, <2>2, <3>2 DEF KernelStep, PselectTimeout, EmptyRead
    <3> QED BY <3>1, <3>2
  <2> QED BY <1>4, <2>3 DEF HangUps
<1> QED BY <1>2, <1>3, <1>4

LEMMA SystemStep == SystemInv /\ [SystemNext]_allVars => [Next]_vars
<1> SUFFICES ASSUME SystemInv, [SystemNext]_allVars PROVE [Next]_vars
  OBVIOUS
<1>1. ASSUME NEW p \in Procs, A(p) PROVE [Next]_vars
  BY <1>1, AppRefines DEF Next
<1>2. CASE interControllerSim
  <2>1. \E irq \in IrqTypes : RaiseIrq(irq)
    BY <1>2, BurstTail DEF interControllerSim, TimeSlice, SendDrawn, SystemInv,
                           SystemType, IrqTypes
  <2> QED BY <2>1 DEF Next
<1>3. CASE KernelStep(HungUp)
  BY <1>3, KernelRefines DEF Next
<1>4. CASE SignalStep \/ NetworkStep \/ UNCHANGED vars
  BY <1>4 DEF Next
<1> QED BY <1>1, <1>2, <1>3, <1>4 DEF SystemNext, allVars

LEMMA SystemInvStep == SystemInv /\ [SystemNext]_allVars => SystemInv'
<1> SUFFICES ASSUME SystemInv, [SystemNext]_allVars PROVE SystemInv'
  OBVIOUS
<1>1. MessageInv' /\ SystemType'
  BY SystemStep, MessageStep, SystemTypeStep DEF SystemInv
<1>2. ExitsCounted' /\ OpenedInTime'
  <2>1. CASE (KernelStep(HungUp) \/ SignalStep \/ NetworkStep) /\ UNCHANGED apps
    BY <2>1, ExitsRead DEF SystemInv, OpenedInTime, apps
  <2>2. ASSUME NEW p \in Procs, A(p) PROVE ExitsCounted' /\ OpenedInTime'
    BY <2>2, ExitsWritten, OpenedInTimeStep
  <2>3. CASE UNCHANGED allVars \/ (interControllerSim /\ UNCHANGED apps)
    <3>1. UNCHANGED <<numDone, syscallFifo, iter, loc>>
      BY <2>3 DEF allVars, vars, apps, channels, history, interControllerSim, TimeSlice,
                  SendDrawn, RaiseIrq
    <3> QED BY <3>1 DEF SystemInv, ExitsCounted, Left, OpenedInTime
  <2> QED BY <2>1, <2>2, <2>3 DEF SystemNext
<1> QED BY <1>1, <1>2 DEF SystemInv

LEMMA SystemCorrect == SystemSpec => []SystemInv
BY SystemInvInit, SystemInvStep, PTL DEF SystemSpec

\* The whole of trab2 is an instance of the kernel with its general environment
\* (ImplementsKernelSim): what holds of KernelSim holds of it.  Its FIFO hangs up
\* unread only where the environment of KernelSim may hang it up.
THEOREM SystemImplementsKernelSim == SystemSpec => ImplementsKernelSim
<1>1. SystemInit => Init
  BY DEF SystemInit
<1> QED
  BY <1>1, SystemStep, SystemCorrect, PTL DEF SystemSpec, ImplementsKernelSim, Spec

\* In the whole of trab2 too: nobody is lost or in two places, one process runs
\* at a time and with its own context, the answer of a process that waits is
\* never misrouted nor lost unnoticed, and the schedule is that of Scheduler.
THEOREM SystemKeepsThePromises ==
  SystemSpec => /\ [](ExactlyOnePlace /\ SingleRunner /\ ContextFaithful)
                /\ [](OneMessagePerWaiter /\ WaiterIsAnswerable)
                /\ ImplementsScheduler
<1>1. SystemSpec => Spec
  BY SystemImplementsKernelSim DEF ImplementsKernelSim
<1> QED
  BY <1>1, NoProcessLost, OneRunnerAtATime, ContextsNeverMixed, NoStaleRouting,
     AnswersAreOnlyLostKnowingly, KernelImplementsScheduler, PTL

\* The kernel ends happily only when every process has done all its iterations
\* and has written its own exit, in whatever order its exits were charged
\* (HappyEndIsReal).
THEOREM HappyEndNeedsEveryExit == SystemSpec => []HappyEndIsReal
<1>1. SystemInv => HappyEndIsReal
  <2> SUFFICES ASSUME SystemInv, kpc = "exited"
               PROVE  \A p \in Procs : loc[p] \in {"returning", "gone"} /\ iter[p] = MAX
    BY DEF HappyEndIsReal
  <2>1. /\ numDone = N /\ syscallFifo \in Seq(SyscallArgs) /\ ExitsCounted
    BY DEF SystemInv, MessageInv, PlaceInv, DoneCount, ContextInv, TypeInv, TypeOK
  <2>2. CountIn(syscallFifo, ExitMessages) \in Nat
    BY <2>1, CountType
  <2>3. Cardinality(Left) >= N
    BY <2>1, <2>2 DEF ExitsCounted
  <2>4. Left = Procs
    <3>1. Left \in SUBSET Procs
      BY DEF Left
    <3>2. Cardinality(Left) <= N
      BY <3>1, LeftFinite, FS_Subset
    <3>3. Cardinality(Left) = Cardinality(Procs)
      BY <2>3, <3>2, LeftFinite
    <3> QED BY <3>1, <3>3, LeftFinite, FS_Subset
  <2> QED BY <2>1, <2>4 DEF ExitsCounted, Left
<1> QED BY <1>1, SystemCorrect, PTL

\* The processes that have made no syscall yet.
Starting == {p \in Procs : loc[p] \in {"opening", "start"}}

\* From pselect to the read, a pass that has no syscall to read has a starter.
ReadInv ==
  /\ kpc \in {"stop", "udp", "syscall"} /\ pending.syscall =>
       syscallFifo # <<>> \/ Starting # {}
  /\ kpc = "syscall" => pending.syscall

LEMMA ReadKernel ==
  ASSUME SystemInv, ReadInv, KernelStep(HungUp), UNCHANGED apps
  PROVE  ReadInv'
<1>1. Starting' = Starting
  BY DEF Starting, apps
<1>2. CASE Pselect(HungUp)
  <2>1. /\ pending'.syscall <=> syscallFifo # <<>> \/ HungUp
        /\ kpc = "select" /\ kpc' = "stop" /\ syscallFifo' = syscallFifo
    BY <1>2 DEF Pselect, channels
  <2>2. ASSUME HungUp, syscallFifo = <<>> PROVE Starting # {}
    <3>1. PICK p \in Procs : loc[p] # "gone"
      BY <2>1, <2>2, SomeExitIsUnread
    <3> QED BY <2>2, <3>1 DEF HungUp, Starting
  <2> QED BY <1>1, <2>1, <2>2 DEF ReadInv
<1>3. CASE StopCurrent
  BY <1>1, <1>3 DEF StopCurrent, ReadInv, AfterStop, AfterUdp, AfterSyscall, channels
<1>4. CASE handle_udp_response
  BY <1>1, <1>4 DEF handle_udp_response, ReadInv, AfterUdp, AfterSyscall
<1>5. CASE \/ CheckPaused \/ PselectTimeout(HungUp) \/ handle_syscall
           \/ ImpossibleSyscall \/ EmptyRead(HungUp) \/ handle_irq \/ ResumeCurrent
  <2>1. kpc' \notin {"stop", "udp", "syscall"}
    BY <1>5 DEF CheckPaused, PselectTimeout, handle_syscall, Block, Finish, AfterSyscall,
                ImpossibleSyscall, EmptyRead, handle_irq, ResumeCurrent
  <2> QED BY <2>1 DEF ReadInv
<1> QED BY <1>2, <1>3, <1>4, <1>5 DEF KernelStep

LEMMA ReadApp ==
  ASSUME SystemInv, ReadInv, NEW p \in Procs, A(p)
  PROVE  ReadInv'
<1>1. UNCHANGED <<kpc, pending>>
  BY DEF A, OpenFifo, InitialListing, maybe_syscall, print_response, EndIteration,
         ExitSyscall, Return, WriteSyscall, ConsumeResponse, AdvancePC, kernelVars, vars
<1>2. /\ loc \in [Procs -> Locations] /\ syscallFifo \in Seq(SyscallArgs)
      /\ asked \in [Procs -> IoOps \cup {"NO_OPERATION"}]
  BY DEF SystemInv, SystemType, MessageInv, PlaceInv, ContextInv, TypeInv, TypeOK
<1>3. ASSUME NEW op \in IoOps \cup {"EXIT"}, WriteSyscall(p, op) PROVE syscallFifo' # <<>>
  <2> DEFINE m == [from |-> p, op |-> op]
  <2>1. m \in SyscallArgs /\ syscallFifo' = Append(syscallFifo, m)
    BY <1>3 DEF SyscallArgs, WriteSyscall
  <2> HIDE DEF m
  <2> QED BY <1>2, <2>1
<1>4. CASE InitialListing(p)
  <2>1. syscallFifo' # <<>>
    BY <1>3, <1>4 DEF InitialListing, IoOps
  <2> QED BY <1>1, <2>1 DEF ReadInv
<1>5. CASE ~InitialListing(p)
  <2>1. Starting \subseteq Starting'
    BY <1>2, <1>5 DEF A, OpenFifo, maybe_syscall, print_response, EndIteration,
                      ExitSyscall, Return, Goto, Starting
  <2>2. syscallFifo # <<>> => syscallFifo' # <<>>
    <3>1. \/ syscallFifo' = syscallFifo
          \/ \E op \in IoOps \cup {"EXIT"} : WriteSyscall(p, op)
      BY <1>5 DEF A, OpenFifo, maybe_syscall, print_response, EndIteration, ExitSyscall,
                  Return, ConsumeResponse, AdvancePC, kernelVars, vars, channels
    <3> QED BY <1>3, <3>1
  <2> QED BY <1>1, <2>1, <2>2 DEF ReadInv
<1> QED BY <1>4, <1>5

LEMMA ReadStep == SystemInv /\ ReadInv /\ [SystemNext]_allVars => ReadInv'
<1> SUFFICES ASSUME SystemInv, ReadInv, [SystemNext]_allVars PROVE ReadInv'
  OBVIOUS
<1> USE DEF channels, history
<1>1. CASE KernelStep(HungUp) /\ UNCHANGED apps
  BY <1>1, ReadKernel
<1>2. ASSUME NEW p \in Procs, A(p) PROVE ReadInv'
  BY <1>2, ReadApp
<1>3. ASSUME UNCHANGED <<pending, syscallFifo, loc>>,
             kpc' = kpc \/ kpc' \in {"top", "killed"}
      PROVE  ReadInv'
  BY <1>3 DEF ReadInv, Starting
<1>4. CASE SignalStep /\ UNCHANGED apps
  BY <1>3, <1>4 DEF SignalStep, manual_pause, manual_unpause, handle_ctrl_c, AfterSignal, apps
<1>5. CASE NetworkStep /\ UNCHANGED apps
  BY <1>3, <1>5 DEF NetworkStep, SfssReply, LoseMessage, apps
<1>6. CASE interControllerSim /\ UNCHANGED apps
  BY <1>3, <1>6 DEF interControllerSim, TimeSlice, SendDrawn, RaiseIrq, apps
<1>7. CASE UNCHANGED allVars
  BY <1>3, <1>7 DEF allVars, vars, apps
<1> QED BY <1>1, <1>2, <1>4, <1>5, <1>6, <1>7 DEF SystemNext

\* The kernel goes to read a syscall that is not there only while some process has
\* made none yet, with any scheduling of the host: never because all have exited,
\* whoever their exits were charged to (EndOfFileIsALateStart).
THEOREM OnlyALateStartHangsUp == SystemSpec => []EndOfFileIsALateStart
<1>1. SystemInit => ReadInv
  BY DEF SystemInit, Init, ReadInv
<1>2. ReadInv => EndOfFileIsALateStart
  BY DEF ReadInv, Starting, EndOfFileIsALateStart
<1> QED BY <1>1, <1>2, ReadStep, SystemCorrect, PTL DEF SystemSpec

------------------------------------------------------------------------------
(***************************************************************************)
(* ResponseForMyRequest, when the kernel stops a process before it acts    *)
(* again.  From the write of a request to the look at its response, the    *)
(* process goes through three stages, each of which knows what it asked.   *)
(***************************************************************************)
\* Between the syscall and the look at current_response.
Asking(p) == loc[p] \in {"afterListing", "afterSyscall"} /\ asked[p] # "NO_OPERATION"

\* What process p finds, or will find, in the shared memory.
Context(p) == IF cpu.pid = p THEN cpu ELSE pcb[p]

\* The request is unread; or its caller waits, with what it asked on record; or
\* the response is in its context, and nothing it wrote is unread.
Answering(p) ==
  \/ syscallFifo = <<[from |-> p, op |-> asked[p]]>>
  \/ p \in Waiting /\ pcb[p].op = asked[p]
  \/ /\ p \notin Waiting
     /\ cpu.pid = p => syscallFifo = <<>>
     /\ Context(p).resp = asked[p]

AskInv == \A p \in Procs : Asking(p) => Answering(p)

\* After a switch every process, the one on the CPU included, has in its context
\* what the table says.
LEMMA SwitchContexts ==
  ASSUME cpu \in State, OwnPids, NEW st \in State, st.pid = cpu.pid,
         NEW states \in [Procs -> State], \A p \in Procs : states[p].pid = p,
         NEW dest \in Procs \cup {NoProc}, switch_context(cpu.pid, st, states, dest)
  PROVE  \A p \in Procs : /\ pcb'[p] = IF cpu.pid = p THEN st ELSE states[p]
                          /\ Context(p)' = pcb'[p]
<1>1. \A p \in Procs : pcb'[p] = IF cpu.pid = p THEN st ELSE states[p]
  BY SwitchTable DEF OnCpu, Procs, NoProc
<1>2. \A p \in Procs : pcb'[p].pid = p
  BY <1>1
<1>3. \A p \in Procs : cpu'.pid = p => cpu' = pcb'[p]
  BY <1>2 DEF switch_context, IdleCpu, Procs, NoProc
<1> QED BY <1>1, <1>3 DEF Context

\* What the proofs below use of the invariants of the kernel.
LEMMA AskFacts ==
  ASSUME MessageInv
  PROVE  /\ TypeOK /\ cpu \in State /\ pcb \in [Procs -> State] /\ OwnPids /\ SingleRunner
         /\ Waiting \subseteq Procs /\ cpu.pid \notin Waiting
<1>1. TypeOK /\ OwnPids /\ SingleRunner
  BY DEF MessageInv, PlaceInv, ContextInv, TypeInv
<1>2. Waiting \subseteq Procs /\ Waiting \cap OnCpu = {}
  BY MessageFacts DEF MessageInv, Waiting
<1>3. cpu \in State /\ pcb \in [Procs -> State]
  BY <1>1 DEF TypeOK
<1>4. cpu.pid \notin Waiting
  <2>1. NoProc \notin Procs
    BY DEF Procs, NoProc
  <2>2. cpu.pid # NoProc => cpu.pid \in OnCpu
    BY DEF OnCpu
  <2> QED BY <1>2, <2>1, <2>2
<1> QED BY <1>1, <1>2, <1>3, <1>4

\* A syscall changes the place and the context of its caller only.
LEMMA SyscallContexts ==
  ASSUME MessageInv, handle_syscall
  PROVE  /\ cpu.pid \in Procs
         /\ \A p \in Procs \ {cpu.pid} : pcb'[p] = pcb[p] /\ Context(p)' = Context(p)
         /\ Waiting \subseteq Waiting' /\ Waiting' \subseteq Waiting \cup {cpu.pid}
         /\ Head(syscallFifo).op # "EXIT" =>
              cpu.pid \in Waiting' /\ pcb'[cpu.pid].op = Head(syscallFifo).op
<1> DEFINE o == Head(syscallFifo).op
           c == cpu.pid
<1>1. /\ cpu \in State /\ pcb \in [Procs -> State] /\ OwnPids /\ c \in Procs
      /\ irq1Q \in Seq(Procs) /\ irq2Q \in Seq(Procs)
      /\ Pop(readyQ) \in Procs \cup {NoProc}
  BY AskFacts, PopType DEF TypeOK, handle_syscall, State
<1>2. ASSUME NEW st \in State, st.pid = c, switch_context(c, st, pcb, Pop(readyQ))
      PROVE  /\ \A p \in Procs \ {c} : pcb'[p] = pcb[p] /\ Context(p)' = Context(p)
             /\ pcb'[c] = st
  <2>1. \A p \in Procs : pcb[p].pid = p
    BY <1>1 DEF OwnPids
  <2>2. \A p \in Procs : pcb'[p] = (IF c = p THEN st ELSE pcb[p]) /\ Context(p)' = pcb'[p]
    BY <1>1, <1>2, <2>1, SwitchContexts
  <2> QED BY <1>1, <2>2 DEF Context
<1>3. CASE o \in IoOps /\ Block(o)
  <2> DEFINE st == [cpu EXCEPT !.op = o, !.current = "WAITING_FOR_IO"]
  <2>1. st \in State /\ st.pid = c /\ st.op = o
    BY <1>1, <1>3 DEF State
  <2>2. switch_context(c, st, pcb, Pop(readyQ))
    BY <1>3 DEF Block
  <2>3. /\ \A p \in Procs \ {c} : pcb'[p] = pcb[p] /\ Context(p)' = Context(p)
        /\ pcb'[c].op = o
    <3> HIDE DEF st
    <3> QED BY <1>2, <2>1, <2>2
  <2>4. Waiting' = Waiting \cup {c}
    <3>1. /\ Range(Append(irq1Q, c)) = Range(irq1Q) \cup {c}
          /\ Range(Append(irq2Q, c)) = Range(irq2Q) \cup {c}
      BY <1>1, AppendRange
    <3>2. \/ irq1Q' = Append(irq1Q, c) /\ irq2Q' = irq2Q
          \/ irq1Q' = irq1Q /\ irq2Q' = Append(irq2Q, c)
      BY <1>3 DEF Block, IoOps
    <3> QED BY <3>1, <3>2 DEF Waiting
  <2> QED BY <1>1, <2>3, <2>4
<1>4. CASE o = "EXIT" /\ Finish
  <2> DEFINE st == [cpu EXCEPT !.op = "EXIT", !.current = "DONE"]
  <2>1. st \in State /\ st.pid = c
    BY <1>1 DEF State
  <2>2. Waiting' = Waiting
    BY <1>4 DEF Finish, Waiting
  <2>3. \A p \in Procs \ {c} : pcb'[p] = pcb[p] /\ Context(p)' = Context(p)
    <3>1. CASE AllDone(numDone + 1)
      <4>1. cpu' = st /\ pcb' = pcb
        BY <1>4, <3>1 DEF Finish
      <4> QED BY <2>1, <4>1 DEF Context
    <3>2. CASE ~AllDone(numDone + 1)
      <4>1. switch_context(c, st, pcb, Pop(readyQ))
        BY <1>4, <3>2 DEF Finish
      <4> HIDE DEF st
      <4> QED BY <1>2, <2>1, <4>1
    <3> QED BY <3>1, <3>2
  <2> QED BY <1>1, <1>4, <2>2, <2>3
<1> QED BY <1>3, <1>4 DEF handle_syscall

\* An interrupt changes no response but that of the process it releases, and no
\* record of a process that still waits.
IrqContexts ==
  /\ \A p \in Procs : p \notin Waiting => Context(p)'.resp = Context(p).resp
  /\ \A p \in Waiting : p \in Waiting' => pcb'[p].op = pcb[p].op

LEMMA TimesliceContexts ==
  ASSUME MessageInv, handle_irq0_timeslice
  PROVE  IrqContexts
<1>1. /\ cpu \in State /\ pcb \in [Procs -> State] /\ OwnPids /\ readyQ \in Seq(Procs)
      /\ cpu.pid \notin Waiting /\ Waiting \subseteq Procs
  BY AskFacts DEF TypeOK
<1>2. CASE cpu.pid = NoProc \/ readyQ = <<>>
  <2>1. UNCHANGED <<cpu, pcb>>
    BY <1>2 DEF handle_irq0_timeslice
  <2> QED BY <2>1 DEF IrqContexts, Context
<1>3. CASE ~(cpu.pid = NoProc \/ readyQ = <<>>)
  <2> DEFINE st == [cpu EXCEPT !.current = "READY"]
  <2>1. st \in State /\ st.pid = cpu.pid /\ st.resp = cpu.resp
    BY <1>1 DEF State
  <2>2. switch_context(cpu.pid, st, pcb, Pop(readyQ)) /\ Pop(readyQ) \in Procs
    BY <1>1, <1>3, PopType DEF handle_irq0_timeslice
  <2>3. \A p \in Procs : pcb[p].pid = p
    BY <1>1 DEF OwnPids
  <2> HIDE DEF st
  <2>4. \A p \in Procs : /\ pcb'[p] = IF cpu.pid = p THEN st ELSE pcb[p]
                         /\ Context(p)' = pcb'[p]
    BY <1>1, <2>1, <2>2, <2>3, SwitchContexts
  <2> QED BY <1>1, <2>1, <2>4 DEF IrqContexts, Context
<1> QED BY <1>2, <1>3

LEMMA DeviceContexts ==
  ASSUME MessageInv,
         NEW ioQ \in Seq(Procs), IsInjective(ioQ), Range(ioQ) \subseteq Waiting,
         NEW respQ \in Seq(Message),
         NEW newQ, NEW newRespQ, DeviceStep(ioQ, newQ, respQ, newRespQ),
         Pop(ioQ) \notin Range(newQ) => Pop(ioQ) \notin Waiting'
  PROVE  IrqContexts
<1> DEFINE io == Pop(ioQ)
           search == find_response_from_process(io, respQ)
           preempted == IF cpu.pid = NoProc THEN cpu ELSE [cpu EXCEPT !.current = "READY"]
           states == [pcb EXCEPT ![io] = Delivered(@, search.popped)]
<1>1. /\ TypeOK /\ cpu \in State /\ pcb \in [Procs -> State] /\ OwnPids
      /\ cpu.pid \notin Waiting /\ Waiting \subseteq Procs
  BY AskFacts
<1>2. preempted.pid = cpu.pid /\ preempted.resp = cpu.resp
  BY <1>1 DEF State
<1>3. CASE UNCHANGED pcb /\ (cpu' = cpu \/ cpu' = preempted)
  BY <1>1, <1>2, <1>3 DEF IrqContexts, Context
<1>4. CASE /\ ioQ # <<>> /\ newQ = Rest(ioQ) /\ search.found
           /\ switch_context(cpu.pid, preempted, states, io)
  <2>1. preempted \in State /\ io \in Procs /\ states \in [Procs -> State]
    BY <1>1, <1>4, DeviceIrqType
  <2>2. Range(newQ) = Range(ioQ) \ {io} /\ io \in Range(ioQ)
    BY <1>4, RestRange
  <2>3. io \in Waiting /\ io \notin Waiting'
    BY <2>2
  <2>4. states[io].pid = io /\ \A p \in Procs \ {io} : states[p] = pcb[p]
    <3>1. pcb[io] \in State /\ pcb[io].pid = io
      BY <1>1, <2>1 DEF OwnPids
    <3>2. Delivered(pcb[io], search.popped).pid = pcb[io].pid
      BY <3>1 DEF Delivered, clear_syscall_args, State
    <3> QED BY <1>1, <2>1, <3>1, <3>2
  <2>5. \A p \in Procs : states[p].pid = p
    <3> HIDE DEF states, io
    <3> QED BY <1>1, <2>1, <2>4 DEF OwnPids
  <2>6. \A p \in Procs : /\ pcb'[p] = IF cpu.pid = p THEN preempted ELSE states[p]
                         /\ Context(p)' = pcb'[p]
    <3> HIDE DEF states, preempted, io
    <3> QED BY <1>1, <1>2, <1>4, <2>1, <2>5, SwitchContexts
  <2> HIDE DEF states, preempted, io
  <2>7. ASSUME NEW p \in Procs, p \notin Waiting PROVE Context(p)'.resp = Context(p).resp
    BY <1>2, <2>3, <2>4, <2>6, <2>7 DEF Context
  <2>8. ASSUME NEW p \in Waiting, p \in Waiting' PROVE pcb'[p].op = pcb[p].op
    BY <1>1, <2>3, <2>4, <2>6, <2>8
  <2> QED BY <2>7, <2>8 DEF IrqContexts
<1> QED BY <1>3, <1>4 DEF DeviceStep

\* The kernel reads the one syscall there is, that of the process on the CPU.
LEMMA AskRead ==
  ASSUME MessageInv, PromptInv, SystemType, AskInv, handle_syscall, UNCHANGED apps
  PROVE  AskInv'
<1>1. PICK op : syscallFifo = <<[from |-> cpu.pid, op |-> op]>>
  BY DEF handle_syscall, PromptInv
<1>2. syscallFifo' = <<>> /\ Head(syscallFifo).op = op
  BY <1>1 DEF handle_syscall
<1>3. /\ cpu.pid \in Procs
      /\ \A p \in Procs \ {cpu.pid} : pcb'[p] = pcb[p] /\ Context(p)' = Context(p)
      /\ Waiting \subseteq Waiting' /\ Waiting' \subseteq Waiting \cup {cpu.pid}
      /\ op # "EXIT" => cpu.pid \in Waiting' /\ pcb'[cpu.pid].op = op
  BY <1>2, SyscallContexts
<1>4. SUFFICES ASSUME NEW p \in Procs, Asking(p)' PROVE Answering(p)'
  BY DEF AskInv
<1>5. Asking(p) /\ Answering(p) /\ asked'[p] = asked[p]
  BY <1>4 DEF AskInv, Asking, apps
<1>6. CASE p = cpu.pid
  <2>1. op = asked[p]
    <3>1. p \notin Waiting /\ syscallFifo # <<>>
      BY <1>1, <1>6, AskFacts
    <3>2. [from |-> p, op |-> op] = [from |-> p, op |-> asked[p]]
      BY <1>1, <1>5, <1>6, <3>1 DEF Answering
    <3> QED BY <3>2
  <2>2. op # "EXIT"
    BY <1>5, <2>1 DEF SystemType, Asking, IoOps
  <2> QED BY <1>3, <1>5, <1>6, <2>1, <2>2 DEF Answering
<1>7. CASE p # cpu.pid
  <2>1. syscallFifo # <<[from |-> p, op |-> asked[p]]>>
    <3>1. ASSUME <<[from |-> cpu.pid, op |-> op]>> = <<[from |-> p, op |-> asked[p]]>>
          PROVE  FALSE
      <4>1. [from |-> cpu.pid, op |-> op] = [from |-> p, op |-> asked[p]]
        BY <3>1
      <4> QED BY <1>7, <4>1
    <3> QED BY <1>1, <3>1
  <2>2. pcb'[p] = pcb[p] /\ Context(p)' = Context(p) /\ (p \in Waiting' <=> p \in Waiting)
    BY <1>3, <1>7
  <2> QED BY <1>2, <1>5, <2>1, <2>2 DEF Answering
<1> QED BY <1>6, <1>7

\* An interrupt is handled when no syscall is unread, and releases a process with
\* the response to what is on record for it.
LEMMA AskIrq ==
  ASSUME MessageInv, PromptInv, AskInv, Released, handle_irq, UNCHANGED apps
  PROVE  AskInv'
<1>1. syscallFifo = <<>> /\ syscallFifo' = <<>>
  BY DEF handle_irq, PromptInv
<1>2. Waiting' \subseteq Waiting
  BY PlaceIrq DEF MessageInv, Promise!Rotate, Promise!Unblock, Promise!schedulerVars
<1>3. /\ irq1Q \in Seq(Procs) /\ irq2Q \in Seq(Procs)
      /\ fileRespQ \in Seq(Message) /\ dirRespQ \in Seq(Message)
      /\ IsInjective(irq1Q) /\ IsInjective(irq2Q)
      /\ Range(irq1Q) \cap Range(irq2Q) = {}
      /\ Range(irq1Q) \subseteq Waiting /\ Range(irq2Q) \subseteq Waiting
  BY MessageFacts DEF MessageInv, Waiting
<1>4. IrqContexts
  <2>1. CASE handle_irq0_timeslice
    BY <2>1, TimesliceContexts
  <2>2. CASE handle_irq1_device
    <3>1. irq2Q' = irq2Q /\ DeviceStep(irq1Q, irq1Q', fileRespQ, fileRespQ')
      BY <2>2 DEF handle_irq1_device, DeviceIrq, DeviceStep
    <3>2. CASE irq1Q = <<>>
      <4>1. UNCHANGED <<cpu, pcb>>
        BY <3>1, <3>2 DEF DeviceStep
      <4> QED BY <4>1 DEF IrqContexts, Context
    <3>3. CASE irq1Q # <<>>
      <4>1. Pop(irq1Q) \notin Range(irq2Q)
        BY <1>3, <3>3, RestRange
      <4>2. Pop(irq1Q) \notin Range(irq1Q') => Pop(irq1Q) \notin Waiting'
        BY <3>1, <4>1 DEF Waiting
      <4> QED BY <1>3, <3>1, <4>2, DeviceContexts
    <3> QED BY <3>2, <3>3
  <2>3. CASE handle_irq2_device
    <3>1. irq1Q' = irq1Q /\ DeviceStep(irq2Q, irq2Q', dirRespQ, dirRespQ')
      BY <2>3 DEF handle_irq2_device, DeviceIrq, DeviceStep
    <3>2. CASE irq2Q = <<>>
      <4>1. UNCHANGED <<cpu, pcb>>
        BY <3>1, <3>2 DEF DeviceStep
      <4> QED BY <4>1 DEF IrqContexts, Context
    <3>3. CASE irq2Q # <<>>
      <4>1. Pop(irq2Q) \notin Range(irq1Q)
        BY <1>3, <3>3, RestRange
      <4>2. Pop(irq2Q) \notin Range(irq2Q') => Pop(irq2Q) \notin Waiting'
        BY <3>1, <4>1 DEF Waiting
      <4> QED BY <1>3, <3>1, <4>2, DeviceContexts
    <3> QED BY <3>2, <3>3
  <2> QED BY <2>1, <2>2, <2>3 DEF handle_irq
<1>5. SUFFICES ASSUME NEW p \in Procs, Asking(p)' PROVE Answering(p)'
  BY DEF AskInv
<1>6. Asking(p) /\ Answering(p) /\ asked'[p] = asked[p]
  BY <1>5 DEF AskInv, Asking, apps
<1>7. \/ p \in Waiting /\ pcb[p].op = asked[p]
      \/ p \notin Waiting /\ Context(p).resp = asked[p]
  BY <1>1, <1>6 DEF Answering
<1>8. CASE p \notin Waiting
  BY <1>1, <1>2, <1>4, <1>6, <1>7, <1>8 DEF Answering, IrqContexts
<1>9. CASE p \in Waiting /\ p \in Waiting'
  BY <1>4, <1>6, <1>7, <1>9 DEF Answering, IrqContexts
<1>10. CASE p \in Waiting /\ p \notin Waiting'
  <2>1. cpu'.pid = p /\ cpu'.resp = pcb[p].op
    BY <1>10 DEF Released
  <2> QED BY <1>1, <1>6, <1>7, <1>10, <2>1 DEF Answering, Context
<1> QED BY <1>8, <1>9, <1>10

\* A process acts when no syscall is unread: what it writes is its own request,
\* and it looks at the response in the same step that ends its stage.
LEMMA AskApp ==
  ASSUME Regime = "prompt", MessageInv, SystemType, AskInv, NEW p \in Procs, A(p)
  PROVE  AskInv'
<1>0. CASE Return(p) \/ OpenFifo(p)
  <2> SUFFICES ASSUME NEW q \in Procs, Asking(q)' PROVE Answering(q)'
    BY DEF AskInv
  <2>1. UNCHANGED <<cpu, pcb, irq1Q, irq2Q, syscallFifo, asked>>
    BY <1>0 DEF Return, OpenFifo, kernelVars, vars, queues, channels
  <2>2. Asking(q)
    BY <1>0, <2>1 DEF Return, OpenFifo, Goto, Asking, SystemType
  <2> QED BY <2>1, <2>2 DEF AskInv, Answering, Waiting, Context
<1> SUFFICES ASSUME ~Return(p), ~OpenFifo(p) PROVE AskInv'
  BY <1>0
<1>1. p = cpu.pid /\ syscallFifo = <<>>
  BY AskFacts DEF A, InitialListing, maybe_syscall, print_response, EndIteration,
     ExitSyscall, Goto, MayRun, Quiet, SingleRunner, OnCpu
<1>2. /\ cpu \in State /\ p \notin Waiting /\ UNCHANGED <<pcb, irq1Q, irq2Q>>
      /\ cpu'.pid = p /\ Waiting' = Waiting
  <2>1. cpu \in State /\ p \notin Waiting
    BY <1>1, AskFacts
  <2>2. UNCHANGED <<pcb, irq1Q, irq2Q>> /\ cpu'.pid = cpu.pid
    BY <2>1 DEF A, InitialListing, maybe_syscall, print_response, EndIteration, ExitSyscall,
       WriteSyscall, ConsumeResponse, AdvancePC, kernelVars, vars, queues, State
  <2> QED BY <1>1, <2>1, <2>2 DEF Waiting
<1>3. ASSUME NEW q \in Procs \ {p}, Asking(q)' PROVE Answering(q)'
  <2>1. loc'[q] = loc[q] /\ asked'[q] = asked[q]
    BY <1>3 DEF A, InitialListing, maybe_syscall, print_response, EndIteration, ExitSyscall,
       Goto, SystemType
  <2>2. Answering(q)
    BY <1>3, <2>1 DEF AskInv, Asking
  <2>3. Context(q)' = Context(q) /\ pcb'[q] = pcb[q] /\ cpu'.pid # q
    BY <1>1, <1>2, <1>3 DEF Context
  <2> QED BY <1>1, <1>2, <2>1, <2>2, <2>3 DEF Answering
<1>4. ASSUME Asking(p)' PROVE Answering(p)'
  <2>1. loc \in [Procs -> Locations] /\ asked \in [Procs -> IoOps \cup {"NO_OPERATION"}]
    BY DEF SystemType
  <2>2. ASSUME NEW op, WriteSyscall(p, op), asked'[p] = op PROVE Answering(p)'
    BY <1>1, <2>2 DEF WriteSyscall, Answering
  <2>3. CASE InitialListing(p)
    BY <2>1, <2>2, <2>3 DEF InitialListing
  <2>4. CASE maybe_syscall(p)
    <3>1. PICK op \in IoOps \cup {"NO_OPERATION"} :
            /\ asked' = [asked EXCEPT ![p] = op]
            /\ op # "NO_OPERATION" => WriteSyscall(p, op)
      BY <2>4 DEF maybe_syscall
    <3>2. asked'[p] = op /\ op # "NO_OPERATION"
      BY <1>4, <2>1, <3>1 DEF Asking
    <3> QED BY <2>2, <3>1, <3>2
  <2>5. CASE print_response(p) \/ EndIteration(p) \/ ExitSyscall(p)
    <3>1. loc'[p] \in {"loop", "endOfIteration", "returning"}
      BY <2>1, <2>5 DEF print_response, EndIteration, ExitSyscall, Goto
    <3> QED BY <1>4, <3>1 DEF Asking
  <2> QED BY <2>3, <2>4, <2>5 DEF A
<1> QED BY <1>3, <1>4 DEF AskInv

\* Every other step leaves the requests, the places and the contexts alone.
LEMMA AskOther ==
  ASSUME MessageInv, AskInv,
         \/ /\ KernelStep(HungUp) \/ SignalStep \/ NetworkStep
            /\ ~handle_syscall /\ ~handle_irq /\ UNCHANGED apps
         \/ interControllerSim /\ UNCHANGED apps
         \/ UNCHANGED allVars
  PROVE  AskInv'
<1>1. cpu \in State
  BY AskFacts
<1> DEFINE Still == /\ UNCHANGED <<loc, asked, pcb, irq1Q, irq2Q, syscallFifo>>
                    /\ cpu'.pid = cpu.pid /\ cpu'.resp = cpu.resp
<1>2. SUFFICES Still
  <2> SUFFICES ASSUME NEW p \in Procs, Asking(p)' PROVE Answering(p)'
    BY DEF AskInv
  <2>1. Answering(p)
    BY <1>2 DEF AskInv, Asking
  <2>2. Context(p)'.resp = Context(p).resp /\ Waiting' = Waiting
    BY <1>2 DEF Context, Waiting
  <2> QED BY <1>2, <2>1, <2>2 DEF Answering
<1> USE DEF queues, channels, history, apps
<1>3. CASE /\ \/ CheckPaused \/ Pselect(HungUp) \/ PselectTimeout(HungUp) \/ StopCurrent
              \/ ImpossibleSyscall \/ EmptyRead(HungUp)
           /\ UNCHANGED apps
  BY <1>3 DEF CheckPaused, Pselect, PselectTimeout, StopCurrent, ImpossibleSyscall, EmptyRead
<1>4. CASE (ResumeCurrent \/ handle_udp_response) /\ UNCHANGED apps
  BY <1>1, <1>4 DEF ResumeCurrent, handle_udp_response, State
<1>5. CASE (SignalStep \/ NetworkStep) /\ UNCHANGED apps
  BY <1>5 DEF SignalStep, manual_pause, manual_unpause, handle_ctrl_c, NetworkStep,
              SfssReply, LoseMessage
<1>6. CASE interControllerSim /\ UNCHANGED apps
  BY <1>6 DEF interControllerSim, TimeSlice, SendDrawn, RaiseIrq
<1>7. CASE UNCHANGED allVars
  BY <1>7 DEF allVars, vars
<1> QED BY <1>3, <1>4, <1>5, <1>6, <1>7 DEF KernelStep

RequestInv == SystemInv /\ PromptInv /\ AskInv

LEMMA RequestInit == SystemInit => RequestInv
<1> SUFFICES ASSUME SystemInit PROVE RequestInv
  OBVIOUS
<1>1. SystemInv /\ PromptInv
  BY SystemInvInit, PromptInit DEF SystemInit
<1>2. AskInv
  BY DEF SystemInit, AskInv, Asking
<1> QED BY <1>1, <1>2 DEF RequestInv

LEMMA RequestStep ==
  Regime = "prompt" /\ RequestInv /\ [SystemNext]_allVars => RequestInv'
<1> SUFFICES ASSUME Regime = "prompt", RequestInv, [SystemNext]_allVars PROVE RequestInv'
  OBVIOUS
<1>1. SystemInv' /\ [Next]_vars /\ SystemInv /\ MessageInv /\ SystemType /\ AskInv /\ PromptInv
  BY SystemInvStep, SystemStep DEF RequestInv, SystemInv
<1>2. PromptInv'
  BY <1>1, PromptStep DEF MessageInv, PlaceInv
<1>3. Released
  BY <1>1, MessageStep
<1>4. AskInv'
  <2>1. CASE handle_syscall /\ UNCHANGED apps
    BY <1>1, <2>1, AskRead
  <2>2. CASE handle_irq /\ UNCHANGED apps
    BY <1>1, <1>3, <2>2, AskIrq
  <2>3. ASSUME NEW p \in Procs, A(p) PROVE AskInv'
    BY <1>1, <2>3, AskApp
  <2>4. CASE \/ /\ KernelStep(HungUp) \/ SignalStep \/ NetworkStep
                /\ ~handle_syscall /\ ~handle_irq /\ UNCHANGED apps
             \/ interControllerSim /\ UNCHANGED apps
             \/ UNCHANGED allVars
    BY <1>1, <2>4, AskOther
  <2> QED BY <2>1, <2>2, <2>3, <2>4 DEF SystemNext
<1> QED BY <1>1, <1>2, <1>4 DEF RequestInv

\* A process that looks at current_response after a syscall finds there the
\* response to that very syscall (ResponseForMyRequest), when the kernel stops it
\* before it acts again, with any losses, pauses and order of the interrupts.
THEOREM ResponseIsForItsRequest ==
  ASSUME Regime = "prompt" PROVE SystemSpec => []ResponseForMyRequest
<1>1. RequestInv => ResponseForMyRequest
  <2> SUFFICES ASSUME RequestInv, NEW p \in Procs, MayRun(p), Asking(p)
               PROVE  cpu.pid = p /\ cpu.resp = asked[p]
    BY DEF ResponseForMyRequest, Asking
  <2>1. cpu.pid = p /\ syscallFifo = <<>> /\ p \notin Waiting
    BY AskFacts DEF RequestInv, SystemInv, MayRun, Quiet, SingleRunner, OnCpu
  <2> QED BY <2>1 DEF RequestInv, AskInv, Answering, Context
<1>2. RequestInv /\ [SystemNext]_allVars => RequestInv'
  BY RequestStep
<1> QED BY <1>1, <1>2, RequestInit, PTL DEF SystemSpec
=============================================================================
