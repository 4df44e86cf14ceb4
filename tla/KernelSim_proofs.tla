--------------------------- MODULE KernelSim_proofs ---------------------------
(***************************************************************************)
(* Theorems of KernelSim, for every number of processes, every set of      *)
(* operations, every bound and every regime: what the operators return,    *)
(* type correctness, who runs with which context, that the kernel loses    *)
(* no process and schedules as Scheduler promises, and where the requests  *)
(* and the responses are.                                                  *)
(***************************************************************************)
EXTENDS KernelSim, Queues, WellFoundedInduction

USE NAssumption, MAXAssumption, OpsAssumption, BoundsAssumption, RegimeAssumption

------------------------------------------------------------------------------
(***************************************************************************)
(* The operators the handlers are made of.                                 *)
(***************************************************************************)
\* A set of naturals that is not empty has a least element.
LEMMA MinIsMember ==
  ASSUME NEW S \in SUBSET Nat, S # {}
  PROVE  Min(S) \in S /\ \A k \in S : Min(S) <= k
<1>1. \E x \in S : \A y \in S : ~ (<<y, x>> \in OpToRel(<, Nat))
  BY NatLessThanWellFounded, WFMin
<1>2. PICK x \in S : \A y \in S : ~ (<<y, x>> \in OpToRel(<, Nat))
  BY <1>1
<1>3. \A y \in S : x <= y
  <2> SUFFICES ASSUME NEW y \in S, y < x PROVE FALSE
    OBVIOUS
  <2>1. <<y, x>> \in OpToRel(<, Nat)
    BY DEF OpToRel
  <2> QED BY <2>1, <1>2
<1> QED BY <1>3 DEF Min

\* The search stops inside the queue, at a response of the process it is for if
\* one of the first N is.
LEMMA ReachedIsAPosition ==
  ASSUME NEW p, NEW q \in Seq(Message), q # <<>>
  PROVE  /\ Reached(p, q) \in 1..Len(q)
         /\ Hits(p, q) # {} => q[Reached(p, q)].process_pos = p
<1>1. Len(q) \in Nat \ {0}
  BY EmptySeq
<1>2. CASE Hits(p, q) = {}
  BY <1>1, <1>2 DEF Reached
<1>3. CASE Hits(p, q) # {}
  <2>1. Hits(p, q) \in SUBSET Nat
    BY <1>1 DEF Hits
  <2>2. Reached(p, q) \in Hits(p, q)
    BY <1>3, <2>1, MinIsMember DEF Reached
  <2> QED BY <2>2 DEF Hits
<1> QED BY <1>2, <1>3

\* What a search returns: one message of the queue and the queue without it.
LEMMA SearchType ==
  ASSUME NEW p, NEW q \in Seq(Message)
  PROVE  LET search == find_response_from_process(p, q)
         IN /\ search.found \in BOOLEAN
            /\ search.queue \in Seq(Message)
            /\ search.popped \in Message \cup {NoResponse}
            /\ search.found => search.popped \in Message
<1> DEFINE k == Reached(p, q)
<1>1. CASE q = <<>>
  BY <1>1 DEF find_response_from_process
<1>2. CASE q # <<>>
  <2>1. k \in 1..Len(q) /\ Len(q) \in Nat
    BY <1>2, ReachedIsAPosition, LenProperties
  <2>2. q[k] \in Message
    BY <2>1, ElementOfSeq
  <2>3. \A i \in 1..Len(q) : q[i] \in Message
    BY ElementOfSeq
  <2>4. SubSeq(q, k + 1, Len(q)) \in Seq(Message)
    BY <2>1, <2>3, SubSeqProperties
  <2>5. SubSeq(q, 1, k - 1) \in Seq(Message)
    BY <2>1, <2>3, SubSeqProperties
  <2>6. SubSeq(q, k + 1, Len(q)) \o SubSeq(q, 1, k - 1) \in Seq(Message)
    BY <2>4, <2>5, ConcatProperties
  <2> QED BY <1>2, <2>2, <2>6 DEF find_response_from_process
<1> QED BY <1>1, <1>2

\* Popping a queue of processes: the head, if any, and what is left.
LEMMA PopType ==
  ASSUME NEW q \in Seq(Procs)
  PROVE  /\ Pop(q) \in Procs \cup {NoProc}
         /\ Rest(q) \in Seq(Procs)
         /\ q # <<>> => Pop(q) = Head(q) /\ Pop(q) \in Procs
BY HeadTailProperties DEF Pop, Rest

\* A context switch between well-typed states leaves well-typed states.
LEMMA SwitchType ==
  ASSUME NEW prev \in Procs \cup {NoProc}, NEW st \in State,
         NEW states \in [Procs -> State], NEW dest \in Procs \cup {NoProc},
         switch_context(prev, st, states, dest)
  PROVE  cpu' \in State /\ pcb' \in [Procs -> State]
<1>1. pcb' \in [Procs -> State]
  BY DEF switch_context, Procs, NoProc
<1>2. IdleCpu(st) \in State
  <2>1. -1 \in -1..MAX
    OBVIOUS
  <2> QED BY <2>1 DEF IdleCpu, State
<1> QED BY <1>1, <1>2 DEF switch_context, Procs, NoProc

------------------------------------------------------------------------------
(***************************************************************************)
(* Type correctness.  The count of finished processes stays within its     *)
(* bound because the kernel ends when it gets there.                       *)
(***************************************************************************)
TypeInv == TypeOK /\ (numDone = N => kpc = "exited")

LEMMA TypeInit == Init => TypeInv
<1> SUFFICES ASSUME Init PROVE TypeInv
  OBVIOUS
<1>1. \A p \in Procs : InitialState(p) \in State
  BY DEF InitialState, State, Procs
<1>2. 1 \in Procs
  BY DEF Procs
<1>3. cpu \in State
  BY <1>1, <1>2 DEF Init, State
<1>4. readyQ \in Seq(Procs)
  <2>1. \A i \in 2..N : [p \in Procs |-> p][i] \in Procs
    BY DEF Procs
  <2>2. SubSeq([p \in Procs |-> p], 2, N) \in Seq(Procs)
    BY <2>1, SubSeqProperties
  <2> QED BY <2>2 DEF Init
<1>5. pcb \in [Procs -> State]
  BY <1>1 DEF Init
<1>6. \A S : <<>> \in Seq(S)
  OBVIOUS
<1>7. numDone \in 0..N /\ numDone # N
  BY DEF Init
<1>8. /\ irq1Q \in Seq(Procs) /\ irq2Q \in Seq(Procs)
      /\ fileRespQ \in Seq(Message) /\ dirRespQ \in Seq(Message)
      /\ syscallFifo \in Seq(SyscallArgs) /\ irqFifo \in Seq(IrqTypes)
  BY <1>6 DEF Init
<1>9. /\ pending \in [udp : BOOLEAN, syscall : BOOLEAN, irq : BOOLEAN]
      /\ paused \in BOOLEAN /\ signals \in Nat
      /\ running \subseteq Procs
      /\ iter \in [Procs -> Nat]
  BY <1>2 DEF Init
<1> QED
  BY <1>3, <1>4, <1>5, <1>7, <1>8, <1>9 DEF Init, TypeInv, TypeOK, Ended

\* pselect, and a syscall that is not there, whether the FIFO is hung up or not.
Select == \E hungUp \in HangUps : Pselect(hungUp) \/ PselectTimeout(hungUp)
NothingRead == \E hungUp \in HangUps : EmptyRead(hungUp)

\* The loop of main().
LEMMA TypeLoop ==
  ASSUME TypeInv,
         CheckPaused \/ Select \/ StopCurrent \/ ResumeCurrent
  PROVE  TypeInv'
<1> USE DEF TypeInv, TypeOK, queues, channels, history, Ended
<1>1. CASE CheckPaused
  BY <1>1 DEF CheckPaused
<1>2. CASE Select
  <2>1. PICK hungUp \in BOOLEAN : Pselect(hungUp) \/ PselectTimeout(hungUp)
    BY <1>2 DEF Select, HangUps
  <2>2. CASE Pselect(hungUp)
    <3>1. pending' \in [udp : BOOLEAN, syscall : BOOLEAN, irq : BOOLEAN]
      BY <2>2 DEF Pselect
    <3> QED BY <2>2, <3>1 DEF Pselect
  <2>3. CASE PselectTimeout(hungUp)
    BY <2>3 DEF PselectTimeout
  <2> QED BY <2>1, <2>2, <2>3
<1>3. CASE StopCurrent
  BY <1>3 DEF StopCurrent, AfterStop, AfterUdp, AfterSyscall
<1>4. CASE ResumeCurrent
  <2>1. cpu' \in State
    BY <1>4 DEF ResumeCurrent, State
  <2>2. running' \subseteq Procs
    BY <1>4 DEF ResumeCurrent, State
  <2> QED BY <1>4, <2>1, <2>2 DEF ResumeCurrent
<1> QED BY <1>1, <1>2, <1>3, <1>4

LEMMA TypeUdp ==
  ASSUME TypeInv, handle_udp_response
  PROVE  TypeInv'
<1> USE DEF TypeInv, TypeOK
<1>1. PICK r \in toKernel :
        /\ toKernel' = toKernel \ {r}
        /\ fileRespQ' = IF pcb[r.process_pos].op \in FileOps
                           THEN Append(fileRespQ, r) ELSE fileRespQ
        /\ dirRespQ' = IF pcb[r.process_pos].op \in DirOps
                          THEN Append(dirRespQ, r) ELSE dirRespQ
        /\ discarded' = IF pcb[r.process_pos].op \in IoOps
                           THEN discarded ELSE discarded \cup {r}
  BY DEF handle_udp_response, OriginalOp
<1>2. r \in Message
  OBVIOUS
<1>3. fileRespQ' \in Seq(Message) /\ dirRespQ' \in Seq(Message)
  BY <1>1, <1>2, AppendProperties
<1> QED
  BY <1>1, <1>2, <1>3 DEF handle_udp_response, AfterUdp, AfterSyscall, Ended

LEMMA TypeSyscall ==
  ASSUME TypeInv, handle_syscall
  PROVE  TypeInv'
<1> USE DEF TypeInv, TypeOK
<1> DEFINE op == Head(syscallFifo).op
<1>1. cpu.pid \in Procs /\ cpu \in State
  BY DEF handle_syscall, State
<1>2. Head(syscallFifo) \in SyscallArgs /\ syscallFifo' \in Seq(SyscallArgs)
  BY HeadTailProperties DEF handle_syscall
<1>3. readyQ' \in Seq(Procs) /\ Pop(readyQ) \in Procs \cup {NoProc}
  BY PopType DEF handle_syscall
<1>4. CASE op \in IoOps /\ Block(op)
  <2>1. irq1Q' \in Seq(Procs) /\ irq2Q' \in Seq(Procs)
    BY <1>1, <1>4, AppendProperties DEF Block
  <2>2. toSfss' \subseteq Message
    BY <1>1, <1>4 DEF Block, Message
  <2>3. [cpu EXCEPT !.op = op, !.current = "WAITING_FOR_IO"] \in State
    BY <1>1, <1>4 DEF State
  <2>4. cpu' \in State /\ pcb' \in [Procs -> State]
    BY <1>1, <1>3, <1>4, <2>3, SwitchType DEF Block
  <2>5. kpc' \in {"irq", "resume"} /\ numDone' = numDone /\ kpc = "syscall"
    BY <1>4 DEF Block, AfterSyscall, handle_syscall
  <2> QED
    BY <1>2, <1>3, <2>1, <2>2, <2>4, <2>5 DEF handle_syscall, history, Ended
<1>5. CASE Finish
  <2>1. [cpu EXCEPT !.op = "EXIT", !.current = "DONE"] \in State
    BY <1>1 DEF State
  <2>2. cpu' \in State /\ pcb' \in [Procs -> State]
    BY <1>1, <1>3, <1>5, <2>1, SwitchType DEF Finish
  <2>3. /\ kpc' \in {"irq", "resume", "exited"}
        /\ numDone' \in 0..N
        /\ numDone' = N => kpc' = "exited"
    BY <1>5 DEF Finish, AfterSyscall, handle_syscall, AllDone
  <2> QED
    BY <1>2, <1>3, <1>5, <2>2, <2>3 DEF handle_syscall, Finish, history, Ended
<1> QED BY <1>4, <1>5 DEF handle_syscall

\* A device interrupt, of either device: what DeviceIrq assigns keeps its type.
LEMMA DeviceIrqType ==
  ASSUME NEW ioQ \in Seq(Procs), NEW respQ \in Seq(Message), TypeOK
  PROVE  LET io == Pop(ioQ)
             search == find_response_from_process(io, respQ)
             preempted == IF cpu.pid = NoProc THEN cpu ELSE [cpu EXCEPT !.current = "READY"]
         IN /\ preempted \in State
            /\ Rest(ioQ) \in Seq(Procs)
            /\ ioQ # <<>> => io \in Procs /\ Append(Rest(ioQ), io) \in Seq(Procs)
            /\ search.queue \in Seq(Message)
            /\ search.popped \in Message \cup {NoResponse}
            /\ PreemptInto(readyQ) \in Seq(Procs)
            /\ ioQ # <<>> /\ search.found =>
                 [pcb EXCEPT ![io] = Delivered(@, search.popped)] \in [Procs -> State]
<1> USE DEF TypeOK
<1> DEFINE io == Pop(ioQ)
           search == find_response_from_process(io, respQ)
           preempted == IF cpu.pid = NoProc THEN cpu ELSE [cpu EXCEPT !.current = "READY"]
<1>1. preempted \in State
  BY DEF State
<1>2. Rest(ioQ) \in Seq(Procs) /\ (ioQ # <<>> => io \in Procs)
  BY PopType
<1>3. ioQ # <<>> => Append(Rest(ioQ), io) \in Seq(Procs)
  BY <1>2, AppendProperties
<1>4. /\ search.queue \in Seq(Message)
      /\ search.popped \in Message \cup {NoResponse}
      /\ search.found => search.popped \in Message
  BY SearchType
<1>5. PreemptInto(readyQ) \in Seq(Procs)
  BY AppendProperties DEF PreemptInto, State
<1>6. ASSUME ioQ # <<>>, search.found
      PROVE  [pcb EXCEPT ![io] = Delivered(@, search.popped)] \in [Procs -> State]
  <2>1. io \in Procs /\ pcb[io] \in State /\ search.popped \in Message
    BY <1>2, <1>4, <1>6
  <2>2. Delivered(pcb[io], search.popped) \in State
    BY <2>1 DEF Delivered, clear_syscall_args, State, Message
  <2> QED BY <2>1, <2>2
<1> QED BY <1>1, <1>2, <1>3, <1>4, <1>5, <1>6

LEMMA TypeIrq ==
  ASSUME TypeInv, handle_irq
  PROVE  TypeInv'
<1> USE DEF TypeInv, TypeOK
<1>1. /\ irqFifo' \in Seq(IrqTypes)
      /\ kpc = "irq" /\ kpc' = "resume"
      /\ UNCHANGED <<numDone, pending, paused, signals, running, syscallFifo,
                     toSfss, toKernel, lost, iter>>
  BY HeadTailProperties DEF handle_irq
<1>2. SUFFICES /\ cpu' \in State /\ pcb' \in [Procs -> State]
               /\ readyQ' \in Seq(Procs)
               /\ irq1Q' \in Seq(Procs) /\ irq2Q' \in Seq(Procs)
               /\ fileRespQ' \in Seq(Message) /\ dirRespQ' \in Seq(Message)
               /\ discarded' \subseteq Message
  BY <1>1 DEF Ended
<1>3. CASE handle_irq0_timeslice
  <2>1. CASE cpu.pid = NoProc \/ readyQ = <<>>
    BY <1>3, <2>1 DEF handle_irq0_timeslice
  <2>2. CASE ~(cpu.pid = NoProc \/ readyQ = <<>>)
    <3>1. cpu.pid \in Procs /\ [cpu EXCEPT !.current = "READY"] \in State
      BY <2>2 DEF State
    <3>2. Pop(readyQ) \in Procs \cup {NoProc} /\ Rest(readyQ) \in Seq(Procs)
      BY PopType
    <3>3. readyQ' \in Seq(Procs)
      <4>1. readyQ' = Append(Rest(readyQ), cpu.pid)
        BY <1>3, <2>2 DEF handle_irq0_timeslice
      <4> QED BY <3>1, <3>2, <4>1, AppendProperties
    <3>4. cpu' \in State /\ pcb' \in [Procs -> State]
      BY <1>3, <2>2, <3>1, <3>2, SwitchType DEF handle_irq0_timeslice
    <3> QED BY <1>3, <3>3, <3>4 DEF handle_irq0_timeslice
  <2> QED BY <2>1, <2>2
<1>4. CASE handle_irq1_device
  <2> DEFINE io == Pop(irq1Q)
             search == find_response_from_process(io, fileRespQ)
             preempted == IF cpu.pid = NoProc THEN cpu ELSE [cpu EXCEPT !.current = "READY"]
             states == [pcb EXCEPT ![io] = Delivered(@, search.popped)]
  <2>1. CASE irq1Q = <<>>
    BY <1>4, <2>1 DEF handle_irq1_device, DeviceIrq
  <2>2. CASE irq1Q # <<>> /\ ~search.found
    <3>1. /\ irq1Q' = Append(Rest(irq1Q), io) /\ fileRespQ' = search.queue
          /\ discarded' = discarded \cup ({search.popped} \ {NoResponse})
          /\ cpu' = preempted
          /\ UNCHANGED <<pcb, readyQ, irq2Q, dirRespQ>>
      BY <1>4, <2>2 DEF handle_irq1_device, DeviceIrq
    <3>2. /\ preempted \in State
          /\ Append(Rest(irq1Q), io) \in Seq(Procs)
          /\ search.queue \in Seq(Message)
          /\ search.popped \in Message \cup {NoResponse}
      BY <2>2, DeviceIrqType
    <3> QED BY <3>1, <3>2
  <2>3. CASE irq1Q # <<>> /\ search.found
    <3>1. /\ irq1Q' = Rest(irq1Q) /\ fileRespQ' = search.queue
          /\ switch_context(cpu.pid, preempted, states, io)
          /\ readyQ' = PreemptInto(readyQ)
          /\ UNCHANGED <<discarded, irq2Q, dirRespQ>>
      BY <1>4, <2>3 DEF handle_irq1_device, DeviceIrq
    <3>2. /\ preempted \in State /\ states \in [Procs -> State]
          /\ io \in Procs /\ cpu.pid \in Procs \cup {NoProc}
      BY <2>3, DeviceIrqType DEF State
    <3>3. cpu' \in State /\ pcb' \in [Procs -> State]
      BY <3>1, <3>2, SwitchType
    <3> QED BY <3>1, <3>3, DeviceIrqType
  <2> QED BY <1>4, <2>1, <2>2, <2>3 DEF handle_irq1_device, DeviceIrq
<1>5. CASE handle_irq2_device
  <2> DEFINE io == Pop(irq2Q)
             search == find_response_from_process(io, dirRespQ)
             preempted == IF cpu.pid = NoProc THEN cpu ELSE [cpu EXCEPT !.current = "READY"]
             states == [pcb EXCEPT ![io] = Delivered(@, search.popped)]
  <2>1. CASE irq2Q = <<>>
    BY <1>5, <2>1 DEF handle_irq2_device, DeviceIrq
  <2>2. CASE irq2Q # <<>> /\ ~search.found
    <3>1. /\ irq2Q' = Append(Rest(irq2Q), io) /\ dirRespQ' = search.queue
          /\ discarded' = discarded \cup ({search.popped} \ {NoResponse})
          /\ cpu' = preempted
          /\ UNCHANGED <<pcb, readyQ, irq1Q, fileRespQ>>
      BY <1>5, <2>2 DEF handle_irq2_device, DeviceIrq
    <3>2. /\ preempted \in State
          /\ Append(Rest(irq2Q), io) \in Seq(Procs)
          /\ search.queue \in Seq(Message)
          /\ search.popped \in Message \cup {NoResponse}
      BY <2>2, DeviceIrqType
    <3> QED BY <3>1, <3>2
  <2>3. CASE irq2Q # <<>> /\ search.found
    <3>1. /\ irq2Q' = Rest(irq2Q) /\ dirRespQ' = search.queue
          /\ switch_context(cpu.pid, preempted, states, io)
          /\ readyQ' = PreemptInto(readyQ)
          /\ UNCHANGED <<discarded, irq1Q, fileRespQ>>
      BY <1>5, <2>3 DEF handle_irq2_device, DeviceIrq
    <3>2. /\ preempted \in State /\ states \in [Procs -> State]
          /\ io \in Procs /\ cpu.pid \in Procs \cup {NoProc}
      BY <2>3, DeviceIrqType DEF State
    <3>3. cpu' \in State /\ pcb' \in [Procs -> State]
      BY <3>1, <3>2, SwitchType
    <3> QED BY <3>1, <3>3, DeviceIrqType
  <2> QED BY <1>5, <2>1, <2>2, <2>3 DEF handle_irq2_device, DeviceIrq
<1> QED BY <1>3, <1>4, <1>5 DEF handle_irq

\* The impossible syscall, signals, and the environment.
LEMMA TypeOutside ==
  ASSUME TypeInv,
         \/ ImpossibleSyscall \/ NothingRead \/ SignalStep \/ NetworkStep
         \/ (\E p \in Procs : AppStep(p))
         \/ (\E irq \in IrqTypes : RaiseIrq(irq))
         \/ UNCHANGED vars
  PROVE  TypeInv'
<1> USE DEF TypeInv, TypeOK, queues, channels, history
<1>1. CASE ImpossibleSyscall \/ NothingRead
  BY <1>1 DEF ImpossibleSyscall, NothingRead, EmptyRead, Ended
<1>2. ASSUME NEW tty \in BOOLEAN, manual_pause(tty) \/ manual_unpause(tty)
      PROVE  TypeInv'
  <2>1. /\ kpc \notin Ended
        /\ kpc' = kpc \/ kpc' = "top"
        /\ paused' \in BOOLEAN /\ signals' \in Nat /\ running' \subseteq Procs
        /\ UNCHANGED <<cpu, pcb, queues, numDone, pending, channels, history>>
    <3>1. CASE manual_pause(tty)
      <4>1. kpc' = kpc \/ kpc' = "top"
        BY <3>1 DEF manual_pause, AfterSignal
      <4>2. running' = {} \/ running' = running
        BY <3>1 DEF manual_pause
      <4>3. paused' = TRUE /\ signals' = signals + 1
        BY <3>1 DEF manual_pause
      <4> QED BY <3>1, <4>1, <4>2, <4>3 DEF manual_pause
    <3>2. CASE manual_unpause(tty)
      <4>1. kpc' = kpc \/ kpc' = "top"
        BY <3>2 DEF manual_unpause, AfterSignal
      <4>2. running' = {} \/ running' = running
        BY <3>2 DEF manual_unpause
      <4>3. paused' = FALSE /\ signals' = signals
        BY <3>2 DEF manual_unpause
      <4> QED BY <3>2, <4>1, <4>2, <4>3 DEF manual_unpause
    <3> QED BY <1>2, <3>1, <3>2
  <2>2. numDone # N
    BY <2>1 DEF Ended
  <2> QED BY <2>1, <2>2
<1>3. CASE handle_ctrl_c
  BY <1>3 DEF handle_ctrl_c, Ended
<1>4. ASSUME NEW r \in toSfss, SfssReply(r) \/ LoseMessage(r) PROVE TypeInv'
  BY <1>4 DEF SfssReply, LoseMessage
<1>5. ASSUME NEW p \in Procs, AppStep(p) PROVE TypeInv'
  <2>1. ASSUME NEW op \in IoOps \cup {"EXIT"}, WriteSyscall(p, op) PROVE TypeInv'
    <3>1. [from |-> p, op |-> op] \in SyscallArgs
      BY DEF SyscallArgs
    <3>2. syscallFifo' \in Seq(SyscallArgs)
      BY <2>1, <3>1, AppendProperties DEF WriteSyscall
    <3> QED BY <2>1, <3>2 DEF WriteSyscall
  <2>2. CASE AdvancePC(p)
    <3>1. cpu' \in State
      <4>1. cpu.PC + 1 \in -1..MAX
        <5>1. cpu.PC \in -1..MAX
          BY DEF State
        <5>2. cpu.PC < MAX
          BY <2>2 DEF AdvancePC, IterationsLeft
        <5> HIDE DEF TypeInv
        <5> QED BY <5>1, <5>2
      <4>2. cpu' = [cpu EXCEPT !.PC = cpu.PC + 1]
        BY <2>2 DEF AdvancePC
      <4> QED BY <4>1, <4>2 DEF State
    <3>2. iter' \in [Procs -> Nat]
      BY <2>2 DEF AdvancePC
    <3> QED BY <2>2, <3>1, <3>2 DEF AdvancePC
  <2>3. CASE ConsumeResponse
    <3>1. cpu' \in State
      BY <2>3 DEF ConsumeResponse, State
    <3> QED BY <2>3, <3>1 DEF ConsumeResponse
  <2> QED BY <1>5, <2>1, <2>2, <2>3 DEF AppStep
<1>6. ASSUME NEW irq \in IrqTypes, RaiseIrq(irq) PROVE TypeInv'
  <2>1. irqFifo' \in Seq(IrqTypes)
    BY <1>6, AppendProperties DEF RaiseIrq
  <2> QED BY <1>6, <2>1 DEF RaiseIrq
<1>7. CASE UNCHANGED vars
  BY <1>7 DEF vars
<1> QED
  BY <1>1, <1>2, <1>3, <1>4, <1>5, <1>6, <1>7 DEF SignalStep, NetworkStep

LEMMA TypeStep == TypeInv /\ [Next]_vars => TypeInv'
BY TypeLoop, TypeUdp, TypeSyscall, TypeIrq, TypeOutside
DEF Next, KernelStep, Select, NothingRead

\* Every variable of the kernel keeps its type, and the count of finished
\* processes its bound, in every behaviour (TypeOK).
THEOREM TypeCorrect == Spec => []TypeOK
<1>1. Spec => []TypeInv
  BY TypeInit, TypeStep, PTL DEF Spec
<1>2. TypeInv => TypeOK
  BY DEF TypeInv
<1> QED BY <1>1, <1>2, PTL

------------------------------------------------------------------------------
(***************************************************************************)
(* Who runs, and with which context: WorkConserving, SingleRunner and      *)
(* ContextFaithful, for every value of the constants, in every regime and  *)
(* with signals at any point of the loop.                                  *)
(*                                                                         *)
(* None of the three is inductive alone.  That a loaded CPU is not idle,   *)
(* and that the counter saved is that of the process it is saved for, need *)
(* each entry of the table to hold its own pid; that the counter which     *)
(* advances is the one on the CPU needs SingleRunner.                      *)
(***************************************************************************)

\* An entry of process_states always keeps the pid of its process.
OwnPids == \A p \in Procs : pcb[p].pid = p

ContextInv ==
  /\ TypeInv
  /\ OwnPids
  /\ WorkConserving
  /\ SingleRunner
  /\ ContextFaithful

\* The part of ContextInv that speaks of the CPU, the table and the ready queue.
CpuInv == OwnPids /\ WorkConserving /\ ContextFaithful

------------------------------------------------------------------------------
LEMMA ContextInit == Init => ContextInv
<1> SUFFICES ASSUME Init PROVE ContextInv
  OBVIOUS
<1>1. TypeInv
  BY TypeInit
<1>2. 1 \in Procs
  BY DEF Procs
<1>3. /\ pcb = [p \in Procs |-> InitialState(p)]
      /\ iter = [p \in Procs |-> 0]
      /\ running = {1} /\ kpc = "top"
  BY DEF Init
<1>4. cpu.pid = 1 /\ cpu.PC = 0
  <2>1. cpu = [InitialState(1) EXCEPT !.current = "RUNNING"]
    BY DEF Init
  <2>2. DOMAIN InitialState(1) = {"pid", "PC", "current", "op", "resp"}
    BY DEF InitialState
  <2>3. InitialState(1).pid = 1 /\ InitialState(1).PC = 0
    BY DEF InitialState
  <2> QED BY <2>1, <2>2, <2>3
<1>5. \A p \in Procs : pcb[p].pid = p /\ pcb[p].PC = 0
  BY <1>3 DEF InitialState
<1>6. OwnPids /\ ContextFaithful
  BY <1>3, <1>4, <1>5 DEF OwnPids, ContextFaithful
<1>7. WorkConserving /\ SingleRunner
  BY <1>3, <1>4 DEF WorkConserving, SingleRunner, OnCpu, NoProc
<1> QED BY <1>1, <1>6, <1>7 DEF ContextInv

\* A switch from the process on the CPU, saved as st, to dest keeps every
\* process with its own pid and its own counter, whatever else the table's
\* new entries hold.
LEMMA SwitchKeepsContexts ==
  ASSUME TypeInv, OwnPids, ContextFaithful, UNCHANGED iter,
         NEW st \in State, st.pid = cpu.pid, st.PC = cpu.PC,
         NEW states \in [Procs -> State],
         \A p \in Procs : states[p].pid = p /\ states[p].PC = pcb[p].PC,
         NEW dest \in Procs \cup {NoProc},
         switch_context(cpu.pid, st, states, dest)
  PROVE  /\ OwnPids' /\ ContextFaithful'
         /\ cpu'.pid = dest
<1>1. cpu.pid \in Procs \cup {NoProc}
  BY DEF TypeInv, TypeOK, State
<1>2. pcb' = IF cpu.pid # NoProc THEN [states EXCEPT ![cpu.pid] = st] ELSE states
  BY DEF switch_context
<1>3. \A p \in Procs : pcb'[p] = IF cpu.pid = p THEN st ELSE states[p]
  BY <1>1, <1>2 DEF Procs, NoProc
<1>4. \A p \in Procs : pcb'[p].pid = p /\ pcb'[p].PC = iter[p]
  BY <1>3 DEF ContextFaithful
<1>5. cpu'.pid = dest
  <2>1. CASE dest = NoProc
    BY <2>1 DEF switch_context, IdleCpu
  <2>2. CASE dest # NoProc
    BY <2>2, <1>4 DEF switch_context
  <2> QED BY <2>1, <2>2
<1>6. \A p \in Procs : cpu'.pid = p => cpu'.PC = iter[p]
  BY <1>4, <1>5 DEF switch_context, Procs, NoProc
<1> QED BY <1>4, <1>5, <1>6 DEF OwnPids, ContextFaithful

\* The CPU goes idle only when the queue it is loaded from is empty.
LEMMA DispatchConserves ==
  ASSUME readyQ \in Seq(Procs), cpu'.pid = Pop(readyQ), readyQ' = Rest(readyQ)
  PROVE  WorkConserving'
<1>1. readyQ # <<>> => Pop(readyQ) \in Procs
  BY PopType
<1> QED BY <1>1 DEF WorkConserving, Pop, Rest, Procs, NoProc

LEMMA ContextSyscall ==
  ASSUME TypeInv, CpuInv, handle_syscall
  PROVE  CpuInv'
<1> DEFINE op == Head(syscallFifo).op
<1>1. /\ cpu.pid # NoProc /\ cpu \in State /\ pcb \in [Procs -> State]
      /\ readyQ \in Seq(Procs) /\ Pop(readyQ) \in Procs \cup {NoProc}
      /\ readyQ' = Rest(readyQ) /\ UNCHANGED iter
  BY PopType DEF TypeInv, TypeOK, handle_syscall, history
<1>2. \A p \in Procs : pcb[p].pid = p /\ pcb[p].PC = pcb[p].PC
  BY DEF CpuInv, OwnPids
<1>3. CASE op \in IoOps /\ Block(op)
  <2> DEFINE st == [cpu EXCEPT !.op = op, !.current = "WAITING_FOR_IO"]
  <2>1. st \in State /\ st.pid = cpu.pid /\ st.PC = cpu.PC
    BY <1>1, <1>3 DEF State
  <2>2. switch_context(cpu.pid, st, pcb, Pop(readyQ))
    BY <1>3 DEF Block
  <2>3. OwnPids' /\ ContextFaithful' /\ cpu'.pid = Pop(readyQ)
    BY <1>1, <1>2, <2>1, <2>2, SwitchKeepsContexts DEF CpuInv
  <2> QED BY <1>1, <2>3, DispatchConserves DEF CpuInv
<1>4. CASE Finish
  <2> DEFINE st == [cpu EXCEPT !.op = "EXIT", !.current = "DONE"]
  <2>1. st \in State /\ st.pid = cpu.pid /\ st.PC = cpu.PC
    BY <1>1 DEF State
  <2>2. CASE AllDone(numDone + 1)
    <3>1. cpu' = st /\ pcb' = pcb
      BY <1>4, <2>2 DEF Finish
    <3> QED
      BY <1>1, <2>1, <3>1 DEF CpuInv, OwnPids, ContextFaithful, WorkConserving
  <2>3. CASE ~AllDone(numDone + 1)
    <3>1. switch_context(cpu.pid, st, pcb, Pop(readyQ))
      BY <1>4, <2>3 DEF Finish
    <3>2. OwnPids' /\ ContextFaithful' /\ cpu'.pid = Pop(readyQ)
      BY <1>1, <1>2, <2>1, <3>1, SwitchKeepsContexts DEF CpuInv
    <3> QED BY <1>1, <3>2, DispatchConserves DEF CpuInv
  <2> QED BY <2>2, <2>3
<1> QED BY <1>3, <1>4 DEF handle_syscall

\* A device interrupt, of either device, keeps CpuInv.
LEMMA ContextDevice ==
  ASSUME TypeInv, CpuInv, UNCHANGED iter,
         NEW ioQ \in Seq(Procs), NEW respQ \in Seq(Message),
         \/ UNCHANGED <<cpu, pcb, readyQ>>
         \/ /\ cpu' = IF cpu.pid = NoProc THEN cpu ELSE [cpu EXCEPT !.current = "READY"]
            /\ UNCHANGED <<pcb, readyQ>>
         \/ /\ ioQ # <<>>
            /\ find_response_from_process(Pop(ioQ), respQ).found
            /\ switch_context(cpu.pid,
                 IF cpu.pid = NoProc THEN cpu ELSE [cpu EXCEPT !.current = "READY"],
                 [pcb EXCEPT ![Pop(ioQ)] =
                   Delivered(@, find_response_from_process(Pop(ioQ), respQ).popped)],
                 Pop(ioQ))
            /\ readyQ' = PreemptInto(readyQ)
  PROVE  CpuInv'
<1> DEFINE io == Pop(ioQ)
           search == find_response_from_process(io, respQ)
           preempted == IF cpu.pid = NoProc THEN cpu ELSE [cpu EXCEPT !.current = "READY"]
           states == [pcb EXCEPT ![io] = Delivered(@, search.popped)]
<1>1. cpu \in State /\ pcb \in [Procs -> State] /\ TypeOK
  BY DEF TypeInv, TypeOK
<1>2. preempted.pid = cpu.pid /\ preempted.PC = cpu.PC
  BY <1>1 DEF State
<1>3. CASE UNCHANGED <<cpu, pcb, readyQ>>
  BY <1>3 DEF CpuInv, OwnPids, ContextFaithful, WorkConserving
<1>4. CASE cpu' = preempted /\ UNCHANGED <<pcb, readyQ>>
  BY <1>2, <1>4 DEF CpuInv, OwnPids, ContextFaithful, WorkConserving
<1>5. CASE /\ ioQ # <<>> /\ search.found
           /\ switch_context(cpu.pid, preempted, states, io)
           /\ readyQ' = PreemptInto(readyQ)
  <2>1. preempted \in State /\ io \in Procs /\ states \in [Procs -> State]
    BY <1>1, <1>5, DeviceIrqType
  <2>2. \A p \in Procs : states[p].pid = pcb[p].pid /\ states[p].PC = pcb[p].PC
    <3>1. ASSUME NEW st \in State, NEW r
          PROVE  Delivered(st, r).pid = st.pid /\ Delivered(st, r).PC = st.PC
      BY DEF Delivered, clear_syscall_args, State
    <3>2. states[io] = Delivered(pcb[io], search.popped)
      BY <1>1, <2>1
    <3>3. \A p \in Procs \ {io} : states[p] = pcb[p]
      BY <1>1, <2>1
    <3>4. pcb[io] \in State
      BY <1>1, <2>1
    <3>5. states[io].pid = pcb[io].pid /\ states[io].PC = pcb[io].PC
      BY <3>1, <3>2, <3>4
    <3> HIDE DEF states
    <3> QED BY <3>3, <3>5
  <2>3. OwnPids' /\ ContextFaithful' /\ cpu'.pid = io
    <3>1. \A p \in Procs : states[p].pid = p /\ states[p].PC = pcb[p].PC
      BY <2>2 DEF CpuInv, OwnPids
    <3>2. OwnPids /\ ContextFaithful
      BY DEF CpuInv
    <3> HIDE DEF states, preempted, search, io
    <3> QED BY <1>2, <1>5, <2>1, <3>1, <3>2, SwitchKeepsContexts
  <2> QED BY <2>1, <2>3 DEF CpuInv, WorkConserving, Procs, NoProc
<1> QED BY <1>3, <1>4, <1>5

LEMMA ContextIrq ==
  ASSUME TypeInv, CpuInv, handle_irq
  PROVE  CpuInv'
<1>1. /\ cpu \in State /\ pcb \in [Procs -> State] /\ readyQ \in Seq(Procs)
      /\ irq1Q \in Seq(Procs) /\ irq2Q \in Seq(Procs)
      /\ fileRespQ \in Seq(Message) /\ dirRespQ \in Seq(Message)
  BY DEF TypeInv, TypeOK
<1>2. UNCHANGED iter
  BY DEF handle_irq
<1>3. CASE handle_irq0_timeslice
  <2>1. CASE cpu.pid = NoProc \/ readyQ = <<>>
    BY <1>2, <1>3, <2>1 DEF handle_irq0_timeslice, CpuInv, OwnPids, ContextFaithful, WorkConserving
  <2>2. CASE ~(cpu.pid = NoProc \/ readyQ = <<>>)
    <3> DEFINE st == [cpu EXCEPT !.current = "READY"]
    <3>1. st \in State /\ st.pid = cpu.pid /\ st.PC = cpu.PC
      BY <1>1 DEF State
    <3>2. switch_context(cpu.pid, st, pcb, Pop(readyQ))
      BY <1>3, <2>2 DEF handle_irq0_timeslice
    <3>3. Pop(readyQ) \in Procs
      BY <1>1, <2>2, PopType
    <3>4. \A p \in Procs : pcb[p].pid = p /\ pcb[p].PC = pcb[p].PC
      BY DEF CpuInv, OwnPids
    <3>5. OwnPids' /\ ContextFaithful' /\ cpu'.pid = Pop(readyQ)
      BY <1>1, <1>2, <3>1, <3>2, <3>3, <3>4, SwitchKeepsContexts DEF CpuInv
    <3> QED BY <3>3, <3>5 DEF CpuInv, WorkConserving, Procs, NoProc
  <2> QED BY <2>1, <2>2
<1>4. CASE handle_irq1_device
  <2>1. DeviceIrq(irq1Q, fileRespQ)
    BY <1>4 DEF handle_irq1_device
  <2> QED BY <1>1, <1>2, <2>1, ContextDevice DEF DeviceIrq
<1>5. CASE handle_irq2_device
  <2>1. DeviceIrq(irq2Q, dirRespQ)
    BY <1>5 DEF handle_irq2_device
  <2> QED BY <1>1, <1>2, <2>1, ContextDevice DEF DeviceIrq
<1> QED BY <1>3, <1>4, <1>5 DEF handle_irq

\* The only other writers of the CPU: the loop and the process itself.
LEMMA ContextOther ==
  ASSUME ContextInv,
         \/ CheckPaused \/ Select \/ StopCurrent \/ ResumeCurrent
         \/ handle_udp_response \/ ImpossibleSyscall \/ NothingRead
         \/ SignalStep \/ NetworkStep
         \/ (\E p \in Procs : AppStep(p))
         \/ (\E irq \in IrqTypes : RaiseIrq(irq))
         \/ UNCHANGED vars
  PROVE  CpuInv'
<1> USE DEF queues, channels, history
<1>1. cpu \in State /\ iter \in [Procs -> Nat]
  BY DEF ContextInv, TypeInv, TypeOK
<1>2. CASE UNCHANGED <<cpu, pcb, readyQ, iter>>
  BY <1>2 DEF ContextInv, CpuInv, OwnPids, ContextFaithful, WorkConserving
<1>3. CASE ResumeCurrent
  <2>1. cpu'.pid = cpu.pid /\ cpu'.PC = cpu.PC
    BY <1>1, <1>3 DEF ResumeCurrent, State
  <2> QED
    BY <1>3, <2>1
    DEF ResumeCurrent, ContextInv, CpuInv, OwnPids, ContextFaithful, WorkConserving
<1>4. ASSUME NEW p \in Procs, AppStep(p) PROVE CpuInv'
  <2>1. cpu.pid = p
    BY <1>4 DEF AppStep, MayRun, ContextInv, SingleRunner, OnCpu
  <2>2. CASE AdvancePC(p)
    <3>1. /\ cpu'.pid = cpu.pid /\ cpu'.PC = cpu.PC + 1
          /\ iter' = [iter EXCEPT ![p] = @ + 1]
          /\ UNCHANGED <<pcb, readyQ>>
      BY <1>1, <2>2 DEF AdvancePC, State
    <3>2. iter'[p] = iter[p] + 1 /\ \A q \in Procs \ {p} : iter'[q] = iter[q]
      BY <1>1, <3>1
    <3> QED
      BY <2>1, <3>1, <3>2
      DEF ContextInv, CpuInv, OwnPids, ContextFaithful, WorkConserving, Procs, NoProc
  <2>3. CASE ConsumeResponse
    <3>1. cpu'.pid = cpu.pid /\ cpu'.PC = cpu.PC /\ UNCHANGED <<pcb, readyQ, iter>>
      BY <1>1, <2>3 DEF ConsumeResponse, State
    <3> QED
      BY <3>1 DEF ContextInv, CpuInv, OwnPids, ContextFaithful, WorkConserving
  <2>4. ASSUME NEW op, WriteSyscall(p, op) PROVE CpuInv'
    BY <1>2, <2>4 DEF WriteSyscall
  <2> QED BY <1>4, <2>2, <2>3, <2>4 DEF AppStep
<1>5. ASSUME CheckPaused \/ Select \/ StopCurrent
             \/ handle_udp_response \/ ImpossibleSyscall \/ NothingRead
      PROVE  CpuInv'
  BY <1>2, <1>5 DEF CheckPaused, Select, Pselect, PselectTimeout, StopCurrent,
                    handle_udp_response, ImpossibleSyscall, NothingRead, EmptyRead
<1>6. CASE SignalStep
  BY <1>2, <1>6 DEF SignalStep, manual_pause, manual_unpause, handle_ctrl_c
<1>7. CASE NetworkStep
  BY <1>2, <1>7 DEF NetworkStep, SfssReply, LoseMessage
<1>8. ASSUME NEW irq \in IrqTypes, RaiseIrq(irq) PROVE CpuInv'
  BY <1>2, <1>8 DEF RaiseIrq
<1>9. CASE UNCHANGED vars
  BY <1>2, <1>9 DEF vars
<1> QED BY <1>3, <1>4, <1>5, <1>6, <1>7, <1>8, <1>9

------------------------------------------------------------------------------
\* Nobody but the process on the CPU runs, and nobody while the kernel handles
\* an event: the handlers find running empty and leave it so.
LEMMA RunnerStep ==
  ASSUME ContextInv, [Next]_vars
  PROVE  SingleRunner'
<1> USE DEF queues, channels, history, SingleRunner, OnCpu
<1>1. SingleRunner /\ cpu \in State
  BY DEF ContextInv, TypeInv, TypeOK
<1>2. CASE CheckPaused \/ Select
  BY <1>1, <1>2 DEF CheckPaused, Select, Pselect, PselectTimeout
<1>3. CASE StopCurrent
  BY <1>1, <1>3 DEF StopCurrent
<1>4. CASE handle_udp_response \/ ImpossibleSyscall \/ NothingRead
  BY <1>1, <1>4 DEF handle_udp_response, ImpossibleSyscall, NothingRead, EmptyRead
<1>5. CASE handle_syscall
  BY <1>1, <1>5 DEF handle_syscall
<1>6. CASE handle_irq
  BY <1>1, <1>6 DEF handle_irq
<1>7. CASE ResumeCurrent
  <2>1. cpu'.pid = cpu.pid
    BY <1>1, <1>7 DEF ResumeCurrent, State
  <2> QED BY <1>1, <1>7, <2>1 DEF ResumeCurrent
<1>8. ASSUME NEW tty \in BOOLEAN, manual_pause(tty) \/ manual_unpause(tty)
      PROVE  SingleRunner'
  <2>1. /\ kpc' = kpc \/ kpc' = "top"
        /\ running' = {} \/ running' = running
        /\ UNCHANGED cpu
    <3>1. CASE manual_pause(tty)
      BY <3>1 DEF manual_pause, AfterSignal
    <3>2. CASE manual_unpause(tty)
      BY <3>2 DEF manual_unpause, AfterSignal
    <3> QED BY <1>8, <3>1, <3>2
  <2> QED BY <1>1, <2>1
<1>9. CASE handle_ctrl_c
  BY <1>9 DEF handle_ctrl_c
<1>10. CASE NetworkStep
  BY <1>1, <1>10 DEF NetworkStep, SfssReply, LoseMessage
<1>11. ASSUME NEW p \in Procs, AppStep(p) PROVE SingleRunner'
  <2>1. cpu'.pid = cpu.pid /\ UNCHANGED <<kpc, running>>
    BY <1>1, <1>11 DEF AppStep, WriteSyscall, AdvancePC, ConsumeResponse, State
  <2> QED BY <1>1, <2>1
<1>12. ASSUME NEW irq \in IrqTypes, RaiseIrq(irq) PROVE SingleRunner'
  BY <1>1, <1>12 DEF RaiseIrq
<1>13. CASE UNCHANGED vars
  BY <1>1, <1>13 DEF vars
<1> QED
  BY <1>2, <1>3, <1>4, <1>5, <1>6, <1>7, <1>8, <1>9, <1>10, <1>11, <1>12, <1>13
  DEF Next, KernelStep, Select, NothingRead, SignalStep

LEMMA ContextStep == ContextInv /\ [Next]_vars => ContextInv'
<1> SUFFICES ASSUME ContextInv, [Next]_vars PROVE ContextInv'
  OBVIOUS
<1>1. TypeInv /\ CpuInv
  BY DEF ContextInv, CpuInv
<1>2. CpuInv'
  BY <1>1, ContextSyscall, ContextIrq, ContextOther DEF Next, KernelStep, Select, NothingRead
<1> QED BY <1>1, <1>2, TypeStep, RunnerStep DEF ContextInv, CpuInv

LEMMA ContextCorrect == Spec => []ContextInv
BY ContextInit, ContextStep, PTL DEF Spec

\* The simulated CPU is idle only when no process is ready (WorkConserving), in
\* every regime, however syscalls are attributed.
THEOREM CpuNeverWasted == Spec => []WorkConserving
<1>1. ContextInv => WorkConserving
  BY DEF ContextInv
<1> QED BY <1>1, ContextCorrect, PTL

\* With signals at any point of the loop, nobody but the process on the CPU
\* ever runs, and nobody while the kernel handles an event (SingleRunner).
THEOREM OneRunnerAtATime == Spec => []SingleRunner
<1>1. ContextInv => SingleRunner
  BY DEF ContextInv
<1> QED BY <1>1, ContextCorrect, PTL

\* The counter a process finds when it gets the CPU back counts the iterations
\* it really finished (ContextFaithful).
THEOREM ContextsNeverMixed == Spec => []ContextFaithful
<1>1. ContextInv => ContextFaithful
  BY DEF ContextInv
<1> QED BY <1>1, ContextCorrect, PTL

------------------------------------------------------------------------------
(***************************************************************************)
(* The kernel loses no process and schedules as Scheduler promises, for    *)
(* every value of the constants: ExactlyOnePlace, DoneCount and            *)
(* ImplementsScheduler.                                                    *)
(*                                                                         *)
(* The places of a process partition Procs, and every handler moves one    *)
(* process, or two, between them; each such move is a step of Scheduler.   *)
(* The last exit is one too only because, when all but one have finished,  *)
(* the ready queue is empty: that is where the count is needed.            *)
(***************************************************************************)

(***************************************************************************)
(* Queues as sets.                                                         *)
(***************************************************************************)
\* pop_start takes one process, if there is one, out of a queue without repetitions.
LEMMA RestRange ==
  ASSUME NEW q \in Seq(Procs), IsInjective(q)
  PROVE  /\ IsInjective(Rest(q))
         /\ Range(Rest(q)) = Range(q) \ {Pop(q)}
         /\ q = <<>> => Range(q) = {} /\ Pop(q) = NoProc
         /\ q # <<>> => Pop(q) \in Range(q)
<1>1. CASE q = <<>>
  BY <1>1 DEF Rest, Pop, Range
<1>2. CASE q # <<>>
  <2>1. Rest(q) = Tail(q) /\ Pop(q) = Head(q)
    BY <1>2 DEF Rest, Pop
  <2> QED BY <1>2, <2>1, TailRange
<1> QED BY <1>1, <1>2

\* A process that goes from the head to the end of its queue leaves the queue
\* with the same processes.
LEMMA RotatedRange ==
  ASSUME NEW q \in Seq(Procs), IsInjective(q), q # <<>>
  PROVE  /\ IsInjective(Append(Rest(q), Pop(q)))
         /\ Range(Append(Rest(q), Pop(q))) = Range(q)
<1>1. Rest(q) \in Seq(Procs) /\ Pop(q) \in Procs
  BY PopType
<1>2. IsInjective(Rest(q)) /\ Range(Rest(q)) = Range(q) \ {Pop(q)} /\ Pop(q) \in Range(q)
  BY RestRange
<1> DEFINE r == Rest(q)
           x == Pop(q)
<1>3. Range(r) \cup {x} = Range(q) /\ x \notin Range(r)
  BY <1>2
<1>4. r \in Seq(Procs) /\ x \in Procs /\ IsInjective(r)
  BY <1>1, <1>2
<1> HIDE DEF r, x
<1>5. IsInjective(Append(r, x)) /\ Range(Append(r, x)) = Range(r) \cup {x}
  BY <1>3, <1>4, AppendRange
<1> QED BY <1>3, <1>5 DEF r, x

------------------------------------------------------------------------------
(***************************************************************************)
(* The invariant.                                                          *)
(***************************************************************************)
\* ExactlyOnePlace, place by place.
Partition(c, r, a, b, f) ==
  /\ c \cap r = {} /\ c \cap a = {} /\ c \cap b = {} /\ c \cap f = {}
  /\ r \cap a = {} /\ r \cap b = {} /\ r \cap f = {}
  /\ a \cap b = {} /\ a \cap f = {} /\ b \cap f = {}
  /\ c \cup r \cup a \cup b \cup f = Procs

Placed ==
  /\ IsInjective(readyQ) /\ IsInjective(irq1Q) /\ IsInjective(irq2Q)
  /\ Partition(OnCpu, Range(readyQ), Range(irq1Q), Range(irq2Q), Finished)

PlaceInv == ContextInv /\ Placed /\ DoneCount

LEMMA PlacedIsExactlyOnePlace == Placed => ExactlyOnePlace
<1> SUFFICES ASSUME Placed PROVE ExactlyOnePlace
  OBVIOUS
<1>1. Places = <<OnCpu, Range(readyQ), Range(irq1Q), Range(irq2Q), Finished>>
  BY DEF Places
<1> DEFINE c == OnCpu
           r == Range(readyQ)
           a == Range(irq1Q)
           b == Range(irq2Q)
           f == Finished
<1>2. Partition(c, r, a, b, f)
  BY DEF Placed
<1>3. Places = <<c, r, a, b, f>>
  BY <1>1
<1> HIDE DEF c, r, a, b, f
<1>4. \A i, j \in 1..5 : i # j => Places[i] \cap Places[j] = {}
  BY <1>2, <1>3 DEF Partition
<1>5. UNION Range(Places) = Procs
  <2>1. Range(Places) = {c, r, a, b, f}
    <3>1. DOMAIN Places = 1..5
      BY <1>3
    <3>2. /\ Places[1] = c /\ Places[2] = r /\ Places[3] = a
          /\ Places[4] = b /\ Places[5] = f
      BY <1>3
    <3> QED BY <3>1, <3>2 DEF Range
  <2>2. UNION {c, r, a, b, f} = c \cup r \cup a \cup b \cup f
    OBVIOUS
  <2> QED BY <1>2, <2>1, <2>2 DEF Partition
<1> QED BY <1>4, <1>5 DEF Placed, ExactlyOnePlace

LEMMA PlaceInit == Init => PlaceInv /\ Promise!SchedulerInit
<1> SUFFICES ASSUME Init PROVE PlaceInv /\ Promise!SchedulerInit
  OBVIOUS
<1>1. ContextInv
  BY ContextInit
<1>2. /\ pcb = [p \in Procs |-> InitialState(p)] /\ kpc = "top" /\ numDone = 0
      /\ readyQ = SubSeq([p \in Procs |-> p], 2, N)
      /\ irq1Q = <<>> /\ irq2Q = <<>>
  BY DEF Init
<1>3. cpu.pid = 1
  <2>1. cpu = [InitialState(1) EXCEPT !.current = "RUNNING"]
    BY DEF Init
  <2>2. DOMAIN InitialState(1) = {"pid", "PC", "current", "op", "resp"}
    BY DEF InitialState
  <2>3. InitialState(1).pid = 1
    BY DEF InitialState
  <2> QED BY <2>1, <2>2, <2>3
<1>4. \A p \in Procs : pcb[p].current = "READY"
  BY <1>2 DEF InitialState
<1>5. Finished = {}
  BY <1>4 DEF Finished
<1>6. OnCpu = {1}
  BY <1>3 DEF OnCpu, NoProc
<1>7. Range(irq1Q) = {} /\ Range(irq2Q) = {} /\ IsInjective(irq1Q) /\ IsInjective(irq2Q)
  BY <1>2 DEF Range, IsInjective
<1>8. Range(readyQ) = 2..N /\ IsInjective(readyQ)
  BY <1>2, FirstOnesRange DEF Procs
<1>9. Placed
  BY <1>5, <1>6, <1>7, <1>8 DEF Placed, Partition, Procs
<1>10. DoneCount
  BY <1>2, <1>5, FS_EmptySet DEF DoneCount
<1>11. Promise!SchedulerInit
  BY <1>2, <1>3, <1>5, <1>7 DEF Promise!SchedulerInit, Waiting, Procs
<1> QED BY <1>1, <1>9, <1>10, <1>11 DEF PlaceInv

------------------------------------------------------------------------------
(***************************************************************************)
(* The handlers: each keeps the partition and is a step of Scheduler.      *)
(***************************************************************************)
\* What a switch writes to the table decides who has finished.
LEMMA SwitchFinished ==
  ASSUME TypeInv, NEW st \in State, st.pid = cpu.pid,
         NEW states \in [Procs -> State],
         \A p \in Procs : states[p].current = pcb[p].current,
         NEW dest, switch_context(cpu.pid, st, states, dest)
  PROVE  Finished' = IF st.current = "DONE" THEN Finished \cup OnCpu ELSE Finished \ OnCpu
<1>1. cpu.pid \in Procs \cup {NoProc}
  BY DEF TypeInv, TypeOK, State
<1>2. pcb' = IF cpu.pid # NoProc THEN [states EXCEPT ![cpu.pid] = st] ELSE states
  BY <1>1 DEF switch_context
<1>3. \A p \in Procs : pcb'[p] = IF p \in OnCpu THEN st ELSE states[p]
  BY <1>1, <1>2 DEF OnCpu, Procs, NoProc
<1>4. OnCpu \subseteq Procs
  BY <1>1 DEF OnCpu
<1> QED BY <1>3, <1>4 DEF Finished

\* The CPU is loaded from the ready queue, or becomes idle if it is empty.
LEMMA DispatchPlaces ==
  ASSUME PlaceInv, cpu'.pid = Pop(readyQ), readyQ' = Rest(readyQ)
  PROVE  /\ IsInjective(readyQ')
         /\ OnCpu' \cup Range(readyQ') = Range(readyQ)
         /\ OnCpu' \cap Range(readyQ') = {}
<1>1. readyQ \in Seq(Procs) /\ IsInjective(readyQ)
  BY DEF PlaceInv, ContextInv, TypeInv, TypeOK, Placed
<1>2. OnCpu' = {Pop(readyQ)} \ {NoProc}
  BY DEF OnCpu
<1>3. /\ IsInjective(Rest(readyQ))
      /\ Range(Rest(readyQ)) = Range(readyQ) \ {Pop(readyQ)}
      /\ readyQ = <<>> => Range(readyQ) = {} /\ Pop(readyQ) = NoProc
      /\ readyQ # <<>> => Pop(readyQ) \in Range(readyQ) /\ Pop(readyQ) \in Procs
  BY <1>1, RestRange, PopType
<1>4. NoProc \notin Procs
  BY DEF Procs, NoProc
<1> QED BY <1>2, <1>3, <1>4

\* The same, as Scheduler sees it.
LEMMA DispatchRefines ==
  ASSUME PlaceInv, cpu'.pid = Pop(readyQ), readyQ' = Rest(readyQ),
         kpc # "exited", kpc' # "exited"
  PROVE  Promise!Dispatch
BY DEF Promise!Dispatch, Pop, Rest, NoProc

\* There are N processes, and those that have finished can be counted.
LEMMA FinishedFinite ==
  /\ IsFiniteSet(Procs) /\ Cardinality(Procs) = N
  /\ IsFiniteSet(Finished) /\ Cardinality(Finished) \in Nat
<1>1. IsFiniteSet(1..N) /\ Cardinality(1..N) = N
  <2>1. 1 \in Int /\ N \in Int /\ ~ (1 > N) /\ N - 1 + 1 = N
    OBVIOUS
  <2> QED BY <2>1, FS_Interval
<1>2. Finished \in SUBSET Procs
  BY DEF Finished
<1> QED BY <1>1, <1>2, FS_Subset, FS_CardinalityType DEF Procs

LEMMA PlaceSyscall ==
  ASSUME PlaceInv, handle_syscall
  PROVE  /\ Placed' /\ DoneCount'
         /\ Promise!BlockCurrent \/ Promise!FinishCurrent
<1> DEFINE op == Head(syscallFifo).op
           c == cpu.pid
<1>1. /\ TypeInv /\ OwnPids /\ ContextFaithful
      /\ cpu \in State /\ pcb \in [Procs -> State]
      /\ irq1Q \in Seq(Procs) /\ irq2Q \in Seq(Procs) /\ readyQ \in Seq(Procs)
      /\ numDone \in 0..N
  BY DEF PlaceInv, ContextInv, TypeInv, TypeOK
<1>2. /\ c \in Procs /\ kpc = "syscall" /\ readyQ' = Rest(readyQ) /\ UNCHANGED iter
      /\ Pop(readyQ) \in Procs \cup {NoProc}
  BY <1>1, PopType DEF handle_syscall, history, State
<1>3. OnCpu = {c} /\ c # NoProc
  BY <1>2 DEF OnCpu, Procs, NoProc
<1>4. /\ Placed
      /\ Partition({c}, Range(readyQ), Range(irq1Q), Range(irq2Q), Finished)
  BY <1>3 DEF PlaceInv, Placed
<1>5. /\ numDone = Cardinality(Finished) /\ numDone # N
      /\ IsFiniteSet(Finished) /\ IsFiniteSet(Procs) /\ Cardinality(Procs) = N
  <2>1. /\ IsFiniteSet(Procs) /\ Cardinality(Procs) = N
        /\ IsFiniteSet(Finished) /\ Cardinality(Finished) \in Nat
    BY FinishedFinite
  <2>2. numDone = Cardinality(Finished) + 0 /\ numDone # N
    BY <1>2 DEF PlaceInv, DoneCount
  <2> QED BY <2>1, <2>2
<1>6. \A p \in Procs : pcb[p].pid = p /\ pcb[p].PC = pcb[p].PC
  BY <1>1 DEF OwnPids
<1>7. c \notin Range(irq1Q) /\ c \notin Range(irq2Q) /\ c \notin Finished
  BY <1>4 DEF Partition
<1>8. CASE op \in IoOps /\ Block(op)
  <2> DEFINE st == [cpu EXCEPT !.op = op, !.current = "WAITING_FOR_IO"]
  <2>1. st \in State /\ st.pid = c /\ st.PC = cpu.PC /\ st.current # "DONE"
    BY <1>1, <1>8 DEF State
  <2>2. switch_context(c, st, pcb, Pop(readyQ))
    BY <1>8 DEF Block
  <2>3. cpu'.pid = Pop(readyQ)
    BY <1>1, <1>2, <1>6, <2>1, <2>2, SwitchKeepsContexts
  <2>4. Finished' = Finished
    <3>1. Finished' = Finished \ OnCpu
      BY <1>1, <2>1, <2>2, SwitchFinished
    <3> QED BY <1>3, <1>7, <3>1
  <2>5. /\ kpc' # "exited" /\ numDone' = numDone
        /\ irq1Q' = IF op \in FileOps THEN Append(irq1Q, c) ELSE irq1Q
        /\ irq2Q' = IF op \in DirOps THEN Append(irq2Q, c) ELSE irq2Q
    BY <1>8 DEF Block, AfterSyscall
  <2>6. \/ /\ Range(irq1Q') = Range(irq1Q) \cup {c} /\ Range(irq2Q') = Range(irq2Q)
        \/ /\ Range(irq1Q') = Range(irq1Q) /\ Range(irq2Q') = Range(irq2Q) \cup {c}
    <3>1. CASE op \in FileOps
      <4>1. irq1Q' = Append(irq1Q, c) /\ irq2Q' = irq2Q
        BY <2>5, <3>1
      <4> QED BY <1>1, <1>2, <4>1, AppendRange
    <3>2. CASE op \notin FileOps
      <4>1. irq1Q' = irq1Q /\ irq2Q' = Append(irq2Q, c)
        BY <1>8, <2>5, <3>2 DEF IoOps
      <4> QED BY <1>1, <1>2, <4>1, AppendRange
    <3> QED BY <3>1, <3>2
  <2>7. IsInjective(irq1Q') /\ IsInjective(irq2Q')
    <3>1. IsInjective(Append(irq1Q, c)) /\ IsInjective(Append(irq2Q, c))
      BY <1>1, <1>2, <1>4, <1>7, AppendRange DEF Placed
    <3> QED BY <1>4, <2>5, <3>1 DEF Placed
  <2>8. /\ IsInjective(readyQ')
        /\ OnCpu' \cup Range(readyQ') = Range(readyQ)
        /\ OnCpu' \cap Range(readyQ') = {}
    BY <1>2, <2>3, DispatchPlaces
  <2>9. Placed'
    BY <1>4, <2>4, <2>6, <2>7, <2>8 DEF Placed, Partition
  <2>10. DoneCount'
    BY <1>1, <1>5, <2>4, <2>5 DEF DoneCount
  <2>11. Waiting' = Waiting \cup {c}
    BY <2>6 DEF Waiting
  <2>12. Promise!Dispatch
    BY <1>2, <2>3, <2>5, DispatchRefines
  <2>13. Promise!BlockCurrent
    BY <1>2, <1>3, <2>4, <2>5, <2>11, <2>12 DEF Promise!BlockCurrent, NoProc
  <2> QED BY <2>9, <2>10, <2>13
<1>9. CASE Finish
  <2> DEFINE st == [cpu EXCEPT !.op = "EXIT", !.current = "DONE"]
  <2>1. st \in State /\ st.pid = c /\ st.PC = cpu.PC /\ st.current = "DONE"
    BY <1>1 DEF State
  <2>2. numDone' = numDone + 1 /\ UNCHANGED <<irq1Q, irq2Q>>
    BY <1>9 DEF Finish
  <2>4. Cardinality(Finished \cup {c}) = numDone + 1
    BY <1>5, <1>7, FS_AddElement
  <2>5. CASE AllDone(numDone + 1)
    <3>1. cpu' = st /\ pcb' = pcb /\ kpc' = "exited" /\ numDone + 1 = N
      BY <1>9, <2>5 DEF Finish, AllDone
    <3>2. Finished \cup {c} = Procs
      <4>1. Finished \cup {c} \in SUBSET Procs
        BY <1>2 DEF Finished
      <4> QED BY <1>5, <2>4, <3>1, <4>1, FS_Subset
    <3>3. Range(readyQ) = {}
      BY <1>4, <3>2 DEF Partition
    <3>4. readyQ = <<>> /\ readyQ' = readyQ
      <4>1. readyQ # <<>> => Pop(readyQ) \in Range(readyQ)
        BY <1>1, <1>4, RestRange DEF Placed
      <4> QED BY <1>2, <3>3, <4>1 DEF Rest
    <3>5. Finished' = Finished /\ OnCpu' = OnCpu /\ Waiting' = Waiting
      BY <2>1, <2>2, <3>1 DEF Finished, OnCpu, Waiting
    <3>6. Placed'
      BY <1>4, <2>2, <3>4, <3>5, <1>3 DEF Placed
    <3>7. DoneCount'
      BY <1>5, <2>2, <3>1, <3>5 DEF DoneCount
    <3>8. Promise!Dispatch
      BY <3>1, <3>4 DEF Promise!Dispatch, NoProc
    <3>9. Promise!FinishCurrent
      BY <1>2, <1>3, <3>1, <3>5, <3>8 DEF Promise!FinishCurrent, NoProc
    <3> QED BY <3>6, <3>7, <3>9
  <2>6. CASE ~AllDone(numDone + 1)
    <3>1. /\ switch_context(c, st, pcb, Pop(readyQ))
          /\ kpc' # "exited" /\ numDone + 1 # N
      BY <1>9, <2>6 DEF Finish, AfterSyscall, AllDone
    <3>2. cpu'.pid = Pop(readyQ)
      BY <1>1, <1>2, <1>6, <2>1, <3>1, SwitchKeepsContexts
    <3>3. Finished' = Finished \cup {c}
      BY <1>1, <1>3, <2>1, <3>1, SwitchFinished
    <3>4. /\ IsInjective(readyQ')
          /\ OnCpu' \cup Range(readyQ') = Range(readyQ)
          /\ OnCpu' \cap Range(readyQ') = {}
      BY <1>2, <3>2, DispatchPlaces
    <3>5. Placed'
      BY <1>4, <2>2, <3>3, <3>4 DEF Placed, Partition
    <3>6. DoneCount'
      BY <1>1, <2>2, <2>4, <3>1, <3>3 DEF DoneCount
    <3>7. Waiting' = Waiting
      BY <2>2 DEF Waiting
    <3>8. Promise!Dispatch
      BY <1>2, <3>1, <3>2, DispatchRefines
    <3>9. Promise!FinishCurrent
      BY <1>2, <1>3, <3>1, <3>3, <3>7, <3>8 DEF Promise!FinishCurrent, NoProc
    <3> QED BY <3>5, <3>6, <3>9
  <2> QED BY <2>5, <2>6
<1> QED BY <1>8, <1>9 DEF handle_syscall

\* A device interrupt rotates the queue of the device, or takes its first
\* process out of it and gives that process the CPU.
LEMMA DeviceOutcome ==
  ASSUME PlaceInv, UNCHANGED iter,
         NEW ioQ \in Seq(Procs), IsInjective(ioQ), Range(ioQ) \cap OnCpu = {},
         NEW newQ, NEW respQ \in Seq(Message),
         \/ newQ = ioQ /\ UNCHANGED <<cpu, pcb, readyQ>>
         \/ /\ ioQ # <<>> /\ newQ = Append(Rest(ioQ), Pop(ioQ))
            /\ cpu' = IF cpu.pid = NoProc THEN cpu ELSE [cpu EXCEPT !.current = "READY"]
            /\ UNCHANGED <<pcb, readyQ>>
         \/ /\ ioQ # <<>> /\ newQ = Rest(ioQ)
            /\ find_response_from_process(Pop(ioQ), respQ).found
            /\ switch_context(cpu.pid,
                 IF cpu.pid = NoProc THEN cpu ELSE [cpu EXCEPT !.current = "READY"],
                 [pcb EXCEPT ![Pop(ioQ)] =
                   Delivered(@, find_response_from_process(Pop(ioQ), respQ).popped)],
                 Pop(ioQ))
            /\ readyQ' = PreemptInto(readyQ)
  PROVE  /\ IsInjective(newQ) /\ Finished' = Finished
         /\ \/ cpu'.pid = cpu.pid /\ readyQ' = readyQ /\ Range(newQ) = Range(ioQ)
            \/ /\ cpu'.pid \in Range(ioQ)
               /\ Range(newQ) = Range(ioQ) \ {cpu'.pid}
               /\ readyQ' = IF cpu.pid = NoProc THEN readyQ ELSE Append(readyQ, cpu.pid)
<1> DEFINE io == Pop(ioQ)
           search == find_response_from_process(io, respQ)
           preempted == IF cpu.pid = NoProc THEN cpu ELSE [cpu EXCEPT !.current = "READY"]
           states == [pcb EXCEPT ![io] = Delivered(@, search.popped)]
<1>1. /\ TypeInv /\ TypeOK /\ OwnPids /\ ContextFaithful
      /\ cpu \in State /\ pcb \in [Procs -> State]
      /\ OnCpu \cap Finished = {}
  BY DEF PlaceInv, ContextInv, TypeInv, TypeOK, Placed, Partition
<1>2. preempted.pid = cpu.pid /\ preempted.PC = cpu.PC
  BY <1>1 DEF State
<1>3. CASE newQ = ioQ /\ UNCHANGED <<cpu, pcb, readyQ>>
  BY <1>3 DEF Finished
<1>4. CASE /\ ioQ # <<>> /\ newQ = Append(Rest(ioQ), io)
           /\ cpu' = preempted /\ UNCHANGED <<pcb, readyQ>>
  <2>1. IsInjective(newQ) /\ Range(newQ) = Range(ioQ)
    BY <1>4, RotatedRange
  <2>2. Finished' = Finished
    BY <1>4 DEF Finished
  <2> QED BY <1>2, <1>4, <2>1, <2>2
<1>5. CASE /\ ioQ # <<>> /\ newQ = Rest(ioQ) /\ search.found
           /\ switch_context(cpu.pid, preempted, states, io)
           /\ readyQ' = PreemptInto(readyQ)
  <2>1. preempted \in State /\ io \in Procs /\ states \in [Procs -> State]
    BY <1>1, <1>5, DeviceIrqType
  <2>2. \A p \in Procs : /\ states[p].pid = pcb[p].pid /\ states[p].PC = pcb[p].PC
                         /\ states[p].current = pcb[p].current
    <3>1. ASSUME NEW st \in State, NEW r
          PROVE  /\ Delivered(st, r).pid = st.pid /\ Delivered(st, r).PC = st.PC
                 /\ Delivered(st, r).current = st.current
      BY DEF Delivered, clear_syscall_args, State
    <3>2. states[io] = Delivered(pcb[io], search.popped)
      BY <1>1, <2>1
    <3>3. \A p \in Procs \ {io} : states[p] = pcb[p]
      BY <1>1, <2>1
    <3>4. pcb[io] \in State
      BY <1>1, <2>1
    <3>5. /\ states[io].pid = pcb[io].pid /\ states[io].PC = pcb[io].PC
          /\ states[io].current = pcb[io].current
      BY <3>1, <3>2, <3>4
    <3> HIDE DEF states
    <3> QED BY <3>3, <3>5
  <2>3. cpu'.pid = io
    <3>1. \A p \in Procs : states[p].pid = p /\ states[p].PC = pcb[p].PC
      BY <1>1, <2>2 DEF OwnPids
    <3> HIDE DEF states, preempted, search, io
    <3> QED BY <1>1, <1>2, <1>5, <2>1, <3>1, SwitchKeepsContexts
  <2>4. Finished' = Finished
    <3>1. \A p \in Procs : states[p].current = pcb[p].current
      BY <2>2
    <3>2. OnCpu # {} => preempted.current # "DONE"
      BY <1>1 DEF OnCpu, State
    <3>3. Finished' = IF preempted.current = "DONE" THEN Finished \cup OnCpu
                                                    ELSE Finished \ OnCpu
      <4> HIDE DEF states, preempted, search, io
      <4> QED BY <1>1, <1>2, <1>5, <2>1, <3>1, SwitchFinished
    <3> QED BY <1>1, <3>2, <3>3
  <2>5. IsInjective(newQ) /\ Range(newQ) = Range(ioQ) \ {io} /\ io \in Range(ioQ)
    BY <1>5, RestRange
  <2>6. readyQ' = IF cpu.pid = NoProc THEN readyQ ELSE Append(readyQ, cpu.pid)
    BY <1>5 DEF PreemptInto
  <2> QED BY <2>3, <2>4, <2>5, <2>6
<1> QED BY <1>3, <1>4, <1>5

\* A handler that lets no process finish leaves the count right.
LEMMA CountKept ==
  ASSUME PlaceInv, Finished' = Finished, numDone' = numDone,
         kpc' = "exited" <=> kpc = "exited"
  PROVE  DoneCount'
<1>1. DoneCount
  BY DEF PlaceInv
<1> QED BY <1>1 DEF DoneCount

\* Whoever takes the CPU, the process it had is the last of the ready ones.
LEMMA PreemptPlaces ==
  ASSUME PlaceInv,
         readyQ' = IF cpu.pid = NoProc THEN readyQ ELSE Append(readyQ, cpu.pid)
  PROVE  /\ IsInjective(readyQ')
         /\ Range(readyQ') = Range(readyQ) \cup OnCpu
<1>1. /\ cpu.pid \in Procs \cup {NoProc} /\ readyQ \in Seq(Procs) /\ IsInjective(readyQ)
      /\ OnCpu \cap Range(readyQ) = {}
  BY DEF PlaceInv, ContextInv, TypeInv, TypeOK, State, Placed, Partition
<1>2. CASE cpu.pid = NoProc
  BY <1>1, <1>2 DEF OnCpu
<1>3. CASE cpu.pid # NoProc
  <2>1. OnCpu = {cpu.pid} /\ cpu.pid \in Procs /\ cpu.pid \notin Range(readyQ)
    BY <1>1, <1>3 DEF OnCpu
  <2> QED BY <1>1, <1>3, <2>1, AppendRange
<1> QED BY <1>2, <1>3

\* The time slice: the head of the ready queue and the CPU change places.
LEMMA PlaceTimeslice ==
  ASSUME PlaceInv, handle_irq0_timeslice, UNCHANGED <<numDone, iter>>,
         kpc # "exited", kpc' # "exited"
  PROVE  /\ Placed' /\ DoneCount'
         /\ Promise!Rotate \/ UNCHANGED Promise!schedulerVars
<1>1. /\ TypeInv /\ OwnPids /\ ContextFaithful
      /\ cpu \in State /\ pcb \in [Procs -> State] /\ readyQ \in Seq(Procs)
      /\ Placed /\ UNCHANGED <<irq1Q, irq2Q>>
  BY DEF PlaceInv, ContextInv, TypeInv, TypeOK, handle_irq0_timeslice
<1>2. CASE cpu.pid = NoProc \/ readyQ = <<>>
  <2>1. UNCHANGED <<cpu, pcb, readyQ>>
    BY <1>2 DEF handle_irq0_timeslice
  <2>2. Finished' = Finished /\ OnCpu' = OnCpu /\ Waiting' = Waiting
    BY <1>1, <2>1 DEF Finished, OnCpu, Waiting
  <2>3. Placed'
    BY <1>1, <2>1, <2>2 DEF Placed
  <2>4. UNCHANGED Promise!schedulerVars
    BY <2>1, <2>2 DEF Promise!schedulerVars
  <2> QED BY <2>2, <2>3, <2>4, CountKept
<1>3. CASE ~(cpu.pid = NoProc \/ readyQ = <<>>)
  <2> DEFINE st == [cpu EXCEPT !.current = "READY"]
  <2>1. st \in State /\ st.pid = cpu.pid /\ st.PC = cpu.PC /\ st.current # "DONE"
    BY <1>1 DEF State
  <2>2. /\ switch_context(cpu.pid, st, pcb, Pop(readyQ))
        /\ readyQ' = Append(Rest(readyQ), cpu.pid)
    BY <1>3 DEF handle_irq0_timeslice
  <2>3. /\ Pop(readyQ) \in Procs /\ Rest(readyQ) \in Seq(Procs)
        /\ cpu.pid \in Procs /\ OnCpu = {cpu.pid}
    BY <1>1, <1>3, PopType DEF State, OnCpu
  <2>4. cpu'.pid = Pop(readyQ)
    <3>1. \A p \in Procs : pcb[p].pid = p /\ pcb[p].PC = pcb[p].PC
      BY <1>1 DEF OwnPids
    <3> QED BY <1>1, <2>1, <2>2, <2>3, <3>1, SwitchKeepsContexts
  <2>5. Finished' = Finished
    <3>1. Finished' = Finished \ OnCpu
      BY <1>1, <2>1, <2>2, SwitchFinished
    <3> QED BY <1>1, <3>1 DEF Placed, Partition
  <2>6. /\ IsInjective(Rest(readyQ)) /\ Pop(readyQ) \in Range(readyQ)
        /\ Range(Rest(readyQ)) = Range(readyQ) \ {Pop(readyQ)}
    BY <1>1, <1>3, RestRange DEF Placed
  <2>7. cpu.pid \notin Range(readyQ)
    BY <1>1, <2>3 DEF Placed, Partition
  <2>8. /\ IsInjective(readyQ')
        /\ Range(readyQ') = (Range(readyQ) \ {Pop(readyQ)}) \cup {cpu.pid}
    BY <2>2, <2>3, <2>6, <2>7, AppendRange
  <2>9. OnCpu' = {Pop(readyQ)}
    BY <2>3, <2>4 DEF OnCpu, Procs, NoProc
  <2>10. Placed'
    BY <1>1, <2>3, <2>5, <2>6, <2>7, <2>8, <2>9 DEF Placed, Partition
  <2>11. Promise!Rotate
    <3>1. Pop(readyQ) = Head(readyQ) /\ Rest(readyQ) = Tail(readyQ) /\ Waiting' = Waiting
      BY <1>1, <1>3 DEF Pop, Rest, Waiting
    <3> QED BY <1>3, <2>2, <2>4, <2>5, <3>1 DEF Promise!Rotate, NoProc
  <2> QED BY <2>5, <2>10, <2>11, CountKept
<1> QED BY <1>2, <1>3

\* A device interrupt: its queue is only rotated, or its first process goes to
\* the CPU and the process that had it becomes ready.
LEMMA PlaceDevice ==
  ASSUME PlaceInv, UNCHANGED <<numDone, iter>>, kpc # "exited", kpc' # "exited",
         \/ DeviceIrq(irq1Q, fileRespQ) /\ UNCHANGED irq2Q
         \/ DeviceIrq(irq2Q, dirRespQ) /\ UNCHANGED irq1Q
  PROVE  /\ Placed' /\ DoneCount'
         /\ (\E p \in Waiting : Promise!Unblock(p)) \/ UNCHANGED Promise!schedulerVars
<1>1. /\ readyQ \in Seq(Procs) /\ irq1Q \in Seq(Procs) /\ irq2Q \in Seq(Procs)
      /\ fileRespQ \in Seq(Message) /\ dirRespQ \in Seq(Message)
      /\ cpu.pid \in Procs \cup {NoProc}
  BY DEF PlaceInv, ContextInv, TypeInv, TypeOK, State
<1>2. /\ IsInjective(readyQ) /\ IsInjective(irq1Q) /\ IsInjective(irq2Q)
      /\ Partition(OnCpu, Range(readyQ), Range(irq1Q), Range(irq2Q), Finished)
  BY DEF PlaceInv, Placed
<1>3. /\ Range(irq1Q) \cap OnCpu = {} /\ Range(irq2Q) \cap OnCpu = {}
      /\ Range(irq1Q) \subseteq Procs /\ Range(irq2Q) \subseteq Procs
  BY <1>2 DEF Partition
<1>4. /\ IsInjective(irq1Q') /\ IsInjective(irq2Q') /\ Finished' = Finished
      /\ \/ /\ cpu'.pid = cpu.pid /\ readyQ' = readyQ
            /\ Range(irq1Q') = Range(irq1Q) /\ Range(irq2Q') = Range(irq2Q)
         \/ /\ cpu'.pid \in Range(irq1Q)
            /\ Range(irq1Q') = Range(irq1Q) \ {cpu'.pid} /\ Range(irq2Q') = Range(irq2Q)
            /\ readyQ' = IF cpu.pid = NoProc THEN readyQ ELSE Append(readyQ, cpu.pid)
         \/ /\ cpu'.pid \in Range(irq2Q)
            /\ Range(irq2Q') = Range(irq2Q) \ {cpu'.pid} /\ Range(irq1Q') = Range(irq1Q)
            /\ readyQ' = IF cpu.pid = NoProc THEN readyQ ELSE Append(readyQ, cpu.pid)
  <2>1. CASE DeviceIrq(irq1Q, fileRespQ) /\ UNCHANGED irq2Q
    <3>1. /\ IsInjective(irq1Q') /\ Finished' = Finished
          /\ \/ /\ cpu'.pid = cpu.pid /\ readyQ' = readyQ /\ Range(irq1Q') = Range(irq1Q)
             \/ /\ cpu'.pid \in Range(irq1Q)
                /\ Range(irq1Q') = Range(irq1Q) \ {cpu'.pid}
                /\ readyQ' = IF cpu.pid = NoProc THEN readyQ ELSE Append(readyQ, cpu.pid)
      BY <1>1, <1>2, <1>3, <2>1, DeviceOutcome DEF DeviceIrq
    <3> QED BY <1>2, <2>1, <3>1
  <2>2. CASE DeviceIrq(irq2Q, dirRespQ) /\ UNCHANGED irq1Q
    <3>1. /\ IsInjective(irq2Q') /\ Finished' = Finished
          /\ \/ /\ cpu'.pid = cpu.pid /\ readyQ' = readyQ /\ Range(irq2Q') = Range(irq2Q)
             \/ /\ cpu'.pid \in Range(irq2Q)
                /\ Range(irq2Q') = Range(irq2Q) \ {cpu'.pid}
                /\ readyQ' = IF cpu.pid = NoProc THEN readyQ ELSE Append(readyQ, cpu.pid)
      BY <1>1, <1>2, <1>3, <2>2, DeviceOutcome DEF DeviceIrq
    <3> QED BY <1>2, <2>2, <3>1
  <2> QED BY <2>1, <2>2
<1>5. DoneCount'
  BY <1>4, CountKept
<1>6. CASE /\ cpu'.pid = cpu.pid /\ readyQ' = readyQ
           /\ Range(irq1Q') = Range(irq1Q) /\ Range(irq2Q') = Range(irq2Q)
  <2>1. OnCpu' = OnCpu /\ Waiting' = Waiting
    BY <1>6 DEF OnCpu, Waiting
  <2>2. Placed'
    BY <1>2, <1>4, <1>6, <2>1 DEF Placed
  <2>3. UNCHANGED Promise!schedulerVars
    BY <1>4, <1>6, <2>1 DEF Promise!schedulerVars
  <2> QED BY <1>5, <2>2, <2>3
<1>7. CASE /\ readyQ' = IF cpu.pid = NoProc THEN readyQ ELSE Append(readyQ, cpu.pid)
           /\ \/ /\ cpu'.pid \in Range(irq1Q)
                 /\ Range(irq1Q') = Range(irq1Q) \ {cpu'.pid}
                 /\ Range(irq2Q') = Range(irq2Q)
              \/ /\ cpu'.pid \in Range(irq2Q)
                 /\ Range(irq2Q') = Range(irq2Q) \ {cpu'.pid}
                 /\ Range(irq1Q') = Range(irq1Q)
  <2>1. IsInjective(readyQ') /\ Range(readyQ') = Range(readyQ) \cup OnCpu
    BY <1>7, PreemptPlaces
  <2>2. OnCpu' = {cpu'.pid}
    BY <1>3, <1>7 DEF OnCpu, Procs, NoProc
  <2>3. Partition(OnCpu', Range(readyQ'), Range(irq1Q'), Range(irq2Q'), Finished')
    <3> DEFINE c == OnCpu
               r == Range(readyQ)
               a == Range(irq1Q)
               b == Range(irq2Q)
               f == Finished
               x == cpu'.pid
    <3>1. Partition(c, r, a, b, f)
      BY <1>2
    <3>2. /\ OnCpu' = {x} /\ Range(readyQ') = r \cup c /\ Finished' = f
          /\ \/ x \in a /\ Range(irq1Q') = a \ {x} /\ Range(irq2Q') = b
             \/ x \in b /\ Range(irq2Q') = b \ {x} /\ Range(irq1Q') = a
      BY <1>4, <1>7, <2>1, <2>2
    <3> HIDE DEF c, r, a, b, f, x
    <3>3. CASE x \in a /\ Range(irq1Q') = a \ {x} /\ Range(irq2Q') = b
      BY <3>1, <3>2, <3>3 DEF Partition
    <3>4. CASE x \in b /\ Range(irq2Q') = b \ {x} /\ Range(irq1Q') = a
      BY <3>1, <3>2, <3>4 DEF Partition
    <3> QED BY <3>2, <3>3, <3>4
  <2>4. Placed'
    BY <1>4, <2>1, <2>3 DEF Placed
  <2>5. cpu'.pid \in Waiting /\ Waiting' = Waiting \ {cpu'.pid}
    <3>1. Range(irq1Q) \cap Range(irq2Q) = {}
      BY <1>2 DEF Partition
    <3> QED BY <1>7, <3>1 DEF Waiting
  <2>6. Promise!Unblock(cpu'.pid)
    BY <1>4, <1>7, <2>5 DEF Promise!Unblock, NoProc
  <2> QED BY <1>5, <2>4, <2>5, <2>6
<1> QED BY <1>4, <1>6, <1>7

LEMMA PlaceIrq ==
  ASSUME PlaceInv, handle_irq
  PROVE  /\ Placed' /\ DoneCount'
         /\ \/ Promise!Rotate
            \/ \E p \in Waiting : Promise!Unblock(p)
            \/ UNCHANGED Promise!schedulerVars
<1>1. /\ UNCHANGED <<numDone, iter>> /\ kpc # "exited" /\ kpc' # "exited"
  BY DEF handle_irq
<1>2. CASE handle_irq0_timeslice
  BY <1>1, <1>2, PlaceTimeslice
<1>3. CASE handle_irq1_device \/ handle_irq2_device
  <2>1. \/ DeviceIrq(irq1Q, fileRespQ) /\ UNCHANGED irq2Q
        \/ DeviceIrq(irq2Q, dirRespQ) /\ UNCHANGED irq1Q
    BY <1>3 DEF handle_irq1_device, handle_irq2_device
  <2> QED BY <1>1, <2>1, PlaceDevice
<1> QED BY <1>2, <1>3 DEF handle_irq

------------------------------------------------------------------------------
(***************************************************************************)
(* Everything else moves no process, and is a stutter of Scheduler.        *)
(***************************************************************************)
LEMMA PlaceOther ==
  ASSUME PlaceInv,
         \/ CheckPaused \/ Select \/ StopCurrent \/ ResumeCurrent
         \/ handle_udp_response \/ ImpossibleSyscall \/ NothingRead
         \/ SignalStep \/ NetworkStep
         \/ (\E p \in Procs : AppStep(p))
         \/ (\E irq \in IrqTypes : RaiseIrq(irq))
         \/ UNCHANGED vars
  PROVE  Placed' /\ DoneCount' /\ UNCHANGED Promise!schedulerVars
<1> USE DEF queues, channels, history, Ended
<1>1. cpu \in State /\ Placed
  BY DEF PlaceInv, ContextInv, TypeInv, TypeOK
<1> DEFINE Still == /\ cpu'.pid = cpu.pid
                    /\ UNCHANGED <<pcb, readyQ, irq1Q, irq2Q, numDone>>
                    /\ kpc' = "exited" <=> kpc = "exited"
<1>2. SUFFICES Still
  <2>1. OnCpu' = OnCpu /\ Waiting' = Waiting /\ Finished' = Finished
    BY <1>2 DEF OnCpu, Waiting, Finished
  <2>2. Placed'
    BY <1>1, <1>2, <2>1 DEF Placed
  <2>3. UNCHANGED Promise!schedulerVars
    BY <1>2, <2>1 DEF Promise!schedulerVars
  <2> QED BY <1>2, <2>1, <2>2, <2>3, CountKept
<1>3. CASE CheckPaused \/ Select
  BY <1>3 DEF CheckPaused, Select, Pselect, PselectTimeout
<1>4. CASE StopCurrent \/ handle_udp_response \/ ImpossibleSyscall \/ NothingRead
  BY <1>4 DEF StopCurrent, handle_udp_response, ImpossibleSyscall, NothingRead,
              EmptyRead, AfterStop, AfterUdp, AfterSyscall
<1>5. CASE ResumeCurrent
  BY <1>1, <1>5 DEF ResumeCurrent, State
<1>6. ASSUME NEW tty \in BOOLEAN, manual_pause(tty) \/ manual_unpause(tty) PROVE Still
  BY <1>6 DEF manual_pause, manual_unpause, AfterSignal
<1>7. CASE handle_ctrl_c
  BY <1>7 DEF handle_ctrl_c
<1>8. CASE NetworkStep
  BY <1>8 DEF NetworkStep, SfssReply, LoseMessage
<1>9. ASSUME NEW p \in Procs, AppStep(p) PROVE Still
  BY <1>1, <1>9 DEF AppStep, WriteSyscall, AdvancePC, ConsumeResponse, State
<1>10. ASSUME NEW irq \in IrqTypes, RaiseIrq(irq) PROVE Still
  BY <1>10 DEF RaiseIrq
<1>11. CASE UNCHANGED vars
  BY <1>11 DEF vars
<1> QED BY <1>3, <1>4, <1>5, <1>6, <1>7, <1>8, <1>9, <1>10, <1>11 DEF SignalStep

LEMMA PlaceStep ==
  ASSUME PlaceInv, [Next]_vars
  PROVE  PlaceInv' /\ [Promise!SchedulerNext]_(Promise!schedulerVars)
<1>1. ContextInv'
  BY ContextStep DEF PlaceInv
<1>2. CASE handle_syscall
  BY <1>1, <1>2, PlaceSyscall DEF PlaceInv, Promise!SchedulerNext
<1>3. CASE handle_irq
  <2>1. Placed' /\ DoneCount'
    BY <1>3, PlaceIrq
  <2>2. Promise!SchedulerNext \/ UNCHANGED Promise!schedulerVars
    BY <1>3, PlaceIrq DEF Promise!SchedulerNext
  <2> QED BY <1>1, <2>1, <2>2 DEF PlaceInv
<1>4. CASE ~handle_syscall /\ ~handle_irq
  <2>1. Placed' /\ DoneCount' /\ UNCHANGED Promise!schedulerVars
    BY <1>4, PlaceOther DEF Next, KernelStep, Select, NothingRead
  <2> QED BY <1>1, <2>1 DEF PlaceInv
<1> QED BY <1>2, <1>3, <1>4

LEMMA PlaceCorrect == Spec => []PlaceInv
<1>1. PlaceInv /\ [Next]_vars => PlaceInv'
  BY PlaceStep
<1> QED BY <1>1, PlaceInit, PTL DEF Spec

\* No handler loses a process, or leaves it in two places at once
\* (ExactlyOnePlace), whichever process a syscall is charged to.
THEOREM NoProcessLost == Spec => []ExactlyOnePlace
<1>1. PlaceInv => ExactlyOnePlace
  BY PlacedIsExactlyOnePlace DEF PlaceInv
<1> QED BY <1>1, PlaceCorrect, PTL

\* num_children_done is exact, and the kernel exits exactly when it reaches the
\* number of processes (DoneCount).
THEOREM EndsAfterTheLastExit == Spec => []DoneCount
<1>1. PlaceInv => DoneCount
  BY DEF PlaceInv
<1> QED BY <1>1, PlaceCorrect, PTL

\* Every behaviour of the kernel is, seen from the scheduler, one that
\* Scheduler allows (ImplementsScheduler).
THEOREM KernelImplementsScheduler == Spec => ImplementsScheduler
<1>1. Init => Promise!SchedulerInit
  BY PlaceInit
<1>2. PlaceInv /\ [Next]_vars => [Promise!SchedulerNext]_(Promise!schedulerVars)
  BY PlaceStep
<1> QED
  BY <1>1, <1>2, PlaceCorrect, PTL DEF Spec, ImplementsScheduler, Promise!SchedulerSpec

------------------------------------------------------------------------------
(***************************************************************************)
(* The messages of the kernel: OneMessagePerWaiter, WaiterIsAnswerable and *)
(* ReleasedWithItsResponse in every regime, and SyscallFromCurrent when    *)
(* the kernel is faster than the sleeps of the processes.                  *)
(*                                                                         *)
(* OneMessagePerWaiter is not inductive.  A response is queued by the      *)
(* operation recorded for its owner, so that it reaches the queue of the   *)
(* right device only if that operation is one that device serves; and that *)
(* a process which blocks has no message left over needs it to be in no    *)
(* device queue, which is the partition of the places (PlaceInv).          *)
(*                                                                         *)
(* First the account of the messages, as a fact about sets: a and b wait   *)
(* for the two devices, op is the operation recorded for each process, s,  *)
(* k, f and d are the four stages of a message, gone the messages that     *)
(* were lost or thrown away.                                               *)
(***************************************************************************)
\* No message is in two stages.
Apart(s, k, f, d) ==
  /\ s \cap k = {} /\ s \cap f = {} /\ s \cap d = {}
  /\ k \cap f = {} /\ k \cap d = {} /\ f \cap d = {}

\* A process waits with an operation of its device; a message answers the
\* operation its owner waits for, from the queue of the right device; and a
\* process that waits has its message somewhere.
Accounted(a, b, op, s, k, f, d, gone) ==
  /\ \A p \in a : op[p] \in FileOps
  /\ \A p \in b : op[p] \in DirOps
  /\ \A r \in s \cup k \cup f \cup d :
       r.process_pos \in a \cup b /\ r.op = op[r.process_pos]
  /\ \A r \in f : r.process_pos \in a
  /\ \A r \in d : r.process_pos \in b
  /\ Apart(s, k, f, d)
  /\ \A p \in a \cup b :
       [process_pos |-> p, op |-> op[p]] \in s \cup k \cup f \cup d \cup gone

\* Messages that only change stage, or are gone, stay accounted for.
LEMMA MovedAccount ==
  ASSUME NEW a, NEW b, NEW op, NEW s, NEW k, NEW f, NEW d, NEW gone,
         Accounted(a, b, op, s, k, f, d, gone),
         NEW op2, \A p \in a \cup b : op2[p] = op[p],
         NEW s2, NEW k2, NEW f2, NEW d2, NEW gone2,
         s2 \cup k2 \cup f2 \cup d2 \subseteq s \cup k \cup f \cup d,
         s \cup k \cup f \cup d \cup gone \subseteq s2 \cup k2 \cup f2 \cup d2 \cup gone2,
         Apart(s2, k2, f2, d2),
         \A r \in f2 : r.process_pos \in a,
         \A r \in d2 : r.process_pos \in b
  PROVE  Accounted(a, b, op2, s2, k2, f2, d2, gone2)
<1>1. \A r \in s2 \cup k2 \cup f2 \cup d2 :
        r.process_pos \in a \cup b /\ r.op = op2[r.process_pos]
  BY DEF Accounted
<1>2. \A p \in a \cup b :
        [process_pos |-> p, op |-> op2[p]] \in s2 \cup k2 \cup f2 \cup d2 \cup gone2
  BY DEF Accounted
<1>3. (\A p \in a : op2[p] \in FileOps) /\ (\A p \in b : op2[p] \in DirOps)
  BY DEF Accounted
<1> QED BY <1>1, <1>2, <1>3 DEF Accounted

\* A process that did not wait blocks with the request that leaves.
LEMMA SentAccount ==
  ASSUME NEW a, NEW b, NEW op, NEW s, NEW k, NEW f, NEW d, NEW gone,
         Accounted(a, b, op, s, k, f, d, gone),
         NEW c, c \notin a \cup b, NEW o, NEW a2, NEW b2,
         \/ o \in FileOps /\ a2 = a \cup {c} /\ b2 = b
         \/ o \in DirOps /\ a2 = a /\ b2 = b \cup {c},
         NEW op2, op2[c] = o, \A p \in a \cup b : op2[p] = op[p]
  PROVE  Accounted(a2, b2, op2, s \cup {[process_pos |-> c, op |-> o]}, k, f, d, gone)
<1> DEFINE m == [process_pos |-> c, op |-> o]
<1>1. m.process_pos = c /\ m.op = o
  OBVIOUS
<1>2. m \notin s \cup k \cup f \cup d
  BY <1>1 DEF Accounted
<1>3. \A r \in s \cup k \cup f \cup d :
        r.process_pos \in a2 \cup b2 /\ r.op = op2[r.process_pos]
  BY DEF Accounted
<1>4. \A p \in a2 \cup b2 :
        [process_pos |-> p, op |-> op2[p]] \in s \cup {m} \cup k \cup f \cup d \cup gone
  <2>1. \A p \in a2 \cup b2 : p = c \/ p \in a \cup b
    OBVIOUS
  <2> QED BY <2>1 DEF Accounted
<1>5. (\A p \in a2 : op2[p] \in FileOps) /\ (\A p \in b2 : op2[p] \in DirOps)
  BY DEF Accounted
<1>6. (\A r \in f : r.process_pos \in a2) /\ (\A r \in d : r.process_pos \in b2)
  BY DEF Accounted
<1> HIDE DEF m
<1>7. Apart(s \cup {m}, k, f, d)
  BY <1>2 DEF Accounted, Apart
<1>8. \A r \in s \cup {m} \cup k \cup f \cup d :
        r.process_pos \in a2 \cup b2 /\ r.op = op2[r.process_pos]
  BY <1>1, <1>3
<1> QED BY <1>4, <1>5, <1>6, <1>7, <1>8 DEF Accounted, m

\* m, the response its owner takes, answers what it waits for, and none is left.
TakenWhole(m, op, rest) ==
  /\ m.op = op[m.process_pos]
  /\ \A r \in rest : r.process_pos # m.process_pos

\* A process takes its response and waits no more: no message of it is left.
LEMMA TakenAccount ==
  ASSUME NEW a, NEW b, NEW op, NEW s, NEW k, NEW f, NEW d, NEW gone,
         Accounted(a, b, op, s, k, f, d, gone),
         s \cup k \cup f \cup d \subseteq Message,
         NEW m, m \in f \cup d, NEW op2,
         \A p \in (a \cup b) \ {m.process_pos} : op2[p] = op[p]
  PROVE  /\ TakenWhole(m, op, s \cup k \cup (f \ {m}) \cup (d \ {m}))
         /\ Accounted(a \ {m.process_pos}, b \ {m.process_pos}, op2,
                      s, k, f \ {m}, d \ {m}, gone)
<1> DEFINE x == m.process_pos
           f2 == f \ {m}
           d2 == d \ {m}
<1>1. m.op = op[x]
  BY DEF Accounted
<1>2. m \notin s /\ m \notin k
  BY DEF Accounted, Apart
<1>3. \A r \in s \cup k \cup f \cup d : r.process_pos = x => r = m
  <2> SUFFICES ASSUME NEW r \in s \cup k \cup f \cup d, r.process_pos = x PROVE r = m
    OBVIOUS
  <2>1. r.op = m.op
    BY <1>1 DEF Accounted
  <2>2. r \in Message /\ m \in Message
    OBVIOUS
  <2> QED BY <2>1, <2>2 DEF Message
<1>4. \A r \in s \cup k \cup f2 \cup d2 : r.process_pos # x
  BY <1>2, <1>3
<1>5. \A r \in s \cup k \cup f2 \cup d2 :
        r.process_pos \in (a \ {x}) \cup (b \ {x}) /\ r.op = op2[r.process_pos]
  BY <1>4 DEF Accounted
<1>6. \A p \in (a \ {x}) \cup (b \ {x}) :
        [process_pos |-> p, op |-> op2[p]] \in s \cup k \cup f2 \cup d2 \cup gone
  <2> SUFFICES ASSUME NEW p \in a \cup b, p # x
               PROVE  [process_pos |-> p, op |-> op2[p]] \in s \cup k \cup f2 \cup d2 \cup gone
    OBVIOUS
  <2>1. [process_pos |-> p, op |-> op2[p]] \in s \cup k \cup f \cup d \cup gone
    BY DEF Accounted
  <2>2. [process_pos |-> p, op |-> op2[p]] # m
    OBVIOUS
  <2> QED BY <2>1, <2>2
<1>7. /\ \A p \in a \ {x} : op2[p] \in FileOps
      /\ \A p \in b \ {x} : op2[p] \in DirOps
  BY DEF Accounted
<1>8. /\ \A r \in f2 : r.process_pos \in a \ {x}
      /\ \A r \in d2 : r.process_pos \in b \ {x}
  BY <1>4 DEF Accounted
<1>9. Apart(s, k, f2, d2)
  BY DEF Accounted, Apart
<1>10. TakenWhole(m, op, s \cup k \cup f2 \cup d2)
  BY <1>1, <1>4 DEF TakenWhole
<1>11. Accounted(a \ {x}, b \ {x}, op2, s, k, f2, d2, gone)
  BY <1>5, <1>6, <1>7, <1>8, <1>9 DEF Accounted
<1> QED BY <1>10, <1>11

------------------------------------------------------------------------------
(***************************************************************************)
(* The invariant.                                                          *)
(***************************************************************************)
OpOf == [p \in Procs |-> pcb[p].op]

MessagesAccounted ==
  /\ IsInjective(fileRespQ) /\ IsInjective(dirRespQ)
  /\ Accounted(Range(irq1Q), Range(irq2Q), OpOf, toSfss, toKernel,
               Range(fileRespQ), Range(dirRespQ), lost \cup discarded)

MessageInv == PlaceInv /\ MessagesAccounted

\* The types and places of what the proofs below speak of.
LEMMA MessageFacts ==
  ASSUME PlaceInv
  PROVE  /\ TypeInv /\ cpu \in State /\ pcb \in [Procs -> State]
         /\ irq1Q \in Seq(Procs) /\ irq2Q \in Seq(Procs) /\ readyQ \in Seq(Procs)
         /\ fileRespQ \in Seq(Message) /\ dirRespQ \in Seq(Message)
         /\ toSfss \subseteq Message /\ toKernel \subseteq Message
         /\ Range(fileRespQ) \subseteq Message /\ Range(dirRespQ) \subseteq Message
         /\ IsInjective(irq1Q) /\ IsInjective(irq2Q)
         /\ Range(irq1Q) \subseteq Procs /\ Range(irq2Q) \subseteq Procs
         /\ Range(irq1Q) \cap Range(irq2Q) = {}
         /\ Range(irq1Q) \cap OnCpu = {} /\ Range(irq2Q) \cap OnCpu = {}
<1>1. TypeInv /\ TypeOK /\ Placed
  BY DEF PlaceInv, ContextInv, TypeInv
<1>2. ASSUME NEW q \in Seq(Message) PROVE Range(q) \subseteq Message
  BY ElementOfSeq, LenProperties DEF Range
<1>3. Range(fileRespQ) \subseteq Message /\ Range(dirRespQ) \subseteq Message
  BY <1>1, <1>2 DEF TypeOK
<1>4. /\ Range(irq1Q) \subseteq Procs /\ Range(irq2Q) \subseteq Procs
      /\ Range(irq1Q) \cap Range(irq2Q) = {}
      /\ Range(irq1Q) \cap OnCpu = {} /\ Range(irq2Q) \cap OnCpu = {}
  BY <1>1 DEF Placed, Partition
<1> QED BY <1>1, <1>3, <1>4 DEF TypeOK, Placed

\* What one message per process that waits means for the four stages.
LEMMA AccountedIsOneMessage == MessageInv => OneMessagePerWaiter
<1> SUFFICES ASSUME MessageInv PROVE OneMessagePerWaiter
  OBVIOUS
<1> DEFINE s == toSfss
           k == toKernel
           f == Range(fileRespQ)
           d == Range(dirRespQ)
           stages == <<s, k, f, d>>
<1>1. /\ s \cup k \cup f \cup d \subseteq Message
      /\ Accounted(Range(irq1Q), Range(irq2Q), OpOf, s, k, f, d, lost \cup discarded)
      /\ IsInjective(fileRespQ) /\ IsInjective(dirRespQ)
  BY MessageFacts DEF MessageInv, MessagesAccounted
<1>2. \A r \in s \cup k \cup f \cup d : /\ r.process_pos \in Procs /\ r.process_pos \in Waiting
                                        /\ r.op = pcb[r.process_pos].op
  BY <1>1 DEF Accounted, OpOf, Waiting, Message
<1>3. ASSUME NEW p \in Procs, NEW r \in s \cup k \cup f \cup d, r.process_pos = p
      PROVE  r = [process_pos |-> p, op |-> pcb[p].op]
  <2>1. r \in Message /\ r.op = pcb[p].op
    BY <1>1, <1>2, <1>3
  <2> QED BY <1>3, <2>1 DEF Message
<1>4. /\ stages[1] = s /\ stages[2] = k /\ stages[3] = f /\ stages[4] = d
  OBVIOUS
<1>5. \A i \in 1..4 : stages[i] \subseteq s \cup k \cup f \cup d
  BY <1>4
<1>6. \A i, j \in 1..4 : i # j => stages[i] \cap stages[j] = {}
  BY <1>1, <1>4 DEF Accounted, Apart
<1> SUFFICES ASSUME NEW p \in Procs
             PROVE  /\ Cardinality(UNION {Owned(p, stages[i]) : i \in 1..4}) <= 1
                    /\ \A i, j \in 1..4 : i # j => Owned(p, stages[i]) \cap Owned(p, stages[j]) = {}
                    /\ AtMostOne(fileRespQ, p) /\ AtMostOne(dirRespQ, p)
                    /\ \A i \in 1..4 : \A r \in Owned(p, stages[i]) :
                         p \in Waiting /\ r.op = pcb[p].op
                    /\ Owned(p, Range(fileRespQ)) # {} => p \in Range(irq1Q)
                    /\ Owned(p, Range(dirRespQ)) # {} => p \in Range(irq2Q)
  BY DEF OneMessagePerWaiter
<1> HIDE DEF stages
<1>7. Cardinality(UNION {Owned(p, stages[i]) : i \in 1..4}) <= 1
  <2> DEFINE u == UNION {Owned(p, stages[i]) : i \in 1..4}
             m == [process_pos |-> p, op |-> pcb[p].op]
  <2>1. u \subseteq {m}
    BY <1>3, <1>5 DEF Owned
  <2>2. u = {} \/ u = {m}
    BY <2>1
  <2> HIDE DEF u, m
  <2>3. Cardinality({m}) = 1 /\ Cardinality({}) = 0
    BY FS_Singleton, FS_EmptySet
  <2>4. Cardinality(u) = 0 \/ Cardinality(u) = 1
    BY <2>2, <2>3
  <2>5. Cardinality(u) <= 1
    BY <2>4
  <2> QED BY <2>5 DEF u
<1>8. AtMostOne(fileRespQ, p)
  <2> SUFFICES ASSUME NEW i \in DOMAIN fileRespQ, NEW j \in DOMAIN fileRespQ,
                      fileRespQ[i].process_pos = p, fileRespQ[j].process_pos = p
               PROVE  i = j
    BY DEF AtMostOne
  <2>1. fileRespQ[i] \in f /\ fileRespQ[j] \in f
    BY DEF Range
  <2>2. fileRespQ[i] = fileRespQ[j]
    BY <1>3, <2>1
  <2> QED BY <1>1, <2>2 DEF IsInjective
<1>9. AtMostOne(dirRespQ, p)
  <2> SUFFICES ASSUME NEW i \in DOMAIN dirRespQ, NEW j \in DOMAIN dirRespQ,
                      dirRespQ[i].process_pos = p, dirRespQ[j].process_pos = p
               PROVE  i = j
    BY DEF AtMostOne
  <2>1. dirRespQ[i] \in d /\ dirRespQ[j] \in d
    BY DEF Range
  <2>2. dirRespQ[i] = dirRespQ[j]
    BY <1>3, <2>1
  <2> QED BY <1>1, <2>2 DEF IsInjective
<1>10. \A i, j \in 1..4 : i # j => Owned(p, stages[i]) \cap Owned(p, stages[j]) = {}
  BY <1>6 DEF Owned
<1>11. \A i \in 1..4 : \A r \in Owned(p, stages[i]) : p \in Waiting /\ r.op = pcb[p].op
  BY <1>2, <1>5 DEF Owned
<1>12. /\ Owned(p, Range(fileRespQ)) # {} => p \in Range(irq1Q)
       /\ Owned(p, Range(dirRespQ)) # {} => p \in Range(irq2Q)
  BY <1>1 DEF Accounted, Owned
<1> QED BY <1>7, <1>8, <1>9, <1>10, <1>11, <1>12

LEMMA AccountedIsAnswerable == MessageInv => WaiterIsAnswerable
<1> SUFFICES ASSUME MessageInv, NEW p \in Waiting
             PROVE  [process_pos |-> p, op |-> pcb[p].op] \in
                      toSfss \cup toKernel \cup Range(fileRespQ) \cup Range(dirRespQ)
                        \cup lost \cup discarded
  BY DEF WaiterIsAnswerable
<1>1. p \in Procs /\ p \in Range(irq1Q) \cup Range(irq2Q)
  BY MessageFacts DEF MessageInv, Waiting
<1>2. OpOf[p] = pcb[p].op
  BY <1>1 DEF OpOf
<1>3. [process_pos |-> p, op |-> OpOf[p]] \in
        toSfss \cup toKernel \cup Range(fileRespQ) \cup Range(dirRespQ)
          \cup (lost \cup discarded)
  BY <1>1 DEF MessageInv, MessagesAccounted, Accounted
<1> QED BY <1>2, <1>3

LEMMA MessageInit == Init => MessageInv
<1> SUFFICES ASSUME Init PROVE MessageInv
  OBVIOUS
<1>1. PlaceInv
  BY PlaceInit
<1>2. /\ irq1Q = <<>> /\ irq2Q = <<>> /\ fileRespQ = <<>> /\ dirRespQ = <<>>
      /\ toSfss = {} /\ toKernel = {}
  BY DEF Init
<1>3. /\ IsInjective(fileRespQ) /\ IsInjective(dirRespQ)
      /\ Range(irq1Q) = {} /\ Range(irq2Q) = {}
      /\ Range(fileRespQ) = {} /\ Range(dirRespQ) = {}
  BY <1>2 DEF Range, IsInjective
<1>4. MessagesAccounted
  BY <1>2, <1>3 DEF MessagesAccounted, Accounted, Apart
<1> QED BY <1>1, <1>4 DEF MessageInv

------------------------------------------------------------------------------
(***************************************************************************)
(* The steps.                                                              *)
(***************************************************************************)
\* What ReleasedWithItsResponse says of one step.
Released ==
  \A p \in Waiting : p \notin Waiting' =>
    /\ cpu'.pid = p
    /\ cpu'.resp = pcb[p].op
    /\ Owned(p, UNION {toSfss', toKernel', Range(fileRespQ'), Range(dirRespQ')}) = {}

\* A search takes one message out of a queue that has one, and finds it only if
\* it is of the process it is for.
LEMMA SearchMessages ==
  ASSUME NEW p, NEW q \in Seq(Message), IsInjective(q)
  PROVE  LET search == find_response_from_process(p, q)
         IN /\ IsInjective(search.queue)
            /\ q = <<>> => ~search.found /\ search.queue = q /\ search.popped = NoResponse
            /\ q # <<>> => /\ search.popped \in Range(q) /\ search.popped \in Message
                           /\ Range(search.queue) = Range(q) \ {search.popped}
            /\ search.found => q # <<>> /\ search.popped.process_pos = p
<1> DEFINE k == Reached(p, q)
           search == find_response_from_process(p, q)
<1>1. CASE q = <<>>
  <2>1. search = [found |-> FALSE, popped |-> NoResponse, queue |-> q]
    BY <1>1 DEF find_response_from_process
  <2> QED BY <1>1, <2>1
<1>2. CASE q # <<>>
  <2>1. k \in 1..Len(q) /\ (Hits(p, q) # {} => q[k].process_pos = p)
    BY <1>2, ReachedIsAPosition
  <2>2. search = [found |-> Hits(p, q) # {}, popped |-> q[k],
                  queue |-> SubSeq(q, k + 1, Len(q)) \o SubSeq(q, 1, k - 1)]
    BY <1>2 DEF find_response_from_process
  <2>3. /\ search.popped = q[k] /\ (search.found => Hits(p, q) # {})
        /\ search.queue = SubSeq(q, k + 1, Len(q)) \o SubSeq(q, 1, k - 1)
    <3> DEFINE hit == Hits(p, q) # {}
               left == SubSeq(q, k + 1, Len(q)) \o SubSeq(q, 1, k - 1)
    <3>1. search = [found |-> hit, popped |-> q[k], queue |-> left]
      BY <2>2
    <3> HIDE DEF search, k, left, hit
    <3>2. search.popped = q[k] /\ search.queue = left
      BY <3>1
    <3>3. search.found = hit
      BY <3>1
    <3> QED BY <3>2, <3>3 DEF hit, left
  <2> HIDE DEF search, k
  <2>4. /\ IsInjective(search.queue)
        /\ Range(search.queue) = Range(q) \ {q[k]} /\ q[k] \in Range(q)
    BY <2>1, <2>3, RingRange
  <2>5. q[k] \in Message
    BY <2>1, ElementOfSeq
  <2> QED BY <1>2, <2>1, <2>3, <2>4, <2>5 DEF search
<1> QED BY <1>1, <1>2

\* A switch writes one entry of the table, that of the process it stops.
LEMMA SwitchTable ==
  ASSUME cpu \in State, NEW st, st.pid = cpu.pid, NEW states \in [Procs -> State],
         NEW dest, switch_context(cpu.pid, st, states, dest)
  PROVE  \A p \in Procs : pcb'[p] = IF p \in OnCpu THEN st ELSE states[p]
<1>1. cpu.pid \in Procs \cup {NoProc}
  BY DEF State
<1>2. pcb' = IF cpu.pid # NoProc THEN [states EXCEPT ![cpu.pid] = st] ELSE states
  BY DEF switch_context
<1> QED BY <1>1, <1>2 DEF OnCpu, Procs, NoProc

\* A datagram goes to the response queue of the device its owner waits for.
LEMMA MessagesUdp ==
  ASSUME MessageInv, handle_udp_response
  PROVE  MessagesAccounted' /\ Waiting' = Waiting
<1>1. PICK r \in toKernel :
        /\ toKernel' = toKernel \ {r}
        /\ fileRespQ' = IF pcb[r.process_pos].op \in FileOps
                           THEN Append(fileRespQ, r) ELSE fileRespQ
        /\ dirRespQ' = IF pcb[r.process_pos].op \in DirOps
                          THEN Append(dirRespQ, r) ELSE dirRespQ
        /\ discarded' = IF pcb[r.process_pos].op \in IoOps
                           THEN discarded ELSE discarded \cup {r}
  BY DEF handle_udp_response, OriginalOp
<1>2. UNCHANGED <<pcb, irq1Q, irq2Q, toSfss, lost>>
  BY DEF handle_udp_response
<1> DEFINE a == Range(irq1Q)
           b == Range(irq2Q)
           s == toSfss
           k == toKernel
           f == Range(fileRespQ)
           d == Range(dirRespQ)
           gone == lost \cup discarded
           p == r.process_pos
<1>3. /\ Accounted(a, b, OpOf, s, k, f, d, gone)
      /\ IsInjective(fileRespQ) /\ IsInjective(dirRespQ)
      /\ fileRespQ \in Seq(Message) /\ dirRespQ \in Seq(Message)
      /\ r \in Message /\ a \cup b \subseteq Procs /\ a \cap b = {}
  BY MessageFacts DEF MessageInv, MessagesAccounted
<1>4. p \in a \cup b /\ OpOf[p] = pcb[p].op
  BY <1>3 DEF Accounted, OpOf
<1>5. r \notin f /\ r \notin d /\ r \notin s
  BY <1>3 DEF Accounted, Apart
<1>6. \/ /\ p \in a /\ Range(fileRespQ') = f \cup {r} /\ dirRespQ' = dirRespQ
         /\ IsInjective(fileRespQ')
      \/ /\ p \in b /\ Range(dirRespQ') = d \cup {r} /\ fileRespQ' = fileRespQ
         /\ IsInjective(dirRespQ')
  <2>1. CASE p \in a
    <3>1. pcb[p].op \in FileOps /\ pcb[p].op \notin DirOps
      BY <1>3, <1>4, <2>1 DEF Accounted
    <3>2. fileRespQ' = Append(fileRespQ, r) /\ dirRespQ' = dirRespQ
      BY <1>1, <3>1
    <3> QED BY <1>3, <1>5, <2>1, <3>2, AppendRange
  <2>2. CASE p \in b
    <3>1. pcb[p].op \in DirOps /\ pcb[p].op \notin FileOps
      BY <1>3, <1>4, <2>2 DEF Accounted
    <3>2. dirRespQ' = Append(dirRespQ, r) /\ fileRespQ' = fileRespQ
      BY <1>1, <3>1
    <3> QED BY <1>3, <1>5, <2>2, <3>2, AppendRange
  <2> QED BY <1>4, <2>1, <2>2
<1>7. discarded \subseteq discarded'
  BY <1>1
<1>8. OpOf' = OpOf /\ Waiting' = Waiting
  BY <1>2 DEF OpOf, Waiting
<1>9. Accounted(a, b, OpOf', s, toKernel', Range(fileRespQ'), Range(dirRespQ'),
                lost \cup discarded')
  <2>1. toKernel' = k \ {r}
    BY <1>1
  <2>2. Apart(s, toKernel', Range(fileRespQ'), Range(dirRespQ'))
    BY <1>3, <1>5, <1>6, <2>1 DEF Accounted, Apart
  <2>3. /\ \A m \in Range(fileRespQ') : m.process_pos \in a
        /\ \A m \in Range(dirRespQ') : m.process_pos \in b
    BY <1>3, <1>6 DEF Accounted
  <2>4. /\ s \cup toKernel' \cup Range(fileRespQ') \cup Range(dirRespQ')
             \subseteq s \cup k \cup f \cup d
        /\ s \cup k \cup f \cup d \cup gone
             \subseteq s \cup toKernel' \cup Range(fileRespQ') \cup Range(dirRespQ')
                         \cup (lost \cup discarded')
    BY <1>6, <1>7, <2>1
  <2>5. \A q \in a \cup b : OpOf'[q] = OpOf[q]
    BY <1>8
  <2> HIDE DEF a, b, s, k, f, d, gone
  <2> QED BY <1>3, <2>2, <2>3, <2>4, <2>5, MovedAccount
<1> QED BY <1>2, <1>3, <1>6, <1>8, <1>9 DEF MessagesAccounted

\* A syscall: the caller blocks and its request leaves, or the caller ends.
LEMMA MessagesSyscall ==
  ASSUME MessageInv, handle_syscall
  PROVE  MessagesAccounted' /\ Waiting \subseteq Waiting'
<1> DEFINE o == Head(syscallFifo).op
           c == cpu.pid
           a == Range(irq1Q)
           b == Range(irq2Q)
           f == Range(fileRespQ)
           d == Range(dirRespQ)
           gone == lost \cup discarded
<1>1. /\ cpu \in State /\ pcb \in [Procs -> State] /\ c \in Procs /\ OnCpu = {c}
      /\ c \notin a /\ c \notin b /\ a \cup b \subseteq Procs
      /\ irq1Q \in Seq(Procs) /\ irq2Q \in Seq(Procs)
  BY MessageFacts DEF MessageInv, handle_syscall, State, OnCpu
<1>2. /\ Accounted(a, b, OpOf, toSfss, toKernel, f, d, gone)
      /\ IsInjective(fileRespQ) /\ IsInjective(dirRespQ)
  BY DEF MessageInv, MessagesAccounted
<1>3. UNCHANGED <<fileRespQ, dirRespQ, toKernel, lost, discarded>>
  BY DEF handle_syscall, history
<1>4. CASE o \in IoOps /\ Block(o)
  <2> DEFINE st == [cpu EXCEPT !.op = o, !.current = "WAITING_FOR_IO"]
  <2>1. /\ switch_context(c, st, pcb, Pop(readyQ))
        /\ toSfss' = toSfss \cup {[process_pos |-> c, op |-> o]}
        /\ irq1Q' = IF o \in FileOps THEN Append(irq1Q, c) ELSE irq1Q
        /\ irq2Q' = IF o \in DirOps THEN Append(irq2Q, c) ELSE irq2Q
    BY <1>4 DEF Block
  <2>2. st.pid = c /\ st.op = o
    BY <1>1 DEF State
  <2>3. \A p \in Procs : pcb'[p] = IF p \in OnCpu THEN st ELSE pcb[p]
    <3> HIDE DEF st
    <3> QED BY <1>1, <2>1, <2>2, SwitchTable
  <2>4. OpOf'[c] = o /\ \A p \in a \cup b : OpOf'[p] = OpOf[p]
    BY <1>1, <2>2, <2>3 DEF OpOf
  <2>5. \/ o \in FileOps /\ Range(irq1Q') = a \cup {c} /\ Range(irq2Q') = b
        \/ o \in DirOps /\ Range(irq1Q') = a /\ Range(irq2Q') = b \cup {c}
    <3>1. CASE o \in FileOps
      <4>1. irq1Q' = Append(irq1Q, c) /\ irq2Q' = irq2Q
        BY <2>1, <3>1
      <4> QED BY <1>1, <3>1, <4>1, AppendRange
    <3>2. CASE o \in DirOps
      <4>1. irq1Q' = irq1Q /\ irq2Q' = Append(irq2Q, c)
        BY <2>1, <3>2
      <4> QED BY <1>1, <3>2, <4>1, AppendRange
    <3> QED BY <1>4, <3>1, <3>2 DEF IoOps
  <2>6. Accounted(Range(irq1Q'), Range(irq2Q'), OpOf', toSfss', toKernel, f, d, gone)
    <3>1. c \notin a \cup b
      BY <1>1
    <3> HIDE DEF a, b, c, o, f, d, gone
    <3> QED BY <1>2, <2>1, <2>4, <2>5, <3>1, SentAccount
  <2>7. Waiting \subseteq Waiting'
    BY <2>5 DEF Waiting
  <2> QED BY <1>2, <1>3, <2>6, <2>7 DEF MessagesAccounted
<1>5. CASE Finish
  <2> DEFINE st == [cpu EXCEPT !.op = "EXIT", !.current = "DONE"]
  <2>1. UNCHANGED <<irq1Q, irq2Q, toSfss>>
    BY <1>5 DEF Finish
  <2>2. \A p \in Procs : p # c => pcb'[p] = pcb[p]
    <3>1. CASE AllDone(numDone + 1)
      BY <1>5, <3>1 DEF Finish
    <3>2. CASE ~AllDone(numDone + 1)
      <4>1. switch_context(c, st, pcb, Pop(readyQ)) /\ st.pid = c
        BY <1>1, <1>5, <3>2 DEF Finish, State
      <4> HIDE DEF st
      <4> QED BY <1>1, <4>1, SwitchTable
    <3> QED BY <3>1, <3>2
  <2>3. \A p \in a \cup b : OpOf'[p] = OpOf[p]
    BY <1>1, <2>2 DEF OpOf
  <2>4. Accounted(a, b, OpOf', toSfss, toKernel, f, d, gone)
    <3>1. /\ Apart(toSfss, toKernel, f, d)
          /\ \A r \in f : r.process_pos \in a
          /\ \A r \in d : r.process_pos \in b
      BY <1>2 DEF Accounted
    <3> HIDE DEF a, b, f, d, gone
    <3> QED BY <1>2, <2>3, <3>1, MovedAccount
  <2> QED BY <1>2, <1>3, <2>1, <2>4 DEF MessagesAccounted, Waiting
<1> QED BY <1>4, <1>5 DEF handle_syscall

\* What a device interrupt does to the queue of its device and to the responses,
\* read off DeviceIrq,
DeviceStep(ioQ, newQ, respQ, newRespQ) ==
  LET io == Pop(ioQ)
      search == find_response_from_process(io, respQ)
      preempted == IF cpu.pid = NoProc THEN cpu ELSE [cpu EXCEPT !.current = "READY"]
  IN \/ /\ newQ = ioQ /\ newRespQ = respQ
        /\ UNCHANGED <<cpu, pcb, discarded>>
     \/ /\ ioQ # <<>> /\ newQ = Append(Rest(ioQ), io)
        /\ newRespQ = search.queue
        /\ discarded' = discarded \cup ({search.popped} \ {NoResponse})
        /\ cpu' = preempted /\ UNCHANGED pcb
     \/ /\ ioQ # <<>> /\ newQ = Rest(ioQ)
        /\ search.found /\ newRespQ = search.queue
        /\ switch_context(cpu.pid, preempted,
                          [pcb EXCEPT ![io] = Delivered(@, search.popped)], io)
        /\ UNCHANGED discarded

\* and as sets: a waits, f are the responses; nobody is released, and at most one
\* response is thrown away,
NobodyReleased(a, a2, f, f2) ==
  /\ a2 = a /\ f2 \subseteq f
  /\ f \cup discarded \subseteq f2 \cup discarded'
  /\ \A p \in Waiting : OpOf'[p] = OpOf[p]

\* or the owner of m is, and has the CPU and m.
ReleasedBy(m, a, a2, f, f2) ==
  /\ m \in f /\ m.process_pos \in a
  /\ a2 = a \ {m.process_pos} /\ f2 = f \ {m}
  /\ discarded' = discarded
  /\ cpu'.pid = m.process_pos /\ cpu'.resp = m.op
  /\ \A p \in Waiting \ {m.process_pos} : OpOf'[p] = OpOf[p]

LEMMA DeviceMessages ==
  ASSUME MessageInv,
         NEW ioQ \in Seq(Procs), IsInjective(ioQ), Range(ioQ) \subseteq Waiting,
         NEW respQ \in Seq(Message), IsInjective(respQ),
         NEW newQ, NEW newRespQ, DeviceStep(ioQ, newQ, respQ, newRespQ)
  PROVE  /\ IsInjective(newRespQ)
         /\ \/ NobodyReleased(Range(ioQ), Range(newQ), Range(respQ), Range(newRespQ))
            \/ \E m : ReleasedBy(m, Range(ioQ), Range(newQ), Range(respQ), Range(newRespQ))
<1> DEFINE io == Pop(ioQ)
           search == find_response_from_process(io, respQ)
           preempted == IF cpu.pid = NoProc THEN cpu ELSE [cpu EXCEPT !.current = "READY"]
           states == [pcb EXCEPT ![io] = Delivered(@, search.popped)]
<1>1. /\ cpu \in State /\ pcb \in [Procs -> State] /\ TypeOK
      /\ Waiting \subseteq Procs /\ Waiting \cap OnCpu = {}
  BY MessageFacts DEF MessageInv, Waiting, TypeInv
<1>2. /\ IsInjective(search.queue)
      /\ respQ = <<>> => ~search.found /\ search.queue = respQ /\ search.popped = NoResponse
      /\ respQ # <<>> => /\ search.popped \in Range(respQ) /\ search.popped \in Message
                         /\ Range(search.queue) = Range(respQ) \ {search.popped}
      /\ search.found => respQ # <<>> /\ search.popped.process_pos = io
  BY SearchMessages
<1>3. NoResponse \notin Message
  BY DEF NoResponse, Message, Procs, NoProc
<1>4. CASE newQ = ioQ /\ newRespQ = respQ /\ UNCHANGED <<cpu, pcb, discarded>>
  BY <1>4 DEF OpOf, NobodyReleased
<1>5. CASE /\ ioQ # <<>> /\ newQ = Append(Rest(ioQ), io) /\ newRespQ = search.queue
           /\ discarded' = discarded \cup ({search.popped} \ {NoResponse})
           /\ UNCHANGED pcb
  <2>1. Range(newQ) = Range(ioQ)
    BY <1>5, RotatedRange
  <2>2. OpOf' = OpOf
    BY <1>5 DEF OpOf
  <2> HIDE DEF search
  <2>3. IsInjective(newRespQ)
    BY <1>2, <1>5
  <2>4. /\ Range(newRespQ) \subseteq Range(respQ)
        /\ Range(respQ) \cup discarded \subseteq Range(newRespQ) \cup discarded'
    BY <1>2, <1>3, <1>5
  <2> QED BY <2>1, <2>2, <2>3, <2>4 DEF NobodyReleased
<1>6. CASE /\ ioQ # <<>> /\ newQ = Rest(ioQ) /\ search.found /\ newRespQ = search.queue
           /\ switch_context(cpu.pid, preempted, states, io)
           /\ UNCHANGED discarded
  <2>1. preempted \in State /\ io \in Procs /\ states \in [Procs -> State]
    BY <1>1, <1>6, DeviceIrqType
  <2>2. Range(newQ) = Range(ioQ) \ {io} /\ io \in Range(ioQ)
    BY <1>6, RestRange
  <2>3. io \in Waiting /\ io \notin OnCpu
    BY <1>1, <2>2
  <2>4. preempted.pid = cpu.pid
    BY <1>1 DEF State
  <2>5. \A p \in Procs : pcb'[p] = IF p \in OnCpu THEN preempted ELSE states[p]
    <3> HIDE DEF preempted, states, io
    <3> QED BY <1>1, <1>6, <2>1, <2>4, SwitchTable
  <2>6. /\ pcb'[io] = Delivered(pcb[io], search.popped)
        /\ \A p \in Waiting \ {io} : pcb'[p] = pcb[p]
    BY <1>1, <2>1, <2>3, <2>5
  <2>7. cpu' = pcb'[io]
    BY <1>6, <2>1 DEF switch_context, Procs, NoProc
  <2>8. Delivered(pcb[io], search.popped).resp = search.popped.op
        /\ Delivered(pcb[io], search.popped).pid = pcb[io].pid
    <3>1. pcb[io] \in State
      BY <1>1, <2>1
    <3> QED BY <3>1 DEF Delivered, clear_syscall_args, State
  <2>9. pcb[io].pid = io
    BY <2>1 DEF MessageInv, PlaceInv, ContextInv, OwnPids
  <2>10. \A p \in Waiting \ {io} : OpOf'[p] = OpOf[p]
    BY <1>1, <2>6 DEF OpOf
  <2>11. search.popped \in Range(respQ) /\ search.popped.process_pos = io
    BY <1>2, <1>6
  <2>12. Range(newRespQ) = Range(respQ) \ {search.popped} /\ IsInjective(newRespQ)
    BY <1>2, <1>6
  <2>13. cpu'.pid = io /\ cpu'.resp = search.popped.op
    BY <2>6, <2>7, <2>8, <2>9
  <2>14. discarded' = discarded
    BY <1>6
  <2> HIDE DEF search, io
  <2>15. ReleasedBy(search.popped, Range(ioQ), Range(newQ), Range(respQ), Range(newRespQ))
    BY <2>2, <2>10, <2>11, <2>12, <2>13, <2>14 DEF ReleasedBy
  <2> QED BY <2>12, <2>15
<1> QED BY <1>4, <1>5, <1>6 DEF DeviceStep

\* Both outcomes keep the account of the messages, seen from either device: a and
\* f are its queues as sets, b and d those of the other one.
LEMMA NobodyReleasedAccount ==
  ASSUME NEW a, NEW b, Waiting = a \cup b, NEW f, NEW d, NEW s, NEW k, NEW f2, NEW a2,
         NobodyReleased(a, a2, f, f2)
  PROVE  /\ Accounted(a, b, OpOf, s, k, f, d, lost \cup discarded) =>
              Accounted(a2, b, OpOf', s, k, f2, d, lost \cup discarded')
         /\ Accounted(b, a, OpOf, s, k, d, f, lost \cup discarded) =>
              Accounted(b, a2, OpOf', s, k, d, f2, lost \cup discarded')
<1> DEFINE gone == lost \cup discarded
           gone2 == lost \cup discarded'
<1>1. /\ a2 = a /\ f2 \subseteq f /\ f \cup discarded \subseteq f2 \cup discarded'
      /\ \A p \in a \cup b : OpOf'[p] = OpOf[p]
  BY DEF NobodyReleased
<1>2. /\ s \cup k \cup f2 \cup d \subseteq s \cup k \cup f \cup d
      /\ s \cup k \cup f \cup d \cup gone \subseteq s \cup k \cup f2 \cup d \cup gone2
  BY <1>1
<1>3. /\ s \cup k \cup d \cup f2 \subseteq s \cup k \cup d \cup f
      /\ s \cup k \cup d \cup f \cup gone \subseteq s \cup k \cup d \cup f2 \cup gone2
  BY <1>1
<1> HIDE DEF gone, gone2
<1>4. ASSUME Accounted(a, b, OpOf, s, k, f, d, gone)
      PROVE  Accounted(a, b, OpOf', s, k, f2, d, gone2)
  <2>1. /\ Apart(s, k, f2, d)
        /\ \A r \in f2 : r.process_pos \in a
        /\ \A r \in d : r.process_pos \in b
    BY <1>1, <1>4 DEF Accounted, Apart
  <2> QED BY <1>1, <1>2, <1>4, <2>1, MovedAccount
<1>5. ASSUME Accounted(b, a, OpOf, s, k, d, f, gone)
      PROVE  Accounted(b, a, OpOf', s, k, d, f2, gone2)
  <2>1. /\ Apart(s, k, d, f2)
        /\ \A r \in f2 : r.process_pos \in a
        /\ \A r \in d : r.process_pos \in b
    BY <1>1, <1>5 DEF Accounted, Apart
  <2>2. \A p \in b \cup a : OpOf'[p] = OpOf[p]
    BY <1>1
  <2> QED BY <1>3, <1>5, <2>1, <2>2, MovedAccount
<1> QED BY <1>1, <1>4, <1>5 DEF gone, gone2

LEMMA ReleasedAccount ==
  ASSUME NEW a, NEW b, Waiting = a \cup b, a \cap b = {},
         NEW s, NEW k, NEW f, NEW d, s \cup k \cup f \cup d \subseteq Message,
         NEW f2, NEW a2, NEW m, ReleasedBy(m, a, a2, f, f2)
  PROVE  /\ Accounted(a, b, OpOf, s, k, f, d, lost \cup discarded) =>
              /\ TakenWhole(m, OpOf, s \cup k \cup f2 \cup d)
              /\ Accounted(a2, b, OpOf', s, k, f2, d, lost \cup discarded')
         /\ Accounted(b, a, OpOf, s, k, d, f, lost \cup discarded) =>
              /\ TakenWhole(m, OpOf, s \cup k \cup d \cup f2)
              /\ Accounted(b, a2, OpOf', s, k, d, f2, lost \cup discarded')
<1> DEFINE x == m.process_pos
           gone == lost \cup discarded
<1>1. /\ m \in f /\ m \in f \cup d /\ m \in d \cup f /\ x \in a
      /\ a2 = a \ {x} /\ f2 = f \ {m} /\ discarded' = discarded
      /\ \A p \in (a \cup b) \ {x} : OpOf'[p] = OpOf[p]
      /\ \A p \in (b \cup a) \ {x} : OpOf'[p] = OpOf[p]
  BY DEF ReleasedBy
<1>2. b \ {x} = b
  BY <1>1
<1>3. s \cup k \cup f \cup d \subseteq Message /\ s \cup k \cup d \cup f \subseteq Message
  OBVIOUS
<1> HIDE DEF gone
<1>4. ASSUME Accounted(a, b, OpOf, s, k, f, d, gone)
      PROVE  /\ TakenWhole(m, OpOf, s \cup k \cup f2 \cup d)
             /\ Accounted(a2, b, OpOf', s, k, f2, d, gone)
  <2>1. d \ {m} = d
    BY <1>1, <1>4 DEF Accounted, Apart
  <2>2. /\ TakenWhole(m, OpOf, s \cup k \cup (f \ {m}) \cup (d \ {m}))
        /\ Accounted(a \ {x}, b \ {x}, OpOf', s, k, f \ {m}, d \ {m}, gone)
    BY <1>1, <1>3, <1>4, TakenAccount
  <2> QED BY <1>1, <1>2, <2>1, <2>2
<1>5. ASSUME Accounted(b, a, OpOf, s, k, d, f, gone)
      PROVE  /\ TakenWhole(m, OpOf, s \cup k \cup d \cup f2)
             /\ Accounted(b, a2, OpOf', s, k, d, f2, gone)
  <2>1. d \ {m} = d
    BY <1>1, <1>5 DEF Accounted, Apart
  <2>2. /\ TakenWhole(m, OpOf, s \cup k \cup (d \ {m}) \cup (f \ {m}))
        /\ Accounted(b \ {x}, a \ {x}, OpOf', s, k, d \ {m}, f \ {m}, gone)
    BY <1>1, <1>3, <1>5, TakenAccount
  <2> QED BY <1>1, <1>2, <2>1, <2>2
<1> QED BY <1>1, <1>4, <1>5 DEF gone

\* The interrupt of either device: a and f stand for its queues.
LEMMA MessagesDevice ==
  ASSUME MessageInv, UNCHANGED <<toSfss, toKernel, lost>>,
         handle_irq1_device \/ handle_irq2_device
  PROVE  MessagesAccounted' /\ Released
<1> DEFINE a == Range(irq1Q)
           b == Range(irq2Q)
           f == Range(fileRespQ)
           d == Range(dirRespQ)
<1>1. /\ irq1Q \in Seq(Procs) /\ fileRespQ \in Seq(Message) /\ IsInjective(irq1Q)
      /\ irq2Q \in Seq(Procs) /\ dirRespQ \in Seq(Message) /\ IsInjective(irq2Q)
      /\ toSfss \cup toKernel \cup f \cup d \subseteq Message
      /\ toSfss \cup toKernel \cup d \cup f \subseteq Message
      /\ a \cap b = {} /\ b \cap a = {} /\ a \subseteq Procs /\ b \subseteq Procs
      /\ Waiting = a \cup b /\ Waiting = b \cup a
  BY MessageFacts DEF MessageInv, Waiting
<1>2. /\ Accounted(a, b, OpOf, toSfss, toKernel, f, d, lost \cup discarded)
      /\ IsInjective(fileRespQ) /\ IsInjective(dirRespQ)
  BY DEF MessageInv, MessagesAccounted
<1>3. a \subseteq Waiting /\ b \subseteq Waiting
  BY <1>1
<1>4. CASE handle_irq1_device
  <2>1. UNCHANGED <<irq2Q, dirRespQ>> /\ DeviceIrq(irq1Q, fileRespQ)
    BY <1>4 DEF handle_irq1_device
  <2>2. DeviceStep(irq1Q, irq1Q', fileRespQ, fileRespQ')
    BY <2>1 DEF DeviceIrq, DeviceStep
  <2>3. /\ IsInjective(fileRespQ')
        /\ \/ NobodyReleased(a, Range(irq1Q'), f, Range(fileRespQ'))
           \/ \E m : ReleasedBy(m, a, Range(irq1Q'), f, Range(fileRespQ'))
    BY <1>1, <1>2, <1>3, <2>2, DeviceMessages
  <2>4. CASE NobodyReleased(a, Range(irq1Q'), f, Range(fileRespQ'))
    <3>1. Accounted(Range(irq1Q'), b, OpOf', toSfss, toKernel, Range(fileRespQ'), d,
                    lost \cup discarded')
      <4> HIDE DEF a, b, f, d
      <4> QED BY <1>1, <1>2, <2>4, NobodyReleasedAccount
    <3>2. Waiting' = Waiting
      BY <1>1, <2>1, <2>4 DEF Waiting, NobodyReleased
    <3> QED BY <1>2, <2>1, <2>3, <3>1, <3>2 DEF MessagesAccounted, Released
  <2>5. ASSUME NEW m, ReleasedBy(m, a, Range(irq1Q'), f, Range(fileRespQ'))
        PROVE  MessagesAccounted' /\ Released
    <3>1. /\ TakenWhole(m, OpOf, toSfss \cup toKernel \cup Range(fileRespQ') \cup d)
          /\ Accounted(Range(irq1Q'), b, OpOf', toSfss, toKernel, Range(fileRespQ'), d,
                       lost \cup discarded')
      <4> HIDE DEF a, b, f, d
      <4> QED BY <1>1, <1>2, <2>5, ReleasedAccount
    <3>2. Waiting' = Waiting \ {m.process_pos} /\ m.process_pos \in Procs
      BY <1>1, <2>1, <2>5 DEF Waiting, ReleasedBy
    <3>3. cpu'.pid = m.process_pos /\ cpu'.resp = pcb[m.process_pos].op
      BY <2>5, <3>1, <3>2 DEF ReleasedBy, OpOf, TakenWhole
    <3>4. Owned(m.process_pos, UNION {toSfss', toKernel', Range(fileRespQ'), Range(dirRespQ')}) = {}
      BY <2>1, <3>1 DEF Owned, TakenWhole
    <3>5. MessagesAccounted'
      BY <1>2, <2>1, <2>3, <3>1 DEF MessagesAccounted
    <3> QED BY <3>2, <3>3, <3>4, <3>5 DEF Released
  <2> QED BY <2>3, <2>4, <2>5
<1>5. CASE handle_irq2_device
  <2>1. UNCHANGED <<irq1Q, fileRespQ>> /\ DeviceIrq(irq2Q, dirRespQ)
    BY <1>5 DEF handle_irq2_device
  <2>2. DeviceStep(irq2Q, irq2Q', dirRespQ, dirRespQ')
    BY <2>1 DEF DeviceIrq, DeviceStep
  <2>3. /\ IsInjective(dirRespQ')
        /\ \/ NobodyReleased(b, Range(irq2Q'), d, Range(dirRespQ'))
           \/ \E m : ReleasedBy(m, b, Range(irq2Q'), d, Range(dirRespQ'))
    BY <1>1, <1>2, <1>3, <2>2, DeviceMessages
  <2>4. CASE NobodyReleased(b, Range(irq2Q'), d, Range(dirRespQ'))
    <3>1. Accounted(a, Range(irq2Q'), OpOf', toSfss, toKernel, f, Range(dirRespQ'),
                    lost \cup discarded')
      <4> HIDE DEF a, b, f, d
      <4> QED BY <1>1, <1>2, <2>4, NobodyReleasedAccount
    <3>2. Waiting' = Waiting
      BY <1>1, <2>1, <2>4 DEF Waiting, NobodyReleased
    <3> QED BY <1>2, <2>1, <2>3, <3>1, <3>2 DEF MessagesAccounted, Released
  <2>5. ASSUME NEW m, ReleasedBy(m, b, Range(irq2Q'), d, Range(dirRespQ'))
        PROVE  MessagesAccounted' /\ Released
    <3>1. /\ TakenWhole(m, OpOf, toSfss \cup toKernel \cup f \cup Range(dirRespQ'))
          /\ Accounted(a, Range(irq2Q'), OpOf', toSfss, toKernel, f, Range(dirRespQ'),
                       lost \cup discarded')
      <4> HIDE DEF a, b, f, d
      <4> QED BY <1>1, <1>2, <2>5, ReleasedAccount
    <3>2. Waiting' = Waiting \ {m.process_pos} /\ m.process_pos \in Procs
      BY <1>1, <2>1, <2>5 DEF Waiting, ReleasedBy
    <3>3. cpu'.pid = m.process_pos /\ cpu'.resp = pcb[m.process_pos].op
      BY <2>5, <3>1, <3>2 DEF ReleasedBy, OpOf, TakenWhole
    <3>4. Owned(m.process_pos, UNION {toSfss', toKernel', Range(fileRespQ'), Range(dirRespQ')}) = {}
      BY <2>1, <3>1 DEF Owned, TakenWhole
    <3>5. MessagesAccounted'
      BY <1>2, <2>1, <2>3, <3>1 DEF MessagesAccounted
    <3> QED BY <3>2, <3>3, <3>4, <3>5 DEF Released
  <2> QED BY <2>3, <2>4, <2>5
<1> QED BY <1>4, <1>5

\* A time slice moves nobody in or out of a device queue.
LEMMA MessagesTimeslice ==
  ASSUME MessageInv, handle_irq0_timeslice, UNCHANGED <<toSfss, toKernel, lost>>
  PROVE  MessagesAccounted' /\ Waiting' = Waiting
<1> DEFINE a == Range(irq1Q)
           b == Range(irq2Q)
           f == Range(fileRespQ)
           d == Range(dirRespQ)
           gone == lost \cup discarded
<1>1. UNCHANGED <<irq1Q, irq2Q, fileRespQ, dirRespQ, discarded>>
  BY DEF handle_irq0_timeslice
<1>2. /\ cpu \in State /\ pcb \in [Procs -> State]
      /\ a \cap OnCpu = {} /\ b \cap OnCpu = {} /\ a \cup b \subseteq Procs
  BY MessageFacts DEF MessageInv
<1>3. /\ Accounted(a, b, OpOf, toSfss, toKernel, f, d, gone)
      /\ IsInjective(fileRespQ) /\ IsInjective(dirRespQ)
  BY DEF MessageInv, MessagesAccounted
<1>4. \A p \in Procs \ OnCpu : pcb'[p] = pcb[p]
  <2>1. CASE UNCHANGED pcb
    BY <2>1
  <2>2. CASE ~(cpu.pid = NoProc \/ readyQ = <<>>)
    <3> DEFINE st == [cpu EXCEPT !.current = "READY"]
    <3>1. switch_context(cpu.pid, st, pcb, Pop(readyQ)) /\ st.pid = cpu.pid
      BY <1>2, <2>2 DEF handle_irq0_timeslice, State
    <3> HIDE DEF st
    <3> QED BY <1>2, <3>1, SwitchTable
  <2> QED BY <2>1, <2>2 DEF handle_irq0_timeslice
<1>5. \A p \in a \cup b : OpOf'[p] = OpOf[p]
  BY <1>2, <1>4 DEF OpOf
<1>6. /\ Apart(toSfss, toKernel, f, d)
      /\ \A r \in f : r.process_pos \in a
      /\ \A r \in d : r.process_pos \in b
  BY <1>3 DEF Accounted
<1>7. Accounted(a, b, OpOf', toSfss, toKernel, f, d, gone)
  <2> HIDE DEF a, b, f, d, gone
  <2> QED BY <1>3, <1>5, <1>6, MovedAccount
<1> QED BY <1>1, <1>3, <1>7 DEF MessagesAccounted, Waiting

\* A request is answered, or it is lost: it leaves toSfss for one of two places.
LEMMA MessagesNetwork ==
  ASSUME MessageInv, NetworkStep
  PROVE  MessagesAccounted' /\ Waiting' = Waiting
<1> DEFINE a == Range(irq1Q)
           b == Range(irq2Q)
           f == Range(fileRespQ)
           d == Range(dirRespQ)
<1>1. PICK r \in toSfss :
        /\ toSfss' = toSfss \ {r}
        /\ \/ toKernel' = toKernel \cup {r} /\ lost' = lost
           \/ toKernel' = toKernel /\ lost' = lost \cup {r}
  BY DEF NetworkStep, SfssReply, LoseMessage, history
<1>2. UNCHANGED <<pcb, irq1Q, irq2Q, fileRespQ, dirRespQ, discarded>>
  BY DEF NetworkStep, SfssReply, LoseMessage, history, queues
<1>3. /\ Accounted(a, b, OpOf, toSfss, toKernel, f, d, lost \cup discarded)
      /\ IsInjective(fileRespQ) /\ IsInjective(dirRespQ)
  BY DEF MessageInv, MessagesAccounted
<1>4. /\ Apart(toSfss', toKernel', f, d)
      /\ \A m \in f : m.process_pos \in a
      /\ \A m \in d : m.process_pos \in b
  BY <1>1, <1>3 DEF Accounted, Apart
<1>5. /\ toSfss' \cup toKernel' \cup f \cup d \subseteq toSfss \cup toKernel \cup f \cup d
      /\ toSfss \cup toKernel \cup f \cup d \cup (lost \cup discarded)
           \subseteq toSfss' \cup toKernel' \cup f \cup d \cup (lost' \cup discarded)
  BY <1>1
<1>6. \A p \in a \cup b : OpOf'[p] = OpOf[p]
  BY <1>2 DEF OpOf
<1>7. Accounted(a, b, OpOf', toSfss', toKernel', f, d, lost' \cup discarded)
  <2> HIDE DEF a, b, f, d
  <2> QED BY <1>3, <1>4, <1>5, <1>6, MovedAccount
<1> QED BY <1>2, <1>3, <1>7 DEF MessagesAccounted, Waiting

\* Every other step leaves the messages, the device queues and the table alone.
LEMMA MessagesOther ==
  ASSUME MessageInv,
         \/ CheckPaused \/ Select \/ StopCurrent \/ ResumeCurrent
         \/ ImpossibleSyscall \/ NothingRead \/ SignalStep
         \/ (\E p \in Procs : AppStep(p))
         \/ (\E irq \in IrqTypes : RaiseIrq(irq))
         \/ UNCHANGED vars
  PROVE  MessagesAccounted' /\ Waiting' = Waiting
<1> USE DEF queues, channels, history
<1> DEFINE Still == UNCHANGED <<pcb, irq1Q, irq2Q, fileRespQ, dirRespQ,
                                toSfss, toKernel, lost, discarded>>
<1>1. SUFFICES Still
  <2>1. OpOf' = OpOf /\ Waiting' = Waiting
    BY <1>1 DEF OpOf, Waiting
  <2>2. MessagesAccounted'
    BY <1>1, <2>1 DEF MessageInv, MessagesAccounted
  <2> QED BY <2>1, <2>2
<1>2. CASE CheckPaused \/ Select
  BY <1>2 DEF CheckPaused, Select, Pselect, PselectTimeout
<1>3. CASE StopCurrent \/ ResumeCurrent \/ ImpossibleSyscall \/ NothingRead
  BY <1>3 DEF StopCurrent, ResumeCurrent, ImpossibleSyscall, NothingRead, EmptyRead
<1>4. CASE SignalStep
  BY <1>4 DEF SignalStep, manual_pause, manual_unpause, handle_ctrl_c
<1>5. ASSUME NEW p \in Procs, AppStep(p) PROVE Still
  BY <1>5 DEF AppStep, WriteSyscall, AdvancePC, ConsumeResponse
<1>6. ASSUME NEW irq \in IrqTypes, RaiseIrq(irq) PROVE Still
  BY <1>6 DEF RaiseIrq
<1>7. CASE UNCHANGED vars
  BY <1>7 DEF vars
<1> QED BY <1>2, <1>3, <1>4, <1>5, <1>6, <1>7

LEMMA MessageStep == MessageInv /\ [Next]_vars => MessageInv' /\ Released
<1> SUFFICES ASSUME MessageInv, [Next]_vars PROVE MessageInv' /\ Released
  OBVIOUS
<1>1. PlaceInv'
  BY PlaceStep DEF MessageInv
<1>2. ASSUME Waiting \subseteq Waiting' PROVE Released
  BY <1>2 DEF Released
<1>3. MessagesAccounted' /\ Released
  <2>1. CASE handle_udp_response
    BY <1>2, <2>1, MessagesUdp
  <2>2. CASE handle_syscall
    BY <1>2, <2>2, MessagesSyscall
  <2>3. CASE handle_irq
    <3>1. UNCHANGED <<toSfss, toKernel, lost>>
      BY <2>3 DEF handle_irq
    <3>2. CASE handle_irq0_timeslice
      BY <1>2, <3>1, <3>2, MessagesTimeslice
    <3>3. CASE handle_irq1_device \/ handle_irq2_device
      BY <3>1, <3>3, MessagesDevice
    <3> QED BY <2>3, <3>2, <3>3 DEF handle_irq
  <2>4. CASE NetworkStep
    BY <1>2, <2>4, MessagesNetwork
  <2>5. CASE ~handle_udp_response /\ ~handle_syscall /\ ~handle_irq /\ ~NetworkStep
    BY <1>2, <2>5, MessagesOther DEF Next, KernelStep, Select, NothingRead
  <2> QED BY <2>1, <2>2, <2>3, <2>4, <2>5
<1> QED BY <1>1, <1>3 DEF MessageInv

LEMMA MessageCorrect == Spec => []MessageInv
BY MessageInit, MessageStep, PTL DEF Spec

------------------------------------------------------------------------------
\* A process that waits never has two messages under way, and the one it has
\* answers its own syscall from the queue of the right device
\* (OneMessagePerWaiter), with any delay of the network and any pause.
THEOREM NoStaleRouting == Spec => []OneMessagePerWaiter
BY MessageCorrect, AccountedIsOneMessage, PTL

\* The answer of a process that waits exists somewhere, unless the network or
\* find_response_from_process lost it (WaiterIsAnswerable).
THEOREM AnswersAreOnlyLostKnowingly == Spec => []WaiterIsAnswerable
BY MessageCorrect, AccountedIsAnswerable, PTL

\* Leaving a device queue is taking the CPU with one's own response, and leaving
\* nothing behind (ReleasedWithItsResponse).
THEOREM ReleasedOnlyByItsResponse == Spec => ReleasedWithItsResponse
<1>1. MessageInv /\ [Next]_vars => [Released]_vars
  BY MessageStep
<1> QED
  BY <1>1, MessageCorrect, PTL DEF Spec, ReleasedWithItsResponse, Released
------------------------------------------------------------------------------
(***************************************************************************)
(* The syscalls, when the kernel is faster than the sleeps.  The regime is *)
(* a hypothesis of the lemmas: in the others the kernel charges syscalls   *)
(* to the wrong process (ImpossibleNeverHappens is refuted by a run).      *)
(***************************************************************************)
\* The only syscall in the FIFO is that of the process on the CPU, from the
\* moment it is written until the handler reads it; and a pass of the loop that
\* began without one does not see it.
PromptInv ==
  /\ \/ syscallFifo = <<>>
     \/ /\ \E op : syscallFifo = <<[from |-> cpu.pid, op |-> op]>>
        /\ cpu.pid # NoProc
        /\ kpc \notin {"irq", "resume", "failed"}
  /\ kpc \in {"stop", "udp"} => (pending.syscall <=> syscallFifo # <<>>)
  /\ kpc = "syscall" => syscallFifo # <<>>
  /\ kpc # "failed"

LEMMA PromptInit == Init => PromptInv
BY DEF Init, PromptInv

\* The handlers: the syscall is read while its writer still holds the CPU.
LEMMA PromptHandler ==
  ASSUME PromptInv,
         \/ handle_udp_response \/ handle_syscall \/ ImpossibleSyscall \/ NothingRead
         \/ handle_irq
  PROVE  PromptInv'
<1>1. CASE handle_udp_response
  BY <1>1 DEF handle_udp_response, PromptInv, AfterUdp, AfterSyscall
<1>2. CASE handle_syscall
  <2>1. syscallFifo' = <<>>
    <3>1. PICK op : syscallFifo = <<[from |-> cpu.pid, op |-> op]>>
      BY <1>2 DEF handle_syscall, PromptInv
    <3>2. syscallFifo' = Tail(syscallFifo)
      BY <1>2 DEF handle_syscall
    <3> QED BY <3>1, <3>2
  <2>2. kpc' \in {"irq", "resume", "exited"}
    BY <1>2 DEF handle_syscall, Block, Finish, AfterSyscall
  <2> QED BY <2>1, <2>2 DEF PromptInv
<1>3. CASE ImpossibleSyscall \/ NothingRead
  BY <1>3 DEF ImpossibleSyscall, NothingRead, EmptyRead, PromptInv
<1>4. CASE handle_irq
  BY <1>4 DEF handle_irq, PromptInv
<1> QED BY <1>1, <1>2, <1>3, <1>4

\* An application acts only when the FIFO is empty, and it has the CPU.
LEMMA PromptApp ==
  ASSUME Regime = "prompt", ContextInv, PromptInv, NEW p \in Procs, AppStep(p)
  PROVE  PromptInv'
<1>1. /\ cpu \in State /\ p = cpu.pid /\ p # NoProc /\ syscallFifo = <<>>
      /\ kpc \in {"top", "select"} /\ kpc' = kpc
  BY DEF AppStep, MayRun, Quiet, ContextInv, TypeInv, TypeOK, SingleRunner, OnCpu,
         WriteSyscall, AdvancePC, ConsumeResponse
<1>2. ASSUME NEW op, WriteSyscall(p, op) PROVE PromptInv'
  <2>1. syscallFifo' = <<[from |-> p, op |-> op]>> /\ cpu' = cpu
    BY <1>1, <1>2 DEF WriteSyscall
  <2> QED BY <1>1, <2>1 DEF PromptInv
<1>3. CASE AdvancePC(p) \/ ConsumeResponse
  <2>1. syscallFifo' = <<>>
    BY <1>1, <1>3 DEF AdvancePC, ConsumeResponse, channels
  <2> QED BY <1>1, <2>1 DEF PromptInv
<1> QED BY <1>2, <1>3 DEF AppStep

LEMMA PromptOther ==
  ASSUME Regime = "prompt", ContextInv, PromptInv,
         \/ CheckPaused \/ Select \/ StopCurrent \/ ResumeCurrent
         \/ SignalStep \/ NetworkStep
         \/ (\E irq \in IrqTypes : RaiseIrq(irq))
         \/ UNCHANGED vars
  PROVE  PromptInv'
<1> USE DEF channels, Ended
<1>1. CASE CheckPaused
  BY <1>1 DEF CheckPaused, PromptInv
<1>2. CASE Select
  <2>1. CASE Pselect(FALSE)
    <3>1. /\ pending'.syscall <=> syscallFifo # <<>>
          /\ kpc' = "stop" /\ UNCHANGED <<cpu, syscallFifo>>
      BY <2>1 DEF Pselect
    <3> QED BY <3>1 DEF PromptInv
  <2>2. CASE PselectTimeout(FALSE)
    BY <2>2 DEF PselectTimeout, PromptInv
  <2> QED BY <1>2, <2>1, <2>2 DEF Select, HangUps
<1>3. CASE StopCurrent
  BY <1>3 DEF StopCurrent, PromptInv, AfterStop, AfterUdp, AfterSyscall
<1>4. CASE ResumeCurrent
  <2>1. syscallFifo' = <<>> /\ kpc' = "top"
    BY <1>4 DEF ResumeCurrent, PromptInv
  <2> QED BY <2>1 DEF PromptInv
<1>5. ASSUME NEW tty \in BOOLEAN, manual_pause(tty) \/ manual_unpause(tty)
      PROVE  PromptInv'
  BY <1>5 DEF manual_pause, manual_unpause, AfterSignal, PromptInv
<1>6. CASE handle_ctrl_c
  BY <1>6 DEF handle_ctrl_c, PromptInv
<1>7. CASE NetworkStep
  BY <1>7 DEF NetworkStep, SfssReply, LoseMessage, PromptInv
<1>8. ASSUME NEW irq \in IrqTypes, RaiseIrq(irq) PROVE PromptInv'
  BY <1>8 DEF RaiseIrq, PromptInv
<1>9. CASE UNCHANGED vars
  BY <1>9 DEF vars, PromptInv
<1> QED BY <1>1, <1>2, <1>3, <1>4, <1>5, <1>6, <1>7, <1>8, <1>9 DEF SignalStep

LEMMA PromptStep ==
  Regime = "prompt" /\ ContextInv /\ PromptInv /\ [Next]_vars => PromptInv'
BY PromptHandler, PromptApp, PromptOther DEF Next, KernelStep, Select, NothingRead

\* When the kernel stops a process before it acts again, the syscall it reads was
\* written by the process it charges it to (SyscallFromCurrent).
THEOREM SyscallsChargedToTheirWriter ==
  ASSUME Regime = "prompt" PROVE Spec => []SyscallFromCurrent
<1>1. PromptInv => SyscallFromCurrent
  BY DEF PromptInv, SyscallFromCurrent
<1>2. ContextInv /\ PromptInv /\ [Next]_vars => PromptInv'
  BY PromptStep
<1> QED BY <1>1, <1>2, PromptInit, ContextCorrect, PTL DEF Spec

\* In that regime the kernel never fails with a syscall of an idle CPU
\* (ImpossibleNeverHappens), as a run shows it can when it is paused.
THEOREM PromptIsNeverImpossible ==
  ASSUME Regime = "prompt" PROVE Spec => []ImpossibleNeverHappens
<1>1. PromptInv => ImpossibleNeverHappens
  BY DEF PromptInv, ImpossibleNeverHappens
<1>2. ContextInv /\ PromptInv /\ [Next]_vars => PromptInv'
  BY PromptStep
<1> QED BY <1>1, <1>2, PromptInit, ContextCorrect, PTL DEF Spec
=============================================================================
