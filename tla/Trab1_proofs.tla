---------------------------- MODULE Trab1_proofs ----------------------------
(***************************************************************************)
(* Theorems of Trab1, for every number of processes and iterations, every  *)
(* bound and every regime: what the operators return, type correctness,    *)
(* who runs with which context, where the processes are, and what the      *)
(* kernel records of them.                                                 *)
(***************************************************************************)
EXTENDS Trab1, Queues

USE NAssumption, MAXAssumption, BoundsAssumption, RegimeAssumption

------------------------------------------------------------------------------
(***************************************************************************)
(* The operators the handlers are made of.                                 *)
(***************************************************************************)
\* Popping a queue of processes: the head, if any, and what is left.
LEMMA PopType ==
  ASSUME NEW q \in Seq(Procs)
  PROVE  /\ Pop(q) \in Procs \cup {NoProc}
         /\ Rest(q) \in Seq(Procs)
         /\ q # <<>> => Pop(q) \in Procs
BY HeadTailProperties DEF Pop, Rest

\* A context switch between well-typed states leaves well-typed states.
LEMMA SwitchType ==
  ASSUME NEW prev \in Procs \cup {NoProc}, NEW st \in State,
         NEW states \in [Procs -> State], NEW dest \in Procs \cup {NoProc},
         switch_context(prev, st, states, dest)
  PROVE  cpu' \in State /\ pcb' \in [Procs -> State]
<1>1. pcb' \in [Procs -> State]
  BY DEF switch_context, Procs, NoProc
<1>2. IdleCpu \in State
  BY DEF IdleCpu, State
<1> QED BY <1>1, <1>2 DEF switch_context, Procs, NoProc

\* A write of the program counter leaves a state, of the same process.
LEMMA StatePC ==
  ASSUME NEW st \in State, NEW pc \in Int
  PROVE  /\ [st EXCEPT !.PC = pc] \in State
         /\ [st EXCEPT !.PC = pc].pid = st.pid /\ [st EXCEPT !.PC = pc].PC = pc
BY DEF State

\* The state of the process that is resumed is a state.
LEMMA StateRunning ==
  ASSUME NEW st \in State
  PROVE  [st EXCEPT !.current = "RUNNING"] \in State
BY DEF State

\* The end of the syscall of a process that is released touches nothing else.
LEMMA ReleasedState ==
  ASSUME NEW st \in State
  PROVE  /\ Released(st) \in State
         /\ Released(st).pid = st.pid /\ Released(st).PC = st.PC
         /\ Released(st).current = st.current
BY DEF Released, State

\* What a device interrupt does to the queues and hands to switch_context.
LEMMA DeviceIrqType ==
  ASSUME TypeOK, NEW ioQ \in Seq(Procs), ioQ # <<>>
  PROVE  LET preempted == IF cpu.pid = NoProc THEN cpu ELSE [cpu EXCEPT !.current = "READY"]
             states == [pcb EXCEPT ![Pop(ioQ)] = Released(@)]
         IN /\ preempted \in State
            /\ preempted.pid = cpu.pid /\ preempted.PC = cpu.PC
            /\ Pop(ioQ) \in Procs /\ Rest(ioQ) \in Seq(Procs)
            /\ PreemptInto(readyQ) \in Seq(Procs)
            /\ states \in [Procs -> State]
            /\ \A p \in Procs : /\ states[p].pid = pcb[p].pid
                                /\ states[p].PC = pcb[p].PC
                                /\ states[p].current = pcb[p].current
<1> USE DEF TypeOK
<1> DEFINE io == Pop(ioQ)
           preempted == IF cpu.pid = NoProc THEN cpu ELSE [cpu EXCEPT !.current = "READY"]
           states == [pcb EXCEPT ![io] = Released(@)]
<1>1. preempted \in State /\ preempted.pid = cpu.pid /\ preempted.PC = cpu.PC
  BY DEF State
<1>2. io \in Procs /\ Rest(ioQ) \in Seq(Procs)
  BY PopType
<1>3. PreemptInto(readyQ) \in Seq(Procs)
  BY AppendProperties DEF PreemptInto, State
<1>4. states \in [Procs -> State]
  BY <1>2, ReleasedState
<1>5. states[io] = Released(pcb[io]) /\ \A p \in Procs \ {io} : states[p] = pcb[p]
  BY <1>2
<1>6. \A p \in Procs : /\ states[p].pid = pcb[p].pid
                       /\ states[p].PC = pcb[p].PC
                       /\ states[p].current = pcb[p].current
  <2>1. pcb[io] \in State
    BY <1>2
  <2> HIDE DEF states, io
  <2> QED BY <1>5, <2>1, ReleasedState
<1> QED BY <1>1, <1>2, <1>3, <1>4, <1>6

------------------------------------------------------------------------------
(***************************************************************************)
(* Type correctness.  The count of finished processes stays within its     *)
(* bound because the kernel ends when it gets there.                       *)
(***************************************************************************)
TypeInv == TypeOK /\ (numDone = N => kpc = "exited")

LEMMA TypeInit == Init => TypeInv
<1> SUFFICES ASSUME Init PROVE TypeInv
  OBVIOUS
<1>1. \A p \in Procs : InitialState(p) \in State
  BY DEF InitialState, State, Procs
<1>2. 1 \in Procs
  BY DEF Procs
<1>3. cpu \in State
  BY <1>1, <1>2 DEF Init, State
<1>4. readyQ \in Seq(Procs)
  <2>1. \A i \in 2..N : [p \in Procs |-> p][i] \in Procs
    BY DEF Procs
  <2>2. SubSeq([p \in Procs |-> p], 2, N) \in Seq(Procs)
    BY <2>1, SubSeqProperties
  <2> QED BY <2>2 DEF Init
<1>5. pcb \in [Procs -> State]
  BY <1>1 DEF Init
<1>6. \A S : <<>> \in Seq(S)
  OBVIOUS
<1>7. /\ D1Q \in Seq(Procs) /\ D2Q \in Seq(Procs)
      /\ syscallFifo \in Seq(SyscallArgs) /\ irqFifo \in Seq(IrqTypes)
  BY <1>6 DEF Init
<1>10. numDone \in 0..N /\ numDone # N
  BY DEF Init
<1>8. /\ pending \in [syscall : BOOLEAN, irq : BOOLEAN]
      /\ paused \in BOOLEAN /\ pauses \in Nat
      /\ running \subseteq Procs
  BY <1>2 DEF Init
<1>9. /\ loc \in [Procs -> {"start", "loop", "endOfIteration", "incrementing",
                            "exiting", "returning", "gone"}]
      /\ reg \in [Procs -> Int] /\ iter \in [Procs -> Nat] /\ burst \in Bursts
  BY DEF Init, Bursts
<1> QED
  BY <1>3, <1>4, <1>5, <1>7, <1>8, <1>9, <1>10 DEF Init, TypeInv, TypeOK, Ended

\* The loop of the kernel, and the impossible syscall.
LEMMA TypeLoop ==
  ASSUME TypeInv,
         \/ CheckPaused \/ Pselect \/ PselectTimeout \/ StopCurrent \/ ResumeCurrent
         \/ ImpossibleSyscall
  PROVE  TypeInv'
<1> USE DEF TypeInv, TypeOK, queues, fifos, apps, Ended
<1>1. CASE CheckPaused
  BY <1>1 DEF CheckPaused
<1>2. CASE Pselect
  BY <1>2 DEF Pselect
<1>3. CASE PselectTimeout
  BY <1>3 DEF PselectTimeout
<1>4. CASE StopCurrent
  <2>1. kpc' \in {"syscall", "irq", "resume"} /\ kpc = "stop" /\ running' \subseteq Procs
    BY <1>4 DEF StopCurrent, AfterStop, AfterSyscall
  <2> QED BY <1>4, <2>1 DEF StopCurrent
<1>5. CASE ResumeCurrent
  <2>1. cpu' \in State
    <3>1. cpu \in State /\ (cpu' = cpu \/ cpu' = [cpu EXCEPT !.current = "RUNNING"])
      BY <1>5 DEF ResumeCurrent
    <3> HIDE DEF TypeInv, TypeOK
    <3> QED BY <3>1, StateRunning
  <2>2. running' \subseteq Procs
    BY <1>5 DEF ResumeCurrent, State
  <2> QED BY <1>5, <2>1, <2>2 DEF ResumeCurrent
<1>6. CASE ImpossibleSyscall
  BY <1>6 DEF ImpossibleSyscall
<1> QED BY <1>1, <1>2, <1>3, <1>4, <1>5, <1>6

LEMMA TypeSyscall ==
  ASSUME TypeInv, handle_syscall
  PROVE  TypeInv'
<1> USE DEF TypeInv, TypeOK
<1> DEFINE Dx == Head(syscallFifo).Dx
<1>1. cpu.pid \in Procs /\ cpu \in State
  BY DEF handle_syscall, State
<1>2. Head(syscallFifo) \in SyscallArgs /\ syscallFifo' \in Seq(SyscallArgs)
  BY HeadTailProperties DEF handle_syscall
<1>3. readyQ' \in Seq(Procs) /\ Pop(readyQ) \in Procs \cup {NoProc}
  BY PopType DEF handle_syscall
<1>4. CASE Dx \in Devices /\ Block(Dx)
  <2>1. D1Q' \in Seq(Procs) /\ D2Q' \in Seq(Procs)
    BY <1>1, <1>4, AppendProperties DEF Block
  <2>2. [cpu EXCEPT !.Dx = Dx, !.current = "WAITING_FOR_IO"] \in State
    BY <1>1, <1>4 DEF State
  <2>3. cpu' \in State /\ pcb' \in [Procs -> State]
    BY <1>1, <1>3, <1>4, <2>2, SwitchType DEF Block
  <2>4. kpc' \in {"irq", "resume"} /\ numDone' = numDone /\ kpc = "syscall"
    BY <1>4 DEF Block, AfterSyscall, handle_syscall
  <2> QED
    BY <1>2, <1>3, <2>1, <2>3, <2>4 DEF handle_syscall, apps, Ended
<1>5. CASE Finish
  <2>1. [cpu EXCEPT !.Dx = "NO_DEVICE", !.current = "DONE"] \in State
    BY <1>1 DEF State
  <2>2. cpu' \in State /\ pcb' \in [Procs -> State]
    BY <1>1, <1>3, <1>5, <2>1, SwitchType DEF Finish
  <2>3. /\ kpc' \in {"irq", "resume", "exited"}
        /\ numDone' \in 0..N
        /\ numDone' = N => kpc' = "exited"
    BY <1>5 DEF Finish, AfterSyscall, handle_syscall, AllDone
  <2> QED
    BY <1>2, <1>3, <1>5, <2>2, <2>3 DEF handle_syscall, Finish, apps, Ended
<1> QED BY <1>4, <1>5 DEF handle_syscall

LEMMA TypeIrq ==
  ASSUME TypeInv, handle_irq
  PROVE  TypeInv'
<1> USE DEF TypeInv, TypeOK
<1>1. /\ irqFifo' \in Seq(IrqTypes)
      /\ kpc = "irq" /\ kpc' = "resume"
      /\ UNCHANGED <<numDone, pending, paused, pauses, running, syscallFifo, apps, burst>>
  BY HeadTailProperties DEF handle_irq
<1>2. SUFFICES /\ cpu' \in State /\ pcb' \in [Procs -> State]
               /\ readyQ' \in Seq(Procs) /\ D1Q' \in Seq(Procs) /\ D2Q' \in Seq(Procs)
  BY <1>1 DEF Ended, apps
<1>3. CASE handle_irq0_timeslice
  <2>1. CASE cpu.pid = NoProc \/ readyQ = <<>>
    BY <1>3, <2>1 DEF handle_irq0_timeslice
  <2>2. CASE ~(cpu.pid = NoProc \/ readyQ = <<>>)
    <3>1. cpu.pid \in Procs /\ [cpu EXCEPT !.current = "READY"] \in State
      BY <2>2 DEF State
    <3>2. Pop(readyQ) \in Procs \cup {NoProc} /\ Rest(readyQ) \in Seq(Procs)
      BY PopType
    <3>3. readyQ' \in Seq(Procs)
      <4>1. readyQ' = Append(Rest(readyQ), cpu.pid)
        BY <1>3, <2>2 DEF handle_irq0_timeslice
      <4> QED BY <3>1, <3>2, <4>1, AppendProperties
    <3>4. cpu' \in State /\ pcb' \in [Procs -> State]
      BY <1>3, <2>2, <3>1, <3>2, SwitchType DEF handle_irq0_timeslice
    <3> QED BY <1>3, <3>3, <3>4 DEF handle_irq0_timeslice
  <2> QED BY <2>1, <2>2
<1>4. ASSUME NEW ioQ \in Seq(Procs), ioQ # <<>>,
             switch_context(cpu.pid,
               IF cpu.pid = NoProc THEN cpu ELSE [cpu EXCEPT !.current = "READY"],
               [pcb EXCEPT ![Pop(ioQ)] = Released(@)], Pop(ioQ))
      PROVE  /\ cpu' \in State /\ pcb' \in [Procs -> State]
             /\ Rest(ioQ) \in Seq(Procs) /\ PreemptInto(readyQ) \in Seq(Procs)
  <2> DEFINE preempted == IF cpu.pid = NoProc THEN cpu ELSE [cpu EXCEPT !.current = "READY"]
             states == [pcb EXCEPT ![Pop(ioQ)] = Released(@)]
  <2>1. /\ preempted \in State /\ states \in [Procs -> State] /\ Pop(ioQ) \in Procs
        /\ Rest(ioQ) \in Seq(Procs) /\ PreemptInto(readyQ) \in Seq(Procs)
    BY <1>4, DeviceIrqType
  <2>2. cpu.pid \in Procs \cup {NoProc}
    BY DEF State
  <2> HIDE DEF preempted, states
  <2> QED BY <1>4, <2>1, <2>2, SwitchType DEF preempted, states
<1>5. CASE handle_irq1_device
  BY <1>4, <1>5 DEF handle_irq1_device, DeviceIrq
<1>6. CASE handle_irq2_device
  BY <1>4, <1>6 DEF handle_irq2_device, DeviceIrq
<1> QED BY <1>3, <1>5, <1>6 DEF handle_irq

\* The two signals.
LEMMA TypeSignal ==
  ASSUME TypeInv, SignalStep
  PROVE  TypeInv'
<1>1. PICK tty \in BOOLEAN : manual_pause(tty) \/ manual_unpause(tty)
  BY DEF SignalStep
<1>2. /\ kpc \notin Ended
      /\ kpc' = kpc \/ kpc' = "top"
      /\ running' = {} \/ running' = running
      /\ paused' \in BOOLEAN /\ pauses' \in {pauses, pauses + 1}
      /\ UNCHANGED <<cpu, pcb, queues, numDone, pending, fifos, apps, burst>>
  <2>1. CASE manual_pause(tty)
    BY <2>1 DEF manual_pause, AfterSignal
  <2>2. CASE manual_unpause(tty)
    BY <2>2 DEF manual_unpause, AfterSignal
  <2> QED BY <1>1, <2>1, <2>2
<1> QED BY <1>2 DEF TypeInv, TypeOK, queues, fifos, apps, Ended

\* The application processes and the interrupt controller.
LEMMA TypeOutside ==
  ASSUME TypeInv, (\E p \in Procs : A(p)) \/ interControllerSim \/ UNCHANGED vars
  PROVE  TypeInv'
<1> USE DEF TypeInv, TypeOK, queues, fifos, apps, kernelVars
<1>1. ASSUME NEW p \in Procs, A(p) PROVE TypeInv'
  <2> USE DEF Goto
  <2>1. CASE Begin(p)
    <3>1. cpu' = [cpu EXCEPT !.PC = 0] /\ cpu \in State
      BY <2>1 DEF Begin
    <3>2. cpu' \in State
      <4>1. 0 \in Int
        OBVIOUS
      <4> HIDE DEF TypeInv, TypeOK
      <4> QED BY <3>1, <4>1, StatePC
    <3> QED BY <2>1, <3>2 DEF Begin, NextLoc
  <2>2. ASSUME NEW Dx \in Devices \cup {"NO_DEVICE"}, WriteSyscall(p, Dx)
        PROVE  syscallFifo' \in Seq(SyscallArgs) /\ UNCHANGED <<cpu, irqFifo>>
    <3>1. [from |-> p, Dx |-> Dx] \in SyscallArgs
      BY DEF SyscallArgs
    <3> QED BY <2>2, <3>1, AppendProperties DEF WriteSyscall
  <2>3. CASE maybe_syscall(p)
    <3>1. syscallFifo' \in Seq(SyscallArgs) /\ UNCHANGED <<cpu, irqFifo>>
      BY <2>2, <2>3 DEF maybe_syscall
    <3> QED BY <2>3, <3>1 DEF maybe_syscall
  <2>4. CASE ReadPC(p)
    <3>1. cpu.PC \in Int
      BY DEF State
    <3> QED BY <2>4, <3>1 DEF ReadPC
  <2>5. CASE IncrementPC(p)
    <3>1. reg[p] + 1 \in Int
      OBVIOUS
    <3>4. cpu' = [cpu EXCEPT !.PC = reg[p] + 1] /\ cpu \in State
      BY <2>5 DEF IncrementPC
    <3>2. cpu' \in State
      BY <3>1, <3>4, StatePC
    <3>3. iter' \in [Procs -> Nat]
      <4>1. iter' = [iter EXCEPT ![p] = iter[p] + 1] /\ iter \in [Procs -> Nat]
        BY <2>5 DEF IncrementPC
      <4>2. iter[p] + 1 \in Nat
        BY <4>1
      <4> QED BY <4>1, <4>2
    <3> QED BY <2>5, <3>2, <3>3 DEF IncrementPC, NextLoc
  <2>6. CASE ExitSyscall(p)
    <3>1. syscallFifo' \in Seq(SyscallArgs) /\ UNCHANGED <<cpu, irqFifo>>
      BY <2>2, <2>6 DEF ExitSyscall
    <3> QED BY <2>6, <3>1 DEF ExitSyscall
  <2>7. CASE Return(p)
    BY <2>7 DEF Return
  <2> QED BY <1>1, <2>1, <2>3, <2>4, <2>5, <2>6, <2>7 DEF A
<1>2. ASSUME NEW irq \in IrqTypes, RaiseIrq(irq), burst' \in Bursts PROVE TypeInv'
  <2>1. irqFifo' \in Seq(IrqTypes)
    BY <1>2, AppendProperties DEF RaiseIrq
  <2> QED BY <1>2, <2>1 DEF RaiseIrq
<1>3. CASE interControllerSim
  <2>1. ASSUME NEW draw \in Bursts, TimeSlice(draw) PROVE TypeInv'
    BY <1>2, <2>1 DEF TimeSlice, IrqTypes
  <2>2. CASE SendDrawn
    <3>1. burst \in Bursts /\ burst # <<>> => Head(burst) \in IrqTypes /\ Tail(burst) \in Bursts
      <4>1. CASE burst = <<"IRQ1">>
        BY <4>1 DEF Bursts, IrqTypes
      <4>2. CASE burst = <<"IRQ2">>
        BY <4>2 DEF Bursts, IrqTypes
      <4>3. CASE burst = <<"IRQ1", "IRQ2">>
        <5>1. Head(burst) = "IRQ1" /\ Tail(burst) = <<"IRQ2">>
          BY <4>3
        <5> QED BY <5>1 DEF Bursts, IrqTypes
      <4> QED BY <4>1, <4>2, <4>3 DEF Bursts
    <3> QED BY <1>2, <2>2, <3>1 DEF SendDrawn
  <2> QED BY <1>3, <2>1, <2>2 DEF interControllerSim
<1>4. CASE UNCHANGED vars
  BY <1>4 DEF vars
<1> QED BY <1>1, <1>3, <1>4

LEMMA TypeStep == TypeInv /\ [Next]_vars => TypeInv'
BY TypeLoop, TypeSyscall, TypeIrq, TypeSignal, TypeOutside DEF Next, KernelStep

\* Every variable of the first simulator keeps its type, and the count of
\* finished processes its bound (TypeOK).
THEOREM TypeCorrect == Spec => []TypeOK
<1>1. Spec => []TypeInv
  BY TypeInit, TypeStep, PTL DEF Spec
<1>2. TypeInv => TypeOK
  BY DEF TypeInv
<1> QED BY <1>1, <1>2, PTL

------------------------------------------------------------------------------
(***************************************************************************)
(* SingleRunner and ContextFaithful of Trab1, for every value of the       *)
(* constants, in every regime, with pauses at any point of the loop and    *)
(* SIGSTOPs between the read and the write of PC++.                        *)
(*                                                                         *)
(* ContextFaithful is not inductive alone.  That a process increments its  *)
(* own counter needs SingleRunner; that the counter loaded is its own      *)
(* needs each entry of the table to hold its own pid; and that the reset   *)
(* at the head of the loop erases nothing needs FreshAtStart.              *)
(***************************************************************************)

\* An entry of process_states always keeps the pid of its process.
OwnPids == \A p \in Procs : pcb[p].pid = p

\* A process that has not initialized its counter has counted nothing.
FreshAtStart == \A p \in Procs : loc[p] = "start" => iter[p] = 0

CpuInv == OwnPids /\ FreshAtStart /\ ContextFaithful

ContextInv == TypeInv /\ CpuInv /\ SingleRunner

------------------------------------------------------------------------------
LEMMA ContextInit == Init => ContextInv
<1> SUFFICES ASSUME Init PROVE ContextInv
  OBVIOUS
<1>1. 1 \in Procs
  BY DEF Procs
<1>2. /\ pcb = [p \in Procs |-> InitialState(p)]
      /\ iter = [p \in Procs |-> 0] /\ loc = [p \in Procs |-> "start"]
      /\ running = {1} /\ kpc = "top"
  BY DEF Init
<1>3. cpu.pid = 1 /\ cpu.PC = 0
  <2>1. cpu = [InitialState(1) EXCEPT !.current = "RUNNING"]
    BY DEF Init
  <2>2. DOMAIN InitialState(1) = {"pid", "PC", "current", "Dx"}
    BY DEF InitialState
  <2>3. InitialState(1).pid = 1 /\ InitialState(1).PC = 0
    BY DEF InitialState
  <2> QED BY <2>1, <2>2, <2>3
<1>4. \A p \in Procs : pcb[p].pid = p /\ pcb[p].PC = 0
  BY <1>2 DEF InitialState
<1>5. OwnPids /\ FreshAtStart /\ ContextFaithful
  BY <1>2, <1>3, <1>4 DEF OwnPids, FreshAtStart, ContextFaithful
<1>6. SingleRunner
  BY <1>2, <1>3 DEF SingleRunner, OnCpu, NoProc
<1> QED BY <1>5, <1>6, TypeInit DEF ContextInv, CpuInv

\* A step that leaves the CPU, the table and the applications alone.
LEMMA ContextUntouched ==
  ASSUME CpuInv, UNCHANGED <<cpu, pcb, apps>>
  PROVE  CpuInv'
BY DEF CpuInv, OwnPids, FreshAtStart, ContextFaithful, apps

\* A switch from the process on the CPU, saved as st, keeps every process with
\* its own pid and its own counter, whoever gets the CPU.
LEMMA SwitchKeepsContexts ==
  ASSUME TypeInv, CpuInv, UNCHANGED apps,
         NEW st \in State, st.pid = cpu.pid, st.PC = cpu.PC,
         NEW states \in [Procs -> State],
         \A p \in Procs : states[p].pid = pcb[p].pid /\ states[p].PC = pcb[p].PC,
         NEW dest \in Procs \cup {NoProc},
         switch_context(cpu.pid, st, states, dest)
  PROVE  CpuInv'
<1>1. cpu.pid \in Procs \cup {NoProc}
  BY DEF TypeInv, TypeOK, State
<1>2. pcb' = IF cpu.pid # NoProc THEN [states EXCEPT ![cpu.pid] = st] ELSE states
  BY DEF switch_context
<1>3. \A p \in Procs : pcb'[p] = IF cpu.pid = p THEN st ELSE states[p]
  BY <1>1, <1>2 DEF Procs, NoProc
<1>4. UNCHANGED <<loc, reg, iter>>
  BY DEF apps
<1>5. \A p \in Procs : pcb'[p].pid = p /\ pcb'[p].PC = iter[p]
  BY <1>3 DEF CpuInv, OwnPids, ContextFaithful
<1>6. cpu'.pid = dest
  <2>1. CASE dest = NoProc
    BY <2>1 DEF switch_context, IdleCpu
  <2>2. CASE dest # NoProc
    BY <2>2, <1>5 DEF switch_context
  <2> QED BY <2>1, <2>2
<1>7. \A p \in Procs : cpu'.pid = p => cpu'.PC = iter[p]
  BY <1>5, <1>6 DEF switch_context, Procs, NoProc
<1> QED
  BY <1>4, <1>5, <1>7 DEF CpuInv, OwnPids, FreshAtStart, ContextFaithful

LEMMA ContextSyscall ==
  ASSUME TypeInv, CpuInv, handle_syscall
  PROVE  CpuInv'
<1> DEFINE Dx == Head(syscallFifo).Dx
<1>1. /\ cpu \in State /\ pcb \in [Procs -> State]
      /\ Pop(readyQ) \in Procs \cup {NoProc} /\ UNCHANGED apps
  BY PopType DEF TypeInv, TypeOK, handle_syscall
<1>2. CASE Dx \in Devices /\ Block(Dx)
  <2> DEFINE st == [cpu EXCEPT !.Dx = Dx, !.current = "WAITING_FOR_IO"]
  <2>1. st \in State /\ st.pid = cpu.pid /\ st.PC = cpu.PC
    BY <1>1, <1>2 DEF State
  <2>2. switch_context(cpu.pid, st, pcb, Pop(readyQ))
    BY <1>2 DEF Block
  <2> QED BY <1>1, <2>1, <2>2, SwitchKeepsContexts
<1>3. CASE Finish
  <2> DEFINE st == [cpu EXCEPT !.Dx = "NO_DEVICE", !.current = "DONE"]
  <2>1. st \in State /\ st.pid = cpu.pid /\ st.PC = cpu.PC
    BY <1>1 DEF State
  <2>2. CASE AllDone(numDone + 1)
    <3>1. cpu' = st /\ pcb' = pcb
      BY <1>3, <2>2 DEF Finish
    <3> QED
      BY <1>1, <2>1, <3>1 DEF CpuInv, OwnPids, FreshAtStart, ContextFaithful, apps
  <2>3. CASE ~AllDone(numDone + 1)
    <3>1. switch_context(cpu.pid, st, pcb, Pop(readyQ))
      BY <1>3, <2>3 DEF Finish
    <3> QED BY <1>1, <2>1, <3>1, SwitchKeepsContexts
  <2> QED BY <2>2, <2>3
<1> QED BY <1>2, <1>3 DEF handle_syscall

LEMMA ContextIrq ==
  ASSUME TypeInv, CpuInv, handle_irq
  PROVE  CpuInv'
<1>1. /\ TypeOK /\ cpu \in State /\ pcb \in [Procs -> State]
      /\ readyQ \in Seq(Procs) /\ D1Q \in Seq(Procs) /\ D2Q \in Seq(Procs)
      /\ UNCHANGED apps
  BY DEF TypeInv, TypeOK, handle_irq
<1>2. CASE handle_irq0_timeslice
  <2>1. CASE cpu.pid = NoProc \/ readyQ = <<>>
    BY <1>1, <1>2, <2>1, ContextUntouched DEF handle_irq0_timeslice
  <2>2. CASE ~(cpu.pid = NoProc \/ readyQ = <<>>)
    <3> DEFINE st == [cpu EXCEPT !.current = "READY"]
    <3>1. st \in State /\ st.pid = cpu.pid /\ st.PC = cpu.PC
      BY <1>1 DEF State
    <3>2. switch_context(cpu.pid, st, pcb, Pop(readyQ))
      BY <1>2, <2>2 DEF handle_irq0_timeslice
    <3>3. Pop(readyQ) \in Procs
      BY <1>1, <2>2, PopType
    <3> QED BY <1>1, <3>1, <3>2, <3>3, SwitchKeepsContexts
  <2> QED BY <2>1, <2>2
<1>3. ASSUME NEW ioQ \in Seq(Procs), ioQ # <<>>,
             switch_context(cpu.pid,
               IF cpu.pid = NoProc THEN cpu ELSE [cpu EXCEPT !.current = "READY"],
               [pcb EXCEPT ![Pop(ioQ)] = Released(@)], Pop(ioQ))
      PROVE  CpuInv'
  <2> DEFINE preempted == IF cpu.pid = NoProc THEN cpu ELSE [cpu EXCEPT !.current = "READY"]
             states == [pcb EXCEPT ![Pop(ioQ)] = Released(@)]
  <2>1. /\ preempted \in State /\ states \in [Procs -> State] /\ Pop(ioQ) \in Procs
        /\ preempted.pid = cpu.pid /\ preempted.PC = cpu.PC
        /\ \A p \in Procs : /\ states[p].pid = pcb[p].pid
                            /\ states[p].PC = pcb[p].PC
    BY <1>1, <1>3, DeviceIrqType
  <2>2. switch_context(cpu.pid, preempted, states, Pop(ioQ))
    BY <1>3
  <2> HIDE DEF states, preempted
  <2> QED BY <1>1, <2>1, <2>2, SwitchKeepsContexts
<1>4. CASE handle_irq1_device
  BY <1>1, <1>3, <1>4, ContextUntouched DEF handle_irq1_device, DeviceIrq
<1>5. CASE handle_irq2_device
  BY <1>1, <1>3, <1>5, ContextUntouched DEF handle_irq2_device, DeviceIrq
<1> QED BY <1>2, <1>4, <1>5 DEF handle_irq

\* The steps of a process, which is the one on the CPU.
LEMMA ContextApp ==
  ASSUME ContextInv, NEW p \in Procs, A(p)
  PROVE  CpuInv'
<1>1. /\ cpu \in State /\ iter \in [Procs -> Nat] /\ reg \in [Procs -> Int]
      /\ DOMAIN loc = Procs
      /\ OwnPids /\ FreshAtStart /\ ContextFaithful
  BY DEF ContextInv, CpuInv, TypeInv, TypeOK
<1>2. UNCHANGED <<kernelVars>> /\ MayRun(p)
  BY DEF A, Begin, maybe_syscall, ReadPC, IncrementPC, ExitSyscall, Return, Goto
<1>3. cpu.pid = p /\ iter[p] = cpu.PC /\ pcb' = pcb
  BY <1>1, <1>2
  DEF MayRun, ContextInv, SingleRunner, OnCpu, ContextFaithful, kernelVars
<1>4. OwnPids'
  BY <1>1, <1>3 DEF OwnPids
<1>5. \A q \in Procs \ {p} : loc'[q] = loc[q]
  BY <1>1 DEF A, Begin, maybe_syscall, ReadPC, IncrementPC, ExitSyscall, Return, Goto
<1>6. ASSUME UNCHANGED <<cpu, reg, iter>>, loc'[p] \notin {"start", "incrementing"}
      PROVE  CpuInv'
  BY <1>1, <1>3, <1>4, <1>5, <1>6 DEF CpuInv, FreshAtStart, ContextFaithful
<1>7. CASE Begin(p)
  <2>1. UNCHANGED <<reg, iter>> /\ loc[p] = "start" /\ loc'[p] \in {"loop", "exiting"}
    BY <1>1, <1>7 DEF Begin, Goto, NextLoc
  <2>2. cpu'.pid = cpu.pid /\ cpu'.PC = 0
    BY <1>1, <1>7 DEF Begin, State
  <2>3. iter[p] = 0
    BY <1>1, <2>1 DEF FreshAtStart
  <2> QED
    BY <1>1, <1>3, <1>4, <1>5, <2>1, <2>2, <2>3
    DEF CpuInv, FreshAtStart, ContextFaithful
<1>8. CASE maybe_syscall(p)
  <2>1. UNCHANGED <<cpu, reg, iter>> /\ loc'[p] = "endOfIteration"
    BY <1>1, <1>8 DEF maybe_syscall, WriteSyscall, Goto
  <2> QED BY <1>6, <2>1
<1>9. CASE ReadPC(p)
  <2>1. /\ UNCHANGED <<cpu, iter>> /\ loc'[p] = "incrementing"
        /\ reg'[p] = cpu.PC /\ \A q \in Procs \ {p} : reg'[q] = reg[q]
    BY <1>1, <1>9 DEF ReadPC, Goto
  <2> QED
    BY <1>1, <1>3, <1>4, <1>5, <2>1 DEF CpuInv, FreshAtStart, ContextFaithful
<1>10. CASE IncrementPC(p)
  <2>1. /\ UNCHANGED reg /\ loc[p] = "incrementing" /\ loc'[p] \in {"loop", "exiting"}
        /\ iter'[p] = iter[p] + 1 /\ \A q \in Procs \ {p} : iter'[q] = iter[q]
    BY <1>1, <1>10 DEF IncrementPC, Goto, NextLoc
  <2>2. cpu'.pid = cpu.pid /\ cpu'.PC = reg[p] + 1
    BY <1>1, <1>10 DEF IncrementPC, State
  <2>3. reg[p] = iter[p]
    BY <1>1, <2>1 DEF ContextFaithful
  <2> QED
    BY <1>1, <1>3, <1>4, <1>5, <2>1, <2>2, <2>3
    DEF CpuInv, FreshAtStart, ContextFaithful
<1>11. CASE ExitSyscall(p)
  <2>1. UNCHANGED <<cpu, reg, iter>> /\ loc'[p] = "returning"
    BY <1>1, <1>11 DEF ExitSyscall, WriteSyscall, Goto
  <2> QED BY <1>6, <2>1
<1>12. CASE Return(p)
  <2>1. UNCHANGED <<cpu, reg, iter>> /\ loc'[p] = "gone"
    BY <1>1, <1>12 DEF Return, Goto
  <2> QED BY <1>6, <2>1
<1> QED BY <1>7, <1>8, <1>9, <1>10, <1>11, <1>12 DEF A

LEMMA ContextOther ==
  ASSUME ContextInv,
         \/ CheckPaused \/ Pselect \/ PselectTimeout \/ StopCurrent \/ ResumeCurrent
         \/ ImpossibleSyscall \/ SignalStep \/ interControllerSim
         \/ UNCHANGED vars
  PROVE  CpuInv'
<1>1. CASE ResumeCurrent
  <2>1. cpu'.pid = cpu.pid /\ cpu'.PC = cpu.PC
    BY <1>1 DEF ResumeCurrent, ContextInv, TypeInv, TypeOK, State
  <2> QED
    BY <1>1, <2>1
    DEF ResumeCurrent, ContextInv, CpuInv, OwnPids, FreshAtStart, ContextFaithful, apps
<1>2. CASE CheckPaused \/ Pselect \/ PselectTimeout \/ StopCurrent \/ ImpossibleSyscall
  BY <1>2, ContextUntouched
  DEF CheckPaused, Pselect, PselectTimeout, StopCurrent, ImpossibleSyscall, ContextInv
<1>3. CASE SignalStep
  BY <1>3, ContextUntouched DEF SignalStep, manual_pause, manual_unpause, ContextInv
<1>4. CASE interControllerSim
  BY <1>4, ContextUntouched
  DEF interControllerSim, TimeSlice, SendDrawn, RaiseIrq, kernelVars, ContextInv
<1>5. CASE UNCHANGED vars
  BY <1>5, ContextUntouched DEF vars, ContextInv
<1> QED BY <1>1, <1>2, <1>3, <1>4, <1>5

------------------------------------------------------------------------------
\* Nobody but the process on the CPU runs, and nobody while the kernel handles
\* an event: the handlers find running empty and leave it so.
LEMMA RunnerStep ==
  ASSUME ContextInv, [Next]_vars
  PROVE  SingleRunner'
<1> USE DEF SingleRunner, OnCpu
<1>1. SingleRunner /\ cpu \in State
  BY DEF ContextInv, TypeInv, TypeOK
<1>2. CASE CheckPaused \/ Pselect \/ PselectTimeout
  BY <1>1, <1>2 DEF CheckPaused, Pselect, PselectTimeout
<1>3. CASE StopCurrent
  BY <1>1, <1>3 DEF StopCurrent
<1>4. CASE ImpossibleSyscall
  BY <1>1, <1>4 DEF ImpossibleSyscall
<1>5. CASE handle_syscall
  BY <1>1, <1>5 DEF handle_syscall
<1>6. CASE handle_irq
  BY <1>1, <1>6 DEF handle_irq
<1>7. CASE ResumeCurrent
  <2>1. cpu'.pid = cpu.pid
    BY <1>1, <1>7 DEF ResumeCurrent, State
  <2> QED BY <1>1, <1>7, <2>1 DEF ResumeCurrent
<1>8. ASSUME NEW tty \in BOOLEAN, manual_pause(tty) \/ manual_unpause(tty)
      PROVE  SingleRunner'
  <2>1. /\ kpc' = kpc \/ kpc' = "top"
        /\ running' = {} \/ running' = running
        /\ UNCHANGED cpu
    <3>1. CASE manual_pause(tty)
      BY <3>1 DEF manual_pause, AfterSignal
    <3>2. CASE manual_unpause(tty)
      BY <3>2 DEF manual_unpause, AfterSignal
    <3> QED BY <1>8, <3>1, <3>2
  <2> QED BY <1>1, <2>1
<1>9. ASSUME NEW p \in Procs, A(p) PROVE SingleRunner'
  <2>1. UNCHANGED <<kpc, running>>
    BY <1>9
    DEF A, Begin, maybe_syscall, ReadPC, IncrementPC, ExitSyscall, Return, kernelVars
  <2>2. cpu'.pid = cpu.pid
    BY <1>1, <1>9
    DEF A, Begin, maybe_syscall, ReadPC, IncrementPC, ExitSyscall, Return, WriteSyscall, State
  <2> QED BY <1>1, <2>1, <2>2
<1>10. CASE interControllerSim
  BY <1>1, <1>10 DEF interControllerSim, TimeSlice, SendDrawn, RaiseIrq, kernelVars
<1>11. CASE UNCHANGED vars
  BY <1>1, <1>11 DEF vars
<1> QED
  BY <1>2, <1>3, <1>4, <1>5, <1>6, <1>7, <1>8, <1>9, <1>10, <1>11
  DEF Next, KernelStep, SignalStep

LEMMA ContextStep == ContextInv /\ [Next]_vars => ContextInv'
<1> SUFFICES ASSUME ContextInv, [Next]_vars PROVE ContextInv'
  OBVIOUS
<1>1. TypeInv /\ CpuInv
  BY DEF ContextInv
<1>2. CpuInv'
  BY <1>1, ContextSyscall, ContextIrq, ContextApp, ContextOther DEF Next, KernelStep
<1> QED BY <1>1, <1>2, TypeStep, RunnerStep DEF ContextInv

LEMMA ContextCorrect == Spec => []ContextInv
BY ContextInit, ContextStep, PTL DEF Spec

\* With pauses at any point of the loop, nobody but the process on the CPU of
\* trab1 ever runs, and nobody while its kernel handles an event (SingleRunner).
THEOREM OneRunnerAtATime == Spec => []SingleRunner
<1>1. ContextInv => SingleRunner
  BY DEF ContextInv
<1> QED BY <1>1, ContextCorrect, PTL

\* No update of state->PC is lost, though it is a read and a write of memory
\* that every process shares: the counter a process finds counts the iterations
\* it really finished, wherever it was stopped (ContextFaithful).
THEOREM ContextsNeverMixed == Spec => []ContextFaithful
<1>1. ContextInv => ContextFaithful
  BY DEF ContextInv, CpuInv
<1> QED BY <1>1, ContextCorrect, PTL

------------------------------------------------------------------------------
(***************************************************************************)
(* The kernel of trab1 implements Scheduler, for every value of the        *)
(* constants, in every regime and with pauses anywhere.                    *)
(*                                                                         *)
(* As in KernelSim_proofs, the places of a process partition Procs and     *)
(* every handler moves one process, or two, between them.  Here a device   *)
(* interrupt always releases the first process of the queue, so that each  *)
(* interrupt is a step of Scheduler or finds nobody to move.               *)
(***************************************************************************)

(***************************************************************************)
(* The invariant.                                                          *)
(***************************************************************************)
\* A process is in one place: on the CPU, ready, in the queue of one device or
\* done.
Partition(c, r, a, b, f) ==
  /\ c \cap r = {} /\ c \cap a = {} /\ c \cap b = {} /\ c \cap f = {}
  /\ r \cap a = {} /\ r \cap b = {} /\ r \cap f = {}
  /\ a \cap b = {} /\ a \cap f = {} /\ b \cap f = {}
  /\ c \cup r \cup a \cup b \cup f = Procs

Placed ==
  /\ IsInjective(readyQ) /\ IsInjective(D1Q) /\ IsInjective(D2Q)
  /\ Partition(OnCpu, Range(readyQ), Range(D1Q), Range(D2Q), Finished)

\* The count is exact.  The last process to exit is counted and keeps the CPU.
Counted ==
  /\ kpc = "exited" => numDone = N
  /\ kpc # "exited" => numDone = Cardinality(Finished)

PlaceInv == ContextInv /\ Placed /\ Counted

LEMMA PlaceInit == Init => PlaceInv /\ Promise!SchedulerInit
<1> SUFFICES ASSUME Init PROVE PlaceInv /\ Promise!SchedulerInit
  OBVIOUS
<1>1. ContextInv
  BY ContextInit
<1>2. /\ pcb = [p \in Procs |-> InitialState(p)] /\ kpc = "top" /\ numDone = 0
      /\ readyQ = SubSeq([p \in Procs |-> p], 2, N)
      /\ D1Q = <<>> /\ D2Q = <<>>
  BY DEF Init
<1>3. cpu.pid = 1
  <2>1. cpu = [InitialState(1) EXCEPT !.current = "RUNNING"]
    BY DEF Init
  <2>2. DOMAIN InitialState(1) = {"pid", "PC", "current", "Dx"}
    BY DEF InitialState
  <2>3. InitialState(1).pid = 1
    BY DEF InitialState
  <2> QED BY <2>1, <2>2, <2>3
<1>4. \A p \in Procs : pcb[p].current = "READY"
  BY <1>2 DEF InitialState
<1>5. Finished = {}
  BY <1>4 DEF Finished
<1>6. OnCpu = {1}
  BY <1>3 DEF OnCpu, NoProc
<1>7. Range(D1Q) = {} /\ Range(D2Q) = {} /\ IsInjective(D1Q) /\ IsInjective(D2Q)
  BY <1>2 DEF Range, IsInjective
<1>8. Range(readyQ) = 2..N /\ IsInjective(readyQ)
  BY <1>2, FirstOnesRange DEF Procs
<1>9. Placed
  BY <1>5, <1>6, <1>7, <1>8 DEF Placed, Partition, Procs
<1>10. Counted
  BY <1>2, <1>5, FS_EmptySet DEF Counted
<1>11. Promise!SchedulerInit
  BY <1>2, <1>3, <1>5, <1>7 DEF Promise!SchedulerInit, Waiting, Procs
<1> QED BY <1>1, <1>9, <1>10, <1>11 DEF PlaceInv

------------------------------------------------------------------------------
(***************************************************************************)
(* What the handlers share.                                                *)
(***************************************************************************)
\* A switch loads the process it is told to load, and what it writes to the
\* table decides who has finished.
LEMMA SwitchOutcome ==
  ASSUME PlaceInv, NEW st \in State, st.pid = cpu.pid,
         NEW states \in [Procs -> State],
         \A p \in Procs : /\ states[p].pid = pcb[p].pid
                          /\ states[p].current = pcb[p].current,
         NEW dest \in Procs \cup {NoProc}, switch_context(cpu.pid, st, states, dest)
  PROVE  /\ cpu'.pid = dest
         /\ Finished' = IF st.current = "DONE" THEN Finished \cup OnCpu ELSE Finished \ OnCpu
<1>1. cpu.pid \in Procs \cup {NoProc} /\ OwnPids
  BY DEF PlaceInv, ContextInv, CpuInv, TypeInv, TypeOK, State
<1>2. pcb' = IF cpu.pid # NoProc THEN [states EXCEPT ![cpu.pid] = st] ELSE states
  BY <1>1 DEF switch_context
<1>3. \A p \in Procs : pcb'[p] = IF p \in OnCpu THEN st ELSE states[p]
  BY <1>1, <1>2 DEF OnCpu, Procs, NoProc
<1>4. \A p \in Procs : pcb'[p].pid = p
  BY <1>1, <1>3 DEF OwnPids, OnCpu
<1>5. cpu'.pid = dest
  <2>1. CASE dest = NoProc
    BY <2>1 DEF switch_context, IdleCpu
  <2>2. CASE dest # NoProc
    BY <2>2, <1>4 DEF switch_context
  <2> QED BY <2>1, <2>2
<1>6. OnCpu \subseteq Procs
  BY <1>1 DEF OnCpu
<1> QED BY <1>3, <1>5, <1>6 DEF Finished

\* A queue that loses its head.
LEMMA RestRange ==
  ASSUME NEW q \in Seq(Procs), IsInjective(q)
  PROVE  /\ IsInjective(Rest(q))
         /\ Range(Rest(q)) = Range(q) \ {Pop(q)}
         /\ q = <<>> => Range(q) = {} /\ Pop(q) = NoProc
         /\ q # <<>> => Pop(q) \in Range(q)
<1>1. CASE q = <<>>
  BY <1>1 DEF Rest, Pop, Range
<1>2. CASE q # <<>>
  <2>1. Rest(q) = Tail(q) /\ Pop(q) = Head(q)
    BY <1>2 DEF Rest, Pop
  <2> QED BY <1>2, <2>1, TailRange
<1> QED BY <1>1, <1>2

\* The CPU is loaded from the ready queue, or becomes idle if it is empty.
LEMMA DispatchPlaces ==
  ASSUME PlaceInv, cpu'.pid = Pop(readyQ), readyQ' = Rest(readyQ)
  PROVE  /\ IsInjective(readyQ')
         /\ OnCpu' \cup Range(readyQ') = Range(readyQ)
         /\ OnCpu' \cap Range(readyQ') = {}
         /\ kpc # "exited" /\ kpc' # "exited" => Promise!Dispatch
<1>1. readyQ \in Seq(Procs) /\ IsInjective(readyQ)
  BY DEF PlaceInv, ContextInv, TypeInv, TypeOK, Placed
<1>2. OnCpu' = {Pop(readyQ)} \ {NoProc}
  BY DEF OnCpu
<1>3. /\ IsInjective(Rest(readyQ))
      /\ Range(Rest(readyQ)) = Range(readyQ) \ {Pop(readyQ)}
      /\ readyQ = <<>> => Range(readyQ) = {} /\ Pop(readyQ) = NoProc
      /\ readyQ # <<>> => Pop(readyQ) \in Range(readyQ) /\ Pop(readyQ) \in Procs
  BY <1>1, RestRange, PopType
<1>4. NoProc \notin Procs
  BY DEF Procs, NoProc
<1>5. kpc # "exited" /\ kpc' # "exited" => Promise!Dispatch
  BY DEF Promise!Dispatch, Pop, Rest, NoProc
<1> QED BY <1>2, <1>3, <1>4, <1>5

\* There are N processes, and those that have finished can be counted.
LEMMA FinishedFinite ==
  /\ IsFiniteSet(Procs) /\ Cardinality(Procs) = N
  /\ IsFiniteSet(Finished) /\ Cardinality(Finished) \in Nat
<1>1. IsFiniteSet(1..N) /\ Cardinality(1..N) = N
  <2>1. 1 \in Int /\ N \in Int /\ ~ (1 > N) /\ N - 1 + 1 = N
    OBVIOUS
  <2> QED BY <2>1, FS_Interval
<1>2. Finished \in SUBSET Procs
  BY DEF Finished
<1> QED BY <1>1, <1>2, FS_Subset, FS_CardinalityType DEF Procs

\* A handler that lets no process finish leaves the count right.
LEMMA CountKept ==
  ASSUME PlaceInv, Finished' = Finished, numDone' = numDone,
         kpc' = "exited" <=> kpc = "exited"
  PROVE  Counted'
BY DEF PlaceInv, Counted

------------------------------------------------------------------------------
(***************************************************************************)
(* The syscalls.                                                           *)
(***************************************************************************)
LEMMA PlaceBlock ==
  ASSUME PlaceInv, handle_syscall,
         Head(syscallFifo).Dx \in Devices, Block(Head(syscallFifo).Dx)
  PROVE  Placed' /\ Counted' /\ Promise!BlockCurrent
<1> DEFINE Dx == Head(syscallFifo).Dx
           c == cpu.pid
           st == [cpu EXCEPT !.Dx = Dx, !.current = "WAITING_FOR_IO"]
<1>1. /\ cpu \in State /\ pcb \in [Procs -> State]
      /\ D1Q \in Seq(Procs) /\ D2Q \in Seq(Procs) /\ readyQ \in Seq(Procs)
      /\ Placed
  BY DEF PlaceInv, ContextInv, TypeInv, TypeOK
<1>2. /\ c \in Procs /\ kpc = "syscall" /\ readyQ' = Rest(readyQ)
      /\ Pop(readyQ) \in Procs \cup {NoProc}
      /\ kpc' # "exited" /\ kpc # "exited" /\ numDone' = numDone
  BY <1>1, PopType DEF handle_syscall, Block, AfterSyscall, State
<1>3. OnCpu = {c} /\ c # NoProc
  BY <1>2 DEF OnCpu, Procs, NoProc
<1>4. Partition({c}, Range(readyQ), Range(D1Q), Range(D2Q), Finished)
  BY <1>1, <1>3 DEF Placed
<1>5. st \in State /\ st.pid = c /\ st.current # "DONE"
  BY <1>1 DEF State, Devices
<1>6. switch_context(c, st, pcb, Pop(readyQ))
  BY DEF Block
<1>7. cpu'.pid = Pop(readyQ) /\ Finished' = Finished
  <2>1. cpu'.pid = Pop(readyQ) /\ Finished' = Finished \ OnCpu
    BY <1>1, <1>2, <1>5, <1>6, SwitchOutcome
  <2> QED BY <1>3, <1>4, <2>1 DEF Partition
<1>8. /\ IsInjective(readyQ')
      /\ OnCpu' \cup Range(readyQ') = Range(readyQ)
      /\ OnCpu' \cap Range(readyQ') = {}
      /\ Promise!Dispatch
  BY <1>2, <1>7, DispatchPlaces
<1>9. \/ D1Q' = Append(D1Q, c) /\ D2Q' = D2Q
      \/ D1Q' = D1Q /\ D2Q' = Append(D2Q, c)
  BY DEF Block, Devices
<1>10. c \notin Range(D1Q) /\ c \notin Range(D2Q)
  BY <1>4 DEF Partition
<1>11. /\ IsInjective(D1Q') /\ IsInjective(D2Q')
       /\ \/ Range(D1Q') = Range(D1Q) \cup {c} /\ Range(D2Q') = Range(D2Q)
          \/ Range(D1Q') = Range(D1Q) /\ Range(D2Q') = Range(D2Q) \cup {c}
  <2>1. /\ IsInjective(Append(D1Q, c)) /\ Range(Append(D1Q, c)) = Range(D1Q) \cup {c}
        /\ IsInjective(Append(D2Q, c)) /\ Range(Append(D2Q, c)) = Range(D2Q) \cup {c}
    BY <1>1, <1>2, <1>10, AppendRange DEF Placed
  <2> QED BY <1>1, <1>9, <2>1 DEF Placed
<1>12. Placed'
  BY <1>4, <1>7, <1>8, <1>11 DEF Placed, Partition
<1>13. Counted'
  BY <1>2, <1>7, CountKept
<1>14. Waiting' = Waiting \cup {c}
  BY <1>11 DEF Waiting
<1>15. Promise!BlockCurrent
  BY <1>2, <1>3, <1>7, <1>8, <1>14 DEF Promise!BlockCurrent, NoProc
<1> QED BY <1>12, <1>13, <1>15

LEMMA PlaceFinish ==
  ASSUME PlaceInv, handle_syscall, Finish
  PROVE  Placed' /\ Counted' /\ Promise!FinishCurrent
<1> DEFINE c == cpu.pid
           st == [cpu EXCEPT !.Dx = "NO_DEVICE", !.current = "DONE"]
<1>1. /\ cpu \in State /\ pcb \in [Procs -> State] /\ readyQ \in Seq(Procs)
      /\ numDone \in 0..N /\ Placed
  BY DEF PlaceInv, ContextInv, TypeInv, TypeOK
<1>2. /\ c \in Procs /\ kpc = "syscall" /\ readyQ' = Rest(readyQ)
      /\ Pop(readyQ) \in Procs \cup {NoProc}
      /\ numDone' = numDone + 1 /\ UNCHANGED <<D1Q, D2Q>>
  BY <1>1, PopType DEF handle_syscall, Finish, State
<1>3. OnCpu = {c} /\ c # NoProc
  BY <1>2 DEF OnCpu, Procs, NoProc
<1>4. /\ Partition({c}, Range(readyQ), Range(D1Q), Range(D2Q), Finished)
      /\ c \notin Finished
  BY <1>1, <1>3 DEF Placed, Partition
<1>5. st \in State /\ st.pid = c /\ st.current = "DONE"
  BY <1>1 DEF State
<1>6. Cardinality(Finished \cup {c}) = numDone + 1
  <2>1. numDone = Cardinality(Finished)
    BY <1>2 DEF PlaceInv, Counted
  <2>2. IsFiniteSet(Finished) /\ Cardinality(Finished) \in Nat
    BY FinishedFinite
  <2> QED BY <1>4, <2>1, <2>2, FS_AddElement
<1>7. CASE AllDone(numDone + 1)
  <2>1. cpu' = st /\ pcb' = pcb /\ kpc' = "exited" /\ numDone + 1 = N
    BY <1>7 DEF Finish, AllDone
  <2>2. Finished \cup {c} = Procs
    <3>1. Finished \cup {c} \in SUBSET Procs
      BY <1>2 DEF Finished
    <3>2. IsFiniteSet(Procs) /\ Cardinality(Procs) = N
      BY FinishedFinite
    <3> QED BY <1>6, <2>1, <3>1, <3>2, FS_Subset
  <2>3. readyQ = <<>> /\ readyQ' = readyQ
    <3>1. Range(readyQ) = {}
      BY <1>4, <2>2 DEF Partition
    <3>2. readyQ # <<>> => Pop(readyQ) \in Range(readyQ)
      BY <1>1, RestRange DEF Placed
    <3> QED BY <1>2, <3>1, <3>2 DEF Rest
  <2>4. Finished' = Finished /\ OnCpu' = OnCpu /\ Waiting' = Waiting
    BY <1>2, <1>5, <2>1 DEF Finished, OnCpu, Waiting
  <2>5. Placed'
    BY <1>1, <1>2, <2>3, <2>4 DEF Placed
  <2>6. Counted'
    BY <1>2, <2>1 DEF Counted
  <2>7. Promise!Dispatch
    BY <2>1, <2>3 DEF Promise!Dispatch, NoProc
  <2>8. Promise!FinishCurrent
    BY <1>2, <1>3, <2>1, <2>4, <2>7 DEF Promise!FinishCurrent, NoProc
  <2> QED BY <2>5, <2>6, <2>8
<1>8. CASE ~AllDone(numDone + 1)
  <2>1. switch_context(c, st, pcb, Pop(readyQ)) /\ kpc' # "exited" /\ kpc # "exited"
    BY <1>2, <1>8 DEF Finish, AfterSyscall
  <2>2. cpu'.pid = Pop(readyQ) /\ Finished' = Finished \cup {c}
    BY <1>1, <1>2, <1>3, <1>5, <2>1, SwitchOutcome
  <2>3. /\ IsInjective(readyQ')
        /\ OnCpu' \cup Range(readyQ') = Range(readyQ)
        /\ OnCpu' \cap Range(readyQ') = {}
        /\ Promise!Dispatch
    BY <1>2, <2>1, <2>2, DispatchPlaces
  <2>4. Placed'
    BY <1>1, <1>2, <1>4, <2>2, <2>3 DEF Placed, Partition
  <2>5. Counted'
    BY <1>2, <1>6, <2>1, <2>2 DEF Counted
  <2>6. Waiting' = Waiting
    BY <1>2 DEF Waiting
  <2>7. Promise!FinishCurrent
    BY <1>2, <1>3, <2>1, <2>2, <2>3, <2>6 DEF Promise!FinishCurrent, NoProc
  <2> QED BY <2>4, <2>5, <2>7
<1> QED BY <1>7, <1>8

------------------------------------------------------------------------------
(***************************************************************************)
(* The interrupts.                                                         *)
(***************************************************************************)
\* The time slice: the head of the ready queue and the CPU change places.
LEMMA PlaceTimeslice ==
  ASSUME PlaceInv, handle_irq0_timeslice, numDone' = numDone,
         kpc # "exited", kpc' # "exited"
  PROVE  /\ Placed' /\ Counted'
         /\ Promise!Rotate \/ UNCHANGED Promise!schedulerVars
<1>1. /\ cpu \in State /\ pcb \in [Procs -> State] /\ readyQ \in Seq(Procs)
      /\ Placed /\ UNCHANGED <<D1Q, D2Q>>
  BY DEF PlaceInv, ContextInv, TypeInv, TypeOK, handle_irq0_timeslice
<1>2. CASE cpu.pid = NoProc \/ readyQ = <<>>
  <2>1. UNCHANGED <<cpu, pcb, readyQ>>
    BY <1>2 DEF handle_irq0_timeslice
  <2>2. Finished' = Finished /\ OnCpu' = OnCpu /\ Waiting' = Waiting
    BY <1>1, <2>1 DEF Finished, OnCpu, Waiting
  <2>3. Placed'
    BY <1>1, <2>1, <2>2 DEF Placed
  <2>4. UNCHANGED Promise!schedulerVars
    BY <2>1, <2>2 DEF Promise!schedulerVars
  <2> QED BY <2>2, <2>3, <2>4, CountKept
<1>3. CASE ~(cpu.pid = NoProc \/ readyQ = <<>>)
  <2> DEFINE st == [cpu EXCEPT !.current = "READY"]
  <2>1. st \in State /\ st.pid = cpu.pid /\ st.current # "DONE"
    BY <1>1 DEF State
  <2>2. /\ switch_context(cpu.pid, st, pcb, Pop(readyQ))
        /\ readyQ' = Append(Rest(readyQ), cpu.pid)
    BY <1>3 DEF handle_irq0_timeslice
  <2>3. /\ Pop(readyQ) \in Procs /\ Rest(readyQ) \in Seq(Procs)
        /\ cpu.pid \in Procs /\ OnCpu = {cpu.pid}
    BY <1>1, <1>3, PopType DEF State, OnCpu
  <2>4. cpu'.pid = Pop(readyQ) /\ Finished' = Finished
    <3>1. cpu'.pid = Pop(readyQ) /\ Finished' = Finished \ OnCpu
      BY <1>1, <2>1, <2>2, <2>3, SwitchOutcome
    <3> QED BY <1>1, <3>1 DEF Placed, Partition
  <2>5. /\ IsInjective(Rest(readyQ)) /\ Pop(readyQ) \in Range(readyQ)
        /\ Range(Rest(readyQ)) = Range(readyQ) \ {Pop(readyQ)}
    BY <1>1, <1>3, RestRange DEF Placed
  <2>6. cpu.pid \notin Range(readyQ)
    BY <1>1, <2>3 DEF Placed, Partition
  <2>7. /\ IsInjective(readyQ')
        /\ Range(readyQ') = (Range(readyQ) \ {Pop(readyQ)}) \cup {cpu.pid}
    BY <2>2, <2>3, <2>5, <2>6, AppendRange
  <2>8. OnCpu' = {Pop(readyQ)}
    BY <2>3, <2>4 DEF OnCpu, Procs, NoProc
  <2>9. Placed'
    BY <1>1, <2>3, <2>4, <2>5, <2>6, <2>7, <2>8 DEF Placed, Partition
  <2>10. Promise!Rotate
    <3>1. Pop(readyQ) = Head(readyQ) /\ Rest(readyQ) = Tail(readyQ) /\ Waiting' = Waiting
      BY <1>1, <1>3 DEF Pop, Rest, Waiting
    <3> QED BY <1>3, <2>2, <2>4, <3>1 DEF Promise!Rotate, NoProc
  <2> QED BY <2>4, <2>9, <2>10, CountKept
<1> QED BY <1>2, <1>3

\* A device interrupt takes the first process out of the queue of the device and
\* gives it the CPU; the process that had the CPU is the last ready one.
LEMMA DeviceOutcome ==
  ASSUME PlaceInv, NEW ioQ \in Seq(Procs), IsInjective(ioQ), Range(ioQ) \cap OnCpu = {},
         ioQ # <<>>,
         switch_context(cpu.pid,
           IF cpu.pid = NoProc THEN cpu ELSE [cpu EXCEPT !.current = "READY"],
           [pcb EXCEPT ![Pop(ioQ)] = Released(@)], Pop(ioQ)),
         readyQ' = PreemptInto(readyQ)
  PROVE  /\ cpu'.pid \in Range(ioQ) /\ OnCpu' = {cpu'.pid}
         /\ IsInjective(Rest(ioQ)) /\ Range(Rest(ioQ)) = Range(ioQ) \ {cpu'.pid}
         /\ IsInjective(readyQ') /\ Range(readyQ') = Range(readyQ) \cup OnCpu
         /\ readyQ' = IF cpu.pid = NoProc THEN readyQ ELSE Append(readyQ, cpu.pid)
         /\ Finished' = Finished
<1> DEFINE io == Pop(ioQ)
           preempted == IF cpu.pid = NoProc THEN cpu ELSE [cpu EXCEPT !.current = "READY"]
           states == [pcb EXCEPT ![io] = Released(@)]
<1>1. /\ TypeOK /\ cpu \in State /\ cpu.pid \in Procs \cup {NoProc}
      /\ readyQ \in Seq(Procs) /\ Placed
      /\ OnCpu \cap Finished = {} /\ OnCpu \cap Range(readyQ) = {}
  BY DEF PlaceInv, ContextInv, TypeInv, TypeOK, State, Placed, Partition
<1>2. /\ preempted \in State /\ preempted.pid = cpu.pid /\ io \in Procs
      /\ states \in [Procs -> State]
      /\ \A p \in Procs : /\ states[p].pid = pcb[p].pid
                          /\ states[p].current = pcb[p].current
  BY <1>1, DeviceIrqType
<1>3. OnCpu # {} => preempted.current # "DONE"
  BY <1>1 DEF OnCpu, State
<1>4. switch_context(cpu.pid, preempted, states, io)
  OBVIOUS
<1>5. cpu'.pid = io /\ Finished' = Finished
  <2> HIDE DEF preempted, states, io
  <2>1. /\ cpu'.pid = io
        /\ Finished' = IF preempted.current = "DONE" THEN Finished \cup OnCpu
                                                     ELSE Finished \ OnCpu
    BY <1>2, <1>4, SwitchOutcome
  <2> QED BY <1>1, <1>3, <2>1
<1>6. /\ IsInjective(Rest(ioQ)) /\ Range(Rest(ioQ)) = Range(ioQ) \ {io}
      /\ io \in Range(ioQ)
  BY RestRange
<1>7. readyQ' = IF cpu.pid = NoProc THEN readyQ ELSE Append(readyQ, cpu.pid)
  BY DEF PreemptInto
<1>8. IsInjective(readyQ') /\ Range(readyQ') = Range(readyQ) \cup OnCpu
  <2>1. CASE cpu.pid = NoProc
    BY <1>1, <1>7, <2>1 DEF OnCpu, Placed
  <2>2. CASE cpu.pid # NoProc
    <3>1. OnCpu = {cpu.pid} /\ cpu.pid \in Procs /\ cpu.pid \notin Range(readyQ)
      BY <1>1, <2>2 DEF OnCpu
    <3> QED BY <1>1, <1>7, <2>2, <3>1, AppendRange DEF Placed
  <2> QED BY <2>1, <2>2
<1>9. OnCpu' = {cpu'.pid}
  BY <1>2, <1>5 DEF OnCpu, Procs, NoProc
<1> QED BY <1>5, <1>6, <1>7, <1>8, <1>9

LEMMA PlaceDevice ==
  ASSUME PlaceInv, numDone' = numDone, kpc # "exited", kpc' # "exited",
         \/ DeviceIrq(D1Q) /\ UNCHANGED D2Q
         \/ DeviceIrq(D2Q) /\ UNCHANGED D1Q
  PROVE  /\ Placed' /\ Counted'
         /\ (\E p \in Waiting : Promise!Unblock(p)) \/ UNCHANGED Promise!schedulerVars
<1> DEFINE x == cpu'.pid
<1>1. /\ readyQ \in Seq(Procs) /\ D1Q \in Seq(Procs) /\ D2Q \in Seq(Procs)
      /\ IsInjective(readyQ) /\ IsInjective(D1Q) /\ IsInjective(D2Q)
      /\ Placed
      /\ Partition(OnCpu, Range(readyQ), Range(D1Q), Range(D2Q), Finished)
  BY DEF PlaceInv, ContextInv, TypeInv, TypeOK, Placed
<1>2. /\ Range(D1Q) \cap OnCpu = {} /\ Range(D2Q) \cap OnCpu = {}
      /\ Range(D1Q) \cap Range(D2Q) = {}
  BY <1>1 DEF Partition
<1>3. CASE UNCHANGED <<cpu, pcb, readyQ, D1Q, D2Q>>
  <2>1. Finished' = Finished /\ OnCpu' = OnCpu /\ Waiting' = Waiting
    BY <1>3 DEF Finished, OnCpu, Waiting
  <2>2. Placed'
    BY <1>1, <1>3, <2>1 DEF Placed
  <2>3. UNCHANGED Promise!schedulerVars
    BY <1>3, <2>1 DEF Promise!schedulerVars
  <2> QED BY <2>1, <2>2, <2>3, CountKept
<1>4. CASE ~ UNCHANGED <<cpu, pcb, readyQ, D1Q, D2Q>>
  <2>1. /\ OnCpu' = {x} /\ IsInjective(D1Q') /\ IsInjective(D2Q')
        /\ \/ /\ x \in Range(D1Q)
              /\ Range(D1Q') = Range(D1Q) \ {x} /\ Range(D2Q') = Range(D2Q)
           \/ /\ x \in Range(D2Q)
              /\ Range(D2Q') = Range(D2Q) \ {x} /\ Range(D1Q') = Range(D1Q)
        /\ IsInjective(readyQ') /\ Range(readyQ') = Range(readyQ) \cup OnCpu
        /\ readyQ' = IF cpu.pid = NoProc THEN readyQ ELSE Append(readyQ, cpu.pid)
        /\ Finished' = Finished
    <3>1. CASE DeviceIrq(D1Q) /\ UNCHANGED D2Q
      <4>1. /\ D1Q # <<>> /\ D1Q' = Rest(D1Q) /\ readyQ' = PreemptInto(readyQ)
            /\ switch_context(cpu.pid,
                 IF cpu.pid = NoProc THEN cpu ELSE [cpu EXCEPT !.current = "READY"],
                 [pcb EXCEPT ![Pop(D1Q)] = Released(@)], Pop(D1Q))
        BY <1>4, <3>1 DEF DeviceIrq
      <4> QED BY <1>1, <1>2, <3>1, <4>1, DeviceOutcome
    <3>2. CASE DeviceIrq(D2Q) /\ UNCHANGED D1Q
      <4>1. /\ D2Q # <<>> /\ D2Q' = Rest(D2Q) /\ readyQ' = PreemptInto(readyQ)
            /\ switch_context(cpu.pid,
                 IF cpu.pid = NoProc THEN cpu ELSE [cpu EXCEPT !.current = "READY"],
                 [pcb EXCEPT ![Pop(D2Q)] = Released(@)], Pop(D2Q))
        BY <1>4, <3>2 DEF DeviceIrq
      <4> QED BY <1>1, <1>2, <3>2, <4>1, DeviceOutcome
    <3> QED BY <3>1, <3>2
  <2>2. Placed'
    <3> DEFINE c == OnCpu
               r == Range(readyQ)
               a == Range(D1Q)
               b == Range(D2Q)
               f == Finished
    <3>1. /\ Partition(c, r, a, b, f)
          /\ OnCpu' = {x} /\ Range(readyQ') = r \cup c /\ Finished' = f
          /\ \/ x \in a /\ Range(D1Q') = a \ {x} /\ Range(D2Q') = b
             \/ x \in b /\ Range(D2Q') = b \ {x} /\ Range(D1Q') = a
      BY <1>1, <2>1
    <3> HIDE DEF c, r, a, b, f, x
    <3>2. CASE x \in a /\ Range(D1Q') = a \ {x} /\ Range(D2Q') = b
      BY <2>1, <3>1, <3>2 DEF Placed, Partition
    <3>3. CASE x \in b /\ Range(D2Q') = b \ {x} /\ Range(D1Q') = a
      BY <2>1, <3>1, <3>3 DEF Placed, Partition
    <3> QED BY <3>1, <3>2, <3>3
  <2>3. x \in Waiting /\ Waiting' = Waiting \ {x}
    BY <1>2, <2>1 DEF Waiting
  <2>4. Promise!Unblock(x)
    BY <2>1, <2>3 DEF Promise!Unblock, NoProc
  <2> QED BY <2>1, <2>2, <2>3, <2>4, CountKept
<1> QED BY <1>3, <1>4

LEMMA PlaceIrq ==
  ASSUME PlaceInv, handle_irq
  PROVE  Placed' /\ Counted' /\ (Promise!SchedulerNext \/ UNCHANGED Promise!schedulerVars)
<1>1. numDone' = numDone /\ kpc # "exited" /\ kpc' # "exited"
  BY DEF handle_irq
<1>2. CASE handle_irq0_timeslice
  BY <1>1, <1>2, PlaceTimeslice DEF Promise!SchedulerNext
<1>3. CASE handle_irq1_device \/ handle_irq2_device
  <2>1. \/ DeviceIrq(D1Q) /\ UNCHANGED D2Q
        \/ DeviceIrq(D2Q) /\ UNCHANGED D1Q
    BY <1>3 DEF handle_irq1_device, handle_irq2_device
  <2> QED BY <1>1, <2>1, PlaceDevice DEF Promise!SchedulerNext
<1> QED BY <1>2, <1>3 DEF handle_irq

------------------------------------------------------------------------------
(***************************************************************************)
(* Everything else moves no process, and is a stutter of Scheduler.        *)
(***************************************************************************)
LEMMA PlaceOther ==
  ASSUME PlaceInv,
         \/ CheckPaused \/ Pselect \/ PselectTimeout \/ StopCurrent \/ ResumeCurrent
         \/ ImpossibleSyscall \/ SignalStep \/ interControllerSim
         \/ (\E p \in Procs : A(p))
         \/ UNCHANGED vars
  PROVE  Placed' /\ Counted' /\ UNCHANGED Promise!schedulerVars
<1> USE DEF queues, fifos, apps, Ended
<1>1. cpu \in State /\ Placed
  BY DEF PlaceInv, ContextInv, TypeInv, TypeOK
<1> DEFINE Still == /\ cpu'.pid = cpu.pid
                    /\ UNCHANGED <<pcb, readyQ, D1Q, D2Q, numDone>>
                    /\ kpc' = "exited" <=> kpc = "exited"
<1>2. SUFFICES Still
  <2>1. OnCpu' = OnCpu /\ Waiting' = Waiting /\ Finished' = Finished
    BY <1>2 DEF OnCpu, Waiting, Finished
  <2>2. Placed'
    BY <1>1, <1>2, <2>1 DEF Placed
  <2>3. UNCHANGED Promise!schedulerVars
    BY <1>2, <2>1 DEF Promise!schedulerVars
  <2> QED BY <1>2, <2>1, <2>2, <2>3, CountKept
<1>3. CASE CheckPaused \/ Pselect \/ PselectTimeout
  BY <1>3 DEF CheckPaused, Pselect, PselectTimeout
<1>4. CASE StopCurrent \/ ImpossibleSyscall
  BY <1>4 DEF StopCurrent, ImpossibleSyscall, AfterStop, AfterSyscall
<1>5. CASE ResumeCurrent
  BY <1>1, <1>5 DEF ResumeCurrent, State
<1>6. ASSUME NEW tty \in BOOLEAN, manual_pause(tty) \/ manual_unpause(tty) PROVE Still
  BY <1>6 DEF manual_pause, manual_unpause, AfterSignal
<1>7. CASE interControllerSim
  BY <1>7 DEF interControllerSim, TimeSlice, SendDrawn, RaiseIrq, kernelVars
<1>8. ASSUME NEW p \in Procs, A(p) PROVE Still
  <2>1. UNCHANGED kernelVars
    BY <1>8 DEF A, Begin, maybe_syscall, ReadPC, IncrementPC, ExitSyscall, Return
  <2>2. cpu'.pid = cpu.pid
    BY <1>1, <1>8
    DEF A, Begin, maybe_syscall, ReadPC, IncrementPC, ExitSyscall, Return, WriteSyscall, State
  <2> QED BY <2>1, <2>2 DEF kernelVars
<1>9. CASE UNCHANGED vars
  BY <1>9 DEF vars
<1> QED BY <1>3, <1>4, <1>5, <1>6, <1>7, <1>8, <1>9 DEF SignalStep

LEMMA PlaceStep ==
  ASSUME PlaceInv, [Next]_vars
  PROVE  PlaceInv' /\ [Promise!SchedulerNext]_(Promise!schedulerVars)
<1>1. ContextInv'
  BY ContextStep DEF PlaceInv
<1>2. CASE handle_syscall
  <2>1. CASE Head(syscallFifo).Dx \in Devices /\ Block(Head(syscallFifo).Dx)
    BY <1>1, <1>2, <2>1, PlaceBlock DEF PlaceInv, Promise!SchedulerNext
  <2>2. CASE Finish
    BY <1>1, <1>2, <2>2, PlaceFinish DEF PlaceInv, Promise!SchedulerNext
  <2> QED BY <1>2, <2>1, <2>2 DEF handle_syscall
<1>3. CASE handle_irq
  BY <1>1, <1>3, PlaceIrq DEF PlaceInv
<1>4. CASE ~handle_syscall /\ ~handle_irq
  <2>1. Placed' /\ Counted' /\ UNCHANGED Promise!schedulerVars
    BY <1>4, PlaceOther DEF Next, KernelStep
  <2> QED BY <1>1, <2>1 DEF PlaceInv
<1> QED BY <1>2, <1>3, <1>4

\* Every behaviour of the first simulator is, seen from its scheduler, one that
\* Scheduler allows (ImplementsScheduler): first come first served, nobody lost,
\* nobody in two places, whatever syscall is charged to whom.
THEOREM Trab1ImplementsScheduler == Spec => ImplementsScheduler
<1>1. Init => PlaceInv /\ Promise!SchedulerInit
  BY PlaceInit
<1>2. PlaceInv /\ [Next]_vars => PlaceInv' /\ [Promise!SchedulerNext]_(Promise!schedulerVars)
  BY PlaceStep
<1> QED
  BY <1>1, <1>2, PTL DEF Spec, ImplementsScheduler, Promise!SchedulerSpec

------------------------------------------------------------------------------
(***************************************************************************)
(* What the kernel of trab1 records of the processes, for every value of   *)
(* the constants: SyscallValidIfWaiting and HappyEndIsReal in every        *)
(* regime, and RecordIsReal when the kernel is faster than the sleeps.     *)
(***************************************************************************)

(***************************************************************************)
(* The recorded syscall.  SyscallValidIfWaiting says nothing of the        *)
(* process on the CPU, whose record is saved when it leaves: that it is    *)
(* then right needs cpu.Dx to be empty until the caller blocks, and that   *)
(* cpu.Dx is empty when a process is loaded needs the ready ones to be in  *)
(* no device queue, which is the partition of the places (Placed).         *)
(***************************************************************************)
\* Record st of process p agrees with the device queues a and b.
Valid(p, st, a, b) ==
  /\ st.current = "WAITING_FOR_IO" <=> st.Dx # "NO_DEVICE"
  /\ p \in a <=> st.Dx = "D1"
  /\ p \in b <=> st.Dx = "D2"

Recorded ==
  /\ cpu.Dx = "NO_DEVICE"
  /\ \A p \in Procs \ OnCpu : Valid(p, pcb[p], Range(D1Q), Range(D2Q))

RecordInv == PlaceInv /\ Recorded

\* A switch of the CPU to dest keeps the records if what it saves, and what the
\* table holds, agree with the device queues after the step, a and b.
LEMMA SwitchRecords ==
  ASSUME PlaceInv, NEW st \in State, st.pid = cpu.pid,
         NEW states \in [Procs -> State],
         \A p \in Procs : /\ states[p].pid = pcb[p].pid
                          /\ states[p].current = pcb[p].current,
         NEW dest \in Procs \cup {NoProc}, dest \notin OnCpu,
         switch_context(cpu.pid, st, states, dest),
         NEW a, NEW b,
         \A p \in Procs \ OnCpu : p # dest => Valid(p, states[p], a, b),
         \A p \in OnCpu : Valid(p, st, a, b),
         dest # NoProc => states[dest].Dx = "NO_DEVICE"
  PROVE  /\ cpu'.Dx = "NO_DEVICE"
         /\ \A p \in Procs \ OnCpu' : Valid(p, pcb'[p], a, b)
<1>1. cpu.pid \in Procs \cup {NoProc}
  BY DEF PlaceInv, ContextInv, TypeInv, TypeOK, State
<1>2. \A p \in Procs : pcb'[p] = IF p \in OnCpu THEN st ELSE states[p]
  <2>1. pcb' = IF cpu.pid # NoProc THEN [states EXCEPT ![cpu.pid] = st] ELSE states
    BY DEF switch_context
  <2> QED BY <1>1, <2>1 DEF OnCpu, Procs, NoProc
<1>3. cpu'.pid = dest
  BY SwitchOutcome
<1>4. \A p \in Procs \ OnCpu' : p # dest
  BY <1>3 DEF OnCpu, Procs, NoProc
<1>5. cpu'.Dx = "NO_DEVICE"
  <2>1. CASE dest = NoProc
    BY <2>1 DEF switch_context, IdleCpu
  <2>2. CASE dest # NoProc
    BY <1>2, <2>2 DEF switch_context
  <2> QED BY <2>1, <2>2
<1> QED BY <1>2, <1>4, <1>5

\* Who waits for a device is neither on the CPU nor ready, and waits for one.
LEMMA RecordFacts ==
  ASSUME RecordInv
  PROVE  /\ PlaceInv /\ cpu \in State /\ pcb \in [Procs -> State] /\ Placed
         /\ readyQ \in Seq(Procs) /\ D1Q \in Seq(Procs) /\ D2Q \in Seq(Procs)
         /\ Pop(readyQ) \in Procs \cup {NoProc} /\ Pop(readyQ) \notin OnCpu
         /\ Pop(readyQ) # NoProc => pcb[Pop(readyQ)].Dx = "NO_DEVICE"
         /\ \A p \in OnCpu : p \in Procs /\ p \notin Range(D1Q) /\ p \notin Range(D2Q)
<1>1. /\ PlaceInv /\ cpu \in State /\ pcb \in [Procs -> State] /\ Placed
      /\ readyQ \in Seq(Procs) /\ D1Q \in Seq(Procs) /\ D2Q \in Seq(Procs)
  BY DEF RecordInv, PlaceInv, ContextInv, TypeInv, TypeOK
<1>2. \A p \in OnCpu : p \in Procs /\ p \notin Range(D1Q) /\ p \notin Range(D2Q)
  BY <1>1 DEF Placed, Partition
<1>3. Pop(readyQ) \in Procs \cup {NoProc}
  BY <1>1, PopType
<1>4. Pop(readyQ) # NoProc => Pop(readyQ) \in Range(readyQ)
  BY <1>1, RestRange DEF Placed
<1>5. Pop(readyQ) \notin OnCpu
  BY <1>1, <1>4 DEF Placed, Partition, OnCpu
<1>6. ASSUME Pop(readyQ) # NoProc PROVE pcb[Pop(readyQ)].Dx = "NO_DEVICE"
  <2> DEFINE p == Pop(readyQ)
  <2>1. p \in Procs \ OnCpu /\ p \notin Range(D1Q) /\ p \notin Range(D2Q)
    BY <1>1, <1>3, <1>4, <1>5, <1>6 DEF Placed, Partition
  <2>2. Valid(p, pcb[p], Range(D1Q), Range(D2Q)) /\ pcb[p] \in State
    BY <1>1, <2>1 DEF RecordInv, Recorded
  <2> QED BY <2>1, <2>2 DEF Valid, State, Devices
<1> QED BY <1>1, <1>2, <1>3, <1>5, <1>6

LEMMA RecordSyscall ==
  ASSUME RecordInv, handle_syscall
  PROVE  Recorded'
<1> DEFINE c == cpu.pid
           o == Head(syscallFifo).Dx
<1>1. c \in Procs /\ OnCpu = {c} /\ c # NoProc
  BY RecordFacts DEF handle_syscall, State, OnCpu
<1>2. CASE o \in Devices /\ Block(o)
  <2> DEFINE st == [cpu EXCEPT !.Dx = o, !.current = "WAITING_FOR_IO"]
  <2>1. st \in State /\ st.pid = c /\ st.Dx = o /\ st.current = "WAITING_FOR_IO"
    BY <1>2, RecordFacts DEF State
  <2>2. switch_context(c, st, pcb, Pop(readyQ))
    BY <1>2 DEF Block
  <2>3. \/ o = "D1" /\ Range(D1Q') = Range(D1Q) \cup {c} /\ Range(D2Q') = Range(D2Q)
        \/ o = "D2" /\ Range(D1Q') = Range(D1Q) /\ Range(D2Q') = Range(D2Q) \cup {c}
    <3>1. \/ o = "D1" /\ D1Q' = Append(D1Q, c) /\ D2Q' = D2Q
          \/ o = "D2" /\ D1Q' = D1Q /\ D2Q' = Append(D2Q, c)
      BY <1>2 DEF Block, Devices
    <3>2. /\ Range(Append(D1Q, c)) = Range(D1Q) \cup {c}
          /\ Range(Append(D2Q, c)) = Range(D2Q) \cup {c}
      BY <1>1, RecordFacts, AppendRange
    <3> QED BY <3>1, <3>2
  <2>4. \A p \in OnCpu : Valid(p, st, Range(D1Q'), Range(D2Q'))
    BY <1>1, <2>1, <2>3, RecordFacts DEF Valid
  <2>5. \A p \in Procs \ OnCpu : Valid(p, pcb[p], Range(D1Q'), Range(D2Q'))
    BY <1>1, <2>3 DEF RecordInv, Recorded, Valid
  <2> HIDE DEF st
  <2>6. /\ cpu'.Dx = "NO_DEVICE"
        /\ \A p \in Procs \ OnCpu' : Valid(p, pcb'[p], Range(D1Q'), Range(D2Q'))
    BY <2>1, <2>2, <2>4, <2>5, RecordFacts, SwitchRecords
  <2> QED BY <2>6 DEF Recorded
<1>3. CASE Finish
  <2> DEFINE st == [cpu EXCEPT !.Dx = "NO_DEVICE", !.current = "DONE"]
  <2>1. /\ st \in State /\ st.pid = c /\ st.Dx = "NO_DEVICE" /\ st.current = "DONE"
        /\ UNCHANGED <<D1Q, D2Q>>
    BY <1>3, RecordFacts DEF Finish, State
  <2>2. CASE AllDone(numDone + 1)
    <3>1. cpu' = st /\ pcb' = pcb
      BY <1>3, <2>2 DEF Finish
    <3>2. OnCpu' = OnCpu
      BY <2>1, <3>1 DEF OnCpu
    <3> QED BY <2>1, <3>1, <3>2 DEF RecordInv, Recorded
  <2>3. CASE ~AllDone(numDone + 1)
    <3>1. switch_context(c, st, pcb, Pop(readyQ))
      BY <1>3, <2>3 DEF Finish
    <3>2. \A p \in OnCpu : Valid(p, st, Range(D1Q), Range(D2Q))
      BY <2>1, RecordFacts DEF Valid
    <3>3. \A p \in Procs \ OnCpu : Valid(p, pcb[p], Range(D1Q), Range(D2Q))
      BY DEF RecordInv, Recorded
    <3> HIDE DEF st
    <3>4. /\ cpu'.Dx = "NO_DEVICE"
          /\ \A p \in Procs \ OnCpu' : Valid(p, pcb'[p], Range(D1Q), Range(D2Q))
      BY <2>1, <3>1, <3>2, <3>3, RecordFacts, SwitchRecords
    <3> QED BY <2>1, <3>4 DEF Recorded
  <2> QED BY <2>2, <2>3
<1> QED BY <1>2, <1>3 DEF handle_syscall

LEMMA RecordTimeslice ==
  ASSUME RecordInv, handle_irq0_timeslice
  PROVE  Recorded'
<1>1. UNCHANGED <<D1Q, D2Q>>
  BY DEF handle_irq0_timeslice
<1>2. CASE cpu.pid = NoProc \/ readyQ = <<>>
  BY <1>1, <1>2 DEF handle_irq0_timeslice, RecordInv, Recorded, OnCpu
<1>3. CASE ~(cpu.pid = NoProc \/ readyQ = <<>>)
  <2> DEFINE st == [cpu EXCEPT !.current = "READY"]
  <2>1. /\ st \in State /\ st.pid = cpu.pid /\ st.Dx = "NO_DEVICE" /\ st.current = "READY"
    BY RecordFacts DEF RecordInv, Recorded, State
  <2>2. switch_context(cpu.pid, st, pcb, Pop(readyQ))
    BY <1>3 DEF handle_irq0_timeslice
  <2>3. \A p \in OnCpu : Valid(p, st, Range(D1Q), Range(D2Q))
    BY <2>1, RecordFacts DEF Valid
  <2>4. \A p \in Procs \ OnCpu : Valid(p, pcb[p], Range(D1Q), Range(D2Q))
    BY DEF RecordInv, Recorded
  <2> HIDE DEF st
  <2>5. /\ cpu'.Dx = "NO_DEVICE"
        /\ \A p \in Procs \ OnCpu' : Valid(p, pcb'[p], Range(D1Q), Range(D2Q))
    BY <2>1, <2>2, <2>3, <2>4, RecordFacts, SwitchRecords
  <2> QED BY <1>1, <2>5 DEF Recorded
<1> QED BY <1>2, <1>3

\* The interrupt of a device that has somebody waiting: a and b are the device
\* queues after it, as sets.
LEMMA RecordDevice ==
  ASSUME RecordInv, NEW io \in Waiting,
         switch_context(cpu.pid,
           IF cpu.pid = NoProc THEN cpu ELSE [cpu EXCEPT !.current = "READY"],
           [pcb EXCEPT ![io] = Released(@)], io),
         Range(D1Q') = Range(D1Q) \ {io}, Range(D2Q') = Range(D2Q) \ {io}
  PROVE  Recorded'
<1> DEFINE st == IF cpu.pid = NoProc THEN cpu ELSE [cpu EXCEPT !.current = "READY"]
           states == [pcb EXCEPT ![io] = Released(@)]
<1>1. io \in Procs /\ io \notin OnCpu
  BY RecordFacts DEF Placed, Partition, Waiting
<1>2. /\ st \in State /\ st.pid = cpu.pid /\ st.Dx = "NO_DEVICE"
      /\ OnCpu # {} => st.current = "READY"
  BY RecordFacts DEF RecordInv, Recorded, State, OnCpu
<1>3. /\ states \in [Procs -> State] /\ states[io].Dx = "NO_DEVICE"
      /\ \A p \in Procs : states[p].pid = pcb[p].pid /\ states[p].current = pcb[p].current
      /\ \A p \in Procs \ {io} : states[p] = pcb[p]
  <2>1. /\ Released(pcb[io]) \in State /\ Released(pcb[io]).Dx = "NO_DEVICE"
        /\ Released(pcb[io]).pid = pcb[io].pid
        /\ Released(pcb[io]).current = pcb[io].current
    <3>1. pcb[io] \in State
      BY <1>1, RecordFacts
    <3> QED BY <3>1 DEF Released, State
  <2> QED BY <1>1, <2>1, RecordFacts
<1>4. \A p \in OnCpu : Valid(p, st, Range(D1Q'), Range(D2Q'))
  BY <1>2, RecordFacts DEF Valid
<1>5. \A p \in Procs \ OnCpu : p # io => Valid(p, states[p], Range(D1Q'), Range(D2Q'))
  BY <1>3 DEF RecordInv, Recorded, Valid
<1>6. switch_context(cpu.pid, st, states, io)
  OBVIOUS
<1> HIDE DEF st, states
<1>7. /\ cpu'.Dx = "NO_DEVICE"
      /\ \A p \in Procs \ OnCpu' : Valid(p, pcb'[p], Range(D1Q'), Range(D2Q'))
  BY <1>1, <1>2, <1>3, <1>4, <1>5, <1>6, RecordFacts, SwitchRecords
<1> QED BY <1>7 DEF Recorded

LEMMA RecordIrq ==
  ASSUME RecordInv, handle_irq
  PROVE  Recorded'
<1>1. /\ Range(D1Q) \cap Range(D2Q) = {} /\ IsInjective(D1Q) /\ IsInjective(D2Q)
      /\ D1Q \in Seq(Procs) /\ D2Q \in Seq(Procs)
  BY RecordFacts DEF Placed, Partition
<1>2. CASE handle_irq0_timeslice
  BY <1>2, RecordTimeslice
<1>3. CASE UNCHANGED <<cpu, pcb, D1Q, D2Q>>
  BY <1>3 DEF RecordInv, Recorded, OnCpu
<1>4. CASE handle_irq1_device /\ D1Q # <<>>
  <2>1. /\ D1Q' = Rest(D1Q) /\ D2Q' = D2Q
        /\ switch_context(cpu.pid,
             IF cpu.pid = NoProc THEN cpu ELSE [cpu EXCEPT !.current = "READY"],
             [pcb EXCEPT ![Pop(D1Q)] = Released(@)], Pop(D1Q))
    BY <1>4 DEF handle_irq1_device, DeviceIrq
  <2>2. /\ Pop(D1Q) \in Range(D1Q) /\ Pop(D1Q) \notin Range(D2Q)
        /\ Range(D1Q') = Range(D1Q) \ {Pop(D1Q)}
    BY <1>1, <1>4, <2>1, RestRange
  <2>3. Pop(D1Q) \in Waiting /\ Range(D2Q') = Range(D2Q) \ {Pop(D1Q)}
    BY <2>1, <2>2 DEF Waiting
  <2> QED BY <2>1, <2>2, <2>3, RecordDevice
<1>5. CASE handle_irq2_device /\ D2Q # <<>>
  <2>1. /\ D2Q' = Rest(D2Q) /\ D1Q' = D1Q
        /\ switch_context(cpu.pid,
             IF cpu.pid = NoProc THEN cpu ELSE [cpu EXCEPT !.current = "READY"],
             [pcb EXCEPT ![Pop(D2Q)] = Released(@)], Pop(D2Q))
    BY <1>5 DEF handle_irq2_device, DeviceIrq
  <2>2. /\ Pop(D2Q) \in Range(D2Q) /\ Pop(D2Q) \notin Range(D1Q)
        /\ Range(D2Q') = Range(D2Q) \ {Pop(D2Q)}
    BY <1>1, <1>5, <2>1, RestRange
  <2>3. Pop(D2Q) \in Waiting /\ Range(D1Q') = Range(D1Q) \ {Pop(D2Q)}
    BY <2>1, <2>2 DEF Waiting
  <2> QED BY <2>1, <2>2, <2>3, RecordDevice
<1> QED
  BY <1>2, <1>3, <1>4, <1>5 DEF handle_irq, handle_irq1_device, handle_irq2_device, DeviceIrq

\* Every other step leaves the records, the device queues and cpu.Dx alone.
LEMMA RecordOther ==
  ASSUME RecordInv, [Next]_vars, ~handle_syscall, ~handle_irq
  PROVE  Recorded'
<1> USE DEF queues, fifos, apps
<1>1. cpu \in State
  BY RecordFacts
<1> DEFINE Still == UNCHANGED <<pcb, D1Q, D2Q>> /\ cpu'.pid = cpu.pid /\ cpu'.Dx = cpu.Dx
<1>2. SUFFICES Still
  BY <1>2 DEF RecordInv, Recorded, OnCpu
<1>3. CASE CheckPaused \/ Pselect \/ PselectTimeout \/ StopCurrent \/ ImpossibleSyscall
  BY <1>3 DEF CheckPaused, Pselect, PselectTimeout, StopCurrent, ImpossibleSyscall
<1>4. CASE ResumeCurrent
  BY <1>1, <1>4 DEF ResumeCurrent, State
<1>5. CASE SignalStep \/ interControllerSim
  BY <1>5 DEF SignalStep, manual_pause, manual_unpause, interControllerSim, TimeSlice,
              SendDrawn, RaiseIrq, kernelVars
<1>6. ASSUME NEW p \in Procs, A(p) PROVE Still
  BY <1>1, <1>6 DEF A, Begin, maybe_syscall, ReadPC, IncrementPC, ExitSyscall, Return,
                    WriteSyscall, kernelVars, State
<1>7. CASE UNCHANGED vars
  BY <1>7 DEF vars
<1> QED BY <1>3, <1>4, <1>5, <1>6, <1>7 DEF Next, KernelStep

LEMMA RecordInit == Init => RecordInv
<1> SUFFICES ASSUME Init PROVE RecordInv
  OBVIOUS
<1>1. PlaceInv
  BY PlaceInit
<1>2. D1Q = <<>> /\ D2Q = <<>> /\ pcb = [p \in Procs |-> InitialState(p)]
  BY DEF Init
<1>3. cpu.Dx = "NO_DEVICE"
  BY DEF Init, InitialState
<1>4. Range(D1Q) = {} /\ Range(D2Q) = {}
  BY <1>2 DEF Range
<1>5. \A p \in Procs : Valid(p, pcb[p], Range(D1Q), Range(D2Q))
  <2>1. \A p \in Procs : pcb[p].current = "READY" /\ pcb[p].Dx = "NO_DEVICE"
    BY <1>2 DEF InitialState
  <2> QED BY <1>4, <2>1 DEF Valid
<1> QED BY <1>1, <1>3, <1>5 DEF RecordInv, Recorded

LEMMA RecordStep == RecordInv /\ [Next]_vars => RecordInv'
<1> SUFFICES ASSUME RecordInv, [Next]_vars PROVE RecordInv'
  OBVIOUS
<1>1. PlaceInv'
  BY PlaceStep DEF RecordInv
<1>2. Recorded'
  BY RecordSyscall, RecordIrq, RecordOther
<1> QED BY <1>1, <1>2 DEF RecordInv

\* The recorded syscall of a process that is not on the CPU is valid exactly while
\* it waits, and names the queue it waits in (SyscallValidIfWaiting).
THEOREM RecordedSyscallsAreValid == Spec => []SyscallValidIfWaiting
<1>1. RecordInv => SyscallValidIfWaiting
  BY DEF RecordInv, Recorded, Valid, SyscallValidIfWaiting
<1> QED BY <1>1, RecordInit, RecordStep, PTL DEF Spec

------------------------------------------------------------------------------
(***************************************************************************)
(* The happy end.                                                          *)
(***************************************************************************)
\* The processes that wrote their exit.
Left == {p \in Procs : loc[p] \in {"returning", "gone"}}
ExitMessages == {m \in SyscallArgs : m.Dx = "NO_DEVICE"}

\* Where a process is says whether it has iterations left.
PlaceInLoop(p) ==
  /\ loc[p] \in {"loop", "endOfIteration", "incrementing"} => iter[p] < MAX
  /\ loc[p] \in {"exiting", "returning", "gone"} => iter[p] = MAX

\* Every exit that was written is unread or was counted, whoever it was charged to.
ExitsCounted ==
  /\ numDone + CountIn(syscallFifo, ExitMessages) = Cardinality(Left)
  /\ \A p \in Procs : PlaceInLoop(p)

ExitInv == PlaceInv /\ ExitsCounted

\* What the proofs below use.
LEMMA ExitFacts ==
  ASSUME ExitInv
  PROVE  /\ TypeOK /\ SingleRunner /\ ContextFaithful /\ FreshAtStart
         /\ syscallFifo \in Seq(SyscallArgs) /\ numDone \in 0..N
         /\ CountIn(syscallFifo, ExitMessages) \in Nat
         /\ IsFiniteSet(Left) /\ Left \in SUBSET Procs /\ Cardinality(Left) \in Nat
         /\ IsFiniteSet(Procs) /\ Cardinality(Procs) = N
<1>1. TypeOK /\ SingleRunner /\ ContextFaithful /\ FreshAtStart
  BY DEF ExitInv, PlaceInv, ContextInv, CpuInv, TypeInv
<1>2. syscallFifo \in Seq(SyscallArgs) /\ numDone \in 0..N
  BY <1>1 DEF TypeOK
<1>3. Left \in SUBSET Procs
  BY DEF Left
<1>4. IsFiniteSet(Left) /\ Cardinality(Left) \in Nat
  BY <1>3, FinishedFinite, FS_Subset, FS_CardinalityType
<1> QED BY <1>1, <1>2, <1>3, <1>4, FinishedFinite, CountType

LEMMA ExitInit == Init => ExitInv
<1> SUFFICES ASSUME Init PROVE ExitInv
  OBVIOUS
<1>1. PlaceInv
  BY PlaceInit
<1>2. \A p \in Procs : loc[p] = "start"
  BY DEF Init
<1>3. numDone = 0 /\ syscallFifo = <<>> /\ syscallFifo \in Seq(SyscallArgs)
  BY DEF Init
<1>4. CountIn(syscallFifo, ExitMessages) = 0
  BY <1>3, CountType
<1>5. Left = {}
  BY <1>2 DEF Left
<1>6. ExitsCounted
  BY <1>2, <1>3, <1>4, <1>5, FS_EmptySet DEF ExitsCounted, PlaceInLoop
<1> QED BY <1>1, <1>6 DEF ExitInv

\* The kernel counts an exit when it reads one, and at no other time.
LEMMA ExitsRead ==
  ASSUME ExitInv, KernelStep \/ SignalStep
  PROVE  ExitsCounted'
<1> USE DEF fifos
<1>1. UNCHANGED apps
  BY DEF KernelStep, SignalStep, CheckPaused, Pselect, PselectTimeout, StopCurrent,
         handle_syscall, ImpossibleSyscall, handle_irq, ResumeCurrent, manual_pause,
         manual_unpause
<1>2. Left' = Left /\ \A p \in Procs : PlaceInLoop(p)'
  BY <1>1 DEF apps, Left, PlaceInLoop, ExitInv, ExitsCounted
<1>3. CASE handle_syscall
  <2> DEFINE m == Head(syscallFifo)
  <2>1. /\ syscallFifo # <<>> /\ syscallFifo' = Tail(syscallFifo) /\ m \in SyscallArgs
        /\ syscallFifo' \in Seq(SyscallArgs)
    BY <1>3, ExitFacts, HeadTailProperties DEF handle_syscall
  <2>2. numDone' = IF m \in ExitMessages THEN numDone + 1 ELSE numDone
    <3>1. m \in ExitMessages <=> m.Dx = "NO_DEVICE"
      BY <2>1 DEF ExitMessages
    <3> QED BY <1>3, <3>1 DEF handle_syscall, Block, Finish, Devices
  <2>3. CountIn(syscallFifo, ExitMessages) =
          IF m \in ExitMessages THEN CountIn(syscallFifo', ExitMessages) + 1
                                ELSE CountIn(syscallFifo', ExitMessages)
    BY <2>1, ExitFacts, CountRemoved
  <2>4. CountIn(syscallFifo', ExitMessages) \in Nat
    BY <2>1, CountType
  <2> HIDE DEF m
  <2>5. numDone' + CountIn(syscallFifo', ExitMessages)
          = numDone + CountIn(syscallFifo, ExitMessages)
    BY <2>2, <2>3, <2>4, ExitFacts
  <2> QED BY <1>2, <2>5 DEF ExitsCounted, ExitInv
<1>4. CASE ~handle_syscall
  <2>1. UNCHANGED <<numDone, syscallFifo>>
    BY <1>4 DEF KernelStep, SignalStep, CheckPaused, Pselect, PselectTimeout, StopCurrent,
                ImpossibleSyscall, handle_irq, ResumeCurrent, manual_pause, manual_unpause
  <2> QED BY <1>2, <2>1 DEF ExitsCounted, ExitInv
<1> QED BY <1>3, <1>4

\* A process writes one exit, after its last iteration.
LEMMA ExitsWritten ==
  ASSUME ExitInv, NEW p \in Procs, A(p)
  PROVE  ExitsCounted'
<1> DEFINE count == CountIn(syscallFifo, ExitMessages)
<1>1. /\ iter \in [Procs -> Nat] /\ reg \in [Procs -> Int] /\ DOMAIN loc = Procs
      /\ \A q \in Procs : PlaceInLoop(q)
      /\ numDone + count = Cardinality(Left)
      /\ count \in Nat /\ numDone \in Nat
  BY ExitFacts DEF TypeOK, ExitInv, ExitsCounted
<1> HIDE DEF count
<1>2. numDone' = numDone
  BY DEF A, Begin, maybe_syscall, ReadPC, IncrementPC, ExitSyscall, Return, kernelVars
<1>3. \A q \in Procs \ {p} : loc'[q] = loc[q] /\ iter'[q] = iter[q]
  BY <1>1 DEF A, Begin, maybe_syscall, ReadPC, IncrementPC, ExitSyscall, Return, Goto
<1>4. \A q \in Procs \ {p} : PlaceInLoop(q)' /\ (q \in Left' <=> q \in Left)
  BY <1>1, <1>3 DEF PlaceInLoop, Left
<1>5. ASSUME p \in Left' <=> p \in Left, CountIn(syscallFifo', ExitMessages) = count,
             PlaceInLoop(p)'
      PROVE  ExitsCounted'
  <2>1. Left' = Left
    BY <1>4, <1>5 DEF Left
  <2> QED BY <1>1, <1>2, <1>4, <1>5, <2>1 DEF ExitsCounted
<1>6. ASSUME NEW Dx \in Devices \cup {"NO_DEVICE"}, WriteSyscall(p, Dx)
      PROVE  CountIn(syscallFifo', ExitMessages) = IF Dx = "NO_DEVICE" THEN count + 1 ELSE count
  <2> DEFINE m == [from |-> p, Dx |-> Dx]
  <2>1. m \in SyscallArgs /\ (m \in ExitMessages <=> Dx = "NO_DEVICE")
    BY DEF SyscallArgs, ExitMessages
  <2>2. syscallFifo' = Append(syscallFifo, m)
    BY <1>6 DEF WriteSyscall
  <2> HIDE DEF m
  <2> QED BY <2>1, <2>2, ExitFacts, CountAppended DEF count
<1>7. CASE Begin(p)
  <2>1. /\ loc[p] = "start" /\ loc'[p] = NextLoc(0) /\ UNCHANGED <<iter, syscallFifo>>
    BY <1>1, <1>7 DEF Begin, Goto, fifos
  <2>2. iter[p] = 0
    BY <2>1, ExitFacts DEF FreshAtStart
  <2>3. PlaceInLoop(p)' /\ p \notin Left /\ p \notin Left'
    BY <2>1, <2>2 DEF PlaceInLoop, NextLoc, Left
  <2> QED BY <1>5, <2>1, <2>3 DEF count
<1>8. CASE maybe_syscall(p)
  <2>1. loc[p] = "loop" /\ loc'[p] = "endOfIteration" /\ UNCHANGED iter
    BY <1>1, <1>8 DEF maybe_syscall, Goto
  <2>2. PlaceInLoop(p)' /\ p \notin Left /\ p \notin Left'
    BY <1>1, <2>1 DEF PlaceInLoop, Left
  <2>3. CountIn(syscallFifo', ExitMessages) = count
    <3>1. CASE UNCHANGED syscallFifo
      BY <3>1 DEF count
    <3>2. ASSUME NEW Dx \in Devices, WriteSyscall(p, Dx)
          PROVE  CountIn(syscallFifo', ExitMessages) = count
      BY <1>6, <3>2 DEF Devices
    <3> QED BY <1>8, <3>1, <3>2 DEF maybe_syscall, fifos
  <2> QED BY <1>5, <2>2, <2>3
<1>9. CASE ReadPC(p)
  <2>1. /\ loc[p] = "endOfIteration" /\ loc'[p] = "incrementing"
        /\ UNCHANGED <<iter, syscallFifo>>
    BY <1>1, <1>9 DEF ReadPC, Goto, fifos
  <2>2. PlaceInLoop(p)' /\ p \notin Left /\ p \notin Left'
    BY <1>1, <2>1 DEF PlaceInLoop, Left
  <2> QED BY <1>5, <2>1, <2>2 DEF count
<1>10. CASE IncrementPC(p)
  <2>1. /\ loc[p] = "incrementing" /\ loc'[p] = NextLoc(reg[p] + 1)
        /\ iter'[p] = iter[p] + 1 /\ UNCHANGED syscallFifo
    BY <1>1, <1>10 DEF IncrementPC, Goto, fifos
  <2>2. reg[p] = iter[p] /\ iter[p] < MAX /\ iter[p] \in Nat
    BY <1>1, <2>1, ExitFacts DEF ContextFaithful, PlaceInLoop
  <2>3. PlaceInLoop(p)' /\ p \notin Left /\ p \notin Left'
    BY <2>1, <2>2 DEF PlaceInLoop, NextLoc, Left
  <2> QED BY <1>5, <2>1, <2>3 DEF count
<1>11. CASE ExitSyscall(p)
  <2>1. loc[p] = "exiting" /\ loc'[p] = "returning" /\ UNCHANGED iter
    BY <1>1, <1>11 DEF ExitSyscall, Goto
  <2>2. PlaceInLoop(p)' /\ p \notin Left /\ Left' = Left \cup {p}
    BY <1>1, <1>4, <2>1 DEF PlaceInLoop, Left
  <2>3. CountIn(syscallFifo', ExitMessages) = count + 1
    BY <1>6, <1>11 DEF ExitSyscall
  <2>4. Cardinality(Left') = Cardinality(Left) + 1
    BY <2>2, ExitFacts, FS_AddElement
  <2>5. numDone' + CountIn(syscallFifo', ExitMessages) = Cardinality(Left')
    BY <1>1, <1>2, <2>3, <2>4
  <2> QED BY <1>4, <2>2, <2>5 DEF ExitsCounted
<1>12. CASE Return(p)
  <2>1. loc[p] = "returning" /\ loc'[p] = "gone" /\ UNCHANGED <<iter, syscallFifo>>
    BY <1>1, <1>12 DEF Return, Goto, fifos
  <2>2. PlaceInLoop(p)' /\ p \in Left /\ p \in Left'
    BY <1>1, <2>1 DEF PlaceInLoop, Left
  <2> QED BY <1>5, <2>1, <2>2 DEF count
<1> QED BY <1>7, <1>8, <1>9, <1>10, <1>11, <1>12 DEF A

LEMMA ExitStep == ExitInv /\ [Next]_vars => ExitInv'
<1> SUFFICES ASSUME ExitInv, [Next]_vars PROVE ExitInv'
  OBVIOUS
<1>1. PlaceInv'
  BY PlaceStep DEF ExitInv
<1>2. ExitsCounted'
  <2>1. CASE UNCHANGED vars \/ interControllerSim
    <3>1. UNCHANGED <<numDone, syscallFifo, iter, loc>>
      BY <2>1 DEF vars, fifos, apps, kernelVars, interControllerSim, TimeSlice, SendDrawn,
                  RaiseIrq
    <3> QED BY <3>1 DEF ExitInv, ExitsCounted, Left, PlaceInLoop
  <2> QED BY <2>1, ExitsRead, ExitsWritten DEF Next
<1> QED BY <1>1, <1>2 DEF ExitInv

\* The kernel of trab1 ends happily only when every process has done all its
\* iterations and has written its own exit (HappyEndIsReal), in every regime.
THEOREM HappyEndNeedsEveryExit == Spec => []HappyEndIsReal
<1>1. ExitInv => HappyEndIsReal
  <2> SUFFICES ASSUME ExitInv, kpc = "exited"
               PROVE  \A p \in Procs : loc[p] \in {"returning", "gone"} /\ iter[p] = MAX
    BY DEF HappyEndIsReal
  <2>1. numDone = N
    BY DEF ExitInv, PlaceInv, Counted
  <2>2. Cardinality(Left) >= N
    BY <2>1, ExitFacts DEF ExitInv, ExitsCounted
  <2>3. Left = Procs
    <3>1. Cardinality(Left) <= N
      BY ExitFacts, FS_Subset
    <3>2. Cardinality(Left) = Cardinality(Procs)
      BY <2>2, <3>1, ExitFacts
    <3> QED BY <3>2, ExitFacts, FS_Subset
  <2> QED BY <2>3 DEF ExitInv, ExitsCounted, PlaceInLoop, Left
<1> QED BY <1>1, ExitInit, ExitStep, PTL DEF Spec

------------------------------------------------------------------------------
(***************************************************************************)
(* The records against what the processes did, when the kernel stops a     *)
(* process before it acts again.  RecordIsReal speaks of the moments when  *)
(* the kernel has nothing to do; in between, what a process did last may   *)
(* still be in the FIFO, and is then the only syscall there is.            *)
(***************************************************************************)
\* The only syscall in the FIFO is that of the process on the CPU, from the
\* moment it is written until the handler reads it; and a pass of the loop that
\* began without one does not see it.
PromptInv ==
  /\ \/ syscallFifo = <<>>
     \/ /\ \E m \in SyscallArgs : m.from = cpu.pid /\ syscallFifo = <<m>>
        /\ kpc \notin {"irq", "resume", "failed"}
  /\ kpc = "stop" => (pending.syscall <=> syscallFifo # <<>>)
  /\ kpc = "syscall" => syscallFifo # <<>>

Unread(p, Dx) == syscallFifo = <<[from |-> p, Dx |-> Dx]>>

\* What the unread syscall, the queues and the table say of where a process is.
RecordsKept ==
  /\ \A p \in Procs, Dx \in Devices : Unread(p, Dx) => loc[p] = "endOfIteration"
  /\ \A p \in Procs : Unread(p, "NO_DEVICE") => p \in Left
  /\ \A p \in Waiting : loc[p] = "endOfIteration"
  /\ Finished \subseteq Left
  /\ \A p \in Left : p \in Finished \/ Unread(p, "NO_DEVICE") \/ kpc = "exited"

RealInv == PlaceInv /\ PromptInv /\ RecordsKept

LEMMA RealInit == Init => RealInv
<1> SUFFICES ASSUME Init PROVE RealInv
  OBVIOUS
<1>1. PlaceInv
  BY PlaceInit
<1>2. syscallFifo = <<>> /\ kpc = "top" /\ \A p \in Procs : loc[p] = "start"
  BY DEF Init
<1>3. PromptInv
  BY <1>2 DEF PromptInv
<1>4. Waiting = {} /\ Finished = {} /\ Left = {}
  <2>1. D1Q = <<>> /\ D2Q = <<>> /\ pcb = [p \in Procs |-> InitialState(p)]
    BY DEF Init
  <2>2. \A p \in Procs : pcb[p].current = "READY"
    BY <2>1 DEF InitialState
  <2> QED BY <1>2, <2>1, <2>2 DEF Waiting, Range, Finished, Left
<1>5. RecordsKept
  BY <1>2, <1>4 DEF RecordsKept, Unread
<1> QED BY <1>1, <1>3, <1>5 DEF RealInv

\* The syscall that is read is that of the process on the CPU, which blocks or ends.
LEMMA RealSyscall ==
  ASSUME RealInv, handle_syscall
  PROVE  PromptInv' /\ RecordsKept'
<1> DEFINE c == cpu.pid
<1>1. PICK m \in SyscallArgs : m.from = c /\ syscallFifo = <<m>>
  BY DEF handle_syscall, RealInv, PromptInv
<1>2. /\ syscallFifo' = <<>> /\ Head(syscallFifo).Dx = m.Dx
      /\ kpc = "syscall" /\ c # NoProc /\ UNCHANGED loc
  BY <1>1 DEF handle_syscall, apps
<1>3. Unread(c, m.Dx) /\ c \in Procs
  BY <1>1 DEF Unread, SyscallArgs
<1>4. kpc' \in {"irq", "resume", "exited"}
  BY DEF handle_syscall, Block, Finish, AfterSyscall
<1>5. PromptInv'
  BY <1>2, <1>4 DEF PromptInv
<1>6. Left' = Left /\ \A p \in Procs : Unread(p, "NO_DEVICE") => p = c /\ m.Dx = "NO_DEVICE"
  <2>1. ASSUME NEW p \in Procs, <<m>> = <<[from |-> p, Dx |-> "NO_DEVICE"]>>
        PROVE  p = c /\ m.Dx = "NO_DEVICE"
    <3>1. m = [from |-> p, Dx |-> "NO_DEVICE"]
      BY <2>1
    <3> QED BY <1>1, <3>1
  <2> QED BY <1>1, <1>2, <2>1 DEF Left, Unread
<1>7. CASE m.Dx \in Devices /\ Block(m.Dx)
  <2>1. Promise!BlockCurrent
    BY <1>2, <1>7, PlaceBlock DEF RealInv
  <2>2. kpc' # "exited"
    BY <1>7 DEF Block, AfterSyscall
  <2>3. Waiting' = Waiting \cup {c} /\ Finished' = Finished
    BY <1>2, <2>1, <2>2 DEF Promise!BlockCurrent
  <2>4. loc[c] = "endOfIteration"
    BY <1>3, <1>7 DEF RealInv, RecordsKept
  <2>5. m.Dx # "NO_DEVICE"
    BY <1>7 DEF Devices
  <2> QED
    BY <1>2, <1>5, <1>6, <2>3, <2>4, <2>5 DEF RealInv, RecordsKept, Unread
<1>8. CASE m.Dx = "NO_DEVICE" /\ Finish
  <2>1. Waiting' = Waiting
    BY <1>8 DEF Finish, Waiting
  <2>2. Finished' \subseteq Finished \cup {c} /\ (kpc' = "exited" \/ Finished' = Finished \cup {c})
    <3>1. CASE kpc' = "exited"
      <4>1. pcb' = pcb
        BY <1>8, <3>1 DEF Finish, AfterSyscall
      <4> QED BY <3>1, <4>1 DEF Finished
    <3>2. CASE kpc' # "exited"
      <4>1. Promise!FinishCurrent
        BY <1>8, PlaceFinish DEF RealInv
      <4> QED BY <1>2, <3>2, <4>1 DEF Promise!FinishCurrent
    <3> QED BY <3>1, <3>2
  <2>3. c \in Left
    BY <1>3, <1>8 DEF RealInv, RecordsKept
  <2>4. \A p, Dx : ~Unread(p, Dx)'
    BY <1>2 DEF Unread
  <2>5. Finished' \subseteq Left' /\ \A p \in Waiting' : loc'[p] = "endOfIteration"
    BY <1>2, <1>6, <2>1, <2>2, <2>3 DEF RealInv, RecordsKept
  <2>6. \A p \in Left : p \in Finished \cup {c}
    BY <1>2, <1>6 DEF RealInv, RecordsKept, Left
  <2> QED
    BY <1>5, <1>6, <2>2, <2>4, <2>5, <2>6 DEF RecordsKept
<1> QED BY <1>2, <1>7, <1>8 DEF handle_syscall

\* An interrupt is handled when nothing is unread; it may release a process.
LEMMA RealIrq ==
  ASSUME RealInv, handle_irq
  PROVE  PromptInv' /\ RecordsKept'
<1>1. /\ syscallFifo = <<>> /\ syscallFifo' = <<>> /\ UNCHANGED <<loc, numDone>>
      /\ kpc = "irq" /\ kpc' = "resume"
  BY DEF handle_irq, RealInv, PromptInv, apps
<1>2. Waiting' \subseteq Waiting /\ Finished' = Finished
  <2>1. CASE handle_irq0_timeslice
    BY <1>1, <2>1, PlaceTimeslice
    DEF RealInv, Promise!Rotate, Promise!schedulerVars
  <2>2. CASE handle_irq1_device \/ handle_irq2_device
    <3>1. \/ DeviceIrq(D1Q) /\ UNCHANGED D2Q
          \/ DeviceIrq(D2Q) /\ UNCHANGED D1Q
      BY <2>2 DEF handle_irq1_device, handle_irq2_device
    <3> QED BY <1>1, <3>1, PlaceDevice
        DEF RealInv, Promise!Unblock, Promise!schedulerVars
  <2> QED BY <2>1, <2>2 DEF handle_irq
<1>3. PromptInv'
  BY <1>1 DEF PromptInv
<1>4. Left' = Left
  BY <1>1 DEF Left
<1> QED BY <1>1, <1>2, <1>3, <1>4 DEF RealInv, RecordsKept, Unread

\* A process acts when nothing is unread: what it writes is the only syscall.
LEMMA RealApp ==
  ASSUME Regime = "prompt", RealInv, NEW p \in Procs, A(p)
  PROVE  PromptInv' /\ RecordsKept'
<1>1. /\ p = cpu.pid /\ syscallFifo = <<>> /\ kpc \in {"top", "select"}
  BY DEF A, Begin, maybe_syscall, ReadPC, IncrementPC, ExitSyscall, Return, Goto, MayRun,
         Quiet, RealInv, PlaceInv, ContextInv, SingleRunner, OnCpu
<1>2. /\ UNCHANGED kernelVars /\ cpu'.pid = cpu.pid /\ cpu \in State /\ DOMAIN loc = Procs
      /\ p \notin Waiting /\ p \notin Finished /\ p \notin Left
  <2>1. cpu \in State /\ DOMAIN loc = Procs /\ Placed
    BY DEF RealInv, PlaceInv, ContextInv, TypeInv, TypeOK
  <2>2. p \notin Waiting /\ p \notin Finished
    BY <1>1, <2>1 DEF Placed, Partition, OnCpu, Waiting, Procs, NoProc
  <2>3. p \notin Left
    BY <1>1, <2>2 DEF RealInv, RecordsKept, Unread
  <2>4. UNCHANGED kernelVars /\ cpu'.pid = cpu.pid
    BY <2>1 DEF A, Begin, maybe_syscall, ReadPC, IncrementPC, ExitSyscall, Return,
                WriteSyscall, State
  <2> QED BY <2>1, <2>2, <2>3, <2>4
<1>3. Waiting' = Waiting /\ Finished' = Finished /\ kpc' = kpc
  BY <1>2 DEF kernelVars, queues, Waiting, Finished
<1>4. \A q \in Procs \ {p} : loc'[q] = loc[q]
  BY <1>2 DEF A, Begin, maybe_syscall, ReadPC, IncrementPC, ExitSyscall, Return, Goto
<1>5. Left \subseteq Left' /\ Left' \subseteq Left \cup {p} /\ Left \subseteq Procs
  BY <1>2, <1>4 DEF Left
<1>6. \A q \in Waiting' : loc'[q] = "endOfIteration"
  <2>1. Waiting \subseteq Procs
    BY DEF RealInv, PlaceInv, Placed, Partition, Waiting
  <2> QED BY <1>2, <1>3, <1>4, <2>1 DEF RealInv, RecordsKept
<1>7. Finished' \subseteq Left' /\ \A q \in Left : q \in Finished'
  BY <1>1, <1>3, <1>5 DEF RealInv, RecordsKept, Unread
<1>8. CASE UNCHANGED syscallFifo /\ p \notin Left'
  <2>1. PromptInv'
    BY <1>1, <1>3, <1>8 DEF PromptInv
  <2> QED BY <1>1, <1>5, <1>6, <1>7, <1>8, <2>1 DEF RecordsKept, Unread
<1>9. ASSUME NEW Dx \in Devices \cup {"NO_DEVICE"}, WriteSyscall(p, Dx),
             IF Dx = "NO_DEVICE" THEN p \in Left' ELSE loc'[p] = "endOfIteration"
      PROVE  PromptInv' /\ RecordsKept'
  <2>1. Unread(p, Dx)' /\ [from |-> p, Dx |-> Dx] \in SyscallArgs
    BY <1>1, <1>9 DEF WriteSyscall, Unread, SyscallArgs
  <2>2. PromptInv'
    <3>1. [from |-> p, Dx |-> Dx].from = cpu'.pid
      BY <1>1, <1>2
    <3> QED BY <1>1, <1>3, <2>1, <3>1 DEF PromptInv, Unread
  <2>3. ASSUME NEW q \in Procs, NEW y, Unread(q, y)' PROVE q = p /\ y = Dx
    <3>1. <<[from |-> p, Dx |-> Dx]>>[1] = <<[from |-> q, Dx |-> y]>>[1]
      BY <2>1, <2>3 DEF Unread
    <3>2. [from |-> p, Dx |-> Dx] = [from |-> q, Dx |-> y]
      BY <3>1
    <3> QED BY <3>2
  <2>4. \A q \in Left' : q \in Finished' \/ Unread(q, "NO_DEVICE")'
    <3>1. p \in Left' => Dx = "NO_DEVICE"
      BY <1>9 DEF Left
    <3> QED BY <1>5, <1>7, <2>1, <3>1
  <2> QED BY <1>6, <1>7, <1>9, <2>2, <2>3, <2>4 DEF RecordsKept, Devices
<1>10. CASE Begin(p) \/ ReadPC(p) \/ IncrementPC(p)
  <2>1. loc'[p] \in {"loop", "exiting", "incrementing"}
    BY <1>2, <1>10 DEF Begin, ReadPC, IncrementPC, Goto, NextLoc
  <2>2. p \notin Left'
    BY <2>1 DEF Left
  <2> QED BY <1>8, <1>10, <2>2 DEF Begin, ReadPC, IncrementPC, fifos
<1>11. CASE maybe_syscall(p)
  <2>1. loc'[p] = "endOfIteration" /\ p \notin Left'
    BY <1>2, <1>11 DEF maybe_syscall, Goto, Left
  <2>2. CASE UNCHANGED fifos
    BY <1>8, <2>1, <2>2 DEF fifos
  <2>3. ASSUME NEW Dx \in Devices, WriteSyscall(p, Dx) PROVE PromptInv' /\ RecordsKept'
    BY <1>9, <2>1, <2>3 DEF Devices
  <2> QED BY <1>11, <2>2, <2>3 DEF maybe_syscall
<1>12. CASE ExitSyscall(p)
  <2>1. p \in Left'
    BY <1>2, <1>12 DEF ExitSyscall, Goto, Left
  <2> QED BY <1>9, <1>12, <2>1 DEF ExitSyscall
<1>13. CASE Return(p)
  BY <1>2, <1>13 DEF Return, Goto, Left
<1> QED BY <1>10, <1>11, <1>12, <1>13 DEF A

\* The rest of the loop, the pauses and the controller.
LEMMA RealOther ==
  ASSUME RealInv,
         \/ CheckPaused \/ Pselect \/ PselectTimeout \/ StopCurrent \/ ResumeCurrent
         \/ ImpossibleSyscall \/ SignalStep \/ interControllerSim
         \/ UNCHANGED vars
  PROVE  PromptInv' /\ RecordsKept'
<1> USE DEF queues, fifos, apps
<1>1. /\ cpu \in State /\ PromptInv /\ RecordsKept
  BY DEF RealInv, PlaceInv, ContextInv, TypeInv, TypeOK
<1>2. CASE ImpossibleSyscall
  BY <1>1, <1>2 DEF ImpossibleSyscall, PromptInv, SyscallArgs, Procs, NoProc
<1> DEFINE Still == /\ UNCHANGED <<pcb, D1Q, D2Q, syscallFifo, loc>> /\ cpu'.pid = cpu.pid
                    /\ kpc = "exited" => kpc' = "exited"
<1>3. ASSUME Still PROVE RecordsKept'
  <2>1. Waiting' = Waiting /\ Finished' = Finished /\ Left' = Left
    BY <1>3 DEF Waiting, Finished, Left
  <2> QED BY <1>1, <1>3, <2>1 DEF RecordsKept, Unread
<1>4. CASE CheckPaused \/ PselectTimeout
  <2>1. Still /\ kpc' \in {"top", "select"}
    BY <1>4 DEF CheckPaused, PselectTimeout
  <2> QED BY <1>1, <1>3, <2>1 DEF PromptInv
<1>5. CASE Pselect
  <2>1. Still /\ kpc' = "stop" /\ (pending'.syscall <=> syscallFifo # <<>>) /\ kpc = "select"
    BY <1>5 DEF Pselect
  <2> QED BY <1>1, <1>3, <2>1 DEF PromptInv
<1>6. CASE StopCurrent
  <2>1. Still /\ kpc = "stop" /\ kpc' = IF pending.syscall THEN "syscall" ELSE AfterSyscall
    BY <1>6 DEF StopCurrent, AfterStop
  <2> QED BY <1>1, <1>3, <2>1 DEF PromptInv, AfterSyscall
<1>7. CASE ResumeCurrent
  <2>1. Still /\ kpc = "resume" /\ kpc' = "top"
    BY <1>1, <1>7 DEF ResumeCurrent, State
  <2> QED BY <1>1, <1>3, <2>1 DEF PromptInv
<1>8. ASSUME NEW tty \in BOOLEAN, manual_pause(tty) \/ manual_unpause(tty)
      PROVE  PromptInv' /\ RecordsKept'
  <2>1. /\ UNCHANGED <<cpu, pcb, D1Q, D2Q, syscallFifo, loc, pending>>
        /\ kpc' \in AfterSignal
    BY <1>8 DEF manual_pause, manual_unpause
  <2>2. kpc' = kpc \/ (kpc' \in {"top", "select"} /\ kpc = "select")
    <3>1. CASE kpc = "select"
      BY <2>1, <3>1 DEF AfterSignal
    <3>2. CASE kpc # "select"
      BY <2>1, <3>2 DEF AfterSignal
    <3> QED BY <3>1, <3>2
  <2>3. Still
    BY <2>1, <2>2
  <2> QED BY <1>1, <1>3, <2>1, <2>2, <2>3 DEF PromptInv
<1>9. CASE interControllerSim \/ UNCHANGED vars
  <2>1. Still /\ UNCHANGED <<kpc, pending>>
    BY <1>9 DEF interControllerSim, TimeSlice, SendDrawn, RaiseIrq, kernelVars, vars
  <2> QED BY <1>1, <1>3, <2>1 DEF PromptInv
<1> QED BY <1>2, <1>4, <1>5, <1>6, <1>7, <1>8, <1>9 DEF SignalStep

LEMMA RealStep == Regime = "prompt" /\ RealInv /\ [Next]_vars => RealInv'
<1> SUFFICES ASSUME Regime = "prompt", RealInv, [Next]_vars PROVE RealInv'
  OBVIOUS
<1>1. PlaceInv'
  BY PlaceStep DEF RealInv
<1>2. PromptInv' /\ RecordsKept'
  BY RealSyscall, RealIrq, RealApp, RealOther DEF Next, KernelStep
<1> QED BY <1>1, <1>2 DEF RealInv

\* When the kernel stops a process before it acts again, what it records is what
\* the process did: one that waits wrote a syscall in this iteration, one that is
\* done wrote its exit, and no other did (RecordIsReal).
THEOREM RecordsMatchTheProcesses ==
  ASSUME Regime = "prompt" PROVE Spec => []RecordIsReal
<1>1. RealInv => RecordIsReal
  <2> SUFFICES ASSUME RealInv, Quiet, NEW p \in Procs
               PROVE  /\ p \in Waiting => loc[p] = "endOfIteration"
                      /\ p \in Finished <=> loc[p] \in {"returning", "gone"}
    BY DEF RecordIsReal
  <2>1. \A q \in Left : q \in Finished
    BY DEF Quiet, RealInv, RecordsKept, Unread
  <2>2. p \in Left <=> loc[p] \in {"returning", "gone"}
    BY DEF Left
  <2> QED BY <2>1, <2>2 DEF RealInv, RecordsKept
<1>2. RealInv /\ [Next]_vars => RealInv'
  BY RealStep
<1> QED BY <1>1, <1>2, RealInit, PTL DEF Spec
=============================================================================
