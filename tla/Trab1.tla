-------------------------------- MODULE Trab1 --------------------------------
(***************************************************************************)
(* The whole of trab1, the first simulator: its kernel (kernelSim.c and    *)
(* the queues of state.c), its application processes (A.c) and its         *)
(* interrupt controller (interControllerSim.c).  There is no file server:  *)
(* the interrupt of a device releases the first process that waits for it. *)
(*                                                                         *)
(* As in KernelSim, a process is its position in process_states, which     *)
(* find_idx_from_pid recovers from its pid.  Of a syscall only the device  *)
(* Dx decides anything: it stands for the syscall, and "NO_DEVICE" for the *)
(* exit syscall, whose arguments are those of a process without syscall.   *)
(***************************************************************************)
EXTENDS Integers, Sequences, FiniteSets, Functions

CONSTANTS
  N,               \* NUM_APP_PROCESSES
  MAX,             \* iterations of an application process
  IrqFifoCap,      \* interrupts the irq FIFO holds before a writer blocks
  SyscallFifoCap,  \* syscalls the syscall FIFO holds before a writer blocks
  MaxPauses,       \* bound on the pauses asked for by the user
  Regime           \* when an application may act: see MayRun

ASSUME NAssumption == N \in Nat \ {0}
ASSUME MAXAssumption == MAX \in Nat
ASSUME BoundsAssumption == /\ {IrqFifoCap, SyscallFifoCap} \subseteq Nat \ {0}
                           /\ MaxPauses \in Nat
ASSUME RegimeAssumption == Regime \in {"prompt", "paused", "free"}

Procs == 1..N
NoProc == 0
Devices == {"D1", "D2"}
IrqTypes == {"IRQ0", "IRQ1", "IRQ2"}
Ended == {"exited", "failed"}

\* A syscall in the FIFO; from, its writer, is not in the bytes the kernel reads.
SyscallArgs == [from : Procs, Dx : Devices \cup {"NO_DEVICE"}]

State == [pid : Procs \cup {NoProc},
          PC : Int,
          current : {"RUNNING", "READY", "WAITING_FOR_IO", "DONE", "IDLE"},
          Dx : Devices \cup {"NO_DEVICE"}]

VARIABLES
  cpu,          \* *state, the shared-memory CPU
  pcb,          \* process_states
  readyQ,       \* ready_queue
  D1Q,          \* D1_queue
  D2Q,          \* D2_queue
  numDone,      \* num_children_done
  kpc,          \* where the loop of the kernel's main() is
  pending,      \* readfds as pselect returned it
  paused,       \* paused
  pauses,       \* pauses so far (bound)
  running,      \* processes whose last signal was SIGCONT
  syscallFifo,  \* /tmp/syscall_fifo
  irqFifo,      \* /tmp/irq_fifo
  loc,          \* where main() of each A process is
  reg,          \* the state->PC a process has read and is about to increment
  burst,        \* interrupts the controller has drawn and not yet written
  iter          \* history: iterations each application has really finished

queues == <<readyQ, D1Q, D2Q>>
fifos == <<syscallFifo, irqFifo>>
apps == <<loc, reg, iter>>
vars == <<cpu, pcb, queues, numDone, kpc, pending, paused, pauses, running,
          fifos, apps, burst>>

------------------------------------------------------------------------------
\* The queues of state.c: insert_end is Append; pop_start is Pop and Rest.
\* (A name with a suffix is a mutant of the definition it is named after.)
Pop(q) == IF q = <<>> THEN NoProc ELSE Head(q)
Rest_notUnlinked(q) == q
Rest(q) == IF q = <<>> THEN q ELSE Tail(q)

IdleCpu == [pid |-> NoProc, PC |-> -1, current |-> "IDLE", Dx |-> "NO_DEVICE"]

switch_context_unsaved(prev, st, states, dest) ==
  /\ pcb' = states
  /\ cpu' = IF dest = NoProc THEN IdleCpu ELSE states[dest]

\* Saves st as the state of prev, in the table states, and loads dest from it.
switch_context(prev, st, states, dest) ==
  /\ pcb' = IF prev # NoProc THEN [states EXCEPT ![prev] = st] ELSE states
  /\ cpu' = IF dest = NoProc THEN IdleCpu ELSE pcb'[dest]

InitialState(p) == [pid |-> p, PC |-> 0, current |-> "READY", Dx |-> "NO_DEVICE"]

\* main() up to its loop: position 1 is loaded and continued, the rest is ready.
Init ==
  /\ pcb = [p \in Procs |-> InitialState(p)]
  /\ cpu = [InitialState(1) EXCEPT !.current = "RUNNING"]
  /\ readyQ = SubSeq([p \in Procs |-> p], 2, N)
  /\ D1Q = <<>> /\ D2Q = <<>>
  /\ numDone = 0
  /\ kpc = "top"
  /\ pending = [syscall |-> FALSE, irq |-> FALSE]
  /\ paused = FALSE /\ pauses = 0
  /\ running = {1}
  /\ syscallFifo = <<>> /\ irqFifo = <<>>
  /\ loc = [p \in Procs |-> "start"]
  /\ reg = [p \in Procs |-> 0]
  /\ burst = <<>>
  /\ iter = [p \in Procs |-> 0]

------------------------------------------------------------------------------
(***************************************************************************)
(* The loop of the kernel's main().                                        *)
(***************************************************************************)
AfterSyscall == IF pending.irq THEN "irq" ELSE "resume"
AfterStop == IF pending.syscall THEN "syscall" ELSE AfterSyscall

CheckPaused ==
  /\ kpc = "top" /\ ~paused
  /\ kpc' = "select"
  /\ UNCHANGED <<cpu, pcb, queues, numDone, pending, paused, pauses, running,
                 fifos, apps, burst>>

Pselect ==
  /\ kpc = "select"
  /\ syscallFifo # <<>> \/ irqFifo # <<>>
  /\ pending' = [syscall |-> syscallFifo # <<>>, irq |-> irqFifo # <<>>]
  /\ kpc' = "stop"
  /\ UNCHANGED <<cpu, pcb, queues, numDone, paused, pauses, running,
                 fifos, apps, burst>>

\* pselect returns 0 after five seconds without an event.
PselectTimeout ==
  /\ kpc = "select"
  /\ syscallFifo = <<>> /\ irqFifo = <<>>
  /\ kpc' = "top"
  /\ UNCHANGED <<cpu, pcb, queues, numDone, pending, paused, pauses, running,
                 fifos, apps, burst>>

StopCurrent_forgotten ==
  /\ kpc = "stop"
  /\ kpc' = AfterStop
  /\ UNCHANGED <<cpu, pcb, queues, numDone, pending, paused, pauses, running,
                 fifos, apps, burst>>

\* SIGSTOP to the process that holds the CPU.
StopCurrent ==
  /\ kpc = "stop"
  /\ running' = running \ {cpu.pid}
  /\ kpc' = AfterStop
  /\ UNCHANGED <<cpu, pcb, queues, numDone, pending, paused, pauses,
                 fifos, apps, burst>>

\* RUNNING and SIGCONT to the process that holds the CPU, if any does.
ResumeCurrent ==
  /\ kpc = "resume"
  /\ IF cpu.pid = NoProc
       THEN UNCHANGED <<cpu, running>>
       ELSE /\ cpu' = [cpu EXCEPT !.current = "RUNNING"]
            /\ running' = running \cup {cpu.pid}
  /\ kpc' = "top"
  /\ pending' = [syscall |-> FALSE, irq |-> FALSE]
  /\ UNCHANGED <<pcb, queues, numDone, paused, pauses, fifos, apps, burst>>

------------------------------------------------------------------------------
(***************************************************************************)
(* The handlers.                                                           *)
(***************************************************************************)
\* The caller joins the queue of the device.
Block(Dx) ==
  /\ D1Q' = IF Dx = "D1" THEN Append(D1Q, cpu.pid) ELSE D1Q
  /\ D2Q' = IF Dx = "D2" THEN Append(D2Q, cpu.pid) ELSE D2Q
  /\ switch_context(cpu.pid, [cpu EXCEPT !.Dx = Dx, !.current = "WAITING_FOR_IO"],
                    pcb, Pop(readyQ))
  /\ kpc' = AfterSyscall
  /\ UNCHANGED numDone

AllDone_early(n) == n >= N - 1
AllDone_late(n) == n > N
AllDone(n) == n = N

\* The exit syscall: the last one ends the kernel before any switch.
Finish ==
  LET done == [cpu EXCEPT !.Dx = "NO_DEVICE", !.current = "DONE"]
  IN /\ numDone' = numDone + 1
     /\ IF AllDone(numDone + 1)
          THEN cpu' = done /\ pcb' = pcb /\ kpc' = "exited"
          ELSE /\ switch_context(cpu.pid, done, pcb, Pop(readyQ))
               /\ kpc' = AfterSyscall
     /\ UNCHANGED <<D1Q, D2Q>>

\* A syscall read while a process holds the CPU is taken to be that process's.
handle_syscall ==
  /\ kpc = "syscall"
  /\ cpu.pid # NoProc
  /\ syscallFifo # <<>>
  /\ LET Dx == Head(syscallFifo).Dx
     IN \/ Dx \in Devices /\ Block(Dx)
        \/ Dx = "NO_DEVICE" /\ Finish
  /\ syscallFifo' = Tail(syscallFifo)
  /\ readyQ' = Rest(readyQ)
  /\ UNCHANGED <<pending, paused, pauses, running, irqFifo, apps, burst>>

\* The "situação impossível": a syscall is readable and the CPU is idle.
ImpossibleSyscall ==
  /\ kpc = "syscall"
  /\ cpu.pid = NoProc
  /\ kpc' = "failed"
  /\ UNCHANGED <<cpu, pcb, queues, numDone, pending, paused, pauses, running,
                 fifos, apps, burst>>

handle_irq0_timeslice ==
  /\ Head(irqFifo) = "IRQ0"
  /\ IF cpu.pid = NoProc \/ readyQ = <<>>
       THEN UNCHANGED <<cpu, pcb, readyQ>>
       ELSE /\ readyQ' = Append(Rest(readyQ), cpu.pid)
            /\ switch_context(cpu.pid, [cpu EXCEPT !.current = "READY"],
                              pcb, Pop(readyQ))
  /\ UNCHANGED <<D1Q, D2Q>>

\* The process on the CPU, if any, becomes the last ready one.
PreemptInto_unchecked(q) == Append(q, cpu.pid)
PreemptInto_first(q) == IF cpu.pid = NoProc THEN q ELSE <<cpu.pid>> \o q
PreemptInto_lost(q) == q
PreemptInto(q) == IF cpu.pid = NoProc THEN q ELSE Append(q, cpu.pid)

\* The syscall of a process that is released is over.
Released_uncleared(st) == st
Released(st) == [st EXCEPT !.Dx = "NO_DEVICE"]

\* The common body of the device handlers: the first of ioQ takes the CPU.
DeviceIrq(ioQ) ==
  LET io == Pop(ioQ)
      preempted == IF cpu.pid = NoProc THEN cpu ELSE [cpu EXCEPT !.current = "READY"]
  IN \/ ioQ = <<>> /\ UNCHANGED <<ioQ, cpu, pcb, readyQ>>
     \/ /\ ioQ # <<>>
        /\ ioQ' = Rest(ioQ)
        /\ readyQ' = PreemptInto(readyQ)
        /\ switch_context(cpu.pid, preempted, [pcb EXCEPT ![io] = Released(@)], io)

handle_irq1_device == /\ Head(irqFifo) = "IRQ1"
                      /\ DeviceIrq(D1Q)
                      /\ UNCHANGED D2Q

handle_irq2_device == /\ Head(irqFifo) = "IRQ2"
                      /\ DeviceIrq(D2Q)
                      /\ UNCHANGED D1Q

handle_irq ==
  /\ kpc = "irq"
  /\ irqFifo # <<>>
  /\ irqFifo' = Tail(irqFifo)
  /\ handle_irq0_timeslice \/ handle_irq1_device \/ handle_irq2_device
  /\ kpc' = "resume"
  /\ UNCHANGED <<numDone, pending, paused, pauses, running, syscallFifo, apps, burst>>

------------------------------------------------------------------------------
(***************************************************************************)
(* SIGTSTP pauses and unpauses the kernel.  Typed at the terminal (tty) it *)
(* also reaches the application that runs, which stops: the script execs   *)
(* the kernel, which forks the others into its own process group.          *)
(***************************************************************************)
AfterSignal == IF kpc = "select" THEN {"select", "top"} ELSE {kpc}

manual_pause(tty) ==
  /\ kpc \notin Ended /\ ~paused /\ pauses < MaxPauses
  /\ paused' = TRUE
  /\ pauses' = pauses + 1
  /\ kpc' \in AfterSignal
  /\ running' = IF tty THEN {} ELSE running
  /\ UNCHANGED <<cpu, pcb, queues, numDone, pending, fifos, apps, burst>>

manual_unpause_continues(tty) ==
  /\ kpc \notin Ended /\ paused
  /\ paused' = FALSE
  /\ kpc' \in AfterSignal
  /\ running' = {cpu.pid} \ {NoProc}
  /\ UNCHANGED <<cpu, pcb, queues, numDone, pending, pauses, fifos, apps, burst>>

manual_unpause(tty) ==
  /\ kpc \notin Ended /\ paused
  /\ paused' = FALSE
  /\ kpc' \in AfterSignal
  /\ running' = IF tty THEN {} ELSE running
  /\ UNCHANGED <<cpu, pcb, queues, numDone, pending, pauses, fifos, apps, burst>>

------------------------------------------------------------------------------
(***************************************************************************)
(* A.c.  state->PC lives in the shared CPU, and PC++ is a read and a write *)
(* that a SIGSTOP can separate.                                            *)
(***************************************************************************)
\* The kernel has no event to handle: it is blocked in pselect, or about to be.
Quiet == /\ kpc \in {"top", "select"} /\ ~paused
         /\ syscallFifo = <<>> /\ irqFifo = <<>>

\* The regimes of KernelSim: an application sleeps half a second between actions
\* and the kernel is faster ("prompt"), or is so except in a manual pause
\* ("paused"), or the scheduling of the host is arbitrary ("free").
MayRun(p) == /\ p \in running /\ kpc \notin Ended
             /\ \/ Quiet
                \/ Regime = "paused" /\ paused
                \/ Regime = "free"

kernelVars == <<pcb, queues, numDone, kpc, pending, paused, pauses, running>>

Goto(p, from, to) ==
  /\ MayRun(p)
  /\ loc[p] = from
  /\ loc' = [loc EXCEPT ![p] = to]

\* The test of the for loop, for a counter that has just been set to pc.
NextLoc(pc) == IF pc < MAX THEN "loop" ELSE "exiting"

\* The initialization of the for loop.
Begin(p) ==
  /\ Goto(p, "start", NextLoc(0))
  /\ cpu' = [cpu EXCEPT !.PC = 0]
  /\ UNCHANGED <<kernelVars, fifos, reg, iter, burst>>

WriteSyscall(p, Dx) ==
  /\ Len(syscallFifo) < SyscallFifoCap
  /\ syscallFifo' = Append(syscallFifo, [from |-> p, Dx |-> Dx])
  /\ UNCHANGED <<cpu, irqFifo>>

\* A syscall with probability 0.14, else nothing.
maybe_syscall(p) ==
  /\ Goto(p, "loop", "endOfIteration")
  /\ \/ \E Dx \in Devices : WriteSyscall(p, Dx)
     \/ UNCHANGED <<cpu, fifos>>
  /\ UNCHANGED <<kernelVars, reg, iter, burst>>

ReadPC(p) ==
  /\ Goto(p, "endOfIteration", "incrementing")
  /\ reg' = [reg EXCEPT ![p] = cpu.PC]
  /\ UNCHANGED <<kernelVars, cpu, fifos, iter, burst>>

IncrementPC(p) ==
  /\ Goto(p, "incrementing", NextLoc(reg[p] + 1))
  /\ cpu' = [cpu EXCEPT !.PC = reg[p] + 1]
  /\ iter' = [iter EXCEPT ![p] = @ + 1]
  /\ UNCHANGED <<kernelVars, fifos, reg, burst>>

ExitSyscall(p) ==
  /\ Goto(p, "exiting", "returning")
  /\ WriteSyscall(p, "NO_DEVICE")
  /\ UNCHANGED <<kernelVars, reg, iter, burst>>

\* The return that closes the process's end of the FIFO.
Return(p) ==
  /\ Goto(p, "returning", "gone")
  /\ UNCHANGED <<kernelVars, cpu, fifos, reg, iter, burst>>

A(p) == \/ Begin(p) \/ maybe_syscall(p) \/ ReadPC(p) \/ IncrementPC(p)
        \/ ExitSyscall(p) \/ Return(p)

------------------------------------------------------------------------------
(***************************************************************************)
(* interControllerSim.c: IRQ0 after every sleep, then IRQ1 with            *)
(* probability P_1, then IRQ2 with probability P_2.                        *)
(***************************************************************************)
Bursts_noIRQ2 == {<<>>, <<"IRQ1">>}
Bursts == {<<>>, <<"IRQ1">>, <<"IRQ2">>, <<"IRQ1", "IRQ2">>}

RaiseIrq(irq) ==
  /\ kpc \notin Ended /\ ~paused
  /\ Len(irqFifo) < IrqFifoCap
  /\ irqFifo' = Append(irqFifo, irq)
  /\ UNCHANGED <<cpu, kernelVars, syscallFifo, apps>>

TimeSlice(draw) ==
  /\ burst = <<>> /\ draw \in Bursts
  /\ Regime = "free" \/ Quiet
  /\ RaiseIrq("IRQ0")
  /\ burst' = draw

SendDrawn ==
  /\ burst # <<>>
  /\ RaiseIrq(Head(burst))
  /\ burst' = Tail(burst)

interControllerSim == (\E draw \in Bursts : TimeSlice(draw)) \/ SendDrawn

------------------------------------------------------------------------------
KernelStep ==
  \/ CheckPaused \/ Pselect \/ PselectTimeout \/ StopCurrent
  \/ handle_syscall \/ ImpossibleSyscall \/ handle_irq \/ ResumeCurrent

SignalStep == \E tty \in BOOLEAN : manual_pause(tty) \/ manual_unpause(tty)

Next ==
  \/ KernelStep
  \/ SignalStep
  \/ \E p \in Procs : A(p)
  \/ interControllerSim
  \/ kpc \in Ended /\ UNCHANGED vars

Spec == Init /\ [][Next]_vars

\* The kernel's loop always goes on; a process that sleeps while it holds the CPU
\* wakes up in some slice of its own; the draws of the controller come out both
\* ways infinitely often.
Fairness ==
  /\ WF_vars(KernelStep)
  /\ \A p \in Procs : SF_vars(A(p))
  /\ WF_vars(interControllerSim)
  /\ \A draw \in {<<"IRQ1">>, <<"IRQ2">>} : SF_vars(TimeSlice(draw))

FairSpec == Spec /\ Fairness

------------------------------------------------------------------------------
\* Every variable keeps the type its C declaration gives it.
TypeOK ==
  /\ cpu \in State
  /\ pcb \in [Procs -> State]
  /\ readyQ \in Seq(Procs) /\ D1Q \in Seq(Procs) /\ D2Q \in Seq(Procs)
  /\ numDone \in 0..N
  /\ kpc \in {"top", "select", "stop", "syscall", "irq", "resume"} \cup Ended
  /\ pending \in [syscall : BOOLEAN, irq : BOOLEAN]
  /\ paused \in BOOLEAN /\ pauses \in Nat
  /\ running \subseteq Procs
  /\ syscallFifo \in Seq(SyscallArgs)
  /\ irqFifo \in Seq(IrqTypes)
  /\ loc \in [Procs -> {"start", "loop", "endOfIteration", "incrementing", "exiting",
                        "returning", "gone"}]
  /\ reg \in [Procs -> Int]
  /\ burst \in Bursts
  /\ iter \in [Procs -> Nat]

OnCpu == {cpu.pid} \ {NoProc}
Finished == {p \in Procs : pcb[p].current = "DONE"}
Waiting == Range(D1Q) \cup Range(D2Q)

\* The abstract scheduler, seen in this kernel's state.
Promise == INSTANCE Scheduler WITH
  current <- IF kpc = "exited" THEN NoProc ELSE cpu.pid,
  ready <- readyQ,
  blocked <- Waiting,
  done <- Finished \cup (IF kpc = "exited" THEN OnCpu ELSE {})

\* The kernel of trab1 keeps the promise that of trab2 keeps: handle_syscall and
\* the interrupt handlers (kernelSim.c:348-528) are the steps of Scheduler.
ImplementsScheduler == Promise!SchedulerSpec

\* At most the process that holds the CPU may run, and none while the kernel
\* handles an event ("somente permitir que um dos processos de aplicação rode em
\* um dado momento", relatorio.txt:15-16).
SingleRunner ==
  /\ running \subseteq OnCpu
  /\ kpc \in {"syscall", "irq", "resume"} => running = {}

\* state->PC counts the iterations of whoever holds the CPU, even for a process
\* stopped between the read and the write of PC++ (A.c:78, kernelSim.c:170-200).
ContextFaithful ==
  \A p \in Procs : /\ iter[p] = IF cpu.pid = p THEN cpu.PC ELSE pcb[p].PC
                   /\ loc[p] = "incrementing" => reg[p] = iter[p]

\* "check if current == WAITING_FOR_IO to see if this is valid" (state.h:16): the
\* recorded syscall of a process that waits names the queue it waits in, and
\* that of any other is the empty one.
SyscallValidIfWaiting ==
  /\ \A p \in Procs \ OnCpu : pcb[p].current = "WAITING_FOR_IO" <=> pcb[p].Dx # "NO_DEVICE"
  /\ \A p \in Procs \ OnCpu : p \in Range(D1Q) <=> pcb[p].Dx = "D1"
  /\ \A p \in Procs \ OnCpu : p \in Range(D2Q) <=> pcb[p].Dx = "D2"

\* The happy end comes only after every process did all its iterations and wrote
\* its own exit syscall, whoever the exits are charged to (kernelSim.c:387-392).
HappyEndIsReal ==
  kpc = "exited" => \A p \in Procs : loc[p] \in {"returning", "gone"} /\ iter[p] = MAX

\* With a kernel faster than the sleeps of A.c, what the kernel records of a
\* process is what the process did: one that waits wrote a syscall in this
\* iteration, one that is done wrote its exit, one that is ready or runs did not.
RecordIsReal ==
  Quiet => \A p \in Procs :
    /\ p \in Waiting => loc[p] = "endOfIteration"
    /\ p \in Finished <=> loc[p] \in {"returning", "gone"}

\* A process that waits for a device is released: there are no responses to lose.
\* Only a pause that is never lifted can keep it waiting.
WaiterIsReleased == \A p \in Procs : p \in Waiting ~> (p \notin Waiting \/ []paused)

\* "Quando todos os filhos já terminaram todas as iterações, o kernel termina
\* também" (relatorio.txt:63), and they all do, unless a pause is never lifted.
TerminatesUnlessPaused == <>(kpc = "exited") \/ <>[]paused
=============================================================================
