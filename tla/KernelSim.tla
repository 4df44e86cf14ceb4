------------------------------ MODULE KernelSim ------------------------------
(***************************************************************************)
(* The simulated kernel of trab2/kernelSim.c: its scheduling queues, the   *)
(* single simulated CPU kept in shared memory, the pselect loop of main()  *)
(* and every handler it calls, together with the most general environment  *)
(* the loop can meet (application processes, the interrupt controller, the *)
(* file server behind UDP, the terminal).                                  *)
(*                                                                         *)
(* A process is named by its position in process_states; its pid is that   *)
(* position, and NoProc stands for the pid -1 of an idle CPU.  The fields  *)
(* is_running, qt_syscalls and done of State, which nothing but            *)
(* print_state reads, are left out.                                        *)
(***************************************************************************)
EXTENDS Integers, Sequences, FiniteSets, FiniteSetsExt, Functions

CONSTANTS
  N,               \* NUM_APP_PROCESSES
  MAX,             \* iterations of an application process (A.c)
  FileOps,         \* RD and WR: served by IRQ1
  DirOps,          \* DL, DC and DR: served by IRQ2
  IrqFifoCap,      \* interrupts the irq FIFO holds before a writer blocks
  SyscallFifoCap,  \* syscalls the syscall FIFO holds before a writer blocks
  MaxSignals,      \* bound on the pauses and interrupts typed by the user
  MaxLoss,         \* bound on the UDP datagrams that get lost
  Regime           \* when an application may act: see MayRun

ASSUME NAssumption == N \in Nat \ {0}
ASSUME MAXAssumption == MAX \in Nat
ASSUME OpsAssumption == /\ FileOps \cap DirOps = {}
                        /\ {"NO_OPERATION", "EXIT"} \cap (FileOps \cup DirOps) = {}
ASSUME BoundsAssumption == /\ {IrqFifoCap, SyscallFifoCap} \subseteq Nat \ {0}
                           /\ {MaxSignals, MaxLoss} \subseteq Nat
ASSUME RegimeAssumption == Regime \in {"prompt", "paused", "free"}

Procs == 1..N
NoProc == 0
IoOps == FileOps \cup DirOps
IrqTypes == {"IRQ0", "IRQ1", "IRQ2"}

\* How the kernel ends; "undefined" is where it goes on with uninitialized syscall
\* arguments, after which nothing can be said of it.
Ended == {"exited", "failed", "killed", "undefined"}

\* A syscall in the FIFO; from, its writer, is not in the bytes the kernel reads.
SyscallArgs == [from : Procs, op : IoOps \cup {"EXIT"}]
\* An SfssRequest, and the SfssResponse that answers it (op says what it answers).
Message == [process_pos : Procs, op : IoOps]
NoResponse == [process_pos |-> NoProc, op |-> "NO_OPERATION"]

\* One State: resp is "EMPTY" or the operation current_response answers.
State == [pid : Procs \cup {NoProc},
          PC : -1..MAX,
          current : {"RUNNING", "READY", "WAITING_FOR_IO", "DONE", "IDLE"},
          op : IoOps \cup {"NO_OPERATION", "EXIT"},
          resp : IoOps \cup {"EMPTY"}]

VARIABLES
  cpu,          \* *state, the shared-memory CPU
  pcb,          \* process_states
  readyQ,       \* ready_queue
  irq1Q,        \* IRQ1_queue
  irq2Q,        \* IRQ2_queue
  fileRespQ,    \* file_response_queue
  dirRespQ,     \* dir_response_queue
  numDone,      \* num_children_done
  kpc,          \* where the loop of main() is
  pending,      \* readfds as pselect returned it
  paused,       \* paused
  signals,      \* SIGTSTPs that paused the kernel, and SIGINTs, so far (bound)
  running,      \* processes whose last signal was SIGCONT
  syscallFifo,  \* /tmp/syscall_fifo
  irqFifo,      \* /tmp/irq_fifo
  toSfss,       \* requests in flight to the file server
  toKernel,     \* responses in flight to the kernel
  lost,         \* history: messages dropped by the network
  discarded,    \* history: responses the kernel took and can never deliver
  iter          \* history: iterations each application has really finished

queues == <<readyQ, irq1Q, irq2Q, fileRespQ, dirRespQ>>
channels == <<syscallFifo, irqFifo, toSfss, toKernel>>
history == <<lost, discarded, iter>>
vars == <<cpu, pcb, queues, numDone, kpc, pending, paused, signals, running,
          channels, history>>

------------------------------------------------------------------------------
\* The queues of state.c: insert_end is Append; pop_start is Pop and Rest.
\* (A name with a suffix is a mutant of the definition it is named after.)
Rest_notUnlinked(q) == q
Pop(q) == IF q = <<>> THEN NoProc ELSE Head(q)
Rest(q) == IF q = <<>> THEN q ELSE Tail(q)

\* The idle CPU: current_response keeps what the last process left in it.
IdleCpu(st) == [pid |-> NoProc, PC |-> -1, current |-> "IDLE",
                op |-> "NO_OPERATION", resp |-> st.resp]

\* clear_syscall_args, and the delivery of response r that it ends.
clear_syscall_args(st) == [st EXCEPT !.op = "NO_OPERATION"]
Delivered_withoutResponse(st, r) == clear_syscall_args(st)
Delivered(st, r) == clear_syscall_args([st EXCEPT !.resp = r.op])

switch_context_PCLeft(prev, st, states, dest) ==
  /\ pcb' = IF st.pid # NoProc /\ prev # NoProc
              THEN [states EXCEPT ![prev] = st] ELSE states
  /\ cpu' = IF dest = NoProc THEN IdleCpu(st) ELSE [pcb'[dest] EXCEPT !.PC = st.PC]

\* Saves st as the state of prev, in the table states, and loads dest from it.
switch_context(prev, st, states, dest) ==
  /\ pcb' = IF st.pid # NoProc /\ prev # NoProc
              THEN [states EXCEPT ![prev] = st] ELSE states
  /\ cpu' = IF dest = NoProc THEN IdleCpu(st) ELSE pcb'[dest]

Hits_anyOwner(p, q) == {k \in 1..Len(q) : k <= N}

\* The positions, among those its N tries reach, where q answers p.
Hits(p, q) == {k \in 1..Len(q) : k <= N /\ q[k].process_pos = p}

Reached_head(p, q) == 1

\* The position of the response left in the caller's hand when the search ends:
\* the first hit, or, after N rotations without one, the next in the ring.
Reached(p, q) == IF Hits(p, q) # {} THEN Min(Hits(p, q)) ELSE (N % Len(q)) + 1

\* The search pops, and puts back at the end, every response before the one it
\* stops at: the queue that is left starts after it and wraps around.
find_response_from_process(p, q) ==
  IF q = <<>> THEN [found |-> FALSE, popped |-> NoResponse, queue |-> q]
  ELSE LET k == Reached(p, q)
       IN [found |-> Hits(p, q) # {},
           popped |-> q[k],
           queue |-> SubSeq(q, k + 1, Len(q)) \o SubSeq(q, 1, k - 1)]

------------------------------------------------------------------------------
InitialState(p) == [pid |-> p, PC |-> 0, current |-> "READY",
                    op |-> "NO_OPERATION", resp |-> "EMPTY"]

\* main() up to its loop: position 1 is loaded and continued, the rest is ready.
Init ==
  /\ pcb = [p \in Procs |-> InitialState(p)]
  /\ cpu = [InitialState(1) EXCEPT !.current = "RUNNING"]
  /\ readyQ = SubSeq([p \in Procs |-> p], 2, N)
  /\ irq1Q = <<>> /\ irq2Q = <<>>
  /\ fileRespQ = <<>> /\ dirRespQ = <<>>
  /\ numDone = 0
  /\ kpc = "top"
  /\ pending = [udp |-> FALSE, syscall |-> FALSE, irq |-> FALSE]
  /\ paused = FALSE /\ signals = 0
  /\ running = {1}
  /\ syscallFifo = <<>> /\ irqFifo = <<>>
  /\ toSfss = {} /\ toKernel = {}
  /\ lost = {} /\ discarded = {}
  /\ iter = [p \in Procs |-> 0]

------------------------------------------------------------------------------
(***************************************************************************)
(* The loop of main().                                                     *)
(***************************************************************************)
AfterSyscall == IF pending.irq THEN "irq" ELSE "resume"
AfterUdp_irqFirst == IF pending.irq THEN "irq"
                     ELSE IF pending.syscall THEN "syscall" ELSE "resume"
AfterUdp == IF pending.syscall THEN "syscall" ELSE AfterSyscall
AfterStop_noUdp == AfterUdp
AfterStop == IF pending.udp THEN "udp" ELSE AfterUdp

\* if (paused) { sleep(1); continue; }
CheckPaused ==
  /\ kpc = "top" /\ ~paused
  /\ kpc' = "select"
  /\ UNCHANGED <<cpu, pcb, queues, numDone, pending, paused, signals, running,
                 channels, history>>

\* pselect returns with what is readable at that moment: the syscall FIFO also
\* when it is hung up, that is, at its end because its last writer closed it.
Pselect(hungUp) ==
  /\ kpc = "select"
  /\ pending' = [udp |-> toKernel # {}, syscall |-> syscallFifo # <<>> \/ hungUp,
                 irq |-> irqFifo # <<>>]
  /\ \E f \in DOMAIN pending' : pending'[f]
  /\ kpc' = "stop"
  /\ UNCHANGED <<cpu, pcb, queues, numDone, paused, signals, running,
                 channels, history>>

\* pselect returns 0 after five seconds without an event.
PselectTimeout(hungUp) ==
  /\ kpc = "select" /\ ~hungUp
  /\ syscallFifo = <<>> /\ irqFifo = <<>> /\ toKernel = {}
  /\ kpc' = "top"
  /\ UNCHANGED <<cpu, pcb, queues, numDone, pending, paused, signals, running,
                 channels, history>>

StopCurrent_forgotten ==
  /\ kpc = "stop"
  /\ kpc' = AfterStop
  /\ UNCHANGED <<cpu, pcb, queues, numDone, pending, paused, signals, running,
                 channels, history>>

\* SIGSTOP to the process that holds the CPU.
StopCurrent ==
  /\ kpc = "stop"
  /\ running' = running \ {cpu.pid}
  /\ kpc' = AfterStop
  /\ UNCHANGED <<cpu, pcb, queues, numDone, pending, paused, signals,
                 channels, history>>

\* RUNNING and SIGCONT to the process that holds the CPU, if any does.
ResumeCurrent ==
  /\ kpc = "resume"
  /\ IF cpu.pid = NoProc
       THEN UNCHANGED <<cpu, running>>
       ELSE /\ cpu' = [cpu EXCEPT !.current = "RUNNING"]
            /\ running' = running \cup {cpu.pid}
  /\ kpc' = "top"
  /\ pending' = [udp |-> FALSE, syscall |-> FALSE, irq |-> FALSE]
  /\ UNCHANGED <<pcb, queues, numDone, paused, signals, channels, history>>

------------------------------------------------------------------------------
(***************************************************************************)
(* The handlers.                                                           *)
(***************************************************************************)
\* The operation the owner of a response is recorded to wait for.
OriginalOp_printed(r) == pcb[(r.process_pos % N) + 1].op
OriginalOp(r) == pcb[r.process_pos].op

\* A datagram is queued by the device of its owner's operation.
handle_udp_response ==
  /\ kpc = "udp"
  /\ \E r \in toKernel :
       LET original_op == OriginalOp(r)
       IN /\ toKernel' = toKernel \ {r}
          /\ fileRespQ' = IF original_op \in FileOps THEN Append(fileRespQ, r)
                                                     ELSE fileRespQ
          /\ dirRespQ' = IF original_op \in DirOps THEN Append(dirRespQ, r)
                                                   ELSE dirRespQ
          /\ discarded' = IF original_op \in IoOps THEN discarded
                                                   ELSE discarded \cup {r}
  /\ kpc' = AfterUdp
  /\ UNCHANGED <<cpu, pcb, readyQ, irq1Q, irq2Q, numDone, pending, paused,
                 signals, running, syscallFifo, irqFifo, toSfss, lost, iter>>

\* The caller blocks on the device queue of its operation and a request leaves.
Block(op) ==
  /\ irq1Q' = IF op \in FileOps THEN Append(irq1Q, cpu.pid) ELSE irq1Q
  /\ irq2Q' = IF op \in DirOps THEN Append(irq2Q, cpu.pid) ELSE irq2Q
  /\ toSfss' = toSfss \cup {[process_pos |-> cpu.pid, op |-> op]}
  /\ switch_context(cpu.pid,
                    [cpu EXCEPT !.op = op, !.current = "WAITING_FOR_IO"],
                    pcb, Pop(readyQ))
  /\ kpc' = AfterSyscall
  /\ UNCHANGED numDone

AllDone_early(n) == n >= N - 1
AllDone_late(n) == n > N
AllDone(n) == n = N

\* The exit syscall: the last one ends the kernel before any switch.
Finish ==
  LET done == [cpu EXCEPT !.op = "EXIT", !.current = "DONE"]
  IN /\ numDone' = numDone + 1
     /\ IF AllDone(numDone + 1)
          THEN cpu' = done /\ pcb' = pcb /\ kpc' = "exited"
          ELSE /\ switch_context(cpu.pid, done, pcb, Pop(readyQ))
               /\ kpc' = AfterSyscall
     /\ UNCHANGED <<irq1Q, irq2Q, toSfss>>

\* A syscall read while a process holds the CPU is taken to be that process's.
handle_syscall ==
  /\ kpc = "syscall"
  /\ cpu.pid # NoProc
  /\ syscallFifo # <<>>
  /\ LET op == Head(syscallFifo).op
     IN \/ op \in IoOps /\ Block(op)
        \/ op = "EXIT" /\ Finish
  /\ syscallFifo' = Tail(syscallFifo)
  /\ readyQ' = Rest(readyQ)
  /\ UNCHANGED <<fileRespQ, dirRespQ, pending, paused, signals, running,
                 irqFifo, toKernel, history>>

\* The "situação impossível": a syscall is readable and the CPU is idle.
ImpossibleSyscall ==
  /\ kpc = "syscall"
  /\ cpu.pid = NoProc
  /\ kpc' = "failed"
  /\ UNCHANGED <<cpu, pcb, queues, numDone, pending, paused, signals, running,
                 channels, history>>

\* pselect reported a syscall and the FIFO has none: at its end the read returns
\* 0 and args stays uninitialized; if a process has just opened the FIFO the read
\* is refused (EAGAIN) and the kernel gives up.
EmptyRead(hungUp) ==
  /\ kpc = "syscall"
  /\ cpu.pid # NoProc
  /\ syscallFifo = <<>>
  /\ kpc' = IF hungUp THEN "undefined" ELSE "failed"
  /\ UNCHANGED <<cpu, pcb, queues, numDone, pending, paused, signals, running,
                 channels, history>>

handle_irq0_timeslice ==
  /\ Head(irqFifo) = "IRQ0"
  /\ IF cpu.pid = NoProc \/ readyQ = <<>>
       THEN UNCHANGED <<cpu, pcb, readyQ>>
       ELSE /\ readyQ' = Append(Rest(readyQ), cpu.pid)
            /\ switch_context(cpu.pid, [cpu EXCEPT !.current = "READY"],
                              pcb, Pop(readyQ))
  /\ UNCHANGED <<irq1Q, irq2Q, fileRespQ, dirRespQ, discarded>>

\* The process on the CPU, if any, becomes the last ready one.
PreemptInto_unchecked(q) == Append(q, cpu.pid)
PreemptInto_first(q) == IF cpu.pid = NoProc THEN q ELSE <<cpu.pid>> \o q
PreemptInto(q) == IF cpu.pid = NoProc THEN q ELSE Append(q, cpu.pid)

\* The common body of the device handlers: ioQ waits for the answers in respQ.
DeviceIrq(ioQ, respQ) ==
  LET io == Pop(ioQ)
      search == find_response_from_process(io, respQ)
      preempted == IF cpu.pid = NoProc THEN cpu ELSE [cpu EXCEPT !.current = "READY"]
  IN \/ /\ ioQ = <<>>
        /\ UNCHANGED <<ioQ, respQ, cpu, pcb, readyQ, discarded>>
     \/ /\ ioQ # <<>> /\ ~search.found
        /\ ioQ' = Append(Rest(ioQ), io)
        /\ respQ' = search.queue
        /\ discarded' = discarded \cup ({search.popped} \ {NoResponse})
        /\ cpu' = preempted
        /\ UNCHANGED <<pcb, readyQ>>
     \/ /\ ioQ # <<>> /\ search.found
        /\ ioQ' = Rest(ioQ)
        /\ respQ' = search.queue
        /\ switch_context(cpu.pid, preempted,
                          [pcb EXCEPT ![io] = Delivered(@, search.popped)], io)
        /\ readyQ' = PreemptInto(readyQ)
        /\ UNCHANGED discarded

handle_irq1_device ==
  /\ Head(irqFifo) = "IRQ1"
  /\ DeviceIrq(irq1Q, fileRespQ)
  /\ UNCHANGED <<irq2Q, dirRespQ>>

handle_irq2_device ==
  /\ Head(irqFifo) = "IRQ2"
  /\ DeviceIrq(irq2Q, dirRespQ)
  /\ UNCHANGED <<irq1Q, fileRespQ>>

handle_irq ==
  /\ kpc = "irq"
  /\ irqFifo # <<>>
  /\ irqFifo' = Tail(irqFifo)
  /\ handle_irq0_timeslice \/ handle_irq1_device \/ handle_irq2_device
  /\ kpc' = "resume"
  /\ UNCHANGED <<numDone, pending, paused, signals, running, syscallFifo,
                 toSfss, toKernel, lost, iter>>

------------------------------------------------------------------------------
(***************************************************************************)
(* Signals.  A SIGTSTP typed at the terminal (tty) also reaches the        *)
(* application that runs, which stops; one sent to the kernel alone does   *)
(* not.  It may interrupt pselect (EINTR), or arrive just before the call. *)
(***************************************************************************)
AfterSignal == IF kpc = "select" THEN {"select", "top"} ELSE {kpc}

manual_pause(tty) ==
  /\ kpc \notin Ended /\ ~paused /\ signals < MaxSignals
  /\ paused' = TRUE
  /\ signals' = signals + 1
  /\ kpc' \in AfterSignal
  /\ running' = IF tty THEN {} ELSE running
  /\ UNCHANGED <<cpu, pcb, queues, numDone, pending, channels, history>>

manual_unpause_continues(tty) ==
  /\ kpc \notin Ended /\ paused
  /\ paused' = FALSE
  /\ kpc' \in AfterSignal
  /\ running' = {cpu.pid} \ {NoProc}
  /\ UNCHANGED <<cpu, pcb, queues, numDone, pending, signals, channels, history>>

manual_unpause(tty) ==
  /\ kpc \notin Ended /\ paused
  /\ paused' = FALSE
  /\ kpc' \in AfterSignal
  /\ running' = IF tty THEN {} ELSE running
  /\ UNCHANGED <<cpu, pcb, queues, numDone, pending, signals, channels, history>>

\* SIGINT: every process is killed and the kernel ends.
handle_ctrl_c ==
  /\ kpc \notin Ended /\ signals < MaxSignals
  /\ signals' = signals + 1
  /\ kpc' = "killed"
  /\ running' = {}
  /\ UNCHANGED <<cpu, pcb, queues, numDone, pending, paused, channels, history>>

------------------------------------------------------------------------------
(***************************************************************************)
(* The environment.                                                        *)
(***************************************************************************)
\* The kernel has no event to handle: it is blocked in pselect, or about to be.
Quiet == /\ kpc \in {"top", "select"} /\ ~paused
         /\ syscallFifo = <<>> /\ irqFifo = <<>> /\ toKernel = {}

\* The hypotheses on timing.  "prompt": a process that is woken by an event the
\* kernel has yet to handle does not act before the kernel stops it.  The sleeps
\* of half a second make that likely; nothing in the code enforces it.
\* "paused": prompt, except while the kernel sleeps in a manual pause.
\* "free": none, the scheduling of the host is arbitrary.
MayRun(p) == /\ p \in running /\ kpc \notin Ended
             /\ \/ Quiet
                \/ Regime = "paused" /\ paused
                \/ Regime = "free"

\* syscall_sim of A.c: a write into the syscall FIFO.
WriteSyscall(p, op) ==
  /\ Len(syscallFifo) < SyscallFifoCap
  /\ syscallFifo' = Append(syscallFifo, [from |-> p, op |-> op])
  /\ UNCHANGED <<cpu, pcb, queues, numDone, kpc, pending, paused, signals,
                 running, irqFifo, toSfss, toKernel, history>>

IterationsLeft_oneMore == cpu.PC <= MAX
IterationsLeft == cpu.PC < MAX

\* The end of an iteration: state->PC++ in the shared memory.
AdvancePC(p) ==
  /\ IterationsLeft
  /\ cpu' = [cpu EXCEPT !.PC = @ + 1]
  /\ iter' = [iter EXCEPT ![p] = @ + 1]
  /\ UNCHANGED <<pcb, queues, numDone, kpc, pending, paused, signals, running,
                 channels, lost, discarded>>

\* print_response of A.c: the response is read and its ret_code set to EMPTY.
ConsumeResponse ==
  /\ cpu.resp # "EMPTY"
  /\ cpu' = [cpu EXCEPT !.resp = "EMPTY"]
  /\ UNCHANGED <<pcb, queues, numDone, kpc, pending, paused, signals, running,
                 channels, history>>

AppStep(p) ==
  /\ MayRun(p)
  /\ \/ \E op \in IoOps \cup {"EXIT"} : WriteSyscall(p, op)
     \/ AdvancePC(p)
     \/ ConsumeResponse

\* The interrupt controller, stopped while the kernel is paused.
RaiseIrq(irq) ==
  /\ kpc \notin Ended /\ ~paused
  /\ Len(irqFifo) < IrqFifoCap
  /\ irqFifo' = Append(irqFifo, irq)
  /\ UNCHANGED <<cpu, pcb, queues, numDone, kpc, pending, paused, signals,
                 running, syscallFifo, toSfss, toKernel, history>>

\* The file server takes a request and answers it with the owner it carries.
SfssReply(r) ==
  /\ kpc \notin Ended
  /\ r \in toSfss
  /\ toSfss' = toSfss \ {r}
  /\ toKernel' = toKernel \cup {r}
  /\ UNCHANGED <<cpu, pcb, queues, numDone, kpc, pending, paused, signals,
                 running, syscallFifo, irqFifo, history>>

\* UDP loses a request, or the response before it reaches the kernel's socket.
LoseMessage(r) ==
  /\ kpc \notin Ended
  /\ Cardinality(lost) < MaxLoss
  /\ r \in toSfss
  /\ toSfss' = toSfss \ {r}
  /\ lost' = lost \cup {r}
  /\ UNCHANGED <<cpu, pcb, queues, numDone, kpc, pending, paused, signals,
                 running, syscallFifo, irqFifo, toKernel, discarded, iter>>

------------------------------------------------------------------------------
KernelStep(hungUp) ==
  \/ CheckPaused \/ Pselect(hungUp) \/ PselectTimeout(hungUp) \/ StopCurrent
  \/ handle_udp_response \/ handle_syscall \/ ImpossibleSyscall
  \/ EmptyRead(hungUp) \/ handle_irq \/ ResumeCurrent

SignalStep == \/ \E tty \in BOOLEAN : manual_pause(tty) \/ manual_unpause(tty)
              \/ handle_ctrl_c

NetworkStep == \E r \in toSfss : SfssReply(r) \/ LoseMessage(r)

\* Unless the scheduling is free, no process exits before all have opened the
\* FIFO (each lives through many slices), and so it never hangs up.
HangUps == IF Regime = "free" THEN BOOLEAN ELSE {FALSE}

Next ==
  \/ \E hungUp \in HangUps : KernelStep(hungUp)
  \/ SignalStep
  \/ NetworkStep
  \/ \E p \in Procs : AppStep(p)
  \/ \E irq \in IrqTypes : RaiseIrq(irq)
  \/ kpc \in Ended /\ UNCHANGED vars

Spec == Init /\ [][Next]_vars

------------------------------------------------------------------------------
\* Every variable keeps the type its C declaration gives it.
TypeOK ==
  /\ cpu \in State
  /\ pcb \in [Procs -> State]
  /\ readyQ \in Seq(Procs) /\ irq1Q \in Seq(Procs) /\ irq2Q \in Seq(Procs)
  /\ fileRespQ \in Seq(Message) /\ dirRespQ \in Seq(Message)
  /\ numDone \in 0..N
  /\ kpc \in {"top", "select", "stop", "udp", "syscall", "irq", "resume"} \cup Ended
  /\ pending \in [udp : BOOLEAN, syscall : BOOLEAN, irq : BOOLEAN]
  /\ paused \in BOOLEAN /\ signals \in Nat
  /\ running \subseteq Procs
  /\ syscallFifo \in Seq(SyscallArgs)
  /\ irqFifo \in Seq(IrqTypes)
  /\ toSfss \subseteq Message /\ toKernel \subseteq Message
  /\ lost \subseteq Message /\ discarded \subseteq Message
  /\ iter \in [Procs -> Nat]

\* Where a process can be: on the CPU, in a queue, or recorded as done.
OnCpu == {cpu.pid} \ {NoProc}
Finished == {p \in Procs : pcb[p].current = "DONE"}
Places == <<OnCpu, Range(readyQ), Range(irq1Q), Range(irq2Q), Finished>>

\* No process is ever lost by the scheduler, nor is in two places at once: each
\* is on the CPU, in one queue exactly once, or done (the pops and insertions of
\* every handler of kernelSim.c:418-652, of which several leave early).
ExactlyOnePlace ==
  /\ \A q \in {readyQ, irq1Q, irq2Q} : IsInjective(q)
  /\ LET places == Places
     IN /\ \A i, j \in 1..5 : i # j => places[i] \cap places[j] = {}
        /\ UNION Range(places) = Procs

\* The CPU is idle only when no process is ready (kernelSim.c:469, :490, :576).
WorkConserving == cpu.pid = NoProc => readyQ = <<>>

\* At most the process that holds the CPU may run, and none while the kernel
\* handles an event ("somente permitir que um dos processos de aplicação rode
\* em um dado momento", relatorio.md:28), with pauses at any point.
SingleRunner ==
  /\ running \subseteq OnCpu
  /\ kpc \in {"udp", "syscall", "irq", "resume", "killed"} => running = {}

Waiting == Range(irq1Q) \cup Range(irq2Q)
Owned(p, S) == {r \in S : r.process_pos = p}
AtMostOne(q, p) == \A i, j \in DOMAIN q :
                     q[i].process_pos = p /\ q[j].process_pos = p => i = j

\* A process that waits has at most one message under way, counting requests,
\* datagrams and queued responses; it answers the syscall recorded for it; and
\* it is never in the response queue of the other device (the routing by
\* current_syscall at kernelSim.c:258 never reads a stale operation).
OneMessagePerWaiter ==
  LET stages == <<toSfss, toKernel, Range(fileRespQ), Range(dirRespQ)>>
  IN \A p \in Procs :
       /\ Cardinality(UNION {Owned(p, stages[i]) : i \in 1..4}) <= 1
       /\ \A i, j \in 1..4 : i # j => Owned(p, stages[i]) \cap Owned(p, stages[j]) = {}
       /\ AtMostOne(fileRespQ, p) /\ AtMostOne(dirRespQ, p)
       /\ \A i \in 1..4 : \A r \in Owned(p, stages[i]) : p \in Waiting /\ r.op = pcb[p].op
       /\ Owned(p, Range(fileRespQ)) # {} => p \in Range(irq1Q)
       /\ Owned(p, Range(dirRespQ)) # {} => p \in Range(irq2Q)

\* A process that waits still has an answer coming, unless the network lost the
\* message or find_response_from_process threw the response away.
WaiterIsAnswerable ==
  \A p \in Waiting :
    [process_pos |-> p, op |-> pcb[p].op] \in
      toSfss \cup toKernel \cup Range(fileRespQ) \cup Range(dirRespQ) \cup lost \cup discarded

\* The program counter a process finds when it gets the CPU back is the number
\* of iterations it has done: no save or load of switch_context
\* (kernelSim.c:124-147) mixes two contexts, or runs while a process does.
ContextFaithful ==
  \A p \in Procs : iter[p] = IF cpu.pid = p THEN cpu.PC ELSE pcb[p].PC

\* num_children_done counts the processes recorded as done, so the kernel ends
\* happily (kernelSim.c:462-466) exactly when the last of them exits.
DoneCount ==
  /\ numDone = Cardinality(Finished) + (IF kpc = "exited" THEN 1 ELSE 0)
  /\ kpc = "exited" <=> numDone = N

\* A process that leaves a device queue takes the CPU with the response to its
\* own pending syscall (kernelSim.c:535-542, :566-573, :608-615, :639-646).
ReleasedWithItsResponse ==
  [][\A p \in Waiting : p \notin Waiting' =>
       /\ cpu'.pid = p
       /\ cpu'.resp = pcb[p].op
       /\ Owned(p, UNION {toSfss', toKernel', Range(fileRespQ'), Range(dirRespQ')}) = {}]_vars

\* The abstract scheduler, seen in the kernel's state: the process whose exit
\* ended the kernel is done, although it was never saved to process_states.
Promise == INSTANCE Scheduler WITH
  current <- IF kpc = "exited" THEN NoProc ELSE cpu.pid,
  ready <- readyQ,
  blocked <- Waiting,
  done <- Finished \cup (IF kpc = "exited" THEN OnCpu ELSE {})

\* Whatever the interleaving of syscalls, interrupts, datagrams and signals, the
\* kernel schedules as Scheduler promises: first come first served among the
\* ready, at once for a process whose response arrived, and a device queue
\* rotated for want of a response (kernelSim.c:529, :560) changes nothing.
ImplementsScheduler == Promise!SchedulerSpec

\* With a kernel that stops a process before it acts again, the syscall the
\* kernel reads was written by the process it attributes it to (kernelSim.c:426).
SyscallFromCurrent ==
  kpc = "syscall" => cpu.pid # NoProc /\ Head(syscallFifo).from = cpu.pid

\* "situação impossível: cpu está idle e acabei de receber uma syscall!"
\* (kernelSim.c:422): the kernel never ends that way.
ImpossibleNeverHappens == kpc # "failed"

\* "esse processo vai para o fim da fila de IRQ em que estava, para que em algum
\* momento futuro tente receber sua resposta novamente" (relatorio.md:79): a
\* response the kernel received stays available until its owner takes it.
ResponseNeverDiscarded == discarded = {}
=============================================================================
