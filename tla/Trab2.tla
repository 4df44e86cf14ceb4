-------------------------------- MODULE Trab2 --------------------------------
(***************************************************************************)
(* The whole of trab2: the kernel of KernelSim with, in place of its       *)
(* general environment, the application processes of A.c, the interrupt    *)
(* controller of interControllerSim.c and the file server's request loop   *)
(* (NetworkStep).  The processes interact through the shared-memory CPU,   *)
(* the two FIFOs, UDP and signals, which are variables of KernelSim.       *)
(***************************************************************************)
EXTENDS KernelSim

\* Listing a directory, which every process starts with, is a directory operation.
ASSUME ListingAssumption == "DL" \in DirOps

VARIABLES
  loc,    \* where main() of each A process is
  asked,  \* the local op of A: the operation of its last syscall
  burst   \* interrupts the controller has drawn and not yet written

kernelVars == vars
apps == <<loc, asked>>
allVars == <<vars, apps, burst>>

\* A process is stopped as soon as it is forked: before its open() of the syscall
\* FIFO, or inside it, where it may have been let through.
SystemInit ==
  /\ Init
  /\ loc \in [Procs -> {"opening", "start"}]
  /\ asked = [p \in Procs |-> "NO_OPERATION"]
  /\ burst = <<>>

------------------------------------------------------------------------------
(***************************************************************************)
(* A.c.  A nanosleep comes before every step but the opening, the first    *)
(* listing, the exit syscall and the return after it.                      *)
(***************************************************************************)
Goto(p, from, to) ==
  /\ MayRun(p)
  /\ loc[p] = from
  /\ loc' = [loc EXCEPT ![p] = to]

\* open(SYSCALL_FIFO_PATH, O_WRONLY): the kernel has the other end by now.
OpenFifo(p) ==
  /\ Goto(p, "opening", "start")
  /\ UNCHANGED <<kernelVars, asked>>

\* syscall_sim(args_init): the listing every process starts with.
InitialListing(p) ==
  /\ Goto(p, "start", "afterListing")
  /\ WriteSyscall(p, "DL")
  /\ asked' = [asked EXCEPT ![p] = "DL"]

\* maybe_syscall: a syscall with probability SYSCALL_PROBABILITY, else nothing.
maybe_syscall(p) ==
  /\ IterationsLeft
  /\ Goto(p, "loop", "afterSyscall")
  /\ \E op \in IoOps \cup {"NO_OPERATION"} :
       /\ asked' = [asked EXCEPT ![p] = op]
       /\ IF op = "NO_OPERATION" THEN UNCHANGED kernelVars ELSE WriteSyscall(p, op)

\* After the sleep that follows a syscall: print_response if there is one.
print_response(p) ==
  /\ \/ Goto(p, "afterListing", "loop")
     \/ Goto(p, "afterSyscall", "endOfIteration")
  /\ IF asked[p] # "NO_OPERATION" /\ cpu.resp # "EMPTY"
       THEN ConsumeResponse ELSE UNCHANGED kernelVars
  /\ UNCHANGED asked

EndIteration(p) ==
  /\ Goto(p, "endOfIteration", "loop")
  /\ AdvancePC(p)
  /\ UNCHANGED asked

\* The fake exit syscall.
ExitSyscall(p) ==
  /\ ~IterationsLeft
  /\ Goto(p, "loop", "returning")
  /\ WriteSyscall(p, "EXIT")
  /\ UNCHANGED asked

\* The return, with no sleep before it, closes the process's end of the FIFO.
Return(p) ==
  /\ p \in running /\ kpc \notin Ended
  /\ Regime = "free" \/ \A q \in Procs : loc[q] # "opening"
  /\ loc[p] = "returning"
  /\ loc' = [loc EXCEPT ![p] = "gone"]
  /\ UNCHANGED <<kernelVars, asked>>

A(p) == \/ OpenFifo(p) \/ InitialListing(p) \/ maybe_syscall(p) \/ print_response(p)
        \/ EndIteration(p) \/ ExitSyscall(p) \/ Return(p)

------------------------------------------------------------------------------
(***************************************************************************)
(* interControllerSim.c: IRQ0 after every sleep, then IRQ1 with            *)
(* probability P_1, then IRQ2 with probability P_2; a write blocks while   *)
(* the FIFO is full.  The controller sleeps half a second too, so it       *)
(* starts a burst only when the kernel has nothing to do, unless the       *)
(* scheduling of the host is free.                                         *)
(***************************************************************************)
Bursts == {<<>>, <<"IRQ1">>, <<"IRQ2">>, <<"IRQ1", "IRQ2">>}

TimeSlice(draw) ==
  /\ burst = <<>>
  /\ Regime = "free" \/ Quiet
  /\ RaiseIrq("IRQ0")
  /\ burst' = draw

SendDrawn ==
  /\ burst # <<>>
  /\ RaiseIrq(Head(burst))
  /\ burst' = Tail(burst)

interControllerSim == (\E draw \in Bursts : TimeSlice(draw)) \/ SendDrawn

------------------------------------------------------------------------------
\* The FIFO is at its end when every process that opened it has closed it; a FIFO
\* that nobody has opened yet is merely empty.
HungUp == (\E p \in Procs : loc[p] = "gone")
          /\ \A p \in Procs : loc[p] \in {"opening", "gone"}

SystemNext ==
  \/ (KernelStep(HungUp) \/ SignalStep \/ NetworkStep) /\ UNCHANGED <<apps, burst>>
  \/ (\E p \in Procs : A(p)) /\ UNCHANGED burst
  \/ interControllerSim /\ UNCHANGED apps
  \/ kpc \in Ended /\ UNCHANGED allVars

\* The kernel's loop and the file server always go on; a process that sleeps
\* while it holds the CPU wakes up in some slice of its own; the draws of the
\* controller come out both ways infinitely often.
Fairness ==
  /\ WF_allVars(KernelStep(HungUp) /\ UNCHANGED <<apps, burst>>)
  /\ WF_allVars((\E r \in toSfss : SfssReply(r)) /\ UNCHANGED <<apps, burst>>)
  /\ \A p \in Procs : SF_allVars(A(p) /\ UNCHANGED burst)
  /\ WF_allVars(interControllerSim /\ UNCHANGED apps)
  /\ \A draw \in {<<"IRQ1">>, <<"IRQ2">>} : SF_allVars(TimeSlice(draw) /\ UNCHANGED apps)

SystemSpec == SystemInit /\ [][SystemNext]_allVars
FairSystemSpec == SystemSpec /\ Fairness

------------------------------------------------------------------------------
\* The environment KernelSim assumes covers what trab2 really does, the hang-ups
\* of the FIFO included: what is proved of KernelSim holds of the whole system.
ImplementsKernelSim == Spec

\* "garantir que o processo sempre recebe a resposta do pedido que fez": when a
\* process gets to look at current_response after a syscall (A.c:248, :258), the
\* response to that very syscall is there, as the sleep "para garantir que o
\* kernel processe antes do loop" (A.c:246) wants.
ResponseForMyRequest ==
  \A p \in Procs :
    /\ MayRun(p)
    /\ loc[p] \in {"afterListing", "afterSyscall"}
    /\ asked[p] # "NO_OPERATION"
    => cpu.pid = p /\ cpu.resp = asked[p]

\* "if (syscall_pending) // someone made a syscall" (kernelSim.c:781) does not
\* always hold: the FIFO is readable at its end too. What makes the kernel read
\* there is a process that starts so late that the others have come and gone,
\* never the exits of all: whoever the kernel charges them to, it ends with the
\* last of them (kernelSim.c:462-466).
EndOfFileIsALateStart ==
  kpc = "syscall" /\ syscallFifo = <<>> =>
    \E p \in Procs : loc[p] \in {"opening", "start"}

\* The happy end comes only after every process wrote its own exit syscall.
HappyEndIsReal ==
  kpc = "exited" => \A p \in Procs : loc[p] \in {"returning", "gone"} /\ iter[p] = MAX

Broken == lost # {} \/ discarded # {}

\* A process that waits gets its response, unless a message was lost on the way
\* or thrown away (kernelSim.c:523, :596: the retry at the end of the queue).
WaiterIsReleased ==
  \A p \in Procs : p \in Waiting ~> (p \notin Waiting \/ Broken)

\* "Quando todos os filhos já terminaram todas as iterações, o kernel termina
\* também" (relatorio.md:127), when no message was lost or thrown away.
TerminatesUnlessBroken == <>(kpc = "exited" \/ Broken)
=============================================================================
