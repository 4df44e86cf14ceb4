------------------------------ MODULE Scheduler ------------------------------
(***************************************************************************)
(* What the kernel promises of one CPU shared by processes that block: a   *)
(* process gives the CPU up by blocking, by finishing, or to the process   *)
(* that has been ready for longest; one whose input or output is over      *)
(* takes the CPU at once, and the process it preempts becomes the last of  *)
(* the ready ones.  Queues of devices, messages, FIFOs and signals are     *)
(* below this level.                                                       *)
(***************************************************************************)
EXTENDS Integers, Sequences

CONSTANT N

VARIABLES
  current,  \* the process that holds the CPU, 0 if it is idle
  ready,    \* the processes that may take it, longest ready first
  blocked,  \* those that wait for a device
  done      \* those that have finished

schedulerVars == <<current, ready, blocked, done>>

SchedulerInit ==
  /\ current = 1
  /\ ready = SubSeq([p \in 1..N |-> p], 2, N)
  /\ blocked = {}
  /\ done = {}

\* The CPU goes to the process that is first in line, or becomes idle.
Dispatch ==
  IF ready = <<>> THEN current' = 0 /\ ready' = ready
                  ELSE current' = Head(ready) /\ ready' = Tail(ready)

BlockCurrent ==
  /\ current # 0
  /\ blocked' = blocked \cup {current}
  /\ Dispatch
  /\ UNCHANGED done

\* The last process to finish leaves the CPU to nobody.
FinishCurrent ==
  /\ current # 0
  /\ done' = done \cup {current}
  /\ Dispatch
  /\ UNCHANGED blocked

Rotate ==
  /\ current # 0 /\ ready # <<>>
  /\ current' = Head(ready)
  /\ ready' = Append(Tail(ready), current)
  /\ UNCHANGED <<blocked, done>>

Unblock(p) ==
  /\ p \in blocked
  /\ blocked' = blocked \ {p}
  /\ current' = p
  /\ ready' = IF current = 0 THEN ready ELSE Append(ready, current)
  /\ UNCHANGED done

SchedulerNext == BlockCurrent \/ FinishCurrent \/ Rotate \/ \E p \in blocked : Unblock(p)

SchedulerSpec == SchedulerInit /\ [][SchedulerNext]_schedulerVars
=============================================================================
