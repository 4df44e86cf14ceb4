-------------------------------- MODULE SysVSem --------------------------------
(***************************************************************************)
(* System V semaphores as the lab7 programs use them, always with          *)
(* SEM_UNDO: the kernel keeps, per process and semaphore, the adjustment   *)
(* that would undo what the process did, applies it when the process ends, *)
(* and refuses an operation whose adjustment would leave its range.        *)
(***************************************************************************)
EXTENDS Integers

CONSTANTS SEMVMX,  \* largest value of a semaphore (32767)
          SEMAEM   \* largest adjustment (32767)

ASSUME SemAssumption == {SEMVMX, SEMAEM} \subseteq Nat \ {0}

Adjustments == -SEMAEM - 1..SEMAEM

\* semop(op) on a semaphore of value v by a process with adjustment a.
MustWait(v, op) == v + op < 0
InRange(v, a, op) == v + op <= SEMVMX /\ a - op \in Adjustments
Done(v, a, op) == ~MustWait(v, op) /\ InRange(v, a, op)
Refused(v, a, op) == ~MustWait(v, op) /\ ~InRange(v, a, op)

\* semctl(SETVAL) refuses a negative value.
Settable(value) == value \in 0..SEMVMX

\* The value of a semaphore after the exit of a process with adjustment a.
Undone(v, a) == IF v + a < 0 THEN 0 ELSE IF v + a > SEMVMX THEN SEMVMX ELSE v + a
=============================================================================
