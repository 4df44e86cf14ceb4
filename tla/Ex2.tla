---------------------------------- MODULE Ex2 ----------------------------------
(***************************************************************************)
(* lab7/ex2.c: the Leitor (the parent) puts each character it reads into a *)
(* free place of a shared buffer, the Impressor (its child) prints and     *)
(* frees a full buffer.  The result of no semop is looked at.  The k-th    *)
(* character read is k; a free place holds -1, and so does the end of the  *)
(* input, which getchar returns again and again.                           *)
(***************************************************************************)
EXTENDS SysVSem, Sequences

CONSTANTS BUFFER_SIZE,
          MaxChars       \* bound on the characters typed

ASSUME BufferAssumption == BUFFER_SIZE \in 1..SEMVMX
ASSUME CharsAssumption == MaxChars \in Nat

Progs == {"Leitor", "Impressor"}   \* also the names of the two semaphores
Free == -1
Places == 1..BUFFER_SIZE

VARIABLES
  exists,    \* which of the two semaphores have not been removed
  val,       \* their values
  adj,       \* the adjustments of each program
  pc,        \* where each program is
  i,         \* the loop variable of each
  buffer,
  my_char,   \* what the Leitor holds
  eof,       \* the input has ended
  chars,     \* history: characters read
  printed,   \* history: characters printed, while no operation was refused
  refused    \* history: a semop failed while the semaphores existed

sems == <<exists, val, adj>>
input == <<my_char, eof, chars>>
ex2Vars == <<sems, pc, i, buffer, input, printed, refused>>

\* main up to fork: SETVAL of 1 - BUFFER_SIZE is refused when it is negative, and
\* the new semaphore of the Impressor keeps the value 0.
SetVal(old, value) == IF Settable(value) THEN value ELSE old

Ex2Init ==
  /\ exists = Progs
  /\ val = [s \in Progs |-> SetVal(0, IF s = "Leitor" THEN BUFFER_SIZE ELSE 1 - BUFFER_SIZE)]
  /\ adj = [p \in Progs |-> [s \in Progs |-> 0]]
  /\ pc = [p \in Progs |-> "P"]
  /\ i = [p \in Progs |-> 1]
  /\ buffer = [k \in Places |-> Free]
  /\ my_char = Free /\ eof = FALSE /\ chars = 0
  /\ printed = <<>> /\ refused = FALSE

Step(p, from, to) == pc[p] = from /\ pc' = [pc EXCEPT ![p] = to]

\* A semop whose result is ignored: it may do nothing.
semop(p, s, op) ==
  /\ UNCHANGED exists
  /\ \/ /\ s \in exists /\ Done(val[s], adj[p][s], op)
        /\ val' = [val EXCEPT ![s] = @ + op]
        /\ adj' = [adj EXCEPT ![p][s] = @ - op]
        /\ UNCHANGED refused
     \/ /\ s \notin exists \/ Refused(val[s], adj[p][s], op)
        /\ refused' = (refused \/ s \in exists)
        /\ UNCHANGED <<val, adj>>

------------------------------------------------------------------------------
semaforoPLeitor ==
  /\ Step("Leitor", "P", "getchar")
  /\ semop("Leitor", "Leitor", -1)
  /\ UNCHANGED <<i, buffer, input, printed>>

\* A character, or the end of the input.
GetChar ==
  /\ Step("Leitor", "getchar", "search")
  /\ \/ /\ ~eof /\ chars < MaxChars
        /\ chars' = chars + 1 /\ my_char' = chars + 1
        /\ UNCHANGED eof
     \/ my_char' = Free /\ eof' = TRUE /\ UNCHANGED chars
  /\ i' = [i EXCEPT !["Leitor"] = 1]
  /\ UNCHANGED <<sems, buffer, printed, refused>>

\* One turn of the search for a free place; the last one may find none.
Search ==
  /\ pc["Leitor"] = "search"
  /\ LET k == i["Leitor"]
         stop == buffer[k] = Free \/ k = BUFFER_SIZE
     IN /\ buffer' = IF buffer[k] = Free THEN [buffer EXCEPT ![k] = my_char] ELSE buffer
        /\ pc' = IF stop THEN [pc EXCEPT !["Leitor"] = "V"] ELSE pc
        /\ i' = IF stop THEN i ELSE [i EXCEPT !["Leitor"] = @ + 1]
        /\ my_char' = IF stop THEN Free ELSE my_char
  /\ UNCHANGED <<sems, eof, chars, printed, refused>>

semaforoVImpressor ==
  /\ Step("Leitor", "V", "P")
  /\ semop("Leitor", "Impressor", 1)
  /\ UNCHANGED <<i, buffer, input, printed>>

semaforoPImpressor_one ==
  /\ Step("Impressor", "P", "print")
  /\ semop("Impressor", "Impressor", -1)
  /\ i' = [i EXCEPT !["Impressor"] = 1]
  /\ UNCHANGED <<buffer, input, printed>>

semaforoPImpressor ==
  /\ Step("Impressor", "P", "print")
  /\ semop("Impressor", "Impressor", -BUFFER_SIZE)
  /\ i' = [i EXCEPT !["Impressor"] = 1]
  /\ UNCHANGED <<buffer, input, printed>>

\* One turn of the loop that prints a place and frees it.
PrintPlace ==
  /\ pc["Impressor"] = "print"
  /\ LET k == i["Impressor"]
     IN /\ printed' = IF buffer[k] = Free \/ refused THEN printed ELSE Append(printed, buffer[k])
        /\ buffer' = [buffer EXCEPT ![k] = Free]
        /\ IF k = BUFFER_SIZE
             THEN pc' = [pc EXCEPT !["Impressor"] = "V"] /\ UNCHANGED i
             ELSE i' = [i EXCEPT !["Impressor"] = @ + 1] /\ UNCHANGED pc
  /\ UNCHANGED <<sems, input, refused>>

semaforoVLeitor_one ==
  /\ Step("Impressor", "V", "P")
  /\ semop("Impressor", "Leitor", 1)
  /\ UNCHANGED <<i, buffer, input, printed>>

semaforoVLeitor ==
  /\ Step("Impressor", "V", "P")
  /\ semop("Impressor", "Leitor", BUFFER_SIZE)
  /\ UNCHANGED <<i, buffer, input, printed>>

\* SIGINT: the Leitor handles it; the Impressor, which got it from the terminal
\* (tty), dies of it, and what it did to the semaphores is undone.
Interrupt(tty) ==
  /\ pc["Leitor"] \notin {"stopping", "gone"}
  /\ pc' = [p \in Progs |-> IF p = "Leitor" THEN "stopping"
                            ELSE IF tty THEN "gone" ELSE pc[p]]
  /\ val' = IF tty THEN [s \in Progs |-> Undone(val[s], adj["Impressor"][s])] ELSE val
  /\ adj' = IF tty THEN [adj EXCEPT !["Impressor"] = [s \in Progs |-> 0]] ELSE adj
  /\ UNCHANGED <<exists, i, buffer, input, printed, refused>>

\* intHandler removes the semaphore of the Leitor, then that of the Impressor.
intHandler ==
  /\ pc["Leitor"] = "stopping"
  /\ exists' = IF "Leitor" \in exists THEN exists \ {"Leitor"} ELSE {}
  /\ pc' = IF exists' = {} THEN [pc EXCEPT !["Leitor"] = "gone"] ELSE pc
  /\ UNCHANGED <<val, adj, i, buffer, input, printed, refused>>

Leitor == semaforoPLeitor \/ GetChar \/ Search \/ semaforoVImpressor \/ intHandler
Impressor == semaforoPImpressor \/ PrintPlace \/ semaforoVLeitor

Ex2Next ==
  \/ Leitor
  \/ Impressor
  \/ \E tty \in BOOLEAN : Interrupt(tty)
  \/ \A p \in Progs : pc[p] = "gone" /\ UNCHANGED ex2Vars

\* Neither loop waits for anything but its semaphore and the input.
Ex2Spec == Ex2Init /\ [][Ex2Next]_ex2Vars /\ WF_ex2Vars(Leitor) /\ WF_ex2Vars(Impressor)

------------------------------------------------------------------------------
\* Until an operation on a semaphore is refused, each character read is printed,
\* in the buffer or in the Leitor's hand, once and in the order it was read,
\* though the two programs scan the buffer without any other protection
\* (ex2.c:136-141, :164-177).
NothingLostOrReordered ==
  exists = Progs /\ ~refused =>
    LET m == Len(printed)
        full == {k \in Places : buffer[k] # Free}
        held == {my_char} \ {Free}
    IN /\ printed = [k \in 1..m |-> k]
       /\ {buffer[k] : k \in full} \cup held = m + 1..chars
       /\ \A j, k \in full : j < k => buffer[j] < buffer[k]
       /\ \A k \in full, c \in held : buffer[k] < c

\* A buffer that is full is printed and its places are given back, so that the
\* Leitor reads again and again (ex2.c:134, :146), until an operation on a
\* semaphore is refused or the programs are interrupted.
ReadingGoesOn ==
  []<>(pc["Leitor"] = "getchar" \/ refused \/ pc["Leitor"] \in {"stopping", "gone"})
=============================================================================
