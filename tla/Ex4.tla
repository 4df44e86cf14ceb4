---------------------------------- MODULE Ex4 ----------------------------------
(***************************************************************************)
(* lab7/ex4_a.c and ex4_b.c: two programs that exchange messages through   *)
(* two one-place mailboxes in shared memory, each with a semaphore that    *)
(* says it is empty and one that says it is full, polled with IPC_NOWAIT.  *)
(* A message is copied byte by byte: here in two halves.  The message that *)
(* a program sends is its number.  nadaFeito, which only decides how long  *)
(* a program sleeps, is left out.                                          *)
(***************************************************************************)
EXTENDS SysVSem, Sequences

CONSTANT SleepIsEnough  \* B's sleep(2) outlasts A's four calls of semctl

ASSUME SleepAssumption == SleepIsEnough \in BOOLEAN

Programs == {"A", "B"}
Peer(p) == IF p = "A" THEN "B" ELSE "A"
Empty(p) == <<p, "EMPTY">>   \* A_EMPTY, B_EMPTY: the mailbox p reads is empty
Full(p) == <<p, "FULL">>     \* A_FULL, B_FULL
Sems == Programs \X {"EMPTY", "FULL"}
Over == {"stopping", "gone", "failed"}

VARIABLES
  semset,     \* the set of four semaphores: "none", "there" or "removed"
  val,        \* its values
  adj,        \* the adjustments of each program
  pc,         \* where each program is
  initialized,\* semaphores A has given a value
  attached,   \* programs whose semId names the set
  mailbox,    \* the two halves of the message in the mailbox p reads
  message,    \* the halves receiveMessage of p has copied
  sent,       \* history: messages p has begun to send
  got,        \* history: messages p has received
  refused     \* history: a V failed on a set that exists

semaphores == <<semset, val, adj>>
buffers == <<mailbox, message>>
ex4History == <<sent, got, refused>>
ex4Vars == <<semaphores, pc, initialized, attached, buffers, ex4History>>

\* main of both programs up to their routines: A forks B first.
Ex4Init ==
  /\ semset = "none"
  /\ val = [s \in Sems |-> 0]
  /\ adj = [p \in Programs |-> [s \in Sems |-> 0]]
  /\ pc = [p \in Programs |-> IF p = "A" THEN "semget" ELSE "connect"]
  /\ initialized = {} /\ attached = {}
  /\ mailbox = [p \in Programs |-> <<0, 0>>]
  /\ message = [p \in Programs |-> <<0, 0>>]
  /\ sent = [p \in Programs |-> 0]
  /\ got = [p \in Programs |-> <<>>]
  /\ refused = FALSE

Goto(p, from, to) == pc[p] = from /\ pc' = [pc EXCEPT ![p] = to]

------------------------------------------------------------------------------
\* exit: the kernel undoes what the program did, if the set is still there.
Exit(p) ==
  /\ pc' = [pc EXCEPT ![p] = "failed"]
  /\ val' = IF semset = "there" THEN [s \in Sems |-> Undone(val[s], adj[p][s])] ELSE val
  /\ adj' = [adj EXCEPT ![p] = [s \in Sems |-> 0]]

Change(p, s, op) ==
  /\ val' = [val EXCEPT ![s] = @ + op]
  /\ adj' = [adj EXCEPT ![p][s] = @ - op]

semaforoP_withoutUndo(p, s, taken, missed) ==
  /\ semset = "there" /\ UNCHANGED <<semset, adj>>
  /\ \/ val[s] > 0 /\ val' = [val EXCEPT ![s] = @ - 1] /\ pc' = [pc EXCEPT ![p] = taken]
     \/ val[s] = 0 /\ UNCHANGED val /\ pc' = [pc EXCEPT ![p] = missed]

semaforoP_anyError(p, s, taken, missed) ==
  /\ UNCHANGED semset
  /\ \/ /\ semset = "there" /\ Done(val[s], adj[p][s], -1)
        /\ Change(p, s, -1) /\ pc' = [pc EXCEPT ![p] = taken]
     \/ /\ semset # "there" \/ ~Done(val[s], adj[p][s], -1)
        /\ UNCHANGED <<val, adj>> /\ pc' = [pc EXCEPT ![p] = missed]

\* P, which does not wait: an error other than EAGAIN ends the program.
semaforoP(p, s, taken, missed) ==
  /\ UNCHANGED semset
  /\ \/ /\ semset = "there" /\ Done(val[s], adj[p][s], -1)
        /\ Change(p, s, -1) /\ pc' = [pc EXCEPT ![p] = taken]
     \/ /\ semset = "there" /\ MustWait(val[s], -1)
        /\ UNCHANGED <<val, adj>> /\ pc' = [pc EXCEPT ![p] = missed]
     \/ /\ semset = "removed" \/ Refused(val[s], adj[p][s], -1)
        /\ Exit(p)

\* V, whose result nobody looks at.
semaforoV(p, s) ==
  /\ UNCHANGED semset
  /\ IF semset = "there" /\ Done(val[s], adj[p][s], 1)
       THEN Change(p, s, 1) /\ UNCHANGED refused
       ELSE UNCHANGED <<val, adj>> /\ refused' = (refused \/ semset = "there")

------------------------------------------------------------------------------
\* semget with IPC_CREAT, by A.
CreateSet ==
  /\ Goto("A", "semget", "setval")
  /\ semset' = "there"
  /\ attached' = attached \cup {"A"}
  /\ UNCHANGED <<val, adj, initialized, buffers, ex4History>>

InitialValue_full(s) == 1
InitialValue(s) == IF s \in {Empty(p) : p \in Programs} THEN 1 ELSE 0
SetOrder == <<Empty("A"), Full("A"), Empty("B"), Full("B")>>
NextSet(s) == \E k \in 1..4 : s = SetOrder[k] /\ initialized = {SetOrder[j] : j \in 1..k - 1}

\* The next of the four calls of setSemValue, which also clears adjustments.
setSemValue(s) ==
  /\ pc["A"] = "setval" /\ NextSet(s)
  /\ initialized' = initialized \cup {s}
  /\ pc' = IF initialized' = Sems THEN [pc EXCEPT !["A"] = "receive"] ELSE pc
  /\ IF semset = "there"
       THEN /\ val' = [val EXCEPT ![s] = InitialValue(s)]
            /\ adj' = [p \in Programs |-> [adj[p] EXCEPT ![s] = 0]]
       ELSE UNCHANGED <<val, adj>>
  /\ UNCHANGED <<semset, attached, buffers, ex4History>>

\* B sleeps, then tries semget until the set exists.
Connect ==
  /\ Goto("B", "connect", "receive")
  /\ semset = "there"
  /\ SleepIsEnough => initialized = Sems
  /\ attached' = attached \cup {"B"}
  /\ UNCHANGED <<semaphores, initialized, buffers, ex4History>>

TryReceive(p) ==
  /\ pc[p] = "receive"
  /\ semaforoP(p, Full(p), "copyIn", "send")
  /\ UNCHANGED <<initialized, attached, buffers, ex4History>>

\* receiveMessage: the first half of the mailbox, then the second.
receiveMessage(p) ==
  \/ /\ Goto(p, "copyIn", "copyIn2")
     /\ message' = [message EXCEPT ![p][1] = mailbox[p][1]]
     /\ UNCHANGED <<semaphores, initialized, attached, mailbox, ex4History>>
  \/ /\ Goto(p, "copyIn2", "release")
     /\ message' = [message EXCEPT ![p][2] = mailbox[p][2]]
     /\ got' = [got EXCEPT ![p] = Append(@, message'[p])]
     /\ UNCHANGED <<semaphores, initialized, attached, mailbox, sent, refused>>

Release_kept(p) ==
  /\ Goto(p, "release", "send")
  /\ UNCHANGED <<semaphores, initialized, attached, buffers, ex4History>>

Release(p) ==
  /\ Goto(p, "release", "send")
  /\ semaforoV(p, Empty(p))
  /\ UNCHANGED <<initialized, attached, buffers, sent, got>>

TrySend(p) ==
  /\ pc[p] = "send"
  /\ semaforoP(p, Empty(Peer(p)), "copyOut", "receive")
  /\ UNCHANGED <<initialized, attached, buffers, ex4History>>

\* sendMessage: a new message into the peer's mailbox, half by half.
sendMessage(p) ==
  \/ /\ Goto(p, "copyOut", "copyOut2")
     /\ sent' = [sent EXCEPT ![p] = @ + 1]
     /\ mailbox' = [mailbox EXCEPT ![Peer(p)][1] = sent'[p]]
     /\ UNCHANGED <<semaphores, initialized, attached, message, got, refused>>
  \/ /\ Goto(p, "copyOut2", "announce")
     /\ mailbox' = [mailbox EXCEPT ![Peer(p)][2] = sent[p]]
     /\ UNCHANGED <<semaphores, initialized, attached, message, ex4History>>

Announce(p) ==
  /\ Goto(p, "announce", "receive")
  /\ semaforoV(p, Full(Peer(p)))
  /\ UNCHANGED <<initialized, attached, buffers, sent, got>>

\* SIGINT at any point: intHandler sleeps five seconds,
Interrupt(p) ==
  /\ pc[p] \notin Over
  /\ pc' = [pc EXCEPT ![p] = "stopping"]
  /\ UNCHANGED <<semaphores, initialized, attached, buffers, ex4History>>

\* then removes the set semId names: before semget that is set 0, whosever it is.
intHandler(p) ==
  /\ Goto(p, "stopping", "gone")
  /\ semset' \in IF semset # "there" THEN {semset}
                 ELSE {"removed"} \cup (IF p \in attached THEN {} ELSE {"there"})
  /\ val' = IF semset' = "there" THEN [s \in Sems |-> Undone(val[s], adj[p][s])] ELSE val
  /\ adj' = [adj EXCEPT ![p] = [s \in Sems |-> 0]]
  /\ UNCHANGED <<initialized, attached, buffers, ex4History>>

Exchange(p) == TryReceive(p) \/ receiveMessage(p) \/ Release(p)
               \/ TrySend(p) \/ sendMessage(p) \/ Announce(p)

programARoutine == CreateSet \/ (\E s \in Sems : setSemValue(s)) \/ Exchange("A")
programBRoutine == Connect \/ Exchange("B")

Ex4Next ==
  \/ programARoutine
  \/ programBRoutine
  \/ \E p \in Programs : Interrupt(p) \/ intHandler(p)
  \/ pc["A"] \in Over \ {"stopping"} /\ pc["B"] \in Over \cup {"connect"} /\ UNCHANGED ex4Vars

\* Both loops go on, and an interrupted program ends; nothing makes a user type.
Ex4Fairness ==
  /\ WF_ex4Vars(programARoutine)
  /\ WF_ex4Vars(programBRoutine)
  /\ \A p \in Programs : WF_ex4Vars(intHandler(p))

Ex4Spec == Ex4Init /\ [][Ex4Next]_ex4Vars /\ Ex4Fairness

------------------------------------------------------------------------------
\* Messages arrive whole, in order and once each, and none that was not sent,
\* whatever the interleaving of the byte copies (ex4_a.c:203, :211) and whoever
\* ends at whatever point.
InOrderAndWhole ==
  \A p \in Programs :
    /\ \A k \in 1..Len(got[p]) : got[p][k] = <<k, k>>
    /\ Len(got[p]) <= sent[Peer(p)]

\* The V whose result is ignored (ex4_a.c:87, :98) cannot fail while the set
\* exists: the P that goes with it runs out of adjustments first, and its error
\* ends the program.  A V that failed would close a mailbox for ever.
VIsNeverRefused == ~refused

\* Every message is sent and received, unless a signal ends a program first.  The
\* adjustments of a program run out after SEMAEM messages, and a program may send
\* three times as many as the other: the messages up to a third of SEMAEM come
\* before that.
ReceivedUnlessEnded ==
  \A p \in Programs :
    <>(\/ Len(got[p]) >= SEMAEM \div 3
       \/ \E q \in Programs : pc[q] \in {"stopping", "gone"})

\* When one program removes the semaphores the other ends too, by the error of
\* its next P (ex4_a.c:168-171), unless it never attached to them.
RemovalEndsBoth ==
  semset = "removed" ~> \A p \in attached : pc[p] \in Over
=============================================================================
