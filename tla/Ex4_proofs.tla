------------------------------ MODULE Ex4_proofs ------------------------------
(***************************************************************************)
(* Proofs about Ex4, whatever SEMVMX and SEMAEM are, as long as an         *)
(* adjustment is no larger than a value: messages arrive whole and in      *)
(* order, and no V whose result is ignored is refused.                     *)
(*                                                                         *)
(* The inductive invariant has two regimes.  While both programs run, the  *)
(* two semaphores of a mailbox, its contents and the four adjustments are  *)
(* tied together (Mailbox).  When one has run out of adjustments its exit  *)
(* takes back what it did and the equations break: what is left is a       *)
(* mailbox that nobody empties and one that nobody fills (Abandoned).      *)
(***************************************************************************)
EXTENDS Ex4, TLAPS

USE SemAssumption, SleepAssumption

------------------------------------------------------------------------------
Writing == {"copyOut", "copyOut2", "announce"}
Receiving == {"copyIn", "copyIn2", "release"}
Places == {"semget", "setval", "connect", "receive", "send"}
            \cup Writing \cup Receiving \cup Over

\* The semaphores of a mailbox, of values ve and vf, when its writer did s P and
\* f V, and its reader r P and e V: there is one message at most.
Tokens(ve, vf, s, f, r, e) ==
  /\ ve = 1 - s + e /\ vf = f - r
  /\ 0 <= e /\ e <= r /\ r <= f /\ f <= s /\ s <= e + 1 /\ s <= SEMAEM

\* The writer, at "at", has begun n messages; m is in the mailbox.
WriterAt(at, s, f, n, m) ==
  /\ at = "copyOut" => f = s - 1 /\ n = s - 1
  /\ at = "copyOut2" => f = s - 1 /\ n = s /\ m[1] = s
  /\ at = "announce" => f = s - 1 /\ n = s /\ m = <<s, s>>
  /\ at \notin Writing \cup {"stopping"} => f = s /\ n = s
  /\ f <= n
  /\ f = s /\ s > 0 => m = <<s, s>>

\* The reader, at "at", has received n messages.
ReaderAt(at, r, e, n) ==
  /\ at \in {"copyIn", "copyIn2"} => e = r - 1 /\ n = r - 1
  /\ at = "release" => e = r - 1 /\ n = r
  /\ at \notin Receiving \cup {"stopping"} => e = r /\ n = r

\* The mailbox that p reads: its semaphores, its contents and the two programs agree.
Mailbox(p) ==
  LET s == adj[Peer(p)][Empty(p)]
      f == -adj[Peer(p)][Full(p)]
      r == adj[p][Full(p)]
      e == -adj[p][Empty(p)]
  IN /\ Tokens(val[Empty(p)], val[Full(p)], s, f, r, e)
     /\ WriterAt(pc[Peer(p)], s, f, sent[Peer(p)], mailbox[p])
     /\ ReaderAt(pc[p], r, e, Len(got[p]))

\* Program x ran out of adjustments, and its exit undid what it did.
Abandoned(x) ==
  LET y == Peer(x)
      s == adj[y][Empty(x)]
      f == -adj[y][Full(x)]
  IN /\ val[Full(y)] = 0 /\ pc[y] \notin Receiving \cup {"failed"}
     /\ s > 0 => val[Empty(x)] = 0
     /\ s = 0 => val[Empty(x)] = 1
     /\ val[Full(x)] = f
     /\ 0 <= f /\ f <= s /\ s <= SEMAEM
     /\ pc[y] \in Writing => f = s - 1

\* The semaphores exist and have all been given their values.
Working == semset = "there" /\ initialized = Sems

MailboxInv == Working /\ (\A q \in Programs : pc[q] # "failed") => \A p \in Programs : Mailbox(p)
AbandonedInv == Working => \A x \in Programs : pc[x] = "failed" => Abandoned(x)

\* The message a program is copying is whole, and the next.
Reading(p) ==
  pc[p] \in {"copyIn", "copyIn2"} =>
    LET n == Len(got[p]) + 1
    IN /\ mailbox[p] = <<n, n>> /\ n <= sent[Peer(p)]
       /\ pc[Peer(p)] \notin {"copyOut", "copyOut2"}
       /\ pc[p] = "copyIn2" => message[p][1] = n

Received(p) ==
  /\ \A k \in 1..Len(got[p]) : got[p][k] = <<k, k>>
  /\ Len(got[p]) <= sent[Peer(p)]

DataInv == \A p \in Programs : Reading(p) /\ Received(p)

\* A program that has done nothing yet.
Quiet(p) == adj[p] = [s \in Sems |-> 0] /\ sent[p] = 0 /\ got[p] = <<>>

\* How far the two programs have come in setting up the set of semaphores.
StartInv ==
  /\ semset = "none" => initialized = {} /\ pc["A"] \in {"semget", "stopping", "gone"}
  /\ pc["A"] = "semget" => semset = "none"
  /\ pc["A"] # "connect" /\ pc["B"] \notin {"semget", "setval"}
  /\ pc["A"] = "setval" => initialized # Sems
  /\ initialized \subseteq Sems
  /\ initialized # Sems =>
       /\ pc["A"] \in {"semget", "setval", "stopping", "gone"}
       /\ "B" \notin attached
       /\ \A p \in Programs : Quiet(p)
       /\ semset = "there" => \A s \in initialized : val[s] = InitialValue(s)
  /\ \A p \in Programs \ attached :
       pc[p] \in {"semget", "connect", "stopping", "gone"} /\ Quiet(p)
  /\ semset = "there" => "A" \in attached
  /\ \A p \in attached : semset = "there" => pc[p] # "gone"

TypeInv ==
  /\ semset \in {"none", "there", "removed"}
  /\ val \in [Sems -> 0..SEMVMX]
  /\ adj \in [Programs -> [Sems -> Int]]
  /\ pc \in [Programs -> Places]
  /\ attached \subseteq Programs
  /\ mailbox \in [Programs -> Int \X Int]
  /\ message \in [Programs -> Int \X Int]
  /\ sent \in [Programs -> Nat]
  /\ got \in [Programs -> Seq(Int \X Int)]

Ex4Inv == TypeInv /\ StartInv /\ DataInv /\ MailboxInv /\ AbandonedInv /\ ~refused

------------------------------------------------------------------------------
LEMMA TwoPrograms ==
  /\ \A p \in Programs : Peer(p) \in Programs /\ Peer(p) # p /\ Peer(Peer(p)) = p
  /\ \A p, q \in Programs : q = p \/ q = Peer(p)
BY DEF Programs, Peer

LEMMA FourSems ==
  /\ \A p \in Programs : Empty(p) \in Sems /\ Full(p) \in Sems
  /\ \A p, q \in Programs : Empty(p) # Full(q)
  /\ \A p, q \in Programs : p # q => Empty(p) # Empty(q) /\ Full(p) # Full(q)
  /\ \A s \in Sems : \E p \in Programs : s = Empty(p) \/ s = Full(p)
BY DEF Sems, Empty, Full

\* A P or a V changes one value and one adjustment.
Changed(p, s, op) ==
  /\ val' \in [Sems -> 0..SEMVMX] /\ adj' \in [Programs -> [Sems -> Int]]
  /\ val'[s] = val[s] + op /\ adj'[p][s] = adj[p][s] - op
  /\ \A t \in Sems : t # s => val'[t] = val[t]
  /\ \A q \in Programs, t \in Sems : q # p \/ t # s => adj'[q][t] = adj[q][t]

LEMMA ChangeType ==
  ASSUME TypeInv, NEW p \in Programs, NEW s \in Sems, NEW op \in {-1, 1},
         Change(p, s, op), Done(val[s], adj[p][s], op)
  PROVE  Changed(p, s, op)
<1>1. val \in [Sems -> 0..SEMVMX] /\ adj \in [Programs -> [Sems -> Int]]
  BY DEF TypeInv
<1>2. val[s] + op \in 0..SEMVMX
  BY <1>1 DEF Done, MustWait, InRange
<1>3. val' \in [Sems -> 0..SEMVMX]
  BY <1>1, <1>2 DEF Change
<1>4. adj' = [adj EXCEPT ![p] = [adj[p] EXCEPT ![s] = adj[p][s] - op]]
  BY <1>1 DEF Change
<1>5. adj[p] \in [Sems -> Int] /\ adj[p][s] - op \in Int
  BY <1>1
<1>6. [adj[p] EXCEPT ![s] = adj[p][s] - op] \in [Sems -> Int]
  BY <1>5
<1>7. adj' \in [Programs -> [Sems -> Int]]
  BY <1>1, <1>4, <1>6
<1>8. /\ adj'[p][s] = adj[p][s] - op
      /\ \A q \in Programs, t \in Sems : q # p \/ t # s => adj'[q][t] = adj[q][t]
  BY <1>1, <1>4, <1>5
<1>9. /\ val'[s] = val[s] + op
      /\ \A t \in Sems : t # s => val'[t] = val[t]
  BY <1>1 DEF Change
<1> QED BY <1>3, <1>7, <1>8, <1>9 DEF Changed

\* What the exit of p undoes.
LEMMA ExitType ==
  ASSUME TypeInv, NEW p \in Programs, Exit(p)
  PROVE  /\ val' \in [Sems -> 0..SEMVMX] /\ adj' \in [Programs -> [Sems -> Int]]
         /\ \A s \in Sems : adj'[p][s] = 0
         /\ adj'[p] = [s \in Sems |-> 0]
         /\ \A q \in Programs, s \in Sems : q # p => adj'[q][s] = adj[q][s]
         /\ \A q \in Programs : q # p => adj'[q] = adj[q]
         /\ semset = "there" => \A s \in Sems : val'[s] = Undone(val[s], adj[p][s])
<1>1. val \in [Sems -> 0..SEMVMX] /\ adj \in [Programs -> [Sems -> Int]]
  BY DEF TypeInv
<1>2. \A s \in Sems : Undone(val[s], adj[p][s]) \in 0..SEMVMX
  BY <1>1 DEF Undone
<1>3. val' \in [Sems -> 0..SEMVMX]
  BY <1>1, <1>2 DEF Exit
<1> QED BY <1>1, <1>3 DEF Exit

------------------------------------------------------------------------------
Busy == {"receive", "send"} \cup Writing \cup Receiving

\* A step of the exchange is about one program.
OnlyOf(p) ==
  /\ UNCHANGED <<semset, initialized, attached>>
  /\ pc[p] \in Busy /\ pc'[p] \in Busy \cup {"failed"}
  /\ \A q \in Programs : q # p =>
       /\ pc'[q] = pc[q] /\ adj'[q] = adj[q] /\ sent'[q] = sent[q]
       /\ got'[q] = got[q] /\ message'[q] = message[q]

MovesTo(p, to) ==
  /\ pc' \in [Programs -> Places] /\ pc'[p] = to
  /\ \A q \in Programs : q # p => pc'[q] = pc[q]

LEMMA MoveType ==
  ASSUME TypeInv, NEW p \in Programs, NEW to \in Places, pc' = [pc EXCEPT ![p] = to]
  PROVE  MovesTo(p, to)
BY DEF TypeInv, MovesTo

\* The three outcomes of a P.
Takes(p, s, to) ==
  /\ semset = "there" /\ Done(val[s], adj[p][s], -1) /\ Changed(p, s, -1) /\ MovesTo(p, to)
Misses(p, s, to) ==
  /\ semset = "there" /\ MustWait(val[s], -1)
  /\ UNCHANGED <<val, adj>> /\ MovesTo(p, to)
Fails(p, s) ==
  /\ semset = "removed" \/ Refused(val[s], adj[p][s], -1)
  /\ Exit(p) /\ MovesTo(p, "failed")

LEMMA OutcomesOfP ==
  ASSUME TypeInv, NEW p \in Programs, NEW s \in Sems, NEW taken \in Places,
         NEW missed \in Places, semaforoP(p, s, taken, missed)
  PROVE  /\ semset' = semset
         /\ Takes(p, s, taken) \/ Misses(p, s, missed) \/ Fails(p, s)
<1>1. semset' = semset
  BY DEF semaforoP
<1>2. CASE /\ semset = "there" /\ Done(val[s], adj[p][s], -1)
           /\ Change(p, s, -1) /\ pc' = [pc EXCEPT ![p] = taken]
  BY <1>1, <1>2, ChangeType, MoveType DEF Takes
<1>3. CASE /\ semset = "there" /\ MustWait(val[s], -1)
           /\ UNCHANGED <<val, adj>> /\ pc' = [pc EXCEPT ![p] = missed]
  BY <1>1, <1>3, MoveType DEF Misses
<1>4. CASE /\ semset = "removed" \/ Refused(val[s], adj[p][s], -1)
           /\ Exit(p)
  <2>1. "failed" \in Places
    BY DEF Places, Over
  <2>2. pc' = [pc EXCEPT ![p] = "failed"]
    BY <1>4 DEF Exit
  <2> QED BY <1>1, <1>4, <2>1, <2>2, MoveType DEF Fails
<1> QED BY <1>2, <1>3, <1>4 DEF semaforoP

\* The two outcomes of a V.
LEMMA OutcomesOfV ==
  ASSUME TypeInv, NEW p \in Programs, NEW s \in Sems, semaforoV(p, s)
  PROVE  /\ semset' = semset
         /\ \/ semset = "there" /\ Done(val[s], adj[p][s], 1) /\ Changed(p, s, 1)
               /\ refused' = refused
            \/ /\ semset # "there" \/ ~Done(val[s], adj[p][s], 1)
               /\ UNCHANGED <<val, adj>>
               /\ refused' = (refused \/ semset = "there")
<1>1. CASE semset = "there" /\ Done(val[s], adj[p][s], 1)
  BY <1>1, ChangeType DEF semaforoV
<1>2. CASE ~(semset = "there" /\ Done(val[s], adj[p][s], 1))
  BY <1>2 DEF semaforoV
<1> QED BY <1>1, <1>2

------------------------------------------------------------------------------
\* The halves of a message.
LEMMA Halves ==
  ASSUME NEW F, F \in [Programs -> Int \X Int], NEW p \in Programs, NEW n \in Int
  PROVE  /\ [F EXCEPT ![p][1] = n] \in [Programs -> Int \X Int]
         /\ [F EXCEPT ![p][1] = n][p] = <<n, F[p][2]>>
         /\ [F EXCEPT ![p][2] = n] \in [Programs -> Int \X Int]
         /\ [F EXCEPT ![p][2] = n][p] = <<F[p][1], n>>
         /\ \A q \in Programs : q # p =>
              [F EXCEPT ![p][1] = n][q] = F[q] /\ [F EXCEPT ![p][2] = n][q] = F[q]
<1>1. F[p] \in Int \X Int
  OBVIOUS
<1>2. [F[p] EXCEPT ![1] = n] = <<n, F[p][2]>> /\ [F[p] EXCEPT ![2] = n] = <<F[p][1], n>>
  BY <1>1
<1>3. /\ [F EXCEPT ![p][1] = n] = [F EXCEPT ![p] = [F[p] EXCEPT ![1] = n]]
      /\ [F EXCEPT ![p][2] = n] = [F EXCEPT ![p] = [F[p] EXCEPT ![2] = n]]
  BY <1>1
<1>4. <<n, F[p][2]>> \in Int \X Int /\ <<F[p][1], n>> \in Int \X Int
  BY <1>1
<1> QED BY <1>2, <1>3, <1>4

\* receiveMessage and sendMessage, half by half.
ReadsFirst(p) ==
  /\ pc[p] = "copyIn" /\ MovesTo(p, "copyIn2") /\ UNCHANGED <<semaphores, mailbox, ex4History>>
  /\ message' \in [Programs -> Int \X Int]
  /\ message'[p] = <<mailbox[p][1], message[p][2]>>
  /\ \A q \in Programs : q # p => message'[q] = message[q]
ReadsSecond(p) ==
  /\ pc[p] = "copyIn2" /\ MovesTo(p, "release") /\ UNCHANGED <<semaphores, mailbox, sent, refused>>
  /\ message' \in [Programs -> Int \X Int]
  /\ message'[p] = <<message[p][1], mailbox[p][2]>>
  /\ got' \in [Programs -> Seq(Int \X Int)]
  /\ got'[p] = Append(got[p], message'[p])
  /\ \A q \in Programs : q # p => message'[q] = message[q] /\ got'[q] = got[q]
WritesFirst(p) ==
  /\ pc[p] = "copyOut" /\ MovesTo(p, "copyOut2")
  /\ UNCHANGED <<semaphores, message, got, refused>>
  /\ sent' \in [Programs -> Nat] /\ sent'[p] = sent[p] + 1
  /\ mailbox' \in [Programs -> Int \X Int]
  /\ mailbox'[Peer(p)] = <<sent[p] + 1, mailbox[Peer(p)][2]>>
  /\ mailbox'[p] = mailbox[p]
  /\ \A q \in Programs : q # p => sent'[q] = sent[q]
WritesSecond(p) ==
  /\ pc[p] = "copyOut2" /\ MovesTo(p, "announce")
  /\ UNCHANGED <<semaphores, message, ex4History>>
  /\ mailbox' \in [Programs -> Int \X Int]
  /\ mailbox'[Peer(p)] = <<mailbox[Peer(p)][1], sent[p]>>
  /\ mailbox'[p] = mailbox[p]

LEMMA ReadSteps ==
  ASSUME TypeInv, NEW p \in Programs, receiveMessage(p)
  PROVE  /\ ReadsFirst(p) \/ ReadsSecond(p)
         /\ UNCHANGED <<initialized, attached>>
<1>1. /\ mailbox[p][1] \in Int /\ mailbox[p][2] \in Int
      /\ message \in [Programs -> Int \X Int] /\ got \in [Programs -> Seq(Int \X Int)]
      /\ {"copyIn2", "release"} \subseteq Places
  BY DEF TypeInv, Places, Receiving
<1>2. CASE /\ Goto(p, "copyIn", "copyIn2")
           /\ message' = [message EXCEPT ![p][1] = mailbox[p][1]]
           /\ UNCHANGED <<semaphores, initialized, attached, mailbox, ex4History>>
  <2>1. MovesTo(p, "copyIn2")
    BY <1>1, <1>2, MoveType DEF Goto
  <2> QED BY <1>1, <1>2, <2>1, Halves DEF Goto, ReadsFirst
<1>3. CASE /\ Goto(p, "copyIn2", "release")
           /\ message' = [message EXCEPT ![p][2] = mailbox[p][2]]
           /\ got' = [got EXCEPT ![p] = Append(@, message'[p])]
           /\ UNCHANGED <<semaphores, initialized, attached, mailbox, sent, refused>>
  <2>1. MovesTo(p, "release")
    BY <1>1, <1>3, MoveType DEF Goto
  <2>2. /\ message' \in [Programs -> Int \X Int]
        /\ message'[p] = <<message[p][1], mailbox[p][2]>>
        /\ \A q \in Programs : q # p => message'[q] = message[q]
    BY <1>1, <1>3, Halves
  <2>3. Append(got[p], message'[p]) \in Seq(Int \X Int)
    BY <1>1, <2>2
  <2>4. /\ got' \in [Programs -> Seq(Int \X Int)]
        /\ got'[p] = Append(got[p], message'[p])
        /\ \A q \in Programs : q # p => got'[q] = got[q]
    BY <1>1, <1>3, <2>3
  <2> QED BY <1>3, <2>1, <2>2, <2>4 DEF Goto, ReadsSecond
<1> QED BY <1>2, <1>3 DEF receiveMessage

LEMMA WriteSteps ==
  ASSUME TypeInv, NEW p \in Programs, sendMessage(p)
  PROVE  /\ WritesFirst(p) \/ WritesSecond(p)
         /\ UNCHANGED <<initialized, attached>>
<1>1. /\ Peer(p) \in Programs /\ Peer(p) # p /\ sent[p] \in Nat /\ sent \in [Programs -> Nat]
      /\ mailbox \in [Programs -> Int \X Int]
      /\ {"copyOut2", "announce"} \subseteq Places
  BY TwoPrograms DEF TypeInv, Places, Writing
<1>2. CASE /\ Goto(p, "copyOut", "copyOut2")
           /\ sent' = [sent EXCEPT ![p] = @ + 1]
           /\ mailbox' = [mailbox EXCEPT ![Peer(p)][1] = sent'[p]]
           /\ UNCHANGED <<semaphores, initialized, attached, message, got, refused>>
  <2>1. MovesTo(p, "copyOut2")
    BY <1>1, <1>2, MoveType DEF Goto
  <2>2. /\ sent' \in [Programs -> Nat] /\ sent'[p] = sent[p] + 1
        /\ \A q \in Programs : q # p => sent'[q] = sent[q]
    BY <1>1, <1>2
  <2>3. sent'[p] \in Int
    BY <2>2
  <2>4. /\ mailbox' \in [Programs -> Int \X Int]
        /\ mailbox'[Peer(p)] = <<sent'[p], mailbox[Peer(p)][2]>>
        /\ mailbox'[p] = mailbox[p]
    BY <1>1, <1>2, <2>3, Halves
  <2> QED BY <1>2, <2>1, <2>2, <2>4 DEF Goto, WritesFirst
<1>3. CASE /\ Goto(p, "copyOut2", "announce")
           /\ mailbox' = [mailbox EXCEPT ![Peer(p)][2] = sent[p]]
           /\ UNCHANGED <<semaphores, initialized, attached, message, ex4History>>
  <2>1. MovesTo(p, "announce")
    BY <1>1, <1>3, MoveType DEF Goto
  <2>2. sent[p] \in Int
    BY <1>1
  <2>3. /\ mailbox' \in [Programs -> Int \X Int]
        /\ mailbox'[Peer(p)] = <<mailbox[Peer(p)][1], sent[p]>>
        /\ mailbox'[p] = mailbox[p]
    BY <1>1, <1>3, <2>2, Halves
  <2> QED BY <1>3, <2>1, <2>3 DEF Goto, WritesSecond
<1> QED BY <1>2, <1>3 DEF sendMessage

------------------------------------------------------------------------------
\* A step of a program is one of these.
PStep(p, at, s, taken, missed) ==
  /\ pc[p] = at /\ UNCHANGED <<buffers, ex4History>>
  /\ Takes(p, s, taken) \/ Misses(p, s, missed) \/ Fails(p, s)
Gives(p, s) ==
  /\ semset = "there" /\ Done(val[s], adj[p][s], 1) /\ Changed(p, s, 1)
  /\ refused' = refused
CannotGive(p, s) ==
  /\ semset # "there" \/ ~Done(val[s], adj[p][s], 1)
  /\ UNCHANGED <<val, adj>>
  /\ refused' = (refused \/ semset = "there")
VStep(p, at, s, to) ==
  /\ pc[p] = at /\ MovesTo(p, to) /\ UNCHANGED <<buffers, sent, got>>
  /\ Gives(p, s) \/ CannotGive(p, s)
Reads(p) == ReadsFirst(p) \/ ReadsSecond(p)
Writes(p) == WritesFirst(p) \/ WritesSecond(p)

LEMMA ExchangeSteps ==
  ASSUME TypeInv, NEW p \in Programs, Exchange(p)
  PROVE  /\ UNCHANGED <<semset, initialized, attached>>
         /\ \/ PStep(p, "receive", Full(p), "copyIn", "send")
            \/ PStep(p, "send", Empty(Peer(p)), "copyOut", "receive")
            \/ VStep(p, "release", Empty(p), "send")
            \/ VStep(p, "announce", Full(Peer(p)), "receive")
            \/ Reads(p)
            \/ Writes(p)
<1>1. /\ Full(p) \in Sems /\ Empty(p) \in Sems /\ Peer(p) \in Programs
      /\ Full(Peer(p)) \in Sems /\ Empty(Peer(p)) \in Sems
  BY TwoPrograms, FourSems
<1>2. {"copyIn", "send", "copyOut", "receive"} \subseteq Places
  BY DEF Places, Writing, Receiving
<1>3. CASE TryReceive(p)
  <2>1. semaforoP(p, Full(p), "copyIn", "send")
    BY <1>3 DEF TryReceive
  <2>2. /\ semset' = semset
        /\ \/ Takes(p, Full(p), "copyIn") \/ Misses(p, Full(p), "send")
           \/ Fails(p, Full(p))
    BY <1>1, <1>2, <2>1, OutcomesOfP
  <2> QED BY <1>3, <2>2 DEF TryReceive, PStep
<1>4. CASE TrySend(p)
  <2>1. semaforoP(p, Empty(Peer(p)), "copyOut", "receive")
    BY <1>4 DEF TrySend
  <2>2. /\ semset' = semset
        /\ \/ Takes(p, Empty(Peer(p)), "copyOut") \/ Misses(p, Empty(Peer(p)), "receive")
           \/ Fails(p, Empty(Peer(p)))
    BY <1>1, <1>2, <2>1, OutcomesOfP
  <2> QED BY <1>4, <2>2 DEF TrySend, PStep
<1>5. CASE Release(p)
  <2>1. semaforoV(p, Empty(p)) /\ MovesTo(p, "send")
    BY <1>2, <1>5, MoveType DEF Release, Goto
  <2>2. semset' = semset /\ (Gives(p, Empty(p)) \/ CannotGive(p, Empty(p)))
    BY <1>1, <2>1, OutcomesOfV DEF Gives, CannotGive
  <2> QED BY <1>5, <2>1, <2>2 DEF Release, Goto, VStep
<1>6. CASE Announce(p)
  <2>1. semaforoV(p, Full(Peer(p))) /\ MovesTo(p, "receive")
    BY <1>2, <1>6, MoveType DEF Announce, Goto
  <2>2. semset' = semset /\ (Gives(p, Full(Peer(p))) \/ CannotGive(p, Full(Peer(p))))
    BY <1>1, <2>1, OutcomesOfV DEF Gives, CannotGive
  <2> QED BY <1>6, <2>1, <2>2 DEF Announce, Goto, VStep
<1>7. CASE receiveMessage(p)
  BY <1>7, ReadSteps DEF Reads, ReadsFirst, ReadsSecond, semaphores
<1>8. CASE sendMessage(p)
  BY <1>8, WriteSteps DEF Writes, WritesFirst, WritesSecond, semaphores
<1> QED BY <1>3, <1>4, <1>5, <1>6, <1>7, <1>8 DEF Exchange

\* What they have in common.
LEMMA PStepType ==
  ASSUME TypeInv, NEW p \in Programs, NEW s \in Sems, NEW at \in Busy,
         NEW taken \in Busy, NEW missed \in Busy, PStep(p, at, s, taken, missed),
         UNCHANGED <<semset, initialized, attached>>
  PROVE  TypeInv' /\ OnlyOf(p)
<1>1. UNCHANGED <<mailbox, message, sent, got, refused>> /\ pc[p] = at
  BY DEF PStep, buffers, ex4History
<1>2. CASE Takes(p, s, taken)
  <2>1. adj \in [Programs -> [Sems -> Int]] /\ adj' \in [Programs -> [Sems -> Int]]
    BY <1>2 DEF TypeInv, Takes, Changed
  <2>2. \A q \in Programs : q # p => adj'[q] = adj[q]
    <3> SUFFICES ASSUME NEW q \in Programs, q # p PROVE adj'[q] = adj[q]
      OBVIOUS
    <3>1. adj[q] \in [Sems -> Int] /\ adj'[q] \in [Sems -> Int]
      BY <2>1
    <3>2. \A t \in Sems : adj'[q][t] = adj[q][t]
      BY <1>2 DEF Takes, Changed
    <3> QED BY <3>1, <3>2
  <2> QED BY <1>1, <1>2, <2>2 DEF Takes, Changed, MovesTo, TypeInv, OnlyOf
<1>3. CASE Misses(p, s, missed)
  BY <1>1, <1>3 DEF Misses, MovesTo, TypeInv, OnlyOf
<1>4. CASE Fails(p, s)
  <2>1. Exit(p) /\ MovesTo(p, "failed")
    BY <1>4 DEF Fails
  <2> QED BY <1>1, <2>1, ExitType DEF MovesTo, TypeInv, OnlyOf
<1> QED BY <1>2, <1>3, <1>4 DEF PStep

LEMMA VStepType ==
  ASSUME TypeInv, NEW p \in Programs, NEW s \in Sems, NEW at \in Busy,
         NEW to \in Busy, VStep(p, at, s, to), UNCHANGED <<semset, initialized, attached>>
  PROVE  TypeInv' /\ OnlyOf(p)
<1>1. UNCHANGED <<mailbox, message, sent, got>> /\ pc[p] = at /\ MovesTo(p, to)
  BY DEF VStep, buffers
<1>2. CASE Gives(p, s)
  <2>1. adj \in [Programs -> [Sems -> Int]] /\ adj' \in [Programs -> [Sems -> Int]]
    BY <1>2 DEF TypeInv, Gives, Changed
  <2>2. \A q \in Programs : q # p => adj'[q] = adj[q]
    <3> SUFFICES ASSUME NEW q \in Programs, q # p PROVE adj'[q] = adj[q]
      OBVIOUS
    <3>1. adj[q] \in [Sems -> Int] /\ adj'[q] \in [Sems -> Int]
      BY <2>1
    <3>2. \A t \in Sems : adj'[q][t] = adj[q][t]
      BY <1>2 DEF Gives, Changed
    <3> QED BY <3>1, <3>2
  <2> QED BY <1>1, <1>2, <2>2 DEF Gives, Changed, MovesTo, TypeInv, OnlyOf
<1>3. CASE CannotGive(p, s)
  BY <1>1, <1>3 DEF CannotGive, MovesTo, TypeInv, OnlyOf
<1> QED BY <1>2, <1>3 DEF VStep

LEMMA ExchangeType ==
  ASSUME TypeInv, NEW p \in Programs, Exchange(p)
  PROVE  TypeInv' /\ OnlyOf(p)
<1>1. /\ Full(p) \in Sems /\ Empty(p) \in Sems
      /\ Full(Peer(p)) \in Sems /\ Empty(Peer(p)) \in Sems
  BY TwoPrograms, FourSems
<1>2. {"receive", "send", "copyIn", "copyIn2", "release", "copyOut", "copyOut2", "announce"}
         \subseteq Busy
  BY DEF Busy, Writing, Receiving
<1>3. UNCHANGED <<semset, initialized, attached>>
  BY ExchangeSteps
<1>4. CASE PStep(p, "receive", Full(p), "copyIn", "send")
  BY <1>1, <1>2, <1>3, <1>4, PStepType
<1>5. CASE PStep(p, "send", Empty(Peer(p)), "copyOut", "receive")
  BY <1>1, <1>2, <1>3, <1>5, PStepType
<1>6. CASE VStep(p, "release", Empty(p), "send")
  BY <1>1, <1>2, <1>3, <1>6, VStepType
<1>7. CASE VStep(p, "announce", Full(Peer(p)), "receive")
  BY <1>1, <1>2, <1>3, <1>7, VStepType
<1>8. CASE Reads(p)
  <2>1. CASE ReadsFirst(p)
    BY <1>2, <1>3, <2>1 DEF ReadsFirst, MovesTo, TypeInv, OnlyOf, semaphores, ex4History
  <2>2. CASE ReadsSecond(p)
    BY <1>2, <1>3, <2>2 DEF ReadsSecond, MovesTo, TypeInv, OnlyOf, semaphores
  <2> QED BY <1>8, <2>1, <2>2 DEF Reads
<1>9. CASE Writes(p)
  <2>1. CASE WritesFirst(p)
    BY <1>2, <1>3, <2>1 DEF WritesFirst, MovesTo, TypeInv, OnlyOf, semaphores
  <2>2. CASE WritesSecond(p)
    BY <1>2, <1>3, <2>2 DEF WritesSecond, MovesTo, TypeInv, OnlyOf, semaphores, ex4History
  <2> QED BY <1>9, <2>1, <2>2 DEF Writes
<1> QED BY <1>4, <1>5, <1>6, <1>7, <1>8, <1>9, ExchangeSteps

------------------------------------------------------------------------------
LEMMA BusyMeansStarted ==
  ASSUME StartInv, NEW p \in Programs, pc[p] \in Busy
  PROVE  initialized = Sems /\ p \in attached /\ semset # "none"
<1>1. pc[p] \notin {"semget", "setval", "connect", "stopping", "gone"}
  BY DEF Busy, Writing, Receiving
<1>2. p \in attached
  BY <1>1 DEF StartInv
<1>3. initialized = Sems
  <2>1. CASE p = "A"
    BY <1>1, <2>1 DEF StartInv
  <2>2. CASE p = "B"
    BY <1>2, <2>2 DEF StartInv
  <2> QED BY <2>1, <2>2 DEF Programs
<1>4. Sems # {}
  BY FourSems
<1> QED BY <1>2, <1>3, <1>4 DEF StartInv

LEMMA ExchangeStart ==
  ASSUME TypeInv, StartInv, NEW p \in Programs, OnlyOf(p)
  PROVE  StartInv'
<1>1. initialized = Sems /\ p \in attached /\ semset # "none" /\ pc[p] \in Busy
  BY BusyMeansStarted DEF OnlyOf
<1>2. pc'[p] \notin {"semget", "setval", "connect", "stopping", "gone"}
  BY DEF OnlyOf, Busy, Writing, Receiving
<1>3. UNCHANGED <<semset, initialized, attached>>
  BY DEF OnlyOf
<1>4. \A q \in Programs : q # p =>
        pc'[q] = pc[q] /\ adj'[q] = adj[q] /\ sent'[q] = sent[q] /\ got'[q] = got[q]
  BY DEF OnlyOf
<1>5. \A q \in Programs : pc'[q] = pc[q] \/ (q = p /\ pc'[q] \notin {"semget", "setval", "connect", "gone"})
  BY <1>2, <1>4
<1>6. "A" \in Programs /\ "B" \in Programs
  BY DEF Programs
<1>7. /\ pc'["A"] # "semget" \/ semset' = "none"
      /\ pc'["A"] # "connect" /\ pc'["B"] \notin {"semget", "setval"}
      /\ pc'["A"] # "setval"
      /\ semset' # "none"
  BY <1>1, <1>3, <1>5, <1>6 DEF StartInv
<1>8. \A q \in Programs \ attached' :
        pc'[q] \in {"semget", "connect", "stopping", "gone"} /\ Quiet(q)'
  BY <1>1, <1>3, <1>4 DEF StartInv, Quiet
<1>9. semset' = "there" => \A q \in attached' : pc'[q] # "gone"
  BY <1>3, <1>5 DEF StartInv, TypeInv
<1>10. semset' = "there" => "A" \in attached'
  BY <1>3 DEF StartInv
<1> QED BY <1>1, <1>3, <1>7, <1>8, <1>9, <1>10 DEF StartInv

------------------------------------------------------------------------------
\* What makes it safe to copy.
SafeToRead(p) ==
  LET n == Len(got[p]) + 1
  IN mailbox[p] = <<n, n>> /\ n <= sent[Peer(p)] /\ pc[Peer(p)] \notin {"copyOut", "copyOut2"}

LEMMA ExchangeData ==
  ASSUME TypeInv, DataInv, NEW p \in Programs, Exchange(p),
         Takes(p, Full(p), "copyIn") => SafeToRead(p),
         Takes(p, Empty(Peer(p)), "copyOut") => pc[Peer(p)] \notin {"copyIn", "copyIn2"}
  PROVE  DataInv'
<1> DEFINE q == Peer(p)
<1>1. q \in Programs /\ q # p /\ Peer(q) = p /\ \A x \in Programs : x = p \/ x = q
  BY TwoPrograms
<1>2. /\ Reading(p) /\ Reading(q) /\ Received(p) /\ Received(q)
      /\ sent[p] \in Nat /\ sent[q] \in Nat
      /\ got[p] \in Seq(Int \X Int) /\ got[q] \in Seq(Int \X Int)
  BY <1>1 DEF DataInv, TypeInv
<1>3. pc'[q] = pc[q]
  BY <1>1, ExchangeType DEF OnlyOf
<1> SUFFICES Reading(p)' /\ Received(p)' /\ Reading(q)' /\ Received(q)'
  BY <1>1 DEF DataInv
<1> HIDE DEF q
<1>4. ASSUME UNCHANGED <<mailbox, message, sent, got>>,
             pc'[p] \notin {"copyIn", "copyIn2"},
             \/ pc'[p] \notin {"copyOut", "copyOut2"}
             \/ pc[q] \notin {"copyIn", "copyIn2"}
      PROVE  Reading(p)' /\ Received(p)' /\ Reading(q)' /\ Received(q)'
  BY <1>1, <1>2, <1>3, <1>4 DEF Reading, Received
<1>5. CASE PStep(p, "receive", Full(p), "copyIn", "send")
  <2>1. CASE Takes(p, Full(p), "copyIn")
    <3>1. SafeToRead(p) /\ UNCHANGED <<mailbox, message, sent, got>> /\ pc'[p] = "copyIn"
      BY <1>5, <2>1 DEF PStep, Takes, MovesTo, buffers, ex4History
    <3>2. Received(p)' /\ Received(q)'
      BY <1>2, <3>1 DEF Received
    <3>3. Reading(q)'
      BY <1>1, <1>2, <1>3, <3>1 DEF Reading
    <3>4. Reading(p)'
      BY <1>3, <3>1 DEF Reading, SafeToRead, q
    <3> QED BY <3>2, <3>3, <3>4
  <2>2. CASE ~Takes(p, Full(p), "copyIn")
    <3>1. UNCHANGED <<mailbox, message, sent, got>> /\ pc'[p] \in {"send", "failed"}
      BY <1>5, <2>2 DEF PStep, Misses, Fails, MovesTo, buffers, ex4History
    <3> QED BY <1>4, <3>1
  <2> QED BY <2>1, <2>2
<1>6. CASE PStep(p, "send", Empty(Peer(p)), "copyOut", "receive")
  <2>1. CASE Takes(p, Empty(Peer(p)), "copyOut")
    <3>1. UNCHANGED <<mailbox, message, sent, got>> /\ pc'[p] = "copyOut"
      BY <1>6, <2>1 DEF PStep, Takes, MovesTo, buffers, ex4History
    <3> QED BY <1>4, <2>1, <3>1 DEF q
  <2>2. CASE ~Takes(p, Empty(Peer(p)), "copyOut")
    <3>1. UNCHANGED <<mailbox, message, sent, got>> /\ pc'[p] \in {"receive", "failed"}
      BY <1>6, <2>2 DEF PStep, Misses, Fails, MovesTo, buffers, ex4History
    <3> QED BY <1>4, <3>1
  <2> QED BY <2>1, <2>2
<1>7. CASE \/ VStep(p, "release", Empty(p), "send")
           \/ VStep(p, "announce", Full(Peer(p)), "receive")
  <2>1. UNCHANGED <<mailbox, message, sent, got>> /\ pc'[p] \in {"send", "receive"}
    BY <1>7 DEF VStep, MovesTo, buffers
  <2> QED BY <1>4, <2>1
<1>8. CASE ReadsFirst(p)
  <2>1. /\ UNCHANGED <<mailbox, sent, got>> /\ pc[p] = "copyIn" /\ pc'[p] = "copyIn2"
        /\ message'[p] = <<mailbox[p][1], message[p][2]>> /\ message'[q] = message[q]
    BY <1>1, <1>8 DEF ReadsFirst, MovesTo, ex4History
  <2>2. Received(p)' /\ Received(q)'
    BY <1>2, <2>1 DEF Received
  <2>3. Reading(q)'
    BY <1>1, <1>2, <1>3, <2>1 DEF Reading
  <2>4. message'[p][1] = mailbox[p][1]
    BY <2>1
  <2>5. Reading(p)'
    BY <1>2, <1>3, <2>1, <2>4 DEF Reading, q
  <2> QED BY <2>2, <2>3, <2>5
<1>9. CASE ReadsSecond(p)
  <2>1. /\ UNCHANGED <<mailbox, sent>> /\ pc[p] = "copyIn2" /\ pc'[p] = "release"
        /\ message'[p] = <<message[p][1], mailbox[p][2]>> /\ message'[q] = message[q]
        /\ got'[p] = Append(got[p], message'[p]) /\ got'[q] = got[q]
    BY <1>1, <1>9 DEF ReadsSecond, MovesTo
  <2>2. Reading(q)' /\ Received(q)' /\ Reading(p)'
    BY <1>1, <1>2, <1>3, <2>1 DEF Reading, Received
  <2> DEFINE n == Len(got[p]) + 1
  <2>3. message'[p] = <<n, n>> /\ n <= sent[q]
    BY <1>2, <2>1 DEF Reading, q
  <2>4. message'[p] \in Int \X Int /\ n \in Nat
    BY <1>2, <1>9 DEF ReadsSecond
  <2>5. Len(got'[p]) = n /\ got'[p][n] = <<n, n>>
    BY <1>2, <2>1, <2>3, <2>4
  <2>6. \A k \in 1..n - 1 : got'[p][k] = got[p][k]
    BY <1>2, <2>1, <2>4
  <2>7. \A k \in 1..n - 1 : got[p][k] = <<k, k>>
    BY <1>2 DEF Received
  <2> HIDE DEF n
  <2>8. \A k \in 1..n : got'[p][k] = <<k, k>>
    <3> SUFFICES ASSUME NEW k \in 1..n PROVE got'[p][k] = <<k, k>>
      OBVIOUS
    <3>1. CASE k = n
      BY <2>5, <3>1
    <3>2. CASE k # n
      <4>1. k \in 1..n - 1
        BY <2>4, <3>2
      <4> QED BY <2>6, <2>7, <4>1
    <3> QED BY <3>1, <3>2
  <2> QED BY <2>1, <2>2, <2>3, <2>5, <2>8 DEF Received, q
<1>10. CASE WritesFirst(p)
  <2>1. /\ UNCHANGED <<message, got>> /\ pc[p] = "copyOut" /\ pc'[p] = "copyOut2"
        /\ sent'[p] = sent[p] + 1 /\ sent'[q] = sent[q]
    BY <1>1, <1>10 DEF WritesFirst, MovesTo
  <2>2. pc[q] \notin {"copyIn", "copyIn2"}
    BY <1>1, <1>2, <2>1 DEF Reading
  <2>3. Received(p)' /\ Received(q)'
    BY <1>1, <1>2, <2>1 DEF Received, q
  <2>4. Reading(p)' /\ Reading(q)'
    BY <1>3, <2>1, <2>2 DEF Reading
  <2> QED BY <2>3, <2>4
<1>11. CASE WritesSecond(p)
  <2>1. /\ UNCHANGED <<message, got, sent>> /\ pc[p] = "copyOut2" /\ pc'[p] = "announce"
    BY <1>1, <1>11 DEF WritesSecond, MovesTo, ex4History
  <2>2. pc[q] \notin {"copyIn", "copyIn2"}
    BY <1>1, <1>2, <2>1 DEF Reading
  <2>3. Received(p)' /\ Received(q)'
    BY <1>1, <1>2, <2>1 DEF Received, q
  <2>4. Reading(p)' /\ Reading(q)'
    BY <1>3, <2>1, <2>2 DEF Reading
  <2> QED BY <2>3, <2>4
<1> QED BY <1>5, <1>6, <1>7, <1>8, <1>9, <1>10, <1>11, ExchangeSteps DEF Reads, Writes

------------------------------------------------------------------------------
SameTokens(p) ==
  /\ val'[Empty(p)] = val[Empty(p)] /\ val'[Full(p)] = val[Full(p)]
  /\ \A x \in Programs, s \in {Empty(p), Full(p)} : adj'[x][s] = adj[x][s]
SameContents(p) ==
  sent'[Peer(p)] = sent[Peer(p)] /\ mailbox'[p] = mailbox[p] /\ got'[p] = got[p]
Stays(at, to, Area) == at = to \/ to = "stopping" \/ {at, to} \cap (Area \cup {"stopping"}) = {}

LEMMA MailboxKept ==
  ASSUME TypeInv, NEW p \in Programs, Mailbox(p), SameTokens(p), SameContents(p),
         Stays(pc[Peer(p)], pc'[Peer(p)], Writing),
         \/ Stays(pc[p], pc'[p], Receiving)
         \/ pc[p] = "copyIn" /\ pc'[p] = "copyIn2"
  PROVE  Mailbox(p)'
<1> DEFINE q == Peer(p)
           s == adj[q][Empty(p)]
           f == -adj[q][Full(p)]
           r == adj[p][Full(p)]
           e == -adj[p][Empty(p)]
<1>1. q \in Programs
  BY TwoPrograms
<1>2. /\ Tokens(val[Empty(p)], val[Full(p)], s, f, r, e)
      /\ WriterAt(pc[q], s, f, sent[q], mailbox[p])
      /\ ReaderAt(pc[p], r, e, Len(got[p]))
  BY DEF Mailbox
<1>3. /\ adj'[q][Empty(p)] = s /\ -adj'[q][Full(p)] = f
      /\ adj'[p][Full(p)] = r /\ -adj'[p][Empty(p)] = e
      /\ val'[Empty(p)] = val[Empty(p)] /\ val'[Full(p)] = val[Full(p)]
  BY <1>1 DEF SameTokens
<1>4. sent'[q] = sent[q] /\ mailbox'[p] = mailbox[p] /\ got'[p] = got[p]
  BY DEF SameContents
<1>5. Stays(pc[q], pc'[q], Writing)
  OBVIOUS
<1> HIDE DEF q, s, f, r, e
<1>6. WriterAt(pc'[q], s, f, sent[q], mailbox[p])
  BY <1>2, <1>5 DEF WriterAt, Stays, Writing
<1>7. ReaderAt(pc'[p], r, e, Len(got[p]))
  BY <1>2 DEF ReaderAt, Stays, Receiving
<1> QED BY <1>2, <1>3, <1>4, <1>6, <1>7 DEF Mailbox, q

\* A V is never refused where nobody failed: there is room.
LEMMA MailboxTypes ==
  ASSUME TypeInv, NEW p \in Programs
  PROVE  /\ val[Empty(p)] \in Nat /\ val[Full(p)] \in Nat
         /\ \A x \in Programs : adj[x][Empty(p)] \in Int /\ adj[x][Full(p)] \in Int
         /\ Len(got[p]) \in Nat /\ sent[p] \in Nat
<1>1. /\ adj \in [Programs -> [Sems -> Int]] /\ val \in [Sems -> 0..SEMVMX]
      /\ got \in [Programs -> Seq(Int \X Int)] /\ sent \in [Programs -> Nat]
  BY DEF TypeInv
<1>2. Empty(p) \in Sems /\ Full(p) \in Sems
  BY FourSems
<1>3. \A x \in Programs : adj[x] \in [Sems -> Int]
  BY <1>1
<1>4. \A x \in Programs : adj[x][Empty(p)] \in Int /\ adj[x][Full(p)] \in Int
  BY <1>2, <1>3
<1>5. got[p] \in Seq(Int \X Int)
  BY <1>1
<1> QED BY <1>1, <1>2, <1>4, <1>5

LEMMA RoomToRelease ==
  ASSUME TypeInv, NEW p \in Programs, Mailbox(p), pc[p] = "release"
  PROVE  Done(val[Empty(p)], adj[p][Empty(p)], 1)
<1> DEFINE q == Peer(p)
           s == adj[q][Empty(p)]
           f == -adj[q][Full(p)]
           r == adj[p][Full(p)]
           e == -adj[p][Empty(p)]
<1>1. q \in Programs
  BY TwoPrograms
<1>2. Tokens(val[Empty(p)], val[Full(p)], s, f, r, e) /\ ReaderAt(pc[p], r, e, Len(got[p]))
  BY DEF Mailbox
<1>3. s \in Int /\ f \in Int /\ r \in Int /\ e \in Int /\ adj[p][Empty(p)] = -e
  BY <1>1, MailboxTypes
<1> HIDE DEF q, s, f, r, e
<1>4. e = r - 1
  BY <1>2 DEF ReaderAt
<1>5. val[Empty(p)] = 0 /\ e >= 0 /\ e < SEMAEM
  BY <1>2, <1>3, <1>4 DEF Tokens
<1>6. -e - 1 \in Adjustments /\ 1 =< SEMVMX
  BY <1>3, <1>5 DEF Adjustments
<1> QED BY <1>3, <1>5, <1>6 DEF Done, MustWait, InRange

LEMMA RoomToAnnounce ==
  ASSUME TypeInv, SEMAEM =< SEMVMX, NEW p \in Programs, Mailbox(Peer(p)), pc[p] = "announce"
  PROVE  Done(val[Full(Peer(p))], adj[p][Full(Peer(p))], 1)
<1> DEFINE q == Peer(p)
           s == adj[p][Empty(q)]
           f == -adj[p][Full(q)]
           r == adj[q][Full(q)]
           e == -adj[q][Empty(q)]
<1>1. q \in Programs /\ Peer(q) = p
  BY TwoPrograms
<1>2. Tokens(val[Empty(q)], val[Full(q)], s, f, r, e) /\ WriterAt(pc[p], s, f, sent[p], mailbox[q])
  BY <1>1 DEF Mailbox
<1>3. /\ s \in Int /\ f \in Int /\ r \in Int /\ e \in Int /\ adj[p][Full(q)] = -f
      /\ val[Full(q)] \in Nat
  BY <1>1, MailboxTypes
<1> HIDE DEF q, s, f, r, e
<1>4. f = s - 1
  BY <1>2 DEF WriterAt
<1>5. val[Full(q)] + 1 =< SEMAEM /\ f >= 0 /\ f < SEMAEM
  BY <1>2, <1>3, <1>4 DEF Tokens
<1>6. -f - 1 \in Adjustments
  BY <1>3, <1>5 DEF Adjustments
<1>7. Done(val[Full(q)], adj[p][Full(q)], 1)
  BY <1>3, <1>5, <1>6 DEF Done, MustWait, InRange
<1> QED BY <1>7 DEF q

\* In a run in which nobody failed, a step of p does this to its own mailbox,
LEMMA OwnMailbox ==
  ASSUME TypeInv, NEW p \in Programs, Mailbox(p), Exchange(p), pc'[p] # "failed",
         semset = "there"
  PROVE  Mailbox(p)'
<1> DEFINE q == Peer(p)
           s == adj[q][Empty(p)]
           f == -adj[q][Full(p)]
           r == adj[p][Full(p)]
           e == -adj[p][Empty(p)]
<1>1. /\ q \in Programs /\ q # p /\ Empty(p) \in Sems /\ Full(p) \in Sems
      /\ Full(q) \in Sems /\ Empty(q) \in Sems
      /\ {Full(q), Empty(q)} \cap {Full(p), Empty(p)} = {} /\ Empty(p) # Full(p)
  BY TwoPrograms, FourSems
<1>2. /\ Tokens(val[Empty(p)], val[Full(p)], s, f, r, e)
      /\ WriterAt(pc[q], s, f, sent[q], mailbox[p])
      /\ ReaderAt(pc[p], r, e, Len(got[p]))
  BY DEF Mailbox
<1>3. /\ s \in Int /\ f \in Int /\ r \in Int /\ e \in Int /\ Len(got[p]) \in Nat
      /\ val[Empty(p)] \in Int /\ val[Full(p)] \in Int
      /\ got[p] \in Seq(Int \X Int)
  <2>1. /\ adj \in [Programs -> [Sems -> Int]] /\ val \in [Sems -> 0..SEMVMX]
        /\ got \in [Programs -> Seq(Int \X Int)]
    BY DEF TypeInv
  <2>2. /\ adj[q] \in [Sems -> Int] /\ adj[p] \in [Sems -> Int]
        /\ got[p] \in Seq(Int \X Int)
    BY <1>1, <2>1
  <2>3. /\ adj[q][Empty(p)] \in Int /\ adj[q][Full(p)] \in Int
        /\ adj[p][Empty(p)] \in Int /\ adj[p][Full(p)] \in Int
    BY <1>1, <2>2
  <2> QED BY <1>1, <2>1, <2>2, <2>3
<1>4. pc'[q] = pc[q] /\ adj'[q] = adj[q] /\ sent'[q] = sent[q]
  BY <1>1, ExchangeType DEF OnlyOf
<1>5. Stays(pc[q], pc'[q], Writing)
  BY <1>4 DEF Stays
<1> HIDE DEF q
<1>6. CASE PStep(p, "receive", Full(p), "copyIn", "send")
  <2>1. mailbox'[p] = mailbox[p] /\ got'[p] = got[p] /\ pc[p] = "receive"
    BY <1>6 DEF PStep, buffers, ex4History
  <2>2. CASE Takes(p, Full(p), "copyIn")
    <3>1. /\ val[Full(p)] - 1 >= 0 /\ pc'[p] = "copyIn"
          /\ val'[Full(p)] = val[Full(p)] - 1 /\ val'[Empty(p)] = val[Empty(p)]
          /\ adj'[p][Full(p)] = r + 1 /\ adj'[p][Empty(p)] = adj[p][Empty(p)]
      <4>1. Changed(p, Full(p), -1) /\ val[Full(p)] + -1 >= 0 /\ pc'[p] = "copyIn"
        BY <1>3, <2>2 DEF Takes, Done, MustWait, MovesTo
      <4>2. val'[Full(p)] = val[Full(p)] - 1 /\ adj'[p][Full(p)] = r + 1
        BY <1>3, <4>1 DEF Changed
      <4>3. Empty(p) \in Sems /\ Empty(p) # Full(p)
        BY <1>1
      <4>4. val'[Empty(p)] = val[Empty(p)] /\ adj'[p][Empty(p)] = adj[p][Empty(p)]
        BY <4>1, <4>3 DEF Changed
      <4> QED BY <1>3, <4>1, <4>2, <4>4
    <3> HIDE DEF s, f, r, e
    <3>2. e = r /\ Len(got[p]) = r
      BY <1>2, <2>1 DEF ReaderAt, Receiving
    <3>3. Tokens(val[Empty(p)], val[Full(p)] - 1, s, f, r + 1, e)
      BY <1>2, <1>3, <3>1, <3>2 DEF Tokens
    <3>4. ReaderAt("copyIn", r + 1, e, Len(got[p]))
      BY <1>3, <3>2 DEF ReaderAt, Receiving
    <3> QED BY <1>2, <1>4, <2>1, <3>1, <3>3, <3>4 DEF Mailbox, q, s, f, r, e
  <2>3. CASE Misses(p, Full(p), "send")
    <3>1. SameTokens(p) /\ pc'[p] = "send"
      BY <2>3 DEF Misses, MovesTo, SameTokens
    <3>2. Stays(pc[p], pc'[p], Receiving)
      BY <2>1, <3>1 DEF Stays, Receiving
    <3> QED BY <1>4, <1>5, <2>1, <3>1, <3>2, MailboxKept DEF SameContents, q
  <2> QED BY <1>6, <2>2, <2>3 DEF PStep, Fails, MovesTo
<1>7. CASE PStep(p, "send", Empty(Peer(p)), "copyOut", "receive")
  <2>1. mailbox'[p] = mailbox[p] /\ got'[p] = got[p] /\ pc[p] = "send"
    BY <1>7 DEF PStep, buffers, ex4History
  <2>2. SameTokens(p) /\ pc'[p] \in {"copyOut", "receive"}
    <3>1. CASE Takes(p, Empty(Peer(p)), "copyOut")
      <4>1. Changed(p, Empty(q), -1) /\ pc'[p] = "copyOut"
        BY <3>1 DEF Takes, MovesTo, q
      <4>2. Empty(p) # Empty(q) /\ Full(p) # Empty(q)
        BY <1>1
      <4> QED BY <1>1, <4>1, <4>2 DEF Changed, SameTokens
    <3>2. CASE Misses(p, Empty(Peer(p)), "receive")
      BY <3>2 DEF Misses, MovesTo, SameTokens
    <3> QED BY <1>7, <3>1, <3>2 DEF PStep, Fails, MovesTo
  <2>3. Stays(pc[p], pc'[p], Receiving)
    BY <2>1, <2>2 DEF Stays, Receiving
  <2> QED BY <1>4, <1>5, <2>1, <2>2, <2>3, MailboxKept DEF SameContents, q
<1>8. CASE VStep(p, "release", Empty(p), "send")
  <2>1. /\ mailbox'[p] = mailbox[p] /\ got'[p] = got[p]
        /\ pc[p] = "release" /\ pc'[p] = "send"
    BY <1>8 DEF VStep, MovesTo, buffers
  <2>2. e = r - 1 /\ Len(got[p]) = r
    BY <1>2, <2>1 DEF ReaderAt
  <2>3. Gives(p, Empty(p))
    BY <1>8, <2>1, RoomToRelease DEF VStep, CannotGive
  <2>4. /\ val'[Full(p)] = val[Full(p)] /\ val'[Empty(p)] = val[Empty(p)] + 1
        /\ adj'[p][Full(p)] = adj[p][Full(p)] /\ -adj'[p][Empty(p)] = e + 1
    <3>1. Changed(p, Empty(p), 1)
      BY <2>3 DEF Gives
    <3>2. Full(p) \in Sems /\ Empty(p) # Full(p)
      BY <1>1
    <3>3. val'[Full(p)] = val[Full(p)] /\ adj'[p][Full(p)] = adj[p][Full(p)]
      BY <3>1, <3>2 DEF Changed
    <3>4. adj[p][Empty(p)] \in Int
      BY MailboxTypes
    <3> QED BY <3>1, <3>3, <3>4 DEF Changed
  <2> HIDE DEF s, f, r, e
  <2>5. Tokens(val[Empty(p)] + 1, val[Full(p)], s, f, r, e + 1)
    BY <1>2, <1>3, <2>2 DEF Tokens
  <2>6. ReaderAt("send", r, e + 1, Len(got[p]))
    BY <1>3, <2>2 DEF ReaderAt, Receiving
  <2> QED BY <1>2, <1>4, <2>1, <2>4, <2>5, <2>6 DEF Mailbox, q, s, f, r, e
<1>9. CASE VStep(p, "announce", Full(Peer(p)), "receive")
  <2>1. /\ mailbox'[p] = mailbox[p] /\ got'[p] = got[p]
        /\ pc[p] = "announce" /\ pc'[p] = "receive"
    BY <1>9 DEF VStep, MovesTo, buffers
  <2>2. SameTokens(p)
    <3>1. CASE Gives(p, Full(q))
      <4>1. Changed(p, Full(q), 1)
        BY <3>1 DEF Gives
      <4>2. Empty(p) # Full(q) /\ Full(p) # Full(q)
        BY <1>1
      <4> QED BY <1>1, <4>1, <4>2 DEF Changed, SameTokens
    <3>2. CASE CannotGive(p, Full(q))
      BY <3>2 DEF CannotGive, SameTokens
    <3> QED BY <1>9, <3>1, <3>2 DEF VStep, q
  <2>3. Stays(pc[p], pc'[p], Receiving)
    BY <2>1 DEF Stays, Receiving
  <2> QED BY <1>4, <1>5, <2>1, <2>2, <2>3, MailboxKept DEF SameContents, q
<1>10. CASE ReadsFirst(p)
  <2>1. /\ SameTokens(p) /\ SameContents(p) /\ pc[p] = "copyIn" /\ pc'[p] = "copyIn2"
    BY <1>10 DEF ReadsFirst, MovesTo, semaphores, ex4History, SameTokens, SameContents
  <2> QED BY <1>5, <2>1, MailboxKept DEF q
<1>11. CASE ReadsSecond(p)
  <2>1. /\ UNCHANGED <<val, adj, mailbox, sent>> /\ pc[p] = "copyIn2" /\ pc'[p] = "release"
        /\ got'[p] = Append(got[p], message'[p]) /\ message'[p] \in Int \X Int
    BY <1>11 DEF ReadsSecond, MovesTo, semaphores
  <2>2. Len(got'[p]) = Len(got[p]) + 1
    BY <1>3, <2>1
  <2> HIDE DEF s, f, r, e
  <2>3. e = r - 1 /\ Len(got[p]) = r - 1
    BY <1>2, <2>1 DEF ReaderAt
  <2>4. ReaderAt("release", r, e, Len(got[p]) + 1)
    BY <1>3, <2>3 DEF ReaderAt, Receiving
  <2> QED BY <1>2, <1>4, <2>1, <2>2, <2>4 DEF Mailbox, q, s, f, r, e
<1>12. CASE Writes(p)
  <2>1. /\ SameTokens(p) /\ SameContents(p) /\ pc[p] \in Writing /\ pc'[p] \in Writing
    BY <1>1, <1>4, <1>12 DEF Writes, WritesFirst, WritesSecond, MovesTo, semaphores, ex4History,
       SameTokens, SameContents, Writing, q
  <2>2. Stays(pc[p], pc'[p], Receiving)
    BY <2>1 DEF Stays, Receiving, Writing
  <2> QED BY <1>5, <2>1, <2>2, MailboxKept DEF q
<1> QED BY <1>6, <1>7, <1>8, <1>9, <1>10, <1>11, <1>12, ExchangeSteps DEF Reads

\* and this to the mailbox of its peer.
LEMMA PeersMailbox ==
  ASSUME TypeInv, NEW p \in Programs, Mailbox(Peer(p)), Exchange(p), pc'[p] # "failed",
         semset = "there", SEMAEM =< SEMVMX
  PROVE  Mailbox(Peer(p))'
<1> DEFINE q == Peer(p)
           s == adj[p][Empty(q)]
           f == -adj[p][Full(q)]
           r == adj[q][Full(q)]
           e == -adj[q][Empty(q)]
<1>1. /\ q \in Programs /\ q # p /\ Peer(q) = p /\ Empty(p) \in Sems /\ Full(p) \in Sems
      /\ Full(q) \in Sems /\ Empty(q) \in Sems
      /\ Full(q) # Full(p) /\ Full(q) # Empty(p) /\ Empty(q) # Full(p) /\ Empty(q) # Empty(p)
      /\ Empty(q) # Full(q)
  BY TwoPrograms, FourSems
<1>2. /\ Tokens(val[Empty(q)], val[Full(q)], s, f, r, e)
      /\ WriterAt(pc[p], s, f, sent[p], mailbox[q])
      /\ ReaderAt(pc[q], r, e, Len(got[q]))
  BY <1>1 DEF Mailbox
<1>3. /\ s \in Int /\ f \in Int /\ r \in Int /\ e \in Int /\ Len(got[q]) \in Nat
      /\ val[Empty(q)] \in Nat /\ val[Full(q)] \in Nat
      /\ sent[p] \in Nat /\ adj[p][Full(q)] \in Int
  BY <1>1, MailboxTypes
<1>4. pc'[q] = pc[q] /\ adj'[q] = adj[q] /\ got'[q] = got[q]
  BY <1>1, ExchangeType DEF OnlyOf
<1>5. Stays(pc[q], pc'[q], Receiving)
  BY <1>4 DEF Stays
<1>6. mailbox[q] \in Int \X Int
  BY <1>1 DEF TypeInv
<1> HIDE DEF q
<1>7. ASSUME SameTokens(q), mailbox'[q] = mailbox[q], sent'[p] = sent[p],
             Stays(pc[p], pc'[p], Writing)
      PROVE  Mailbox(q)'
  BY <1>1, <1>2, <1>4, <1>5, <1>7, MailboxKept DEF SameContents, q
<1>8. CASE PStep(p, "receive", Full(p), "copyIn", "send")
  <2>1. mailbox'[q] = mailbox[q] /\ sent'[p] = sent[p] /\ pc[p] = "receive"
    BY <1>8 DEF PStep, buffers, ex4History
  <2>2. SameTokens(q) /\ pc'[p] \in {"copyIn", "send"}
    <3>1. CASE Takes(p, Full(p), "copyIn")
      <4>1. Changed(p, Full(p), -1) /\ pc'[p] = "copyIn"
        BY <3>1 DEF Takes, MovesTo
      <4> QED BY <1>1, <4>1 DEF Changed, SameTokens
    <3>2. CASE Misses(p, Full(p), "send")
      BY <3>2 DEF Misses, MovesTo, SameTokens
    <3> QED BY <1>8, <3>1, <3>2 DEF PStep, Fails, MovesTo
  <2>3. Stays(pc[p], pc'[p], Writing)
    BY <2>1, <2>2 DEF Stays, Writing
  <2> QED BY <1>7, <2>1, <2>2, <2>3 DEF q
<1>9. CASE PStep(p, "send", Empty(Peer(p)), "copyOut", "receive")
  <2>1. mailbox'[q] = mailbox[q] /\ sent'[p] = sent[p] /\ pc[p] = "send"
    BY <1>9 DEF PStep, buffers, ex4History
  <2>2. CASE Takes(p, Empty(q), "copyOut")
    <3>1. /\ Changed(p, Empty(q), -1) /\ val[Empty(q)] - 1 >= 0
          /\ s + 1 =< SEMAEM /\ pc'[p] = "copyOut"
      BY <1>3, <2>2 DEF Takes, Done, MustWait, InRange, Adjustments, MovesTo
    <3>2. val'[Empty(q)] = val[Empty(q)] - 1 /\ adj'[p][Empty(q)] = s + 1
      BY <1>3, <3>1 DEF Changed
    <3>3. val'[Full(q)] = val[Full(q)] /\ adj'[p][Full(q)] = adj[p][Full(q)]
      BY <1>1, <3>1 DEF Changed
    <3> HIDE DEF s, f, r, e
    <3>4. f = s /\ sent[p] = s
      BY <1>2, <2>1 DEF WriterAt, Writing
    <3>5. Tokens(val[Empty(q)] - 1, val[Full(q)], s + 1, f, r, e)
      BY <1>2, <1>3, <3>1, <3>4 DEF Tokens
    <3>6. WriterAt("copyOut", s + 1, f, sent[p], mailbox[q])
      BY <1>3, <3>4 DEF WriterAt, Writing
    <3> QED BY <1>1, <1>2, <1>4, <2>1, <3>1, <3>2, <3>3, <3>5, <3>6
        DEF Mailbox, q, s, f, r, e
  <2>3. CASE Misses(p, Empty(q), "receive")
    <3>1. SameTokens(q) /\ pc'[p] = "receive"
      BY <2>3 DEF Misses, MovesTo, SameTokens
    <3>2. Stays(pc[p], pc'[p], Writing)
      BY <2>1, <3>1 DEF Stays, Writing
    <3> QED BY <1>7, <2>1, <3>1, <3>2 DEF q
  <2> QED BY <1>9, <2>2, <2>3 DEF PStep, Fails, MovesTo, q
<1>10. CASE VStep(p, "release", Empty(p), "send")
  <2>1. /\ mailbox'[q] = mailbox[q] /\ sent'[p] = sent[p]
        /\ pc[p] = "release" /\ pc'[p] = "send"
    BY <1>10 DEF VStep, MovesTo, buffers
  <2>2. SameTokens(q)
    <3>1. CASE Gives(p, Empty(p))
      <4>1. Changed(p, Empty(p), 1)
        BY <3>1 DEF Gives
      <4> QED BY <1>1, <4>1 DEF Changed, SameTokens
    <3>2. CASE CannotGive(p, Empty(p))
      BY <3>2 DEF CannotGive, SameTokens
    <3> QED BY <1>10, <3>1, <3>2 DEF VStep
  <2>3. Stays(pc[p], pc'[p], Writing)
    BY <2>1 DEF Stays, Writing
  <2> QED BY <1>7, <2>1, <2>2, <2>3 DEF q
<1>11. CASE VStep(p, "announce", Full(Peer(p)), "receive")
  <2>1. /\ mailbox'[q] = mailbox[q] /\ sent'[p] = sent[p]
        /\ pc[p] = "announce" /\ pc'[p] = "receive"
    BY <1>11 DEF VStep, MovesTo, buffers
  <2>2. Gives(p, Full(q))
    BY <1>11, <2>1, RoomToAnnounce DEF VStep, CannotGive, q
  <2>3. Changed(p, Full(q), 1)
    BY <2>2 DEF Gives
  <2>4. val'[Full(q)] = val[Full(q)] + 1 /\ -adj'[p][Full(q)] = f + 1
    BY <1>3, <2>3 DEF Changed
  <2>5. val'[Empty(q)] = val[Empty(q)] /\ adj'[p][Empty(q)] = adj[p][Empty(q)]
    BY <1>1, <2>3 DEF Changed
  <2> HIDE DEF s, f, r, e
  <2>6. f = s - 1 /\ sent[p] = s /\ mailbox[q] = <<s, s>>
    BY <1>2, <2>1 DEF WriterAt
  <2>7. Tokens(val[Empty(q)], val[Full(q)] + 1, s, f + 1, r, e)
    BY <1>2, <1>3, <2>6 DEF Tokens
  <2>8. WriterAt("receive", s, f + 1, sent[p], mailbox[q])
    BY <1>3, <2>6 DEF WriterAt, Writing
  <2> QED BY <1>1, <1>2, <1>4, <2>1, <2>4, <2>5, <2>7, <2>8 DEF Mailbox, q, s, f, r, e
<1>12. CASE Reads(p)
  <2>1. /\ SameTokens(q) /\ mailbox'[q] = mailbox[q] /\ sent'[p] = sent[p]
        /\ pc[p] \in Receiving /\ pc'[p] \in Receiving
    BY <1>12 DEF Reads, ReadsFirst, ReadsSecond, MovesTo, semaphores, ex4History,
       SameTokens, Receiving
  <2>2. Stays(pc[p], pc'[p], Writing)
    BY <2>1 DEF Stays, Writing, Receiving
  <2> QED BY <1>7, <2>1, <2>2 DEF q
<1>13. CASE WritesFirst(p)
  <2>1. /\ UNCHANGED <<val, adj>> /\ pc[p] = "copyOut" /\ pc'[p] = "copyOut2"
        /\ sent'[p] = sent[p] + 1 /\ mailbox'[q] = <<sent[p] + 1, mailbox[q][2]>>
    BY <1>13 DEF WritesFirst, MovesTo, semaphores, q
  <2> HIDE DEF s, f, r, e
  <2>2. f = s - 1 /\ sent[p] = s - 1
    BY <1>2, <2>1 DEF WriterAt
  <2>3. mailbox'[q][1] = s
    BY <1>3, <2>1, <2>2
  <2>4. WriterAt("copyOut2", s, f, s, mailbox'[q])
    BY <1>3, <2>2, <2>3 DEF WriterAt, Writing
  <2>5. sent'[p] = s
    BY <1>3, <2>1, <2>2
  <2> QED BY <1>1, <1>2, <1>4, <2>1, <2>4, <2>5 DEF Mailbox, q, s, f, r, e
<1>14. CASE WritesSecond(p)
  <2>1. /\ UNCHANGED <<val, adj>> /\ pc[p] = "copyOut2" /\ pc'[p] = "announce"
        /\ sent'[p] = sent[p] /\ mailbox'[q] = <<mailbox[q][1], sent[p]>>
    BY <1>14 DEF WritesSecond, MovesTo, semaphores, ex4History, q
  <2> HIDE DEF s, f, r, e
  <2>2. f = s - 1 /\ sent[p] = s /\ mailbox[q][1] = s
    BY <1>2, <2>1 DEF WriterAt
  <2>3. WriterAt("announce", s, f, s, mailbox'[q])
    BY <1>3, <2>1, <2>2 DEF WriterAt, Writing
  <2> QED BY <1>1, <1>2, <1>4, <2>1, <2>2, <2>3 DEF Mailbox, q, s, f, r, e
<1> QED
  BY <1>8, <1>9, <1>10, <1>11, <1>12, <1>13, <1>14, ExchangeSteps DEF Writes

\* A program whose P is refused has sent SEMAEM messages: its exit undoes them.
LEMMA ExitAbandons ==
  ASSUME TypeInv, NEW p \in Programs, Mailbox(p), Mailbox(Peer(p)), Exchange(p),
         semset = "there", SEMAEM =< SEMVMX, pc'[p] = "failed", pc[Peer(p)] # "failed"
  PROVE  Abandoned(p)'
<1> DEFINE q == Peer(p)
           s == adj[p][Empty(q)]
           f == -adj[p][Full(q)]
           r == adj[q][Full(q)]
           e == -adj[q][Empty(q)]
           sp == adj[q][Empty(p)]
           fp == -adj[q][Full(p)]
           rp == adj[p][Full(p)]
           ep == -adj[p][Empty(p)]
<1>1. /\ q \in Programs /\ q # p /\ Peer(q) = p /\ Empty(p) \in Sems /\ Full(p) \in Sems
      /\ Full(q) \in Sems /\ Empty(q) \in Sems
  BY TwoPrograms, FourSems
<1>2. /\ Tokens(val[Empty(q)], val[Full(q)], s, f, r, e)
      /\ WriterAt(pc[p], s, f, sent[p], mailbox[q])
      /\ ReaderAt(pc[q], r, e, Len(got[q]))
      /\ Tokens(val[Empty(p)], val[Full(p)], sp, fp, rp, ep)
      /\ WriterAt(pc[q], sp, fp, sent[q], mailbox[p])
  BY <1>1 DEF Mailbox
<1>3. /\ s \in Int /\ f \in Int /\ r \in Int /\ e \in Int
      /\ sp \in Int /\ fp \in Int /\ rp \in Int /\ ep \in Int
      /\ val[Empty(q)] \in Nat /\ val[Full(q)] \in Nat
      /\ val[Empty(p)] \in Nat /\ val[Full(p)] \in Nat
      /\ val[Empty(p)] =< SEMVMX /\ val[Full(p)] =< SEMVMX
      /\ val[Empty(q)] =< SEMVMX /\ val[Full(q)] =< SEMVMX
      /\ adj[p][Full(q)] = -f /\ adj[p][Empty(p)] = -ep
      /\ adj[q][Full(p)] = -fp
  <2>1. /\ s \in Int /\ f \in Int /\ r \in Int /\ e \in Int
        /\ adj[p][Full(q)] \in Int /\ val[Empty(q)] \in Nat /\ val[Full(q)] \in Nat
    BY <1>1, MailboxTypes
  <2>2. /\ sp \in Int /\ fp \in Int /\ rp \in Int /\ ep \in Int
        /\ adj[p][Empty(p)] \in Int /\ adj[q][Full(p)] \in Int
        /\ val[Empty(p)] \in Nat /\ val[Full(p)] \in Nat
    BY <1>1, MailboxTypes
  <2>3. \A t \in Sems : val[t] =< SEMVMX
    BY DEF TypeInv
  <2>4. adj[p][Full(q)] = -f /\ adj[p][Empty(p)] = -ep /\ adj[q][Full(p)] = -fp
    BY <2>1, <2>2
  <2> HIDE DEF s, f, r, e, sp, fp, rp, ep
  <2> QED BY <1>1, <2>1, <2>2, <2>3, <2>4
<1>4. pc'[q] = pc[q] /\ adj'[q] = adj[q]
  BY <1>1, ExchangeType DEF OnlyOf
<1> HIDE DEF q, s, f, r, e, sp, fp, rp, ep
<1>5. pc[p] = "receive" => ~Fails(p, Full(p))
  <2>1. ~Refused(val[Full(p)], rp, -1)
    BY <1>2, <1>3 DEF Tokens, Refused, MustWait, InRange, Adjustments
  <2> QED BY <2>1 DEF Fails, rp
<1>6. pc[p] = "send" /\ Fails(p, Empty(q))
  BY <1>5, ExchangeSteps DEF PStep, VStep, Reads, Writes, ReadsFirst, ReadsSecond,
     WritesFirst, WritesSecond, Takes, Misses, MovesTo, q
<1>7. Refused(val[Empty(q)], s, -1) /\ Exit(p)
  BY <1>6 DEF Fails, s
<1>8. e = r /\ f = r
  <2>1. val[Empty(q)] >= 1
    BY <1>3, <1>7 DEF Refused, MustWait
  <2>2. /\ val[Empty(q)] = 1 - s + e
        /\ 0 =< e /\ e =< r /\ r =< f /\ f =< s /\ s =< SEMAEM
    BY <1>2 DEF Tokens
  <2>3. s \in Int /\ f \in Int /\ r \in Int /\ e \in Int /\ SEMAEM \in Nat
    BY <1>3
  <2>4. e >= s
    BY <2>1, <2>2, <2>3
  <2> QED BY <2>2, <2>3, <2>4
<1>9. /\ val'[Full(q)] = Undone(val[Full(q)], -f)
      /\ val'[Full(p)] = Undone(val[Full(p)], rp)
      /\ val'[Empty(p)] = Undone(val[Empty(p)], -ep)
  BY <1>1, <1>3, <1>7, ExitType DEF rp
<1>10. val'[Full(q)] = 0
  BY <1>2, <1>3, <1>8, <1>9 DEF Tokens, Undone
<1>11. val'[Full(p)] = fp
  BY <1>2, <1>3, <1>9 DEF Tokens, Undone
<1>12. (sp > 0 => val'[Empty(p)] = 0) /\ (sp = 0 => val'[Empty(p)] = 1)
  BY <1>2, <1>3, <1>9 DEF Tokens, Undone
<1>13. pc[q] \notin Receiving
  BY <1>2, <1>3, <1>8 DEF ReaderAt, Receiving
<1>14. pc[q] \in Writing => fp = sp - 1
  BY <1>2 DEF WriterAt, Writing
<1>15. 0 =< fp /\ fp =< sp /\ sp =< SEMAEM
  BY <1>2, <1>3 DEF Tokens
<1> QED BY <1>1, <1>4, <1>10, <1>11, <1>12, <1>13, <1>14, <1>15 DEF Abandoned, q, sp, fp

\* The other one goes on until its mailbox is full, and no semop of its fails.
LEMMA AbandonedKept ==
  ASSUME TypeInv, NEW x \in Programs, Abandoned(x), pc[x] = "failed", Exchange(Peer(x)),
         semset = "there", SEMAEM =< SEMVMX
  PROVE  Abandoned(x)' /\ pc'[x] = "failed" /\ refused' = refused
<1> DEFINE y == Peer(x)
           s == adj[y][Empty(x)]
           f == -adj[y][Full(x)]
<1>1. /\ y \in Programs /\ y # x /\ Peer(y) = x /\ Empty(x) \in Sems /\ Full(x) \in Sems
      /\ Full(y) \in Sems /\ Empty(y) \in Sems
      /\ Full(y) # Full(x) /\ Full(y) # Empty(x) /\ Empty(x) # Full(x)
  BY TwoPrograms, FourSems
<1>2. /\ val[Full(y)] = 0 /\ pc[y] \notin Receiving \cup {"failed"}
      /\ (s > 0 => val[Empty(x)] = 0) /\ (s = 0 => val[Empty(x)] = 1)
      /\ val[Full(x)] = f
      /\ 0 =< f /\ f =< s /\ s =< SEMAEM
      /\ (pc[y] \in Writing => f = s - 1)
  BY DEF Abandoned
<1>3. /\ s \in Int /\ f \in Int /\ val[Empty(x)] \in Nat /\ val[Full(x)] \in Nat
      /\ adj[y][Full(x)] = -f
  BY <1>1, MailboxTypes
<1>4. pc'[x] = "failed"
  BY <1>1, ExchangeType DEF OnlyOf
<1> HIDE DEF y, s, f
<1>5. ASSUME UNCHANGED <<val, adj>>, pc'[y] \notin Receiving \cup {"failed"},
             pc'[y] \in Writing => pc[y] \in Writing
      PROVE  Abandoned(x)'
  BY <1>2, <1>5 DEF Abandoned, y, s, f
<1>6. CASE PStep(y, "receive", Full(y), "copyIn", "send")
  <2>1. Misses(y, Full(y), "send")
    BY <1>2, <1>6 DEF PStep, Takes, Fails, Done, Refused, MustWait
  <2>2. pc'[y] = "send"
    BY <2>1 DEF Misses, MovesTo
  <2> QED BY <1>4, <1>5, <1>6, <2>1, <2>2 DEF Misses, PStep, ex4History, Receiving, Writing
<1>7. CASE PStep(y, "send", Empty(x), "copyOut", "receive")
  <2>1. refused' = refused
    BY <1>7 DEF PStep, ex4History
  <2>2. CASE s > 0
    <3>1. Misses(y, Empty(x), "receive")
      BY <1>2, <1>7, <2>2 DEF PStep, Takes, Fails, Done, Refused, MustWait
    <3>2. pc'[y] = "receive"
      BY <3>1 DEF Misses, MovesTo
    <3> QED BY <1>4, <1>5, <2>1, <3>1, <3>2 DEF Misses, Receiving, Writing
  <2>3. CASE s = 0
    <3>1. val[Empty(x)] = 1 /\ f = 0
      BY <1>2, <1>3, <2>3
    <3>2. ~MustWait(val[Empty(x)], -1) /\ InRange(val[Empty(x)], s, -1)
      BY <2>3, <3>1 DEF MustWait, InRange, Adjustments
    <3>3. Takes(y, Empty(x), "copyOut")
      BY <1>7, <3>2 DEF PStep, Misses, Fails, Refused, s
    <3>4. Changed(y, Empty(x), -1) /\ pc'[y] = "copyOut"
      BY <3>3 DEF Takes, MovesTo
    <3>5. val'[Empty(x)] = 0 /\ adj'[y][Empty(x)] = 1
      BY <1>3, <2>3, <3>1, <3>4 DEF Changed, s
    <3>6. /\ val'[Full(x)] = val[Full(x)] /\ val'[Full(y)] = val[Full(y)]
          /\ adj'[y][Full(x)] = adj[y][Full(x)]
      BY <1>1, <3>4 DEF Changed
    <3> QED BY <1>2, <1>3, <1>4, <2>1, <3>1, <3>4, <3>5, <3>6
        DEF Abandoned, y, f, Receiving, Writing
  <2> QED BY <1>2, <1>3, <2>2, <2>3
<1>8. CASE VStep(y, "announce", Full(x), "receive")
  <2>1. pc[y] = "announce" /\ pc'[y] = "receive"
    BY <1>8 DEF VStep, MovesTo
  <2>2. f = s - 1
    BY <1>2, <2>1 DEF Writing
  <2>3. Done(val[Full(x)], -f, 1)
    BY <1>2, <1>3, <2>2 DEF Done, MustWait, InRange, Adjustments
  <2>4. Gives(y, Full(x))
    BY <1>3, <1>8, <2>3 DEF VStep, CannotGive
  <2>5. Changed(y, Full(x), 1) /\ refused' = refused
    BY <2>4 DEF Gives
  <2>6. val'[Full(x)] = f + 1 /\ -adj'[y][Full(x)] = f + 1
    BY <1>2, <1>3, <2>5 DEF Changed
  <2>7. /\ val'[Empty(x)] = val[Empty(x)] /\ val'[Full(y)] = val[Full(y)]
        /\ adj'[y][Empty(x)] = s
    BY <1>1, <2>5 DEF Changed, s
  <2>8. 0 =< f + 1 /\ f + 1 =< s
    BY <1>2, <1>3, <2>2
  <2> QED BY <1>2, <1>4, <2>1, <2>5, <2>6, <2>7, <2>8 DEF Abandoned, y, Receiving, Writing
<1>9. CASE Writes(y)
  <2>1. /\ UNCHANGED <<val, adj, refused>> /\ pc[y] \in Writing
        /\ pc'[y] \in {"copyOut2", "announce"}
    BY <1>9 DEF Writes, WritesFirst, WritesSecond, MovesTo, semaphores, ex4History, Writing
  <2> QED BY <1>4, <1>5, <2>1 DEF Receiving
<1>10. ~VStep(y, "release", Empty(y), "send") /\ ~Reads(y)
  BY <1>2 DEF VStep, Reads, ReadsFirst, ReadsSecond, Receiving
<1> QED BY <1>1, <1>6, <1>7, <1>8, <1>9, <1>10, ExchangeSteps DEF y

------------------------------------------------------------------------------
LEMMA FullMeansWhole ==
  ASSUME TypeInv, NEW p \in Programs, Mailbox(p), val[Full(p)] > 0, pc[p] = "receive"
  PROVE  SafeToRead(p)
<1> DEFINE q == Peer(p)
           s == adj[q][Empty(p)]
           f == -adj[q][Full(p)]
           r == adj[p][Full(p)]
           e == -adj[p][Empty(p)]
<1>1. q \in Programs
  BY TwoPrograms
<1>2. /\ Tokens(val[Empty(p)], val[Full(p)], s, f, r, e)
      /\ WriterAt(pc[q], s, f, sent[q], mailbox[p])
      /\ ReaderAt(pc[p], r, e, Len(got[p]))
  BY DEF Mailbox
<1>3. /\ s \in Int /\ f \in Int /\ r \in Int /\ e \in Int /\ val[Full(p)] \in Nat
      /\ sent[q] \in Nat
  BY <1>1, MailboxTypes
<1> HIDE DEF q, s, f, r, e
<1>4. e = r /\ Len(got[p]) = r
  BY <1>2 DEF ReaderAt, Receiving
<1>5. s = r + 1 /\ f = s
  BY <1>2, <1>3, <1>4 DEF Tokens
<1>6. s > 0
  BY <1>2, <1>3, <1>5 DEF Tokens
<1>7. mailbox[p] = <<s, s>> /\ s =< sent[q]
  BY <1>2, <1>3, <1>5, <1>6 DEF WriterAt
<1>8. pc[q] \notin {"copyOut", "copyOut2"}
  BY <1>2, <1>3, <1>5 DEF WriterAt
<1> QED BY <1>4, <1>5, <1>7, <1>8 DEF SafeToRead, q

LEMMA EmptyMeansRead ==
  ASSUME TypeInv, NEW p \in Programs, Mailbox(p), val[Empty(p)] > 0
  PROVE  pc[p] \notin Receiving
<1> DEFINE q == Peer(p)
           s == adj[q][Empty(p)]
           f == -adj[q][Full(p)]
           r == adj[p][Full(p)]
           e == -adj[p][Empty(p)]
<1>1. q \in Programs
  BY TwoPrograms
<1>2. /\ Tokens(val[Empty(p)], val[Full(p)], s, f, r, e)
      /\ ReaderAt(pc[p], r, e, Len(got[p]))
  BY DEF Mailbox
<1>3. s \in Int /\ f \in Int /\ r \in Int /\ e \in Int /\ val[Empty(p)] \in Nat
  BY <1>1, MailboxTypes
<1> HIDE DEF q, s, f, r, e
<1> QED BY <1>2, <1>3 DEF Tokens, ReaderAt, Receiving

\* The exchange preserves the invariant.
LEMMA ExchangePreserves ==
  ASSUME Ex4Inv, SEMAEM =< SEMVMX, NEW p \in Programs, Exchange(p)
  PROVE  Ex4Inv'
<1> DEFINE q == Peer(p)
           Unfailed == \A x \in Programs : pc[x] # "failed"
<1>1. TypeInv /\ StartInv /\ DataInv /\ MailboxInv /\ AbandonedInv /\ ~refused
  BY DEF Ex4Inv
<1>2. TypeInv' /\ OnlyOf(p)
  BY <1>1, ExchangeType
<1>3. StartInv'
  BY <1>1, <1>2, ExchangeStart
<1>4. q \in Programs /\ q # p /\ Peer(q) = p /\ \A x \in Programs : x = p \/ x = q
  BY TwoPrograms
<1>5. initialized = Sems /\ pc[p] \in Busy /\ UNCHANGED <<semset, initialized>>
  BY <1>1, <1>2, BusyMeansStarted DEF OnlyOf
<1>6. pc[p] # "failed" /\ pc'[q] = pc[q]
  BY <1>2, <1>4, <1>5 DEF OnlyOf, Busy, Writing, Receiving
<1>7. semset = "there" /\ Unfailed => Mailbox(p) /\ Mailbox(q)
  BY <1>1, <1>4, <1>5 DEF MailboxInv, Working
<1>8. semset = "there" /\ ~Unfailed => pc[q] = "failed" /\ Abandoned(q)
  BY <1>1, <1>4, <1>5, <1>6 DEF AbandonedInv, Working
<1> HIDE DEF q, Unfailed
<1>9. DataInv'
  <2>1. ASSUME Takes(p, Full(p), "copyIn") PROVE SafeToRead(p)
    <3>1. semset = "there" /\ val[Full(p)] > 0
      <4>1. val[Full(p)] \in Nat
        BY <1>1, MailboxTypes
      <4> QED BY <2>1, <4>1 DEF Takes, Done, MustWait
    <3>2. pc[p] = "receive"
      <4>1. pc'[p] = "copyIn"
        BY <2>1 DEF Takes, MovesTo
      <4> QED BY <1>1, <4>1, ExchangeSteps DEF PStep, VStep, Reads, Writes, ReadsFirst,
            ReadsSecond, WritesFirst, WritesSecond, Takes, Misses, Fails, MovesTo
    <3>3. ~Abandoned(q)
      BY <1>4, <3>1 DEF Abandoned
    <3> QED BY <1>1, <1>7, <1>8, <3>1, <3>2, <3>3, FullMeansWhole
  <2>2. ASSUME Takes(p, Empty(Peer(p)), "copyOut") PROVE pc[Peer(p)] \notin {"copyIn", "copyIn2"}
    <3>1. semset = "there" /\ val[Empty(q)] > 0
      <4>1. val[Empty(q)] \in Nat
        BY <1>1, <1>4, MailboxTypes
      <4> QED BY <2>2, <4>1 DEF Takes, Done, MustWait, q
    <3>2. CASE Unfailed
      <4>1. pc[q] \notin Receiving
        BY <1>1, <1>4, <1>7, <3>1, <3>2, EmptyMeansRead
      <4> QED BY <4>1 DEF Receiving, q
    <3>3. CASE ~Unfailed
      BY <1>8, <3>1, <3>3 DEF q
    <3> QED BY <3>2, <3>3
  <2> QED BY <1>1, <2>1, <2>2, ExchangeData
<1>10. CASE semset # "there"
  <2>1. MailboxInv' /\ AbandonedInv'
    BY <1>5, <1>10 DEF MailboxInv, AbandonedInv, Working
  <2>2. ~refused'
    BY <1>1, <1>10, ExchangeSteps DEF PStep, VStep, CannotGive, Gives, Reads, Writes,
       ReadsFirst, ReadsSecond, WritesFirst, WritesSecond, ex4History
  <2> QED BY <1>2, <1>3, <1>9, <2>1, <2>2 DEF Ex4Inv
<1>11. CASE semset = "there" /\ ~Unfailed
  <2>1. pc[q] = "failed" /\ Abandoned(q)
    BY <1>8, <1>11
  <2>2. Abandoned(q)' /\ pc'[q] = "failed" /\ refused' = refused
    BY <1>1, <1>4, <1>11, <2>1, AbandonedKept
  <2>3. pc'[p] # "failed"
    BY <1>4, <2>2 DEF Abandoned
  <2>4. MailboxInv' /\ AbandonedInv'
    BY <1>4, <2>2, <2>3 DEF MailboxInv, AbandonedInv
  <2> QED BY <1>1, <1>2, <1>3, <1>9, <2>2, <2>4 DEF Ex4Inv
<1>12. CASE semset = "there" /\ Unfailed
  <2>1. Mailbox(p) /\ Mailbox(q) /\ pc[q] # "failed"
    BY <1>4, <1>7, <1>12 DEF Unfailed
  <2>2. ~refused'
    <3>1. pc[p] = "release" => Done(val[Empty(p)], adj[p][Empty(p)], 1)
      BY <1>1, <2>1, RoomToRelease
    <3>2. pc[p] = "announce" => Done(val[Full(q)], adj[p][Full(q)], 1)
      BY <1>1, <2>1, RoomToAnnounce DEF q
    <3>3. refused' = refused
      BY <1>1, <1>12, <3>1, <3>2, ExchangeSteps DEF PStep, VStep, CannotGive, Gives, Reads,
         Writes, ReadsFirst, ReadsSecond, WritesFirst, WritesSecond, ex4History, q
    <3> QED BY <1>1, <3>3
  <2>3. CASE pc'[p] = "failed"
    <3>1. Abandoned(p)'
      BY <1>1, <1>12, <2>1, <2>3, ExitAbandons DEF q
    <3>2. MailboxInv' /\ AbandonedInv'
      BY <1>4, <1>6, <2>1, <2>3, <3>1 DEF MailboxInv, AbandonedInv
    <3> QED BY <1>2, <1>3, <1>9, <2>2, <3>2 DEF Ex4Inv
  <2>4. CASE pc'[p] # "failed"
    <3>1. Mailbox(p)' /\ Mailbox(q)'
      BY <1>1, <1>12, <2>1, <2>4, OwnMailbox, PeersMailbox DEF q
    <3>2. MailboxInv' /\ AbandonedInv'
      BY <1>4, <1>6, <2>1, <2>4, <3>1 DEF MailboxInv, AbandonedInv
    <3> QED BY <1>2, <1>3, <1>9, <2>2, <3>2 DEF Ex4Inv
  <2> QED BY <2>3, <2>4
<1> QED BY <1>10, <1>11, <1>12

------------------------------------------------------------------------------
\* The steps outside the exchange leave the messages alone.
LEMMA DataKept ==
  ASSUME DataInv, UNCHANGED <<buffers, sent, got>>,
         \A x \in Programs : pc'[x] = pc[x]
                             \/ pc'[x] \notin {"copyIn", "copyIn2", "copyOut", "copyOut2"}
  PROVE  DataInv'
<1> SUFFICES ASSUME NEW x \in Programs PROVE Reading(x)' /\ Received(x)'
  BY DEF DataInv
<1>1. Reading(x) /\ Received(x) /\ Peer(x) \in Programs
  BY TwoPrograms DEF DataInv
<1>2. UNCHANGED <<mailbox, message, sent, got>>
  BY DEF buffers
<1>3. Reading(x)'
  BY <1>1, <1>2 DEF Reading
<1>4. Received(x)'
  BY <1>1, <1>2 DEF Received
<1> QED BY <1>3, <1>4

LEMMA CreatePreserves ==
  ASSUME Ex4Inv, CreateSet
  PROVE  Ex4Inv'
<1>1. TypeInv /\ StartInv /\ DataInv /\ ~refused
  BY DEF Ex4Inv
<1>2. /\ pc["A"] = "semget" /\ MovesTo("A", "setval")
      /\ "setval" \in Places /\ "A" \in Programs /\ "B" \in Programs /\ "A" # "B"
  <2>1. "setval" \in Places /\ "A" \in Programs /\ "B" \in Programs
    BY DEF Places, Programs
  <2> QED BY <1>1, <2>1, MoveType DEF CreateSet, Goto
<1>3. /\ UNCHANGED <<val, adj, initialized, mailbox, message, sent, got, refused>>
      /\ semset' = "there" /\ attached' = attached \cup {"A"}
  BY DEF CreateSet, buffers, ex4History
<1>4. initialized = {} /\ initialized # Sems
  <2>1. Sems # {}
    BY <1>2, FourSems
  <2> QED BY <1>1, <1>2, <2>1 DEF StartInv
<1>5. TypeInv'
  BY <1>1, <1>2, <1>3 DEF TypeInv, MovesTo
<1>6. StartInv'
  <2>1. pc'["A"] = "setval" /\ pc'["B"] = pc["B"]
    BY <1>2 DEF MovesTo
  <2>2. \A p \in Programs : p = "A" \/ p = "B"
    BY DEF Programs
  <2>3. "B" \notin attached /\ \A p \in Programs : Quiet(p)'
    BY <1>1, <1>3, <1>4 DEF StartInv, Quiet
  <2>4. pc["B"] \in {"semget", "connect", "stopping", "gone"} /\ pc["B"] \notin {"semget", "setval"}
    BY <1>1, <1>2, <2>3 DEF StartInv
  <2>5. \A p \in Programs \ attached' :
          pc'[p] \in {"semget", "connect", "stopping", "gone"} /\ Quiet(p)'
    BY <1>3, <2>1, <2>2, <2>3, <2>4
  <2>6. \A p \in attached' : pc'[p] # "gone"
    <3>1. \A p \in attached' : p = "A"
      BY <1>1, <1>3, <2>2, <2>3 DEF TypeInv
    <3> QED BY <2>1, <3>1
  <2>7. "B" \notin attached' /\ pc'["B"] \notin {"semget", "setval"}
    BY <1>2, <1>3, <2>1, <2>3, <2>4
  <2>8. initialized' = {}
    BY <1>3, <1>4
  <2> QED BY <1>3, <1>4, <2>1, <2>3, <2>5, <2>6, <2>7, <2>8 DEF StartInv
<1>7. DataInv'
  BY <1>1, <1>2, <1>3, DataKept DEF MovesTo, buffers
<1>8. MailboxInv' /\ AbandonedInv'
  BY <1>3, <1>4 DEF MailboxInv, AbandonedInv, Working
<1> QED BY <1>1, <1>3, <1>5, <1>6, <1>7, <1>8 DEF Ex4Inv

LEMMA ConnectPreserves ==
  ASSUME Ex4Inv, SleepIsEnough, Connect
  PROVE  Ex4Inv'
<1>1. TypeInv /\ StartInv /\ DataInv /\ MailboxInv /\ AbandonedInv /\ ~refused
  BY DEF Ex4Inv
<1>2. /\ pc["B"] = "connect" /\ MovesTo("B", "receive")
      /\ "A" \in Programs /\ "B" \in Programs /\ "A" # "B"
  <2>1. "receive" \in Places /\ "A" \in Programs /\ "B" \in Programs
    BY DEF Places, Programs
  <2> QED BY <1>1, <2>1, MoveType DEF Connect, Goto
<1>3. /\ UNCHANGED <<semset, val, adj, initialized, mailbox, message, sent, got, refused>>
      /\ semset = "there" /\ initialized = Sems /\ attached' = attached \cup {"B"}
  BY DEF Connect, buffers, ex4History, semaphores
<1>4. pc'["B"] = "receive" /\ pc'["A"] = pc["A"] /\ \A p \in Programs : p = "A" \/ p = "B"
  BY <1>2 DEF MovesTo, Programs
<1>5. TypeInv'
  BY <1>1, <1>2, <1>3 DEF TypeInv, MovesTo
<1>6. StartInv'
  <2>1. \A p \in Programs : Quiet(p)' <=> Quiet(p)
    BY <1>3 DEF Quiet
  <2>2. pc["A"] \notin {"semget", "connect", "setval"}
    BY <1>1, <1>3 DEF StartInv
  <2>3. \A p \in Programs \ attached' :
          pc'[p] \in {"semget", "connect", "stopping", "gone"} /\ Quiet(p)'
    BY <1>1, <1>2, <1>3, <1>4, <2>1 DEF StartInv
  <2>4. \A p \in attached' : pc'[p] # "gone"
    <3>1. \A p \in attached' : p = "B" \/ (p = "A" /\ p \in attached)
      BY <1>1, <1>3, <1>4 DEF TypeInv
    <3> QED BY <1>1, <1>3, <1>4, <3>1 DEF StartInv
  <2>5. "A" \in attached'
    BY <1>1, <1>3 DEF StartInv
  <2> QED BY <1>3, <1>4, <2>2, <2>3, <2>4, <2>5 DEF StartInv
<1>7. DataInv'
  BY <1>1, <1>3, <1>4, DataKept DEF buffers
<1>8. MailboxInv'
  <2> SUFFICES ASSUME \A q \in Programs : pc'[q] # "failed", NEW p \in Programs
               PROVE  Mailbox(p)'
    BY DEF MailboxInv
  <2>1. Mailbox(p)
    BY <1>1, <1>2, <1>3, <1>4 DEF MailboxInv, Working
  <2>2. \A x \in Programs : Stays(pc[x], pc'[x], Writing) /\ Stays(pc[x], pc'[x], Receiving)
    BY <1>2, <1>4 DEF Stays, Writing, Receiving
  <2>3. SameTokens(p) /\ SameContents(p) /\ Peer(p) \in Programs
    BY <1>3, TwoPrograms DEF SameTokens, SameContents
  <2> QED BY <1>1, <2>1, <2>2, <2>3, MailboxKept
<1>9. AbandonedInv'
  <2> SUFFICES ASSUME NEW x \in Programs, pc'[x] = "failed" PROVE Abandoned(x)'
    BY DEF AbandonedInv
  <2>1. Abandoned(x) /\ Peer(x) \in Programs
    BY <1>1, <1>3, <1>4, TwoPrograms DEF AbandonedInv, Working
  <2>2. pc'[Peer(x)] = pc[Peer(x)] \/ pc'[Peer(x)] = "receive"
    BY <1>4, <2>1
  <2> QED BY <1>3, <2>1, <2>2 DEF Abandoned, Writing, Receiving
<1> QED BY <1>1, <1>3, <1>5, <1>6, <1>7, <1>8, <1>9 DEF Ex4Inv

LEMMA InterruptPreserves ==
  ASSUME Ex4Inv, NEW p \in Programs, Interrupt(p)
  PROVE  Ex4Inv'
<1>1. TypeInv /\ StartInv /\ DataInv /\ MailboxInv /\ AbandonedInv /\ ~refused
  BY DEF Ex4Inv
<1>2. pc[p] \notin Over /\ MovesTo(p, "stopping")
  <2>1. "stopping" \in Places
    BY DEF Places, Over
  <2> QED BY <1>1, <2>1, MoveType DEF Interrupt
<1>3. UNCHANGED <<semset, val, adj, initialized, attached, mailbox, message, sent, got, refused>>
  BY DEF Interrupt, buffers, ex4History, semaphores
<1>4. \A x \in Programs : pc'[x] = pc[x] \/ (x = p /\ pc'[x] = "stopping")
  BY <1>2 DEF MovesTo
<1>5. TypeInv'
  BY <1>1, <1>2, <1>3 DEF TypeInv, MovesTo
<1>6. StartInv'
  <2>1. \A x \in Programs : Quiet(x)' <=> Quiet(x)
    BY <1>3 DEF Quiet
  <2>2. "A" \in Programs /\ "B" \in Programs /\ attached \subseteq Programs
    BY <1>1 DEF Programs, TypeInv
  <2> QED BY <1>1, <1>3, <1>4, <2>1, <2>2 DEF StartInv
<1>7. DataInv'
  BY <1>1, <1>3, <1>4, DataKept DEF buffers
<1>8. MailboxInv'
  <2> SUFFICES ASSUME Working, \A x \in Programs : pc'[x] # "failed", NEW m \in Programs
               PROVE  Mailbox(m)'
    BY <1>3 DEF MailboxInv, Working
  <2>1. Mailbox(m)
    BY <1>1, <1>2, <1>4 DEF MailboxInv, Over
  <2>2. \A x \in Programs : Stays(pc[x], pc'[x], Writing) /\ Stays(pc[x], pc'[x], Receiving)
    BY <1>4 DEF Stays
  <2>3. SameTokens(m) /\ SameContents(m) /\ Peer(m) \in Programs
    BY <1>3, TwoPrograms DEF SameTokens, SameContents
  <2> QED BY <1>1, <2>1, <2>2, <2>3, MailboxKept
<1>9. AbandonedInv'
  <2> SUFFICES ASSUME Working, NEW x \in Programs, pc'[x] = "failed" PROVE Abandoned(x)'
    BY <1>3 DEF AbandonedInv, Working
  <2>1. Abandoned(x) /\ Peer(x) \in Programs
    BY <1>1, <1>4, TwoPrograms DEF AbandonedInv
  <2>2. pc'[Peer(x)] = pc[Peer(x)] \/ pc'[Peer(x)] = "stopping"
    BY <1>4, <2>1
  <2> QED BY <1>3, <2>1, <2>2 DEF Abandoned, Writing, Receiving
<1> QED BY <1>1, <1>3, <1>5, <1>6, <1>7, <1>8, <1>9 DEF Ex4Inv

LEMMA SetPreserves ==
  ASSUME Ex4Inv, NEW s \in Sems, setSemValue(s)
  PROVE  Ex4Inv'
<1>1. TypeInv /\ StartInv /\ DataInv /\ ~refused
  BY DEF Ex4Inv
<1>2. /\ pc["A"] = "setval" /\ "A" \in Programs /\ "B" \in Programs /\ "A" # "B"
      /\ \A x \in Programs : x = "A" \/ x = "B"
  BY DEF setSemValue, Programs
<1>3. /\ UNCHANGED <<semset, attached, mailbox, message, sent, got, refused>>
      /\ initialized' = initialized \cup {s}
  BY DEF setSemValue, buffers, ex4History
<1>4. initialized # Sems /\ semset # "none" /\ "B" \notin attached /\ \A x \in Programs : Quiet(x)
  BY <1>1, <1>2 DEF StartInv
<1>5. /\ "A" \in attached
      /\ pc["B"] \in {"connect", "stopping", "gone"}
  BY <1>1, <1>2, <1>4 DEF StartInv
<1>6. /\ pc' \in [Programs -> Places] /\ pc'["B"] = pc["B"]
      /\ pc'["A"] = IF initialized' = Sems THEN "receive" ELSE "setval"
  <2>1. pc \in [Programs -> Places] /\ "receive" \in Places
    BY <1>1 DEF TypeInv, Places
  <2>2. pc' = IF initialized' = Sems THEN [pc EXCEPT !["A"] = "receive"] ELSE pc
    BY DEF setSemValue
  <2> QED BY <1>2, <2>1, <2>2
<1>7. /\ val' \in [Sems -> 0..SEMVMX] /\ adj' \in [Programs -> [Sems -> Int]]
      /\ \A x \in Programs : adj'[x] = [t \in Sems |-> 0]
      /\ semset = "there" => /\ val'[s] = InitialValue(s)
                             /\ \A t \in Sems : t # s => val'[t] = val[t]
  <2>1. val \in [Sems -> 0..SEMVMX] /\ adj \in [Programs -> [Sems -> Int]]
    BY <1>1 DEF TypeInv
  <2>2. \A x \in Programs : adj[x] = [t \in Sems |-> 0]
    BY <1>4 DEF Quiet
  <2>3. InitialValue(s) \in 0..SEMVMX
    BY DEF InitialValue
  <2>4. CASE semset = "there"
    <3>1. val' = [val EXCEPT ![s] = InitialValue(s)]
          /\ adj' = [x \in Programs |-> [adj[x] EXCEPT ![s] = 0]]
      BY <2>4 DEF setSemValue
    <3>2. \A x \in Programs : [adj[x] EXCEPT ![s] = 0] = [t \in Sems |-> 0]
      BY <2>2
    <3>3. \A x \in Programs : adj'[x] = [t \in Sems |-> 0]
      BY <3>1, <3>2
    <3>4. adj' \in [Programs -> [Sems -> Int]]
      <4>1. [t \in Sems |-> 0] \in [Sems -> Int]
        OBVIOUS
      <4>2. adj' = [x \in Programs |-> [t \in Sems |-> 0]]
        BY <3>1, <3>2
      <4> QED BY <4>1, <4>2
    <3> QED BY <2>1, <2>3, <3>1, <3>3, <3>4
  <2>5. CASE semset # "there"
    BY <2>1, <2>2, <2>5 DEF setSemValue
  <2> QED BY <2>4, <2>5
<1>8. TypeInv'
  BY <1>1, <1>3, <1>6, <1>7 DEF TypeInv
<1>9. \A x \in Programs : Quiet(x)'
  BY <1>3, <1>4, <1>7 DEF Quiet
<1>10. StartInv'
  <2>1. semset' = "there" => \A t \in initialized' : val'[t] = InitialValue(t)
    <3> SUFFICES ASSUME semset = "there", NEW t \in initialized \cup {s}
                 PROVE  val'[t] = InitialValue(t)
      BY <1>3
    <3>1. t \in Sems
      BY <1>1 DEF StartInv
    <3>2. t # s => val[t] = InitialValue(t)
      BY <1>1, <1>4 DEF StartInv
    <3> QED BY <1>7, <3>1, <3>2
  <2>2. \A x \in Programs \ attached' : pc'[x] \in {"semget", "connect", "stopping", "gone"}
    BY <1>2, <1>3, <1>5, <1>6
  <2>3. \A x \in attached' : pc'[x] # "gone"
    <3>1. \A x \in attached' : x = "A"
      BY <1>1, <1>2, <1>3, <1>4 DEF TypeInv
    <3> QED BY <1>6, <3>1
  <2>4. initialized' \subseteq Sems
    BY <1>1, <1>3 DEF StartInv
  <2>5. pc'["A"] \in {"receive", "setval"} /\ (pc'["A"] = "setval" => initialized' # Sems)
    BY <1>6
  <2> QED BY <1>3, <1>4, <1>5, <1>6, <1>9, <2>1, <2>2, <2>3, <2>4, <2>5 DEF StartInv
<1>11. DataInv'
  BY <1>1, <1>2, <1>3, <1>6, DataKept DEF buffers
<1>12. \A x \in Programs : pc'[x] \notin {"failed", "stopping"} \cup Writing \cup Receiving
                           \/ (x = "B" /\ pc'[x] = "stopping")
  BY <1>2, <1>5, <1>6 DEF Writing, Receiving
<1>13. AbandonedInv'
  BY <1>12 DEF AbandonedInv
<1>14. MailboxInv'
  <2> SUFFICES ASSUME Working', NEW m \in Programs PROVE Mailbox(m)'
    BY DEF MailboxInv
  <2>1. /\ Peer(m) \in Programs /\ Empty(m) \in Sems /\ Full(m) \in Sems
        /\ InitialValue(Empty(m)) = 1 /\ InitialValue(Full(m)) = 0
    <3>1. \A x \in Programs : Empty(x) # Full(m)
      BY FourSems
    <3> QED BY <3>1, TwoPrograms, FourSems DEF InitialValue
  <2>2. \A t \in Sems : val'[t] = InitialValue(t)
    <3>1. \A t \in initialized : val[t] = InitialValue(t)
      BY <1>1, <1>3, <1>4 DEF StartInv, Working
    <3> QED BY <1>3, <1>7, <3>1 DEF Working
  <2>3. val'[Empty(m)] = 1 /\ val'[Full(m)] = 0
    BY <2>1, <2>2
  <2>4. /\ adj'[Peer(m)][Empty(m)] = 0 /\ adj'[Peer(m)][Full(m)] = 0
        /\ adj'[m][Empty(m)] = 0 /\ adj'[m][Full(m)] = 0
    BY <1>7, <2>1
  <2>5. sent'[Peer(m)] = 0 /\ got'[m] = <<>> /\ Len(got'[m]) = 0
    BY <1>9, <2>1 DEF Quiet
  <2>6. Tokens(1, 0, 0, 0, 0, 0)
    BY DEF Tokens
  <2>7. pc'[Peer(m)] \notin Writing /\ pc'[m] \notin Receiving
    BY <1>12, <2>1 DEF Writing, Receiving
  <2>8. WriterAt(pc'[Peer(m)], 0, 0, 0, mailbox'[m])
    BY <2>7 DEF WriterAt, Writing
  <2>9. ReaderAt(pc'[m], 0, 0, 0)
    BY <2>7 DEF ReaderAt, Receiving
  <2>10. -adj'[Peer(m)][Full(m)] = 0 /\ -adj'[m][Empty(m)] = 0
    <3>1. \A n \in Int : n =< 0 /\ n >= 0 => -n = 0
      OBVIOUS
    <3>2. 0 \in Int /\ 0 =< 0 /\ 0 >= 0
      OBVIOUS
    <3> QED BY <2>4, <3>1, <3>2, Zenon
  <2> QED BY <2>3, <2>4, <2>5, <2>6, <2>8, <2>9, <2>10 DEF Mailbox
<1> QED BY <1>1, <1>3, <1>8, <1>10, <1>11, <1>13, <1>14 DEF Ex4Inv

LEMMA HandlerPreserves ==
  ASSUME Ex4Inv, NEW p \in Programs, intHandler(p)
  PROVE  Ex4Inv'
<1>1. TypeInv /\ StartInv /\ DataInv /\ MailboxInv /\ AbandonedInv /\ ~refused
  BY DEF Ex4Inv
<1>2. pc[p] = "stopping" /\ MovesTo(p, "gone")
  <2>1. "gone" \in Places
    BY DEF Places, Over
  <2> QED BY <1>1, <2>1, MoveType DEF intHandler, Goto
<1>3. UNCHANGED <<initialized, attached, mailbox, message, sent, got, refused>>
  BY DEF intHandler, buffers, ex4History
<1>4. \A x \in Programs : pc'[x] = pc[x] \/ (x = p /\ pc'[x] = "gone")
  BY <1>2 DEF MovesTo
<1>5. /\ semset' \in {"none", "there", "removed"}
      /\ (semset' = "none" => semset = "none")
      /\ (semset' = "there" => semset = "there" /\ p \notin attached)
  BY <1>1 DEF intHandler, TypeInv
<1>6. /\ adj' \in [Programs -> [Sems -> Int]] /\ adj'[p] = [t \in Sems |-> 0]
      /\ \A x \in Programs : x # p => adj'[x] = adj[x]
  <2>1. adj \in [Programs -> [Sems -> Int]] /\ [t \in Sems |-> 0] \in [Sems -> Int]
    BY <1>1 DEF TypeInv
  <2> QED BY <2>1 DEF intHandler
<1>7. val' \in [Sems -> 0..SEMVMX]
  <2>1. val \in [Sems -> 0..SEMVMX] /\ adj \in [Programs -> [Sems -> Int]]
    BY <1>1 DEF TypeInv
  <2>2. \A t \in Sems : Undone(val[t], adj[p][t]) \in 0..SEMVMX
    BY <2>1 DEF Undone
  <2>3. val' = IF semset' = "there" THEN [t \in Sems |-> Undone(val[t], adj[p][t])] ELSE val
    BY DEF intHandler
  <2> QED BY <2>1, <2>2, <2>3
<1>8. TypeInv'
  BY <1>1, <1>2, <1>3, <1>5, <1>6, <1>7 DEF TypeInv, MovesTo
\* A program that leaves the set there never attached to it: it did nothing.
<1>9. ASSUME semset' = "there" PROVE Quiet(p) /\ val' = val /\ adj' = adj
  <2>1. Quiet(p)
    BY <1>1, <1>5, <1>9 DEF StartInv
  <2>2. val \in [Sems -> 0..SEMVMX] /\ adj \in [Programs -> [Sems -> Int]]
    BY <1>1 DEF TypeInv
  <2>3. \A t \in Sems : Undone(val[t], adj[p][t]) = val[t]
    BY <2>1, <2>2 DEF Quiet, Undone
  <2>4. val' = [t \in Sems |-> Undone(val[t], adj[p][t])]
    BY <1>9 DEF intHandler
  <2>5. \A x \in Programs : adj'[x] = adj[x]
    BY <1>6, <2>1 DEF Quiet
  <2> QED BY <1>6, <2>1, <2>2, <2>3, <2>4, <2>5
<1>10. StartInv'
  <2>1. \A x \in Programs : Quiet(x) => Quiet(x)'
    BY <1>3, <1>6 DEF Quiet
  <2>2. semset' = "there" /\ initialized' # Sems => \A t \in initialized' : val'[t] = InitialValue(t)
    BY <1>1, <1>3, <1>5, <1>9 DEF StartInv
  <2>3. "A" \in Programs /\ "B" \in Programs /\ attached \subseteq Programs
    BY <1>1 DEF Programs, TypeInv
  <2>4. \A x \in Programs \ attached' :
          pc'[x] \in {"semget", "connect", "stopping", "gone"} /\ Quiet(x)'
    BY <1>1, <1>3, <1>4, <2>1 DEF StartInv
  <2>5. semset' = "there" => \A x \in attached' : pc'[x] # "gone"
    BY <1>1, <1>3, <1>4, <1>5, <2>3 DEF StartInv
  <2>6. semset' = "there" => "A" \in attached'
    BY <1>1, <1>3, <1>5 DEF StartInv
  <2>7. /\ pc'["A"] = pc["A"] \/ pc'["A"] = "gone"
        /\ pc'["B"] = pc["B"] \/ pc'["B"] = "gone"
    BY <1>4, <2>3
  <2>8. initialized' # Sems => /\ pc'["A"] \in {"semget", "setval", "stopping", "gone"}
                               /\ "B" \notin attached'
                               /\ \A x \in Programs : Quiet(x)'
    BY <1>1, <1>3, <2>1, <2>7 DEF StartInv
  <2>9. /\ semset' = "none" => initialized' = {} /\ pc'["A"] \in {"semget", "stopping", "gone"}
        /\ pc'["A"] # "connect" /\ pc'["B"] \notin {"semget", "setval"}
        /\ pc'["A"] = "setval" => initialized' # Sems
        /\ initialized' \subseteq Sems
    BY <1>1, <1>3, <1>5, <2>7 DEF StartInv
  <2>10. pc'["A"] = "semget" => semset' = "none"
    BY <1>1, <2>7 DEF StartInv, intHandler
  <2> QED BY <2>2, <2>4, <2>5, <2>6, <2>8, <2>9, <2>10 DEF StartInv
<1>11. DataInv'
  BY <1>1, <1>3, <1>4, DataKept DEF buffers
<1>12. AbandonedInv'
  <2> SUFFICES ASSUME Working', NEW x \in Programs, pc'[x] = "failed" PROVE Abandoned(x)'
    BY DEF AbandonedInv
  <2>1. Working /\ val' = val /\ adj' = adj
    BY <1>3, <1>5, <1>9 DEF Working
  <2>2. Abandoned(x) /\ Peer(x) \in Programs
    BY <1>1, <1>4, <2>1, TwoPrograms DEF AbandonedInv
  <2>3. pc'[Peer(x)] = pc[Peer(x)] \/ pc'[Peer(x)] = "gone"
    BY <1>4, <2>2
  <2> QED BY <2>1, <2>2, <2>3 DEF Abandoned, Writing, Receiving
<1>13. MailboxInv'
  <2> SUFFICES ASSUME Working', \A x \in Programs : pc'[x] # "failed", NEW m \in Programs
               PROVE  Mailbox(m)'
    BY DEF MailboxInv
  <2>1. Working /\ val' = val /\ adj' = adj /\ Quiet(p)
    BY <1>3, <1>5, <1>9 DEF Working
  <2>2. Mailbox(m)
    BY <1>1, <1>2, <1>4, <2>1 DEF MailboxInv
  <2> DEFINE q == Peer(m)
             s == adj[q][Empty(m)]
             f == -adj[q][Full(m)]
             r == adj[m][Full(m)]
             e == -adj[m][Empty(m)]
  <2>3. /\ Tokens(val[Empty(m)], val[Full(m)], s, f, r, e)
        /\ WriterAt(pc[q], s, f, sent[q], mailbox[m])
        /\ ReaderAt(pc[m], r, e, Len(got[m]))
    BY <2>2 DEF Mailbox
  <2>4. q \in Programs /\ Empty(m) \in Sems /\ Full(m) \in Sems
    BY TwoPrograms, FourSems
  <2>5. q = p => s = 0 /\ f = 0 /\ sent[q] = 0
    BY <2>1, <2>4 DEF Quiet
  <2>6. m = p => r = 0 /\ e = 0 /\ Len(got[m]) = 0
    BY <2>1, <2>4 DEF Quiet
  <2>7. pc'[q] = pc[q] \/ (q = p /\ pc'[q] = "gone")
    BY <1>4, <2>4
  <2>8. pc'[m] = pc[m] \/ (m = p /\ pc'[m] = "gone")
    BY <1>4
  <2> HIDE DEF q, s, f, r, e
  <2>9. WriterAt(pc'[q], s, f, sent[q], mailbox[m])
    BY <2>3, <2>5, <2>7 DEF WriterAt, Writing
  <2>10. ReaderAt(pc'[m], r, e, Len(got[m]))
    BY <2>3, <2>6, <2>8 DEF ReaderAt, Receiving
  <2> QED BY <1>3, <2>1, <2>3, <2>9, <2>10 DEF Mailbox, q, s, f, r, e
<1> QED BY <1>1, <1>3, <1>8, <1>10, <1>11, <1>12, <1>13 DEF Ex4Inv

LEMMA StutterPreserves ==
  ASSUME Ex4Inv, UNCHANGED ex4Vars
  PROVE  Ex4Inv'
<1>1. UNCHANGED <<semset, val, adj, pc, initialized, attached, mailbox, message, sent, got, refused>>
  BY DEF ex4Vars, semaphores, buffers, ex4History
<1> QED BY <1>1 DEF Ex4Inv, TypeInv, StartInv, Quiet, DataInv, Reading, Received, MailboxInv,
        Mailbox, AbandonedInv, Abandoned, Working

------------------------------------------------------------------------------
LEMMA Ex4Initially == Ex4Init => Ex4Inv
<1> SUFFICES ASSUME Ex4Init PROVE Ex4Inv
  OBVIOUS
<1>1. "A" \in Programs /\ "B" \in Programs /\ \A p \in Programs : p = "A" \/ p = "B"
  BY DEF Programs
<1>2. pc["A"] = "semget" /\ pc["B"] = "connect"
  BY <1>1 DEF Ex4Init
<1>3. Sems # {}
  BY <1>1, FourSems
<1>4. TypeInv
  <2>1. val \in [Sems -> 0..SEMVMX] /\ sent \in [Programs -> Nat]
    BY DEF Ex4Init
  <2>2. adj \in [Programs -> [Sems -> Int]]
    BY DEF Ex4Init
  <2>3. pc \in [Programs -> Places]
    BY DEF Ex4Init, Places
  <2>4. mailbox \in [Programs -> Int \X Int] /\ message \in [Programs -> Int \X Int]
    BY DEF Ex4Init
  <2>5. got \in [Programs -> Seq(Int \X Int)]
    BY DEF Ex4Init
  <2> QED BY <2>1, <2>2, <2>3, <2>4, <2>5 DEF Ex4Init, TypeInv
<1>5. \A p \in Programs : Quiet(p)
  BY DEF Ex4Init, Quiet
<1>6. StartInv
  BY <1>1, <1>2, <1>3, <1>5 DEF Ex4Init, StartInv
<1>7. DataInv
  <2> SUFFICES ASSUME NEW p \in Programs PROVE Reading(p) /\ Received(p)
    BY DEF DataInv
  <2>1. pc[p] \notin {"copyIn", "copyIn2"}
    BY <1>1, <1>2
  <2>2. Len(got[p]) = 0 /\ sent[Peer(p)] = 0
    BY TwoPrograms DEF Ex4Init
  <2> QED BY <2>1, <2>2 DEF Reading, Received
<1>8. MailboxInv /\ AbandonedInv
  BY <1>3 DEF Ex4Init, MailboxInv, AbandonedInv, Working
<1> QED BY <1>4, <1>6, <1>7, <1>8 DEF Ex4Inv, Ex4Init

LEMMA Ex4NextPreserves ==
  Ex4Inv /\ SleepIsEnough /\ SEMAEM =< SEMVMX /\ [Ex4Next]_ex4Vars => Ex4Inv'
<1> SUFFICES ASSUME Ex4Inv, SleepIsEnough, SEMAEM =< SEMVMX, [Ex4Next]_ex4Vars PROVE Ex4Inv'
  OBVIOUS
<1>1. "A" \in Programs /\ "B" \in Programs
  BY DEF Programs
<1>2. CASE CreateSet
  BY <1>2, CreatePreserves
<1>3. ASSUME NEW s \in Sems, setSemValue(s) PROVE Ex4Inv'
  BY <1>3, SetPreserves
<1>4. CASE Connect
  BY <1>4, ConnectPreserves
<1>5. ASSUME NEW p \in Programs, Exchange(p) PROVE Ex4Inv'
  BY <1>5, ExchangePreserves
<1>6. ASSUME NEW p \in Programs, Interrupt(p) PROVE Ex4Inv'
  BY <1>6, InterruptPreserves
<1>7. ASSUME NEW p \in Programs, intHandler(p) PROVE Ex4Inv'
  BY <1>7, HandlerPreserves
<1>8. CASE UNCHANGED ex4Vars
  BY <1>8, StutterPreserves
<1> QED BY <1>1, <1>2, <1>3, <1>4, <1>5, <1>6, <1>7, <1>8
        DEF Ex4Next, programARoutine, programBRoutine

\* No V fails while the set exists (ex4_a.c:87, :98 ignore its result): what the
\* two programs add to a semaphore fits in it and in the adjustments, if B waits
\* until A has set the values and an adjustment is no larger than a value.
THEOREM NoVIsRefused ==
  ASSUME SleepIsEnough, SEMAEM =< SEMVMX
  PROVE  Ex4Spec => []VIsNeverRefused
<1>1. Ex4Inv => VIsNeverRefused
  BY DEF Ex4Inv, VIsNeverRefused
<1>2. Ex4Inv /\ [Ex4Next]_ex4Vars => Ex4Inv'
  BY Ex4NextPreserves
<1> QED BY <1>1, <1>2, Ex4Initially, PTL DEF Ex4Spec

\* Messages arrive whole, in order and once each (ex4_a.c:203, :211), however the
\* copies interleave and whoever ends.
THEOREM MessagesArriveWhole ==
  ASSUME SleepIsEnough, SEMAEM =< SEMVMX
  PROVE  Ex4Spec => []InOrderAndWhole
<1>1. Ex4Inv => InOrderAndWhole
  BY DEF Ex4Inv, DataInv, Received, InOrderAndWhole
<1>2. Ex4Inv /\ [Ex4Next]_ex4Vars => Ex4Inv'
  BY Ex4NextPreserves
<1> QED BY <1>1, <1>2, Ex4Initially, PTL DEF Ex4Spec
=============================================================================
