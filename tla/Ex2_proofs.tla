------------------------------ MODULE Ex2_proofs ------------------------------
(***************************************************************************)
(* NothingLostOrReordered of Ex2, for every size of the buffer, number of  *)
(* characters and range of the semaphores: until an operation is refused,  *)
(* each character read is printed once and in the order it was read.       *)
(*                                                                         *)
(* The inductive invariant says where in the buffer the characters are     *)
(* (BufferInv), what the Leitor holds and how far its search may go        *)
(* (HandInv), and that the semaphores let the two programs into the buffer *)
(* in turns of BUFFER_SIZE characters (TurnInv): without the last, the     *)
(* Impressor could free a place behind the one it prints next.             *)
(***************************************************************************)
EXTENDS Ex2, TLAPS

USE SemAssumption, BufferAssumption, CharsAssumption

------------------------------------------------------------------------------
\* The n characters after the m printed ones are in the places from lo on.
Filled(b, lo, n, m) ==
  \A k \in Places : b[k] = IF lo <= k /\ k < lo + n THEN m + k - lo + 1 ELSE Free

Unprinted == chars - Len(printed) - (IF my_char = Free THEN 0 ELSE 1)
Stopped == {"stopping", "gone"}
Inside == {"getchar", "search", "V"}

FilledFrom(lo) ==
  /\ Filled(buffer, lo, Unprinted, Len(printed))
  /\ lo + Unprinted <= BUFFER_SIZE + 1
  /\ pc["Impressor"] = "P" => lo = 1
  /\ pc["Impressor"] = "print" => lo = i["Impressor"]
  /\ pc["Impressor"] = "V" => Unprinted = 0

BufferInv ==
  /\ \A k \in 1..Len(printed) : printed[k] = k
  /\ Unprinted >= 0
  /\ \E lo \in Places : FilledFrom(lo)

HandInv ==
  /\ my_char # Free => my_char = chars /\ pc["Leitor"] \in {"search"} \cup Stopped
  /\ pc["Leitor"] = "search" => i["Leitor"] <= Unprinted + 1

TurnInv ==
  pc["Leitor"] \notin Stopped =>
    \/ /\ pc["Impressor"] = "P"
       /\ val["Leitor"] + val["Impressor"] + (IF pc["Leitor"] \in Inside THEN 1 ELSE 0)
            = BUFFER_SIZE
       /\ Unprinted <= val["Impressor"] + (IF pc["Leitor"] = "V" THEN 1 ELSE 0)
    \/ /\ pc["Impressor"] \in {"print", "V"} /\ pc["Leitor"] = "P"
       /\ val["Leitor"] = 0 /\ val["Impressor"] = 0

Working == exists = Progs /\ ~refused

TypeInv ==
  /\ exists \subseteq Progs /\ refused \in BOOLEAN
  /\ val \in [Progs -> 0..SEMVMX] /\ adj \in [Progs -> [Progs -> Int]]
  /\ pc \in [Progs -> {"P", "getchar", "search", "V", "print", "stopping", "gone"}]
  /\ pc["Leitor"] # "print"
  /\ i \in [Progs -> Places]
  /\ buffer \in [Places -> Int] /\ my_char \in Int
  /\ eof \in BOOLEAN /\ chars \in Nat /\ printed \in Seq(Int)

Ex2Inv == TypeInv /\ (Working => BufferInv /\ HandInv /\ TurnInv)

------------------------------------------------------------------------------
\* What the invariant says of the characters.
LEMMA FilledInOrder ==
  ASSUME TypeInv, BufferInv, HandInv
  PROVE  NothingLostOrReordered
<1> DEFINE m == Len(printed)
           full == {k \in Places : buffer[k] # Free}
           held == {my_char} \ {Free}
           n == Unprinted
<1>1. /\ m \in Nat /\ chars \in Nat /\ my_char \in Int /\ n \in Int /\ n >= 0
      /\ n = chars - m - (IF my_char = Free THEN 0 ELSE 1)
      /\ \A k \in 1..m : printed[k] = k
      /\ printed \in Seq(Int)
  BY DEF TypeInv, BufferInv, Unprinted
<1>2. PICK lo \in Places : FilledFrom(lo)
  BY DEF BufferInv
<1>3. /\ \A k \in Places : buffer[k] = IF lo <= k /\ k < lo + n THEN m + k - lo + 1 ELSE Free
      /\ lo + n <= BUFFER_SIZE + 1
  BY <1>2 DEF FilledFrom, Filled
<1>4. my_char # Free => my_char = chars
  BY DEF HandInv
<1> HIDE DEF m, n
<1>5. printed = [k \in 1..m |-> k]
  <2>1. printed = [k \in 1..Len(printed) |-> printed[k]]
    BY <1>1
  <2> QED BY <1>1, <2>1 DEF m
<1>6. \A k \in Places : k \in full <=> lo <= k /\ k < lo + n
  BY <1>1, <1>2, <1>3 DEF Places, Free
<1>7. \A k \in full : buffer[k] = m + k - lo + 1 /\ k \in Places /\ lo <= k /\ k < lo + n
  BY <1>3, <1>6
<1>8. \A j, k \in full : j < k => buffer[j] < buffer[k]
  BY <1>1, <1>2, <1>7 DEF Places
<1>9. \A k \in full, c \in held : buffer[k] < c
  BY <1>1, <1>2, <1>4, <1>7 DEF Places
<1>10. {buffer[k] : k \in full} \cup held \subseteq m + 1..chars
  BY <1>1, <1>2, <1>4, <1>7 DEF Places, Free
<1>11. ASSUME NEW c \in m + 1..chars PROVE c \in {buffer[k] : k \in full} \cup held
  <2>1. CASE c = m + n + 1
    <3>1. my_char # Free /\ my_char = c
      BY <1>1, <1>4, <1>11, <2>1
    <3> QED BY <3>1
  <2>2. CASE c # m + n + 1
    <3> DEFINE k == c - m - 1 + lo
    <3>1. k \in Places /\ lo <= k /\ k < lo + n
      BY <1>1, <1>2, <1>3, <1>11, <2>2 DEF Places
    <3>2. k \in full /\ buffer[k] = m + k - lo + 1
      BY <1>6, <1>7, <3>1
    <3>3. buffer[k] = c
      BY <1>1, <1>2, <1>11, <3>2 DEF Places
    <3> QED BY <3>2, <3>3
  <2> QED BY <2>1, <2>2
<1>12. {buffer[k] : k \in full} \cup held = m + 1..chars
  BY <1>10, <1>11
<1> QED BY <1>5, <1>8, <1>9, <1>12 DEF NothingLostOrReordered, m

------------------------------------------------------------------------------
\* An operation whose result is ignored: done, or the end of what is promised.
LEMMA SemopOutcome ==
  ASSUME TypeInv, NEW p \in Progs, NEW s \in Progs, NEW op \in Int, semop(p, s, op)
  PROVE  /\ exists' = exists /\ refused' \in BOOLEAN
         /\ val' \in [Progs -> 0..SEMVMX] /\ adj' \in [Progs -> [Progs -> Int]]
         /\ Working' => /\ Working /\ val[s] + op >= 0 /\ val'[s] = val[s] + op
                        /\ \A t \in Progs : t # s => val'[t] = val[t]
<1>1. /\ val \in [Progs -> 0..SEMVMX] /\ adj \in [Progs -> [Progs -> Int]]
      /\ refused \in BOOLEAN
  BY DEF TypeInv
<1>2. CASE /\ s \in exists /\ Done(val[s], adj[p][s], op)
           /\ val' = [val EXCEPT ![s] = @ + op]
           /\ adj' = [adj EXCEPT ![p][s] = @ - op]
           /\ UNCHANGED refused
  <2>1. val[s] + op \in 0..SEMVMX
    BY <1>1, <1>2 DEF Done, MustWait, InRange
  <2>2. val' \in [Progs -> 0..SEMVMX] /\ val'[s] = val[s] + op
        /\ \A t \in Progs : t # s => val'[t] = val[t]
    BY <1>1, <1>2, <2>1
  <2>3. adj' = [adj EXCEPT ![p] = [adj[p] EXCEPT ![s] = adj[p][s] - op]]
    BY <1>1, <1>2
  <2>4. adj[p] \in [Progs -> Int] /\ adj[p][s] - op \in Int
    BY <1>1
  <2>5. adj' \in [Progs -> [Progs -> Int]]
    BY <1>1, <2>3, <2>4
  <2> QED BY <1>1, <1>2, <2>1, <2>2, <2>5 DEF semop, Working
<1>3. CASE /\ s \notin exists \/ Refused(val[s], adj[p][s], op)
           /\ refused' = (refused \/ s \in exists)
           /\ UNCHANGED <<val, adj>>
  <2>1. ~Working'
    BY <1>3 DEF semop, Working
  <2> QED BY <1>1, <1>3, <2>1 DEF semop
<1> QED BY <1>2, <1>3 DEF semop

LEMMA TwoProgs == "Leitor" \in Progs /\ "Impressor" \in Progs /\ \A p \in Progs : p = "Leitor" \/ p = "Impressor"
BY DEF Progs

LEMMA StepType ==
  ASSUME TypeInv, NEW p \in Progs, NEW from,
         NEW to \in {"P", "getchar", "search", "V", "print", "stopping", "gone"},
         Step(p, from, to)
  PROVE  /\ pc' \in [Progs -> {"P", "getchar", "search", "V", "print", "stopping", "gone"}]
         /\ pc[p] = from /\ pc'[p] = to
         /\ \A q \in Progs : q # p => pc'[q] = pc[q]
BY DEF TypeInv, Step

\* The buffer and the hand, when nobody touched them.
LEMMA BufferKept ==
  ASSUME BufferInv, UNCHANGED <<buffer, printed, chars, my_char>>,
         \/ pc'["Impressor"] = pc["Impressor"] /\ i'["Impressor"] = i["Impressor"]
         \/ pc'["Impressor"] = "gone"
         \/ pc["Impressor"] = "P" /\ pc'["Impressor"] = "print" /\ i'["Impressor"] = 1
         \/ pc["Impressor"] = "V" /\ pc'["Impressor"] = "P" /\ TypeInv
  PROVE  BufferInv' /\ Unprinted' = Unprinted
<1>1. Unprinted' = Unprinted
  BY DEF Unprinted
<1>2. PICK lo \in Places : FilledFrom(lo)
  BY DEF BufferInv
<1>3. CASE pc["Impressor"] # "V" \/ pc'["Impressor"] # "P"
  <2>1. FilledFrom(lo)'
    BY <1>1, <1>2, <1>3 DEF FilledFrom, Filled
  <2> QED BY <1>1, <2>1 DEF BufferInv
<1>4. CASE pc["Impressor"] = "V" /\ pc'["Impressor"] = "P"
  <2>1. Unprinted = 0 /\ Len(printed) \in Nat /\ lo \in Nat /\ 1 \in Places
    BY <1>2, <1>4 DEF FilledFrom, TypeInv, Places
  <2>2. \A k \in Places : buffer[k] = Free
    BY <1>2, <2>1 DEF FilledFrom, Filled, Places
  <2>3. FilledFrom(1)'
    BY <1>1, <1>4, <2>1, <2>2 DEF FilledFrom, Filled, Places
  <2> QED BY <1>1, <2>1, <2>3 DEF BufferInv
<1> QED BY <1>3, <1>4

\* The types of what the lemmas below compute with.
LEMMA Numbers ==
  ASSUME TypeInv
  PROVE  /\ Unprinted \in Int /\ Len(printed) \in Nat /\ chars \in Nat
         /\ val["Leitor"] \in Nat /\ val["Impressor"] \in Nat
         /\ i["Leitor"] \in Places /\ i["Impressor"] \in Places
BY TwoProgs DEF TypeInv, Unprinted

------------------------------------------------------------------------------
(***************************************************************************)
(* The steps of the Leitor.                                                *)
(***************************************************************************)
LEMMA LeitorEnters ==
  ASSUME Ex2Inv, semaforoPLeitor
  PROVE  Ex2Inv'
<1>1. /\ pc["Leitor"] = "P" /\ pc'["Leitor"] = "getchar" /\ pc'["Impressor"] = pc["Impressor"]
      /\ pc' \in [Progs -> {"P", "getchar", "search", "V", "print", "stopping", "gone"}]
      /\ UNCHANGED <<i, buffer, my_char, eof, chars, printed>>
  BY TwoProgs, StepType DEF Ex2Inv, semaforoPLeitor, input
<1>2. /\ exists' = exists /\ refused' \in BOOLEAN
      /\ val' \in [Progs -> 0..SEMVMX] /\ adj' \in [Progs -> [Progs -> Int]]
      /\ Working' => /\ Working /\ val["Leitor"] + -1 >= 0
                     /\ val'["Leitor"] = val["Leitor"] + -1
                     /\ val'["Impressor"] = val["Impressor"]
  BY TwoProgs, SemopOutcome DEF Ex2Inv, semaforoPLeitor
<1>3. TypeInv'
  BY <1>1, <1>2 DEF Ex2Inv, TypeInv
<1>4. ASSUME Working' PROVE BufferInv' /\ HandInv' /\ TurnInv'
  <2>1. TypeInv /\ BufferInv /\ HandInv /\ TurnInv
    BY <1>2, <1>4 DEF Ex2Inv
  <2>2. BufferInv' /\ Unprinted' = Unprinted
    BY <1>1, <2>1, BufferKept
  <2>3. HandInv'
    BY <1>1, <2>1 DEF HandInv, Stopped
  <2>4. val["Leitor"] \in Nat /\ val["Impressor"] \in Nat /\ Unprinted \in Int
    BY <2>1, Numbers
  <2>5. /\ pc["Impressor"] = "P" /\ val["Leitor"] + val["Impressor"] = BUFFER_SIZE
        /\ Unprinted <= val["Impressor"]
    BY <1>1, <1>2, <1>4, <2>1, <2>4 DEF TurnInv, Stopped, Inside
  <2>6. TurnInv'
    BY <1>1, <1>2, <1>4, <2>2, <2>4, <2>5 DEF TurnInv, Inside
  <2> QED BY <2>2, <2>3, <2>6
<1> QED BY <1>3, <1>4 DEF Ex2Inv

LEMMA LeitorReads ==
  ASSUME Ex2Inv, GetChar
  PROVE  Ex2Inv'
<1>1. /\ pc["Leitor"] = "getchar" /\ pc'["Leitor"] = "search" /\ pc'["Impressor"] = pc["Impressor"]
      /\ pc' \in [Progs -> {"P", "getchar", "search", "V", "print", "stopping", "gone"}]
      /\ UNCHANGED <<exists, val, adj, buffer, printed, refused>>
  BY TwoProgs, StepType DEF Ex2Inv, GetChar, sems
<1>2. /\ i' \in [Progs -> Places] /\ i'["Leitor"] = 1 /\ i'["Impressor"] = i["Impressor"]
  <2>1. 1 \in Places /\ i \in [Progs -> Places]
    BY DEF Places, Ex2Inv, TypeInv
  <2> QED BY <2>1, TwoProgs DEF GetChar
<1>3. \/ chars' = chars + 1 /\ my_char' = chars + 1 /\ eof' = eof
      \/ my_char' = Free /\ eof' = TRUE /\ chars' = chars
  BY DEF GetChar
<1>4. TypeInv'
  <2>1. chars \in Nat /\ my_char \in Int /\ eof \in BOOLEAN
    BY DEF Ex2Inv, TypeInv
  <2>2. chars' \in Nat /\ my_char' \in Int
    BY <1>3, <2>1 DEF Free
  <2>3. eof' \in BOOLEAN
    BY <1>3, <2>1
  <2> QED BY <1>1, <1>2, <2>2, <2>3 DEF Ex2Inv, TypeInv
<1>5. ASSUME Working' PROVE BufferInv' /\ HandInv' /\ TurnInv'
  <2>1. TypeInv /\ BufferInv /\ HandInv /\ TurnInv
    BY <1>1, <1>5 DEF Ex2Inv, Working
  <2>2. my_char = Free /\ Len(printed) \in Nat /\ chars \in Nat
    BY <1>1, <2>1, Numbers DEF HandInv, Stopped
  <2>3. Unprinted' = Unprinted
    BY <1>1, <1>3, <2>2 DEF Unprinted, Free
  <2>4. BufferInv'
    BY <1>1, <1>2, <2>1, <2>3 DEF BufferInv, FilledFrom, Filled
  <2>5. HandInv'
    <3>1. Unprinted \in Int /\ Unprinted >= 0
      BY <2>1, Numbers DEF BufferInv
    <3> QED BY <1>1, <1>2, <1>3, <2>3, <3>1 DEF HandInv
  <2>6. TurnInv'
    <3>1. val["Leitor"] \in Nat /\ val["Impressor"] \in Nat /\ Unprinted \in Int
      BY <2>1, Numbers
    <3>2. /\ pc["Impressor"] = "P" /\ val["Leitor"] + val["Impressor"] + 1 = BUFFER_SIZE
          /\ Unprinted <= val["Impressor"]
      BY <1>1, <2>1, <3>1 DEF TurnInv, Stopped, Inside
    <3> QED BY <1>1, <2>3, <3>1, <3>2 DEF TurnInv, Inside
  <2> QED BY <2>4, <2>5, <2>6
<1> QED BY <1>4, <1>5 DEF Ex2Inv

\* The search finds the first free place, and there is one.
LEMMA LeitorSearches ==
  ASSUME Ex2Inv, Search
  PROVE  Ex2Inv'
<1> DEFINE k == i["Leitor"]
           stop == buffer[k] = Free \/ k = BUFFER_SIZE
<1>1. /\ pc["Leitor"] = "search" /\ TypeInv
      /\ UNCHANGED <<exists, val, adj, eof, chars, printed, refused>>
      /\ buffer' = IF buffer[k] = Free THEN [buffer EXCEPT ![k] = my_char] ELSE buffer
      /\ pc' = IF stop THEN [pc EXCEPT !["Leitor"] = "V"] ELSE pc
      /\ i' = IF stop THEN i ELSE [i EXCEPT !["Leitor"] = @ + 1]
      /\ my_char' = IF stop THEN Free ELSE my_char
  BY DEF Ex2Inv, Search, sems
<1>2. k \in Places /\ pc \in [Progs -> {"P", "getchar", "search", "V", "print", "stopping", "gone"}]
      /\ i \in [Progs -> Places] /\ buffer \in [Places -> Int] /\ my_char \in Int
  BY <1>1, TwoProgs DEF TypeInv
<1> HIDE DEF k
<1>3. /\ pc' \in [Progs -> {"P", "getchar", "search", "V", "print", "stopping", "gone"}]
      /\ pc'["Leitor"] # "print"
  BY <1>1, <1>2, TwoProgs
<1>4. ~stop => k + 1 \in Places
  BY <1>2 DEF Places
<1>5. i' \in [Progs -> Places]
  BY <1>1, <1>2, <1>4 DEF k
<1>6. TypeInv'
  BY <1>1, <1>2, <1>3, <1>5 DEF TypeInv, Free
<1>7. ASSUME Working' PROVE BufferInv' /\ HandInv' /\ TurnInv'
  <2>1. BufferInv /\ HandInv /\ TurnInv
    BY <1>1, <1>7 DEF Ex2Inv, Working
  <2> DEFINE n == Unprinted
             m == Len(printed)
  <2>2. /\ n \in Int /\ m \in Nat /\ chars \in Nat /\ n >= 0 /\ k <= n + 1
        /\ n = chars - m - (IF my_char = Free THEN 0 ELSE 1)
        /\ val["Leitor"] \in Nat /\ val["Impressor"] \in Nat
    BY <1>1, <2>1, Numbers DEF BufferInv, HandInv, Unprinted, k
  <2>3. /\ pc["Impressor"] = "P"
        /\ val["Leitor"] + val["Impressor"] + 1 = BUFFER_SIZE
        /\ n <= val["Impressor"]
    <3>1. pc["Leitor"] \notin Stopped /\ pc["Leitor"] \in Inside /\ pc["Leitor"] # "V"
      BY <1>1 DEF Stopped, Inside
    <3>2. pc["Impressor"] = "P"
      BY <1>1, <2>1, <3>1 DEF TurnInv
    <3> QED BY <2>1, <2>2, <3>1, <3>2 DEF TurnInv
  <2>4. PICK lo \in Places : FilledFrom(lo)
    BY <2>1 DEF BufferInv
  <2>5. /\ \A j \in Places : buffer[j] = IF j < 1 + n THEN m + j ELSE Free
    BY <2>2, <2>3, <2>4 DEF FilledFrom, Filled, Places
  <2>6. my_char # Free => my_char = chars
    BY <2>1 DEF HandInv
  <2>7. n < BUFFER_SIZE /\ k \in Nat /\ k >= 1
    BY <1>2, <2>2, <2>3 DEF Places
  <2> HIDE DEF n, m
  <2>8. CASE k < n + 1
    <3>1. buffer[k] # Free /\ k # BUFFER_SIZE
      BY <1>2, <2>2, <2>5, <2>7, <2>8 DEF Free
    <3>2. UNCHANGED <<buffer, pc, my_char>> /\ i' = [i EXCEPT !["Leitor"] = @ + 1]
      BY <1>1, <3>1
    <3>3. i'["Leitor"] = k + 1 /\ i'["Impressor"] = i["Impressor"]
      BY <1>2, <3>2, TwoProgs DEF k
    <3>4. BufferInv' /\ Unprinted' = Unprinted
      BY <1>1, <2>1, <3>2, <3>3, BufferKept
    <3>5. HandInv'
      BY <1>1, <2>1, <2>2, <2>7, <2>8, <3>2, <3>3, <3>4 DEF HandInv, n
    <3>6. TurnInv'
      BY <1>1, <2>1, <3>2, <3>4 DEF TurnInv
    <3> QED BY <3>4, <3>5, <3>6
  <2>9. CASE k = n + 1
    <3>1. buffer[k] = Free
      BY <1>2, <2>2, <2>5, <2>9
    <3>2. /\ buffer' = [buffer EXCEPT ![k] = my_char] /\ i' = i /\ my_char' = Free
          /\ pc'["Leitor"] = "V" /\ pc'["Impressor"] = "P"
      BY <1>1, <1>2, <2>3, <3>1, TwoProgs
    <3> DEFINE n2 == n + (IF my_char = Free THEN 0 ELSE 1)
    <3>3. Unprinted' = n2
      BY <1>1, <2>2, <3>2 DEF Unprinted, m
    <3>4. \A j \in Places : buffer'[j] = IF j < 1 + n2 THEN m + j ELSE Free
      <4> SUFFICES ASSUME NEW j \in Places
                   PROVE  buffer'[j] = IF j < 1 + n2 THEN m + j ELSE Free
        OBVIOUS
      <4>1. j \in Nat
        BY DEF Places
      <4>2. CASE j = k
        <5>1. buffer'[j] = my_char
          BY <1>2, <3>2, <4>2
        <5> QED BY <2>2, <2>6, <2>9, <4>1, <4>2, <5>1 DEF Free
      <4>3. CASE j # k
        <5>1. buffer'[j] = buffer[j]
          BY <1>2, <3>2, <4>3
        <5> QED BY <2>2, <2>5, <2>9, <4>1, <4>3, <5>1
      <4> QED BY <4>2, <4>3
    <3>5. BufferInv'
      <4>1. n2 \in Nat /\ 1 \in Places /\ n2 <= BUFFER_SIZE /\ Len(printed') = m
        BY <1>1, <2>2, <2>7 DEF Places, m
      <4>2. \A j \in Places : 1 <= j /\ m + j - 1 + 1 = m + j
        BY <2>2 DEF Places
      <4>3. Filled(buffer', 1, n2, m)
        BY <3>4, <4>2 DEF Filled
      <4> HIDE DEF n2
      <4>4. FilledFrom(1)'
        BY <3>2, <3>3, <4>1, <4>3 DEF FilledFrom
      <4>5. \A j \in 1..Len(printed') : printed'[j] = j
        BY <1>1, <2>1 DEF BufferInv
      <4> QED BY <3>3, <4>1, <4>4, <4>5 DEF BufferInv
    <3>6. HandInv'
      BY <3>2 DEF HandInv
    <3>7. TurnInv'
      BY <1>1, <2>2, <2>3, <3>2, <3>3 DEF TurnInv, Stopped, Inside
    <3> QED BY <3>5, <3>6, <3>7
  <2> QED BY <2>2, <2>7, <2>8, <2>9
<1> QED BY <1>6, <1>7 DEF Ex2Inv

LEMMA LeitorLeaves ==
  ASSUME Ex2Inv, semaforoVImpressor
  PROVE  Ex2Inv'
<1>1. /\ pc["Leitor"] = "V" /\ pc'["Leitor"] = "P" /\ pc'["Impressor"] = pc["Impressor"]
      /\ pc' \in [Progs -> {"P", "getchar", "search", "V", "print", "stopping", "gone"}]
      /\ UNCHANGED <<i, buffer, my_char, eof, chars, printed>>
  BY TwoProgs, StepType DEF Ex2Inv, semaforoVImpressor, input
<1>2. /\ exists' = exists /\ refused' \in BOOLEAN
      /\ val' \in [Progs -> 0..SEMVMX] /\ adj' \in [Progs -> [Progs -> Int]]
      /\ Working' => /\ Working /\ val'["Impressor"] = val["Impressor"] + 1
                     /\ val'["Leitor"] = val["Leitor"]
  BY TwoProgs, SemopOutcome DEF Ex2Inv, semaforoVImpressor
<1>3. TypeInv'
  BY <1>1, <1>2 DEF Ex2Inv, TypeInv
<1>4. ASSUME Working' PROVE BufferInv' /\ HandInv' /\ TurnInv'
  <2>1. TypeInv /\ BufferInv /\ HandInv /\ TurnInv
    BY <1>2, <1>4 DEF Ex2Inv
  <2>2. BufferInv' /\ Unprinted' = Unprinted
    BY <1>1, <2>1, BufferKept
  <2>3. HandInv'
    BY <1>1, <2>1 DEF HandInv, Stopped
  <2>4. TurnInv'
    BY <1>1, <1>2, <1>4, <2>1, <2>2, Numbers DEF TurnInv, Stopped, Inside
  <2> QED BY <2>2, <2>3, <2>4
<1> QED BY <1>3, <1>4 DEF Ex2Inv

------------------------------------------------------------------------------
(***************************************************************************)
(* The steps of the Impressor.                                             *)
(***************************************************************************)
LEMMA ImpressorEnters ==
  ASSUME Ex2Inv, semaforoPImpressor
  PROVE  Ex2Inv'
<1>1. /\ pc["Impressor"] = "P" /\ pc'["Impressor"] = "print" /\ pc'["Leitor"] = pc["Leitor"]
      /\ pc' \in [Progs -> {"P", "getchar", "search", "V", "print", "stopping", "gone"}]
      /\ UNCHANGED <<buffer, my_char, eof, chars, printed>>
  BY TwoProgs, StepType DEF Ex2Inv, semaforoPImpressor, input
<1>2. /\ exists' = exists /\ refused' \in BOOLEAN
      /\ val' \in [Progs -> 0..SEMVMX] /\ adj' \in [Progs -> [Progs -> Int]]
      /\ Working' => /\ Working /\ val["Impressor"] + -BUFFER_SIZE >= 0
                     /\ val'["Impressor"] = val["Impressor"] + -BUFFER_SIZE
                     /\ val'["Leitor"] = val["Leitor"]
  <2>1. -BUFFER_SIZE \in Int
    OBVIOUS
  <2> QED BY <2>1, TwoProgs, SemopOutcome DEF Ex2Inv, semaforoPImpressor
<1>3. /\ i' \in [Progs -> Places] /\ i'["Impressor"] = 1 /\ i'["Leitor"] = i["Leitor"]
  <2>1. 1 \in Places /\ i \in [Progs -> Places]
    BY DEF Places, Ex2Inv, TypeInv
  <2> QED BY <2>1, TwoProgs DEF semaforoPImpressor
<1>4. TypeInv'
  BY <1>1, <1>2, <1>3 DEF Ex2Inv, TypeInv
<1>5. ASSUME Working' PROVE BufferInv' /\ HandInv' /\ TurnInv'
  <2>1. TypeInv /\ BufferInv /\ HandInv /\ TurnInv
    BY <1>2, <1>5 DEF Ex2Inv
  <2>2. BufferInv' /\ Unprinted' = Unprinted
    BY <1>1, <1>3, <2>1, BufferKept
  <2>3. HandInv'
    BY <1>1, <1>3, <2>1, <2>2 DEF HandInv
  <2>4. TurnInv'
    <3>1. val["Leitor"] \in Nat /\ val["Impressor"] \in Nat
      BY <2>1, Numbers
    <3>2. CASE pc["Leitor"] \in Stopped
      BY <1>1, <3>2 DEF TurnInv
    <3>3. CASE pc["Leitor"] \notin Stopped
      <4>1. val["Leitor"] + val["Impressor"] + (IF pc["Leitor"] \in Inside THEN 1 ELSE 0)
              = BUFFER_SIZE
        BY <1>1, <2>1, <3>3 DEF TurnInv
      <4>2. /\ val["Leitor"] = 0 /\ val["Impressor"] = BUFFER_SIZE
            /\ pc["Leitor"] \notin Inside
        <5>1. val["Impressor"] >= BUFFER_SIZE /\ BUFFER_SIZE \in Nat
          BY <1>2, <1>5, <3>1
        <5>2. pc["Leitor"] \notin Inside
          BY <3>1, <4>1, <5>1
        <5> QED BY <3>1, <4>1, <5>1, <5>2
      <4>3. pc["Leitor"] = "P"
        BY <2>1, <3>3, <4>2, TwoProgs DEF TypeInv, Inside, Stopped
      <4>4. val'["Leitor"] = 0 /\ val'["Impressor"] = 0
        BY <1>2, <1>5, <3>1, <4>2
      <4> QED BY <1>1, <4>3, <4>4 DEF TurnInv
    <3> QED BY <3>2, <3>3
  <2> QED BY <2>2, <2>3, <2>4
<1> QED BY <1>4, <1>5 DEF Ex2Inv

LEMMA ImpressorLeaves ==
  ASSUME Ex2Inv, semaforoVLeitor
  PROVE  Ex2Inv'
<1>1. /\ pc["Impressor"] = "V" /\ pc'["Impressor"] = "P" /\ pc'["Leitor"] = pc["Leitor"]
      /\ pc' \in [Progs -> {"P", "getchar", "search", "V", "print", "stopping", "gone"}]
      /\ UNCHANGED <<i, buffer, my_char, eof, chars, printed>>
  BY TwoProgs, StepType DEF Ex2Inv, semaforoVLeitor, input
<1>2. /\ exists' = exists /\ refused' \in BOOLEAN
      /\ val' \in [Progs -> 0..SEMVMX] /\ adj' \in [Progs -> [Progs -> Int]]
      /\ Working' => /\ Working /\ val'["Leitor"] = val["Leitor"] + BUFFER_SIZE
                     /\ val'["Impressor"] = val["Impressor"]
  BY TwoProgs, SemopOutcome DEF Ex2Inv, semaforoVLeitor
<1>3. TypeInv'
  BY <1>1, <1>2 DEF Ex2Inv, TypeInv
<1>4. ASSUME Working' PROVE BufferInv' /\ HandInv' /\ TurnInv'
  <2>1. TypeInv /\ BufferInv /\ HandInv /\ TurnInv
    BY <1>2, <1>4 DEF Ex2Inv
  <2>2. BufferInv' /\ Unprinted' = Unprinted
    BY <1>1, <2>1, BufferKept
  <2>3. HandInv'
    BY <1>1, <2>1, <2>2 DEF HandInv
  <2>4. TurnInv'
    <3>1. CASE pc["Leitor"] \in Stopped
      BY <1>1, <3>1 DEF TurnInv
    <3>2. CASE pc["Leitor"] \notin Stopped
      <4>1. pc["Leitor"] = "P" /\ val["Leitor"] = 0 /\ val["Impressor"] = 0
        BY <1>1, <2>1, <3>2 DEF TurnInv
      <4>2. val'["Leitor"] = BUFFER_SIZE /\ val'["Impressor"] = 0
        BY <1>2, <1>4, <4>1
      <4>3. Unprinted' = 0
        BY <1>1, <2>1, <2>2 DEF BufferInv, FilledFrom
      <4>4. pc'["Leitor"] \notin Inside /\ pc'["Leitor"] # "V"
        BY <1>1, <4>1 DEF Inside
      <4> QED BY <1>1, <4>2, <4>3, <4>4 DEF TurnInv
    <3> QED BY <3>1, <3>2
  <2> QED BY <2>2, <2>3, <2>4
<1> QED BY <1>3, <1>4 DEF Ex2Inv

\* The loop prints the places in order, and it reaches the last one with at most
\* one character left.
LEMMA ImpressorPrints ==
  ASSUME Ex2Inv, PrintPlace
  PROVE  Ex2Inv'
<1> DEFINE k == i["Impressor"]
           m == Len(printed)
           n == Unprinted
           out == IF buffer[k] = Free THEN 0 ELSE 1
<1>1. /\ pc["Impressor"] = "print" /\ TypeInv
      /\ UNCHANGED <<exists, val, adj, my_char, eof, chars, refused>>
      /\ printed' = IF buffer[k] = Free \/ refused THEN printed ELSE Append(printed, buffer[k])
      /\ buffer' = [buffer EXCEPT ![k] = Free]
      /\ IF k = BUFFER_SIZE
           THEN pc' = [pc EXCEPT !["Impressor"] = "V"] /\ UNCHANGED i
           ELSE i' = [i EXCEPT !["Impressor"] = @ + 1] /\ UNCHANGED pc
  BY DEF Ex2Inv, PrintPlace, sems, input
<1>2. /\ k \in Places
      /\ pc \in [Progs -> {"P", "getchar", "search", "V", "print", "stopping", "gone"}]
      /\ i \in [Progs -> Places] /\ buffer \in [Places -> Int] /\ printed \in Seq(Int)
  BY <1>1, TwoProgs DEF TypeInv
<1> HIDE DEF k
<1>3. /\ pc' \in [Progs -> {"P", "getchar", "search", "V", "print", "stopping", "gone"}]
      /\ pc'["Leitor"] = pc["Leitor"]
      /\ pc'["Impressor"] = IF k = BUFFER_SIZE THEN "V" ELSE "print"
  BY <1>1, <1>2, TwoProgs
<1>4. /\ i' \in [Progs -> Places] /\ i'["Leitor"] = i["Leitor"]
      /\ k # BUFFER_SIZE => i'["Impressor"] = k + 1 /\ k + 1 \in Places
  <2>1. k # BUFFER_SIZE => k + 1 \in Places
    BY <1>2 DEF Places
  <2> QED BY <1>1, <1>2, <2>1, TwoProgs DEF k
<1>5. buffer' \in [Places -> Int] /\ printed' \in Seq(Int) /\ buffer[k] \in Int
  BY <1>1, <1>2 DEF Free
<1>6. TypeInv'
  BY <1>1, <1>3, <1>4, <1>5 DEF TypeInv
<1>7. ASSUME Working' PROVE BufferInv' /\ HandInv' /\ TurnInv'
  <2>1. BufferInv /\ HandInv /\ TurnInv /\ ~refused
    BY <1>1, <1>7 DEF Ex2Inv, Working
  <2>2. /\ n \in Int /\ m \in Nat /\ chars \in Nat /\ n >= 0
        /\ n = chars - m - (IF my_char = Free THEN 0 ELSE 1)
    BY <1>1, <2>1, Numbers DEF BufferInv, Unprinted
  <2>3. /\ Filled(buffer, k, n, m) /\ k + n <= BUFFER_SIZE + 1
    <3>1. PICK lo \in Places : FilledFrom(lo)
      BY <2>1 DEF BufferInv
    <3>2. lo = k
      BY <1>1, <3>1 DEF FilledFrom, k
    <3> QED BY <3>1, <3>2 DEF FilledFrom
  <2>4. \A j \in 1..m : printed[j] = j
    BY <2>1 DEF BufferInv
  <2>5. k \in Nat /\ k >= 1 /\ k <= BUFFER_SIZE
    BY <1>2 DEF Places
  <2> HIDE DEF n, m
  <2>6. buffer[k] = IF n > 0 THEN m + 1 ELSE Free
    BY <1>2, <2>2, <2>3, <2>5 DEF Filled
  <2>7. out = IF n > 0 THEN 1 ELSE 0
    BY <2>2, <2>6 DEF Free
  <2> HIDE DEF out
  <2>8. /\ Len(printed') = m + out
        /\ \A j \in 1..Len(printed') : printed'[j] = j
    <3>1. CASE n > 0
      <4>1. printed' = Append(printed, m + 1)
        BY <1>1, <2>1, <2>2, <2>6, <3>1 DEF Free
      <4>2. Len(printed') = m + 1
        BY <1>2, <2>2, <4>1 DEF m
      <4>3. \A j \in 1..m + 1 : printed'[j] = j
        BY <1>2, <2>2, <2>4, <4>1 DEF m
      <4> QED BY <2>7, <3>1, <4>2, <4>3
    <3>2. CASE ~(n > 0)
      BY <1>1, <2>2, <2>4, <2>6, <2>7, <3>2 DEF m
    <3> QED BY <3>1, <3>2
  <2>9. Unprinted' = n - out /\ n - out \in Int /\ n - out >= 0
    <3>1. out \in {0, 1} /\ out <= n
      BY <2>2, <2>7
    <3> QED BY <1>1, <2>2, <2>8, <3>1 DEF Unprinted
  <2>10. \A j \in Places : buffer'[j] = IF k + 1 <= j /\ j < k + n THEN m + j - k + 1 ELSE Free
    <3> SUFFICES ASSUME NEW j \in Places
                 PROVE  buffer'[j] = IF k + 1 <= j /\ j < k + n THEN m + j - k + 1 ELSE Free
      OBVIOUS
    <3>1. CASE j = k
      BY <1>1, <1>2, <2>2, <2>5, <3>1
    <3>2. CASE j # k
      <4>1. buffer'[j] = buffer[j] /\ j \in Nat
        BY <1>1, <1>2, <3>2 DEF Places
      <4> QED BY <2>2, <2>3, <2>5, <3>2, <4>1 DEF Filled
    <3> QED BY <3>1, <3>2
  <2>11. BufferInv'
    <3>1. CASE k # BUFFER_SIZE
      <4>1. Filled(buffer', k + 1, n - out, m + out)
        <5>1. CASE n > 0
          BY <2>2, <2>5, <2>7, <2>10, <5>1 DEF Filled, Places
        <5>2. CASE ~(n > 0)
          BY <2>2, <2>5, <2>7, <2>10, <5>2 DEF Filled, Places
        <5> QED BY <5>1, <5>2
      <4>2. k + 1 + (n - out) <= BUFFER_SIZE + 1
        BY <2>2, <2>3, <2>5, <2>7, <3>1
      <4>3. PICK lo \in Places : lo = k + 1
        BY <1>4, <3>1
      <4>4. Filled(buffer', lo, Unprinted', Len(printed'))
        BY <2>8, <2>9, <4>1, <4>3
      <4>5. lo + Unprinted' <= BUFFER_SIZE + 1
        BY <2>9, <4>2, <4>3
      <4>6. FilledFrom(lo)'
        BY <1>3, <1>4, <3>1, <4>3, <4>4, <4>5 DEF FilledFrom
      <4> QED BY <2>8, <2>9, <4>6 DEF BufferInv
    <3>2. CASE k = BUFFER_SIZE
      <4>1. n - out = 0
        BY <2>2, <2>3, <2>5, <2>7, <3>2
      <4>2. \A j \in Places : buffer'[j] = Free
        BY <2>2, <2>5, <2>10, <3>2 DEF Places
      <4>3. Filled(buffer', 1, 0, m + out)
        BY <4>2 DEF Filled, Places
      <4>4. 1 \in Places /\ 1 + 0 <= BUFFER_SIZE + 1
        BY DEF Places
      <4>5. FilledFrom(1)'
        BY <1>3, <2>8, <2>9, <3>2, <4>1, <4>3, <4>4 DEF FilledFrom
      <4> QED BY <2>8, <2>9, <4>4, <4>5 DEF BufferInv
    <3> QED BY <3>1, <3>2
  <2>12. TurnInv' /\ (pc["Leitor"] \in Stopped \/ pc["Leitor"] = "P")
    BY <1>1, <1>3, <2>1 DEF TurnInv
  <2>13. HandInv'
    BY <1>1, <1>3, <2>1, <2>12 DEF HandInv, Stopped
  <2> QED BY <2>11, <2>12, <2>13
<1> QED BY <1>6, <1>7 DEF Ex2Inv

------------------------------------------------------------------------------
(***************************************************************************)
(* The interrupt, the removal of the semaphores, and the start.            *)
(***************************************************************************)
LEMMA InterruptedAnywhere ==
  ASSUME Ex2Inv, NEW tty \in BOOLEAN, Interrupt(tty)
  PROVE  Ex2Inv'
<1>1. /\ TypeInv /\ UNCHANGED <<exists, i, buffer, my_char, eof, chars, printed, refused>>
      /\ pc' = [p \in Progs |-> IF p = "Leitor" THEN "stopping"
                                ELSE IF tty THEN "gone" ELSE pc[p]]
      /\ val' = IF tty THEN [s \in Progs |-> Undone(val[s], adj["Impressor"][s])] ELSE val
      /\ adj' = IF tty THEN [adj EXCEPT !["Impressor"] = [s \in Progs |-> 0]] ELSE adj
  BY DEF Ex2Inv, Interrupt, input
<1>2. /\ pc'["Leitor"] = "stopping"
      /\ pc'["Impressor"] = pc["Impressor"] \/ pc'["Impressor"] = "gone"
      /\ pc' \in [Progs -> {"P", "getchar", "search", "V", "print", "stopping", "gone"}]
  BY <1>1, TwoProgs DEF TypeInv
<1>3. val' \in [Progs -> 0..SEMVMX]
  <2>1. ASSUME NEW v \in 0..SEMVMX, NEW a \in Int PROVE Undone(v, a) \in 0..SEMVMX
    BY DEF Undone
  <2>2. \A s \in Progs : val[s] \in 0..SEMVMX /\ adj["Impressor"][s] \in Int
    BY <1>1, TwoProgs DEF TypeInv
  <2>3. \A s \in Progs : Undone(val[s], adj["Impressor"][s]) \in 0..SEMVMX
    BY <2>1, <2>2
  <2> QED BY <1>1, <2>3 DEF TypeInv
<1>4. adj' \in [Progs -> [Progs -> Int]]
  <2>1. [s \in Progs |-> 0] \in [Progs -> Int]
    OBVIOUS
  <2> QED BY <1>1, <2>1 DEF TypeInv
<1>5. TypeInv'
  BY <1>1, <1>2, <1>3, <1>4 DEF TypeInv
<1>6. ASSUME Working' PROVE BufferInv' /\ HandInv' /\ TurnInv'
  <2>1. BufferInv /\ HandInv
    BY <1>1, <1>6 DEF Ex2Inv, Working
  <2>2. BufferInv' /\ Unprinted' = Unprinted
    BY <1>1, <1>2, <2>1, BufferKept
  <2>3. HandInv'
    BY <1>1, <1>2, <2>1 DEF HandInv, Stopped
  <2>4. TurnInv'
    BY <1>2 DEF TurnInv, Stopped
  <2> QED BY <2>2, <2>3, <2>4
<1> QED BY <1>5, <1>6 DEF Ex2Inv

LEMMA SemaphoresRemoved ==
  ASSUME Ex2Inv, intHandler
  PROVE  Ex2Inv'
<1>1. /\ TypeInv /\ UNCHANGED <<val, adj, i, buffer, my_char, eof, chars, printed, refused>>
      /\ exists' = IF "Leitor" \in exists THEN exists \ {"Leitor"} ELSE {}
      /\ pc' = IF exists' = {} THEN [pc EXCEPT !["Leitor"] = "gone"] ELSE pc
  BY DEF Ex2Inv, intHandler, input
<1>2. exists' \subseteq Progs /\ "Leitor" \notin exists'
  BY <1>1 DEF TypeInv
<1>3. /\ pc' \in [Progs -> {"P", "getchar", "search", "V", "print", "stopping", "gone"}]
      /\ pc'["Leitor"] # "print"
  BY <1>1, TwoProgs DEF TypeInv
<1>4. TypeInv'
  BY <1>1, <1>2, <1>3 DEF TypeInv
<1>5. ~Working'
  BY <1>2, TwoProgs DEF Working
<1> QED BY <1>4, <1>5 DEF Ex2Inv

LEMMA Ex2Starts ==
  Ex2Init => Ex2Inv
<1> SUFFICES ASSUME Ex2Init PROVE Ex2Inv
  OBVIOUS
<1>1. BUFFER_SIZE \in 0..SEMVMX /\ 1 - BUFFER_SIZE <= 0 /\ 1 \in Places
  BY DEF Places
<1>2. SetVal(0, BUFFER_SIZE) = BUFFER_SIZE /\ SetVal(0, 1 - BUFFER_SIZE) = 0
  BY <1>1 DEF SetVal, Settable
<1>3. /\ val \in [Progs -> 0..SEMVMX] /\ val["Leitor"] = BUFFER_SIZE /\ val["Impressor"] = 0
  BY <1>1, <1>2, TwoProgs DEF Ex2Init, Progs
<1>4. adj \in [Progs -> [Progs -> Int]]
  BY DEF Ex2Init
<1>5. /\ pc \in [Progs -> {"P", "getchar", "search", "V", "print", "stopping", "gone"}]
      /\ pc["Leitor"] = "P" /\ pc["Impressor"] = "P"
  BY TwoProgs DEF Ex2Init
<1>6. TypeInv
  <2>1. i \in [Progs -> Places] /\ Free \in Int
    BY <1>1 DEF Ex2Init, Free
  <2>2. buffer \in [Places -> Int] /\ my_char \in Int
    BY <2>1 DEF Ex2Init
  <2>3. exists \subseteq Progs /\ refused \in BOOLEAN /\ eof \in BOOLEAN
    BY DEF Ex2Init
  <2>4. chars \in Nat /\ printed \in Seq(Int)
    BY DEF Ex2Init
  <2> QED BY <1>3, <1>4, <1>5, <2>1, <2>2, <2>3, <2>4 DEF TypeInv
<1>7. chars = 0 /\ Len(printed) = 0 /\ my_char = Free /\ Unprinted = 0
  <2>1. chars = 0 /\ printed = <<>> /\ my_char = Free
    BY DEF Ex2Init
  <2>2. Len(printed) = 0
    BY <2>1
  <2>3. Unprinted = 0 - 0 - 0
    BY <2>1, <2>2 DEF Unprinted
  <2> QED BY <2>1, <2>2, <2>3
<1>8. BufferInv
  <2>1. \A k \in Places : buffer[k] = Free
    BY DEF Ex2Init
  <2>2. FilledFrom(1)
    BY <1>1, <1>5, <1>7, <2>1 DEF FilledFrom, Filled, Places
  <2>3. \A k \in 1..Len(printed) : printed[k] = k
    BY <1>7
  <2> QED BY <1>1, <1>7, <2>2, <2>3 DEF BufferInv
<1>9. HandInv
  BY <1>5, <1>7 DEF HandInv
<1>10. TurnInv
  BY <1>1, <1>3, <1>5, <1>7 DEF TurnInv, Inside
<1> QED BY <1>6, <1>8, <1>9, <1>10 DEF Ex2Inv

LEMMA Ex2InvKept ==
  Ex2Inv /\ [Ex2Next]_ex2Vars => Ex2Inv'
<1> SUFFICES ASSUME Ex2Inv, [Ex2Next]_ex2Vars PROVE Ex2Inv'
  OBVIOUS
<1>1. CASE Leitor
  BY <1>1, LeitorEnters, LeitorReads, LeitorSearches, LeitorLeaves, SemaphoresRemoved DEF Leitor
<1>2. CASE Impressor
  BY <1>2, ImpressorEnters, ImpressorPrints, ImpressorLeaves DEF Impressor
<1>3. CASE \E tty \in BOOLEAN : Interrupt(tty)
  BY <1>3, InterruptedAnywhere
<1>4. CASE UNCHANGED ex2Vars
  <2>1. UNCHANGED <<exists, val, adj, pc, i, buffer, my_char, eof, chars, printed, refused>>
    BY <1>4 DEF ex2Vars, sems, input
  <2>2. TypeInv' = TypeInv /\ Working' = Working
    BY <2>1 DEF TypeInv, Working
  <2>3. BufferInv' = BufferInv
    BY <2>1 DEF BufferInv, FilledFrom, Filled, Unprinted
  <2>4. HandInv' = HandInv /\ TurnInv' = TurnInv
    BY <2>1 DEF HandInv, TurnInv, Unprinted
  <2> QED BY <2>2, <2>3, <2>4 DEF Ex2Inv
<1>5. CASE \A p \in Progs : pc[p] = "gone" /\ UNCHANGED ex2Vars
  BY <1>4, <1>5, TwoProgs
<1> QED BY <1>1, <1>2, <1>3, <1>4, <1>5 DEF Ex2Next

------------------------------------------------------------------------------
\* Until an operation on a semaphore is refused or they are removed, each character
\* read is printed, in the buffer or in the Leitor's hand, once and in order, for
\* every size of the buffer and range of the semaphores (ex2.c:136-141, :164-177).
THEOREM PrintedOnceInOrder ==
  Ex2Spec => []NothingLostOrReordered
<1>1. Ex2Inv => NothingLostOrReordered
  <2> SUFFICES ASSUME Ex2Inv, Working PROVE NothingLostOrReordered
    BY DEF Ex2Inv, Working, NothingLostOrReordered
  <2> QED BY FilledInOrder DEF Ex2Inv
<1> QED BY <1>1, Ex2Starts, Ex2InvKept, PTL DEF Ex2Spec
=============================================================================
