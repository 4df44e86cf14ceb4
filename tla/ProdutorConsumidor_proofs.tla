----------------------- MODULE ProdutorConsumidor_proofs -----------------------
(***************************************************************************)
(* The producers and consumers, for every number of threads, every size of *)
(* the ring and every number of items: types, the refinement of the bounded*)
(* FIFO, and that no thread gives up on work another would still do.       *)
(*                                                                         *)
(* The FIFO rests on the indices of the ring (RingInv) and on the items of *)
(* a producer being new (TurnInv).  Giving up rests on what the counters   *)
(* of ended threads mean (CountInv): when they are at their limit, every   *)
(* thread of the other kind has ended, and none has aborted.               *)
(***************************************************************************)
EXTENDS ProdutorConsumidor, SequenceTheorems, FiniteSetTheorems, TLAPS

USE ThreadsAssumption, SizesAssumption

------------------------------------------------------------------------------
(***************************************************************************)
(* The ring.                                                               *)
(***************************************************************************)
\* What % does to a number less than twice its divisor.
LEMMA ModOnce ==
  ASSUME NEW M \in Nat \ {0}, NEW s \in 0..(2 * M - 1)
  PROVE  s % M = IF s < M THEN s ELSE s - M
<1>1. CASE s < M
  <2>1. s % M = s
    BY <1>1
  <2> QED BY <1>1, <2>1
<1>2. CASE s >= M
  <2>1. s % M = s - M
    BY <1>2
  <2> QED BY <1>2, <2>1
<1> QED BY <1>1, <1>2

\* An index of the ring, kept in its range as the code does.
Wrap(s) == s % MAXFILA

\* An index that goes at most once around the ring.
LEMMA RingIndex ==
  ASSUME NEW a \in Slots, NEW b \in 0..MAXFILA
  PROVE  /\ Wrap(a + b) = IF a + b < MAXFILA THEN a + b ELSE a + b - MAXFILA
         /\ Wrap(a + b) \in Slots
<1> DEFINE s == a + b
<1>1. s \in 0..(2 * MAXFILA - 1) /\ MAXFILA \in Nat \ {0}
  BY DEF Slots
<1> HIDE DEF s
<1>2. s % MAXFILA = IF s < MAXFILA THEN s ELSE s - MAXFILA
  BY <1>1, ModOnce
<1>3. Wrap(s) = IF s < MAXFILA THEN s ELSE s - MAXFILA
  BY <1>2 DEF Wrap
<1>4. Wrap(s) \in Slots
  BY <1>1, <1>3 DEF Slots
<1> QED BY <1>1, <1>3, <1>4 DEF s, Slots

\* The slot of the k-th item in the ring, when the oldest is in slot a.
SlotOf(a, k) == Wrap(a + k - 1)

LEMMA SlotOfType ==
  ASSUME NEW a \in Slots, NEW k \in 1..(MAXFILA + 1)
  PROVE  /\ SlotOf(a, k) = IF a + (k - 1) < MAXFILA THEN a + (k - 1) ELSE a + (k - 1) - MAXFILA
         /\ SlotOf(a, k) = Wrap(a + (k - 1))
         /\ SlotOf(a, k) \in Slots
<1> DEFINE b == k - 1
<1>1. b \in 0..MAXFILA /\ a + k - 1 = a + b
  BY DEF Slots
<1>2. SlotOf(a, k) = Wrap(a + b)
  BY <1>1 DEF SlotOf
<1> HIDE DEF b
<1>3. /\ SlotOf(a, k) = IF a + b < MAXFILA THEN a + b ELSE a + b - MAXFILA
      /\ SlotOf(a, k) \in Slots
  BY <1>1, <1>2, RingIndex
<1> QED BY <1>2, <1>3 DEF b

\* Two items in the ring are in different slots.
LEMMA SlotsApart ==
  ASSUME NEW a \in Slots, NEW j \in 1..MAXFILA, NEW k \in 1..MAXFILA, j # k
  PROVE  SlotOf(a, j) # SlotOf(a, k)
<1>1. /\ SlotOf(a, j) = IF a + (j - 1) < MAXFILA THEN a + (j - 1) ELSE a + (j - 1) - MAXFILA
      /\ SlotOf(a, k) = IF a + (k - 1) < MAXFILA THEN a + (k - 1) ELSE a + (k - 1) - MAXFILA
  BY SlotOfType
<1> QED BY <1>1 DEF Slots

\* When the oldest item leaves, the second is the oldest.
LEMMA SlotAfterTake ==
  ASSUME NEW a \in Slots, NEW k \in 1..MAXFILA
  PROVE  SlotOf(Wrap(a + 1), k) = SlotOf(a, k + 1)
<1> DEFINE n == Wrap(a + 1)
<1>1. n = (IF a + 1 < MAXFILA THEN a + 1 ELSE a + 1 - MAXFILA) /\ n \in Slots
  <2>1. 1 \in 0..MAXFILA
    OBVIOUS
  <2>2. /\ Wrap(a + 1) = IF a + 1 < MAXFILA THEN a + 1 ELSE a + 1 - MAXFILA
        /\ Wrap(a + 1) \in Slots
    BY <2>1, RingIndex
  <2> QED BY <2>2
<1> HIDE DEF n
<1>2. SlotOf(n, k) = IF n + (k - 1) < MAXFILA THEN n + (k - 1) ELSE n + (k - 1) - MAXFILA
  <2>1. k \in 1..(MAXFILA + 1)
    OBVIOUS
  <2> QED BY <1>1, <2>1, SlotOfType
<1>3. SlotOf(a, k + 1) = IF a + k < MAXFILA THEN a + k ELSE a + k - MAXFILA
  <2>1. k + 1 \in 1..(MAXFILA + 1) /\ (k + 1) - 1 = k
    OBVIOUS
  <2> QED BY <2>1, SlotOfType
<1>4. SlotOf(n, k) = SlotOf(a, k + 1)
  BY <1>1, <1>2, <1>3 DEF Slots
<1> QED BY <1>4 DEF n

\* A function on 1..n is a sequence.
LEMMA FunctionIsSeq ==
  ASSUME NEW S, NEW n \in Nat, NEW f \in [1..n -> S]
  PROVE  f \in Seq(S) /\ Len(f) = n
<1>1. f \in Seq(S)
  BY SeqDef
<1> QED BY <1>1, LenProperties

------------------------------------------------------------------------------
(***************************************************************************)
(* The invariant.                                                          *)
(***************************************************************************)
\* The indices and the count agree, and the slots between them hold items.
RingInv ==
  /\ fila \in [Slots -> Items \cup {NoItem}]
  /\ fim_da_fila \in Slots /\ inicio_da_fila \in Slots
  /\ qtd_na_fila \in 0..MAXFILA
  /\ fim_da_fila = Wrap(inicio_da_fila + qtd_na_fila)
  /\ \A k \in 1..qtd_na_fila : fila[SlotOf(inicio_da_fila, k)] \in Items

\* A thread in its loop has turns left, a producer has produced the items of its
\* past turns only, and the consumers have no way to abort.
TurnInv ==
  /\ i \in [Threads -> 0..MAXNUM]
  /\ pc \in [Threads -> {"loop", "terminado", "fim", "abortado", "none"}]
  /\ \A t \in Threads : pc[t] = "loop" => i[t] < MAXNUM
  /\ \A c \in Consumidores : pc[c] # "abortado"
  /\ produzidos \subseteq Items
  /\ \A p \in Produtores, k \in 0..(MAXNUM - 1) : <<p, k>> \in produzidos => k < i[p]

\* The counters of ended threads count them, among as many as there are.
EndedAmong(S) == {t \in S : pc[t] = "fim"}
CreatedAmong(S) == {t \in S : Created(t)}

CountInv ==
  /\ NUM_PROD \in 1..MaxProd /\ NUM_CONS \in 1..MaxCons
  /\ \A t \in Threads : pc[t] = "none" <=> ~Created(t)
  /\ produtor_terminado = Cardinality(EndedAmong(Produtores))
  /\ consumidor_terminado = Cardinality(EndedAmong(Consumidores))

RestInv ==
  /\ fila_nao_cheia \subseteq Produtores /\ fila_nao_vazia \subseteq Consumidores
  /\ consumidos \in Seq(Items)

\* A consumer that gave up left nothing and will miss nothing; a producer that
\* aborted would have been waited for by nobody.
WorkInv ==
  /\ \A c \in Consumidores : pc[c] \in {"terminado", "fim"} /\ i[c] < MAXNUM
                               => NothingToCome /\ qtd_na_fila = 0
  /\ \A p \in Produtores : pc[p] = "abortado" =>
       \A c \in Consumidores : pc[c] = "none" \/ i[c] = MAXNUM

PCInv == RingInv /\ TurnInv /\ CountInv /\ RestInv /\ WorkInv

LEMMA KindsApart ==
  /\ Produtores \cap Consumidores = {}
  /\ Threads = Produtores \cup Consumidores
BY DEF Produtores, Consumidores, Threads

------------------------------------------------------------------------------
(***************************************************************************)
(* Counting threads.                                                       *)
(***************************************************************************)
\* The first n threads of a kind are n.
LEMMA ThreadCount ==
  ASSUME NEW kind, NEW n \in Nat \ {0}, NEW S,
         \A t : t \in S <=> \E m \in 1..n : t = <<kind, m>>
  PROVE  IsFiniteSet(S) /\ Cardinality(S) = n
<1> DEFINE f == [m \in 1..n |-> <<kind, m>>]
<1>1. ExistsBijection(1..n, S)
  <2>1. f \in [1..n -> S]
    OBVIOUS
  <2>2. \A x, y \in 1..n : f[x] = f[y] => x = y
    OBVIOUS
  <2>3. \A t \in S : \E m \in 1..n : f[m] = t
    OBVIOUS
  <2> HIDE DEF f
  <2>4. f \in Bijection(1..n, S)
    BY <2>1, <2>2, <2>3 DEF Bijection, Injection, Surjection, IsInjective
  <2> QED BY <2>4 DEF ExistsBijection
<1>2. IsFiniteSet(1..n) /\ Cardinality(1..n) = n
  <2>1. 1 \in Int /\ n \in Int /\ ~ (1 > n) /\ n - 1 + 1 = n
    OBVIOUS
  <2> QED BY <2>1, FS_Interval
<1> QED BY <1>1, <1>2, FS_Bijection

LEMMA CreatedCount ==
  ASSUME CountInv
  PROVE  /\ IsFiniteSet(CreatedAmong(Produtores))
         /\ Cardinality(CreatedAmong(Produtores)) = NUM_PROD
         /\ IsFiniteSet(CreatedAmong(Consumidores))
         /\ Cardinality(CreatedAmong(Consumidores)) = NUM_CONS
<1>1. /\ NUM_PROD \in 1..MaxProd /\ NUM_CONS \in 1..MaxCons
      /\ MaxProd \in Nat /\ MaxCons \in Nat
      /\ NUM_PROD \in Nat \ {0} /\ NUM_CONS \in Nat \ {0}
  BY DEF CountInv
<1>2. \A t : t \in CreatedAmong(Produtores) <=> \E m \in 1..NUM_PROD : t = <<"prod", m>>
  BY <1>1 DEF CreatedAmong, Created, Produtores
<1>3. \A t : t \in CreatedAmong(Consumidores) <=> \E m \in 1..NUM_CONS : t = <<"cons", m>>
  BY <1>1 DEF CreatedAmong, Created, Consumidores
<1>4. /\ IsFiniteSet(CreatedAmong(Produtores))
      /\ Cardinality(CreatedAmong(Produtores)) = NUM_PROD
  BY <1>1, <1>2, ThreadCount
<1>5. /\ IsFiniteSet(CreatedAmong(Consumidores))
      /\ Cardinality(CreatedAmong(Consumidores)) = NUM_CONS
  BY <1>1, <1>3, ThreadCount
<1> QED BY <1>4, <1>5

\* A counter at its limit says that every thread of the kind has ended.
LEMMA LimitMeansAllEnded ==
  ASSUME CountInv
  PROVE  /\ produtor_terminado \in 0..NUM_PROD /\ consumidor_terminado \in 0..NUM_CONS
         /\ IsFiniteSet(EndedAmong(Produtores)) /\ IsFiniteSet(EndedAmong(Consumidores))
         /\ NothingToCome => \A p \in Produtores : pc[p] \in {"fim", "none"}
         /\ NobodyToTake => \A c \in Consumidores : pc[c] \in {"fim", "none"}
<1>1. /\ IsFiniteSet(CreatedAmong(Produtores))
      /\ Cardinality(CreatedAmong(Produtores)) = NUM_PROD
      /\ IsFiniteSet(CreatedAmong(Consumidores))
      /\ Cardinality(CreatedAmong(Consumidores)) = NUM_CONS
  BY CreatedCount
<1>2. /\ EndedAmong(Produtores) \in SUBSET CreatedAmong(Produtores)
      /\ EndedAmong(Consumidores) \in SUBSET CreatedAmong(Consumidores)
  BY KindsApart DEF EndedAmong, CreatedAmong, CountInv
<1>3. /\ IsFiniteSet(EndedAmong(Produtores))
      /\ Cardinality(EndedAmong(Produtores)) <= NUM_PROD
      /\ Cardinality(EndedAmong(Produtores)) = NUM_PROD
           => EndedAmong(Produtores) = CreatedAmong(Produtores)
  BY <1>1, <1>2, FS_Subset
<1>4. /\ IsFiniteSet(EndedAmong(Consumidores))
      /\ Cardinality(EndedAmong(Consumidores)) <= NUM_CONS
      /\ Cardinality(EndedAmong(Consumidores)) = NUM_CONS
           => EndedAmong(Consumidores) = CreatedAmong(Consumidores)
  BY <1>1, <1>2, FS_Subset
<1>5. /\ Cardinality(EndedAmong(Produtores)) \in Nat
      /\ Cardinality(EndedAmong(Consumidores)) \in Nat
  BY <1>3, <1>4, FS_CardinalityType
<1>6. NothingToCome => \A p \in Produtores : pc[p] \in {"fim", "none"}
  BY <1>3, KindsApart DEF NothingToCome, CountInv, EndedAmong, CreatedAmong
<1>7. NobodyToTake => \A c \in Consumidores : pc[c] \in {"fim", "none"}
  BY <1>4, KindsApart DEF NobodyToTake, CountInv, EndedAmong, CreatedAmong
<1> QED BY <1>3, <1>4, <1>5, <1>6, <1>7 DEF CountInv

------------------------------------------------------------------------------
(***************************************************************************)
(* The initial state.                                                      *)
(***************************************************************************)
LEMMA PCInvInit == PCInit => PCInv
<1> SUFFICES ASSUME PCInit PROVE PCInv
  OBVIOUS
<1>1. RingInv
  <2>1. 0 \in Slots /\ Wrap(0 + 0) = 0
    <3>1. 0 \in Slots
      BY DEF Slots
    <3>2. Wrap(0 + 0) = IF 0 + 0 < MAXFILA THEN 0 + 0 ELSE 0 + 0 - MAXFILA
      BY <3>1, RingIndex
    <3> QED BY <3>1, <3>2
  <2> QED BY <2>1 DEF PCInit, RingInv
<1>2. \A t \in Threads : pc[t] = (IF Created(t) THEN "loop" ELSE "none") /\ i[t] = 0
  BY DEF PCInit
<1>3. TurnInv
  <2>1. /\ i \in [Threads -> 0..MAXNUM]
        /\ pc \in [Threads -> {"loop", "terminado", "fim", "abortado", "none"}]
        /\ produzidos = {}
    BY DEF PCInit
  <2> QED BY <1>2, <2>1, KindsApart DEF TurnInv
<1>4. CountInv
  <2>1. EndedAmong(Produtores) = {} /\ EndedAmong(Consumidores) = {}
    BY <1>2, KindsApart DEF EndedAmong
  <2> QED BY <1>2, <2>1, FS_EmptySet DEF PCInit, CountInv
<1>5. RestInv
  BY EmptySeq DEF PCInit, RestInv
<1>6. WorkInv
  BY <1>2, KindsApart DEF WorkInv
<1> QED BY <1>1, <1>3, <1>4, <1>5, <1>6 DEF PCInv

------------------------------------------------------------------------------
(***************************************************************************)
(* The ring, step by step, and the FIFO it implements.                     *)
(***************************************************************************)
\* A thread that takes its turn is in its loop.
LEMMA RunsInLoop ==
  ASSUME TurnInv, NEW t \in Threads, Runs(t)
  PROVE  pc[t] = "loop" /\ i[t] \in 0..(MAXNUM - 1)
BY DEF TurnInv, Runs

ContentsFacts ==
  /\ Contents \in Seq(Items) /\ Len(Contents) = qtd_na_fila
  /\ \A k \in 1..qtd_na_fila : Contents[k] = fila[SlotOf(inicio_da_fila, k)]

LEMMA ContentsType == RingInv => ContentsFacts
<1> SUFFICES ASSUME RingInv PROVE ContentsFacts
  OBVIOUS
<1>1. \A k \in 1..qtd_na_fila : Contents[k] = fila[SlotOf(inicio_da_fila, k)]
  BY DEF Contents, SlotOf, Wrap
<1>2. Contents \in [1..qtd_na_fila -> Items]
  BY DEF Contents, RingInv, SlotOf, Wrap
<1>3. qtd_na_fila \in Nat
  BY DEF RingInv
<1>4. Contents \in Seq(Items) /\ Len(Contents) = qtd_na_fila
  BY <1>2, <1>3, FunctionIsSeq
<1> QED BY <1>1, <1>4 DEF ContentsFacts

LEMMA RingProduz ==
  ASSUME RingInv, TurnInv, NEW p \in Produtores, Produz(p)
  PROVE  RingInv' /\ Contents' = Append(Contents, <<p, i[p]>>)
<1> DEFINE item == <<p, i[p]>>
           a == inicio_da_fila
           n == qtd_na_fila
<1>1. /\ fila \in [Slots -> Items \cup {NoItem}] /\ a \in Slots /\ fim_da_fila \in Slots
      /\ n \in 0..(MAXFILA - 1) /\ fim_da_fila = Wrap(a + n)
      /\ \A k \in 1..n : fila[SlotOf(a, k)] \in Items
  BY DEF RingInv, Produz, Full
<1>2. /\ fila' = [fila EXCEPT ![fim_da_fila] = item]
      /\ fim_da_fila' = Wrap(fim_da_fila + 1)
      /\ qtd_na_fila' = n + 1 /\ inicio_da_fila' = a
  BY DEF Produz, Wrap
<1>3. item \in Items
  <2>1. i[p] \in 0..(MAXNUM - 1)
    BY RunsInLoop, KindsApart DEF Produz
  <2> QED BY <2>1 DEF Items
<1> HIDE DEF a, n, item
<1>4. fim_da_fila = SlotOf(a, n + 1)
  <2>1. n + 1 \in 1..(MAXFILA + 1) /\ (n + 1) - 1 = n
    BY <1>1
  <2> QED BY <1>1, <2>1, SlotOfType
<1>5. \A k \in 1..n : SlotOf(a, k) # fim_da_fila /\ SlotOf(a, k) \in Slots
  <2> SUFFICES ASSUME NEW k \in 1..n PROVE SlotOf(a, k) # fim_da_fila /\ SlotOf(a, k) \in Slots
    OBVIOUS
  <2>1. k \in 1..MAXFILA /\ n + 1 \in 1..MAXFILA /\ k # n + 1 /\ k \in 1..(MAXFILA + 1)
    BY <1>1
  <2> QED BY <1>1, <1>4, <2>1, SlotsApart, SlotOfType
<1>6. /\ fila' \in [Slots -> Items \cup {NoItem}]
      /\ fila'[SlotOf(a, n + 1)] = item
      /\ \A k \in 1..n : fila'[SlotOf(a, k)] = fila[SlotOf(a, k)]
  BY <1>1, <1>2, <1>3, <1>4, <1>5
<1>7. fim_da_fila' \in Slots /\ fim_da_fila' = Wrap(a + (n + 1))
  <2>1. /\ fim_da_fila = IF a + n < MAXFILA THEN a + n ELSE a + n - MAXFILA
        /\ fim_da_fila' = IF fim_da_fila + 1 < MAXFILA THEN fim_da_fila + 1
                                                       ELSE fim_da_fila + 1 - MAXFILA
        /\ fim_da_fila' \in Slots
    BY <1>1, <1>2, RingIndex
  <2>2. n + 1 \in 0..MAXFILA
    BY <1>1
  <2>3. Wrap(a + (n + 1)) = IF a + (n + 1) < MAXFILA THEN a + (n + 1)
                                                           ELSE a + (n + 1) - MAXFILA
    BY <1>1, <2>2, RingIndex
  <2>4. /\ a \in Nat /\ a < MAXFILA /\ n \in Nat /\ n < MAXFILA /\ MAXFILA \in Nat
        /\ fim_da_fila \in Nat
    BY <1>1 DEF Slots
  <2>5. fim_da_fila' = IF a + (n + 1) < MAXFILA THEN a + (n + 1) ELSE a + (n + 1) - MAXFILA
    BY <2>1, <2>4
  <2> QED BY <2>1, <2>3, <2>5
<1>8. \A k \in 1..(n + 1) : k \in 1..n \/ k = n + 1
  BY <1>1
<1>9. RingInv'
  <2>1. \A k \in 1..(n + 1) : fila'[SlotOf(a, k)] \in Items
    BY <1>1, <1>3, <1>6, <1>8
  <2>2. n + 1 \in 0..MAXFILA
    BY <1>1
  <2> QED BY <1>1, <1>2, <1>6, <1>7, <2>1, <2>2 DEF RingInv
<1>10. Contents' = Append(Contents, item)
  <2> DEFINE c == Contents
             d == Contents'
             e == Append(c, item)
  <2>1. c \in Seq(Items) /\ Len(c) = n /\ \A k \in 1..n : c[k] = fila[SlotOf(a, k)]
    BY ContentsType DEF n, a, ContentsFacts
  <2>2. /\ d \in Seq(Items) /\ Len(d) = n + 1
        /\ \A k \in 1..(n + 1) : d[k] = fila'[SlotOf(a, k)]
    <3>1. ContentsFacts'
      BY <1>9, ContentsType, PTL
    <3> QED BY <1>2, <3>1 DEF ContentsFacts, SlotOf, Wrap, Items, Produtores
  <2> HIDE DEF c, d
  <2>3. /\ e \in Seq(Items) /\ Len(e) = n + 1 /\ e[n + 1] = item
        /\ \A k \in 1..n : e[k] = c[k]
    BY <1>3, <2>1, AppendProperties
  <2> HIDE DEF e
  <2>4. \A k \in 1..Len(d) : d[k] = e[k]
    BY <1>6, <1>8, <2>1, <2>2, <2>3
  <2>5. d = e
    BY <2>2, <2>3, <2>4, SeqEqual
  <2> QED BY <2>5 DEF c, d, e
<1> QED BY <1>9, <1>10 DEF item

LEMMA RingConsome ==
  ASSUME RingInv, NEW c \in Consumidores, Consome(c)
  PROVE  /\ RingInv' /\ Contents # <<>>
         /\ Contents' = Tail(Contents) /\ fila[inicio_da_fila] = Head(Contents)
<1> DEFINE a == inicio_da_fila
           b == Wrap(inicio_da_fila + 1)
           n == qtd_na_fila
<1>1. /\ fila \in [Slots -> Items \cup {NoItem}] /\ a \in Slots /\ fim_da_fila \in Slots
      /\ n \in 1..MAXFILA /\ fim_da_fila = Wrap(a + n)
      /\ \A k \in 1..n : fila[SlotOf(a, k)] \in Items
  BY DEF RingInv, Consome
<1>2. /\ fila' = fila /\ fim_da_fila' = fim_da_fila
      /\ qtd_na_fila' = n - 1 /\ inicio_da_fila' = b
  BY DEF Consome, Wrap
<1>3. b \in Slots /\ b = IF a + 1 < MAXFILA THEN a + 1 ELSE a + 1 - MAXFILA
  BY <1>1, RingIndex
<1> HIDE DEF a, b, n
<1>4. \A k \in 1..(n - 1) : SlotOf(b, k) = SlotOf(a, k + 1) /\ k + 1 \in 1..n
  <2> SUFFICES ASSUME NEW k \in 1..(n - 1)
               PROVE  SlotOf(b, k) = SlotOf(a, k + 1) /\ k + 1 \in 1..n
    OBVIOUS
  <2>1. k \in 1..MAXFILA /\ k + 1 \in 1..n
    BY <1>1
  <2> QED BY <1>1, <2>1, SlotAfterTake DEF a, b
<1>5. fim_da_fila = Wrap(b + (n - 1))
  <2>1. fim_da_fila = IF a + n < MAXFILA THEN a + n ELSE a + n - MAXFILA
    BY <1>1, RingIndex
  <2>2. n - 1 \in 0..MAXFILA
    BY <1>1
  <2>3. Wrap(b + (n - 1)) = IF b + (n - 1) < MAXFILA THEN b + (n - 1)
                                                           ELSE b + (n - 1) - MAXFILA
    BY <1>3, <2>2, RingIndex
  <2>4. /\ a \in Nat /\ a < MAXFILA /\ n \in Nat /\ 0 < n /\ n <= MAXFILA /\ MAXFILA \in Nat
        /\ b \in Nat
    BY <1>1, <1>3 DEF Slots
  <2>5. fim_da_fila = IF b + (n - 1) < MAXFILA THEN b + (n - 1) ELSE b + (n - 1) - MAXFILA
    BY <1>3, <2>1, <2>4
  <2> QED BY <2>3, <2>5
<1>6. RingInv'
  <2>1. \A k \in 1..(n - 1) : fila[SlotOf(b, k)] \in Items
    BY <1>1, <1>4
  <2>2. n - 1 \in 0..MAXFILA
    BY <1>1
  <2> QED BY <1>1, <1>2, <1>3, <1>5, <2>1, <2>2 DEF RingInv
<1>7. /\ Contents \in Seq(Items) /\ Len(Contents) = n
      /\ \A k \in 1..n : Contents[k] = fila[SlotOf(a, k)]
  BY ContentsType DEF n, a, ContentsFacts
<1>8. Contents # <<>>
  BY <1>1, <1>7, EmptySeq
<1>9. fila[a] = Head(Contents)
  <2>1. SlotOf(a, 1) = a
    <3>1. 1 \in 1..(MAXFILA + 1) /\ a \in Nat /\ a < MAXFILA
      BY <1>1 DEF Slots
    <3>2. SlotOf(a, 1) = IF a + (1 - 1) < MAXFILA THEN a + (1 - 1) ELSE a + (1 - 1) - MAXFILA
      BY <1>1, <3>1, SlotOfType
    <3> QED BY <3>1, <3>2
  <2>2. Contents[1] = fila[a]
    BY <1>1, <1>7, <2>1
  <2> QED BY <1>7, <1>8, <2>2
<1>10. Contents' = Tail(Contents)
  <2> DEFINE x == Contents
             d == Contents'
             t == Tail(x)
  <2>1. /\ d \in Seq(Items) /\ Len(d) = n - 1
        /\ \A k \in 1..(n - 1) : d[k] = fila[SlotOf(b, k)]
    <3>1. ContentsFacts'
      BY <1>6, ContentsType, PTL
    <3> QED BY <1>2, <3>1 DEF ContentsFacts, SlotOf, Wrap, Items, Produtores
  <2>2. /\ t \in Seq(Items) /\ Len(t) = n - 1
        /\ \A k \in 1..(n - 1) : t[k] = x[k + 1]
    BY <1>7, <1>8, HeadTailProperties
  <2> HIDE DEF d, t
  <2>3. \A k \in 1..Len(d) : d[k] = t[k]
    BY <1>4, <1>7, <2>1, <2>2
  <2>4. d = t
    BY <2>1, <2>2, <2>3, SeqEqual
  <2> QED BY <2>4 DEF d, t
<1> QED BY <1>6, <1>8, <1>9, <1>10 DEF a

\* Every other step leaves the ring alone.
LEMMA StepKinds ==
  ASSUME [PCNext]_vars
  PROVE  \/ \E p \in Produtores : Produz(p)
         \/ \E c \in Consumidores : Consome(c)
         \/ UNCHANGED <<numbers, ring, i, produzidos, consumidos>>
<1>1. CASE UNCHANGED vars
  BY <1>1 DEF vars
<1>2. ASSUME NEW p \in Produtores, Aborta(p) \/ EsperaVaga(p) \/ TerminaProdutor(p)
      PROVE  UNCHANGED <<numbers, ring, i, produzidos, consumidos>>
  BY <1>2 DEF Aborta, EsperaVaga, TerminaProdutor
<1>3. ASSUME NEW c \in Consumidores, EsperaItem(c) \/ Desiste(c) \/ TerminaConsumidor(c)
      PROVE  UNCHANGED <<numbers, ring, i, produzidos, consumidos>>
  BY <1>3 DEF EsperaItem, Desiste, TerminaConsumidor
<1>4. ASSUME NEW t \in Threads, SpuriousWakeup(t)
      PROVE  UNCHANGED <<numbers, ring, i, produzidos, consumidos>>
  BY <1>4 DEF SpuriousWakeup
<1> QED BY <1>1, <1>2, <1>3, <1>4 DEF PCNext, produtor, consumidor

LEMMA RingStep ==
  ASSUME RingInv, TurnInv, [PCNext]_vars
  PROVE  RingInv'
<1>1. CASE UNCHANGED <<numbers, ring, i, produzidos, consumidos>>
  BY <1>1 DEF ring, RingInv
<1> QED BY <1>1, StepKinds, RingProduz, RingConsome

------------------------------------------------------------------------------
(***************************************************************************)
(* The turns.                                                              *)
(***************************************************************************)
\* A thread leaves its loop, or ends.
LEMMA TurnEnd ==
  ASSUME TurnInv, NEW t \in Threads, NEW w \in {"terminado", "fim", "abortado"},
         w = "abortado" => t \in Produtores, End(t, w), UNCHANGED <<i, produzidos>>
  PROVE  TurnInv'
<1>1. /\ pc' \in [Threads -> {"loop", "terminado", "fim", "abortado", "none"}]
      /\ pc'[t] = w /\ \A u \in Threads : u # t => pc'[u] = pc[u]
  BY DEF TurnInv, End
<1>2. \A u \in Threads : pc'[u] = "loop" => i'[u] < MAXNUM
  BY <1>1 DEF TurnInv
<1>3. \A c \in Consumidores : pc'[c] # "abortado"
  BY <1>1, KindsApart DEF TurnInv
<1> QED BY <1>1, <1>2, <1>3 DEF TurnInv, Items

\* A thread takes its turn, and the item it may produce is its first of that turn.
LEMMA TurnTaken ==
  ASSUME TurnInv, NEW t \in Threads, Runs(t), NextTurn(t),
         \/ produzidos' = produzidos
         \/ t \in Produtores /\ produzidos' = produzidos \cup {<<t, i[t]>>}
  PROVE  /\ TurnInv'
         /\ i'[t] = i[t] + 1 /\ (pc'[t] = "loop" \/ (pc'[t] = "terminado" /\ i'[t] = MAXNUM))
         /\ \A u \in Threads : u # t => i'[u] = i[u] /\ pc'[u] = pc[u]
<1> DEFINE more == i[t] + 1 < MAXNUM
<1>1. pc[t] = "loop" /\ i[t] \in 0..(MAXNUM - 1) /\ (~more => i[t] + 1 = MAXNUM)
  <2>1. pc[t] = "loop" /\ i[t] \in 0..(MAXNUM - 1)
    BY RunsInLoop
  <2> QED BY <2>1
<1>2. i' = [i EXCEPT ![t] = i[t] + 1] /\ i' \in [Threads -> 0..MAXNUM]
  BY <1>1 DEF NextTurn, TurnInv
<1>3. i'[t] = i[t] + 1 /\ \A u \in Threads : u # t => i'[u] = i[u]
  BY <1>2 DEF TurnInv
<1>4. /\ pc' \in [Threads -> {"loop", "terminado", "fim", "abortado", "none"}]
      /\ \A u \in Threads : u # t => pc'[u] = pc[u]
      /\ more => pc'[t] = "loop"
      /\ ~more => pc'[t] = "terminado"
  BY <1>1 DEF NextTurn, TurnInv
<1>5. ASSUME ~more PROVE i'[t] = MAXNUM
  BY <1>1, <1>3, <1>5
<1> HIDE DEF more
<1>6. pc'[t] = "loop" \/ (pc'[t] = "terminado" /\ i'[t] = MAXNUM)
  BY <1>4, <1>5
<1>7. \A u \in Threads : pc'[u] = "loop" => i'[u] < MAXNUM
  BY <1>1, <1>3, <1>4 DEF TurnInv, more
<1>8. \A c \in Consumidores : pc'[c] # "abortado"
  BY <1>4, <1>6, KindsApart DEF TurnInv
<1>9. produzidos' \subseteq Items
  BY <1>1 DEF TurnInv, Items
<1>10. ASSUME NEW p \in Produtores, NEW k \in 0..(MAXNUM - 1), <<p, k>> \in produzidos'
      PROVE  k < i'[p]
  <2>1. i[p] \in 0..MAXNUM /\ p \in Threads
    BY KindsApart DEF TurnInv
  <2>2. i[p] <= i'[p] /\ i'[p] \in Nat
    BY <1>1, <1>3, <2>1
  <2>3. CASE <<p, k>> \in produzidos
    <3>1. k < i[p]
      BY <2>3 DEF TurnInv
    <3> QED BY <2>1, <2>2, <3>1
  <2>4. CASE <<p, k>> = <<t, i[t]>>
    <3>1. p = t /\ k = i[t]
      BY <2>4
    <3> QED BY <1>1, <1>3, <3>1
  <2> QED BY <1>10, <2>3, <2>4
<1>11. TurnInv'
  BY <1>2, <1>4, <1>7, <1>8, <1>9, <1>10 DEF TurnInv
<1> QED BY <1>3, <1>4, <1>6, <1>11

LEMMA TurnStep ==
  ASSUME TurnInv, [PCNext]_vars
  PROVE  TurnInv'
<1>1. CASE UNCHANGED vars
  BY <1>1 DEF vars, TurnInv
<1>2. ASSUME NEW p \in Produtores, produtor(p) PROVE TurnInv'
  <2>1. p \in Threads
    BY KindsApart
  <2>2. CASE Aborta(p)
    BY <2>1, <2>2, TurnEnd DEF Aborta
  <2>3. CASE EsperaVaga(p)
    BY <2>3 DEF EsperaVaga, TurnInv
  <2>4. CASE Produz(p)
    BY <2>1, <2>4, TurnTaken DEF Produz
  <2>5. CASE TerminaProdutor(p)
    BY <2>1, <2>5, TurnEnd DEF TerminaProdutor
  <2> QED BY <1>2, <2>2, <2>3, <2>4, <2>5 DEF produtor
<1>3. ASSUME NEW c \in Consumidores, consumidor(c) PROVE TurnInv'
  <2>1. c \in Threads
    BY KindsApart
  <2>2. CASE EsperaItem(c)
    BY <2>2 DEF EsperaItem, TurnInv
  <2>3. CASE Desiste(c)
    BY <2>1, <2>3, TurnEnd DEF Desiste
  <2>4. CASE Consome(c)
    BY <2>1, <2>4, TurnTaken DEF Consome
  <2>5. CASE TerminaConsumidor(c)
    BY <2>1, <2>5, TurnEnd DEF TerminaConsumidor
  <2> QED BY <1>3, <2>2, <2>3, <2>4, <2>5 DEF consumidor
<1>4. ASSUME NEW t \in Threads, SpuriousWakeup(t) PROVE TurnInv'
  BY <1>4 DEF SpuriousWakeup, TurnInv
<1> QED BY <1>1, <1>2, <1>3, <1>4 DEF PCNext

------------------------------------------------------------------------------
(***************************************************************************)
(* The counters of ended threads.                                          *)
(***************************************************************************)
\* A thread that is still in its loop afterwards, or leaves it, is not counted.
LEMMA CountKept ==
  ASSUME CountInv, NEW t \in Threads, UNCHANGED <<numbers, flags>>,
         pc[t] = "loop", pc'[t] \in {"loop", "terminado", "abortado"},
         \A u \in Threads : u # t => pc'[u] = pc[u]
  PROVE  CountInv'
<1>1. /\ EndedAmong(Produtores)' = EndedAmong(Produtores)
      /\ EndedAmong(Consumidores)' = EndedAmong(Consumidores)
  BY KindsApart DEF EndedAmong
<1>2. \A u \in Threads : pc'[u] = "none" <=> pc[u] = "none"
  OBVIOUS
<1>3. \A u \in Threads : Created(u)' <=> Created(u)
  BY DEF Created, numbers
<1> QED BY <1>1, <1>2, <1>3 DEF CountInv, numbers, flags

\* A thread that ends is counted once.
LEMMA CountEnds ==
  ASSUME CountInv, TurnInv, NEW t \in Threads, pc[t] = "terminado", End(t, "fim"),
         UNCHANGED numbers,
         produtor_terminado' =
           (IF t \in Produtores THEN produtor_terminado + 1 ELSE produtor_terminado),
         consumidor_terminado' =
           (IF t \in Consumidores THEN consumidor_terminado + 1 ELSE consumidor_terminado)
  PROVE  CountInv'
<1>1. pc'[t] = "fim" /\ \A u \in Threads : u # t => pc'[u] = pc[u]
  BY DEF TurnInv, End
<1>2. \A u \in Threads : pc'[u] = "none" <=> pc[u] = "none"
  BY <1>1
<1>3. \A u \in Threads : Created(u)' <=> Created(u)
  BY DEF Created, numbers
<1>4. IsFiniteSet(EndedAmong(Produtores)) /\ IsFiniteSet(EndedAmong(Consumidores))
  BY LimitMeansAllEnded
<1>5. produtor_terminado' = Cardinality(EndedAmong(Produtores)')
  <2>1. CASE t \in Produtores
    <3>1. /\ EndedAmong(Produtores)' = EndedAmong(Produtores) \cup {t}
          /\ t \notin EndedAmong(Produtores)
      BY <1>1, <2>1, KindsApart DEF EndedAmong
    <3> QED BY <1>4, <2>1, <3>1, FS_AddElement DEF CountInv
  <2>2. CASE t \notin Produtores
    <3>1. EndedAmong(Produtores)' = EndedAmong(Produtores)
      BY <1>1, <2>2, KindsApart DEF EndedAmong
    <3> QED BY <2>2, <3>1 DEF CountInv
  <2> QED BY <2>1, <2>2
<1>6. consumidor_terminado' = Cardinality(EndedAmong(Consumidores)')
  <2>1. CASE t \in Consumidores
    <3>1. /\ EndedAmong(Consumidores)' = EndedAmong(Consumidores) \cup {t}
          /\ t \notin EndedAmong(Consumidores)
      BY <1>1, <2>1, KindsApart DEF EndedAmong
    <3> QED BY <1>4, <2>1, <3>1, FS_AddElement DEF CountInv
  <2>2. CASE t \notin Consumidores
    <3>1. EndedAmong(Consumidores)' = EndedAmong(Consumidores)
      BY <1>1, <2>2, KindsApart DEF EndedAmong
    <3> QED BY <2>2, <3>1 DEF CountInv
  <2> QED BY <2>1, <2>2
<1> QED BY <1>2, <1>3, <1>5, <1>6 DEF CountInv, numbers

LEMMA CountStill ==
  ASSUME CountInv, UNCHANGED <<numbers, flags, pc>>
  PROVE  CountInv'
<1>1. /\ EndedAmong(Produtores)' = EndedAmong(Produtores)
      /\ EndedAmong(Consumidores)' = EndedAmong(Consumidores)
  BY DEF EndedAmong
<1>2. \A u \in Threads : Created(u)' <=> Created(u)
  BY DEF Created, numbers
<1> QED BY <1>1, <1>2 DEF CountInv, numbers, flags

LEMMA CountStep ==
  ASSUME CountInv, TurnInv, [PCNext]_vars
  PROVE  CountInv'
<1>1. CASE UNCHANGED vars
  BY <1>1, CountStill DEF vars
<1>2. ASSUME NEW p \in Produtores, produtor(p) PROVE CountInv'
  <2>1. p \in Threads /\ p \notin Consumidores
    BY KindsApart
  <2>2. CASE Aborta(p)
    <3>1. pc[p] = "loop" /\ pc'[p] = "abortado" /\ \A u \in Threads : u # p => pc'[u] = pc[u]
      BY <2>1, <2>2, RunsInLoop DEF Aborta, End, TurnInv
    <3> QED BY <2>1, <2>2, <3>1, CountKept DEF Aborta
  <2>3. CASE EsperaVaga(p)
    BY <2>3, CountStill DEF EsperaVaga
  <2>4. CASE Produz(p)
    <3>1. /\ pc[p] = "loop" /\ pc'[p] \in {"loop", "terminado"}
          /\ \A u \in Threads : u # p => pc'[u] = pc[u]
      BY <2>1, <2>4, RunsInLoop, TurnTaken DEF Produz
    <3> QED BY <2>1, <2>4, <3>1, CountKept DEF Produz
  <2>5. CASE TerminaProdutor(p)
    BY <2>1, <2>5, CountEnds DEF TerminaProdutor
  <2> QED BY <1>2, <2>2, <2>3, <2>4, <2>5 DEF produtor
<1>3. ASSUME NEW c \in Consumidores, consumidor(c) PROVE CountInv'
  <2>1. c \in Threads /\ c \notin Produtores
    BY KindsApart
  <2>2. CASE EsperaItem(c)
    BY <2>2, CountStill DEF EsperaItem
  <2>3. CASE Desiste(c)
    <3>1. pc[c] = "loop" /\ pc'[c] = "terminado" /\ \A u \in Threads : u # c => pc'[u] = pc[u]
      BY <2>1, <2>3, RunsInLoop DEF Desiste, End, TurnInv
    <3> QED BY <2>1, <2>3, <3>1, CountKept DEF Desiste
  <2>4. CASE Consome(c)
    <3>1. /\ pc[c] = "loop" /\ pc'[c] \in {"loop", "terminado"}
          /\ \A u \in Threads : u # c => pc'[u] = pc[u]
      BY <2>1, <2>4, RunsInLoop, TurnTaken DEF Consome
    <3> QED BY <2>1, <2>4, <3>1, CountKept DEF Consome
  <2>5. CASE TerminaConsumidor(c)
    BY <2>1, <2>5, CountEnds DEF TerminaConsumidor
  <2> QED BY <1>3, <2>2, <2>3, <2>4, <2>5 DEF consumidor
<1>4. ASSUME NEW t \in Threads, SpuriousWakeup(t) PROVE CountInv'
  BY <1>4, CountStill DEF SpuriousWakeup
<1> QED BY <1>1, <1>2, <1>3, <1>4 DEF PCNext

------------------------------------------------------------------------------
(***************************************************************************)
(* Nobody gives up too early.                                              *)
(***************************************************************************)
\* Everyone who could take has ended, and with the queue full nobody gave up.
LEMMA WorkAborta ==
  ASSUME RingInv, TurnInv, CountInv, WorkInv, NEW p \in Produtores, Aborta(p)
  PROVE  WorkInv'
<1>1. /\ p \in Threads /\ pc' = [pc EXCEPT ![p] = "abortado"]
      /\ UNCHANGED <<numbers, ring, flags, i>>
      /\ NobodyToTake /\ qtd_na_fila = MAXFILA
  BY KindsApart DEF Aborta, End, Full
<1>2. \A u \in Threads : u # p => pc'[u] = pc[u]
  BY <1>1 DEF TurnInv
<1>3. \A c \in Consumidores : c \in Threads /\ c # p /\ pc'[c] = pc[c]
  BY <1>2, KindsApart
<1>4. qtd_na_fila # 0
  BY <1>1
<1>5. \A c \in Consumidores : pc[c] = "none" \/ i[c] = MAXNUM
  <2> SUFFICES ASSUME NEW c \in Consumidores, pc[c] # "none" PROVE i[c] = MAXNUM
    OBVIOUS
  <2>1. pc[c] = "fim"
    BY <1>1, LimitMeansAllEnded
  <2>2. ~(i[c] < MAXNUM)
    BY <1>4, <2>1 DEF WorkInv
  <2>3. i[c] \in 0..MAXNUM
    BY <1>3 DEF TurnInv
  <2> QED BY <2>2, <2>3
<1> QED BY <1>1, <1>3, <1>5 DEF WorkInv, NothingToCome, numbers, ring, flags

LEMMA WorkProduz ==
  ASSUME TurnInv, CountInv, WorkInv, NEW p \in Produtores, Produz(p)
  PROVE  WorkInv'
<1>1. p \in Threads /\ Runs(p) /\ NextTurn(p)
      /\ (produzidos' = produzidos \/ (p \in Produtores /\ produzidos' = produzidos \cup {<<p, i[p]>>}))
  BY KindsApart DEF Produz
<1>2. /\ pc[p] = "loop" /\ pc'[p] \in {"loop", "terminado"}
      /\ \A u \in Threads : u # p => i'[u] = i[u] /\ pc'[u] = pc[u]
  BY <1>1, RunsInLoop, TurnTaken
<1>3. ~NothingToCome
  BY <1>2, LimitMeansAllEnded
<1>4. \A c \in Consumidores : i'[c] = i[c] /\ pc'[c] = pc[c]
  BY <1>2, KindsApart
<1>5. \A q \in Produtores : pc'[q] = "abortado" => pc[q] = "abortado"
  BY <1>2, KindsApart
<1> QED BY <1>3, <1>4, <1>5 DEF WorkInv

LEMMA WorkConsome ==
  ASSUME RingInv, TurnInv, WorkInv, NEW c \in Consumidores, Consome(c)
  PROVE  WorkInv'
<1>1. c \in Threads /\ Runs(c) /\ NextTurn(c) /\ produzidos' = produzidos /\ qtd_na_fila # 0
  BY KindsApart DEF Consome
<1>2. /\ pc[c] = "loop" /\ i[c] \in 0..(MAXNUM - 1)
      /\ (pc'[c] = "loop" \/ (pc'[c] = "terminado" /\ i'[c] = MAXNUM))
      /\ \A u \in Threads : u # c => i'[u] = i[u] /\ pc'[u] = pc[u]
  BY <1>1, RunsInLoop, TurnTaken
<1>3. i[c] # MAXNUM
  BY <1>2
<1>4. \A q \in Produtores : pc'[q] # "abortado"
  <2>1. \A q \in Produtores : pc'[q] = pc[q]
    BY <1>2, KindsApart
  <2> QED BY <1>2, <1>3, <2>1 DEF WorkInv
<1>5. ASSUME NEW d \in Consumidores, pc'[d] \in {"terminado", "fim"}
      PROVE  ~(i'[d] < MAXNUM)
  <2>1. CASE d = c
    <3>1. i'[d] = MAXNUM
      BY <1>2, <1>5, <2>1
    <3> QED BY <3>1
  <2>2. CASE d # c
    BY <1>1, <1>2, <1>5, <2>2, KindsApart DEF WorkInv
  <2> QED BY <2>1, <2>2
<1> QED BY <1>4, <1>5 DEF WorkInv

\* The other steps of a consumer.
LEMMA WorkDesiste ==
  ASSUME TurnInv, WorkInv, NEW c \in Consumidores, Desiste(c) \/ TerminaConsumidor(c)
  PROVE  WorkInv'
<1>1. /\ c \in Threads /\ UNCHANGED <<numbers, ring, produtor_terminado, i>>
      /\ \/ Runs(c) /\ End(c, "terminado") /\ NothingToCome /\ qtd_na_fila = 0
         \/ pc[c] = "terminado" /\ End(c, "fim")
  BY KindsApart DEF Desiste, TerminaConsumidor, flags
<1>2. \A u \in Threads : u # c => pc'[u] = pc[u]
  BY <1>1 DEF TurnInv, End
<1>3. /\ pc[c] \in {"loop", "terminado"} /\ pc'[c] \in {"terminado", "fim"}
      /\ pc[c] = "terminado" \/ (NothingToCome /\ qtd_na_fila = 0)
  BY <1>1 DEF TurnInv, End, Runs
<1>4. \A q \in Produtores : pc'[q] = pc[q]
  BY <1>2, KindsApart
<1>5. /\ i' = i /\ qtd_na_fila' = qtd_na_fila
      /\ NothingToCome' <=> NothingToCome
  BY <1>1 DEF NothingToCome, numbers, ring
<1>6. ASSUME NEW d \in Consumidores, pc'[d] \in {"terminado", "fim"}, i'[d] < MAXNUM
      PROVE  NothingToCome' /\ qtd_na_fila' = 0
  <2>1. CASE d = c
    BY <1>3, <1>5, <1>6, <2>1 DEF WorkInv
  <2>2. CASE d # c
    BY <1>2, <1>5, <1>6, <2>2, KindsApart DEF WorkInv
  <2> QED BY <2>1, <2>2
<1>7. ASSUME NEW q \in Produtores, pc'[q] = "abortado", NEW d \in Consumidores
      PROVE  pc'[d] = "none" \/ i'[d] = MAXNUM
  <2>1. pc[d] = "none" \/ i[d] = MAXNUM
    BY <1>4, <1>7 DEF WorkInv
  <2>2. CASE d = c
    BY <1>3, <1>5, <2>1, <2>2
  <2>3. CASE d # c
    BY <1>2, <1>5, <2>1, <2>3, KindsApart
  <2> QED BY <2>2, <2>3
<1> QED BY <1>6, <1>7 DEF WorkInv

LEMMA WorkTerminaProdutor ==
  ASSUME TurnInv, CountInv, WorkInv, NEW p \in Produtores, TerminaProdutor(p)
  PROVE  WorkInv'
<1>1. /\ p \in Threads /\ pc[p] = "terminado" /\ pc' = [pc EXCEPT ![p] = "fim"] /\ i' = i
  BY KindsApart DEF TerminaProdutor, End
<1>2. pc'[p] = "fim" /\ \A u \in Threads : u # p => pc'[u] = pc[u]
  BY <1>1 DEF TurnInv
<1>3. ~NothingToCome
  BY <1>1, LimitMeansAllEnded
<1>4. \A c \in Consumidores : i'[c] = i[c] /\ pc'[c] = pc[c]
  BY <1>1, <1>2, KindsApart
<1>5. \A q \in Produtores : pc'[q] = "abortado" => pc[q] = "abortado"
  BY <1>2, KindsApart
<1> QED BY <1>3, <1>4, <1>5 DEF WorkInv

LEMMA WorkStill ==
  ASSUME WorkInv, UNCHANGED <<numbers, ring, flags, pc, i>>
  PROVE  WorkInv'
BY DEF WorkInv, NothingToCome, numbers, ring, flags

LEMMA WorkStep ==
  ASSUME RingInv, TurnInv, CountInv, WorkInv, [PCNext]_vars
  PROVE  WorkInv'
<1>1. CASE UNCHANGED vars
  BY <1>1, WorkStill DEF vars
<1>2. ASSUME NEW p \in Produtores, produtor(p) PROVE WorkInv'
  <2>1. CASE EsperaVaga(p)
    BY <2>1, WorkStill DEF EsperaVaga
  <2> QED BY <1>2, <2>1, WorkAborta, WorkProduz, WorkTerminaProdutor DEF produtor
<1>3. ASSUME NEW c \in Consumidores, consumidor(c) PROVE WorkInv'
  <2>1. CASE EsperaItem(c)
    BY <2>1, WorkStill DEF EsperaItem
  <2> QED BY <1>3, <2>1, WorkConsome, WorkDesiste DEF consumidor
<1>4. ASSUME NEW t \in Threads, SpuriousWakeup(t) PROVE WorkInv'
  BY <1>4, WorkStill DEF SpuriousWakeup
<1> QED BY <1>1, <1>2, <1>3, <1>4 DEF PCNext

------------------------------------------------------------------------------
(***************************************************************************)
(* Who waits, and what was taken.                                          *)
(***************************************************************************)
\* A signal wakes only threads that wait.
LEMMA SignalWakes ==
  ASSUME NEW S, NEW w \in SUBSET S, NEW x \in AfterSignal(w)
  PROVE  x \subseteq S
BY DEF AfterSignal

LEMMA RestStep ==
  ASSUME RingInv, RestInv, [PCNext]_vars
  PROVE  RestInv'
<1>1. CASE UNCHANGED vars
  BY <1>1 DEF vars, waits, RestInv
<1>2. ASSUME NEW p \in Produtores, produtor(p) PROVE RestInv'
  <2>1. CASE Aborta(p)
    BY <2>1 DEF Aborta, waits, RestInv
  <2>2. CASE EsperaVaga(p)
    BY <2>2 DEF EsperaVaga, RestInv
  <2>3. CASE Produz(p)
    <3>1. fila_nao_vazia' \subseteq Consumidores
      BY <2>3, SignalWakes DEF Produz, RestInv
    <3> QED BY <2>3, <3>1 DEF Produz, RestInv
  <2>4. CASE TerminaProdutor(p)
    BY <2>4 DEF TerminaProdutor, AfterBroadcast, RestInv
  <2> QED BY <1>2, <2>1, <2>2, <2>3, <2>4 DEF produtor
<1>3. ASSUME NEW c \in Consumidores, consumidor(c) PROVE RestInv'
  <2>1. CASE EsperaItem(c)
    BY <2>1 DEF EsperaItem, RestInv
  <2>2. CASE Desiste(c)
    BY <2>2 DEF Desiste, waits, RestInv
  <2>3. CASE Consome(c)
    <3>1. fila_nao_cheia' \subseteq Produtores
      BY <2>3, SignalWakes DEF Consome, RestInv
    <3>2. fila[inicio_da_fila] \in Items
      <4>1. Contents \in Seq(Items) /\ Contents # <<>> /\ fila[inicio_da_fila] = Head(Contents)
        BY <2>3, ContentsType, RingConsome DEF ContentsFacts
      <4> QED BY <4>1, HeadTailProperties
    <3>3. consumidos' \in Seq(Items)
      BY <2>3, <3>2, AppendProperties DEF Consome, RestInv
    <3> QED BY <2>3, <3>1, <3>3 DEF Consome, RestInv
  <2>4. CASE TerminaConsumidor(c)
    BY <2>4 DEF TerminaConsumidor, AfterBroadcast, RestInv
  <2> QED BY <1>3, <2>1, <2>2, <2>3, <2>4 DEF consumidor
<1>4. ASSUME NEW t \in Threads, SpuriousWakeup(t) PROVE RestInv'
  BY <1>4 DEF SpuriousWakeup, RestInv
<1> QED BY <1>1, <1>2, <1>3, <1>4 DEF PCNext

LEMMA PCInvStep == PCInv /\ [PCNext]_vars => PCInv'
BY RingStep, TurnStep, CountStep, RestStep, WorkStep DEF PCInv

LEMMA PCInvariant == PCSpec => []PCInv
<1> QED BY PCInvInit, PCInvStep, PTL DEF PCSpec

------------------------------------------------------------------------------
(***************************************************************************)
(* The theorems.                                                           *)
(***************************************************************************)
\* The counters and indices of the ring, the counts of ended threads and the
\* sets of waiting ones keep their types, for any number of threads.
THEOREM PCTypeCorrect == PCSpec => []PCTypeOK
<1>1. PCInv => PCTypeOK
  <2> SUFFICES ASSUME PCInv PROVE PCTypeOK
    OBVIOUS
  <2>1. produtor_terminado \in 0..NUM_PROD /\ consumidor_terminado \in 0..NUM_CONS
    BY LimitMeansAllEnded DEF PCInv
  <2> QED BY <2>1 DEF PCInv, PCTypeOK, RingInv, TurnInv, CountInv, RestInv
<1> QED BY <1>1, PCInvariant, PTL

\* No thread gives up on work another would still do, in whichever order the
\* threads of either kind end.
THEOREM GiveUpOnlyWhenDone == PCSpec => []NothingLeftBehind
<1>1. PCInv => NothingLeftBehind
  <2> SUFFICES ASSUME PCInv PROVE NothingLeftBehind
    OBVIOUS
  <2>1. ASSUME Ended, qtd_na_fila # 0, NEW c \in Consumidores, pc[c] # "none"
        PROVE  i[c] = MAXNUM
    <3>1. c \in Threads /\ i[c] \in 0..MAXNUM
      BY KindsApart DEF PCInv, TurnInv
    <3>2. pc[c] = "fim"
      BY <2>1, <3>1 DEF Ended, PCInv, TurnInv
    <3>3. ~(i[c] < MAXNUM)
      BY <2>1, <3>2 DEF PCInv, WorkInv
    <3> QED BY <3>1, <3>3
  <2>2. \A p \in Produtores : pc[p] = "abortado" =>
          \A c \in Consumidores : pc[c] = "none" \/ i[c] = MAXNUM
    BY DEF PCInv, WorkInv
  <2> QED BY <2>1, <2>2 DEF NothingLeftBehind
<1> QED BY <1>1, PCInvariant, PTL

\* The ring is a bounded FIFO: a step that produces puts a new item at its end,
\* one that consumes takes its oldest, and no other step touches it.
THEOREM RingIsAFifo == PCSpec => ImplementsFifo
<1>1. PCInit => Fifo!FifoInit
  <2> SUFFICES ASSUME PCInit PROVE Fifo!FifoInit
    OBVIOUS
  <2>1. ContentsFacts /\ qtd_na_fila = 0
    BY PCInvInit, ContentsType DEF PCInv, PCInit
  <2>2. Contents = <<>>
    BY <2>1, EmptySeq DEF ContentsFacts
  <2> QED BY <2>2 DEF Fifo!FifoInit, PCInit
<1>2. PCInv /\ [PCNext]_vars => [Fifo!FifoNext]_(Fifo!fifoVars)
  <2> SUFFICES ASSUME PCInv, [PCNext]_vars PROVE [Fifo!FifoNext]_(Fifo!fifoVars)
    OBVIOUS
  <2>1. ASSUME NEW p \in Produtores, Produz(p) PROVE Fifo!FifoNext
    <3> DEFINE item == <<p, i[p]>>
    <3>1. p \in Threads /\ i[p] \in 0..(MAXNUM - 1)
      BY <2>1, KindsApart, RunsInLoop DEF PCInv, Produz
    <3>2. item \in Items /\ item \notin produzidos
      BY <3>1 DEF Items, PCInv, TurnInv
    <3>3. Contents' = Append(Contents, item)
      BY <2>1, RingProduz DEF PCInv
    <3>4. Len(Contents) < MAXFILA
      BY <2>1, ContentsType DEF PCInv, ContentsFacts, RingInv, Produz, Full
    <3>5. produzidos' = produzidos \cup {item} /\ consumidos' = consumidos
      BY <2>1 DEF Produz
    <3> HIDE DEF item
    <3>6. Fifo!Put(item)
      BY <3>2, <3>3, <3>4, <3>5 DEF Fifo!Put
    <3> QED BY <3>2, <3>6 DEF Fifo!FifoNext
  <2>2. ASSUME NEW c \in Consumidores, Consome(c) PROVE Fifo!FifoNext
    <3>1. /\ Contents # <<>> /\ Contents' = Tail(Contents)
          /\ fila[inicio_da_fila] = Head(Contents)
      BY <2>2, RingConsome DEF PCInv
    <3>2. consumidos' = Append(consumidos, Head(Contents)) /\ produzidos' = produzidos
      BY <2>2, <3>1 DEF Consome
    <3>3. Fifo!Take
      BY <3>1, <3>2 DEF Fifo!Take
    <3> QED BY <3>3 DEF Fifo!FifoNext
  <2>3. CASE UNCHANGED <<numbers, ring, i, produzidos, consumidos>>
    <3>1. Contents' = Contents
      BY <2>3 DEF Contents, ring
    <3> QED BY <2>3, <3>1 DEF Fifo!fifoVars
  <2> QED BY <2>1, <2>2, <2>3, StepKinds
<1> QED BY <1>1, <1>2, PCInvariant, PTL DEF PCSpec, ImplementsFifo, Fifo!FifoSpec

=============================================================================
