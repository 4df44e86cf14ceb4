-------------------------------- MODULE Queues --------------------------------
(***************************************************************************)
(* The queues of both simulators (state.c) as sets of processes: what      *)
(* insert_end and pop_start do to the processes a queue holds, and to its  *)
(* being free of repetitions.                                              *)
(***************************************************************************)
EXTENDS Integers, Sequences, FiniteSets, Functions, SequenceTheorems, FiniteSetTheorems, TLAPS

\* insert_end puts one more process in a queue, and keeps it free of repetitions
\* if the process was not there.
LEMMA AppendRange ==
  ASSUME NEW S, NEW q \in Seq(S), NEW x \in S
  PROVE  /\ Append(q, x) \in Seq(S)
         /\ Range(Append(q, x)) = Range(q) \cup {x}
         /\ IsInjective(q) /\ x \notin Range(q) => IsInjective(Append(q, x))
<1> DEFINE a == Append(q, x)
<1>1. /\ a \in Seq(S) /\ Len(a) = Len(q) + 1 /\ Len(q) \in Nat
      /\ \A i \in 1..Len(q) : a[i] = q[i]
      /\ a[Len(q) + 1] = x
  BY AppendProperties, LenProperties
<1>2. DOMAIN a = 1..(Len(q) + 1) /\ DOMAIN q = 1..Len(q)
  BY <1>1, LenProperties
<1> HIDE DEF a
<1>3. Range(a) = Range(q) \cup {x}
  BY <1>1, <1>2 DEF Range
<1>4. ASSUME IsInjective(q), x \notin Range(q) PROVE IsInjective(a)
  <2> SUFFICES ASSUME NEW i \in DOMAIN a, NEW j \in DOMAIN a, a[i] = a[j] PROVE i = j
    BY DEF IsInjective
  <2>1. \A k \in 1..Len(q) : a[k] # x
    BY <1>1, <1>2, <1>4 DEF Range
  <2>2. CASE i \in 1..Len(q) /\ j \in 1..Len(q)
    BY <1>1, <1>2, <1>4, <2>2 DEF IsInjective
  <2>3. CASE ~(i \in 1..Len(q) /\ j \in 1..Len(q))
    BY <1>1, <1>2, <2>1, <2>3
  <2> QED BY <2>2, <2>3
<1> QED BY <1>1, <1>3, <1>4 DEF a

\* pop_start takes the first process out of a queue without repetitions.
LEMMA TailRange ==
  ASSUME NEW S, NEW q \in Seq(S), IsInjective(q), q # <<>>
  PROVE  /\ Tail(q) \in Seq(S) /\ Head(q) \in S
         /\ IsInjective(Tail(q))
         /\ Range(Tail(q)) = Range(q) \ {Head(q)}
         /\ Head(q) \in Range(q)
<1> DEFINE t == Tail(q)
<1>1. /\ t \in Seq(S) /\ Len(t) = Len(q) - 1 /\ Len(q) \in Nat \ {0}
      /\ \A i \in 1..Len(t) : t[i] = q[i + 1]
      /\ Head(q) = q[1] /\ Head(q) \in S
  BY HeadTailProperties, EmptySeq, LenProperties
<1>2. DOMAIN t = 1..(Len(q) - 1) /\ DOMAIN q = 1..Len(q)
  BY <1>1, LenProperties
<1> HIDE DEF t
<1>3. IsInjective(t)
  <2> SUFFICES ASSUME NEW i \in DOMAIN t, NEW j \in DOMAIN t, t[i] = t[j] PROVE i = j
    BY DEF IsInjective
  <2>1. q[i + 1] = q[j + 1] /\ i + 1 \in DOMAIN q /\ j + 1 \in DOMAIN q
    BY <1>1, <1>2
  <2> QED BY <1>2, <2>1 DEF IsInjective
<1>4. \A i \in DOMAIN t : t[i] = q[i + 1] /\ i + 1 \in DOMAIN q /\ q[i + 1] # q[1]
  BY <1>1, <1>2 DEF IsInjective
<1>5. \A i \in DOMAIN q : i # 1 => i - 1 \in DOMAIN t /\ t[i - 1] = q[i]
  BY <1>1, <1>2
<1>6. Range(t) = Range(q) \ {q[1]}
  <2>1. Range(t) \subseteq Range(q) \ {q[1]}
    BY <1>4 DEF Range
  <2>2. Range(q) \ {q[1]} \subseteq Range(t)
    BY <1>5 DEF Range
  <2> QED BY <2>1, <2>2
<1>7. q[1] \in Range(q)
  BY <1>1, <1>2 DEF Range
<1> QED BY <1>1, <1>3, <1>6, <1>7 DEF t

\* The queue of the processes that are created after the first one.
LEMMA FirstOnesRange ==
  ASSUME NEW N \in Nat \ {0}
  PROVE  LET q == SubSeq([p \in 1..N |-> p], 2, N)
         IN q \in Seq(1..N) /\ IsInjective(q) /\ Range(q) = 2..N
<1> DEFINE s == [p \in 1..N |-> p]
           q == SubSeq(s, 2, N)
<1>1. \A i \in 2..N : s[i] \in 1..N /\ s[i] = i
  OBVIOUS
<1>2. /\ q \in Seq(1..N)
      /\ Len(q) = IF 2 <= N THEN N - 2 + 1 ELSE 0
      /\ \A i \in 1..(N - 2 + 1) : q[i] = s[2 + i - 1]
  BY <1>1, SubSeqProperties
<1>3. Len(q) = N - 1
  BY <1>2
<1>4. DOMAIN q = 1..(N - 1)
  BY <1>2, <1>3, LenProperties
<1>5. \A i \in 1..(N - 1) : q[i] = i + 1
  <2> HIDE DEF q, s
  <2>1. \A i \in 1..(N - 1) : q[i] = s[i + 1] /\ s[i + 1] = i + 1
    BY <1>1, <1>2
  <2> QED BY <2>1
<1> HIDE DEF q
<1>6. IsInjective(q)
  BY <1>4, <1>5 DEF IsInjective
<1>7. \A i \in 2..N : i - 1 \in DOMAIN q /\ q[i - 1] = i
  BY <1>4, <1>5
<1>8. Range(q) \subseteq 2..N
  BY <1>4, <1>5 DEF Range
<1>9. 2..N \subseteq Range(q)
  BY <1>7 DEF Range
<1> QED BY <1>2, <1>6, <1>8, <1>9 DEF q

\* A search that stops at a place of a queue, and puts what it popped before at
\* the end, takes out what was in that place and nothing else.
LEMMA RingRange ==
  ASSUME NEW S, NEW q \in Seq(S), IsInjective(q), NEW k \in 1..Len(q)
  PROVE  LET r == SubSeq(q, k + 1, Len(q)) \o SubSeq(q, 1, k - 1)
         IN IsInjective(r) /\ Range(r) = Range(q) \ {q[k]} /\ q[k] \in Range(q)
<1> DEFINE n == Len(q)
           after == SubSeq(q, k + 1, n)
           before == SubSeq(q, 1, k - 1)
           r == after \o before
           pos(i) == IF i <= n - k THEN k + i ELSE i - (n - k)
<1>1. n \in Nat /\ k \in Nat /\ 1 <= k /\ k <= n /\ DOMAIN q = 1..n
  BY LenProperties
<1>2. \A i \in 1..n : q[i] \in S
  BY ElementOfSeq
<1>3. /\ after \in Seq(S) /\ Len(after) = n - k
      /\ \A i \in 1..(n - k) : after[i] = q[k + i]
  <2>1. /\ after \in Seq(S)
        /\ Len(after) = IF k + 1 <= n THEN n - (k + 1) + 1 ELSE 0
        /\ \A i \in 1..(n - (k + 1) + 1) : after[i] = q[(k + 1) + i - 1]
    <3>1. k + 1 \in Int /\ n \in Int /\ \A i \in (k + 1)..n : q[i] \in S
      BY <1>1, <1>2
    <3> QED BY <3>1, SubSeqProperties
  <2> HIDE DEF after, n
  <2>2. Len(after) = n - k
    BY <1>1, <2>1
  <2>3. \A i \in 1..(n - k) : after[i] = q[k + i]
    <3> SUFFICES ASSUME NEW i \in 1..(n - k) PROVE after[i] = q[k + i]
      OBVIOUS
    <3>1. i \in 1..(n - (k + 1) + 1) /\ (k + 1) + i - 1 = k + i
      BY <1>1
    <3> QED BY <2>1, <3>1
  <2> QED BY <2>1, <2>2, <2>3
<1>4. /\ before \in Seq(S) /\ Len(before) = k - 1
      /\ \A i \in 1..(k - 1) : before[i] = q[i]
  <2>1. /\ before \in Seq(S)
        /\ Len(before) = IF 1 <= k - 1 THEN (k - 1) - 1 + 1 ELSE 0
        /\ \A i \in 1..((k - 1) - 1 + 1) : before[i] = q[1 + i - 1]
    <3>1. 1 \in Int /\ k - 1 \in Int /\ \A i \in 1..(k - 1) : q[i] \in S
      BY <1>1, <1>2
    <3> QED BY <3>1, SubSeqProperties
  <2> HIDE DEF before
  <2> QED BY <1>1, <2>1
<1> HIDE DEF n, after, before
<1>5. /\ r \in Seq(S) /\ Len(r) = n - 1
      /\ \A i \in 1..(n - 1) : r[i] = IF i <= n - k THEN after[i] ELSE before[i - (n - k)]
  <2>1. /\ Len(r) = Len(after) + Len(before) /\ r \in Seq(S)
        /\ \A i \in 1..(Len(after) + Len(before)) :
             r[i] = IF i <= Len(after) THEN after[i] ELSE before[i - Len(after)]
    BY <1>3, <1>4, ConcatProperties
  <2>2. Len(after) + Len(before) = n - 1
    BY <1>1, <1>3, <1>4
  <2> HIDE DEF r
  <2> QED BY <1>3, <2>1, <2>2
<1>6. DOMAIN r = 1..(n - 1)
  BY <1>5, LenProperties
<1> HIDE DEF r
<1>7. \A i \in 1..(n - 1) : pos(i) \in 1..n /\ pos(i) # k /\ r[i] = q[pos(i)]
  BY <1>1, <1>3, <1>4, <1>5
<1>8. \A i, j \in 1..(n - 1) : pos(i) = pos(j) => i = j
  BY <1>1
<1>9. \A j \in 1..n : j # k => \E i \in 1..(n - 1) : pos(i) = j
  <2> SUFFICES ASSUME NEW j \in 1..n, j # k PROVE \E i \in 1..(n - 1) : pos(i) = j
    OBVIOUS
  <2>1. CASE j > k
    <3>1. j - k \in 1..(n - 1) /\ pos(j - k) = j
      BY <1>1, <2>1
    <3> QED BY <3>1
  <2>2. CASE j < k
    <3>1. j + (n - k) \in 1..(n - 1) /\ pos(j + (n - k)) = j
      BY <1>1, <2>2
    <3> QED BY <3>1
  <2> QED BY <1>1, <2>1, <2>2
<1> HIDE DEF pos
<1>10. IsInjective(r)
  BY <1>1, <1>6, <1>7, <1>8 DEF IsInjective
<1>11. k \in 1..n /\ \A j \in 1..n : q[j] = q[k] => j = k
  BY <1>1 DEF IsInjective
<1>12. Range(r) = Range(q) \ {q[k]}
  <2>1. Range(r) \subseteq Range(q) \ {q[k]}
    BY <1>1, <1>6, <1>7, <1>11 DEF Range
  <2>2. ASSUME NEW x \in Range(q), x # q[k] PROVE x \in Range(r)
    <3>1. PICK j \in 1..n : q[j] = x
      BY <1>1 DEF Range
    <3>2. PICK i \in 1..(n - 1) : pos(i) = j
      BY <1>9, <2>2, <3>1
    <3> QED BY <1>6, <1>7, <3>1, <3>2 DEF Range
  <2> QED BY <2>1, <2>2
<1>13. q[k] \in Range(q)
  BY <1>1, <1>11 DEF Range
<1> QED BY <1>10, <1>12, <1>13 DEF r, after, before, n

------------------------------------------------------------------------------
(***************************************************************************)
(* How many of the elements of M a queue holds, repetitions included.      *)
(***************************************************************************)
Holding(q, M) == {i \in DOMAIN q : q[i] \in M}
CountIn(q, M) == Cardinality(Holding(q, M))

\* An empty queue holds none; any other, a number of them.
LEMMA CountType ==
  ASSUME NEW S, NEW q \in Seq(S), NEW M
  PROVE  /\ IsFiniteSet(Holding(q, M)) /\ CountIn(q, M) \in Nat
         /\ q = <<>> => CountIn(q, M) = 0
<1>1. DOMAIN q = 1..Len(q) /\ Len(q) \in Nat
  BY LenProperties
<1>2. IsFiniteSet(1..Len(q))
  BY <1>1, FS_Interval
<1>3. Holding(q, M) \in SUBSET (1..Len(q))
  BY <1>1 DEF Holding
<1>4. IsFiniteSet(Holding(q, M))
  BY <1>2, <1>3, FS_Subset
<1>5. q = <<>> => Holding(q, M) = {}
  BY DEF Holding
<1> QED BY <1>4, <1>5, FS_CardinalityType, FS_EmptySet DEF CountIn

\* A writer adds its message to the count.
LEMMA CountAppended ==
  ASSUME NEW S, NEW q \in Seq(S), NEW x \in S, NEW M
  PROVE  CountIn(Append(q, x), M) = IF x \in M THEN CountIn(q, M) + 1 ELSE CountIn(q, M)
<1> DEFINE a == Append(q, x)
           n == Len(q)
<1>1. /\ Len(a) = n + 1 /\ n \in Nat /\ a \in Seq(S)
      /\ \A i \in 1..n : a[i] = q[i]
      /\ a[n + 1] = x
  BY AppendProperties, LenProperties
<1>2. DOMAIN a = 1..(n + 1) /\ DOMAIN q = 1..n
  BY <1>1, LenProperties
<1>3. IsFiniteSet(Holding(q, M)) /\ CountIn(q, M) \in Nat
  BY CountType
<1> HIDE DEF a, n
<1>4. Holding(a, M) = IF x \in M THEN Holding(q, M) \cup {n + 1} ELSE Holding(q, M)
  BY <1>1, <1>2 DEF Holding
<1>5. n + 1 \notin Holding(q, M)
  BY <1>1, <1>2 DEF Holding
<1>6. Cardinality(Holding(q, M) \cup {n + 1}) = Cardinality(Holding(q, M)) + 1
  BY <1>3, <1>5, FS_AddElement
<1> QED BY <1>4, <1>6 DEF CountIn, a

\* The reader takes the first message off it.
LEMMA CountRemoved ==
  ASSUME NEW S, NEW q \in Seq(S), q # <<>>, NEW M
  PROVE  CountIn(q, M) = IF Head(q) \in M THEN CountIn(Tail(q), M) + 1 ELSE CountIn(Tail(q), M)
<1> DEFINE t == Tail(q)
           n == Len(q)
           later == Holding(q, M) \ {1}
           f == [i \in later |-> i - 1]
<1>1. /\ t \in Seq(S) /\ Len(t) = n - 1 /\ n \in Nat \ {0}
      /\ \A i \in 1..Len(t) : t[i] = q[i + 1]
      /\ Head(q) = q[1]
  BY HeadTailProperties, EmptySeq, LenProperties
<1>2. DOMAIN t = 1..(n - 1) /\ DOMAIN q = 1..n
  BY <1>1, LenProperties
<1>3. /\ IsFiniteSet(Holding(q, M)) /\ CountIn(q, M) \in Nat
      /\ IsFiniteSet(Holding(t, M)) /\ CountIn(t, M) \in Nat
  BY <1>1, CountType
<1> HIDE DEF t, n
<1>4. \A i \in later : i - 1 \in Holding(t, M) /\ i \in 2..n
  BY <1>1, <1>2 DEF Holding
<1>5. \A j \in Holding(t, M) : j + 1 \in later /\ j \in 1..(n - 1)
  BY <1>1, <1>2 DEF Holding
<1>6. f \in Bijection(later, Holding(t, M))
  <2>1. f \in [later -> Holding(t, M)] /\ \A i \in later : f[i] = i - 1
    BY <1>4
  <2> HIDE DEF f, later
  <2>2. \A i, j \in later : f[i] = f[j] => i = j
    BY <1>4, <2>1
  <2>3. \A j \in Holding(t, M) : \E i \in later : f[i] = j
    <3> SUFFICES ASSUME NEW j \in Holding(t, M) PROVE \E i \in later : f[i] = j
      OBVIOUS
    <3>1. j + 1 \in later /\ f[j + 1] = j
      BY <1>5, <2>1
    <3> QED BY <3>1
  <2> QED BY <2>1, <2>2, <2>3 DEF Bijection, Injection, Surjection, IsInjective
<1>7. IsFiniteSet(later) /\ Cardinality(later) = Cardinality(Holding(t, M))
  <2>1. IsFiniteSet(later)
    BY <1>3, FS_RemoveElement
  <2>2. ExistsBijection(later, Holding(t, M))
    BY <1>6 DEF ExistsBijection
  <2> HIDE DEF later
  <2> QED BY <2>1, <2>2, FS_Bijection
<1>8. 1 \in Holding(q, M) <=> Head(q) \in M
  BY <1>1, <1>2 DEF Holding
<1>9. Cardinality(later) = IF 1 \in Holding(q, M) THEN CountIn(q, M) - 1 ELSE CountIn(q, M)
  BY <1>3, FS_RemoveElement DEF CountIn
<1> HIDE DEF later
<1> QED BY <1>3, <1>7, <1>8, <1>9 DEF CountIn, t
=============================================================================
