----------------------------- MODULE Sfss_proofs -----------------------------
(***************************************************************************)
(* Theorems of Sfss, for every number of processes, set of names, size of  *)
(* file and of listing, and any number of syscalls and new starts:         *)
(* SfssTypeOK, AnswerStillHolds, AcknowledgedBlocksSurvive, ListingFits    *)
(* and PrivateIsolation.                                                   *)
(*                                                                         *)
(* Every handler replaces one tree by a tree (IsTree) that keeps the       *)
(* files it was not asked to delete (Keeps) and of which the answer is     *)
(* true (TrueOf): Effect says so of all five at once, and what follows     *)
(* does not look at the handlers any more.                                 *)
(***************************************************************************)
EXTENDS Sfss, SequenceTheorems, FiniteSetTheorems, TLAPS

USE SfssNAssumption, NamesAssumption, SfssBoundsAssumption

------------------------------------------------------------------------------
(***************************************************************************)
(* Paths.                                                                  *)
(***************************************************************************)
\* What Parent, Append and Len say of a path of one or two names.
LEMMA PathFacts ==
  ASSUME NEW d, NEW n
  PROVE  /\ Parent(<<n>>) = <<>> /\ Parent(<<d, n>>) = <<d>>
         /\ Append(<<>>, n) = <<n>> /\ Append(<<d>>, n) = <<d, n>>
         /\ <<n>>[Len(<<n>>)] = n /\ <<d, n>>[Len(<<d, n>>)] = n
         /\ <<n>> # <<>> /\ <<d, n>> # <<>> /\ <<d>> # <<d, n>>
<1> DEFINE S == {d, n}
<1>1. <<>> \in Seq(S) /\ <<n>> \in Seq(S) /\ <<d>> \in Seq(S) /\ <<d, n>> \in Seq(S)
  OBVIOUS
<1>2. Len(<<n>>) = 1 /\ Len(<<d>>) = 1 /\ Len(<<d, n>>) = 2
  OBVIOUS
<1>3. <<n>>[1] = n /\ <<d>>[1] = d /\ <<d, n>>[1] = d /\ <<d, n>>[2] = n
  OBVIOUS
<1> HIDE DEF S
<1>4. Parent(<<n>>) = <<>>
  BY <1>2, SubSeqEmpty DEF Parent
<1>5. Parent(<<d, n>>) = <<d>>
  <2> DEFINE s == SubSeq(<<d, n>>, 1, 1)
  <2>1. s \in Seq(S) /\ Len(s) = 1 /\ s[1] = d
    <3>1. \A i \in 1..1 : <<d, n>>[i] \in S
      BY <1>3 DEF S
    <3>2. s \in Seq(S) /\ Len(s) = 1 /\ s[1] = <<d, n>>[1]
      BY <3>1, SubSeqProperties
    <3> QED BY <3>2, <1>3
  <2> HIDE DEF s
  <2>2. s = <<d>>
    BY <2>1, <1>1, <1>2, <1>3, SeqEqual
  <2> QED BY <2>2, <1>2 DEF Parent, s
<1>6. Append(<<>>, n) = <<n>>
  OBVIOUS
<1>7. Append(<<d>>, n) = <<d, n>>
  <2> DEFINE s == Append(<<d>>, n)
  <2>1. s \in Seq(S) /\ Len(s) = 2 /\ s[1] = d /\ s[2] = n
    BY <1>1, <1>2, <1>3, AppendProperties DEF S
  <2> HIDE DEF s
  <2>2. \A i \in 1..2 : s[i] = <<d, n>>[i]
    BY <2>1, <1>3
  <2>3. s = <<d, n>>
    BY <2>1, <2>2, <1>1, <1>2, SeqEqual
  <2> QED BY <2>3 DEF s
<1>8. <<n>> # <<>> /\ <<d, n>> # <<>> /\ <<d>> # <<d, n>>
  BY <1>2, EmptySeq
<1> QED BY <1>2, <1>3, <1>4, <1>5, <1>6, <1>7, <1>8

\* Paths are equal when their names are.
LEMMA PathsApart ==
  ASSUME NEW d, NEW n, NEW m
  PROVE  /\ <<n>> = <<m>> => n = m
         /\ <<d, n>> # <<m>>
OBVIOUS

------------------------------------------------------------------------------
(***************************************************************************)
(* Files.                                                                  *)
(***************************************************************************)
\* A function on 1..k is a sequence of k elements.
LEMMA LenOf ==
  ASSUME NEW k \in Nat, NEW S, NEW s \in [1..k -> S]
  PROVE  s \in Seq(S) /\ Len(s) = k
<1>1. s \in Seq(S)
  OBVIOUS
<1>2. DOMAIN s = 1..k /\ DOMAIN s = 1..Len(s) /\ Len(s) \in Nat
  BY <1>1, LenProperties
<1> QED BY <1>1, <1>2

\* The blocks of a file, k of them.
IsContents(b, k) == k \in 0..MaxOffset + 1 /\ b \in [1..k -> Blocks] /\ Len(b) = k

\* Padding a file changes none of its blocks and reaches the offset.
LEMMA PaddedBlocks ==
  ASSUME NEW k, NEW b, IsContents(b, k), NEW offset \in 0..MaxOffset
  PROVE  \E j : /\ IsContents(Padded(b, offset), j) /\ offset <= j /\ k <= j
                /\ \A i \in 1..k : Padded(b, offset)[i] = b[i]
<1> DEFINE j == IF k < offset THEN offset ELSE k
           c == Padded(b, offset)
<1>1. Len(b) = k /\ k \in 0..MaxOffset + 1 /\ b \in [1..k -> Blocks]
  BY DEF IsContents
<1>2. j \in 0..MaxOffset + 1 /\ offset <= j /\ k <= j
  BY <1>1
<1>3. c = [i \in 1..j |-> IF i <= k THEN b[i] ELSE Space]
  BY <1>1 DEF Padded
<1>4. c \in [1..j -> Blocks]
  BY <1>1, <1>2, <1>3 DEF Blocks, Space
<1>5. \A i \in 1..k : c[i] = b[i]
  BY <1>1, <1>2, <1>3
<1> HIDE DEF j, c
<1>6. Len(c) = j
  BY <1>2, <1>4, LenOf
<1> QED BY <1>2, <1>4, <1>5, <1>6 DEF IsContents, c

\* c is b, of k blocks, with p at the offset, and j blocks long.
IsWritten(c, j, b, k, offset, p) ==
  /\ IsContents(c, j) /\ offset < j /\ k <= j
  /\ c[offset + 1] = p
  /\ \A i \in 1..k : i # offset + 1 => c[i] = b[i]

\* A write changes one block of a file, which may grow by it and the padding.
LEMMA WrittenBlocks ==
  ASSUME NEW k, NEW b, IsContents(b, k), NEW offset \in 0..MaxOffset, NEW p \in Procs
  PROVE  \E j : IsWritten(Written(b, offset, p), j, b, k, offset, p)
<1>1. PICK m : /\ IsContents(Padded(b, offset), m) /\ offset <= m /\ k <= m
               /\ \A i \in 1..k : Padded(b, offset)[i] = b[i]
  BY PaddedBlocks
<1> DEFINE a == Padded(b, offset)
           j == IF m = offset THEN offset + 1 ELSE m
           c == Written(b, offset, p)
<1> HIDE DEF a
<1>2. Len(a) = m /\ m \in 0..MaxOffset + 1 /\ a \in [1..m -> Blocks]
  BY <1>1 DEF IsContents, a
<1>3. j \in 0..MaxOffset + 1 /\ offset < j /\ m <= j /\ (j # m => j = offset + 1)
  BY <1>1, <1>2
<1>4. c = [i \in 1..j |-> IF i = offset + 1 THEN p ELSE a[i]]
  BY <1>2 DEF Written, a
<1>5. c \in [1..j -> Blocks]
  BY <1>2, <1>3, <1>4 DEF Blocks, Procs
<1>6. c[offset + 1] = p /\ \A i \in 1..m : i # offset + 1 => c[i] = a[i]
  BY <1>2, <1>3, <1>4
<1>7. k \in 0..MaxOffset + 1
  BY DEF IsContents
<1> HIDE DEF j, c
<1>8. Len(c) = j
  BY <1>3, <1>5, LenOf
<1>9. \A i \in 1..k : i # offset + 1 => c[i] = b[i]
  BY <1>1, <1>2, <1>6, <1>7 DEF a
<1>10. IsContents(c, j) /\ offset < j /\ k <= j
  BY <1>1, <1>2, <1>3, <1>5, <1>7, <1>8 DEF IsContents
<1>11. IsWritten(c, j, b, k, offset, p)
  BY <1>2, <1>3, <1>6, <1>9, <1>10 DEF IsWritten
<1> QED BY <1>11 DEF c

------------------------------------------------------------------------------
(***************************************************************************)
(* Trees.                                                                  *)
(***************************************************************************)
\* What is at a path: a directory, or a file that fits the offsets.
IsNode(x) ==
  x = Dir \/ \E k \in 0..MaxOffset + 1 : x \in [type : {"FILE"}, blocks : [1..k -> Blocks]]

\* A tree: every path is in a directory, and "mypath" never is one, since a
\* directory is created with a name of Names.  That is what keeps a path a
\* process builds under a directory it knows within two names.
IsTree(t) ==
  /\ DOMAIN t \subseteq Paths
  /\ \A q \in DOMAIN t : IsNode(t[q]) /\ (q # <<>> => IsDir(t, Parent(q)))
  /\ ~IsDir(t, <<MyPath>>)

\* A file of such contents is a node.
LEMMA ContentsNode ==
  ASSUME NEW b, NEW k, IsContents(b, k)
  PROVE  IsNode(File(b)) /\ File(b).type = "FILE" /\ File(b).blocks = b
BY DEF IsContents, IsNode, File

\* A node is a directory or a file of such contents.
LEMMA NodeContents ==
  ASSUME NEW x, IsNode(x)
  PROVE  /\ x.type = "DIR" => x = Dir
         /\ x.type # "DIR" => x.type = "FILE" /\ \E k : IsContents(x.blocks, k)
<1>1. CASE x = Dir
  BY <1>1 DEF Dir
<1>2. ASSUME NEW k \in 0..MaxOffset + 1, x \in [type : {"FILE"}, blocks : [1..k -> Blocks]]
      PROVE  x.type = "FILE" /\ IsContents(x.blocks, k)
  <2>1. x.type = "FILE" /\ x.blocks \in [1..k -> Blocks]
    BY <1>2
  <2>2. Len(x.blocks) = k
    BY <2>1, LenOf
  <2> QED BY <2>1, <2>2 DEF IsContents
<1> QED BY <1>1, <1>2 DEF IsNode

\* What fopen finds are the contents of a file, if only empty ones.
LEMMA OpenedContents ==
  ASSUME NEW t, IsTree(t), NEW p
  PROVE  \E k : IsContents(Opened(t, p), k)
<1>1. CASE IsFile(t, p)
  <2>1. p \in DOMAIN t /\ IsNode(t[p]) /\ t[p].type = "FILE"
    BY <1>1 DEF IsTree, IsFile
  <2> QED BY <2>1, <1>1, NodeContents DEF Opened
<1>2. CASE ~IsFile(t, p)
  <2>1. <<>> \in [1..0 -> Blocks] /\ Len(<<>>) = 0
    OBVIOUS
  <2>2. IsContents(<<>>, 0)
    BY <2>1 DEF IsContents
  <2> QED BY <2>2, <1>2 DEF Opened
<1> QED BY <1>1, <1>2

\* A file written where it was, or in a directory, leaves a tree.
LEMMA WithFile ==
  ASSUME NEW t, IsTree(t), NEW p \in Paths, Writable(t, p), NEW b, NEW k, IsContents(b, k)
  PROVE  IsTree(With(t, p, File(b)))
<1> DEFINE u == With(t, p, File(b))
<1>1. /\ DOMAIN u = DOMAIN t \cup {p} /\ u[p] = File(b)
      /\ \A q \in DOMAIN t : q # p => u[q] = t[q]
  BY DEF With
<1> HIDE DEF u
<1>2. IsNode(File(b)) /\ File(b).type = "FILE"
  BY ContentsNode
<1>3. ~IsDir(t, p) /\ (p # <<>> => IsDir(t, Parent(p)))
  BY DEF Writable, Creatable, IsTree, IsFile, IsDir
<1>4. \A q : IsDir(t, q) => IsDir(u, q)
  BY <1>1, <1>3 DEF IsDir
<1>5. ~IsDir(u, <<MyPath>>)
  BY <1>1, <1>2 DEF IsDir, IsTree
<1>6. ASSUME NEW q \in DOMAIN u
      PROVE  IsNode(u[q]) /\ (q # <<>> => IsDir(u, Parent(q)))
  BY <1>1, <1>2, <1>3, <1>4 DEF IsTree
<1> QED BY <1>1, <1>5, <1>6 DEF IsTree, u

\* A directory made where there was nothing leaves a tree.
LEMMA WithDir ==
  ASSUME NEW t, IsTree(t), NEW p \in Paths, p # <<MyPath>>,
         Creatable(t, p) \/ (p = <<>> /\ p \notin DOMAIN t)
  PROVE  IsTree(With(t, p, Dir))
<1> DEFINE u == With(t, p, Dir)
<1>1. /\ DOMAIN u = DOMAIN t \cup {p} /\ u[p] = Dir
      /\ \A q \in DOMAIN t : q # p => u[q] = t[q]
  BY DEF With
<1> HIDE DEF u
<1>2. IsNode(Dir)
  BY DEF IsNode
<1>3. p \notin DOMAIN t /\ (p # <<>> => IsDir(t, Parent(p)))
  BY DEF Creatable
<1>4. \A q : IsDir(t, q) => IsDir(u, q)
  BY <1>1, <1>3 DEF IsDir
<1>5. ~IsDir(u, <<MyPath>>)
  BY <1>1 DEF IsDir, IsTree
<1>6. ASSUME NEW q \in DOMAIN u
      PROVE  IsNode(u[q]) /\ (q # <<>> => IsDir(u, Parent(q)))
  BY <1>1, <1>2, <1>3, <1>4 DEF IsTree
<1> QED BY <1>1, <1>5, <1>6 DEF IsTree, u

\* What has nothing below it can be removed from a tree.
LEMMA WithoutTree ==
  ASSUME NEW t, IsTree(t), NEW p, Below(t, p) = {}
  PROVE  IsTree(Without(t, p))
<1> DEFINE u == Without(t, p)
<1>1. /\ DOMAIN u = DOMAIN t \ {p}
      /\ \A q \in DOMAIN t : q # p => u[q] = t[q]
  BY DEF Without, Restrict
<1> HIDE DEF u
<1>2. \A q \in DOMAIN t : q # <<>> => Parent(q) # p
  BY DEF Below
<1>3. \A q : IsDir(t, q) /\ q # p => IsDir(u, q)
  BY <1>1 DEF IsDir
<1>4. ~IsDir(u, <<MyPath>>)
  BY <1>1 DEF IsDir, IsTree
<1>5. ASSUME NEW q \in DOMAIN u
      PROVE  IsNode(u[q]) /\ (q # <<>> => IsDir(u, Parent(q)))
  BY <1>1, <1>2, <1>3 DEF IsTree
<1> QED BY <1>1, <1>4, <1>5 DEF IsTree, u

------------------------------------------------------------------------------
(***************************************************************************)
(* Requests, responses and listings.                                       *)
(***************************************************************************)
\* A request the processes build: what it creates is not a directory "mypath".
IsRequest(a) ==
  /\ a \in Arguments
  /\ a.Op # "NO_OPERATION"
  /\ a.Op = "DC" => Target(a) \in Paths /\ Target(a) # <<MyPath>>

\* A response from which such requests are built.
IsResponse(r) ==
  /\ r \in Responses
  /\ \A e \in r.names : e.type = "DIR" => e.name \in Names

Entries == [name : AllNames, type : {"DIR", "FILE"}]

\* A path that is not the root has one name or two.
LEMMA PathCases ==
  ASSUME NEW q \in Paths, q # <<>>
  PROVE  \/ \E n \in AllNames : q = <<n>> /\ Parent(q) = <<>> /\ q[Len(q)] = n
         \/ \E d \in Names, n \in Names :
              q = <<d, n>> /\ Parent(q) = <<d>> /\ q[Len(q)] = n
<1>1. ASSUME NEW n \in AllNames, q = <<n>>
      PROVE  Parent(q) = <<>> /\ q[Len(q)] = n
  BY <1>1, PathFacts
<1>2. ASSUME NEW d \in Names, NEW n \in Names, q = <<d, n>>
      PROVE  Parent(q) = <<d>> /\ q[Len(q)] = n
  BY <1>2, PathFacts
<1> QED BY <1>1, <1>2 DEF Paths

\* A listing holds entries, and no directory "mypath".
LEMMA ListingType ==
  ASSUME NEW t, IsTree(t), NEW p
  PROVE  /\ Listing(t, p) \subseteq Entries
         /\ \A e \in Listing(t, p) : e.type = "DIR" => e.name \in Names
<1> SUFFICES ASSUME NEW q \in Below(t, p)
             PROVE  /\ [name |-> q[Len(q)], type |-> t[q].type] \in Entries
                    /\ t[q].type = "DIR" => q[Len(q)] \in Names
  BY DEF Listing
<1>1. q \in Paths /\ q \in DOMAIN t /\ q # <<>> /\ t[q].type \in {"DIR", "FILE"}
  BY NodeContents DEF Below, IsTree
<1>2. ASSUME NEW n \in AllNames, q = <<n>>, q[Len(q)] = n
      PROVE  q[Len(q)] \in AllNames /\ (t[q].type = "DIR" => q[Len(q)] \in Names)
  BY <1>1, <1>2 DEF AllNames, IsTree, IsDir
<1>3. q[Len(q)] \in AllNames /\ (t[q].type = "DIR" => q[Len(q)] \in Names)
  BY <1>1, <1>2, PathCases DEF AllNames
<1> QED BY <1>1, <1>3 DEF Entries

\* No name is listed twice.
LEMMA OneEntryPerName ==
  ASSUME NEW t, IsTree(t), NEW p, NEW e \in Listing(t, p), NEW f \in Listing(t, p),
         e.name = f.name
  PROVE  e = f
<1>1. PICK q \in Below(t, p) : e = [name |-> q[Len(q)], type |-> t[q].type]
  BY DEF Listing
<1>2. PICK s \in Below(t, p) : f = [name |-> s[Len(s)], type |-> t[s].type]
  BY DEF Listing
<1>3. q[Len(q)] = s[Len(s)]
  BY <1>1, <1>2
<1>4. /\ q \in Paths /\ q # <<>> /\ Parent(q) = p
      /\ s \in Paths /\ s # <<>> /\ Parent(s) = p
  BY DEF Below, IsTree
<1>5. \A d : <<d>> # <<>>
  BY PathFacts
<1>6. \A c, d : <<c>> = <<d>> => c = d
  BY PathsApart
<1>7. q = s
  <2>1. ASSUME NEW n \in AllNames, q = <<n>>, Parent(q) = <<>>, q[Len(q)] = n
        PROVE  q = s
    <3>1. Parent(s) = <<>> /\ s[Len(s)] = n
      BY <2>1, <1>3, <1>4
    <3>2. \/ \E m \in AllNames : s = <<m>> /\ s[Len(s)] = m
          \/ \E d \in Names : Parent(s) = <<d>>
      BY <1>4, PathCases
    <3>3. \A d : Parent(s) # <<d>>
      BY <3>1, <1>5
    <3> QED BY <2>1, <3>1, <3>2, <3>3
  <2>2. ASSUME NEW d \in Names, NEW n \in Names,
               q = <<d, n>>, Parent(q) = <<d>>, q[Len(q)] = n
        PROVE  q = s
    <3>1. Parent(s) = <<d>> /\ s[Len(s)] = n
      BY <2>2, <1>3, <1>4
    <3>2. \/ Parent(s) = <<>>
          \/ \E c \in Names, m \in Names :
               s = <<c, m>> /\ Parent(s) = <<c>> /\ s[Len(s)] = m
      BY <1>4, PathCases
    <3>3. Parent(s) # <<>>
      BY <3>1, <1>5
    <3> QED BY <2>2, <3>1, <3>2, <3>3, <1>6
  <2> QED BY <2>1, <2>2, <1>4, PathCases
<1> QED BY <1>1, <1>2, <1>7

\* So that a listing has at most as many entries as there are names.
LEMMA ListingSize ==
  ASSUME NEW t, IsTree(t), NEW p
  PROVE  Cardinality(Listing(t, p)) <= MAX_DIR_ENTRIES
<1> DEFINE L == Listing(t, p)
           f == [e \in L |-> e.name]
<1>1. \A e \in L : e.name \in AllNames
  BY ListingType DEF Entries
<1>2. \A e1, e2 \in L : e1.name = e2.name => e1 = e2
  BY OneEntryPerName
<1> HIDE DEF L
<1>3. f \in Injection(L, AllNames)
  BY <1>1, <1>2 DEF Injection, IsInjective
<1>4. IsFiniteSet(AllNames) /\ Cardinality(AllNames) = Cardinality(Names) + 1
  BY FS_AddElement DEF AllNames
<1>5. IsFiniteSet(L) /\ Cardinality(L) <= Cardinality(AllNames)
  BY <1>3, <1>4, FS_Injection
<1>6. Cardinality(L) \in Nat /\ Cardinality(Names) \in Nat
  BY <1>5, FS_CardinalityType
<1> QED BY <1>4, <1>5, <1>6 DEF L

\* The arguments of a syscall: those of its operation, and the rest of NoArgs.
LEMMA ArgsType ==
  ASSUME NEW op \in {"RD", "WR", "DR", "DL", "DC"}, NEW shared \in BOOLEAN,
         NEW path \in Paths
  PROVE  Args(op, shared, path) \in Arguments /\ Args(op, shared, path).Op = op
<1>1. NoArgs \in Arguments
  BY DEF NoArgs, Arguments, Paths, AllNames
<1> QED BY <1>1 DEF Args, Arguments

\* The same with an offset.
LEMMA ArgsAtOffset ==
  ASSUME NEW op \in {"RD", "WR", "DR", "DL", "DC"}, NEW shared \in BOOLEAN,
         NEW path \in Paths, NEW off \in Offsets,
         NEW a, a = [Args(op, shared, path) EXCEPT !.offset = off]
  PROVE  a \in Arguments /\ a.Op = op
<1>1. Args(op, shared, path) \in Arguments
  BY ArgsType
<1> QED BY <1>1 DEF Args, Arguments, Offsets, NoArgs

\* Whatever a process was last answered, what it asks for next is a request.
LEMMA SyscallIsRequest ==
  ASSUME NEW p \in Procs, IsResponse(current_response[p]),
         NEW shared \in BOOLEAN, NEW args \in SyscallsOf(p, shared)
  PROVE  IsRequest(args)
<1> DEFINE D == {<<>>} \cup pick_existing_directory(p)
           F == pick_existing_file(p)
           G == NewFiles(p)
<1>1. \A e \in current_response[p].names : /\ e.name \in AllNames
                                           /\ e.type = "DIR" => e.name \in Names
  BY DEF IsResponse, Responses
<1>2. D \subseteq {<<>>} \cup {<<n>> : n \in Names}
  BY <1>1 DEF pick_existing_directory, Known
<1>3. F \subseteq Paths /\ D \subseteq Paths
  BY <1>1, <1>2 DEF pick_existing_file, Known, Paths, AllNames
<1>4. ASSUME NEW d \in D, NEW n \in Names
      PROVE  Append(d, n) \in Paths /\ Append(d, n) # <<MyPath>>
  <2>1. CASE d = <<>>
    <3>1. Append(d, n) = <<n>>
      BY <2>1, PathFacts
    <3> QED BY <3>1, PathsApart DEF Paths, AllNames
  <2>2. ASSUME NEW c \in Names, d = <<c>>
        PROVE  Append(d, n) \in Paths /\ Append(d, n) # <<MyPath>>
    <3>1. Append(d, n) = <<c, n>>
      BY <2>2, PathFacts
    <3> QED BY <3>1, PathsApart DEF Paths
  <2> QED BY <2>1, <2>2, <1>2
<1>5. \A g \in G : \E d \in D, n \in Names : g = Append(d, n)
  BY DEF NewFiles
<1> HIDE DEF D, F, G
<1>15. G \subseteq Paths
  BY <1>4, <1>5
<1>6. ASSUME NEW op \in {"RD", "WR"}, NEW path \in F \cup G, NEW off \in Offsets,
             args = [Args(op, shared, path) EXCEPT !.offset = off]
      PROVE  IsRequest(args)
  BY <1>3, <1>15, <1>6, ArgsAtOffset DEF IsRequest
<1>7. ASSUME NEW path \in D, NEW n \in Names,
             args = [Args("DC", shared, path) EXCEPT !.dir_name = n]
      PROVE  IsRequest(args)
  <2>1. args \in Arguments /\ args.Op = "DC" /\ args.path = path /\ args.dir_name = n
    <3>1. path \in Paths /\ "DC" \in {"RD", "WR", "DR", "DL", "DC"}
      BY <1>3
    <3>2. Args("DC", shared, path) \in Arguments
      BY <3>1, ArgsType
    <3> QED BY <1>7, <3>2 DEF Args, Arguments, AllNames, NoArgs
  <2>2. Target(args) = Append(path, n)
    BY <2>1 DEF Target
  <2> QED BY <2>1, <2>2, <1>4 DEF IsRequest
<1>8. ASSUME NEW op \in {"DR", "DL"}, NEW path \in F \cup D, args = Args(op, shared, path)
      PROVE  IsRequest(args)
  BY <1>3, <1>8, ArgsType DEF IsRequest
<1> QED BY <1>6, <1>7, <1>8 DEF SyscallsOf, D, F, G

------------------------------------------------------------------------------
(***************************************************************************)
(* The five handlers.                                                      *)
(***************************************************************************)
\* What request a reads or writes of tree t.
BlockAt(t, a) ==
  IF IsFile(t, a.path) /\ a.offset < Len(t[a.path].blocks)
    THEN t[a.path].blocks[a.offset + 1] ELSE NoBlock

\* Response r to request a holds nothing that a did not ask for.
Clean(a, r) ==
  /\ a.Op # "RD" \/ r.ret # "SUCCESS" => r.payload = NoBlock
  /\ a.Op # "DL" \/ r.ret # "SUCCESS" => r.names = {}

\* Response r to request a of process p is true of tree t.
TrueOf(p, a, r, t) ==
  /\ a.Op = "RD" => r.payload = BlockAt(t, a)
  /\ a.Op = "WR" /\ r.ret = "SUCCESS" => BlockAt(t, a) = p
  /\ a.Op = "DC" /\ r.ret = "SUCCESS" => IsDir(t, Target(a))
  /\ a.Op = "DR" /\ r.ret = "SUCCESS" => a.path \notin DOMAIN t
  /\ a.Op = "DL" /\ r.ret = "SUCCESS" => r.names = Listing(t, a.path)

\* Response r to request a is well formed and true of t.
Good(p, a, r, t) ==
  IsResponse(r) /\ Cardinality(r.names) <= MAX_DIR_ENTRIES /\ Clean(a, r) /\ TrueOf(p, a, r, t)

\* File q of tree t is still there in tree u, with its blocks or those of p.
KeepsFile(p, q, t, u) ==
  /\ IsFile(u, q)
  /\ Len(t[q].blocks) <= Len(u[q].blocks)
  /\ \A i \in 1..Len(t[q].blocks) : u[q].blocks[i] \in {t[q].blocks[i], p}

\* Tree u keeps the files of t that request a of p did not ask to delete.
Keeps(p, a, t, u) ==
  \A q : IsFile(t, q) /\ ~(a.Op = "DR" /\ a.path = q) => KeepsFile(p, q, t, u)

\* The server turns tree x into u.
Replaces(x, u) ==
  /\ DOMAIN fs' = DOMAIN fs
  /\ fs'[x] = u
  /\ \A a \in DOMAIN fs : a # x => fs'[a] = fs[a]

\* What each handler does of request r, which reaches tree t.
Effect(r, t) ==
  \E u, ans : /\ Replaces(Root(r), u) /\ Answer(r, ans)
              /\ IsTree(u) /\ Keeps(r.process_pos, r.args, t, u)
              /\ Good(r.process_pos, r.args, ans, u)

\* The two answers the handlers start from.
LEMMA AnswerFields ==
  /\ Failed.ret = "ERROR" /\ Failed.payload = NoBlock /\ Failed.names = {}
  /\ Succeeded.ret = "SUCCESS" /\ Succeeded.payload = NoBlock /\ Succeeded.names = {}
  /\ IsResponse(Failed) /\ IsResponse(Succeeded)
  /\ Cardinality(Failed.names) <= MAX_DIR_ENTRIES
  /\ Cardinality(Succeeded.names) <= MAX_DIR_ENTRIES
<1>1. /\ Failed.ret = "ERROR" /\ Failed.payload = NoBlock /\ Failed.names = {}
      /\ Succeeded.ret = "SUCCESS" /\ Succeeded.payload = NoBlock /\ Succeeded.names = {}
      /\ Failed \in Responses /\ Succeeded \in Responses
  BY DEF Failed, Succeeded, Blank, NoAnswer, Responses
<1>2. Cardinality({}) = 0
  BY FS_EmptySet
<1> QED BY <1>1, <1>2 DEF IsResponse

\* A tree keeps its own files.
LEMMA KeepsFileSelf ==
  ASSUME NEW t, IsTree(t), NEW q, IsFile(t, q), NEW p
  PROVE  KeepsFile(p, q, t, t)
<1>1. Len(t[q].blocks) \in Nat
  BY NodeContents DEF IsFile, IsTree, IsContents
<1> QED BY <1>1 DEF KeepsFile

\* A tree the other files of which are those of t keeps them.
LEMMA KeepsOthers ==
  ASSUME NEW t, IsTree(t), NEW u, NEW q, IsFile(t, q), NEW p,
         q \in DOMAIN u, u[q] = t[q]
  PROVE  KeepsFile(p, q, t, u)
<1>1. Len(t[q].blocks) \in Nat
  BY NodeContents DEF IsFile, IsTree, IsContents
<1> QED BY <1>1 DEF KeepsFile, IsFile

\* A request that fails, or only reads, changes nothing.
LEMMA NothingChanged ==
  ASSUME NEW r, IsRequest(r.args), Root(r) \in DOMAIN fs, IsTree(fs[Root(r)]),
         NEW ans, Answer(r, ans), Good(r.process_pos, r.args, ans, fs[Root(r)]), UNCHANGED fs
  PROVE  Effect(r, fs[Root(r)])
<1>1. Replaces(Root(r), fs[Root(r)])
  BY DEF Replaces
<1>2. Keeps(r.process_pos, r.args, fs[Root(r)], fs[Root(r)])
  BY KeepsFileSelf DEF Keeps
<1> QED BY <1>1, <1>2 DEF Effect

\* A failure is a true answer, to a read when there is nothing to read.
LEMMA FailedIsGood ==
  ASSUME NEW p, NEW a, NEW t, a.Op = "RD" => BlockAt(t, a) = NoBlock
  PROVE  Good(p, a, Failed, t)
BY AnswerFields DEF Good, Clean, TrueOf

\* A new tree in the place of the one the request reaches.
LEMMA Replaced ==
  ASSUME NEW x \in DOMAIN fs, NEW u, fs' = [fs EXCEPT ![x] = u]
  PROVE  Replaces(x, u)
BY DEF Replaces

\* handle_read answers with the block it finds.
LEMMA ReadEffect ==
  ASSUME NEW r, IsRequest(r.args), Root(r) \in DOMAIN fs, IsTree(fs[Root(r)]),
         handle_read(r, fs[Root(r)])
  PROVE  Effect(r, fs[Root(r)])
<1> DEFINE t == fs[Root(r)]
           a == r.args
           found == IsFile(t, a.path) /\ a.offset < Len(t[a.path].blocks)
           good == [Succeeded EXCEPT !.payload = t[a.path].blocks[a.offset + 1]]
<1>1. a.Op = "RD" /\ UNCHANGED fs /\ a.offset \in 0..MaxOffset
  BY DEF handle_read, IsRequest, Arguments
<1>2. CASE found
  <2>1. Answer(r, good)
    BY <1>2 DEF handle_read
  <2>2. PICK k : IsContents(t[a.path].blocks, k)
    BY <1>2, NodeContents DEF IsTree, IsFile
  <2>3. t[a.path].blocks[a.offset + 1] \in Blocks
    BY <1>1, <1>2, <2>2 DEF IsContents
  <2>4. /\ good \in Responses /\ good.ret = "SUCCESS" /\ good.names = {}
        /\ good.payload = BlockAt(t, a)
    BY <1>2, <2>3 DEF Succeeded, Blank, NoAnswer, Responses, BlockAt
  <2>5. Cardinality({}) <= MAX_DIR_ENTRIES
    BY AnswerFields
  <2> HIDE DEF good, t
  <2>6. Good(r.process_pos, a, good, t)
    BY <1>1, <2>4, <2>5 DEF Good, Clean, TrueOf, IsResponse
  <2> QED BY <1>1, <2>1, <2>6, NothingChanged DEF t
<1>3. CASE ~found
  <2>1. Answer(r, Failed)
    BY <1>3 DEF handle_read
  <2>2. Good(r.process_pos, a, Failed, t)
    BY <1>3, FailedIsGood DEF BlockAt
  <2> QED BY <1>1, <2>1, <2>2, NothingChanged
<1> QED BY <1>2, <1>3

\* handle_list_directory answers with what is below the path.
LEMMA ListEffect ==
  ASSUME NEW r, IsRequest(r.args), Root(r) \in DOMAIN fs, IsTree(fs[Root(r)]),
         handle_list_directory(r, fs[Root(r)])
  PROVE  Effect(r, fs[Root(r)])
<1> DEFINE t == fs[Root(r)]
           a == r.args
           good == [Succeeded EXCEPT !.names = Listing(t, a.path)]
<1>1. a.Op = "DL" /\ UNCHANGED fs
  BY DEF handle_list_directory
<1>2. CASE IsDir(t, a.path)
  <2>1. Answer(r, good)
    BY <1>2 DEF handle_list_directory
  <2>2. /\ Listing(t, a.path) \subseteq Entries
        /\ \A e \in Listing(t, a.path) : e.type = "DIR" => e.name \in Names
        /\ Cardinality(Listing(t, a.path)) <= MAX_DIR_ENTRIES
    BY ListingType, ListingSize
  <2>3. /\ good \in Responses /\ good.ret = "SUCCESS" /\ good.payload = NoBlock
        /\ good.names = Listing(t, a.path)
    BY <2>2 DEF Succeeded, Blank, NoAnswer, Responses, Entries
  <2> HIDE DEF good, t
  <2>4. Good(r.process_pos, a, good, t)
    BY <1>1, <2>2, <2>3 DEF Good, Clean, TrueOf, IsResponse
  <2> QED BY <1>1, <2>1, <2>4, NothingChanged DEF t
<1>3. CASE ~IsDir(t, a.path)
  <2>1. Answer(r, Failed)
    BY <1>3 DEF handle_list_directory
  <2>2. Good(r.process_pos, a, Failed, t)
    BY <1>1, FailedIsGood
  <2> QED BY <1>1, <2>1, <2>2, NothingChanged
<1> QED BY <1>2, <1>3

\* A write keeps the blocks that were in the file, but the one it writes.
LEMMA FileKept ==
  ASSUME NEW t, IsTree(t), NEW path, NEW b, NEW j, IsContents(b, j), NEW p,
         \A k : IsContents(Opened(t, path), k) =>
                  k <= j /\ \A i \in 1..k : b[i] \in {Opened(t, path)[i], p},
         NEW q, IsFile(t, q)
  PROVE  KeepsFile(p, q, t, With(t, path, File(b)))
<1> DEFINE u == With(t, path, File(b))
<1>1. /\ DOMAIN u = DOMAIN t \cup {path} /\ u[path] = File(b)
      /\ \A s \in DOMAIN t : s # path => u[s] = t[s]
  BY DEF With
<1> HIDE DEF u
<1>2. q \in DOMAIN t /\ q \in DOMAIN u
  BY <1>1 DEF IsFile
<1>3. CASE q # path
  BY <1>1, <1>2, <1>3, KeepsOthers DEF u
<1>4. CASE q = path
  <2>1. Opened(t, path) = t[q].blocks
    BY <1>4 DEF Opened
  <2>2. PICK k : IsContents(t[q].blocks, k)
    BY <2>1, OpenedContents
  <2>3. Len(t[q].blocks) = k /\ Len(b) = j
    BY <2>2 DEF IsContents
  <2>4. IsFile(u, q) /\ u[q].blocks = b
    BY <1>1, <1>2, <1>4, ContentsNode DEF IsFile
  <2>5. k <= j /\ \A i \in 1..k : b[i] \in {t[q].blocks[i], p}
    BY <2>1, <2>2
  <2> QED BY <2>3, <2>4, <2>5 DEF KeepsFile, u
<1> QED BY <1>3, <1>4

\* A file has one length.
LEMMA SameContents ==
  ASSUME NEW b, NEW k, IsContents(b, k), NEW j, IsContents(b, j)
  PROVE  k = j
BY DEF IsContents

\* handle_write keeps what the file held and answers that it holds the new
\* block.
LEMMA WriteEffect ==
  ASSUME NEW r, IsRequest(r.args), r.process_pos \in Procs,
         Root(r) \in DOMAIN fs, IsTree(fs[Root(r)]), handle_write(r, fs[Root(r)])
  PROVE  Effect(r, fs[Root(r)])
<1> DEFINE t == fs[Root(r)]
           a == r.args
           p == r.process_pos
           b == Written(Opened(t, a.path), a.offset, p)
           u == With(t, a.path, File(b))
<1>1. a.Op = "WR" /\ a.offset \in 0..MaxOffset /\ a.path \in Paths
  BY DEF handle_write, IsRequest, Arguments
<1>2. CASE Writable(t, a.path)
  <2>1. Answer(r, Succeeded) /\ fs' = [fs EXCEPT ![Root(r)] = u]
    BY <1>2 DEF handle_write
  <2>2. PICK k : IsContents(Opened(t, a.path), k)
    BY OpenedContents
  <2>3. PICK j : IsWritten(b, j, Opened(t, a.path), k, a.offset, p)
    BY <1>1, <2>2, WrittenBlocks
  <2>33. /\ IsContents(b, j) /\ a.offset < j /\ k <= j /\ b[a.offset + 1] = p
         /\ \A i \in 1..k : i # a.offset + 1 => b[i] = Opened(t, a.path)[i]
    BY <2>3 DEF IsWritten
  <2>4. IsTree(u)
    BY <1>1, <1>2, <2>33, WithFile
  <2>5. \A i \in 1..k : b[i] \in {Opened(t, a.path)[i], p}
    BY <2>33
  <2>6. \A m : IsContents(Opened(t, a.path), m) =>
                 m <= j /\ \A i \in 1..m : b[i] \in {Opened(t, a.path)[i], p}
    BY <2>2, <2>33, <2>5, SameContents
  <2>7. Keeps(p, a, t, u)
    <3> SUFFICES ASSUME NEW q, IsFile(t, q) PROVE KeepsFile(p, q, t, u)
      BY DEF Keeps
    <3> QED BY <2>33, <2>6, FileKept
  <2>8. IsFile(u, a.path) /\ u[a.path].blocks = b /\ Len(b) = j
    BY <2>33, ContentsNode DEF With, IsFile, IsContents
  <2>9. BlockAt(u, a) = p
    BY <1>1, <2>33, <2>8 DEF BlockAt
  <2> HIDE DEF t, u, b
  <2>10. Good(p, a, Succeeded, u)
    BY <1>1, <2>9, AnswerFields DEF Good, Clean, TrueOf
  <2>11. Replaces(Root(r), u)
    BY <2>1, Replaced
  <2> QED BY <2>1, <2>4, <2>7, <2>10, <2>11 DEF Effect, t
<1>3. CASE ~Writable(t, a.path)
  <2>1. Answer(r, Failed) /\ UNCHANGED fs
    BY <1>3 DEF handle_write
  <2>2. Good(p, a, Failed, t)
    BY <1>1, FailedIsGood
  <2> QED BY <2>1, <2>2, NothingChanged
<1> QED BY <1>2, <1>3

\* handle_create_directory adds a directory where there was nothing.
LEMMA CreateEffect ==
  ASSUME NEW r, IsRequest(r.args),
         Root(r) \in DOMAIN fs, IsTree(fs[Root(r)]), handle_create_directory(r, fs[Root(r)])
  PROVE  Effect(r, fs[Root(r)])
<1> DEFINE t == fs[Root(r)]
           a == r.args
           d == Target(a)
           u == With(t, d, Dir)
<1>1. a.Op = "DC" /\ d \in Paths /\ d # <<MyPath>>
  BY DEF handle_create_directory, IsRequest
<1>2. CASE Creatable(t, d)
  <2>1. Answer(r, Succeeded) /\ fs' = [fs EXCEPT ![Root(r)] = u]
    BY <1>2 DEF handle_create_directory
  <2>2. IsTree(u)
    <3> HIDE DEF t, d
    <3>1. IsTree(t)
      BY DEF t
    <3> QED BY <1>1, <1>2, <3>1, WithDir
  <2>3. d \notin DOMAIN t
    BY <1>2 DEF Creatable
  <2>4. /\ DOMAIN u = DOMAIN t \cup {d} /\ u[d] = Dir
        /\ \A s \in DOMAIN t : s # d => u[s] = t[s]
    BY DEF With
  <2>5. IsDir(u, d)
    BY <2>4 DEF IsDir, Dir
  <2> HIDE DEF t, u, d
  <2>6. Keeps(r.process_pos, a, t, u)
    <3> SUFFICES ASSUME NEW q, IsFile(t, q) PROVE KeepsFile(r.process_pos, q, t, u)
      BY DEF Keeps
    <3>1. q \in DOMAIN t /\ q # d
      BY <2>3 DEF IsFile
    <3> QED BY <2>4, <3>1, KeepsOthers DEF t
  <2>7. Good(r.process_pos, a, Succeeded, u)
    BY <1>1, <2>5, AnswerFields DEF Good, Clean, TrueOf, d
  <2>8. Replaces(Root(r), u)
    BY <2>1, Replaced
  <2> QED BY <2>1, <2>2, <2>6, <2>7, <2>8 DEF Effect, t
<1>3. CASE ~Creatable(t, d)
  <2>1. Answer(r, Failed) /\ UNCHANGED fs
    BY <1>3 DEF handle_create_directory
  <2>2. Good(r.process_pos, a, Failed, t)
    BY <1>1, FailedIsGood
  <2> QED BY <2>1, <2>2, NothingChanged
<1> QED BY <1>2, <1>3

\* handle_delete removes what has nothing below it.
LEMMA DeleteEffect ==
  ASSUME NEW r, IsRequest(r.args),
         Root(r) \in DOMAIN fs, IsTree(fs[Root(r)]), handle_delete(r, fs[Root(r)])
  PROVE  Effect(r, fs[Root(r)])
<1> DEFINE t == fs[Root(r)]
           a == r.args
           u == Without(t, a.path)
<1>1. a.Op = "DR"
  BY DEF handle_delete
<1>2. CASE a.path \in DOMAIN t /\ Below(t, a.path) = {}
  <2>1. Answer(r, Succeeded) /\ fs' = [fs EXCEPT ![Root(r)] = u]
    BY <1>2 DEF handle_delete
  <2>2. IsTree(u)
    BY <1>2, WithoutTree
  <2>3. /\ DOMAIN u = DOMAIN t \ {a.path}
        /\ \A q \in DOMAIN t : q # a.path => u[q] = t[q]
    BY DEF Without, Restrict
  <2> HIDE DEF t, u
  <2>4. Keeps(r.process_pos, a, t, u)
    <3> SUFFICES ASSUME NEW q, IsFile(t, q), a.path # q PROVE KeepsFile(r.process_pos, q, t, u)
      BY <1>1 DEF Keeps
    <3>1. q \in DOMAIN t
      BY DEF IsFile
    <3> QED BY <2>3, <3>1, KeepsOthers DEF t
  <2>5. Good(r.process_pos, a, Succeeded, u)
    BY <1>1, <2>3, AnswerFields DEF Good, Clean, TrueOf
  <2>6. Replaces(Root(r), u)
    BY <2>1, Replaced
  <2> QED BY <2>1, <2>2, <2>4, <2>5, <2>6 DEF Effect, t
<1>3. CASE ~(a.path \in DOMAIN t /\ Below(t, a.path) = {})
  <2>1. Answer(r, Failed) /\ UNCHANGED fs
    BY <1>3 DEF handle_delete
  <2>2. Good(r.process_pos, a, Failed, t)
    BY <1>1, FailedIsGood
  <2> QED BY <2>1, <2>2, NothingChanged
<1> QED BY <1>2, <1>3

------------------------------------------------------------------------------
(***************************************************************************)
(* The inductive invariant. AnswerStillHolds needs that a process has one  *)
(* request under way (OneRequest). AcknowledgedBlocksSurvive needs it too, *)
(* because what a process learns is true when the answer is delivered, and *)
(* that a delete under way spares what is relied on (NothingReliedOn).     *)
(***************************************************************************)
\* Types, the bound of a listing included.
StateInv ==
  /\ DOMAIN fs = Roots /\ \A a \in Roots : IsTree(fs[a])
  /\ IsResponse(resp) /\ ListingFits
  /\ \A r \in toSfss : r \in [process_pos : Procs, args : Arguments] /\ IsRequest(r.args)
  /\ \A m \in toKernel : m \in [process_pos : Procs, response : Responses] /\ IsResponse(m.response)
  /\ current_syscall \in [Procs -> Arguments]
  /\ current_response \in [Procs -> Responses]
  /\ \A p \in Procs : IsResponse(current_response[p])
  /\ listed \subseteq Procs /\ calls \in 0..MaxCalls /\ run \in 1..MaxRuns
  /\ acked \in [Procs -> SUBSET [path : Paths, offset : 0..MaxOffset]]

\* What is under way for a process is what it waits for, and once.
OneRequest ==
  /\ \A r \in toSfss : r.args = current_syscall[r.process_pos]
  /\ \A m \in toKernel : current_syscall[m.process_pos].Op # "NO_OPERATION"
  /\ \A r \in toSfss, m \in toKernel : r.process_pos # m.process_pos
  /\ \A m, n \in toKernel : m.process_pos = n.process_pos => m = n
  /\ \A p \in Procs \ listed : current_syscall[p] = NoArgs

\* Whoever asks to delete a file of its own relies on nothing in it any more.
NothingReliedOn ==
  \A r \in toSfss : r.args.Op = "DR" /\ ~r.args.is_shared =>
    \A b \in acked[r.process_pos] : b.path # r.args.path

\* The answer of message m is true, if private, of the tree of its owner.
AnswerTrue(m) ==
  LET a == current_syscall[m.process_pos]
  IN /\ Clean(a, m.response)
     /\ ~a.is_shared => TrueOf(m.process_pos, a, m.response, fs[m.process_pos])

\* Every answer under way is true.
Answers == \A m \in toKernel : AnswerTrue(m)

\* The inductive invariant.
SfssInv ==
  StateInv /\ OneRequest /\ NothingReliedOn /\ Answers /\ AcknowledgedBlocksSurvive

\* It implies the invariants the model states.
LEMMA InvImplies ==
  SfssInv => SfssTypeOK /\ AnswerStillHolds /\ AcknowledgedBlocksSurvive /\ ListingFits
<1> SUFFICES ASSUME SfssInv
             PROVE  SfssTypeOK /\ AnswerStillHolds /\ AcknowledgedBlocksSurvive /\ ListingFits
  OBVIOUS
<1>1. SfssTypeOK
  <2>1. \A a \in Roots : IsTree(fs[a])
    BY DEF SfssInv, StateInv
  <2>2. \A r \in toSfss : r \in [process_pos : Procs, args : Arguments]
    BY DEF SfssInv, StateInv
  <2>3. \A m \in toKernel : m \in [process_pos : Procs, response : Responses]
    BY DEF SfssInv, StateInv
  <2>4. resp \in Responses
    BY DEF SfssInv, StateInv, IsResponse
  <2> QED BY <2>1, <2>2, <2>3, <2>4 DEF SfssInv, StateInv, SfssTypeOK, IsTree, IsNode
<1>2. ASSUME NEW m \in toKernel
      PROVE  AnswerTrue(m)
  BY DEF SfssInv, Answers
<1>3. AnswerStillHolds
  BY <1>2 DEF AnswerStillHolds, AnswerTrue, Clean, TrueOf, BlockAt
<1> QED BY <1>1, <1>3 DEF SfssInv, StateInv

\* The repository comes with trees, and nothing is under way.
LEMMA SfssInitially == SfssInit => SfssInv
<1> SUFFICES ASSUME SfssInit PROVE SfssInv
  OBVIOUS
<1>1. IsTree(FirstTree)
  <2>1. Parent(<<MyPath>>) = <<>> /\ <<MyPath>> # <<>>
    BY PathFacts
  <2>2. DOMAIN FirstTree = {<<>>, <<MyPath>>} /\ FirstTree[<<>>] = Dir
        /\ FirstTree[<<MyPath>>] = File(<<Aaaa>>)
    BY <2>1 DEF FirstTree
  <2>3. IsNode(Dir) /\ IsNode(File(<<Aaaa>>)) /\ File(<<Aaaa>>).type = "FILE"
    <3>1. IsContents(<<Aaaa>>, 1)
      BY DEF IsContents, Aaaa, Blocks
    <3> QED BY <3>1, ContentsNode DEF IsNode
  <2>4. DOMAIN FirstTree \subseteq Paths
    BY <2>2 DEF Paths, AllNames
  <2>5. IsDir(FirstTree, <<>>)
    BY <2>2 DEF IsDir, Dir
  <2>6. ~IsDir(FirstTree, <<MyPath>>)
    BY <2>2, <2>3 DEF IsDir
  <2> HIDE DEF FirstTree
  <2> QED BY <2>1, <2>2, <2>3, <2>4, <2>5, <2>6 DEF IsTree
<1>2. IsResponse(NoAnswer) /\ Cardinality(NoAnswer.names) <= MAX_DIR_ENTRIES
  BY FS_EmptySet DEF IsResponse, NoAnswer, Responses
<1>3. NoArgs \in Arguments
  BY DEF NoArgs, Arguments, Paths, AllNames
<1>4. StateInv
  BY <1>1, <1>2, <1>3 DEF SfssInit, StateInv, ListingFits, IsResponse
<1>5. OneRequest /\ NothingReliedOn /\ Answers
  BY DEF SfssInit, OneRequest, NothingReliedOn, Answers
<1>6. AcknowledgedBlocksSurvive
  BY DEF SfssInit, AcknowledgedBlocksSurvive
<1> QED BY <1>4, <1>5, <1>6 DEF SfssInv

\* The blocks of a file of a tree have a length.
LEMMA TreeLength ==
  ASSUME NEW t, IsTree(t), NEW q, IsFile(t, q)
  PROVE  Len(t[q].blocks) \in Nat
BY NodeContents DEF IsTree, IsFile, IsContents

\* Block b of tree t is what p wrote.
Holds(p, b, t) ==
  /\ IsFile(t, b.path)
  /\ b.offset < Len(t[b.path].blocks)
  /\ t[b.path].blocks[b.offset + 1] = p

\* An acknowledged block survives in a tree that keeps its file.
LEMMA HoldsKept ==
  ASSUME NEW p, NEW t, IsTree(t), NEW u, IsTree(u), NEW b, b.offset \in Nat,
         Holds(p, b, t), KeepsFile(p, b.path, t, u)
  PROVE  Holds(p, b, u)
<1> DEFINE m == Len(t[b.path].blocks)
           n == Len(u[b.path].blocks)
<1>1. IsFile(t, b.path) /\ IsFile(u, b.path)
  BY DEF Holds, KeepsFile
<1>2. m \in Nat /\ n \in Nat
  BY <1>1, TreeLength
<1>3. b.offset < m /\ m <= n
  BY DEF Holds, KeepsFile
<1>4. u[b.path].blocks[b.offset + 1] \in {t[b.path].blocks[b.offset + 1], p}
  <2> HIDE DEF m
  <2>1. b.offset + 1 \in 1..m
    BY <1>2, <1>3
  <2> QED BY <2>1 DEF KeepsFile, m
<1>5. b.offset < n
  <2> HIDE DEF m, n
  <2> QED BY <1>2, <1>3
<1> QED BY <1>1, <1>4, <1>5 DEF Holds

\* A turn of the loop is the effect of one handler on a root that exists.
LEMMA ServeEffect ==
  ASSUME SfssInv, NEW r \in toSfss, Serve(r)
  PROVE  /\ Effect(r, fs[Root(r)]) /\ Root(r) \in Roots
         /\ r.process_pos \in Procs /\ IsRequest(r.args)
<1>1. /\ r \in [process_pos : Procs, args : Arguments] /\ IsRequest(r.args)
      /\ DOMAIN fs = Roots /\ \A a \in Roots : IsTree(fs[a])
  BY DEF SfssInv, StateInv
<1>2. r.process_pos \in Procs /\ Root(r) \in Roots
  BY <1>1 DEF Root, Roots, Procs, Shared
<1>3. Root(r) \in DOMAIN fs /\ IsTree(fs[Root(r)])
  BY <1>1, <1>2
<1>4. Effect(r, fs[Root(r)])
  <2>1. CASE handle_read(r, fs[Root(r)])
    BY <1>1, <1>3, <2>1, ReadEffect
  <2>2. CASE handle_write(r, fs[Root(r)])
    BY <1>1, <1>2, <1>3, <2>2, WriteEffect
  <2>3. CASE handle_create_directory(r, fs[Root(r)])
    BY <1>1, <1>3, <2>3, CreateEffect
  <2>4. CASE handle_delete(r, fs[Root(r)])
    BY <1>1, <1>3, <2>4, DeleteEffect
  <2>5. CASE handle_list_directory(r, fs[Root(r)])
    BY <1>1, <1>3, <2>5, ListEffect
  <2> QED BY <2>1, <2>2, <2>3, <2>4, <2>5 DEF Serve
<1> QED BY <1>1, <1>2, <1>4

\* The server answers one request: no other answer under way, and no block of
\* another process, depends on the tree it changes.
LEMMA ServeStep ==
  ASSUME SfssInv, NEW r \in toSfss, Serve(r)
  PROVE  SfssInv'
<1> DEFINE p == r.process_pos
           t == fs[Root(r)]
<1>1. Root(r) \in Roots /\ p \in Procs /\ IsRequest(r.args)
  BY ServeEffect
<1>2. PICK u, ans : /\ Replaces(Root(r), u) /\ Answer(r, ans)
                    /\ IsTree(u) /\ Keeps(p, r.args, t, u) /\ Good(p, r.args, ans, u)
  BY ServeEffect DEF Effect
<1>3. /\ resp' = ans /\ toSfss' = toSfss \ {r}
      /\ toKernel' = toKernel \cup {[process_pos |-> p, response |-> ans]}
  BY <1>2 DEF Answer
<1>4. UNCHANGED <<current_syscall, current_response, listed, calls, run, acked>>
  BY DEF Serve, kernel, counts
<1>5. /\ DOMAIN fs' = Roots /\ fs'[Root(r)] = u
      /\ \A a \in Roots : a # Root(r) => fs'[a] = fs[a]
  BY <1>2 DEF Replaces, SfssInv, StateInv
<1>6. IsResponse(ans) /\ Cardinality(ans.names) <= MAX_DIR_ENTRIES
      /\ Clean(r.args, ans) /\ TrueOf(p, r.args, ans, u)
  BY <1>2 DEF Good
<1>7. r.args = current_syscall[p] /\ r.args.Op # "NO_OPERATION"
  BY <1>1 DEF SfssInv, OneRequest, IsRequest
<1>8. \A a \in Procs : Root(r) = a => p = a /\ ~r.args.is_shared
  BY DEF Root, Shared, Procs
<1>9. StateInv'
  <2>1. ans \in Responses
    BY <1>6 DEF IsResponse
  <2>2. \A a \in Roots : IsTree(fs'[a])
    BY <1>2, <1>5 DEF SfssInv, StateInv
  <2>3. \A m \in toKernel' : m \in [process_pos : Procs, response : Responses]
                             /\ IsResponse(m.response)
    BY <1>1, <1>3, <1>6, <2>1 DEF SfssInv, StateInv
  <2>4. \A s \in toSfss' : s \in [process_pos : Procs, args : Arguments] /\ IsRequest(s.args)
    BY <1>3 DEF SfssInv, StateInv
  <2>5. IsResponse(resp') /\ ListingFits'
    BY <1>3, <1>6 DEF ListingFits
  <2> QED BY <1>4, <1>5, <2>2, <2>3, <2>4, <2>5 DEF SfssInv, StateInv
<1>10. OneRequest'
  <2>1. \A m \in toKernel : m.process_pos # p
    BY DEF SfssInv, OneRequest
  <2>2. \A s \in toSfss' : s.process_pos # p
    <3> SUFFICES ASSUME NEW s \in toSfss, s # r, s.process_pos = p PROVE FALSE
      BY <1>3
    <3>1. s.args = r.args
      BY <1>7 DEF SfssInv, OneRequest
    <3>2. s \in [process_pos : Procs, args : Arguments] /\ r \in [process_pos : Procs, args : Arguments]
      BY DEF SfssInv, StateInv
    <3> QED BY <3>1, <3>2
  <2>3. \A m \in toKernel' : m \in toKernel
                             \/ m = [process_pos |-> p, response |-> ans]
    BY <1>3
  <2>4. \A m \in toKernel' : m \in toKernel \/ m.process_pos = p
    BY <2>3
  <2>5. \A m \in toKernel' : current_syscall'[m.process_pos].Op # "NO_OPERATION"
    BY <1>4, <1>7, <2>4 DEF SfssInv, OneRequest
  <2>6. \A s \in toSfss', m \in toKernel' : s.process_pos # m.process_pos
    BY <1>3, <2>2, <2>4 DEF SfssInv, OneRequest
  <2>7. \A m, n \in toKernel' : m.process_pos = n.process_pos => m = n
    BY <2>1, <2>3, <2>4 DEF SfssInv, OneRequest
  <2>8. \A s \in toSfss' : s.args = current_syscall'[s.process_pos]
    BY <1>3, <1>4 DEF SfssInv, OneRequest
  <2> QED BY <1>4, <2>5, <2>6, <2>7, <2>8 DEF SfssInv, OneRequest
<1>11. NothingReliedOn'
  BY <1>3, <1>4 DEF SfssInv, NothingReliedOn
<1>12. Answers'
  <2> SUFFICES ASSUME NEW m \in toKernel' PROVE AnswerTrue(m)'
    BY DEF Answers
  <2>1. CASE m \in toKernel
    <3>1. AnswerTrue(m) /\ m.process_pos \in Procs /\ m.process_pos # p
      BY <2>1 DEF SfssInv, Answers, OneRequest, StateInv
    <3>2. fs'[m.process_pos] = fs[m.process_pos]
      BY <1>5, <1>8, <3>1 DEF Procs, Roots
    <3> QED BY <1>4, <3>1, <3>2 DEF AnswerTrue
  <2>2. CASE m = [process_pos |-> p, response |-> ans]
    <3>1. m.process_pos = p /\ m.response = ans
      BY <2>2
    <3>2. ~r.args.is_shared => fs'[p] = u
      BY <1>5 DEF Root
    <3> QED BY <1>4, <1>6, <1>7, <3>1, <3>2 DEF AnswerTrue
  <2> QED BY <1>3, <2>1, <2>2
<1>13. AcknowledgedBlocksSurvive'
  <2> SUFFICES ASSUME NEW a \in Procs, NEW b \in acked[a] PROVE Holds(a, b, fs'[a])
    BY <1>4 DEF AcknowledgedBlocksSurvive, Holds
  <2>1. Holds(a, b, fs[a])
    BY DEF SfssInv, AcknowledgedBlocksSurvive, Holds
  <2>2. a \in Roots /\ b.offset \in Nat
    BY DEF SfssInv, StateInv, Procs, Roots
  <2>3. CASE Root(r) # a
    BY <1>5, <2>1, <2>2, <2>3
  <2>4. CASE Root(r) = a
    <3>1. p = a /\ ~r.args.is_shared /\ t = fs[a] /\ u = fs'[a]
      BY <1>5, <1>8, <2>4
    <3>2. ~(r.args.Op = "DR" /\ r.args.path = b.path)
      BY <3>1 DEF SfssInv, NothingReliedOn
    <3>3. KeepsFile(a, b.path, t, u)
      BY <1>2, <2>1, <3>1, <3>2 DEF Keeps, Holds
    <3>4. IsTree(t)
      BY <1>1 DEF SfssInv, StateInv
    <3>5. Holds(a, b, t)
      BY <2>1, <3>1
    <3> HIDE DEF t
    <3>6. Holds(a, b, u)
      BY <1>2, <2>2, <3>3, <3>4, <3>5, HoldsKept
    <3> QED BY <3>1, <3>6
  <2> QED BY <2>3, <2>4
<1> QED BY <1>9, <1>10, <1>11, <1>12, <1>13 DEF SfssInv

\* A response is delivered: what its owner learns from it is true then.
LEMMA DeliverStep ==
  ASSUME SfssInv, NEW r \in toKernel, Deliver(r)
  PROVE  SfssInv'
<1> DEFINE p == r.process_pos
           a == current_syscall[p]
<1>1. /\ toKernel' = toKernel \ {r}
      /\ current_response' = [current_response EXCEPT ![p] = r.response]
      /\ current_syscall' = [current_syscall EXCEPT ![p] = NoArgs]
      /\ acked' = [acked EXCEPT ![p] = @ \cup Learned(p, r)]
      /\ UNCHANGED <<fs, resp, toSfss, listed, calls, run>>
  BY DEF Deliver, disk, counts
<1>2. /\ r \in [process_pos : Procs, response : Responses] /\ IsResponse(r.response)
      /\ p \in Procs /\ a \in Arguments /\ AnswerTrue(r)
  BY DEF SfssInv, StateInv, Answers
<1>3. NoArgs \in Arguments
  BY DEF NoArgs, Arguments, Paths, AllNames
<1>4. Learned(p, r) \in SUBSET [path : Paths, offset : 0..MaxOffset]
  BY <1>2 DEF Learned, Arguments
<1>5. \A q \in Procs : q # p => /\ current_syscall'[q] = current_syscall[q]
                                /\ acked'[q] = acked[q]
  BY <1>1 DEF SfssInv, StateInv
<1>6. acked'[p] = acked[p] \cup Learned(p, r) /\ current_syscall'[p] = NoArgs
  BY <1>1, <1>2 DEF SfssInv, StateInv
<1>7. /\ \A s \in toSfss : s.process_pos # p /\ s.process_pos \in Procs
      /\ \A m \in toKernel' : m \in toKernel /\ m.process_pos # p /\ m.process_pos \in Procs
  BY <1>1 DEF SfssInv, OneRequest, StateInv
<1>8. StateInv'
  <2>1. current_syscall' \in [Procs -> Arguments]
    BY <1>1, <1>3 DEF SfssInv, StateInv
  <2>2. current_response' \in [Procs -> Responses]
        /\ \A q \in Procs : IsResponse(current_response'[q])
    BY <1>1, <1>2 DEF SfssInv, StateInv
  <2>3. acked' \in [Procs -> SUBSET [path : Paths, offset : 0..MaxOffset]]
    BY <1>1, <1>4 DEF SfssInv, StateInv
  <2>4. \A m \in toKernel' : m \in [process_pos : Procs, response : Responses]
                             /\ IsResponse(m.response)
    BY <1>7 DEF SfssInv, StateInv
  <2> QED BY <1>1, <2>1, <2>2, <2>3, <2>4 DEF SfssInv, StateInv, ListingFits
<1>9. OneRequest'
  BY <1>1, <1>5, <1>6, <1>7 DEF SfssInv, OneRequest
<1>10. NothingReliedOn'
  BY <1>1, <1>5, <1>7 DEF SfssInv, NothingReliedOn
<1>11. Answers'
  <2> SUFFICES ASSUME NEW m \in toKernel' PROVE AnswerTrue(m)'
    BY DEF Answers
  <2>1. AnswerTrue(m) /\ current_syscall'[m.process_pos] = current_syscall[m.process_pos]
    BY <1>5, <1>7 DEF SfssInv, Answers
  <2> QED BY <1>1, <2>1 DEF AnswerTrue
<1>12. AcknowledgedBlocksSurvive'
  <2> SUFFICES ASSUME NEW q \in Procs, NEW b \in acked'[q] PROVE Holds(q, b, fs[q])
    BY <1>1 DEF AcknowledgedBlocksSurvive, Holds
  <2>1. CASE b \in acked[q]
    BY <2>1 DEF SfssInv, AcknowledgedBlocksSurvive, Holds
  <2>2. CASE q = p /\ b \in Learned(p, r)
    <3>1. /\ a.Op = "WR" /\ ~a.is_shared /\ r.response.ret = "SUCCESS"
          /\ b = [path |-> a.path, offset |-> a.offset]
      BY <2>2 DEF Learned
    <3>2. BlockAt(fs[p], a) = p
      BY <1>2, <3>1 DEF AnswerTrue, TrueOf
    <3>3. p # NoBlock
      BY <1>2 DEF Procs, NoBlock
    <3>4. Holds(p, b, fs[p])
      BY <3>1, <3>2, <3>3 DEF BlockAt, Holds
    <3> QED BY <2>2, <3>4
  <2> QED BY <1>5, <1>6, <2>1, <2>2
<1> QED BY <1>8, <1>9, <1>10, <1>11, <1>12 DEF SfssInv

\* A process that waits for nothing sends a request.
LEMMA SendStep ==
  ASSUME SfssInv, NEW p \in Procs, NEW args, IsRequest(args), Send(p, args),
         current_syscall[p] = NoArgs, UNCHANGED resp,
         p \in listed', listed \subseteq listed', listed' \subseteq Procs,
         calls' \in 0..MaxCalls
  PROVE  SfssInv'
<1> DEFINE s == [process_pos |-> p, args |-> args]
<1>1. /\ current_syscall' = [current_syscall EXCEPT ![p] = args]
      /\ toSfss' = toSfss \cup {s}
      /\ acked' = [acked EXCEPT ![p] = Forgotten(p, args)]
      /\ UNCHANGED <<fs, toKernel, current_response, run>>
  BY DEF Send, disk
<1>2. args \in Arguments /\ args.Op # "NO_OPERATION" /\ NoArgs.Op = "NO_OPERATION"
  BY DEF IsRequest, NoArgs
<1>3. Forgotten(p, args) \subseteq acked[p]
  BY DEF Forgotten
<1>4. \A q \in Procs : q # p => /\ current_syscall'[q] = current_syscall[q]
                                /\ acked'[q] = acked[q]
  BY <1>1 DEF SfssInv, StateInv
<1>5. current_syscall'[p] = args /\ acked'[p] = Forgotten(p, args)
  BY <1>1 DEF SfssInv, StateInv
<1>6. \A q \in Procs : acked'[q] \subseteq acked[q]
  BY <1>3, <1>4, <1>5
<1>7. /\ \A r \in toSfss : r.process_pos # p /\ r.process_pos \in Procs
      /\ \A m \in toKernel : m.process_pos # p /\ m.process_pos \in Procs
  BY <1>2 DEF SfssInv, OneRequest, StateInv, IsRequest
<1>8. s.process_pos = p /\ s.args = args
  OBVIOUS
<1> HIDE DEF s
<1>9. StateInv'
  <2>1. current_syscall' \in [Procs -> Arguments]
    BY <1>1, <1>2 DEF SfssInv, StateInv
  <2>2. acked' \in [Procs -> SUBSET [path : Paths, offset : 0..MaxOffset]]
    <3>1. acked \in [Procs -> SUBSET [path : Paths, offset : 0..MaxOffset]]
      BY DEF SfssInv, StateInv
    <3>2. Forgotten(p, args) \in SUBSET [path : Paths, offset : 0..MaxOffset]
      BY <1>3, <3>1
    <3> QED BY <1>1, <3>1, <3>2
  <2>3. \A r \in toSfss' : r \in [process_pos : Procs, args : Arguments] /\ IsRequest(r.args)
    BY <1>1, <1>2 DEF SfssInv, StateInv, s
  <2> QED BY <1>1, <2>1, <2>2, <2>3 DEF SfssInv, StateInv, ListingFits
<1>10. OneRequest'
  <2>1. \A r \in toSfss' : r \in toSfss \/ (r.process_pos = p /\ r.args = args)
    BY <1>1, <1>8
  <2>2. \A r \in toSfss' : r.args = current_syscall'[r.process_pos]
    BY <1>4, <1>5, <1>7, <2>1 DEF SfssInv, OneRequest
  <2>3. \A m \in toKernel' : current_syscall'[m.process_pos].Op # "NO_OPERATION"
    BY <1>1, <1>4, <1>7 DEF SfssInv, OneRequest
  <2>4. \A r \in toSfss', m \in toKernel' : r.process_pos # m.process_pos
    BY <1>1, <1>7, <2>1 DEF SfssInv, OneRequest
  <2>5. \A q \in Procs \ listed' : current_syscall'[q] = NoArgs
    BY <1>4 DEF SfssInv, OneRequest
  <2> QED BY <1>1, <2>2, <2>3, <2>4, <2>5 DEF SfssInv, OneRequest
<1>11. NothingReliedOn'
  <2> SUFFICES ASSUME NEW r \in toSfss', r.args.Op = "DR", ~r.args.is_shared,
                      NEW b \in acked'[r.process_pos]
               PROVE  b.path # r.args.path
    BY DEF NothingReliedOn
  <2>1. CASE r \in toSfss
    BY <1>6, <1>7, <2>1 DEF SfssInv, NothingReliedOn
  <2>2. CASE r = s
    BY <1>5, <1>8, <2>2 DEF Forgotten
  <2> QED BY <1>1, <2>1, <2>2
<1>12. Answers'
  <2> SUFFICES ASSUME NEW m \in toKernel PROVE AnswerTrue(m)'
    BY <1>1 DEF Answers
  <2>1. AnswerTrue(m) /\ current_syscall'[m.process_pos] = current_syscall[m.process_pos]
    BY <1>4, <1>7 DEF SfssInv, Answers
  <2> QED BY <1>1, <2>1 DEF AnswerTrue
<1>13. AcknowledgedBlocksSurvive'
  BY <1>1, <1>6 DEF SfssInv, AcknowledgedBlocksSurvive
<1> QED BY <1>9, <1>10, <1>11, <1>12, <1>13 DEF SfssInv

\* The trees a stop leaves keep every file, the one being written included.
StillThere(trees) ==
  /\ DOMAIN trees = Roots
  /\ \A a \in Roots : /\ IsTree(trees[a])
                      /\ \A q : IsFile(fs[a], q) => KeepsFile(a, q, fs[a], trees[a])

\* A write that was stopped keeps every file, and touches one tree.
LEMMA TornTrees ==
  ASSUME SfssInv, NEW r \in toSfss, NEW trees \in Torn(r)
  PROVE  StillThere(trees) /\ \A a \in Roots : a # Root(r) => trees[a] = fs[a]
<1> DEFINE t == fs[Root(r)]
           path == r.args.path
           off == r.args.offset
<1>1. /\ r \in [process_pos : Procs, args : Arguments] /\ IsRequest(r.args)
      /\ DOMAIN fs = Roots /\ \A a \in Roots : IsTree(fs[a])
  BY DEF SfssInv, StateInv
<1>2. Root(r) \in Roots /\ path \in Paths /\ off \in 0..MaxOffset
  BY <1>1 DEF Root, Roots, Procs, Shared, Arguments
<1>3. PICK b \in {Opened(t, path), Padded(Opened(t, path), off)} :
        Writable(t, path) /\ trees = [fs EXCEPT ![Root(r)] = With(t, path, File(b))]
  BY DEF Torn
<1> DEFINE u == With(t, path, File(b))
<1>4. PICK k : IsContents(Opened(t, path), k)
  BY <1>1, <1>2, OpenedContents
<1>5. PICK j : IsContents(b, j) /\ k <= j /\ \A i \in 1..k : b[i] = Opened(t, path)[i]
  <2>1. CASE b = Opened(t, path)
    BY <1>4, <2>1 DEF IsContents
  <2>2. CASE b = Padded(Opened(t, path), off)
    BY <1>2, <1>4, <2>2, PaddedBlocks
  <2> QED BY <1>3, <2>1, <2>2
<1>6. \A m : IsContents(Opened(t, path), m) =>
               m <= j /\ \A i \in 1..m : b[i] \in {Opened(t, path)[i], Root(r)}
  BY <1>4, <1>5, SameContents
<1>7. IsTree(u)
  BY <1>1, <1>2, <1>3, <1>5, WithFile
<1>8. \A q : IsFile(t, q) => KeepsFile(Root(r), q, t, u)
  BY <1>1, <1>2, <1>5, <1>6, FileKept
<1>9. /\ DOMAIN trees = Roots /\ trees[Root(r)] = u
      /\ \A a \in Roots : a # Root(r) => trees[a] = fs[a]
  BY <1>1, <1>2, <1>3
<1> HIDE DEF u
<1>10. ASSUME NEW a \in Roots
       PROVE  IsTree(trees[a]) /\ \A q : IsFile(fs[a], q) => KeepsFile(a, q, fs[a], trees[a])
  BY <1>1, <1>7, <1>8, <1>9, KeepsFileSelf
<1> QED BY <1>9, <1>10 DEF StillThere

\* init_fs_root keeps what is there.
LEMMA RootsCreated ==
  ASSUME SfssInv, NEW trees, StillThere(trees)
  PROVE  StillThere(init_fs_root(trees))
<1> DEFINE new == init_fs_root(trees)
<1>1. /\ DOMAIN new = Roots
      /\ \A a \in Roots : new[a] = IF <<>> \in DOMAIN trees[a] THEN trees[a]
                                   ELSE With(trees[a], <<>>, Dir)
  BY DEF init_fs_root
<1> HIDE DEF new
<1>2. ASSUME NEW a \in Roots
      PROVE  IsTree(new[a]) /\ \A q : IsFile(fs[a], q) => KeepsFile(a, q, fs[a], new[a])
  <2>1. IsTree(trees[a]) /\ \A q : IsFile(fs[a], q) => KeepsFile(a, q, fs[a], trees[a])
    BY DEF StillThere
  <2>2. CASE <<>> \in DOMAIN trees[a]
    BY <1>1, <2>1, <2>2
  <2>3. CASE <<>> \notin DOMAIN trees[a]
    <3>1. new[a] = With(trees[a], <<>>, Dir)
      BY <1>1, <2>3
    <3>2. <<>> \in Paths /\ <<>> # <<MyPath>>
      BY PathFacts DEF Paths
    <3>3. IsTree(new[a])
      BY <2>1, <2>3, <3>1, <3>2, WithDir
    <3>4. \A q \in DOMAIN trees[a] : q \in DOMAIN new[a] /\ new[a][q] = trees[a][q]
      BY <2>3, <3>1 DEF With
    <3>5. ASSUME NEW q, IsFile(fs[a], q) PROVE KeepsFile(a, q, fs[a], new[a])
      <4>1. KeepsFile(a, q, fs[a], trees[a]) /\ IsFile(trees[a], q)
        BY <2>1, <3>5 DEF KeepsFile
      <4> QED BY <3>4, <4>1 DEF KeepsFile, IsFile
    <3> QED BY <3>3, <3>5
  <2> QED BY <2>2, <2>3
<1> QED BY <1>1, <1>2 DEF StillThere, new

\* A stop and a new start.
LEMMA RestartStep ==
  ASSUME SfssInv, Restart
  PROVE  SfssInv'
<1>1. PICK trees \in {fs} \cup UNION {Torn(r) : r \in toSfss} : fs' = init_fs_root(trees)
  BY DEF Restart
<1>2. StillThere(trees)
  <2>1. CASE trees = fs
    BY <2>1, KeepsFileSelf DEF SfssInv, StateInv, StillThere
  <2>2. CASE \E r \in toSfss : trees \in Torn(r)
    BY <2>2, TornTrees
  <2> QED BY <1>1, <2>1, <2>2
<1>3. StillThere(fs')
  BY <1>1, <1>2, RootsCreated
<1>4. /\ run < MaxRuns /\ run' = run + 1 /\ resp' = NoAnswer /\ toSfss' = {} /\ toKernel' = {}
      /\ current_syscall' = [p \in Procs |-> NoArgs]
      /\ current_response' = [p \in Procs |-> NoAnswer]
      /\ listed' = {} /\ UNCHANGED <<calls, acked>>
  BY DEF Restart
<1>5. IsResponse(NoAnswer) /\ Cardinality(NoAnswer.names) <= MAX_DIR_ENTRIES
  BY FS_EmptySet DEF IsResponse, NoAnswer, Responses
<1>6. NoArgs \in Arguments
  BY DEF NoArgs, Arguments, Paths, AllNames
<1>7. StateInv'
  <2>1. current_syscall' \in [Procs -> Arguments] /\ current_response' \in [Procs -> Responses]
        /\ \A q \in Procs : IsResponse(current_response'[q])
    BY <1>4, <1>5, <1>6 DEF IsResponse
  <2>2. run' \in 1..MaxRuns
    BY <1>4 DEF SfssInv, StateInv
  <2>3. DOMAIN fs' = Roots /\ \A a \in Roots : IsTree(fs'[a])
    BY <1>3 DEF StillThere
  <2>4. IsResponse(resp') /\ ListingFits'
    BY <1>4, <1>5 DEF ListingFits
  <2> QED BY <1>4, <2>1, <2>2, <2>3, <2>4 DEF SfssInv, StateInv
<1>8. OneRequest' /\ NothingReliedOn' /\ Answers'
  BY <1>4 DEF OneRequest, NothingReliedOn, Answers
<1>9. AcknowledgedBlocksSurvive'
  <2> SUFFICES ASSUME NEW a \in Procs, NEW b \in acked[a] PROVE Holds(a, b, fs'[a])
    BY <1>4 DEF AcknowledgedBlocksSurvive, Holds
  <2>1. Holds(a, b, fs[a])
    BY DEF SfssInv, AcknowledgedBlocksSurvive, Holds
  <2>2. a \in Roots /\ b.offset \in Nat
    BY DEF SfssInv, StateInv, Procs, Roots
  <2>3. IsTree(fs[a]) /\ IsTree(fs'[a]) /\ KeepsFile(a, b.path, fs[a], fs'[a])
    BY <1>3, <2>1, <2>2 DEF SfssInv, StateInv, StillThere, Holds
  <2> QED BY <2>1, <2>2, <2>3, HoldsKept
<1> QED BY <1>7, <1>8, <1>9 DEF SfssInv

\* Every step keeps the invariant.
LEMMA SfssStep == SfssInv /\ [SfssNext]_sfssVars => SfssInv'
<1> SUFFICES ASSUME SfssInv, [SfssNext]_sfssVars PROVE SfssInv'
  OBVIOUS
<1>1. ASSUME NEW r \in toSfss, Serve(r) PROVE SfssInv'
  BY <1>1, ServeStep
<1>2. ASSUME NEW r \in toKernel, Deliver(r) PROVE SfssInv'
  BY <1>2, DeliverStep
<1>3. ASSUME NEW p \in Procs, ListAtStart(p) PROVE SfssInv'
  <2>1. current_syscall[p] = NoArgs /\ listed \subseteq Procs /\ calls \in 0..MaxCalls
    BY <1>3 DEF ListAtStart, SfssInv, StateInv, OneRequest
  <2>2. IsRequest(Args("DL", FALSE, <<>>))
    <3>1. <<>> \in Paths
      BY DEF Paths
    <3>2. Args("DL", FALSE, <<>>) \in Arguments /\ Args("DL", FALSE, <<>>).Op = "DL"
      BY <3>1, ArgsType
    <3> QED BY <3>2 DEF IsRequest
  <2>3. Send(p, Args("DL", FALSE, <<>>)) /\ UNCHANGED resp
    BY <1>3 DEF ListAtStart, Send, disk
  <2> QED BY <1>3, <2>1, <2>2, <2>3, SendStep DEF ListAtStart
<1>4. ASSUME NEW p \in Procs, maybe_syscall(p) PROVE SfssInv'
  <2>1. /\ current_syscall[p] = NoArgs /\ listed \subseteq Procs /\ listed' = listed
        /\ calls' \in 0..MaxCalls /\ p \in listed
    BY <1>4 DEF maybe_syscall, SfssInv, StateInv
  <2>2. PICK shared \in BOOLEAN : \E args \in SyscallsOf(p, shared) : Send(p, args)
    BY <1>4 DEF maybe_syscall
  <2>3. IsResponse(current_response[p])
    BY DEF SfssInv, StateInv
  <2>6. PICK args \in SyscallsOf(p, shared) : Send(p, args)
    BY <2>2
  <2>4. IsRequest(args)
    BY <2>3, SyscallIsRequest
  <2>5. UNCHANGED resp
    BY <2>6 DEF Send, disk
  <2> QED BY <2>1, <2>6, <2>4, <2>5, SendStep
<1>5. CASE Restart
  BY <1>5, RestartStep
<1>6. CASE UNCHANGED sfssVars
  BY <1>6 DEF sfssVars, disk, wire, kernel, counts, SfssInv, StateInv, OneRequest,
      NothingReliedOn, Answers, AnswerTrue, AcknowledgedBlocksSurvive, ListingFits
<1> QED BY <1>1, <1>2, <1>3, <1>4, <1>5, <1>6 DEF SfssNext

\* The invariant holds of every behaviour.
LEMMA SfssCorrect == SfssSpec => []SfssInv
<1> QED BY SfssInitially, SfssStep, PTL DEF SfssSpec

------------------------------------------------------------------------------
(***************************************************************************)
(* The theorems.                                                           *)
(***************************************************************************)
\* Trees stay trees, with paths of two names at most, every path in a directory
\* and files that fit the offsets, and what is under way is of the types of
\* state.h, whatever the processes ask for (SfssTypeOK).
THEOREM SfssTypeCorrect == SfssSpec => []SfssTypeOK
<1>1. SfssInv => SfssTypeOK
  BY InvImplies
<1> QED BY <1>1, SfssCorrect, PTL

\* Nothing of an earlier request is in a response, and the answer to a private
\* request is true of the disk for as long as it is under way
\* (AnswerStillHolds: the memset at sfss.c:349 and the roots of build_full_path).
THEOREM AnswersAreTrue == SfssSpec => []AnswerStillHolds
<1>1. SfssInv => AnswerStillHolds
  BY InvImplies
<1> QED BY <1>1, SfssCorrect, PTL

\* What a process was told it wrote in its own directory is there until it asks to delete
\* it, through later writes, a stop in the middle of one and new starts
\* (AcknowledgedBlocksSurvive: the "r+b" and the padding of handle_write, init_fs_root).
THEOREM WritesAreDurable == SfssSpec => []AcknowledgedBlocksSurvive
<1>1. SfssInv => AcknowledgedBlocksSurvive
  BY InvImplies
<1> QED BY <1>1, SfssCorrect, PTL

\* A listing fits the arrays of a response (ListingFits: the loop of
\* handle_list_directory has no bound of its own).
THEOREM ListingsFit == SfssSpec => []ListingFits
<1>1. SfssInv => ListingFits
  BY InvImplies
<1> QED BY <1>1, SfssCorrect, PTL

\* Only its owner changes a private tree, by a request that is not shared, or a
\* new start, which adds an empty root at most to a tree nobody was writing to
\* (PrivateIsolation: build_full_path).
THEOREM TreesArePrivate == SfssSpec => PrivateIsolation
<1> DEFINE Changed(p) ==
             \/ run' # run /\ (\/ <<>> \notin DOMAIN fs[p]
                              \/ \E r \in toSfss : r.process_pos = p /\ ~r.args.is_shared)
             \/ \E r \in toSfss \ toSfss' : r.process_pos = p /\ ~r.args.is_shared
<1>1. ASSUME SfssInv, [SfssNext]_sfssVars, NEW p \in Procs, fs'[p] # fs[p]
      PROVE  Changed(p)
  <2>1. ASSUME NEW r \in toSfss, Serve(r) PROVE Changed(p)
    <3>1. PICK u, ans : Replaces(Root(r), u) /\ Answer(r, ans)
      BY <1>1, <2>1, ServeEffect DEF Effect
    <3>2. Root(r) = p
      BY <1>1, <3>1 DEF Replaces, SfssInv, StateInv, Procs, Roots
    <3>3. r.process_pos = p /\ ~r.args.is_shared
      BY <3>2 DEF Root, Shared, Procs
    <3>4. r \notin toSfss'
      BY <3>1 DEF Answer
    <3> QED BY <2>1, <3>3, <3>4
  <2>2. CASE Restart
    <3>1. run' # run
      BY <1>1, <2>2 DEF Restart, SfssInv, StateInv
    <3>2. PICK trees \in {fs} \cup UNION {Torn(r) : r \in toSfss} : fs' = init_fs_root(trees)
      BY <2>2 DEF Restart
    <3>3. p \in Roots
      BY DEF Procs, Roots
    <3>4. trees[p] = fs[p] /\ <<>> \in DOMAIN fs[p] => fs'[p] = fs[p]
      BY <3>2, <3>3 DEF init_fs_root
    <3>5. CASE trees[p] = fs[p]
      BY <1>1, <3>1, <3>4, <3>5
    <3>6. CASE trees[p] # fs[p]
      <4>1. PICK r \in toSfss : trees \in Torn(r)
        BY <3>2, <3>6
      <4>2. Root(r) = p
        BY <1>1, <3>3, <3>6, <4>1, TornTrees
      <4>3. r.process_pos = p /\ ~r.args.is_shared
        BY <4>2 DEF Root, Shared, Procs
      <4> QED BY <3>1, <4>1, <4>3
    <3> QED BY <3>5, <3>6
  <2>3. ASSUME UNCHANGED fs PROVE Changed(p)
    BY <1>1, <2>3
  <2>4. (\E r \in toKernel : Deliver(r)) => UNCHANGED fs
    BY DEF Deliver, disk
  <2>5. (\E q \in Procs : ListAtStart(q) \/ maybe_syscall(q)) => UNCHANGED fs
    BY DEF ListAtStart, maybe_syscall, Send, disk
  <2>6. UNCHANGED sfssVars => UNCHANGED fs
    BY DEF sfssVars, disk
  <2> QED BY <1>1, <2>1, <2>2, <2>3, <2>4, <2>5, <2>6 DEF SfssNext
<1>2. SfssInv /\ [SfssNext]_sfssVars =>
        [\A p \in Procs : fs'[p] # fs[p] =>
           \/ run' # run /\ \/ <<>> \notin DOMAIN fs[p]
                            \/ \E r \in toSfss : r.process_pos = p /\ ~r.args.is_shared
           \/ \E r \in toSfss \ toSfss' : r.process_pos = p /\ ~r.args.is_shared]_sfssVars
  BY <1>1
<1> QED BY <1>2, SfssCorrect, PTL DEF SfssSpec, PrivateIsolation
=============================================================================
