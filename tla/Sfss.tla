--------------------------------- MODULE Sfss ---------------------------------
(***************************************************************************)
(* The file server of trab2/sfss.c, with the requests A.c really builds.   *)
(* Every process has one request under way at most, and gets the response  *)
(* to that very request: this is what Trab2 promises and what the kernel   *)
(* is reduced to here.                                                     *)
(*                                                                         *)
(* A tree is a function from the paths that exist to what is there; a path *)
(* is a sequence of names, <<>> the root directory of the tree.  A file is *)
(* a sequence of 16-byte blocks, since every offset is a multiple of 16    *)
(* and every write is 16 bytes long.  The payload a process writes is its  *)
(* own number, so that a block tells who wrote it.                         *)
(***************************************************************************)
EXTENDS Integers, Sequences, FiniteSets, Functions

CONSTANTS
  N,                \* number of application processes
  Names,            \* the names generate_random_name can draw
  MyPath,           \* "mypath", the file a process asks for when it knows none
  MaxOffset,        \* last block of a file: offsets are (rand() % 7) * 16
  MAX_DIR_ENTRIES,  \* size of the arrays of a listing
  MaxCalls,         \* bound on the syscalls beyond the initial listings
  MaxRuns           \* bound on the number of times the simulator is started

ASSUME SfssNAssumption == N \in Nat \ {0}
ASSUME NamesAssumption == /\ IsFiniteSet(Names) /\ MyPath \notin Names
                          /\ Cardinality(Names) + 1 <= MAX_DIR_ENTRIES
ASSUME SfssBoundsAssumption == /\ {MaxOffset, MaxCalls, MAX_DIR_ENTRIES} \subseteq Nat
                               /\ MaxRuns \in Nat \ {0}

Procs == 1..N
Shared == 0                \* the directory A0; process p owns the directory A<p>
Roots == 0..N
AllNames == Names \cup {MyPath}

Aaaa == 0                  \* the block each mypath starts with
Space == -1                \* sixteen spaces
NoBlock == -2              \* the payload of a response without one
Blocks == -1..N

Dir == [type |-> "DIR", blocks |-> <<>>]
File(blocks) == [type |-> "FILE", blocks |-> blocks]

NoArgs == [Op |-> "NO_OPERATION", is_shared |-> FALSE, path |-> <<>>,
           dir_name |-> MyPath, offset |-> 0]
Args(op, shared, path) ==
  [NoArgs EXCEPT !.Op = op, !.is_shared = shared, !.path = path]

VARIABLES
  fs,                \* the trees on disk: A0 and one per process
  resp,              \* resp of main(): the buffer the server answers from
  toSfss,            \* requests in flight: owners and arguments
  toKernel,          \* responses in flight: owners and contents
  current_syscall,   \* per process, what it waits for (NoArgs: it runs)
  current_response,  \* per process, the last response it got
  listed,            \* processes that made their initial listing
  calls,             \* syscalls made beyond those (bound)
  run,               \* how many times the simulator was started (bound)
  acked              \* history: blocks of its own a process knows it wrote

disk == <<fs, resp>>
wire == <<toSfss, toKernel>>
kernel == <<current_syscall, current_response>>
counts == <<listed, calls, run>>
sfssVars == <<disk, wire, kernel, counts, acked>>

------------------------------------------------------------------------------
\* Trees.
IsDir(t, p) == p \in DOMAIN t /\ t[p].type = "DIR"
IsFile(t, p) == p \in DOMAIN t /\ t[p].type = "FILE"
Parent(p) == SubSeq(p, 1, Len(p) - 1)
Creatable(t, p) == p # <<>> /\ p \notin DOMAIN t /\ IsDir(t, Parent(p))
Below(t, p) == {q \in DOMAIN t : q # <<>> /\ Parent(q) = p}
With(t, p, node) == [q \in DOMAIN t \cup {p} |-> IF q = p THEN node ELSE t[q]]
Without(t, p) == Restrict(t, DOMAIN t \ {p})

\* The root a request reaches: build_full_path.
Root_inverted(r) == IF r.args.is_shared THEN r.process_pos ELSE Shared
Root(r) == IF r.args.is_shared THEN Shared ELSE r.process_pos

NoAnswer == [ret |-> "EMPTY", payload |-> NoBlock, names |-> {}]

\* What is in the buffer before a handler runs: the memset of main().
Blank_notCleared == resp
Blank == NoAnswer
Failed == [Blank EXCEPT !.ret = "ERROR"]
Succeeded == [Blank EXCEPT !.ret = "SUCCESS"]

\* The server answers request r with a, after the effect the handler gives.
Answer(r, a) ==
  /\ resp' = a
  /\ toSfss' = toSfss \ {r}
  /\ toKernel' = toKernel \cup {[process_pos |-> r.process_pos, response |-> a]}

handle_read(r, t) ==
  /\ r.args.Op = "RD"
  /\ IF IsFile(t, r.args.path) /\ r.args.offset < Len(t[r.args.path].blocks)
       THEN Answer(r, [Succeeded EXCEPT !.payload =
                         t[r.args.path].blocks[r.args.offset + 1]])
       ELSE Answer(r, Failed)
  /\ UNCHANGED fs

\* fopen "r+b" keeps what a file holds, "w+b" creates an empty one.
Opened_truncated(t, p) == <<>>
Opened(t, p) == IF IsFile(t, p) THEN t[p].blocks ELSE <<>>

\* Spaces up to the offset, when the file ends before it.
Padded(blocks, offset) ==
  [k \in 1..(IF Len(blocks) < offset THEN offset ELSE Len(blocks)) |->
     IF k <= Len(blocks) THEN blocks[k] ELSE Space]

Written(blocks, offset, payload) ==
  LET b == Padded(blocks, offset)
  IN [k \in 1..(IF Len(b) = offset THEN offset + 1 ELSE Len(b)) |->
        IF k = offset + 1 THEN payload ELSE b[k]]

Writable(t, p) == IsFile(t, p) \/ Creatable(t, p)

handle_write(r, t) ==
  /\ r.args.Op = "WR"
  /\ IF Writable(t, r.args.path)
       THEN /\ fs' = [fs EXCEPT ![Root(r)] =
                        With(t, r.args.path,
                             File(Written(Opened(t, r.args.path), r.args.offset,
                                          r.process_pos)))]
            /\ Answer(r, Succeeded)
       ELSE Answer(r, Failed) /\ UNCHANGED fs

\* mkdir under the path of the request.
Target(args) == Append(args.path, args.dir_name)

handle_create_directory(r, t) ==
  /\ r.args.Op = "DC"
  /\ IF Creatable(t, Target(r.args))
       THEN /\ fs' = [fs EXCEPT ![Root(r)] = With(t, Target(r.args), Dir)]
            /\ Answer(r, Succeeded)
       ELSE Answer(r, Failed) /\ UNCHANGED fs

\* remove: a file, or a directory that is empty, the root included.
handle_delete(r, t) ==
  /\ r.args.Op = "DR"
  /\ IF r.args.path \in DOMAIN t /\ Below(t, r.args.path) = {}
       THEN /\ fs' = [fs EXCEPT ![Root(r)] = Without(t, r.args.path)]
            /\ Answer(r, Succeeded)
       ELSE Answer(r, Failed) /\ UNCHANGED fs

\* scandir through file_select, which leaves out the entries "." and "..".
Listing_withDots(t, p) ==
  {[name |-> q[Len(q)], type |-> t[q].type] : q \in Below(t, p)}
    \cup {[name |-> d, type |-> "DIR"] : d \in {".", ".."}}
Listing(t, p) ==
  {[name |-> q[Len(q)], type |-> t[q].type] : q \in Below(t, p)}

handle_list_directory(r, t) ==
  /\ r.args.Op = "DL"
  /\ IF IsDir(t, r.args.path)
       THEN Answer(r, [Succeeded EXCEPT !.names = Listing(t, r.args.path)])
       ELSE Answer(r, Failed)
  /\ UNCHANGED fs

\* One turn of the loop of main().
Serve(r) ==
  /\ \/ handle_read(r, fs[Root(r)])
     \/ handle_write(r, fs[Root(r)])
     \/ handle_create_directory(r, fs[Root(r)])
     \/ handle_delete(r, fs[Root(r)])
     \/ handle_list_directory(r, fs[Root(r)])
  /\ UNCHANGED <<kernel, counts, acked>>

------------------------------------------------------------------------------
(***************************************************************************)
(* A.c: the arguments of a syscall.  What a process knows of the directory *)
(* tree is what its last response holds.                                   *)
(***************************************************************************)
Known(p, type) == {<<e.name>> : e \in {n \in current_response[p].names : n.type = type}}
pick_existing_file(p) ==
  IF Known(p, "FILE") = {} THEN {<<MyPath>>} ELSE Known(p, "FILE")
pick_existing_directory(p) ==
  IF Known(p, "DIR") = {} THEN {<<>>} ELSE Known(p, "DIR")

Offsets_eight == 0..MaxOffset + 1
Offsets == 0..MaxOffset

NewFiles(p) == {Append(d, n) : d \in {<<>>} \cup pick_existing_directory(p), n \in Names}

\* The arguments maybe_syscall of A.c may build for process p.
SyscallsOf(p, shared) ==
  {[Args(op, shared, path) EXCEPT !.offset = off] :
       op \in {"RD", "WR"}, path \in pick_existing_file(p), off \in Offsets}
  \cup {[Args("WR", shared, path) EXCEPT !.offset = off] :
       path \in NewFiles(p), off \in Offsets}
  \cup {[Args("DC", shared, path) EXCEPT !.dir_name = n] :
       path \in {<<>>} \cup pick_existing_directory(p), n \in Names}
  \cup {Args("DR", shared, path) :
       path \in pick_existing_file(p) \cup pick_existing_directory(p)}
  \cup {Args("DL", shared, path) : path \in {<<>>} \cup pick_existing_directory(p)}

\* A file its owner asks to delete is no longer known to hold anything.
Forgotten(p, args) ==
  IF args.Op = "DR" /\ ~args.is_shared
    THEN {b \in acked[p] : b.path # args.path} ELSE acked[p]

\* handle_syscall and send_request_to_sfss of the kernel.
Send(p, args) ==
  /\ current_syscall' = [current_syscall EXCEPT ![p] = args]
  /\ toSfss' = toSfss \cup {[process_pos |-> p, args |-> args]}
  /\ acked' = [acked EXCEPT ![p] = Forgotten(p, args)]
  /\ UNCHANGED <<disk, toKernel, current_response, run>>

\* The listing of its own directory every process starts with.
ListAtStart(p) ==
  /\ p \notin listed
  /\ Send(p, Args("DL", FALSE, <<>>))
  /\ listed' = listed \cup {p}
  /\ UNCHANGED calls

maybe_syscall(p) ==
  /\ p \in listed
  /\ current_syscall[p] = NoArgs
  /\ calls < MaxCalls
  /\ \E shared \in BOOLEAN : \E args \in SyscallsOf(p, shared) : Send(p, args)
  /\ calls' = calls + 1
  /\ UNCHANGED listed

\* The block of its own directory a successful write told its writer of.
Learned(p, r) ==
  LET args == current_syscall[p]
  IN IF args.Op = "WR" /\ ~args.is_shared /\ r.response.ret = "SUCCESS"
       THEN {[path |-> args.path, offset |-> args.offset]} ELSE {}

\* The kernel hands a response to its owner, over the whole of the last one.
Deliver(r) ==
  LET p == r.process_pos
  IN /\ toKernel' = toKernel \ {r}
     /\ current_response' = [current_response EXCEPT ![p] = r.response]
     /\ current_syscall' = [current_syscall EXCEPT ![p] = NoArgs]
     /\ acked' = [acked EXCEPT ![p] = @ \cup Learned(p, r)]
     /\ UNCHANGED <<disk, toSfss, counts>>

------------------------------------------------------------------------------
\* init_fs_root: the roots that do not exist are created.
init_fs_root(trees) ==
  [a \in Roots |-> IF <<>> \in DOMAIN trees[a] THEN trees[a] ELSE With(trees[a], <<>>, Dir)]

\* The disks a write of the server that is killed halfway may leave: the file
\* created, or padded, and the sixteen bytes still in the buffer of its stream.
Torn(r) ==
  LET t == fs[Root(r)]
      blocks == Opened(t, r.args.path)
  IN IF r.args.Op = "WR" /\ Writable(t, r.args.path)
       THEN {[fs EXCEPT ![Root(r)] = With(t, r.args.path, File(b))] :
               b \in {blocks, Padded(blocks, r.args.offset)}}
       ELSE {}

\* Ctrl-C, or the end, and a new start: compile_n_run.sh kills the server, the
\* files stay, everything else starts again.
Restart ==
  /\ run < MaxRuns
  /\ run' = run + 1
  /\ \E trees \in {fs} \cup UNION {Torn(r) : r \in toSfss} : fs' = init_fs_root(trees)
  /\ resp' = NoAnswer
  /\ toSfss' = {} /\ toKernel' = {}
  /\ current_syscall' = [p \in Procs |-> NoArgs]
  /\ current_response' = [p \in Procs |-> NoAnswer]
  /\ listed' = {}
  /\ UNCHANGED <<calls, acked>>

\* The repository comes with a mypath in each of the roots.
FirstTree == [q \in {<<>>, <<MyPath>>} |-> IF q = <<>> THEN Dir ELSE File(<<Aaaa>>)]

SfssInit ==
  /\ fs = [a \in Roots |-> FirstTree]
  /\ resp = NoAnswer
  /\ toSfss = {} /\ toKernel = {}
  /\ current_syscall = [p \in Procs |-> NoArgs]
  /\ current_response = [p \in Procs |-> NoAnswer]
  /\ listed = {} /\ calls = 0 /\ run = 1
  /\ acked = [p \in Procs |-> {}]

SfssNext ==
  \/ \E r \in toSfss : Serve(r)
  \/ \E r \in toKernel : Deliver(r)
  \/ \E p \in Procs : ListAtStart(p) \/ maybe_syscall(p)
  \/ Restart

SfssSpec == SfssInit /\ [][SfssNext]_sfssVars

------------------------------------------------------------------------------
Paths == {<<>>} \cup {<<n>> : n \in AllNames} \cup {<<d, n>> : d \in Names, n \in Names}
Responses == [ret : {"EMPTY", "ERROR", "SUCCESS"}, payload : Blocks \cup {NoBlock},
              names : SUBSET [name : AllNames, type : {"DIR", "FILE"}]]
Arguments == [Op : {"NO_OPERATION", "RD", "WR", "DC", "DR", "DL"}, is_shared : BOOLEAN,
              path : Paths, dir_name : AllNames, offset : 0..MaxOffset]

\* Trees hold paths of two names at most and files that fit the offsets, every
\* path is in a directory, and all messages are of the types of state.h.
SfssTypeOK ==
  /\ DOMAIN fs = Roots
  /\ \A a \in Roots :
       /\ DOMAIN fs[a] \subseteq Paths
       /\ \A q \in DOMAIN fs[a] :
            /\ fs[a][q] = Dir \/ \E k \in 0..MaxOffset + 1 :
                                   fs[a][q] \in [type : {"FILE"}, blocks : [1..k -> Blocks]]
            /\ q # <<>> => IsDir(fs[a], Parent(q))
  /\ resp \in Responses
  /\ toSfss \subseteq [process_pos : Procs, args : Arguments]
  /\ toKernel \subseteq [process_pos : Procs, response : Responses]
  /\ current_syscall \in [Procs -> Arguments]
  /\ current_response \in [Procs -> Responses]
  /\ listed \subseteq Procs /\ calls \in 0..MaxCalls /\ run \in 1..MaxRuns
  /\ acked \in [Procs -> SUBSET [path : Paths, offset : 0..MaxOffset]]

\* The tree of a process changes only while the server answers a request of its
\* own that is not shared; or when the simulator starts, and then all that
\* init_fs_root adds is an empty root (build_full_path, sfss.c:71-100).
PrivateIsolation ==
  [][\A p \in Procs : fs'[p] # fs[p] =>
       \/ run' # run /\ \/ <<>> \notin DOMAIN fs[p]
                        \/ \E r \in toSfss : r.process_pos = p /\ ~r.args.is_shared
       \/ \E r \in toSfss \ toSfss' : r.process_pos = p /\ ~r.args.is_shared]_sfssVars

\* Nothing was left in the response by an earlier request, of whichever process
\* (the memset at sfss.c:349); and the answer to a private request is still true
\* of the disk when its owner gets it, however long the answer was under way
\* and whatever the other processes did meanwhile.
AnswerStillHolds ==
  \A m \in toKernel :
    LET p == m.process_pos
        a == current_syscall[p]
        t == fs[p]
        r == m.response
        ok == r.ret = "SUCCESS"
        block == IF IsFile(t, a.path) /\ a.offset < Len(t[a.path].blocks)
                   THEN t[a.path].blocks[a.offset + 1] ELSE NoBlock
    IN /\ a.Op # "RD" \/ ~ok => r.payload = NoBlock
       /\ a.Op # "DL" \/ ~ok => r.names = {}
       /\ ~a.is_shared /\ a.Op = "RD" => r.payload = block
       /\ ~a.is_shared /\ a.Op = "WR" /\ ok => block = p
       /\ ~a.is_shared /\ a.Op = "DC" /\ ok => IsDir(t, Target(a))
       /\ ~a.is_shared /\ a.Op = "DR" /\ ok => a.path \notin DOMAIN t
       /\ ~a.is_shared /\ a.Op = "DL" /\ ok => r.names = Listing(t, a.path)

\* A block its writer knows it wrote in its own directory stays what it wrote,
\* until it deletes the file: through later writes to the same file, a server
\* killed in the middle of one of them (sfss.c:166-193) and new starts.
AcknowledgedBlocksSurvive ==
  \A p \in Procs : \A b \in acked[p] :
    /\ IsFile(fs[p], b.path)
    /\ b.offset < Len(fs[p][b.path].blocks)
    /\ fs[p][b.path].blocks[b.offset + 1] = p

\* A listing fits the arrays of fixed size it is copied into (sfss.c:282-291).
ListingFits == Cardinality(resp.names) <= MAX_DIR_ENTRIES

\* "assumindo que os dados do último DL persistem" (A.c:58): a response to
\* another operation leaves a process the names it knew.
ListingPersists ==
  [][\A p \in Procs :
       current_response'[p] # current_response[p] /\ run' = run
         /\ current_syscall[p].Op # "DL"
       => current_response'[p].names = current_response[p].names]_sfssVars
=============================================================================
