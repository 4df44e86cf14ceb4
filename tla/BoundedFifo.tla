------------------------------ MODULE BoundedFifo ------------------------------
(***************************************************************************)
(* What a bounded queue promises: items come out in the order they went    *)
(* in, each once, and no more than Capacity are inside.  taken is every    *)
(* item that came out, in order, and put every item that went in.          *)
(***************************************************************************)
EXTENDS Naturals, Sequences

CONSTANTS Items, Capacity

VARIABLES queue, put, taken

fifoVars == <<queue, put, taken>>

FifoInit == queue = <<>> /\ put = {} /\ taken = <<>>

Put(item) == /\ Len(queue) < Capacity
             /\ item \notin put
             /\ put' = put \cup {item}
             /\ queue' = Append(queue, item)
             /\ UNCHANGED taken

Take == /\ queue # <<>>
        /\ taken' = Append(taken, Head(queue))
        /\ queue' = Tail(queue)
        /\ UNCHANGED put

FifoNext == (\E item \in Items : Put(item)) \/ Take

FifoSpec == FifoInit /\ [][FifoNext]_fifoVars
=============================================================================
