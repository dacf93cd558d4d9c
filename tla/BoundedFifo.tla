----------------------------- MODULE BoundedFifo -----------------------------
(***************************************************************************)
(* What a pending buffer promises its callers: Push accepts every item and *)
(* drops the fewest oldest ones, PopBatch takes the longest batch within   *)
(* the limits, DrainAll takes all, and entries leave oldest first.  Each   *)
(* operation is one atomic step that changes the queue and gives a result. *)
(***************************************************************************)
EXTENDS FifoRules

CONSTANTS
    Item,       \* what is buffered
    Limit       \* the item and byte limits PopBatch is called with

VARIABLES
    q,          \* the buffered items, oldest first
    ret         \* the result of the last operation

fifoVars == <<q, ret>>

Init == q = <<>> /\ ret = <<>>

Push(x) ==
    LET all == Append(q, x)
    IN  \E k \in 0..Len(all) :
            /\ FewestDropped(all, k)
            /\ q' = Without(all, k)
            /\ ret' = <<"push", k>>

PopBatch(n, m) ==
    \E k \in 0..Len(q) :
        /\ IsBatch(q, k, n, m)
        /\ q' = Without(q, k)
        /\ ret' = <<"pop", SubSeq(q, 1, k)>>

DrainAll ==
    /\ q' = <<>>
    /\ ret' = <<"drain", q>>

Next ==
    \/ \E x \in Item : Push(x)
    \/ \E n, m \in Limit : PopBatch(n, m)
    \/ DrainAll

Spec == Init /\ [][Next]_fifoVars
=============================================================================
