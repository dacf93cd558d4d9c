----------------------------- MODULE MCSanitize -----------------------------
(***************************************************************************)
(* The heaps of four nodes without cycles (a node refers to later ones     *)
(* only), and of two nodes with cycles of pointers or of maps.             *)
(***************************************************************************)
EXTENDS Sanitize

Obj(k, s) == [kind |-> k, kids |-> s]
Objects(Leaf, Ns) ==
    {Obj(k, {}) : k \in Leaf}
    \cup {Obj(k, s) : k \in {"map", "struct"}, s \in SUBSET Ns}
    \cup {Obj("pointer", {n}) : n \in Ns}

MCNode == 1..4
Leaves == {"nil", "nilpointer", "scalar", "text"}
MCHeap ==
    {[n \in MCNode |-> CASE n = 1 -> a [] n = 2 -> b [] n = 3 -> c [] n = 4 -> d] :
        a \in Objects({}, {2, 3, 4}), b \in Objects(Leaves, {3, 4}),
        c \in Objects(Leaves, {4}), d \in Objects(Leaves, {})}

MCNodeSmall == 1..2
MCCycle ==
    {[n \in MCNodeSmall |-> IF n = 1 THEN a ELSE b] :
        a \in {Obj("pointer", {1}), Obj("map", {1, 2})}, b \in Objects({"scalar"}, {1})}
=============================================================================
