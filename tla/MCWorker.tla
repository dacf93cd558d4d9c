------------------------------ MODULE MCWorker ------------------------------
(***************************************************************************)
(* Bounds for Worker: events of two sizes in turn, so that a batch and the *)
(* buffer can be cut short by bytes as well as by count.                   *)
(***************************************************************************)
EXTENDS WorkerClaims, TLC

MCSizeOf == [e \in 1..MaxEvents |-> IF e % 2 = 1 THEN 1 ELSE 2]
Symmetry == Permutations(Slot)
=============================================================================
