--------------------------- MODULE MCLogThrottle ---------------------------
(***************************************************************************)
(* Bounds for LogThrottle.  The order of goroutines and sites plays no     *)
(* part.                                                                   *)
(***************************************************************************)
EXTENDS LogThrottle, TLC

Symmetry == Permutations(Goroutine) \cup Permutations(Key)
=============================================================================
