------------------------------ MODULE MCRingbuf ------------------------------
(***************************************************************************)
(* Bounds for Ringbuf: three items that cost 1 (clamped from 0), 2 and 4,  *)
(* at most three entries and a budget the largest two exceed, so that      *)
(* growth (1, 2, 3), wrap-around, both kinds of eviction and an entry over *)
(* the whole budget all happen.                                            *)
(***************************************************************************)
EXTENDS Ringbuf, TLC

CONSTANTS small, medium, large

MCItem == {small, medium, large}
MCSizeOf == (small :> 0) @@ (medium :> 2) @@ (large :> 4)
MCLimit == {0, 2, 3}
=============================================================================
