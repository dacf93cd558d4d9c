----------------------------- MODULE MCCapture -----------------------------
(***************************************************************************)
(* Bounds for Capture: two requests, each with a nested map of its own     *)
(* next to the one of the scope they both start from.                      *)
(***************************************************************************)
EXTENDS Capture, TLC

CONSTANTS r1, r2, c0, c1, c2

MCCellOf == (r1 :> c1) @@ (r2 :> c2) @@ ("base" :> c0)
MCOption ==
    {[user |-> FALSE, nested |-> FALSE, level |-> "unset", fingerprint |-> FALSE],
     [user |-> TRUE, nested |-> TRUE, level |-> "warning", fingerprint |-> TRUE]}
MCEdit == {{"message"}, {"message", "user", "attributes", "level", "no fingerprint"}}

\* The requests change places together with their nested maps.
Symmetry == {(r1 :> r2) @@ (r2 :> r1) @@ (c1 :> c2) @@ (c2 :> c1)}
=============================================================================
