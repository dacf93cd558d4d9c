------------------------------ MODULE MCMetrics ------------------------------
(***************************************************************************)
(* Bounds for Metrics: events of two bytes, so that bytes are no copy of   *)
(* the number of items.                                                    *)
(***************************************************************************)
EXTENDS Metrics

MCSizeOf == [e \in 1..Cardinality(Capturer) |-> 2]
=============================================================================
