------------------------------ MODULE Counters ------------------------------
(***************************************************************************)
(* What the counters of src/internal/selfmetrics promise to whoever reads  *)
(* them, whatever the client is doing: an event is counted as captured     *)
(* before it can be counted under an outcome, and no counter ever goes     *)
(* back.  Next to it a reader of Stats, which loads the counters one by    *)
(* one.  Metrics implements this specification.                            *)
(***************************************************************************)
EXTENDS Integers, Sequences

VARIABLES
    m,          \* the counters an accepted event moves through
    view,       \* the counters a Snapshot in progress has loaded
    backlog     \* captured events without an outcome when it began (history)

vars == <<m, view, backlog>>

Outcome == {"sent", "overflow", "exhausted"}
Counter == {"captured"} \cup Outcome

\* The order in which Snapshot loads them.
Fields == <<"captured", "sent", "overflow", "exhausted">>

Init ==
    /\ m = [k \in Counter |-> 0]
    /\ view = <<>> /\ backlog = 0

Accounted == m["sent"] + m["overflow"] + m["exhausted"]

\* IncCaptured.
Accept ==
    /\ m' = [m EXCEPT !["captured"] = @ + 1]
    /\ UNCHANGED <<view, backlog>>

Open == m["captured"] - Accounted

\* AddSent and AddDropped, for n events that are captured already.
Conclude(k, n) ==
    /\ m' = [m EXCEPT ![k] = @ + n]
    /\ UNCHANGED <<view, backlog>>

\* One more load of Snapshot.
Load ==
    /\ Len(view) < Len(Fields)
    /\ view' = Append(view, m[Fields[Len(view) + 1]])
    /\ backlog' = IF view = <<>> THEN Open ELSE backlog
    /\ UNCHANGED m

\* The caller has its Stats.
Return ==
    /\ Len(view) = Len(Fields)
    /\ view' = <<>> /\ backlog' = 0
    /\ UNCHANGED m

Next ==
    \/ Accept
    \/ \E k \in Outcome, n \in 1..Open : Conclude(k, n)
    \/ Load \/ Return

Spec == Init /\ [][Next]_vars

\* Whatever happens while the counters are loaded, the events a Snapshot shows
\* as neither sent nor dropped were in the pipeline when it began: it may miss
\* progress, but never reports a backlog that is not there.
SnapshotBacklog ==
    Len(view) = Len(Fields) => view[1] - (view[2] + view[3] + view[4]) <= backlog
=============================================================================
