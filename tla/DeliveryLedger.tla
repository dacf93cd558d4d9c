--------------------------- MODULE DeliveryLedger ---------------------------
(***************************************************************************)
(* What the pipeline promises about each captured event, without saying    *)
(* who carries it: events queue in capture order, leave the queue oldest   *)
(* first (into a batch, or dropped when the queue overflows), and a batch  *)
(* ends as a whole, delivered or given up.  The server may have accepted   *)
(* an event several times, at most once per attempt.                       *)
(***************************************************************************)
EXTENDS Naturals

CONSTANTS
    MaxEvents,      \* events are 1..MaxEvents, in capture order
    MaxRetries      \* retries after the first attempt

VARIABLES
    fate,       \* what has become of each event
    batches,    \* the batches under way, each a set of carried events
    accepted    \* how often the server accepted each event

ledgerVars == <<fate, batches, accepted>>

Events == 1..MaxEvents
Fates == {"new", "queued", "carried", "sent", "exhausted", "evicted"}

With(f) == {e \in Events : fate[e] = f}
Oldest(S) == \A e \in S, d \in With("queued") \ S : e < d

Init ==
    /\ fate = [e \in Events |-> "new"]
    /\ batches = {}
    /\ accepted = [e \in Events |-> 0]

Become(S, f) == [e \in Events |-> IF e \in S THEN f ELSE fate[e]]

\* The next event is queued; the oldest queued ones may make room for it.
Enqueue(e) ==
    /\ fate[e] = "new"
    /\ \A d \in Events : d < e => fate[d] # "new"
    /\ \E S \in SUBSET With("queued") :
         /\ Oldest(S)
         /\ fate' = [Become(S, "evicted") EXCEPT ![e] = "queued"]
    /\ UNCHANGED <<batches, accepted>>

\* The oldest queued events become a batch.
Take ==
    /\ \E S \in (SUBSET With("queued")) \ {{}} :
         /\ Oldest(S)
         /\ fate' = Become(S, "carried")
         /\ batches' = batches \cup {S}
    /\ UNCHANGED accepted

\* One attempt at a batch S reaches the server or not, and ends it, for all of
\* its events alike, or not.
Attempt(S) ==
    \E reached \in BOOLEAN, f \in {"carried", "sent", "exhausted"} :
        /\ f = "sent" => reached
        /\ reached => \A e \in S : accepted[e] <= MaxRetries
        /\ fate' = Become(S, f)
        /\ batches' = IF f = "carried" THEN batches ELSE batches \ {S}
        /\ accepted' = [e \in Events |->
               IF reached /\ e \in S THEN accepted[e] + 1 ELSE accepted[e]]

Next ==
    \/ \E e \in Events : Enqueue(e)
    \/ Take
    \/ \E S \in batches : Attempt(S)

Spec == Init /\ [][Next]_ledgerVars
=============================================================================
