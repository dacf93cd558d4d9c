------------------------------ MODULE Metrics ------------------------------
(***************************************************************************)
(* The self metrics of the client: who adds to the counters and stores the *)
(* queue gauges of src/internal/selfmetrics, and in which order, while     *)
(* captures, the loop, Flush and Close go on.  Every counter and gauge is  *)
(* an atomic of its own and Len and Bytes each take the lock of the        *)
(* buffer, so each access is one step.  How the worker delivers is the     *)
(* subject of Worker: a batch taken out of the buffer is carried here      *)
(* until it has an outcome.                                                *)
(***************************************************************************)
EXTENDS FifoRules, FiniteSets, BagsExt

CONSTANTS
    Capturer,       \* goroutines that capture one event each
    Loop,           \* the loop goroutine
    Caller,         \* goroutines that call Flush, or Close for the first time
    BatchSize,      \* WorkerConfig.BatchSize
    MaxBatchBytes   \* WorkerConfig.MaxBatchBytes

Actor == Capturer \cup {Loop} \cup Caller

ASSUME MetricsAssumption ==
    /\ IsFiniteSet(Capturer)
    /\ 1..Cardinality(Capturer) \subseteq DOMAIN SizeOf
    /\ BatchSize \in Nat \ {0}
    /\ MaxBatchBytes \in Nat \ {0}
    /\ Loop \notin Capturer \cup Caller
    /\ Capturer \cap Caller = {}

VARIABLES
    pushed,     \* number of events pushed so far, which numbers them
    ring,       \* the pending buffer, oldest first
    carried,    \* the sizes of the batches without an outcome (a bag, <<>> if empty)
    m,          \* the counters of Metrics
    gauge,      \* queuePendingItems and queuePendingBytes
    pc,         \* where each actor is
    dropped,    \* what each capture evicted and has not counted yet
    depth,      \* the readings of Len and Bytes each actor has not stored yet
    stop        \* the stop channel is closed

pipeVars == <<pushed, ring, carried>>
vars == <<pipeVars, m, gauge, pc, dropped, depth, stop>>

Zero == [items |-> 0, bytes |-> 0]

Init ==
    /\ pushed = 0 /\ ring = <<>> /\ carried = <<>>
    /\ m = [k \in {"captured", "sent", "overflow", "exhausted"} |-> 0]
    /\ gauge = Zero
    /\ pc = [a \in Actor |-> IF a \in Capturer THEN "capture"
                             ELSE IF a = Loop THEN "select" ELSE "idle"]
    /\ dropped = [c \in Capturer |-> 0]
    /\ depth = [a \in Actor |-> Zero]
    /\ stop = FALSE

Goto(a, from, to) == pc[a] = from /\ pc' = [pc EXCEPT ![a] = to]
Add(k, n) == m' = [m EXCEPT ![k] = @ + n]

-----------------------------------------------------------------------------
(* A capture: the end of finishAndEnqueue, and enqueue.                    *)

CaptureUnchanged == UNCHANGED <<pipeVars, gauge, depth, stop>>

\* The capture ends before the event is accepted: BeforeSend drops it, which
\* has a counter of its own, or host code panics and the guard ends the call.
NotAccepted(c) ==
    /\ Goto(c, "capture", "done")
    /\ UNCHANGED <<m, dropped>> /\ CaptureUnchanged

\* Mutant of CountCaptured: the event is counted after the hand-off.
CountCapturedLate(c) ==
    /\ \/ Goto(c, "capture", "push") /\ UNCHANGED m
       \/ Goto(c, "done", "counted") /\ Add("captured", 1)
    /\ UNCHANGED dropped /\ CaptureUnchanged

CountCaptured(c) ==
    /\ Goto(c, "capture", "push")
    /\ Add("captured", 1)
    /\ UNCHANGED dropped /\ CaptureUnchanged

Push(c) ==
    /\ pc[c] = "push"
    /\ LET all == Append(ring, pushed + 1)
       IN  \E k \in 0..Len(all) :
             /\ FewestDropped(all, k)
             /\ ring' = Without(all, k)
             /\ dropped' = [dropped EXCEPT ![c] = k]
             /\ pc' = [pc EXCEPT ![c] = IF k > 0 THEN "dropped" ELSE "len"]
    /\ pushed' = pushed + 1
    /\ UNCHANGED <<carried, m, gauge, depth, stop>>

\* Mutant of CountDropped: only OnDrop hears of the evicted events.
CountDroppedNever(c) ==
    /\ Goto(c, "dropped", "len")
    /\ dropped' = [dropped EXCEPT ![c] = 0]
    /\ UNCHANGED m /\ CaptureUnchanged

\* OnDrop runs next, inside a guard of its own: whatever it does, the capture
\* goes on to report.
CountDropped(c) ==
    /\ Goto(c, "dropped", "len")
    /\ Add("overflow", dropped[c])
    /\ dropped' = [dropped EXCEPT ![c] = 0]
    /\ CaptureUnchanged

Capture(c) ==
    NotAccepted(c) \/ CountCaptured(c) \/ Push(c) \/ CountDropped(c)

-----------------------------------------------------------------------------
(* SetQueuePending(Len(), Bytes()), run by captures, the loop and Flush.   *)

ReportUnchanged == UNCHANGED <<pipeVars, m, dropped, stop>>

ReadLen(a) ==
    /\ Goto(a, "len", "bytes")
    /\ depth' = [depth EXCEPT ![a].items = Len(ring)]
    /\ UNCHANGED gauge /\ ReportUnchanged

ReadBytes(a) ==
    /\ Goto(a, "bytes", "storeItems")
    /\ depth' = [depth EXCEPT ![a].bytes = ByteSum(ring)]
    /\ UNCHANGED gauge /\ ReportUnchanged

StoreItems(a) ==
    /\ Goto(a, "storeItems", "storeBytes")
    /\ gauge' = [gauge EXCEPT !.items = depth[a].items]
    /\ depth' = [depth EXCEPT ![a].items = 0]
    /\ ReportUnchanged

\* Then the loop selects again; a capture and a Flush have nothing left that
\* concerns the metrics.
StoreBytes(a) ==
    /\ Goto(a, "storeBytes", IF a = Loop THEN "select" ELSE "done")
    /\ gauge' = [gauge EXCEPT !.bytes = depth[a].bytes]
    /\ depth' = [depth EXCEPT ![a].bytes = 0]
    /\ ReportUnchanged

Report(a) == ReadLen(a) \/ ReadBytes(a) \/ StoreItems(a) \/ StoreBytes(a)

-----------------------------------------------------------------------------
(* The loop, Flush and Close: dispatchReady and what follows it.           *)

WorkUnchanged == UNCHANGED <<m, gauge, dropped, depth>>

\* The ticker or the trigger.
LoopWakes ==
    /\ Goto(Loop, "select", "pop")
    /\ UNCHANGED <<pipeVars, stop>> /\ WorkUnchanged

LoopStops ==
    /\ stop
    /\ Goto(Loop, "select", "drain")
    /\ UNCHANGED <<pipeVars, stop>> /\ WorkUnchanged

FlushBegins(c) ==
    /\ Goto(c, "idle", "pop")
    /\ UNCHANGED <<pipeVars, stop>> /\ WorkUnchanged

CloseBegins(c) ==
    /\ ~stop
    /\ Goto(c, "idle", "await")
    /\ stop' = TRUE
    /\ UNCHANGED pipeVars /\ WorkUnchanged

\* The loop has exited, or the context of the call is done.
CloseAwaited(c) ==
    /\ Goto(c, "await", "drain")
    /\ UNCHANGED <<pipeVars, stop>> /\ WorkUnchanged

PopBatch(p) ==
    /\ pc[p] \in {"pop", "drain"}
    /\ ring # <<>>
    /\ \E k \in 0..Len(ring) :
         /\ IsBatch(ring, k, BatchSize, MaxBatchBytes)
         /\ carried' = BagAdd(carried, k)
         /\ ring' = Without(ring, k)
    /\ UNCHANGED <<pushed, pc, stop>> /\ WorkUnchanged

\* Mutant of PopsEmpty: the loop leaves the report to captures and Flush.
PopsEmptyUnreported(p) ==
    /\ ring = <<>>
    /\ \/ Goto(p, "pop", IF p = Loop THEN "select" ELSE "len")
       \/ Goto(p, "drain", "done")
    /\ UNCHANGED <<pipeVars, stop>> /\ WorkUnchanged

\* Nothing left: the loop and Flush report, a loop that stops and Close do not.
PopsEmpty(p) ==
    /\ ring = <<>>
    /\ Goto(p, "pop", "len") \/ Goto(p, "drain", "done")
    /\ UNCHANGED <<pipeVars, stop>> /\ WorkUnchanged

Work(p) == PopBatch(p) \/ PopsEmpty(p)

\* OnSent or OnSendExhausted: a carried batch gets its outcome.
Resolve ==
    /\ \E n \in DOMAIN carried, k \in {"sent", "exhausted"} :
         /\ carried' = BagRemove(carried, n)
         /\ Add(k, n)
    /\ UNCHANGED <<pushed, ring, gauge, pc, dropped, depth, stop>>

-----------------------------------------------------------------------------
\* Where the system may rest: the client is closed and every call has ended.
Rest ==
    /\ \A a \in Actor : pc[a] = "done"
    /\ carried = <<>>
    /\ UNCHANGED vars

Next ==
    \/ \E c \in Capturer : Capture(c)
    \/ \E a \in Actor : Report(a)
    \/ LoopWakes \/ LoopStops
    \/ \E c \in Caller : FlushBegins(c) \/ CloseBegins(c) \/ CloseAwaited(c)
    \/ \E p \in {Loop} \cup Caller : Work(p)
    \/ Resolve
    \/ Rest

\* Goroutines that run go on, sends end, and the ticker keeps ticking.  Nobody
\* has to call Flush or Close.
Fairness ==
    /\ \A c \in Capturer : WF_vars(Capture(c) \/ Report(c))
    /\ WF_vars(LoopWakes \/ LoopStops \/ Work(Loop) \/ Report(Loop))
    /\ \A c \in Caller : WF_vars(CloseAwaited(c) \/ Work(c) \/ Report(c))
    /\ WF_vars(Resolve)

Spec == Init /\ [][Next]_vars /\ Fairness

-----------------------------------------------------------------------------
(* Properties.                                                             *)

\* Accepted events on their way into the buffer, or evicted and not counted.
Between == Cardinality({c \in Capturer : pc[c] = "push"}) + SumFunction(dropped)

\* The events in the batches that are carried.
EventsIn(batches) == SumFunction([n \in DOMAIN batches |-> n * batches[n]])

\* The counters balance at every step: what was counted as captured is sent,
\* dropped for a counted reason, or still in the pipeline.  No order of
\* captures, evictions, batches and calls counts an event twice or never.
Balance ==
    m["captured"] = m["sent"] + m["overflow"] + m["exhausted"]
                    + Len(ring) + EventsIn(carried) + Between

\* A capture, the loop and Flush may overwrite each other's gauges with old
\* readings, but the next ticks repair them: as long as the client is not
\* closed the gauges end up, and stay, at the real depth of the queue.
GaugesSettle ==
    <>[](stop \/ gauge = [items |-> Len(ring), bytes |-> ByteSum(ring)])

\* A reader may rely on the counters as Counters promises: an event is counted
\* as captured before it has an outcome, and no counter goes back.
Promise == INSTANCE Counters WITH view <- <<>>, backlog <- 0
CountersSpec == Promise!Spec
=============================================================================
