------------------------------- MODULE Worker -------------------------------
(***************************************************************************)
(* The delivery pipeline of src/internal/transport/worker.go with the      *)
(* producers of src/client.go in front of it: one loop goroutine, at most  *)
(* Cardinality(Slot) asynchronous senders, and callers of Flush and Close, *)
(* each with a context of its own.  The pending buffer is the sequence     *)
(* that Ringbuf implements.                                                *)
(*                                                                         *)
(* An actor is the loop, a caller or a slot of the semaphore.  It holds    *)
(* the batch it is responsible for in hand.  Steps that touch only an      *)
(* actor's own state are merged into the step before them.                 *)
(***************************************************************************)
EXTENDS FifoRules, FiniteSets

CONSTANTS
    MaxEvents,      \* events are 1..MaxEvents, in the order they are pushed
    BatchSize,      \* WorkerConfig.BatchSize
    MaxBatchBytes,  \* WorkerConfig.MaxBatchBytes
    MaxRetries,     \* WorkerConfig.MaxRetries
    Loop,           \* the loop goroutine, and the name of its context
    Flusher,        \* goroutines that call Flush once
    Closer,         \* goroutines that call Close once
    Timed,          \* those of them whose context can end; others never give up
    Slot,           \* the permits of the semaphore (MaxConcurrent)
    Fault,          \* what may go wrong in Send: see the Send actions
    ObserverPanics  \* whether the loop's OnQueue report may panic

Caller == Flusher \cup Closer
Worker == {Loop} \cup Caller
Actor  == Worker \cup Slot

ASSUME WorkerAssumption ==
    /\ MaxEvents \in Nat
    /\ 1..MaxEvents \subseteq DOMAIN SizeOf
    /\ BatchSize \in Nat \ {0}
    /\ MaxBatchBytes \in Nat \ {0}
    /\ MaxRetries \in Nat
    /\ Fault \subseteq {"lost", "unreached", "permanent"}
    /\ ObserverPanics \in BOOLEAN
    /\ IsFiniteSet(Slot)
    /\ Flusher \cap Closer = {}
    /\ Loop \notin Caller \cup Slot
    /\ Caller \cap Slot = {}

VARIABLES
    captured,   \* number of events pushed so far
    notifying,  \* producers between their Push and their look at the length
    ring,       \* the pending buffer, oldest first
    trigger,    \* the trigger channel holds its token
    pc,         \* where each actor is
    hand,       \* the batch each actor is responsible for
    att,        \* the attempt it is on
    owner,      \* the actor that dispatched a slot's batch, hence its context
    draining,   \* the loop has seen stop
    inflight,   \* the WaitGroup's counter
    finishing,  \* senders that gave up their permit and have not called Done
    stop,       \* the stop channel is closed
    stopped,    \* the stopped channel is closed
    closing,    \* the callers inside closeOnce.Do's function: none or one
    closed,     \* closeOnce has completed
    expired,    \* contexts that are done
    waiter,     \* each caller's waitInflight goroutine
    result,     \* what each caller's Flush or Close returned
    before,     \* events captured when the call began (history)
    sent,       \* events counted by OnSent
    exhausted,  \* events counted by OnSendExhausted
    evicted,    \* events counted as overflow drops
    accepted,   \* how often the server accepted each event (history)
    crashed     \* a panic no recover guards ended the process

queueVars == <<captured, notifying, ring, trigger>>
slotVars  == <<owner, inflight, finishing>>
closeVars == <<stop, closing, closed>>
callVars  == <<waiter, result, before>>
fateVars  == <<sent, exhausted, evicted, accepted>>
vars == <<queueVars, pc, hand, att, slotVars, draining, closeVars, stopped,
          expired, callVars, fateVars, crashed>>

Event == 1..MaxEvents

Init ==
    /\ captured = 0 /\ notifying = 0 /\ ring = <<>> /\ trigger = FALSE
    /\ pc = [p \in Actor |-> IF p = Loop THEN "select"
                             ELSE IF p \in Slot THEN "free" ELSE "idle"]
    /\ hand = [p \in Actor |-> {}]
    /\ att = [p \in Actor |-> 0]
    /\ owner = [s \in Slot |-> Loop]
    /\ draining = FALSE
    /\ inflight = 0 /\ finishing = 0
    /\ stop = FALSE /\ stopped = FALSE /\ closing = {} /\ closed = FALSE
    /\ expired = {}
    /\ waiter = [c \in Caller |-> "none"]
    /\ result = [c \in Caller |-> "none"]
    /\ before = [c \in Caller |-> 0]
    /\ sent = {} /\ exhausted = {} /\ evicted = {}
    /\ accepted = [e \in Event |-> 0]
    /\ crashed = FALSE

\* A step of a process that is still there.
Alive == ~crashed /\ UNCHANGED crashed

-----------------------------------------------------------------------------
(* Producers: Client.enqueue.                                              *)

Elements(s) == {s[i] : i \in DOMAIN s}

\* Mutant of Capture: an overflow drops the newest buffered events.
CaptureDropsNewest ==
    /\ captured < MaxEvents
    /\ LET all == Append(ring, captured + 1)
       IN  \E k \in 0..Len(all) :
             /\ FewestDropped(all, k)
             /\ ring' = SubSeq(all, 1, Len(all) - k)
             /\ evicted' = evicted \cup Elements(Without(all, Len(all) - k))
    /\ captured' = captured + 1
    /\ notifying' = notifying + 1
    /\ UNCHANGED <<trigger, pc, hand, att, slotVars, draining, closeVars,
                   stopped, expired, callVars, sent, exhausted, accepted>>
    /\ Alive

\* Push hands over the event and counts what it evicted as overflow.
Capture ==
    /\ captured < MaxEvents
    /\ LET all == Append(ring, captured + 1)
       IN  \E k \in 0..Len(all) :
             /\ FewestDropped(all, k)
             /\ ring' = Without(all, k)
             /\ evicted' = evicted \cup Elements(SubSeq(all, 1, k))
    /\ captured' = captured + 1
    /\ notifying' = notifying + 1
    /\ UNCHANGED <<trigger, pc, hand, att, slotVars, draining, closeVars,
                   stopped, expired, callVars, sent, exhausted, accepted>>
    /\ Alive

\* A token is put into the channel unless it already holds one.
Notify == trigger' = TRUE

\* Mutant of NotifyIfFull: the length is compared with > instead of >=.
NotifyIfOverfull ==
    /\ notifying > 0
    /\ notifying' = notifying - 1
    /\ IF Len(ring) > BatchSize THEN Notify ELSE UNCHANGED trigger
    /\ UNCHANGED <<captured, ring, pc, hand, att, slotVars, draining,
                   closeVars, stopped, expired, callVars, fateVars>>
    /\ Alive

\* Later the producer looks at the length and calls Notify on a full batch.
NotifyIfFull ==
    /\ notifying > 0
    /\ notifying' = notifying - 1
    /\ IF Len(ring) >= BatchSize THEN Notify ELSE UNCHANGED trigger
    /\ UNCHANGED <<captured, ring, pc, hand, att, slotVars, draining,
                   closeVars, stopped, expired, callVars, fateVars>>
    /\ Alive

-----------------------------------------------------------------------------
(* The loop's select.                                                      *)

LoopUnchanged ==
    /\ UNCHANGED <<captured, notifying, ring, hand, att, slotVars, closeVars,
                   expired, callVars, fateVars>>
    /\ Alive

LoopStop ==
    /\ pc[Loop] = "select"
    /\ stop
    /\ draining' = TRUE
    /\ pc' = [pc EXCEPT ![Loop] = "pop"]
    /\ UNCHANGED <<trigger, stopped>> /\ LoopUnchanged

LoopTick ==
    /\ pc[Loop] = "select"
    /\ pc' = [pc EXCEPT ![Loop] = "pop"]
    /\ UNCHANGED <<trigger, stopped, draining>> /\ LoopUnchanged

LoopTrigger ==
    /\ pc[Loop] = "select"
    /\ trigger
    /\ trigger' = FALSE
    /\ pc' = [pc EXCEPT ![Loop] = "pop"]
    /\ UNCHANGED <<stopped, draining>> /\ LoopUnchanged

LoopReport ==
    /\ pc[Loop] = "report"
    /\ pc' = [pc EXCEPT ![Loop] = "select"]
    /\ UNCHANGED <<trigger, stopped, draining>> /\ LoopUnchanged

\* A panic in the report unwinds the loop: stopped is closed and the loop
\* stays disabled.
LoopDisabled ==
    /\ ObserverPanics
    /\ pc[Loop] = "report"
    /\ pc' = [pc EXCEPT ![Loop] = "exit"]
    /\ stopped' = TRUE
    /\ UNCHANGED <<trigger, draining>> /\ LoopUnchanged

-----------------------------------------------------------------------------
(* dispatchReady, run by the loop and by the callers.                      *)

PopBatch(p) ==
    /\ pc[p] = "pop"
    /\ ring # <<>>
    /\ \E k \in 0..Len(ring) :
         /\ IsBatch(ring, k, BatchSize, MaxBatchBytes)
         /\ hand' = [hand EXCEPT ![p] = Elements(SubSeq(ring, 1, k))]
         /\ ring' = Without(ring, k)
    /\ pc' = [pc EXCEPT ![p] = "dispatch"]
    /\ UNCHANGED <<captured, notifying, trigger, att, slotVars, draining,
                   closeVars, stopped, expired, callVars, fateVars>>
    /\ Alive

\* Mutant of LoopPopsEmpty: the draining loop exits and stopped stays open.
LoopForgetsStopped ==
    /\ pc[Loop] = "pop"
    /\ ring = <<>>
    /\ pc' = [pc EXCEPT ![Loop] = IF draining THEN "exit" ELSE "report"]
    /\ UNCHANGED <<stopped, trigger, draining>> /\ LoopUnchanged

\* Nothing left: the loop reports, or exits when it was draining.
LoopPopsEmpty ==
    /\ pc[Loop] = "pop"
    /\ ring = <<>>
    /\ pc' = [pc EXCEPT ![Loop] = IF draining THEN "exit" ELSE "report"]
    /\ stopped' = (stopped \/ draining)
    /\ UNCHANGED <<trigger, draining>> /\ LoopUnchanged

\* Mutant of CallerPopsEmpty: the caller stops popping after one batch.
CallerPopsOnce(c) ==
    /\ pc[c] = "pop"
    /\ pc' = [pc EXCEPT ![c] = "waiting"]
    /\ waiter' = [waiter EXCEPT ![c] = "spawned"]
    /\ UNCHANGED <<queueVars, hand, att, slotVars, draining, closeVars,
                   stopped, expired, result, before, fateVars>>
    /\ Alive

\* Nothing left: the caller starts the goroutine that waits for the senders.
CallerPopsEmpty(c) ==
    /\ pc[c] = "pop"
    /\ ring = <<>>
    /\ pc' = [pc EXCEPT ![c] = "waiting"]
    /\ waiter' = [waiter EXCEPT ![c] = "spawned"]
    /\ UNCHANGED <<queueVars, hand, att, slotVars, draining, closeVars,
                   stopped, expired, result, before, fateVars>>
    /\ Alive

\* Mutant of DispatchAsync: the dispatcher goes on holding the batch.
DispatchAsyncKeepsBatch(p, s) ==
    /\ pc[p] = "dispatch"
    /\ pc[s] = "free"
    /\ pc' = [pc EXCEPT ![p] = "pop", ![s] = "send"]
    /\ hand' = [hand EXCEPT ![s] = hand[p]]
    /\ owner' = [owner EXCEPT ![s] = p]
    /\ inflight' = inflight + 1
    /\ UNCHANGED <<queueVars, att, finishing, draining, closeVars, stopped,
                   expired, callVars, fateVars>>
    /\ Alive

\* A free permit: an asynchronous sender takes the batch over.
DispatchAsync(p, s) ==
    /\ pc[p] = "dispatch"
    /\ pc[s] = "free"
    /\ pc' = [pc EXCEPT ![p] = "pop", ![s] = "send"]
    /\ hand' = [hand EXCEPT ![p] = {}, ![s] = hand[p]]
    /\ owner' = [owner EXCEPT ![s] = p]
    /\ inflight' = inflight + 1
    /\ UNCHANGED <<queueVars, att, finishing, draining, closeVars, stopped,
                   expired, callVars, fateVars>>
    /\ Alive

\* Mutant of DispatchSync: the WaitGroup counts synchronous sends too, which
\* never call Done.
DispatchSyncAdds(p) ==
    /\ pc[p] = "dispatch"
    /\ \A s \in Slot : pc[s] # "free"
    /\ pc' = [pc EXCEPT ![p] = "send"]
    /\ inflight' = inflight + 1
    /\ UNCHANGED <<queueVars, hand, att, owner, finishing, draining,
                   closeVars, stopped, expired, callVars, fateVars>>
    /\ Alive

\* Mutant of DispatchSync: without a permit the batch is let go of.
DispatchSyncDrops(p) ==
    /\ pc[p] = "dispatch"
    /\ \A s \in Slot : pc[s] # "free"
    /\ pc' = [pc EXCEPT ![p] = "pop"]
    /\ hand' = [hand EXCEPT ![p] = {}]
    /\ UNCHANGED <<queueVars, att, slotVars, draining, closeVars, stopped,
                   expired, callVars, fateVars>>
    /\ Alive

\* No permit: the actor delivers the batch itself.
DispatchSync(p) ==
    /\ pc[p] = "dispatch"
    /\ \A s \in Slot : pc[s] # "free"
    /\ pc' = [pc EXCEPT ![p] = "send"]
    /\ UNCHANGED <<queueVars, hand, att, slotVars, draining, closeVars, stopped,
                   expired, callVars, fateVars>>
    /\ Alive

-----------------------------------------------------------------------------
(* sendWithRetry and deliverBatch, run by any actor with a batch in hand.  *)

\* The context an actor sends under.
CtxDone(p) == (IF p \in Slot THEN owner[p] ELSE p) \in expired

\* The batch is resolved and the attempt's locals are gone.  A slot gives its
\* permit back and has yet to call Done; the loop or a caller goes on popping.
Release(p) ==
    /\ hand' = [hand EXCEPT ![p] = {}]
    /\ att' = [att EXCEPT ![p] = 0]
    /\ IF p \in Slot
       THEN /\ pc' = [pc EXCEPT ![p] = "free"]
            /\ owner' = [owner EXCEPT ![p] = Loop]
            /\ finishing' = finishing + 1
       ELSE /\ pc' = [pc EXCEPT ![p] = "pop"]
            /\ UNCHANGED <<owner, finishing>>

\* Mutant of Exhaust: the batch is dropped without being counted.
ExhaustUncounted(p) ==
    /\ Release(p)
    /\ UNCHANGED <<sent, exhausted>>

Exhaust(p) ==
    /\ exhausted' = exhausted \cup hand[p]
    /\ Release(p)
    /\ UNCHANGED sent

Reach(p) ==
    accepted' = [e \in Event |->
                    IF e \in hand[p] THEN accepted[e] + 1 ELSE accepted[e]]

DeliverUnchanged ==
    /\ UNCHANGED <<queueVars, inflight, draining, closeVars, stopped,
                   expired, callVars, evicted>>
    /\ Alive

\* A 2xx answer.
SendOK(p) ==
    /\ pc[p] = "send"
    /\ ~CtxDone(p)
    /\ Reach(p)
    /\ sent' = sent \cup hand[p]
    /\ Release(p)
    /\ UNCHANGED exhausted /\ DeliverUnchanged

\* Mutant of SendPermanent: the panic comes when OnSent has counted the batch.
SendPanicsLate(p) ==
    /\ pc[p] = "send"
    /\ "permanent" \in Fault
    /\ sent' = sent \cup hand[p]
    /\ exhausted' = exhausted \cup hand[p]
    /\ Release(p)
    /\ UNCHANGED accepted /\ DeliverUnchanged

\* A permanent error, an encoding error or a contained panic: no retry.
SendPermanent(p) ==
    /\ pc[p] = "send"
    /\ "permanent" \in Fault
    /\ Exhaust(p)
    /\ UNCHANGED accepted /\ DeliverUnchanged

\* Mutant of RetryOrExhaust: one retry too many.
RetryOnceMore(p) ==
    IF att[p] <= MaxRetries
    THEN /\ pc' = [pc EXCEPT ![p] = "backoff"]
         /\ UNCHANGED <<hand, att, owner, finishing, sent, exhausted>>
    ELSE Exhaust(p)

\* A retryable error backs off, unless this was the last attempt.
RetryOrExhaust(p) ==
    IF att[p] < MaxRetries
    THEN /\ pc' = [pc EXCEPT ![p] = "backoff"]
         /\ UNCHANGED <<hand, att, owner, finishing, sent, exhausted>>
    ELSE Exhaust(p)

\* The request failed before the server accepted it, was refused with a
\* retryable status, or never started because its context was done.
SendUnreached(p) ==
    /\ pc[p] = "send"
    /\ "unreached" \in Fault \/ CtxDone(p)
    /\ RetryOrExhaust(p)
    /\ UNCHANGED accepted /\ DeliverUnchanged

\* The server accepted the batch and the answer got lost.
SendLost(p) ==
    /\ pc[p] = "send"
    /\ "lost" \in Fault
    /\ ~CtxDone(p)
    /\ Reach(p)
    /\ RetryOrExhaust(p)
    /\ DeliverUnchanged

\* The sleep is over, or cut short by the context.
BackoffEnds(p) ==
    /\ pc[p] = "backoff"
    /\ IF CtxDone(p)
       THEN Exhaust(p)
       ELSE /\ pc' = [pc EXCEPT ![p] = "send"]
            /\ att' = [att EXCEPT ![p] = @ + 1]
            /\ UNCHANGED <<hand, owner, finishing, sent, exhausted>>
    /\ UNCHANGED accepted /\ DeliverUnchanged

Deliver(p) ==
    \/ SendOK(p) \/ SendPermanent(p) \/ SendUnreached(p) \/ SendLost(p)
    \/ BackoffEnds(p)

-----------------------------------------------------------------------------
(* The WaitGroup and the goroutines of waitInflight.                       *)

\* Done: the last sender wakes every goroutine blocked in Wait.
Done ==
    /\ finishing > 0
    /\ finishing' = finishing - 1
    /\ inflight' = inflight - 1
    /\ waiter' = [c \in Caller |->
                    IF inflight = 1 /\ waiter[c] = "blocked"
                    THEN "woken" ELSE waiter[c]]
    /\ UNCHANGED <<queueVars, pc, hand, att, owner, draining, closeVars,
                   stopped, expired, result, before, fateVars>>
    /\ Alive

WaitUnchanged ==
    UNCHANGED <<queueVars, pc, hand, att, slotVars, draining, closeVars,
                stopped, expired, result, before, fateVars>>

\* Wait returns at once on a zero counter and blocks otherwise.
WaitBegins(c) ==
    /\ waiter[c] = "spawned"
    /\ waiter' = [waiter EXCEPT
                    ![c] = IF inflight = 0 THEN "done" ELSE "blocked"]
    /\ Alive /\ WaitUnchanged

\* A woken Wait looks at the counter again and panics when a new Add came in
\* between: no recover guards this goroutine, so the process ends.
WaitWakes(c) ==
    /\ ~crashed
    /\ waiter[c] = "woken"
    /\ waiter' = [waiter EXCEPT ![c] = "done"]
    /\ crashed' = (inflight > 0)
    /\ WaitUnchanged

-----------------------------------------------------------------------------
(* Callers of Flush and Close.                                             *)

CallUnchanged ==
    /\ UNCHANGED <<queueVars, hand, att, slotVars, draining, stopped, waiter,
                   fateVars>>
    /\ Alive

BeginCall(c, at) ==
    /\ pc[c] = "idle"
    /\ pc' = [pc EXCEPT ![c] = at]
    /\ before' = [before EXCEPT ![c] = captured]
    /\ UNCHANGED <<expired, result>> /\ CallUnchanged

FlushBegins(c) == c \in Flusher /\ BeginCall(c, "pop") /\ UNCHANGED closeVars

\* The first Close runs closeOnce's function.
CloseBegins(c) ==
    /\ c \in Closer
    /\ closing = {} /\ ~closed
    /\ closing' = {c}
    /\ stop' = TRUE
    /\ BeginCall(c, "awaitStopped")
    /\ UNCHANGED closed

\* Any other Close waits in closeOnce.Do until the first has finished.
CloseWaits(c) ==
    /\ c \in Closer
    /\ closing # {} \/ closed
    /\ BeginCall(c, "once")
    /\ UNCHANGED closeVars

CloseAgain(c) ==
    /\ pc[c] = "once"
    /\ closed
    /\ pc' = [pc EXCEPT ![c] = "returned"]
    /\ result' = [result EXCEPT ![c] = "nil"]
    /\ UNCHANGED <<closeVars, expired, before>> /\ CallUnchanged

CloseSeesStopped(c) ==
    /\ pc[c] = "awaitStopped"
    /\ stopped
    /\ pc' = [pc EXCEPT ![c] = "pop"]
    /\ UNCHANGED <<closeVars, expired, result, before>> /\ CallUnchanged

CloseGivesUpOnLoop(c) ==
    /\ pc[c] = "awaitStopped"
    /\ c \in expired
    /\ pc' = [pc EXCEPT ![c] = "pop"]
    /\ result' = [result EXCEPT ![c] = "ctxErr"]
    /\ UNCHANGED <<closeVars, expired, before>> /\ CallUnchanged

\* The end of Flush and of closeOnce's function, which cancels the loop's
\* context.  An error noted earlier stays.
EndCall(c, r) ==
    /\ pc[c] = "waiting"
    /\ pc' = [pc EXCEPT ![c] = "returned"]
    /\ result' = [result EXCEPT ![c] = IF @ = "none" THEN r ELSE @]
    /\ closed' = (closed \/ c \in closing)
    /\ closing' = closing \ {c}
    /\ expired' = IF c \in closing THEN expired \cup {Loop} ELSE expired
    /\ UNCHANGED <<stop, before>> /\ CallUnchanged

WaitReturns(c) == waiter[c] = "done" /\ EndCall(c, "nil")
WaitGivesUp(c) == c \in expired /\ EndCall(c, "ctxErr")

\* A caller's context is done, at any moment of its call.
Expire(c) ==
    /\ pc[c] \notin {"idle", "returned"}
    /\ c \in Timed \ expired
    /\ expired' = expired \cup {c}
    /\ UNCHANGED <<pc, closeVars, result, before>> /\ CallUnchanged

-----------------------------------------------------------------------------
Dispatch(p) == DispatchSync(p) \/ \E s \in Slot : DispatchAsync(p, s)

LoopStep ==
    \/ LoopStop \/ LoopTick \/ LoopTrigger \/ LoopReport \/ LoopDisabled
    \/ PopBatch(Loop) \/ LoopPopsEmpty \/ Dispatch(Loop) \/ Deliver(Loop)

CallStep(c) ==
    \/ PopBatch(c) \/ CallerPopsEmpty(c) \/ Dispatch(c) \/ Deliver(c)
    \/ CloseAgain(c) \/ CloseSeesStopped(c) \/ CloseGivesUpOnLoop(c)
    \/ WaitReturns(c) \/ WaitGivesUp(c)

WaiterStep(c) == WaitBegins(c) \/ WaitWakes(c)

Step ==
    \/ Capture \/ NotifyIfFull
    \/ LoopStep
    \/ \E s \in Slot : Deliver(s)
    \/ Done
    \/ \E c \in Caller :
         \/ FlushBegins(c) \/ CloseBegins(c) \/ CloseWaits(c)
         \/ CallStep(c) \/ WaiterStep(c) \/ Expire(c)

\* Where the system may rest: the process is gone, or the loop has exited and
\* everyone else has finished.
AtRest ==
    \/ crashed
    \/ /\ pc[Loop] = "exit" /\ captured = MaxEvents
       /\ notifying = 0 /\ finishing = 0
       /\ \A s \in Slot : pc[s] = "free"
       /\ \A c \in Caller : pc[c] = "returned" /\ waiter[c] # "spawned"

Rest == AtRest /\ UNCHANGED vars

Next == (Step) \/ Rest

\* Every goroutine that can run runs, an HTTP call and a sleep end, and
\* select picks stop in the end however often the ticker is ready too.
Fairness ==
    /\ WF_vars(NotifyIfFull)
    /\ WF_vars(LoopStep)
    /\ SF_vars(LoopStop)
    /\ \A s \in Slot : WF_vars(Deliver(s))
    /\ WF_vars(Done)
    /\ \A c \in Caller : /\ WF_vars(CallStep(c))
                         /\ WF_vars(WaiterStep(c))

Spec == Init /\ [][Next]_vars
FairSpec == Spec /\ Fairness

-----------------------------------------------------------------------------
(* Properties.                                                             *)

DispatchPC == {"pop", "dispatch", "send", "backoff"}
LoopPC == DispatchPC \cup {"select", "report", "exit"}
CallPC == DispatchPC \cup {"idle", "once", "awaitStopped", "waiting", "returned"}
SlotPC == {"free", "send", "backoff"}

TypeOK ==
    /\ captured \in 0..MaxEvents
    /\ notifying \in Nat
    /\ ring \in Seq(Event)
    /\ trigger \in BOOLEAN
    /\ pc \in [Actor -> LoopPC \cup CallPC \cup SlotPC]
    /\ pc[Loop] \in LoopPC
    /\ \A c \in Caller : pc[c] \in CallPC
    /\ \A s \in Slot : pc[s] \in SlotPC
    /\ hand \in [Actor -> SUBSET Event]
    /\ att \in [Actor -> 0..MaxRetries]
    /\ owner \in [Slot -> Worker]
    /\ draining \in BOOLEAN
    /\ inflight \in Nat /\ finishing \in Nat
    /\ stop \in BOOLEAN /\ stopped \in BOOLEAN /\ closed \in BOOLEAN
    /\ closing \in SUBSET Closer
    /\ expired \in SUBSET Worker
    /\ waiter \in [Caller -> {"none", "spawned", "blocked", "woken", "done"}]
    /\ result \in [Caller -> {"none", "nil", "ctxErr"}]
    /\ before \in [Caller -> 0..MaxEvents]
    /\ sent \in SUBSET Event /\ exhausted \in SUBSET Event
    /\ evicted \in SUBSET Event
    /\ accepted \in [Event -> Nat]
    /\ crashed \in BOOLEAN

Resolved == sent \cup exhausted \cup evicted
Held == UNION {hand[p] : p \in Actor}

\* The buffer holds exactly the newest events: none leaves it, into a batch
\* or as an overflow drop, while an older one stays (drop-oldest, newest wins).
NewestBuffered == \A i \in 1..Len(ring) : ring[i] = captured - Len(ring) + i

\* Every event that left the buffer is in exactly one place: held by one
\* actor, sent, exhausted or evicted.  Nothing is lost between PopBatch and
\* the sender, dispatched twice, or counted under two outcomes.
Conservation ==
    /\ Held \cup Resolved = 1..(captured - Len(ring))
    /\ Held \cap Resolved = {}
    /\ \A p, r \in Actor : p # r => hand[p] \cap hand[r] = {}
    /\ sent \cap exhausted = {}
    /\ evicted \cap (sent \cup exhausted) = {}

\* Only an actor that dispatches or sends holds a batch, and only an attempt
\* with a retry left backs off.
BatchesInUse ==
    \A p \in Actor :
        /\ hand[p] # {} => pc[p] \in {"dispatch", "send", "backoff"}
        /\ pc[p] = "backoff" => att[p] < MaxRetries

\* The WaitGroup counts the asynchronous senders, finished ones included until
\* their Done, so Wait can neither miss a sender nor go below zero.
InflightMatches ==
    inflight = Cardinality({s \in Slot : pc[s] # "free"}) + finishing

\* A full batch never waits for the ticker while the loop is idle: the token
\* is there, or a producer is about to look (Notify's hint is not lost).
NoMissedWakeup ==
    pc[Loop] = "select" /\ Len(ring) >= BatchSize => trigger \/ notifying > 0

\* What an actor's calls to dispatch made it responsible for.
HeldFor(p) == hand[p] \cup UNION {hand[s] : s \in {t \in Slot : owner[t] = p}}

\* A Flush or a first Close that returned nil left nothing from before the
\* call behind, except what some other goroutine popped first; after Close
\* that goroutine is never the loop.
NilMeansDrained ==
    \A c \in Caller : result[c] = "nil" /\ pc[c] = "returned" /\ waiter[c] = "done" =>
        \A e \in 1..before[c] :
            \/ e \in Resolved
            \/ \E p \in Worker \ {c} :
                  e \in HeldFor(p) /\ (c \in Closer => p # Loop)

\* Every call returns, whatever the network does, as long as capturing pauses:
\* the attempts are bounded and the loop's exit is always noticed.
CallsReturn ==
    \A c \in Caller : pc[c] # "idle" ~> (pc[c] = "returned" \/ crashed)

\* Every captured event gets an outcome, unless it still waits in the buffer
\* of a loop that has exited.
EventsResolve ==
    \A e \in Event :
        captured >= e ~> \/ e \in Resolved
                         \/ e \in Elements(ring) /\ pc[Loop] = "exit"
                         \/ crashed

\* The pipeline implements the ledger of DeliveryLedger: in particular an
\* event is accepted at most MaxRetries + 1 times, a batch ends as a whole, and
\* an outcome is final.
Fate(e) ==
    CASE e > captured -> "new"
      [] e \in Elements(ring) -> "queued"
      [] e \in sent -> "sent"
      [] e \in exhausted -> "exhausted"
      [] e \in evicted -> "evicted"
      [] OTHER -> "carried"

Batches == {hand[p] : p \in Actor} \ {{}}

Ledger == INSTANCE DeliveryLedger WITH
    fate <- [e \in Event |-> Fate(e)], batches <- Batches
LedgerSpec == Ledger!Spec
=============================================================================
