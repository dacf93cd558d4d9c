# A verification of groundcover-go

groundcover-go is an error-reporting SDK for Go programs. Application
goroutines capture errors and panics; each becomes an event in a bounded
in-memory buffer; a worker loop batches events and posts them to an ingestion
server with retries; `Flush` and `Close` let a program wait for that. The SDK
promises never to block or crash its host, so the hard part is what happens to
events while producers, the loop, senders and callers of `Flush` and `Close`
run at the same time and contexts expire at any moment.

This directory holds TLA+ modules translated from the code, TLC configurations
that check them on small instances, and proofs for all instances.

## 1. Inventory

| part | state | operations | interacts with |
|---|---|---|---|
| pending buffer, `internal/ringbuf/ringbuf.go` | circular arrays `buf`, `sz`; `head`, `count`, `bytes`; one mutex | `Push` (evicts the oldest), `PopBatch`, `DrainAll`, `Len`, `Bytes` | producers push; the loop and callers of `Flush`/`Close` pop |
| delivery worker, `internal/transport/worker.go` | channels `trigger`, `stop`, `stopped`; semaphore `sem`; WaitGroup `inflight`; `closeOnce`; base context | `Start`/`loop`, `Notify`, `dispatch`, `deliverBatch`, `Flush`, `Close` | pops the buffer, calls the sender, reports to metrics and throttle |
| capture hand-off, `client.go` | configuration, metrics, buffer, worker | `Capture*`, `Recover`, `finishAndEnqueue`, `enqueue`, `Flush`, `Close` | scopes, hasher, buffer, worker |
| HTTP sender, `internal/transport/sender.go` | none | `Send`, `classify`, `parseRetryAfter` | the server |
| backoff helpers, `internal/transport/util.go` | one atomic counter | `sleepCtx`, `jitterRNG` | worker |
| safeguard, `internal/safeguard` | none | `Do`, `Go`, `Recover`, `report` | wraps callbacks and goroutines |
| log throttle, `internal/logthrottle` | window and counters per call site, global window; one mutex | `Log`, `admit`, `deliver` | worker and client log through it |
| self metrics, `internal/selfmetrics`, `stats.go` | atomic counters and gauges | `Inc*`, `Add*`, `SetQueuePending`, `Snapshot` | captures, the loop, senders and `Flush` write, `Stats` and the Prometheus bridge read |
| configuration, `config.go` | none | `withDefaults`, `validate`, `endpoint` | `New` resolves it, the worker's configuration resolves part of it again |
| scope, `scope.go` | user, attributes, level, fingerprint, ids; one mutex | setters, `clone`, `applyTo` | contexts, capture, middleware |
| package-level client, `client_global.go` | one atomic pointer | `Init` swaps and closes the old client in the background | all package functions |
| attributes, wire encoding | none | `sanitizeAttributes`, `buildMetadata`, `encodeBatch`, `estimateSize` | capture; worker |
| error types, titles, fingerprints, hashing, stack traces, ids, resource | none | pure functions and reads of the runtime | capture |
| middleware: `nethttp`, `contrib/*` | one isolated scope per request | capture and re-raise | package-level client |
| Prometheus bridge | none | one view of `Stats` per metric | reads `Stats` |
| test utilities, examples, documents | | | not part of the behaviour |

**Hard behaviours.** Interleavings: a popped batch belongs only to the goroutine
that popped it until the WaitGroup counts it; synchronous sends are never
counted; the length is read after the lock is released; `Init` swaps clients
under running captures; every counter and gauge is an atomic of its own, and a
snapshot loads them one by one. Failures: lost answers, refused batches, panics in
callbacks, a disabled loop. Time: contexts that end during a send, a back-off, a
wait or a drain; retries; windows of the throttle. Bounds: full buffer, full
semaphore, two budgets at once, wrap-around and growth. Shutdown: concurrent
`Close` calls, `Close` after the loop has died, captures after `Close`.
`PROJECT.json` lists these as hazards, each at its line, with the properties
that would catch it.

**What makes each part correct.** The buffer is a FIFO whose counters match its
contents and which drops the fewest oldest entries that make the newest fit. The
worker neither loses nor doubles an event's outcome, dispatches in capture
order, bounds the attempts, never forgets a full batch, and every call returns.
A capture applies global defaults, scope and options in that order and hashes
last; in its metadata the SDK's own keys win. The counters account for every event
at every step, an event is captured before it has an outcome, and the gauges of an
open client end up at the real depth. A throttle emits at most its cap per window and accounts for every
suppressed line. An isolated scope never leaks into its source. The global
client always has a usable value and every replaced client is closed. A host that
asks for no retries gets none.

## 2. Modules

| module | what it is |
|---|---|
| `FifoRules` | which entries an overflow drops and a batch takes, on plain sequences; shared by the next three |
| `BoundedFifo` | abstract buffer: one atomic action per operation |
| `Ringbuf`, `MCRingbuf` | `ringbuf.go`, one action per loop iteration or branch under the mutex |
| `Worker`, `MCWorker` | `worker.go` with the producers of `client.go` |
| `DeliveryLedger` | abstract pipeline: what becomes of each event |
| `WorkerClaims` | statements of the repository about the pipeline that the code does not meet |
| `Configuration` | the two layers of `withDefaults` and what `newClient` passes between them |
| `Delivery`, `MCDelivery` | one batch in full detail: `deliverBatch`, `classifyRetry`, `expBackoff`, `sender.go`, `util.go`, in bounded integers, from the configuration of the host on |
| `LogThrottle`, `MCLogThrottle` | `logthrottle.go` with a clock |
| `Capture`, `MCCapture` | a capture call from its guard to the queue: `client.go`, `scope.go`, `event.go`, the copies of `attributes.go`, the metadata of `wire.go` |
| `Sanitize`, `MCSanitize` | the recursion of `attributes.go` over a heap |
| `Middleware`, `MCMiddleware` | the life of a request in `nethttp`, `contrib/*` and `Recover` over the package-level client of `client_global.go` |
| `Counters` | what the counters of `selfmetrics.go` promise a reader, and the reader: `Snapshot` |
| `Metrics`, `MCMetrics` | who writes the counters and the queue gauges, in which order |
| `SumProofs` | what a sum over a finite set is: lemmas for the proofs below |
| `RingbufProofs`, `WorkerProofs`, `DeliveryProofs`, `LogThrottleProofs`, `CaptureProofs`, `MiddlewareProofs`, `MetricsProofs` | theorems; `CaptureProofs` also about `Sanitize`, `MetricsProofs` also about `Counters` |

How they fit together: `Capture` ends where `Worker` begins, at the push into the
buffer. `Ringbuf` refines the sequence that `Worker` pushes to and pops from.
`Delivery` is the inside of `Worker`'s send steps: there a fault is only
retryable or not and a sleep has no length; here the status, the header and the
arithmetic decide, with the settings that `Configuration` makes of the host's.
`Metrics` runs beside `Worker`: it has every access of a counter or a gauge, and
leaves of the delivery only which batch is buffered or carried. `Sanitize` is the inside of `Capture`'s deep copy. `Middleware`
stands around them: a capture is one step there, and of a worker only the place of
each event is left.

### Ringbuf

`buf`, `sz`, `head`, `count`, `bytes` are the fields of `Buffer`; `cap` is
`len(b.buf)`. `call` is the operation that holds the mutex and its locals, so
the loops of `Push`, `PopBatch` and `DrainAll` and the growth inside `Push` are
steps of their own. An item that costs less than one byte is charged one, as in
`Push`. `MinInitialCap` stands for the literal initial capacity of `New`.
`FifoSpec` is the refinement: at every release of the mutex the live window,
read from `head`, is the sequence of `BoundedFifo` and the finished operation
is one of its actions. `BoundedFifo` says *which* entries go ("the fewest
oldest ones that make the rest fit", "the longest prefix within the limits")
without the loops that find them.

### Worker

Actors are the loop, callers (each calls `Flush` or `Close` once) and the
permits of the semaphore; an asynchronous sender is identified with the permit
it holds. `pc[p]` is the point an actor is at, `hand[p]` the batch it is
responsible for, `att[p]` its attempt, `owner[s]` the dispatcher whose context a
sender uses. The buffer is the sequence `ring`, pushed to and popped from with
the rules of `FifoRules`: the refinement above justifies the atomic operations.
`captured`, `before` and `accepted` are history.

| code | actions |
|---|---|
| `Client.enqueue` | `Capture` (Push and overflow accounting), later `NotifyIfFull` |
| `loop` | `LoopStop`, `LoopTick`, `LoopTrigger`, `LoopReport`, `LoopDisabled` |
| `dispatchReady`, `drain` | `PopBatch`, `LoopPopsEmpty`, `CallerPopsEmpty` |
| `dispatch` | `DispatchAsync`, `DispatchSync` |
| `deliverBatch`, `sendWithRetry`, `classifyRetry` | `SendOK`, `SendPermanent`, `SendUnreached`, `SendLost`, `BackoffEnds` |
| deferred release, `inflight.Done` | `Release`, `Done` |
| `waitInflight` | `WaitBegins`, `WaitWakes`, `WaitReturns`, `WaitGivesUp` |
| `Flush`, `Close` | `FlushBegins`, `CloseBegins`, `CloseWaits`, `CloseAgain`, `CloseSeesStopped`, `CloseGivesUpOnLoop`, `EndCall` |
| contexts | `Expire`; `EndCall` cancels the loop's context after `Close` |

Steps are merged only where no other goroutine can tell: taking a permit with
`inflight.Add`; counting an outcome with giving the permit back; the length read
with the attempt to put the token; the end of one HTTP call with the decision on
its result. Two merges hide something and are named here: the internals of
`WaitGroup.Add`, `Done` and `Wait` are atomic except for the wake-up of a waiter
(`woken`), so the further misuse panics of `Add` are not in the model; and the
memory-order guarantees of channels and mutexes are taken as sequential
consistency. A reply is `lost` (accepted by the server, error at the client),
`unreached` (not accepted, retryable: network error, 429 or 5xx) or
`permanent` (other 4xx, encoding error, contained panic); `Fault` chooses which
of them happen. `ObserverPanics` lets the loop's report panic; the client's own
observer only adds to atomics, and the case is there because `Start` handles it.

`DeliveryLedger` knows only `fate` and `accepted` per event and which events make a
batch (`batches`): an attempt ends the whole batch or none of it. `Worker` implements it
with `fate` computed from where the event is, and the batches in its actors' hands.

### Delivery

`attempt` and `delay` are the locals of `deliverBatch`, `pc` its place, `outcome`
and `retries` what the observer was told, `requests` what the server saw, and
`last` the answer being retried. An answer is a status with a `Retry-After`
header (0 for a transport error). Durations and ints are two's complement
integers from `-MaxInt - 1` to `MaxInt` (`Wrap`), so that the products of `parseRetryAfter` and
the doubling of `expBackoff` overflow as in Go. Go's `Intn` panics for a bound
that is not positive; `Intn` is any number below the bound, with the guard that
`jitterRNG` puts before it.

`raw` is the `Config` a host gives, any integers; `conf` is what the worker has
after `Config.withDefaults`, the fields `newClient` passes on, and
`WorkerConfig.withDefaults` (module `Configuration`). Zero retries mean "default" in
the first and "none" in the second, and a negative number "none" in the first, so
`RequestsBounded` is stated on what the host asked for.

### Metrics and Counters

`m` are the four counters an accepted event moves through, `gauge` the two queue
gauges. A capture counts the event (`CountCaptured`), pushes it, counts what it
evicted and reports the depth; the loop and `Flush` pop batches and report. A
report is four steps (`ReadLen`, `ReadBytes`, `StoreItems`, `StoreBytes`) between
which every other goroutine may act. The loop's exit and `Close` pop without a
report, as in the code. `carried` holds the batches without an outcome: how they
get one is `Worker`'s subject, here `Resolve` counts it.

`Counters` is the promise to a reader: no counter goes back, and an outcome is only
counted for an event that is counted as captured. `Metrics` implements it
(`CountersSpec`). The reader is part of `Counters` alone, because its loads would
only multiply the states of `Metrics`: `Load` is one load of `Snapshot`, in the order
of its fields. A Prometheus scrape is such a reader too: it takes one `Stats` per
metric, and what is proved of the reader needs no more than that captured is
loaded before the outcomes.

### LogThrottle

`nextAllowed` and `suppressed` are the two fields of an `entry`, `windowStart` and
`globalCount` the global window, `line[g]` the line a goroutine was admitted with
and has not delivered yet. `admit` is one action per outcome (it holds the mutex);
delivery is a step of its own, so deliveries overtake each other. `Tick` is the
clock; two lines may be logged at the same instant, so that an admission (in
`admitted`) bears the number its line has at its site. `admitted`, `logged`, `told`
and `lost` are history.

### Capture

`scopes` are named by the request that made them (`base` is the one of the
context all start from), `ctx[r]` is the scope the context of `r` carries. An
attribute value is a scalar or a reference to a nested map (`cells`), and bears the
request that wrote it: that is what isolation is about. `event[r]` is the event on
its way through `finishAndEnqueue`, whose steps are `Begin`, `Assemble` (scope and
options, in that order), one of the outcomes of `BeforeSend`, `HashIdentity` and
`Finish`; between two of them other requests and the host go on. `BeforeSend` may
rewrite each set of fields in `Edit`, and panic after it has (`ScrubPanics`); `edited`
is history. The fingerprint stands for the title too: options and `BeforeSend` set
both alike, and both are computed at the end if they are empty. `Break` is a
panic of host code outside `BeforeSend`'s own guard. One operation on a scope and
one capture per request suffice for every aliasing between two requests, since
scopes are only connected through the base scope. `Metadata` is `buildMetadata`:
one map written by the caller, the resource and the SDK in turn, with both filters;
what the properties say of an event on the wire they say of this map.

### Sanitize

A value is a heap of nodes; `copying` is the work still to do, each call with its
node, its depth argument and the height of the Go stack it runs at; `copied` is
what the calls returned. The names differ from those of `Capture` (`CopySpec`, not
`Spec`) because `CaptureProofs` extends both. Where `sanitizeValue` calls `fmt.Sprintf`
for a value that has something hanging from it, at the depth bound or for a struct, the
action is `Sprint`, and `FmtPrint` with `Printed` the external recursion of `fmt`. A nil pointer is
`nil` if it is looked at and a string at the bound. `Expected`
says without recursion what a bounded copy is: the nodes of the first `MaxDepth`
levels, pointers not counted as levels, and text below.

### Middleware

`conf` is the installation: the framework, its options, whether a recovery layer is
outside, whether the host closes or disables the client (`teardown`), and the requests
that come in. A handler ends (`Handle`) with the status
and body it has set and with nothing, an error or a panic; the integrations differ
only in the operators `Quiet`, `Captures`, `Reraises`, `Flushes` and `Reported`. Then
a request goes through `Load` (the pointer is read), `Push` (the capture), with a
crash ahead `FlushBegins`, `FlushDrained`, `FlushReturns` or `FlushTimesOut`, and
`Raise` or `Respond`. `current` is the atomic pointer, `Install` is the swap in `Init` and
`InstallDisabled` one with a disabled configuration; some time later the goroutine that
`Init` starts begins to close the replaced client (`ReplacedCloses`), which goes on as
`CloseDrains` and `CloseEnds`. `HostCloses` is the host closing the
package-level client, as a deferred `Close` in `main` does. `at[r]` is where the event
of `r` is: in the buffer of its client, with the goroutine that popped it, with a
sender the WaitGroup counts, or resolved. Buffers do not overflow here, an event captured
with several errors of one Gin context counts as one, and a client given
explicitly (`nethttp.WithClient`, `Client.Recover`) is one that `Init` never
replaces. What a recovery layer and the servers answer (`Raise`, `Respond`) is
modelled from how the integrations describe them. `late` and `left` are history.

An operator that several integrations share is mapped to the lines of one of them in
`PROJECT.json`; it stands for all of these (lines of the one file of each package;
`Recover` is in `client_global.go`):

| | deferred handler: `Captures` of a panic, `Reraises` | `Quiet` | errors: `Captures`, `IsServerError` | `Reported` | `Flushes` |
|---|---|---|---|---|---|
| `nethttp` | 45-52 | 63-66 | | | |
| `gin` | 54-63 | 87-109 | 65-71, 80-83 | 111-136 | |
| `echo` | 52-63 | 75-78 | 65-68, 83-89 | 96-107, 112-124 | |
| `iris` | 53-63 | 77-80 | 66-70, 85-88 | 90-118 | |
| `negroni` | 43-53 | 60-63 | | | |
| `fiber` | 55-67 | | 70-72, 80-86 | 94-105, 110-122 | 63, 135-139 |
| `fasthttp` | 53-65 | | | 88-98 | 61, 104-108 |
| `grpc` | 60-76, 91-105 | | 121-151 | 157-161 | 68, 97, 193-197 |
| `Recover` | 70-84 | | | | 79-81 |

## 3. Runs

| run | bounds | shows |
|---|---|---|
| `ringbuf` | 3 items costing 1 (clamped), 2, 4; 3 slots; 3 bytes | types, cleared slots, byte counter, refinement (which has the order and both bounds) |
| `worker_flush` | 3 events, 2 slots in the buffer, 2 permits, 1 `Flush`, 1 retry, lost answers | where every event is; no lost wake-up; what a nil `Flush` means; implements `DeliveryLedger` |
| `worker_live` | 1 event, 1 permit, a `Flush` and two `Close`, one of them with a deadline, refusals and contained panics, a loop that may die | all return, a nil return left nothing to the loop, nothing is counted twice, every event gets an outcome |
| `delivery` | 6 bits, a second of 4 units, four configurations (retries unset, positive and negative), five statuses, eight headers | delays under overflow, number of requests, counters |
| `log_throttle` | 2 goroutines, 2 sites, cap 2, global windows of 3 and site windows of 2, time to 6, 4 lines a site | spacing, rate, justified silence, no line uncounted |
| `capture` | 2 requests, each one scope operation and one capture of an error or panic, all outcomes of `BeforeSend`, two sets of fields it rewrites; a plain key, both of the SDK and one of the resource | what a queued event and its metadata say, and that it stays |
| `sanitize` | all values of 4 nodes (maps, structs, pointers, nil pointers, nil, scalars, texts) without cycles, depth 2 | the copy is right and the recursion ends |
| `middleware` | 2 clients; every installation with one request, gRPC and `Recover` with two, and with a host that closes or disables the client; statuses 200, 400, 500 | faults and nothing else captured, true statuses, events survive a crash, replaced clients close and strand only late events |
| `metrics` | 2 captures, the loop, one call of `Flush` or `Close`; a buffer of one event, events of 2 bytes | the counters balance at every step and implement `Counters`; the gauges end up right |
| `claim_*` | smallest instance | one refuted statement each, see section 6 |

The bounds make overflow, batches cut by count and by bytes, growth,
wrap-around, a full semaphore, retries up to the limit, and a second round of
every loop happen. In `worker_flush` two permits let senders finish out of order, and a
third event finds both taken, so that a batch is sent synchronously. In `worker_live`
the one event always finds the permit: that every event gets an outcome is not checked
behind a synchronous send, which is bounded like any other. Two callers suffice for the races between
`Flush` and `Close` because callers interact only through the buffer, the
semaphore, the WaitGroup and `closeOnce`; `worker_live` adds the second `Close`,
which waits for the first whatever its own context says (`Timed` names the calls
with a deadline). In `middleware` two clients make one replacement, and two requests
make a Flush meet the event of another goroutine; only integrations that flush
need that. In `metrics` the second capture evicts the first, so that captures overwrite
each other's gauges while the loop or a Flush empties the buffer; the sizes differ
from the count, so that a stale byte gauge shows. Symmetry is used over permits
in `worker_flush`, over goroutines and sites in `log_throttle` and over requests together
with their nested maps in `capture`, where neither
properties nor initial states tell them apart, and never with liveness. In `capture` a
message differs from an error only by its default level, which no property reads, and
`BeforeSend` cleans the message alone, so that a fingerprint it leaves has to be a clean
one, or everything, when it empties the fingerprint of the caller. In
`delivery` the six bits hold a header that fits, one whose product wraps to a
small positive and one to a negative delay, one that is no int, a doubling that
overflows, and a cap below the base delay. In `log_throttle` the clock passes two
global windows, two sites compete for a cap of two, and the four lines that two windows allow do
come within one stretch of that length across their boundary. In `sanitize` four nodes hold every chain, tree and shared node that crosses
depth 2; `MaxHeight` is above what a value without cycles needs and is reached
only by the cyclic ones of `claim_cycles`.

**Fairness.** Each goroutine that can run runs (`WF` per goroutine): Go's
scheduler is preemptive, HTTP calls end because the client has a timeout, sleeps
end. `LoopStop` has strong fairness: the loop's `select` picks uniformly among
ready cases, so a closed `stop` is picked in the end although ticks keep coming.
Producers need not capture and contexts need not expire. The events are finitely
many, so "every call returns" means when capturing pauses: a `Flush` that is
outrun by producers for ever does not return, and the code promises no more than
its context there. After `Close` events may stay in the buffer of an exited
loop, which `EventsResolve` allows explicitly.

In `middleware` every request, event and client goes on (`WF` each); `Init` need not
be called, a Flush need not time out, the loop need not die.

In `metrics` captures, the loop and calls that began go on, sends end, and the ticker
keeps ticking (`WF` on the loop's step, whose `LoopWakes` is always possible); nobody
has to call `Flush` or `Close`. `GaugesSettle` needs the ticks: the last of the
overwriting reports may store an old reading.

`sanitize` assumes that a call in progress goes on (`WF` on the only process
there is).

`CHECK_DEADLOCK` stays on for the buffer, the worker, the delivery and the metrics, where `Rest`
or `Finished` is the one place at which the system may stop. It is off in
`log_throttle`, `capture`, `sanitize` and `middleware`, which stop when their bounds are used up
or the call has returned, the requests are served or the process is gone.

## 4. Proofs

Every safety invariant and action property of the runs, and all three refinements, are
proved for every value of the constants. Below `[]X` is short for
`Spec => []X` (for `Sanitize`: `CopySpec => []X`).

**What the sums need.** Byte counters, accounts and counters are sums over finite sets
(`SumFunction`), a fold that takes its elements in an order of its own. `SumProofs` proves
that the fold is defined, that the order does not matter (`SumSplit`) and what a
change of one summand does (`SumUpdate`). The library's induction theorems take an
operator, which the provers cannot instantiate; `NatSets` and `SubsetSets`, which all
proofs by induction here use, are about sets instead, as the absence of a smallest counterexample, from the
library's well-foundedness of `<` and of strict subsets.

**`RingbufProofs`**: `[]TypeOK`, `[]SlotsAccurate`, `[]BytesAccurate`,
`Spec => FifoSpec`, and that every single step keeps the entries in order (`StepsKeepOrder`). The inductive invariant is the type invariant with
`SlotsAccurate`: the live window is `{(head + i) % cap : i < count}`, an insert writes
the first index after it, a pop clears its first, growth copies it in order to the
front of a larger array, and distinct offsets below `cap` name distinct slots. The byte
counter follows as a sum over that window. `FifoSpec` needs, for a call in progress,
what its loop has done so far: the contents are those before the call without the first
few, and every shorter removal did not fit (or the batch so far was within its limits).
`RulesAssumption` and the assumption on the initial capacity are all it uses.

**`WorkerProofs`**: `[]TypeOK`, `[]Conservation`, `[]NewestBuffered`,
`[]InflightMatches`, `[]NoMissedWakeup`, `[]NilMeansDrained`, `Spec => LedgerSpec`, for any
number of events, callers and permits. The ledger's batches are the hands that are not empty;
that one attempt ends one batch rests on `Conservation` (hands are disjoint) and that a batch
keeps being one while it is handed over on `BatchesInUse` (a free permit holds none). `Conservation` needs `NewestBuffered` (what a
batch takes is the interval after everything taken before, hence new) and
`BatchesInUse` (an actor that pops or receives a batch holds none); `TypeOK` needs
`BatchesInUse` too (only an attempt with a retry left backs off) and `InflightMatches`
(`Done` never goes below zero). `WInv` is their conjunction, split by variables so that
each action has to treat only the parts it touches. The core is `TakeOldest`: dropping
or batching the k oldest entries of a buffer of newest events removes exactly
the interval of the k lowest numbers. `NilMeansDrained` adds, for every call in
progress, where the events from before it can be: once it has seen the buffer empty
they are resolved or held, and once its wait is over those it dispatched itself are resolved.

**`DeliveryProofs`**: `RetriesAskedReachWorker`, `[]RequestsBounded`, `[]RetriesMatch`,
`RepeatsOnlyTransient`, `[]JitterBounded`, `[]HonoursRetryAfter`, for every largest
integer, configuration of the host, defaults, set of statuses and headers. `DInv`
ties the number of requests and of counted retries to the attempt at every place of the
loop. The delays (`DelayOK`) rest on two facts about two's complement: `Wrap` yields a
representable integer and leaves one as it is. The doubling of `expBackoff` may wrap to
anything, but each round of it ends at or below the cap (`DoubledBounded`). The integers run from `-MaxInt - 1` to
`MaxInt` for any natural `MaxInt`, which includes every width, because the provers know nothing of
powers of two.

**`LogThrottleProofs`**: `[]SiteSpacing`, `[]GlobalRate`, `[]EveryLineAccounted`,
`SuppressionJustified`, for any number of goroutines and sites, any windows and any cap. `LInv`
says that the entry of a site points a window past the latest of its lines, and
(`ClockOK`) that the number of an admission is one of a line the site has logged, so that
the next line of a site is a new admission (lemma `Numbered`). `GlobalRate`
needs that the counter is the number of lines admitted since the window started and
that the stretch just before it, shorter than a window, kept the cap (`RateOK`). The
account of a line is a sum over the goroutines that carry lines, which is why
`Goroutine` is assumed to be finite.

**`CaptureProofs`**: `[]ReservedKeysOwned`, `[]RequestIsolation`, `[]LevelsRespected`,
`[]NoPreScrubLeak`, `SnapshotStays`, `[]EveryCallEnds`, for any number of requests,
keys, options and captures. `CInv` follows the references: a scope and an event in
the making reach no nested map but their own and the base scope's, and hold no values but
their own, the base scope's and what BeforeSend wrote; an event past the deep copy
reaches none at all. `SnapshotStays` and the isolation of the queue come from that. Beside it stands
what each step of a capture has established: the level after options, the user after
hashing, the fingerprint after BeforeSend. Requests are finitely many
and each owns one nested map (`CaptureAssumption`), which is how the model names them.

The second half of `CaptureProofs` is about the recursion of `Sanitize`: `[]CopyComplete`
for any heap of finitely many nodes, cycles included (there the calls may not end), and
any depth bound. `CopyInv` relates the records left so far and the calls still
to make: each of them is one that some node of its level asks for, and the root, and whatever
a copied node holds, has its record or a call that will leave it. With no call left,
induction over the levels gives a record for each node. What pointers lead to and
what hangs on a level are stated by sets closed under them (`Reaches`, `OnLevel`), so
that no step has to reason about the recursive functions of `Target` and `AtLevel`; these
come in once, at the end: they are defined (`Orbits`, `LevelsExist`), and a
chain of pointers that ends does so within as many steps as there are nodes, because
a longer one would visit a node twice (`TargetEnds`).

**`MiddlewareProofs`**: `[]FaultsCaptured`, `[]ReportedStatusTrue`, `[]CrashKeepsEvent`,
`[]OnlyLateStranded`, for any number of requests, clients and replacements and any mix
of installations. `Decided` says what the end of the handler has decided at each place of a
request (whether there is an event, whether the panic goes on, what is answered); `Flushed` where the
event is while its request flushes: once the drain of the right client is over it is
neither in the buffer nor with the request itself, once the wait is over not with a sender.
Other requests, the loop and `Init` can only move an event forward, and a client once replaced is
never open again. The names of places are assumed not to be names of requests.

**`MetricsProofs`**: `[]Balance`, `Spec => CountersSpec`, and about the reader
`SnapshotBacklogHolds` and `StatsBacklogHolds`, for any number of captures and callers, any
buffer and any batches. `MetInv` adds that evictions are pending exactly for a
capture that is about to count them, and that batches in flight are not empty. The
refinement follows from the balance: what is still in the pipeline is the room for the
next outcome. For a reader of `Counters` the invariant says that what is loaded so far,
completed by the present values of the counters not yet loaded, never exceeds the
backlog; it is preserved because counters only grow and captured is loaded first.
`StatsBacklogHolds` puts such a reader beside a whole client (`ReadClient`).

**Only model-checked**: liveness (`CallsReturn`, `EventsResolve`, `ReplacedClose`,
`GaugesSettle`, `Terminates`), which the prover does not do. A type invariant is checked
and proved for `Ringbuf` and `Worker`; in the other modules the parts that the proofs
need are conjuncts of their inductive invariants (`Bounds`, `ClockOK`, `TypesOK`, `Types`), proved
for every instance.

## 5. What is not modelled

`PROJECT.json` lists every component with its status. Not modelled because there
is nothing to check by states: formatting, titles, stack traces, ids, resource
detection (which keys the resource claims is in `Capture`), loggers, the text of the
Prometheus views, examples. The size estimate is the constant `SizeOf`: the buffer is
checked for sizes of any kind, zero and negative ones included. The walk down
wrapped errors (`errors.go`) ends exactly when the host's chain does, and has no
state beside it. The counters of rate limiting, recovered panics, reloads and
disabled subsystems are bumped in one place each and related to nothing.

## 6. Where code and documentation differ

Refuted by a run of their own:

- `Flush` may return nil while another goroutine still carries a batch from
  before the call (`client.go:352`): popped but not yet added to the WaitGroup,
  or sent synchronously. `NilMeansDrained` states what holds. The gRPC, Fiber and
  fasthttp middleware and `Recover` rely on such a Flush before they re-raise a
  panic that may end the process.
- `waitInflight` starts an unguarded goroutine on a WaitGroup that is reused while
  it returns: `Wait` can panic and end the process (`README.md:19`).
- The depth bound of `sanitizeValue` does not cut cycles (`attributes.go:14`): a
  pointer is followed without going deeper, and at the bound `fmt` prints a map
  that contains itself. Either overflows the stack, which no `recover` contains.

Seen while modelling, readable from one or two lines and without a run:

- A `Close` that is not the first waits in `closeOnce.Do` whatever its context says
  (`client.go:360`: "bounded by ctx"); action `CloseWaits`.
- `MaxConcurrent` does not cap the requests (`worker.go:32`): `DispatchSync` comes
  on top.
- A batch is exhausted also because a caller's context ended, with retries left
  (`selfmetrics.go:16`); action `SendUnreached` with `CtxDone`.
- A retry is counted before the sleep that a context may cut short
  (`stats.go:22`: "delivery retry attempts"); `RetriesMatch` states what holds.
- The first back-off is the base delay also when `RetryMax` is below it
  (`worker.go:292`); `JitterBounded` states what holds.
- The suppressed count belongs to a call site, not to "identical lines"
  (`logger.go:12`).
- What `BeforeSend` changed before it panicked stays changed (`client.go:298`: "keep
  the event unmodified"); action `ScrubPanics`.
- `BeforeSend` runs before hashing, fingerprint and title
  (`docs/llm-instrumentation-guide.md:342`: "the finalized *Event").
- Gin with `DisableRepanic` swallows `http.ErrAbortHandler` (`gin.go:59`), which
  `docs/llm-instrumentation-guide.md:275` says is re-raised; `Reraises`.
- Fiber and fasthttp report the status in flight when the handler had set another
  than 200 before a panic that is raised again (`fiber.go:96`), though the recovery
  answers 500; the exception in `ReportedStatusTrue`.
- Echo reads the status off the returned error (`echo.go:109`: "Echo's error handler has
  not written the response yet"), also when the handler has already sent another one; a
  plain error after a response of 400 then makes an event of status 500. The
  exceptions in `ReportedStatusTrue` and `FaultsCaptured`.
- The integrations load the client for the capture and once more for the Flush, so
  an `Init` in between makes them flush the new client before the process ends;
  `Recover` loads it once. The exception in `CrashKeepsEvent`.
- A capture that loaded the client before `Init` replaced it, or one after the host's
  `Close`, may push into a buffer nobody drains any more (`client_global.go:47`);
  `OnlyLateStranded`.
- `clone` of a scope is not the deep copy `scope.go:82` says (`attributes.go:24`):
  isolated scopes share nested maps, and what `BeforeSend` writes into one shows in
  the events of other requests. `RequestIsolation` states what holds.
- After `Close` the queue gauges stay at their last report: the loop's stop branch and
  `Close` drain without one (`worker.go:179`, `worker.go:329`), so
  `QueuePendingItems` is not "the current number of buffered events"
  (`stats.go:26`). `GaugesSettle` is stated for an open client.
- `Stats` is not "a point-in-time snapshot" (`stats.go:5`): the counters are loaded one
  by one, so `Sent` can exceed `Captured`. `SnapshotBacklog` states what holds.
- A caller's `service.name`, or another key that travels with the session, stays in
  the metadata, since neither filter removes it (`wire.go:73`: resource keys are
  "written afterwards so a caller cannot override them"); so does a key that the
  detected resource happens not to have.
- `estimateSize` does not only over-estimate (`wire.go:177`): the session and anonymous
  ids, the resource's attributes and the escapes of JSON are not counted.
- NaN and infinite floats pass `sanitizeValue` (`attributes.go:52`: "a JSON-friendly
  form") and fail the whole batch in `json.Marshal`.

## 7. Plan

1. Done: the components above with their abstractions, runs, and the proofs of all their
   safety properties.
2. Left: a composition that shows that `Metrics` sees of `Worker` what it models.
   (`Worker` and `BoundedFifo` already state their buffer steps with the same operators,
   those of `FifoRules`.)
