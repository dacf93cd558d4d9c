---------------------------- MODULE Middleware ----------------------------
(***************************************************************************)
(* The life of a request in the integrations (src/nethttp, src/contrib/*,  *)
(* Recover of src/client_global.go) on top of the package-level client,    *)
(* which Init replaces, and the host may close, while requests are served. *)
(* Of the client's worker only the place of each event is left: what       *)
(* Worker has in detail.                                                   *)
(***************************************************************************)
EXTENDS Integers, FiniteSets

CONSTANTS
    Request,    \* requests; a request captures one event at most, which it names
    Client,     \* the clients that Init installs
    Config      \* installations (framework, options, recovery layer outside),
                \* whether the host ever closes or disables the package-level
                \* client, and the requests that come in

Framework == {"nethttp", "gin", "echo", "iris", "negroni",
              "fiber", "fasthttp", "grpc", "recover"}
NoClient == "disabled"    \* disabledClient, or one that Init made disabled
Aborted == 0              \* the connection, or the process, ends instead
NoAnswer == -1

ASSUME MiddlewareAssumption ==
    /\ {NoClient, "none"} \cap Client = {}
    /\ {"none", "queue", "loop", "close", "sender", "resolved"} \cap Request = {}
    /\ Config \subseteq [framework : Framework, captureErrors : BOOLEAN,
                         disableRepanic : BOOLEAN, recovery : BOOLEAN,
                         teardown : BOOLEAN, requests : SUBSET Request]

VARIABLES
    conf,       \* the installation
    current,    \* the global pointer
    state,      \* [Client -> new, open, closing, draining, closed]
    loop,       \* [Client -> the worker's loop is running]
    pc,         \* [Request -> where it is]
    out,        \* [Request -> how its handler ended]
    client,     \* [Request -> the client it loaded to capture its event]
    flushed,    \* [Request -> the client it flushes]
    left,       \* [Request -> where its event was as its Flush returned nil, or "none"]
    at,         \* [Request -> the place of its event]
    late,       \* events pushed into a client whose Close had begun (history)
    answer,     \* [Request -> status answered, Aborted or NoAnswer]
    crashed     \* the request whose panic ended the process, if any

reqVars == <<pc, out, client, flushed, left, at, late, answer>>
vars == <<conf, current, state, loop, reqVars, crashed>>

f == conf.framework

Init ==
    /\ conf \in Config
    /\ current = NoClient
    /\ state = [c \in Client |-> "new"]
    /\ loop = [c \in Client |-> FALSE]
    /\ pc = [r \in Request |-> IF r \in conf.requests THEN "handle" ELSE "absent"]
    /\ out = [r \in Request |-> <<>>]
    /\ client = [r \in Request |-> "none"]
    /\ flushed = [r \in Request |-> "none"]
    /\ left = [r \in Request |-> "none"]
    /\ at = [r \in Request |-> "none"]
    /\ late = {}
    /\ answer = [r \in Request |-> NoAnswer]
    /\ crashed = {}

Alive == crashed = {} /\ UNCHANGED <<conf, crashed>>

-----------------------------------------------------------------------------
(* How a handler ends: with the status and body it has set so far, and an  *)
(* error (by the status it carries) or a panic.                            *)

Ends(kind, what, status, written) ==
    [kind |-> kind, what |-> what, status |-> status, written |-> written]

\* Errors are returned (echo, fiber, grpc) or recorded on the context.
Returned == f \in {"echo", "fiber", "grpc"}

\* Where no status enters a decision, handlers do not differ by it; Echo sets a
\* status only as it commits the response.
Written == CASE f \in {"gin", "iris", "fiber", "fasthttp"} -> {200, 400} \X BOOLEAN
             [] f = "echo" -> {<<200, FALSE>>, <<200, TRUE>>, <<400, TRUE>>}
             [] OTHER -> {<<200, FALSE>>}

\* http.ErrAbortHandler and a broken connection, where the code tells them apart.
Panic == {"fault"} \cup (IF f \in {"nethttp", "gin", "echo", "iris", "negroni"}
                         THEN {"abort"} ELSE {})
                  \cup (IF f = "gin" THEN {"pipe"} ELSE {})

Outcome ==
    {Ends("ok", "none", 200, TRUE)}
    \cup {Ends("panic", w, s[1], s[2]) : w \in Panic, s \in Written}
    \cup {Ends("error", w, s[1], s[2]) :
              w \in IF Returned THEN {"e400", "e500", "plain"} ELSE {}, s \in Written}
    \cup {Ends("error", "plain", s, TRUE) :
              s \in IF f \in {"gin", "iris"} THEN {200, 400, 500} ELSE {}}

\* The status an error carries: an HTTPError's code, an RPC code's class.
Code(h) == IF h.what = "e400" THEN 400 ELSE 500

-----------------------------------------------------------------------------
(* What the integrations decide.                                           *)

\* isAbortPanic and, in Gin, isBrokenPipePanic.
Quiet(h) == h.what \in {"abort", "pipe"}

\* isServerError, isServerFault.
IsServerError(h) ==
    IF Returned THEN Code(h) >= 500 ELSE h.status < 400 \/ h.status >= 500

\* Mutant of Captures: client errors are captured too.
CapturesAll(h) ==
    \/ h.kind = "panic" /\ ~Quiet(h)
    \/ h.kind = "error" /\ conf.captureErrors

\* Mutant of Captures: a panic is captured only if it is raised again.
CapturesRaised(h) ==
    \/ h.kind = "panic" /\ ~Quiet(h) /\ ~conf.disableRepanic
    \/ h.kind = "error" /\ conf.captureErrors /\ IsServerError(h)

Captures(h) ==
    \/ h.kind = "panic" /\ ~Quiet(h)
    \/ h.kind = "error" /\ conf.captureErrors /\ IsServerError(h)

\* Gin swallows a quiet panic with DisableRepanic, the others raise it again.
Reraises(h) ==
    h.kind = "panic" /\ (~conf.disableRepanic \/ (Quiet(h) /\ f # "gin"))

\* Integrations whose server does not recover flush before they raise.
Flushes(h) == Reraises(h) /\ f \in {"fiber", "fasthttp", "grpc", "recover"}

\* Mutant of Reported: the status in flight.
ReportedInFlight(h) == h.status

\* The status attribute: panicAttributes, errorAttributes, requestAttributes.
Reported(h) ==
    IF h.kind = "error" THEN IF Returned THEN Code(h) ELSE h.status
    ELSE IF Reraises(h) /\ ~h.written /\ (f \in {"fiber", "fasthttp"} => h.status = 200)
    THEN 500 ELSE h.status

\* Whether the event bears a status at all.
Reports(h) ==
    \/ f \in {"gin", "echo", "iris", "fiber", "fasthttp"}
    \/ f = "grpc" /\ h.kind = "error"

-----------------------------------------------------------------------------
(* A request.                                                              *)

Move(r, to) == pc' = [pc EXCEPT ![r] = to]

\* The events captured with a client.
Of(c) == {e \in Request : client[e] = c}

\* Where the deferred function goes when the capture is behind it.
AfterCapture(h) == IF Flushes(h) THEN "flush"
                   ELSE IF Reraises(h) THEN "raise" ELSE "respond"

Handle(r) ==
    /\ pc[r] = "handle"
    /\ \E h \in Outcome :
          /\ out' = [out EXCEPT ![r] = h]
          /\ Move(r, IF Captures(h) THEN "load" ELSE AfterCapture(h))
    /\ UNCHANGED <<current, state, loop, client, flushed, left, at, late, answer>>
    /\ Alive

\* CaptureRecovered, CaptureError: currentGlobal ...
Load(r) ==
    /\ pc[r] = "load"
    /\ client' = [client EXCEPT ![r] = current]
    /\ Move(r, "push")
    /\ UNCHANGED <<current, state, loop, out, flushed, left, at, late, answer>>
    /\ Alive

\* ... and the capture, which nothing ties to the pointer any more.  A disabled
\* client captures nothing.
Push(r) ==
    /\ pc[r] = "push"
    /\ IF client[r] = NoClient THEN UNCHANGED <<at, late>>
       ELSE /\ at' = [at EXCEPT ![r] = "queue"]
            /\ late' = IF state[client[r]] = "open" THEN late ELSE late \cup {r}
    /\ Move(r, IF f = "recover" /\ client[r] = NoClient THEN "raise"
               ELSE AfterCapture(out[r]))
    /\ UNCHANGED <<current, state, loop, out, client, flushed, left, answer>>
    /\ Alive

\* Mutant of FlushTarget: Recover loads the pointer again.
FlushTargetCurrent(r) == current

\* Recover flushes the client it captured with, the integrations the current.
FlushTarget(r) == IF f = "recover" THEN client[r] ELSE current

FlushBegins(r) ==
    /\ pc[r] = "flush"
    /\ flushed' = [flushed EXCEPT ![r] = FlushTarget(r)]
    /\ Move(r, "flushing")
    /\ UNCHANGED <<current, state, loop, out, client, left, at, late, answer>>
    /\ Alive

\* The buffer is empty, and the batches that this goroutine popped are handed on.
FlushDrained(r) ==
    /\ pc[r] = "flushing"
    /\ \A e \in Of(flushed[r]) : at[e] \notin {"queue", r}
    /\ Move(r, "waiting")
    /\ UNCHANGED <<current, state, loop, out, client, flushed, left, at, late, answer>>
    /\ Alive

FlushReturns(r) ==
    /\ pc[r] = "waiting"
    /\ \A e \in Of(flushed[r]) : at[e] # "sender"
    /\ left' = [left EXCEPT ![r] = at[r]]
    /\ Move(r, "raise")
    /\ UNCHANGED <<current, state, loop, out, client, flushed, at, late, answer>>
    /\ Alive

\* panicFlushTimeout, past the drain.
FlushTimesOut(r) ==
    /\ pc[r] = "waiting"
    /\ Move(r, "raise")
    /\ UNCHANGED <<current, state, loop, out, client, flushed, left, at, late, answer>>
    /\ Alive

\* The panic goes on: to a recovery layer, to a server that ends the connection,
\* or through the top of the goroutine.
Raise(r) ==
    /\ pc[r] = "raise"
    /\ crashed = {}
    /\ Move(r, "done")
    /\ answer' = [answer EXCEPT ![r] =
          IF ~conf.recovery THEN Aborted
          ELSE IF out[r].written /\ f \notin {"fiber", "fasthttp"} THEN out[r].status
          ELSE 500]
    /\ crashed' = IF ~conf.recovery /\ f \in {"fiber", "fasthttp", "grpc", "recover"}
                  THEN {r} ELSE {}
    /\ UNCHANGED <<conf, current, state, loop, out, client, flushed, left, at, late>>

\* The response: gRPC fails a swallowed panic, error handlers answer an error
\* unless the response has gone out, anything else is finalised as it is.
Respond(r) ==
    /\ pc[r] = "respond"
    /\ Move(r, "done")
    /\ answer' = [answer EXCEPT ![r] =
          CASE out[r].kind = "panic" /\ f = "grpc" -> 500
            [] out[r].kind = "error" /\ Returned
               /\ ~(f = "echo" /\ out[r].written)  -> Code(out[r])
            [] OTHER -> out[r].status]
    /\ UNCHANGED <<current, state, loop, out, client, flushed, left, at, late>>
    /\ Alive

-----------------------------------------------------------------------------
(* The package-level client and the workers of the clients.                *)

\* Init: New starts the worker and Swap replaces the pointer.
Install(c) ==
    /\ state[c] = "new"
    /\ current' = c
    /\ state' = [state EXCEPT ![c] = "open"]
    /\ loop' = [loop EXCEPT ![c] = TRUE]
    /\ UNCHANGED reqVars
    /\ Alive

\* Init with Disabled set: a client without a worker takes over.
InstallDisabled ==
    /\ conf.teardown /\ current # NoClient
    /\ current' = NoClient
    /\ UNCHANGED <<state, loop, reqVars>>
    /\ Alive

\* The host closes the package-level client, which stays where it is.
HostCloses ==
    /\ conf.teardown /\ current # NoClient /\ state[current] = "open"
    /\ state' = [state EXCEPT ![current] = "closing"]
    /\ UNCHANGED <<current, loop, reqVars>>
    /\ Alive

Put(e, p) ==
    /\ at' = [at EXCEPT ![e] = p]
    /\ UNCHANGED <<current, state, loop, pc, out, client, flushed, left, late, answer>>
    /\ Alive

\* A batch is popped by the loop, by the caller of a Flush or by the Close ...
LoopTakes(e) == at[e] = "queue" /\ loop[client[e]] /\ Put(e, "loop")
FlushTakes(r, e) ==
    /\ pc[r] = "flushing"
    /\ at[e] = "queue" /\ client[e] = flushed[r]
    /\ \A d \in Request : at[d] # r
    /\ Put(e, r)
CloseTakes(e) == at[e] = "queue" /\ state[client[e]] = "draining" /\ Put(e, "close")

\* ... handed to a sender that the WaitGroup counts, and resolved there or, with
\* no permit left, by whoever popped it.
Carried(e) == at[e] \in {"loop", "close"} \cup Request
Dispatch(e) == Carried(e) /\ Put(e, "sender")
Resolve(e) == (Carried(e) \/ at[e] = "sender") /\ Put(e, "resolved")

CloseStep(c, s, l) ==
    /\ state' = [state EXCEPT ![c] = s]
    /\ loop' = [loop EXCEPT ![c] = l]
    /\ UNCHANGED <<current, reqVars>>
    /\ Alive

\* Mutant of ReplacedCloses: a client whose loop has died is not closed.
ReplacedClosesAlive(c) ==
    /\ state[c] = "open" /\ current # c /\ loop[c]
    /\ CloseStep(c, "closing", loop[c])

\* Later the goroutine that Init has started closes the client it replaced, unless
\* the host is closing it already.
ReplacedCloses(c) ==
    /\ state[c] = "open" /\ current # c
    /\ CloseStep(c, "closing", loop[c])

\* A panic outside the sends disables the loop; the Close drains for it.
LoopDisabled(c) ==
    /\ loop[c] /\ \A e \in Of(c) : at[e] # "loop"
    /\ CloseStep(c, state[c], FALSE)

\* The loop has drained and exits.
LoopExits(c) ==
    /\ state[c] \in {"closing", "draining", "closed"} /\ loop[c]
    /\ \A e \in Of(c) : at[e] \notin {"queue", "loop"}
    /\ CloseStep(c, state[c], FALSE)

\* The Close sees that, or gives up on the loop after globalRecloseTimeout.
CloseDrains(c) ==
    /\ state[c] = "closing"
    /\ CloseStep(c, "draining", loop[c])

\* Mutant of CloseEnds: the buffer is not drained.
CloseEndsAtOnce(c) ==
    /\ state[c] = "draining"
    /\ CloseStep(c, "closed", loop[c])

\* The buffer is empty; it waits for the senders no longer than the timeout.
CloseEnds(c) ==
    /\ state[c] = "draining"
    /\ \A e \in Of(c) : at[e] \notin {"queue", "close"}
    /\ CloseStep(c, "closed", loop[c])

ReqStep(r) ==
    \/ Handle(r) \/ Load(r) \/ Push(r)
    \/ FlushBegins(r) \/ FlushDrained(r) \/ FlushReturns(r)
    \/ (\E e \in Request : FlushTakes(r, e))
    \/ Raise(r) \/ Respond(r)
EventStep(e) == LoopTakes(e) \/ CloseTakes(e) \/ Dispatch(e) \/ Resolve(e)
ClientStep(c) == ReplacedCloses(c) \/ LoopExits(c) \/ CloseDrains(c) \/ CloseEnds(c)

Next ==
    \/ \E r \in Request : ReqStep(r) \/ FlushTimesOut(r) \/ EventStep(r)
    \/ \E c \in Client : Install(c) \/ LoopDisabled(c) \/ ClientStep(c)
    \/ InstallDisabled \/ HostCloses

Spec == Init /\ [][Next]_vars
FairSpec ==
    /\ Spec
    /\ \A r \in Request : WF_vars(ReqStep(r)) /\ WF_vars(EventStep(r))
    /\ \A c \in Client : WF_vars(ClientStep(c))

-----------------------------------------------------------------------------
(* Properties.                                                             *)

Status == {200, 400, 500}

\* The status in an event is the one the client got, whether the panic was
\* swallowed, raised or answered by a recovery layer (gin.go:125, echo.go:96,
\* fiber.go:88), except where the framework has the last word: Echo does not
\* answer an error once the response is out, and the recovery of Fiber and
\* fasthttp replaces what the handler had set.
ReportedStatusTrue ==
    \A r \in Request :
        pc[r] = "done" /\ at[r] # "none" /\ Reports(out[r]) /\ answer[r] \in Status =>
            \/ answer[r] = Reported(out[r])
            \/ f = "echo" /\ out[r].kind = "error" /\ out[r].written
            \/ /\ f \in {"fiber", "fasthttp"} /\ Reraises(out[r])
               /\ out[r].written \/ out[r].status # 200

\* No panic disappears: it goes on, or an event was made of it, unless it was
\* the client going away in Gin (gin.go:56) or no client was there to capture.
\* And a request that ended with a client error made no event of its error
\* (README.md:86), unless a plain error followed a response already sent.
FaultsCaptured ==
    \A r \in Request : pc[r] = "done" =>
        /\ out[r].kind = "panic" =>
              \/ Reraises(out[r])
              \/ at[r] # "none" \/ client[r] = NoClient
              \/ f = "gin" /\ Quiet(out[r])
        /\ out[r].kind = "error" /\ answer[r] = 400 =>
              at[r] = "none" \/ (f = "echo" /\ out[r].written)

\* When a panic ends the process after a Flush that returned nil (fiber.go:63,
\* client_global.go:80), its event has been resolved, or it is in the hands of
\* another goroutine that popped it, or Init came between capture and Flush.
\* Recover loads the client once, so that Init cannot come between.
CrashKeepsEvent ==
    \A r \in crashed : left[r] # "none" =>
        \/ at[r] = "resolved"
        \/ left[r] \in {"loop", "close"} \cup (Request \ {r})
        \/ f # "recover" /\ flushed[r] # client[r]

\* What stays in the buffer of a client whose Close is over was pushed after
\* that Close began: into the client that the host closed itself, or by a
\* goroutine that loaded the pointer before Init replaced it (client_global.go:47).
OnlyLateStranded ==
    \A r \in Request :
        at[r] = "queue" /\ state[client[r]] = "closed" => r \in late

\* Init closes every client it replaces (client_global.go:48), one that the host
\* is closing as well, and its loop ends.
ReplacedClose ==
    \A c \in Client :
        state[c] # "new" /\ current # c
            ~> (state[c] = "closed" /\ ~loop[c]) \/ crashed # {}
=============================================================================
