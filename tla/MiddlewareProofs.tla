-------------------------- MODULE MiddlewareProofs --------------------------
(***************************************************************************)
(* Proofs about Middleware for any number of requests and clients and any  *)
(* mix of installations: what has been decided at each place of a request, *)
(* and where its event is.                                                 *)
(***************************************************************************)
EXTENDS Middleware, TLAPS

-----------------------------------------------------------------------------
(* The inductive invariant.                                                *)

Before == {"absent", "handle"}
Deciding == {"load", "push"}
Flushing == {"flush", "flushing", "waiting"}
Ending == Flushing \cup {"raise", "respond", "done"}
Place == {"none", "queue", "loop", "close", "sender", "resolved"} \cup Request

TypesOK ==
    /\ current \in Client \cup {NoClient}
    /\ state \in [Client -> {"new", "open", "closing", "draining", "closed"}]
    /\ pc \in [Request -> Before \cup Deciding \cup Ending]
    /\ out = [r \in Request |-> out[r]]
    /\ client \in [Request -> Client \cup {NoClient, "none"}]
    /\ flushed \in [Request -> Client \cup {NoClient, "none"}]
    /\ left \in [Request -> Place]
    /\ at \in [Request -> Place]
    /\ late \subseteq Request
    /\ answer = [r \in Request |-> answer[r]]
    /\ crashed \subseteq Request

\* What follows speaks of one request: it is at p, its handler ended with h, its
\* event is at b, it loaded the client c, flushed d with the result l and was
\* answered n.

\* What follows speaks of one request: it is at p, its handler ended with h, its
\* event is at b, it loaded the client c, flushed d with the result l and was
\* answered n.

\* A panic goes on when the integration raises it again, and always when
\* Recover finds no client.
GoesOn(h, c) == Reraises(h) \/ (f = "recover" /\ c = NoClient)

RaiseAnswer(h) ==
    IF ~conf.recovery THEN Aborted
    ELSE IF h.written /\ f \notin {"fiber", "fasthttp"} THEN h.status ELSE 500

RespondAnswer(h) ==
    CASE h.kind = "panic" /\ f = "grpc" -> 500
      [] h.kind = "error" /\ Returned
         /\ ~(f = "echo" /\ h.written)  -> Code(h)
      [] OTHER -> h.status

\* What the end of the handler has decided so far.
Decided(p, h, b, c, n) ==
    /\ p \in Before \cup Deciding => b = "none"
    /\ p \in Deciding => Captures(h)
    /\ p = "push" => c \in Client \cup {NoClient}
    /\ p \in Ending =>
          /\ b # "none" => Captures(h) /\ c \in Client
          /\ Captures(h) => b # "none" \/ c = NoClient
    /\ p \notin Before => (h.kind = "error" => f # "recover")
    /\ p \in Flushing \cup {"raise"} => GoesOn(h, c)
    /\ p = "respond" => ~Reraises(h)
    /\ p = "done" =>
          \/ GoesOn(h, c) /\ n = RaiseAnswer(h)
          \/ ~Reraises(h) /\ n = RespondAnswer(h)

\* Where the event of r is while r flushes, and after.
Flushed(r, p, b, c, d, l) ==
    /\ l # "none" => p \in {"raise", "done"}
    /\ p \in {"flushing", "waiting"} /\ f = "recover" => d = c
    /\ p = "waiting" /\ d = c => b \notin {"queue", r}
    /\ l # "none" =>
          \/ b = "resolved"
          \/ l \in {"loop", "close"} \cup (Request \ {r})
          \/ f # "recover" /\ d # c

\* The event stays in the buffer of a closed client only if it came late.
Stranded(r) == at[r] = "queue" /\ state[client[r]] = "closed" => r \in late

RequestOK(r) ==
    /\ Decided(pc[r], out[r], at[r], client[r], answer[r])
    /\ Flushed(r, pc[r], at[r], client[r], flushed[r], left[r])
    /\ Stranded(r)

MInv == TypesOK /\ \A r \in Request : RequestOK(r)

-----------------------------------------------------------------------------
(* The installation does not change, and with it no decision does.         *)

LEMMA DecidedFrozen ==
    ASSUME conf' = conf, NEW r \in Request
    PROVE  Decided(pc[r], out[r], at[r], client[r], answer[r])'
              <=> Decided(pc'[r], out'[r], at'[r], client'[r], answer'[r])
<1>1. f' = f
  BY DEF f
<1>2. /\ Captures(out[r])' <=> Captures(out'[r])
      /\ Reraises(out[r])' <=> Reraises(out'[r])
      /\ Returned' <=> Returned
  BY <1>1 DEF Captures, Reraises, Quiet, IsServerError, Returned, Code
<1>3. /\ RaiseAnswer(out[r])' = RaiseAnswer(out'[r])
      /\ RespondAnswer(out[r])' = RespondAnswer(out'[r])
  BY <1>1, <1>2 DEF RaiseAnswer, RespondAnswer, Code
<1> QED
  BY <1>1, <1>2, <1>3 DEF Decided, GoesOn

LEMMA FlushedFrozen ==
    ASSUME conf' = conf, NEW r \in Request
    PROVE  Flushed(r, pc[r], at[r], client[r], flushed[r], left[r])'
              <=> Flushed(r, pc'[r], at'[r], client'[r], flushed'[r], left'[r])
<1>1. f' = f
  BY DEF f
<1> QED
  BY <1>1 DEF Flushed

\* A step leaves the request r where it is; its event may move.
Still(r) ==
    /\ pc'[r] = pc[r] /\ out'[r] = out[r] /\ client'[r] = client[r]
    /\ flushed'[r] = flushed[r] /\ left'[r] = left[r] /\ answer'[r] = answer[r]

LEMMA StillOK ==
    ASSUME conf' = conf, NEW r \in Request, RequestOK(r), Still(r), at'[r] = at[r],
           at[r] = "queue" => Stranded(r)'
    PROVE  RequestOK(r)'
<1>1. Decided(pc'[r], out'[r], at'[r], client'[r], answer'[r])
  BY DEF RequestOK, Still
<1>2. Flushed(r, pc'[r], at'[r], client'[r], flushed'[r], left'[r])
  BY DEF RequestOK, Still
<1>3. Stranded(r)'
  BY DEF Stranded
<1> QED
  BY <1>1, <1>2, <1>3, DecidedFrozen, FlushedFrozen DEF RequestOK

\* A step that touches only the request r.
Alone(r) ==
    /\ conf' = conf /\ state' = state
    /\ \A t \in Request \ {r} :
          Still(t) /\ at'[t] = at[t] /\ (t \in late => t \in late')

LEMMA AloneOK ==
    ASSUME MInv, NEW r \in Request, Alone(r), TypesOK',
           Decided(pc'[r], out'[r], at'[r], client'[r], answer'[r]),
           Flushed(r, pc'[r], at'[r], client'[r], flushed'[r], left'[r]),
           Stranded(r)'
    PROVE  MInv'
<1>1. RequestOK(r)'
  BY DecidedFrozen, FlushedFrozen DEF RequestOK, Alone
<1>2. ASSUME NEW t \in Request, t # r PROVE RequestOK(t)'
  <2>1. Still(t) /\ at'[t] = at[t] /\ (t \in late => t \in late')
    BY <1>2 DEF Alone
  <2>2. RequestOK(t)
    BY DEF MInv
  <2>3. Stranded(t)'
    BY <2>1, <2>2 DEF RequestOK, Stranded, Alone, Still
  <2> QED
    BY <2>1, <2>2, <2>3, StillOK DEF Alone
<1> QED
  BY <1>1, <1>2 DEF MInv

LEMMA InitInv == ASSUME Init PROVE MInv
<1>1. TypesOK
  BY DEF Init, TypesOK, Before, Deciding, Ending, Flushing, Place
<1>2. ASSUME NEW r \in Request PROVE RequestOK(r)
  <2>1. pc[r] \in Before /\ at[r] = "none" /\ left[r] = "none"
    BY DEF Init, Before
  <2> QED
    BY <2>1 DEF RequestOK, Decided, Flushed, Stranded, Before, Deciding, Ending, Flushing
<1> QED
  BY <1>1, <1>2 DEF MInv

-----------------------------------------------------------------------------
(* The steps of a request.                                                 *)

\* Only the frameworks that return or record errors have any.
LEMMA ErrorsReturned ==
    ASSUME NEW h \in Outcome, h.kind = "error"
    PROVE  f # "recover"
BY DEF Outcome, Ends, Returned

LEMMA AfterCapturePlaces ==
    ASSUME NEW h
    PROVE  \/ AfterCapture(h) \in {"flush", "raise"} /\ Reraises(h)
           \/ AfterCapture(h) = "respond" /\ ~Reraises(h)
BY DEF AfterCapture, Flushes

LEMMA HandleInv == ASSUME MInv, NEW r \in Request, Handle(r) PROVE MInv'
<1>1. PICK h \in Outcome :
          /\ out' = [out EXCEPT ![r] = h]
          /\ Move(r, IF Captures(h) THEN "load" ELSE AfterCapture(h))
  BY DEF Handle
<1>2. TypesOK /\ RequestOK(r) /\ pc[r] = "handle"
  BY DEF MInv, Handle
<1>3. PICK p : /\ p = IF Captures(h) THEN "load" ELSE AfterCapture(h)
               /\ pc' = [pc EXCEPT ![r] = p]
  BY <1>1 DEF Move
<1>4. /\ p \in {"load", "flush", "raise", "respond"}
      /\ p = "load" <=> Captures(h)
      /\ p \in {"flush", "raise"} => Reraises(h)
      /\ p = "respond" => ~Reraises(h)
  BY <1>3, AfterCapturePlaces
<1>5. TypesOK'
  BY <1>1, <1>2, <1>3, <1>4 DEF TypesOK, Handle, Alive, Ending, Deciding, Flushing
<1>6. /\ pc'[r] = p /\ out'[r] = h /\ at'[r] = "none" /\ left'[r] = "none"
      /\ Alone(r)
  BY <1>1, <1>2, <1>3 DEF TypesOK, Handle, Alive, Alone, Still, RequestOK, Decided,
     Flushed, Before
<1>7. Decided(p, h, at'[r], client'[r], answer'[r])
  BY <1>4, <1>6, ErrorsReturned DEF Decided, GoesOn, Before, Deciding, Ending, Flushing
<1>8. Flushed(r, p, at'[r], client'[r], flushed'[r], left'[r])
  BY <1>4, <1>6 DEF Flushed
<1>9. Stranded(r)'
  BY <1>6 DEF Stranded
<1> QED
  BY <1>5, <1>6, <1>7, <1>8, <1>9, AloneOK

LEMMA LoadInv == ASSUME MInv, NEW r \in Request, Load(r) PROVE MInv'
<1>1. TypesOK /\ RequestOK(r) /\ pc[r] = "load"
  BY DEF MInv, Load
<1>2. TypesOK'
  BY <1>1 DEF TypesOK, Load, Move, Alive, Ending, Deciding, Flushing
<1>3. /\ pc'[r] = "push" /\ out'[r] = out[r] /\ at'[r] = at[r] /\ left'[r] = left[r]
      /\ client'[r] = current /\ current \in Client \cup {NoClient}
      /\ Alone(r)
  BY <1>1 DEF TypesOK, Load, Move, Alive, Alone, Still
<1>4. at[r] = "none" /\ Captures(out[r]) /\ (out[r].kind = "error" => f # "recover")
  BY <1>1 DEF RequestOK, Decided, Deciding, Before
<1>5. Decided(pc'[r], out'[r], at'[r], client'[r], answer'[r])
  BY <1>3, <1>4 DEF Decided, Before, Deciding, Ending, Flushing
<1>6. Flushed(r, pc'[r], at'[r], client'[r], flushed'[r], left'[r])
  BY <1>1, <1>3 DEF RequestOK, Flushed
<1>7. Stranded(r)'
  BY <1>3, <1>4 DEF Stranded
<1> QED
  BY <1>2, <1>3, <1>5, <1>6, <1>7, AloneOK

LEMMA PushInv == ASSUME MInv, NEW r \in Request, Push(r) PROVE MInv'
<1>1. TypesOK /\ RequestOK(r) /\ pc[r] = "push"
  BY DEF MInv, Push
<1>2. PICK p : /\ p = IF f = "recover" /\ client[r] = NoClient THEN "raise"
                      ELSE AfterCapture(out[r])
               /\ pc' = [pc EXCEPT ![r] = p]
  BY DEF Push, Move
<1>3. /\ p \in {"flush", "raise", "respond"}
      /\ p \in {"flush", "raise"} => GoesOn(out[r], client[r])
      /\ p = "respond" => ~Reraises(out[r])
  BY <1>2, AfterCapturePlaces DEF GoesOn
<1>4. /\ at[r] = "none" /\ Captures(out[r]) /\ (out[r].kind = "error" => f # "recover")
      /\ client[r] \in Client \cup {NoClient} /\ left[r] = "none"
  BY <1>1 DEF RequestOK, Decided, Flushed, Deciding, Before
<1>5. TypesOK'
  BY <1>1, <1>2, <1>3 DEF TypesOK, Push, Alive, Ending, Deciding, Flushing, Place
<1>6. /\ pc'[r] = p /\ out'[r] = out[r] /\ left'[r] = left[r]
      /\ client'[r] = client[r]
      /\ Alone(r)
  BY <1>1, <1>2 DEF TypesOK, Push, Alive, Alone, Still
<1>7. IF client[r] = NoClient THEN at'[r] = "none"
      ELSE at'[r] = "queue" /\ (state[client[r]] = "open" \/ r \in late')
  BY <1>1, <1>4 DEF TypesOK, Push
<1>8. Decided(pc'[r], out'[r], at'[r], client'[r], answer'[r])
  BY <1>3, <1>4, <1>6, <1>7 DEF Decided, Before, Deciding, Ending, Flushing
<1>9. Flushed(r, pc'[r], at'[r], client'[r], flushed'[r], left'[r])
  BY <1>3, <1>4, <1>6 DEF Flushed
<1>10. Stranded(r)'
  BY <1>6, <1>7 DEF Stranded, Alone
<1> QED
  BY <1>5, <1>6, <1>8, <1>9, <1>10, AloneOK

\* What the steps of a Flush leave alone.
LEMMA DecidedKept ==
    ASSUME NEW p, NEW q, NEW h, NEW b, NEW c, NEW n, Decided(p, h, b, c, n),
           p \in Flushing, q \in Flushing \cup {"raise"}
    PROVE  Decided(q, h, b, c, n)
BY DEF Decided, Before, Deciding, Ending, Flushing

LEMMA FlushBeginsInv == ASSUME MInv, NEW r \in Request, FlushBegins(r) PROVE MInv'
<1>1. TypesOK /\ RequestOK(r) /\ pc[r] = "flush"
  BY DEF MInv, FlushBegins
<1>2. FlushTarget(r) \in Client \cup {NoClient, "none"}
  BY <1>1 DEF FlushTarget, TypesOK
<1>3. TypesOK'
  BY <1>1, <1>2 DEF TypesOK, FlushBegins, Move, Alive, Ending, Deciding, Flushing
<1>4. /\ pc'[r] = "flushing" /\ out'[r] = out[r] /\ at'[r] = at[r]
      /\ left'[r] = left[r] /\ client'[r] = client[r] /\ answer'[r] = answer[r]
      /\ flushed'[r] = FlushTarget(r) /\ late' = late /\ state' = state
      /\ Alone(r)
  BY <1>1 DEF TypesOK, FlushBegins, Move, Alive, Alone, Still
<1>5. Decided(pc'[r], out'[r], at'[r], client'[r], answer'[r])
  BY <1>1, <1>4, DecidedKept DEF RequestOK, Flushing
<1>6. Flushed(r, pc'[r], at'[r], client'[r], flushed'[r], left'[r])
  BY <1>1, <1>4 DEF RequestOK, Flushed, FlushTarget
<1>7. Stranded(r)'
  BY <1>1, <1>4 DEF RequestOK, Stranded
<1> QED
  BY <1>3, <1>4, <1>5, <1>6, <1>7, AloneOK

LEMMA FlushDrainedInv == ASSUME MInv, NEW r \in Request, FlushDrained(r) PROVE MInv'
<1>1. TypesOK /\ RequestOK(r) /\ pc[r] = "flushing"
  BY DEF MInv, FlushDrained
<1>2. TypesOK'
  BY <1>1 DEF TypesOK, FlushDrained, Move, Alive, Ending, Deciding, Flushing
<1>3. /\ pc'[r] = "waiting" /\ out'[r] = out[r] /\ at'[r] = at[r]
      /\ left'[r] = left[r] /\ client'[r] = client[r] /\ answer'[r] = answer[r]
      /\ flushed'[r] = flushed[r] /\ late' = late /\ state' = state
      /\ Alone(r)
  BY <1>1 DEF TypesOK, FlushDrained, Move, Alive, Alone, Still
<1>4. flushed[r] = client[r] => at[r] \notin {"queue", r}
  BY DEF FlushDrained, Of
<1>5. Decided(pc'[r], out'[r], at'[r], client'[r], answer'[r])
  BY <1>1, <1>3, DecidedKept DEF RequestOK, Flushing
<1>6. Flushed(r, pc'[r], at'[r], client'[r], flushed'[r], left'[r])
  BY <1>1, <1>3, <1>4 DEF RequestOK, Flushed
<1>7. Stranded(r)'
  BY <1>1, <1>3 DEF RequestOK, Stranded
<1> QED
  BY <1>2, <1>3, <1>5, <1>6, <1>7, AloneOK

\* The event that a Flush waited for is resolved, or held by the loop, the Close
\* or another request; with another client nothing is known of it.
LEMMA FlushReturnsInv == ASSUME MInv, NEW r \in Request, FlushReturns(r) PROVE MInv'
<1>1. TypesOK /\ RequestOK(r) /\ pc[r] = "waiting"
  BY DEF MInv, FlushReturns
<1>2. at[r] \in Place
  BY <1>1 DEF TypesOK
<1>3. TypesOK'
  BY <1>1, <1>2 DEF TypesOK, FlushReturns, Move, Alive, Ending, Deciding, Flushing
<1>4. /\ pc'[r] = "raise" /\ out'[r] = out[r] /\ at'[r] = at[r]
      /\ left'[r] = at[r] /\ client'[r] = client[r] /\ answer'[r] = answer[r]
      /\ flushed'[r] = flushed[r] /\ late' = late /\ state' = state
      /\ Alone(r)
  BY <1>1 DEF TypesOK, FlushReturns, Move, Alive, Alone, Still
<1>5. Decided(pc'[r], out'[r], at'[r], client'[r], answer'[r])
  BY <1>1, <1>4, DecidedKept DEF RequestOK, Flushing
<1>6. flushed[r] = client[r] => at[r] \notin {"queue", "sender", r}
  BY <1>1 DEF FlushReturns, Of, RequestOK, Flushed
<1>7. f = "recover" => flushed[r] = client[r]
  BY <1>1 DEF RequestOK, Flushed
<1>8. Flushed(r, pc'[r], at'[r], client'[r], flushed'[r], left'[r])
  BY <1>2, <1>4, <1>6, <1>7 DEF Flushed, Place
<1>9. Stranded(r)'
  BY <1>1, <1>4 DEF RequestOK, Stranded
<1> QED
  BY <1>3, <1>4, <1>5, <1>8, <1>9, AloneOK

LEMMA FlushTimesOutInv ==
    ASSUME MInv, NEW r \in Request, FlushTimesOut(r) PROVE MInv'
<1>1. TypesOK /\ RequestOK(r) /\ pc[r] = "waiting"
  BY DEF MInv, FlushTimesOut
<1>2. TypesOK'
  BY <1>1 DEF TypesOK, FlushTimesOut, Move, Alive, Ending, Deciding, Flushing
<1>3. /\ pc'[r] = "raise" /\ out'[r] = out[r] /\ at'[r] = at[r]
      /\ left'[r] = left[r] /\ client'[r] = client[r] /\ answer'[r] = answer[r]
      /\ flushed'[r] = flushed[r] /\ late' = late /\ state' = state
      /\ Alone(r)
  BY <1>1 DEF TypesOK, FlushTimesOut, Move, Alive, Alone, Still
<1>4. Decided(pc'[r], out'[r], at'[r], client'[r], answer'[r])
  BY <1>1, <1>3, DecidedKept DEF RequestOK, Flushing
<1>5. Flushed(r, pc'[r], at'[r], client'[r], flushed'[r], left'[r])
  BY <1>1, <1>3 DEF RequestOK, Flushed
<1>6. Stranded(r)'
  BY <1>1, <1>3 DEF RequestOK, Stranded
<1> QED
  BY <1>2, <1>3, <1>4, <1>5, <1>6, AloneOK

LEMMA RaiseInv == ASSUME MInv, NEW r \in Request, Raise(r) PROVE MInv'
<1>1. TypesOK /\ RequestOK(r) /\ pc[r] = "raise"
  BY DEF MInv, Raise
<1>2. PICK a : a = RaiseAnswer(out[r]) /\ answer' = [answer EXCEPT ![r] = a]
  <2>1. answer' = [answer EXCEPT ![r] = RaiseAnswer(out[r])]
    BY Zenon DEF Raise, RaiseAnswer
  <2> QED
    BY <2>1, Zenon
<1>3. TypesOK'
  BY <1>1, <1>2 DEF TypesOK, Raise, Move, Ending, Deciding, Flushing
<1>4. /\ pc'[r] = "done" /\ out'[r] = out[r] /\ at'[r] = at[r]
      /\ left'[r] = left[r] /\ client'[r] = client[r] /\ answer'[r] = a
      /\ flushed'[r] = flushed[r] /\ late' = late /\ state' = state
      /\ Alone(r)
  BY <1>1, <1>2 DEF TypesOK, Raise, Move, Alone, Still
<1>5. Decided(pc'[r], out'[r], at'[r], client'[r], answer'[r])
  BY <1>1, <1>2, <1>4 DEF RequestOK, Decided, Before, Deciding, Ending, Flushing
<1>6. Flushed(r, pc'[r], at'[r], client'[r], flushed'[r], left'[r])
  BY <1>1, <1>4 DEF RequestOK, Flushed
<1>7. Stranded(r)'
  BY <1>1, <1>4 DEF RequestOK, Stranded
<1> QED
  BY <1>3, <1>4, <1>5, <1>6, <1>7, AloneOK

LEMMA RespondInv == ASSUME MInv, NEW r \in Request, Respond(r) PROVE MInv'
<1>1. TypesOK /\ RequestOK(r) /\ pc[r] = "respond"
  BY DEF MInv, Respond
<1>2. PICK a : a = RespondAnswer(out[r]) /\ answer' = [answer EXCEPT ![r] = a]
  <2>1. answer' = [answer EXCEPT ![r] = RespondAnswer(out[r])]
    BY Zenon DEF Respond, RespondAnswer
  <2> QED
    BY <2>1, Zenon
<1>3. TypesOK'
  BY <1>1, <1>2 DEF TypesOK, Respond, Move, Alive, Ending, Deciding, Flushing
<1>4. /\ pc'[r] = "done" /\ out'[r] = out[r] /\ at'[r] = at[r]
      /\ left'[r] = left[r] /\ client'[r] = client[r] /\ answer'[r] = a
      /\ flushed'[r] = flushed[r] /\ late' = late /\ state' = state
      /\ Alone(r)
  BY <1>1, <1>2 DEF TypesOK, Respond, Move, Alive, Alone, Still
<1>5. Decided(pc'[r], out'[r], at'[r], client'[r], answer'[r])
  BY <1>1, <1>2, <1>4 DEF RequestOK, Decided, Before, Deciding, Ending, Flushing
<1>6. Flushed(r, pc'[r], at'[r], client'[r], flushed'[r], left'[r])
  BY <1>1, <1>4 DEF RequestOK, Flushed
<1>7. Stranded(r)'
  BY <1>1, <1>4 DEF RequestOK, Stranded
<1> QED
  BY <1>3, <1>4, <1>5, <1>6, <1>7, AloneOK

-----------------------------------------------------------------------------
(* The steps of an event.                                                  *)

\* It moves from the buffer to whoever takes it, to a sender, and away.
LEMMA PutInv ==
    ASSUME MInv, NEW e \in Request, NEW b \in Place, Put(e, b),
           at[e] # "none", at[e] # "resolved" \/ b = "resolved", b \notin {"none", "queue"},
           b = e => pc[e] # "waiting"
    PROVE  MInv'
<1>1. TypesOK /\ RequestOK(e)
  BY DEF MInv
<1>2. TypesOK'
  BY <1>1 DEF TypesOK, Put, Alive
<1>3. /\ pc'[e] = pc[e] /\ out'[e] = out[e] /\ at'[e] = b
      /\ left'[e] = left[e] /\ client'[e] = client[e] /\ answer'[e] = answer[e]
      /\ flushed'[e] = flushed[e]
      /\ Alone(e)
  BY <1>1 DEF TypesOK, Put, Alive, Alone, Still
<1>4. Decided(pc'[e], out'[e], at'[e], client'[e], answer'[e])
  BY <1>1, <1>3 DEF RequestOK, Decided
<1>5. Flushed(e, pc'[e], at'[e], client'[e], flushed'[e], left'[e])
  BY <1>1, <1>3 DEF RequestOK, Flushed
<1>6. Stranded(e)'
  BY <1>3 DEF Stranded
<1> QED
  BY <1>2, <1>3, <1>4, <1>5, <1>6, AloneOK

LEMMA EventInv == ASSUME MInv, NEW e \in Request, EventStep(e) PROVE MInv'
<1>1. at[e] # "none"
  BY MiddlewareAssumption DEF EventStep, LoopTakes, CloseTakes, Dispatch, Resolve, Carried
<1>2. CASE LoopTakes(e)
  BY <1>1, <1>2, PutInv, MiddlewareAssumption DEF LoopTakes, Place
<1>3. CASE CloseTakes(e)
  BY <1>1, <1>3, PutInv, MiddlewareAssumption DEF CloseTakes, Place
<1>4. CASE Dispatch(e)
  <2>1. at[e] # "resolved" /\ "sender" # e
    BY <1>4, MiddlewareAssumption DEF Dispatch, Carried
  <2> QED
    BY <1>1, <1>4, <2>1, PutInv DEF Dispatch, Place
<1>5. CASE Resolve(e)
  <2>1. "resolved" # e
    BY MiddlewareAssumption
  <2> QED
    BY <1>1, <1>5, <2>1, PutInv DEF Resolve, Place
<1> QED
  BY <1>2, <1>3, <1>4, <1>5 DEF EventStep

LEMMA FlushTakesInv ==
    ASSUME MInv, NEW r \in Request, NEW e \in Request, FlushTakes(r, e) PROVE MInv'
<1>1. r \notin {"none", "queue"} /\ r \in Place
  BY MiddlewareAssumption DEF Place
<1>2. r = e => pc[e] # "waiting"
  BY DEF FlushTakes
<1> QED
  BY <1>1, <1>2, PutInv DEF FlushTakes

-----------------------------------------------------------------------------
(* The steps of the clients.                                               *)

\* No buffer has an event of a client as that is closed.
LEMMA StateInv ==
    ASSUME MInv, TypesOK', conf' = conf, UNCHANGED reqVars,
           \A c \in Client : state'[c] = "closed" =>
               state[c] = "closed" \/ \A e \in Of(c) : at[e] # "queue"
    PROVE  MInv'
<1>1. ASSUME NEW r \in Request PROVE RequestOK(r)'
  <2>1. TypesOK /\ RequestOK(r)
    BY DEF MInv
  <2>2. Still(r) /\ at'[r] = at[r] /\ late' = late
    BY DEF Still, reqVars
  <2>3. at[r] = "queue" => client[r] \in Client
    BY <2>1 DEF TypesOK, RequestOK, Decided
  <2>4. at[r] = "queue" => Stranded(r)'
    BY <2>1, <2>2, <2>3 DEF RequestOK, Stranded, Of, Still
  <2> QED
    BY <2>1, <2>2, <2>4, StillOK
<1> QED
  BY <1>1 DEF MInv

LEMMA InstallInv == ASSUME MInv, NEW c \in Client, Install(c) PROVE MInv'
<1>1. TypesOK
  BY DEF MInv
<1>2. TypesOK'
  BY <1>1 DEF TypesOK, Install, Alive, reqVars
<1> QED
  BY <1>1, <1>2, StateInv DEF Install, Alive

LEMMA TeardownInv == ASSUME MInv, InstallDisabled \/ HostCloses PROVE MInv'
<1>1. TypesOK
  BY DEF MInv
<1>2. TypesOK'
  BY <1>1 DEF TypesOK, InstallDisabled, HostCloses, Alive, reqVars
<1>3. conf' = conf /\ UNCHANGED reqVars
  BY DEF InstallDisabled, HostCloses, Alive
<1>4. \A c \in Client : state'[c] = "closed" => state[c] = "closed"
  BY <1>1 DEF TypesOK, InstallDisabled, HostCloses
<1> QED
  BY <1>2, <1>3, <1>4, StateInv

LEMMA CloseStepInv ==
    ASSUME MInv, NEW c \in Client, NEW s \in {"new", "open", "closing", "draining", "closed"},
           NEW l, CloseStep(c, s, l),
           s = "closed" => state[c] = "closed" \/ \A e \in Of(c) : at[e] # "queue"
    PROVE  MInv'
<1>1. TypesOK
  BY DEF MInv
<1>2. TypesOK'
  BY <1>1 DEF TypesOK, CloseStep, Alive, reqVars
<1> QED
  BY <1>1, <1>2, StateInv DEF CloseStep, Alive, TypesOK

LEMMA ClientInv ==
    ASSUME MInv, NEW c \in Client, ClientStep(c) \/ LoopDisabled(c) PROVE MInv'
<1>1. state[c] \in {"new", "open", "closing", "draining", "closed"}
  BY DEF MInv, TypesOK
<1>2. CASE LoopDisabled(c)
  BY <1>1, <1>2, CloseStepInv DEF LoopDisabled
<1>3. CASE LoopExits(c)
  BY <1>1, <1>3, CloseStepInv DEF LoopExits
<1>4. CASE CloseDrains(c)
  BY <1>4, CloseStepInv DEF CloseDrains
<1>5. CASE CloseEnds(c)
  BY <1>5, CloseStepInv DEF CloseEnds
<1>6. CASE ReplacedCloses(c)
  BY <1>6, CloseStepInv DEF ReplacedCloses
<1> QED
  BY <1>2, <1>3, <1>4, <1>5, <1>6 DEF ClientStep

-----------------------------------------------------------------------------
(* The invariant, and what follows from it.                                *)

LEMMA StutterInv == ASSUME MInv, UNCHANGED vars PROVE MInv'
<1>1. TypesOK'
  BY DEF MInv, TypesOK, vars, reqVars
<1> QED
  BY <1>1, StateInv DEF vars

LEMMA NextInv == ASSUME MInv, [Next]_vars PROVE MInv'
<1>1. ASSUME NEW r \in Request, ReqStep(r) PROVE MInv'
  BY <1>1, HandleInv, LoadInv, PushInv, FlushBeginsInv, FlushDrainedInv,
     FlushReturnsInv, FlushTakesInv, RaiseInv, RespondInv DEF ReqStep
<1> QED
  BY <1>1, FlushTimesOutInv, EventInv, InstallInv, TeardownInv, ClientInv,
     StutterInv DEF Next

LEMMA Invariant == Spec => []MInv
<1>1. Init => MInv
  BY InitInv
<1>2. MInv /\ [Next]_vars => MInv'
  BY NextInv
<1> QED
  BY <1>1, <1>2, PTL DEF Spec

\* What an integration captures is a panic, or an error of the server.
LEMMA CapturedKinds ==
    ASSUME NEW h, Captures(h)
    PROVE  h.kind = "panic" \/ (h.kind = "error" /\ IsServerError(h))
BY DEF Captures

\* No panic disappears, and a client error makes no event (the deferred functions
\* of the integrations, e.g. gin.go:56, and isServerError).
THEOREM FaultsCapturedHolds == Spec => []FaultsCaptured
<1>1. ASSUME MInv, NEW r \in Request, pc[r] = "done"
      PROVE  /\ out[r].kind = "panic" =>
                    \/ Reraises(out[r]) \/ at[r] # "none" \/ client[r] = NoClient
                    \/ f = "gin" /\ Quiet(out[r])
             /\ out[r].kind = "error" /\ answer[r] = 400 =>
                    at[r] = "none" \/ (f = "echo" /\ out[r].written)
  <2>1. Decided("done", out[r], at[r], client[r], answer[r])
    BY <1>1 DEF MInv, RequestOK
  <2> PICK h, n : h = out[r] /\ n = answer[r]
    OBVIOUS
  <2>2. /\ at[r] # "none" => Captures(h)
        /\ Captures(h) => at[r] # "none" \/ client[r] = NoClient
        /\ h.kind = "error" => f # "recover"
        /\ \/ GoesOn(h, client[r]) /\ n = RaiseAnswer(h)
           \/ ~Reraises(h) /\ n = RespondAnswer(h)
    BY <2>1 DEF Decided, Before, Ending
  <2>3. h.kind = "panic" => Captures(h) \/ Reraises(h) \/ (f = "gin" /\ Quiet(h))
    BY DEF Captures, Reraises
  <2>4. ASSUME h.kind = "error", n = 400, at[r] # "none" PROVE f = "echo" /\ h.written
    <3>1. ~Reraises(h) /\ ~GoesOn(h, client[r])
      BY <2>2, <2>4 DEF Reraises, GoesOn
    <3>2. IsServerError(h) /\ RespondAnswer(h) = 400
      BY <2>2, <2>4, <3>1, CapturedKinds
    <3> QED
      BY <2>4, <3>2 DEF IsServerError, RespondAnswer
  <2> QED
    BY <2>2, <2>3, <2>4
<1>2. MInv => FaultsCaptured
  BY <1>1 DEF FaultsCaptured
<1> QED
  BY <1>2, Invariant, PTL

\* The status in an event is the one that the client got (panicAttributes,
\* errorAttributes and requestAttributes of the integrations).
THEOREM ReportedStatusTrueHolds == Spec => []ReportedStatusTrue
<1>1. ASSUME MInv, NEW r \in Request, pc[r] = "done", at[r] # "none",
             Reports(out[r]), answer[r] \in Status
      PROVE  \/ answer[r] = Reported(out[r])
             \/ f = "echo" /\ out[r].kind = "error" /\ out[r].written
             \/ /\ f \in {"fiber", "fasthttp"} /\ Reraises(out[r])
                /\ out[r].written \/ out[r].status # 200
  <2>1. Decided("done", out[r], at[r], client[r], answer[r])
    BY <1>1 DEF MInv, RequestOK
  <2> PICK h, n : h = out[r] /\ n = answer[r]
    OBVIOUS
  <2>2. /\ Captures(h) /\ client[r] # NoClient
        /\ \/ GoesOn(h, client[r]) /\ n = RaiseAnswer(h)
           \/ ~Reraises(h) /\ n = RespondAnswer(h)
    BY <1>1, <2>1, MiddlewareAssumption DEF Decided, Before, Ending
  <2>3. CASE Reraises(h) /\ n = RaiseAnswer(h)
    <3>1. h.kind = "panic" /\ n # Aborted
      BY <1>1, <2>3 DEF Reraises, Status, Aborted
    <3> QED
      BY <2>3, <3>1 DEF RaiseAnswer, Reported
  <2>4. CASE ~Reraises(h) /\ n = RespondAnswer(h)
    <3>1. CASE h.kind = "panic"
      BY <1>1, <2>4, <3>1 DEF RespondAnswer, Reported, Reports
    <3>2. CASE h.kind = "error"
      BY <2>4, <3>2 DEF RespondAnswer, Reported, Returned
    <3> QED
      BY <2>2, <3>1, <3>2, CapturedKinds
  <2> QED
    BY <2>2, <2>3, <2>4 DEF GoesOn
<1>2. MInv => ReportedStatusTrue
  BY <1>1 DEF ReportedStatusTrue
<1> QED
  BY <1>2, Invariant, PTL

\* As a panic ends the process after its Flush, its event is resolved or with
\* another goroutine (fiber.go:63, Recover of client_global.go).
THEOREM CrashKeepsEventHolds == Spec => []CrashKeepsEvent
<1>1. MInv => CrashKeepsEvent
  BY DEF MInv, TypesOK, RequestOK, Flushed, CrashKeepsEvent
<1> QED
  BY <1>1, Invariant, PTL

\* Only an event pushed after the Close began stays in a closed client's buffer
\* (the swap in Init and the closeLoop of the worker).
THEOREM OnlyLateStrandedHolds == Spec => []OnlyLateStranded
<1>1. MInv => OnlyLateStranded
  BY DEF MInv, RequestOK, Stranded, OnlyLateStranded
<1> QED
  BY <1>1, Invariant, PTL
=============================================================================
