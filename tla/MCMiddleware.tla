---------------------------- MODULE MCMiddleware ----------------------------
(***************************************************************************)
(* Bounds for Middleware: every installation with one request, and those   *)
(* where requests meet in Flush with both.                                 *)
(***************************************************************************)
EXTENDS Middleware

CONSTANT r1

Flushing == {"grpc", "recover"}

Possible(c) ==
    /\ c.captureErrors =>
          c.framework \in {"gin", "echo", "iris", "fiber", "grpc"}
    /\ c.disableRepanic => c.framework \notin {"nethttp", "recover"}

Plain(c) ==
    /\ c.framework \in Flushing
    /\ ~c.captureErrors /\ ~c.disableRepanic /\ ~c.recovery

Installation ==
    [framework : Framework, captureErrors : BOOLEAN, disableRepanic : BOOLEAN,
     recovery : BOOLEAN, teardown : BOOLEAN, requests : {{r1}, Request}]

MCConfig ==
    {c \in Installation :
        /\ Possible(c)
        /\ c.requests = Request => Plain(c) /\ ~c.teardown
        /\ c.teardown => Plain(c)}
=============================================================================
