---------------------------- MODULE WorkerClaims ----------------------------
(***************************************************************************)
(* What comments and documents of the repository say of the pipeline and   *)
(* the code of worker.go does not do.  Each claim is refuted by one run.   *)
(***************************************************************************)
EXTENDS Worker

\* client.go:352 "Flush blocks until pending events are delivered or ctx
\* expires": after a nil result every event captured before the call has an
\* outcome.  Batches that another goroutine popped are not waited for while
\* they are not counted by the WaitGroup.
FlushDelivers ==
    \A c \in Flusher :
        result[c] = "nil" => 1..before[c] \subseteq Resolved

\* README.md:19 "Every entry point and background task is panic-guarded": no
\* panic of the pipeline ends the process.  The goroutine of waitInflight is
\* started without safeguard and Wait panics when the group is reused early.
NoUnguardedPanic == ~crashed
=============================================================================
