------------------------------ MODULE Delivery ------------------------------
(***************************************************************************)
(* The delivery of one batch: deliverBatch of                              *)
(* src/internal/transport/worker.go with Send of sender.go and the sleep   *)
(* and jitter of util.go.  Worker abstracts this to what one attempt does  *)
(* to a batch; here are the statuses, the delays and their arithmetic.     *)
(* A duration is a signed integer between -MaxInt - 1 and MaxInt.          *)
(***************************************************************************)
EXTENDS Configuration

CONSTANTS
    MaxInt,     \* the largest time.Duration and int (2^63 - 1 in the program)
    Second,     \* time.Second in units of a duration
    Config,     \* the configurations a host may give New
    Status,     \* the HTTP statuses a server may answer
    Header      \* the Retry-After headers it may send

\* The number of values a duration can have, 2^64 in the program.
Span == 2 * (MaxInt + 1)

ASSUME DeliveryAssumption ==
    /\ MaxInt \in Nat /\ Second \in Nat \ {0}
    /\ Config \subseteq [Field -> Int]
    /\ \A c \in Config : \A k \in {"RetryMax", "RateLimitBackoff"} :
          c[k] <= MaxInt /\ Default[k] <= MaxInt
    /\ WorkerDefault["BaseBackoff"] <= MaxInt
    /\ Status \subseteq 200..599
    /\ \A h \in Header : h.form \in {"absent", "secs", "date"} /\ h.v \in Int

VARIABLES
    raw,        \* the configuration of the host
    conf,       \* the worker's, after both withDefaults
    pc,         \* "encode", "send", "sleep" or "done"
    attempt,    \* the attempt number, from 0
    delay,      \* how long the current sleep takes
    done,       \* the context is done
    outcome,    \* "none", "sent" or "exhausted"
    retries,    \* OnRetry calls
    requests,   \* Send calls so far (history)
    last        \* the last answer (history)

vars == <<raw, conf, pc, attempt, delay, done, outcome, retries, requests, last>>

-----------------------------------------------------------------------------
(* Answers.                                                                *)

\* Two's complement.
Wrap(n) == ((n + MaxInt + 1) % Span) - (MaxInt + 1)

\* The delay a header asks for.  Atoi refuses what does not fit an int; a
\* date (v from now) is refused once past.
ParseRetryAfter(h) ==
    CASE h.form = "secs" /\ h.v \in 0..MaxInt -> Wrap(h.v * Second)
      [] h.form = "date" /\ h.v > 0           -> h.v
      [] OTHER                                -> 0

\* Status 0 stands for a request without an answer.
NoAnswer == [status |-> 0, header |-> [form |-> "absent", v |-> 0]]
Answer == {NoAnswer} \cup [status : Status, header : Header]

Accepted(a) == a.status \in 200..299
RateLimited(a) == a.status = 429

\* Mutant of Retryable: every refusal is worth a retry.
RetryableAlways(a) == a.status \notin 200..299

Retryable(a) == a.status = 0 \/ a.status = 429 \/ a.status >= 500

-----------------------------------------------------------------------------
(* Delays.                                                                 *)

\* Round k of the loop of expBackoff, from the delay before it: the loop
\* breaks at the cap, and an overflow is below it.
Round(k, before) ==
    IF (k > 1 /\ before = conf.RetryMax) \/ Wrap(2 * before) >= conf.RetryMax
    THEN conf.RetryMax ELSE Wrap(2 * before)

\* The delay of expBackoff after n rounds.
Doubled(n) ==
    LET round[k \in 0..n] == IF k = 0 THEN conf.BaseBackoff
                             ELSE Round(k, round[k - 1])
    IN  round[n]

\* Mutant of Intn: the guard against n <= 0 is missing, so that the modulus
\* is taken of the unsigned n and its result read as signed.
IntnUnguarded(n) == {Wrap(m) : m \in 0..((n % Span) - 1)}

\* What the jitter's intn(n) may return.
Intn(n) == IF n <= 0 THEN {0} ELSE 0..(n - 1)

\* Mutant of RateLimitDelay: the header replaces the configured minimum.
RateLimitHeaderOnly(h) ==
    IF ParseRetryAfter(h) # 0 THEN ParseRetryAfter(h) ELSE conf.RateLimitBackoff

RateLimitDelay(h) ==
    IF ParseRetryAfter(h) > conf.RateLimitBackoff THEN ParseRetryAfter(h)
    ELSE conf.RateLimitBackoff

\* The delays classifyRetry may choose for a retryable answer.
Delays(a) == IF RateLimited(a) THEN {RateLimitDelay(a.header)}
             ELSE Intn(Wrap(Doubled(attempt) + 1))

-----------------------------------------------------------------------------
(* deliverBatch.                                                           *)

Init ==
    /\ raw \in Config
    /\ conf = WorkerConfig(raw)
    /\ pc = "encode" /\ attempt = 0 /\ delay = 0
    /\ done \in BOOLEAN
    /\ outcome = "none"
    /\ retries = 0 /\ requests = 0 /\ last = NoAnswer

Resolve(o) == pc' = "done" /\ outcome' = o

Encode ==
    /\ pc = "encode"
    /\ pc' = "send"
    /\ UNCHANGED <<raw, conf, attempt, delay, done, outcome, retries, requests, last>>

\* encode fails or panics: nothing is sent.
EncodeFails ==
    /\ pc = "encode"
    /\ Resolve("exhausted")
    /\ UNCHANGED <<raw, conf, attempt, delay, done, retries, requests, last>>

\* Send panics, or cannot compress the body or build the request: permanent.
SendBreaks ==
    /\ pc = "send"
    /\ requests' = requests + 1
    /\ Resolve("exhausted")
    /\ UNCHANGED <<raw, conf, attempt, delay, done, retries, last>>

\* Send returns.  With the context done no answer is waited for.
Answered(a) ==
    /\ pc = "send"
    /\ done => a = NoAnswer
    /\ requests' = requests + 1
    /\ last' = a
    /\ UNCHANGED <<raw, conf, attempt, done>>

SendOK(a) ==
    /\ Answered(a)
    /\ Accepted(a)
    /\ Resolve("sent")
    /\ UNCHANGED <<delay, retries>>

\* Mutant of MayRetry: one attempt too many.
MayRetryOnceMore == attempt <= conf.MaxRetries

MayRetry == attempt < conf.MaxRetries

GiveUp(a) ==
    /\ Answered(a)
    /\ ~Accepted(a)
    /\ ~(Retryable(a) /\ MayRetry)
    /\ Resolve("exhausted")
    /\ UNCHANGED <<delay, retries>>

\* Mutant of BackOff: rate limiting is not counted as a retry.
BackOffUncounted(a) ==
    /\ Answered(a)
    /\ ~Accepted(a) /\ Retryable(a) /\ MayRetry
    /\ delay' \in Delays(a)
    /\ retries' = IF RateLimited(a) THEN retries ELSE retries + 1
    /\ pc' = "sleep"
    /\ UNCHANGED outcome

BackOff(a) ==
    /\ Answered(a)
    /\ ~Accepted(a) /\ Retryable(a) /\ MayRetry
    /\ delay' \in Delays(a)
    /\ retries' = retries + 1
    /\ pc' = "sleep"
    /\ UNCHANGED outcome

\* The sleep is over and the context still good.
Wake ==
    /\ pc = "sleep"
    /\ ~done
    /\ pc' = "send"
    /\ attempt' = attempt + 1
    /\ UNCHANGED <<raw, conf, delay, done, outcome, retries, requests, last>>

\* The context ended before or during the sleep.
DropOnCancel ==
    /\ pc = "sleep"
    /\ done
    /\ Resolve("exhausted")
    /\ UNCHANGED <<raw, conf, attempt, delay, done, retries, requests, last>>

\* The worker or the caller of Flush gives up, at any time.
ContextEnds ==
    /\ pc # "done" /\ ~done
    /\ done' = TRUE
    /\ UNCHANGED <<raw, conf, pc, attempt, delay, outcome, retries, requests, last>>

Finished == pc = "done" /\ UNCHANGED vars

Next ==
    \/ Encode \/ EncodeFails \/ SendBreaks
    \/ \E a \in Answer : SendOK(a) \/ GiveUp(a) \/ BackOff(a)
    \/ Wake \/ DropOnCancel
    \/ ContextEnds
    \/ Finished

Spec == Init /\ [][Next]_vars

-----------------------------------------------------------------------------
(* Properties.                                                             *)

\* Whatever expBackoff's doubling (worker.go:295) wraps around to, the jittered
\* sleep after a fault is never negative and never longer than the cap, or
\* than the base delay if that is the longer one.
JitterBounded ==
    pc = "sleep" /\ ~RateLimited(last) =>
        /\ delay >= 0
        /\ delay <= conf.BaseBackoff \/ delay <= conf.RetryMax

\* After a 429 (worker.go:277) the sleep is at least the configured minimum
\* whatever the header says, a wrapped product of parseRetryAfter included,
\* and at least what the header asks for if that fits a duration.
HonoursRetryAfter ==
    pc = "sleep" /\ RateLimited(last) =>
        /\ delay >= conf.RateLimitBackoff
        /\ last.header.form = "secs" /\ last.header.v * Second \in 0..MaxInt =>
              delay >= last.header.v * Second

\* However faults, rate limiting and cancellation mix, a batch costs the server
\* at most one request more than the retries the host asked for: config.go:116
\* and worker.go:50 both default MaxRetries, and a host that turned retries off
\* with a negative value must not get them back.
RequestsBounded == requests <= RetriesAsked(raw) + 1

\* A request is repeated (worker.go:241) only after an answer that a retry can
\* change, and never once the context had ended before the sleep was over.
RepeatsOnlyTransient ==
    [][pc = "sleep" /\ pc' = "send" =>
          ~done /\ (last.status \in {0, 429} \/ last.status \in 500..599)]_vars

\* The retries counted (worker.go:256) are the requests repeated, and one more
\* only when the end of the context cut the last sleep short.
RetriesMatch ==
    outcome # "none" /\ requests > 0 =>
        \/ retries = requests - 1
        \/ retries = requests /\ done /\ outcome = "exhausted"
=============================================================================
