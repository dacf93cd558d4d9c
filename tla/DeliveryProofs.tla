--------------------------- MODULE DeliveryProofs ---------------------------
(***************************************************************************)
(* Proofs about Delivery: how requests, retries and attempts relate, and   *)
(* how long a retry is delayed, holds for every width of the integers,     *)
(* configuration, status and header.                                       *)
(***************************************************************************)
EXTENDS Delivery, SumProofs

Transient(a) == a.status \in {0, 429} \/ a.status \in 500..599

\* Where the counters stand at each program counter.
Counted ==
    /\ pc = "encode" => attempt = 0 /\ requests = 0 /\ retries = 0
    /\ pc = "send" => requests = attempt /\ retries = attempt
    /\ pc = "sleep" =>
          /\ requests = attempt + 1 /\ retries = attempt + 1
          /\ attempt < conf.MaxRetries
          /\ Transient(last)
    /\ pc = "done" =>
          \/ requests = 0 /\ retries = 0
          \/ requests = attempt + 1 /\ retries = attempt
          \/ /\ requests = attempt + 1 /\ retries = attempt + 1
             /\ done /\ outcome = "exhausted"
    /\ pc # "done" => outcome = "none"

Bounds ==
    /\ raw \in Config /\ conf = WorkerConfig(raw)
    /\ pc \in {"encode", "send", "sleep", "done"}
    /\ attempt \in Nat /\ requests \in Nat /\ retries \in Nat
    /\ attempt <= conf.MaxRetries

DInv == Bounds /\ Counted

\* Both withDefaults together (config.go:100, worker.go:40) leave the worker
\* exactly the retries that the host's configuration asks for: none for a
\* negative value, and the default for an unset one.
THEOREM RetriesAskedReachWorker ==
    ASSUME NEW c \in Config
    PROVE  /\ RetriesAsked(c) \in Nat
           /\ WorkerConfig(c).MaxRetries = RetriesAsked(c)
<1>1. /\ c["MaxRetries"] \in Int /\ Default["MaxRetries"] \in Int
      /\ Default["MaxRetries"] > 0
      /\ "MaxRetries" \in Field /\ "MaxRetries" \in WorkerField
  BY DeliveryAssumption, DefaultsAssumption DEF Field, WorkerField
<1>2. WithDefaults(c)["MaxRetries"] = RetriesAsked(c)
  BY <1>1 DEF WithDefaults, RetriesAsked
<1>3. RetriesAsked(c) \in Nat
  BY <1>1 DEF RetriesAsked
<1>4. Passed(WithDefaults(c))["MaxRetries"] = RetriesAsked(c)
  BY <1>1, <1>2 DEF Passed
<1>5. WorkerConfig(c)["MaxRetries"]
        = IF RetriesAsked(c) > 0 THEN RetriesAsked(c) ELSE 0
  BY <1>1, <1>4 DEF WorkerConfig, WorkerWithDefaults
<1> QED
  BY <1>3, <1>5

\* An answer worth a retry is an absent one, a 429 or a server error.
LEMMA RetryableIsTransient ==
    ASSUME NEW a \in Answer, Retryable(a)
    PROVE  Transient(a)
<1>1. a.status \in {0} \cup Status
  BY DEF Answer, NoAnswer
<1>2. Status \subseteq 200..599
  BY DeliveryAssumption, Zenon
<1> DEFINE Possible == {0} \cup 200..599
           Late(s) == s \in {0, 429} \/ s \in 500..599
<1>3. \A s \in Possible : s = 0 \/ s = 429 \/ s >= 500 => Late(s)
  OBVIOUS
<1>4. a.status \in Possible
  BY <1>1, <1>2, ZenonT(40)
<1>5. Retryable(a) <=> a.status = 0 \/ a.status = 429 \/ a.status >= 500
  BY DEF Retryable
<1>6. Transient(a) <=> Late(a.status)
  BY DEF Transient
<1> HIDE DEF Possible, Late
<1> QED
  BY <1>3, <1>4, <1>5, <1>6

LEMMA InitDInv == Init => DInv
<1> SUFFICES ASSUME Init
             PROVE  DInv
  OBVIOUS
<1>1. conf.MaxRetries \in Nat
  BY RetriesAskedReachWorker DEF Init
<1> QED
  BY <1>1 DEF Init, DInv, Bounds, Counted

LEMMA NextDInv == DInv /\ [Next]_vars => DInv'
<1> SUFFICES ASSUME DInv, [Next]_vars
             PROVE  DInv'
  OBVIOUS
<1>0. conf.MaxRetries \in Nat
  BY RetriesAskedReachWorker DEF DInv, Bounds
<1>1. CASE Encode \/ EncodeFails \/ SendBreaks
  BY <1>0, <1>1 DEF DInv, Bounds, Counted, Encode, EncodeFails, SendBreaks, Resolve
<1>2. ASSUME NEW a \in Answer, SendOK(a) \/ GiveUp(a)
      PROVE  DInv'
  BY <1>0, <1>2 DEF DInv, Bounds, Counted, SendOK, GiveUp, Answered, Resolve
<1>3. ASSUME NEW a \in Answer, BackOff(a)
      PROVE  DInv'
  <2>1. Transient(last')
    BY <1>3, RetryableIsTransient DEF BackOff, Answered, Transient
  <2>2. pc = "send" /\ pc' = "sleep" /\ attempt < conf.MaxRetries
        /\ UNCHANGED <<raw, conf, attempt, done, outcome>>
        /\ requests' = requests + 1 /\ retries' = retries + 1
    BY <1>3 DEF BackOff, Answered, MayRetry
  <2> QED
    BY <1>0, <2>1, <2>2 DEF DInv, Bounds, Counted, Transient
<1>4. CASE Wake
  BY <1>0, <1>4 DEF DInv, Bounds, Counted, Wake
<1>5. CASE DropOnCancel
  BY <1>0, <1>5 DEF DInv, Bounds, Counted, DropOnCancel, Resolve
<1>6. CASE ContextEnds
  BY <1>0, <1>6 DEF DInv, Bounds, Counted, ContextEnds, Transient
<1>7. CASE Finished \/ UNCHANGED vars
  BY <1>0, <1>7 DEF DInv, Bounds, Counted, Finished, vars, Transient
<1> QED
  BY <1>1, <1>2, <1>3, <1>4, <1>5, <1>6, <1>7 DEF Next

LEMMA DInvHolds == Spec => []DInv
BY InitDInv, NextDInv, PTL DEF Spec

\* A batch costs the server at most one request more than the retries the host
\* asked for (the loop of deliverBatch, worker.go:241), in every configuration.
THEOREM RequestsBoundedHolds == Spec => []RequestsBounded
<1>1. DInv => RequestsBounded
  <2> SUFFICES ASSUME DInv
               PROVE  RequestsBounded
    OBVIOUS
  <2>1. RetriesAsked(raw) \in Nat /\ conf.MaxRetries = RetriesAsked(raw)
    BY RetriesAskedReachWorker DEF DInv, Bounds
  <2> QED
    BY <2>1 DEF DInv, Bounds, Counted, RequestsBounded
<1> QED
  BY <1>1, DInvHolds, PTL

\* Every OnRetry (worker.go:256) stands for a repeated request, but for one
\* whose sleep the end of the context cut short.
THEOREM RetriesMatchHolds == Spec => []RetriesMatch
<1>1. DInv => RetriesMatch
  BY DEF DInv, Bounds, Counted, RetriesMatch
<1> QED
  BY <1>1, DInvHolds, PTL

\* deliverBatch repeats a request only after an answer that a retry can change
\* and with its context still good.
THEOREM RepeatsOnlyTransientHolds == Spec => RepeatsOnlyTransient
<1> DEFINE A == pc = "sleep" /\ pc' = "send" => ~done /\ Transient(last)
<1>1. DInv /\ [Next]_vars => [A]_vars
  <2> SUFFICES ASSUME DInv, Next, pc = "sleep", pc' = "send"
               PROVE  ~done /\ Transient(last)
    OBVIOUS
  <2>1. Wake
    BY DEF Next, Encode, EncodeFails, SendBreaks, SendOK, GiveUp, BackOff,
           Answered, Resolve, DropOnCancel, ContextEnds, Finished, vars
  <2> QED
    BY <2>1 DEF Wake, DInv, Counted
<1>2. Spec => [][A]_vars
  BY <1>1, DInvHolds, PTL DEF Spec
<1> QED
  BY <1>2, PTL DEF RepeatsOnlyTransient, Transient

-----------------------------------------------------------------------------
(* Delays.                                                                 *)

Duration == (-(MaxInt + 1))..MaxInt

LEMMA WrapRange == \A n \in Int : Wrap(n) \in Duration
<1> SUFFICES ASSUME NEW n \in Int PROVE Wrap(n) \in Duration
  OBVIOUS
<1>1. PICK w \in Nat \ {0} : w = MaxInt + 1
  BY DeliveryAssumption
<1>2. Wrap(n) = ((n + w) % (2 * w)) - w
  BY <1>1, DeliveryAssumption DEF Wrap, Span
<1>3. (n + w) % (2 * w) \in 0..(2 * w - 1)
  <2>1. 2 * w \in Nat \ {0} /\ n + w \in Int
    BY <1>1
  <2>2. \A a \in Int : \A b \in Nat \ {0} : a % b \in 0..(b - 1)
    OBVIOUS
  <2>3. QED
    BY <2>1, <2>2
<1>4. QED
  BY <1>1, <1>2, <1>3, DeliveryAssumption DEF Duration

LEMMA WrapFits == \A n \in Duration : Wrap(n) = n
<1> SUFFICES ASSUME NEW n \in Duration PROVE Wrap(n) = n
  OBVIOUS
<1>1. PICK w \in Nat \ {0} : w = MaxInt + 1
  BY DeliveryAssumption
<1>2. Wrap(n) = ((n + w) % (2 * w)) - w
  BY <1>1, DeliveryAssumption DEF Wrap, Span, Duration
<1>3. n + w \in 0..(2 * w - 1) /\ n \in Int
  BY <1>1, DeliveryAssumption DEF Duration
<1>4. \A a \in Nat : \A b \in Nat \ {0} : a < b => a % b = a
  OBVIOUS
<1>5. (n + w) % (2 * w) = n + w
  BY <1>1, <1>3, <1>4
<1>6. QED
  BY <1>1, <1>2, <1>3, <1>5

\* One more than the largest duration wraps around to a negative one.
LEMMA WrapNext ==
    \A d \in Duration : Wrap(d + 1) \in Int /\ Wrap(d + 1) <= d + 1
<1> SUFFICES ASSUME NEW d \in Duration
             PROVE  Wrap(d + 1) \in Int /\ Wrap(d + 1) <= d + 1
  OBVIOUS
<1>1. MaxInt \in Nat /\ d \in Int
  BY DeliveryAssumption DEF Duration
<1>2. CASE d = MaxInt
  <2>1. Wrap(d + 1) \in Duration
    BY <1>1, WrapRange
  <2>2. QED
    BY <1>1, <1>2, <2>1 DEF Duration
<1>3. CASE d # MaxInt
  <2>1. d + 1 \in Duration
    BY <1>1, <1>3 DEF Duration
  <2>2. QED
    BY <1>1, <2>1, WrapFits DEF Duration
<1>4. QED
  BY <1>2, <1>3

\* The settings that delays come from are positive durations.
LEMMA DelaySettings ==
    ASSUME NEW c \in Config
    PROVE  \A k \in {"BaseBackoff", "RetryMax", "RateLimitBackoff"} :
               WorkerConfig(c)[k] \in 1..MaxInt
<1>1. \A k \in {"RetryMax", "RateLimitBackoff"} :
         /\ k \in Field /\ k \in WorkerField
         /\ c[k] \in Int /\ c[k] <= MaxInt
         /\ Default[k] \in 1..MaxInt
  BY DeliveryAssumption, DefaultsAssumption DEF Field, WorkerField
<1>2. \A k \in {"RetryMax", "RateLimitBackoff"} :
         Passed(WithDefaults(c))[k] \in 1..MaxInt
  BY <1>1, DeliveryAssumption DEF WithDefaults, Passed
<1>3. Passed(WithDefaults(c))["BaseBackoff"] = 0
  BY DEF Passed, Field, WorkerField
<1>4. WorkerDefault["BaseBackoff"] \in 1..MaxInt
  BY DeliveryAssumption, DefaultsAssumption DEF WorkerField
<1>5. \A k \in {"RetryMax", "RateLimitBackoff"} :
         WorkerConfig(c)[k] \in 1..MaxInt
  BY <1>1, <1>2, DeliveryAssumption DEF WorkerConfig, WorkerWithDefaults
<1>6. WorkerConfig(c)["BaseBackoff"] \in 1..MaxInt
  BY <1>3, <1>4 DEF WorkerConfig, WorkerWithDefaults, WorkerField
<1>7. QED
  BY <1>5, <1>6

\* The recursive function inside Doubled.
IsRounds(r, n) ==
    r = [k \in 0..n |-> IF k = 0 THEN conf.BaseBackoff ELSE Round(k, r[k - 1])]

LEMMA RoundsExist == \A n \in Nat : \E r : IsRounds(r, n)
<1> DEFINE G == {n \in Nat : \E r : IsRounds(r, n)}
<1>1. 0 \in G
  <2>1. IsRounds([k \in 0..0 |-> conf.BaseBackoff], 0)
    BY DEF IsRounds
  <2>2. QED
    BY <2>1
<1>2. ASSUME NEW n \in Nat, n \in G
      PROVE  n + 1 \in G
  <2>1. PICK r : IsRounds(r, n)
    BY <1>2
  <2>2. PICK s : s = [k \in 0..(n + 1) |->
                        IF k = n + 1 THEN Round(n + 1, r[n]) ELSE r[k]]
    OBVIOUS
  <2>3. \A k \in 0..(n + 1) :
           s[k] = IF k = 0 THEN conf.BaseBackoff ELSE Round(k, s[k - 1])
    <3> SUFFICES ASSUME NEW k \in 0..(n + 1)
                 PROVE  s[k] = IF k = 0 THEN conf.BaseBackoff
                               ELSE Round(k, s[k - 1])
      OBVIOUS
    <3>1. CASE k = n + 1
      <4>1. k # 0 /\ s[k - 1] = r[n] /\ s[k] = Round(n + 1, r[n])
        BY <2>2, <3>1
      <4>2. QED
        BY <3>1, <4>1
    <3>2. CASE k # n + 1
      <4>1. k \in 0..n /\ s[k] = r[k] /\ (k # 0 => s[k - 1] = r[k - 1])
        BY <2>2, <3>2
      <4>2. r[k] = IF k = 0 THEN conf.BaseBackoff ELSE Round(k, r[k - 1])
        BY <2>1, <4>1 DEF IsRounds
      <4>3. QED
        BY <4>1, <4>2
    <3>3. QED
      BY <3>1, <3>2
  <2>4. IsRounds(s, n + 1)
    BY <2>2, <2>3 DEF IsRounds
  <2>5. QED
    BY <2>4
<1>3. Nat \subseteq G
  <2> HIDE DEF G
  <2> QED
    BY <1>1, <1>2, NatSets
<1>4. QED
  BY <1>3

\* However the doubling wraps around, its result is a duration that is not
\* above the cap, or the base delay.
LEMMA DoubledBounded ==
    ASSUME conf.BaseBackoff \in 1..MaxInt, conf.RetryMax \in 1..MaxInt,
           NEW n \in Nat
    PROVE  /\ Doubled(n) \in Duration
           /\ Doubled(n) <= conf.BaseBackoff \/ Doubled(n) <= conf.RetryMax
<1> DEFINE R == CHOOSE r : IsRounds(r, n)
<1>1. IsRounds(R, n)
  BY RoundsExist
<1>2. Doubled(n) = R[n]
  BY DEF Doubled, IsRounds
<1> HIDE DEF R
<1>3. \A k \in 0..n :
         R[k] = IF k = 0 THEN conf.BaseBackoff ELSE Round(k, R[k - 1])
  BY <1>1 DEF IsRounds
<1>4. 1..MaxInt \subseteq Duration /\ Duration \subseteq Int
  BY DeliveryAssumption DEF Duration
<1>5. ASSUME NEW k \in Nat, NEW d \in Duration
      PROVE  Round(k, d) \in Duration /\ Round(k, d) <= conf.RetryMax
  <2>1. Wrap(2 * d) \in Duration
    BY <1>4, WrapRange
  <2>2. PICK w \in Duration : w = Wrap(2 * d)
    BY <2>1
  <2>3. \/ Round(k, d) = conf.RetryMax
        \/ Round(k, d) = w /\ ~(w >= conf.RetryMax)
    BY <2>2, Zenon DEF Round
  <2>4. QED
    BY <1>4, <2>2, <2>3
<1> DEFINE G == {k \in Nat : k <= n => R[k] \in Duration}
<1>6. 0 \in G
  BY <1>3, <1>4
<1>7. ASSUME NEW k \in Nat, k \in G PROVE k + 1 \in G
  BY <1>3, <1>5, <1>7
<1>8. Nat \subseteq G
  <2> HIDE DEF G
  <2> QED
    BY <1>6, <1>7, NatSets
<1>9. R[n] \in Duration
  BY <1>8
<1>10. CASE n = 0
  BY <1>2, <1>3, <1>4, <1>9, <1>10
<1>11. CASE n # 0
  <2>1. n - 1 \in Nat /\ R[n - 1] \in Duration
    BY <1>8, <1>11
  <2>2. R[n] = Round(n, R[n - 1])
    BY <1>3, <1>11
  <2>3. QED
    BY <1>2, <1>5, <1>9, <2>1, <2>2
<1>12. QED
  BY <1>10, <1>11

JitterOK(d) == d >= 0 /\ (d <= conf.BaseBackoff \/ d <= conf.RetryMax)

LEMMA JitterInRange ==
    ASSUME conf.BaseBackoff \in 1..MaxInt, conf.RetryMax \in 1..MaxInt,
           NEW n \in Nat, NEW d \in Intn(Wrap(Doubled(n) + 1))
    PROVE  JitterOK(d)
<1>1. PICK e \in Duration :
         e = Doubled(n) /\ (e <= conf.BaseBackoff \/ e <= conf.RetryMax)
  BY DoubledBounded
<1>2. PICK w \in Int : w = Wrap(e + 1) /\ w <= e + 1
  BY WrapNext
<1>3. d \in Intn(w)
  BY <1>1, <1>2
<1>4. e \in Int
  BY DeliveryAssumption DEF Duration
<1>5. d = 0 \/ (d \in Int /\ d >= 0 /\ d <= e)
  BY <1>2, <1>3, <1>4 DEF Intn
<1>6. QED
  BY <1>1, <1>4, <1>5 DEF JitterOK

RateLimitOK(h, d) ==
    /\ d >= conf.RateLimitBackoff
    /\ h.form = "secs" /\ h.v * Second \in 0..MaxInt => d >= h.v * Second

LEMMA RateLimitInRange ==
    ASSUME conf.RateLimitBackoff \in 1..MaxInt, NEW h \in Header \cup {NoAnswer.header}
    PROVE  RateLimitOK(h, RateLimitDelay(h))
<1>1. PICK v \in Int : v = h.v
  BY DeliveryAssumption DEF NoAnswer
<1>2. PICK s \in Nat \ {0} : s = Second
  BY DeliveryAssumption
<1>3. v * s \in Int /\ MaxInt \in Nat
  BY DeliveryAssumption
<1>4. ParseRetryAfter(h) \in Int
  <2>1. Wrap(v * s) \in Int
    BY <1>3, WrapRange, DeliveryAssumption DEF Duration
  <2>2. QED
    BY <1>1, <1>2, <2>1 DEF ParseRetryAfter
<1>5. ASSUME h.form = "secs", v * s \in 0..MaxInt
      PROVE  ParseRetryAfter(h) = v * s
  <2>1. v >= 0 /\ v <= v * s
    BY <1>5
  <2>2. v \in 0..MaxInt
    BY <1>3, <1>5, <2>1
  <2>3. v * s \in Duration
    BY <1>3, <1>5 DEF Duration
  <2>4. QED
    BY <1>1, <1>2, <1>5, <2>2, <2>3, WrapFits DEF ParseRetryAfter
<1>6. QED
  BY <1>1, <1>2, <1>3, <1>4, <1>5 DEF RateLimitOK, RateLimitDelay

\* The delay a sleep has just been given.
DelayOK ==
    pc = "sleep" => IF RateLimited(last) THEN RateLimitOK(last.header, delay)
                                         ELSE JitterOK(delay)

LEMMA DelayOKNext ==
    ASSUME DInv, DelayOK, [Next]_vars
    PROVE  DelayOK'
<1>1. \A k \in {"BaseBackoff", "RetryMax", "RateLimitBackoff"} :
         conf[k] \in 1..MaxInt
  BY DelaySettings DEF DInv, Bounds
<1>2. ASSUME NEW a \in Answer, BackOff(a)
      PROVE  DelayOK'
  <2>1. /\ delay' \in Delays(a) /\ last' = a /\ conf' = conf
        /\ attempt \in Nat
    BY <1>2 DEF BackOff, Answered, DInv, Bounds
  <2>2. CASE RateLimited(a)
    <3>1. a.header \in Header \cup {NoAnswer.header}
      BY DEF Answer
    <3>2. RateLimitOK(a.header, RateLimitDelay(a.header))
      BY <1>1, <3>1, RateLimitInRange
    <3>3. delay' = RateLimitDelay(a.header)
      BY <2>1, <2>2 DEF Delays
    <3>4. RateLimitOK(a.header, delay')
      BY <3>2, <3>3
    <3>5. QED
      BY <2>1, <2>2, <3>4 DEF DelayOK, RateLimitOK, RateLimited
  <2>3. CASE ~RateLimited(a)
    <3>1. delay' \in Intn(Wrap(Doubled(attempt) + 1))
      BY <2>1, <2>3, Zenon DEF Delays
    <3>2. JitterOK(delay')
      BY <1>1, <2>1, <3>1, JitterInRange
    <3>3. QED
      BY <2>1, <2>3, <3>2 DEF DelayOK, JitterOK, RateLimited
  <2>4. QED
    BY <2>2, <2>3
<1>3. CASE pc' # "sleep"
  BY <1>3 DEF DelayOK
<1>4. CASE pc = "sleep" /\ UNCHANGED <<conf, delay, last>>
  BY <1>4 DEF DelayOK, RateLimited, RateLimitOK, JitterOK
<1>5. QED
  BY <1>2, <1>3, <1>4 DEF Next, Encode, EncodeFails, SendBreaks, SendOK,
     GiveUp, Answered, Wake, DropOnCancel, ContextEnds, Finished, Resolve, vars

LEMMA DelaysHold == Spec => []DelayOK
<1>1. Init => DelayOK
  BY DEF Init, DelayOK
<1>2. QED
  BY <1>1, DelayOKNext, DInvHolds, PTL DEF Spec

\* The jittered sleep after a fault (expBackoff, worker.go:295) is never
\* negative and never beyond the cap and the base delay, for every width of a
\* duration and every number of attempts, overflows of the doubling included.
THEOREM JitterBoundedHolds == Spec => []JitterBounded
<1>1. DelayOK => JitterBounded
  BY DEF DelayOK, JitterBounded, JitterOK
<1>2. QED
  BY <1>1, DelaysHold, PTL

\* After a 429 (worker.go:277) the sleep is at least the configured minimum,
\* and at least what a Retry-After in seconds asks for when it fits a duration.
THEOREM HonoursRetryAfterHolds == Spec => []HonoursRetryAfter
<1>1. DelayOK => HonoursRetryAfter
  BY DEF DelayOK, HonoursRetryAfter, RateLimitOK
<1>2. QED
  BY <1>1, DelaysHold, PTL
=============================================================================
