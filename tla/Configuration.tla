--------------------------- MODULE Configuration ---------------------------
(***************************************************************************)
(* From the Config a host gives New to the settings the buffer and the     *)
(* worker run with: Config.withDefaults (src/config.go), the fields        *)
(* newClient passes on (src/client.go) and WorkerConfig.withDefaults       *)
(* (src/internal/transport/worker.go), which defaults a second time.       *)
(***************************************************************************)
EXTENDS Integers

CONSTANTS
    Default,        \* the default* constants of config.go
    WorkerDefault   \* what WorkerConfig.withDefaults fills in

Field == {"MaxQueue", "MaxBytes", "BatchSize", "FlushInterval", "MaxBatchBytes",
          "MaxRetries", "RetryMax", "RateLimitBackoff", "StackDepthMax"}

WorkerField == {"BatchSize", "MaxBatchBytes", "FlushInterval", "MaxRetries",
                "BaseBackoff", "RetryMax", "RateLimitBackoff", "MaxConcurrent"}

ASSUME DefaultsAssumption ==
    /\ Default \in [Field -> Int]
    /\ WorkerDefault \in [WorkerField -> Int]
    /\ \A k \in Field : Default[k] > 0
    /\ \A k \in WorkerField \ {"MaxRetries"} : WorkerDefault[k] > 0

\* Zero asks for the default; a negative value does too, but for MaxRetries,
\* where it asks for none.
WithDefaults(c) ==
    [k \in Field |->
        CASE c[k] > 0                     -> c[k]
          [] c[k] < 0 /\ k = "MaxRetries" -> 0
          [] OTHER                        -> Default[k]]

\* What newClient passes to the worker: it leaves BaseBackoff and MaxConcurrent.
Passed(c) == [k \in WorkerField |-> IF k \in Field THEN c[k] ELSE 0]

\* Mutant of WorkerWithDefaults: no retries are taken for an unset field.
WorkerDefaultsRetries(c) ==
    [k \in WorkerField |->
        IF c[k] > 0 THEN c[k]
        ELSE IF k = "MaxRetries" THEN Default[k] ELSE WorkerDefault[k]]

\* Zero retries stay zero here.
WorkerWithDefaults(c) ==
    [k \in WorkerField |->
        IF c[k] > 0 THEN c[k]
        ELSE IF k = "MaxRetries" THEN 0 ELSE WorkerDefault[k]]

WorkerConfig(raw) == WorkerWithDefaults(Passed(WithDefaults(raw)))

\* How many retries a Config asks for (config.go: "default 3").
RetriesAsked(raw) ==
    CASE raw["MaxRetries"] > 0 -> raw["MaxRetries"]
      [] raw["MaxRetries"] = 0 -> Default["MaxRetries"]
      [] OTHER                 -> 0
=============================================================================
