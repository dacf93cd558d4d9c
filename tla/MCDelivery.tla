----------------------------- MODULE MCDelivery -----------------------------
(***************************************************************************)
(* Delivery with six-bit durations (-32..31), a second of four units and a *)
(* base delay of three: the defaults, a backoff whose doubling overflows   *)
(* below the largest cap, a cap below the base delay, retries turned off;  *)
(* and headers that fit, that wrap around when turned into a duration,     *)
(* that do not fit an int, and dates.                                      *)
(***************************************************************************)
EXTENDS Delivery

MCDefault == [k \in Field |-> CASE k = "MaxRetries" -> 3
                               [] k = "RetryMax" -> 12
                               [] k = "RateLimitBackoff" -> 9
                               [] OTHER -> 1]
MCWorkerDefault == [k \in WorkerField |-> IF k = "BaseBackoff" THEN 3 ELSE 7]

Conf(maxRetries, retryMax, rateLimit) ==
    [k \in Field |-> CASE k = "MaxRetries" -> maxRetries
                       [] k = "RetryMax" -> retryMax
                       [] k = "RateLimitBackoff" -> rateLimit
                       [] OTHER -> 0]

MCConfig == {Conf(0, 0, 0), Conf(5, 31, 1), Conf(2, 2, 3), Conf(-1, 5, 5)}
MCStatus == {200, 302, 400, 429, 503}
MCHeader == {[form |-> "absent", v |-> 0], [form |-> "secs", v |-> 3],
             [form |-> "secs", v |-> 9], [form |-> "secs", v |-> 17],
             [form |-> "secs", v |-> 32], [form |-> "secs", v |-> -1],
             [form |-> "date", v |-> 7], [form |-> "date", v |-> -2]}
=============================================================================
