---------------------------- MODULE LogThrottle ----------------------------
(***************************************************************************)
(* The throttle in front of the SDK's own log:                             *)
(* src/internal/logthrottle/logthrottle.go.  A line is admitted under the  *)
(* mutex and delivered after the unlock, by each goroutine for itself.     *)
(***************************************************************************)
EXTENDS Integers, FiniteSets, Functions

CONSTANTS
    Goroutine,      \* the goroutines that log
    Key,            \* call sites with their levels
    Window, GlobalWindow, GlobalCap,
    MaxTime,        \* bound of the clock
    MaxLines        \* bound of the lines logged at one site

ASSUME LogThrottleAssumption ==
    /\ Window \in Nat \ {0} /\ GlobalWindow \in Nat \ {0}
    /\ GlobalCap \in Int
    /\ MaxTime \in Nat /\ MaxLines \in Nat
    /\ Goroutine # {} /\ IsFiniteSet(Goroutine)
    /\ Key # {}

VARIABLES
    now,            \* the clock
    nextAllowed,    \* [Key -> time]; an entry not made yet is all zero
    suppressed,     \* [Key -> lines suppressed since the last admitted one]
    windowStart,    \* globalWindowStart; -1 for the zero time
    globalCount,
    line,           \* [Goroutine -> the admitted line it is to deliver or None]
    admitted,       \* admissions <<key, time, how many lines its site had logged>> (history)
    logged, told, lost  \* [Key -> lines logged, told to the sink, lost in it] (history)

gvars == <<windowStart, globalCount>>
history == <<admitted, logged, told, lost>>
vars == <<now, nextAllowed, suppressed, gvars, line, history>>

None == [key |-> "none"]
Line == [key : Key, suppressed : Nat]

Init ==
    /\ now = 0
    /\ nextAllowed = [k \in Key |-> 0]
    /\ suppressed = [k \in Key |-> 0]
    /\ windowStart = -1 /\ globalCount = 0
    /\ line = [g \in Goroutine |-> None]
    /\ admitted = {}
    /\ logged = [k \in Key |-> 0]
    /\ told = [k \in Key |-> 0]
    /\ lost = [k \in Key |-> 0]

-----------------------------------------------------------------------------
(* admit, one critical section.                                            *)

\* Mutant of WindowOver: the first window of the global cap never ends.
WindowNeverOver == windowStart = -1

WindowOver == windowStart = -1 \/ now - windowStart >= GlobalWindow

\* The lines counted in the global window that now belongs to.
Count == IF WindowOver THEN 0 ELSE globalCount

\* Mutant of CapReached: one line too many.
CapReachedLate == GlobalCap > 0 /\ Count > GlobalCap

CapReached == GlobalCap > 0 /\ Count >= GlobalCap

RollWindow == windowStart' = IF WindowOver THEN now ELSE windowStart

\* The line that site k is logging now, which no other admission is.
Admission(k) == <<k, now, logged[k] + 1>>

CanLog(g, k) ==
    /\ line[g] = None
    /\ logged[k] < MaxLines
    /\ logged' = [logged EXCEPT ![k] = @ + 1]

Suppress(g, k) ==
    /\ CanLog(g, k)
    /\ now < nextAllowed[k] \/ CapReached
    /\ RollWindow
    /\ globalCount' = Count
    /\ suppressed' = [suppressed EXCEPT ![k] = @ + 1]
    /\ UNCHANGED <<now, nextAllowed, line, admitted, told, lost>>

\* Mutant of Admit: the window of the site is not started again.
AdmitAlways(g, k) ==
    /\ CanLog(g, k)
    /\ now >= nextAllowed[k] /\ ~CapReached
    /\ RollWindow
    /\ globalCount' = Count + 1
    /\ line' = [line EXCEPT ![g] = [key |-> k, suppressed |-> suppressed[k]]]
    /\ suppressed' = [suppressed EXCEPT ![k] = 0]
    /\ admitted' = admitted \cup {Admission(k)}
    /\ UNCHANGED <<now, nextAllowed, told, lost>>

\* Mutant of Admit: the count of suppressed lines is not reset.
AdmitKeepsCount(g, k) ==
    /\ CanLog(g, k)
    /\ now >= nextAllowed[k] /\ ~CapReached
    /\ RollWindow
    /\ globalCount' = Count + 1
    /\ line' = [line EXCEPT ![g] = [key |-> k, suppressed |-> suppressed[k]]]
    /\ nextAllowed' = [nextAllowed EXCEPT ![k] = now + Window]
    /\ admitted' = admitted \cup {Admission(k)}
    /\ UNCHANGED <<now, suppressed, told, lost>>

Admit(g, k) ==
    /\ CanLog(g, k)
    /\ now >= nextAllowed[k] /\ ~CapReached
    /\ RollWindow
    /\ globalCount' = Count + 1
    /\ line' = [line EXCEPT ![g] = [key |-> k, suppressed |-> suppressed[k]]]
    /\ suppressed' = [suppressed EXCEPT ![k] = 0]
    /\ nextAllowed' = [nextAllowed EXCEPT ![k] = now + Window]
    /\ admitted' = admitted \cup {Admission(k)}
    /\ UNCHANGED <<now, told, lost>>

-----------------------------------------------------------------------------
(* deliver, outside the mutex.                                             *)

Deliver(g) ==
    /\ line[g] # None
    /\ told' = [told EXCEPT ![line[g].key] = @ + 1 + line[g].suppressed]
    /\ line' = [line EXCEPT ![g] = None]
    /\ UNCHANGED <<now, nextAllowed, suppressed, gvars, admitted, logged, lost>>

\* The sink panics, or there is none: the line and its count are gone.
DeliverLost(g) ==
    /\ line[g] # None
    /\ lost' = [lost EXCEPT ![line[g].key] = @ + 1 + line[g].suppressed]
    /\ line' = [line EXCEPT ![g] = None]
    /\ UNCHANGED <<now, nextAllowed, suppressed, gvars, admitted, logged, told>>

Tick ==
    /\ now < MaxTime
    /\ now' = now + 1
    /\ UNCHANGED <<nextAllowed, suppressed, gvars, line, history>>

Next ==
    \/ \E g \in Goroutine, k \in Key : Suppress(g, k) \/ Admit(g, k)
    \/ \E g \in Goroutine : Deliver(g) \/ DeliverLost(g)
    \/ Tick

Spec == Init /\ [][Next]_vars

-----------------------------------------------------------------------------
(* Properties.                                                             *)

\* A line of a call site (admit, logthrottle.go:152) is admitted a window or more
\* after every earlier one, whichever goroutines log them and whatever the global
\* cap did between.
SiteSpacing ==
    \A a, b \in admitted : a[1] = b[1] /\ a[3] < b[3] => b[2] - a[2] >= Window

AdmittedIn(from, to) == {a \in admitted : a[2] >= from /\ a[2] < to}

\* The cap (logthrottle.go:156) holds in the window it is counted in, and as
\* that window starts anew with the first line after its end, any other stretch
\* of GlobalWindow sees at most twice the cap.
GlobalRate ==
    GlobalCap > 0 =>
        /\ windowStart # -1 =>
              Cardinality(AdmittedIn(windowStart, windowStart + GlobalWindow)) <= GlobalCap
        /\ \A t \in 0..now :
              Cardinality(AdmittedIn(t, t + GlobalWindow)) <= 2 * GlobalCap

\* A line is suppressed (logthrottle.go:152, :155) only if its site had a line
\* less than a window ago or the cap was used up less than a global window ago:
\* the throttle is never silent for longer than its windows.
SuppressionJustified ==
    [][\A k \in Key : suppressed'[k] > suppressed[k] =>
          \/ \E a \in admitted : a[1] = k /\ now - a[2] < Window
          \/ /\ GlobalCap > 0
             /\ Cardinality(AdmittedIn(now - GlobalWindow + 1, now + 1)) >= GlobalCap]_vars

\* What goroutine g will tell or lose about site k.
Pending(g, k) == IF line[g] # None /\ line[g].key = k THEN 1 + line[g].suppressed
                 ELSE 0

\* Every line logged is told to the sink itself or as one of the suppressed, or
\* is counted as suppressed so far, or on its way; none is counted twice, also
\* when sinks panic and deliveries overtake each other.
EveryLineAccounted ==
    \A k \in Key :
        logged[k] = told[k] + lost[k] + suppressed[k]
                    + SumFunction([g \in Goroutine |-> Pending(g, k)])
=============================================================================
