------------------------- MODULE LogThrottleProofs -------------------------
(***************************************************************************)
(* Proofs about LogThrottle: the spacing of a site's lines, the account of *)
(* every line, the rate of all sites together and the reason for each      *)
(* suppression, for any number of goroutines, sites and windows.           *)
(***************************************************************************)
EXTENDS LogThrottle, FiniteSetTheorems, SumProofs, TLAPS

\* An admission is of a site, at a time not later than now, of a line logged.
ClockOK ==
    /\ now \in Nat /\ nextAllowed \in [Key -> Nat] /\ logged \in [Key -> Nat]
    /\ \A a \in admitted : a[1] \in Key /\ a[2] \in 0..now /\ a[3] \in 1..logged[a[1]]

\* The window of a site is open since its latest line, and until then only.
WindowsMatch ==
    \A k \in Key :
        /\ \A a \in admitted : a[1] = k => nextAllowed[k] >= a[2] + Window
        /\ \/ nextAllowed[k] = 0
           \/ \E a \in admitted : a[1] = k /\ nextAllowed[k] = a[2] + Window

LInv == ClockOK /\ WindowsMatch /\ SiteSpacing

LEMMA InitLInv == Init => LInv
BY DEF Init, LInv, ClockOK, WindowsMatch, SiteSpacing

\* One more line of a site keeps the numbers of its admissions in range.
LEMMA Numbered ==
    ASSUME ClockOK, NEW k \in Key, logged' = [logged EXCEPT ![k] = @ + 1]
    PROVE  /\ logged' \in [Key -> Nat] /\ logged'[k] = logged[k] + 1
           /\ \A a \in admitted : a[3] \in 1..logged'[a[1]]
<1>1. /\ logged' \in [Key -> Nat] /\ logged'[k] = logged[k] + 1
      /\ \A j \in Key : logged'[j] \in Nat /\ logged[j] \in Nat /\ logged'[j] >= logged[j]
  BY DEF ClockOK
<1>2. ASSUME NEW a \in admitted PROVE a[3] \in 1..logged'[a[1]]
  <2>1. a[1] \in Key /\ a[3] \in 1..logged[a[1]]
    BY DEF ClockOK
  <2> QED
    BY <1>1, <2>1
<1> QED
  BY <1>1, <1>2

\* An admission keeps the site's lines apart: its window was over, and it has the
\* highest number.
LEMMA AdmitLInv ==
    ASSUME LInv, NEW g \in Goroutine, NEW k \in Key, Admit(g, k)
    PROVE  LInv'
<1>0. Window \in Nat \ {0} /\ ClockOK /\ WindowsMatch /\ SiteSpacing
  BY LogThrottleAssumption DEF LInv
<1>1. PICK new : new = Admission(k)
  OBVIOUS
<1>2. /\ now' = now /\ now >= nextAllowed[k]
      /\ nextAllowed' = [nextAllowed EXCEPT ![k] = now + Window]
      /\ admitted' = admitted \cup {new}
      /\ logged' = [logged EXCEPT ![k] = @ + 1]
  BY <1>1 DEF Admit, CanLog
<1>3. new[1] = k /\ new[2] = now /\ new[3] = logged[k] + 1
  BY <1>1 DEF Admission
<1>4. /\ now \in Nat /\ logged[k] \in Nat /\ nextAllowed[k] \in Nat
      /\ \A a \in admitted : a[1] \in Key /\ a[2] \in 0..now /\ a[3] \in 1..logged[a[1]]
  BY <1>0 DEF ClockOK
<1>5. ClockOK'
  <2>1. /\ logged' \in [Key -> Nat] /\ logged'[k] = logged[k] + 1
        /\ \A a \in admitted : a[3] \in 1..logged'[a[1]]
    BY <1>0, <1>2, Numbered
  <2>2. nextAllowed' \in [Key -> Nat]
    BY <1>0, <1>2 DEF ClockOK
  <2>3. new[1] \in Key /\ new[2] \in 0..now /\ new[3] \in 1..logged'[new[1]]
    BY <1>3, <1>4, <2>1
  <2> QED
    BY <1>2, <1>4, <2>1, <2>2, <2>3 DEF ClockOK
<1>6. \A a \in admitted : a[1] = k => now >= a[2] + Window
  <2> SUFFICES ASSUME NEW a \in admitted, a[1] = k
               PROVE  now >= a[2] + Window
    OBVIOUS
  <2>1. nextAllowed[k] >= a[2] + Window
    BY <1>0 DEF WindowsMatch
  <2> QED
    BY <1>0, <1>2, <1>4, <2>1
<1>7. SiteSpacing'
  <2> SUFFICES ASSUME NEW a \in admitted', NEW b \in admitted',
                      a[1] = b[1], a[3] < b[3]
               PROVE  b[2] - a[2] >= Window
    BY DEF SiteSpacing
  <2>1. CASE a \in admitted /\ b \in admitted
    BY <1>0, <2>1 DEF SiteSpacing
  <2>2. CASE a \in admitted /\ b = new
    <3>1. now >= a[2] + Window /\ a[2] \in 0..now
      BY <1>3, <1>4, <1>6, <2>2
    <3> QED
      BY <1>0, <1>3, <1>4, <2>2, <3>1
  <2>3. CASE a = new
    <3>1. b[3] <= logged[k] + 1
      BY <1>2, <1>3, <1>4, <2>3
    <3> QED
      BY <1>2, <1>3, <1>4, <2>3, <3>1
  <2> QED
    BY <1>2, <2>1, <2>2, <2>3
<1>8. WindowsMatch'
  <2> SUFFICES ASSUME NEW j \in Key
               PROVE  /\ \A a \in admitted' : a[1] = j => nextAllowed'[j] >= a[2] + Window
                      /\ \/ nextAllowed'[j] = 0
                         \/ \E a \in admitted' : a[1] = j /\ nextAllowed'[j] = a[2] + Window
    BY DEF WindowsMatch
  <2>1. CASE j = k
    <3>1. nextAllowed'[j] = now + Window
      BY <1>0, <1>2, <2>1 DEF ClockOK
    <3>2. ASSUME NEW a \in admitted', a[1] = j PROVE nextAllowed'[j] >= a[2] + Window
      BY <1>0, <1>2, <1>3, <1>4, <2>1, <3>1, <3>2
    <3> QED
      BY <1>2, <1>3, <2>1, <3>1, <3>2
  <2>2. CASE j # k
    <3>1. nextAllowed'[j] = nextAllowed[j]
      BY <1>0, <1>2, <2>2 DEF ClockOK
    <3> QED
      BY <1>0, <1>2, <1>3, <2>2, <3>1 DEF WindowsMatch
  <2> QED
    BY <2>1, <2>2
<1> QED
  BY <1>5, <1>7, <1>8 DEF LInv

LEMMA NextLInv == LInv /\ [Next]_vars => LInv'
<1> SUFFICES ASSUME LInv, [Next]_vars
             PROVE  LInv'
  OBVIOUS
<1>1. ASSUME NEW g \in Goroutine, NEW k \in Key, Suppress(g, k)
      PROVE  LInv'
  <2>1. /\ logged' = [logged EXCEPT ![k] = @ + 1]
        /\ UNCHANGED <<now, nextAllowed, admitted>>
    BY <1>1 DEF Suppress, CanLog
  <2>2. /\ logged' \in [Key -> Nat]
        /\ \A a \in admitted : a[3] \in 1..logged'[a[1]]
    BY <2>1, Numbered DEF LInv
  <2>3. ClockOK'
    BY <2>1, <2>2 DEF LInv, ClockOK
  <2> QED
    BY <2>1, <2>3 DEF LInv, WindowsMatch, SiteSpacing
<1>2. ASSUME NEW g \in Goroutine, Deliver(g) \/ DeliverLost(g)
      PROVE  LInv'
  BY <1>2 DEF Deliver, DeliverLost, LInv, ClockOK, WindowsMatch, SiteSpacing
<1>3. CASE Tick
  <2>1. now' = now + 1 /\ UNCHANGED <<nextAllowed, admitted, logged>>
    BY <1>3 DEF Tick, history
  <2>2. ClockOK'
    BY <2>1 DEF LInv, ClockOK
  <2> QED
    BY <2>1, <2>2 DEF LInv, WindowsMatch, SiteSpacing
<1>4. CASE UNCHANGED vars
  BY <1>4 DEF vars, history, LInv, ClockOK, WindowsMatch, SiteSpacing
<1> QED
  BY <1>1, <1>2, <1>3, <1>4, AdmitLInv DEF Next

LEMMA LInvHolds == Spec => []LInv
BY InitLInv, NextLInv, PTL DEF Spec

\* Two lines of one call site are at least a window apart (admit,
\* logthrottle.go:152 and :162), for any number of goroutines and sites.
THEOREM SiteSpacingHolds == Spec => []SiteSpacing
BY LInvHolds, PTL DEF LInv

-----------------------------------------------------------------------------
(* The account of the lines.                                               *)

AccountOK ==
    /\ suppressed \in [Key -> Nat] /\ logged \in [Key -> Nat]
    /\ told \in [Key -> Nat] /\ lost \in [Key -> Nat]
    /\ line \in [Goroutine -> Line \cup {None}]
    /\ EveryLineAccounted

\* What the goroutines will still tell or lose about the site k.
Carried(k) == [g \in Goroutine |-> Pending(g, k)]

\* A line is told apart from none.
LEMMA LineIsSomething == None \notin Line
<1>1. ASSUME None \in Line PROVE FALSE
  <2>1. "suppressed" \in DOMAIN None
    BY <1>1 DEF Line
  <2>2. DOMAIN None = {"key"}
    BY DEF None
  <2> QED
    BY <2>1, <2>2
<1> QED
  BY <1>1

LEMMA PendingNat ==
    ASSUME line \in [Goroutine -> Line \cup {None}], NEW g \in Goroutine, NEW k \in Key
    PROVE  Pending(g, k) \in Nat
BY DEF Pending, Line

\* When the line of one goroutine changes, the lines on their way change by as
\* much for every site.
LEMMA OneLineChanges ==
    ASSUME line \in [Goroutine -> Line \cup {None}],
           NEW g \in Goroutine, NEW x \in Line \cup {None}, NEW k \in Key,
           line' = [line EXCEPT ![g] = x]
    PROVE  /\ line' \in [Goroutine -> Line \cup {None}]
           /\ SumFunction(Carried(k)) \in Nat
           /\ SumFunction(Carried(k)') =
                 SumFunction(Carried(k)) + Pending(g, k)' - Pending(g, k)
           /\ Pending(g, k)' = IF x # None /\ x.key = k THEN 1 + x.suppressed ELSE 0
           /\ Pending(g, k) \in Nat /\ Pending(g, k)' \in Nat
<1>1. line' \in [Goroutine -> Line \cup {None}] /\ line'[g] = x
  OBVIOUS
<1>2. \A h \in Goroutine : Pending(h, k) \in Nat /\ Pending(h, k)' \in Nat
  BY <1>1, PendingNat DEF Pending, Line
<1>3. \A h \in Goroutine \ {g} : Pending(h, k)' = Pending(h, k)
  BY DEF Pending
<1>4. IsFiniteSet(Goroutine)
  BY LogThrottleAssumption
<1>5. SumFunctionOnSet(Carried(k), Goroutine) \in Nat
  BY <1>2, <1>4, SumNat DEF Carried
<1>6. SumFunctionOnSet(Carried(k)', Goroutine) =
        SumFunctionOnSet(Carried(k), Goroutine) + Carried(k)'[g] - Carried(k)[g]
  BY <1>2, <1>3, <1>4, SumUpdate DEF Carried
<1>7. DOMAIN Carried(k) = Goroutine /\ DOMAIN Carried(k)' = Goroutine
  BY DEF Carried
<1>8. Pending(g, k)' = IF x # None /\ x.key = k THEN 1 + x.suppressed ELSE 0
  BY <1>1 DEF Pending
<1> QED
  BY <1>1, <1>2, <1>5, <1>6, <1>7, <1>8 DEF SumFunction, Carried

\* EveryLineAccounted, in these terms.
LEMMA Accounts ==
    EveryLineAccounted <=>
        \A k \in Key : logged[k] = told[k] + lost[k] + suppressed[k] + SumFunction(Carried(k))
BY DEF EveryLineAccounted, Carried

LEMMA InitAccount == Init => AccountOK
<1> SUFFICES ASSUME Init PROVE AccountOK
  OBVIOUS
<1>1. \A k \in Key : SumFunction(Carried(k)) = 0
  <2> SUFFICES ASSUME NEW k \in Key PROVE SumFunction(Carried(k)) = 0
    OBVIOUS
  <2>1. \A g \in Goroutine : Carried(k)[g] = 0
    BY DEF Init, Carried, Pending
  <2>2. DOMAIN Carried(k) = Goroutine /\ IsFiniteSet(Goroutine)
    BY LogThrottleAssumption DEF Carried
  <2> QED
    BY <2>1, <2>2, SumZero DEF SumFunction
<1>2. EveryLineAccounted
  BY <1>1, Accounts DEF Init
<1> QED
  BY <1>2 DEF Init, AccountOK

LEMMA NextAccount == AccountOK /\ [Next]_vars => AccountOK'
<1> SUFFICES ASSUME AccountOK, [Next]_vars PROVE AccountOK'
  OBVIOUS
<1>0. \A k \in Key : /\ logged[k] \in Nat /\ told[k] \in Nat
                     /\ lost[k] \in Nat /\ suppressed[k] \in Nat
                     /\ logged[k] = told[k] + lost[k] + suppressed[k]
                                    + SumFunction(Carried(k))
  BY Accounts DEF AccountOK
<1>1. ASSUME NEW g \in Goroutine, NEW k \in Key, Suppress(g, k) PROVE AccountOK'
  <2>1. /\ logged' = [logged EXCEPT ![k] = @ + 1]
        /\ suppressed' = [suppressed EXCEPT ![k] = @ + 1]
        /\ UNCHANGED <<line, told, lost>>
    BY <1>1 DEF Suppress, CanLog
  <2>2. \A j \in Key : SumFunction(Carried(j)') = SumFunction(Carried(j))
                       /\ SumFunction(Carried(j)) \in Nat
    <3> SUFFICES ASSUME NEW j \in Key
                 PROVE  /\ SumFunction(Carried(j)') = SumFunction(Carried(j))
                        /\ SumFunction(Carried(j)) \in Nat
      OBVIOUS
    <3>1. line' = [line EXCEPT ![g] = line[g]] /\ line[g] \in Line \cup {None}
      BY <2>1 DEF AccountOK
    <3>2. Carried(j)' = Carried(j)
      BY <2>1 DEF Carried, Pending
    <3> QED
      BY <3>1, <3>2, OneLineChanges DEF AccountOK
  <2>3. \A j \in Key : logged'[j] = told'[j] + lost'[j] + suppressed'[j]
                                    + SumFunction(Carried(j)')
    BY <1>0, <2>1, <2>2 DEF AccountOK
  <2> QED
    BY <2>1, <2>3 DEF AccountOK, EveryLineAccounted, Carried
<1>2. ASSUME NEW g \in Goroutine, NEW k \in Key, Admit(g, k) PROVE AccountOK'
  <2> DEFINE x == [key |-> k, suppressed |-> suppressed[k]]
  <2>1. /\ logged' = [logged EXCEPT ![k] = @ + 1]
        /\ suppressed' = [suppressed EXCEPT ![k] = 0]
        /\ line' = [line EXCEPT ![g] = x] /\ line[g] = None
        /\ UNCHANGED <<told, lost>>
    BY <1>2 DEF Admit, CanLog
  <2>2. x \in Line
    BY <1>0 DEF Line
  <2>3. x # None
    BY <2>2, LineIsSomething
  <2>4. \A j \in Key : /\ SumFunction(Carried(j)') = SumFunction(Carried(j))
                              + (IF j = k THEN 1 + suppressed[k] ELSE 0)
                       /\ SumFunction(Carried(j)) \in Nat
    <3> SUFFICES ASSUME NEW j \in Key
                 PROVE  /\ SumFunction(Carried(j)') = SumFunction(Carried(j))
                               + (IF j = k THEN 1 + suppressed[k] ELSE 0)
                        /\ SumFunction(Carried(j)) \in Nat
      OBVIOUS
    <3>1. Pending(g, j) = 0
      BY <2>1 DEF Pending
    <3>2. x.key = k /\ x.suppressed = suppressed[k]
      OBVIOUS
    <3> HIDE DEF x
    <3>3. /\ SumFunction(Carried(j)) \in Nat
          /\ SumFunction(Carried(j)') =
                SumFunction(Carried(j)) + Pending(g, j)' - Pending(g, j)
          /\ Pending(g, j)' = IF x # None /\ x.key = j THEN 1 + x.suppressed ELSE 0
      BY <2>1, <2>2, OneLineChanges DEF AccountOK
    <3> QED
      BY <1>0, <2>3, <3>1, <3>2, <3>3
  <2>5. \A j \in Key : logged'[j] = told'[j] + lost'[j] + suppressed'[j]
                                    + SumFunction(Carried(j)')
    BY <1>0, <2>1, <2>4 DEF AccountOK
  <2> QED
    BY <2>1, <2>2, <2>5 DEF AccountOK, EveryLineAccounted, Carried
<1>3. ASSUME NEW g \in Goroutine, Deliver(g) \/ DeliverLost(g) PROVE AccountOK'
  <2> DEFINE k == line[g].key
             n == 1 + line[g].suppressed
  <2>1. /\ line[g] # None /\ line' = [line EXCEPT ![g] = None]
        /\ UNCHANGED <<logged, suppressed>>
        /\ \/ told' = [told EXCEPT ![k] = @ + n] /\ UNCHANGED lost
           \/ lost' = [lost EXCEPT ![k] = @ + n] /\ UNCHANGED told
    <3>1. CASE Deliver(g)
      <4>1. told' = [told EXCEPT ![k] = @ + n]
        <5>1. told' = [told EXCEPT ![line[g].key] = @ + 1 + line[g].suppressed]
          BY <3>1 DEF Deliver
        <5>2. told[k] \in Nat /\ line[g].suppressed \in Nat
          BY <1>0, <3>1 DEF Deliver, AccountOK, Line
        <5>3. told[line[g].key] + 1 + line[g].suppressed = told[k] + n
          BY <5>2
        <5> QED
          BY <5>1, <5>3, Zenon
      <4> QED
        BY <3>1, <4>1 DEF Deliver
    <3>2. CASE DeliverLost(g)
      <4>1. lost' = [lost EXCEPT ![k] = @ + n]
        <5>1. lost' = [lost EXCEPT ![line[g].key] = @ + 1 + line[g].suppressed]
          BY <3>2 DEF DeliverLost
        <5>2. lost[k] \in Nat /\ line[g].suppressed \in Nat
          BY <1>0, <3>2 DEF DeliverLost, AccountOK, Line
        <5>3. lost[line[g].key] + 1 + line[g].suppressed = lost[k] + n
          BY <5>2
        <5> QED
          BY <5>1, <5>3, Zenon
      <4> QED
        BY <3>2, <4>1 DEF DeliverLost
    <3> QED
      BY <1>3, <3>1, <3>2
  <2>2. line[g] \in Line /\ k \in Key /\ n \in Nat
    BY <2>1 DEF AccountOK, Line
  <2>3. \A j \in Key : /\ SumFunction(Carried(j)') = SumFunction(Carried(j))
                              - (IF j = k THEN n ELSE 0)
                       /\ SumFunction(Carried(j)) \in Nat
    <3> SUFFICES ASSUME NEW j \in Key
                 PROVE  /\ SumFunction(Carried(j)') = SumFunction(Carried(j))
                               - (IF j = k THEN n ELSE 0)
                        /\ SumFunction(Carried(j)) \in Nat
      OBVIOUS
    <3>1. Pending(g, j) = IF j = k THEN n ELSE 0
      BY <2>1 DEF Pending
    <3>2. /\ SumFunction(Carried(j)) \in Nat
          /\ SumFunction(Carried(j)') =
                SumFunction(Carried(j)) + Pending(g, j)' - Pending(g, j)
          /\ Pending(g, j)' = 0
      BY <2>1, OneLineChanges DEF AccountOK
    <3> HIDE DEF k, n
    <3> QED
      BY <2>2, <3>1, <3>2
  <2> HIDE DEF k, n
  <2>4. \A j \in Key : logged'[j] = told'[j] + lost'[j] + suppressed'[j]
                                    + SumFunction(Carried(j)')
    <3>1. CASE told' = [told EXCEPT ![k] = @ + n] /\ UNCHANGED lost
      BY <1>0, <2>1, <2>2, <2>3, <3>1 DEF AccountOK
    <3>2. CASE lost' = [lost EXCEPT ![k] = @ + n] /\ UNCHANGED told
      BY <1>0, <2>1, <2>2, <2>3, <3>2 DEF AccountOK
    <3> QED
      BY <2>1, <3>1, <3>2
  <2>5. told' \in [Key -> Nat] /\ lost' \in [Key -> Nat]
    BY <2>1, <2>2 DEF AccountOK
  <2> QED
    BY <2>1, <2>4, <2>5 DEF AccountOK, EveryLineAccounted, Carried
<1>4. CASE Tick \/ UNCHANGED vars
  BY <1>4 DEF Tick, vars, history, AccountOK, EveryLineAccounted, Pending
<1> QED
  BY <1>1, <1>2, <1>3, <1>4 DEF Next

\* Every line logged is told, lost with a broken sink, counted as suppressed or
\* on its way (logthrottle.go:159, :176), for any number of goroutines and sites.
THEOREM EveryLineAccountedHolds == Spec => []EveryLineAccounted
<1>1. AccountOK => EveryLineAccounted
  BY DEF AccountOK
<1> QED
  BY <1>1, InitAccount, NextAccount, PTL DEF Spec

-----------------------------------------------------------------------------
(* The rate of all sites together.                                         *)

Since(w) == {a \in admitted : a[2] >= w}

\* The window of the global cap, should it start at w and have seen n lines:
\* nothing was admitted past its end, and the stretch just before it, shorter
\* than a window, kept the cap.
WindowOK(w, n) ==
    /\ w \in 0..now /\ n \in Nat
    /\ \A a \in admitted : a[2] < w + GlobalWindow
    /\ n = Cardinality(Since(w))
    /\ GlobalCap > 0 =>
          /\ n <= GlobalCap
          /\ \A t \in Int : t > w - GlobalWindow =>
                Cardinality(AdmittedIn(t, w)) <= GlobalCap

RateOK ==
    /\ IsFiniteSet(admitted)
    /\ windowStart = -1 \/ windowStart \in Nat
    /\ windowStart = -1 => admitted = {} /\ globalCount = 0
    /\ windowStart # -1 => WindowOK(windowStart, globalCount)
    /\ GlobalCap > 0 =>
          \A t \in Int : Cardinality(AdmittedIn(t, t + GlobalWindow)) <= 2 * GlobalCap

LEMMA Finite ==
    ASSUME IsFiniteSet(admitted), NEW S \in SUBSET admitted
    PROVE  IsFiniteSet(S) /\ Cardinality(S) \in Nat
BY FS_Subset, FS_CardinalityType

\* Whether the window goes on or a new one starts, it is in order before the
\* line at hand is counted.
LEMMA Rolls ==
    ASSUME LInv, RateOK, RollWindow
    PROVE  WindowOK(windowStart', Count) /\ now < windowStart' + GlobalWindow
<1>0. now \in Nat /\ GlobalWindow \in Nat \ {0} /\ GlobalCap \in Int
      /\ \A a \in admitted : a[2] \in 0..now
  BY LogThrottleAssumption DEF LInv, ClockOK
<1>1. CASE ~WindowOver
  <2>1. windowStart' = windowStart /\ Count = globalCount /\ windowStart # -1
        /\ ~(now - windowStart >= GlobalWindow)
    BY <1>1 DEF RollWindow, Count, WindowOver
  <2>2. WindowOK(windowStart, globalCount)
    BY <2>1 DEF RateOK
  <2> QED
    BY <1>0, <2>1, <2>2 DEF WindowOK
<1>2. CASE WindowOver
  <2>1. windowStart' = now /\ Count = 0
    BY <1>2 DEF RollWindow, Count
  <2>2. windowStart = -1 => admitted = {}
    BY DEF RateOK
  <2>3. windowStart # -1 => /\ WindowOK(windowStart, globalCount)
                            /\ now >= windowStart + GlobalWindow
    BY <1>0, <1>2 DEF RateOK, WindowOver, WindowOK
  <2>4. \A a \in admitted : a[2] < now
    BY <1>0, <2>2, <2>3 DEF WindowOK
  <2>5. Since(now) = {}
    BY <1>0, <2>4 DEF Since
  <2>6. ASSUME GlobalCap > 0, NEW t \in Int, t > now - GlobalWindow
        PROVE  Cardinality(AdmittedIn(t, now)) <= GlobalCap
    <3>1. CASE windowStart = -1
      <4>1. AdmittedIn(t, now) = {}
        BY <2>2, <3>1 DEF AdmittedIn
      <4> QED
        BY <1>0, <2>6, <4>1, FS_EmptySet
    <3>2. CASE windowStart # -1
      <4>1. AdmittedIn(t, now) \subseteq Since(windowStart)
        BY <1>0, <2>3, <2>6, <3>2 DEF AdmittedIn, Since, WindowOK
      <4>2. IsFiniteSet(Since(windowStart))
        BY Finite DEF Since, RateOK
      <4>3. Cardinality(AdmittedIn(t, now)) <= Cardinality(Since(windowStart))
        BY <4>1, <4>2, FS_Subset
      <4>4. Cardinality(Since(windowStart)) <= GlobalCap
        BY <2>3, <2>6, <3>2 DEF WindowOK
      <4>5. Cardinality(AdmittedIn(t, now)) \in Nat
            /\ Cardinality(Since(windowStart)) \in Nat
        BY Finite DEF AdmittedIn, Since, RateOK
      <4> QED
        BY <1>0, <4>3, <4>4, <4>5
    <3> QED
      BY <3>1, <3>2
  <2>7. \A a \in admitted : a[2] < now + GlobalWindow
    BY <1>0
  <2>8. WindowOK(now, 0)
    BY <1>0, <2>5, <2>6, <2>7, FS_EmptySet DEF WindowOK
  <2> QED
    BY <1>0, <2>1, <2>8
<1> QED
  BY <1>1, <1>2

LEMMA SuppressRate ==
    ASSUME LInv, RateOK, NEW g \in Goroutine, NEW k \in Key, Suppress(g, k)
    PROVE  RateOK'
<1>1. RollWindow /\ globalCount' = Count /\ UNCHANGED <<now, admitted>>
  BY DEF Suppress
<1>2. WindowOK(windowStart', Count)
  BY <1>1, Rolls
<1>3. WindowOK(windowStart, globalCount)'
  BY <1>1, <1>2 DEF WindowOK, Since, AdmittedIn
<1>4. windowStart' \in Nat
  BY <1>3, LogThrottleAssumption DEF WindowOK, LInv, ClockOK
<1> QED
  BY <1>1, <1>3, <1>4 DEF RateOK, AdmittedIn

LEMMA AdmitRate ==
    ASSUME LInv, RateOK, NEW g \in Goroutine, NEW k \in Key, Admit(g, k)
    PROVE  RateOK'
<1>0. PICK new, w, n : new = Admission(k) /\ w = windowStart' /\ n = Count
  OBVIOUS
<1>1. /\ RollWindow /\ n + 1 = globalCount' /\ now' = now
      /\ admitted' = admitted \cup {new}
      /\ GlobalCap > 0 => ~(n >= GlobalCap)
      /\ now >= nextAllowed[k]
  BY <1>0 DEF Admit, CapReached
<1>2. WindowOK(w, n) /\ now < w + GlobalWindow
  BY <1>0, <1>1, Rolls
<1>3. now \in Nat /\ GlobalWindow \in Nat \ {0} /\ GlobalCap \in Int
      /\ w \in 0..now /\ n \in Nat
  BY <1>2, LogThrottleAssumption DEF LInv, ClockOK, WindowOK
<1>4. new \notin admitted
  <2>1. \A a \in admitted : a[3] \in 1..logged[a[1]]
    BY DEF LInv, ClockOK
  <2>2. new[1] = k /\ new[3] = logged[k] + 1 /\ logged[k] \in Nat
    BY <1>0 DEF Admission, LInv, ClockOK
  <2> QED
    BY <2>1, <2>2
<1>5. IsFiniteSet(admitted) /\ IsFiniteSet(admitted')
  BY <1>1, FS_AddElement DEF RateOK
<1>6. new[2] = now
  BY <1>0 DEF Admission
<1>7. Since(w)' = Since(w) \cup {new}
  BY <1>1, <1>3, <1>6 DEF Since
<1>8. Cardinality(Since(w)') = n + 1
  <2>1. IsFiniteSet(Since(w)) /\ new \notin Since(w)
    BY <1>4, <1>5, Finite DEF Since
  <2>2. Cardinality(Since(w) \cup {new}) = Cardinality(Since(w)) + 1
    BY <2>1, FS_AddElement
  <2> QED
    BY <1>2, <1>7, <2>2 DEF WindowOK
<1>9. \A t \in Int : AdmittedIn(t, w)' = AdmittedIn(t, w)
  BY <1>1, <1>3, <1>6 DEF AdmittedIn
<1>10. WindowOK(w, n + 1)'
  <2>1. GlobalCap > 0 => n + 1 <= GlobalCap
    BY <1>1, <1>3
  <2>2. \A a \in admitted' : a[2] < w + GlobalWindow
    BY <1>1, <1>2, <1>6 DEF WindowOK
  <2> QED
    BY <1>1, <1>2, <1>3, <1>8, <1>9, <2>1, <2>2 DEF WindowOK
<1>11. ASSUME GlobalCap > 0, NEW t \in Int
       PROVE  Cardinality(AdmittedIn(t, t + GlobalWindow)') <= 2 * GlobalCap
  <2>1. CASE ~(t <= now /\ now < t + GlobalWindow)
    <3>1. AdmittedIn(t, t + GlobalWindow)' = AdmittedIn(t, t + GlobalWindow)
      BY <1>1, <1>3, <1>6, <2>1 DEF AdmittedIn
    <3> QED
      BY <1>11, <3>1 DEF RateOK
  <2>2. CASE t <= now /\ now < t + GlobalWindow
    <3> DEFINE all == AdmittedIn(t, t + GlobalWindow)'
               old == AdmittedIn(t, w)
               cur == Since(w)'
    <3>1. all \subseteq old \cup cur
      <4>1. \A a \in admitted' : a[2] \in Int
        BY <1>1, <1>3, <1>6 DEF LInv, ClockOK
      <4> QED
        BY <1>1, <1>3, <1>6, <4>1 DEF AdmittedIn, Since
    <3>2. IsFiniteSet(old) /\ IsFiniteSet(cur)
          /\ Cardinality(old) \in Nat /\ Cardinality(cur) \in Nat
      <4>1. old \in SUBSET admitted /\ cur \in SUBSET admitted'
        BY DEF AdmittedIn, Since
      <4> QED
        BY <1>5, <4>1, FS_Subset, FS_CardinalityType
    <3>3. Cardinality(old) <= GlobalCap
      BY <1>2, <1>3, <1>11, <2>2 DEF WindowOK
    <3>4. Cardinality(cur) <= GlobalCap
      BY <1>1, <1>3, <1>8, <1>11
    <3> HIDE DEF all, old, cur
    <3>5. IsFiniteSet(old \cup cur)
          /\ Cardinality(old \cup cur) =
                Cardinality(old) + Cardinality(cur) - Cardinality(old \cap cur)
      BY <3>2, FS_Union
    <3>6. Cardinality(old \cap cur) \in Nat
      BY <3>2, FS_Intersection, FS_CardinalityType
    <3>7. Cardinality(all) <= Cardinality(old \cup cur)
          /\ Cardinality(all) \in Nat
      BY <3>1, <3>5, FS_Subset, FS_CardinalityType
    <3> QED
      BY <1>3, <3>2, <3>3, <3>4, <3>5, <3>6, <3>7 DEF all
  <2> QED
    BY <2>1, <2>2
<1> QED
  BY <1>0, <1>1, <1>3, <1>5, <1>10, <1>11 DEF RateOK

LEMMA InitRate == Init => RateOK
<1> SUFFICES ASSUME Init PROVE RateOK
  OBVIOUS
<1>1. \A t \in Int : AdmittedIn(t, t + GlobalWindow) = {}
  BY DEF Init, AdmittedIn
<1>2. GlobalCap > 0 => 0 <= 2 * GlobalCap
  BY LogThrottleAssumption
<1> QED
  BY <1>1, <1>2, FS_EmptySet DEF Init, RateOK

LEMMA RateStutter ==
    ASSUME RateOK, UNCHANGED <<windowStart, globalCount, admitted, now>>
    PROVE  RateOK'
<1>1. Since(windowStart)' = Since(windowStart)
  BY DEF Since
<1>2. \A s, t : AdmittedIn(s, t)' = AdmittedIn(s, t)
  BY DEF AdmittedIn
<1>3. WindowOK(windowStart, globalCount)' <=> WindowOK(windowStart, globalCount)
  BY <1>1, <1>2 DEF WindowOK
<1> QED
  BY <1>2, <1>3 DEF RateOK

LEMMA NextRate == LInv /\ RateOK /\ [Next]_vars => RateOK'
<1> SUFFICES ASSUME LInv, RateOK, [Next]_vars PROVE RateOK'
  OBVIOUS
<1>1. ASSUME NEW g \in Goroutine, Deliver(g) \/ DeliverLost(g) PROVE RateOK'
  <2>1. UNCHANGED <<windowStart, globalCount, admitted, now>>
    BY <1>1 DEF Deliver, DeliverLost, gvars
  <2> QED
    BY <2>1, RateStutter
<1>2. CASE Tick
  <2>1. now \in Nat /\ now' = now + 1 /\ UNCHANGED <<gvars, admitted>>
    BY <1>2 DEF Tick, history, LInv, ClockOK
  <2>2. windowStart # -1 => WindowOK(windowStart, globalCount)'
    BY <2>1 DEF gvars, RateOK, WindowOK, Since, AdmittedIn
  <2> QED
    BY <2>1, <2>2 DEF gvars, RateOK, AdmittedIn
<1>3. CASE UNCHANGED vars
  <2>1. UNCHANGED <<windowStart, globalCount, admitted, now>>
    BY <1>3 DEF vars, gvars, history
  <2> QED
    BY <2>1, RateStutter
<1> QED
  BY <1>1, <1>2, <1>3, SuppressRate, AdmitRate DEF Next

LEMMA RateHolds == Spec => [](LInv /\ AccountOK /\ RateOK)
BY InitLInv, NextLInv, InitAccount, NextAccount, InitRate, NextRate, PTL DEF Spec

LEMMA RateGivesGlobalRate == LInv /\ RateOK => GlobalRate
<1> SUFFICES ASSUME LInv, RateOK, GlobalCap > 0
             PROVE  /\ windowStart # -1 =>
                          Cardinality(AdmittedIn(windowStart, windowStart + GlobalWindow))
                             <= GlobalCap
                    /\ \A t \in 0..now :
                          Cardinality(AdmittedIn(t, t + GlobalWindow)) <= 2 * GlobalCap
  BY DEF GlobalRate
<1>1. ASSUME windowStart # -1
      PROVE  Cardinality(AdmittedIn(windowStart, windowStart + GlobalWindow)) <= GlobalCap
  <2>1. WindowOK(windowStart, globalCount)
    BY <1>1 DEF RateOK
  <2>2. AdmittedIn(windowStart, windowStart + GlobalWindow) = Since(windowStart)
    BY <2>1 DEF WindowOK, AdmittedIn, Since
  <2> QED
    BY <2>1, <2>2 DEF WindowOK
<1> QED
  BY <1>1 DEF RateOK, LInv, ClockOK

\* The cap holds in the window it is counted in, and twice the cap in any
\* stretch of that length (logthrottle.go:135, :156), whatever the sites,
\* goroutines and windows.
THEOREM GlobalRateHolds == Spec => []GlobalRate
BY RateHolds, RateGivesGlobalRate, PTL

\* What SuppressionJustified says of a step.
Justified ==
    \A k \in Key : suppressed'[k] > suppressed[k] =>
        \/ \E a \in admitted : a[1] = k /\ now - a[2] < Window
        \/ /\ GlobalCap > 0
           /\ Cardinality(AdmittedIn(now - GlobalWindow + 1, now + 1)) >= GlobalCap

\* With the cap used up, the lines that used it up are less than a window old.
LEMMA CapJustified ==
    ASSUME LInv, RateOK, CapReached
    PROVE  /\ GlobalCap > 0
           /\ Cardinality(AdmittedIn(now - GlobalWindow + 1, now + 1)) >= GlobalCap
<1>0. now \in Nat /\ GlobalWindow \in Nat \ {0} /\ GlobalCap \in Int
      /\ \A a \in admitted : a[2] \in 0..now
  BY LogThrottleAssumption DEF LInv, ClockOK
<1>1. GlobalCap > 0 /\ Count >= GlobalCap
  BY DEF CapReached
<1>2. ~WindowOver
  BY <1>0, <1>1 DEF Count
<1>3. globalCount >= GlobalCap /\ windowStart # -1
      /\ ~(now - windowStart >= GlobalWindow)
  BY <1>1, <1>2 DEF Count, WindowOver
<1>4. WindowOK(windowStart, globalCount)
  BY <1>3 DEF RateOK
<1>5. Since(windowStart) \subseteq AdmittedIn(now - GlobalWindow + 1, now + 1)
  BY <1>0, <1>3, <1>4 DEF Since, AdmittedIn, WindowOK
<1>6. IsFiniteSet(AdmittedIn(now - GlobalWindow + 1, now + 1))
      /\ Cardinality(AdmittedIn(now - GlobalWindow + 1, now + 1)) \in Nat
  BY Finite DEF AdmittedIn, RateOK
<1>7. Cardinality(Since(windowStart)) <=
        Cardinality(AdmittedIn(now - GlobalWindow + 1, now + 1))
  BY <1>5, <1>6, FS_Subset
<1> QED
  BY <1>0, <1>1, <1>3, <1>4, <1>6, <1>7 DEF WindowOK

LEMMA StepJustified == LInv /\ AccountOK /\ RateOK /\ [Next]_vars => Justified
<1> SUFFICES ASSUME LInv, AccountOK, RateOK, [Next]_vars,
                    NEW k \in Key, suppressed'[k] > suppressed[k]
             PROVE  \/ \E a \in admitted : a[1] = k /\ now - a[2] < Window
                    \/ /\ GlobalCap > 0
                       /\ Cardinality(AdmittedIn(now - GlobalWindow + 1, now + 1))
                             >= GlobalCap
  BY DEF Justified
<1>0. suppressed \in [Key -> Nat]
  BY DEF AccountOK
<1>1. PICK g \in Goroutine : Suppress(g, k)
  <2>1. ASSUME NEW g \in Goroutine, NEW j \in Key, Suppress(g, j) PROVE j = k
    BY <1>0, <2>1 DEF Suppress
  <2>2. ASSUME NEW g \in Goroutine, NEW j \in Key, Admit(g, j) PROVE FALSE
    BY <1>0, <2>2 DEF Admit
  <2>3. ASSUME UNCHANGED suppressed PROVE FALSE
    BY <1>0, <2>3
  <2>4. ~(UNCHANGED vars) /\ ~Tick
        /\ \A g \in Goroutine : ~Deliver(g) /\ ~DeliverLost(g)
    BY <2>3 DEF vars, Tick, Deliver, DeliverLost
  <2> QED
    BY <2>1, <2>2, <2>4 DEF Next
<1>2. CASE now < nextAllowed[k]
  <2>1. now \in Nat /\ nextAllowed[k] \in Nat /\ Window \in Nat \ {0}
    BY LogThrottleAssumption DEF LInv, ClockOK
  <2>2. PICK a \in admitted : a[1] = k /\ nextAllowed[k] = a[2] + Window
    BY <1>2, <2>1 DEF LInv, WindowsMatch
  <2>3. a[2] \in 0..now
    BY DEF LInv, ClockOK
  <2>4. now - a[2] < Window
    BY <1>2, <2>1, <2>2, <2>3
  <2> QED
    BY <2>2, <2>4
<1>3. CASE CapReached
  BY <1>3, CapJustified
<1> QED
  BY <1>1, <1>2, <1>3 DEF Suppress

\* A line is suppressed only for a line of its site, or a full cap, less than a
\* window ago (logthrottle.go:152, :155): the throttle never stays silent.
THEOREM SuppressionJustifiedHolds == Spec => SuppressionJustified
<1>1. Spec => [][Justified]_vars
  BY RateHolds, StepJustified, PTL DEF Spec
<1> QED
  BY <1>1 DEF SuppressionJustified, Justified
=============================================================================
