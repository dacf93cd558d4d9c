---------------------------- MODULE MetricsProofs ----------------------------
(***************************************************************************)
(* Proofs about Metrics and the reader of Counters, for any number of      *)
(* captures and callers, any buffer and any batches: the counters balance, *)
(* Metrics implements Counters, and a reader that loads the counters of    *)
(* such a client one by one never sees a backlog that was not there.       *)
(***************************************************************************)
EXTENDS Metrics, SumProofs

-----------------------------------------------------------------------------
(* The inductive invariant.                                                *)

Places == {"capture", "push", "dropped", "len", "bytes", "storeItems", "storeBytes",
           "select", "idle", "pop", "await", "drain", "done"}

\* A batch in flight has at least one event, and each size a bag has occurs.
IsBatches(B) ==
    /\ IsFiniteSet(DOMAIN B)
    /\ DOMAIN B \subseteq Nat \ {0}
    /\ B \in [DOMAIN B -> Nat \ {0}]

Types ==
    /\ pushed \in Nat
    /\ ring \in Seq(Nat)
    /\ IsBatches(carried)
    /\ m \in [{"captured", "sent", "overflow", "exhausted"} -> Nat]
    /\ pc \in [Actor -> Places]
    /\ dropped \in [Capturer -> Nat]

\* A capture has evictions to count exactly while it is about to count them.
DroppedOK == \A c \in Capturer : dropped[c] > 0 <=> pc[c] = "dropped"

MetInv == Types /\ DroppedOK /\ Balance

-----------------------------------------------------------------------------
(* Sums over bags and functions.                                           *)

Weighted(B) == [n \in DOMAIN B |-> n * B[n]]

LEMMA EventsInIs ==
    ASSUME NEW B
    PROVE  EventsIn(B) = SumFunctionOnSet(Weighted(B), DOMAIN B)
BY DEF EventsIn, Weighted, SumFunction

LEMMA WeightedNat ==
    ASSUME NEW B, IsBatches(B), NEW n \in DOMAIN B
    PROVE  n \in Nat /\ B[n] \in Nat /\ Weighted(B)[n] \in Nat /\ Weighted(B)[n] = n * B[n]
<1>1. n \in Nat /\ B[n] \in Nat
  BY DEF IsBatches
<1>2. n * B[n] \in Nat
  BY <1>1
<1> QED
  BY <1>1, <1>2 DEF Weighted

LEMMA EventsNat ==
    ASSUME NEW B, IsBatches(B) PROVE EventsIn(B) \in Nat
<1>1. \A n \in DOMAIN B : Weighted(B)[n] \in Nat
  BY WeightedNat
<1>2. IsFiniteSet(DOMAIN B)
  BY DEF IsBatches
<1> QED
  BY <1>1, <1>2, SumNat, EventsInIs

\* A bag with the events of another and one batch of n more.
LEMMA EventsMore ==
    ASSUME NEW B, NEW C, IsBatches(B), IsBatches(C), NEW n \in DOMAIN C,
           DOMAIN B \cup {n} = DOMAIN C,
           \A k \in DOMAIN C : k # n => C[k] = B[k],
           n \in DOMAIN B => C[n] = B[n] + 1,
           n \notin DOMAIN B => C[n] = 1
    PROVE  EventsIn(C) = EventsIn(B) + n
<1>1. /\ IsFiniteSet(DOMAIN C) /\ IsFiniteSet(DOMAIN B)
      /\ n \in Nat
  BY DEF IsBatches
<1>2. \A k \in DOMAIN C : Weighted(C)[k] \in Int
  BY WeightedNat
<1>3. \A k \in DOMAIN B : Weighted(B)[k] \in Int
  BY WeightedNat
<1>4. \A k \in DOMAIN C : k # n => Weighted(C)[k] = Weighted(B)[k]
  BY DEF Weighted
<1>5. CASE n \in DOMAIN B
  <2>1. DOMAIN B = DOMAIN C
    BY <1>5
  <2>2. SumFunctionOnSet(Weighted(C), DOMAIN C)
           = SumFunctionOnSet(Weighted(B), DOMAIN C) + Weighted(C)[n] - Weighted(B)[n]
    BY <1>1, <1>2, <1>3, <1>4, <2>1, SumUpdate
  <2>3. PICK b \in Nat : b = B[n]
    BY <1>5 DEF IsBatches
  <2>4. Weighted(C)[n] = n * (b + 1) /\ Weighted(B)[n] = n * b
    BY <1>5, <2>3 DEF Weighted
  <2>5. n * (b + 1) = n * b + n /\ n * b \in Nat
    BY <1>1
  <2>6. PICK t \in Nat, u \in Nat : t = EventsIn(B) /\ u = n * b
    BY <2>5, EventsNat
  <2>7. EventsIn(C) = t + (u + n) - u
    BY <2>1, <2>2, <2>4, <2>5, <2>6, EventsInIs
  <2> QED
    BY <1>1, <2>6, <2>7
<1>6. CASE n \notin DOMAIN B
  <2>1. DOMAIN B = DOMAIN C \ {n}
    BY <1>6
  <2>2. SumFunctionOnSet(Weighted(C), DOMAIN C)
           = Weighted(C)[n] + SumFunctionOnSet(Weighted(C), DOMAIN C \ {n})
    BY <1>1, <1>2, SumSplit
  <2>3. SumFunctionOnSet(Weighted(C), DOMAIN B) = SumFunctionOnSet(Weighted(B), DOMAIN B)
    BY <1>1, <1>4, <2>1, SumSame
  <2>4. Weighted(C)[n] = n
    BY <1>1, <1>6 DEF Weighted
  <2>5. EventsIn(C) = n + EventsIn(B)
    BY <2>1, <2>2, <2>3, <2>4, EventsInIs
  <2> QED
    BY <1>1, <2>5, EventsNat
<1> QED
  BY <1>5, <1>6

LEMMA AddBatch ==
    ASSUME NEW B, IsBatches(B), NEW n \in Nat \ {0}
    PROVE  IsBatches(BagAdd(B, n)) /\ EventsIn(BagAdd(B, n)) = EventsIn(B) + n
<1>1. PICK C : C = BagAdd(B, n)
  OBVIOUS
<1>2. /\ DOMAIN C = DOMAIN B \cup {n}
      /\ C = [k \in DOMAIN C |-> C[k]]
      /\ \A k \in DOMAIN C : k # n => C[k] = B[k]
      /\ n \in DOMAIN B => C[n] = B[n] + 1
      /\ n \notin DOMAIN B => C[n] = 1
  BY <1>1 DEF BagAdd
<1>3. \A k \in DOMAIN C : C[k] \in Nat \ {0}
  BY <1>2 DEF IsBatches
<1>4. IsFiniteSet(DOMAIN C)
  <2>1. IsFiniteSet(DOMAIN B)
    BY DEF IsBatches
  <2>2. IsFiniteSet(DOMAIN B \cup {n})
    BY <2>1, FS_AddElement
  <2> QED
    BY <1>2, <2>2
<1>5. IsBatches(C)
  BY <1>2, <1>3, <1>4 DEF IsBatches
<1> QED
  BY <1>1, <1>2, <1>5, EventsMore

LEMMA RemoveBatch ==
    ASSUME NEW B, IsBatches(B), NEW n \in DOMAIN B
    PROVE  IsBatches(BagRemove(B, n)) /\ EventsIn(BagRemove(B, n)) + n = EventsIn(B)
<1>1. PICK C : C = BagRemove(B, n)
  OBVIOUS
<1>2. /\ DOMAIN C \cup {n} = DOMAIN B
      /\ C = [k \in DOMAIN C |-> C[k]]
      /\ \A k \in DOMAIN B : k # n => B[k] = C[k]
      /\ n \in DOMAIN C => C[n] = B[n] - 1 /\ B[n] # 1
      /\ n \notin DOMAIN C => B[n] = 1
  BY <1>1 DEF BagRemove
<1>3. \A k \in DOMAIN B : B[k] \in Nat \ {0}
  BY DEF IsBatches
<1>4. \A k \in DOMAIN C : C[k] \in Nat \ {0}
  BY <1>2, <1>3
<1>5. DOMAIN C \subseteq DOMAIN B
  BY <1>2
<1>6. IsFiniteSet(DOMAIN C)
  <2>1. IsFiniteSet(DOMAIN B)
    BY DEF IsBatches
  <2> QED
    BY <1>5, <2>1, FS_Subset
<1>7. IsBatches(C)
  BY <1>2, <1>4, <1>5, <1>6 DEF IsBatches
<1>8. n \in DOMAIN C => B[n] = C[n] + 1
  BY <1>2, <1>3
<1>9. EventsIn(B) = EventsIn(C) + n
  BY <1>2, <1>7, <1>8, EventsMore
<1> QED
  BY <1>1, <1>7, <1>9

LEMMA EvictionsNat ==
    ASSUME NEW g \in [Capturer -> Nat] PROVE SumFunction(g) \in Nat
<1>1. DOMAIN g = Capturer /\ \A c \in Capturer : g[c] \in Nat
  OBVIOUS
<1> QED
  BY <1>1, SumNat, MetricsAssumption DEF SumFunction

\* The evictions not counted yet, when those of one capture change.
LEMMA DroppedSum ==
    ASSUME Types
    PROVE  /\ SumFunction(dropped) \in Nat
           /\ \A c \in Capturer, k \in Nat :
                 /\ dropped[c] \in Nat
                 /\ SumFunction([dropped EXCEPT ![c] = k])
                      = SumFunction(dropped) + k - dropped[c]
<1>1. /\ IsFiniteSet(Capturer) /\ dropped \in [Capturer -> Nat]
      /\ DOMAIN dropped = Capturer
  BY MetricsAssumption DEF Types
<1>2. \A c \in Capturer : dropped[c] \in Nat
  BY <1>1
<1>3. SumFunction(dropped) \in Nat
  BY <1>1, <1>2, SumNat DEF SumFunction
<1>4. ASSUME NEW c \in Capturer, NEW k \in Nat
      PROVE  SumFunction([dropped EXCEPT ![c] = k]) = SumFunction(dropped) + k - dropped[c]
  <2>1. PICK g : g = [dropped EXCEPT ![c] = k]
    OBVIOUS
  <2>2. /\ DOMAIN g = Capturer /\ g[c] = k
        /\ \A d \in Capturer : g[d] \in Int
        /\ \A d \in Capturer \ {c} : dropped[d] = g[d]
    BY <1>1, <1>2, <2>1
  <2>3. \A d \in Capturer : dropped[d] \in Int /\ g[d] \in Int
    BY <1>2, <2>2
  <2>4. PICK f : f = dropped
    OBVIOUS
  <2>5. /\ \A d \in Capturer : f[d] \in Int /\ g[d] \in Int
        /\ \A d \in Capturer \ {c} : f[d] = g[d]
    BY <2>2, <2>3, <2>4
  <2>6. SumFunctionOnSet(g, Capturer) = SumFunctionOnSet(f, Capturer) + g[c] - f[c]
    BY <1>1, <2>5, SumUpdate
  <2>7. SumFunction(g) = SumFunctionOnSet(g, Capturer)
    BY <2>2 DEF SumFunction
  <2>8. SumFunction(dropped) = SumFunctionOnSet(f, Capturer)
    BY <1>1, <2>4 DEF SumFunction
  <2> QED
    BY <2>1, <2>2, <2>4, <2>6, <2>7, <2>8
<1>5. \A c \in Capturer, k \in Nat :
         /\ dropped[c] \in Nat
         /\ SumFunction([dropped EXCEPT ![c] = k]) = SumFunction(dropped) + k - dropped[c]
  BY <1>2, <1>4
<1> QED
  BY <1>3, <1>5, Zenon

-----------------------------------------------------------------------------
(* The captures about to push.                                             *)

Pushers == {c \in Capturer : pc[c] = "push"}

LEMMA PushersNat == IsFiniteSet(Pushers) /\ Cardinality(Pushers) \in Nat
BY MetricsAssumption, FS_Subset, FS_CardinalityType DEF Pushers

LEMMA PushersSame ==
    ASSUME \A c \in Capturer : pc[c] = "push" <=> pc'[c] = "push"
    PROVE  Pushers' = Pushers
BY DEF Pushers

\* An actor goes from one place to another, neither of them the push.
LEMMA GotoKeeps ==
    ASSUME Types, NEW a \in Actor, NEW q \in Places \ {"push"},
           pc[a] # "push", pc' = [pc EXCEPT ![a] = q]
    PROVE  pc' \in [Actor -> Places] /\ Pushers' = Pushers
<1>1. pc' \in [Actor -> Places]
  BY DEF Types
<1>2. \A c \in Capturer : pc[c] = "push" <=> pc'[c] = "push"
  BY DEF Types, Actor
<1> QED
  BY <1>1, <1>2, PushersSame

-----------------------------------------------------------------------------
(* The invariant holds.                                                    *)

LEMMA BalanceIs ==
    Balance <=> m["captured"] = m["sent"] + m["overflow"] + m["exhausted"]
                                + Len(ring) + EventsIn(carried)
                                + (Cardinality(Pushers) + SumFunction(dropped))
BY DEF Balance, Between, Pushers

\* The summands of the balance are numbers.
LEMMA Numbers ==
    ASSUME Types
    PROVE  /\ m["captured"] \in Nat /\ m["sent"] \in Nat
           /\ m["overflow"] \in Nat /\ m["exhausted"] \in Nat
           /\ Len(ring) \in Nat /\ EventsIn(carried) \in Nat
           /\ Cardinality(Pushers) \in Nat /\ SumFunction(dropped) \in Nat
<1>1. /\ m["captured"] \in Nat /\ m["sent"] \in Nat
      /\ m["overflow"] \in Nat /\ m["exhausted"] \in Nat
      /\ Len(ring) \in Nat
  BY DEF Types
<1>2. EventsIn(carried) \in Nat
  BY EventsNat DEF Types
<1> QED
  BY <1>1, <1>2, PushersNat, DroppedSum

\* The same, with a name for each.
Reads(c, s, o, x, l, e, p, d) ==
    /\ c = m["captured"] /\ s = m["sent"] /\ o = m["overflow"] /\ x = m["exhausted"]
    /\ l = Len(ring) /\ e = EventsIn(carried)
    /\ p = Cardinality(Pushers) /\ d = SumFunction(dropped)

LEMMA Values ==
    ASSUME Types, Balance
    PROVE  \E c, s, o, x, l, e, p, d \in Nat :
              Reads(c, s, o, x, l, e, p, d) /\ c = s + o + x + l + e + (p + d)
<1>1. PICK c \in Nat, s \in Nat, o \in Nat, x \in Nat :
          c = m["captured"] /\ s = m["sent"] /\ o = m["overflow"] /\ x = m["exhausted"]
  BY Numbers
<1>2. PICK l \in Nat, e \in Nat, p \in Nat, d \in Nat :
          /\ l = Len(ring) /\ e = EventsIn(carried)
          /\ p = Cardinality(Pushers) /\ d = SumFunction(dropped)
  BY Numbers
<1>3. c = s + o + x + l + e + (p + d)
  BY <1>1, <1>2, BalanceIs
<1>4. Reads(c, s, o, x, l, e, p, d)
  BY <1>1, <1>2, Zenon DEF Reads
<1> QED
  BY <1>3, <1>4

LEMMA InitMet == ASSUME Init PROVE MetInv
<1>1. IsBatches(carried) /\ EventsIn(carried) = 0
  <2>1. carried = <<>> /\ DOMAIN carried = {}
    BY DEF Init
  <2>2. IsFiniteSet({})
    BY FS_EmptySet
  <2>3. carried = [x \in {} |-> carried[x]]
    BY <2>1
  <2>4. IsBatches(carried)
    BY <2>1, <2>2, <2>3 DEF IsBatches
  <2> QED
    BY <2>1, <2>4, SumEmpty, EventsInIs
<1>2. pc \in [Actor -> Places] /\ dropped = [c \in Capturer |-> 0]
  BY DEF Init, Places
<1>3. Types
  BY <1>1, <1>2 DEF Init, Types
<1>4. \A c \in Capturer : pc[c] = "capture" /\ dropped[c] = 0
  BY <1>2 DEF Init, Actor
<1>5. DroppedOK
  BY <1>4 DEF DroppedOK
<1>6. Cardinality(Pushers) = 0
  <2>1. Pushers = {}
    BY <1>4 DEF Pushers
  <2> QED
    BY <2>1, FS_EmptySet
<1>7. SumFunction(dropped) = 0
  <2>1. IsFiniteSet(Capturer) /\ DOMAIN dropped = Capturer
    BY <1>2, MetricsAssumption
  <2> QED
    BY <1>4, <2>1, SumZero DEF SumFunction
<1>8. /\ m["captured"] = 0 /\ m["sent"] = 0 /\ m["overflow"] = 0
      /\ m["exhausted"] = 0 /\ Len(ring) = 0
  BY DEF Init
<1>9. Balance
  BY <1>1, <1>6, <1>7, <1>8, BalanceIs
<1> QED
  BY <1>3, <1>5, <1>9 DEF MetInv

\* A step that moves an actor and counts nothing.
LEMMA MoveMet ==
    ASSUME MetInv, UNCHANGED <<pipeVars, m, dropped>>, NEW a \in Actor,
           NEW q \in Places \ {"push", "dropped"}, pc[a] \notin {"push", "dropped"},
           pc' = [pc EXCEPT ![a] = q]
    PROVE  MetInv'
<1>1. pc' \in [Actor -> Places] /\ Pushers' = Pushers
  BY GotoKeeps DEF MetInv
<1>2. Types'
  BY <1>1 DEF MetInv, Types, pipeVars
<1>3. DroppedOK'
  BY DEF MetInv, DroppedOK, Types, Actor
<1>4. Balance'
  <2>1. /\ m' = m /\ ring' = ring /\ carried' = carried /\ dropped' = dropped
    BY DEF pipeVars
  <2>2. Balance
    BY DEF MetInv
  <2> QED
    BY <1>1, <2>1, <2>2, BalanceIs DEF Balance, Between, Pushers
<1> QED
  BY <1>2, <1>3, <1>4 DEF MetInv

LEMMA CountCapturedMet ==
    ASSUME MetInv, NEW c \in Capturer, CountCaptured(c)
    PROVE  MetInv' /\ m' = [m EXCEPT !["captured"] = @ + 1]
<1>1. Types /\ DroppedOK /\ Balance /\ c \in Actor
  BY DEF MetInv, Actor
<1>2. /\ pc[c] = "capture" /\ pc' = [pc EXCEPT ![c] = "push"]
      /\ m' = [m EXCEPT !["captured"] = @ + 1]
      /\ UNCHANGED <<pushed, ring, carried, dropped>>
  BY DEF CountCaptured, Goto, Add, CaptureUnchanged, pipeVars
<1>3. Types'
  BY <1>1, <1>2 DEF Types, Places
<1>4. DroppedOK'
  BY <1>1, <1>2 DEF DroppedOK, Types
<1>5. Pushers' = Pushers \cup {c} /\ c \notin Pushers
  BY <1>1, <1>2 DEF Types, Pushers, Actor
<1>6. Cardinality(Pushers') = Cardinality(Pushers) + 1
  BY <1>5, PushersNat, FS_AddElement
<1>7. /\ m'["captured"] = m["captured"] + 1 /\ m'["sent"] = m["sent"]
      /\ m'["overflow"] = m["overflow"] /\ m'["exhausted"] = m["exhausted"]
  BY <1>1, <1>2 DEF Types
<1>8. Balance'
  <2>1. Balance' <=> m'["captured"] = m'["sent"] + m'["overflow"] + m'["exhausted"]
                         + Len(ring) + EventsIn(carried)
                         + (Cardinality(Pushers') + SumFunction(dropped))
    BY <1>2 DEF Balance, Between, Pushers
  <2>2. PICK c0, s, o, x, l, e, p, d \in Nat :
            Reads(c0, s, o, x, l, e, p, d) /\ c0 = s + o + x + l + e + (p + d)
    BY <1>1, Values
  <2>3. c0 + 1 = s + o + x + l + e + ((p + 1) + d)
    BY <2>2
  <2> QED
    BY <1>6, <1>7, <2>1, <2>2, <2>3 DEF Reads
<1> QED
  BY <1>2, <1>3, <1>4, <1>8 DEF MetInv

\* What is left of the buffer after it gave the k oldest events away.
LEMMA WithoutLen ==
    ASSUME NEW s \in Seq(Nat), NEW k \in 0..Len(s)
    PROVE  Without(s, k) \in Seq(Nat) /\ Len(Without(s, k)) = Len(s) - k
BY DEF Without

LEMMA PushMet == ASSUME MetInv, NEW c \in Capturer, Push(c) PROVE MetInv' /\ m' = m
<1>1. Types /\ DroppedOK /\ Balance /\ c \in Actor
  BY DEF MetInv, Actor
<1> DEFINE all == Append(ring, pushed + 1)
<1>2. all \in Seq(Nat) /\ Len(all) = Len(ring) + 1
  <2>1. ring \in Seq(Nat) /\ pushed + 1 \in Nat
    BY <1>1 DEF Types
  <2> QED
    BY <2>1
<1>3. PICK k \in 0..Len(all) :
          /\ ring' = Without(all, k)
          /\ dropped' = [dropped EXCEPT ![c] = k]
          /\ pc' = [pc EXCEPT ![c] = IF k > 0 THEN "dropped" ELSE "len"]
  BY DEF Push
<1> HIDE DEF all
<1>4. /\ pc[c] = "push" /\ pushed' = pushed + 1
      /\ carried' = carried /\ m' = m
  BY DEF Push
<1>5. k \in Nat /\ Len(all) = Len(ring) + 1 /\ Len(all) \in Nat
  BY <1>1, <1>2, <1>3 DEF Types
<1>6. ring' \in Seq(Nat) /\ Len(ring') = Len(ring) + 1 - k
  <2>1. Without(all, k) \in Seq(Nat) /\ Len(Without(all, k)) = Len(all) - k
    BY <1>2, WithoutLen
  <2> QED
    BY <1>2, <1>3, <2>1
<1>7. Types'
  BY <1>1, <1>3, <1>4, <1>5, <1>6 DEF Types, Places
<1>8. dropped[c] = 0
  BY <1>1, <1>4 DEF Types, DroppedOK
<1>9. DroppedOK'
  BY <1>1, <1>3, <1>5 DEF DroppedOK, Types, Actor
<1>10. Pushers' = Pushers \ {c} /\ c \in Pushers
  BY <1>1, <1>3, <1>4 DEF Types, Pushers, Actor
<1>11. Cardinality(Pushers') = Cardinality(Pushers) - 1
  BY <1>10, PushersNat, FS_RemoveElement
<1>12. SumFunction(dropped') = SumFunction(dropped) + k
  <2>1. SumFunction([dropped EXCEPT ![c] = k]) = SumFunction(dropped) + k - dropped[c]
    BY <1>1, <1>5, DroppedSum
  <2> QED
    BY <1>1, <1>3, <1>5, <1>8, <2>1, DroppedSum
<1>13. Balance'
  <2>1. Balance' <=> m["captured"] = m["sent"] + m["overflow"] + m["exhausted"]
                         + Len(ring') + EventsIn(carried)
                         + (Cardinality(Pushers') + SumFunction(dropped'))
    BY <1>4 DEF Balance, Between, Pushers
  <2>2. PICK c0, s, o, x, l, e, p, d \in Nat :
            Reads(c0, s, o, x, l, e, p, d) /\ c0 = s + o + x + l + e + (p + d)
    BY <1>1, Values
  <2>3. c0 = s + o + x + (l + 1 - k) + e + ((p - 1) + (d + k))
    BY <1>5, <2>2
  <2>4. /\ Len(ring') = l + 1 - k /\ Cardinality(Pushers') = p - 1
        /\ SumFunction(dropped') = d + k
    BY <1>6, <1>11, <1>12, <2>2 DEF Reads
  <2> QED
    BY <2>1, <2>2, <2>3, <2>4 DEF Reads
<1> QED
  BY <1>4, <1>7, <1>9, <1>13 DEF MetInv

\* n events get the outcome k.
Concludes(k, n) ==
    /\ k \in {"sent", "overflow", "exhausted"}
    /\ n \in Nat \ {0} /\ n + m["sent"] + m["overflow"] + m["exhausted"] <= m["captured"]
    /\ m' = [m EXCEPT ![k] = @ + n]

LEMMA CountDroppedMet ==
    ASSUME MetInv, NEW c \in Capturer, CountDropped(c)
    PROVE  MetInv' /\ Concludes("overflow", dropped[c])
<1>1. Types /\ DroppedOK /\ Balance /\ c \in Actor
  BY DEF MetInv, Actor
<1>2. PICK n \in Nat : n = dropped[c] /\ n > 0
  BY <1>1 DEF CountDropped, Goto, DroppedOK, Types
<1>3. /\ pc[c] = "dropped" /\ pc' = [pc EXCEPT ![c] = "len"]
      /\ m' = [m EXCEPT !["overflow"] = @ + n]
      /\ dropped' = [dropped EXCEPT ![c] = 0]
      /\ UNCHANGED <<pushed, ring, carried>>
  BY <1>2 DEF CountDropped, Goto, Add, CaptureUnchanged, pipeVars
<1>4. Types'
  BY <1>1, <1>3 DEF Types, Places
<1>5. DroppedOK'
  BY <1>1, <1>3 DEF DroppedOK, Types
<1>6. Pushers' = Pushers
  BY <1>1, <1>3, GotoKeeps DEF Places
<1>7. SumFunction(dropped) = SumFunction(dropped') + n /\ SumFunction(dropped') \in Nat
  <2>1. SumFunction([dropped EXCEPT ![c] = 0]) = SumFunction(dropped) + 0 - dropped[c]
    BY <1>1, DroppedSum
  <2>2. SumFunction(dropped') \in Nat
    BY <1>4, EvictionsNat DEF Types
  <2>3. SumFunction(dropped) \in Nat
    BY <1>1, Numbers
  <2>4. SumFunction(dropped') = SumFunction(dropped) + 0 - n
    BY <1>2, <1>3, <2>1
  <2> QED
    BY <1>2, <2>2, <2>3, <2>4
<1>8. /\ m'["captured"] = m["captured"] /\ m'["sent"] = m["sent"]
      /\ m'["overflow"] = m["overflow"] + n /\ m'["exhausted"] = m["exhausted"]
  BY <1>1, <1>3 DEF Types
<1>9. Balance'
  <2>1. Balance' <=> m'["captured"] = m'["sent"] + m'["overflow"] + m'["exhausted"]
                         + Len(ring) + EventsIn(carried)
                         + (Cardinality(Pushers') + SumFunction(dropped'))
    BY <1>3 DEF Balance, Between, Pushers
  <2>2. PICK c0, s, o, x, l, e, p, d \in Nat :
            Reads(c0, s, o, x, l, e, p, d) /\ c0 = s + o + x + l + e + (p + d)
    BY <1>1, Values
  <2>3. PICK d2 \in Nat : d2 = SumFunction(dropped') /\ d = d2 + n
    BY <1>7, <2>2 DEF Reads
  <2>5. c0 = s + (o + n) + x + l + e + (p + d2)
    BY <2>2, <2>3
  <2>6. Balance' <=> c0 = s + (o + n) + x + l + e + (p + d2)
    BY <1>6, <1>8, <2>1, <2>2, <2>3 DEF Reads
  <2> QED
    BY <2>5, <2>6
<1>10. Concludes("overflow", n)
  <2>2. PICK c0, s, o, x, l, e, p, d \in Nat :
            Reads(c0, s, o, x, l, e, p, d) /\ c0 = s + o + x + l + e + (p + d)
    BY <1>1, Values
  <2>3. d >= n
    BY <1>7, <2>2 DEF Reads
  <2>4. n + s + o + x <= c0
    BY <2>2, <2>3
  <2>5. n + m["sent"] + m["overflow"] + m["exhausted"] <= m["captured"]
    BY <2>2, <2>4 DEF Reads
  <2> QED
    BY <1>2, <1>3, <2>5 DEF Concludes
<1> QED
  BY <1>2, <1>4, <1>5, <1>9, <1>10 DEF MetInv

LEMMA PopBatchMet ==
    ASSUME MetInv, NEW a, PopBatch(a)
    PROVE  MetInv' /\ m' = m
<1>1. Types /\ DroppedOK /\ Balance
  BY DEF MetInv
<1>2. PICK k \in 0..Len(ring) :
          /\ IsBatch(ring, k, BatchSize, MaxBatchBytes)
          /\ carried' = BagAdd(carried, k)
          /\ ring' = Without(ring, k)
  BY DEF PopBatch
<1>3. UNCHANGED <<pushed, pc, m, dropped>> /\ ring # <<>>
  BY DEF PopBatch, WorkUnchanged
<1>4. Len(ring) \in Nat \ {0} /\ ring \in Seq(Nat)
  BY <1>1, <1>3 DEF Types
<1>5. k \in Nat \ {0}
  BY <1>2, <1>4, MetricsAssumption DEF IsBatch, WithinBatch
<1>6. IsBatches(carried') /\ EventsIn(carried') = EventsIn(carried) + k
  BY <1>1, <1>2, <1>5, AddBatch DEF Types
<1>7. ring' \in Seq(Nat) /\ Len(ring') = Len(ring) - k
  BY <1>2, <1>4, WithoutLen
<1>8. Types' /\ DroppedOK'
  BY <1>1, <1>3, <1>6, <1>7 DEF Types, DroppedOK
<1>9. Balance'
  <2>1. Balance' <=> m["captured"] = m["sent"] + m["overflow"] + m["exhausted"]
                         + Len(ring') + EventsIn(carried')
                         + (Cardinality(Pushers) + SumFunction(dropped))
    BY <1>3 DEF Balance, Between, Pushers
  <2>2. PICK c0, s, o, x, l, e, p, d \in Nat :
            Reads(c0, s, o, x, l, e, p, d) /\ c0 = s + o + x + l + e + (p + d)
    BY <1>1, Values
  <2>3. c0 = s + o + x + (l - k) + (e + k) + (p + d)
    BY <1>5, <2>2
  <2> QED
    BY <1>6, <1>7, <2>1, <2>2, <2>3 DEF Reads
<1> QED
  BY <1>3, <1>8, <1>9 DEF MetInv

LEMMA ResolveMet ==
    ASSUME MetInv, Resolve
    PROVE  MetInv' /\ \E k, n : Concludes(k, n)
<1>1. Types /\ DroppedOK /\ Balance
  BY DEF MetInv
<1>2. PICK n \in DOMAIN carried, k \in {"sent", "exhausted"} :
          /\ carried' = BagRemove(carried, n)
          /\ m' = [m EXCEPT ![k] = @ + n]
  BY DEF Resolve, Add
<1>3. UNCHANGED <<pushed, ring, pc, dropped>>
  BY DEF Resolve
<1>4. n \in Nat \ {0}
  BY <1>1 DEF Types, IsBatches
<1>5. IsBatches(carried') /\ EventsIn(carried') + n = EventsIn(carried)
  BY <1>1, <1>2, RemoveBatch DEF Types
<1>6. EventsIn(carried') \in Nat
  BY <1>5, EventsNat
<1>7. m' \in [{"captured", "sent", "overflow", "exhausted"} -> Nat]
  BY <1>1, <1>2, <1>4 DEF Types
<1>8. Types' /\ DroppedOK'
  BY <1>1, <1>3, <1>5, <1>7 DEF Types, DroppedOK
<1>9. /\ m'["captured"] = m["captured"]
      /\ m'["sent"] + m'["overflow"] + m'["exhausted"]
            = m["sent"] + m["overflow"] + m["exhausted"] + n
  BY <1>1, <1>2, <1>4 DEF Types
<1>10. Balance'
  <2>1. Balance' <=> m'["captured"] = m'["sent"] + m'["overflow"] + m'["exhausted"]
                         + Len(ring) + EventsIn(carried')
                         + (Cardinality(Pushers) + SumFunction(dropped))
    BY <1>3 DEF Balance, Between, Pushers
  <2>2. PICK c0, s, o, x, l, e, p, d \in Nat :
            Reads(c0, s, o, x, l, e, p, d) /\ c0 = s + o + x + l + e + (p + d)
    BY <1>1, Values
  <2>3. PICK e1 \in Nat : e1 = EventsIn(carried') /\ e1 + n = e
    BY <1>5, <1>6, <2>2 DEF Reads
  <2>4. c0 = (s + o + x + n) + l + e1 + (p + d)
    BY <1>4, <2>2, <2>3
  <2> QED
    BY <1>9, <2>1, <2>2, <2>3, <2>4 DEF Reads
<1>11. Concludes(k, n)
  <2>2. PICK c0, s, o, x, l, e, p, d \in Nat :
            Reads(c0, s, o, x, l, e, p, d) /\ c0 = s + o + x + l + e + (p + d)
    BY <1>1, Values
  <2>3. e >= n
    BY <1>4, <1>5, <1>6, <2>2 DEF Reads
  <2>4. n + s + o + x <= c0
    BY <1>4, <2>2, <2>3
  <2>5. n + m["sent"] + m["overflow"] + m["exhausted"] <= m["captured"]
    BY <2>2, <2>4 DEF Reads
  <2> QED
    BY <1>2, <1>4, <2>5 DEF Concludes
<1> QED
  BY <1>8, <1>10, <1>11 DEF MetInv

-----------------------------------------------------------------------------
(* The whole of Next.                                                      *)

\* What a step does to the counters.
Counts ==
    \/ m' = m
    \/ m' = [m EXCEPT !["captured"] = @ + 1]
    \/ \E k, n : Concludes(k, n)

LEMMA CaptureMet == ASSUME MetInv, NEW c \in Capturer, Capture(c) PROVE MetInv' /\ Counts
<1>1. CASE NotAccepted(c)
  <2>1. MetInv'
    BY <1>1, MoveMet DEF NotAccepted, Goto, CaptureUnchanged, Actor, Places
  <2> QED
    BY <1>1, <2>1 DEF NotAccepted, Counts
<1>2. CASE CountCaptured(c)
  BY <1>2, CountCapturedMet DEF Counts
<1>3. CASE Push(c)
  BY <1>3, PushMet DEF Counts
<1>4. CASE CountDropped(c)
  BY <1>4, CountDroppedMet DEF Counts
<1> QED
  BY <1>1, <1>2, <1>3, <1>4 DEF Capture

LEMMA ReportMet == ASSUME MetInv, NEW a \in Actor, Report(a) PROVE MetInv' /\ Counts
<1>1. UNCHANGED <<pipeVars, m, dropped>>
  BY DEF Report, ReadLen, ReadBytes, StoreItems, StoreBytes, ReportUnchanged
<1>2. \E q \in Places \ {"push", "dropped"} :
          pc[a] \notin {"push", "dropped"} /\ pc' = [pc EXCEPT ![a] = q]
  BY DEF Report, ReadLen, ReadBytes, StoreItems, StoreBytes, Goto, Places
<1>3. MetInv'
  BY <1>1, <1>2, MoveMet
<1> QED
  BY <1>1, <1>3 DEF Counts

\* The loop and the callers, but for the batches they pop.
LEMMA WorkMet ==
    ASSUME MetInv,
           \/ LoopWakes \/ LoopStops
           \/ \E c \in Caller : FlushBegins(c) \/ CloseBegins(c) \/ CloseAwaited(c)
           \/ \E p \in {Loop} \cup Caller : PopsEmpty(p)
    PROVE  MetInv' /\ Counts
<1>1. UNCHANGED <<pipeVars, m, dropped>>
  BY DEF LoopWakes, LoopStops, FlushBegins, CloseBegins, CloseAwaited, PopsEmpty,
     WorkUnchanged
<1>2. \E a \in Actor, q \in Places \ {"push", "dropped"} :
          pc[a] \notin {"push", "dropped"} /\ pc' = [pc EXCEPT ![a] = q]
  BY DEF LoopWakes, LoopStops, FlushBegins, CloseBegins, CloseAwaited, PopsEmpty,
     Goto, Places, Actor
<1>3. MetInv'
  BY <1>1, <1>2, MoveMet
<1> QED
  BY <1>1, <1>3 DEF Counts

LEMMA NextMet == ASSUME MetInv, [Next]_vars PROVE MetInv' /\ Counts
<1>1. CASE UNCHANGED vars
  <2>1. UNCHANGED <<pushed, ring, carried, m, pc, dropped>>
    BY <1>1 DEF vars, pipeVars
  <2>2. Types' /\ DroppedOK'
    BY <2>1 DEF MetInv, Types, DroppedOK
  <2>3. Balance'
    BY <2>1 DEF MetInv, Balance, Between
  <2> QED
    BY <2>1, <2>2, <2>3 DEF MetInv, Counts
<1>2. CASE \E p \in {Loop} \cup Caller : PopBatch(p)
  BY <1>2, PopBatchMet DEF Counts
<1>3. CASE Resolve
  BY <1>3, ResolveMet DEF Counts
<1> QED
  BY <1>1, <1>2, <1>3, CaptureMet, ReportMet, WorkMet DEF Next, Work, Rest

LEMMA MetInvHolds == Spec => []MetInv
<1>1. Init => MetInv
  BY InitMet
<1>2. MetInv /\ [Next]_vars => MetInv'
  BY NextMet
<1> QED
  BY <1>1, <1>2, PTL DEF Spec

\* client.go, finishAndEnqueue, enqueue and metricsObserver: what was counted as
\* captured is sent, dropped for a counted reason, or in the pipeline.
THEOREM BalanceHolds == Spec => []Balance
<1>1. MetInv => Balance
  BY DEF MetInv
<1> QED
  BY <1>1, MetInvHolds, PTL

-----------------------------------------------------------------------------
(* Metrics implements Counters: an outcome is only counted for an event    *)
(* that is counted as captured, because the balance leaves room for it.    *)

LEMMA RoomForOutcome ==
    ASSUME Types, NEW k, NEW n, Concludes(k, n)
    PROVE  n \in 1..(m["captured"] - (m["sent"] + m["overflow"] + m["exhausted"]))
<1>1. PICK c \in Nat, s \in Nat, o \in Nat, x \in Nat :
          c = m["captured"] /\ s = m["sent"] /\ o = m["overflow"] /\ x = m["exhausted"]
  BY Numbers
<1>2. n \in Nat \ {0} /\ n + s + o + x <= c
  BY <1>1 DEF Concludes
<1>3. n \in 1..(c - (s + o + x))
  BY <1>2
<1> QED
  BY <1>1, <1>3

LEMMA PromiseStep ==
    ASSUME Types, Counts
    PROVE  [Promise!Next]_(Promise!vars)
<1>1. CASE m' = m
  BY <1>1 DEF Promise!vars
<1>2. CASE m' = [m EXCEPT !["captured"] = @ + 1]
  BY <1>2 DEF Promise!Next, Promise!Accept
<1>3. ASSUME NEW k, NEW n, Concludes(k, n) PROVE Promise!Next
  <2>1. k \in Promise!Outcome
    BY <1>3 DEF Concludes, Promise!Outcome
  <2>2. n \in 1..Promise!Open
    BY <1>3, RoomForOutcome DEF Promise!Open, Promise!Accounted
  <2>3. Promise!Conclude(k, n)
    BY <1>3 DEF Concludes, Promise!Conclude
  <2> QED
    BY <2>1, <2>2, <2>3 DEF Promise!Next
<1> QED
  BY <1>1, <1>2, <1>3 DEF Counts

LEMMA PromiseInit == ASSUME Init PROVE Promise!Init
<1>1. Promise!Counter = {"captured", "sent", "overflow", "exhausted"}
  BY DEF Promise!Counter, Promise!Outcome
<1> QED
  BY <1>1 DEF Init, Promise!Init

\* selfmetrics.go: an event is counted as captured before it has an outcome, and
\* no counter goes back, however captures, the loop, Flush and Close interleave.
THEOREM CountersImplemented == Spec => CountersSpec
<1>1. Init => Promise!Init
  BY PromiseInit
<1>2. MetInv /\ [Next]_vars => [Promise!Next]_(Promise!vars)
  <2>1. MetInv => Types
    BY DEF MetInv
  <2> QED
    BY <2>1, NextMet, PromiseStep
<1> QED
  BY <1>1, <1>2, MetInvHolds, PTL DEF Spec, CountersSpec, Promise!Spec

-----------------------------------------------------------------------------
(* The reader of Counters.  The invariant follows the loads: the counters  *)
(* already loaded, with the ones still to load, never show more open       *)
(* events than there were when the first load was made, because a counter  *)
(* that grows before its load only lowers that difference.                 *)

VARIABLES view, backlog
Reader == INSTANCE Counters

ReaderTypes ==
    /\ m \in [Reader!Counter -> Nat]
    /\ view \in Seq(Nat)
    /\ Len(view) \in 0..4
    /\ backlog \in Int

\* The open events the loads made so far amount to, were the rest made now.
NeverMore ==
    /\ Len(view) = 1 =>
         view[1] - (m["sent"] + m["overflow"] + m["exhausted"]) <= backlog
    /\ Len(view) = 2 =>
         view[1] - (view[2] + m["overflow"] + m["exhausted"]) <= backlog
    /\ Len(view) = 3 => view[1] - (view[2] + view[3] + m["exhausted"]) <= backlog
    /\ Len(view) = 4 => view[1] - (view[2] + view[3] + view[4]) <= backlog

ReaderInv == ReaderTypes /\ NeverMore

\* The four fields are counters, and captured is loaded first.
LEMMA FieldsFacts ==
    /\ Len(Reader!Fields) = 4
    /\ Reader!Fields[1] = "captured" /\ Reader!Fields[2] = "sent"
    /\ Reader!Fields[3] = "overflow" /\ Reader!Fields[4] = "exhausted"
    /\ \A i \in 1..4 : Reader!Fields[i] \in Reader!Counter
BY DEF Reader!Fields, Reader!Counter, Reader!Outcome

\* Counting under the key k only raises that counter.
LEMMA OnlyGrows ==
    ASSUME ReaderTypes, NEW k \in Reader!Counter, NEW n \in Nat,
           m' = [m EXCEPT ![k] = @ + n]
    PROVE  /\ m' \in [Reader!Counter -> Nat]
           /\ \A c \in Reader!Counter : m[c] <= m'[c]
<1>1. \A c \in Reader!Counter : m[c] \in Nat
  BY DEF ReaderTypes
<1>2. \A c \in Reader!Counter : m'[c] = IF c = k THEN m[c] + n ELSE m[c]
  BY DEF ReaderTypes
<1>3. m' \in [Reader!Counter -> Nat]
  BY <1>1 DEF ReaderTypes
<1> QED
  BY <1>1, <1>2, <1>3

\* A step that lets the counters grow and loads nothing keeps the invariant.
LEMMA GrowthKeeps ==
    ASSUME ReaderInv, UNCHANGED <<view, backlog>>, m' \in [Reader!Counter -> Nat],
           \A c \in Reader!Counter : m[c] <= m'[c]
    PROVE  ReaderInv'
<1>1. /\ m["sent"] <= m'["sent"] /\ m["overflow"] <= m'["overflow"]
      /\ m["exhausted"] <= m'["exhausted"]
  BY DEF Reader!Counter, Reader!Outcome
<1>2. /\ m["sent"] \in Nat /\ m["overflow"] \in Nat /\ m["exhausted"] \in Nat
      /\ m'["sent"] \in Nat /\ m'["overflow"] \in Nat /\ m'["exhausted"] \in Nat
  BY DEF ReaderInv, ReaderTypes, Reader!Counter, Reader!Outcome
<1>3. ReaderTypes'
  BY DEF ReaderInv, ReaderTypes
<1>4. \A i \in 1..Len(view) : view[i] \in Nat
  BY DEF ReaderInv, ReaderTypes
<1>5. /\ view' = view /\ Len(view') = Len(view) /\ backlog' = backlog
      /\ backlog \in Int
  BY DEF ReaderInv, ReaderTypes
<1>6. CASE Len(view) = 0
  BY <1>3, <1>5, <1>6 DEF ReaderInv, NeverMore
<1>7. CASE Len(view) = 1
  <2>1. view[1] \in Nat
    BY <1>4, <1>7
  <2>2. view[1] - (m["sent"] + m["overflow"] + m["exhausted"]) <= backlog
    BY <1>7 DEF ReaderInv, NeverMore
  <2>3. view'[1] - (m'["sent"] + m'["overflow"] + m'["exhausted"]) <= backlog'
    BY <1>1, <1>2, <1>5, <2>1, <2>2
  <2> QED
    BY <1>3, <1>5, <1>7, <2>3 DEF ReaderInv, NeverMore
<1>8. CASE Len(view) = 2
  <2>1. view[1] \in Nat /\ view[2] \in Nat
    BY <1>4, <1>8
  <2>2. view[1] - (view[2] + m["overflow"] + m["exhausted"]) <= backlog
    BY <1>8 DEF ReaderInv, NeverMore
  <2>3. view'[1] - (view'[2] + m'["overflow"] + m'["exhausted"]) <= backlog'
    BY <1>1, <1>2, <1>5, <2>1, <2>2
  <2> QED
    BY <1>3, <1>5, <1>8, <2>3 DEF ReaderInv, NeverMore
<1>9. CASE Len(view) = 3
  <2>1. view[1] \in Nat /\ view[2] \in Nat /\ view[3] \in Nat
    BY <1>4, <1>9
  <2>2. view[1] - (view[2] + view[3] + m["exhausted"]) <= backlog
    BY <1>9 DEF ReaderInv, NeverMore
  <2>3. view'[1] - (view'[2] + view'[3] + m'["exhausted"]) <= backlog'
    BY <1>1, <1>2, <1>5, <2>1, <2>2
  <2> QED
    BY <1>3, <1>5, <1>9, <2>3 DEF ReaderInv, NeverMore
<1>10. CASE Len(view) = 4
  BY <1>3, <1>5, <1>10 DEF ReaderInv, NeverMore
<1>11. Len(view) \in {0, 1, 2, 3, 4}
  BY DEF ReaderInv, ReaderTypes
<1> QED
  BY <1>6, <1>7, <1>8, <1>9, <1>10, <1>11

LEMMA AcceptKeeps == ASSUME ReaderInv, Reader!Accept PROVE ReaderInv'
<1>1. "captured" \in Reader!Counter
  BY DEF Reader!Counter
<1>2. /\ m' \in [Reader!Counter -> Nat]
      /\ \A c \in Reader!Counter : m[c] <= m'[c]
  BY <1>1, OnlyGrows DEF ReaderInv, Reader!Accept
<1> QED
  BY <1>2, GrowthKeeps DEF Reader!Accept

LEMMA ConcludeKeeps ==
    ASSUME ReaderInv, NEW k \in Reader!Outcome, NEW n \in 1..Reader!Open,
           Reader!Conclude(k, n)
    PROVE  ReaderInv'
<1>1. k \in Reader!Counter /\ Reader!Open \in Int
  <2>1. \A c \in Reader!Counter : m[c] \in Nat
    BY DEF ReaderInv, ReaderTypes
  <2> QED
    BY <2>1 DEF Reader!Open, Reader!Accounted, Reader!Counter, Reader!Outcome
<1>2. n \in Nat
  BY <1>1
<1>3. /\ m' \in [Reader!Counter -> Nat]
      /\ \A c \in Reader!Counter : m[c] <= m'[c]
  BY <1>1, <1>2, OnlyGrows DEF ReaderInv, Reader!Conclude
<1> QED
  BY <1>3, GrowthKeeps DEF Reader!Conclude

LEMMA LoadKeeps == ASSUME ReaderInv, Reader!Load PROVE ReaderInv'
<1> DEFINE i == Len(view) + 1
<1>1. i \in 1..4 /\ view \in Seq(Nat) /\ Len(view) \in 0..3
  <2>1. view \in Seq(Nat)
    BY DEF ReaderInv, ReaderTypes
  <2>2. PICK n \in Nat : n = Len(view)
    BY <2>1
  <2>3. n < 4
    BY <2>2, FieldsFacts DEF Reader!Load
  <2>4. n \in 0..3 /\ n + 1 \in 1..4
    BY <2>3
  <2> QED
    BY <2>1, <2>2, <2>4, Zenon
<1>2. \A c \in Reader!Counter : m[c] \in Nat /\ m'[c] = m[c]
  BY DEF ReaderInv, ReaderTypes, Reader!Load
<1>3. m[Reader!Fields[i]] \in Nat
  BY <1>1, <1>2, FieldsFacts
<1>4. /\ view' \in Seq(Nat) /\ Len(view') = i /\ view'[i] = m[Reader!Fields[i]]
      /\ \A j \in 1..(i - 1) : view'[j] = view[j]
  BY <1>1, <1>3 DEF Reader!Load
<1>5. Reader!Open \in Int
  BY <1>2 DEF Reader!Open, Reader!Accounted, Reader!Counter, Reader!Outcome
<1>6. ReaderTypes'
  BY <1>1, <1>4, <1>5 DEF ReaderInv, ReaderTypes, Reader!Load
<1>7. NeverMore'
  <2>1. /\ m["captured"] \in Nat /\ m["sent"] \in Nat
        /\ m["overflow"] \in Nat /\ m["exhausted"] \in Nat
        /\ m' = m
    BY <1>2 DEF Reader!Counter, Reader!Outcome, Reader!Load
  <2>2. CASE i = 1
    <3>1. backlog' = m["captured"] - (m["sent"] + m["overflow"] + m["exhausted"])
      BY <1>1, <2>2 DEF Reader!Load, Reader!Open, Reader!Accounted
    <3>2. view'[1] = m["captured"]
      BY <1>4, <2>2, FieldsFacts
    <3>3. Len(view') = 1 /\ m' = m
      BY <1>4, <2>1, <2>2
    <3>4. view'[1] - (m["sent"] + m["overflow"] + m["exhausted"]) <= backlog'
      BY <2>1, <3>1, <3>2
    <3> QED
      BY <3>3, <3>4 DEF NeverMore
  <2>3. CASE i > 1
    <3>1. backlog' = backlog
      BY <1>1, <2>3 DEF Reader!Load
    <3>2. \A j \in 1..Len(view) : view[j] \in Nat
      BY <1>1
    <3>3. CASE i = 2
      <4>1. /\ view'[1] = view[1] /\ view'[2] = m["sent"] /\ Len(view) = 1
            /\ view[1] \in Nat
        BY <1>1, <1>4, <3>2, <3>3, FieldsFacts
      <4>2. view[1] - (m["sent"] + m["overflow"] + m["exhausted"]) <= backlog
        BY <4>1 DEF ReaderInv, NeverMore
      <4>3. Len(view') = 2 /\ backlog' = backlog /\ m' = m
        BY <1>4, <2>1, <3>1, <3>3
      <4>4. view'[1] - (view'[2] + m["overflow"] + m["exhausted"]) <= backlog
        BY <4>1, <4>2
      <4> QED
        BY <4>3, <4>4 DEF NeverMore
    <3>4. CASE i = 3
      <4>1. /\ view'[1] = view[1] /\ view'[2] = view[2] /\ Len(view) = 2
            /\ view'[3] = m["overflow"] /\ view[1] \in Nat /\ view[2] \in Nat
        BY <1>1, <1>4, <3>2, <3>4, FieldsFacts
      <4>2. view[1] - (view[2] + m["overflow"] + m["exhausted"]) <= backlog
        BY <4>1 DEF ReaderInv, NeverMore
      <4>3. Len(view') = 3 /\ backlog' = backlog /\ m' = m
        BY <1>4, <2>1, <3>1, <3>4
      <4>4. view'[1] - (view'[2] + view'[3] + m["exhausted"]) <= backlog
        BY <4>1, <4>2
      <4> QED
        BY <4>3, <4>4 DEF NeverMore
    <3>5. CASE i = 4
      <4>1. /\ view'[1] = view[1] /\ view'[2] = view[2] /\ view'[3] = view[3]
            /\ view'[4] = m["exhausted"] /\ Len(view) = 3
            /\ view[1] \in Nat /\ view[2] \in Nat /\ view[3] \in Nat
        <5>1. Len(view) = 3
          <6>1. PICK n \in 0..3 : n = Len(view)
            BY <1>1, Zenon
          <6>2. n + 1 = 4 => n = 3
            BY <6>1
          <6> QED
            BY <3>5, <6>1, <6>2, Zenon
        <5>2. view[1] \in Nat /\ view[2] \in Nat /\ view[3] \in Nat
          BY <3>2, <5>1
        <5>3. view'[1] = view[1] /\ view'[2] = view[2] /\ view'[3] = view[3]
          BY <1>4, <3>5, <5>1
        <5>4. view'[4] = m["exhausted"]
          BY <1>4, <3>5, FieldsFacts
        <5> QED
          BY <5>1, <5>2, <5>3, <5>4
      <4>2. view[1] - (view[2] + view[3] + m["exhausted"]) <= backlog
        BY <4>1 DEF ReaderInv, NeverMore
      <4>3. Len(view') = 4 /\ backlog' = backlog /\ m' = m
        BY <1>4, <2>1, <3>1, <3>5
      <4>4. view'[1] - (view'[2] + view'[3] + view'[4]) <= backlog
        BY <4>1, <4>2
      <4> QED
        BY <4>3, <4>4 DEF NeverMore
    <3> QED
      BY <1>1, <2>3, <3>3, <3>4, <3>5
  <2> QED
    BY <1>1, <2>2, <2>3
<1> QED
  BY <1>6, <1>7 DEF ReaderInv

LEMMA ReaderInvHolds == Reader!Spec => []ReaderInv
<1>1. Reader!Init => ReaderInv
  BY DEF Reader!Init, ReaderInv, ReaderTypes, NeverMore
<1>2. ReaderInv /\ [Reader!Next]_(Reader!vars) => ReaderInv'
  <2> SUFFICES ASSUME ReaderInv, [Reader!Next]_(Reader!vars) PROVE ReaderInv'
    OBVIOUS
  <2>1. CASE Reader!Accept
    BY <2>1, AcceptKeeps
  <2>2. CASE \E k \in Reader!Outcome, n \in 1..Reader!Open : Reader!Conclude(k, n)
    BY <2>2, ConcludeKeeps
  <2>3. CASE Reader!Load
    BY <2>3, LoadKeeps
  <2>4. CASE Reader!Return
    BY <2>4 DEF Reader!Return, ReaderInv, ReaderTypes, NeverMore
  <2>5. CASE UNCHANGED Reader!vars
    BY <2>5 DEF Reader!vars, ReaderInv, ReaderTypes, NeverMore
  <2> QED
    BY <2>1, <2>2, <2>3, <2>4, <2>5 DEF Reader!Next
<1> QED
  BY <1>1, <1>2, PTL DEF Reader!Spec

\* selfmetrics.go, Snapshot: the counters are loaded one by one while others
\* add to them, and what they show as open was open when the reading began.
THEOREM SnapshotBacklogHolds == Reader!Spec => []Reader!SnapshotBacklog
<1>1. ReaderInv => Reader!SnapshotBacklog
  BY FieldsFacts DEF ReaderInv, NeverMore, Reader!SnapshotBacklog
<1> QED
  BY <1>1, ReaderInvHolds, PTL

\* A client and a goroutine that calls Stats again and again.
ReadingStep ==
    \/ Next /\ UNCHANGED <<view, backlog>>
    \/ (Reader!Load \/ Reader!Return) /\ UNCHANGED vars

ReadClient ==
    /\ Init /\ view = <<>> /\ backlog = 0
    /\ [][ReadingStep]_<<vars, view, backlog>>

LEMMA ReadingStepMet ==
    ASSUME MetInv, [ReadingStep]_<<vars, view, backlog>>
    PROVE  MetInv' /\ [Reader!Next]_(Reader!vars)
<1>1. CASE Next /\ UNCHANGED <<view, backlog>>
  <2>1. Types /\ MetInv' /\ Counts
    BY <1>1, NextMet DEF MetInv
  <2>2. CASE m' = m
    BY <1>1, <2>1, <2>2 DEF Reader!vars
  <2>3. CASE m' = [m EXCEPT !["captured"] = @ + 1]
    BY <1>1, <2>1, <2>3 DEF Reader!Next, Reader!Accept
  <2>4. ASSUME NEW k, NEW n, Concludes(k, n) PROVE Reader!Next
    <3>1. k \in Reader!Outcome
      BY <2>4 DEF Concludes, Reader!Outcome
    <3>2. n \in 1..Reader!Open
      BY <2>1, <2>4, RoomForOutcome DEF Reader!Open, Reader!Accounted
    <3>3. Reader!Conclude(k, n)
      BY <1>1, <2>4 DEF Concludes, Reader!Conclude
    <3> QED
      BY <3>1, <3>2, <3>3 DEF Reader!Next
  <2> QED
    BY <2>1, <2>2, <2>3, <2>4 DEF Counts
<1>2. CASE (Reader!Load \/ Reader!Return) /\ UNCHANGED vars
  BY <1>2, NextMet DEF Reader!Next
<1>3. CASE UNCHANGED <<vars, view, backlog>>
  <2>1. MetInv' /\ m' = m
    BY <1>3, NextMet DEF vars
  <2> QED
    BY <1>3, <2>1 DEF Reader!vars
<1> QED
  BY <1>1, <1>2, <1>3 DEF ReadingStep

LEMMA ReadingInit ==
    ASSUME Init, view = <<>>, backlog = 0 PROVE Reader!Init
<1>1. Reader!Counter = {"captured", "sent", "overflow", "exhausted"}
  BY DEF Reader!Counter, Reader!Outcome
<1> QED
  BY <1>1 DEF Init, Reader!Init

\* stats.go, Stats: the same of the counters of a client at work, whose captures,
\* loop, Flush and Close run while they are loaded.
THEOREM StatsBacklogHolds == ReadClient => []Reader!SnapshotBacklog
<1>1. Init => MetInv
  BY InitMet
<1>2. MetInv /\ [ReadingStep]_<<vars, view, backlog>>
         => MetInv' /\ [Reader!Next]_(Reader!vars)
  BY ReadingStepMet
<1>3. Init /\ view = <<>> /\ backlog = 0 => Reader!Init
  BY ReadingInit
<1>4. ReadClient => Reader!Spec
  BY <1>1, <1>2, <1>3, PTL DEF ReadClient, Reader!Spec
<1> QED
  BY <1>4, SnapshotBacklogHolds, PTL
=============================================================================
