---------------------------- MODULE WorkerProofs ----------------------------
(***************************************************************************)
(* Proofs about Worker for any number of events, callers and permits:      *)
(* types, the count of the WaitGroup, that no event is lost, doubled or    *)
(* taken out of turn, no wake-up missed, what a nil error of Flush and     *)
(* Close means, and that the worker implements DeliveryLedger.             *)
(***************************************************************************)
EXTENDS Worker, FiniteSetTheorems, SequenceTheorems, TLAPS

-----------------------------------------------------------------------------
(* The inductive invariant, by the variables its parts are about.          *)

PcOK ==
    /\ pc \in [Actor -> LoopPC \cup CallPC \cup SlotPC]
    /\ pc[Loop] \in LoopPC
    /\ \A c \in Caller : pc[c] \in CallPC
    /\ \A s \in Slot : pc[s] \in SlotPC

QueueOK ==
    /\ captured \in 0..MaxEvents /\ notifying \in Nat
    /\ ring \in Seq(Event) /\ trigger \in BOOLEAN
    /\ NewestBuffered

ActorOK ==
    /\ PcOK
    /\ hand \in [Actor -> SUBSET Event]
    /\ att \in [Actor -> 0..MaxRetries]
    /\ owner \in [Slot -> Worker]
    /\ inflight \in Nat /\ finishing \in Nat
    /\ BatchesInUse /\ InflightMatches

CloseOK ==
    /\ draining \in BOOLEAN
    /\ stop \in BOOLEAN /\ stopped \in BOOLEAN /\ closed \in BOOLEAN
    /\ closing \in SUBSET Closer
    /\ expired \in SUBSET Worker

CallOK ==
    /\ waiter \in [Caller -> {"none", "spawned", "blocked", "woken", "done"}]
    /\ result \in [Caller -> {"none", "nil", "ctxErr"}]
    /\ before \in [Caller -> 0..MaxEvents]

FateOK ==
    /\ sent \in SUBSET Event /\ exhausted \in SUBSET Event
    /\ evicted \in SUBSET Event
    /\ accepted \in [Event -> Nat]

WInv == QueueOK /\ ActorOK /\ CloseOK /\ CallOK /\ FateOK /\ Conservation
        /\ crashed \in BOOLEAN

LEMMA WInvType == WInv => TypeOK
  BY DEF WInv, QueueOK, ActorOK, PcOK, CloseOK, CallOK, FateOK, TypeOK

-----------------------------------------------------------------------------
(* Constants.                                                              *)

LEMMA Kinds ==
    /\ Loop \in Actor /\ Worker \subseteq Actor /\ Slot \subseteq Actor
    /\ Caller \subseteq Worker /\ Loop \in Worker
    /\ Worker \cap Slot = {} /\ Loop \notin Caller
    /\ Actor = Worker \cup Slot /\ Worker = {Loop} \cup Caller
    /\ Flusher \subseteq Caller /\ Closer \subseteq Caller
    /\ IsFiniteSet(Slot) /\ MaxRetries \in Nat /\ MaxEvents \in Nat
  BY WorkerAssumption DEF Actor, Worker, Caller

-----------------------------------------------------------------------------
(* Frames: a part is preserved when its variables are left alone.          *)

LEMMA QueueFrame ==
    ASSUME QueueOK, UNCHANGED queueVars PROVE QueueOK'
  BY DEF QueueOK, queueVars, NewestBuffered

LEMMA ActorFrame ==
    ASSUME ActorOK, UNCHANGED <<pc, hand, att, slotVars>> PROVE ActorOK'
  BY DEF ActorOK, PcOK, slotVars, BatchesInUse, InflightMatches

LEMMA CloseFrame ==
    ASSUME CloseOK, UNCHANGED <<draining, closeVars, stopped, expired>>
    PROVE  CloseOK'
  BY DEF CloseOK, closeVars

LEMMA CallFrame ==
    ASSUME CallOK, UNCHANGED callVars PROVE CallOK'
  BY DEF CallOK, callVars

LEMMA FateFrame ==
    ASSUME FateOK, UNCHANGED fateVars PROVE FateOK'
  BY DEF FateOK, fateVars

LEMMA ConservationFrame ==
    ASSUME Conservation, UNCHANGED <<captured, ring, hand>>,
           UNCHANGED <<sent, exhausted, evicted>>
    PROVE  Conservation'
  BY DEF Conservation, Held, Resolved

\* An actor other than a slot moves on without touching a batch.
LEMMA Move ==
    ASSUME ActorOK, NEW p \in Worker, NEW at,
           p = Loop => at \in LoopPC, p # Loop => at \in CallPC,
           at # "backoff",
           hand[p] = {} \/ at \in {"dispatch", "send"},
           pc' = [pc EXCEPT ![p] = at],
           UNCHANGED <<hand, att, slotVars>>
    PROVE  ActorOK'
<1>1. PcOK'
  BY Kinds DEF ActorOK, PcOK
<1>2. BatchesInUse'
  BY Kinds DEF ActorOK, PcOK, BatchesInUse
<1>3. InflightMatches'
  <2>1. {s \in Slot : pc'[s] # "free"} = {s \in Slot : pc[s] # "free"}
    BY Kinds DEF ActorOK, PcOK
  <2>2. QED
    BY <2>1 DEF ActorOK, InflightMatches, slotVars
<1>4. QED
  BY <1>1, <1>2, <1>3 DEF ActorOK, slotVars

-----------------------------------------------------------------------------
(* The buffer as the newest events.                                        *)

\* s holds the events up to n, in order: NewestBuffered for any buffer.
Newest(s, n) == \A i \in 1..Len(s) : s[i] = n - Len(s) + i

LEMMA NewestFits ==
    ASSUME NEW n \in Nat, NEW s \in Seq(Event), Newest(s, n)
    PROVE  Len(s) \in 0..n
<1>1. CASE Len(s) = 0
  BY <1>1
<1>2. CASE Len(s) # 0
  <2>1. 1 \in 1..Len(s) /\ s[1] \in Event
    BY <1>2, ElementOfSeq
  <2>2. s[1] = n - Len(s) + 1
    BY <2>1 DEF Newest
  <2>3. QED
    BY <2>1, <2>2 DEF Event
<1>3. QED
  BY <1>1, <1>2

\* The k oldest of them are an interval, and the newest ones stay.
LEMMA TakeOldest ==
    ASSUME NEW n \in Nat, NEW s \in Seq(Event), Newest(s, n),
           NEW k \in 0..Len(s)
    PROVE  /\ Without(s, k) \in Seq(Event)
           /\ Len(Without(s, k)) = Len(s) - k
           /\ Newest(Without(s, k), n)
           /\ Elements(SubSeq(s, 1, k))
                = (n - Len(s) + 1)..(n - Len(s) + k)
<1>1. \A i \in 1..Len(s) : s[i] \in Event
  BY ElementOfSeq
<1>2. /\ Without(s, k) \in Seq(Event)
      /\ Len(Without(s, k)) = Len(s) - k
      /\ \A i \in 1..(Len(s) - k) : Without(s, k)[i] = s[k + i]
  <2>1. \A i \in (k + 1)..Len(s) : s[i] \in Event
    BY <1>1
  <2>2. /\ SubSeq(s, k + 1, Len(s)) \in Seq(Event)
        /\ Len(SubSeq(s, k + 1, Len(s)))
             = IF k + 1 <= Len(s) THEN Len(s) - (k + 1) + 1 ELSE 0
        /\ \A i \in 1..(Len(s) - (k + 1) + 1) :
             SubSeq(s, k + 1, Len(s))[i] = s[(k + 1) + i - 1]
    BY <2>1, SubSeqProperties
  <2>3. QED
    BY <2>2 DEF Without
<1>3. Newest(Without(s, k), n)
  BY <1>2 DEF Newest
<1>4. /\ SubSeq(s, 1, k) \in Seq(Event)
      /\ Len(SubSeq(s, 1, k)) = k
      /\ \A i \in 1..k : SubSeq(s, 1, k)[i] = s[i]
  <2>1. \A i \in 1..k : s[i] \in Event
    BY <1>1
  <2>2. /\ SubSeq(s, 1, k) \in Seq(Event)
        /\ Len(SubSeq(s, 1, k)) = IF 1 <= k THEN k - 1 + 1 ELSE 0
        /\ \A i \in 1..(k - 1 + 1) : SubSeq(s, 1, k)[i] = s[1 + i - 1]
    BY <2>1, SubSeqProperties
  <2>3. QED
    BY <2>2
<1>5. \A i \in 1..k : SubSeq(s, 1, k)[i] = n - Len(s) + i
  BY <1>4 DEF Newest
<1>6. Elements(SubSeq(s, 1, k)) = {n - Len(s) + i : i \in 1..k}
  <2>1. DOMAIN SubSeq(s, 1, k) = 1..k
    BY <1>4
  <2>2. QED
    BY <2>1, <1>5 DEF Elements
<1>7. {n - Len(s) + i : i \in 1..k} = (n - Len(s) + 1)..(n - Len(s) + k)
  <2>1. ASSUME NEW x \in (n - Len(s) + 1)..(n - Len(s) + k)
        PROVE  x - (n - Len(s)) \in 1..k
               /\ x = n - Len(s) + (x - (n - Len(s)))
    OBVIOUS
  <2>2. ASSUME NEW i \in 1..k
        PROVE  n - Len(s) + i \in (n - Len(s) + 1)..(n - Len(s) + k)
    OBVIOUS
  <2>3. QED
    BY <2>1, <2>2
<1>8. QED
  BY <1>2, <1>3, <1>6, <1>7

\* The same for a buffer the next event has just been added to.
LEMMA AppendNewest ==
    ASSUME NEW n \in Nat, NEW s \in Seq(Event), Newest(s, n), n + 1 \in Event
    PROVE  /\ Len(Append(s, n + 1)) = Len(s) + 1
           /\ \A k \in 0..(Len(s) + 1) :
                LET t == Without(Append(s, n + 1), k)
                IN  /\ t \in Seq(Event)
                    /\ Len(t) = Len(s) + 1 - k
                    /\ Newest(t, n + 1)
                    /\ Elements(SubSeq(Append(s, n + 1), 1, k))
                         = (n - Len(s) + 1)..(n - Len(s) + k)
<1>1. PICK all : all = Append(s, n + 1)
  OBVIOUS
<1>2. /\ all \in Seq(Event) /\ Len(all) = Len(s) + 1
      /\ \A i \in 1..Len(s) : all[i] = s[i]
      /\ all[Len(s) + 1] = n + 1
  BY <1>1, AppendProperties
<1>3. Newest(all, n + 1)
  <2>1. ASSUME NEW i \in 1..Len(all)
        PROVE  all[i] = n + 1 - Len(all) + i
    <3>1. CASE i \in 1..Len(s)
      BY <1>2, <3>1 DEF Newest
    <3>2. CASE i = Len(s) + 1
      BY <1>2, <3>2
    <3>3. QED
      BY <1>2, <3>1, <3>2
  <2>2. QED
    BY <2>1 DEF Newest
<1>4. ASSUME NEW k \in 0..(Len(s) + 1)
      PROVE  /\ Without(all, k) \in Seq(Event)
             /\ Len(Without(all, k)) = Len(s) + 1 - k
             /\ Newest(Without(all, k), n + 1)
             /\ Elements(SubSeq(all, 1, k))
                  = (n - Len(s) + 1)..(n - Len(s) + k)
  <2>1. PICK m \in Nat : m = n + 1
    OBVIOUS
  <2>2. k \in 0..Len(all) /\ Newest(all, m)
    BY <2>1, <1>2, <1>3
  <2>3. /\ Without(all, k) \in Seq(Event)
        /\ Len(Without(all, k)) = Len(all) - k
        /\ Newest(Without(all, k), m)
        /\ Elements(SubSeq(all, 1, k))
             = (m - Len(all) + 1)..(m - Len(all) + k)
    BY <2>2, <1>2, TakeOldest
  <2>4. /\ m - Len(all) + 1 = n - Len(s) + 1
        /\ m - Len(all) + k = n - Len(s) + k
    BY <2>1, <1>2
  <2>5. QED
    BY <2>1, <2>3, <2>4, <1>2
<1>5. QED
  BY <1>1, <1>2, <1>4

\* What the buffer's part of the invariant says in these terms.
LEMMA BufferNewest ==
    ASSUME QueueOK
    PROVE  /\ captured \in Nat /\ ring \in Seq(Event)
           /\ Newest(ring, captured) /\ Len(ring) \in 0..captured
<1>1. /\ captured \in Nat /\ ring \in Seq(Event)
      /\ Newest(ring, captured)
  BY Kinds DEF QueueOK, NewestBuffered, Newest
<1>2. QED
  BY <1>1, NewestFits

-----------------------------------------------------------------------------
(* Producers.                                                              *)

LEMMA CaptureKeeps ==
    ASSUME WInv, Capture PROVE WInv'
<1>1. /\ captured \in Nat /\ ring \in Seq(Event)
      /\ Newest(ring, captured) /\ Len(ring) \in 0..captured
  BY BufferNewest DEF WInv
<1>2. captured < MaxEvents /\ captured' = captured + 1
      /\ captured + 1 \in Event /\ MaxEvents \in Nat
  BY <1>1, Kinds DEF Capture, Event
<1>3. Len(Append(ring, captured + 1)) = Len(ring) + 1
  BY <1>1, <1>2, AppendNewest
<1>4. PICK k \in 0..(Len(ring) + 1) :
         /\ ring' = Without(Append(ring, captured + 1), k)
         /\ evicted' = evicted
              \cup Elements(SubSeq(Append(ring, captured + 1), 1, k))
  BY <1>3 DEF Capture
<1>5. /\ ring' \in Seq(Event) /\ Len(ring') = Len(ring) + 1 - k
      /\ Newest(ring', captured')
      /\ evicted' = evicted \cup
           (captured - Len(ring) + 1)..(captured - Len(ring) + k)
  BY <1>1, <1>2, <1>4, AppendNewest
<1>6. QueueOK'
  BY <1>1, <1>2, <1>5 DEF WInv, QueueOK, NewestBuffered, Newest, Capture
<1>8. Conservation'
  <2> DEFINE gone == 1..(captured - Len(ring))
             more == (captured - Len(ring) + 1)..(captured - Len(ring) + k)
  <2>1. 1..(captured' - Len(ring')) = gone \cup more /\ gone \cap more = {}
    BY <1>1, <1>2, <1>5
  <2>2. Held' = Held /\ Resolved' = Resolved \cup more
    BY <1>5 DEF Capture, Held, Resolved
  <2>3. /\ Held \cup Resolved = gone /\ Held \cap Resolved = {}
        /\ sent \cap exhausted = {}
        /\ evicted \cap (sent \cup exhausted) = {}
        /\ \A p, r \in Actor : p # r => hand[p] \cap hand[r] = {}
    BY DEF WInv, Conservation
  <2>4. evicted' = evicted \cup more /\ UNCHANGED <<sent, exhausted, hand>>
    BY <1>5 DEF Capture
  <2>5. sent \cup exhausted \subseteq gone
    BY <2>3 DEF Resolved
  <2> HIDE DEF gone, more
  <2>6. /\ (Held \cup Resolved)' = 1..(captured' - Len(ring'))
        /\ (Held \cap Resolved)' = {}
    BY <2>1, <2>2, <2>3
  <2>7. evicted' \cap (sent' \cup exhausted') = {}
    BY <2>1, <2>3, <2>4, <2>5
  <2>8. QED
    BY <2>3, <2>4, <2>6, <2>7 DEF Conservation
<1>9. FateOK'
  <2>1. (captured - Len(ring) + 1)..(captured - Len(ring) + k)
           \subseteq Event
    BY <1>1, <1>2 DEF Event
  <2>2. QED
    BY <2>1, <1>5 DEF WInv, FateOK, Capture
<1>10. ActorOK' /\ CloseOK' /\ CallOK' /\ crashed' \in BOOLEAN
  BY ActorFrame, CloseFrame, CallFrame DEF WInv, Capture, Alive
<1>11. QED
  BY <1>6, <1>8, <1>9, <1>10 DEF WInv

LEMMA NotifyKeeps ==
    ASSUME WInv, NotifyIfFull PROVE WInv'
<1>1. QueueOK'
  <2>1. notifying' \in Nat
    BY DEF WInv, QueueOK, NotifyIfFull
  <2>2. trigger' \in BOOLEAN
    BY Zenon DEF WInv, QueueOK, NotifyIfFull, Notify
  <2>3. QED
    BY <2>1, <2>2 DEF WInv, QueueOK, NewestBuffered, NotifyIfFull
<1>2. UNCHANGED <<captured, ring, pc, hand, att, slotVars, draining, closeVars,
                  stopped, expired, callVars, fateVars, crashed>>
  BY DEF NotifyIfFull, Alive
<1>3. ActorOK' /\ CloseOK' /\ CallOK' /\ FateOK' /\ Conservation'
  BY <1>2, ActorFrame, CloseFrame, CallFrame, FateFrame, ConservationFrame
     DEF WInv, fateVars
<1>4. QED
  BY <1>1, <1>2, <1>3 DEF WInv

-----------------------------------------------------------------------------
(* The loop.                                                               *)

\* The loop moves between its points without a batch.
LEMMA LoopMoves ==
    ASSUME WInv, LoopUnchanged, NEW at \in LoopPC \ {"backoff"},
           hand[Loop] = {} \/ at \in {"dispatch", "send"},
           pc' = [pc EXCEPT ![Loop] = at],
           trigger' \in BOOLEAN, stopped' \in BOOLEAN, draining' \in BOOLEAN
    PROVE  WInv'
<1>1. ActorOK'
  BY Move, Kinds DEF WInv, LoopUnchanged
<1>2. QueueOK'
  BY DEF WInv, QueueOK, NewestBuffered, LoopUnchanged
<1>3. CloseOK'
  BY DEF WInv, CloseOK, LoopUnchanged, closeVars
<1>4. CallOK' /\ FateOK' /\ Conservation' /\ crashed' \in BOOLEAN
  BY CallFrame, FateFrame, ConservationFrame
     DEF WInv, LoopUnchanged, Alive, fateVars
<1>5. QED
  BY <1>1, <1>2, <1>3, <1>4 DEF WInv

LEMMA LoopKeeps ==
    ASSUME WInv,
           LoopStop \/ LoopTick \/ LoopTrigger \/ LoopReport \/ LoopDisabled
             \/ LoopPopsEmpty
    PROVE  WInv'
<1>1. hand[Loop] = {}
  BY Kinds DEF WInv, ActorOK, BatchesInUse, LoopStop, LoopTick, LoopTrigger,
               LoopReport, LoopDisabled, LoopPopsEmpty
<1>2. LoopUnchanged
  BY DEF LoopStop, LoopTick, LoopTrigger, LoopReport, LoopDisabled,
         LoopPopsEmpty
<1>3. PICK at \in {"pop", "select", "exit", "report"} :
         pc' = [pc EXCEPT ![Loop] = at]
  BY DEF LoopStop, LoopTick, LoopTrigger, LoopReport, LoopDisabled,
         LoopPopsEmpty
<1>4. trigger' \in BOOLEAN /\ stopped' \in BOOLEAN /\ draining' \in BOOLEAN
  BY DEF WInv, QueueOK, CloseOK, LoopStop, LoopTick, LoopTrigger,
         LoopReport, LoopDisabled, LoopPopsEmpty
<1>5. at \in LoopPC \ {"backoff"}
  BY DEF LoopPC, DispatchPC
<1>6. QED
  BY <1>1, <1>2, <1>3, <1>4, <1>5, LoopMoves

-----------------------------------------------------------------------------
(* dispatchReady and dispatch.                                             *)

LEMMA PopBatchKeeps ==
    ASSUME WInv, NEW p \in Worker, PopBatch(p) PROVE WInv'
<1>1. /\ captured \in Nat /\ ring \in Seq(Event)
      /\ Newest(ring, captured) /\ Len(ring) \in 0..captured
  BY BufferNewest DEF WInv
<1>2. PICK k \in 0..Len(ring) :
         /\ hand' = [hand EXCEPT ![p] = Elements(SubSeq(ring, 1, k))]
         /\ ring' = Without(ring, k)
  BY DEF PopBatch
<1> DEFINE batch == (captured - Len(ring) + 1)..(captured - Len(ring) + k)
<1>3. /\ ring' \in Seq(Event) /\ Len(ring') = Len(ring) - k
      /\ Newest(ring', captured)
      /\ hand' = [hand EXCEPT ![p] = batch]
  <2>1. /\ Without(ring, k) \in Seq(Event) /\ Len(Without(ring, k)) = Len(ring) - k
        /\ Newest(Without(ring, k), captured)
        /\ Elements(SubSeq(ring, 1, k)) = batch
    BY <1>1, TakeOldest
  <2> HIDE DEF batch
  <2> QED
    BY <1>2, <2>1, Zenon
<1>4. batch \subseteq Event /\ p \in Actor /\ hand[p] = {}
  <2>1. captured <= MaxEvents /\ MaxEvents \in Nat
    BY Kinds DEF WInv, QueueOK
  <2>2. batch \subseteq Event
    BY <1>1, <2>1 DEF Event
  <2>3. QED
    BY <2>2, Kinds DEF WInv, ActorOK, BatchesInUse, PopBatch
<1>5. /\ 1..(captured - Len(ring'))
           = 1..(captured - Len(ring)) \cup batch
      /\ 1..(captured - Len(ring)) \cap batch = {}
  BY <1>1, <1>3
<1> HIDE DEF batch
<1>6. QueueOK'
  BY <1>3 DEF WInv, QueueOK, NewestBuffered, Newest, PopBatch
<1>7. ActorOK'
  <2>1. /\ pc' = [pc EXCEPT ![p] = "dispatch"] /\ UNCHANGED <<att, slotVars>>
    BY DEF PopBatch
  <2>2. PcOK' /\ hand' \in [Actor -> SUBSET Event]
    BY <2>1, <1>3, <1>4, Kinds
       DEF WInv, ActorOK, PcOK, LoopPC, CallPC, DispatchPC
  <2>3. BatchesInUse'
    BY <2>1, <1>3, <1>4, Kinds DEF WInv, ActorOK, PcOK, BatchesInUse
  <2>4. {s \in Slot : pc'[s] # "free"} = {s \in Slot : pc[s] # "free"}
    BY <2>1, Kinds DEF WInv, ActorOK, PcOK
  <2>5. QED
    BY <2>1, <2>2, <2>3, <2>4 DEF WInv, ActorOK, InflightMatches, slotVars
<1>8. Conservation'
  <2>1. Held' = Held \cup batch
    BY <1>3, <1>4 DEF Held, WInv, ActorOK
  <2>2. UNCHANGED <<sent, exhausted, evicted, captured>>
    BY DEF PopBatch, fateVars
  <2>3. Resolved' = Resolved
    BY <2>2 DEF Resolved
  <2>4. \A r \in Actor : hand[r] \subseteq 1..(captured - Len(ring))
    BY DEF WInv, Conservation, Held
  <2>5. \A q, r \in Actor : q # r => hand'[q] \cap hand'[r] = {}
    BY <1>3, <1>4, <1>5, <2>4 DEF WInv, ActorOK, Conservation
  <2>6. QED
    BY <1>5, <2>1, <2>2, <2>3, <2>5 DEF WInv, Conservation
<1>9. CloseOK' /\ CallOK' /\ FateOK' /\ crashed' \in BOOLEAN
  BY CloseFrame, CallFrame, FateFrame DEF WInv, PopBatch, Alive
<1>10. QED
  BY <1>6, <1>7, <1>8, <1>9 DEF WInv

LEMMA DispatchSyncKeeps ==
    ASSUME WInv, NEW p \in Worker, DispatchSync(p) PROVE WInv'
<1>1. "send" \in LoopPC /\ "send" \in CallPC
  BY DEF LoopPC, CallPC, DispatchPC
<1>2. pc' = [pc EXCEPT ![p] = "send"] /\ UNCHANGED <<hand, att, slotVars>>
  BY DEF DispatchSync
<1>3. ActorOK'
  BY <1>1, <1>2, Move DEF WInv
<1>4. QueueOK' /\ CloseOK' /\ CallOK' /\ FateOK' /\ Conservation'
      /\ crashed' \in BOOLEAN
  BY QueueFrame, CloseFrame, CallFrame, FateFrame, ConservationFrame
     DEF WInv, DispatchSync, Alive, queueVars, fateVars
<1>5. QED
  BY <1>3, <1>4 DEF WInv

LEMMA DispatchAsyncKeeps ==
    ASSUME WInv, NEW p \in Worker, NEW s \in Slot, DispatchAsync(p, s)
    PROVE  WInv'
<1>1. /\ p \in Actor /\ s \in Actor /\ p # s
      /\ hand[s] = {}
      /\ pc[s] = "free" /\ pc[p] = "dispatch"
  BY Kinds DEF WInv, ActorOK, BatchesInUse, DispatchAsync
<1>2. /\ pc' = [pc EXCEPT ![p] = "pop", ![s] = "send"]
      /\ hand' = [hand EXCEPT ![p] = {}, ![s] = hand[p]]
      /\ owner' = [owner EXCEPT ![s] = p]
      /\ inflight' = inflight + 1
      /\ UNCHANGED <<att, finishing>>
  BY DEF DispatchAsync
<1>3. ActorOK'
  <2>1. PcOK'
    BY <1>1, <1>2, Kinds DEF WInv, ActorOK, PcOK, LoopPC, CallPC, SlotPC,
                             DispatchPC
  <2>2. /\ hand' \in [Actor -> SUBSET Event] /\ owner' \in [Slot -> Worker]
        /\ inflight' \in Nat
    BY <1>1, <1>2 DEF WInv, ActorOK
  <2>3. BatchesInUse'
    BY <1>1, <1>2 DEF WInv, ActorOK, PcOK, BatchesInUse
  <2>4. InflightMatches'
    <3> DEFINE busy == {t \in Slot : pc[t] # "free"}
    <3>1. busy' = busy \cup {s} /\ s \notin busy
      BY <1>1, <1>2, Kinds DEF WInv, ActorOK, PcOK
    <3>2. IsFiniteSet(busy)
      BY Kinds, FS_Subset
    <3>3. Cardinality(busy') = Cardinality(busy) + 1 /\ Cardinality(busy) \in Nat
      BY <3>1, <3>2, FS_AddElement, FS_CardinalityType
    <3>4. inflight = Cardinality(busy) + finishing /\ finishing \in Nat
      BY DEF WInv, ActorOK, InflightMatches
    <3>5. inflight' = Cardinality(busy') + finishing'
      <4> HIDE DEF busy
      <4> QED BY <3>3, <3>4, <1>2
    <3>6. QED
      BY <3>5 DEF InflightMatches
  <2>5. QED
    BY <1>2, <2>1, <2>2, <2>3, <2>4 DEF WInv, ActorOK
<1>4. Conservation'
  <2>1. Held' = Held
    <3>1. \A r \in Actor : hand'[r] = IF r = s THEN hand[p]
                                      ELSE IF r = p THEN {} ELSE hand[r]
      BY <1>1, <1>2 DEF WInv, ActorOK
    <3>2. QED
      BY <1>1, <3>1 DEF Held
  <2>2. \A q, r \in Actor : q # r => hand'[q] \cap hand'[r] = {}
    BY <1>1, <1>2 DEF WInv, ActorOK, Conservation
  <2>3. UNCHANGED <<captured, ring, sent, exhausted, evicted>>
    BY DEF DispatchAsync, queueVars, fateVars
  <2>4. QED
    BY <2>1, <2>2, <2>3 DEF WInv, Conservation, Resolved
<1>5. QueueOK' /\ CloseOK' /\ CallOK' /\ FateOK' /\ crashed' \in BOOLEAN
  BY QueueFrame, CloseFrame, CallFrame, FateFrame
     DEF WInv, DispatchAsync, Alive
<1>6. QED
  BY <1>3, <1>4, <1>5 DEF WInv

-----------------------------------------------------------------------------
(* deliverBatch.                                                           *)

LEMMA ReleaseKeeps ==
    ASSUME ActorOK, NEW p \in Actor, pc[p] \in {"send", "backoff"},
           Release(p), UNCHANGED inflight
    PROVE  ActorOK'
<1>1. CASE p \in Slot
  <2>1. /\ pc' = [pc EXCEPT ![p] = "free"]
        /\ hand' = [hand EXCEPT ![p] = {}]
        /\ att' = [att EXCEPT ![p] = 0]
        /\ owner' = [owner EXCEPT ![p] = Loop]
        /\ finishing' = finishing + 1
    BY <1>1 DEF Release
  <2>2. PcOK'
    BY <1>1, <2>1, Kinds DEF ActorOK, PcOK, SlotPC
  <2>3. /\ hand' \in [Actor -> SUBSET Event] /\ owner' \in [Slot -> Worker]
        /\ att' \in [Actor -> 0..MaxRetries] /\ finishing' \in Nat
    <3>1. 0 \in 0..MaxRetries
      BY Kinds
    <3>2. hand' \in [Actor -> SUBSET Event] /\ att' \in [Actor -> 0..MaxRetries]
      BY <2>1, <3>1 DEF ActorOK
    <3>3. owner' \in [Slot -> Worker] /\ finishing' \in Nat
      <4>1. Loop \in Worker /\ owner \in [Slot -> Worker] /\ finishing \in Nat
        BY Kinds DEF ActorOK
      <4>2. owner' = [owner EXCEPT ![p] = Loop] /\ finishing' = finishing + 1
        BY <2>1
      <4>3. owner' \in [Slot -> Worker]
        BY <4>1, <4>2
      <4>4. QED
        BY <4>1, <4>2, <4>3
    <3>4. QED
      BY <3>2, <3>3
  <2>4. BatchesInUse'
    <3>1. ASSUME NEW r \in Actor
          PROVE  /\ hand'[r] = IF r = p THEN {} ELSE hand[r]
                 /\ pc'[r] = IF r = p THEN "free" ELSE pc[r]
                 /\ r # p => att'[r] = att[r]
      BY <2>1 DEF ActorOK, PcOK
    <3>2. QED
      BY <3>1 DEF ActorOK, BatchesInUse
  <2>5. InflightMatches'
    <3> DEFINE busy == {t \in Slot : pc[t] # "free"}
    <3>1. busy' = busy \ {p} /\ p \in busy
      BY <1>1, <2>1, Kinds DEF ActorOK, PcOK
    <3>2. IsFiniteSet(busy)
      BY Kinds, FS_Subset
    <3>3. /\ Cardinality(busy') = Cardinality(busy) - 1
          /\ Cardinality(busy) \in Nat
      BY <3>1, <3>2, FS_RemoveElement, FS_CardinalityType
    <3>4. inflight = Cardinality(busy) + finishing /\ finishing \in Nat
      BY DEF ActorOK, InflightMatches
    <3>5. inflight' = Cardinality(busy') + finishing'
      <4> HIDE DEF busy
      <4> QED BY <3>3, <3>4, <2>1
    <3>6. QED
      BY <3>5 DEF InflightMatches
  <2>6. QED
    BY <2>1, <2>2, <2>3, <2>4, <2>5 DEF ActorOK
<1>2. CASE p \notin Slot
  <2>1. /\ pc' = [pc EXCEPT ![p] = "pop"]
        /\ hand' = [hand EXCEPT ![p] = {}]
        /\ att' = [att EXCEPT ![p] = 0]
        /\ UNCHANGED <<owner, finishing>>
    BY <1>2 DEF Release
  <2>2. PcOK'
    BY <1>2, <2>1, Kinds DEF ActorOK, PcOK, LoopPC, CallPC, DispatchPC
  <2>3. /\ hand' \in [Actor -> SUBSET Event]
        /\ att' \in [Actor -> 0..MaxRetries]
    BY <2>1, Kinds DEF ActorOK
  <2>4. BatchesInUse'
    BY <2>1 DEF ActorOK, PcOK, BatchesInUse
  <2>5. {t \in Slot : pc'[t] # "free"} = {t \in Slot : pc[t] # "free"}
    BY <1>2, <2>1 DEF ActorOK, PcOK
  <2>6. QED
    BY <2>1, <2>2, <2>3, <2>4, <2>5 DEF ActorOK, InflightMatches
<1>3. QED
  BY <1>1, <1>2

\* A batch that leaves its actor's hands has exactly one outcome.
LEMMA ResolveKeeps ==
    ASSUME Conservation, hand \in [Actor -> SUBSET Event], NEW p \in Actor,
           hand' = [hand EXCEPT ![p] = {}],
           UNCHANGED <<captured, ring, evicted>>,
           \/ sent' = sent \cup hand[p] /\ UNCHANGED exhausted
           \/ exhausted' = exhausted \cup hand[p] /\ UNCHANGED sent
    PROVE  Conservation'
<1>1. \A r \in Actor : hand'[r] = IF r = p THEN {} ELSE hand[r]
  OBVIOUS
<1>2. Held' = Held \ hand[p]
  BY <1>1 DEF Held, Conservation
<1>3. Resolved' = Resolved \cup hand[p]
  BY DEF Resolved
<1>4. hand[p] \subseteq Held /\ hand[p] \cap Resolved = {}
  BY DEF Held, Conservation
<1>5. /\ (Held \cup Resolved)' = 1..(captured' - Len(ring'))
      /\ (Held \cap Resolved)' = {}
  <2>1. /\ Held \cup Resolved = 1..(captured - Len(ring))
        /\ Held \cap Resolved = {}
    BY DEF Conservation
  <2>2. captured' = captured /\ ring' = ring
    OBVIOUS
  <2>3. QED
    BY <1>2, <1>3, <1>4, <2>1, <2>2
<1>6. \A q, r \in Actor : q # r => hand'[q] \cap hand'[r] = {}
  BY <1>1 DEF Conservation
<1>7. /\ sent' \cap exhausted' = {}
      /\ evicted' \cap (sent' \cup exhausted') = {}
  BY <1>4 DEF Conservation, Resolved
<1>8. QED
  BY <1>5, <1>6, <1>7 DEF Conservation

LEMMA ReachTyped ==
    ASSUME FateOK, NEW p, Reach(p) PROVE accepted' \in [Event -> Nat]
<1>1. ASSUME NEW e \in Event
      PROVE  (IF e \in hand[p] THEN accepted[e] + 1 ELSE accepted[e]) \in Nat
  BY DEF FateOK
<1>2. QED
  BY <1>1 DEF Reach

\* Every step of deliverBatch releases a resolved batch or keeps it.
LEMMA DeliverKeeps ==
    ASSUME WInv, NEW p \in Actor, Deliver(p) PROVE WInv'
<1> DEFINE Resolves ==
      /\ Release(p)
      /\ \/ sent' = sent \cup hand[p] /\ UNCHANGED exhausted
         \/ exhausted' = exhausted \cup hand[p] /\ UNCHANGED sent
    Waits ==
      /\ pc[p] = "send" /\ att[p] < MaxRetries
      /\ pc' = [pc EXCEPT ![p] = "backoff"]
      /\ UNCHANGED <<hand, att, owner, finishing, sent, exhausted>>
    Retries ==
      /\ pc[p] = "backoff"
      /\ pc' = [pc EXCEPT ![p] = "send"]
      /\ att' = [att EXCEPT ![p] = @ + 1]
      /\ UNCHANGED <<hand, owner, finishing, sent, exhausted>>
<1>1. DeliverUnchanged /\ pc[p] \in {"send", "backoff"}
  BY DEF Deliver, SendOK, SendPermanent, SendUnreached, SendLost, BackoffEnds
<1>2. Resolves \/ Waits \/ Retries
  <2>1. CASE SendOK(p)
    BY <2>1 DEF SendOK
  <2>2. CASE SendPermanent(p)
    BY <2>2 DEF SendPermanent, Exhaust
  <2>3. ASSUME pc[p] = "send", RetryOrExhaust(p) PROVE Resolves \/ Waits
    <3>1. CASE att[p] < MaxRetries
      BY <2>3, <3>1 DEF RetryOrExhaust
    <3>2. CASE ~(att[p] < MaxRetries)
      <4>1. Exhaust(p)
        BY <2>3, <3>2 DEF RetryOrExhaust
      <4>2. QED
        BY <4>1 DEF Exhaust
    <3>3. QED
      BY <3>1, <3>2
  <2>4. CASE SendUnreached(p) \/ SendLost(p)
    BY <2>3, <2>4 DEF SendUnreached, SendLost
  <2>5. CASE BackoffEnds(p)
    BY <2>5 DEF BackoffEnds, Exhaust
  <2>6. QED
    BY <2>1, <2>2, <2>4, <2>5 DEF Deliver
<1>3. accepted' \in [Event -> Nat]
  <2>1. CASE SendOK(p) \/ SendLost(p)
    BY <2>1, ReachTyped DEF WInv, SendOK, SendLost
  <2>2. CASE SendPermanent(p) \/ SendUnreached(p) \/ BackoffEnds(p)
    BY <2>2 DEF WInv, FateOK, SendPermanent, SendUnreached, BackoffEnds
  <2>3. QED
    BY <2>1, <2>2 DEF Deliver
<1>4. /\ UNCHANGED <<queueVars, inflight, draining, closeVars, stopped,
                     expired, callVars, evicted, captured, ring>>
      /\ crashed' \in BOOLEAN
  BY <1>1 DEF WInv, DeliverUnchanged, Alive, queueVars
<1>5. QueueOK' /\ CloseOK' /\ CallOK'
  BY <1>4, QueueFrame, CloseFrame, CallFrame DEF WInv
<1>6. hand[p] \in SUBSET Event
  BY DEF WInv, ActorOK
<1>7. FateOK'
  <2>1. sent' \in SUBSET Event /\ exhausted' \in SUBSET Event
    BY <1>2, <1>6 DEF WInv, FateOK
  <2>2. QED
    BY <1>3, <1>4, <2>1 DEF WInv, FateOK
<1>8. CASE Resolves
  <2>1. ActorOK'
    BY <1>1, <1>4, <1>8, ReleaseKeeps DEF WInv
  <2>2. Conservation'
    BY <1>4, <1>8, ResolveKeeps DEF WInv, ActorOK, Release
  <2>3. QED
    BY <1>4, <1>5, <1>7, <2>1, <2>2 DEF WInv
<1>9. CASE Waits \/ Retries
  <2>1. PICK at \in {"send", "backoff"} : pc' = [pc EXCEPT ![p] = at]
    BY <1>9
  <2>2. PcOK'
    BY <1>1, <2>1, Kinds DEF WInv, ActorOK, PcOK, LoopPC, CallPC, SlotPC,
                             DispatchPC
  <2>3. att' \in [Actor -> 0..MaxRetries]
    <3>1. CASE Waits
      BY <3>1 DEF WInv, ActorOK
    <3>2. CASE Retries
      <4>1. att[p] \in 0..MaxRetries /\ att[p] < MaxRetries
        BY <3>2 DEF WInv, ActorOK, BatchesInUse
      <4>2. att[p] + 1 \in 0..MaxRetries
        BY <4>1, Kinds
      <4>3. QED
        BY <3>2, <4>2 DEF WInv, ActorOK
    <3>3. QED
      BY <1>9, <3>1, <3>2
  <2>4. BatchesInUse'
    <3>1. CASE Waits
      BY <3>1 DEF WInv, ActorOK, PcOK, BatchesInUse
    <3>2. CASE Retries
      BY <3>2 DEF WInv, ActorOK, PcOK, BatchesInUse
    <3>3. QED
      BY <1>9, <3>1, <3>2
  <2>5. {t \in Slot : pc'[t] # "free"} = {t \in Slot : pc[t] # "free"}
    BY <1>1, <2>1 DEF WInv, ActorOK, PcOK
  <2>6. UNCHANGED <<hand, owner, finishing, inflight, sent, exhausted>>
    BY <1>4, <1>9
  <2>7. ActorOK'
    BY <2>2, <2>3, <2>4, <2>5, <2>6 DEF WInv, ActorOK, InflightMatches
  <2>8. Conservation'
    BY <1>4, <2>6, ConservationFrame DEF WInv
  <2>9. QED
    BY <1>4, <1>5, <1>7, <2>7, <2>8 DEF WInv
<1>10. QED
  BY <1>2, <1>8, <1>9

-----------------------------------------------------------------------------
(* The WaitGroup and its waiters.                                          *)

LEMMA DoneKeeps ==
    ASSUME WInv, Done PROVE WInv'
<1> DEFINE busy == {t \in Slot : pc[t] # "free"}
<1>1. /\ UNCHANGED <<queueVars, pc, hand, att, owner, draining, closeVars,
                     stopped, expired, result, before, fateVars, crashed>>
      /\ finishing' = finishing - 1 /\ inflight' = inflight - 1
      /\ finishing > 0
  BY DEF Done, Alive
<1>2. /\ inflight = Cardinality(busy) + finishing
      /\ inflight \in Nat /\ finishing \in Nat
  BY DEF WInv, ActorOK, InflightMatches
<1>3. Cardinality(busy) \in Nat
  BY Kinds, FS_Subset, FS_CardinalityType
<1>4. busy' = busy
  BY <1>1
<1> HIDE DEF busy
<1>5. /\ inflight' \in Nat /\ finishing' \in Nat
      /\ inflight' = Cardinality(busy') + finishing'
  BY <1>1, <1>2, <1>3, <1>4
<1>6. InflightMatches'
  BY <1>5 DEF InflightMatches, busy
<1>7. ActorOK'
  BY <1>1, <1>5, <1>6 DEF WInv, ActorOK, PcOK, BatchesInUse
<1>8. CallOK'
  BY DEF WInv, CallOK, Done
<1>9. QueueOK' /\ CloseOK' /\ FateOK' /\ Conservation' /\ crashed' \in BOOLEAN
  BY <1>1, QueueFrame, CloseFrame, FateFrame, ConservationFrame
     DEF WInv, queueVars, fateVars
<1>10. QED
  BY <1>7, <1>8, <1>9 DEF WInv

LEMMA WaiterKeeps ==
    ASSUME WInv, NEW c \in Caller, WaiterStep(c) PROVE WInv'
<1>1. WaitUnchanged
  BY DEF WaiterStep, WaitBegins, WaitWakes
<1>2. /\ crashed' \in BOOLEAN
      /\ waiter' \in
            [Caller -> {"none", "spawned", "blocked", "woken", "done"}]
  <2>1. CASE WaitBegins(c)
    BY <2>1 DEF WInv, CallOK, WaitBegins, Alive
  <2>2. CASE WaitWakes(c)
    BY <2>2 DEF WInv, CallOK, WaitWakes
  <2>3. QED
    BY <2>1, <2>2 DEF WaiterStep
<1>3. CallOK'
  BY <1>1, <1>2 DEF WInv, CallOK, WaitUnchanged
<1>4. QueueOK' /\ ActorOK' /\ CloseOK' /\ FateOK' /\ Conservation'
  BY <1>1, QueueFrame, ActorFrame, CloseFrame, FateFrame, ConservationFrame
     DEF WInv, WaitUnchanged, queueVars, fateVars
<1>5. QED
  BY <1>2, <1>3, <1>4 DEF WInv

-----------------------------------------------------------------------------
(* Callers.                                                                *)

\* A caller moves between its points without a batch.
LEMMA CallMoves ==
    ASSUME WInv, CallUnchanged, NEW c \in Caller,
           NEW at \in CallPC \ {"backoff"}, hand[c] = {},
           pc' = [pc EXCEPT ![c] = at],
           CloseOK',
           result' \in [Caller -> {"none", "nil", "ctxErr"}],
           before' \in [Caller -> 0..MaxEvents]
    PROVE  WInv'
<1>1. c \in Worker /\ c # Loop
  BY Kinds
<1>2. ActorOK'
  BY <1>1, Move DEF WInv, CallUnchanged
<1>3. CallOK'
  BY DEF WInv, CallOK, CallUnchanged
<1>4. QueueOK' /\ FateOK' /\ Conservation' /\ crashed' \in BOOLEAN
  BY QueueFrame, FateFrame, ConservationFrame
     DEF WInv, CallUnchanged, Alive, queueVars, fateVars
<1>5. QED
  BY <1>2, <1>3, <1>4 DEF WInv

LEMMA NothingInHand ==
    ASSUME WInv, NEW c \in Caller,
           pc[c] \in {"idle", "once", "awaitStopped", "pop", "waiting"}
    PROVE  hand[c] = {}
  BY Kinds DEF WInv, ActorOK, BatchesInUse

LEMMA BeginKeeps ==
    ASSUME WInv, NEW c \in Caller,
           FlushBegins(c) \/ CloseBegins(c) \/ CloseWaits(c)
    PROVE  WInv'
<1>1. PICK at \in {"pop", "awaitStopped", "once"} : BeginCall(c, at)
  BY DEF FlushBegins, CloseBegins, CloseWaits
<1>2. at \in CallPC \ {"backoff"} /\ hand[c] = {}
  BY <1>1, NothingInHand DEF BeginCall, CallPC, DispatchPC
<1>3. CloseOK'
  <2>1. UNCHANGED <<draining, stopped, expired>>
    BY <1>1 DEF BeginCall, CallUnchanged
  <2>2. CASE UNCHANGED closeVars
    BY <2>1, <2>2, CloseFrame DEF WInv
  <2>3. CASE CloseBegins(c)
    BY <2>1, <2>3 DEF WInv, CloseOK, CloseBegins
  <2>4. QED
    BY <2>2, <2>3 DEF FlushBegins, CloseWaits
<1>4. /\ result' \in [Caller -> {"none", "nil", "ctxErr"}]
      /\ before' \in [Caller -> 0..MaxEvents]
  BY <1>1 DEF WInv, QueueOK, CallOK, BeginCall
<1>5. QED
  BY <1>1, <1>2, <1>3, <1>4, CallMoves DEF BeginCall

LEMMA CallerPopsEmptyKeeps ==
    ASSUME WInv, NEW c \in Caller, CallerPopsEmpty(c) PROVE WInv'
<1>1. hand[c] = {} /\ "waiting" \in CallPC
  BY NothingInHand DEF CallerPopsEmpty, CallPC
<1>2. ActorOK'
  BY <1>1, Kinds, Move DEF WInv, CallerPopsEmpty
<1>3. CallOK'
  BY DEF WInv, CallOK, CallerPopsEmpty
<1>4. QueueOK' /\ CloseOK' /\ FateOK' /\ Conservation' /\ crashed' \in BOOLEAN
  BY QueueFrame, CloseFrame, FateFrame, ConservationFrame
     DEF WInv, CallerPopsEmpty, Alive, queueVars, fateVars
<1>5. QED
  BY <1>2, <1>3, <1>4 DEF WInv

LEMMA CloseMovesKeep ==
    ASSUME WInv, NEW c \in Caller,
           CloseAgain(c) \/ CloseSeesStopped(c) \/ CloseGivesUpOnLoop(c)
             \/ WaitReturns(c) \/ WaitGivesUp(c)
    PROVE  WInv'
<1>1. /\ CallUnchanged /\ UNCHANGED before
      /\ pc[c] \in {"once", "awaitStopped", "waiting"}
  BY DEF CloseAgain, CloseSeesStopped, CloseGivesUpOnLoop, WaitReturns,
         WaitGivesUp, EndCall
<1>2. PICK at \in {"returned", "pop"} : pc' = [pc EXCEPT ![c] = at]
  BY DEF CloseAgain, CloseSeesStopped, CloseGivesUpOnLoop, WaitReturns,
         WaitGivesUp, EndCall
<1>3. at \in CallPC \ {"backoff"} /\ hand[c] = {}
  BY <1>1, NothingInHand DEF CallPC, DispatchPC
<1>4. result' \in [Caller -> {"none", "nil", "ctxErr"}]
  BY DEF WInv, CallOK, CloseAgain, CloseSeesStopped, CloseGivesUpOnLoop,
         WaitReturns, WaitGivesUp, EndCall
<1>5. CloseOK'
  <2>1. UNCHANGED <<draining, stopped>>
    BY <1>1 DEF CallUnchanged
  <2>2. CASE UNCHANGED <<closeVars, expired>>
    BY <2>1, <2>2, CloseFrame DEF WInv
  <2>3. ASSUME NEW r, EndCall(c, r) PROVE CloseOK'
    <3>1. closed' \in BOOLEAN /\ stop' \in BOOLEAN
          /\ closing' \in SUBSET Closer
      BY <2>3 DEF WInv, CloseOK, EndCall
    <3>2. expired' \in SUBSET Worker
      BY <2>3, Kinds DEF WInv, CloseOK, EndCall
    <3>3. QED
      BY <2>1, <3>1, <3>2 DEF WInv, CloseOK
  <2>4. QED
    BY <2>2, <2>3 DEF CloseAgain, CloseSeesStopped, CloseGivesUpOnLoop,
                      WaitReturns, WaitGivesUp
<1>6. before' \in [Caller -> 0..MaxEvents]
  BY <1>1 DEF WInv, CallOK
<1>7. QED
  BY <1>1, <1>2, <1>3, <1>4, <1>5, <1>6, CallMoves

LEMMA ExpireKeeps ==
    ASSUME WInv, NEW c \in Caller, Expire(c) PROVE WInv'
<1>1. CloseOK'
  BY Kinds DEF WInv, CloseOK, Expire, CallUnchanged, closeVars
<1>2. CallOK'
  BY DEF WInv, CallOK, Expire, CallUnchanged
<1>3. QueueOK' /\ ActorOK' /\ FateOK' /\ Conservation' /\ crashed' \in BOOLEAN
  BY QueueFrame, ActorFrame, FateFrame, ConservationFrame
     DEF WInv, Expire, CallUnchanged, Alive, queueVars, fateVars
<1>4. QED
  BY <1>1, <1>2, <1>3 DEF WInv

-----------------------------------------------------------------------------
(* The invariant holds, and what follows from it.                          *)

LEMMA InitOK == Init => WInv
<1> SUFFICES ASSUME Init PROVE WInv
  OBVIOUS
<1>1. PcOK
  BY Kinds DEF Init, PcOK, LoopPC, CallPC, SlotPC
<1>2. \A p \in Actor : hand[p] = {}
  BY DEF Init
<1>3. {s \in Slot : pc[s] # "free"} = {}
  BY Kinds DEF Init
<1>4. BatchesInUse /\ InflightMatches
  <2>1. \A p \in Actor : pc[p] # "backoff"
    BY DEF Init
  <2>2. inflight = 0 /\ finishing = 0
    BY DEF Init
  <2>3. QED
    BY <1>2, <1>3, <2>1, <2>2, FS_EmptySet DEF BatchesInUse, InflightMatches
<1>5. ActorOK
  BY <1>1, <1>4, Kinds DEF Init, ActorOK
<1>6. QueueOK
  <2>1. captured = 0 /\ notifying = 0 /\ ring = <<>> /\ Len(ring) = 0
    BY DEF Init
  <2>2. trigger \in BOOLEAN
    BY Zenon DEF Init
  <2>3. QED
    BY <2>1, <2>2, Kinds DEF QueueOK, NewestBuffered
<1>7. CloseOK /\ CallOK
  <2>1. /\ draining \in BOOLEAN /\ stop \in BOOLEAN
        /\ stopped \in BOOLEAN /\ closed \in BOOLEAN
    BY Zenon DEF Init
  <2>2. closing = {} /\ expired = {}
    BY DEF Init
  <2>3. CallOK
    <3>1. /\ waiter = [c \in Caller |-> "none"]
          /\ result = [c \in Caller |-> "none"]
          /\ before = [c \in Caller |-> 0]
      BY DEF Init
    <3>2. QED
      BY <3>1, Kinds DEF CallOK
  <2>4. QED
    BY <2>1, <2>2, <2>3 DEF CloseOK
<1>8. FateOK
  BY DEF Init, FateOK
<1>9. Conservation
  <2>1. Held = {}
    BY <1>2 DEF Held
  <2>2. 1..(captured - Len(ring)) = {} /\ Resolved = {}
    BY DEF Init, Resolved
  <2>3. QED
    BY <2>1, <2>2, <1>2 DEF Conservation, Init
<1>10. QED
  BY <1>5, <1>6, <1>7, <1>8, <1>9 DEF Init, WInv

LEMMA StepOK == WInv /\ [Next]_vars => WInv'
<1> SUFFICES ASSUME WInv, [Next]_vars PROVE WInv'
  OBVIOUS
<1>1. CASE Capture \/ NotifyIfFull
  BY <1>1, CaptureKeeps, NotifyKeeps
<1>2. ASSUME NEW p \in Worker, PopBatch(p) \/ Dispatch(p) PROVE WInv'
  BY <1>2, PopBatchKeeps, DispatchSyncKeeps, DispatchAsyncKeeps DEF Dispatch
<1>3. CASE LoopStep
  BY <1>2, <1>3, Kinds, LoopKeeps, DeliverKeeps DEF LoopStep
<1>4. CASE \E s \in Slot : Deliver(s)
  BY <1>4, Kinds, DeliverKeeps
<1>5. CASE Done
  BY <1>5, DoneKeeps
<1>6. ASSUME NEW c \in Caller, CallStep(c) PROVE WInv'
  BY <1>2, <1>6, Kinds, CallerPopsEmptyKeeps, DeliverKeeps, CloseMovesKeep
     DEF CallStep
<1>7. ASSUME NEW c \in Caller,
             \/ FlushBegins(c) \/ CloseBegins(c) \/ CloseWaits(c)
             \/ WaiterStep(c) \/ Expire(c)
      PROVE  WInv'
  BY <1>7, BeginKeeps, WaiterKeeps, ExpireKeeps
<1>8. CASE UNCHANGED vars
  BY <1>8, QueueFrame, ActorFrame, CloseFrame, CallFrame, FateFrame,
     ConservationFrame DEF WInv, vars, queueVars, fateVars
<1>9. QED
  BY <1>1, <1>3, <1>4, <1>5, <1>6, <1>7, <1>8 DEF Next, Step, Rest

LEMMA WInvHolds == Spec => []WInv
  BY InitOK, StepOK, PTL DEF Spec

\* Types, the counter of the WaitGroup and the attempts of every sender
\* included: no sender ever goes beyond MaxRetries retries.
THEOREM TypeCorrect == Spec => []TypeOK
  BY WInvHolds, WInvType, PTL

\* No event is lost, dispatched twice or counted under two outcomes, whatever
\* the callers, the loop and the senders do at the same time, and however
\* their contexts expire.
THEOREM ConservationHolds == Spec => []Conservation
<1>1. WInv => Conservation
  BY DEF WInv
<1>2. QED
  BY <1>1, WInvHolds, PTL

\* Events leave the buffer oldest first, into batches and as overflow drops.
THEOREM NewestBufferedHolds == Spec => []NewestBuffered
<1>1. WInv => NewestBuffered
  BY DEF WInv, QueueOK
<1>2. QED
  BY <1>1, WInvHolds, PTL

\* inflight.Add and inflight.Done are balanced over every path of dispatch.
THEOREM InflightMatchesHolds == Spec => []InflightMatches
<1>1. WInv => InflightMatches
  BY DEF WInv, ActorOK
<1>2. QED
  BY <1>1, WInvHolds, PTL

-----------------------------------------------------------------------------
(* What Flush and Close wait for, and what wakes the loop.                 *)

\* An idle loop with a full batch has its token or gets a look at the length.
WakeOK ==
    pc[Loop] \in {"select", "report"} /\ Len(ring) >= BatchSize =>
        trigger \/ notifying > 0

\* What a caller has seen at each point of its call.  It asks for waitInflight
\* only when everything from before its call has left the buffer, and a first
\* Close without an error has seen the loop exit before that.
CallerOK(c) ==
    /\ before[c] <= captured
    /\ waiter[c] # "none" => /\ pc[c] \in {"waiting", "returned"}
                             /\ before[c] <= captured - Len(ring)
    /\ result[c] = "nil" => pc[c] = "returned" /\ waiter[c] \in {"none", "done"}
    /\ /\ c \in Closer /\ result[c] # "ctxErr"
       /\ pc[c] \in DispatchPC \/ waiter[c] # "none"
       => stopped

\* The counter was zero when this caller's waitInflight ended.
Waited(c) == waiter[c] = "done" /\ (~crashed \/ result[c] = "nil")

\* The actors whose senders that counter included for good: the caller, which
\* does not dispatch any more, and the loop once Close has seen it exit.
Covered(c) == {c} \cup (IF c \in Closer /\ result[c] # "ctxErr"
                        THEN {Loop} ELSE {})

SendersOK(c) ==
    Waited(c) => \A s \in Slot : pc[s] # "free" => owner[s] \notin Covered(c)

PInv == /\ WakeOK
        /\ stopped => pc[Loop] = "exit"
        /\ \A c \in Caller : CallerOK(c) /\ SendersOK(c)

LEMMA WakeFrame ==
    ASSUME WakeOK, UNCHANGED <<ring, trigger, notifying>>,
           pc'[Loop] \in {"select", "report"} =>
             pc[Loop] \in {"select", "report"}
    PROVE  WakeOK'
  BY DEF WakeOK

\* A step of the producers, the loop, a dispatcher or a sender: callers stay
\* where they are or go on dispatching, and events only leave the buffer.
LEMMA Quiet ==
    ASSUME WInv, PInv, WakeOK', UNCHANGED <<waiter, result, before, crashed>>,
           stopped => stopped', stopped' => pc'[Loop] = "exit",
           captured <= captured',
           captured - Len(ring) <= captured' - Len(ring'),
           captured' \in Nat, Len(ring') \in Nat, Len(ring) \in Nat,
           \A c \in Caller : \/ pc'[c] = pc[c]
                             \/ {pc[c], pc'[c]} \subseteq DispatchPC,
           \A s \in Slot : pc'[s] # "free" =>
               \/ pc[s] # "free" /\ owner'[s] = owner[s]
               \/ owner'[s] \in Worker /\ pc[owner'[s]] = "dispatch"
    PROVE  PInv'
<1>1. ASSUME NEW c \in Caller PROVE CallerOK(c)'
  <2>1. CallerOK(c) /\ before[c] \in Nat /\ captured \in Nat
    BY DEF PInv, WInv, CallOK, QueueOK
  <2>2. /\ before'[c] <= captured'
        /\ before[c] <= captured - Len(ring) =>
             before'[c] <= captured' - Len(ring')
    BY <2>1 DEF CallerOK
  <2>3. pc[c] \in {"waiting", "returned"} => pc'[c] = pc[c]
    BY DEF DispatchPC
  <2>4. pc'[c] \in DispatchPC => pc[c] \in DispatchPC
    OBVIOUS
  <2>5. /\ waiter'[c] = waiter[c] /\ result'[c] = result[c]
        /\ waiter[c] # "none" => pc[c] \in {"waiting", "returned"}
                                 /\ before[c] <= captured - Len(ring)
        /\ result[c] = "nil" => pc[c] = "returned"
                                /\ waiter[c] \in {"none", "done"}
        /\ (/\ c \in Closer /\ result[c] # "ctxErr"
            /\ pc[c] \in DispatchPC \/ waiter[c] # "none") => stopped
    BY <2>1 DEF CallerOK
  <2>6. QED
    BY <2>2, <2>3, <2>4, <2>5 DEF CallerOK
<1>2. ASSUME NEW c \in Caller PROVE SendersOK(c)'
  <2>1. ASSUME Waited(c)', NEW s \in Slot, pc'[s] # "free",
               owner'[s] \in Covered(c)
        PROVE  FALSE
    <3>1. Waited(c) /\ Covered(c)' = Covered(c)
      BY <2>1 DEF Waited, Covered
    <3>2. CASE pc[s] # "free" /\ owner'[s] = owner[s]
      BY <2>1, <3>1, <3>2 DEF PInv, SendersOK
    <3>3. CASE owner'[s] \in Worker /\ pc[owner'[s]] = "dispatch"
      <4>1. waiter[c] = "done" /\ CallerOK(c) /\ (stopped => pc[Loop] = "exit")
        BY <3>1 DEF Waited, PInv
      <4>2. owner'[s] # c
        BY <3>3, <4>1 DEF CallerOK
      <4>3. c \in Closer /\ result[c] # "ctxErr" /\ owner'[s] = Loop
        BY <2>1, <4>2 DEF Covered
      <4>4. QED
        BY <3>3, <4>1, <4>3 DEF CallerOK
    <3>4. QED
      BY <2>1, <3>2, <3>3
  <2>2. Covered(c)' = Covered(c)
    BY DEF Covered
  <2>3. QED
    BY <2>1, <2>2 DEF SendersOK
<1>3. QED
  BY <1>1, <1>2 DEF PInv

LEMMA RingLength == ASSUME WInv PROVE captured \in Nat /\ Len(ring) \in Nat
  BY BufferNewest DEF WInv

LEMMA CaptureP == ASSUME WInv, PInv, Capture PROVE PInv'
<1>1. /\ captured \in Nat /\ ring \in Seq(Event)
      /\ Newest(ring, captured) /\ Len(ring) \in 0..captured
  BY BufferNewest DEF WInv
<1>2. captured' = captured + 1 /\ captured + 1 \in Event
  BY <1>1, Kinds DEF Capture, Event
<1>3. Len(Append(ring, captured + 1)) = Len(ring) + 1
  BY <1>1, <1>2, AppendNewest
<1>4. PICK k \in 0..(Len(ring) + 1) :
         ring' = Without(Append(ring, captured + 1), k)
  BY <1>3 DEF Capture
<1>5. Len(ring') = Len(ring) + 1 - k
  BY <1>1, <1>2, <1>4, AppendNewest
<1>6. WakeOK'
  BY DEF Capture, WakeOK, WInv, QueueOK
<1>7. UNCHANGED <<waiter, result, before, crashed, stopped, pc, owner>>
  BY DEF Capture, Alive, callVars, slotVars
<1>8. QED
  BY <1>1, <1>2, <1>5, <1>6, <1>7, Quiet DEF PInv

LEMMA NotifyP == ASSUME WInv, PInv, NotifyIfFull PROVE PInv'
<1>1. WakeOK'
  BY DEF NotifyIfFull, Notify, WakeOK, PInv
<1>2. UNCHANGED <<waiter, result, before, crashed, stopped, pc, owner,
                  captured, ring>>
  BY DEF NotifyIfFull, Alive, callVars, slotVars
<1>3. QED
  BY <1>1, <1>2, RingLength, Quiet DEF PInv

LEMMA LoopP ==
    ASSUME WInv, PInv,
           LoopStop \/ LoopTick \/ LoopTrigger \/ LoopReport \/ LoopDisabled
             \/ LoopPopsEmpty
    PROVE  PInv'
<1>1. /\ UNCHANGED <<waiter, result, before, crashed, owner, captured, ring,
                     notifying>>
      /\ pc[Loop] # "exit"
  BY DEF LoopStop, LoopTick, LoopTrigger, LoopReport, LoopDisabled,
         LoopPopsEmpty, LoopUnchanged, Alive, callVars, slotVars
<1>2. PICK at : pc' = [pc EXCEPT ![Loop] = at]
  BY DEF LoopStop, LoopTick, LoopTrigger, LoopReport, LoopDisabled,
         LoopPopsEmpty
<1>3. pc'[Loop] = at /\ \A p \in Actor \ {Loop} : pc'[p] = pc[p]
  BY <1>2, Kinds DEF WInv, ActorOK, PcOK
<1>4. ~stopped
  BY <1>1 DEF PInv
<1>5. stopped' => pc'[Loop] = "exit"
  <2>1. CASE LoopPopsEmpty
    <3>1. pc'[Loop] = IF draining THEN "exit" ELSE "report"
      BY <2>1, Kinds DEF LoopPopsEmpty, WInv, ActorOK, PcOK
    <3>2. stopped' = (stopped \/ draining)
      BY <2>1, Zenon DEF LoopPopsEmpty
    <3>3. stopped' <=> draining
      BY <1>4, <3>2, Zenon
    <3>4. QED
      BY <3>1, <3>3
  <2>2. CASE LoopStop \/ LoopTick \/ LoopTrigger \/ LoopReport
    <3>1. stopped' = stopped
      BY <2>2 DEF LoopStop, LoopTick, LoopTrigger, LoopReport
    <3>2. QED
      BY <1>4, <3>1
  <2>3. CASE LoopDisabled
    BY <2>3, Kinds DEF LoopDisabled, WInv, ActorOK, PcOK
  <2>4. QED
    BY <2>1, <2>2, <2>3
<1>6. WakeOK'
  <2>1. CASE LoopPopsEmpty
    <3>1. Len(ring') = 0 /\ BatchSize \in Nat \ {0}
      BY <1>1, <2>1, WorkerAssumption DEF LoopPopsEmpty
    <3>2. QED
      BY <3>1 DEF WakeOK
  <2>2. CASE LoopStop \/ LoopTick \/ LoopTrigger \/ LoopDisabled
    <3>1. pc'[Loop] \in {"pop", "exit"}
      BY <1>3, <2>2, Kinds DEF WInv, ActorOK, PcOK, LoopStop, LoopTick, LoopTrigger, LoopDisabled
    <3>2. QED
      BY <3>1 DEF WakeOK
  <2>3. CASE LoopReport
    BY <1>1, <2>3 DEF PInv, WakeOK, LoopReport
  <2>4. QED
    BY <2>1, <2>2, <2>3
<1>7. \A c \in Caller : pc'[c] = pc[c]
  BY <1>3, Kinds
<1>8. \A s \in Slot : pc'[s] = pc[s]
  BY <1>3, Kinds
<1>9. QED
  BY <1>1, <1>4, <1>5, <1>6, <1>7, <1>8, RingLength, Quiet

LEMMA PopBatchP ==
    ASSUME WInv, PInv, NEW p \in Worker, PopBatch(p) PROVE PInv'
<1>1. /\ captured \in Nat /\ ring \in Seq(Event)
      /\ Newest(ring, captured) /\ Len(ring) \in 0..captured
  BY BufferNewest DEF WInv
<1>2. PICK k \in 0..Len(ring) : ring' = Without(ring, k)
  BY DEF PopBatch
<1>3. Len(ring') = Len(ring) - k
  BY <1>1, <1>2, TakeOldest
<1>4. /\ UNCHANGED <<waiter, result, before, crashed, owner, captured,
                     trigger, notifying, stopped>>
      /\ pc' = [pc EXCEPT ![p] = "dispatch"] /\ pc[p] = "pop"
  BY DEF PopBatch, Alive, callVars, slotVars
<1>5. \A q \in Actor : pc'[q] = IF q = p THEN "dispatch" ELSE pc[q]
  BY <1>4, Kinds DEF WInv, ActorOK, PcOK
<1>6. WakeOK'
  <2>1. BatchSize \in Nat
    BY WorkerAssumption
  <2>2. QED
    BY <1>1, <1>3, <1>4, <1>5, <2>1, Kinds DEF PInv, WakeOK
<1>7. stopped' => pc'[Loop] = "exit"
  BY <1>4, <1>5, Kinds DEF PInv
<1>8. /\ \A c \in Caller : pc'[c] = pc[c] \/ {pc[c], pc'[c]} \subseteq DispatchPC
      /\ \A s \in Slot : pc'[s] = pc[s]
  BY <1>4, <1>5, Kinds DEF DispatchPC
<1>9. captured - Len(ring) <= captured' - Len(ring') /\ Len(ring') \in Nat
  BY <1>1, <1>3, <1>4
<1>10. QED
  BY <1>1, <1>4, <1>6, <1>7, <1>8, <1>9, Quiet

LEMMA DispatchP ==
    ASSUME WInv, PInv, NEW p \in Worker, Dispatch(p) PROVE PInv'
<1>1. /\ UNCHANGED <<waiter, result, before, crashed, captured, ring,
                     trigger, notifying, stopped>>
      /\ pc[p] = "dispatch"
  BY DEF Dispatch, DispatchSync, DispatchAsync, Alive, callVars, queueVars
<1>2. /\ \A q \in Worker \ {p} : pc'[q] = pc[q]
      /\ pc'[p] \in {"pop", "send"}
      /\ \A s \in Slot : \/ pc'[s] = pc[s] /\ owner'[s] = owner[s]
                         \/ owner'[s] = p
  <2>1. CASE DispatchSync(p)
    BY <2>1, Kinds DEF WInv, ActorOK, PcOK, DispatchSync, slotVars
  <2>2. CASE \E s \in Slot : DispatchAsync(p, s)
    <3>1. PICK s \in Slot : DispatchAsync(p, s)
      BY <2>2
    <3>2. /\ pc' = [pc EXCEPT ![p] = "pop", ![s] = "send"]
          /\ owner' = [owner EXCEPT ![s] = p]
      BY <3>1 DEF DispatchAsync
    <3>3. QED
      BY <3>2, Kinds DEF WInv, ActorOK, PcOK
  <2>3. QED
    BY <2>1, <2>2 DEF Dispatch
<1>3. WakeOK'
  BY <1>1, <1>2, Kinds, WakeFrame DEF PInv
<1>4. stopped' => pc'[Loop] = "exit"
  BY <1>1, <1>2, Kinds DEF PInv
<1>5. \A c \in Caller : pc'[c] = pc[c] \/ {pc[c], pc'[c]} \subseteq DispatchPC
  BY <1>1, <1>2, Kinds DEF DispatchPC
<1>6. \A s \in Slot : pc'[s] # "free" =>
               \/ pc[s] # "free" /\ owner'[s] = owner[s]
               \/ owner'[s] \in Worker /\ pc[owner'[s]] = "dispatch"
  BY <1>1, <1>2
<1>7. QED
  BY <1>1, <1>3, <1>4, <1>5, <1>6, RingLength, Quiet DEF PInv

\* Where a step of deliverBatch leaves its actor.
LEMMA DeliverMoves ==
    ASSUME NEW p \in Actor, Deliver(p), PcOK, owner \in [Slot -> Worker]
    PROVE  /\ pc[p] \in {"send", "backoff"}
           /\ pc'[p] \in {"free", "pop", "send", "backoff"}
           /\ p \in Worker => pc'[p] \in DispatchPC
           /\ \A q \in Actor \ {p} : pc'[q] = pc[q]
           /\ \A s \in Slot : pc'[s] # "free" => owner'[s] = owner[s]
<1> DEFINE Goal ==
           /\ pc'[p] \in {"free", "pop", "send", "backoff"}
           /\ p \in Worker => pc'[p] \in DispatchPC
           /\ \A q \in Actor \ {p} : pc'[q] = pc[q]
           /\ \A s \in Slot : pc'[s] # "free" => owner'[s] = owner[s]
<1>1. pc[p] \in {"send", "backoff"}
  BY DEF Deliver, SendOK, SendPermanent, SendUnreached, SendLost, BackoffEnds
<1>2. ASSUME Release(p) PROVE Goal
  BY <1>2, Kinds DEF Release, PcOK, DispatchPC
<1>3. ASSUME NEW at \in {"send", "backoff"}, pc' = [pc EXCEPT ![p] = at],
             UNCHANGED owner
      PROVE  Goal
  BY <1>3, Kinds DEF PcOK, DispatchPC
<1>4. ASSUME RetryOrExhaust(p) PROVE Goal
  BY <1>2, <1>3, <1>4 DEF RetryOrExhaust, Exhaust
<1>5. Goal
  BY <1>2, <1>3, <1>4 DEF Deliver, SendOK, SendPermanent, SendUnreached, SendLost, BackoffEnds,
     Exhaust
<1>6. QED
  BY <1>1, <1>5

LEMMA DeliverP ==
    ASSUME WInv, PInv, NEW p \in Actor, Deliver(p) PROVE PInv'
<1>1. DeliverUnchanged
  BY DEF Deliver, SendOK, SendPermanent, SendUnreached, SendLost, BackoffEnds
<1>2. UNCHANGED <<waiter, result, before, crashed, captured, ring, trigger,
                  notifying, stopped>>
  BY <1>1 DEF DeliverUnchanged, Alive, callVars, queueVars
<1>3. /\ pc[p] \in {"send", "backoff"}
      /\ pc'[p] \in {"free", "pop", "send", "backoff"}
      /\ p \in Worker => pc'[p] \in DispatchPC
      /\ \A q \in Actor \ {p} : pc'[q] = pc[q]
      /\ \A s \in Slot : pc'[s] # "free" => owner'[s] = owner[s]
  BY DeliverMoves DEF WInv, ActorOK
<1>4. WakeOK'
  <2>1. pc'[Loop] \in {"select", "report"} =>
          pc[Loop] \in {"select", "report"}
    BY <1>3, Kinds
  <2>2. QED
    BY <1>2, <2>1, WakeFrame DEF PInv
<1>5. stopped' => pc'[Loop] = "exit"
  BY <1>2, <1>3, Kinds DEF PInv
<1>6. \A c \in Caller : pc'[c] = pc[c] \/ {pc[c], pc'[c]} \subseteq DispatchPC
  BY <1>3, Kinds DEF DispatchPC
<1>7. \A s \in Slot : pc'[s] # "free" => pc[s] # "free" /\ owner'[s] = owner[s]
  BY <1>3, Kinds
<1>8. QED
  BY <1>2, <1>4, <1>5, <1>6, <1>7, RingLength, Quiet DEF PInv

\* One caller moves; everyone else and the buffer stay.
LEMMA OneCaller ==
    ASSUME WInv, PInv, NEW c \in Caller,
           UNCHANGED <<ring, trigger, notifying, captured, stopped, owner>>,
           crashed => crashed',
           \A p \in Actor \ {c} : pc'[p] = pc[p],
           \A d \in Caller \ {c} : /\ waiter'[d] = waiter[d]
                                   /\ result'[d] = result[d]
                                   /\ before'[d] = before[d],
           CallerOK(c)', SendersOK(c)'
    PROVE  PInv'
<1>1. ASSUME NEW d \in Caller \ {c} PROVE CallerOK(d)'
  BY Kinds DEF PInv, CallerOK
<1>2. ASSUME NEW d \in Caller \ {c} PROVE SendersOK(d)'
  <2>1. SendersOK(d) /\ Covered(d)' = Covered(d) /\ (Waited(d)' => Waited(d))
    BY DEF PInv, Covered, Waited
  <2>2. \A s \in Slot : pc'[s] = pc[s]
    BY Kinds
  <2>3. QED
    BY <2>1, <2>2 DEF SendersOK
<1>3. pc'[Loop] = pc[Loop]
  BY Kinds
<1>4. WakeOK'
  BY <1>3, WakeFrame DEF PInv
<1>5. QED
  BY <1>1, <1>2, <1>3, <1>4 DEF PInv

LEMMA ExpireP == ASSUME WInv, PInv, NEW c \in Caller, Expire(c) PROVE PInv'
<1>1. UNCHANGED <<waiter, result, before, crashed, captured, ring, trigger,
                  notifying, stopped, pc, owner>>
  BY DEF Expire, CallUnchanged, Alive, queueVars, slotVars
<1>2. WakeOK'
  BY <1>1, WakeFrame DEF PInv
<1>3. QED
  BY <1>1, <1>2, RingLength, Quiet DEF PInv

LEMMA BeginP ==
    ASSUME WInv, PInv, NEW c \in Caller,
           FlushBegins(c) \/ CloseBegins(c) \/ CloseWaits(c)
    PROVE  PInv'
<1>1. PICK at \in {"pop", "awaitStopped", "once"} :
         BeginCall(c, at) /\ (at = "pop" => c \in Flusher)
  BY DEF FlushBegins, CloseBegins, CloseWaits
<1>2. /\ UNCHANGED <<waiter, result, crashed, captured, ring, trigger,
                     notifying, stopped, owner>>
      /\ pc[c] = "idle" /\ pc' = [pc EXCEPT ![c] = at]
      /\ before' = [before EXCEPT ![c] = captured]
  BY <1>1 DEF BeginCall, CallUnchanged, Alive, queueVars, slotVars
<1>3. /\ \A p \in Actor \ {c} : pc'[p] = pc[p]
      /\ pc'[c] = at /\ before'[c] = captured
      /\ \A d \in Caller \ {c} : before'[d] = before[d]
  BY <1>2, Kinds DEF WInv, ActorOK, PcOK, CallOK
<1>4. waiter[c] = "none" /\ result[c] # "nil"
  BY <1>2 DEF PInv, CallerOK
<1>5. CallerOK(c)'
  <2>1. c \in Closer => at \notin DispatchPC
    BY <1>1, WorkerAssumption DEF DispatchPC
  <2>2. QED
    BY <1>2, <1>3, <1>4, <2>1, RingLength DEF CallerOK
<1>6. SendersOK(c)'
  BY <1>2, <1>4 DEF SendersOK, Waited
<1>7. QED
  BY <1>2, <1>3, <1>5, <1>6, OneCaller

LEMMA CallerPopsEmptyP ==
    ASSUME WInv, PInv, NEW c \in Caller, CallerPopsEmpty(c) PROVE PInv'
<1>1. /\ UNCHANGED <<before, result, crashed, captured, ring, trigger,
                     notifying, stopped, owner>>
      /\ pc[c] = "pop" /\ pc' = [pc EXCEPT ![c] = "waiting"]
      /\ ring = <<>>
      /\ waiter' = [waiter EXCEPT ![c] = "spawned"]
  BY DEF CallerPopsEmpty, Alive, queueVars, slotVars
<1>2. /\ \A p \in Actor \ {c} : pc'[p] = pc[p]
      /\ pc'[c] = "waiting" /\ waiter'[c] = "spawned"
      /\ \A d \in Caller \ {c} : waiter'[d] = waiter[d]
  BY <1>1, Kinds DEF WInv, ActorOK, PcOK, CallOK
<1>3. /\ result[c] # "nil" /\ before[c] <= captured
      /\ c \in Closer /\ result[c] # "ctxErr" => stopped
  BY <1>1 DEF PInv, CallerOK, DispatchPC
<1>4. Len(ring) = 0 /\ captured \in Nat
  BY <1>1, RingLength
<1>5. before[c] <= captured - Len(ring)
  BY <1>3, <1>4
<1>6. CallerOK(c)'
  BY <1>1, <1>2, <1>3, <1>5 DEF CallerOK
<1>7. SendersOK(c)'
  BY <1>2 DEF SendersOK, Waited
<1>8. QED
  BY <1>1, <1>2, <1>6, <1>7, OneCaller

LEMMA CloseMovesP ==
    ASSUME WInv, PInv, NEW c \in Caller,
           CloseAgain(c) \/ CloseSeesStopped(c) \/ CloseGivesUpOnLoop(c)
             \/ WaitReturns(c) \/ WaitGivesUp(c)
    PROVE  PInv'
<1>1. /\ CallUnchanged /\ UNCHANGED before
      /\ pc[c] \in {"once", "awaitStopped", "waiting"}
  BY DEF CloseAgain, CloseSeesStopped, CloseGivesUpOnLoop, WaitReturns,
         WaitGivesUp, EndCall
<1>2. UNCHANGED <<before, waiter, crashed, captured, ring, trigger,
                  notifying, stopped, owner>>
  BY <1>1 DEF CallUnchanged, Alive, queueVars, slotVars
<1>3. PICK at, r : /\ pc' = [pc EXCEPT ![c] = at]
                   /\ result' = [result EXCEPT ![c] = r]
  <2>1. ASSUME UNCHANGED result PROVE result' = [result EXCEPT ![c] = result[c]]
    BY <2>1 DEF WInv, CallOK
  <2>2. QED
    BY <2>1 DEF CloseAgain, CloseSeesStopped, CloseGivesUpOnLoop,
                WaitReturns, WaitGivesUp, EndCall
<1>4. /\ \A p \in Actor \ {c} : pc'[p] = pc[p]
      /\ pc'[c] = at /\ result'[c] = r
      /\ \A d \in Caller \ {c} : result'[d] = result[d]
  BY <1>3, Kinds DEF WInv, ActorOK, PcOK, CallOK
<1>5. result[c] # "nil" /\ CallerOK(c) /\ SendersOK(c)
      /\ (pc[c] # "waiting" => waiter[c] = "none")
  BY <1>1 DEF PInv, CallerOK
<1>6. \/ CloseAgain(c) /\ pc[c] = "once" /\ at = "returned" /\ r = "nil"
      \/ pc[c] = "awaitStopped" /\ at = "pop"
         /\ (r = "ctxErr" \/ (r = result[c] /\ stopped))
      \/ pc[c] = "waiting" /\ at = "returned"
         /\ \/ r \in {"ctxErr", result[c]}
            \/ result[c] = "none" /\ r = "nil" /\ waiter[c] = "done"
  BY <1>3, <1>4, Kinds DEF CloseAgain, CloseSeesStopped, CloseGivesUpOnLoop,
     WaitReturns, WaitGivesUp, EndCall, WInv, ActorOK, PcOK, CallOK
<1>7. CallerOK(c)'
  BY <1>2, <1>4, <1>5, <1>6 DEF CallerOK, DispatchPC
<1>8. SendersOK(c)'
  <2>1. CASE pc[c] # "waiting"
    BY <1>2, <1>5, <2>1 DEF SendersOK, Waited
  <2>2. CASE pc[c] = "waiting"
    <3>1. ~crashed
      BY <1>1 DEF CallUnchanged, Alive
    <3>2. Waited(c)' => Waited(c)
      BY <1>2, <3>1 DEF Waited
    <3>3. Covered(c)' \subseteq Covered(c)
      BY <1>4, <1>5, <1>6, <2>2 DEF Covered
    <3>4. \A s \in Slot : pc'[s] = pc[s]
      BY <1>4, Kinds
    <3>5. QED
      BY <1>2, <1>5, <3>2, <3>3, <3>4 DEF SendersOK
  <2>3. QED
    BY <2>1, <2>2
<1>9. QED
  BY <1>2, <1>4, <1>7, <1>8, OneCaller

\* A counter at zero leaves no permit taken.
LEMMA NoneInFlight ==
    ASSUME WInv, inflight = 0 PROVE \A s \in Slot : pc[s] = "free"
<1> DEFINE busy == {t \in Slot : pc[t] # "free"}
<1>1. /\ inflight = Cardinality(busy) + finishing /\ finishing \in Nat
  BY DEF WInv, ActorOK, InflightMatches
<1>2. IsFiniteSet(busy)
  BY Kinds, FS_Subset
<1>3. Cardinality(busy) \in Nat
  BY <1>2, FS_CardinalityType
<1>4. Cardinality(busy) = 0
  <2> HIDE DEF busy
  <2> QED BY <1>1, <1>3
<1>5. busy = {}
  BY <1>2, <1>4, FS_EmptySet
<1>6. QED
  BY <1>5

LEMMA WaiterP ==
    ASSUME WInv, PInv, NEW c \in Caller, WaiterStep(c) PROVE PInv'
<1>1. UNCHANGED <<before, result, captured, ring, trigger, notifying,
                  stopped, owner, pc, inflight>>
  BY DEF WaiterStep, WaitBegins, WaitWakes, WaitUnchanged, queueVars, slotVars
<1>2. PICK w \in {"done", "blocked"} :
        /\ waiter' = [waiter EXCEPT ![c] = w]
        /\ waiter[c] \in {"spawned", "woken"}
        /\ ~crashed
        /\ w = "done" /\ ~crashed' => inflight = 0
  <2>1. CASE WaitBegins(c)
    BY <2>1 DEF WaitBegins, Alive
  <2>2. CASE WaitWakes(c)
    <3>1. crashed' = (inflight > 0) /\ inflight \in Nat
      BY <2>2 DEF WaitWakes, WInv, ActorOK
    <3>2. ASSUME ~crashed' PROVE inflight = 0
      <4>1. ~(inflight > 0)
        BY <3>1, <3>2, Zenon
      <4>2. QED
        BY <3>1, <4>1
    <3>3. QED
      BY <2>2, <3>2 DEF WaitWakes
  <2>3. QED
    BY <2>1, <2>2 DEF WaiterStep
<1>3. /\ waiter'[c] = w
      /\ \A d \in Caller \ {c} : waiter'[d] = waiter[d]
  BY <1>2 DEF WInv, CallOK
<1>4. CallerOK(c) /\ result[c] # "nil"
  BY <1>2 DEF PInv, CallerOK
<1>5. CallerOK(c)'
  BY <1>1, <1>2, <1>3, <1>4 DEF CallerOK
<1>6. SendersOK(c)'
  BY <1>1, <1>2, <1>3, <1>4, NoneInFlight DEF SendersOK, Waited
<1>7. QED
  BY <1>1, <1>2, <1>3, <1>5, <1>6, OneCaller

LEMMA DoneP == ASSUME WInv, PInv, Done PROVE PInv'
<1>1. UNCHANGED <<before, result, captured, ring, trigger, notifying,
                  stopped, owner, pc, crashed>>
  BY DEF Done, queueVars, Alive
<1>2. \A c \in Caller : \/ waiter'[c] = waiter[c]
                        \/ waiter[c] = "blocked" /\ waiter'[c] = "woken"
  BY DEF Done
<1>3. ASSUME NEW c \in Caller PROVE CallerOK(c)'
  BY <1>1, <1>2 DEF PInv, CallerOK
<1>4. ASSUME NEW c \in Caller PROVE SendersOK(c)'
  <2>1. Waited(c)' => Waited(c)
    BY <1>1, <1>2 DEF Waited
  <2>2. Covered(c)' = Covered(c)
    BY <1>1 DEF Covered
  <2>3. QED
    BY <1>1, <2>1, <2>2 DEF PInv, SendersOK
<1>5. WakeOK'
  BY <1>1, WakeFrame DEF PInv
<1>6. QED
  BY <1>1, <1>3, <1>4, <1>5 DEF PInv

LEMMA InitP == Init => PInv
<1> SUFFICES ASSUME Init PROVE PInv
  OBVIOUS
<1>1. WakeOK
  <2>1. Len(ring) = 0 /\ BatchSize \in Nat \ {0}
    BY WorkerAssumption DEF Init
  <2>2. QED
    BY <2>1 DEF WakeOK
<1>2. ASSUME NEW c \in Caller PROVE CallerOK(c) /\ SendersOK(c)
  <2>1. /\ before[c] = 0 /\ captured = 0 /\ waiter[c] = "none"
        /\ result[c] = "none" /\ pc[c] = "idle"
    BY Kinds DEF Init
  <2>2. QED
    BY <2>1 DEF CallerOK, SendersOK, Waited, DispatchPC
<1>3. stopped = FALSE
  BY DEF Init
<1>4. QED
  BY <1>1, <1>2, <1>3 DEF PInv

LEMMA StepP == WInv /\ PInv /\ [Next]_vars => PInv'
<1> SUFFICES ASSUME WInv, PInv, [Next]_vars PROVE PInv'
  OBVIOUS
<1>1. CASE Capture \/ NotifyIfFull
  BY <1>1, CaptureP, NotifyP
<1>2. ASSUME NEW p \in Worker, PopBatch(p) \/ Dispatch(p) PROVE PInv'
  BY <1>2, PopBatchP, DispatchP
<1>3. CASE LoopStep
  BY <1>2, <1>3, Kinds, LoopP, DeliverP DEF LoopStep
<1>4. CASE \E s \in Slot : Deliver(s)
  BY <1>4, Kinds, DeliverP
<1>5. CASE Done
  BY <1>5, DoneP
<1>6. ASSUME NEW c \in Caller, CallStep(c) PROVE PInv'
  BY <1>2, <1>6, Kinds, CallerPopsEmptyP, DeliverP, CloseMovesP DEF CallStep
<1>7. ASSUME NEW c \in Caller,
             \/ FlushBegins(c) \/ CloseBegins(c) \/ CloseWaits(c)
             \/ WaiterStep(c) \/ Expire(c)
      PROVE  PInv'
  BY <1>7, BeginP, WaiterP, ExpireP
<1>8. CASE UNCHANGED vars
  BY <1>8 DEF vars, queueVars, slotVars, callVars, PInv, WakeOK, CallerOK,
     SendersOK, Waited, Covered
<1>9. QED
  BY <1>1, <1>3, <1>4, <1>5, <1>6, <1>7, <1>8 DEF Next, Step, Rest

LEMMA PInvHolds == Spec => [](WInv /\ PInv)
  BY InitOK, StepOK, InitP, StepP, PTL DEF Spec

\* Notify's single token is enough: however the producers' looks at the
\* length, the loop's select and the callers' own dispatching interleave, an
\* idle loop with a full batch has a token or gets one from a producer.
THEOREM NoMissedWakeupHolds == Spec => []NoMissedWakeup
<1>1. PInv => NoMissedWakeup
  BY DEF PInv, WakeOK, NoMissedWakeup
<1>2. QED
  BY <1>1, PInvHolds, PTL

\* What a nil from Flush or Close means: nothing captured before the call is
\* in the buffer, with one of the call's own senders or, after Close, with
\* the loop or a sender of the loop.
THEOREM NilMeansDrainedHolds == Spec => []NilMeansDrained
<1>1. ASSUME WInv, PInv, NEW c \in Caller, result[c] = "nil",
             pc[c] = "returned", waiter[c] = "done",
             NEW e \in 1..before[c], e \notin Resolved
      PROVE  \E p \in Worker \ {c} :
                e \in HeldFor(p) /\ (c \in Closer => p # Loop)
  <2>1. /\ CallerOK(c) /\ SendersOK(c) /\ Waited(c)
        /\ stopped => pc[Loop] = "exit"
    BY <1>1 DEF PInv, Waited
  <2>2. e \in 1..(captured - Len(ring))
    <3>1. before[c] <= captured - Len(ring) /\ before[c] \in Nat
      BY <1>1, <2>1 DEF CallerOK, WInv, CallOK
    <3>2. QED
      BY <1>1, <3>1, RingLength
  <2>3. PICK q \in Actor : e \in hand[q]
    BY <1>1, <2>2 DEF WInv, Conservation, Held
  <2>4. pc[q] \in {"dispatch", "send", "backoff"}
    BY <1>1, <2>3 DEF WInv, ActorOK, BatchesInUse
  <2>5. c \in Closer => pc[Loop] = "exit" /\ Covered(c) = {c, Loop}
    BY <1>1, <2>1 DEF CallerOK, Covered
  <2>6. CASE q \in Worker
    <3>1. q # c /\ (c \in Closer => q # Loop)
      BY <1>1, <2>4, <2>5
    <3>2. QED
      BY <2>3, <2>6, <3>1 DEF HeldFor
  <2>7. CASE q \in Slot
    <3>1. owner[q] \in Worker /\ owner[q] \notin Covered(c)
      BY <1>1, <2>1, <2>4, <2>7 DEF SendersOK, WInv, ActorOK
    <3>2. owner[q] # c /\ (c \in Closer => owner[q] # Loop)
      BY <2>5, <3>1 DEF Covered
    <3>3. e \in HeldFor(owner[q])
      BY <2>3, <2>7 DEF HeldFor
    <3>4. QED
      BY <3>1, <3>2, <3>3
  <2>8. QED
    BY <2>6, <2>7, Kinds
<1>2. WInv /\ PInv => NilMeansDrained
  BY <1>1 DEF NilMeansDrained
<1>3. QED
  BY <1>2, PInvHolds, PTL

-----------------------------------------------------------------------------
(* The pipeline implements the ledger of DeliveryLedger.                   *)

\* The server accepted an event at most once per attempt at its batch, and
\* never before its first attempt.
AttemptsOK ==
    /\ \A e \in Event \ 1..(captured - Len(ring)) : accepted[e] = 0
    /\ \A p \in Actor :
         /\ pc[p] \notin {"send", "backoff"} => att[p] = 0
         /\ \A e \in hand[p] :
              accepted[e] <= IF pc[p] = "backoff" THEN att[p] + 1 ELSE att[p]

\* Where each event is, in the terms of the pipeline.
Buffered == (captured - Len(ring) + 1)..captured

FateTable ==
    \A e \in Event :
        /\ Fate(e) = "new" <=> e > captured
        /\ Fate(e) = "queued" <=> e \in Buffered
        /\ Fate(e) = "carried" <=> e \in Held
        /\ Fate(e) = "sent" <=> e \in sent
        /\ Fate(e) = "exhausted" <=> e \in exhausted
        /\ Fate(e) = "evicted" <=> e \in evicted
        /\ Fate(e) \in {"new", "queued", "carried", "sent", "exhausted", "evicted"}

LEMMA FateIs == WInv => FateTable
<1> SUFFICES ASSUME WInv PROVE FateTable
  OBVIOUS
<1>1. /\ captured \in Nat /\ ring \in Seq(Event)
      /\ Newest(ring, captured) /\ Len(ring) \in 0..captured
  BY BufferNewest DEF WInv
<1> DEFINE gone == 1..(captured - Len(ring))
<1>2. Elements(ring) = Buffered
  <2>1. /\ Elements(SubSeq(ring, 1, Len(ring)))
             = (captured - Len(ring) + 1)..(captured - Len(ring) + Len(ring))
    BY <1>1, TakeOldest
  <2>2. SubSeq(ring, 1, Len(ring)) = ring
    BY <1>1
  <2>3. captured - Len(ring) + Len(ring) = captured
    BY <1>1
  <2>4. QED
    BY <2>1, <2>2, <2>3 DEF Buffered
<1>3. /\ Held \cup sent \cup exhausted \cup evicted = gone
      /\ Held \cap (sent \cup exhausted \cup evicted) = {}
      /\ sent \cap exhausted = {}
      /\ evicted \cap (sent \cup exhausted) = {}
  BY DEF WInv, Conservation, Resolved
<1>4. ASSUME NEW e \in Event
      PROVE  /\ e > captured \/ e \in Buffered \/ e \in gone
             /\ e \in Buffered => ~(e > captured)
             /\ e \in gone => ~(e > captured) /\ e \notin Buffered
  BY <1>1 DEF Event, Buffered
<1>5. QED
  <2> HIDE DEF gone
  <2> QED BY <1>2, <1>3, <1>4 DEF FateTable, Fate

LEMMA PopBatchLedger ==
    ASSUME WInv, WInv', NEW p \in Worker, PopBatch(p)
    PROVE  [Ledger!Next]_Ledger!ledgerVars
<1>1. /\ captured \in Nat /\ ring \in Seq(Event)
      /\ Newest(ring, captured) /\ Len(ring) \in 0..captured
  BY BufferNewest DEF WInv
<1>2. PICK k \in 0..Len(ring) :
         /\ hand' = [hand EXCEPT ![p] = Elements(SubSeq(ring, 1, k))]
         /\ ring' = Without(ring, k)
         /\ IsBatch(ring, k, BatchSize, MaxBatchBytes)
  BY DEF PopBatch
<1> DEFINE batch == (captured - Len(ring) + 1)..(captured - Len(ring) + k)
<1>3. /\ Len(ring') = Len(ring) - k /\ captured' = captured
      /\ UNCHANGED <<sent, exhausted, evicted, accepted>>
      /\ ring # <<>>
  <2>1. Len(Without(ring, k)) = Len(ring) - k
    BY <1>1, TakeOldest
  <2>2. UNCHANGED <<sent, exhausted, evicted, accepted, captured>> /\ ring # <<>>
    BY DEF PopBatch, fateVars
  <2> QED
    BY <1>2, <2>1, <2>2
<1>4. k > 0
  <2>1. Len(ring) > 0 /\ BatchSize \in Nat \ {0}
    BY <1>1, <1>3, WorkerAssumption
  <2>2. WithinBatch(ring, 1, BatchSize, MaxBatchBytes)
    BY <2>1 DEF WithinBatch
  <2>3. CASE k = 0
    BY <1>2, <2>1, <2>2, <2>3 DEF IsBatch
  <2>4. QED
    BY <2>3
<1>5. FateTable /\ FateTable'
  BY FateIs, PTL
<1>6. batch \subseteq Buffered /\ batch # {} /\ Buffered \subseteq Event
      /\ Buffered' = Buffered \ batch
      /\ \A e \in batch, d \in Buffered \ batch : e < d
  <2>1. captured \in Nat /\ captured <= MaxEvents /\ MaxEvents \in Nat
    BY Kinds DEF WInv, QueueOK
  <2>2. captured - Len(ring) + 1 \in batch
    BY <1>1, <1>4
  <2>3. batch \subseteq Buffered /\ Buffered \subseteq Event
    BY <1>1, <2>1 DEF Buffered, Event
  <2>4. Buffered' = Buffered \ batch
    BY <1>1, <1>3 DEF Buffered
  <2>5. \A e \in batch, d \in Buffered \ batch : e < d
    BY <1>1 DEF Buffered
  <2>6. QED
    BY <2>2, <2>3, <2>4, <2>5
<1> HIDE DEF batch
<1>7. \A e \in Event : Fate(e)' = IF e \in batch THEN "carried" ELSE Fate(e)
  BY <1>3, <1>5, <1>6 DEF FateTable
<1>8. Batches' = Batches \cup {batch}
  <2>1. hand[p] = {} /\ p \in Actor
    BY Kinds DEF WInv, ActorOK, BatchesInUse, PopBatch
  <2>2. Elements(SubSeq(ring, 1, k)) = batch
    BY <1>1, TakeOldest DEF batch
  <2>3. \A q \in Actor : hand'[q] = IF q = p THEN batch ELSE hand[q]
    BY <1>2, <2>1, <2>2 DEF WInv, ActorOK
  <2>4. QED
    BY <1>6, <2>1, <2>3 DEF Batches
<1>9. Ledger!Take
  <2>1. batch \in (SUBSET Ledger!With("queued")) \ {{}}
    BY <1>5, <1>6 DEF Ledger!With, Ledger!Events, FateTable, Event
  <2>2. Ledger!Oldest(batch)
    BY <1>5, <1>6 DEF Ledger!Oldest, Ledger!With, Ledger!Events, FateTable, Event
  <2>3. [e \in Event |-> Fate(e)]' = Ledger!Become(batch, "carried")
    BY <1>7 DEF Ledger!Become, Ledger!Events, Event
  <2>4. QED
    BY <1>3, <1>8, <2>1, <2>2, <2>3 DEF Ledger!Take
<1>10. QED
  BY <1>9 DEF Ledger!Next

LEMMA CaptureLedger ==
    ASSUME WInv, WInv', Capture PROVE [Ledger!Next]_Ledger!ledgerVars
<1>1. /\ captured \in Nat /\ ring \in Seq(Event)
      /\ Newest(ring, captured) /\ Len(ring) \in 0..captured
  BY BufferNewest DEF WInv
<1>2. captured < MaxEvents /\ captured' = captured + 1
      /\ captured + 1 \in Event /\ MaxEvents \in Nat
  BY <1>1, Kinds DEF Capture, Event
<1> DEFINE all == Append(ring, captured + 1)
<1>3. Len(all) = Len(ring) + 1
  BY <1>1, <1>2, AppendNewest
<1>4. PICK k \in 0..(Len(ring) + 1) :
         /\ FewestDropped(all, k)
         /\ ring' = Without(all, k)
         /\ evicted' = evicted \cup Elements(SubSeq(all, 1, k))
  BY <1>3 DEF Capture
<1> DEFINE old == (captured - Len(ring) + 1)..(captured - Len(ring) + k)
<1>5. /\ Len(ring') = Len(ring) + 1 - k
      /\ evicted' = evicted \cup old
  BY <1>1, <1>2, <1>4, AppendNewest
<1>6. k <= Len(ring)
  <2>1. Len(Without(all, Len(ring))) = 1
    <3>1. Len(ring) \in 0..(Len(ring) + 1)
      BY <1>1
    <3>2. PICK n : n = Len(ring)
      OBVIOUS
    <3>3. Len(Without(all, n)) = Len(ring) + 1 - n
      BY <1>1, <1>2, <3>1, <3>2, AppendNewest
    <3>4. QED
      BY <1>1, <3>2, <3>3
  <2> HIDE DEF all
  <2>2. Fits(Without(all, Len(ring)))
    <3>1. MaxItems >= 1 /\ 1 <= 1
      BY RulesAssumption
    <3>2. 1 <= MaxItems
      BY <3>1, RulesAssumption
    <3>3. QED
      BY <2>1, <3>1, <3>2, Zenon DEF Fits
  <2>3. CASE k = Len(ring) + 1
    <3>1. Len(ring) \in 0..(k - 1)
      BY <1>1, <2>3
    <3>2. QED
      BY <1>4, <2>2, <3>1 DEF FewestDropped
  <2>4. QED
    BY <1>1, <2>3
<1> HIDE DEF all
<1>7. FateTable /\ FateTable'
  BY FateIs, PTL
<1>8. /\ old \subseteq Buffered /\ Buffered \subseteq Event
      /\ Buffered' = (Buffered \ old) \cup {captured + 1}
      /\ \A e \in old, d \in Buffered \ old : e < d
      /\ \A e \in Buffered : e <= captured
  <2>1. /\ old \subseteq Buffered /\ \A e \in Buffered : e <= captured
        /\ \A e \in old, d \in Buffered \ old : e < d
    BY <1>1, <1>6 DEF Buffered
  <2>2. Buffered \subseteq Event
    BY <1>1, <1>2 DEF Buffered, Event
  <2>3. Buffered' = (captured - Len(ring) + k + 1)..(captured + 1)
    BY <1>1, <1>2, <1>5 DEF Buffered
  <2>4. (captured - Len(ring) + k + 1)..(captured + 1) = (Buffered \ old) \cup {captured + 1}
    BY <1>1, <1>6 DEF Buffered
  <2> QED
    BY <2>1, <2>2, <2>3, <2>4, Zenon
<1> HIDE DEF old
<1>9. /\ Held' = Held /\ Batches' = Batches
      /\ UNCHANGED <<sent, exhausted, accepted>>
  BY DEF Capture, Held, Batches
<1>10. \A e \in Event : Fate(e)' = IF e = captured + 1 THEN "queued"
                                  ELSE IF e \in old THEN "evicted" ELSE Fate(e)
  <2>1. \A e \in Event : e > captured' <=> e > captured /\ e # captured + 1
    BY <1>1, <1>2 DEF Event
  <2>2. ~(captured + 1 <= captured)
    BY <1>1
  <2>3. QED
    BY <1>2, <1>5, <1>7, <1>8, <1>9, <2>1, <2>2 DEF FateTable
<1>11. Ledger!Enqueue(captured + 1)
  <2>1. /\ Fate(captured + 1) = "new"
        /\ \A d \in Event : d < captured + 1 => Fate(d) # "new"
    BY <1>1, <1>2, <1>7 DEF FateTable, Event
  <2>2. old \in SUBSET Ledger!With("queued")
    BY <1>7, <1>8 DEF Ledger!With, Ledger!Events, FateTable, Event
  <2>3. Ledger!Oldest(old)
    BY <1>7, <1>8 DEF Ledger!Oldest, Ledger!With, Ledger!Events, FateTable, Event
  <2>4. [e \in Event |-> Fate(e)]'
          = [Ledger!Become(old, "evicted") EXCEPT ![captured + 1] = "queued"]
    BY <1>2, <1>10 DEF Ledger!Become, Ledger!Events, Event
  <2>5. QED
    BY <1>2, <1>9, <2>1, <2>2, <2>3, <2>4 DEF Ledger!Enqueue, Ledger!Events, Event
<1>12. captured + 1 \in Ledger!Events
  BY <1>2 DEF Ledger!Events, Event
<1>13. QED
  BY <1>11, <1>12 DEF Ledger!Next

LEMMA Stutter ==
    ASSUME UNCHANGED <<captured, ring, sent, exhausted, evicted, accepted>>,
           UNCHANGED Batches
    PROVE  UNCHANGED Ledger!ledgerVars
  BY DEF Ledger!ledgerVars, Fate, Elements

\* What one step of deliverBatch does to the batch in its actor's hands: the
\* server accepts it or not, and its fate is f.
OneAttempt(p, reached, f) ==
    /\ pc[p] \in {"send", "backoff"}
    /\ f = "sent" => reached
    /\ reached => pc[p] = "send"
    /\ accepted' = [e \in Event |-> IF reached /\ e \in hand[p]
                                    THEN accepted[e] + 1 ELSE accepted[e]]
    /\ sent' = IF f = "sent" THEN sent \cup hand[p] ELSE sent
    /\ exhausted' = IF f = "exhausted" THEN exhausted \cup hand[p] ELSE exhausted
    /\ \A q \in Actor \ {p} : /\ pc'[q] = pc[q] /\ att'[q] = att[q]
                              /\ hand'[q] = hand[q]
    /\ IF f = "carried"
       THEN /\ hand'[p] = hand[p]
            /\ \/ pc[p] = "send" /\ pc'[p] = "backoff" /\ att'[p] = att[p]
               \/ /\ pc[p] = "backoff" /\ pc'[p] = "send"
                  /\ att'[p] = att[p] + 1 /\ ~reached
       ELSE /\ hand'[p] = {} /\ att'[p] = 0 /\ pc'[p] \in {"free", "pop"}

LEMMA DeliverAttempts ==
    ASSUME WInv, NEW p \in Actor, Deliver(p)
    PROVE  \E reached \in BOOLEAN, f \in {"carried", "sent", "exhausted"} :
             OneAttempt(p, reached, f)
<1>1. /\ pc \in [Actor -> LoopPC \cup CallPC \cup SlotPC]
      /\ hand \in [Actor -> SUBSET Event] /\ att \in [Actor -> 0..MaxRetries]
      /\ accepted \in [Event -> Nat]
  BY DEF WInv, ActorOK, PcOK, FateOK
<1> DEFINE Moved(at, n, h) ==
      /\ pc'[p] = at /\ att'[p] = n /\ hand'[p] = h
      /\ \A q \in Actor \ {p} : /\ pc'[q] = pc[q] /\ att'[q] = att[q]
                                /\ hand'[q] = hand[q]
<1>2. ASSUME Release(p) PROVE \E at \in {"free", "pop"} : Moved(at, 0, {})
  BY <1>1, <1>2 DEF Release
<1>3. ASSUME pc[p] = "send", RetryOrExhaust(p)
      PROVE  \/ Moved("backoff", att[p], hand[p]) /\ UNCHANGED <<sent, exhausted>>
             \/ Release(p) /\ exhausted' = exhausted \cup hand[p] /\ UNCHANGED sent
  BY <1>1, <1>3 DEF RetryOrExhaust, Exhaust
<1>4. ASSUME UNCHANGED accepted
      PROVE  accepted' = [e \in Event |-> IF FALSE /\ e \in hand[p]
                                    THEN accepted[e] + 1 ELSE accepted[e]]
  BY <1>1, <1>4
<1>5. ASSUME Reach(p)
      PROVE  accepted' = [e \in Event |-> IF TRUE /\ e \in hand[p]
                                    THEN accepted[e] + 1 ELSE accepted[e]]
  BY <1>5 DEF Reach
<1>6. CASE SendOK(p)
  <2>1. OneAttempt(p, TRUE, "sent")
    BY <1>2, <1>5, <1>6 DEF SendOK, OneAttempt
  <2>2. QED
    BY <2>1
<1>7. CASE SendPermanent(p)
  <2>1. OneAttempt(p, FALSE, "exhausted")
    BY <1>2, <1>4, <1>7 DEF SendPermanent, Exhaust, OneAttempt
  <2>2. QED
    BY <2>1
<1>8. CASE SendUnreached(p)
  <2>1. OneAttempt(p, FALSE, "carried") \/ OneAttempt(p, FALSE, "exhausted")
    BY <1>2, <1>3, <1>4, <1>8 DEF SendUnreached, OneAttempt
  <2>2. QED
    BY <2>1
<1>9. CASE SendLost(p)
  <2>1. OneAttempt(p, TRUE, "carried") \/ OneAttempt(p, TRUE, "exhausted")
    BY <1>2, <1>3, <1>5, <1>9 DEF SendLost, OneAttempt
  <2>2. QED
    BY <2>1
<1>10. CASE BackoffEnds(p)
  <2>1. CASE CtxDone(p)
    <3>1. OneAttempt(p, FALSE, "exhausted")
      BY <1>2, <1>4, <1>10, <2>1 DEF BackoffEnds, Exhaust, OneAttempt
    <3>2. QED
      BY <3>1
  <2>2. CASE ~CtxDone(p)
    <3>1. Moved("send", att[p] + 1, hand[p]) /\ UNCHANGED <<sent, exhausted>>
          /\ UNCHANGED accepted /\ pc[p] = "backoff"
      BY <1>1, <1>10, <2>2 DEF BackoffEnds
    <3>2. OneAttempt(p, FALSE, "carried")
      BY <1>4, <3>1 DEF OneAttempt
    <3>3. QED
      BY <3>2
  <2>3. QED
    BY <2>1, <2>2
<1>11. QED
  BY <1>6, <1>7, <1>8, <1>9, <1>10 DEF Deliver

LEMMA DeliverLedger ==
    ASSUME WInv, WInv', AttemptsOK, NEW p \in Actor, Deliver(p)
    PROVE  [Ledger!Next]_Ledger!ledgerVars
<1>1. PICK reached \in BOOLEAN, f \in {"carried", "sent", "exhausted"} :
        OneAttempt(p, reached, f)
  BY DeliverAttempts
<1>2. UNCHANGED <<captured, ring, evicted>>
  BY DEF Deliver, SendOK, SendPermanent, SendUnreached, SendLost, BackoffEnds,
         DeliverUnchanged, queueVars
<1>3. CASE hand[p] = {}
  <2>1. UNCHANGED <<sent, exhausted>>
    BY <1>1, <1>3 DEF OneAttempt
  <2>2. accepted' = accepted
    <3>1. accepted' = [e \in Event |-> accepted[e]]
      BY <1>1, <1>3 DEF OneAttempt
    <3>2. QED
      BY <3>1 DEF WInv, FateOK
  <2>3. \A q \in Actor : hand'[q] = hand[q]
    BY <1>1, <1>3 DEF OneAttempt
  <2>4. Batches' = Batches
    BY <2>3 DEF Batches
  <2>5. QED
    BY <1>2, <2>1, <2>2, <2>4, Stutter
<1>4. CASE hand[p] # {}
  <2>1. FateTable /\ FateTable'
    BY FateIs, PTL
  <2>2. hand[p] \subseteq Held /\ hand[p] \subseteq Event
    BY DEF Held, WInv, ActorOK
  <2>3. Held' = IF f = "carried" THEN Held ELSE Held \ hand[p]
    <3>1. CASE f = "carried"
      BY <1>1, <3>1 DEF OneAttempt, Held
    <3>2. CASE f # "carried"
      <4>1. \A q \in Actor : hand'[q] = IF q = p THEN {} ELSE hand[q]
        BY <1>1, <3>2 DEF OneAttempt
      <4>2. QED
        BY <3>2, <4>1 DEF Held, WInv, Conservation
    <3>3. QED
      BY <3>1, <3>2
  <2>4. Buffered' = Buffered
    BY <1>2 DEF Buffered
  <2>5. \A e \in Event : Fate(e)' = IF e \in hand[p] THEN f ELSE Fate(e)
    <3>1. CASE f = "carried"
      BY <1>1, <1>2, <2>1, <2>2, <2>3, <2>4, <3>1 DEF OneAttempt, FateTable
    <3>2. CASE f = "sent"
      BY <1>1, <1>2, <2>1, <2>2, <2>3, <2>4, <3>2 DEF OneAttempt, FateTable
    <3>3. CASE f = "exhausted"
      BY <1>1, <1>2, <2>1, <2>2, <2>3, <2>4, <3>3 DEF OneAttempt, FateTable
    <3>4. QED
      BY <3>1, <3>2, <3>3
  <2>6. /\ hand[p] \in Batches
        /\ Batches' = IF f = "carried" THEN Batches ELSE Batches \ {hand[p]}
    <3>1. hand[p] \in Batches
      BY <1>4 DEF Batches
    <3>2. ASSUME f = "carried" PROVE Batches' = Batches
      <4>1. \A q \in Actor : hand'[q] = hand[q]
        BY <1>1, <3>2 DEF OneAttempt
      <4>2. QED
        BY <4>1 DEF Batches
    <3>3. ASSUME f # "carried" PROVE Batches' = Batches \ {hand[p]}
      <4>1. \A q \in Actor : hand'[q] = IF q = p THEN {} ELSE hand[q]
        BY <1>1, <3>3 DEF OneAttempt
      <4>2. \A q \in Actor : q # p => hand[q] # hand[p]
        BY <1>4 DEF WInv, Conservation
      <4>3. QED
        BY <4>1, <4>2 DEF Batches
    <3>4. QED
      BY <3>1, <3>2, <3>3
  <2>7. reached => \A e \in hand[p] : accepted[e] <= MaxRetries
    <3>1. ASSUME reached, NEW e \in hand[p] PROVE accepted[e] <= MaxRetries
      <4>1. accepted[e] <= att[p]
        BY <1>1, <3>1 DEF OneAttempt, AttemptsOK
      <4>2. att[p] \in 0..MaxRetries /\ accepted[e] \in Nat
        BY <2>2 DEF WInv, ActorOK, FateOK
      <4>3. QED
        BY <4>1, <4>2, Kinds
    <3>2. QED
      BY <3>1
  <2>8. [e \in Event |-> Fate(e)]' = Ledger!Become(hand[p], f)
    BY <2>5 DEF Ledger!Become, Ledger!Events, Event
  <2>9. /\ f = "sent" => reached
        /\ accepted' = [e \in Event |-> IF reached /\ e \in hand[p]
                                    THEN accepted[e] + 1 ELSE accepted[e]]
    BY <1>1 DEF OneAttempt
  <2>10. Ledger!Attempt(hand[p])
    BY <2>6, <2>7, <2>8, <2>9 DEF Ledger!Attempt, Ledger!Events, Event
  <2>11. QED
    BY <2>6, <2>10 DEF Ledger!Next
<1>5. QED
  BY <1>3, <1>4

\* A step that starts or continues no attempt.
LEMMA AttemptsFrame ==
    ASSUME AttemptsOK, UNCHANGED <<att, hand, accepted>>,
           Event \ 1..(captured' - Len(ring')) \subseteq
             Event \ 1..(captured - Len(ring)),
           \A p \in Actor : \/ pc'[p] = pc[p]
                            \/ {pc[p], pc'[p]} \cap {"send", "backoff"} = {}
    PROVE  AttemptsOK'
<1>1. \A e \in Event \ 1..(captured' - Len(ring')) : accepted'[e] = 0
  BY DEF AttemptsOK
<1>2. ASSUME NEW p \in Actor
      PROVE  /\ pc'[p] \notin {"send", "backoff"} => att'[p] = 0
             /\ \A e \in hand'[p] :
                  accepted'[e] <= IF pc'[p] = "backoff" THEN att'[p] + 1
                                  ELSE att'[p]
  BY DEF AttemptsOK
<1>3. QED
  BY <1>1, <1>2 DEF AttemptsOK

LEMMA DeliverKeepsAttempts ==
    ASSUME WInv, AttemptsOK, NEW p \in Actor, Deliver(p) PROVE AttemptsOK'
<1>1. PICK reached \in BOOLEAN, f \in {"carried", "sent", "exhausted"} :
        OneAttempt(p, reached, f)
  BY DeliverAttempts
<1>2. UNCHANGED <<captured, ring>>
  BY DEF Deliver, SendOK, SendPermanent, SendUnreached, SendLost, BackoffEnds,
         DeliverUnchanged, queueVars
<1>3. \A e \in Event : accepted'[e] = IF reached /\ e \in hand[p]
                                     THEN accepted[e] + 1 ELSE accepted[e]
  BY <1>1 DEF OneAttempt
<1>4. hand[p] \subseteq 1..(captured - Len(ring))
  BY DEF WInv, Conservation, Held
<1>5. \A e \in Event \ 1..(captured' - Len(ring')) : accepted'[e] = 0
  BY <1>2, <1>3, <1>4 DEF AttemptsOK
<1>6. ASSUME NEW q \in Actor \ {p}
      PROVE  /\ pc'[q] \notin {"send", "backoff"} => att'[q] = 0
             /\ \A e \in hand'[q] :
                  accepted'[e] <= IF pc'[q] = "backoff" THEN att'[q] + 1
                                  ELSE att'[q]
  <2>1. pc'[q] = pc[q] /\ att'[q] = att[q] /\ hand'[q] = hand[q]
    BY <1>1 DEF OneAttempt
  <2>2. \A e \in hand[q] : accepted'[e] = accepted[e]
    BY <1>3 DEF WInv, ActorOK, Conservation
  <2>3. QED
    BY <2>1, <2>2 DEF AttemptsOK
<1>7. /\ pc'[p] \notin {"send", "backoff"} => att'[p] = 0
      /\ \A e \in hand'[p] :
           accepted'[e] <= IF pc'[p] = "backoff" THEN att'[p] + 1 ELSE att'[p]
  <2>1. att[p] \in Nat /\ \A e \in hand[p] : accepted[e] \in Nat /\ e \in Event
    BY Kinds DEF WInv, ActorOK, FateOK
  <2>2. \A e \in hand[p] :
          accepted[e] <= IF pc[p] = "backoff" THEN att[p] + 1 ELSE att[p]
    BY DEF AttemptsOK
  <2>3. CASE f = "carried"
    <3>1. CASE pc[p] = "send"
      <4>1. pc'[p] = "backoff" /\ att'[p] = att[p] /\ hand'[p] = hand[p]
        BY <1>1, <2>3, <3>1 DEF OneAttempt
      <4>2. \A e \in hand[p] : accepted'[e] <= att[p] + 1
        BY <1>3, <2>1, <2>2, <3>1
      <4>3. QED
        BY <4>1, <4>2
    <3>2. CASE pc[p] # "send"
      <4>1. /\ pc[p] = "backoff" /\ pc'[p] = "send" /\ att'[p] = att[p] + 1
            /\ hand'[p] = hand[p] /\ ~reached
        BY <1>1, <2>3, <3>2 DEF OneAttempt
      <4>2. \A e \in hand[p] : accepted'[e] <= att[p] + 1
        BY <1>3, <2>1, <2>2, <4>1
      <4>3. QED
        BY <4>1, <4>2
    <3>3. QED
      BY <3>1, <3>2
  <2>4. CASE f # "carried"
    BY <1>1, <2>4 DEF OneAttempt
  <2>5. QED
    BY <2>3, <2>4
<1>8. QED
  BY <1>5, <1>6, <1>7 DEF AttemptsOK

\* A step that is not one of deliverBatch neither starts nor ends an attempt.
LEMMA OthersKeepAttempts ==
    ASSUME WInv, WInv', AttemptsOK,
           \/ Capture \/ NotifyIfFull \/ Done
           \/ LoopStop \/ LoopTick \/ LoopTrigger \/ LoopReport \/ LoopDisabled
           \/ LoopPopsEmpty
           \/ \E c \in Caller :
                \/ FlushBegins(c) \/ CloseBegins(c) \/ CloseWaits(c)
                \/ CallerPopsEmpty(c) \/ CloseAgain(c) \/ CloseSeesStopped(c)
                \/ CloseGivesUpOnLoop(c) \/ WaitReturns(c) \/ WaitGivesUp(c)
                \/ WaiterStep(c) \/ Expire(c)
    PROVE  AttemptsOK'
<1>1. UNCHANGED <<att, hand, accepted>>
  BY DEF Capture, NotifyIfFull, Done, LoopStop, LoopTick, LoopTrigger,
     LoopReport, LoopDisabled, LoopPopsEmpty, LoopUnchanged, FlushBegins,
     CloseBegins, CloseWaits, BeginCall, CallerPopsEmpty, CloseAgain,
     CloseSeesStopped, CloseGivesUpOnLoop, WaitReturns, WaitGivesUp, EndCall,
     CallUnchanged, WaiterStep, WaitBegins, WaitWakes, WaitUnchanged, Expire,
     fateVars
<1>2. \A p \in Actor : \/ pc'[p] = pc[p]
                       \/ {pc[p], pc'[p]} \cap {"send", "backoff"} = {}
  <2>1. PcOK
    BY DEF WInv, ActorOK
  <2>2. CASE Capture \/ NotifyIfFull \/ Done
    BY <2>2 DEF Capture, NotifyIfFull, Done
  <2>3. CASE LoopStop \/ LoopTick \/ LoopTrigger \/ LoopReport \/ LoopDisabled
               \/ LoopPopsEmpty
    BY <2>1, <2>3, Kinds DEF PcOK, LoopStop, LoopTick, LoopTrigger, LoopReport,
       LoopDisabled, LoopPopsEmpty
  <2>4. ASSUME NEW c \in Caller,
               \/ FlushBegins(c) \/ CloseBegins(c) \/ CloseWaits(c)
               \/ CallerPopsEmpty(c)
        PROVE  \A p \in Actor : \/ pc'[p] = pc[p]
                                \/ {pc[p], pc'[p]} \cap {"send", "backoff"} = {}
    BY <2>1, <2>4, Kinds DEF PcOK, FlushBegins, CloseBegins, CloseWaits, BeginCall,
       CallerPopsEmpty
  <2>5. ASSUME NEW c \in Caller,
               \/ CloseAgain(c) \/ CloseSeesStopped(c) \/ CloseGivesUpOnLoop(c)
               \/ WaitReturns(c) \/ WaitGivesUp(c) \/ WaiterStep(c) \/ Expire(c)
        PROVE  \A p \in Actor : \/ pc'[p] = pc[p]
                                \/ {pc[p], pc'[p]} \cap {"send", "backoff"} = {}
    BY <2>1, <2>5, Kinds DEF PcOK, CloseAgain, CloseSeesStopped, CloseGivesUpOnLoop,
       WaitReturns, WaitGivesUp, EndCall, WaiterStep, WaitBegins, WaitWakes,
       WaitUnchanged, Expire
  <2> QED
    BY <2>2, <2>3, <2>4, <2>5
<1>3. Event \ 1..(captured' - Len(ring')) \subseteq
        Event \ 1..(captured - Len(ring))
  <2>1. CASE UNCHANGED <<captured, ring>>
    BY <2>1
  <2>2. CASE Capture
    <3>1. Held \cup Resolved \subseteq (Held \cup Resolved)'
      BY <2>2 DEF Capture, Held, Resolved
    <3>2. QED
      BY <3>1 DEF WInv, Conservation
  <2>3. UNCHANGED <<captured, ring>> \/ Capture
    BY DEF NotifyIfFull, Done, LoopStop, LoopTick, LoopTrigger,
       LoopReport, LoopDisabled, LoopPopsEmpty, LoopUnchanged, FlushBegins,
       CloseBegins, CloseWaits, BeginCall, CallerPopsEmpty, CloseAgain,
       CloseSeesStopped, CloseGivesUpOnLoop, WaitReturns, WaitGivesUp, EndCall,
       CallUnchanged, WaiterStep, WaitBegins, WaitWakes, WaitUnchanged, Expire,
       queueVars
  <2>4. QED
    BY <2>1, <2>2, <2>3
<1>4. QED
  BY <1>1, <1>2, <1>3, AttemptsFrame

\* Handing a batch over to a sender leaves the batches what they are.
LEMMA DispatchKeepsBatches ==
    ASSUME WInv, NEW p \in Worker, Dispatch(p) PROVE Batches' = Batches
<1>1. CASE DispatchSync(p)
  BY <1>1 DEF DispatchSync, Batches
<1>2. ASSUME NEW s \in Slot, DispatchAsync(p, s) PROVE Batches' = Batches
  <2>1. p \in Actor /\ s \in Actor /\ p # s
    BY Kinds
  <2>2. hand[s] = {}
    BY <1>2, <2>1 DEF WInv, ActorOK, BatchesInUse, DispatchAsync
  <2>3. \A q \in Actor : hand'[q] = IF q = p THEN {}
                                   ELSE IF q = s THEN hand[p] ELSE hand[q]
    BY <1>2, <2>1 DEF WInv, ActorOK, DispatchAsync
  <2>4. QED
    BY <2>1, <2>2, <2>3 DEF Batches
<1>3. QED
  BY <1>1, <1>2 DEF Dispatch

LEMMA OthersStutter ==
    ASSUME WInv,
           \/ NotifyIfFull \/ Done
           \/ LoopStop \/ LoopTick \/ LoopTrigger \/ LoopReport \/ LoopDisabled
           \/ LoopPopsEmpty
           \/ \E c \in Caller :
                \/ FlushBegins(c) \/ CloseBegins(c) \/ CloseWaits(c)
                \/ CallerPopsEmpty(c) \/ CloseAgain(c) \/ CloseSeesStopped(c)
                \/ CloseGivesUpOnLoop(c) \/ WaitReturns(c) \/ WaitGivesUp(c)
                \/ WaiterStep(c) \/ Expire(c)
           \/ \E p \in Worker : Dispatch(p)
    PROVE  UNCHANGED Ledger!ledgerVars
<1>1. UNCHANGED <<captured, ring, sent, exhausted, evicted, accepted>>
  BY DEF NotifyIfFull, Done, LoopStop, LoopTick, LoopTrigger,
     LoopReport, LoopDisabled, LoopPopsEmpty, LoopUnchanged, FlushBegins,
     CloseBegins, CloseWaits, BeginCall, CallerPopsEmpty, CloseAgain,
     CloseSeesStopped, CloseGivesUpOnLoop, WaitReturns, WaitGivesUp, EndCall,
     CallUnchanged, WaiterStep, WaitBegins, WaitWakes, WaitUnchanged, Expire,
     Dispatch, DispatchSync, DispatchAsync, queueVars, fateVars
<1>2. hand' = hand \/ \E p \in Worker : Dispatch(p)
  BY DEF NotifyIfFull, Done, LoopStop, LoopTick, LoopTrigger,
     LoopReport, LoopDisabled, LoopPopsEmpty, LoopUnchanged, FlushBegins,
     CloseBegins, CloseWaits, BeginCall, CallerPopsEmpty, CloseAgain,
     CloseSeesStopped, CloseGivesUpOnLoop, WaitReturns, WaitGivesUp, EndCall,
     CallUnchanged, WaiterStep, WaitBegins, WaitWakes, WaitUnchanged, Expire
<1>3. Batches' = Batches
  BY <1>2, DispatchKeepsBatches DEF Batches
<1>4. QED
  BY <1>1, <1>3, Stutter

LEMMA PopBatchKeepsAttempts ==
    ASSUME WInv, WInv', AttemptsOK, NEW p \in Worker, PopBatch(p)
    PROVE  AttemptsOK'
<1>1. /\ captured \in Nat /\ ring \in Seq(Event)
      /\ Newest(ring, captured) /\ Len(ring) \in 0..captured
  BY BufferNewest DEF WInv
<1>2. PICK k \in 0..Len(ring) :
         /\ hand' = [hand EXCEPT ![p] = Elements(SubSeq(ring, 1, k))]
         /\ ring' = Without(ring, k)
  BY DEF PopBatch
<1>3. /\ hand'[p] = (captured - Len(ring) + 1)..(captured - Len(ring) + k)
      /\ Len(ring') = Len(ring) - k
      /\ \A q \in Actor \ {p} : hand'[q] = hand[q]
  <2>1. /\ Len(ring') = Len(ring) - k
        /\ Elements(SubSeq(ring, 1, k))
             = (captured - Len(ring) + 1)..(captured - Len(ring) + k)
    <3>1. /\ Len(Without(ring, k)) = Len(ring) - k
          /\ Elements(SubSeq(ring, 1, k))
               = (captured - Len(ring) + 1)..(captured - Len(ring) + k)
      BY <1>1, TakeOldest
    <3> QED
      BY <1>2, <3>1, Zenon
  <2>2. /\ hand'[p] = Elements(SubSeq(ring, 1, k))
        /\ \A q \in Actor \ {p} : hand'[q] = hand[q]
    BY <1>2, Kinds DEF WInv, ActorOK
  <2>3. QED
    BY <2>1, <2>2
<1>4. /\ \A q \in Actor \ {p} : pc'[q] = pc[q]
      /\ pc[p] = "pop" /\ pc'[p] = "dispatch"
      /\ UNCHANGED <<captured, att, accepted>>
  BY Kinds DEF WInv, ActorOK, PcOK, PopBatch, fateVars
<1>5. \A e \in Event \ 1..(captured' - Len(ring')) : accepted'[e] = 0
  BY <1>1, <1>3, <1>4 DEF AttemptsOK, Event
<1>6. att[p] = 0 /\ \A e \in hand'[p] : accepted[e] = 0
  <2>1. hand'[p] \subseteq Event
    BY Kinds DEF WInv, ActorOK
  <2>2. \A e \in hand'[p] : e \notin 1..(captured - Len(ring))
    BY <1>1, <1>3
  <2>3. QED
    BY <1>4, <2>1, <2>2, Kinds DEF AttemptsOK
<1>7. ASSUME NEW q \in Actor
      PROVE  /\ pc'[q] \notin {"send", "backoff"} => att'[q] = 0
             /\ \A e \in hand'[q] :
                  accepted'[e] <= IF pc'[q] = "backoff" THEN att'[q] + 1
                                  ELSE att'[q]
  <2>1. CASE q = p
    BY <1>4, <1>6, <2>1
  <2>2. CASE q # p
    BY <1>3, <1>4, <2>2 DEF AttemptsOK
  <2>3. QED
    BY <2>1, <2>2
<1>8. QED
  BY <1>5, <1>7 DEF AttemptsOK

LEMMA DispatchKeepsAttempts ==
    ASSUME WInv, AttemptsOK, NEW p \in Worker, Dispatch(p) PROVE AttemptsOK'
<1>1. /\ UNCHANGED <<captured, ring, att, accepted>>
      /\ pc[p] = "dispatch" /\ p \in Actor
  BY Kinds DEF Dispatch, DispatchSync, DispatchAsync, queueVars, fateVars
<1>2. \A e \in Event \ 1..(captured' - Len(ring')) : accepted'[e] = 0
  BY <1>1 DEF AttemptsOK
<1>3. att[p] = 0 /\ \A e \in hand[p] : accepted[e] <= 0
  BY <1>1 DEF AttemptsOK
<1>4. CASE DispatchSync(p)
  <2>1. /\ \A q \in Actor \ {p} : pc'[q] = pc[q]
        /\ pc'[p] = "send" /\ hand' = hand
    BY <1>1, <1>4 DEF WInv, ActorOK, PcOK, DispatchSync
  <2>2. QED
    BY <1>1, <1>2, <1>3, <2>1 DEF AttemptsOK
<1>5. ASSUME NEW s \in Slot, DispatchAsync(p, s) PROVE AttemptsOK'
  <2>1. /\ \A q \in Actor \ {p, s} : pc'[q] = pc[q] /\ hand'[q] = hand[q]
        /\ pc'[p] = "pop" /\ hand'[p] = {}
        /\ pc'[s] = "send" /\ hand'[s] = hand[p]
        /\ pc[s] = "free" /\ s \in Actor
    BY <1>1, <1>5, Kinds DEF WInv, ActorOK, PcOK, DispatchAsync
  <2>2. att[s] = 0
    BY <2>1 DEF AttemptsOK
  <2>3. QED
    BY <1>1, <1>2, <1>3, <2>1, <2>2 DEF AttemptsOK
<1>6. QED
  BY <1>4, <1>5 DEF Dispatch

LEMMA InitA == Init => AttemptsOK /\ Ledger!Init
<1> SUFFICES ASSUME Init PROVE AttemptsOK /\ Ledger!Init
  OBVIOUS
<1>1. AttemptsOK
  BY DEF Init, AttemptsOK
<1>2. \A e \in Event : Fate(e) = "new"
  <2>1. FateTable /\ captured = 0
    BY InitOK, FateIs DEF Init
  <2>2. QED
    BY <2>1 DEF FateTable, Event
<1>3. Batches = {}
  BY DEF Init, Batches
<1>4. QED
  BY <1>1, <1>2, <1>3 DEF Init, Ledger!Init, Ledger!Events, Event

LEMMA StepA ==
    WInv /\ WInv' /\ AttemptsOK /\ [Next]_vars
      => AttemptsOK' /\ [Ledger!Next]_Ledger!ledgerVars
<1> SUFFICES ASSUME WInv, WInv', AttemptsOK, [Next]_vars
             PROVE  AttemptsOK' /\ [Ledger!Next]_Ledger!ledgerVars
  OBVIOUS
<1>1. CASE Capture
  BY <1>1, CaptureLedger, OthersKeepAttempts
<1>2. ASSUME NEW p \in Worker, PopBatch(p)
      PROVE  AttemptsOK' /\ [Ledger!Next]_Ledger!ledgerVars
  BY <1>2, PopBatchLedger, PopBatchKeepsAttempts
<1>3. ASSUME NEW p \in Worker, Dispatch(p)
      PROVE  AttemptsOK' /\ [Ledger!Next]_Ledger!ledgerVars
  BY <1>3, OthersStutter, DispatchKeepsAttempts
<1>4. ASSUME NEW p \in Actor, Deliver(p)
      PROVE  AttemptsOK' /\ [Ledger!Next]_Ledger!ledgerVars
  BY <1>4, DeliverLedger, DeliverKeepsAttempts
<1>5. CASE NotifyIfFull \/ Done
  BY <1>5, OthersStutter, OthersKeepAttempts
<1>6. CASE LoopStep
  <2>1. CASE LoopStop \/ LoopTick \/ LoopTrigger \/ LoopReport \/ LoopDisabled
             \/ LoopPopsEmpty
    BY <2>1, OthersStutter, OthersKeepAttempts
  <2>2. QED
    BY <1>2, <1>3, <1>4, <1>6, <2>1, Kinds DEF LoopStep
<1>7. ASSUME NEW c \in Caller,
             \/ FlushBegins(c) \/ CloseBegins(c) \/ CloseWaits(c)
             \/ CallStep(c) \/ WaiterStep(c) \/ Expire(c)
      PROVE  AttemptsOK' /\ [Ledger!Next]_Ledger!ledgerVars
  <2>1. CASE \/ FlushBegins(c) \/ CloseBegins(c) \/ CloseWaits(c)
             \/ CallerPopsEmpty(c) \/ CloseAgain(c) \/ CloseSeesStopped(c)
             \/ CloseGivesUpOnLoop(c) \/ WaitReturns(c) \/ WaitGivesUp(c)
             \/ WaiterStep(c) \/ Expire(c)
    BY <2>1, OthersStutter, OthersKeepAttempts
  <2>2. c \in Worker /\ c \in Actor
    BY Kinds
  <2>3. QED
    BY <1>2, <1>3, <1>4, <1>7, <2>1, <2>2 DEF CallStep
<1>8. CASE UNCHANGED vars
  <2>1. UNCHANGED <<pc, hand, att, accepted, captured, ring, sent, exhausted,
                    evicted>>
    BY <1>8 DEF vars, queueVars, fateVars
  <2>2. QED
    BY <2>1, Stutter, AttemptsFrame DEF Batches
<1>9. CASE \E s \in Slot : Deliver(s)
  BY <1>4, <1>9, Kinds
<1>10. QED
  BY <1>1, <1>5, <1>6, <1>7, <1>8, <1>9 DEF Next, Step, Rest

\* The code of worker.go keeps the ledger: events leave the buffer oldest
\* first, the newest event is never dropped to make room for itself, a batch
\* ends as a whole and for good, and the server accepts an event at most
\* MaxRetries + 1 times however answers get lost.
THEOREM LedgerImplemented == Spec => LedgerSpec
<1>1. Spec => [](WInv /\ AttemptsOK) /\ Ledger!Init
              /\ [][Ledger!Next]_Ledger!ledgerVars
  BY InitOK, StepOK, InitA, StepA, PTL DEF Spec
<1>2. QED
  BY <1>1, PTL DEF LedgerSpec, Ledger!Spec
=============================================================================
