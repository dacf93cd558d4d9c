---------------------------- MODULE RingbufProofs ----------------------------
(***************************************************************************)
(* Proofs about Ringbuf for every item bound, byte bound, item set and     *)
(* initial capacity: types, which slots are live, the byte counter, FIFO   *)
(* order, and that the ring implements BoundedFifo step by step.           *)
(***************************************************************************)
EXTENDS Ringbuf, SumProofs, SequenceTheorems

-----------------------------------------------------------------------------
(* Which slots are live.                                                   *)

\* The slots of a window of n entries from h, without the modulus.
Window(h, n, c, i) == (h <= i /\ i < h + n) \/ i + c < h + n

LEMMA WindowIsLive ==
    ASSUME NEW c \in Nat, NEW h \in 0..(c - 1), NEW n \in 0..c,
           NEW i \in 0..(c - 1)
    PROVE  (\E k \in 0..(n - 1) : i = (h + k) % c) <=> Window(h, n, c, i)
<1>1. \A k \in 0..(n - 1) : (h + k) % c = IF h + k < c THEN h + k ELSE h + k - c
  <2> TAKE k \in 0..(n - 1)
  <2>1. c \in Nat \ {0} /\ h + k \in 0..(2 * c - 1)
    OBVIOUS
  <2>2. QED
    BY <2>1
<1>2. ASSUME Window(h, n, c, i)
      PROVE  \E k \in 0..(n - 1) : i = (h + k) % c
  <2>1. CASE h <= i /\ i < h + n
    <3>1. i - h \in 0..(n - 1) /\ h + (i - h) = i
      BY <2>1
    <3>2. QED
      BY <1>1, <3>1
  <2>2. CASE i + c < h + n
    <3>1. i + c - h \in 0..(n - 1) /\ h + (i + c - h) = i + c
      BY <2>2
    <3>2. QED
      BY <1>1, <3>1
  <2>3. QED
    BY <1>2, <2>1, <2>2 DEF Window
<1>3. QED
  BY <1>1, <1>2 DEF Window

-----------------------------------------------------------------------------
(* The inductive invariant.                                                *)

\* SlotsAccurate with the live slots as a window.
SlotsInWindow ==
    \A i \in 0..(cap - 1) :
        IF Window(head, count, cap, i)
        THEN buf[i] \in Item /\ sz[i] = Cost(buf[i])
        ELSE buf[i] = Zero

RInv == TypeOK /\ SlotsInWindow

LEMMA CostPositive == \A x \in Item : Cost(x) \in Nat \ {0}
  BY RulesAssumption, RingbufAssumption DEF Cost

\* The i-th live entry is an item.
LEMMA ContentsTyped ==
    ASSUME RInv
    PROVE  Contents \in Seq(Item) /\ Len(Contents) = count
<1>1. \A i \in 1..count : buf[(head + i - 1) % cap] \in Item
  <2> TAKE i \in 1..count
  <2>1. /\ cap \in Nat \ {0} /\ head \in 0..(cap - 1) /\ count \in 0..cap
    BY RulesAssumption DEF RInv, TypeOK
  <2> DEFINE j == (head + i - 1) % cap
  <2>2. j = IF head + i - 1 < cap THEN head + i - 1 ELSE head + i - 1 - cap
    <3>1. head + i - 1 \in 0..(2 * cap - 1)
      BY <2>1
    <3>2. QED
      BY <2>1, <3>1
  <2>3. j \in 0..(cap - 1) /\ Window(head, count, cap, j)
    BY <2>1, <2>2 DEF Window
  <2>4. QED
    BY <2>3 DEF RInv, SlotsInWindow
<1>2. count \in Nat
  BY RulesAssumption DEF RInv, TypeOK
<1>3. QED
  BY <1>1, <1>2 DEF Contents

LEMMA SlotsAgree ==
    ASSUME TypeOK
    PROVE  SlotsInWindow <=> SlotsAccurate
<1>1. cap \in Nat /\ count \in 0..cap
  BY RulesAssumption DEF TypeOK
<1>2. \A i \in 0..(cap - 1) : Window(head, count, cap, i) <=> Live(i)
  <2> TAKE i \in 0..(cap - 1)
  <2>1. head \in 0..(cap - 1)
    BY <1>1 DEF TypeOK
  <2>2. QED
    BY <1>1, <2>1, WindowIsLive DEF Live
<1>3. QED
  BY <1>2 DEF SlotsInWindow, SlotsAccurate

-----------------------------------------------------------------------------
(* What the three changes of the array do to the live entries.             *)

\* The conjuncts of TypeOK about the array.
ShapeOK ==
    /\ cap \in 0..MaxItems
    /\ count \in 0..cap
    /\ head \in 0..(cap - 1) \/ (cap = 0 /\ head = 0)
    /\ buf \in [0..(cap - 1) -> Item \cup {Zero}]
    /\ sz \in [0..(cap - 1) -> Nat]
    /\ bytes \in Int

LEMMA PopOldestKeeps ==
    ASSUME RInv, count > 0, PopOldest
    PROVE  /\ ShapeOK' /\ SlotsInWindow'
           /\ buf[head] \in Item /\ sz[head] \in Nat
           /\ Contents' = Tail(Contents)
<1>1. /\ cap \in Nat \ {0} /\ count \in 1..cap /\ head \in 0..(cap - 1)
      /\ MaxItems \in Nat
  BY RulesAssumption DEF RInv, TypeOK
<1>2. /\ head' = IF head + 1 < cap THEN head + 1 ELSE 0
      /\ count' = count - 1 /\ cap' = cap /\ sz' = sz
      /\ buf' = [buf EXCEPT ![head] = Zero]
      /\ bytes' = bytes - sz[head]
  BY <1>1 DEF PopOldest
<1>3. ShapeOK'
  BY <1>1, <1>2 DEF ShapeOK, RInv, TypeOK
<1>4. \A i \in 0..(cap - 1) :
        Window(head', count', cap, i) <=> Window(head, count, cap, i) /\ i # head
  BY <1>1, <1>2 DEF Window
<1>5. SlotsInWindow'
  BY <1>1, <1>2, <1>4 DEF SlotsInWindow, RInv, TypeOK
<1>6. buf[head] \in Item /\ sz[head] \in Nat
  BY <1>1 DEF RInv, TypeOK, SlotsInWindow, Window
<1>7. Contents' = Tail(Contents)
  <2>1. \A i \in 1..(count - 1) :
          buf'[(head' + i - 1) % cap] = buf[(head + (i + 1) - 1) % cap]
    <3> TAKE i \in 1..(count - 1)
    <3>1. (head' + i - 1) % cap = (head + (i + 1) - 1) % cap
      BY <1>1, <1>2
    <3>2. /\ (head + (i + 1) - 1) % cap \in 0..(cap - 1)
          /\ (head + (i + 1) - 1) % cap # head
      <4>1. head + i \in 0..(2 * cap - 1) /\ head + (i + 1) - 1 = head + i
        BY <1>1
      <4>2. (head + i) % cap = IF head + i < cap THEN head + i ELSE head + i - cap
        BY <1>1, <4>1
      <4>3. QED
        BY <1>1, <4>1, <4>2
    <3>3. QED
      BY <1>1, <1>2, <3>1, <3>2 DEF RInv, TypeOK
  <2>2. Contents \in Seq(Item) /\ Len(Contents) = count
    BY ContentsTyped
  <2>3. Contents # <<>>
    BY <1>1, <2>2
  <2>4. /\ Tail(Contents) \in Seq(Item) /\ Len(Tail(Contents)) = count - 1
        /\ \A i \in 1..(count - 1) : Tail(Contents)[i] = Contents[i + 1]
    BY <2>2, <2>3, HeadTailProperties
  <2>5. \A i \in 1..(count - 1) :
          Tail(Contents)[i] = buf'[(head' + i - 1) % cap]
    BY <1>1, <2>1, <2>4 DEF Contents
  <2>6. Tail(Contents) = [i \in 1..(count - 1) |-> Tail(Contents)[i]]
    BY <2>4, LenProperties
  <2>7. QED
    BY <1>1, <1>2, <2>5, <2>6 DEF Contents
<1>8. QED
  BY <1>3, <1>5, <1>6, <1>7

LEMMA InsertKeeps ==
    ASSUME RInv, count < cap, NEW x \in Item, Insert(x)
    PROVE  /\ ShapeOK' /\ SlotsInWindow'
           /\ Contents' = Append(Contents, x)
<1>1. /\ cap \in Nat \ {0} /\ count \in 0..(cap - 1) /\ head \in 0..(cap - 1)
      /\ MaxItems \in Nat /\ Cost(x) \in Nat
  BY RulesAssumption, CostPositive DEF RInv, TypeOK
<1>2. /\ TailSlot = IF head + count < cap THEN head + count ELSE head + count - cap
      /\ head' = head /\ count' = count + 1 /\ cap' = cap
      /\ buf' = [buf EXCEPT ![TailSlot] = x]
      /\ sz' = [sz EXCEPT ![TailSlot] = Cost(x)]
      /\ bytes' = bytes + Cost(x)
  BY <1>1 DEF Insert, TailSlot
<1>3. TailSlot \in 0..(cap - 1)
  BY <1>1, <1>2
<1>4. ShapeOK'
  BY <1>1, <1>2, <1>3 DEF ShapeOK, RInv, TypeOK
<1>5. \A i \in 0..(cap - 1) :
        Window(head', count', cap, i) <=> Window(head, count, cap, i) \/ i = TailSlot
  BY <1>1, <1>2 DEF Window
<1>6. SlotsInWindow'
  BY <1>1, <1>2, <1>3, <1>5 DEF SlotsInWindow, RInv, TypeOK
<1>7. Contents' = Append(Contents, x)
  <2>1. \A i \in 1..count :
          buf'[(head' + i - 1) % cap] = buf[(head + i - 1) % cap]
    <3> TAKE i \in 1..count
    <3>1. /\ (head + i - 1) % cap \in 0..(cap - 1)
          /\ (head + i - 1) % cap # TailSlot
      <4>1. head + i - 1 \in 0..(2 * cap - 1)
        BY <1>1
      <4>2. (head + i - 1) % cap =
              IF head + i - 1 < cap THEN head + i - 1 ELSE head + i - 1 - cap
        BY <1>1, <4>1
      <4>3. QED
        BY <1>1, <1>2, <4>1, <4>2
    <3>2. QED
      BY <1>1, <1>2, <3>1 DEF RInv, TypeOK
  <2>2. buf'[(head' + (count + 1) - 1) % cap] = x
    <3>1. (head' + (count + 1) - 1) % cap = TailSlot
      BY <1>1, <1>2 DEF TailSlot
    <3>2. QED
      BY <1>2, <1>3, <3>1 DEF RInv, TypeOK
  <2>3. Contents \in Seq(Item) /\ Len(Contents) = count
    BY ContentsTyped
  <2>4. /\ Append(Contents, x) \in Seq(Item)
        /\ Len(Append(Contents, x)) = count + 1
        /\ \A i \in 1..count : Append(Contents, x)[i] = Contents[i]
        /\ Append(Contents, x)[count + 1] = x
    BY <2>3, AppendProperties
  <2>5. \A i \in 1..(count + 1) :
          Append(Contents, x)[i] = buf'[(head' + i - 1) % cap]
    BY <1>1, <2>1, <2>2, <2>4 DEF Contents
  <2>6. Append(Contents, x) = [i \in 1..(count + 1) |-> Append(Contents, x)[i]]
    BY <2>4, LenProperties
  <2>7. QED
    BY <1>1, <1>2, <2>5, <2>6 DEF Contents
<1>8. QED
  BY <1>4, <1>6, <1>7

LEMMA GrowKeeps ==
    ASSUME RInv, count = cap, count < MaxItems, Grow
    PROVE  ShapeOK' /\ SlotsInWindow' /\ Contents' = Contents
<1>1. /\ cap \in Nat /\ count = cap /\ MaxItems \in Nat /\ MinInitialCap \in Nat \ {0}
      /\ cap > 0 => head \in 0..(cap - 1)
  BY RulesAssumption, RingbufAssumption DEF RInv, TypeOK
<1>2. NewCap \in 1..MaxItems /\ count < NewCap
  BY <1>1 DEF NewCap
<1>3. /\ cap' = NewCap /\ head' = 0 /\ count' = count /\ bytes' = bytes
      /\ buf' = [i \in 0..(NewCap - 1) |->
                   IF i < count THEN buf[(head + i) % cap] ELSE Zero]
      /\ sz' = [i \in 0..(NewCap - 1) |->
                   IF i < count THEN sz[(head + i) % cap] ELSE 0]
  BY DEF Grow
<1>4. \A i \in 0..(count - 1) :
        /\ (head + i) % cap \in 0..(cap - 1)
        /\ buf[(head + i) % cap] \in Item
        /\ sz[(head + i) % cap] = Cost(buf[(head + i) % cap])
        /\ sz[(head + i) % cap] \in Nat
  <2> TAKE i \in 0..(count - 1)
  <2>1. /\ head \in 0..(cap - 1) /\ cap \in Nat \ {0}
        /\ head + i \in 0..(2 * cap - 1)
    BY <1>1
  <2> DEFINE j == (head + i) % cap
  <2>2. j = IF head + i < cap THEN head + i ELSE head + i - cap
    BY <2>1
  <2>3. j \in 0..(cap - 1) /\ Window(head, count, cap, j)
    BY <1>1, <2>1, <2>2 DEF Window
  <2>4. QED
    BY <2>3 DEF RInv, TypeOK, SlotsInWindow
<1>5. ShapeOK'
  <2>1. buf' \in [0..(cap' - 1) -> Item \cup {Zero}]
    <3>1. \A i \in 0..(NewCap - 1) :
            (IF i < count THEN buf[(head + i) % cap] ELSE Zero) \in Item \cup {Zero}
      BY <1>1, <1>4
    <3>2. QED
      BY <1>3, <3>1
  <2>2. sz' \in [0..(cap' - 1) -> Nat]
    <3>1. \A i \in 0..(NewCap - 1) :
            (IF i < count THEN sz[(head + i) % cap] ELSE 0) \in Nat
      BY <1>1, <1>4
    <3>2. QED
      BY <1>3, <3>1
  <2>3. cap' \in 0..MaxItems /\ count' \in 0..cap' /\ head' \in 0..(cap' - 1)
    BY <1>1, <1>2, <1>3
  <2>4. bytes' \in Int
    BY <1>3 DEF RInv, TypeOK
  <2>5. QED
    BY <2>1, <2>2, <2>3, <2>4, Zenon DEF ShapeOK
<1>6. SlotsInWindow'
  <2> SUFFICES ASSUME NEW i \in 0..(NewCap - 1)
               PROVE  IF i < count
                      THEN buf'[i] \in Item /\ sz'[i] = Cost(buf'[i])
                      ELSE buf'[i] = Zero
    BY <1>1, <1>2, <1>3 DEF SlotsInWindow, Window
  <2>1. QED
    BY <1>1, <1>3, <1>4
<1>7. Contents' = Contents
  <2>1. \A i \in 1..count : buf'[(head' + i - 1) % cap'] = buf[(head + i - 1) % cap]
    <3> TAKE i \in 1..count
    <3>1. (0 + i - 1) % NewCap = i - 1 /\ i - 1 \in 0..(NewCap - 1)
      BY <1>1, <1>2
    <3>2. head + (i - 1) = head + i - 1
      BY <1>1
    <3>3. QED
      BY <1>1, <1>3, <3>1, <3>2
  <2>2. QED
    BY <1>3, <2>1 DEF Contents
<1>8. QED
  BY <1>5, <1>6, <1>7

LEMMA SameArray ==
    ASSUME RInv, UNCHANGED ringVars
    PROVE  ShapeOK' /\ SlotsInWindow' /\ Contents' = Contents
<1>1. ShapeOK' /\ Contents' = Contents
  BY DEF ringVars, RInv, TypeOK, ShapeOK, Contents
<1>2. SlotsInWindow'
  BY DEF ringVars, RInv, SlotsInWindow, Window
<1>3. QED
  BY <1>1, <1>2

-----------------------------------------------------------------------------
(* The invariant holds initially and every step preserves it in FIFO order. *)

\* A step that keeps the live entries in order: it changes nothing, takes the
\* oldest one or appends the item being pushed.
OrderStep ==
    \/ Contents' = Contents
    \/ count > 0 /\ Contents' = Tail(Contents)
    \/ call.op = "push" /\ Contents' = Append(Contents, call.item)

LEMMA RInvInit == ASSUME Init PROVE RInv
<1>1. TypeOK
  BY RulesAssumption DEF Init, TypeOK, CallType, NoCall
<1>2. SlotsInWindow
  BY DEF Init, SlotsInWindow
<1>3. QED
  BY <1>1, <1>2 DEF RInv

\* TypeOK from its parts after a step.
LEMMA TypeFromShape ==
    ASSUME ShapeOK', CallType', (pre \in Seq(Item))'
    PROVE  TypeOK'
  BY DEF ShapeOK, TypeOK

LEMMA BeginKeeps ==
    ASSUME RInv, NEW c, Begin(c),
           \/ c \in [op : {"push"}, item : Item, inserted : BOOLEAN, dropped : Nat]
           \/ c \in [op : {"pop"}, maxItems : Limit, maxBytes : Limit,
                     out : Seq(Item), batchBytes : Nat]
           \/ c \in [op : {"drain"}, out : Seq(Item)]
    PROVE  RInv' /\ OrderStep
<1>1. ShapeOK' /\ SlotsInWindow' /\ Contents' = Contents
  BY SameArray DEF Begin
<1>2. CallType'
  BY DEF Begin, CallType
<1>3. (pre \in Seq(Item))'
  BY ContentsTyped DEF Begin
<1>4. QED
  BY <1>1, <1>2, <1>3, TypeFromShape DEF RInv, OrderStep

LEMMA ReturnKeeps ==
    ASSUME RInv, NEW r, Return(r)
    PROVE  RInv' /\ OrderStep
<1>1. ShapeOK' /\ SlotsInWindow' /\ Contents' = Contents
  BY SameArray DEF Return
<1>2. CallType' /\ (pre \in Seq(Item))'
  BY DEF Return, CallType
<1>3. QED
  BY <1>1, <1>2, TypeFromShape DEF RInv, OrderStep

\* A step in the middle of a call, given what it does to the array.
LEMMA ContinueKeeps ==
    ASSUME RInv, NEW c, Continue(c), ShapeOK', SlotsInWindow', OrderStep,
           \/ c \in [op : {"push"}, item : Item, inserted : BOOLEAN, dropped : Nat]
           \/ c \in [op : {"pop"}, maxItems : Limit, maxBytes : Limit,
                     out : Seq(Item), batchBytes : Nat]
           \/ c \in [op : {"drain"}, out : Seq(Item)]
    PROVE  RInv' /\ OrderStep
<1>1. CallType' /\ (pre \in Seq(Item))'
  BY DEF Continue, CallType, RInv, TypeOK
<1>2. QED
  BY <1>1, TypeFromShape DEF RInv

LEMMA CallOf ==
    ASSUME CallType
    PROVE  /\ call.op = "push" =>
                call \in [op : {"push"}, item : Item, inserted : BOOLEAN, dropped : Nat]
           /\ call.op = "pop" =>
                call \in [op : {"pop"}, maxItems : Limit, maxBytes : Limit,
                          out : Seq(Item), batchBytes : Nat]
           /\ call.op = "drain" => call \in [op : {"drain"}, out : Seq(Item)]
  BY DEF CallType, NoCall

LEMMA RInvNext ==
    ASSUME RInv, [Next]_vars
    PROVE  RInv' /\ (OrderStep \/ UNCHANGED vars)
<1> USE DEF RInv
<1>0. CallType /\ count \in Nat /\ cap \in Nat /\ MaxItems \in Nat \ {0}
  BY RulesAssumption DEF TypeOK
<1>1. ASSUME NEW x \in Item, PushBegin(x)
      PROVE  RInv' /\ OrderStep
  <2>1. [op |-> "push", item |-> x, inserted |-> FALSE, dropped |-> 0] \in
          [op : {"push"}, item : Item, inserted : BOOLEAN, dropped : Nat]
    OBVIOUS
  <2>2. QED
    BY <1>1, <2>1, BeginKeeps DEF PushBegin
<1>2. CASE PushGrow
  <2>1. call \in [op : {"push"}, item : Item, inserted : BOOLEAN, dropped : Nat]
    BY <1>0, <1>2, CallOf DEF PushGrow, Inserting
  <2>2. ShapeOK' /\ SlotsInWindow' /\ OrderStep
    BY <1>2, GrowKeeps DEF PushGrow, OrderStep
  <2>3. QED
    BY <1>2, <2>1, <2>2, ContinueKeeps DEF PushGrow
<1>3. ASSUME call.op = "push", count > 0, PopOldest,
             Continue([call EXCEPT !.dropped = @ + 1])
      PROVE  RInv' /\ OrderStep
  <2>1. [call EXCEPT !.dropped = @ + 1] \in
          [op : {"push"}, item : Item, inserted : BOOLEAN, dropped : Nat]
    BY <1>0, <1>3, CallOf
  <2>2. ShapeOK' /\ SlotsInWindow' /\ OrderStep
    BY <1>3, PopOldestKeeps DEF OrderStep
  <2>3. QED
    BY <1>3, <2>1, <2>2, ContinueKeeps
<1>4. CASE PushMakeRoom
  BY <1>0, <1>3, <1>4 DEF PushMakeRoom, Inserting
<1>5. CASE PushInsert
  <2>1. call \in [op : {"push"}, item : Item, inserted : BOOLEAN, dropped : Nat]
    BY <1>0, <1>5, CallOf DEF PushInsert, Inserting
  <2>2. call.item \in Item /\ call.op = "push"
    BY <2>1
  <2>3. ShapeOK' /\ SlotsInWindow' /\ OrderStep
    BY <1>5, <2>2, InsertKeeps DEF PushInsert, OrderStep
  <2>4. [call EXCEPT !.inserted = TRUE] \in
          [op : {"push"}, item : Item, inserted : BOOLEAN, dropped : Nat]
    BY <2>1
  <2>5. QED
    BY <1>5, <2>3, <2>4, ContinueKeeps DEF PushInsert
<1>6. CASE PushEvict
  BY <1>0, <1>3, <1>6 DEF PushEvict, Evicting
<1>7. CASE PushReturn
  BY <1>7, ReturnKeeps DEF PushReturn
<1>8. ASSUME NEW n \in Limit, NEW m \in Limit, PopBegin(n, m)
      PROVE  RInv' /\ OrderStep
  <2>1. [op |-> "pop", maxItems |-> n, maxBytes |-> m,
         out |-> <<>>, batchBytes |-> 0] \in
          [op : {"pop"}, maxItems : Limit, maxBytes : Limit,
           out : Seq(Item), batchBytes : Nat]
    OBVIOUS
  <2>2. QED
    BY <1>8, <2>1, BeginKeeps DEF PopBegin
<1>9. CASE PopNext
  <2>1. call \in [op : {"pop"}, maxItems : Limit, maxBytes : Limit,
                  out : Seq(Item), batchBytes : Nat]
    BY <1>0, <1>9, CallOf DEF PopNext
  <2>2. /\ ShapeOK' /\ SlotsInWindow' /\ OrderStep
        /\ buf[head] \in Item /\ sz[head] \in Nat
    BY <1>9, PopOldestKeeps DEF PopNext, OrderStep
  <2>3. [call EXCEPT !.out = Append(@, buf[head]),
                     !.batchBytes = @ + sz[head]] \in
          [op : {"pop"}, maxItems : Limit, maxBytes : Limit,
           out : Seq(Item), batchBytes : Nat]
    <3>1. /\ Append(call.out, buf[head]) \in Seq(Item)
          /\ call.batchBytes + sz[head] \in Nat
      BY <2>1, <2>2, AppendProperties
    <3>2. QED
      BY <2>1, <3>1
  <2>4. QED
    BY <1>9, <2>2, <2>3, ContinueKeeps DEF PopNext
<1>10. CASE PopReturn
  BY <1>10, ReturnKeeps DEF PopReturn
<1>11. CASE DrainBegin
  <2>1. [op |-> "drain", out |-> <<>>] \in [op : {"drain"}, out : Seq(Item)]
    OBVIOUS
  <2>2. QED
    BY <1>11, <2>1, BeginKeeps DEF DrainBegin
<1>12. CASE DrainNext
  <2>1. call \in [op : {"drain"}, out : Seq(Item)]
    BY <1>0, <1>12, CallOf DEF DrainNext
  <2>2. ShapeOK' /\ SlotsInWindow' /\ OrderStep /\ buf[head] \in Item
    BY <1>12, PopOldestKeeps DEF DrainNext, OrderStep
  <2>3. [call EXCEPT !.out = Append(@, buf[head])] \in
          [op : {"drain"}, out : Seq(Item)]
    BY <2>1, <2>2
  <2>4. QED
    BY <1>12, <2>2, <2>3, ContinueKeeps DEF DrainNext
<1>13. CASE DrainReturn
  BY <1>13, ReturnKeeps DEF DrainReturn
<1>14. CASE UNCHANGED vars
  <2>1. ShapeOK' /\ SlotsInWindow'
    BY <1>14, SameArray DEF vars, ringVars
  <2>2. CallType' /\ (pre \in Seq(Item))'
    BY <1>14 DEF vars, CallType, TypeOK
  <2>3. QED
    BY <1>14, <2>1, <2>2, TypeFromShape
<1>15. QED
  BY <1>1, <1>2, <1>4, <1>5, <1>6, <1>7, <1>8, <1>9, <1>10, <1>11, <1>12,
     <1>13, <1>14 DEF Next

-----------------------------------------------------------------------------
(* Theorems.                                                               *)

LEMMA RInvAlways == Spec => []RInv
<1>1. Init => RInv
  BY RInvInit
<1>2. RInv /\ [Next]_vars => RInv'
  BY RInvNext
<1>3. QED
  BY <1>1, <1>2, PTL DEF Spec

\* The type invariant of the circular buffer (Buffer's fields and the locals
\* of its methods), including that its capacity stays within MaxItems.
THEOREM TypeCorrect == Spec => []TypeOK
<1>1. RInv => TypeOK
  BY DEF RInv
<1>2. QED
  BY <1>1, RInvAlways, PTL

\* popOldest, grow and Push leave exactly the live slots filled, each with the
\* size charged for it, and every other slot released.
THEOREM SlotsCorrect == Spec => []SlotsAccurate
<1>1. RInv => SlotsAccurate
  BY SlotsAgree DEF RInv
<1>2. QED
  BY <1>1, RInvAlways, PTL

\* Every step of Push, PopBatch and DrainAll, the ones under the mutex included,
\* keeps the live entries in FIFO order, wherever head is and whenever the array
\* grows: more than FifoSpec says, which sees the contents between calls only.
THEOREM StepsKeepOrder == Spec => [][OrderStep]_vars
<1>1. RInv /\ [Next]_vars => [OrderStep]_vars
  BY RInvNext
<1>2. QED
  BY <1>1, RInvAlways, PTL DEF Spec

-----------------------------------------------------------------------------
(* What the running call has done so far, in terms of the contents at its  *)
(* start and of the rules an atomic operation would follow.                *)

\* Before the insertion only a buffer at its item bound gave an entry up;
\* after it every eviction was needed.
PushOK(x, inserted, d, p, s) ==
    /\ d \in 0..Len(p)
    /\ IF inserted
       THEN /\ s = Without(Append(p, x), d)
            /\ \A j \in 0..(d - 1) : ~Fits(Without(Append(p, x), j))
       ELSE /\ s = Without(p, d)
            /\ d > 0 => Len(p) - d + 1 >= MaxItems

\* out was taken from the front of p and s is what is left.
TakenOK(out, p, s) ==
    /\ Len(out) \in 0..Len(p)
    /\ out = SubSeq(p, 1, Len(out))
    /\ s = Without(p, Len(out))

MidCall ==
    /\ call.op = "push" =>
         PushOK(call.item, call.inserted, call.dropped, pre, Contents)
    /\ call.op = "pop" =>
         /\ TakenOK(call.out, pre, Contents)
         /\ call.batchBytes = ByteSum(call.out)
         /\ WithinBatch(pre, Len(call.out), call.maxItems, call.maxBytes)
    /\ call.op = "drain" => TakenOK(call.out, pre, Contents)

\* Adding the entry after the last one a slot holds.
LEMMA ByteSumOver ==
    ASSUME NEW s \in Seq(Item)
    PROVE  /\ ByteSum(s) = SumFunctionOnSet([i \in 1..Len(s) |-> Cost(s[i])],
                                            1..Len(s))
           /\ ByteSum(s) \in Nat
<1>1. DOMAIN s = 1..Len(s) /\ \A i \in 1..Len(s) : s[i] \in Item
  BY ElementOfSeq
<1> DEFINE f == [i \in 1..Len(s) |-> Cost(s[i])]
<1>2. \A i \in 1..Len(s) : f[i] \in Nat
  BY <1>1, CostPositive
<1>3. ByteSum(s) = SumFunctionOnSet(f, 1..Len(s))
  BY <1>1 DEF ByteSum, SumFunction
<1>4. IsFiniteSet(1..Len(s))
  BY FS_Interval
<1>5. SumFunctionOnSet(f, 1..Len(s)) \in Nat
  <2> HIDE DEF f
  <2> QED BY <1>2, <1>4, SumNat
<1>6. QED
  BY <1>3, <1>5

LEMMA ByteSumEmpty == ByteSum(<<>>) = 0
<1> DEFINE f == [i \in DOMAIN <<>> |-> Cost(<<>>[i])]
<1>1. ByteSum(<<>>) = SumFunctionOnSet(f, {})
  BY DEF ByteSum, SumFunction
<1> HIDE DEF f
<1>2. QED
  BY <1>1, SumEmpty

LEMMA ByteSumAppend ==
    ASSUME NEW s \in Seq(Item), NEW x \in Item
    PROVE  ByteSum(Append(s, x)) = ByteSum(s) + Cost(x)
<1> DEFINE n == Len(s)
           t == Append(s, x)
           f == [i \in 1..n |-> Cost(s[i])]
           h == [i \in 1..(n + 1) |-> Cost(t[i])]
<1>1. /\ n \in Nat /\ t \in Seq(Item) /\ Len(t) = n + 1
      /\ \A i \in 1..n : t[i] = s[i] /\ s[i] \in Item
      /\ t[n + 1] = x
  BY AppendProperties, ElementOfSeq
<1>2. \A i \in 1..(n + 1) : t[i] \in Item
  BY <1>1, ElementOfSeq
<1>3. /\ ByteSum(s) = SumFunctionOnSet(f, 1..n)
      /\ ByteSum(t) = SumFunctionOnSet(h, 1..(n + 1))
  BY <1>1, ByteSumOver
<1>4. /\ \A i \in 1..n : f[i] = h[i]
      /\ h[n + 1] = Cost(x)
      /\ \A i \in 1..(n + 1) : h[i] \in Int
  BY <1>1, <1>2, CostPositive
<1>5. /\ IsFiniteSet(1..n) /\ IsFiniteSet(1..(n + 1))
      /\ 1..n = (1..(n + 1)) \ {n + 1}
      /\ n + 1 \in 1..(n + 1)
  <2> HIDE DEF n
  <2>1. n \in Int /\ n + 1 \in Int /\ 1 \in Int
    BY <1>1
  <2>2. IsFiniteSet(1..n) /\ IsFiniteSet(1..(n + 1))
    BY <2>1, FS_Interval
  <2>3. QED
    BY <1>1, <2>2
<1>6. ByteSum(s) \in Nat /\ Cost(x) \in Nat
  BY ByteSumOver, CostPositive
<1> HIDE DEF f, h, n, t
<1>7. SumFunctionOnSet(h, 1..(n + 1))
        = h[n + 1] + SumFunctionOnSet(h, 1..n)
  <2>1. SumFunctionOnSet(h, 1..(n + 1))
          = h[n + 1] + SumFunctionOnSet(h, (1..(n + 1)) \ {n + 1})
    BY <1>4, <1>5, SumSplit
  <2>2. QED
    BY <1>5, <2>1
<1>8. SumFunctionOnSet(h, 1..n) = SumFunctionOnSet(f, 1..n)
  BY <1>4, <1>5, SumSame
<1>9. ByteSum(t) = ByteSum(s) + Cost(x)
  BY <1>3, <1>4, <1>6, <1>7, <1>8
<1>10. QED
  BY <1>9 DEF t

\* Every sequence but the empty one is a shorter one with an entry appended.
LEMMA Shorter ==
    ASSUME NEW s \in Seq(Item), s # <<>>
    PROVE  \E t \in Seq(Item), x \in Item :
             s = Append(t, x) /\ Len(t) = Len(s) - 1
<1> DEFINE n == Len(s)
           t == [i \in 1..(n - 1) |-> s[i]]
<1>1. n \in Nat \ {0} /\ \A i \in 1..n : s[i] \in Item
  BY ElementOfSeq, EmptySeq
<1>2. t \in Seq(Item) /\ Len(t) = n - 1 /\ s[n] \in Item
  BY <1>1
<1>3. /\ Append(t, s[n]) \in Seq(Item) /\ Len(Append(t, s[n])) = n
      /\ \A i \in 1..n : Append(t, s[n])[i] = s[i]
  BY <1>1, <1>2, AppendProperties
<1>4. s = Append(t, s[n])
  BY <1>1, <1>3, SeqEqual
<1>5. QED
  BY <1>2, <1>4

\* Taking the oldest entry away takes its size away, whatever is behind it.
LEMMA ByteSumTail ==
    ASSUME NEW s \in Seq(Item), s # <<>>
    PROVE  ByteSum(Tail(s)) = ByteSum(s) - Cost(s[1])
<1> DEFINE Right(u) == ByteSum(Tail(u)) = ByteSum(u) - Cost(u[1])
           G == {n \in Nat : \A u \in Seq(Item) : u # <<>> /\ Len(u) <= n => Right(u)}
<1>1. 0 \in G
  <2>1. \A u \in Seq(Item) : u # <<>> => Len(u) > 0
    BY EmptySeq
  <2>2. QED
    BY <2>1
<1>2. ASSUME NEW n \in Nat, n \in G PROVE n + 1 \in G
  <2> SUFFICES ASSUME NEW u \in Seq(Item), u # <<>>, Len(u) <= n + 1
               PROVE  Right(u)
    OBVIOUS
  <2>1. PICK t \in Seq(Item), x \in Item : u = Append(t, x) /\ Len(t) = Len(u) - 1
    BY Shorter
  <2>2. ByteSum(u) = ByteSum(t) + Cost(x) /\ ByteSum(t) \in Nat /\ Cost(x) \in Nat
    BY <2>1, ByteSumAppend, ByteSumOver, CostPositive
  <2>3. CASE t = <<>>
    <3>1. u[1] = x /\ Tail(u) = <<>>
      BY <2>1, <2>3
    <3>2. ByteSum(t) = 0 /\ ByteSum(Tail(u)) = 0
      BY <2>3, <3>1, ByteSumEmpty
    <3>3. QED
      BY <2>2, <3>1, <3>2
  <2>4. CASE t # <<>>
    <3>1. /\ Len(t) \in Nat \ {0} /\ t[1] \in Item
          /\ Tail(t) \in Seq(Item) /\ Len(Tail(t)) = Len(t) - 1
          /\ \A i \in 1..Len(Tail(t)) : Tail(t)[i] = t[i + 1]
      BY <2>4, HeadTailProperties, ElementOfSeq, EmptySeq
    <3>2. /\ u[1] = t[1]
          /\ u # <<>> /\ Tail(u) \in Seq(Item) /\ Len(Tail(u)) = Len(t)
          /\ \A i \in 1..Len(t) : Tail(u)[i] = u[i + 1]
          /\ \A i \in 1..Len(t) : u[i] = t[i]
          /\ u[Len(t) + 1] = x
      BY <2>1, <3>1, HeadTailProperties, AppendProperties
    <3>3. /\ Append(Tail(t), x) \in Seq(Item)
          /\ Len(Append(Tail(t), x)) = Len(t)
          /\ \A i \in 1..(Len(t) - 1) : Append(Tail(t), x)[i] = t[i + 1]
          /\ Append(Tail(t), x)[Len(t)] = x
      BY <3>1, AppendProperties
    <3>4. Tail(u) = Append(Tail(t), x)
      <4>1. \A i \in 1..Len(t) : Tail(u)[i] = Append(Tail(t), x)[i]
        <5> TAKE i \in 1..Len(t)
        <5>1. CASE i = Len(t)
          BY <3>2, <3>3, <5>1
        <5>2. CASE i # Len(t)
          <6>1. PICK n1 \in Nat : n1 = Len(t)
            BY <3>1
          <6>2. i \in 1..(n1 - 1) /\ i + 1 \in 1..n1
            BY <5>2, <6>1
          <6>3. QED
            BY <3>2, <3>3, <6>1, <6>2
        <5>3. QED
          BY <5>1, <5>2
      <4>2. QED
        BY <3>2, <3>3, <4>1, SeqEqual
    <3>5. ByteSum(Tail(u)) = ByteSum(Tail(t)) + Cost(x) /\ ByteSum(Tail(t)) \in Nat
      BY <3>1, <3>4, ByteSumAppend, ByteSumOver
    <3>6. Right(t)
      BY <1>2, <2>1, <2>4, <3>1
    <3>7. Cost(t[1]) \in Nat
      BY <3>1, CostPositive
    <3>8. QED
      BY <2>2, <3>2, <3>5, <3>6, <3>7
  <2>5. QED
    BY <2>3, <2>4
<1>3. Nat \subseteq G
  <2> HIDE DEF G
  <2> QED BY <1>1, <1>2, NatSets
<1>4. Len(s) \in G
  <2> HIDE DEF G
  <2> QED BY <1>3, LenProperties
<1>5. QED
  BY <1>4

-----------------------------------------------------------------------------
(* The byte counter.                                                       *)

LEMMA BytesInit == ASSUME Init PROVE BytesAccurate
<1>1. Contents = <<>>
  BY DEF Init, Contents
<1>2. QED
  BY <1>1, ByteSumEmpty DEF Init, BytesAccurate

\* The head slot is the oldest entry.
LEMMA HeadSlot ==
    ASSUME RInv, count > 0
    PROVE  /\ Contents # <<>> /\ Contents[1] = buf[head]
           /\ sz[head] = Cost(buf[head]) /\ buf[head] \in Item
<1>1. /\ Contents \in Seq(Item) /\ Len(Contents) = count
  BY ContentsTyped
<1>2. cap \in Nat \ {0} /\ head \in 0..(cap - 1) /\ count \in 1..cap
  BY RulesAssumption DEF RInv, TypeOK
<1>3. Contents # <<>> /\ Contents[1] = buf[head]
  <2>1. (head + 1 - 1) % cap = head
    BY <1>2
  <2>2. Contents[1] = buf[(head + 1 - 1) % cap]
    BY <1>2 DEF Contents
  <2>3. QED
    BY <1>1, <1>2, <2>1, <2>2
<1>4. sz[head] = Cost(buf[head]) /\ buf[head] \in Item
  BY <1>2 DEF RInv, SlotsInWindow, Window
<1>5. QED
  BY <1>3, <1>4

LEMMA PopOldestBytes ==
    ASSUME RInv, BytesAccurate, count > 0, PopOldest
    PROVE  BytesAccurate'
<1>1. /\ Contents \in Seq(Item) /\ Len(Contents) = count
      /\ Contents' = Tail(Contents)
  BY ContentsTyped, PopOldestKeeps
<1>3. Contents # <<>> /\ Contents[1] = buf[head]
  BY HeadSlot
<1>4. sz[head] = Cost(buf[head]) /\ buf[head] \in Item
  BY HeadSlot
<1>5. bytes' = bytes - sz[head]
  BY DEF PopOldest
<1>6. bytes = ByteSum(Contents)
  BY DEF BytesAccurate
<1>7. ByteSum(Tail(Contents)) = ByteSum(Contents) - Cost(Contents[1])
  BY <1>1, <1>3, ByteSumTail
<1>8. bytes' = ByteSum(Contents')
  BY <1>1, <1>3, <1>4, <1>5, <1>6, <1>7
<1>9. QED
  BY <1>8 DEF BytesAccurate

LEMMA InsertBytes ==
    ASSUME RInv, BytesAccurate, count < cap, NEW x \in Item, Insert(x)
    PROVE  BytesAccurate'
<1>1. Contents \in Seq(Item) /\ Contents' = Append(Contents, x)
  BY ContentsTyped, InsertKeeps
<1>2. bytes' = bytes + Cost(x) /\ bytes = ByteSum(Contents)
  BY DEF Insert, BytesAccurate
<1>3. bytes' = ByteSum(Contents')
  BY <1>1, <1>2, ByteSumAppend
<1>4. QED
  BY <1>3 DEF BytesAccurate

LEMMA BytesNext ==
    ASSUME RInv, BytesAccurate, [Next]_vars PROVE BytesAccurate'
<1>0. /\ CallType /\ count \in Nat /\ cap \in Nat
      /\ MaxItems \in Nat \ {0}
  BY RulesAssumption DEF RInv, TypeOK
<1>1. ASSUME Contents' = Contents, bytes' = bytes PROVE BytesAccurate'
  BY <1>1 DEF BytesAccurate
<1>2. CASE UNCHANGED ringVars
  BY <1>1, <1>2, SameArray DEF ringVars
<1>3. CASE PushGrow
  BY <1>1, <1>3, GrowKeeps DEF PushGrow, Grow
<1>4. CASE PushInsert
  BY <1>0, <1>4, CallOf, InsertBytes DEF PushInsert, Inserting
<1>5. CASE PushMakeRoom \/ PushEvict \/ PopNext \/ DrainNext
  BY <1>0, <1>5, PopOldestBytes DEF PushMakeRoom, PushEvict, PopNext, DrainNext
<1>6. QED
  BY <1>2, <1>3, <1>4, <1>5
     DEF Next, PushBegin, PopBegin, DrainBegin, Begin, PushReturn, PopReturn,
         DrainReturn, Return, vars, ringVars

-----------------------------------------------------------------------------
(* Sequences cut in two.                                                   *)

LEMMA Cut ==
    ASSUME NEW s \in Seq(Item), NEW k \in 0..Len(s)
    PROVE  /\ Without(s, k) \in Seq(Item) /\ Len(Without(s, k)) = Len(s) - k
           /\ \A i \in 1..(Len(s) - k) : Without(s, k)[i] = s[k + i]
           /\ SubSeq(s, 1, k) \in Seq(Item) /\ Len(SubSeq(s, 1, k)) = k
           /\ \A i \in 1..k : SubSeq(s, 1, k)[i] = s[i]
<1>1. Len(s) \in Nat /\ \A i \in 1..Len(s) : s[i] \in Item
  BY ElementOfSeq
<1>2. /\ SubSeq(s, k + 1, Len(s)) \in Seq(Item)
      /\ Len(SubSeq(s, k + 1, Len(s)))
           = IF k + 1 <= Len(s) THEN Len(s) - (k + 1) + 1 ELSE 0
      /\ \A i \in 1..(Len(s) - (k + 1) + 1) :
           SubSeq(s, k + 1, Len(s))[i] = s[(k + 1) + i - 1]
  <2>1. \A i \in (k + 1)..Len(s) : s[i] \in Item
    BY <1>1
  <2>2. QED
    BY <1>1, <2>1, SubSeqProperties
<1>3. /\ SubSeq(s, 1, k) \in Seq(Item)
      /\ Len(SubSeq(s, 1, k)) = IF 1 <= k THEN k - 1 + 1 ELSE 0
      /\ \A i \in 1..(k - 1 + 1) : SubSeq(s, 1, k)[i] = s[1 + i - 1]
  <2>1. \A i \in 1..k : s[i] \in Item
    BY <1>1
  <2>2. QED
    BY <1>1, <2>1, SubSeqProperties
<1>4. Len(SubSeq(s, k + 1, Len(s))) = Len(s) - k
  BY <1>1, <1>2
<1>5. \A i \in 1..(Len(s) - k) : SubSeq(s, k + 1, Len(s))[i] = s[k + i]
  <2> TAKE i \in 1..(Len(s) - k)
  <2>1. i \in 1..(Len(s) - (k + 1) + 1) /\ (k + 1) + i - 1 = k + i
    BY <1>1
  <2>2. SubSeq(s, k + 1, Len(s))[i] = s[(k + 1) + i - 1]
    BY <1>2, <2>1
  <2>3. QED
    BY <2>1, <2>2
<1>6. Len(SubSeq(s, 1, k)) = k
  BY <1>1, <1>3
<1>7. \A i \in 1..k : SubSeq(s, 1, k)[i] = s[i]
  <2> TAKE i \in 1..k
  <2>1. i \in 1..(k - 1 + 1) /\ 1 + i - 1 = i
    BY <1>1
  <2>2. SubSeq(s, 1, k)[i] = s[1 + i - 1]
    BY <1>3, <2>1
  <2>3. QED
    BY <2>1, <2>2
<1>8. QED
  BY <1>2, <1>3, <1>4, <1>5, <1>6, <1>7 DEF Without

LEMMA CutEnds ==
    ASSUME NEW s \in Seq(Item)
    PROVE  /\ Without(s, 0) = s /\ SubSeq(s, 1, 0) = <<>>
           /\ SubSeq(s, 1, Len(s)) = s
<1>1. Len(s) \in Nat /\ 0 \in 0..Len(s) /\ Len(s) \in 0..Len(s)
  OBVIOUS
<1>2. /\ Without(s, 0) \in Seq(Item) /\ Len(Without(s, 0)) = Len(s)
      /\ \A i \in 1..Len(s) : Without(s, 0)[i] = s[i]
  BY <1>1, Cut
<1>3. /\ SubSeq(s, 1, Len(s)) \in Seq(Item) /\ Len(SubSeq(s, 1, Len(s))) = Len(s)
      /\ \A i \in 1..Len(s) : SubSeq(s, 1, Len(s))[i] = s[i]
  BY <1>1, Cut
<1>4. SubSeq(s, 1, 0) \in Seq(Item) /\ Len(SubSeq(s, 1, 0)) = 0
  BY <1>1, Cut
<1>5. QED
  BY <1>2, <1>3, <1>4, SeqEqual, EmptySeq

\* The cut moves by one entry.
LEMMA CutMoves ==
    ASSUME NEW s \in Seq(Item), NEW k \in 0..(Len(s) - 1)
    PROVE  /\ Tail(Without(s, k)) = Without(s, k + 1)
           /\ Without(s, k)[1] = s[k + 1]
           /\ Append(SubSeq(s, 1, k), s[k + 1]) = SubSeq(s, 1, k + 1)
<1>1. PICK n \in Nat : n = Len(s)
  OBVIOUS
<1>2. k \in 0..n /\ k + 1 \in 0..n /\ k \in 0..(n - 1) /\ s[k + 1] \in Item
  BY <1>1, ElementOfSeq
<1>3. /\ Without(s, k) \in Seq(Item) /\ Len(Without(s, k)) = n - k
      /\ \A i \in 1..(n - k) : Without(s, k)[i] = s[k + i]
      /\ SubSeq(s, 1, k) \in Seq(Item) /\ Len(SubSeq(s, 1, k)) = k
      /\ \A i \in 1..k : SubSeq(s, 1, k)[i] = s[i]
  BY <1>1, <1>2, Cut
<1>4. PICK m \in Nat : m = k + 1
  BY <1>2
<1>5. /\ Without(s, m) \in Seq(Item) /\ Len(Without(s, m)) = n - m
      /\ \A i \in 1..(n - m) : Without(s, m)[i] = s[m + i]
      /\ SubSeq(s, 1, m) \in Seq(Item) /\ Len(SubSeq(s, 1, m)) = m
      /\ \A i \in 1..m : SubSeq(s, 1, m)[i] = s[i]
  BY <1>1, <1>2, <1>4, Cut
<1>6. Without(s, k)[1] = s[k + 1] /\ Without(s, k) # <<>>
  BY <1>2, <1>3
<1>7. /\ Tail(Without(s, k)) \in Seq(Item)
      /\ Len(Tail(Without(s, k))) = n - k - 1
      /\ \A i \in 1..(n - k - 1) : Tail(Without(s, k))[i] = Without(s, k)[i + 1]
  BY <1>2, <1>3, <1>6, HeadTailProperties
<1>8. Tail(Without(s, k)) = Without(s, m)
  <2>1. \A i \in 1..(n - m) : Tail(Without(s, k))[i] = Without(s, m)[i]
    <3> TAKE i \in 1..(n - m)
    <3> DEFINE j == i + 1
    <3>1. i \in 1..(n - k - 1) /\ j \in 1..(n - k) /\ k + j = m + i
      BY <1>2, <1>4
    <3>2. Tail(Without(s, k))[i] = Without(s, k)[j]
      BY <1>7, <3>1
    <3> HIDE DEF j
    <3>3. Without(s, k)[j] = s[k + j]
      BY <1>3, <3>1
    <3>4. Without(s, m)[i] = s[m + i]
      BY <1>5
    <3>5. QED
      BY <3>1, <3>2, <3>3, <3>4, Zenon
  <2>2. n - m = n - k - 1
    BY <1>2, <1>4
  <2>3. QED
    BY <1>5, <1>7, <2>1, <2>2, SeqEqual
<1>9. Append(SubSeq(s, 1, k), s[k + 1]) = SubSeq(s, 1, m)
  <2>1. /\ Append(SubSeq(s, 1, k), s[k + 1]) \in Seq(Item)
        /\ Len(Append(SubSeq(s, 1, k), s[k + 1])) = m
        /\ \A i \in 1..k : Append(SubSeq(s, 1, k), s[k + 1])[i] = s[i]
        /\ Append(SubSeq(s, 1, k), s[k + 1])[m] = s[m]
    BY <1>2, <1>3, <1>4, AppendProperties
  <2>2. \A i \in 1..m : Append(SubSeq(s, 1, k), s[k + 1])[i] = s[i]
    BY <1>2, <1>4, <2>1
  <2>3. QED
    BY <1>5, <2>1, <2>2, SeqEqual
<1>10. QED
  BY <1>4, <1>6, <1>8, <1>9

\* Cutting and adding at the other end commute.
LEMMA CutAppend ==
    ASSUME NEW s \in Seq(Item), NEW k \in 0..Len(s), NEW x \in Item
    PROVE  Append(Without(s, k), x) = Without(Append(s, x), k)
<1>1. PICK n \in Nat : n = Len(s)
  OBVIOUS
<1>2. PICK t \in Seq(Item) : t = Append(s, x)
  BY AppendProperties
<1>3. /\ Len(t) = n + 1 /\ t[n + 1] = x
      /\ \A i \in 1..n : t[i] = s[i]
  BY <1>1, <1>2, AppendProperties
<1>4. k \in 0..n /\ k \in 0..Len(t)
  BY <1>1, <1>3
<1>5. /\ Without(s, k) \in Seq(Item) /\ Len(Without(s, k)) = n - k
      /\ \A i \in 1..(n - k) : Without(s, k)[i] = s[k + i]
  BY <1>1, Cut
<1>6. /\ Without(t, k) \in Seq(Item) /\ Len(Without(t, k)) = n + 1 - k
      /\ \A i \in 1..(n + 1 - k) : Without(t, k)[i] = t[k + i]
  <2>1. PICK m \in Nat : m = Len(t)
    OBVIOUS
  <2>2. /\ Without(t, k) \in Seq(Item) /\ Len(Without(t, k)) = m - k
        /\ \A i \in 1..(m - k) : Without(t, k)[i] = t[k + i]
    BY <1>4, <2>1, Cut
  <2>3. m = n + 1
    BY <1>3, <2>1
  <2>4. QED
    BY <2>2, <2>3
<1>7. /\ Append(Without(s, k), x) \in Seq(Item)
      /\ Len(Append(Without(s, k), x)) = n - k + 1
      /\ \A i \in 1..(n - k) : Append(Without(s, k), x)[i] = s[k + i]
      /\ Append(Without(s, k), x)[n - k + 1] = x
  BY <1>4, <1>5, AppendProperties
<1>8. \A i \in 1..(n + 1 - k) : Append(Without(s, k), x)[i] = Without(t, k)[i]
  <2> TAKE i \in 1..(n + 1 - k)
  <2>1. CASE i = n - k + 1
    <3>1. k + i = n + 1
      BY <1>4, <2>1
    <3>2. QED
      BY <1>3, <1>6, <1>7, <2>1, <3>1
  <2>2. CASE i # n - k + 1
    <3>1. i \in 1..(n - k) /\ k + i \in 1..n
      BY <1>4, <2>2
    <3>2. QED
      BY <1>3, <1>6, <1>7, <3>1
  <2>3. QED
    BY <2>1, <2>2
<1>9. n - k + 1 = n + 1 - k
  BY <1>4
<1>10. Append(Without(s, k), x) = Without(t, k)
  BY <1>6, <1>7, <1>8, <1>9, SeqEqual
<1>11. QED
  BY <1>2, <1>10

-----------------------------------------------------------------------------
(* The running call keeps to the rules of BoundedFifo.                     *)

\* Too many entries, or too many bytes in more than one entry.
LEMMA TooMany ==
    ASSUME NEW s, Len(s) > MaxItems PROVE ~Fits(s)
  BY RulesAssumption DEF Fits

LEMMA MakeRoomOK ==
    ASSUME NEW p \in Seq(Item), NEW s, NEW x, NEW d,
           PushOK(x, FALSE, d, p, s), Len(s) = MaxItems
    PROVE  PushOK(x, FALSE, d + 1, p, Tail(s))
<1>1. PICK n \in Nat : n = Len(p)
  OBVIOUS
<1>2. d \in 0..n /\ s = Without(p, d)
  BY <1>1 DEF PushOK
<1>3. MaxItems = n - d /\ MaxItems \in Nat \ {0}
  BY <1>1, <1>2, Cut, RulesAssumption
<1>4. d \in 0..(n - 1) /\ d + 1 \in 0..n /\ n - (d + 1) + 1 >= MaxItems
  BY <1>2, <1>3
<1>5. Tail(s) = Without(p, d + 1)
  BY <1>1, <1>2, <1>4, CutMoves
<1>6. QED
  BY <1>1, <1>4, <1>5 DEF PushOK

LEMMA InsertOK ==
    ASSUME NEW p \in Seq(Item), NEW s, NEW x \in Item, NEW d,
           PushOK(x, FALSE, d, p, s)
    PROVE  PushOK(x, TRUE, d, p, Append(s, x))
<1>1. PICK n \in Nat : n = Len(p)
  OBVIOUS
<1>2. /\ d \in 0..n /\ s = Without(p, d)
      /\ d > 0 => n - d + 1 >= MaxItems
  BY <1>1 DEF PushOK
<1>3. PICK all \in Seq(Item) : all = Append(p, x)
  BY AppendProperties
<1>4. Len(all) = n + 1
  BY <1>1, <1>3, AppendProperties
<1>5. Append(s, x) = Without(all, d)
  BY <1>1, <1>2, <1>3, CutAppend
<1>6. ASSUME NEW j \in 0..(d - 1) PROVE ~Fits(Without(all, j))
  <2>1. j \in 0..Len(all) /\ n + 1 - j > MaxItems
    BY <1>2, <1>4, RulesAssumption
  <2>2. Len(Without(all, j)) = Len(all) - j
    BY <2>1, Cut
  <2>3. Len(Without(all, j)) > MaxItems
    BY <1>4, <2>1, <2>2
  <2>4. QED
    BY <2>3, TooMany
<1>7. QED
  BY <1>1, <1>2, <1>3, <1>5, <1>6 DEF PushOK

LEMMA EvictOK ==
    ASSUME NEW p \in Seq(Item), NEW s, NEW x \in Item, NEW d,
           PushOK(x, TRUE, d, p, s), Len(s) > 1, OverBudget(ByteSum(s))
    PROVE  PushOK(x, TRUE, d + 1, p, Tail(s))
<1>1. PICK n \in Nat : n = Len(p)
  OBVIOUS
<1>2. PICK all \in Seq(Item) : all = Append(p, x)
  BY AppendProperties
<1>3. /\ d \in 0..n /\ s = Without(all, d)
      /\ \A j \in 0..(d - 1) : ~Fits(Without(all, j))
  BY <1>1, <1>2 DEF PushOK
<1>4. PICK m \in Nat : m = Len(all) /\ m = n + 1
  BY <1>1, <1>2, AppendProperties
<1>5. d \in 0..m
  BY <1>3, <1>4
<1>6. Len(s) = m - d
  <2>1. d \in 0..Len(all)
    BY <1>4, <1>5
  <2>2. Len(Without(all, d)) = Len(all) - d
    BY <2>1, Cut
  <2>3. QED
    BY <1>3, <1>4, <2>2
<1>7. d \in 0..(m - 1) /\ d + 1 \in 0..n
  BY <1>3, <1>4, <1>5, <1>6
<1>8. Tail(s) = Without(all, d + 1)
  BY <1>3, <1>4, <1>7, CutMoves
<1>9. ~Fits(s)
  <2>1. ~(Len(s) <= 1)
    BY <1>4, <1>5, <1>6
  <2>2. QED
    BY <2>1, Zenon DEF Fits
<1>10. ASSUME NEW j \in 0..((d + 1) - 1) PROVE ~Fits(Without(all, j))
  <2>1. j = d \/ j \in 0..(d - 1)
    BY <1>3
  <2>2. QED
    BY <1>3, <1>9, <2>1
<1>11. QED
  BY <1>1, <1>2, <1>7, <1>8, <1>10 DEF PushOK

\* Taking one more entry.
LEMMA TakeOK ==
    ASSUME NEW p \in Seq(Item), NEW s, NEW out, TakenOK(out, p, s), Len(s) > 0
    PROVE  /\ out \in Seq(Item) /\ s[1] \in Item
           /\ Len(Append(out, s[1])) = Len(out) + 1
           /\ TakenOK(Append(out, s[1]), p, Tail(s))
           /\ Len(s) = Len(p) - Len(out)
           /\ Append(out, s[1]) = SubSeq(p, 1, Len(out) + 1)
<1>1. PICK n \in Nat : n = Len(p)
  OBVIOUS
<1>2. PICK k : k = Len(out)
  OBVIOUS
<1>3. k \in 0..n /\ out = SubSeq(p, 1, k) /\ s = Without(p, k)
  BY <1>1, <1>2 DEF TakenOK
<1>4. Len(s) = n - k /\ out \in Seq(Item)
  BY <1>1, <1>3, Cut
<1>5. k \in 0..(n - 1) /\ k + 1 \in 0..n
  BY <1>3, <1>4
<1>6. /\ Tail(s) = Without(p, k + 1) /\ s[1] = p[k + 1]
      /\ Append(out, s[1]) = SubSeq(p, 1, k + 1)
  BY <1>1, <1>3, <1>5, CutMoves
<1>7. p[k + 1] \in Item
  BY <1>1, <1>5, ElementOfSeq
<1>8. Len(Append(out, s[1])) = k + 1
  BY <1>2, <1>4, <1>6, <1>7, AppendProperties
<1>9. QED
  BY <1>1, <1>2, <1>4, <1>5, <1>6, <1>7, <1>8 DEF TakenOK

LEMMA MidBegin ==
    ASSUME RInv, NEW c, Begin(c),
           \/ \E x \in Item :
                c = [op |-> "push", item |-> x, inserted |-> FALSE, dropped |-> 0]
           \/ \E n, m \in Limit :
                c = [op |-> "pop", maxItems |-> n, maxBytes |-> m,
                     out |-> <<>>, batchBytes |-> 0]
           \/ c = [op |-> "drain", out |-> <<>>]
    PROVE  MidCall'
<1>1. /\ Contents' = Contents /\ call' = c /\ pre' = Contents
      /\ Contents \in Seq(Item)
  BY SameArray, ContentsTyped DEF Begin
<1>2. /\ Without(Contents, 0) = Contents /\ SubSeq(Contents, 1, 0) = <<>>
      /\ 0 \in 0..Len(Contents) /\ Len(<<>>) = 0
  BY <1>1, CutEnds
<1>3. \A x : PushOK(x, FALSE, 0, Contents, Contents)
  BY <1>2 DEF PushOK
<1>4. TakenOK(<<>>, Contents, Contents)
  BY <1>2 DEF TakenOK
<1>5. \A n, m \in Limit : WithinBatch(Contents, 0, n, m)
  BY RingbufAssumption DEF WithinBatch
<1>6. CASE \E x \in Item :
              c = [op |-> "push", item |-> x, inserted |-> FALSE, dropped |-> 0]
  <2>1. /\ call'.op = "push" /\ call'.inserted = FALSE /\ call'.dropped = 0
    BY <1>1, <1>6
  <2>2. PushOK(call'.item, call'.inserted, call'.dropped, pre', Contents')
    BY <1>1, <1>3, <2>1, Zenon
  <2>3. QED
    BY <2>1, <2>2 DEF MidCall
<1>7. CASE \E n, m \in Limit :
              c = [op |-> "pop", maxItems |-> n, maxBytes |-> m,
                   out |-> <<>>, batchBytes |-> 0]
  <2>1. /\ call'.op = "pop" /\ call'.out = <<>> /\ call'.batchBytes = 0
        /\ call'.maxItems \in Limit /\ call'.maxBytes \in Limit
    BY <1>1, <1>7
  <2>2. TakenOK(call'.out, pre', Contents')
    BY <1>1, <1>4, <2>1, Zenon
  <2>3. call'.batchBytes = ByteSum(call'.out)
    BY <2>1, ByteSumEmpty
  <2>4. Len(call'.out) = 0
    BY <1>2, <2>1
  <2>5. WithinBatch(pre', Len(call'.out), call'.maxItems, call'.maxBytes)
    BY <1>1, <1>5, <2>1, <2>4, Zenon
  <2>6. QED
    BY <2>1, <2>2, <2>3, <2>5 DEF MidCall
<1>8. CASE c = [op |-> "drain", out |-> <<>>]
  <2>1. call'.op = "drain" /\ call'.out = <<>>
    BY <1>1, <1>8
  <2>2. TakenOK(call'.out, pre', Contents')
    BY <1>1, <1>4, <2>1, Zenon
  <2>3. QED
    BY <2>1, <2>2 DEF MidCall
<1>9. QED
  BY <1>6, <1>7, <1>8

LEMMA MidPush ==
    ASSUME RInv, BytesAccurate, MidCall,
           PushGrow \/ PushMakeRoom \/ PushInsert \/ PushEvict
    PROVE  MidCall'
<1>1. /\ call \in [op : {"push"}, item : Item, inserted : BOOLEAN, dropped : Nat]
      /\ pre \in Seq(Item) /\ pre' = pre
      /\ PushOK(call.item, call.inserted, call.dropped, pre, Contents)
  BY CallOf DEF PushGrow, PushMakeRoom, PushInsert, PushEvict, Inserting,
     Evicting, RInv, TypeOK, MidCall, Continue
<1>2. Contents \in Seq(Item) /\ Len(Contents) = count
  BY ContentsTyped
<1>3. CASE PushGrow
  <2>1. Contents' = Contents /\ call' = call
    BY <1>3, GrowKeeps DEF PushGrow, Continue
  <2>2. call'.op = "push"
    BY <1>1, <2>1
  <2>3. PushOK(call'.item, call'.inserted, call'.dropped, pre', Contents')
    BY <1>1, <2>1, Zenon
  <2>4. QED
    BY <2>2, <2>3 DEF MidCall
<1>4. CASE PushMakeRoom
  <2>1. count > 0
    BY <1>4, RulesAssumption DEF PushMakeRoom
  <2>2. /\ Contents' = Tail(Contents) /\ ~call.inserted
        /\ call' = [call EXCEPT !.dropped = @ + 1]
    BY <1>4, <2>1, PopOldestKeeps DEF PushMakeRoom, Inserting, Continue
  <2>3. call.inserted = FALSE
    BY <1>1, <2>2
  <2>4. PushOK(call.item, FALSE, call.dropped + 1, pre, Contents')
    BY <1>1, <1>2, <1>4, <2>2, <2>3, MakeRoomOK DEF PushMakeRoom
  <2>5. /\ call'.op = "push" /\ call'.item = call.item
        /\ call'.inserted = FALSE /\ call'.dropped = call.dropped + 1
    BY <1>1, <2>2, <2>3
  <2>6. QED
    BY <1>1, <2>4, <2>5 DEF MidCall
<1>5. CASE PushInsert
  <2>1. /\ Contents' = Append(Contents, call.item) /\ ~call.inserted
        /\ call' = [call EXCEPT !.inserted = TRUE]
    BY <1>1, <1>5, InsertKeeps DEF PushInsert, Inserting, Continue
  <2>2. call.inserted = FALSE
    BY <1>1, <2>1
  <2>3. PushOK(call.item, TRUE, call.dropped, pre, Contents')
    BY <1>1, <2>1, <2>2, InsertOK
  <2>4. /\ call'.op = "push" /\ call'.item = call.item
        /\ call'.inserted = TRUE /\ call'.dropped = call.dropped
    BY <1>1, <2>1
  <2>5. QED
    BY <1>1, <2>3, <2>4 DEF MidCall
<1>6. CASE PushEvict
  <2>1. /\ Contents' = Tail(Contents) /\ call.inserted
        /\ call' = [call EXCEPT !.dropped = @ + 1]
    BY <1>6, PopOldestKeeps DEF PushEvict, Evicting, Continue, RInv, TypeOK
  <2>2. call.inserted = TRUE
    BY <1>1, <2>1
  <2>3. PushOK(call.item, TRUE, call.dropped + 1, pre, Contents')
    BY <1>1, <1>2, <1>6, <2>1, <2>2, EvictOK DEF PushEvict, BytesAccurate
  <2>4. /\ call'.op = "push" /\ call'.item = call.item
        /\ call'.inserted = TRUE /\ call'.dropped = call.dropped + 1
    BY <1>1, <2>1, <2>2
  <2>5. QED
    BY <1>1, <2>3, <2>4 DEF MidCall
<1>7. QED
  BY <1>3, <1>4, <1>5, <1>6

\* PopBatch stops exactly where the rule says a longer batch would not do.
LEMMA BatchRule ==
    ASSUME RInv, MidCall, call.op = "pop", count > 0
    PROVE  /\ BatchFull <=> ~WithinBatch(pre, Len(call.out) + 1,
                                         call.maxItems, call.maxBytes)
           /\ call.batchBytes + sz[head]
                = ByteSum(Append(call.out, Contents[1]))
<1>1. /\ call \in [op : {"pop"}, maxItems : Limit, maxBytes : Limit,
                    out : Seq(Item), batchBytes : Nat]
      /\ pre \in Seq(Item)
      /\ TakenOK(call.out, pre, Contents)
      /\ call.batchBytes = ByteSum(call.out)
  BY CallOf DEF RInv, TypeOK, MidCall
<1>2. Contents \in Seq(Item) /\ Len(Contents) > 0
  BY ContentsTyped DEF RInv, TypeOK
<1>3. /\ call.out \in Seq(Item) /\ Contents[1] \in Item
      /\ Append(call.out, Contents[1]) = SubSeq(pre, 1, Len(call.out) + 1)
  BY <1>1, <1>2, TakeOK
<1>4. /\ ByteSum(Append(call.out, Contents[1]))
           = call.batchBytes + Cost(Contents[1])
      /\ sz[head] = Cost(Contents[1])
  BY <1>1, <1>3, ByteSumAppend, HeadSlot
<1> DEFINE k == Len(call.out)
           n == call.maxItems
           m == call.maxBytes
           sum == call.batchBytes + sz[head]
<1>5. k \in Nat /\ n \in Int /\ m \in Int /\ sum \in Int
  <2>1. sz[head] \in Nat
    BY <1>3, <1>4, CostPositive
  <2>2. /\ call.batchBytes \in Nat
        /\ call.maxItems \in Limit /\ call.maxBytes \in Limit
    BY <1>1
  <2>3. k \in Nat
    BY <1>3, LenProperties
  <2>4. n \in Int /\ m \in Int
    BY <2>2, RingbufAssumption
  <2>5. sum \in Int
    BY <2>1, <2>2
  <2>6. QED
    BY <2>3, <2>4, <2>5
<1>6. BatchFull <=> (n > 0 /\ k >= n) \/ (k > 0 /\ m > 0 /\ sum > m)
  BY DEF BatchFull
<1>7. WithinBatch(pre, k + 1, n, m) <=>
        /\ n > 0 => k + 1 <= n
        /\ m > 0 /\ k + 1 > 1 => sum <= m
  <2>1. ByteSum(SubSeq(pre, 1, k + 1)) = sum
    BY <1>3, <1>4
  <2>2. QED
    BY <2>1, Zenon DEF WithinBatch
<1>8. BatchFull <=> ~WithinBatch(pre, k + 1, n, m)
  <2> HIDE DEF k, n, m, sum
  <2> QED BY <1>5, <1>6, <1>7
<1>9. QED
  BY <1>4, <1>8

LEMMA MidTake ==
    ASSUME RInv, BytesAccurate, MidCall, PopNext \/ DrainNext
    PROVE  MidCall'
<1>1. /\ Contents \in Seq(Item) /\ Len(Contents) = count /\ count > 0
      /\ Contents' = Tail(Contents) /\ pre' = pre /\ pre \in Seq(Item)
      /\ Contents[1] = buf[head]
  BY ContentsTyped, PopOldestKeeps, HeadSlot
     DEF PopNext, DrainNext, Continue, RInv, TypeOK
<1>2. TakenOK(call.out, pre, Contents)
  BY DEF PopNext, DrainNext, MidCall
<1>3. TakenOK(Append(call.out, buf[head]), pre, Contents')
  BY <1>1, <1>2, TakeOK
<1>4. CASE DrainNext
  <2>1. call'.op = "drain" /\ call'.out = Append(call.out, buf[head])
    <3>1. call \in [op : {"drain"}, out : Seq(Item)]
      BY <1>4, CallOf DEF DrainNext, RInv, TypeOK
    <3>2. QED
      BY <1>4, <3>1 DEF DrainNext, Continue
  <2>2. QED
    BY <1>1, <1>3, <2>1 DEF MidCall
<1>5. CASE PopNext
  <2>1. /\ call'.op = "pop" /\ call'.out = Append(call.out, buf[head])
        /\ call'.maxItems = call.maxItems /\ call'.maxBytes = call.maxBytes
        /\ call'.batchBytes = call.batchBytes + sz[head]
    <3>1. call \in [op : {"pop"}, maxItems : Limit, maxBytes : Limit,
                    out : Seq(Item), batchBytes : Nat]
      BY <1>5, CallOf DEF PopNext, RInv, TypeOK
    <3>2. QED
      BY <1>5, <3>1 DEF PopNext, Continue
  <2>2. Len(Append(call.out, buf[head])) = Len(call.out) + 1
    BY <1>1, <1>2, TakeOK
  <2>3. /\ WithinBatch(pre, Len(call.out) + 1, call.maxItems, call.maxBytes)
        /\ call.batchBytes + sz[head] = ByteSum(Append(call.out, buf[head]))
    BY <1>1, <1>5, BatchRule DEF PopNext
  <2>4. QED
    BY <1>1, <1>3, <2>1, <2>2, <2>3 DEF MidCall
<1>6. QED
  BY <1>4, <1>5

LEMMA MidNext ==
    ASSUME RInv, BytesAccurate, MidCall, [Next]_vars PROVE MidCall'
<1>1. CASE UNCHANGED vars
  <2>1. Contents' = Contents
    BY <1>1, SameArray DEF vars, ringVars
  <2>2. QED
    BY <1>1, <2>1 DEF vars, MidCall
<1>2. CASE PushReturn \/ PopReturn \/ DrainReturn
  BY <1>2 DEF PushReturn, PopReturn, DrainReturn, Return, MidCall, NoCall
<1>3. CASE PushGrow \/ PushMakeRoom \/ PushInsert \/ PushEvict
  BY <1>3, MidPush
<1>4. CASE PopNext \/ DrainNext
  BY <1>4, MidTake
<1>5. ASSUME NEW c, Begin(c),
             \/ \E x \in Item :
                  c = [op |-> "push", item |-> x, inserted |-> FALSE, dropped |-> 0]
             \/ \E n, m \in Limit :
                  c = [op |-> "pop", maxItems |-> n, maxBytes |-> m,
                       out |-> <<>>, batchBytes |-> 0]
             \/ c = [op |-> "drain", out |-> <<>>]
      PROVE  MidCall'
  BY <1>5, MidBegin
<1>6. QED
  BY <1>1, <1>2, <1>3, <1>4, <1>5 DEF Next, PushBegin, PopBegin, DrainBegin

-----------------------------------------------------------------------------
(* The steps under the mutex amount to one atomic operation.               *)

\* A call that begins or goes on is invisible to the other callers.
LEMMA NotVisible ==
    ASSUME UNCHANGED ret, call' # NoCall,
           \/ call = NoCall /\ pre' = Contents
           \/ call # NoCall /\ pre' = pre
    PROVE  UNCHANGED Fifo!fifoVars
  BY DEF Fifo!fifoVars

LEMMA NotIdle == \A c : c.op \in {"push", "pop", "drain"} => c # NoCall
  BY DEF NoCall

\* The rules BoundedFifo takes from FifoRules are the ones the buffer takes.
LEMMA SameRules ==
    /\ \A s, k : Fifo!Without(s, k) = Without(s, k)
    /\ \A s, k : Fifo!FewestDropped(s, k) <=> FewestDropped(s, k)
    /\ \A s, k, n, m : Fifo!IsBatch(s, k, n, m) <=> IsBatch(s, k, n, m)
<1>1. \A s, k : Fifo!Without(s, k) = Without(s, k)
  BY DEF Fifo!Without, Without
<1>2. \A x : Fifo!Cost(x) = Cost(x)
  BY DEF Fifo!Cost, Cost
<1>3. \A s : Fifo!ByteSum(s) = ByteSum(s)
  <2>1. \A f : Fifo!SumFunction(f) = SumFunction(f)
    BY DEF Fifo!SumFunction, Fifo!SumFunctionOnSet, Fifo!FoldFunctionOnSet,
       Fifo!MapThenFoldSet, SumFunction, SumFunctionOnSet, FoldFunctionOnSet,
       MapThenFoldSet
  <2>2. \A s : [i \in DOMAIN s |-> Fifo!Cost(s[i])]
               = [i \in DOMAIN s |-> Cost(s[i])]
    BY <1>2
  <2>3. QED
    BY <2>1, <2>2, Zenon DEF Fifo!ByteSum, ByteSum
<1>4. \A n : Fifo!OverBudget(n) <=> OverBudget(n)
  BY DEF Fifo!OverBudget, OverBudget
<1>5. \A s : Fifo!Fits(s) <=> Fits(s)
  BY <1>3, <1>4, Zenon DEF Fifo!Fits, Fits
<1>6. \A s, k : Fifo!FewestDropped(s, k) <=> FewestDropped(s, k)
  BY <1>1, <1>5, Zenon DEF Fifo!FewestDropped, FewestDropped
<1>7. \A s, k, n, m : Fifo!WithinBatch(s, k, n, m) <=> WithinBatch(s, k, n, m)
  BY <1>3, Zenon DEF Fifo!WithinBatch, WithinBatch
<1>8. \A s, k, n, m : Fifo!IsBatch(s, k, n, m) <=> IsBatch(s, k, n, m)
  BY <1>7, ZenonT(40) DEF Fifo!IsBatch, IsBatch
<1>9. QED
  BY <1>1, <1>6, <1>8

\* The queue BoundedFifo sees around a step that returns.
LEMMA FifoView ==
    ASSUME call # NoCall, call' = NoCall
    PROVE  /\ (IF call = NoCall THEN Contents ELSE pre) = pre
           /\ (IF call = NoCall THEN Contents ELSE pre)' = Contents'
  OBVIOUS

LEMMA PushReturnFifo ==
    ASSUME RInv, BytesAccurate, MidCall, PushReturn
    PROVE  Fifo!Next
<1>1. /\ call \in [op : {"push"}, item : Item, inserted : BOOLEAN, dropped : Nat]
      /\ call.inserted
      /\ pre \in Seq(Item)
      /\ PushOK(call.item, call.inserted, call.dropped, pre, Contents)
      /\ ~(OverBudget(bytes) /\ count > 1)
  BY CallOf DEF PushReturn, Evicting, RInv, TypeOK, MidCall
<1>2. /\ Contents \in Seq(Item) /\ Len(Contents) = count
      /\ count \in 0..cap /\ cap \in 0..MaxItems
      /\ bytes = ByteSum(Contents)
  BY ContentsTyped DEF RInv, TypeOK, BytesAccurate
<1>3. PICK all \in Seq(Item) : all = Append(pre, call.item)
  BY <1>1, AppendProperties
<1>4. Len(all) = Len(pre) + 1
  BY <1>1, <1>3, AppendProperties
<1>5. PICK d : d = call.dropped
  OBVIOUS
<1>6. /\ d \in 0..Len(pre) /\ Contents = Without(all, d)
      /\ \A j \in 0..(d - 1) : ~Fits(Without(all, j))
  BY <1>1, <1>3, <1>5 DEF PushOK
<1>7. Fits(Contents)
  <2>1. Len(Contents) <= MaxItems
    BY <1>2, RulesAssumption
  <2>2. Len(Contents) <= 1 \/ ~OverBudget(ByteSum(Contents))
    <3>1. CASE count > 1
      BY <1>1, <1>2, <3>1, Zenon
    <3>2. CASE ~(count > 1)
      <4>1. Len(Contents) <= 1
        BY <1>2, <3>2, RulesAssumption
      <4>2. QED
        BY <4>1, Zenon
    <3>3. QED
      BY <3>1, <3>2
  <2>3. QED
    BY <2>1, <2>2, Zenon DEF Fits
<1>8. d \in 0..Len(all) /\ FewestDropped(all, d)
  <2>1. d \in 0..Len(all)
    BY <1>1, <1>4, <1>6
  <2>2. QED
    BY <1>6, <1>7, <2>1 DEF FewestDropped
<1>9. call # NoCall /\ call' = NoCall /\ ret' = <<"push", d>>
      /\ Contents' = Contents
  BY <1>1, <1>5, SameArray, NotIdle DEF PushReturn, Return
<1>10. Fifo!Push(call.item)
  <2>1. \E k \in 0..Len(all) : /\ FewestDropped(all, k)
                               /\ Contents' = Without(all, k)
                               /\ ret' = <<"push", k>>
    BY <1>6, <1>8, <1>9, Zenon
  <2>2. \E k \in 0..Len(Append(pre, call.item)) :
           /\ FewestDropped(Append(pre, call.item), k)
           /\ Contents' = Without(Append(pre, call.item), k)
           /\ ret' = <<"push", k>>
    BY <1>3, <2>1, Zenon
  <2>3. QED
    BY <1>9, <2>2, SameRules, FifoView, Zenon DEF Fifo!Push
<1>11. QED
  BY <1>1, <1>10 DEF Fifo!Next

LEMMA PopReturnFifo ==
    ASSUME RInv, MidCall, PopReturn
    PROVE  Fifo!Next
<1>1. /\ call \in [op : {"pop"}, maxItems : Limit, maxBytes : Limit,
                    out : Seq(Item), batchBytes : Nat]
      /\ call.op = "pop"
      /\ pre \in Seq(Item)
      /\ TakenOK(call.out, pre, Contents)
      /\ WithinBatch(pre, Len(call.out), call.maxItems, call.maxBytes)
      /\ count = 0 \/ BatchFull
  BY CallOf DEF PopReturn, RInv, TypeOK, MidCall
<1>2. /\ Contents \in Seq(Item) /\ Len(Contents) = count /\ count \in Nat
  BY ContentsTyped, RulesAssumption DEF RInv, TypeOK
<1>3. PICK k : k = Len(call.out)
  OBVIOUS
<1>4. /\ k \in 0..Len(pre) /\ Contents = Without(pre, k)
      /\ call.out = SubSeq(pre, 1, k)
  BY <1>1, <1>3 DEF TakenOK
<1>5. count = Len(pre) - k
  BY <1>1, <1>2, <1>4, Cut
<1>6. k < Len(pre) =>
        ~WithinBatch(pre, k + 1, call.maxItems, call.maxBytes)
  <2> SUFFICES ASSUME k < Len(pre)
               PROVE  ~WithinBatch(pre, k + 1, call.maxItems, call.maxBytes)
    OBVIOUS
  <2>1. count > 0
    BY <1>1, <1>4, <1>5
  <2>2. QED
    BY <1>1, <1>3, <2>1, BatchRule
<1>7. IsBatch(pre, k, call.maxItems, call.maxBytes)
  BY <1>1, <1>3, <1>4, <1>6 DEF IsBatch
<1>8. /\ call # NoCall /\ call' = NoCall /\ ret' = <<"pop", call.out>>
      /\ Contents' = Contents
  BY <1>1, SameArray, NotIdle DEF PopReturn, Return
<1>9. Fifo!PopBatch(call.maxItems, call.maxBytes)
  <2>1. \E j \in 0..Len(pre) : /\ IsBatch(pre, j, call.maxItems, call.maxBytes)
                               /\ Contents' = Without(pre, j)
                               /\ ret' = <<"pop", SubSeq(pre, 1, j)>>
    BY <1>4, <1>7, <1>8, Zenon
  <2>2. QED
    BY <1>8, <2>1, SameRules, FifoView, Zenon DEF Fifo!PopBatch
<1>10. call.maxItems \in Limit /\ call.maxBytes \in Limit
  BY <1>1
<1>11. QED
  BY <1>9, <1>10 DEF Fifo!Next

LEMMA DrainReturnFifo ==
    ASSUME RInv, MidCall, DrainReturn
    PROVE  Fifo!Next
<1>1. /\ call.op = "drain" /\ pre \in Seq(Item) /\ count = 0
      /\ TakenOK(call.out, pre, Contents)
  BY DEF DrainReturn, RInv, TypeOK, MidCall
<1>2. Contents \in Seq(Item) /\ Len(Contents) = 0
  BY <1>1, ContentsTyped
<1>3. Len(call.out) = Len(pre)
  <2>1. PICK k : k = Len(call.out)
    OBVIOUS
  <2>2. k \in 0..Len(pre) /\ Contents = Without(pre, k)
    BY <1>1, <2>1 DEF TakenOK
  <2>3. Len(Contents) = Len(pre) - k
    BY <1>1, <2>2, Cut
  <2>4. QED
    BY <1>1, <1>2, <2>1, <2>2, <2>3
<1>4. call.out = pre /\ Contents = <<>>
  BY <1>1, <1>2, <1>3, CutEnds, EmptySeq DEF TakenOK
<1>5. /\ call # NoCall /\ call' = NoCall /\ ret' = <<"drain", call.out>>
      /\ Contents' = Contents
  BY <1>1, SameArray, NotIdle DEF DrainReturn, Return
<1>6. Fifo!DrainAll
  BY <1>4, <1>5 DEF Fifo!DrainAll
<1>7. QED
  BY <1>6 DEF Fifo!Next

LEMMA FifoInit == ASSUME Init PROVE MidCall /\ Fifo!Init
<1>1. Contents = <<>>
  BY DEF Init, Contents
<1>2. QED
  BY <1>1 DEF Init, MidCall, NoCall, Fifo!Init

LEMMA FifoNext ==
    ASSUME RInv, BytesAccurate, MidCall, [Next]_vars
    PROVE  [Fifo!Next]_Fifo!fifoVars
<1>1. CASE UNCHANGED vars
  <2>1. Contents' = Contents
    BY <1>1, SameArray DEF vars, ringVars
  <2>2. QED
    BY <1>1, <2>1 DEF vars, Fifo!fifoVars
<1>2. CASE PushReturn \/ PopReturn \/ DrainReturn
  BY <1>2, PushReturnFifo, PopReturnFifo, DrainReturnFifo
<1>3. ASSUME NEW c, c.op \in {"push", "pop", "drain"}, Begin(c)
      PROVE  UNCHANGED Fifo!fifoVars
  BY <1>3, NotVisible, NotIdle DEF Begin
<1>4. ASSUME NEW c, c.op \in {"push", "pop", "drain"}, Continue(c),
             call.op \in {"push", "pop", "drain"}
      PROVE  UNCHANGED Fifo!fifoVars
  BY <1>4, NotVisible, NotIdle DEF Continue
<1>5. CASE PushGrow \/ PushMakeRoom \/ PushInsert \/ PushEvict \/ PopNext
           \/ DrainNext
  <2>1. CallType
    BY DEF RInv, TypeOK
  <2>2. CASE PushGrow \/ PushMakeRoom \/ PushInsert \/ PushEvict
    <3>1. call \in [op : {"push"}, item : Item, inserted : BOOLEAN, dropped : Nat]
      BY <2>1, <2>2, CallOf DEF PushGrow, PushMakeRoom, PushInsert, PushEvict,
         Inserting, Evicting
    <3>2. PICK c : Continue(c) /\ c.op = "push"
      BY <2>2, <3>1 DEF PushGrow, PushMakeRoom, PushInsert, PushEvict
    <3>3. QED
      BY <1>4, <3>1, <3>2
  <2>3. CASE PopNext
    <3>1. call \in [op : {"pop"}, maxItems : Limit, maxBytes : Limit,
                    out : Seq(Item), batchBytes : Nat]
      BY <2>1, <2>3, CallOf DEF PopNext
    <3>2. PICK c : Continue(c) /\ c.op = "pop"
      <4> DEFINE next == [call EXCEPT !.out = Append(@, buf[head]),
                                      !.batchBytes = @ + sz[head]]
      <4>1. Continue(next)
        BY <2>3 DEF PopNext
      <4>2. next.op = "pop"
        BY <3>1
      <4>3. QED
        BY <4>1, <4>2
    <3>3. QED
      BY <1>4, <3>1, <3>2
  <2>4. CASE DrainNext
    <3>1. call \in [op : {"drain"}, out : Seq(Item)]
      BY <2>1, <2>4, CallOf DEF DrainNext
    <3>2. PICK c : Continue(c) /\ c.op = "drain"
      BY <2>4, <3>1 DEF DrainNext
    <3>3. QED
      BY <1>4, <3>1, <3>2
  <2>5. QED
    BY <1>5, <2>2, <2>3, <2>4
<1>6. CASE \/ \E x \in Item : PushBegin(x)
           \/ \E n, m \in Limit : PopBegin(n, m)
           \/ DrainBegin
  <2>1. ASSUME NEW x \in Item, PushBegin(x)
        PROVE  UNCHANGED Fifo!fifoVars
    <3>1. PICK c : c = [op |-> "push", item |-> x,
                        inserted |-> FALSE, dropped |-> 0]
      OBVIOUS
    <3>2. c.op = "push" /\ Begin(c)
      BY <2>1, <3>1 DEF PushBegin
    <3>3. QED
      BY <1>3, <3>2
  <2>2. ASSUME NEW n \in Limit, NEW m \in Limit, PopBegin(n, m)
        PROVE  UNCHANGED Fifo!fifoVars
    <3>1. PICK c : c = [op |-> "pop", maxItems |-> n, maxBytes |-> m,
                        out |-> <<>>, batchBytes |-> 0]
      OBVIOUS
    <3>2. c.op = "pop" /\ Begin(c)
      BY <2>2, <3>1 DEF PopBegin
    <3>3. QED
      BY <1>3, <3>2
  <2>3. CASE DrainBegin
    <3>1. PICK c : c = [op |-> "drain", out |-> <<>>]
      OBVIOUS
    <3>2. c.op = "drain" /\ Begin(c)
      BY <2>3, <3>1 DEF DrainBegin
    <3>3. QED
      BY <1>3, <3>2
  <2>4. QED
    BY <1>6, <2>1, <2>2, <2>3
<1>7. QED
  BY <1>1, <1>2, <1>5, <1>6 DEF Next

LEMMA RefAlways == Spec => [](RInv /\ BytesAccurate /\ MidCall)
<1>1. Init => RInv /\ BytesAccurate /\ MidCall
  BY RInvInit, BytesInit, FifoInit
<1>2. RInv /\ BytesAccurate /\ MidCall /\ [Next]_vars
        => (RInv /\ BytesAccurate /\ MidCall)'
  BY RInvNext, BytesNext, MidNext
<1>3. QED
  BY <1>1, <1>2, PTL DEF Spec

\* The byte counter of the buffer is the sum over its live entries after every
\* step of Push, PopBatch and DrainAll: the budget never drifts.
THEOREM BytesAccurateHolds == Spec => []BytesAccurate
  BY RefAlways, PTL

\* The loops of ringbuf.go under the mutex implement the atomic operations of
\* BoundedFifo: Push drops the fewest oldest entries that make the newest one
\* fit, PopBatch takes the longest batch within its limits, DrainAll takes
\* everything, and all of them keep the order.
THEOREM FifoImplemented == Spec => FifoSpec
<1>1. Init => Fifo!Init
  BY FifoInit
<1>2. RInv /\ BytesAccurate /\ MidCall /\ [Next]_vars
        => [Fifo!Next]_Fifo!fifoVars
  BY FifoNext
<1>3. Spec => Fifo!Init /\ [][Fifo!Next]_Fifo!fifoVars
  BY <1>1, <1>2, RefAlways, PTL DEF Spec
<1>4. QED
  BY <1>3 DEF FifoSpec, Fifo!Spec
=============================================================================
