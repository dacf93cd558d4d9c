------------------------------- MODULE Ringbuf -------------------------------
(***************************************************************************)
(* The circular buffer of src/internal/ringbuf/ringbuf.go, one action per  *)
(* step an operation takes while it holds the mutex.  Callers are          *)
(* serialised by the mutex, so one call record is enough: the next call    *)
(* starts when the one before it has returned.                             *)
(***************************************************************************)
EXTENDS FifoRules

CONSTANTS
    Item,           \* what is buffered
    Limit,          \* the item and byte limits PopBatch is called with
    Zero,           \* the zero value of the element type
    MinInitialCap   \* the first capacity grow allocates

ASSUME RingbufAssumption ==
    /\ Zero \notin Item
    /\ Item \subseteq DOMAIN SizeOf
    /\ Limit \subseteq Int
    /\ MinInitialCap \in Nat \ {0}

VARIABLES
    buf,    \* the backing array, a function on 0..cap-1
    sz,     \* the charged size of each slot
    cap,    \* the length of buf and of sz
    head,   \* index of the oldest entry
    count,  \* number of live entries
    bytes,  \* their charged bytes
    call,   \* the running call and its local variables
    ret,    \* the result of the last call that returned
    pre     \* the contents when the running call took the mutex (history)

ringVars == <<buf, sz, cap, head, count, bytes>>
vars == <<buf, sz, cap, head, count, bytes, call, ret, pre>>

NoCall == [op |-> "none"]

\* The live entries, oldest first.
Contents == [i \in 1..count |-> buf[(head + i - 1) % cap]]

-----------------------------------------------------------------------------
\* New: no backing array is allocated until the first Push.
Init ==
    /\ buf = <<>> /\ sz = <<>> /\ cap = 0
    /\ head = 0 /\ count = 0 /\ bytes = 0
    /\ call = NoCall /\ ret = <<>> /\ pre = <<>>

\* Mutant of PopOldest: the popped slot keeps its reference.
PopOldestKeepsReference ==
    /\ bytes' = bytes - sz[head]
    /\ head' = (head + 1) % cap
    /\ count' = count - 1
    /\ UNCHANGED <<buf, sz, cap>>

\* popOldest: forget the head entry and release its reference.
PopOldest ==
    /\ bytes' = bytes - sz[head]
    /\ buf' = [buf EXCEPT ![head] = Zero]
    /\ head' = (head + 1) % cap
    /\ count' = count - 1
    /\ UNCHANGED <<sz, cap>>

\* Mutant of NewCap: the doubled capacity is not clamped to MaxItems.
NewCapUnclamped == IF 2 * cap < MinInitialCap THEN MinInitialCap ELSE 2 * cap

NewCap ==
    LET doubled == IF 2 * cap < MinInitialCap THEN MinInitialCap ELSE 2 * cap
    IN  IF doubled > MaxItems THEN MaxItems ELSE doubled

\* Mutant of Grow: the entries are copied in place and not re-linearised.
GrowInPlace ==
    /\ cap' = NewCap
    /\ buf' = [i \in 0..(NewCap - 1) |-> IF i < cap THEN buf[i] ELSE Zero]
    /\ sz' = [i \in 0..(NewCap - 1) |-> IF i < cap THEN sz[i] ELSE 0]
    /\ head' = 0
    /\ UNCHANGED <<count, bytes>>

\* grow: a larger array with the entries moved to its start.
Grow ==
    /\ cap' = NewCap
    /\ buf' = [i \in 0..(NewCap - 1) |->
                 IF i < count THEN buf[(head + i) % cap] ELSE Zero]
    /\ sz' = [i \in 0..(NewCap - 1) |->
                 IF i < count THEN sz[(head + i) % cap] ELSE 0]
    /\ head' = 0
    /\ UNCHANGED <<count, bytes>>

TailSlot == (head + count) % cap

\* Mutant of Insert: the budget is charged the estimate before its clamp.
InsertUnclamped(x) ==
    /\ buf' = [buf EXCEPT ![TailSlot] = x]
    /\ sz' = [sz EXCEPT ![TailSlot] = Cost(x)]
    /\ count' = count + 1
    /\ bytes' = bytes + SizeOf[x]
    /\ UNCHANGED <<cap, head>>

Insert(x) ==
    /\ buf' = [buf EXCEPT ![TailSlot] = x]
    /\ sz' = [sz EXCEPT ![TailSlot] = Cost(x)]
    /\ count' = count + 1
    /\ bytes' = bytes + Cost(x)
    /\ UNCHANGED <<cap, head>>

-----------------------------------------------------------------------------
Begin(c) ==
    /\ call = NoCall
    /\ call' = c
    /\ pre' = Contents
    /\ UNCHANGED <<ringVars, ret>>

Return(r) ==
    /\ ret' = r
    /\ call' = NoCall
    /\ pre' = <<>>
    /\ UNCHANGED ringVars

Continue(c) ==
    /\ call' = c
    /\ UNCHANGED <<ret, pre>>

\* Push: grow or make room, insert, then evict down to the byte budget.
PushBegin(x) ==
    Begin([op |-> "push", item |-> x, inserted |-> FALSE, dropped |-> 0])

Inserting == call.op = "push" /\ ~call.inserted
Evicting  == call.op = "push" /\ call.inserted

PushGrow ==
    /\ Inserting
    /\ count = cap /\ count < MaxItems
    /\ Grow
    /\ Continue(call)

PushMakeRoom ==
    /\ Inserting
    /\ count = MaxItems
    /\ PopOldest
    /\ Continue([call EXCEPT !.dropped = @ + 1])

PushInsert ==
    /\ Inserting
    /\ count < cap
    /\ count < MaxItems
    /\ Insert(call.item)
    /\ Continue([call EXCEPT !.inserted = TRUE])

PushEvict ==
    /\ Evicting
    /\ OverBudget(bytes) /\ count > 1
    /\ PopOldest
    /\ Continue([call EXCEPT !.dropped = @ + 1])

PushReturn ==
    /\ Evicting
    /\ ~(OverBudget(bytes) /\ count > 1)
    /\ Return(<<"push", call.dropped>>)

\* PopBatch: take the head entry until a limit of the caller is reached.
PopBegin(n, m) ==
    Begin([op |-> "pop", maxItems |-> n, maxBytes |-> m,
           out |-> <<>>, batchBytes |-> 0])

BatchFull ==
    \/ call.maxItems > 0 /\ Len(call.out) >= call.maxItems
    \/ /\ Len(call.out) > 0 /\ call.maxBytes > 0
       /\ call.batchBytes + sz[head] > call.maxBytes

PopNext ==
    /\ call.op = "pop"
    /\ count > 0 /\ ~BatchFull
    /\ PopOldest
    /\ Continue([call EXCEPT !.out = Append(@, buf[head]),
                             !.batchBytes = @ + sz[head]])

PopReturn ==
    /\ call.op = "pop"
    /\ count = 0 \/ BatchFull
    /\ Return(<<"pop", call.out>>)

\* DrainAll: take every entry.
DrainBegin == Begin([op |-> "drain", out |-> <<>>])

DrainNext ==
    /\ call.op = "drain"
    /\ count > 0
    /\ PopOldest
    /\ Continue([call EXCEPT !.out = Append(@, buf[head])])

DrainReturn ==
    /\ call.op = "drain"
    /\ count = 0
    /\ Return(<<"drain", call.out>>)

Next ==
    \/ \E x \in Item : PushBegin(x)
    \/ PushGrow \/ PushMakeRoom \/ PushInsert \/ PushEvict \/ PushReturn
    \/ \E n, m \in Limit : PopBegin(n, m)
    \/ PopNext \/ PopReturn
    \/ DrainBegin \/ DrainNext \/ DrainReturn

Spec == Init /\ [][Next]_vars

-----------------------------------------------------------------------------
(* Properties.                                                             *)

CallType ==
    \/ call = NoCall
    \/ call \in [op : {"push"}, item : Item, inserted : BOOLEAN, dropped : Nat]
    \/ call \in [op : {"pop"}, maxItems : Limit, maxBytes : Limit,
                 out : Seq(Item), batchBytes : Nat]
    \/ call \in [op : {"drain"}, out : Seq(Item)]

\* Types, and the capacity never exceeds the configured item bound (grow's
\* clamp): the backing array cannot outgrow MaxQueue.
TypeOK ==
    /\ cap \in 0..MaxItems
    /\ count \in 0..cap
    /\ head \in 0..(cap - 1) \/ (cap = 0 /\ head = 0)
    /\ buf \in [0..(cap - 1) -> Item \cup {Zero}]
    /\ sz \in [0..(cap - 1) -> Nat]
    /\ bytes \in Int
    /\ CallType
    /\ pre \in Seq(Item)

\* The slot i is one of the count live ones that start at head.
Live(i) == \E k \in 0..(count - 1) : i = (head + k) % cap

\* Live slots hold items with the size Push charged for them, and a slot that
\* is not live holds no reference: a popped event can be collected, whatever
\* mix of wrap-arounds, growth and evictions came before.
SlotsAccurate ==
    \A i \in 0..(cap - 1) :
        IF Live(i) THEN buf[i] \in Item /\ sz[i] = Cost(buf[i])
                   ELSE buf[i] = Zero

\* The byte counter is the sum over the live entries at every step: no
\* sequence of pushes, evictions, pops and drains makes the budget drift.
BytesAccurate == bytes = ByteSum(Contents)

\* The steps under the mutex amount to one atomic operation of BoundedFifo,
\* which takes effect when the call returns; so between calls it is within both
\* bounds, up to one oversized entry.
Fifo == INSTANCE BoundedFifo
            WITH q <- IF call = NoCall THEN Contents ELSE pre
FifoSpec == Fifo!Spec
=============================================================================
