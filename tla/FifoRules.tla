------------------------------ MODULE FifoRules ------------------------------
(***************************************************************************)
(* What the bounded pending buffer (src/internal/ringbuf) decides, stated  *)
(* on plain sequences and without any loop: which entries an overflow      *)
(* drops and which entries a batch takes.  The oldest entry comes first.   *)
(* BoundedFifo, Ringbuf and Worker share these rules.                      *)
(***************************************************************************)
EXTENDS Integers, Sequences, Functions

CONSTANTS
    MaxItems,   \* the bound on buffered entries
    MaxBytes,   \* the bound on their estimated bytes; none when not positive
    SizeOf      \* SizeOf[x]: the estimated size of the item x

ASSUME RulesAssumption ==
    /\ MaxItems \in Nat \ {0}
    /\ MaxBytes \in Int
    /\ \A x \in DOMAIN SizeOf : SizeOf[x] \in Int

\* The charged size: an item never costs less than one byte.
Cost(x) == IF SizeOf[x] < 1 THEN 1 ELSE SizeOf[x]

ByteSum(s) == SumFunction([i \in DOMAIN s |-> Cost(s[i])])

OverBudget(n) == MaxBytes > 0 /\ n > MaxBytes

\* The newest entry stays even when it alone is over the byte budget.
Fits(s) == Len(s) <= MaxItems /\ (Len(s) <= 1 \/ ~OverBudget(ByteSum(s)))

Without(s, k) == SubSeq(s, k + 1, Len(s))

\* Dropping the k oldest entries of s makes it fit, and dropping fewer does not.
FewestDropped(s, k) ==
    /\ k \in 0..Len(s)
    /\ Fits(Without(s, k))
    /\ \A j \in 0..(k - 1) : ~Fits(Without(s, j))

\* A batch of the k oldest entries respects the limits a caller gave.
WithinBatch(s, k, n, m) ==
    /\ n > 0 => k <= n
    /\ m > 0 /\ k > 1 => ByteSum(SubSeq(s, 1, k)) <= m

\* k is the longest batch s has under those limits.
IsBatch(s, k, n, m) ==
    /\ k \in 0..Len(s)
    /\ WithinBatch(s, k, n, m)
    /\ k < Len(s) => ~WithinBatch(s, k + 1, n, m)
=============================================================================
