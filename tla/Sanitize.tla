------------------------------ MODULE Sanitize ------------------------------
(***************************************************************************)
(* sanitizeValue and sanitizeReflect of src/attributes.go on one attribute *)
(* value: a heap of nodes, walked depth first by recursive calls.  Values  *)
(* of a kind are one node kind: "nil", "nilpointer", "scalar" (strings and *)
(* numbers), "text" (an error, a Stringer, or what fmt prints without      *)
(* going deeper), "map" (maps, slices, arrays), "struct" and "pointer".    *)
(***************************************************************************)
EXTENDS Integers, Sequences, SequencesExt, FiniteSetsExt

CONSTANTS
    Node,       \* the nodes of the heap; the value is Root
    Root,
    MaxDepth,   \* maxAttrDepth
    MaxHeight,  \* bound of the call stack
    Heap        \* the heaps to start from: [Node -> kind and kids]

ASSUME SanitizeAssumption ==
    /\ IsFiniteSet(Node) /\ Root \in Node
    /\ MaxDepth \in Nat /\ MaxHeight \in Nat
    /\ \A h \in Heap : \A n \in Node :
          /\ h[n].kids \subseteq Node
          /\ h[n].kind \in {"nil", "nilpointer", "scalar", "text"} => h[n].kids = {}
          /\ h[n].kind = "pointer" => Cardinality(h[n].kids) = 1

VARIABLES
    heap,       \* the heap; nothing writes to it
    copying,    \* the calls to make, the current one first
    copied      \* what the calls returned, by node, depth and form

copyVars == <<heap, copying, copied>>

Call(n, d, f, h) == [node |-> n, depth |-> d, fun |-> f, height |-> h]

CopyInit ==
    /\ heap \in Heap
    /\ copying = <<Call(Root, 0, "sanitize", 1)>>
    /\ copied = {}

-----------------------------------------------------------------------------
(* One call.                                                               *)

Cur == Head(copying)
NodeKind == heap[Cur.node].kind

\* The current call is of f and makes calls for each of ns, one frame higher.
Recurse(f, ns, d, g) ==
    /\ copying # <<>> /\ Cur.fun = f /\ Cur.height < MaxHeight
    /\ copying' = SetToSeq({Call(n, d, g, Cur.height + 1) : n \in ns}) \o Tail(copying)
    /\ UNCHANGED heap

Returns(form) ==
    copied' = copied \cup {[node |-> Cur.node, depth |-> Cur.depth, form |-> form]}

BelowBound == Cur.depth < MaxDepth

\* A nil pointer is nil only if it is looked at, and text at the depth bound.
Nil ==
    /\ Recurse("sanitize", {}, 0, "sanitize")
    /\ NodeKind = "nil" \/ (NodeKind = "nilpointer" /\ BelowBound)
    /\ Returns("nil")

\* At the depth bound, and for a struct, fmt prints the value with all that
\* hangs from it.
Sprint ==
    /\ Recurse("sanitize", {Cur.node}, 0, "print")
    /\ NodeKind # "nil" /\ (NodeKind = "struct" \/ ~BelowBound)
    /\ Returns("string")

\* Every number is kept as it is.
KeepScalar ==
    /\ Recurse("sanitize", {}, 0, "sanitize")
    /\ NodeKind = "scalar" /\ BelowBound
    /\ Returns(NodeKind)

Text ==
    /\ Recurse("sanitize", {}, 0, "sanitize")
    /\ NodeKind = "text" /\ BelowBound
    /\ Returns("string")

Copy ==
    /\ Recurse("sanitize", heap[Cur.node].kids, Cur.depth + 1, "sanitize")
    /\ NodeKind = "map" /\ BelowBound
    /\ Returns("copy")

\* Mutant of Follow: the pointer itself is sanitised again.
FollowItself ==
    /\ Recurse("sanitize", {Cur.node}, Cur.depth, "sanitize")
    /\ NodeKind = "pointer" /\ BelowBound
    /\ UNCHANGED copied

\* Mutant of Follow: a pointer counts as a level.
FollowDeeper ==
    /\ Recurse("sanitize", heap[Cur.node].kids, Cur.depth + 1, "sanitize")
    /\ NodeKind = "pointer" /\ BelowBound
    /\ UNCHANGED copied

\* A pointer is followed on the level it is on.
Follow ==
    /\ Recurse("sanitize", heap[Cur.node].kids, Cur.depth, "sanitize")
    /\ NodeKind = "pointer" /\ BelowBound
    /\ UNCHANGED copied

\* fmt prints maps, slices and structs to any depth, and a pointer as an address
\* unless it is the value given and points to one of these.
Nested == {"map", "struct"}

Printed(n) ==
    IF \/ heap[n].kind \in Nested
       \/ /\ heap[n].kind = "pointer" /\ Cur.depth = 0
          /\ \A m \in heap[n].kids : heap[m].kind \in Nested
    THEN heap[n].kids ELSE {}

FmtPrint ==
    /\ Recurse("print", Printed(Cur.node), Cur.depth + 1, "print")
    /\ UNCHANGED copied

CopyNext == Nil \/ Sprint \/ KeepScalar \/ Text \/ Copy \/ Follow \/ FmtPrint

CopySpec == CopyInit /\ [][CopyNext]_copyVars
FairCopySpec == CopySpec /\ WF_copyVars(CopyNext)

-----------------------------------------------------------------------------
(* Properties.                                                             *)

\* Where a chain of pointers from n ends, in a heap without cycles.
Followed(n) == IF heap[n].kind = "pointer" THEN CHOOSE x \in heap[n].kids : TRUE ELSE n

Target(n) ==
    LET chain[k \in 0..Cardinality(Node)] ==
            IF k = 0 THEN n ELSE Followed(chain[k - 1])
    IN  chain[Cardinality(Node)]

\* The nodes found d levels below the root, pointers not counted as levels.
Below(ns) == UNION {heap[Target(n)].kids : n \in {m \in ns : heap[Target(m)].kind = "map"}}

AtLevel(d) ==
    LET level[k \in 0..d] == IF k = 0 THEN {Root} ELSE Below(level[k - 1])
    IN  level[d]

FormOf(n) == CASE heap[n].kind = "map"                  -> "copy"
               [] heap[n].kind \in {"text", "struct"}   -> "string"
               [] heap[n].kind = "nilpointer"           -> "nil"
               [] OTHER                                 -> heap[n].kind

Expected ==
    (UNION {{[node |-> Target(n), depth |-> d, form |-> FormOf(Target(n))] :
                n \in AtLevel(d)} : d \in 0..(MaxDepth - 1)})
    \cup {[node |-> n, depth |-> MaxDepth,
           form |-> IF heap[n].kind = "nil" THEN "nil" ELSE "string"] :
             n \in AtLevel(MaxDepth)}

\* For a value without cycles the recursion (attributes.go:55-120) returns what
\* the levels of the value, taken one after the other, say it should.
CopyComplete == copying = <<>> => copied = Expected

\* For a value without cycles it returns at all.
Terminates == <>(copying = <<>>)

\* attributes.go:14 "maxAttrDepth bounds attribute nesting to avoid pathological
\* or cyclic input": no value takes the calls higher than its nodes and levels.
CyclesCut ==
    copying # <<>> => Cur.height <= MaxDepth + Cardinality(Node) + 2
=============================================================================
