---------------------------- MODULE CaptureProofs ----------------------------
(***************************************************************************)
(* Proofs about Capture for any number of requests, keys, options and      *)
(* captures: whose values an event may hold, what stands at each step of a *)
(* capture, and that a queued event is a copy nobody else refers to.  Last *)
(* what that copy holds, by the recursion of Sanitize.                     *)
(***************************************************************************)
EXTENDS Capture, Sanitize, SumProofs

-----------------------------------------------------------------------------
(* The inductive invariant.                                                *)

EventKind == {"error", "message", "panic"}
Capturing == {"assemble", "scrub", "hash", "finish"}

\* Who may have written what o, a request or the base scope, refers to, and
\* the nested maps it can reach.
Own(o) == {o, "base", "scrubber", "nobody"}
Reach(o) == {NoCell, CellOf[o], CellOf["base"]}

OwnValues(o, a) == \A k \in Key : a[k].by \in Own(o) /\ a[k].cell \in Reach(o)

ScopeOK(o, s) ==
    /\ s \in Scope
    /\ s.user.who \in Own(o)
    /\ s.fingerprint \in {"", "set"}
    /\ OwnValues(o, s.attributes)

ScopesOK ==
    /\ scopes \in [Request \cup {"base"} -> Scope]
    /\ \A o \in Request \cup {"base"} : ScopeOK(o, scopes[o])

\* Only a request that has not been served yet may carry the base scope.
CtxOK ==
    /\ ctx \in [Request -> Request \cup {"base", "none"}]
    /\ \A r \in Request : \/ ctx[r] \in {"none", r}
                          \/ ctx[r] = "base" /\ pc[r] = "arrive"

\* A nested map holds a scalar of its owner, or what BeforeSend wrote.
CellsOK ==
    /\ cells \in [Cell -> Value]
    /\ \A c \in Cell :
          /\ cells[c].cell = NoCell
          /\ \/ cells[c].scrub
             \/ \A o \in Request \cup {"base"} : CellOf[o] = c => cells[c].by = o

EventOf(options) ==
    [by : Request, kind : EventKind, user : Identity, level : Level,
     levelLocked : BOOLEAN, message : Message, fingerprint : Fingerprint,
     attributes : Attributes, option : options, edited : SUBSET Field]

\* The last word is BeforeSend's, then the call's, then the panic's.
LevelOK(e) ==
    IF "level" \in e.edited THEN e.level = "debug"
    ELSE IF e.option.level \in Level THEN e.level = e.option.level
    ELSE e.kind = "panic" => e.level = "fatal"

HashOK(e) == Hasher /\ e.user # Nobody => e.user.hashed

\* The event of r before its scope and options are applied, between the two,
\* and after.
Fresh(r, e) ==
    /\ e \in EventOf({<<>>})
    /\ e.by = r /\ e.user.who \in Own(r) /\ OwnValues(r, e.attributes)
    /\ e.fingerprint = "" /\ e.edited = {}
    /\ e.kind = "panic" => e.levelLocked /\ e.level = "fatal"

Scoped(r, e) ==
    /\ e \in EventOf({<<>>})
    /\ e.by = r /\ e.user.who \in Own(r) /\ OwnValues(r, e.attributes)
    /\ e.fingerprint \in {"", "set"} /\ e.edited = {}
    /\ e.kind = "panic" => e.level = "fatal"

Assembled(r, e) ==
    /\ e \in EventOf(Option)
    /\ e.by = r /\ e.user.who \in Own(r) /\ OwnValues(r, e.attributes)
    /\ e.fingerprint \in {"", "set"}
    /\ LevelOK(e)

StageOK(r, stage, e) ==
    /\ stage = "assemble" => Fresh(r, e)
    /\ stage \in {"scrub", "hash", "finish"} => Assembled(r, e)
    /\ stage = "finish" => HashOK(e)

EventsOK ==
    /\ pc \in [Request -> {"arrive", "handle"} \cup Capturing]
    /\ event = [r \in Request |-> event[r]]
    /\ \A r \in Request : StageOK(r, pc[r], event[r])

\* What a queued event is: a deep copy with nothing of other requests in it.
QueuedOK(e) ==
    /\ e \in EventOf(Option)
    /\ e.user.who \in Own(e.by)
    /\ HashOK(e) /\ LevelOK(e)
    /\ e.message = "clean" => e.fingerprint # "raw"
    /\ \A k \in Key : /\ e.attributes[k].cell = NoCell
                      /\ e.attributes[k].scrub \/ e.attributes[k].by \in Own(e.by)

QueueOK ==
    /\ queue \in Seq(EventOf(Option))
    /\ \A i \in DOMAIN queue : QueuedOK(queue[i])

CountsOK ==
    /\ calls \in [Request -> Nat]
    /\ captured \in Nat /\ dropped \in Nat /\ broken \in Nat

CInv == ScopesOK /\ CtxOK /\ CellsOK /\ EventsOK /\ QueueOK /\ CountsOK

-----------------------------------------------------------------------------
(* What the operators of the model keep.                                   *)

LEMMA ScalarOK ==
    \A w \in Writer : /\ Scalar(w) \in Value /\ Scalar(w).by = w
                      /\ Scalar(w).cell = NoCell
  BY DEF Scalar, Value

LEMMA RefOK ==
    \A c \in Cell : /\ Ref(c) \in Value /\ Ref(c).by = "nobody"
                    /\ Ref(c).cell = c
  BY DEF Ref, Value, Writer

LEMMA OwnWriters ==
    ASSUME NEW o \in Request \cup {"base"}
    PROVE  /\ Own(o) \subseteq Writer /\ CellOf[o] \in Cell
           /\ Own("base") \subseteq Own(o) /\ Reach("base") \subseteq Reach(o)
  BY CaptureAssumption DEF Own, Reach, Writer

LEMMA NoAttributesOK ==
    ASSUME NEW o
    PROVE  NoAttributes \in Attributes /\ OwnValues(o, NoAttributes)
<1>1. /\ Absent \in Value /\ Absent.by = "nobody" /\ Absent.cell = NoCell
  BY ScalarOK DEF Absent, Writer
<1>2. QED
  BY <1>1 DEF NoAttributes, Attributes, OwnValues, Own, Reach

LEMMA MergeOK ==
    ASSUME NEW o, NEW a \in Attributes, NEW b \in Attributes,
           OwnValues(o, a), OwnValues(o, b)
    PROVE  Merge(a, b) \in Attributes /\ OwnValues(o, Merge(a, b))
  BY DEF Merge, Attributes, OwnValues

LEMMA NobodyOK == Nobody \in Identity /\ Nobody.who = "nobody"
  BY DEF Nobody, Raw, Identity, Writer

LEMMA NoScopeOK == ASSUME NEW o PROVE ScopeOK(o, NoScope)
<1>1. NoScope \in Scope
  BY NobodyOK, NoAttributesOK DEF NoScope, Scope, Fingerprint
<1>2. QED
  BY <1>1, NobodyOK, NoAttributesOK DEF NoScope, ScopeOK, Own

LEMMA BaseScopeOK ==
    ASSUME NEW o \in Request \cup {"base"}, NEW s, ScopeOK("base", s)
    PROVE  ScopeOK(o, s)
  BY OwnWriters DEF ScopeOK, OwnValues

LEMMA CtxScopeOK ==
    ASSUME CInv, NEW r \in Request
    PROVE  ScopeOK(r, CtxScope(r))
<1>1. CASE ctx[r] = "none"
  BY <1>1, NoScopeOK DEF CtxScope
<1>2. CASE ctx[r] = r
  BY <1>2, CaptureAssumption DEF CtxScope, CInv, ScopesOK
<1>3. CASE ctx[r] = "base"
  <2>1. CtxScope(r) = scopes["base"] /\ ScopeOK("base", scopes["base"])
    BY <1>3 DEF CtxScope, CInv, ScopesOK
  <2>2. QED
    BY <2>1, BaseScopeOK
<1>4. QED
  BY <1>1, <1>2, <1>3 DEF CInv, CtxOK

LEMMA NewOK ==
    ASSUME NEW r \in Request, NEW kind \in EventKind
    PROVE  Fresh(r, New(r, kind))
<1>1. DefaultLevel(kind) \in Level /\ (kind = "panic" => DefaultLevel(kind) = "fatal")
  BY DEF DefaultLevel, EventKind, Level
<1>2. New(r, kind) \in EventOf({<<>>})
  BY <1>1, NobodyOK, NoAttributesOK DEF New, EventOf, Message, Fingerprint
<1>3. QED
  BY <1>1, <1>2, NobodyOK, NoAttributesOK DEF New, Fresh, Own

LEMMA ApplyScopeOK ==
    ASSUME NEW r \in Request, NEW e, Fresh(r, e), NEW s, ScopeOK(r, s),
           NEW g, g = ApplyScope(s, e)
    PROVE  Scoped(r, g)
<1> DEFINE user == IF s.user # Nobody THEN s.user ELSE e.user
           attributes == Merge(e.attributes, s.attributes)
           level == IF s.level # "unset" /\ ~e.levelLocked THEN s.level ELSE e.level
           fingerprint == IF s.fingerprint # "" THEN s.fingerprint ELSE e.fingerprint
           f == [e EXCEPT !.user = user, !.attributes = attributes,
                          !.level = level, !.fingerprint = fingerprint]
<1>1. g = f
  BY DEF ApplyScope
<1>2. e \in EventOf({<<>>}) /\ e.attributes \in Attributes /\ s \in Scope
      /\ s.attributes \in Attributes
  BY DEF Fresh, ScopeOK, EventOf, Scope
<1>3. user \in Identity /\ user.who \in Own(r)
  BY <1>2 DEF Fresh, ScopeOK, EventOf, Scope
<1>4. attributes \in Attributes /\ OwnValues(r, attributes)
  BY <1>2, MergeOK DEF Fresh, ScopeOK
<1>5. level \in Level /\ (e.kind = "panic" => level = "fatal")
  BY <1>2 DEF Fresh, EventOf, Scope
<1>6. fingerprint \in {"", "set"}
  BY DEF Fresh, ScopeOK
<1> HIDE DEF user, attributes, level, fingerprint
<1>7. /\ f \in EventOf({<<>>})
      /\ f.by = e.by /\ f.kind = e.kind /\ f.user = user /\ f.level = level
      /\ f.attributes = attributes /\ f.fingerprint = fingerprint
      /\ f.edited = e.edited
  BY <1>2, <1>3, <1>4, <1>5, <1>6 DEF EventOf, Fingerprint
<1>8. QED
  BY <1>1, <1>3, <1>4, <1>5, <1>6, <1>7 DEF Fresh, Scoped

LEMMA ApplyOptionOK ==
    ASSUME NEW r \in Request, NEW e, NEW o \in Option, Scoped(r, e)
    PROVE  Assembled(r, ApplyOption(o, e))
<1> USE DEF Scoped
<1> DEFINE nested == [k \in Key |-> Ref(CellOf[e.by])]
           user == IF o.user THEN Raw(e.by) ELSE e.user
           attributes == IF o.nested THEN Merge(e.attributes, nested) ELSE e.attributes
           level == IF o.level \in Level THEN o.level ELSE e.level
           fingerprint == IF o.fingerprint THEN "set" ELSE e.fingerprint
           f == [e EXCEPT !.user = user, !.attributes = attributes,
                          !.level = level, !.fingerprint = fingerprint, !.option = o]
<1>1. ApplyOption(o, e) = f
  BY DEF ApplyOption
<1>2. user \in Identity /\ user.who \in Own(r)
  BY DEF EventOf, Raw, Identity, Writer, Own
<1>3. nested \in Attributes /\ OwnValues(r, nested)
  BY OwnWriters, RefOK DEF Attributes, OwnValues, Own, Reach
<1>4. attributes \in Attributes /\ OwnValues(r, attributes)
  BY <1>3, MergeOK DEF EventOf
<1>5. level \in Level /\ fingerprint \in {"", "set"} /\ fingerprint \in Fingerprint
  BY DEF EventOf, Fingerprint
<1> HIDE DEF nested, user, attributes, fingerprint
<1>6. /\ f \in EventOf(Option)
      /\ f.by = r /\ f.user = user /\ f.attributes = attributes
      /\ f.level = level /\ f.option = o /\ f.kind = e.kind
      /\ f.fingerprint = fingerprint /\ f.edited = {}
  BY <1>2, <1>4, <1>5 DEF EventOf
<1>7. LevelOK(f)
  BY <1>6 DEF LevelOK
<1>8. QED
  BY <1>1, <1>2, <1>4, <1>5, <1>6, <1>7 DEF Assembled

\* Whichever fields BeforeSend rewrites.
LEMMA RewrittenOK ==
    ASSUME NEW r \in Request, NEW e, Assembled(r, e), NEW fs \in Edit
    PROVE  Assembled(r, Rewritten(e, fs))
<1> DEFINE user == IF "user" \in fs THEN Raw("scrubber") ELSE e.user
           message == IF "message" \in fs THEN "clean" ELSE e.message
           attributes == IF "attributes" \in fs
                         THEN [k \in Key |-> Scalar("scrubber")] ELSE e.attributes
           level == IF "level" \in fs THEN "debug" ELSE e.level
           fingerprint == IF "fingerprint" \in fs THEN "set"
                          ELSE IF "no fingerprint" \in fs THEN "" ELSE e.fingerprint
           edited == e.edited \cup fs
           f == [e EXCEPT !.user = user, !.message = message,
                          !.attributes = attributes, !.level = level,
                          !.fingerprint = fingerprint, !.edited = edited]
<1>0. e \in EventOf(Option) /\ fs \in SUBSET Field
  BY CaptureAssumption DEF Assembled
<1>1. user \in Identity /\ user.who \in Own(r)
  BY <1>0 DEF Assembled, EventOf, Raw, Identity, Writer, Own
<1>2. attributes \in Attributes /\ OwnValues(r, attributes)
  <2>1. LET a == [k \in Key |-> Scalar("scrubber")]
        IN  a \in Attributes /\ OwnValues(r, a)
    BY ScalarOK DEF Attributes, OwnValues, Own, Reach, Writer
  <2> QED
    BY <1>0, <2>1 DEF Assembled, EventOf
<1>3. Rewritten(e, fs) = f
  BY DEF Rewritten
<1>4. /\ message \in Message /\ level \in Level /\ edited \in SUBSET Field
      /\ fingerprint \in {"", "set"} /\ fingerprint \in Fingerprint
  BY <1>0 DEF Assembled, EventOf, Message, Level, Fingerprint
<1>5. /\ "level" \in edited <=> "level" \in fs \/ "level" \in e.edited
      /\ level = IF "level" \in fs THEN "debug" ELSE e.level
  OBVIOUS
<1> HIDE DEF user, message, attributes, level, fingerprint, edited
<1>6. /\ f \in EventOf(Option)
      /\ f.by = e.by /\ f.user = user /\ f.attributes = attributes
      /\ f.level = level /\ f.option = e.option /\ f.kind = e.kind
      /\ f.fingerprint = fingerprint /\ f.edited = edited
  BY <1>0, <1>1, <1>2, <1>4 DEF EventOf
<1> HIDE DEF f
<1>7. LevelOK(f)
  BY <1>5, <1>6 DEF Assembled, LevelOK
<1> QED
  BY <1>1, <1>2, <1>3, <1>4, <1>6, <1>7 DEF Assembled

LEMMA HashedOK ==
    ASSUME NEW r \in Request, NEW e, Assembled(r, e)
    PROVE  Assembled(r, Hash(e)) /\ HashOK(Hash(e))
<1> DEFINE user == IF Hasher /\ e.user # Nobody
                   THEN [e.user EXCEPT !.hashed = TRUE] ELSE e.user
           f == [e EXCEPT !.user = user]
<1>1. /\ user \in Identity /\ user.who = e.user.who
      /\ Hasher /\ user # Nobody => user.hashed
  BY DEF Assembled, EventOf, Identity
<1>2. Hash(e) = f
  BY DEF Hash
<1> HIDE DEF user
<1>3. /\ f \in EventOf(Option)
      /\ f.by = e.by /\ f.user = user /\ f.attributes = e.attributes
      /\ f.level = e.level /\ f.option = e.option /\ f.kind = e.kind
      /\ f.fingerprint = e.fingerprint /\ f.edited = e.edited
  BY <1>1 DEF Assembled, EventOf
<1>4. QED
  BY <1>1, <1>2, <1>3 DEF Assembled, LevelOK, HashOK

\* A deep copy holds what its values and the nested maps held.
LEMMA DeepOK ==
    ASSUME CInv, NEW r \in Request, NEW v \in Value,
           v.by \in Own(r), v.cell \in Reach(r)
    PROVE  /\ Deep(v) \in Value /\ Deep(v).cell = NoCell
           /\ Deep(v).scrub \/ Deep(v).by \in Own(r)
<1>1. CASE v.cell = NoCell
  BY <1>1 DEF Deep
<1>2. ASSUME NEW o \in {r, "base"}, v.cell = CellOf[o], v.cell # NoCell
      PROVE  /\ Deep(v) \in Value /\ Deep(v).cell = NoCell
             /\ Deep(v).scrub \/ Deep(v).by \in Own(r)
  <2>1. Deep(v) = cells[CellOf[o]] /\ CellOf[o] \in Cell
    BY <1>2, CaptureAssumption DEF Deep
  <2>2. QED
    BY <1>2, <2>1 DEF CInv, CellsOK, Own
<1>3. QED
  BY <1>1, <1>2 DEF Reach

LEMMA SanitizeOK ==
    ASSUME CInv, NEW r \in Request, NEW e, Assembled(r, e), HashOK(e)
    PROVE  QueuedOK(Sanitize(Finalize(e)))
<1> DEFINE fingerprint == IF e.fingerprint = "" THEN e.message ELSE e.fingerprint
           f == [e EXCEPT !.fingerprint = fingerprint]
           attributes == [k \in Key |-> Deep(f.attributes[k])]
           g == [f EXCEPT !.attributes = attributes]
<1>1. e \in EventOf(Option)
  BY DEF Assembled
<1>2. /\ fingerprint \in Fingerprint
      /\ e.message = "clean" => fingerprint # "raw"
  BY <1>1 DEF Assembled, EventOf, Fingerprint
<1>3. Sanitize(Finalize(e)) = g
  BY DEF Sanitize, Finalize
<1> HIDE DEF fingerprint
<1>4. /\ f \in EventOf(Option)
      /\ f.by = e.by /\ f.user = e.user /\ f.attributes = e.attributes
      /\ f.level = e.level /\ f.option = e.option /\ f.kind = e.kind
      /\ f.fingerprint = fingerprint /\ f.message = e.message
      /\ f.edited = e.edited
  BY <1>1, <1>2 DEF EventOf
<1> HIDE DEF f
<1>5. \A k \in Key : /\ attributes[k] \in Value
                     /\ attributes[k].cell = NoCell
                     /\ attributes[k].scrub \/ attributes[k].by \in Own(r)
  <2> TAKE k \in Key
  <2>1. /\ f.attributes[k] \in Value
        /\ f.attributes[k].by \in Own(r) /\ f.attributes[k].cell \in Reach(r)
    BY <1>1, <1>4 DEF Assembled, OwnValues, EventOf, Attributes
  <2>2. attributes[k] = Deep(f.attributes[k])
    OBVIOUS
  <2>3. QED
    BY <2>1, <2>2, DeepOK
<1>6. attributes \in Attributes
  <2>1. \A k \in Key : Deep(f.attributes[k]) \in Value
    BY <1>5
  <2>2. QED
    BY <2>1 DEF Attributes
<1> HIDE DEF attributes
<1>7. /\ g \in EventOf(Option)
      /\ g.by = e.by /\ g.user = e.user /\ g.attributes = attributes
      /\ g.level = e.level /\ g.option = e.option /\ g.kind = e.kind
      /\ g.fingerprint = fingerprint /\ g.message = e.message
      /\ g.edited = e.edited
  BY <1>4, <1>6 DEF EventOf
<1> HIDE DEF g
<1>8. g.user.who \in Own(g.by) /\ HashOK(g) /\ LevelOK(g)
  BY <1>7 DEF Assembled, HashOK, LevelOK
<1>9. QED
  BY <1>2, <1>3, <1>5, <1>7, <1>8 DEF QueuedOK, Assembled

-----------------------------------------------------------------------------
(* The steps.                                                              *)

LEMMA StepOK ==
    ASSUME CInv, NEW r \in Request, NEW to \in {"handle"} \cup Capturing, NEW e,
           Step(r, to, e), StageOK(r, to, e)
    PROVE  EventsOK' /\ \A q \in Request \ {r} : pc'[q] = pc[q]
<1>1. /\ pc \in [Request -> {"arrive", "handle"} \cup Capturing]
      /\ event = [q \in Request |-> event[q]]
      /\ \A q \in Request : StageOK(q, pc[q], event[q])
      /\ pc' = [pc EXCEPT ![r] = to] /\ event' = [event EXCEPT ![r] = e]
  BY DEF CInv, EventsOK, Step
<1>2. /\ pc' \in [Request -> {"arrive", "handle"} \cup Capturing]
      /\ pc'[r] = to /\ \A q \in Request \ {r} : pc'[q] = pc[q]
  BY <1>1
<1>3. /\ event' = [q \in Request |-> event'[q]]
      /\ event'[r] = e /\ \A q \in Request \ {r} : event'[q] = event[q]
  <2>1. PICK f : f = event
    OBVIOUS
  <2>2. DOMAIN f = Request
    <3>1. DOMAIN [q \in Request |-> event[q]] = Request
      OBVIOUS
    <3>2. QED
      BY <1>1, <2>1, <3>1
  <2>3. event' = [f EXCEPT ![r] = e]
    BY <1>1, <2>1
  <2>4. QED
    BY <2>1, <2>2, <2>3
<1>4. \A q \in Request : StageOK(q, pc'[q], event'[q])
  BY <1>1, <1>2, <1>3
<1>5. QED
  BY <1>2, <1>3, <1>4 DEF EventsOK

\* No step of a capture disturbs what the contexts carry.
LEMMA CtxStays ==
    ASSUME CInv, NEW r \in Request, pc[r] # "arrive", UNCHANGED ctx,
           \A q \in Request \ {r} : pc'[q] = pc[q]
    PROVE  CtxOK'
  BY DEF CInv, CtxOK

LEMMA SetScopeOK ==
    ASSUME CInv, NEW r \in Request, NEW s, ScopeOK(r, s), SetScope(r, s)
    PROVE  CInv'
<1>1. pc[r] = "handle" /\ ctx[r] \in {"none", r}
  BY DEF SetScope, CInv, CtxOK
<1>2. /\ ctx' = [ctx EXCEPT ![r] = r] /\ scopes' = [scopes EXCEPT ![r] = s]
      /\ UNCHANGED <<cells, pc, event, queue, counters, calls>>
  BY <1>1 DEF SetScope
<1>3. ScopesOK'
  <2>1. s \in Scope
    BY DEF ScopeOK
  <2>2. scopes' \in [Request \cup {"base"} -> Scope]
    BY <1>2, <2>1 DEF CInv, ScopesOK
  <2>3. \A o \in Request \cup {"base"} : ScopeOK(o, scopes'[o])
    BY <1>2 DEF CInv, ScopesOK
  <2>4. QED
    BY <2>2, <2>3 DEF ScopesOK
<1>4. CtxOK'
  BY <1>2 DEF CInv, CtxOK
<1>5. QED
  BY <1>2, <1>3, <1>4 DEF CInv, CellsOK, EventsOK, QueueOK, CountsOK, counters

LEMMA SettersOK ==
    ASSUME CInv, NEW r \in Request,
           SetUser(r) \/ SetLevel(r) \/ SetFingerprint(r) \/ SetAttribute(r)
    PROVE  CInv'
<1>1. PICK s : s = CtxScope(r)
  OBVIOUS
<1>2. ScopeOK(r, s) /\ s \in Scope
  BY <1>1, CtxScopeOK DEF ScopeOK
<1>3. CASE SetUser(r)
  <2>1. ScopeOK(r, [s EXCEPT !.user = Raw(r)])
    BY <1>2 DEF ScopeOK, Scope, Raw, Identity, Writer, Own
  <2>2. QED
    BY <1>1, <1>3, <2>1, SetScopeOK DEF SetUser
<1>4. CASE SetLevel(r)
  <2>1. ScopeOK(r, [s EXCEPT !.level = "warning"])
    BY <1>2 DEF ScopeOK, Scope, Level
  <2>2. QED
    BY <1>1, <1>4, <2>1, SetScopeOK DEF SetLevel
<1>5. CASE SetFingerprint(r)
  <2>1. ScopeOK(r, [s EXCEPT !.fingerprint = "set"])
    BY <1>2 DEF ScopeOK, Scope, Fingerprint
  <2>2. QED
    BY <1>1, <1>5, <2>1, SetScopeOK DEF SetFingerprint
<1>6. ASSUME NEW k \in Key, NEW v \in {Scalar(r), Ref(CellOf[r])},
             SetScope(r, [s EXCEPT !.attributes[k] = v])
      PROVE  CInv'
  <2>1. v \in Value /\ v.by \in Own(r) /\ v.cell \in Reach(r)
    BY ScalarOK, RefOK, OwnWriters DEF Own, Reach, Writer
  <2>2. PICK a : a = [s.attributes EXCEPT ![k] = v]
    OBVIOUS
  <2>3. a \in Attributes /\ OwnValues(r, a)
    BY <1>2, <2>1, <2>2 DEF Scope, ScopeOK, Attributes, OwnValues
  <2>4. ScopeOK(r, [s EXCEPT !.attributes = a])
    BY <1>2, <2>3 DEF ScopeOK, Scope
  <2>5. [s EXCEPT !.attributes[k] = v] = [s EXCEPT !.attributes = a]
    BY <2>2
  <2>6. QED
    BY <1>6, <2>4, <2>5, SetScopeOK
<1>7. QED
  BY <1>1, <1>3, <1>4, <1>5, <1>6 DEF SetAttribute

LEMMA ChangeCellOK ==
    ASSUME CInv, NEW r \in Request, ChangeCell(r)
    PROVE  CInv'
<1>1. PICK c \in Cell : c = CellOf[r]
  BY CaptureAssumption
<1>2. /\ cells' = [cells EXCEPT ![c].n = @ + 1]
      /\ UNCHANGED <<scopes, ctx, pc, event, queue, counters, calls>>
  BY <1>1 DEF ChangeCell
<1>3. CellsOK'
  <2>1. PICK v : v = [cells[c] EXCEPT !.n = @ + 1]
    OBVIOUS
  <2>2. cells[c] \in Value /\ cells' = [cells EXCEPT ![c] = v]
    BY <1>2, <2>1 DEF CInv, CellsOK
  <2>3. v \in Value /\ v.cell = cells[c].cell /\ v.scrub = cells[c].scrub
        /\ v.by = cells[c].by
    BY <2>1, <2>2 DEF Value
  <2>4. QED
    BY <2>2, <2>3 DEF CInv, CellsOK
<1>4. QED
  BY <1>2, <1>3 DEF CInv, ScopesOK, CtxOK, EventsOK, QueueOK, CountsOK, counters

LEMMA ArriveOK ==
    ASSUME CInv, NEW r \in Request, Isolate(r) \/ Enter(r)
    PROVE  CInv'
<1>1. /\ pc[r] = "arrive" /\ pc' = [pc EXCEPT ![r] = "handle"]
      /\ UNCHANGED <<cells, event, queue, counters, calls>>
  BY DEF Isolate, Enter
<1>2. EventsOK'
  BY <1>1 DEF CInv, EventsOK, StageOK
<1>3. ScopesOK' /\ CtxOK'
  <2>1. CASE Isolate(r)
    <3>1. PICK s : s = CtxScope(r)
      OBVIOUS
    <3>2. ScopeOK(r, s) /\ s \in Scope
      BY <3>1, CtxScopeOK DEF ScopeOK
    <3>3. scopes' = [scopes EXCEPT ![r] = s] /\ ctx' = [ctx EXCEPT ![r] = r]
      BY <2>1, <3>1 DEF Isolate
    <3>4. ScopesOK'
      <4>1. scopes' \in [Request \cup {"base"} -> Scope]
        BY <3>2, <3>3 DEF CInv, ScopesOK
      <4>2. \A o \in Request \cup {"base"} : ScopeOK(o, scopes'[o])
        BY <3>2, <3>3 DEF CInv, ScopesOK
      <4>3. QED
        BY <4>1, <4>2 DEF ScopesOK
    <3>5. CtxOK'
      BY <1>1, <3>3 DEF CInv, CtxOK, EventsOK
    <3>6. QED
      BY <3>4, <3>5
  <2>2. CASE Enter(r)
    BY <1>1, <2>2 DEF Enter, CInv, ScopesOK, CtxOK, EventsOK
  <2>3. QED
    BY <2>1, <2>2
<1>4. QED
  BY <1>1, <1>2, <1>3 DEF CInv, CellsOK, QueueOK, CountsOK, counters

LEMMA ScrubCellsOK ==
    ASSUME CInv, NEW r \in Request, RewriteNested(r)
    PROVE  CellsOK'
<1>1. PICK v : v = [Scalar(r) EXCEPT !.scrub = TRUE]
  OBVIOUS
<1>2. v \in Value /\ v.cell = NoCell /\ v.scrub = TRUE
  BY <1>1 DEF Scalar, Value, Writer
<1>3. cells' = [c \in Cell |->
                  IF \E k \in Key : event[r].attributes[k].cell = c
                  THEN v ELSE cells[c]]
  BY <1>1 DEF RewriteNested
<1>4. QED
  BY <1>2, <1>3 DEF CInv, CellsOK

\* The steps of a capture, each with the event it leaves behind.
LEMMA CaptureStep ==
    ASSUME CInv, NEW r \in Request,
           \/ Begin(r) \/ Assemble(r)
           \/ Keep(r) \/ Rewrite(r) \/ RewriteNested(r) \/ ScrubPanics(r) \/ Drop(r)
           \/ HashIdentity(r) \/ Finish(r) \/ Break(r)
    PROVE  EventsOK' /\ CtxOK'
<1>1. StageOK(r, pc[r], event[r]) /\ CInv
  BY DEF CInv, EventsOK
<1>2. \A e : StageOK(r, "handle", e)
  BY DEF StageOK
<1>3. \E to \in {"handle"} \cup Capturing : \E e :
         Step(r, to, e) /\ StageOK(r, to, e)
  <2>1. CASE Begin(r)
    <3>1. PICK kind \in EventKind : Step(r, "assemble", New(r, kind))
      BY <2>1, CaptureAssumption DEF Begin, EventKind
    <3>2. StageOK(r, "assemble", New(r, kind))
      BY NewOK DEF StageOK
    <3>3. QED
      BY <3>1, <3>2 DEF Capturing
  <2>2. CASE Assemble(r)
    <3>1. PICK o \in Option :
             Step(r, "scrub", ApplyOption(o, ApplyScope(CtxScope(r), event[r])))
      BY <2>2 DEF Assemble
    <3>2. PICK f : f = ApplyScope(CtxScope(r), event[r])
      OBVIOUS
    <3>3. Fresh(r, event[r])
      BY <1>1, <2>2 DEF Assemble, StageOK
    <3>4. Scoped(r, f)
      <4>1. PICK s, e : s = CtxScope(r) /\ e = event[r]
        OBVIOUS
      <4>2. ScopeOK(r, s) /\ Fresh(r, e) /\ f = ApplyScope(s, e)
        BY <3>2, <3>3, <4>1, CtxScopeOK
      <4>3. QED
        BY <4>2, ApplyScopeOK, Zenon
    <3>5. StageOK(r, "scrub", ApplyOption(o, f))
      BY <3>4, ApplyOptionOK DEF StageOK
    <3>6. QED
      BY <3>1, <3>2, <3>5 DEF Capturing
  <2>3. CASE Keep(r) \/ Rewrite(r) \/ RewriteNested(r) \/ ScrubPanics(r)
    <3>1. Assembled(r, event[r])
      BY <1>1, <2>3 DEF Keep, Rewrite, RewriteNested, ScrubPanics, StageOK
    <3>2. \A e \in {event[r]} \cup Edited(event[r]) : Assembled(r, e)
      BY <3>1, RewrittenOK DEF Edited
    <3>3. PICK e \in {event[r]} \cup Edited(event[r]) : Step(r, "hash", e)
      BY <2>3 DEF Keep, Rewrite, RewriteNested, ScrubPanics
    <3>4. StageOK(r, "hash", e)
      BY <3>2 DEF StageOK
    <3>5. QED
      BY <3>3, <3>4 DEF Capturing
  <2>4. CASE HashIdentity(r)
    <3>1. StageOK(r, "finish", Hash(event[r]))
      BY <1>1, <2>4, HashedOK DEF HashIdentity, StageOK
    <3>2. QED
      BY <2>4, <3>1 DEF HashIdentity, Capturing
  <2>5. CASE Drop(r) \/ Finish(r) \/ Break(r)
    BY <1>2, <2>5 DEF Drop, Finish, Break
  <2>6. QED
    BY <2>1, <2>2, <2>3, <2>4, <2>5
<1>4. EventsOK' /\ \A q \in Request \ {r} : pc'[q] = pc[q]
  BY <1>1, <1>3, StepOK
<1>5. pc[r] # "arrive" /\ ctx' = ctx
  BY DEF Begin, Assemble, Keep, Rewrite, RewriteNested, ScrubPanics, Drop,
     HashIdentity, Finish, Break
<1>6. CtxOK'
  BY <1>1, <1>4, <1>5, CtxStays
<1>7. QED
  BY <1>4, <1>6

LEMMA FinishQueue ==
    ASSUME CInv, NEW r \in Request, Finish(r)
    PROVE  QueueOK'
<1>1. Assembled(r, event[r]) /\ HashOK(event[r])
  BY DEF Finish, CInv, EventsOK, StageOK
<1>2. PICK e : e = Sanitize(Finalize(event[r]))
  OBVIOUS
<1>3. QueuedOK(e) /\ e \in EventOf(Option)
  BY <1>1, <1>2, SanitizeOK DEF QueuedOK
<1>4. queue' = Append(queue, e)
  BY <1>2 DEF Finish
<1>5. queue \in Seq(EventOf(Option)) /\ \A i \in DOMAIN queue : QueuedOK(queue[i])
  BY DEF CInv, QueueOK
<1>6. queue' \in Seq(EventOf(Option))
  BY <1>3, <1>4, <1>5
<1>7. \A i \in DOMAIN queue' : queue'[i] = e \/ (i \in DOMAIN queue /\ queue'[i] = queue[i])
  BY <1>3, <1>4, <1>5
<1>8. \A i \in DOMAIN queue' : QueuedOK(queue'[i])
  BY <1>3, <1>5, <1>7
<1>9. QED
  BY <1>6, <1>8 DEF QueueOK

LEMMA CInvNext == ASSUME CInv, [Next]_vars PROVE CInv'
<1>1. CASE UNCHANGED vars
  BY <1>1 DEF vars, counters, CInv, ScopesOK, CtxOK, CellsOK, EventsOK,
     QueueOK, CountsOK
<1>2. ASSUME NEW r \in Request,
             \/ Begin(r) \/ Assemble(r)
             \/ Keep(r) \/ Rewrite(r) \/ RewriteNested(r) \/ ScrubPanics(r)
             \/ Drop(r) \/ HashIdentity(r) \/ Finish(r) \/ Break(r)
      PROVE  CInv'
  <2>1. EventsOK' /\ CtxOK'
    BY <1>2, CaptureStep
  <2>2. ScopesOK'
    <3>1. scopes' = scopes
      BY <1>2 DEF Begin, Assemble, Keep, Rewrite, RewriteNested, ScrubPanics,
         Drop, HashIdentity, Finish, Break
    <3>2. QED
      BY <3>1 DEF CInv, ScopesOK
  <2>3. CellsOK'
    <3>1. RewriteNested(r) \/ cells' = cells
      BY <1>2 DEF Begin, Assemble, Keep, Rewrite, ScrubPanics,
         Drop, HashIdentity, Finish, Break
    <3>2. QED
      BY <3>1, ScrubCellsOK DEF CInv, CellsOK
  <2>4. QueueOK'
    <3>1. Finish(r) \/ queue' = queue
      BY <1>2 DEF Begin, Assemble, Keep, Rewrite, RewriteNested, ScrubPanics,
         Drop, HashIdentity, Break
    <3>2. QED
      BY <3>1, FinishQueue DEF CInv, QueueOK
  <2>5. CountsOK'
    <3>1. CountsOK
      BY DEF CInv
    <3>2. QED
      BY <1>2, <3>1 DEF CountsOK, counters, Begin, Assemble, Keep, Rewrite,
         RewriteNested, ScrubPanics, Drop, HashIdentity, Finish, Break
  <2>6. QED
    BY <2>1, <2>2, <2>3, <2>4, <2>5 DEF CInv
<1>3. QED
  BY <1>1, <1>2, ArriveOK, SettersOK, ChangeCellOK DEF Next

LEMMA CInvInit == Init => CInv
<1> SUFFICES ASSUME Init PROVE CInv
  OBVIOUS
<1>1. ScopesOK
  <2>1. ScopeOK("base", scopes["base"])
    <3>1. PICK b : b = [k \in Key |-> IF IsSDKManagedKey(k) THEN Absent
                                      ELSE Ref(CellOf["base"])]
      OBVIOUS
    <3>2. PICK u : /\ u = Raw("base")
                   /\ scopes["base"] = [user |-> u, level |-> "unset",
                                        fingerprint |-> "", attributes |-> b]
      BY <3>1 DEF Init
    <3>3. u \in Identity /\ u.who = "base"
      BY <3>2 DEF Raw, Identity, Writer
    <3>4. b \in Attributes /\ OwnValues("base", b)
      BY <3>1, OwnWriters, ScalarOK, RefOK
      DEF Attributes, OwnValues, Own, Reach, Absent, Writer
    <3>5. ASSUME NEW s, s = [user |-> u, level |-> "unset", fingerprint |-> "",
                             attributes |-> b]
          PROVE  ScopeOK("base", s)
      <4>1. s \in Scope
        BY <3>3, <3>4, <3>5 DEF Scope, Fingerprint
      <4>2. s.user = u /\ s.fingerprint = "" /\ s.attributes = b
        BY <3>5
      <4>3. QED
        BY <3>3, <3>4, <4>1, <4>2 DEF ScopeOK, Own
    <3>6. QED
      BY <3>2, <3>5
  <2>2. \A o \in Request : scopes[o] = NoScope /\ ScopeOK(o, scopes[o])
    BY CaptureAssumption, NoScopeOK DEF Init
  <2>3. \A o \in Request \cup {"base"} : ScopeOK(o, scopes[o])
    BY <2>1, <2>2
  <2>4. \A o \in Request \cup {"base"} : scopes[o] \in Scope
    BY <2>3 DEF ScopeOK
  <2>5. scopes \in [Request \cup {"base"} -> Scope]
    BY <2>4 DEF Init
  <2>6. QED
    BY <2>3, <2>5 DEF ScopesOK
<1>2. CtxOK
  BY DEF Init, CtxOK
<1>3. CellsOK
  <2>1. ASSUME NEW c \in Cell
        PROVE  \E o \in Request \cup {"base"} : CellOf[o] = c /\ cells[c] = Scalar(o)
    <3>1. CASE c = CellOf["base"]
      BY <3>1 DEF Init
    <3>2. CASE c # CellOf["base"]
      <4>1. \E o \in Request : CellOf[o] = c
        BY <3>2, CaptureAssumption
      <4>2. PICK o \in Request : o = (CHOOSE q \in Request : CellOf[q] = c) /\ CellOf[o] = c
        BY <4>1
      <4>3. cells[c] = Scalar(o)
        BY <3>2, <4>2 DEF Init
      <4>4. QED
        BY <4>2, <4>3
    <3>3. QED
      BY <3>1, <3>2
  <2>2. \A c \in Cell : /\ cells[c] \in Value /\ cells[c].cell = NoCell
                        /\ \A o \in Request \cup {"base"} :
                              CellOf[o] = c => cells[c].by = o
    <3> TAKE c \in Cell
    <3>1. PICK o \in Request \cup {"base"} : CellOf[o] = c /\ cells[c] = Scalar(o)
      BY <2>1
    <3>2. \A p \in Request \cup {"base"} : CellOf[p] = c => p = o
      BY <3>1, CaptureAssumption
    <3>3. QED
      BY <3>1, <3>2, ScalarOK DEF Writer
  <2>3. cells \in [Cell -> Value]
    BY <2>2 DEF Init
  <2>4. QED
    BY <2>2, <2>3 DEF CellsOK
<1>4. EventsOK /\ QueueOK /\ CountsOK
  <2>1. /\ pc = [r \in Request |-> "arrive"] /\ event = [r \in Request |-> <<>>]
        /\ queue = <<>>
    BY DEF Init
  <2>2. \A r \in Request : StageOK(r, pc[r], event[r])
    BY <2>1 DEF StageOK
  <2>3. EventsOK
    BY <2>1, <2>2 DEF EventsOK
  <2>4. QueueOK
    BY <2>1 DEF QueueOK
  <2>5. CountsOK
    BY DEF Init, CountsOK
  <2>6. QED
    BY <2>3, <2>4, <2>5
<1>5. QED
  BY <1>1, <1>2, <1>3, <1>4 DEF CInv

LEMMA CInvHolds == Spec => []CInv
  BY CInvInit, CInvNext, PTL DEF Spec

-----------------------------------------------------------------------------
(* What is on the wire.                                                    *)

IsOver(h, f, g) ==
    /\ DOMAIN h = DOMAIN f \cup DOMAIN g
    /\ \A k \in DOMAIN f : h[k] = f[k]
    /\ \A k \in DOMAIN g : k \notin DOMAIN f => h[k] = g[k]

LEMMA OverOK == \A f, g : IsOver(Over(f, g), f, g)
  BY DEF Over, IsOver

\* Who owns what in the metadata md of e.
OtherKeysOK(e, md) ==
    \A k \in DOMAIN md :
        \/ k \in {"level", "user.id"}
        \/ md[k] = TheResource
        \/ k \in Key /\ md[k] = e.attributes[k]

MetadataOK(e, md) ==
    /\ md["level"] = [level |-> e.level]
    /\ "user.id" \in DOMAIN md => e.user # Nobody /\ md["user.id"] = e.user
    /\ md["host.arch"] = TheResource
    /\ OtherKeysOK(e, md)

LEMMA MetadataOf ==
    ASSUME NEW e, NEW md, md = Metadata(e)
    PROVE  MetadataOK(e, md)
<1> DEFINE caller == {k \in Key : e.attributes[k] # Absent /\ ~IsSDKManagedKey(k)}
           detailed == {k \in ResourceKey : ~IsSessionLevelKey(k)}
           identity == IF e.user = Nobody THEN {} ELSE {"user.id"}
           f == [k \in {"level"} |-> [level |-> e.level]]
           g == [k \in identity |-> e.user]
           h == [k \in detailed |-> TheResource]
           j == [k \in caller |-> e.attributes[k]]
<1>1. md = Over(f, Over(g, Over(h, j)))
  BY DEF Metadata
<1>2. f["level"] = [level |-> e.level]
  OBVIOUS
<1>3. /\ DOMAIN f = {"level"}
      /\ DOMAIN g = identity /\ \A k \in identity : g[k] = e.user
      /\ DOMAIN h = detailed /\ \A k \in detailed : h[k] = TheResource
      /\ DOMAIN j = caller /\ \A k \in caller : j[k] = e.attributes[k]
  OBVIOUS
<1>4. /\ identity = {} \/ (e.user # Nobody /\ identity = {"user.id"})
      /\ detailed = {"host.arch"}
      /\ "user.id" \notin caller /\ "level" \notin caller /\ caller \subseteq Key
  BY DEF IsSDKManagedKey, IsSessionLevelKey, ResourceKey
<1> HIDE DEF caller, detailed, identity, f, g, h, j
<1>5. PICK p : p = Over(h, j)
  OBVIOUS
<1>6. PICK q : q = Over(g, p)
  OBVIOUS
<1>7. /\ DOMAIN p = {"host.arch"} \cup caller
      /\ p["host.arch"] = TheResource
      /\ \A k \in caller : k # "host.arch" => p[k] = e.attributes[k]
  <2>1. DOMAIN h = {"host.arch"} /\ DOMAIN j = caller
    BY <1>3, <1>4
  <2>2. /\ DOMAIN p = {"host.arch"} \cup caller
        /\ \A k \in {"host.arch"} : p[k] = h[k]
        /\ \A k \in caller : k \notin {"host.arch"} => p[k] = j[k]
    <3>1. IsOver(p, h, j)
      BY <1>5, OverOK, Zenon
    <3>2. QED
      BY <2>1, <3>1 DEF IsOver
  <2>3. QED
    BY <1>3, <1>4, <2>2
<1>8. /\ DOMAIN q = identity \cup {"host.arch"} \cup caller
      /\ \A k \in identity : q[k] = e.user
      /\ \A k \in {"host.arch"} \cup caller : k \notin identity => q[k] = p[k]
  <2>1. /\ DOMAIN q = identity \cup ({"host.arch"} \cup caller)
        /\ \A k \in identity : q[k] = g[k]
        /\ \A k \in {"host.arch"} \cup caller : k \notin identity => q[k] = p[k]
    <3>1. IsOver(q, g, p)
      BY <1>6, OverOK, Zenon
    <3>2. QED
      BY <1>3, <1>7, <3>1 DEF IsOver
  <2>2. QED
    BY <1>3, <2>1
<1>9. /\ DOMAIN md = {"level"} \cup (identity \cup {"host.arch"} \cup caller)
      /\ \A k \in {"level"} : md[k] = f[k]
      /\ \A k \in identity \cup {"host.arch"} \cup caller :
            k \notin {"level"} => md[k] = q[k]
  <2>1. IsOver(md, f, q)
    BY <1>1, <1>5, <1>6, OverOK, Zenon
  <2>2. QED
    BY <1>3, <1>8, <2>1 DEF IsOver
<1>10. md["level"] = [level |-> e.level]
  <2>1. md["level"] = f["level"]
    BY <1>9
  <2>2. QED
    BY <1>2, <2>1, Zenon
<1>11. "user.id" \in DOMAIN md => e.user # Nobody /\ md["user.id"] = e.user
  BY <1>4, <1>8, <1>9
<1>12. md["host.arch"] = TheResource
  <2>1. "host.arch" \notin identity
    BY <1>4
  <2>2. QED
    BY <1>7, <1>8, <1>9, <2>1
<1>13. OtherKeysOK(e, md)
  <2> SUFFICES ASSUME NEW k \in DOMAIN md, k \notin {"level", "user.id"},
                      k # "host.arch"
               PROVE  k \in Key /\ md[k] = e.attributes[k]
    BY <1>12 DEF OtherKeysOK
  <2>1. k \notin identity /\ k \in caller /\ k \in Key
    BY <1>4, <1>9
  <2>2. md[k] = q[k] /\ q[k] = p[k] /\ p[k] = e.attributes[k]
    BY <1>7, <1>8, <1>9, <2>1
  <2>3. QED
    BY <2>1, <2>2
<1>14. QED
  BY <1>10, <1>11, <1>12, <1>13, Zenon DEF MetadataOK

\* An attribute, an identity and a level are values of different shapes.
LEMMA Shapes ==
    /\ \A v \in Value : v \notin Identity
    /\ \A l : [level |-> l] \notin Identity /\ [level |-> l] \notin Value
<1>1. \A v \in Value : DOMAIN v = {"by", "n", "cell", "scrub"}
  BY DEF Value
<1>2. \A v \in Identity : DOMAIN v = {"who", "hashed"}
  BY DEF Identity
<1>3. \A l : DOMAIN [level |-> l] = {"level"}
  OBVIOUS
<1>4. "by" \notin {"who", "hashed"} /\ "level" \notin {"who", "hashed"}
      /\ "level" \notin {"by", "n", "cell", "scrub"}
  OBVIOUS
<1>5. QED
  BY <1>1, <1>2, <1>3, <1>4

LEMMA QueuedFacts ==
    ASSUME CInv, NEW e \in Queued
    PROVE  QueuedOK(e)
  BY DEF Queued, CInv, QueueOK

LEMMA TheResourceOK ==
    TheResource \in Value /\ TheResource.by = "resource"
  BY ScalarOK DEF TheResource, Writer

\* Whatever the scope, the options, BeforeSend and reserved attribute names
\* bring in (client.go:260, wire.go:73), a queued event shows a hashed user
\* when a Hasher is configured, and the resource's own values.
THEOREM ReservedKeysOwnedHolds == Spec => []ReservedKeysOwned
<1>1. CInv => ReservedKeysOwned
  <2> SUFFICES ASSUME CInv, NEW e \in Queued,
                      NEW md, md = Metadata(e)
               PROVE  /\ Hasher /\ "user.id" \in DOMAIN md =>
                            md["user.id"] \in Identity /\ md["user.id"].hashed
                      /\ md["host.arch"] = TheResource
    BY DEF ReservedKeysOwned
  <2>1. e.user \in Identity /\ HashOK(e)
    BY QueuedFacts DEF QueuedOK, EventOf
  <2>2. /\ "user.id" \in DOMAIN md => e.user # Nobody /\ md["user.id"] = e.user
        /\ md["host.arch"] = TheResource
    BY MetadataOf DEF MetadataOK
  <2>3. QED
    BY <2>1, <2>2 DEF HashOK
<1>2. QED
  BY <1>1, CInvHolds, PTL

\* What a request puts into its isolated scope (scope.go:163) or into a nested
\* map of its own stays out of the events of every other request, for any
\* number of requests and any interleaving of their steps.
THEOREM RequestIsolationHolds == Spec => []RequestIsolation
<1>1. CInv => RequestIsolation
  <2> SUFFICES ASSUME CInv, NEW e \in Queued,
                      NEW md, md = Metadata(e), NEW k \in DOMAIN md
               PROVE  /\ md[k] \in Identity => md[k].who \in OfRequest(e)
                      /\ md[k] \in Value => md[k].scrub \/ md[k].by \in OfRequest(e)
    BY DEF RequestIsolation
  <2>1. /\ e.user \in Identity /\ e.user.who \in Own(e.by)
        /\ e.attributes \in [Key -> Value]
        /\ \A j \in Key : e.attributes[j].scrub \/ e.attributes[j].by \in Own(e.by)
    BY QueuedFacts DEF QueuedOK, EventOf, Attributes
  <2>2. Own(e.by) \subseteq OfRequest(e) /\ "resource" \in OfRequest(e)
    BY DEF Own, OfRequest
  <2>3. CASE k = "level"
    <3>1. md[k] = [level |-> e.level]
      BY <2>3, MetadataOf, Zenon DEF MetadataOK
    <3>2. md[k] \notin Identity /\ md[k] \notin Value
      BY <3>1, Shapes, Zenon
    <3>3. QED
      BY <3>2
  <2>4. CASE k = "user.id"
    <3>1. md[k] = e.user
      BY <2>4, MetadataOf DEF MetadataOK
    <3>2. QED
      BY <2>1, <2>2, <3>1, Shapes
  <2>5. CASE k \notin {"level", "user.id"}
    <3>1. md[k] = TheResource \/ (k \in Key /\ md[k] = e.attributes[k])
      <4>1. OtherKeysOK(e, md)
        BY MetadataOf, Zenon DEF MetadataOK
      <4>2. QED
        BY <2>5, <4>1 DEF OtherKeysOK
    <3>2. md[k] \in Value /\ (md[k].scrub \/ md[k].by \in OfRequest(e))
      BY <2>1, <2>2, <3>1, TheResourceOK
    <3>3. QED
      BY <3>2, Shapes
  <2>6. QED
    BY <2>3, <2>4, <2>5
<1>2. QED
  BY <1>1, CInvHolds, PTL

\* The level of a queued event is the one its call gave, and a panic without
\* one is fatal whatever the scopes say (client.go:227, scope.go:118), unless
\* BeforeSend has set another.
THEOREM LevelsRespectedHolds == Spec => []LevelsRespected
<1>1. CInv => LevelsRespected
  <2> SUFFICES ASSUME CInv, NEW e \in Queued,
                      NEW md, md = Metadata(e)
               PROVE  IF "level" \in e.edited THEN md["level"] = [level |-> "debug"]
                      ELSE IF e.option.level \in Level
                      THEN md["level"] = [level |-> e.option.level]
                      ELSE e.kind = "panic" => md["level"] = [level |-> "fatal"]
    BY DEF LevelsRespected
  <2>1. LevelOK(e)
    BY QueuedFacts DEF QueuedOK
  <2>2. md["level"] = [level |-> e.level]
    BY MetadataOf, Zenon DEF MetadataOK
  <2>3. QED
    BY <2>1, <2>2 DEF LevelOK
<1>2. QED
  BY <1>1, CInvHolds, PTL

\* The grouping key of an event whose message BeforeSend cleaned is made from
\* the cleaned message (client.go:269).
THEOREM NoPreScrubLeakHolds == Spec => []NoPreScrubLeak
<1>1. CInv => NoPreScrubLeak
  BY QueuedFacts DEF NoPreScrubLeak, QueuedOK
<1>2. QED
  BY <1>1, CInvHolds, PTL

\* No step of any request changes what a queued event holds (client.go:279):
\* its attributes refer to no nested map.
THEOREM SnapshotStaysHolds == Spec => SnapshotStays
<1> DEFINE Stays == \A i \in DOMAIN queue : \A k \in Key :
                      (Deep(queue[i].attributes[k]))' = Deep(queue[i].attributes[k])
<1>1. CInv /\ [Next]_vars => Stays
  <2> SUFFICES ASSUME CInv, [Next]_vars, NEW i \in DOMAIN queue, NEW k \in Key
               PROVE  (Deep(queue[i].attributes[k]))' = Deep(queue[i].attributes[k])
    OBVIOUS
  <2>1. queue' = queue \/ \E e : queue' = Append(queue, e)
    <3>1. CASE UNCHANGED vars
      BY <3>1 DEF vars
    <3>2. ASSUME NEW r \in Request, Finish(r) PROVE \E e : queue' = Append(queue, e)
      BY <3>2, Zenon DEF Finish
    <3>3. ASSUME NEW r \in Request,
                 \/ Isolate(r) \/ Enter(r) \/ SetUser(r) \/ SetLevel(r)
                 \/ SetFingerprint(r) \/ SetAttribute(r) \/ ChangeCell(r)
          PROVE  queue' = queue
      BY <3>3 DEF Isolate, Enter, SetUser, SetLevel, SetFingerprint, SetAttribute,
         SetScope, ChangeCell
    <3>4. ASSUME NEW r \in Request,
                 \/ Begin(r) \/ Assemble(r) \/ Keep(r) \/ Rewrite(r)
                 \/ RewriteNested(r) \/ ScrubPanics(r) \/ Drop(r)
                 \/ HashIdentity(r) \/ Break(r)
          PROVE  queue' = queue
      BY <3>4 DEF Begin, Assemble, Keep, Rewrite, RewriteNested, ScrubPanics, Drop,
         HashIdentity, Break
    <3> QED
      BY <3>1, <3>2, <3>3, <3>4, Zenon DEF Next
  <2>2. queue'[i] = queue[i]
    <3>1. queue \in Seq(EventOf(Option)) /\ i \in 1..Len(queue)
      BY DEF CInv, QueueOK
    <3>2. ASSUME NEW e, queue' = Append(queue, e) PROVE queue'[i] = queue[i]
      <4> HIDE DEF Stays
      <4> QED
        BY <3>1, <3>2
    <3>3. QED
      BY <2>1, <3>2, Zenon
  <2>3. queue[i].attributes[k].cell = NoCell
    BY DEF CInv, QueueOK, QueuedOK
  <2>4. QED
    BY <2>2, <2>3 DEF Deep
<1>2. Spec => [][Stays]_vars
  BY <1>1, CInvHolds, PTL DEF Spec
<1>3. QED
  BY <1>2, PTL DEF SnapshotStays

-----------------------------------------------------------------------------
(* How calls end.                                                          *)

\* The calls begun, for the sums of calls.
LEMMA CallsSum ==
    ASSUME CInv, [Next]_vars
    PROVE  /\ SumFunction(calls) \in Nat
           /\ calls' = calls => SumFunction(calls') = SumFunction(calls)
           /\ \A r \in Request : calls' = [calls EXCEPT ![r] = @ + 1] =>
                 SumFunction(calls') = SumFunction(calls) + 1
<1>1. calls \in [Request -> Nat] /\ IsFiniteSet(Request)
  BY CaptureAssumption DEF CInv, CountsOK
<1>2. SumFunction(calls) = SumFunctionOnSet(calls, Request)
  BY <1>1 DEF SumFunction
<1>3. SumFunction(calls) \in Nat
  BY <1>1, <1>2, SumNat
<1>4. ASSUME NEW r \in Request, calls' = [calls EXCEPT ![r] = @ + 1]
      PROVE  SumFunction(calls') = SumFunction(calls) + 1
  <2>1. PICK f, g : f = calls /\ g = calls'
    OBVIOUS
  <2>2. /\ f \in [Request -> Nat] /\ g = [f EXCEPT ![r] = @ + 1]
        /\ g \in [Request -> Nat]
    BY <1>1, <1>4, <2>1
  <2>3. SumFunctionOnSet(g, Request) = SumFunctionOnSet(f, Request) + g[r] - f[r]
    <3>1. /\ \A x \in Request : f[x] \in Int /\ g[x] \in Int
          /\ \A x \in Request \ {r} : f[x] = g[x]
      BY <2>2
    <3>2. QED
      BY <1>1, <3>1, SumUpdate
  <2>4. PICK n \in Nat : n = f[r] /\ g[r] = n + 1
    BY <2>2
  <2>5. PICK m \in Nat : m = SumFunctionOnSet(f, Request)
    BY <1>2, <1>3, <2>1
  <2>6. SumFunctionOnSet(g, Request) = m + (n + 1) - n
    BY <2>3, <2>4, <2>5
  <2>7. SumFunction(g) = SumFunctionOnSet(g, Request)
    BY <2>2 DEF SumFunction
  <2>8. m + (n + 1) - n = m + 1
    BY <2>4, <2>5
  <2>9. SumFunction(calls') = m + 1 /\ SumFunction(calls) = m
    BY <1>2, <2>1, <2>5, <2>6, <2>7, <2>8, Zenon
  <2>10. QED
    BY <2>9, Zenon
<1>5. QED
  BY <1>3, <1>4, Zenon

LEMMA ProgressFinite == IsFiniteSet(InProgress)
<1>1. InProgress \subseteq Request
  BY DEF InProgress
<1>2. QED
  BY <1>1, CaptureAssumption, FS_Subset

LEMMA EndsNext ==
    ASSUME CInv, EveryCallEnds, [Next]_vars
    PROVE  EveryCallEnds'
<1>1. /\ pc \in [Request -> {"arrive", "handle"} \cup Capturing]
      /\ queue \in Seq(EventOf(Option))
      /\ captured \in Nat /\ dropped \in Nat /\ broken \in Nat
  BY DEF CInv, EventsOK, QueueOK, CountsOK
<1>2. PICK n \in Nat : n = Cardinality(InProgress)
  BY ProgressFinite, FS_CardinalityType
<1>3. PICK m \in Nat : m = SumFunction(calls)
  BY CallsSum
<1>4. captured = Len(queue) /\ m = captured + dropped + broken + n
  BY <1>2, <1>3 DEF EveryCallEnds
<1>5. ASSUME UNCHANGED <<calls, captured, dropped, broken, queue>>,
             InProgress' = InProgress
      PROVE  EveryCallEnds'
  BY <1>5, CallsSum DEF EveryCallEnds
<1>6. ASSUME NEW r \in Request, Begin(r)
      PROVE  EveryCallEnds'
  <2>1. r \notin InProgress /\ InProgress' = InProgress \cup {r}
    BY <1>1, <1>6 DEF Begin, Step, InProgress
  <2>2. Cardinality(InProgress') = n + 1
    BY <1>2, <2>1, ProgressFinite, FS_AddElement
  <2>3. SumFunction(calls') = m + 1
    BY <1>3, <1>6, CallsSum DEF Begin
  <2>4. UNCHANGED <<captured, dropped, broken, queue>>
    BY <1>6 DEF Begin, counters
  <2>5. m + 1 = captured + dropped + broken + (n + 1)
    BY <1>1, <1>4
  <2>6. QED
    BY <1>4, <2>2, <2>3, <2>4, <2>5, Zenon DEF EveryCallEnds
<1>7. ASSUME NEW r \in Request, Drop(r) \/ Finish(r) \/ Break(r)
      PROVE  EveryCallEnds'
  <2>1. r \in InProgress /\ InProgress' = InProgress \ {r}
    BY <1>1, <1>7 DEF Drop, Finish, Break, Step, InProgress
  <2>2. Cardinality(InProgress') = n - 1
    BY <1>2, <2>1, ProgressFinite, FS_RemoveElement
  <2>3. SumFunction(calls') = m
    <3>1. calls' = calls
      BY <1>7 DEF Drop, Finish, Break
    <3>2. QED
      BY <1>3, <3>1, CallsSum, Zenon
  <2>4. /\ captured' = Len(queue')
        /\ captured' + dropped' + broken' = captured + dropped + broken + 1
        /\ captured' \in Nat /\ dropped' \in Nat /\ broken' \in Nat
    <3>1. CASE Finish(r)
      <4>1. PICK e : e = Sanitize(Finalize(event[r]))
        OBVIOUS
      <4>2. queue' = Append(queue, e) /\ captured' = captured + 1
            /\ dropped' = dropped /\ broken' = broken
        BY <3>1, <4>1 DEF Finish
      <4>3. Len(queue') = Len(queue) + 1
        BY <1>1, <4>2
      <4>4. QED
        BY <1>1, <1>4, <4>2, <4>3
    <3>2. CASE Drop(r)
      BY <1>1, <1>4, <3>2 DEF Drop
    <3>3. CASE Break(r)
      BY <1>1, <1>4, <3>3 DEF Break
    <3>4. QED
      BY <1>7, <3>1, <3>2, <3>3
  <2>5. m = captured' + dropped' + broken' + (n - 1)
    BY <1>1, <1>4, <2>4
  <2>6. QED
    BY <2>2, <2>3, <2>4, <2>5, Zenon DEF EveryCallEnds
<1>8. CASE UNCHANGED vars
  <2>1. InProgress' = InProgress
    BY <1>8 DEF vars, InProgress
  <2>2. QED
    BY <1>5, <1>8, <2>1 DEF vars, counters
<1>9. ASSUME NEW r \in Request,
             \/ Isolate(r) \/ Enter(r)
             \/ SetUser(r) \/ SetLevel(r) \/ SetFingerprint(r) \/ SetAttribute(r)
             \/ ChangeCell(r) \/ Assemble(r)
             \/ Keep(r) \/ Rewrite(r) \/ RewriteNested(r) \/ ScrubPanics(r)
             \/ HashIdentity(r)
      PROVE  EveryCallEnds'
  <2>1. UNCHANGED <<calls, captured, dropped, broken, queue>>
    BY <1>9 DEF counters, Isolate, Enter, SetUser, SetLevel, SetFingerprint,
       SetAttribute, SetScope, ChangeCell, Assemble, Keep, Rewrite,
       RewriteNested, ScrubPanics, HashIdentity
  <2>2. \/ pc' = pc
        \/ pc[r] = "arrive" /\ pc' = [pc EXCEPT ![r] = "handle"]
        \/ /\ pc[r] \in Capturing
           /\ \E to \in Capturing : pc' = [pc EXCEPT ![r] = to]
    BY <1>9 DEF Isolate, Enter, SetUser, SetLevel, SetFingerprint,
       SetAttribute, SetScope, ChangeCell, Assemble, Keep, Rewrite,
       RewriteNested, ScrubPanics, HashIdentity, Step, Capturing
  <2>3. InProgress' = InProgress
    BY <1>1, <2>2 DEF InProgress, Capturing
  <2>4. QED
    BY <1>5, <2>1, <2>3
<1>10. QED
  BY <1>6, <1>7, <1>8, <1>9 DEF Next

LEMMA EndsInit == Init => EveryCallEnds
<1> SUFFICES ASSUME Init PROVE EveryCallEnds
  OBVIOUS
<1>1. InProgress = {} /\ Len(queue) = 0 /\ captured = 0 /\ dropped = 0 /\ broken = 0
  BY DEF Init, InProgress
<1>2. Cardinality(InProgress) = 0
  BY <1>1, FS_EmptySet
<1>3. SumFunction(calls) = 0
  <2>1. DOMAIN calls = Request /\ \A r \in Request : calls[r] = 0
    BY DEF Init
  <2>2. SumFunctionOnSet(calls, Request) = 0
    BY <2>1, CaptureAssumption, SumZero
  <2>3. QED
    BY <2>1, <2>2 DEF SumFunction
<1>4. QED
  BY <1>1, <1>2, <1>3 DEF EveryCallEnds

\* Every call of CaptureError and its kin is handed over, dropped by BeforeSend
\* or ended by a contained panic, and counted once (client.go:302), for any
\* number of requests in any stage.
THEOREM EveryCallEndsHolds == Spec => []EveryCallEnds
  BY EndsInit, EndsNext, CInvHolds, PTL DEF Spec

-----------------------------------------------------------------------------
(* The deep copy of a capture, as the calls of Sanitize make it: a stack   *)
(* of calls over a heap.  The invariant says what the records left so far  *)
(* and the calls still to make amount to.                                  *)

\* The library's enumeration of a finite set: a sequence with just its elements.
LEMMA SeqOfSet ==
    ASSUME NEW S, IsFiniteSet(S)
    PROVE  /\ SetToSeq(S) \in Seq(S)
           /\ \A x \in S : \E i \in 1..Len(SetToSeq(S)) : SetToSeq(S)[i] = x
<1> DEFINE N == Cardinality(S)
           q == SetToSeq(S)
<1>1. N \in Nat /\ ExistsBijection(1..N, S)
  BY FS_CardinalityType
<1>2. \E g \in [1..N -> S] : IsInjective(g)
  <2>1. PICK g : g \in Bijection(1..N, S)
    BY <1>1 DEF ExistsBijection
  <2>2. g \in [1..N -> S] /\ IsInjective(g)
    BY <2>1 DEF Bijection, Injection
  <2> QED
    BY <2>2 DEF IsInjective
<1>3. q \in [1..N -> S] /\ IsInjective(q)
  BY <1>2 DEF SetToSeq
<1> HIDE DEF q
<1>4. q \in Injection(1..N, S)
  BY <1>3 DEF IsInjective, Injection
<1>5. IsFiniteSet(1..N) /\ Cardinality(1..N) = N
  BY <1>1, FS_Interval
<1>6. q \in Surjection(1..N, S)
  BY <1>4, <1>5, FS_Injection
<1>7. q \in Seq(S) /\ Len(q) = N
  <2> HIDE DEF N
  <2> QED
    BY <1>1, <1>3
<1>8. \A x \in S : \E i \in 1..N : q[i] = x
  BY <1>6 DEF Surjection
<1> QED
  BY <1>7, <1>8 DEF q

\* Repeating the step s from x n times.
IsOrbit(f, s, x, n) == f[0] = x /\ \A k \in 1..n : f[k] = s[f[k - 1]]

LEMMA Orbits ==
    ASSUME NEW X, NEW s \in [X -> X], NEW x \in X
    PROVE  \A n \in Nat : \E f \in [0..n -> X] : IsOrbit(f, s, x, n)
<1> DEFINE G == {n \in Nat : \E f \in [0..n -> X] : IsOrbit(f, s, x, n)}
<1>1. 0 \in G
  <2>1. [k \in 0..0 |-> x] \in [0..0 -> X] /\ IsOrbit([k \in 0..0 |-> x], s, x, 0)
    BY DEF IsOrbit
  <2> QED
    BY <2>1
<1>2. ASSUME NEW n \in Nat, n \in G PROVE n + 1 \in G
  <2>1. PICK f \in [0..n -> X] : IsOrbit(f, s, x, n)
    BY <1>2
  <2> DEFINE g == [k \in 0..(n + 1) |-> IF k = n + 1 THEN s[f[n]] ELSE f[k]]
  <2>2. g \in [0..(n + 1) -> X]
    OBVIOUS
  <2>3. IsOrbit(g, s, x, n + 1)
    <3>1. g[0] = x
      BY <2>1 DEF IsOrbit
    <3>2. ASSUME NEW k \in 1..(n + 1) PROVE g[k] = s[g[k - 1]]
      <4>1. k - 1 \in 0..n /\ g[k - 1] = f[k - 1]
        OBVIOUS
      <4>2. CASE k = n + 1
        BY <4>1, <4>2
      <4>3. CASE k # n + 1
        BY <2>1, <4>1, <4>3 DEF IsOrbit
      <4> QED
        BY <4>2, <4>3
    <3> QED
      BY <3>1, <3>2 DEF IsOrbit
  <2> HIDE DEF g
  <2> QED
    BY <2>2, <2>3
<1>3. Nat \subseteq G
  <2> HIDE DEF G
  <2> QED
    BY <1>1, <1>2, NatSets
<1> QED
  BY <1>3

-----------------------------------------------------------------------------
(* Pointers and levels.                                                    *)

\* Following pointers from n arrives at t: every set that holds n and what its
\* pointers point to holds t.
ClosedIn(h, C) == \A x \in C : h[x].kind = "pointer" => h[x].kids \subseteq C
Reaches(h, n, t) == \A C \in SUBSET Node : n \in C /\ ClosedIn(h, C) => t \in C

LEMMA ReachesItself == \A h : \A n \in Node : Reaches(h, n, n)
  BY DEF Reaches

LEMMA ReachesOn ==
    ASSUME NEW h, NEW n \in Node, NEW m \in Node, NEW t \in Node, Reaches(h, n, m),
           h[m].kind = "pointer", t \in h[m].kids
    PROVE  Reaches(h, n, t)
  BY DEF Reaches, ClosedIn

\* What the assumption says of the present heap.
LEMMA HeapFacts ==
    ASSUME heap \in Heap
    PROVE  /\ IsFiniteSet(Node) /\ Cardinality(Node) \in Nat
           /\ Root \in Node /\ MaxDepth \in Nat
           /\ \A n \in Node : /\ heap[n].kids \subseteq Node
                              /\ IsFiniteSet(heap[n].kids)
                              /\ Followed(n) \in Node
                              /\ heap[n].kind = "pointer" => heap[n].kids = {Followed(n)}
<1>1. /\ IsFiniteSet(Node) /\ Root \in Node /\ MaxDepth \in Nat
      /\ \A n \in Node : heap[n].kids \subseteq Node
      /\ \A n \in Node : heap[n].kind = "pointer" => Cardinality(heap[n].kids) = 1
  BY SanitizeAssumption
<1>2. \A n \in Node : IsFiniteSet(heap[n].kids)
  BY <1>1, FS_Subset
<1>3. ASSUME NEW n \in Node, heap[n].kind = "pointer"
      PROVE  heap[n].kids = {Followed(n)}
  <2>1. \E x : heap[n].kids = {x}
    BY <1>1, <1>2, <1>3, FS_Singleton
  <2> QED
    BY <1>3, <2>1 DEF Followed
<1>4. ASSUME NEW n \in Node PROVE Followed(n) \in Node
  BY <1>1, <1>3 DEF Followed
<1> QED
  BY <1>1, <1>2, <1>3, <1>4, FS_CardinalityType

\* A chain of pointers that ends does so within as many steps as there are
\* nodes, so that Target finds its end.
LEMMA TargetEnds ==
    ASSUME heap \in Heap, NEW n \in Node
    PROVE  /\ Target(n) \in Node
           /\ \A t \in Node : Reaches(heap, n, t) /\ heap[t].kind # "pointer"
                                 => Target(n) = t
<1> DEFINE N == Cardinality(Node)
           s == [x \in Node |-> Followed(x)]
           Is(f) == f = [k \in 0..N |-> IF k = 0 THEN n ELSE Followed(f[k - 1])]
           c == CHOOSE f : Is(f)
<1>1. N \in Nat /\ s \in [Node -> Node]
  BY HeapFacts
<1>2. PICK f \in [0..N -> Node] : IsOrbit(f, s, n, N)
  <2> HIDE DEF N, s
  <2> QED
    BY <1>1, Orbits
<1>3. Is(f)
  <2>1. \A k \in 0..N : f[k] = IF k = 0 THEN n ELSE Followed(f[k - 1])
    <3> HIDE DEF N
    <3>1. \A k \in 1..N : k - 1 \in 0..N
      BY <1>1
    <3>2. \A k \in 1..N : s[f[k - 1]] = Followed(f[k - 1])
      BY <3>1
    <3>3. \A k \in 0..N : k # 0 => k \in 1..N
      BY <1>1
    <3> QED
      BY <1>2, <3>2, <3>3 DEF IsOrbit
  <2> QED
    BY <2>1
<1>4. Is(c)
  BY <1>3
<1>5. Target(n) = c[N]
  BY DEF Target
<1> HIDE DEF c, s
<1>6. c[0] = n /\ \A k \in 1..N : c[k] = Followed(c[k - 1])
  <2>1. 0 \in 0..N /\ \A k \in 1..N : k \in 0..N /\ k # 0
    <3> HIDE DEF N
    <3> QED
      BY <1>1
  <2> QED
    BY <1>4, <2>1
<1> HIDE DEF Is, N
<1>7. c \in [0..N -> Node]
  <2> DEFINE G == {k \in Nat : k <= N => c[k] \in Node}
  <2>1. 0 \in G
    BY <1>6
  <2>2. ASSUME NEW k \in Nat, k \in G PROVE k + 1 \in G
    <3> SUFFICES ASSUME k + 1 <= N PROVE c[k + 1] \in Node
      OBVIOUS
    <3>1. c[k] \in Node /\ k + 1 \in 1..N /\ (k + 1) - 1 = k
      BY <1>1, <2>2
    <3>2. c[k + 1] = Followed(c[k])
      BY <1>6, <3>1
    <3> QED
      BY <3>1, <3>2, HeapFacts
  <2>3. Nat \subseteq G
    <3> HIDE DEF G
    <3> QED
      BY <2>1, <2>2, NatSets
  <2>4. \A k \in 0..N : c[k] \in Node
    BY <1>1, <2>3
  <2>5. \E e : c = [k \in 0..N |-> e[k]]
    <3>1. c = [k \in 0..N |-> c[k]]
      BY <1>4 DEF Is
    <3> QED
      BY <3>1
  <2> QED
    BY <2>4, <2>5
<1>8. PICK i \in 0..N, j \in 0..N : i < j /\ c[i] = c[j]
  <2>1. IsFiniteSet(0..N) /\ Cardinality(0..N) = N + 1
    BY <1>1, FS_Interval
  <2>2. Cardinality(Node) < Cardinality(0..N)
    BY <1>1, <2>1 DEF N
  <2>3. PICK x \in 0..N, y \in 0..N : x # y /\ c[x] = c[y]
    <3>1. c \notin Injection(0..N, Node)
      <4>1. IsFiniteSet(Node) /\ Cardinality(Node) \in Nat /\ N + 1 \in Nat
        BY <1>1, HeapFacts
      <4> QED
        BY <2>1, <2>2, <4>1, FS_Injection
    <3> QED
      BY <1>7, <3>1 DEF Injection, IsInjective
  <2>4. x < y \/ y < x
    BY <2>3
  <2> QED
    BY <2>3, <2>4
<1>9. \A k \in Nat : j + k <= N => c[i + k] = c[j + k]
  <2> DEFINE G == {k \in Nat : j + k <= N => c[i + k] = c[j + k]}
  <2>1. 0 \in G
    BY <1>8
  <2>2. ASSUME NEW k \in Nat, k \in G PROVE k + 1 \in G
    <3> SUFFICES ASSUME j + (k + 1) <= N PROVE c[i + (k + 1)] = c[j + (k + 1)]
      OBVIOUS
    <3>1. c[i + k] = c[j + k]
      BY <1>1, <2>2
    <3>2. /\ i + (k + 1) \in 1..N /\ (i + (k + 1)) - 1 = i + k
          /\ j + (k + 1) \in 1..N /\ (j + (k + 1)) - 1 = j + k
      BY <1>1, <1>8
    <3>3. /\ c[i + (k + 1)] = Followed(c[i + k])
          /\ c[j + (k + 1)] = Followed(c[j + k])
      BY <1>6, <3>2
    <3> QED
      BY <3>1, <3>3
  <2>3. Nat \subseteq G
    <3> HIDE DEF G
    <3> QED
      BY <2>1, <2>2, NatSets
  <2> QED
    BY <2>3
\* The nodes of the chain are closed under following pointers.
<1> DEFINE C == {c[k] : k \in 0..N}
<1>10. n \in C /\ C \in SUBSET Node
  BY <1>1, <1>6, <1>7
<1>11. ClosedIn(heap, C)
  <2> SUFFICES ASSUME NEW k \in 0..N, heap[c[k]].kind = "pointer"
               PROVE  heap[c[k]].kids \subseteq C
    BY DEF ClosedIn
  <2>1. c[k] \in Node
    BY <1>7
  <2>2. heap[c[k]].kids = {Followed(c[k])}
    BY <2>1, HeapFacts
  <2>3. PICK l \in 0..(N - 1) : c[l] = c[k]
    <3>1. CASE k < N
      <4>1. k \in 0..(N - 1)
        BY <1>1, <3>1
      <4> QED
        BY <4>1, Zenon
    <3>2. CASE k = N
      <4>1. N - j \in Nat /\ j + (N - j) = N /\ i + (N - j) \in 0..(N - 1)
        BY <1>1, <1>8
      <4>2. c[i + (N - j)] = c[N]
        <5> DEFINE e == N - j
        <5>1. e \in Nat /\ j + e = N
          BY <4>1
        <5> HIDE DEF e
        <5>2. c[i + e] = c[j + e]
          BY <1>1, <1>9, <5>1
        <5> QED
          BY <5>1, <5>2 DEF e
      <4> QED
        BY <3>2, <4>1, <4>2
    <3> QED
      BY <1>1, <3>1, <3>2
  <2>4. l + 1 \in 1..N /\ (l + 1) - 1 = l /\ l + 1 \in 0..N
    <3>1. l \in Nat /\ l + 1 <= N
      BY <1>1
    <3> HIDE DEF C
    <3> QED
      BY <1>1, <3>1
  <2>5. c[l + 1] = Followed(c[k])
    BY <1>6, <2>3, <2>4
  <2> QED
    BY <2>2, <2>4, <2>5
\* Once at its end the chain stays there.
<1>12. ASSUME NEW t \in Node, Reaches(heap, n, t), heap[t].kind # "pointer"
       PROVE  c[N] = t
  <2>1. t \in C
    <3> HIDE DEF C
    <3> QED
      BY <1>10, <1>11, <1>12 DEF Reaches
  <2>2. PICK k \in 0..N : c[k] = t
    BY <2>1
  <2> DEFINE G == {l \in Nat : k + l <= N => c[k + l] = t}
  <2>3. 0 \in G
    BY <2>2
  <2>4. ASSUME NEW l \in Nat, l \in G PROVE l + 1 \in G
    <3> SUFFICES ASSUME k + (l + 1) <= N PROVE c[k + (l + 1)] = t
      OBVIOUS
    <3>1. c[k + l] = t
      BY <1>1, <2>4
    <3>2. k + (l + 1) \in 1..N /\ (k + (l + 1)) - 1 = k + l
      BY <1>1
    <3>3. c[k + (l + 1)] = Followed(t)
      BY <1>6, <3>1, <3>2
    <3> QED
      BY <1>12, <3>3 DEF Followed
  <2>5. Nat \subseteq G
    <3> HIDE DEF G
    <3> QED
      BY <2>3, <2>4, NatSets
  <2>6. N - k \in Nat /\ k + (N - k) = N
    BY <1>1
  <2> QED
    BY <2>5, <2>6
<1>13. c[N] \in Node
  BY <1>1, <1>7
<1> QED
  BY <1>5, <1>12, <1>13

\* The recursive function inside Level.
IsLevels(f, d) == f = [k \in 0..d |-> IF k = 0 THEN {Root} ELSE Below(f[k - 1])]

LEMMA BelowIn ==
    ASSUME heap \in Heap, NEW ns \in SUBSET Node
    PROVE  Below(ns) \in SUBSET Node
<1>1. \A n \in ns : Target(n) \in Node
  BY TargetEnds
<1>2. \A n \in Node : heap[n].kids \subseteq Node
  BY HeapFacts
<1> QED
  BY <1>1, <1>2 DEF Below

LEMMA LevelsExist ==
    ASSUME heap \in Heap
    PROVE  \A d \in Nat : \E f : IsLevels(f, d)
<1> DEFINE s == [ns \in SUBSET Node |-> Below(ns)]
<1>1. s \in [SUBSET Node -> SUBSET Node] /\ {Root} \in SUBSET Node
  BY BelowIn, HeapFacts
<1>2. \A d \in Nat : \E f \in [0..d -> SUBSET Node] : IsOrbit(f, s, {Root}, d)
  <2> HIDE DEF s
  <2> QED
    BY <1>1, Orbits
<1>3. ASSUME NEW d \in Nat, NEW f \in [0..d -> SUBSET Node], IsOrbit(f, s, {Root}, d)
      PROVE  IsLevels(f, d)
  <2>1. \A k \in 1..d : k - 1 \in 0..d /\ f[k] = Below(f[k - 1])
    <3> SUFFICES ASSUME NEW k \in 1..d
                 PROVE  k - 1 \in 0..d /\ f[k] = Below(f[k - 1])
      OBVIOUS
    <3>1. k - 1 \in 0..d /\ f[k - 1] \in SUBSET Node
      OBVIOUS
    <3>2. f[k] = s[f[k - 1]]
      BY <1>3 DEF IsOrbit
    <3> QED
      BY <3>1, <3>2
  <2>2. \A k \in 0..d : f[k] = IF k = 0 THEN {Root} ELSE Below(f[k - 1])
    BY <1>3, <2>1 DEF IsOrbit
  <2> QED
    BY <2>2 DEF IsLevels
<1> QED
  BY <1>2, <1>3

\* Two computations agree on the levels both compute.
LEMMA LevelsAgree ==
    ASSUME NEW d \in Nat, NEW e \in Nat, d <= e, NEW f, NEW g,
           IsLevels(f, d), IsLevels(g, e)
    PROVE  f[d] = g[d]
<1> DEFINE G == {k \in Nat : k <= d => f[k] = g[k]}
<1>1. 0 \in G
  BY DEF IsLevels
<1>2. ASSUME NEW k \in Nat, k \in G PROVE k + 1 \in G
  <2> SUFFICES ASSUME k + 1 <= d PROVE f[k + 1] = g[k + 1]
    OBVIOUS
  <2>1. k + 1 \in 0..d /\ k + 1 \in 0..e /\ k + 1 # 0 /\ (k + 1) - 1 = k
    OBVIOUS
  <2>2. f[k + 1] = Below(f[k])
    BY <2>1 DEF IsLevels
  <2>3. g[k + 1] = Below(g[k])
    BY <2>1 DEF IsLevels
  <2> QED
    BY <1>2, <2>2, <2>3
<1>3. Nat \subseteq G
  <2> HIDE DEF G
  <2> QED
    BY <1>1, <1>2, NatSets
<1> QED
  BY <1>3

LEMMA LevelFacts ==
    ASSUME heap \in Heap
    PROVE  /\ AtLevel(0) = {Root}
           /\ \A d \in Nat : /\ AtLevel(d + 1) = Below(AtLevel(d))
                             /\ AtLevel(d) \in SUBSET Node
<1> DEFINE L(d) == CHOOSE f : IsLevels(f, d)
<1>1. \A d \in Nat : IsLevels(L(d), d)
  BY LevelsExist
<1>2. \A d \in Nat : AtLevel(d) = L(d)[d]
  BY DEF AtLevel, IsLevels
<1> HIDE DEF L
<1>3. L(0)[0] = {Root}
  BY <1>1 DEF IsLevels
<1>4. ASSUME NEW d \in Nat
      PROVE  AtLevel(d + 1) = Below(AtLevel(d))
  <2>1. L(d)[d] = L(d + 1)[d]
    <3>1. d + 1 \in Nat /\ d <= d + 1 /\ IsLevels(L(d), d) /\ IsLevels(L(d + 1), d + 1)
      BY <1>1
    <3> QED
      BY <3>1, LevelsAgree
  <2>2. L(d + 1)[d + 1] = Below(L(d + 1)[d])
    BY <1>1 DEF IsLevels
  <2> QED
    BY <1>2, <2>1, <2>2
<1> DEFINE G == {d \in Nat : AtLevel(d) \in SUBSET Node}
<1>5. 0 \in G
  BY <1>2, <1>3, HeapFacts
<1>6. ASSUME NEW d \in Nat, d \in G PROVE d + 1 \in G
  BY <1>4, <1>6, BelowIn
<1>7. Nat \subseteq G
  <2> HIDE DEF G
  <2> QED
    BY <1>5, <1>6, NatSets
<1> QED
  BY <1>2, <1>3, <1>4, <1>7

\* n hangs d levels below the root: it is in every set that contains the root at
\* level 0 and with a value, whatever pointers lead to it, all that is in it.
ClosedBelow(h, S) ==
    \A m, t \in Node : \A k \in Nat :
        <<m, k>> \in S /\ Reaches(h, m, t) /\ h[t].kind = "map"
            => \A x \in h[t].kids : <<x, k + 1>> \in S
OnLevel(h, n, d) ==
    \A S \in SUBSET (Node \X Nat) : <<Root, 0>> \in S /\ ClosedBelow(h, S) => <<n, d>> \in S

LEMMA OnNextLevel ==
    ASSUME NEW h, NEW n \in Node, NEW d \in Nat, NEW t \in Node, NEW x \in h[t].kids,
           OnLevel(h, n, d), Reaches(h, n, t), h[t].kind = "map"
    PROVE  OnLevel(h, x, d + 1)
  BY DEF OnLevel, ClosedBelow

LEMMA OnLevelIsLevel ==
    ASSUME heap \in Heap, NEW n, NEW d \in Nat, OnLevel(heap, n, d)
    PROVE  n \in AtLevel(d)
<1> DEFINE S == {p \in Node \X Nat : p[1] \in AtLevel(p[2])}
<1>1. <<Root, 0>> \in S
  BY LevelFacts, HeapFacts
<1>2. ASSUME NEW m \in Node, NEW t \in Node, NEW k \in Nat, NEW x \in heap[t].kids,
             <<m, k>> \in S, Reaches(heap, m, t), heap[t].kind = "map"
      PROVE  <<x, k + 1>> \in S
  <2>1. Target(m) = t
    BY <1>2, TargetEnds
  <2>2. m \in AtLevel(k)
    BY <1>2
  <2>3. x \in Below(AtLevel(k))
    BY <1>2, <2>1, <2>2 DEF Below
  <2>4. x \in Node /\ x \in AtLevel(k + 1)
    BY <2>3, LevelFacts, HeapFacts
  <2> QED
    BY <2>4
<1>3. ClosedBelow(heap, S)
  <2> HIDE DEF S
  <2> QED
    BY <1>2 DEF ClosedBelow
<1>4. <<n, d>> \in S
  <2>1. S \in SUBSET (Node \X Nat)
    OBVIOUS
  <2> HIDE DEF S
  <2> QED
    BY <1>1, <1>3, <2>1 DEF OnLevel
<1> QED
  BY <1>4

-----------------------------------------------------------------------------
\* The record a call on n at depth d must leave, once pointers are followed.
FormIn(h, t) == IF h[t].kind = "map" THEN "copy"
                ELSE IF h[t].kind \in {"text", "struct"} THEN "string"
                ELSE IF h[t].kind = "nilpointer" THEN "nil" ELSE h[t].kind
Answer(h, n, d, r) ==
    /\ r.depth = d
    /\ d < MaxDepth => /\ Reaches(h, n, r.node) /\ h[r.node].kind # "pointer"
                       /\ r.form = FormIn(h, r.node)
    /\ d = MaxDepth => /\ r.node = n
                       /\ r.form = IF h[n].kind = "nil" THEN "nil" ELSE "string"

\* The call c will leave that record.
Carries(h, n, d, c) ==
    /\ c.fun = "sanitize" /\ c.depth = d
    /\ Reaches(h, n, c.node)
    /\ d = MaxDepth => c.node = n

\* The record is there, or a call of W will leave it.
Settled(h, W, res, n, d) ==
    (\E r \in res : Answer(h, n, d, r)) \/ (\E c \in W : Carries(h, n, d, c))

Frame == [node : Node, depth : Nat, fun : {"sanitize", "print"}, height : Nat]
Entry == [node : Node, depth : 0..MaxDepth, form : {"nil", "scalar", "string", "copy"}]
Work(cs) == {cs[i] : i \in 1..Len(cs)}

CopyTypes == heap \in Heap /\ copying \in Seq(Frame) /\ copied \subseteq Entry

\* A call that sanitises is one some node of its level asks for.
Justified(h, c) ==
    c.fun = "sanitize" =>
        /\ c.depth <= MaxDepth
        /\ \E n \in Node : OnLevel(h, n, c.depth) /\ Carries(h, n, c.depth, c)
Wanted(h, r) == \E n \in Node : OnLevel(h, n, r.depth) /\ Answer(h, n, r.depth, r)

KidsSettled(h, W, res, r) ==
    r.form = "copy" => \A k \in h[r.node].kids : Settled(h, W, res, k, r.depth + 1)

CopyInv ==
    /\ CopyTypes
    /\ \A c \in Work(copying) : Justified(heap, c)
    /\ \A r \in copied : Wanted(heap, r)
    /\ Settled(heap, Work(copying), copied, Root, 0)
    /\ \A r \in copied : KidsSettled(heap, Work(copying), copied, r)

\* Replacing the first call by the calls of q.
LEMMA Spliced ==
    ASSUME NEW F, NEW c \in Seq(F), c # <<>>, NEW q \in Seq(F), NEW e, e = q \o Tail(c)
    PROVE  /\ e \in Seq(F)
           /\ Head(c) \in Work(c) /\ Head(c) \in F
           /\ Work(e) \subseteq Work(q) \cup Work(c)
           /\ Work(q) \subseteq Work(e)
           /\ Work(c) \subseteq {Head(c)} \cup Work(e)
<1>1. /\ Len(c) \in Nat \ {0} /\ Len(q) \in Nat
      /\ Head(c) = c[1] /\ c[1] \in F
  OBVIOUS
<1>2. /\ e \in Seq(F) /\ Len(e) = Len(q) + (Len(c) - 1)
      /\ \A i \in 1..Len(e) : e[i] = IF i <= Len(q) THEN q[i] ELSE c[(i - Len(q)) + 1]
  OBVIOUS
<1>3. ASSUME NEW i \in 1..Len(e) PROVE e[i] \in Work(q) \cup Work(c)
  <2>1. CASE i <= Len(q)
    <3>1. i \in 1..Len(q) /\ e[i] = q[i]
      BY <1>1, <1>2, <2>1
    <3> QED
      BY <3>1 DEF Work
  <2>2. CASE ~(i <= Len(q))
    <3>1. (i - Len(q)) + 1 \in 1..Len(c) /\ e[i] = c[(i - Len(q)) + 1]
      BY <1>1, <1>2, <2>2
    <3> QED
      BY <3>1 DEF Work
  <2> QED
    BY <2>1, <2>2
<1>4. ASSUME NEW i \in 1..Len(q) PROVE q[i] \in Work(e)
  <2>1. i \in 1..Len(e) /\ e[i] = q[i]
    BY <1>1, <1>2
  <2> QED
    BY <2>1 DEF Work
<1>5. ASSUME NEW i \in 1..Len(c) PROVE c[i] \in {Head(c)} \cup Work(e)
  <2>1. CASE i = 1
    BY <1>1, <2>1
  <2>2. CASE i # 1
    <3> DEFINE j == Len(q) + (i - 1)
    <3>1. j \in 1..Len(e) /\ ~(j <= Len(q)) /\ (j - Len(q)) + 1 = i
      BY <1>1, <1>2, <2>2
    <3> HIDE DEF j
    <3>2. e[j] = c[(j - Len(q)) + 1]
      BY <1>2, <3>1
    <3>3. e[j] = c[i]
      BY <3>1, <3>2, Zenon
    <3> QED
      BY <3>1, <3>3, Zenon DEF Work
  <2> QED
    BY <2>1, <2>2
<1>6. Head(c) \in Work(c)
  BY <1>1 DEF Work
<1>7. Work(e) \subseteq Work(q) \cup Work(c)
  BY <1>3, Zenon DEF Work
<1>8. Work(q) \subseteq Work(e)
  BY <1>4, Zenon DEF Work
<1>9. Work(c) \subseteq {Head(c)} \cup Work(e)
  BY <1>5, Zenon DEF Work
<1> QED
  BY <1>1, <1>2, <1>6, <1>7, <1>8, <1>9

\* The first call gives way to the calls of S.
LEMMA WorkMoves ==
    ASSUME copying \in Seq(Frame), copying # <<>>, NEW S \in SUBSET Frame, IsFiniteSet(S),
           copying' = SetToSeq(S) \o Tail(copying)
    PROVE  /\ copying' \in Seq(Frame)
           /\ Head(copying) \in Work(copying) /\ Head(copying) \in Frame
           /\ Work(copying') \subseteq S \cup Work(copying)
           /\ S \subseteq Work(copying')
           /\ Work(copying) \subseteq {Head(copying)} \cup Work(copying')
<1> DEFINE q == SetToSeq(S)
<1>1. q \in Seq(S) /\ S \subseteq Work(q)
  BY SeqOfSet DEF Work
<1>2. copying' = q \o Tail(copying)
  OBVIOUS
<1> HIDE DEF q
<1>3. q \in Seq(Frame) /\ Work(q) \subseteq S
  BY <1>1 DEF Work
<1> QED
  BY <1>1, <1>2, <1>3, Spliced

\* A step keeps the invariant if what it adds is wanted and takes over what the
\* first call carried.
LEMMA CopyStep ==
    ASSUME CopyInv, copying # <<>>, heap' = heap,
           NEW S \in SUBSET Frame, IsFiniteSet(S),
           copying' = SetToSeq(S) \o Tail(copying),
           NEW R \in SUBSET Entry, copied' = copied \cup R,
           \A c \in S : Justified(heap, c),
           \A r \in R : Wanted(heap, r) /\ KidsSettled(heap, S, copied', r),
           \A n \in Node : \A d \in 0..MaxDepth :
              Carries(heap, n, d, Head(copying)) => Settled(heap, S, copied', n, d)
    PROVE  CopyInv'
<1> USE DEF CopyInv, CopyTypes
<1>1. /\ copying' \in Seq(Frame)
      /\ Work(copying') \subseteq S \cup Work(copying)
      /\ S \subseteq Work(copying')
      /\ Work(copying) \subseteq {Head(copying)} \cup Work(copying')
  BY WorkMoves
<1>2. ASSUME NEW n \in Node, NEW d \in 0..MaxDepth,
             Settled(heap, Work(copying), copied, n, d)
      PROVE  Settled(heap, Work(copying'), copied', n, d)
  BY <1>1, <1>2 DEF Settled
<1>3. CopyTypes'
  BY <1>1
<1>4. \A c \in Work(copying') : Justified(heap', c)
  BY <1>1
<1>5. \A r \in copied' : Wanted(heap', r)
  OBVIOUS
<1>6. Settled(heap', Work(copying'), copied', Root, 0)
  <2>1. Root \in Node /\ 0 \in 0..MaxDepth
    BY HeapFacts
  <2> QED
    BY <1>2, <2>1
<1>7. ASSUME NEW r \in copied', r.form = "copy", NEW k \in heap[r.node].kids
      PROVE  Settled(heap', Work(copying'), copied', k, r.depth + 1)
  <2>1. CASE r \in R
    BY <1>1, <1>7, <2>1 DEF KidsSettled, Settled
  <2>2. CASE r \in copied
    <3>1. r \in Entry /\ MaxDepth \in Nat
      BY <2>2, HeapFacts
    <3>2. r.node \in Node /\ r.depth \in 0..MaxDepth
      BY <3>1 DEF Entry
    <3>3. k \in Node
      BY <3>2, HeapFacts
    <3>4. r.depth # MaxDepth
      BY <1>7, <2>2 DEF Wanted, Answer
    <3>5. r.depth + 1 \in 0..MaxDepth
      BY <3>1, <3>2, <3>4
    <3>6. Settled(heap, Work(copying), copied, k, r.depth + 1)
      BY <1>7, <2>2 DEF KidsSettled
    <3> QED
      BY <1>2, <3>3, <3>5, <3>6
  <2> QED
    BY <2>1, <2>2
<1>8. \A r \in copied' : KidsSettled(heap', Work(copying'), copied', r)
  BY <1>7 DEF KidsSettled
<1> QED
  BY <1>3, <1>4, <1>5, <1>6, <1>8

LEMMA CurFacts ==
    ASSUME CopyInv, copying # <<>>
    PROVE  Cur \in Frame /\ Justified(heap, Cur) /\ Cur = Head(copying)
<1>1. Head(copying) \in Frame /\ Head(copying) \in Work(copying)
  <2>1. Len(copying) \in Nat \ {0} /\ Head(copying) = copying[1] /\ copying[1] \in Frame
    BY DEF CopyInv, CopyTypes
  <2> QED
    BY <2>1 DEF Work
<1> QED
  BY <1>1 DEF CopyInv, Cur

\* The calls a call makes: finitely many.
LEMMA CallsMade ==
    ASSUME CopyInv, copying # <<>>, NEW ns \in SUBSET Node, IsFiniteSet(ns), NEW d \in Nat,
           NEW g \in {"sanitize", "print"}
    PROVE  LET S == {Call(n, d, g, Cur.height + 1) : n \in ns}
           IN  S \in SUBSET Frame /\ IsFiniteSet(S)
<1> DEFINE k == Cur.height + 1
           f == [n \in ns |-> Call(n, d, g, k)]
           S == {Call(n, d, g, k) : n \in ns}
<1>1. k \in Nat
  BY CurFacts DEF Frame
<1> HIDE DEF k
<1>2. S \in SUBSET Frame
  BY <1>1 DEF Call, Frame
<1>3. f \in Surjection(ns, S)
  BY DEF Surjection
<1>4. IsFiniteSet(S)
  <2> HIDE DEF f, S
  <2> QED
    BY <1>3, FS_Surjection
<1> QED
  BY <1>2, <1>4 DEF k

\* A step that returns the answer asked for.
LEMMA Recorded ==
    ASSUME CopyInv, copying # <<>>, heap' = heap,
           Cur.fun = "sanitize",
           NEW S \in SUBSET Frame, IsFiniteSet(S),
           copying' = SetToSeq(S) \o Tail(copying),
           NEW form \in {"nil", "scalar", "string", "copy"}, Returns(form),
           Cur.depth < MaxDepth =>
              /\ heap[Cur.node].kind # "pointer"
              /\ form = FormIn(heap, Cur.node),
           Cur.depth = MaxDepth =>
              form = IF heap[Cur.node].kind = "nil" THEN "nil" ELSE "string",
           \A c \in S : Justified(heap, c),
           form = "copy" => \A k \in heap[Cur.node].kids :
                               \E c \in S : Carries(heap, k, Cur.depth + 1, c)
    PROVE  CopyInv'
<1> DEFINE r == [node |-> Cur.node, depth |-> Cur.depth, form |-> form]
<1>1. /\ Cur \in Frame /\ Justified(heap, Cur)
      /\ Cur = Head(copying) /\ MaxDepth \in Nat
  BY CurFacts, HeapFacts DEF CopyInv, CopyTypes
<1>2. Cur.node \in Node /\ Cur.depth \in 0..MaxDepth
  BY <1>1 DEF Frame, Justified
<1>3. r \in Entry /\ copied' = copied \cup {r}
  BY <1>2 DEF Entry, Returns
<1>4. r.node = Cur.node /\ r.depth = Cur.depth /\ r.form = form
  OBVIOUS
<1> HIDE DEF r
<1>5. ASSUME NEW n \in Node, NEW d \in 0..MaxDepth, Carries(heap, n, d, Cur)
      PROVE  Answer(heap, n, d, r)
  BY <1>1, <1>2, <1>4, <1>5 DEF Carries, Answer
<1>6. Wanted(heap, r)
  BY <1>1, <1>2, <1>4, <1>5 DEF Justified, Wanted
<1>7. KidsSettled(heap, S, copied', r)
  BY <1>4 DEF KidsSettled, Settled
<1>8. \A n \in Node : \A d \in 0..MaxDepth :
         Carries(heap, n, d, Head(copying)) => Settled(heap, S, copied', n, d)
  BY <1>1, <1>3, <1>5 DEF Settled
<1> DEFINE R == {r}
<1>9. R \in SUBSET Entry /\ copied' = copied \cup R
  BY <1>3
<1>10. \A q \in R : Wanted(heap, q) /\ KidsSettled(heap, S, copied', q)
  BY <1>6, <1>7
<1> HIDE DEF R
<1> QED
  BY <1>8, <1>9, <1>10, CopyStep

LEMMA NoCalls == {} \in SUBSET Frame /\ IsFiniteSet({})
  BY FS_EmptySet

LEMMA LeafKeeps ==
    ASSUME CopyInv, Nil \/ KeepScalar \/ Text
    PROVE  CopyInv'
<1> DEFINE cur == Cur
           S == {}
<1>1. /\ copying # <<>> /\ heap' = heap /\ cur.fun = "sanitize"
      /\ copying' = SetToSeq({}) \o Tail(copying)
  <2>1. \A d, g : {Call(n, d, g, Cur.height + 1) : n \in {}} = {}
    OBVIOUS
  <2> QED
    BY <2>1 DEF Nil, KeepScalar, Text, Recurse
<1>2. cur \in Frame /\ cur.depth <= MaxDepth /\ MaxDepth \in Nat
  BY <1>1, CurFacts, HeapFacts DEF Justified, CopyInv, CopyTypes
<1>3. cur.depth < MaxDepth \/ cur.depth = MaxDepth
  BY <1>2 DEF Frame
<1>4. CASE Nil
  <2>1. /\ Returns("nil")
        /\ \/ heap[cur.node].kind = "nil"
           \/ heap[cur.node].kind = "nilpointer" /\ cur.depth < MaxDepth
    BY <1>4 DEF Nil, NodeKind, BelowBound
  <2>2. cur.depth < MaxDepth => cur.depth # MaxDepth
    BY <1>2 DEF Frame
  <2>3. /\ heap[cur.node].kind # "pointer" /\ FormIn(heap, cur.node) = "nil"
        /\ cur.depth = MaxDepth => heap[cur.node].kind = "nil"
    BY <2>1, <2>2 DEF FormIn
  <2> QED
    BY <1>1, <2>1, <2>3, NoCalls, Recorded
<1>5. CASE KeepScalar
  <2>1. heap[cur.node].kind = "scalar" /\ Returns("scalar") /\ cur.depth < MaxDepth
    BY <1>5 DEF KeepScalar, NodeKind, BelowBound
  <2>2. cur.depth # MaxDepth
    BY <1>2, <2>1 DEF Frame
  <2> QED
    BY <1>1, <2>1, <2>2, NoCalls, Recorded DEF FormIn
<1>6. CASE Text
  <2>1. heap[cur.node].kind = "text" /\ Returns("string") /\ cur.depth < MaxDepth
    BY <1>6 DEF Text, NodeKind, BelowBound
  <2>2. cur.depth # MaxDepth
    BY <1>2, <2>1 DEF Frame
  <2> QED
    BY <1>1, <2>1, <2>2, NoCalls, Recorded DEF FormIn
<1> QED
  BY <1>4, <1>5, <1>6

LEMMA SprintKeeps ==
    ASSUME CopyInv, Sprint
    PROVE  CopyInv'
<1> DEFINE cur == Cur
           S == {Call(n, 0, "print", cur.height + 1) : n \in {cur.node}}
<1>1. /\ copying # <<>> /\ heap' = heap /\ cur.fun = "sanitize"
      /\ copying' = SetToSeq(S) \o Tail(copying)
      /\ heap[cur.node].kind # "nil"
      /\ cur.depth < MaxDepth => heap[cur.node].kind = "struct"
      /\ Returns("string")
  BY DEF Sprint, Recurse, NodeKind, BelowBound
<1>2. cur \in Frame /\ cur.node \in Node
  BY <1>1, CurFacts DEF Frame
<1>3. S \in SUBSET Frame /\ IsFiniteSet(S)
  <2>1. {cur.node} \in SUBSET Node /\ IsFiniteSet({cur.node})
    BY <1>2, FS_Singleton
  <2> QED
    BY <1>1, <2>1, CallsMade
<1>4. \A c \in S : Justified(heap, c)
  BY DEF Justified, Call
<1>5. cur.depth < MaxDepth => /\ heap[cur.node].kind # "pointer"
                              /\ FormIn(heap, cur.node) = "string"
  BY <1>1 DEF FormIn
<1> HIDE DEF S
<1> QED
  BY <1>1, <1>3, <1>4, <1>5, Recorded

LEMMA CopyKeeps ==
    ASSUME CopyInv, Copy
    PROVE  CopyInv'
<1> DEFINE cur == Cur
           kids == heap[cur.node].kids
           S == {Call(n, cur.depth + 1, "sanitize", cur.height + 1) : n \in kids}
<1>1. /\ copying # <<>> /\ heap' = heap /\ cur.fun = "sanitize"
      /\ copying' = SetToSeq(S) \o Tail(copying)
      /\ heap[cur.node].kind = "map" /\ cur.depth < MaxDepth
      /\ Returns("copy")
  BY DEF Copy, Recurse, NodeKind, BelowBound
<1>2. /\ cur \in Frame /\ cur.node \in Node /\ cur.depth \in Nat /\ MaxDepth \in Nat
      /\ kids \subseteq Node /\ IsFiniteSet(kids)
  <2>1. cur \in Frame /\ cur.node \in Node /\ cur.depth \in Nat
    BY <1>1, CurFacts DEF Frame
  <2> QED
    BY <2>1, HeapFacts DEF CopyInv, CopyTypes
<1>3. S \in SUBSET Frame /\ IsFiniteSet(S)
  <2>1. cur.depth + 1 \in Nat
    BY <1>2
  <2> QED
    BY <1>1, <1>2, <2>1, CallsMade
<1>4. PICK n \in Node : OnLevel(heap, n, cur.depth) /\ Carries(heap, n, cur.depth, cur)
  BY <1>1, CurFacts DEF Justified
<1>5. ASSUME NEW k \in kids
      PROVE  /\ OnLevel(heap, k, cur.depth + 1)
             /\ Carries(heap, k, cur.depth + 1,
                        Call(k, cur.depth + 1, "sanitize", cur.height + 1))
  <2>1. Reaches(heap, n, cur.node)
    BY <1>4 DEF Carries
  <2>2. OnLevel(heap, k, cur.depth + 1)
    BY <1>1, <1>2, <1>4, <2>1, OnNextLevel
  <2>3. Reaches(heap, k, k)
    BY <1>2, ReachesItself
  <2> QED
    BY <2>2, <2>3 DEF Carries, Call
<1>6. \A c \in S : Justified(heap, c)
  <2> SUFFICES ASSUME NEW k \in kids
               PROVE  Justified(heap, Call(k, cur.depth + 1, "sanitize", cur.height + 1))
    OBVIOUS
  <2>1. k \in Node /\ cur.depth + 1 <= MaxDepth
    BY <1>1, <1>2
  <2>2. Call(k, cur.depth + 1, "sanitize", cur.height + 1).depth = cur.depth + 1
    BY DEF Call
  <2> QED
    BY <1>5, <2>1, <2>2 DEF Justified
<1>7. \A k \in kids : \E c \in S : Carries(heap, k, cur.depth + 1, c)
  BY <1>5
<1>8. cur.depth # MaxDepth
  BY <1>1, <1>2
<1> HIDE DEF S
<1> QED
  BY <1>1, <1>3, <1>6, <1>7, <1>8, Recorded DEF FormIn

LEMMA FollowKeeps ==
    ASSUME CopyInv, Follow
    PROVE  CopyInv'
<1> DEFINE cur == Cur
           kids == heap[cur.node].kids
           S == {Call(n, cur.depth, "sanitize", cur.height + 1) : n \in kids}
<1>1. /\ copying # <<>> /\ heap' = heap /\ cur.fun = "sanitize"
      /\ copying' = SetToSeq(S) \o Tail(copying)
      /\ heap[cur.node].kind = "pointer" /\ cur.depth < MaxDepth
      /\ copied' = copied
  BY DEF Follow, Recurse, NodeKind, BelowBound
<1>2. /\ cur \in Frame /\ cur.node \in Node /\ cur.depth \in Nat /\ MaxDepth \in Nat
      /\ kids \subseteq Node /\ IsFiniteSet(kids) /\ cur = Head(copying)
  <2>1. cur \in Frame /\ cur.node \in Node /\ cur.depth \in Nat /\ cur = Head(copying)
    BY <1>1, CurFacts DEF Frame
  <2> QED
    BY <2>1, HeapFacts DEF CopyInv, CopyTypes
<1>3. PICK k : kids = {k}
  BY <1>1, <1>2, HeapFacts DEF CopyInv, CopyTypes
<1> DEFINE c == Call(k, cur.depth, "sanitize", cur.height + 1)
<1>4. S = {c} /\ S \in SUBSET Frame /\ IsFiniteSet(S)
  <2>1. S = {c}
    BY <1>3
  <2>2. S \in SUBSET Frame /\ IsFiniteSet(S)
    BY <1>1, <1>2, CallsMade
  <2> QED
    BY <2>1, <2>2
<1>5. c.node = k /\ c.depth = cur.depth /\ c.fun = "sanitize" /\ k \in Node
  BY <1>2, <1>3 DEF Call
<1> HIDE DEF S, c
<1>6. ASSUME NEW n \in Node, NEW d, Carries(heap, n, d, cur)
      PROVE  Carries(heap, n, d, c)
  <2>1. Reaches(heap, n, cur.node) /\ d = cur.depth
    BY <1>6 DEF Carries
  <2>2. Reaches(heap, n, k)
    BY <1>1, <1>2, <1>3, <1>5, <2>1, ReachesOn
  <2> QED
    BY <1>1, <1>2, <1>5, <2>1, <2>2 DEF Carries
<1>7. Justified(heap, c)
  BY <1>1, <1>2, <1>5, <1>6, CurFacts DEF Justified
<1>8. \A n \in Node : \A d \in 0..MaxDepth :
         Carries(heap, n, d, Head(copying)) => Settled(heap, S, copied', n, d)
  BY <1>2, <1>4, <1>6 DEF Settled
<1>9. {} \in SUBSET Entry /\ copied' = copied \cup {}
  BY <1>1
<1> QED
  BY <1>1, <1>4, <1>7, <1>8, <1>9, CopyStep

LEMMA FmtPrintKeeps ==
    ASSUME CopyInv, FmtPrint
    PROVE  CopyInv'
<1> DEFINE cur == Cur
           ns == Printed(cur.node)
           S == {Call(n, cur.depth + 1, "print", cur.height + 1) : n \in ns}
<1>1. /\ copying # <<>> /\ heap' = heap /\ cur.fun = "print"
      /\ copying' = SetToSeq(S) \o Tail(copying)
      /\ copied' = copied
  BY DEF FmtPrint, Recurse
<1>2. cur.node \in Node /\ cur.depth + 1 \in Nat /\ cur = Head(copying)
  <2>1. cur.node \in Node /\ cur.depth \in Nat /\ cur = Head(copying)
    BY <1>1, CurFacts DEF Frame
  <2> QED
    BY <2>1
<1>3. ns \in SUBSET Node /\ IsFiniteSet(ns)
  BY <1>2, HeapFacts, FS_EmptySet DEF CopyInv, CopyTypes, Printed
<1>4. S \in SUBSET Frame /\ IsFiniteSet(S)
  <2> HIDE DEF ns
  <2> QED
    BY <1>1, <1>2, <1>3, CallsMade
<1>5. \A c \in S : Justified(heap, c)
  BY DEF Justified, Call
<1> HIDE DEF S
<1>6. \A n \in Node : \A d \in 0..MaxDepth :
         Carries(heap, n, d, Head(copying)) => Settled(heap, S, copied', n, d)
  BY <1>1, <1>2 DEF Carries
<1>7. {} \in SUBSET Entry /\ copied' = copied \cup {}
  BY <1>1
<1> QED
  BY <1>1, <1>4, <1>5, <1>6, <1>7, CopyStep

LEMMA InitCopyInv == CopyInit => CopyInv
<1> SUFFICES ASSUME CopyInit PROVE CopyInv
  OBVIOUS
<1> DEFINE c == Call(Root, 0, "sanitize", 1)
<1>1. heap \in Heap /\ copying = <<c>> /\ copied = {} /\ Root \in Node /\ MaxDepth \in Nat
  BY HeapFacts DEF CopyInit
<1>2. c \in Frame /\ c.fun = "sanitize" /\ c.depth = 0 /\ c.node = Root
  BY <1>1 DEF Call, Frame
<1> HIDE DEF c
<1>3. CopyTypes
  BY <1>1, <1>2 DEF CopyTypes
<1>4. Work(copying) = {c}
  <2>1. Len(copying) = 1 /\ copying[1] = c
    BY <1>1
  <2> QED
    BY <2>1 DEF Work
<1>5. Carries(heap, Root, 0, c)
  BY <1>1, <1>2, ReachesItself DEF Carries
<1>6. OnLevel(heap, Root, 0)
  BY DEF OnLevel
<1> QED
  BY <1>1, <1>2, <1>3, <1>4, <1>5, <1>6 DEF CopyInv, Justified, Settled

LEMMA NextCopyInv ==
    CopyInv /\ [CopyNext]_copyVars => CopyInv'
<1> SUFFICES ASSUME CopyInv, [CopyNext]_copyVars
             PROVE  CopyInv'
  OBVIOUS
<1>1. CASE UNCHANGED copyVars
  BY <1>1 DEF copyVars, CopyInv, CopyTypes, Settled, KidsSettled, Work
<1>2. CASE CopyNext
  BY <1>2, LeafKeeps, SprintKeeps, CopyKeeps, FollowKeeps, FmtPrintKeeps DEF CopyNext
<1> QED
  BY <1>1, <1>2

\* With no call left every node of every level has its record, by induction over
\* the levels: what a copied value holds is settled.
LEMMA AllRecorded ==
    ASSUME CopyInv, copying = <<>>
    PROVE  \A d \in Nat : d <= MaxDepth =>
              \A n \in AtLevel(d) : \E r \in copied : Answer(heap, n, d, r)
<1>1. Work(copying) = {}
  BY DEF Work
<1>2. /\ heap \in Heap /\ copied \subseteq Entry /\ MaxDepth \in Nat
      /\ \E r \in copied : Answer(heap, Root, 0, r)
      /\ \A r \in copied : r.form = "copy" =>
            \A k \in heap[r.node].kids : \E s \in copied : Answer(heap, k, r.depth + 1, s)
  BY <1>1, HeapFacts DEF CopyInv, CopyTypes, Settled, KidsSettled
<1> DEFINE G == {d \in Nat : d <= MaxDepth =>
                    \A n \in AtLevel(d) : \E r \in copied : Answer(heap, n, d, r)}
<1>3. 0 \in G
  BY <1>2, LevelFacts
<1>4. ASSUME NEW d \in Nat, d \in G PROVE d + 1 \in G
  <2> SUFFICES ASSUME d + 1 <= MaxDepth, NEW n \in AtLevel(d + 1)
               PROVE  \E r \in copied : Answer(heap, n, d + 1, r)
    OBVIOUS
  <2>1. PICK m \in AtLevel(d) :
           heap[Target(m)].kind = "map" /\ n \in heap[Target(m)].kids
    BY <1>2, LevelFacts DEF Below
  <2>2. d < MaxDepth /\ d <= MaxDepth /\ d # MaxDepth
    BY <1>2
  <2>3. PICK r \in copied : Answer(heap, m, d, r)
    BY <1>4, <2>1, <2>2
  <2>4. /\ r.depth = d /\ r.node \in Node
        /\ Reaches(heap, m, r.node) /\ heap[r.node].kind # "pointer"
        /\ r.form = FormIn(heap, r.node)
    BY <1>2, <2>2, <2>3 DEF Answer, Entry
  <2>5. m \in Node
    BY <1>2, <2>1, LevelFacts
  <2>6. Target(m) = r.node
    BY <1>2, <2>4, <2>5, TargetEnds
  <2>7. r.form = "copy"
    BY <2>1, <2>4, <2>6 DEF FormIn
  <2> QED
    BY <1>2, <2>1, <2>4, <2>6, <2>7
<1>5. Nat \subseteq G
  <2> HIDE DEF G
  <2> QED
    BY <1>3, <1>4, NatSets
<1> QED
  BY <1>5

\* The record of a node is the one Expected has.
LEMMA AnswerExpected ==
    ASSUME CopyInv, NEW d \in 0..MaxDepth,
           NEW n \in AtLevel(d), NEW r \in Entry, Answer(heap, n, d, r)
    PROVE  IF d < MaxDepth
           THEN r = [node |-> Target(n), depth |-> d,
                     form |-> FormOf(Target(n))]
           ELSE r = [node |-> n, depth |-> MaxDepth,
                     form |-> IF heap[n].kind = "nil" THEN "nil" ELSE "string"]
<1>1. heap \in Heap /\ MaxDepth \in Nat /\ d \in Nat
  BY HeapFacts DEF CopyInv, CopyTypes
<1>2. n \in Node
  BY <1>1, LevelFacts
<1>3. r = [node |-> r.node, depth |-> r.depth, form |-> r.form] /\ r.node \in Node
  BY DEF Entry
<1>4. CASE d < MaxDepth
  <2>1. /\ Reaches(heap, n, r.node) /\ heap[r.node].kind # "pointer"
        /\ r.form = FormIn(heap, r.node) /\ r.depth = d
    BY <1>4 DEF Answer
  <2>2. Target(n) = r.node
    BY <1>1, <1>2, <1>3, <2>1, TargetEnds
  <2>3. FormOf(r.node) = FormIn(heap, r.node)
    BY DEF FormOf, FormIn
  <2> QED
    BY <1>3, <1>4, <2>1, <2>2, <2>3
<1>5. CASE ~(d < MaxDepth)
  <2>1. d = MaxDepth
    BY <1>1, <1>5
  <2> QED
    BY <1>3, <1>5, <2>1 DEF Answer
<1> QED
  BY <1>4, <1>5

LEMMA CopyInvComplete ==
    ASSUME CopyInv PROVE CopyComplete
<1> SUFFICES ASSUME copying = <<>> PROVE copied = Expected
  BY DEF CopyComplete
<1>1. heap \in Heap /\ MaxDepth \in Nat /\ copied \subseteq Entry
  BY HeapFacts DEF CopyInv, CopyTypes
<1>2. ASSUME NEW r \in copied PROVE r \in Expected
  <2>1. PICK n \in Node : OnLevel(heap, n, r.depth) /\ Answer(heap, n, r.depth, r)
    BY DEF CopyInv, Wanted
  <2>2. r \in Entry /\ r.depth \in 0..MaxDepth /\ r.depth \in Nat
    BY <1>1 DEF Entry
  <2>3. n \in AtLevel(r.depth)
    BY <1>1, <2>1, <2>2, OnLevelIsLevel
  <2>4. CASE r.depth < MaxDepth
    <3>1. r = [node |-> Target(n), depth |-> r.depth,
               form |-> FormOf(Target(n))]
      BY <2>1, <2>2, <2>3, <2>4, AnswerExpected
    <3>2. r.depth \in 0..(MaxDepth - 1)
      BY <1>1, <2>2, <2>4
    <3> QED
      BY <2>3, <3>1, <3>2 DEF Expected
  <2>5. CASE ~(r.depth < MaxDepth)
    <3>1. r = [node |-> n, depth |-> MaxDepth,
               form |-> IF heap[n].kind = "nil" THEN "nil" ELSE "string"]
      BY <2>1, <2>2, <2>3, <2>5, AnswerExpected
    <3>2. r.depth = MaxDepth
      BY <1>1, <2>2, <2>5
    <3> QED
      BY <2>3, <3>1, <3>2 DEF Expected
  <2> QED
    BY <2>4, <2>5
<1>3. ASSUME NEW e \in Expected PROVE e \in copied
  <2>1. CASE \E d \in 0..(MaxDepth - 1) : \E n \in AtLevel(d) :
                e = [node |-> Target(n), depth |-> d,
                     form |-> FormOf(Target(n))]
    <3>0. PICK d \in 0..(MaxDepth - 1) : \E n \in AtLevel(d) :
             e = [node |-> Target(n), depth |-> d,
                  form |-> FormOf(Target(n))]
      BY <2>1
    <3>1. PICK n \in AtLevel(d) :
             e = [node |-> Target(n), depth |-> d,
                  form |-> FormOf(Target(n))]
      BY <3>0
    <3>2. d \in 0..MaxDepth /\ d < MaxDepth /\ d \in Nat /\ d <= MaxDepth
      BY <1>1
    <3>3. PICK r \in copied : Answer(heap, n, d, r)
      BY <3>2, AllRecorded
    <3> QED
      BY <1>1, <3>1, <3>2, <3>3, AnswerExpected
  <2>2. CASE \E n \in AtLevel(MaxDepth) :
                e = [node |-> n, depth |-> MaxDepth,
                     form |-> IF heap[n].kind = "nil" THEN "nil" ELSE "string"]
    <3>1. PICK n \in AtLevel(MaxDepth) :
             e = [node |-> n, depth |-> MaxDepth,
                  form |-> IF heap[n].kind = "nil" THEN "nil" ELSE "string"]
      BY <2>2
    <3>2. MaxDepth \in 0..MaxDepth /\ ~(MaxDepth < MaxDepth) /\ MaxDepth <= MaxDepth
      BY <1>1
    <3>3. PICK r \in copied : Answer(heap, n, MaxDepth, r)
      BY <1>1, <3>2, AllRecorded
    <3> QED
      BY <1>1, <3>1, <3>2, <3>3, AnswerExpected
  <2> QED
    BY <2>1, <2>2 DEF Expected
<1> QED
  BY <1>2, <1>3

\* Once its calls are over sanitizeValue (attributes.go:55-120) has left exactly the
\* records its value asks for: every node down to the depth bound at its level, a
\* placeholder where the bound cuts, and nothing else.  Holds for every heap of
\* finitely many nodes, cycles included, should the calls end.
THEOREM CopyCompleteHolds == CopySpec => []CopyComplete
<1>1. CopyInit => CopyInv
  BY InitCopyInv
<1>2. CopyInv /\ [CopyNext]_copyVars => CopyInv'
  BY NextCopyInv
<1>3. CopyInv => CopyComplete
  BY CopyInvComplete
<1> QED
  BY <1>1, <1>2, <1>3, PTL DEF CopySpec
=============================================================================
