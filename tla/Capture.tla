------------------------------ MODULE Capture ------------------------------
(***************************************************************************)
(* From a call of CaptureError, CaptureMessage or CaptureRecovered to the  *)
(* queued event: src/client.go, src/scope.go, src/event.go and the copies  *)
(* of attributes.go, with the metadata that wire.go makes of the event.    *)
(*                                                                         *)
(* Requests share the scope of the context they start from and run at the  *)
(* same time.  Every value carries the request that wrote it.  A nested    *)
(* map is a cell, shared by whoever holds a reference to it, until the     *)
(* capture takes a deep copy.                                              *)
(***************************************************************************)
EXTENDS Integers, Sequences, FiniteSets, Functions

CONSTANTS
    Request,        \* the requests (goroutines) served
    Cell,           \* nested maps: one of the base scope, one per request
    CellOf,         \* [Request \cup {"base"} -> Cell]
    Key,            \* attribute keys
    Kind,           \* the kinds of capture made
    Option,         \* the options a call may carry, merged into a record
    Scrubber,       \* what BeforeSend may do
    Edit,           \* sets of the fields that it rewrites, or has rewritten by its panic
    Hasher,         \* whether a Hasher is configured
    MaxOps,         \* bound of the scope operations of a request
    MaxCaptures     \* bound of its captures

NoCell == "nocell"
Level == {"debug", "info", "warning", "error", "fatal"}
Field == {"user", "message", "attributes", "level", "fingerprint", "no fingerprint"}

\* Every nested map belongs to one request or to the base scope.
ASSUME CaptureAssumption ==
    /\ IsFiniteSet(Request)
    /\ {"base", "none"} \cap Request = {}
    /\ CellOf \in [Request \cup {"base"} -> Cell]
    /\ \A c \in Cell : \E o \in Request \cup {"base"} : CellOf[o] = c
    /\ \A o, p \in Request \cup {"base"} : CellOf[o] = CellOf[p] => o = p
    /\ NoCell \notin Cell
    /\ Kind \subseteq {"error", "message", "panic"}
    /\ Option \subseteq [user : BOOLEAN, nested : BOOLEAN,
                         level : Level \cup {"unset"}, fingerprint : BOOLEAN]
    /\ Scrubber \subseteq {"none", "rewrite", "nested", "drop", "panic"}
    /\ Edit \subseteq SUBSET Field
    /\ Hasher \in BOOLEAN
    /\ MaxOps \in Nat /\ MaxCaptures \in Nat

Writer == Request \cup {"base", "scrubber", "resource", "nobody"}

\* An attribute value: a scalar or a reference to a cell.  One that BeforeSend
\* writes into a cell bears the request whose event it was given.
Value == [by : Writer, n : Nat, cell : Cell \cup {NoCell}, scrub : BOOLEAN]
Scalar(w) == [by |-> w, n |-> 0, cell |-> NoCell, scrub |-> FALSE]
Ref(c) == [by |-> "nobody", n |-> 0, cell |-> c, scrub |-> FALSE]
Absent == Scalar("nobody")

\* user.id and user.email.
Identity == [who : Writer, hashed : BOOLEAN]
Raw(w) == [who |-> w, hashed |-> FALSE]
Nobody == Raw("nobody")

Attributes == [Key -> Value]
NoAttributes == [k \in Key |-> Absent]

\* A fingerprint is empty, set by the caller or of a message.
Message == {"raw", "clean"}
Fingerprint == {"", "set"} \cup Message

\* Keys of the metadata that are the SDK's own, and the attributes of the
\* resource, of which wire.go leaves some to the session.
IsSDKManagedKey(k) == k \in {"user.id", "level"}
ResourceKey == {"host.arch", "service.name"}
IsSessionLevelKey(k) == k = "service.name"
TheResource == Scalar("resource")

Scope == [user : Identity, level : Level \cup {"unset"},
          fingerprint : Fingerprint, attributes : Attributes]
NoScope == [user |-> Nobody, level |-> "unset", fingerprint |-> "",
            attributes |-> NoAttributes]

VARIABLES
    scopes,     \* [Request \cup {"base"} -> Scope], by who made the scope
    cells,      \* [Cell -> contents of a nested map]
    ctx,        \* [Request -> the scope its context carries, or "none"]
    pc,         \* [Request -> what it is doing]
    event,      \* [Request -> the event being captured]
    queue,      \* events handed to the pending buffer, oldest first
    dropped,    \* DropBeforeSend
    captured,   \* IncCaptured
    broken,     \* captures ended by a contained panic (history)
    ops, calls  \* [Request -> scope operations, captures so far]

counters == <<dropped, captured, broken>>
vars == <<scopes, cells, ctx, pc, event, queue, counters, ops, calls>>

\* The context requests start from carries a scope with a nested attribute.
Init ==
    /\ scopes = [o \in Request \cup {"base"} |->
          IF o = "base"
          THEN [user |-> Raw("base"), level |-> "unset", fingerprint |-> "",
                attributes |-> [k \in Key |-> IF IsSDKManagedKey(k) THEN Absent
                                              ELSE Ref(CellOf["base"])]]
          ELSE NoScope]
    /\ cells = [c \in Cell |-> IF c = CellOf["base"] THEN Scalar("base")
               ELSE Scalar(CHOOSE r \in Request : CellOf[r] = c)]
    /\ ctx \in [Request -> {"base", "none"}]
    /\ pc = [r \in Request |-> "arrive"]
    /\ event = [r \in Request |-> <<>>]
    /\ queue = <<>>
    /\ dropped = 0 /\ captured = 0 /\ broken = 0
    /\ ops = [r \in Request |-> 0] /\ calls = [r \in Request |-> 0]

-----------------------------------------------------------------------------
(* Scopes.                                                                 *)

Merge(a, b) == [k \in Key |-> IF b[k] # Absent THEN b[k] ELSE a[k]]

CtxScope(r) == IF ctx[r] = "none" THEN NoScope ELSE scopes[ctx[r]]

\* Mutant of Isolate: a scope that the context already carries is kept.
IsolateEnsures(r) ==
    /\ pc[r] = "arrive"
    /\ pc' = [pc EXCEPT ![r] = "handle"]
    /\ ctx' = [ctx EXCEPT ![r] = IF @ = "none" THEN r ELSE @]
    /\ UNCHANGED <<scopes, cells, event, queue, counters, ops, calls>>

\* WithIsolatedScope: the request gets a scope of its own, whose attribute map
\* is copied and whose nested maps are not.
Isolate(r) ==
    /\ pc[r] = "arrive"
    /\ pc' = [pc EXCEPT ![r] = "handle"]
    /\ scopes' = [scopes EXCEPT ![r] = CtxScope(r)]
    /\ ctx' = [ctx EXCEPT ![r] = r]
    /\ UNCHANGED <<cells, event, queue, counters, ops, calls>>

\* Without middleware a context without a scope stays so until a setter runs.
Enter(r) ==
    /\ pc[r] = "arrive" /\ ctx[r] = "none"
    /\ pc' = [pc EXCEPT ![r] = "handle"]
    /\ UNCHANGED <<scopes, cells, ctx, event, queue, counters, ops, calls>>

\* ensureScope and a setter: the scope of the context changes in place.
SetScope(r, s) ==
    /\ pc[r] = "handle" /\ ops[r] < MaxOps
    /\ LET o == IF ctx[r] = "none" THEN r ELSE ctx[r]
       IN  ctx' = [ctx EXCEPT ![r] = o] /\ scopes' = [scopes EXCEPT ![o] = s]
    /\ ops' = [ops EXCEPT ![r] = @ + 1]
    /\ UNCHANGED <<cells, pc, event, queue, counters, calls>>

SetUser(r) == SetScope(r, [CtxScope(r) EXCEPT !.user = Raw(r)])
SetLevel(r) == SetScope(r, [CtxScope(r) EXCEPT !.level = "warning"])
SetFingerprint(r) == SetScope(r, [CtxScope(r) EXCEPT !.fingerprint = "set"])
SetAttribute(r) ==
    \E k \in Key, v \in {Scalar(r), Ref(CellOf[r])} :
        SetScope(r, [CtxScope(r) EXCEPT !.attributes[k] = v])

\* The host changes a nested map of its own, wherever that is referenced.
ChangeCell(r) ==
    /\ pc[r] = "handle" /\ ops[r] < MaxOps
    /\ cells' = [cells EXCEPT ![CellOf[r]].n = @ + 1]
    /\ ops' = [ops EXCEPT ![r] = @ + 1]
    /\ UNCHANGED <<scopes, ctx, pc, event, queue, counters, calls>>

-----------------------------------------------------------------------------
(* The event, with the options it was given and what BeforeSend rewrote    *)
(* (history).                                                              *)

DefaultLevel(kind) == CASE kind = "error"   -> "error"
                        [] kind = "message" -> "info"
                        [] kind = "panic"   -> "fatal"

\* Mutant of New: the fingerprint is computed in the constructor.
NewFingerprinted(r, kind) ==
    [by |-> r, kind |-> kind, user |-> Nobody, level |-> DefaultLevel(kind),
     levelLocked |-> kind = "panic", message |-> "raw", fingerprint |-> "raw",
     attributes |-> NoAttributes, option |-> <<>>, edited |-> {}]

New(r, kind) ==
    [by |-> r, kind |-> kind, user |-> Nobody, level |-> DefaultLevel(kind),
     levelLocked |-> kind = "panic", message |-> "raw", fingerprint |-> "",
     attributes |-> NoAttributes, option |-> <<>>, edited |-> {}]

\* Mutant of ApplyScope: the lock on the level is forgotten.
ApplyScopeUnlocked(s, e) ==
    [e EXCEPT !.user = IF s.user # Nobody THEN s.user ELSE @,
              !.attributes = Merge(@, s.attributes),
              !.level = IF s.level # "unset" THEN s.level ELSE @,
              !.fingerprint = IF s.fingerprint # "" THEN s.fingerprint ELSE @]

ApplyScope(s, e) ==
    [e EXCEPT !.user = IF s.user # Nobody THEN s.user ELSE @,
              !.attributes = Merge(@, s.attributes),
              !.level = IF s.level # "unset" /\ ~e.levelLocked THEN s.level ELSE @,
              !.fingerprint = IF s.fingerprint # "" THEN s.fingerprint ELSE @]

\* The options of a call, CaptureMessage's level among them.
ApplyOption(o, e) ==
    [e EXCEPT !.user = IF o.user THEN Raw(e.by) ELSE @,
              !.attributes = IF o.nested
                             THEN Merge(@, [k \in Key |-> Ref(CellOf[e.by])]) ELSE @,
              !.level = IF o.level \in Level THEN o.level ELSE @,
              !.fingerprint = IF o.fingerprint THEN "set" ELSE @,
              !.option = o]

\* fingerprint and titleFor, both of the message alone here and one for the other:
\* they are set, preserved and computed alike.
Finalize(e) == [e EXCEPT !.fingerprint = IF @ = "" THEN e.message ELSE @]

\* sanitizeAttributes: a deep copy.
Deep(v) == IF v.cell = NoCell THEN v ELSE cells[v.cell]

\* Mutant of Sanitize: the references to nested maps are kept.
SanitizeShallow(e) == e

Sanitize(e) == [e EXCEPT !.attributes = [k \in Key |-> Deep(e.attributes[k])]]

\* Mutant of Hash: as if it had run before BeforeSend replaced the user.
HashEarly(e) == [e EXCEPT !.user = IF Hasher /\ @ # Nobody /\ @.who # "scrubber"
                                   THEN [@ EXCEPT !.hashed = TRUE] ELSE @]

Hash(e) == [e EXCEPT !.user = IF Hasher /\ @ # Nobody
                              THEN [@ EXCEPT !.hashed = TRUE] ELSE @]

\* The map that has the entries of g and, written over them, those of f.
Over(f, g) == [k \in DOMAIN f \cup DOMAIN g |-> IF k \in DOMAIN f THEN f[k] ELSE g[k]]

\* Mutant of Metadata: the caller's attributes are written last.
MetadataCallerLast(e) ==
    LET caller == {k \in Key : e.attributes[k] # Absent}
        identity == IF e.user = Nobody THEN {} ELSE {"user.id"}
    IN  Over([k \in caller |-> e.attributes[k]],
        Over([k \in identity |-> e.user],
        Over([k \in {"level"} |-> [level |-> e.level]],
             [k \in ResourceKey |-> TheResource])))

\* buildMetadata: what is written later (further out) overrides.
Metadata(e) ==
    LET caller == {k \in Key : e.attributes[k] # Absent /\ ~IsSDKManagedKey(k)}
        detailed == {k \in ResourceKey : ~IsSessionLevelKey(k)}
        identity == IF e.user = Nobody THEN {} ELSE {"user.id"}
    IN  Over([k \in {"level"} |-> [level |-> e.level]],
        Over([k \in identity |-> e.user],
        Over([k \in detailed |-> TheResource],
             [k \in caller |-> e.attributes[k]])))

-----------------------------------------------------------------------------
(* A capture.  Between two of its steps the other requests go on.          *)

Step(r, to, e) ==
    /\ pc' = [pc EXCEPT ![r] = to]
    /\ event' = [event EXCEPT ![r] = e]

Begin(r) ==
    /\ pc[r] = "handle" /\ calls[r] < MaxCaptures
    /\ calls' = [calls EXCEPT ![r] = @ + 1]
    /\ \E kind \in Kind : Step(r, "assemble", New(r, kind))
    /\ UNCHANGED <<scopes, cells, ctx, queue, counters, ops>>

\* applyTo under the scope's lock, then the options.
Assemble(r) ==
    /\ pc[r] = "assemble"
    /\ \E o \in Option :
          Step(r, "scrub", ApplyOption(o, ApplyScope(CtxScope(r), event[r])))
    /\ UNCHANGED <<scopes, cells, ctx, queue, counters, ops, calls>>

\* The event after fields fs have been rewritten; "no fingerprint" empties it.
Rewritten(e, fs) ==
    [e EXCEPT !.user = IF "user" \in fs THEN Raw("scrubber") ELSE @,
              !.message = IF "message" \in fs THEN "clean" ELSE @,
              !.attributes = IF "attributes" \in fs
                             THEN [k \in Key |-> Scalar("scrubber")] ELSE @,
              !.level = IF "level" \in fs THEN "debug" ELSE @,
              !.fingerprint = IF "fingerprint" \in fs THEN "set"
                              ELSE IF "no fingerprint" \in fs THEN "" ELSE @,
              !.edited = @ \cup fs]

Edited(e) == {Rewritten(e, fs) : fs \in Edit}

Keep(r) ==
    /\ pc[r] = "scrub" /\ "none" \in Scrubber
    /\ Step(r, "hash", event[r])
    /\ UNCHANGED <<scopes, cells, ctx, queue, counters, ops, calls>>

Rewrite(r) ==
    /\ pc[r] = "scrub" /\ "rewrite" \in Scrubber
    /\ \E e \in Edited(event[r]) : Step(r, "hash", e)
    /\ UNCHANGED <<scopes, cells, ctx, queue, counters, ops, calls>>

\* The callback writes into the nested maps that the event refers to.
RewriteNested(r) ==
    /\ pc[r] = "scrub" /\ "nested" \in Scrubber
    /\ Step(r, "hash", event[r])
    /\ cells' = [c \in Cell |->
          IF \E k \in Key : event[r].attributes[k].cell = c
          THEN [Scalar(r) EXCEPT !.scrub = TRUE] ELSE cells[c]]
    /\ UNCHANGED <<scopes, ctx, queue, counters, ops, calls>>

\* Mutant of ScrubPanics: a panicking callback drops the event.
ScrubPanicDrops(r) ==
    /\ pc[r] = "scrub" /\ "panic" \in Scrubber
    /\ Step(r, "handle", <<>>)
    /\ UNCHANGED <<scopes, cells, ctx, queue, counters, ops, calls>>

\* The callback panics with some of its changes made: the event goes on as is.
ScrubPanics(r) ==
    /\ pc[r] = "scrub" /\ "panic" \in Scrubber
    /\ \E e \in {event[r]} \cup Edited(event[r]) : Step(r, "hash", e)
    /\ UNCHANGED <<scopes, cells, ctx, queue, counters, ops, calls>>

Drop(r) ==
    /\ pc[r] = "scrub" /\ "drop" \in Scrubber
    /\ dropped' = dropped + 1
    /\ Step(r, "handle", <<>>)
    /\ UNCHANGED <<scopes, cells, ctx, queue, captured, broken, ops, calls>>

HashIdentity(r) ==
    /\ pc[r] = "hash"
    /\ Step(r, "finish", Hash(event[r]))
    /\ UNCHANGED <<scopes, cells, ctx, queue, counters, ops, calls>>

\* Fingerprint, title, snapshot, debug output, counter and hand-off.
Finish(r) ==
    /\ pc[r] = "finish"
    /\ queue' = Append(queue, Sanitize(Finalize(event[r])))
    /\ captured' = captured + 1
    /\ Step(r, "handle", <<>>)
    /\ UNCHANGED <<scopes, cells, ctx, dropped, broken, ops, calls>>

\* Code of the host that runs outside BeforeSend's guard panics: Error of the
\* error, an option, the hasher, String of an attribute.  The call returns.
Break(r) ==
    /\ pc[r] \in {"assemble", "hash", "finish"}
    /\ broken' = broken + 1
    /\ Step(r, "handle", <<>>)
    /\ UNCHANGED <<scopes, cells, ctx, queue, dropped, captured, ops, calls>>

Next ==
    \E r \in Request :
        \/ Isolate(r) \/ Enter(r)
        \/ SetUser(r) \/ SetLevel(r) \/ SetFingerprint(r) \/ SetAttribute(r)
        \/ ChangeCell(r)
        \/ Begin(r) \/ Assemble(r)
        \/ Keep(r) \/ Rewrite(r) \/ RewriteNested(r) \/ ScrubPanics(r) \/ Drop(r)
        \/ HashIdentity(r) \/ Finish(r) \/ Break(r)

Spec == Init /\ [][Next]_vars

-----------------------------------------------------------------------------
(* Properties.                                                             *)

Queued == {queue[i] : i \in DOMAIN queue}

\* With a Hasher the user on the wire is a hashed one, whoever brought it in:
\* the scope, an option, BeforeSend also when it panics, or an attribute that
\* bears a reserved name; and no attribute hides the resource's own value
\* (client.go:260, wire.go:73).
ReservedKeysOwned ==
    \A e \in Queued :
        LET md == Metadata(e)
        IN  /\ Hasher /\ "user.id" \in DOMAIN md =>
                  md["user.id"] \in Identity /\ md["user.id"].hashed
            /\ md["host.arch"] = TheResource

\* A queued event never changes again (client.go:279): the host may go on to
\* change the nested maps it once passed in.
SnapshotStays ==
    [][\A i \in DOMAIN queue : \A k \in Key :
          (Deep(queue[i].attributes[k]))' = Deep(queue[i].attributes[k])]_vars

OfRequest(e) == {e.by, "base", "scrubber", "resource", "nobody"}

\* What one request puts into its isolated scope or into a nested map of its
\* own never shows up in the events of another (scope.go:163), however their
\* steps interleave.
RequestIsolation ==
    \A e \in Queued :
        LET md == Metadata(e)
        IN  \A k \in DOMAIN md :
              /\ md[k] \in Identity => md[k].who \in OfRequest(e)
              /\ md[k] \in Value => md[k].scrub \/ md[k].by \in OfRequest(e)

\* A panic stays fatal unless the call itself says otherwise, a level given with
\* the call wins over any scope (client.go:227, scope.go:118), and BeforeSend alone
\* has the last word: no attribute that is called "level" gets on the wire as one.
LevelsRespected ==
    \A e \in Queued :
        LET onWire == Metadata(e)["level"]
        IN  IF "level" \in e.edited THEN onWire = [level |-> "debug"]
            ELSE IF e.option.level \in Level THEN onWire = [level |-> e.option.level]
            ELSE e.kind = "panic" => onWire = [level |-> "fatal"]

\* A message that BeforeSend cleaned leaves no trace in the grouping key or the
\* title (client.go:269), whatever else it has rewritten, also when it panicked
\* afterwards, or emptied a fingerprint the caller had set.
NoPreScrubLeak == \A e \in Queued : e.message = "clean" => e.fingerprint # "raw"

InProgress == {r \in Request : pc[r] \notin {"arrive", "handle"}}

\* Every call ends in one of three ways and is counted once: handed over,
\* dropped by BeforeSend, or ended by a contained panic.  A panic of BeforeSend
\* alone ends none (client.go:302).
EveryCallEnds ==
    /\ captured = Len(queue)
    /\ SumFunction(calls)
          = captured + dropped + broken + Cardinality(InProgress)
=============================================================================
