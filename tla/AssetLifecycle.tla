--------------------------- MODULE AssetLifecycle ---------------------------
(***************************************************************************)
(* The life of an asset document, from its creation to the tombstone that  *)
(* replaces it (data/asset-repo.ts, data/couch-asset-repo.ts,              *)
(* data/couchdb.ts, routes/assets.ts, pipeline/archived-asset-purge-*.ts). *)
(* Every write of a document is a read, a computation and a put that       *)
(* carries the revision read, so two requests on one asset interleave      *)
(* between the read and the put.  A purge first removes the objects of the *)
(* document it was given and only then writes the tombstone.  An object is *)
(* named by the asset it was uploaded for; one key per asset stands for    *)
(* its source, renditions, subtitles and thumbnails.  The checks a handler *)
(* makes before its write are taken at one instant.                        *)
(***************************************************************************)
EXTENDS Naturals, FiniteSets, TLC

CONSTANTS
    Assets, None,
    Parent,      \* [Assets -> Assets \cup {None}]: parentId of a child
    Requests,    \* API requests that may be in flight at once
    Sweeper,     \* the retention sweep's own slot
    Ops,         \* the operations clients ask for
    Sweeping,    \* a retention window is configured
    OneAtATime,  \* a request or a sweep's purge starts only when none is under way
    MaxStops,    \* bound: stops of the process between two steps
    MaxRev,      \* bound: client writes of one document
    MaxAttempts  \* updateWithRetry's attempts

VARIABLES
    doc,      \* the stored document of an asset id
    bytes,    \* objects in the store
    active,   \* assets some pending, queued or running job names
    req,      \* requests in flight
    sweep,    \* the sweep's tick: the listing it works through, ids purged
    stops     \* stops of the process so far
vars == <<doc, bytes, active, req, sweep, stops>>

Statuses == {"uploading", "processing", "ready", "failed", "archived"}
Reviews == {"draft", "in-review", "approved", "rejected"}

Allowed(from, to) ==
    \/ from = to
    \/ <<from, to>> \in
         ({"uploading"} \X {"processing", "failed", "archived"})
         \cup ({"processing"} \X {"ready", "failed", "archived"})
         \cup ({"ready"} \X {"processing", "archived"})
         \cup ({"failed"} \X {"uploading", "processing", "archived"})

ReviewAllowed(from, to) ==
    \/ from = to
    \/ <<from, to>> \in ({"draft", "approved", "rejected"} \X {"in-review"})
                        \cup ({"in-review"} \X {"approved", "rejected"})

\* The fields of a document the operations below read.  `from` is the status
\* the last archiving left, `aged` says its retention window has passed.
NoDoc == [kind |-> "absent", status |-> "uploading", from |-> "uploading",
          review |-> "draft", locked |-> FALSE, key |-> None, aged |-> FALSE,
          rev |-> 0]
NewDoc(k) == [NoDoc EXCEPT !.kind = "asset", !.key = k]
Tombstone == [NoDoc EXCEPT !.kind = "tombstone"]

Free == [at |-> "idle"]
Quiet == OneAtATime => \A r \in DOMAIN req : req[r].at = "idle"

Live(a) == doc[a].kind = "asset"
Children(a) == {c \in Assets : Parent[c] = a /\ Live(c)}
LiveChildren(a) == {c \in Children(a) : doc[c].status # "archived"}

Init ==
    /\ doc = [a \in Assets |-> NoDoc]
    /\ bytes = {}
    /\ active = {}
    /\ req = [r \in Requests \cup {Sweeper} |-> Free]
    /\ sweep = [todo |-> {}, purged |-> {}]
    /\ stops = 0

---------------------------------------------------------------------------
(* What a write makes of the document it read.                             *)

ApplyStatus(d, to) ==
    [d EXCEPT !.status = to,
              !.from = IF to = "archived" /\ d.status # to THEN d.status ELSE @,
              !.aged = IF d.status = to THEN @ ELSE FALSE]

\* restoreTargetStatus: only an asset archived while ready comes back ready.
ApplyRestore(d) ==
    [d EXCEPT !.status = IF d.status # "archived" THEN @
                         ELSE IF d.from = "ready" THEN "ready" ELSE "failed",
              !.aged = FALSE]

Apply(op, arg, d) ==
    CASE op \in {"patch", "delete"} -> ApplyStatus(d, arg)
      [] op = "review"  -> [d EXCEPT !.review = arg]
      [] op = "lock"    -> [d EXCEPT !.locked = arg]
      [] op = "repoint" -> [d EXCEPT !.key = arg]
      [] op = "restore" -> ApplyRestore(d)
      [] op = "purge"   -> Tombstone
      [] op = "create"  -> NewDoc(arg)

\* Whether the write goes ahead on what was read.  A tombstone does not parse
\* as an asset document; `restore` asks for `archived` before its first read.
Accepts(q, d) ==
    IF q.op = "create" THEN d.kind = "absent"
    ELSE /\ d.kind = "asset"
         /\ q.op \in {"patch", "delete"} => Allowed(d.status, q.arg)
         /\ q.op = "review" => ReviewAllowed(d.review, q.arg)
         /\ q.op = "restore" /\ q.tries = 1 => d.status = "archived"

\* Only the updateWithRetry paths read again after a conflict.
Retries(op) == op \in {"patch", "delete", "lock", "repoint", "restore"}

---------------------------------------------------------------------------
(* A client's request: its checks, then the read of its write.             *)

Asks(op, a, arg) == [at |-> "read", op |-> op, a |-> a, arg |-> arg,
                     tries |-> 1, seen |-> NoDoc]

\* POST /: the parent must be there; the object key is the client's to set.
Create(r, a, k) ==
    /\ ~\E q \in Requests : req[q].at # "idle" /\ req[q].a = a
    /\ doc[a].kind = "absent"
    /\ Parent[a] # None => Live(Parent[a])
    /\ req' = [req EXCEPT ![r] = Asks("create", a, k)]

\* DELETE /:id, in the order of its refusals: lock, active job, live child.
\* (Collections are a soft block that `force` lifts.)
Delete(r, a) ==
    /\ Live(a)
    /\ ~doc[a].locked /\ a \notin active /\ LiveChildren(a) = {}
    /\ req' = [req EXCEPT ![r] = Asks("delete", a, "archived")]

\* No other document names an object this purge would remove.
SharedObject(a) == \E b \in Assets \ {a} : Live(b) /\ doc[b].key = doc[a].key

PurgeAdmittedShared(a) ==
    /\ Live(a) /\ ~doc[a].locked /\ doc[a].status = "archived"
    /\ a \notin active /\ LiveChildren(a) = {}

\* DELETE /:id/purge: every guard is evaluated on the document read here, and
\* the removal works from that copy.
PurgeAdmitted(a) ==
    /\ Live(a) /\ ~doc[a].locked /\ doc[a].status = "archived"
    /\ a \notin active /\ LiveChildren(a) = {} /\ ~SharedObject(a)

Purge(r, a) ==
    /\ PurgeAdmitted(a)
    /\ req' = [req EXCEPT ![r] = [Asks("purge", a, None) EXCEPT !.at = "objects", !.seen = doc[a]]]

\* PATCH /:id {status | objectKey}, the review route and the lock routes go
\* straight to their write.
Simple(r, op, a, arg) ==
    /\ Live(a)
    /\ req' = [req EXCEPT ![r] = Asks(op, a, arg)]

Ask(r) ==
    /\ req[r].at = "idle" /\ Quiet
    /\ \E a \in Assets :
         \/ \E k \in IF "repoint" \in Ops THEN Assets ELSE {a} : "create" \in Ops /\ Create(r, a, k)
         \/ "delete" \in Ops /\ Delete(r, a)
         \/ "purge" \in Ops /\ Purge(r, a)
         \/ \E s \in Statuses : "patch" \in Ops /\ Simple(r, "patch", a, s)
         \/ \E s \in Reviews : "review" \in Ops /\ Simple(r, "review", a, s)
         \/ \E b \in BOOLEAN : "lock" \in Ops /\ Simple(r, "lock", a, b)
         \/ \E k \in Assets : "repoint" \in Ops /\ Simple(r, "repoint", a, k)
         \/ "restore" \in Ops /\ Simple(r, "restore", a, None)
    /\ UNCHANGED <<doc, bytes, active, sweep, stops>>

---------------------------------------------------------------------------
(* The steps of a request once admitted.                                   *)

\* Removal of the objects of the document the purge was given: best effort,
\* so an object may stay; the tombstone follows either way.
RemoveObjects(r) ==
    /\ req[r].at = "objects"
    /\ \E gone \in {{req[r].seen.key}, {}} : bytes' = bytes \ gone
    /\ req' = [req EXCEPT ![r].at = "read"]
    /\ UNCHANGED <<doc, active, sweep, stops>>

Read(r) ==
    LET q == req[r] IN
    /\ q.at = "read"
    /\ req' = [req EXCEPT ![r] =
                 IF Accepts(q, doc[q.a]) THEN [q EXCEPT !.at = "put", !.seen = doc[q.a]]
                 ELSE Free]
    /\ UNCHANGED <<doc, bytes, active, sweep, stops>>

\* The put carries the revision read: a stale one is a conflict.
Fresh(q) == doc[q.a].rev = q.seen.rev

PutLands(r) ==
    LET q == req[r] IN
    /\ q.at = "put" /\ Fresh(q)
    /\ doc[q.a].rev < MaxRev \/ q.op = "purge"
    /\ doc' = [doc EXCEPT ![q.a] = [Apply(q.op, q.arg, q.seen) EXCEPT !.rev = q.seen.rev + 1]]
    /\ bytes' = IF q.op = "create" THEN bytes \cup {q.a} ELSE bytes
    /\ req' = [req EXCEPT ![r] = Free]
    /\ sweep' = IF r = Sweeper THEN [sweep EXCEPT !.purged = @ \cup {q.a}] ELSE sweep
    /\ UNCHANGED <<active, stops>>

PutConflicts(r) ==
    LET q == req[r] IN
    /\ q.at = "put" /\ ~Fresh(q)
    /\ req' = [req EXCEPT ![r] =
                 IF Retries(q.op) /\ q.tries < MaxAttempts
                 THEN [q EXCEPT !.at = "read", !.tries = @ + 1] ELSE Free]
    /\ UNCHANGED <<doc, bytes, active, sweep, stops>>

---------------------------------------------------------------------------
(* The retention sweep: one listing per tick, then asset by asset.  Ticks  *)
(* do not overlap.                                                         *)

SweepTick ==
    /\ Sweeping /\ req[Sweeper].at = "idle" /\ sweep.todo = {} /\ Quiet
    /\ LET listed == {a \in Assets : Live(a) /\ doc[a].status = "archived"} IN
         /\ listed # {}
         /\ sweep' = [todo |-> {<<a, doc[a]>> : a \in listed}, purged |-> {}]
    /\ UNCHANGED <<doc, bytes, active, req, stops>>

\* anyLiveChild: a child of any status blocks, unless this run purged it.
BlockedByChild(a) == Children(a) \ sweep.purged # {}

SweepAsset(a, d) ==
    /\ req[Sweeper].at = "idle" /\ <<a, d>> \in sweep.todo /\ Quiet
    /\ sweep' = [sweep EXCEPT !.todo = @ \ {<<a, d>>}]
    /\ IF d.aged /\ ~BlockedByChild(a)
       THEN req' = [req EXCEPT ![Sweeper] =
                      [Asks("purge", a, None) EXCEPT !.at = "objects", !.seen = d]]
       ELSE UNCHANGED req
    /\ UNCHANGED <<doc, bytes, active, stops>>

---------------------------------------------------------------------------
(* The surroundings.                                                       *)

JobStarts(a) ==
    /\ "job" \in Ops /\ Live(a) /\ a \notin active /\ Quiet
    /\ active' = active \cup {a}
    /\ UNCHANGED <<doc, bytes, req, sweep, stops>>

JobEnds(a) ==
    /\ a \in active
    /\ active' = active \ {a}
    /\ UNCHANGED <<doc, bytes, req, sweep, stops>>

WindowPasses(a) ==
    /\ Live(a) /\ doc[a].status = "archived" /\ ~doc[a].aged
    /\ doc' = [doc EXCEPT ![a].aged = TRUE]
    /\ UNCHANGED <<bytes, active, req, sweep, stops>>

Stop ==
    /\ stops < MaxStops
    /\ stops' = stops + 1
    /\ \E r \in DOMAIN req : req[r].at # "idle"
    /\ req' = [r \in DOMAIN req |-> Free]
    /\ sweep' = [todo |-> {}, purged |-> {}]
    /\ UNCHANGED <<doc, bytes, active>>

Sweeps == SweepTick \/ \E t \in sweep.todo : SweepAsset(t[1], t[2])
Step(r) == RemoveObjects(r) \/ Read(r) \/ PutLands(r) \/ PutConflicts(r)

Next ==
    \/ \E r \in Requests : Ask(r)
    \/ \E r \in DOMAIN req : Step(r)
    \/ Sweeps
    \/ \E a \in Assets : JobStarts(a) \/ JobEnds(a) \/ WindowPasses(a)
    \/ Stop

Spec == Init /\ [][Next]_vars

---------------------------------------------------------------------------
TypeOK ==
    /\ \A a \in Assets :
         /\ doc[a].kind \in {"absent", "asset", "tombstone"}
         /\ doc[a].status \in Statuses /\ doc[a].from \in Statuses
         /\ doc[a].review \in Reviews /\ doc[a].rev \in 0 .. MaxRev + 1
         /\ doc[a].locked \in BOOLEAN /\ doc[a].aged \in BOOLEAN
    /\ bytes \subseteq Assets /\ active \subseteq Assets
    /\ \A r \in DOMAIN req : req[r].at \in {"idle", "read", "objects", "put"}
    /\ \A r \in DOMAIN req : req[r].at # "idle" => req[r].tries \in 1 .. MaxAttempts
    /\ sweep.purged \subseteq Assets

\* However requests interleave, a document only moves along its two state
\* machines (restore being the one way out of archived), a lock is lifted only
\* by a request to unlock, and a tombstone is final.
Lawful(a) ==
    LET d == doc[a]  e == doc'[a] IN
    /\ d.kind = "tombstone" => e = d
    /\ (d.kind = "asset" /\ e.kind = "asset") =>
         /\ \/ Allowed(d.status, e.status)
            \/ d.status = "archived" /\ e.status = (IF d.from = "ready" THEN "ready" ELSE "failed")
         /\ ReviewAllowed(d.review, e.review)
         /\ d.locked /\ ~e.locked => \E r \in Requests : req[r].at = "put" /\ req[r].op = "lock"
DocumentsLawful == \A a \in Assets : Lawful(a)

\* A tombstone replaces only a document that is archived, not locked and not
\* named by an active job when it is written.
PurgeGuarded ==
    \A a \in Assets : (Live(a) /\ doc'[a].kind = "tombstone")
          => doc[a].status = "archived" /\ ~doc[a].locked /\ a \notin active

\* No single call takes an asset that is not archived to a tombstone.
PurgedFromArchive ==
    \A a \in Assets : (Live(a) /\ doc'[a].kind = "tombstone")
          => doc[a].status = "archived"

\* A purge only ever destroys bytes no other live document references.
BytesUnreferenced ==
    \A k \in bytes \ bytes' : Cardinality({b \in Assets : Live(b) /\ doc[b].key = k}) <= 1

\* No live child points at a tombstone.
NoOrphanedChild ==
    \A c \in Assets : Live(c) /\ doc[c].status # "archived" /\ Parent[c] # None
                        => doc[Parent[c]].kind # "tombstone"

\* A ready asset that was never pointed elsewhere still has its source object.
ReadyHasSource ==
    \A a \in Assets : Live(a) /\ doc[a].status = "ready" /\ doc[a].key = a => a \in bytes

\* An expired archived asset without children is purged in the end, unless it
\* is taken out of the archive.
Unfinished == \E a \in Assets : Live(a) /\ doc[a].aged /\ Children(a) = {}
=============================================================================
