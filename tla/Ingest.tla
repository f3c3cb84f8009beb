------------------------------- MODULE Ingest -------------------------------
(***************************************************************************)
(* Getting the bytes of an asset in: the URL pull worker (pipeline/url-    *)
(* pull-worker.ts) started by POST /ingest-url, the client uploads of      *)
(* routes/asset-upload.ts, and the two settlers of uploads that never      *)
(* finish: the boot-time reconciler of interrupted pulls (pipeline/        *)
(* interrupted-ingest-reconciler.ts) and the sweep of abandoned uploads    *)
(* (pipeline/abandoned-upload-sweep.ts).  Pulls, proxied PUTs, reconciler  *)
(* and sweep live in the process and die with it; presigned and multipart  *)
(* transfers go past it.  Every document write is a step of its own.       *)
(***************************************************************************)
EXTENDS Naturals, FiniteSets, TLC

CONSTANTS
    None,
    Assets,       \* asset ids
    Ways,         \* ways bytes come in: "pull", "external", "put", "presigned", "multipart"
    MaxAttempts,  \* MAX_ATTEMPTS of a pull
    MaxBoots,     \* bound: restarts
    MaxFaults,    \* bound: failed transfers and failed document writes
    DocFaults,    \* which document writes may fail: "job", "asset"
    MaxUploads,   \* bound: client transfers begun and finalize calls, together
    OverCap       \* {FALSE}, or BOOLEAN when the quota may refuse a finalize

VARIABLES
    asset,    \* [Assets -> [st, key, fresh]]; fresh: updatedAt within the threshold
    obj,      \* complete objects, <<asset, prefix>>
    parts,    \* keys with an open multipart upload
    job,      \* [Assets -> [st, gen]]; gen: the process that stamped updatedAt
    pull,     \* the pull worker of an asset
    up,       \* the client transfer of an asset; began: the asset was fresh then
    gen,      \* process generation
    rec,      \* the boot reconciler
    sweep,    \* the abandoned-upload sweep
    faults, uploads
vars == <<asset, obj, parts, job, pull, up, gen, rec, sweep, faults, uploads>>
docs == <<asset, job>>
bytes == <<obj, parts>>
settlers == <<gen, rec, sweep>>

NoPull == [at |-> "idle", n |-> 0]
NoUp == [at |-> "idle", way |-> None, began |-> FALSE]
Idle == [at |-> "idle", todo |-> {}, a |-> None, key |-> None]

Init ==
    /\ asset = [a \in Assets |-> [st |-> "none", key |-> None, fresh |-> TRUE]]
    /\ obj = {} /\ parts = {}
    /\ job = [a \in Assets |-> [st |-> "none", gen |-> 0]]
    /\ pull = [a \in Assets |-> NoPull]
    /\ up = [a \in Assets |-> NoUp]
    /\ gen = 1 /\ rec = Idle /\ sweep = Idle
    /\ faults = 0 /\ uploads = 0

---------------------------------------------------------------------------
(* The documents.                                                          *)

\* ALLOWED_TRANSITIONS, without the archive.
CanMove(from, to) ==
    \/ from = to
    \/ to \in CASE from = "uploading" -> {"processing", "failed"}
                [] from = "processing" -> {"ready", "failed"}
                [] from = "ready" -> {"processing"}
                [] from = "failed" -> {"uploading", "processing"}
                [] OTHER -> {}

\* ALLOWED_JOB_TRANSITIONS, for the statuses a pull uses.
CanMoveJob(from, to) ==
    \/ from = to
    \/ to \in CASE from = "pending" -> {"running", "failed"}
                [] from = "running" -> {"done", "failed"}
                [] from = "failed" -> {"done", "running"}
                [] OTHER -> {}

\* repo.update: the status moves from what the document holds by now.
Wrote(a, st, key) == [asset EXCEPT ![a] = [st |-> st, key |-> key, fresh |-> TRUE]]
\* jobs.update: updatedAt is stamped by this process.
Stamped(a, st) == [job EXCEPT ![a] = [st |-> st, gen |-> gen]]
\* A write of document w may fail while the budget lasts.
Faulty(w) == w \in DocFaults /\ faults < MaxFaults /\ faults' = faults + 1

---------------------------------------------------------------------------
(* POST /ingest-url and the pull worker.                                   *)

\* The route: asset created, its key recorded, job created, worker detached.
IngestUrl(a) ==
    /\ "pull" \in Ways /\ asset[a].st = "none"
    /\ asset' = Wrote(a, "uploading", "ingest")
    /\ job' = Stamped(a, "pending")
    /\ pull' = [pull EXCEPT ![a] = [at |-> "start", n |-> 0]]
    /\ UNCHANGED <<bytes, up, settlers, faults, uploads>>

\* The same route for a source on a registered backend: no byte is moved, the
\* asset is ready to process at once and its job runs and ends in the handler.
IngestExternal(a) ==
    /\ "external" \in Ways /\ asset[a].st = "none"
    /\ asset' = Wrote(a, "processing", "external")
    /\ obj' = obj \cup {<<a, "external">>}
    /\ pull' = [pull EXCEPT ![a].at = "extrun"]
    /\ UNCHANGED <<job, parts, up, settlers, faults, uploads>>
ExternalJob(a, from, to, st) ==
    /\ pull[a].at = from
    /\ job' = Stamped(a, st)
    /\ pull' = [pull EXCEPT ![a].at = to]
    /\ UNCHANGED <<asset, bytes, up, settlers, faults, uploads>>

\* The worker dies with a job write that fails outside its try.
PullDies(a) ==
    /\ pull[a].at \in {"start", "attempt"} /\ Faulty("job")
    /\ pull' = [pull EXCEPT ![a] = NoPull]
    /\ UNCHANGED <<docs, bytes, up, settlers, uploads>>

PullRunning(a) ==
    /\ pull[a].at = "start"
    /\ job' = Stamped(a, "running")
    /\ pull' = [pull EXCEPT ![a].at = "attempt"]
    /\ UNCHANGED <<asset, bytes, up, settlers, faults, uploads>>

PullAttempt(a) ==
    /\ pull[a].at = "attempt"
    /\ job' = Stamped(a, job[a].st)
    /\ pull' = [pull EXCEPT ![a] = [at |-> "open", n |-> @.n + 1]]
    /\ UNCHANGED <<asset, bytes, up, settlers, faults, uploads>>

\* The source opens and the quota admits it; what an earlier attempt staged is
\* discarded and the bytes begin to flow.
PullOpen(a) ==
    /\ pull[a].at = "open"
    /\ parts' = parts \cup {<<a, "ingest">>}
    /\ pull' = [pull EXCEPT ![a].at = "stream"]
    /\ UNCHANGED <<docs, obj, up, settlers, faults, uploads>>

\* A failed try: backoff and another attempt, or the end of the pull.
Failed(a, permanent) ==
    [pull EXCEPT ![a].at = IF permanent \/ pull[a].n = MaxAttempts THEN "giveup" ELSE "attempt"]

\* The source does not open, the quota or the size cap refuses it, or the
\* stream breaks.
PullBreaks(a, permanent) ==
    /\ pull[a].at \in {"open", "stream"}
    /\ faults < MaxFaults /\ faults' = faults + 1
    /\ pull' = Failed(a, permanent)
    /\ UNCHANGED <<docs, bytes, up, settlers, uploads>>

\* putStream has resolved; progress was written to the job along the way.
PullStored(a) ==
    /\ pull[a].at = "stream"
    /\ obj' = obj \cup {<<a, "ingest">>}
    /\ parts' = parts \ {<<a, "ingest">>}
    /\ job' = Stamped(a, job[a].st)
    /\ pull' = [pull EXCEPT ![a].at = "jobdone"]
    /\ UNCHANGED <<asset, up, settlers, faults, uploads>>

\* Still in the try: a write that fails repeats the whole pull.
PullJobDone(a) ==
    /\ pull[a].at = "jobdone"
    /\ CanMoveJob(job[a].st, "done")
    /\ job' = Stamped(a, "done")
    /\ pull' = [pull EXCEPT ![a].at = "assetdone"]
    /\ UNCHANGED <<asset, bytes, up, settlers, faults, uploads>>

PullAssetDone(a) ==
    /\ pull[a].at = "assetdone"
    /\ CanMove(asset[a].st, "processing")
    /\ asset' = Wrote(a, "processing", asset[a].key)
    /\ pull' = [pull EXCEPT ![a] = NoPull]
    /\ UNCHANGED <<job, bytes, up, settlers, faults, uploads>>

PullWriteFails(a) ==
    /\ \/ pull[a].at = "jobdone" /\ Faulty("job")
       \/ pull[a].at = "assetdone" /\ Faulty("asset")
    /\ pull' = Failed(a, FALSE)
    /\ UNCHANGED <<docs, bytes, up, settlers, uploads>>

\* discardOrphanedUpload, then job failed; not after done, where the write is
\* refused and the worker ends.
PullGiveUp(a) ==
    /\ pull[a].at = "giveup"
    /\ parts' = parts \ {<<a, "ingest">>}
    /\ IF CanMoveJob(job[a].st, "failed")
       THEN /\ job' = Stamped(a, "failed")
            /\ pull' = [pull EXCEPT ![a].at = "assetfailed"]
       ELSE /\ pull' = [pull EXCEPT ![a] = NoPull]
            /\ UNCHANGED job
    /\ UNCHANGED <<asset, obj, up, settlers, faults, uploads>>

PullAssetFailed(a) ==
    /\ pull[a].at = "assetfailed"
    /\ pull' = [pull EXCEPT ![a] = NoPull]
    /\ asset' = IF CanMove(asset[a].st, "failed") THEN Wrote(a, "failed", asset[a].key) ELSE asset
    /\ UNCHANGED <<job, bytes, up, settlers, faults, uploads>>

---------------------------------------------------------------------------
(* Client uploads, to the key sources/<id>.                                *)

Create(a) ==
    /\ Ways \cap {"put", "presigned", "multipart"} # {}
    /\ asset[a].st = "none"
    /\ asset' = Wrote(a, "uploading", None)
    /\ UNCHANGED <<job, bytes, pull, up, settlers, faults, uploads>>

Counted == uploads < MaxUploads /\ uploads' = uploads + 1

\* PUT /:id/upload begins to stream, POST upload-url hands out an address, or
\* POST multipart/initiate opens an upload.  None looks at the status.
UploadBegin(a, way) ==
    /\ way \in Ways \ {"pull", "external"} /\ asset[a].st # "none"
    /\ up[a].at = "idle" /\ Counted
    /\ up' = [up EXCEPT ![a] = [at |-> "sending", way |-> way, began |-> asset[a].fresh]]
    /\ parts' = IF way = "multipart" THEN parts \cup {<<a, "sources">>} ELSE parts
    /\ UNCHANGED <<docs, obj, pull, settlers, faults>>

\* touchUploadProgress: the heartbeat of a PUT, a part-url request.
Heartbeats(a) == up[a].at = "sending" /\ up[a].way \in {"put", "multipart"}

\* The transfer is complete.  PUT goes on to record it; a multipart complete
\* records the key but not the status; a presigned PUT records nothing.
UploadStored(a) ==
    LET way == up[a].way IN
    /\ up[a].at = "sending"
    /\ obj' = obj \cup {<<a, "sources">>}
    /\ parts' = IF way = "multipart" THEN parts \ {<<a, "sources">>} ELSE parts
    /\ asset' = IF way = "multipart" THEN Wrote(a, asset[a].st, "sources") ELSE asset
    /\ up' = [up EXCEPT ![a].at = IF way = "put" THEN "record" ELSE "stored"]
    /\ UNCHANGED <<job, pull, settlers, faults, uploads>>

\* The connection drops or the client goes away.
UploadBreaks(a) ==
    /\ up[a].at = "sending"
    /\ faults < MaxFaults /\ faults' = faults + 1
    /\ up' = [up EXCEPT ![a] = NoUp]
    /\ UNCHANGED <<docs, bytes, pull, settlers, uploads>>

\* DELETE /:id/multipart/:uploadId.
MultipartAbort(a) ==
    /\ up[a].at = "sending" /\ up[a].way = "multipart"
    /\ parts' = parts \ {<<a, "sources">>}
    /\ up' = [up EXCEPT ![a] = NoUp]
    /\ asset' = IF asset[a].st = "uploading" THEN Wrote(a, "failed", asset[a].key) ELSE asset
    /\ UNCHANGED <<job, obj, pull, settlers, faults, uploads>>

\* POST /:id/upload-complete: the size of what lies at the key is admitted; a
\* refusal removes the object.
SourceKey(a) == IF asset[a].key = None THEN "sources" ELSE asset[a].key
Finalize(a, over) ==
    /\ up[a].at = "stored" /\ Counted
    /\ IF over
       THEN /\ obj' = obj \ {<<a, SourceKey(a)>>}
            /\ UNCHANGED up
       ELSE /\ up' = [up EXCEPT ![a].at = "record"]
            /\ UNCHANGED obj
    /\ UNCHANGED <<docs, parts, pull, settlers, faults>>

\* The write that ends a PUT or a finalize.  The answer of a finalize may be
\* lost, and the client then calls again.
UploadRecord(a) ==
    LET key == IF up[a].way = "put" THEN "sources" ELSE SourceKey(a) IN
    /\ up[a].at = "record"
    /\ CanMove(asset[a].st, "processing")
    /\ asset' = Wrote(a, "processing", key)
    /\ \/ up' = [up EXCEPT ![a] = NoUp]
       \/ up[a].way # "put" /\ up' = [up EXCEPT ![a].at = "stored"]
    /\ UNCHANGED <<job, bytes, pull, settlers, faults, uploads>>

---------------------------------------------------------------------------
(* The sweep of abandoned uploads.                                         *)

\* The threshold passes without a write to the asset.
Age(a) ==
    /\ asset[a].st = "uploading" /\ asset[a].fresh /\ ~Heartbeats(a)
    /\ asset' = [asset EXCEPT ![a].fresh = FALSE]
    /\ UNCHANGED <<job, bytes, pull, up, settlers, faults, uploads>>

Stale(a) == asset[a].st = "uploading" /\ ~asset[a].fresh

SweepStart ==
    LET stale == {a \in Assets : Stale(a)} IN
    /\ sweep.at = "idle" /\ stale # {}
    /\ sweep' = [Idle EXCEPT !.at = "read", !.todo = stale]
    /\ UNCHANGED <<docs, bytes, pull, up, gen, rec, faults, uploads>>

SweepNext(a) == [sweep EXCEPT !.at = IF sweep.todo = {a} THEN "idle" ELSE "read",
                              !.todo = @ \ {a}, !.a = None]

\* The fresh read before the write.
SweepRead(a) ==
    /\ sweep.at = "read" /\ a \in sweep.todo
    /\ sweep' = IF Stale(a) THEN [sweep EXCEPT !.at = "write", !.a = a] ELSE SweepNext(a)
    /\ UNCHANGED <<docs, bytes, pull, up, gen, rec, faults, uploads>>

SweepWrite(a) ==
    /\ sweep.at = "write" /\ sweep.a = a
    /\ asset' = IF CanMove(asset[a].st, "failed") THEN Wrote(a, "failed", asset[a].key) ELSE asset
    /\ sweep' = SweepNext(a)
    /\ UNCHANGED <<job, bytes, pull, up, gen, rec, faults, uploads>>

---------------------------------------------------------------------------
(* Restart, and the reconciler of the next boot.                           *)

\* The process stops with its workers, its proxied uploads and its settlers.
Restart ==
    /\ gen <= MaxBoots
    /\ gen' = gen + 1
    /\ pull' = [a \in Assets |-> NoPull]
    /\ up' = [a \in Assets |-> IF up[a].way = "put" \/ up[a].at = "record" THEN NoUp ELSE up[a]]
    /\ rec' = [Idle EXCEPT !.at = "scan"] /\ sweep' = Idle
    /\ UNCHANGED <<docs, bytes, faults, uploads>>

\* running, and stamped before this process started.
Interrupted(a) == job[a].st = "running" /\ job[a].gen < gen

RecScan ==
    /\ rec.at = "scan"
    /\ rec' = [rec EXCEPT !.at = "job", !.todo = {a \in Assets : Interrupted(a)}]
    /\ UNCHANGED <<docs, bytes, pull, up, gen, sweep, faults, uploads>>

RecNext(a) == [rec EXCEPT !.at = "job", !.todo = @ \ {a}, !.a = None, !.key = None]

\* The job first; its write may fail and leaves the job to the next boot.
RecJob(a) ==
    /\ rec.at = "job" /\ a \in rec.todo
    /\ \/ /\ Interrupted(a)
          /\ job' = Stamped(a, "failed")
          /\ rec' = [rec EXCEPT !.at = "look", !.a = a]
          /\ UNCHANGED faults
       \/ /\ ~Interrupted(a)
          /\ rec' = RecNext(a) /\ UNCHANGED <<job, faults>>
       \/ /\ Interrupted(a) /\ Faulty("job")
          /\ rec' = RecNext(a) /\ UNCHANGED job
    /\ UNCHANGED <<asset, bytes, pull, up, gen, sweep, uploads>>

\* settleAssetForInterruptedPull: a read, then the write.
\* Variant: the status is not asked.
RecLookNot(a) ==
    /\ rec.at = "look" /\ rec.a = a
    /\ rec' = [rec EXCEPT !.at = "fail"]
    /\ UNCHANGED <<docs, bytes, pull, up, gen, sweep, faults, uploads>>

RecLook(a) ==
    /\ rec.at = "look" /\ rec.a = a
    /\ rec' = IF asset[a].st = "uploading" THEN [rec EXCEPT !.at = "fail"] ELSE RecNext(a)
    /\ UNCHANGED <<docs, bytes, pull, up, gen, sweep, faults, uploads>>

RecFail(a) ==
    /\ rec.at = "fail" /\ rec.a = a
    /\ \/ /\ CanMove(asset[a].st, "failed")
          /\ asset' = Wrote(a, "failed", asset[a].key)
          /\ rec' = [rec EXCEPT !.at = "discard", !.key = asset[a].key]
          /\ UNCHANGED faults
       \/ /\ Faulty("asset") /\ rec' = RecNext(a) /\ UNCHANGED asset
    /\ UNCHANGED <<job, bytes, pull, up, gen, sweep, uploads>>

\* discardPartialPullBytes: not for an object on somebody else's backend.
RecDiscard(a) ==
    LET mine == {<<a, rec.key>>} \ {<<a, "external">>} IN
    /\ rec.at = "discard" /\ rec.a = a
    /\ obj' = obj \ mine
    /\ parts' = parts \ mine
    /\ rec' = RecNext(a)
    /\ UNCHANGED <<docs, pull, up, gen, sweep, faults, uploads>>

---------------------------------------------------------------------------
PullStep(a) ==
    \/ PullRunning(a) \/ PullAttempt(a) \/ PullOpen(a) \/ PullStored(a) \/ PullJobDone(a)
    \/ PullAssetDone(a) \/ PullGiveUp(a) \/ PullAssetFailed(a)
    \/ ExternalJob(a, "extrun", "extdone", "running") \/ ExternalJob(a, "extdone", "idle", "done")
RecStep == RecScan \/ \E a \in Assets : RecJob(a) \/ RecLook(a) \/ RecFail(a) \/ RecDiscard(a)
SweepStep == SweepStart \/ \E a \in Assets : SweepRead(a) \/ SweepWrite(a)

Next ==
    \/ \E a \in Assets :
         \/ IngestUrl(a) \/ IngestExternal(a) \/ PullStep(a) \/ PullDies(a) \/ PullWriteFails(a)
         \/ \E permanent \in BOOLEAN : PullBreaks(a, permanent)
         \/ Create(a) \/ (\E way \in Ways : UploadBegin(a, way)) \/ UploadStored(a)
         \/ UploadBreaks(a) \/ MultipartAbort(a) \/ (\E over \in OverCap : Finalize(a, over))
         \/ UploadRecord(a) \/ Age(a)
    \/ SweepStep \/ RecStep \/ Restart

Spec == Init /\ [][Next]_vars

---------------------------------------------------------------------------
Statuses == {"none", "uploading", "processing", "ready", "failed"}
TypeOK ==
    /\ asset \in [Assets -> [st : Statuses, key : {None, "ingest", "external", "sources"}, fresh : BOOLEAN]]
    /\ obj \subseteq Assets \X {"ingest", "external", "sources"}
    /\ parts \subseteq Assets \X {"ingest", "sources"}
    /\ job \in [Assets -> [st : {"none", "pending", "running", "done", "failed"}, gen : 0..gen]]
    /\ \A a \in Assets : pull[a].n \in 0..MaxAttempts /\ up[a].way \in Ways \cup {None}
    /\ gen \in 1..(MaxBoots + 1) /\ faults \in 0..MaxFaults /\ uploads \in 0..MaxUploads
    /\ rec.todo \subseteq Assets /\ sweep.todo \subseteq Assets

\* A source that is handed on is there: an asset in processing has the complete
\* object its key names, whatever the settlers remove.
ProcessingHasSource ==
    \A a \in Assets : asset[a].st = "processing" => <<a, asset[a].key>> \in obj

\* A pull whose worker is alive is never settled under it: the boundary of the
\* reconciler (isStampedBefore) tells its own process's jobs from a dead one's.
LivePullSpared ==
    \A a \in Assets : rec.at = "job" /\ rec' # rec /\ pull[a].at # "idle"
                         => job'[a] = job[a]

\* The reconciler leaves alone an asset that has moved on, and its object: only
\* a pull that never reached processing is failed and reclaimed.
AdvancedSpared ==
    \A a \in Assets : rec.a = a /\ rec' # rec /\ gen' = gen /\ asset[a].st \notin {"uploading", "failed"}
                         => asset'[a] = asset[a] /\ obj' = obj

\* The sweep never takes an upload for abandoned that refreshes its stamp: the
\* heartbeat of a PUT, the part-url requests of a multipart upload.
BeatingNotSwept ==
    \A a \in Assets : sweep.at = "read" /\ sweep'.at = "write" /\ sweep'.a = a
                         => ~(up[a].at = "sending" /\ up[a].began)

\* A running pull's job is settled, through restarts, by the worker or by a boot,
\* and no asset stays uploading: worker, client, reconciler or sweep ends it.
Unfinished == \E a \in Assets : job[a].st = "running" \/ asset[a].st = "uploading"
=============================================================================
