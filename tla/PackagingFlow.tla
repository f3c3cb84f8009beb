--------------------------- MODULE PackagingFlow ---------------------------
(***************************************************************************)
(* The package step of a pipeline run, from the request that starts the   *)
(* run to the callback, sweep or cancel that settles it                    *)
(* (routes/assets.ts, pipeline/packaging.ts, pipeline/package-job.ts,      *)
(* routes/internal.ts, pipeline/stalled-package-reconciler.ts,             *)
(* routes/pipelines.ts).  The packager is external: it takes a message     *)
(* [asset, url] off its queue and posts a callback that names the ASSET    *)
(* only (a failure callback names nothing), so everything here turns on    *)
(* which run a callback is credited to.                                    *)
(***************************************************************************)
EXTENDS Naturals, Sequences, FiniteSets, FiniteSetsExt, TLC

CONSTANTS
    Runs,          \* requests to run a pipeline
    Assets, None,
    AssetOf,       \* [Runs -> Assets]
    PackageOnly,   \* runs of the `package` pipeline; the others transcode first
    Relocating,    \* runs with a destinationBucket
    Encrypting,    \* runs with a drm request, on a runner that can encrypt
    Direct,        \* requests of POST /:id/package {encoreJobId}: no execution
    MaxJobs,       \* bound on package jobs
    Cancels,       \* DELETE /pipelines/:id happens
    Overlapping,   \* two start requests of one asset may overlap
    Racing         \* the packager may answer before the run is written back

VARIABLES
    pc,        \* how far the start request of a run is
    exec,      \* the PipelineExecution of a run: status, transcode and package
               \*   step, the package step's jobId, relocatedPackagingIds
    born,      \* executions in the order they were created
    jobs,      \* package jobs: asset and status; the id is the index
    drm,       \* asset.drm: status and packageJobId
    output,    \* the package the asset's manifestUrls point at
    queue,     \* the packager's sorted set
    calls,     \* callbacks on their way
    handling,  \* packager-success requests between their read and their write
    sweeping,  \* executions the stalled-package sweep has read, as read
    broken,    \* history: messages the packager reported as failed
    blamed     \* history: runs failed by a failure callback

vars == <<pc, exec, born, jobs, drm, output, queue, calls, handling, sweeping,
          broken, blamed>>

JobIds == 1..MaxJobs

Execution == [st : {"none", "running", "done", "failed"},
              tr : {"absent", "pending", "running", "done", "failed", "refused"},
              pk : {"pending", "running", "done", "failed"},
              job : JobIds \union {0}, moved : BOOLEAN]

(* The queue member: two runs of one asset on one Encore job are one member. *)
Message == [asset : Assets, url : Runs, enc : BOOLEAN]

(* A package-only run reads the Encore job of an earlier transcode; here    *)
(* each run has an Encore job of its own.                                  *)
Msg(r) == [asset |-> AssetOf[r], url |-> r, enc |-> r \in Encrypting]

TypeOK ==
    /\ pc \in [Runs -> {"idle", "checked", "created", "queued", "live", "handoff"}]
    /\ exec \in [Runs -> Execution]
    /\ jobs \in Seq([asset : Assets, st : {"running", "done", "failed"}])
    /\ drm \in [Assets -> [st : {"none", "pending", "protected", "failed"},
                           job : JobIds \union {0}]]
    /\ queue \subseteq Message

Init ==
    /\ pc = [r \in Runs |-> "idle"]
    /\ exec = [r \in Runs |->
          [st |-> "none", tr |-> IF r \in PackageOnly THEN "absent" ELSE "pending",
           pk |-> "pending", job |-> 0, moved |-> FALSE]]
    /\ born = <<>> /\ jobs = <<>>
    /\ drm = [a \in Assets |-> [st |-> "none", job |-> 0]]
    /\ output = [a \in Assets |-> None]
    /\ queue = {} /\ calls = {} /\ handling = {} /\ sweeping = {}
    /\ broken = {} /\ blamed = {}

----------------------------------------------------------------------------
(* Package jobs (package-job.ts). *)

ActiveJobs(a) == {j \in DOMAIN jobs : jobs[j].asset = a /\ jobs[j].st = "running"}
ActiveJob(a) == IF ActiveJobs(a) = {} THEN 0 ELSE Max(ActiveJobs(a))

(* startPackageJob: an active job of the asset is used again. *)
StartedJob(a) == IF ActiveJob(a) # 0 THEN ActiveJob(a) ELSE Len(jobs) + 1
JobsStarted(a) ==
    IF ActiveJob(a) # 0 THEN jobs ELSE Append(jobs, [asset |-> a, st |-> "running"])

(* resolvePackageJob, then a settled job is left as it is. *)
Resolved(id, a) == IF id # 0 THEN id ELSE ActiveJob(a)
Settled(id, st) ==
    IF id # 0 /\ jobs[id].st = "running" THEN [jobs EXCEPT ![id].st = st] ELSE jobs

(* findRunningByAssetAndStep(asset, 'package'): the newest one. *)
AwaitingPackage(a) ==
    {n \in DOMAIN born : /\ AssetOf[born[n]] = a
                         /\ exec[born[n]].st = "running" /\ exec[born[n]].pk = "running"}
RunningPackage(a) == IF AwaitingPackage(a) = {} THEN None ELSE born[Max(AwaitingPackage(a))]

CorrelatesByStatus(block, id) == block.st = "pending"

(* correlatesWithRun: the block was stamped by the run now ending. *)
Correlates(block, id) == block.st = "pending" /\ block.job = id

DrmFailed(a, id) ==
    IF Correlates(drm[a], id) THEN [drm EXCEPT ![a].st = "failed"] ELSE drm

----------------------------------------------------------------------------
(* Starting a run (startPipelineExecution). *)

(* 409 pipeline_running unless no execution of the asset is running. *)
CheckIdle(r) ==
    /\ pc[r] = "idle" /\ r \notin Direct
    /\ \A o \in Runs : AssetOf[o] = AssetOf[r] => exec[o].st # "running"
    /\ Overlapping \/ \A o \in Runs : AssetOf[o] = AssetOf[r] => pc[o] # "checked"
    /\ pc' = [pc EXCEPT ![r] = "checked"]
    /\ UNCHANGED <<exec, born, jobs, drm, output, queue, calls, handling, sweeping, broken, blamed>>

Refused(r) ==
    /\ pc' = [pc EXCEPT ![r] = "idle"]
    /\ UNCHANGED <<exec, born, jobs, drm, output, queue, calls, handling, sweeping, broken, blamed>>

(* A package-only run needs renditions, a completed transcode and the       *)
(* Encore instance that ran it still in the pool.                           *)
RefusePackageOnly(r) == pc[r] = "checked" /\ r \in PackageOnly /\ Refused(r)

(* A transcode run needs a readable source object and a profile that runs;  *)
(* both need a destination that answers.                                    *)
RefuseSource(r) == pc[r] = "checked" /\ r \notin PackageOnly /\ Refused(r)

(* The preflights (source, profile, destination) await; then the execution  *)
(* is created.  A transcode run is submitted and written back at once: its  *)
(* encode cannot end before.                                                *)
CreateExecution(r) ==
    /\ pc[r] = "checked"
    /\ born' = Append(born, r)
    /\ IF r \in PackageOnly
       THEN /\ pc' = [pc EXCEPT ![r] = "created"]
            /\ exec' = [exec EXCEPT ![r].st = "running"]
       ELSE \/ /\ pc' = [pc EXCEPT ![r] = "live"]
               /\ exec' = [exec EXCEPT ![r].st = "running", ![r].tr = "running"]
            \/ /\ pc' = [pc EXCEPT ![r] = "live"]       \* submitTranscode throws
               /\ exec' = [exec EXCEPT ![r].st = "failed", ![r].tr = "refused"]
    /\ UNCHANGED <<jobs, drm, output, queue, calls, handling, sweeping, broken, blamed>>

(* enqueuePackagingStep for a drm request: keys, then the `pending` block   *)
(* stamped with the package job, then the encrypted enqueue; an error       *)
(* before or after the stamp leaves the block `failed`.                     *)
EnqueueEncrypted(r) ==
    LET a == AssetOf[r] IN
    \/ /\ queue' = queue \union {Msg(r)}
       /\ drm' = [drm EXCEPT ![a] = [st |-> "pending", job |-> StartedJob(a)]]
       /\ jobs' = JobsStarted(a)
    \/ /\ drm' = [drm EXCEPT ![a] = [st |-> "failed", job |-> 0]]
       /\ jobs' = LET j == JobsStarted(a) IN [j EXCEPT ![StartedJob(a)].st = "failed"]
       /\ UNCHANGED queue

(* triggerPackaging: the package job first, then the queue; an enqueue      *)
(* error fails the job and is kept to the asset.                            *)
TriggerPackaging(a, m) ==
    /\ UNCHANGED drm
    /\ \/ queue' = queue \union {m} /\ jobs' = JobsStarted(a)
       \/ /\ jobs' = LET j == JobsStarted(a) IN [j EXCEPT ![StartedJob(a)].st = "failed"]
          /\ UNCHANGED queue

Enqueue(r) ==
    IF r \in Encrypting THEN EnqueueEncrypted(r) ELSE TriggerPackaging(AssetOf[r], Msg(r))

HasJob(a) == ActiveJob(a) # 0 \/ Len(jobs) < MaxJobs

(* A package-only run enqueues while its step is still `pending` ...        *)
EnqueueOnly(r) ==
    /\ pc[r] = "created" /\ HasJob(AssetOf[r])
    /\ Enqueue(r)
    /\ pc' = [pc EXCEPT ![r] = "queued"]
    /\ exec' = [exec EXCEPT ![r].job = StartedJob(AssetOf[r])]   \* local stepsCopy
    /\ UNCHANGED <<born, output, calls, handling, sweeping, broken, blamed>>

(* ... and then writes the step `running` with the job it was given.        *)
WriteBack(r) ==
    /\ pc[r] = "queued"
    /\ pc' = [pc EXCEPT ![r] = "live"]
    /\ exec' = [exec EXCEPT ![r].st = "running", ![r].pk = "running"]
    /\ UNCHANGED <<born, jobs, drm, output, queue, calls, handling, sweeping, broken, blamed>>

(* The encode ends.  A failure fails the run; a success, which may correct  *)
(* an earlier failure and re-open the run, moves on to the package step     *)
(* unless the Encore URL is gone or no packager can be provisioned.         *)
EncodeEnds(r) ==
    /\ pc[r] = "live" /\ r \notin PackageOnly
    /\ \/ exec[r].st = "running" /\ exec[r].tr = "running"
       \/ exec[r].st = "failed" /\ exec[r].tr = "failed" /\ exec[r].pk = "pending"
    /\ \/ /\ exec' = [exec EXCEPT ![r].st = "running", ![r].tr = "done", ![r].pk = "running"]
          /\ pc' = [pc EXCEPT ![r] = "handoff"]
       \/ /\ exec' = [exec EXCEPT ![r].st = "failed", ![r].tr = "done", ![r].pk = "failed"]
          /\ UNCHANGED pc
       \/ /\ exec[r].tr = "running"
          /\ exec' = [exec EXCEPT ![r].st = "failed", ![r].tr = "failed"]
          /\ UNCHANGED pc
    /\ UNCHANGED <<born, jobs, drm, output, queue, calls, handling, sweeping, broken, blamed>>

(* stampJobIdOnPackageStep: the newest running package step without one.    *)
Stamped(a) ==
    LET r == RunningPackage(a) IN
    IF r = None \/ exec[r].job # 0 THEN exec ELSE [exec EXCEPT ![r].job = StartedJob(a)]

(* enqueuePackagingJob: the job, stamped on the running step, then ZADD.    *)
(* The run is not read again.                                               *)
HandOff(r) ==
    /\ pc[r] = "handoff" /\ HasJob(AssetOf[r])
    /\ Enqueue(r)
    /\ exec' = Stamped(AssetOf[r])
    /\ pc' = [pc EXCEPT ![r] = "live"]
    /\ UNCHANGED <<born, output, calls, handling, sweeping, broken, blamed>>

(* POST /:id/package with an encoreJobId: a clear enqueue, no execution.    *)
PackageDirect(r) ==
    /\ r \in Direct /\ pc[r] = "idle" /\ HasJob(AssetOf[r])
    /\ TriggerPackaging(AssetOf[r], Msg(r))
    /\ pc' = [pc EXCEPT ![r] = "live"]
    /\ UNCHANGED <<exec, born, output, calls, handling, sweeping, broken, blamed>>

----------------------------------------------------------------------------
(* The packager and its callbacks. *)

Package(m) ==
    /\ m \in queue
    /\ ~Racing => \A r \in Runs : pc[r] # "queued"
    /\ queue' = queue \ {m}
    /\ \E ok \in BOOLEAN :
          /\ calls' = calls \union {[ok |-> ok, msg |-> m]}
          /\ broken' = IF ok THEN broken ELSE broken \union {m}
    /\ UNCHANGED <<pc, exec, born, jobs, drm, output, handling, sweeping, blamed>>

LoseCall(c) ==
    /\ c \in calls /\ calls' = calls \ {c}
    /\ UNCHANGED <<pc, exec, born, jobs, drm, output, queue, handling, sweeping, broken, blamed>>

(* POST /packagerCallback/success up to the copy to the destination: the    *)
(* run is read, its instance unpinned, the copy begun.  `over' is history:  *)
(* the jobs that had settled when the callback came.                        *)
SuccessRead(c) ==
    /\ c \in calls /\ c.ok
    /\ LET r == RunningPackage(c.msg.asset) IN
       handling' = handling \union
          {[msg |-> c.msg, run |-> r, read |-> IF r = None THEN None ELSE exec[r],
            over |-> {j \in DOMAIN jobs : jobs[j].st # "running"},
            at |-> "copy", ok |-> TRUE, block |-> None, id |-> 0]}
    /\ calls' = calls \ {c}
    /\ UNCHANGED <<pc, exec, born, jobs, drm, output, queue, sweeping, broken, blamed>>

(* PipelineRepository.update: the steps are written as one array, the one   *)
(* the caller read, so a step written since is lost.                        *)
Written(r, read, st, pk) ==
    [exec[r] EXCEPT !.st = st, !.tr = read.tr, !.pk = pk, !.job = read.job]

AfterCopy(h, ok, copied) ==
    IF ~ok THEN Written(h.run, h.read, "failed", "failed")
    ELSE [Written(h.run, h.read, IF h.read.tr \in {"absent", "done"} THEN "done" ELSE "running",
                  "done") EXCEPT !.moved = @ \/ copied]

To(h, g) == handling' = (handling \ {h}) \union {g}

(* The copy ends, well or not, and handleSuccess reads the asset.           *)
SuccessAsset(h) ==
    LET copying == h.run # None /\ h.run \in Relocating /\ ~h.read.moved
        block == drm[h.msg.asset] IN
    /\ h.at = "copy"
    /\ \E ok \in IF copying THEN BOOLEAN ELSE {TRUE} :
          To(h, [h EXCEPT !.at = IF block.st = "pending" THEN "resolve" ELSE "write",
                          !.ok = ok, !.block = block])
    /\ UNCHANGED <<pc, exec, born, jobs, drm, output, queue, calls, sweeping, broken, blamed>>

(* resolvePackageJobId, for a block that is pending; it may not answer.     *)
SuccessResolve(h) ==
    /\ h.at = "resolve"
    /\ \E id \in {0, ActiveJob(h.msg.asset)} : To(h, [h EXCEPT !.at = "write", !.id = id])
    /\ UNCHANGED <<pc, exec, born, jobs, drm, output, queue, calls, sweeping, broken, blamed>>

(* One asset write: the output, and the block that was READ, settled.       *)
SuccessWrite(h) ==
    LET a == h.msg.asset IN
    /\ h.at = "write"
    /\ output' = [output EXCEPT ![a] = h.msg]
    /\ drm' = IF Correlates(h.block, h.id)
              THEN [drm EXCEPT ![a] = [h.block EXCEPT !.st = "protected"]] ELSE drm
    /\ To(h, [h EXCEPT !.at = IF h.ok THEN "job" ELSE "run", !.block = None, !.id = 0])
    /\ UNCHANGED <<pc, exec, born, jobs, queue, calls, sweeping, broken, blamed>>

(* completePackageJob: the asset's active package job, whichever it is now. *)
SuccessJob(h) ==
    /\ h.at = "job"
    /\ jobs' = Settled(ActiveJob(h.msg.asset), "done")
    /\ IF h.run = None THEN handling' = handling \ {h} ELSE To(h, [h EXCEPT !.at = "run"])
    /\ UNCHANGED <<pc, exec, born, drm, output, queue, calls, sweeping, broken, blamed>>

(* The execution, from what was read when the callback came.                *)
SuccessRun(h) ==
    /\ h.at = "run"
    /\ exec' = [exec EXCEPT ![h.run] =
                  AfterCopy(h, h.ok, h.run \in Relocating /\ ~h.read.moved)]
    /\ IF h.ok THEN handling' = handling \ {h} ELSE To(h, [h EXCEPT !.at = "fail"])
    /\ UNCHANGED <<pc, born, jobs, drm, output, queue, calls, sweeping, broken, blamed>>

(* failPackageJob, when the copy failed.                                    *)
SuccessFail(h) ==
    /\ h.at = "fail"
    /\ jobs' = Settled(Resolved(h.read.job, h.msg.asset), "failed")
    /\ handling' = handling \ {h}
    /\ UNCHANGED <<pc, exec, born, drm, output, queue, calls, sweeping, broken, blamed>>

(* A read or write of the asset or of the execution throws: the handler     *)
(* ends there.  (The job helpers log their own failures; none is modelled.) *)
SuccessThrows(h) ==
    /\ h.at \in {"copy", "write", "run"}
    /\ handling' = handling \ {h}
    /\ UNCHANGED <<pc, exec, born, jobs, drm, output, queue, calls, sweeping, broken, blamed>>

Success(h) == \/ SuccessAsset(h) \/ SuccessResolve(h) \/ SuccessWrite(h)
              \/ SuccessJob(h) \/ SuccessRun(h) \/ SuccessFail(h)

(* POST /packagerCallback/failure: every execution blocked on its package   *)
(* step is taken to be the one.                                             *)
Failure(c) ==
    LET hit == {r \in Runs : exec[r].st = "running" /\ exec[r].pk = "running"}
        id(r) == Resolved(exec[r].job, AssetOf[r])
        ids == {id(r) : r \in hit} IN
    /\ c \in calls /\ ~c.ok
    /\ calls' = calls \ {c}
    /\ exec' = [r \in Runs |-> IF r \in hit
                  THEN [exec[r] EXCEPT !.st = "failed", !.pk = "failed"] ELSE exec[r]]
    /\ jobs' = [j \in DOMAIN jobs |-> IF j \in ids /\ jobs[j].st = "running"
                  THEN [jobs[j] EXCEPT !.st = "failed"] ELSE jobs[j]]
    /\ drm' = [a \in Assets |-> IF \E r \in hit : AssetOf[r] = a /\ Correlates(drm[a], id(r))
                  THEN [drm[a] EXCEPT !.st = "failed"] ELSE drm[a]]
    /\ blamed' = blamed \union hit
    /\ UNCHANGED <<pc, born, output, queue, handling, sweeping, broken>>

----------------------------------------------------------------------------
(* The stalled-package sweep: a step still running past the bound is read,  *)
(* the packager is looked for, and the run is failed from what was read.    *)
SweepRead(r) ==
    /\ exec[r].st = "running" /\ exec[r].pk = "running"
    /\ sweeping = {}
    /\ sweeping' = {[run |-> r, read |-> exec[r]]}
    /\ UNCHANGED <<pc, exec, born, jobs, drm, output, queue, calls, handling, broken, blamed>>

SweepJobOnly(s) ==
    /\ s \in sweeping /\ sweeping' = {}
    /\ jobs' = Settled(Resolved(s.read.job, AssetOf[s.run]), "failed")
    /\ UNCHANGED <<pc, exec, born, drm, output, queue, calls, handling, broken, blamed>>

SweepWrite(s) ==
    LET a == AssetOf[s.run]
        id == Resolved(s.read.job, a) IN
    /\ s \in sweeping
    /\ sweeping' = {}
    /\ exec' = [exec EXCEPT ![s.run] = Written(s.run, s.read, "failed", "failed")]
    /\ jobs' = Settled(id, "failed")
    /\ drm' \in {DrmFailed(a, id), drm}      \* settleProtectionFailure never throws
    /\ UNCHANGED <<pc, born, output, queue, calls, handling, broken, blamed>>

(* DELETE /pipelines/:id: unfinished steps, the run and their jobs fail.    *)
CancelRun(r) ==
    /\ Cancels /\ exec[r].st = "running"
    /\ exec' = [exec EXCEPT ![r].st = "failed",
                            ![r].tr = IF @ \in {"running", "pending"} THEN "failed" ELSE @,
                            ![r].pk = "failed"]
    /\ jobs' = Settled(exec[r].job, "failed")
    /\ UNCHANGED <<pc, born, drm, output, queue, calls, handling, sweeping, broken, blamed>>

(* The end of the bounded instance: no request, callback or sweep is left.  *)
Idle ==
    /\ \/ \A r \in Runs : pc[r] \in {"idle", "live"} /\ exec[r].st # "running"
       \/ Len(jobs) = MaxJobs
    /\ UNCHANGED vars

Next ==
    \/ \E r \in Runs : \/ CheckIdle(r) \/ RefusePackageOnly(r) \/ RefuseSource(r)
                       \/ CreateExecution(r) \/ EnqueueOnly(r)
                       \/ WriteBack(r) \/ EncodeEnds(r) \/ HandOff(r)
                       \/ SweepRead(r) \/ CancelRun(r) \/ PackageDirect(r)
    \/ \E m \in queue : Package(m)
    \/ \E c \in calls : LoseCall(c) \/ SuccessRead(c) \/ Failure(c)
    \/ \E h \in handling : Success(h) \/ SuccessThrows(h)
    \/ \E s \in sweeping : SweepWrite(s)
    \/ Idle

Spec == Init /\ [][Next]_vars

(* What goes on by itself: a request in progress and an encode, the sweep.  *)
RunStep(r) == CreateExecution(r) \/ EnqueueOnly(r) \/ WriteBack(r) \/ EncodeEnds(r) \/ HandOff(r)
SweepWrites == \E s \in sweeping : SweepWrite(s)
Settles == \E h \in handling : Success(h)

----------------------------------------------------------------------------
(* Properties. *)

(* settleDrmOnPackagerSuccess: a block becomes `protected' only for a job   *)
(* that had not settled when the callback came; a run that was cancelled,   *)
(* failed or swept before never gets its protection from a later package,   *)
(* whatever comes between the handler's reads and its write.                *)
ProtectedByOpenRun ==
    \A a \in Assets : drm[a].st # "protected" /\ drm'[a].st = "protected"
          => \E h \in handling \ handling' :
                h.at = "write" /\ h.msg.asset = a /\ drm'[a].job \notin h.over

(* Issue 336: a package step that is running settles, whether or not the    *)
(* packager exists and whatever becomes of its callbacks.                   *)
Unfinished == \E r \in Runs : exec[r].st = "running" /\ exec[r].pk = "running"

(* package-job.ts: "the FOUR paths that enqueue or settle packaging cannot  *)
(* drift": a run that has settled leaves no package job running, but while  *)
(* the handler that failed the run has its job still to fail.               *)
NoOrphanJob ==
    \A r \in Runs : exec[r].st \in {"done", "failed"} /\ exec[r].job # 0
          => \/ jobs[exec[r].job].st # "running"
             \/ \E h \in handling : h.at = "fail" /\ h.run = r

=============================================================================
