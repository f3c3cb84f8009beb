--------------------------- MODULE JobSettling ---------------------------
(***************************************************************************)
(* How the transcode jobs of one asset end, and what their ends leave on   *)
(* the asset.  A submit counts the outstanding work and then pushes; the   *)
(* scaler claims, posts and reports a dispatch; a callback or the sweep    *)
(* completes; the operator cancels the job or its run.  Each of these is a *)
(* handler of several repository calls, and the handlers of different      *)
(* jobs, and of one job, interleave at those calls.                        *)
(*                                                                         *)
(* A job record is its number, in the order of the store's listing, which  *)
(* is the order of random ids; jobs may be created in any order.  The      *)
(* pipeline run of the asset is the run of the first job submitted through *)
(* the execute route; every other job is a direct transcode.               *)
(*                                                                         *)
(* The stack resolver leaves a scaled stack's `encore' unset               *)
(* (workspace-stack.ts:349), so GET and DELETE /jobs/:id never reach       *)
(* Encore; DELETE /pipelines/:id has the scaler registry's client.         *)
(***************************************************************************)
EXTENDS Integers, FiniteSets

CONSTANTS N,            \* jobs
          Page,         \* SCAN_PAGE_SIZE
          Cap,          \* ENCORE_MAX_QUEUED_JOBS
          MaxTries,     \* deliveries of one callback before it is buried
          Overlap,      \* handlers may overlap
          MaxFaults,    \* bound: calls that fail, and records Encore loses
          ReportFails,  \* a dispatch report may fail
          Drops         \* the scaler may take a running encode for dropped

VARIABLES job,       \* the job records
          asset,     \* the asset's status, whose renditions it lists, and what preceded `processing`
          queue, inflight,  \* the scaler's two lists
          enc,       \* each job's encode
          stray,     \* history: jobs posted when their record had ended
          cb,        \* deliveries left of each success callback
          out,       \* jobs whose output objects are in storage
          exec,      \* the pipeline run: whose transcode step it waits for, and its state
          task,      \* the handlers under way
          faults
vars == <<job, asset, queue, inflight, enc, stray, cb, out, exec, task, faults>>

Jobs == 1..N
Kinds == {"submit", "dispatch", "complete", "cancel", "abort"}
JobStatus == {"none", "queued", "running", "done", "failed", "cancelled"}
AssetStatus == {"uploading", "processing", "ready", "failed"}
Steps == {"idle", "count", "push", "reject", "revert", "read", "job", "asset",
          "fail", "failasset", "release", "rend", "state", "done", "advance",
          "reclaim", "trace", "cancel", "stop", "rget", "rscan", "rwrite"}
Task == [at : Steps, ok : BOOLEAN, drop : BOOLEAN, rend : BOOLEAN, prior : AssetStatus]
NoTask == [at |-> "idle", ok |-> FALSE, drop |-> FALSE, rend |-> FALSE, prior |-> "uploading"]

\* Of a job record: its status, droppedByScaler, and the trace of a late completion.
JobRecord == [st : JobStatus, drop : BOOLEAN, late : {"no", "removed", "kept"}]
NoJob == [st |-> "none", drop |-> FALSE, late |-> "no"]

TypeOK ==
    /\ job \in [Jobs -> JobRecord]
    /\ asset \in [st : AssetStatus, rend : 0..N, prior : AssetStatus]
    /\ queue \subseteq Jobs /\ inflight \subseteq Jobs /\ stray \subseteq Jobs /\ out \subseteq Jobs
    /\ enc \in [Jobs -> {"no", "run", "ok", "bad", "gone"}] /\ cb \in [Jobs -> 0..MaxTries]
    /\ exec \in [job : 0..N, st : {"none", "running", "failed", "done"}]
    /\ task \in [Kinds \X Jobs -> Task] /\ faults \in 0..MaxFaults

-----------------------------------------------------------------------------
(* The two state machines. *)

JobAllowed == [none |-> {}, queued |-> {"running", "failed", "cancelled"},
               running |-> {"done", "failed", "cancelled"}, done |-> {},
               failed |-> {"done", "running"}, cancelled |-> {}]
ValidJob(from, to) == from = to \/ to \in JobAllowed[from]

\* applyJobPatch, for a status the record may take.
Patched(j, st) == [job EXCEPT ![j].st = st]

AssetAllowed == [uploading |-> {"processing", "failed"}, processing |-> {"ready", "failed"},
                 ready |-> {"processing"}, failed |-> {"uploading", "processing"}]
ValidAsset(from, to) == from = to \/ to \in AssetAllowed[from]

\* applyStatus: a move to the present status appends no history.
Moved(a, to) ==
    IF a.st = to THEN a
    ELSE [a EXCEPT !.st = to, !.prior = IF to = "processing" THEN a.st ELSE @]

Active(j) == job[j].st \in {"queued", "running"}
Others(j) == {k \in Jobs \ {j} : Active(k)}
Quiet == \A t \in Kinds \X Jobs : task[t].at = "idle"
MayStart(k, j) == task[<<k, j>>].at = "idle" /\ (Overlap \/ Quiet)

To(k, j, at) == task' = [task EXCEPT ![<<k, j>>].at = at]
End(k, j) == task' = [task EXCEPT ![<<k, j>>] = NoTask]
At(k, j, at) == task[<<k, j>>].at = at

Init ==
    /\ job = [j \in Jobs |-> NoJob]
    /\ \E s \in {"uploading", "ready", "failed"} : asset = [st |-> s, rend |-> 0, prior |-> "uploading"]
    /\ queue = {} /\ inflight = {} /\ stray = {} /\ out = {}
    /\ enc = [j \in Jobs |-> "no"] /\ cb = [j \in Jobs |-> 0]
    /\ exec = [job |-> 0, st |-> "none"]
    /\ task = [t \in Kinds \X Jobs |-> NoTask] /\ faults = 0

-----------------------------------------------------------------------------
(* submitTranscode. *)

\* The record is created and given its Encore id before the queue is asked.
\* The execute route also opens a run, when none is waiting for a transcode.
Create(j, piped) ==
    /\ MayStart("submit", j) /\ job[j].st = "none"
    /\ piped => exec.st = "none"
    /\ job' = Patched(j, "queued")
    /\ exec' = IF piped THEN [job |-> j, st |-> "running"] ELSE exec
    /\ To("submit", j, "count")
    /\ UNCHANGED <<asset, queue, inflight, enc, stray, cb, out, faults>>

\* assertUnderJobThroughputCap: the depths of both lists.
UnderCap == Cardinality(queue) + Cardinality(inflight) < Cap

\* The depths are read, and the push is another call.
Count(j) ==
    /\ At("submit", j, "count")
    /\ To("submit", j, IF UnderCap THEN "push" ELSE "reject")
    /\ UNCHANGED <<job, asset, queue, inflight, enc, stray, cb, out, exec, faults>>

Push(j) ==
    /\ At("submit", j, "push")
    /\ queue' = queue \cup {j} /\ End("submit", j)
    /\ UNCHANGED <<job, asset, inflight, enc, stray, cb, out, exec, faults>>

\* Over the cap: the job is failed, unless it was cancelled meanwhile.
Reject(j) ==
    /\ At("submit", j, "reject")
    /\ IF ValidJob(job[j].st, "failed")
       THEN job' = Patched(j, "failed") /\ To("submit", j, "revert")
       ELSE job' = job /\ End("submit", j)
    /\ exec' = IF exec.job = j /\ exec.st = "running" THEN [exec EXCEPT !.st = "failed"] ELSE exec
    /\ UNCHANGED <<asset, queue, inflight, enc, stray, cb, out, faults>>

Revert(j) ==
    /\ At("submit", j, "revert")
    /\ asset' = IF ValidAsset(asset.st, "failed") THEN Moved(asset, "failed") ELSE asset
    /\ End("submit", j)
    /\ UNCHANGED <<job, queue, inflight, enc, stray, cb, out, exec, faults>>

-----------------------------------------------------------------------------
(* The scaler's dispatch and its report. *)

Claim(j) ==
    /\ j \in queue
    /\ queue' = queue \ {j} /\ inflight' = inflight \cup {j}
    /\ UNCHANGED <<job, asset, enc, stray, cb, out, exec, task, faults>>

\* Nothing between the claim and the post asks whether the job was cancelled.
Post(j) ==
    /\ j \in inflight /\ enc[j] = "no" /\ (Overlap \/ Quiet)
    /\ enc' = [enc EXCEPT ![j] = "run"] /\ To("dispatch", j, "read")
    /\ stray' = IF job[j].st = "queued" THEN stray ELSE stray \cup {j}
    /\ UNCHANGED <<job, asset, queue, inflight, cb, out, exec, faults>>

\* onDispatched: the job is looked up once.
DispatchRead(j) ==
    /\ At("dispatch", j, "read")
    /\ To("dispatch", j, IF job[j].st = "queued" THEN "job" ELSE "asset")
    /\ UNCHANGED <<job, asset, queue, inflight, enc, stray, cb, out, exec, faults>>

\* A write the state machine refuses throws, and the scaler swallows it.
DispatchJob(j) ==
    /\ At("dispatch", j, "job")
    /\ IF ValidJob(job[j].st, "running")
       THEN /\ job' = Patched(j, "running") /\ To("dispatch", j, "asset")
            /\ UNCHANGED inflight
       ELSE job' = job /\ End("dispatch", j) /\ inflight' = inflight \ {j}
    /\ UNCHANGED <<asset, queue, enc, stray, cb, out, exec, faults>>

DispatchAsset(j) ==
    /\ At("dispatch", j, "asset")
    /\ asset' = Moved(asset, "processing")
    /\ inflight' = inflight \ {j} /\ End("dispatch", j)
    /\ UNCHANGED <<job, queue, enc, stray, cb, out, exec, faults>>

\* A repository call of the report fails; the scaler logs and goes on.
DispatchFails(j) ==
    /\ ReportFails /\ task[<<"dispatch", j>>].at \in {"read", "job", "asset"}
    /\ faults < MaxFaults /\ faults' = faults + 1
    /\ inflight' = inflight \ {j} /\ End("dispatch", j)
    /\ UNCHANGED <<job, asset, queue, enc, stray, cb, out, exec>>

-----------------------------------------------------------------------------
(* Encore. *)

\* Only a success is called back.
Encode(j) ==
    /\ enc[j] = "run"
    /\ \/ /\ enc' = [enc EXCEPT ![j] = "ok"] /\ cb' = [cb EXCEPT ![j] = MaxTries]
          /\ out' = out \cup {j} /\ UNCHANGED faults
       \/ enc' = [enc EXCEPT ![j] = "bad"] /\ UNCHANGED <<cb, out, faults>>
       \/ /\ faults < MaxFaults /\ faults' = faults + 1
          /\ enc' = [enc EXCEPT ![j] = "gone"] /\ UNCHANGED <<cb, out>>
    /\ UNCHANGED <<job, asset, queue, inflight, stray, exec, task>>

-----------------------------------------------------------------------------
(* completeTranscode, from a callback, the sweep or the drop detector. *)

Start(j, ok, drop) ==
    task' = [task EXCEPT ![<<"complete", j>>] = [NoTask EXCEPT !.at = "read", !.ok = ok, !.drop = drop]]

\* A success callback is taken from the queue.
Deliver(j) ==
    /\ MayStart("complete", j) /\ cb[j] > 0
    /\ cb' = [cb EXCEPT ![j] = @ - 1] /\ Start(j, TRUE, FALSE)
    /\ UNCHANGED <<job, asset, queue, inflight, enc, stray, out, exec, faults>>

\* The records the sweep reads: one page of the listing.
Scanned == {j \in Jobs : job[j].st # "none"
                         /\ Cardinality({k \in 1..j : job[k].st # "none"}) <= Page}

\* reconcileFailedTranscodes: an encode that failed, or whose record is gone
\* for longer than the timeout.
Sweep(j) ==
    /\ MayStart("complete", j) /\ j \in Scanned /\ Active(j) /\ enc[j] \in {"bad", "gone"}
    /\ Start(j, FALSE, FALSE)
    /\ UNCHANGED <<job, asset, queue, inflight, enc, stray, cb, out, exec, faults>>

\* The scaler takes the job for gone from its instance's active set.
Drop(j) ==
    /\ Drops /\ MayStart("complete", j) /\ Active(j) /\ enc[j] \in {"run", "ok"}
    /\ Start(j, FALSE, TRUE)
    /\ UNCHANGED <<job, asset, queue, inflight, enc, stray, cb, out, exec, faults>>

\* Where completeTranscode goes on, by the job it reads and what is reported.
Branch(r, ok) ==
    IF r.st = "cancelled" THEN "reclaim"
    ELSE IF r.st = "done" \/ (r.st = "failed" /\ ~(r.drop /\ ok)) THEN "idle"
    ELSE IF ok THEN "rend" ELSE "fail"

CompleteRead(j) ==
    /\ At("complete", j, "read")
    /\ LET b == Branch(job[j], task[<<"complete", j>>].ok)
       IN  IF b = "idle" THEN End("complete", j) ELSE To("complete", j, b)
    /\ UNCHANGED <<job, asset, queue, inflight, enc, stray, cb, out, exec, faults>>

\* A failure is written on the job, then on the asset.
CompleteFail(j) ==
    /\ At("complete", j, "fail")
    /\ IF ValidJob(job[j].st, "failed")
       THEN /\ job' = [job EXCEPT ![j].st = "failed", ![j].drop = task[<<"complete", j>>].drop]
            /\ To("complete", j, "failasset")
       ELSE job' = job /\ End("complete", j)
    /\ UNCHANGED <<asset, queue, inflight, enc, stray, cb, out, exec, faults>>

\* An asset that cannot fail any more throws, and nothing after it is done.
CompleteFailAsset(j) ==
    /\ At("complete", j, "failasset")
    /\ IF ValidAsset(asset.st, "failed")
       THEN asset' = Moved(asset, "failed") /\ To("complete", j, "release")
       ELSE asset' = asset /\ End("complete", j)
    /\ UNCHANGED <<job, queue, inflight, enc, stray, cb, out, exec, faults>>

\* findRunningByAssetAndStep: the asset's run that waits for a transcode,
\* whichever job it waits for.
FailRun == exec' = IF exec.st = "running" THEN [exec EXCEPT !.st = "failed"] ELSE exec

\* releasePipelineLock
CompleteRelease(j) ==
    /\ At("complete", j, "release") /\ FailRun /\ End("complete", j)
    /\ UNCHANGED <<job, asset, queue, inflight, enc, stray, cb, out, faults>>

\* A success is written on the asset, in two calls, before it is on the job.
CompleteRend(j) ==
    /\ At("complete", j, "rend")
    /\ asset' = [asset EXCEPT !.rend = j] /\ To("complete", j, "state")
    /\ UNCHANGED <<job, queue, inflight, enc, stray, cb, out, exec, faults>>

CompleteState(j) ==
    /\ At("complete", j, "state")
    /\ asset' = CASE asset.st = "processing" -> Moved(asset, "ready")
                  [] asset.st = "failed" -> Moved(Moved(asset, "processing"), "ready")
                  [] OTHER -> asset
    /\ To("complete", j, "done")
    /\ UNCHANGED <<job, queue, inflight, enc, stray, cb, out, exec, faults>>

\* A job that is still `queued`, or was cancelled, refuses `done`: the handler
\* throws and the callback is delivered again while it has deliveries left.
CompleteDone(j) ==
    /\ At("complete", j, "done")
    /\ IF ValidJob(job[j].st, "done")
       THEN job' = [job EXCEPT ![j].st = "done", ![j].drop = FALSE] /\ To("complete", j, "advance")
       ELSE job' = job /\ End("complete", j)
    /\ cb' = IF ValidJob(job[j].st, "done") THEN [cb EXCEPT ![j] = 0] ELSE cb
    /\ UNCHANGED <<asset, queue, inflight, enc, stray, out, exec, faults>>

\* The run goes on when the step it waits for names this job; one a drop had
\* failed is opened again.
CompleteAdvance(j) ==
    /\ At("complete", j, "advance")
    /\ exec' = IF exec.job = j /\ exec.st \in {"running", "failed"}
               THEN [exec EXCEPT !.st = "done"] ELSE exec
    /\ End("complete", j)
    /\ UNCHANGED <<job, asset, queue, inflight, enc, stray, cb, out, faults>>

\* reclaimCancelledTranscodeCompletion: the late output is removed, as far as
\* storage allows, the record says so, and the asset is looked at.
Reclaim(j) ==
    /\ At("complete", j, "reclaim")
    /\ \/ /\ out' = out \ {j} /\ job' = [job EXCEPT ![j].late = "removed"] /\ UNCHANGED faults
       \/ /\ faults < MaxFaults /\ faults' = faults + 1 /\ out' = out
          /\ job' = [job EXCEPT ![j].late = "kept"]
    /\ cb' = [cb EXCEPT ![j] = 0] /\ To("complete", j, "rget")
    /\ UNCHANGED <<asset, queue, inflight, enc, stray, exec>>

-----------------------------------------------------------------------------
(* DELETE /jobs/:id *)

\* A job that has ended is answered as it is; the scaler and Encore are not told.
Cancel(j) ==
    /\ MayStart("cancel", j) /\ Active(j) /\ To("cancel", j, "job")
    /\ UNCHANGED <<job, asset, queue, inflight, enc, stray, cb, out, exec, faults>>

CancelJobOnly(j) ==
    /\ At("cancel", j, "job")
    /\ job' = IF ValidJob(job[j].st, "cancelled") THEN Patched(j, "cancelled") ELSE job
    /\ End("cancel", j)
    /\ UNCHANGED <<asset, queue, inflight, enc, stray, cb, out, exec, faults>>

\* A job that ended meanwhile refuses `cancelled`.
CancelJob(j) ==
    /\ At("cancel", j, "job")
    /\ IF ValidJob(job[j].st, "cancelled")
       THEN job' = Patched(j, "cancelled") /\ To("cancel", j, "release")
       ELSE job' = job /\ End("cancel", j)
    /\ UNCHANGED <<asset, queue, inflight, enc, stray, cb, out, exec, faults>>

CancelRelease(j) ==
    /\ At("cancel", j, "release") /\ FailRun /\ To("cancel", j, "rget")
    /\ UNCHANGED <<job, asset, queue, inflight, enc, stray, cb, out, faults>>

-----------------------------------------------------------------------------
(* DELETE /pipelines/:id *)

\* While the run's transcode step is not done; after that nothing of it is left here.
Abort(j) ==
    /\ MayStart("abort", j) /\ exec.job = j /\ exec.st \in {"running", "failed"}
    /\ To("abort", j, "stop")
    /\ UNCHANGED <<job, asset, queue, inflight, enc, stray, cb, out, exec, faults>>

\* The scaling client's cancel: the queue is drained, a dispatched encode cancelled.  One
\* that fails is swallowed; a job between its claim and its post is not caught.
AbortStop(j) ==
    /\ At("abort", j, "stop")
    /\ \/ /\ queue' = queue \ {j} /\ UNCHANGED faults
          /\ enc' = [enc EXCEPT ![j] = IF @ = "run" THEN "bad" ELSE @]
       \/ /\ faults < MaxFaults /\ faults' = faults + 1 /\ UNCHANGED <<queue, enc>>
    /\ To("abort", j, "state")
    /\ UNCHANGED <<job, asset, inflight, stray, cb, out, exec>>

AbortRun(j) ==
    /\ At("abort", j, "state")
    /\ exec' = [exec EXCEPT !.st = "failed"] /\ To("abort", j, "job")
    /\ UNCHANGED <<job, asset, queue, inflight, enc, stray, cb, out, faults>>

\* A job that ended otherwise refuses `failed`.
AbortJob(j) ==
    /\ At("abort", j, "job")
    /\ IF ValidJob(job[j].st, "failed")
       THEN job' = Patched(j, "failed") /\ To("abort", j, "rget")
       ELSE job' = job /\ End("abort", j)
    /\ UNCHANGED <<asset, queue, inflight, enc, stray, cb, out, exec, faults>>

-----------------------------------------------------------------------------
(* recomputeAssetStateAfterTerminalJob, for a job or a run that was cancelled. *)

\* assetStateAfterTerminalJob, with the record as it was read.
AfterTerminal(k, t) ==
    IF t.rend THEN "ready"
    ELSE IF k = "abort" THEN "failed"
    ELSE IF t.prior # "processing" /\ ValidAsset("processing", t.prior) THEN t.prior
    ELSE "ready"

RecomputeGet(k, j) ==
    /\ At(k, j, "rget")
    /\ IF asset.st # "processing" THEN End(k, j)
       ELSE task' = [task EXCEPT ![<<k, j>>].at = "rscan", ![<<k, j>>].rend = asset.rend # 0,
                                 ![<<k, j>>].prior = asset.prior]
    /\ UNCHANGED <<job, asset, queue, inflight, enc, stray, cb, out, exec, faults>>

RecomputeScan(k, j) ==
    /\ At(k, j, "rscan")
    /\ IF Others(j) # {} THEN End(k, j) ELSE To(k, j, "rwrite")
    /\ UNCHANGED <<job, asset, queue, inflight, enc, stray, cb, out, exec, faults>>

RecomputeWrite(k, j) ==
    /\ At(k, j, "rwrite")
    /\ LET next == AfterTerminal(k, task[<<k, j>>])
       IN  asset' = IF ValidAsset(asset.st, next) THEN Moved(asset, next) ELSE asset
    /\ End(k, j)
    /\ UNCHANGED <<job, queue, inflight, enc, stray, cb, out, exec, faults>>

-----------------------------------------------------------------------------

Submits(j) == (\E piped \in BOOLEAN : Create(j, piped)) \/ Count(j) \/ Push(j) \/ Reject(j) \/ Revert(j)
Dispatches(j) == Claim(j) \/ Post(j) \/ DispatchRead(j) \/ DispatchJob(j) \/ DispatchAsset(j) \/ DispatchFails(j)
Completes(j) == CompleteRead(j) \/ CompleteFail(j) \/ CompleteFailAsset(j) \/ CompleteRelease(j)
                \/ CompleteRend(j) \/ CompleteState(j) \/ CompleteDone(j) \/ CompleteAdvance(j) \/ Reclaim(j)
Cancels(j) == Cancel(j) \/ CancelJob(j) \/ CancelRelease(j)
Aborts(j) == Abort(j) \/ AbortStop(j) \/ AbortRun(j) \/ AbortJob(j)
Recomputes(j) == \E k \in {"complete", "cancel", "abort"} : RecomputeGet(k, j) \/ RecomputeScan(k, j) \/ RecomputeWrite(k, j)

Next == \E j \in Jobs : Submits(j) \/ Dispatches(j) \/ Encode(j) \/ Deliver(j) \/ Sweep(j) \/ Drop(j)
                        \/ Completes(j) \/ Cancels(j) \/ Aborts(j) \/ Recomputes(j)

\* What goes on by itself: a handler under way.
SubmitStep(j) == Count(j) \/ Push(j) \/ Reject(j) \/ Revert(j)
DispatchStep(j) == DispatchRead(j) \/ DispatchJob(j) \/ DispatchAsset(j)
CancelStep(j) == CancelJob(j) \/ CancelRelease(j) \/ AbortStop(j) \/ AbortRun(j) \/ AbortJob(j)

Spec == Init /\ [][Next]_vars

-----------------------------------------------------------------------------

\* The scaler posted a job that had been cancelled, or whose run had: its report says
\* `processing' of an asset no job of which is active.  A late success of a cancelled
\* job ends that, and nothing else does.
PostedLate(j) == j \in stray /\ job[j].late = "no"

\* When no job of the asset is active and no handler is under way, the asset is not
\* `processing', but for a job posted after it was cancelled.
Released == Quiet /\ (\A j \in Jobs : ~Active(j)) /\ asset.st = "processing" => \E j \in Jobs : PostedLate(j)

\* The queue and the in-flight list never hold more than the cap.
WithinCap == Cardinality(queue) + Cardinality(inflight) <= Cap

\* At rest, a cancelled job whose callback was consumed has neither objects,
\* unless storage refused the removal, nor renditions on the asset.
LateOutputReclaimed ==
    Quiet => \A j \in Jobs : job[j].st = "cancelled" /\ enc[j] = "ok" /\ cb[j] = 0
                             => asset.rend # j /\ (job[j].late = "kept" \/ j \notin out)

\* A job whose encode ended, well or badly, or whose record Encore lost, ends.
Unfinished == \E j \in Jobs : enc[j] \in {"ok", "bad", "gone"} /\ Active(j)

===========================================================================
