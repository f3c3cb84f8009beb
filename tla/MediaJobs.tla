---------------------------- MODULE MediaJobs ----------------------------
(***************************************************************************)
(* The short-lived media jobs of an asset: clips and re-wraps (which make  *)
(* a child asset), thumbnails, technical metadata, scene cuts and          *)
(* subtitles.  Each starts a job on the platform, polls it with a budget,  *)
(* removes it, checks what it left in the object store and writes the      *)
(* asset's document.  They run detached, beside transcodes, edits of the   *)
(* asset and each other; the status a platform job ends with is that of    *)
(* its container, and says nothing of the file it should have written.     *)
(*                                                                         *)
(* Task i's job is job i; its objects are <<"child", i>>, <<"sub", i>>,    *)
(* <<"cuts", i>> and, for every frame f, the shared <<"thumb", f>>.        *)
(***************************************************************************)
EXTENDS FiniteSets, Naturals

CONSTANTS Kinds,       \* the kinds of job asked for in this instance
          Frames,      \* thumbnail timecodes
          MaxTasks,    \* bound: jobs asked for
          MaxFaults,   \* bound: failures of the platform, the store and the jobs
          MaxEdits,    \* bound: transcodes and track edits by others
          Overlap,     \* tasks may run beside a transcode or a track edit
          Crashes      \* the process may restart

VARIABLES asset,   \* the source asset's document
          kid,     \* the child asset of every clip
          busy,    \* a transcode of the source asset is running
          store,   \* objects present: "full" or "empty"
          job,     \* the platform's jobs
          task,    \* the runs under way
          manual,  \* tracks added through the API
          faults, edits
vars == <<asset, kid, busy, store, job, task, manual, faults, edits>>

Tasks == 1..MaxTasks
Keys == ({"child", "sub", "cuts"} \X Tasks) \cup ({"thumb"} \X Frames)
Tracks == ({"auto"} \X Tasks) \cup ({"manual"} \X (1..MaxEdits))
Statuses == {"processing", "ready", "failed", "archived"}
JobStates == {"none", "running", "ok", "bad", "stopped", "gone", "removed"}
Result == {"none", "good", "error"}
Task == [kind : {"free", "clip", "thumb", "probe", "scene", "subs"},
         step : {"begin", "poll", "remove", "check", "read", "write", "ready", "done"},
         out : {"none", "ok", "bad"}, ans : {"none", "ok", "bad"},
         frames : SUBSET Frames, todo : SUBSET Frames, landed : SUBSET Frames, stored : SUBSET Frames,
         tracks : SUBSET Tracks, advance : BOOLEAN]

TypeOK ==
    /\ asset \in [status : Statuses, meta : Result, scenes : Result, subs : Result,
                  thumbs : SUBSET Frames, tracks : SUBSET Tracks]
    /\ kid \in [Tasks -> [status : {"none"} \cup Statuses, key : BOOLEAN]]
    /\ busy \in BOOLEAN /\ store \in [Keys -> {"absent", "empty", "full"}]
    /\ job \in [Tasks -> JobStates] /\ task \in [Tasks -> Task]
    /\ manual \subseteq Tracks /\ faults \in 0..MaxFaults /\ edits \in 0..MaxEdits

Free == [kind |-> "free", step |-> "done", out |-> "none", ans |-> "none", frames |-> {}, todo |-> {},
         landed |-> {}, stored |-> {}, tracks |-> {}, advance |-> FALSE]
Live(i) == task[i].kind # "free" /\ task[i].step # "done"
Idle == \A i \in Tasks : ~Live(i)
At(i, kind, step) == task[i].kind = kind /\ task[i].step = step
Fault == faults < MaxFaults /\ faults' = faults + 1
To(i, step) == task' = [task EXCEPT ![i].step = step]
End(i, ans) == task' = [task EXCEPT ![i].step = "done", ![i].ans = ans]

-----------------------------------------------------------------------------
(* Asking for a job. *)

\* A task is taken up; an archived asset has no source object to work on.
Ask(i, k, fs) ==
    /\ k \in Kinds /\ task[i].kind = "free" /\ \A j \in 1..(i - 1) : task[j].kind # "free"
    /\ asset.status # "archived" /\ (Overlap \/ ~busy)
    /\ task' = [task EXCEPT ![i] = [Free EXCEPT !.kind = k, !.step = "begin", !.frames = fs, !.todo = fs]]
    /\ UNCHANGED <<asset, busy, store, job, manual, faults, edits>>

\* POST /:id/clip and /:id/export: the child is created and marked processing
\* before anything else.
AskChild(i) ==
    /\ Ask(i, "clip", {})
    /\ kid' = [kid EXCEPT ![i].status = "processing"]

\* POST /:id/thumbnails and the trigger after an upload; timecodes are
\* deduplicated.
AskThumbs(i) == UNCHANGED kid /\ \E fs \in (SUBSET Frames) \ {{}} : Ask(i, "thumb", fs)

\* The triggers of metadata, scenes and subtitles, and the route that repeats
\* the first.
AskNote(i, k) == UNCHANGED kid /\ Ask(i, k, {})

-----------------------------------------------------------------------------
(* The platform job. *)

\* createJob; a frame's job follows the last one's.
CreateJob(i) ==
    /\ task[i].kind \in {"clip", "thumb", "probe", "scene"} /\ task[i].step = "begin"
    /\ \/ job' = [job EXCEPT ![i] = "running"] /\ To(i, "poll") /\ UNCHANGED faults
       \/ /\ Fault /\ UNCHANGED job
          /\ task' = [task EXCEPT ![i].step = "check", ![i].out = "bad"]
    /\ UNCHANGED <<asset, kid, busy, store, manual, edits>>

Frame(i) == CHOOSE f \in task[i].todo : TRUE
Key(i) == IF task[i].kind = "thumb" THEN <<"thumb", Frame(i)>>
          ELSE <<IF task[i].kind = "scene" THEN "cuts" ELSE "child", i>>

\* (A thumbnail job left running is not followed past its frame.)
Writes(i) == \/ task[i].kind \in {"clip", "scene"}
             \/ task[i].kind = "thumb" /\ task[i].step \in {"poll", "remove"}

\* The job ends: with its file written, or in any status with no file or an
\* empty one; or its record disappears.  A job its runner gave up on and could
\* not remove still ends, and may still write.
JobEnds(i) ==
    /\ job[i] = "running"
    /\ IF ~Writes(i)
       THEN \/ job' = [job EXCEPT ![i] = "ok"] /\ UNCHANGED <<store, task, faults>>
            \/ /\ Fault /\ UNCHANGED <<store, task>>
               /\ \E s \in {"bad", "stopped", "gone"} : job' = [job EXCEPT ![i] = s]
       ELSE \/ /\ store' = [store EXCEPT ![Key(i)] = "full"]
               /\ \E s \in {"ok", "gone"} : job' = [job EXCEPT ![i] = s]
               /\ task' = IF task[i].kind = "thumb"
                          THEN [task EXCEPT ![i].landed = @ \cup {Frame(i)}] ELSE task
               /\ UNCHANGED faults
            \/ /\ Fault /\ UNCHANGED task
               /\ \E s \in {"ok", "bad", "stopped", "gone"} : job' = [job EXCEPT ![i] = s]
               /\ \E o \in {"empty", "absent"} :
                     store' = IF o = "empty" THEN [store EXCEPT ![Key(i)] = "empty"] ELSE store
    /\ UNCHANGED <<asset, kid, busy, manual, edits>>

\* A record that is gone counts as complete; only the clip, re-wrap and scene
\* runners ask for a known success.
Succeeded(k, s) ==
    IF k \in {"clip", "scene"} THEN s \in {"ok", "gone"} ELSE s \in {"ok", "stopped", "gone"}

\* pollOscJobUntilDone sees a terminal status.
PollDone(i) ==
    /\ task[i].kind \in {"clip", "thumb", "probe", "scene"} /\ task[i].step = "poll"
    /\ job[i] \in {"ok", "bad", "stopped", "gone"}
    /\ task' = [task EXCEPT ![i].step = "remove",
                            ![i].out = IF Succeeded(task[i].kind, job[i]) THEN "ok" ELSE "bad"]
    /\ UNCHANGED <<asset, kid, busy, store, job, manual, faults, edits>>

\* The budget of the poll runs out, or the poll itself fails.
PollTimeout(i) ==
    /\ task[i].kind # "free" /\ task[i].step = "poll" /\ job[i] = "running"
    /\ task' = [task EXCEPT ![i].step = "remove", ![i].out = "bad"]
    /\ UNCHANGED <<asset, kid, busy, store, job, manual, faults, edits>>

\* A frame's failure recorded and the next one begun, or all of them done.
NextStep(i) ==
    IF task[i].kind = "thumb" /\ Cardinality(task[i].todo) > 1 THEN "begin" ELSE "check"
After(i) ==
    task' = [task EXCEPT ![i].step = NextStep(i),
                         ![i].todo = IF task[i].kind = "thumb" THEN @ \ {Frame(i)} ELSE @]

\* removeJob, whatever came of the job; best effort.
RemoveJob(i) ==
    /\ task[i].kind # "free" /\ task[i].step = "remove"
    /\ \/ job' = [job EXCEPT ![i] = "removed"] /\ UNCHANGED faults
       \/ Fault /\ UNCHANGED job
    /\ After(i)
    /\ UNCHANGED <<asset, kid, busy, store, manual, edits>>

-----------------------------------------------------------------------------
(* What each run makes of its job. *)

\* clip / rewrap: the output is stat'ed; a missing or empty one fails the child,
\* which then has no key.
CheckChild(i) ==
    /\ At(i, "clip", "check")
    /\ IF task[i].out = "ok" /\ store[<<"child", i>>] = "full"
       THEN kid' = [kid EXCEPT ![i].key = TRUE] /\ To(i, "ready")
       ELSE /\ kid' = [kid EXCEPT ![i].status = IF @ = "archived" THEN @ ELSE "failed"]
            /\ End(i, "bad")
    /\ UNCHANGED <<asset, busy, store, job, manual, faults, edits>>

\* The child becomes ready, unless it was archived meanwhile.
ReadyChild(i) ==
    /\ At(i, "clip", "ready")
    /\ kid' = [kid EXCEPT ![i].status = IF @ = "archived" THEN @ ELSE "ready"]
    /\ End(i, IF kid[i].status = "archived" THEN "bad" ELSE "ok")
    /\ UNCHANGED <<asset, busy, store, job, manual, faults, edits>>

\* extractThumbnails: the keys found in the store replace the list; when none
\* is found the run fails and the list stays.
Thumbs(i) ==
    /\ At(i, "thumb", "check")
    /\ LET there == {f \in task[i].frames : store[<<"thumb", f>>] # "absent"}
       IN  /\ task' = [task EXCEPT ![i].step = "done", ![i].stored = there,
                                   ![i].ans = IF there = {} THEN "bad" ELSE "ok"]
           /\ asset' = [asset EXCEPT !.thumbs = IF there = {} THEN @ ELSE there]
    /\ UNCHANGED <<kid, busy, store, job, manual, faults, edits>>

\* No stream is recognised in the log of a job that ended well.
Unreadable(i) == task[i].out = "ok" /\ faults < MaxFaults /\ faults' = faults + 1
Failed(i) == task[i].out = "bad" /\ UNCHANGED faults

\* extractTechnicalMetadata: the logs are parsed, the document read...
ProbeRead(i) ==
    /\ At(i, "probe", "check")
    /\ \/ /\ task[i].out = "ok" /\ UNCHANGED <<asset, faults>>
          /\ task' = [task EXCEPT ![i].step = "write", ![i].advance = (asset.status = "processing")]
       \/ /\ Failed(i) \/ Unreadable(i)
          /\ asset' = [asset EXCEPT !.meta = "error"]
          /\ End(i, "bad")
    /\ UNCHANGED <<kid, busy, store, job, manual, edits>>

\* ...and written; a processing asset becomes ready.  An illegal transition
\* (the asset was archived meanwhile) is recorded as a failure.
ProbeWrite(i) ==
    /\ At(i, "probe", "write")
    /\ IF task[i].advance /\ asset.status \notin {"processing", "ready"}
       THEN asset' = [asset EXCEPT !.meta = "error"] /\ End(i, "bad")
       ELSE /\ asset' = [asset EXCEPT !.meta = "good",
                                      !.status = IF task[i].advance THEN "ready" ELSE @]
            /\ End(i, "ok")
    /\ UNCHANGED <<kid, busy, store, job, manual, faults, edits>>

\* The scene detector reads the cut list its job wrote and removes it...
CutsFound(i) == task[i].out = "ok" /\ store[<<"cuts", i>>] = "full"
CutsRemoved(i) == IF task[i].out = "ok" THEN [store EXCEPT ![<<"cuts", i>>] = "absent"] ELSE store

\* ...and detectScenes records the cuts or the failure.
Scenes(i) ==
    /\ At(i, "scene", "check")
    /\ store' = CutsRemoved(i)
    /\ asset' = [asset EXCEPT !.scenes = IF CutsFound(i) THEN "good" ELSE "error"]
    /\ End(i, IF CutsFound(i) THEN "ok" ELSE "bad")
    /\ UNCHANGED <<kid, busy, job, manual, faults, edits>>

\* generateSubtitles: the service's text is uploaded...
Subtitles(i) ==
    /\ At(i, "subs", "begin")
    /\ \/ store' = [store EXCEPT ![<<"sub", i>>] = "full"] /\ To(i, "read") /\ UNCHANGED <<asset, faults>>
       \/ Fault /\ asset' = [asset EXCEPT !.subs = "error"] /\ End(i, "bad") /\ UNCHANGED store
    /\ UNCHANGED <<kid, busy, job, manual, edits>>

\* ...the tracks are read...
SubtitlesRead(i) ==
    /\ At(i, "subs", "read")
    /\ task' = [task EXCEPT ![i].step = "write", ![i].tracks = asset.tracks]
    /\ UNCHANGED <<asset, kid, busy, store, job, manual, faults, edits>>

\* The generated track written alone.
SubtitlesReplace(i) ==
    /\ At(i, "subs", "write")
    /\ asset' = [asset EXCEPT !.tracks = {<<"auto", i>>}, !.subs = "good"]
    /\ End(i, "ok")
    /\ UNCHANGED <<kid, busy, store, job, manual, faults, edits>>

\* ...and written with the new one appended.
SubtitlesWrite(i) ==
    /\ At(i, "subs", "write")
    /\ asset' = [asset EXCEPT !.tracks = task[i].tracks \cup {<<"auto", i>>}, !.subs = "good"]
    /\ End(i, "ok")
    /\ UNCHANGED <<kid, busy, store, job, manual, faults, edits>>

-----------------------------------------------------------------------------
(* Everyone else. *)

\* A transcode marks the asset processing, and ready when it ends.
Transcode ==
    /\ ~busy /\ asset.status = "ready" /\ edits < MaxEdits /\ (Overlap \/ Idle)
    /\ busy' = TRUE /\ asset' = [asset EXCEPT !.status = "processing"] /\ edits' = edits + 1
    /\ UNCHANGED <<kid, store, job, task, manual, faults>>

TranscodeEnds ==
    /\ busy
    /\ busy' = FALSE
    /\ asset' = [asset EXCEPT !.status = IF @ = "archived" THEN @ ELSE "ready"]
    /\ UNCHANGED <<kid, store, job, task, manual, faults, edits>>

\* POST /:id/subtitle-tracks, taken at one instant.
AddTrack ==
    /\ edits < MaxEdits /\ (Overlap \/ Idle)
    /\ asset' = [asset EXCEPT !.tracks = @ \cup {<<"manual", edits + 1>>}]
    /\ manual' = manual \cup {<<"manual", edits + 1>>} /\ edits' = edits + 1
    /\ UNCHANGED <<kid, busy, store, job, task, faults>>

\* An operator archives the source, or a child.
Archive ==
    /\ edits < MaxEdits /\ edits' = edits + 1
    /\ \/ ~busy /\ asset' = [asset EXCEPT !.status = "archived"] /\ UNCHANGED kid
       \/ /\ \E i \in Tasks : /\ kid[i].status # "none"
                              /\ kid' = [kid EXCEPT ![i].status = "archived"]
          /\ UNCHANGED asset
    /\ UNCHANGED <<busy, store, job, task, manual, faults>>

\* The process restarts: every run is forgotten, the platform's jobs go on.
Crash ==
    /\ Crashes /\ faults < MaxFaults /\ faults' = faults + 1
    /\ task' = [i \in Tasks |-> IF task[i].kind = "free" THEN task[i]
                                ELSE [task[i] EXCEPT !.step = "done"]]
    /\ UNCHANGED <<asset, kid, busy, store, job, manual, edits>>

Step(i) ==
    \/ CreateJob(i) \/ PollDone(i) \/ PollTimeout(i) \/ RemoveJob(i)
    \/ CheckChild(i) \/ ReadyChild(i) \/ Thumbs(i) \/ ProbeRead(i) \/ ProbeWrite(i)
    \/ Scenes(i) \/ Subtitles(i) \/ SubtitlesRead(i) \/ SubtitlesWrite(i)

Next ==
    \/ \E i \in Tasks : Step(i) \/ JobEnds(i) \/ AskChild(i) \/ AskThumbs(i)
                         \/ \E k \in {"probe", "scene", "subs"} : AskNote(i, k)
    \/ Transcode \/ TranscodeEnds \/ AddTrack \/ Archive \/ Crash

Init ==
    /\ asset \in [status : {"processing", "ready"}, meta : {"none", "error"}, scenes : {"none"},
                  subs : {"none"}, thumbs : {{}}, tracks : {{}}]
    /\ asset.status = "processing" => asset.meta = "error"
    /\ kid = [i \in Tasks |-> [status |-> "none", key |-> FALSE]]
    /\ busy = FALSE /\ store = [k \in Keys |-> "absent"]
    /\ job = [i \in Tasks |-> "none"] /\ task = [i \in Tasks |-> Free]
    /\ manual = {} /\ faults = 0 /\ edits = 0

Spec == Init /\ [][Next]_vars

-----------------------------------------------------------------------------

\* A child that is ready has a file that is there and not empty; a child that
\* failed names no file: whatever status its platform job reported, and whatever
\* a job given up on writes later.
ChildTrue ==
    \A i \in Tasks :
        /\ kid[i].status = "ready" => kid[i].key /\ store[<<"child", i>>] = "full"
        /\ kid[i].status = "failed" => ~kid[i].key

\* Every thumbnail the document lists is in the store.
ListedStored == \A f \in asset.thumbs : store[<<"thumb", f>>] # "absent"

\* A thumbnail run that fails erases nothing an earlier run recorded.
FailureKeepsThumbs ==
    \A i \in Tasks :
          task[i].kind = "thumb" /\ task'[i].ans = "bad" /\ task[i].ans = "none"
            => asset'.thumbs = asset.thumbs

\* A platform job outlives its run only when its removal failed or the process
\* restarted.
JobsRemoved ==
    faults = 0 => \A i \in Tasks : task[i].step = "done" => job[i] \in {"none", "removed"}

\* The source asset is not announced ready while a transcode of it runs.
ReadyMeansIdle == asset.status = "ready" => ~busy

\* Tracks added through the API survive generated ones.
TracksKept == manual \subseteq asset.tracks

\* An archived asset stays archived.
ArchivedStays == asset.status = "archived" => asset'.status = "archived"

\* A child asset always settles, although the platform's job may hang.
Unfinished == \E i \in Tasks : kid[i].status = "processing"
===========================================================================
