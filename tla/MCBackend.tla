----------------------------- MODULE MCBackend -----------------------------
(***************************************************************************)
(* The components around the scaler loop, and packaging, job settling,     *)
(* media runs, delivery, webhooks and the level fit, for TLC.  They share  *)
(* no variable, so one of them moves per behaviour: scene says which and   *)
(* with which bounds, and v1, v2, ... hold its variables.                  *)
(***************************************************************************)
EXTENDS Integers, Sequences, FiniteSets, TLC

CONSTANTS
    None, a0, b0, c0, g, global, params, p1, p2, r1, r2, r3, s1, s2,
    a1, b1, b2, d1, d2, f1, f2, w1, w2

VARIABLES
    scene,   \* which component moves, under which bounds
    \* its variables, in its order; None where it has fewer
    v1, v2, v3, v4, v5, v6, v7, v8, v9, v10, v11, v12, v13, v14
vars == <<scene, v1, v2, v3, v4, v5, v6, v7, v8, v9, v10, v11, v12, v13, v14>>

Slots == INSTANCE SpawnLifecycle WITH
    Workspaces <- {a0, b0}, Numbers <- {1}, SlotLimit <- 1, MinInstances <- 0,
    MaxInstances <- 1, MaxAttempts <- 2, MaxJobs <- 1, MaxFaults <- 1,
    MaxCrashes <- 0, enc <- v1, lis <- v2, work <- v3, pool <- v4, seen <- v5,
    queue <- v6, fail <- v7, tick <- v8, slots <- v9, killed <- v10, blind <- v11,
    left <- v12, faults <- v13, crashes <- v14
Work == INSTANCE SpawnLifecycle WITH
    Workspaces <- {a0}, Numbers <- {1, 2}, SlotLimit <- 1, MinInstances <- 0,
    MaxInstances <- 2, MaxAttempts <- 1, MaxJobs <- 2, MaxFaults <- 1,
    MaxCrashes <- 1, enc <- v1, lis <- v2, work <- v3, pool <- v4, seen <- v5,
    queue <- v6, fail <- v7, tick <- v8, slots <- v9, killed <- v10, blind <- v11,
    left <- v12, faults <- v13, crashes <- v14
Registry == INSTANCE ScalerRegistry WITH
    Stacks <- {s1, s2}, Shared <- {s1}, Callers <- {p1, p2}, Overlap <- FALSE,
    MaxMade <- 3, MaxDown <- 0, Global <- global, Params <- params,
    stored <- v1, loops <- v2, ticking <- v3,
    inTick <- v4, conns <- v5, open <- v6, call <- v7, held <- v8, made <- v9,
    resumed <- v10, down <- v11
Outages == INSTANCE ScalerRegistry WITH
    Stacks <- {s1, s2}, Shared <- {s1}, Callers <- {p1}, Overlap <- FALSE,
    MaxMade <- 2, MaxDown <- 1, Global <- global, Params <- params,
    stored <- v1, loops <- v2, ticking <- v3,
    inTick <- v4, conns <- v5, open <- v6, call <- v7, held <- v8, made <- v9,
    resumed <- v10, down <- v11
Activation == INSTANCE ScalerActivation WITH
    Stacks <- {s1, s2}, Reconciles <- {r1, r2}, Serial <- TRUE,
    StoreFails <- FALSE, MaxIncs <- 3, config <- v1, inc <- v2, live <- v3,
    shared <- v4, options <- v5, actPoll <- v6, actConn <- v7, actKey <- v8,
    pollers <- v9, removed <- v10, rec <- v11, del <- v12, blind <- v13,
    misread <- v14
Config == INSTANCE ScalerConfig WITH
    Lo <- 1, Hi <- 2, MaxRaw <- 3, Reqs <- {r1, r2}, MaxFaults <- 2,
    Overlap <- FALSE, Lost <- FALSE, Toggles <- FALSE, env <- v1, store <- v2,
    phase <- v3, boot <- v4, live <- v5, src <- v6, loops <- v7, req <- v8,
    said <- v9, named <- v10, faults <- v11
ConfigRaces == INSTANCE ScalerConfig WITH
    Lo <- 1, Hi <- 2, MaxRaw <- 3, Reqs <- {r1, r2}, MaxFaults <- 1,
    Overlap <- TRUE, Lost <- TRUE, Toggles <- TRUE, env <- v1, store <- v2,
    phase <- v3, boot <- v4, live <- v5, src <- v6, loops <- v7, req <- v8,
    said <- v9, named <- v10, faults <- v11
Status == INSTANCE ScalerStatus WITH
    Stacks <- {s1, s2}, Conns <- {g, c0}, Global <- g, MaxChanges <- 4,
    MaxReads <- 2, MaxFaults <- 1, Churn <- FALSE, Blind <- FALSE, place <- v1,
    held <- v2, reach <- v3, cache <- v4, open <- v5, read <- v6, changes <- v7,
    reads <- v8, faults <- v9
StatusChurn == INSTANCE ScalerStatus WITH
    Stacks <- {s1, s2}, Conns <- {g, c0}, Global <- g, MaxChanges <- 3,
    MaxReads <- 2, MaxFaults <- 1, Churn <- TRUE, Blind <- TRUE, place <- v1,
    held <- v2, reach <- v3, cache <- v4, open <- v5, read <- v6, changes <- v7,
    reads <- v8, faults <- v9

\* Which run is of which asset.
OneAsset == [r \in {r1, r2, r3} |-> a1]

\* Profiles of one and two rungs, and sources.  Levels: 3.1, level_idc 41, "4.0",
\* the idc of 1b (not accepted), an unknown name.
Lv(text, num, stem) == [text |-> text, num |-> num, stem |-> stem]
Levels == { Lv("3.1", 0, "3.1"), Lv("41", 41, "41"), Lv("4.0", 0, "4"),
            Lv("9", 9, "9"), Lv("auto", 0, "auto"), Lv("1", 1, "1"), None }
Rungs(hs, ws, refs) ==
    { [width |-> w, height |-> h, level |-> l, ref |-> r] :
        w \in ws, h \in hs, l \in Levels, r \in refs }
Rung1080 == [width |-> None, height |-> 1080, level |-> Lv("41", 41, "41"), ref |-> 4]
Singles == { <<r>> : r \in Rungs({234, 480, 720, 1080, 1600, None}, {None, 640}, {None, 3, 16}) }
Pairs == { <<r, Rung1080>> : r \in Rungs({720, None}, {None, 640}, {4}) }
Px(w, h) == [width |-> w, height |-> h]
Footage == { Px(854, 480), Px(1920, 1080), Px(1080, 1920), Px(640, 480),
             Px(2048, 858), Px(500, 500), Px(720, 576), Px(848, 1080) }

-----------------------------------------------------------------------------
OpenRuns == INSTANCE PackagingFlow WITH
    Runs <- {r1, r2}, Assets <- {a1}, AssetOf <- OneAsset, PackageOnly <- {r2},
    Relocating <- {r2}, Encrypting <- {r1}, Direct <- {}, MaxJobs <- 3,
    Cancels <- TRUE, Overlapping <- TRUE, Racing <- TRUE, pc <- v1, exec <- v2,
    born <- v3, jobs <- v4, drm <- v5, output <- v6, queue <- v7, calls <- v8,
    handling <- v9, sweeping <- v10, broken <- v11, blamed <- v12
Bare == INSTANCE PackagingFlow WITH
    Runs <- {r1, r3}, Assets <- {a1}, AssetOf <- OneAsset, PackageOnly <- {},
    Relocating <- {}, Encrypting <- {r1}, Direct <- {r3}, MaxJobs <- 2,
    Cancels <- TRUE, Overlapping <- TRUE, Racing <- TRUE, pc <- v1, exec <- v2,
    born <- v3, jobs <- v4, drm <- v5, output <- v6, queue <- v7, calls <- v8,
    handling <- v9, sweeping <- v10, broken <- v11, blamed <- v12
Orphans == INSTANCE PackagingFlow WITH
    Runs <- {r1, r2}, Assets <- {a1}, AssetOf <- OneAsset, PackageOnly <- {r2},
    Relocating <- {r1, r2}, Encrypting <- {}, Direct <- {}, MaxJobs <- 3,
    Cancels <- FALSE, Overlapping <- TRUE, Racing <- FALSE, pc <- v1, exec <- v2,
    born <- v3, jobs <- v4, drm <- v5, output <- v6, queue <- v7, calls <- v8,
    handling <- v9, sweeping <- v10, broken <- v11, blamed <- v12
Settling == INSTANCE JobSettling WITH
    N <- 2, Page <- 2, Cap <- 2, MaxTries <- 2, Overlap <- FALSE,
    MaxFaults <- 1, ReportFails <- FALSE, Drops <- TRUE,
    job <- v1, asset <- v2, queue <- v3, inflight <- v4, enc <- v5, stray <- v6,
    cb <- v7, out <- v8, exec <- v9, task <- v10, faults <- v11
Capped == INSTANCE JobSettling WITH
    N <- 2, Page <- 2, Cap <- 1, MaxTries <- 2, Overlap <- FALSE,
    MaxFaults <- 1, ReportFails <- TRUE, Drops <- FALSE,
    job <- v1, asset <- v2, queue <- v3, inflight <- v4, enc <- v5, stray <- v6,
    cb <- v7, out <- v8, exec <- v9, task <- v10, faults <- v11
Clips == INSTANCE MediaJobs WITH
    Kinds <- {"clip"}, Frames <- {f1}, MaxTasks <- 2, MaxFaults <- 1,
    MaxEdits <- 1, Overlap <- FALSE, Crashes <- FALSE, asset <- v1, kid <- v2,
    busy <- v3, store <- v4, job <- v5, task <- v6, manual <- v7, faults <- v8,
    edits <- v9
Thumbs == INSTANCE MediaJobs WITH
    Kinds <- {"clip", "thumb"}, Frames <- {f1, f2}, MaxTasks <- 2, MaxFaults <- 1,
    MaxEdits <- 0, Overlap <- FALSE, Crashes <- TRUE, asset <- v1, kid <- v2,
    busy <- v3, store <- v4, job <- v5, task <- v6, manual <- v7, faults <- v8,
    edits <- v9
Notes == INSTANCE MediaJobs WITH
    Kinds <- {"probe", "scene", "subs"}, Frames <- {f1}, MaxTasks <- 2,
    MaxFaults <- 2, MaxEdits <- 2, Overlap <- FALSE, Crashes <- FALSE,
    asset <- v1, kid <- v2, busy <- v3, store <- v4, job <- v5, task <- v6,
    manual <- v7, faults <- v8, edits <- v9
Export == INSTANCE Delivery WITH
    Dests <- {d1}, Buckets <- {b1, b2}, MaxVer <- 3, TooLarge <- {2},
    MaxMounts <- 1, MaxPosts <- 2, MaxChanges <- 0, MaxFaults <- 1, Calm <- TRUE,
    Settled <- TRUE, reg <- v1, src <- v2, at <- v3, ours <- v4, memo <- v5,
    blocks <- v6, tasks <- v7, said <- v8, posts <- v9, changes <- v10,
    faults <- v11
Exports == INSTANCE Delivery WITH
    Dests <- {d1}, Buckets <- {b1}, MaxVer <- 2, TooLarge <- {}, MaxMounts <- 1,
    MaxPosts <- 2, MaxChanges <- 0, MaxFaults <- 1, Calm <- TRUE, Settled <- TRUE,
    reg <- v1, src <- v2, at <- v3, ours <- v4, memo <- v5, blocks <- v6,
    tasks <- v7, said <- v8, posts <- v9, changes <- v10, faults <- v11
Destinations == INSTANCE Delivery WITH
    Dests <- {d1, d2}, Buckets <- {b1}, MaxVer <- 1, TooLarge <- {},
    MaxMounts <- 2, MaxPosts <- 1, MaxChanges <- 1, MaxFaults <- 1, Calm <- TRUE,
    Settled <- TRUE, reg <- v1, src <- v2, at <- v3, ours <- v4, memo <- v5,
    blocks <- v6, tasks <- v7, said <- v8, posts <- v9, changes <- v10,
    faults <- v11
Hooks == INSTANCE Webhooks WITH
    Ids <- {w1, w2}, Types <- {"asset.ready", "asset.failed"}, MaxEvents <- 2,
    regs <- v1, ev <- v2, post <- v3, got <- v4
Fit == INSTANCE LevelFit WITH
    Ladders <- Singles \cup Pairs, Sources <- Footage, ladder <- v1, pos <- v2,
    pass <- v3, changed <- v4, authored <- v5, shot <- v6

-----------------------------------------------------------------------------
\* The slots from the n-th on, which a scene with fewer variables leaves empty.
Rest5 == <<v5, v6, v7, v8, v9, v10, v11, v12, v13, v14>>
Rest7 == <<v7, v8, v9, v10, v11, v12, v13, v14>>
Rest10 == <<v10, v11, v12, v13, v14>>
Rest11 == <<v11, v12, v13, v14>>
Rest12 == <<v12, v13, v14>>
Rest13 == <<v13, v14>>
Unused13 == v13 = None /\ v14 = None
Unused12 == v12 = None /\ Unused13
Unused11 == v11 = None /\ Unused12
Unused10 == v10 = None /\ Unused11
Unused9 == v9 = None /\ Unused10
Unused7 == v7 = None /\ v8 = None /\ Unused9
Unused5 == v5 = None /\ v6 = None /\ Unused7

Init ==
    \/ scene = "spawn slots" /\ Slots!Init
    \/ scene = "spawned work" /\ Work!Init
    \/ scene = "registry" /\ Registry!Init /\ Unused12
    \/ scene = "registry outages" /\ Outages!Init /\ Unused12
    \/ scene = "activation" /\ Activation!Init
    \/ scene = "configuration" /\ Config!Init /\ Unused12
    \/ scene = "configuration races" /\ ConfigRaces!Init /\ Unused12
    \/ scene = "status" /\ Status!Init /\ Unused10
    \/ scene = "status churn" /\ StatusChurn!Init /\ Unused10
    \/ scene = "open runs" /\ OpenRuns!Init /\ Unused13
    \/ scene = "package call" /\ Bare!Init /\ Unused13
    \/ scene = "orphans" /\ Orphans!Init /\ Unused13
    \/ scene = "settling" /\ Settling!Init /\ Unused12
    \/ scene = "outstanding cap" /\ Capped!Init /\ Unused12
    \/ scene = "clips" /\ Clips!Init /\ Unused10
    \/ scene = "thumbnails" /\ Thumbs!Init /\ Unused10
    \/ scene = "notes on media" /\ Notes!Init /\ Unused10
    \/ scene = "one export" /\ Export!Init /\ Unused12
    \/ scene = "two exports" /\ Exports!Init /\ Unused12
    \/ scene = "destinations" /\ Destinations!Init /\ Unused12
    \/ scene = "webhooks" /\ Hooks!Init /\ Unused5
    \/ scene = "level fit" /\ Fit!Init /\ Unused7
Next ==
    /\ UNCHANGED scene
    /\ \/ scene = "spawn slots" /\ Slots!Next
       \/ scene = "spawned work" /\ Work!Next
       \/ scene = "registry" /\ Registry!Next /\ UNCHANGED Rest12
       \/ scene = "registry outages" /\ Outages!Next /\ UNCHANGED Rest12
       \/ scene = "activation" /\ Activation!Next
       \/ scene = "configuration" /\ Config!Next /\ UNCHANGED Rest12
       \/ scene = "configuration races" /\ ConfigRaces!Next /\ UNCHANGED Rest12
       \/ scene = "status" /\ Status!Next /\ UNCHANGED Rest10
       \/ scene = "status churn" /\ StatusChurn!Next /\ UNCHANGED Rest10
       \/ scene = "open runs" /\ OpenRuns!Next /\ UNCHANGED Rest13
       \/ scene = "package call" /\ Bare!Next /\ UNCHANGED Rest13
       \/ scene = "orphans" /\ Orphans!Next /\ UNCHANGED Rest13
       \/ scene = "settling" /\ Settling!Next /\ UNCHANGED Rest12
       \/ scene = "outstanding cap" /\ Capped!Next /\ UNCHANGED Rest12
       \/ scene = "clips" /\ Clips!Next /\ UNCHANGED Rest10
       \/ scene = "thumbnails" /\ Thumbs!Next /\ UNCHANGED Rest10
       \/ scene = "notes on media" /\ Notes!Next /\ UNCHANGED Rest10
       \/ scene = "one export" /\ Export!Next /\ UNCHANGED Rest12
       \/ scene = "two exports" /\ Exports!Next /\ UNCHANGED Rest12
       \/ scene = "destinations" /\ Destinations!Next /\ UNCHANGED Rest12
       \/ scene = "webhooks" /\ Hooks!Next /\ UNCHANGED Rest5
       \/ scene = "level fit" /\ Fit!Next /\ UNCHANGED Rest7

Spec == Init /\ [][Next]_vars

-----------------------------------------------------------------------------
\* No teardown path, adoption or sweep of the instance pool removes an instance
\* with work on it; creates in flight stay within the slots and a promoted
\* instance has its listener (instance-pool.ts, spawn-admission.ts).
SpawnsSparing ==
    /\ scene = "spawn slots" =>
         /\ Slots!TypeOK /\ Slots!CreatesBounded /\ Slots!PromotedWhole
    /\ scene = "spawned work" => Work!WorkSpared

\* With calls for one stack one at a time, in one scene while a Valkey or the parameter
\* store stops answering: every ticking loop and open connection is in the maps a
\* teardown walks; a teardown leaves nothing to be written again, a purge leaves keys
\* only where a store did not answer, a resume starts what it found
\* (workspace-registry.ts).
RegistryComplete ==
    /\ [](/\ scene = "registry" => Registry!TypeOK /\ Registry!LoopsReachable
                                   /\ Registry!ConnectionsKnown
         /\ scene = "registry outages" => Outages!LoopsReachable /\ Outages!ConnectionsKnown)
    /\ [][/\ scene = "registry" => Registry!TornDownClean /\ Registry!ResumesAll
         /\ scene = "registry outages" =>
              Outages!TornDownClean /\ Outages!PurgesEverywhere /\ Outages!ResumesAll]_vars

\* When stacks change one after another, with any removal of a teardown and any
\* read of the parameter store failing: after a reconcile that could read it,
\* every Valkey that is there is drained and the scaler is on exactly while a
\* stack is stored; never is one drained by two pollers, nor, while all could
\* read, one that was removed; and a scaler that is off polls nothing (main.ts,
\* stack-callback-poller-registry.ts).
DrainedByOne ==
    scene = "activation" =>
      /\ Activation!TypeOK /\ Activation!Drained /\ Activation!NoDeadPoll
      /\ Activation!DrainedOnce /\ Activation!OffIsQuiet
      /\ Activation!OnWhenProvisioned

\* What a PATCH /config was told is in force stays so across restarts, stored,
\* live and enforced values agree when PATCHes follow one another; with races and
\* late writes values stay in bounds and a field reported as the environment's
\* is.
ConfigInForce ==
    /\ scene = "configuration" =>
         /\ Config!TypeOK /\ Config!AcceptedInForce /\ Config!StoredIsLive
         /\ Config!EnforcedReported
    /\ scene = "configuration races" =>
         /\ ConfigRaces!InBounds /\ ConfigRaces!EnvHonest

\* GET /status has a row for every known stack, none twice from one store, and
\* calls a pool empty only when it looked in the right place, while stacks are
\* added and pools and links change under the read; torn down stacks and a
\* parameter store that fails leave every known stack its row, and one of each
\* store (routes/scaler.ts).
StatusTrue ==
    /\ scene = "status" =>
         /\ Status!TypeOK /\ Status!KnownReported /\ Status!OneRowEach
         /\ Status!EmptyMeansEmpty
    /\ scene = "status churn" => StatusChurn!KnownReported /\ StatusChurn!OneRowEach

\* Whichever runs, cancels, sweeps and packaging requests overlap, no asset is made
\* `protected` for a package job that had settled before the packager's answer came;
\* and where no run is cancelled and the packager answers after the run is written
\* back, a run that settled leaves no package job running (packaging.ts,
\* package-job.ts, routes/internal.ts).
PackagingTrue ==
    /\ [](scene = "open runs" => OpenRuns!TypeOK)
    /\ [](scene = "orphans" => Orphans!NoOrphanJob)
    /\ [][/\ scene = "open runs" => OpenRuns!ProtectedByOpenRun
         /\ scene = "package call" => Bare!ProtectedByOpenRun]_vars

\* With its handlers one after another and every dispatch reported, no asset is left
\* `processing` once its jobs have ended and their handlers with them, but by a job the
\* scaler posted after it was cancelled; the output of a cancelled job that lands late is
\* removed, or the record says that storage kept it.  The cap on outstanding jobs holds
\* when no submit overlaps another, failing reports included (transcode.ts,
\* routes/jobs.ts, routes/pipelines.ts, asset-state-after-terminal-job.ts).
SettlingTrue ==
    /\ [](scene = "settling" =>
         /\ Settling!TypeOK /\ Settling!Released /\ Settling!LateOutputReclaimed)
    /\ [](scene = "outstanding cap" => Capped!WithinCap /\ Capped!Released)

\* A ready clip has its bytes and a failed one says so, and no platform job
\* outlives its run; a thumbnail that is listed is stored and a failed run leaves
\* the thumbnails there alone, crashes included; an asset reads ready only while
\* no run of its own works on it, a run keeps the tracks others wrote, and an
\* asset archived under a run stays archived.
MediaTrue ==
    /\ [](scene = "clips" => Clips!TypeOK /\ Clips!ChildTrue /\ Clips!JobsRemoved)
    /\ [](scene = "thumbnails" => Thumbs!ListedStored)
    /\ [](scene = "notes on media" => Notes!ReadyMeansIdle /\ Notes!TracksKept)
    /\ [][scene = "thumbnails" => Thumbs!FailureKeepsThumbs]_vars
    /\ [][scene = "notes on media" => Notes!ArchivedStays]_vars

\* A refused export touches nothing, one click makes one export, what is reported
\* delivered is in the bucket it names in the version that was read; a caller
\* sees and uses only the destinations of its own stack (routes/delivery.ts, the
\* console's delivery block).  An event goes to the registrations that wanted it
\* when it was looked up and to none deleted before, whatever registrations come
\* and go meanwhile (webhooks).
DeliveryTrue ==
    /\ scene = "one export" =>
         /\ Export!TypeOK /\ Export!RefusedUntouched /\ Export!OneExport
    /\ scene = "two exports" => Exports!DeliveredTrue
    /\ scene = "destinations" =>
         /\ Destinations!OwnStoreOnly /\ Destinations!OfferedKnown
    /\ scene = "webhooks" =>
         /\ Hooks!TypeOK /\ Hooks!RightReceivers /\ Hooks!NotAfterDelete

\* The rewritten profile fits its level for every source, with the widest rungs
\* the level allows, at the height asked for, and rewriting it again changes
\* nothing (the level fitter of the transcode profiles).
LadderFits ==
    scene = "level fit" =>
      /\ Fit!TypeOK /\ Fit!FitsLevel /\ Fit!Widest /\ Fit!HeightKept
      /\ Fit!Idempotent
=============================================================================
