----------------------------- MODULE MCProgress -----------------------------
(***************************************************************************)
(* What must come to an end, for TLC, side by side as in MCBackend: scene   *)
(* says which component moves and with which bounds, v1, v2, ... hold its   *)
(* variables.  Fairness is what the code's timers, loops and awaited calls  *)
(* give: clients, receivers, the packager, the platform's jobs and the      *)
(* object stores owe nothing.                                               *)
(***************************************************************************)
EXTENDS Integers, Sequences, FiniteSets, TLC

CONSTANTS
    None, Sweeper, a0, a1, b0, b1, b2, big, c0, c1, child, d1, f1, file, m1, m2,
    mother, n0, other, p0, p1, r1, ren1, ren2, renditions, s0, small, source,
    src, t0, w1, w2, x

VARIABLES
    scene,   \* which component moves, under which bounds
    \* its variables, in its order; None where it has fewer
    v1, v2, v3, v4, v5, v6, v7, v8, v9, v10, v11, v12, v13, v14
vars == <<scene, v1, v2, v3, v4, v5, v6, v7, v8, v9, v10, v11, v12, v13, v14>>

\* One asset and its child; one run of one asset; the uploads and their places.
Family == (mother :> None) @@ (child :> mother)
SizeOf == [u \in {big, small, file} |-> IF u = big THEN 2 ELSE 1]
PlaceOf == [u \in {big, small, file} |-> IF u \in {small, file} THEN t0 ELSE s0]
OwnStore == [k \in {s0, t0, n0} |-> k]
ThreeObjects == (src :> source) @@ (ren1 :> renditions) @@ (ren2 :> renditions)
HomeOfKeys == (file :> s0) @@ (other :> t0)

-----------------------------------------------------------------------------
Packaging == INSTANCE PackagingFlow WITH
    Runs <- {r1}, Assets <- {a1}, AssetOf <- (r1 :> a1), PackageOnly <- {},
    Relocating <- {r1}, Encrypting <- {}, Direct <- {}, MaxJobs <- 3,
    Cancels <- TRUE, Overlapping <- TRUE, Racing <- TRUE, pc <- v1, exec <- v2,
    born <- v3, jobs <- v4, drm <- v5, output <- v6, queue <- v7, calls <- v8,
    handling <- v9, sweeping <- v10, broken <- v11, blamed <- v12
Leaks == INSTANCE SpawnLifecycle WITH
    Workspaces <- {a0}, Numbers <- {1, 2}, SlotLimit <- 1, MinInstances <- 0,
    MaxInstances <- 1, MaxAttempts <- 1, MaxJobs <- 1, MaxFaults <- 1,
    MaxCrashes <- 1, enc <- v1, lis <- v2, work <- v3, pool <- v4, seen <- v5,
    queue <- v6, fail <- v7, tick <- v8, slots <- v9, killed <- v10, blind <- v11,
    left <- v12, faults <- v13, crashes <- v14
Waiting == INSTANCE SpawnLifecycle WITH
    Workspaces <- {a0}, Numbers <- {1, 2}, SlotLimit <- 1, MinInstances <- 0,
    MaxInstances <- 1, MaxAttempts <- 2, MaxJobs <- 2, MaxFaults <- 2,
    MaxCrashes <- 0, enc <- v1, lis <- v2, work <- v3, pool <- v4, seen <- v5,
    queue <- v6, fail <- v7, tick <- v8, slots <- v9, killed <- v10, blind <- v11,
    left <- v12, faults <- v13, crashes <- v14
Retention == INSTANCE AssetLifecycle WITH
    Assets <- {mother, child}, Parent <- Family, Requests <- {r1},
    Sweeper <- Sweeper, Ops <- {"create", "patch"}, Sweeping <- TRUE,
    OneAtATime <- FALSE, MaxStops <- 1, MaxRev <- 3, MaxAttempts <- 2, doc <- v1,
    bytes <- v2, active <- v3, req <- v4, sweep <- v5, stops <- v6
Tiers == INSTANCE ArchiveTier WITH
    Classes <- {source, renditions}, Objects <- {src, ren1, ren2},
    ClassOf <- ThreeObjects, Runs <- {x}, Kinds <- {"relocate"}, MaxFaults <- 2,
    hot <- v1, cold <- v2, tier <- v3, rehydrating <- v4, run <- v5, faults <- v6
Intake == INSTANCE Ingest WITH
    Assets <- {a0}, Ways <- {"pull", "external", "put", "presigned", "multipart"},
    MaxAttempts <- 2, MaxBoots <- 2, MaxFaults <- 2, DocFaults <- {},
    MaxUploads <- 1, OverCap <- {FALSE}, asset <- v1, obj <- v2, parts <- v3,
    job <- v4, pull <- v5, up <- v6, gen <- v7, rec <- v8, sweep <- v9,
    faults <- v10, uploads <- v11
Watch == INSTANCE WatchFolder WITH
    Stacks <- {s0, t0}, FirstListed <- s0, Drops <- {file, other}, Managed <- {},
    Pulled <- {}, Home <- HomeOfKeys, Watchers <- {w1, w2}, Passes <- {p0},
    MaxChanges <- 1, MaxFaults <- 2, ListFails <- FALSE, MaxStops <- 0,
    MaxBoots <- 0, stacks <- v1, bucket <- v2, owned <- v3, watcher <- v4,
    registry <- v5, work <- v6, pass <- v7, kicks <- v8, changes <- v9,
    faults <- v10, stops <- v11, boots <- v12
Quota == INSTANCE StorageQuota WITH
    Cap <- 3, Sized <- {big, small}, Presigned <- {}, Dropped <- {file},
    Size <- SizeOf, Place <- PlaceOf, Stacks <- {s0, t0, n0}, Ready <- {s0, t0},
    Identity <- OwnStore, Durable <- FALSE, Quiet <- FALSE, MaxRuns <- 2,
    MaxFaults <- 1, MaxBoots <- 1, counter <- v1, up <- v2, held <- v3,
    stored <- v4, sweep <- v5, runs <- v6, faults <- v7, boots <- v8
Provision == INSTANCE Provisioning WITH
    Names <- {"a"}, Order <- <<"minio", "couchdb">>, Ops <- {1, 2},
    Kinds <- {"provision", "delete", "packager"}, Serial <- FALSE, Legacy <- {},
    MaxReads <- 1, MaxWrites <- 1, MaxCalls <- 1, MaxExpired <- 1, MaxBoots <- 1,
    inst <- v1, root <- v2, maker <- v3, rec <- v4, op <- v5, inFlight <- v6,
    next <- v7, reads <- v8, writes <- v9, calls <- v10, expired <- v11,
    boots <- v12
Clips == INSTANCE MediaJobs WITH
    Kinds <- {"clip"}, Frames <- {f1}, MaxTasks <- 2, MaxFaults <- 1,
    MaxEdits <- 1, Overlap <- FALSE, Crashes <- FALSE, asset <- v1, kid <- v2,
    busy <- v3, store <- v4, job <- v5, task <- v6, manual <- v7, faults <- v8,
    edits <- v9
Settling == INSTANCE JobSettling WITH
    N <- 1, Page <- 1, Cap <- 2, MaxTries <- 2, Overlap <- FALSE,
    MaxFaults <- 1, ReportFails <- FALSE, Drops <- FALSE,
    job <- v1, asset <- v2, queue <- v3, inflight <- v4, enc <- v5, stray <- v6,
    cb <- v7, out <- v8, exec <- v9, task <- v10, faults <- v11
Hooks == INSTANCE Webhooks WITH
    Ids <- {w1, w2}, Types <- {"asset.ready", "asset.failed"}, MaxEvents <- 1,
    regs <- v1, ev <- v2, post <- v3, got <- v4
Completions == INSTANCE CallbackQueue WITH
    Msgs <- {m1, m2}, Poison <- {m2}, Pollers <- {p1}, MaxAttempts <- 2,
    MaxThrows <- 0, MaxFaults <- 0, MaxStops <- 1, queue <- v1, processing <- v2,
    attempts <- v3, dead <- v4, pollers <- v5, sweeping <- v6, settled <- v7,
    called <- v8, up <- v9, budget <- v10
Boot == INSTANCE ScalerConfig WITH
    Lo <- 1, Hi <- 2, MaxRaw <- 3, Reqs <- {r1}, MaxFaults <- 1, Overlap <- FALSE,
    Lost <- FALSE, Toggles <- FALSE, env <- v1, store <- v2, phase <- v3,
    boot <- v4, live <- v5, src <- v6, loops <- v7, req <- v8, said <- v9,
    named <- v10, faults <- v11
Tags == INSTANCE ConsoleLists WITH
    Kind <- "tags", Items <- {a0, b0, c0}, Reserved <- {c0}, ListMax <- 2,
    MaxWrites <- 2, MaxOthers <- 2, MaxFaults <- 0, RoleChanges <- TRUE,
    Overlap <- TRUE, srv <- v1, gone <- v2, role <- v3, pan <- v4, tasks <- v5,
    said <- v6, refused <- v7, spent <- v8
Identifiers == INSTANCE ConsoleLists WITH
    Kind <- "ids", Items <- {a0, b0}, Reserved <- {}, ListMax <- 0,
    MaxWrites <- 2, MaxOthers <- 0, MaxFaults <- 2, RoleChanges <- FALSE,
    Overlap <- FALSE, srv <- v1, gone <- v2, role <- v3, pan <- v4, tasks <- v5,
    said <- v6, refused <- v7, spent <- v8
Tracks == INSTANCE ConsoleTracks WITH
    MaxIds <- 5, MaxWrites <- 2, MaxOthers <- 1, MaxFaults <- 1, Overlap <- TRUE,
    srv <- v1, role <- v2, pan <- v3, tasks <- v4, minted <- v5, spent <- v6
Exports == INSTANCE Delivery WITH
    Dests <- {d1}, Buckets <- {b1, b2}, MaxVer <- 3, TooLarge <- {2},
    MaxMounts <- 1, MaxPosts <- 2, MaxChanges <- 0, MaxFaults <- 1, Calm <- TRUE,
    Settled <- TRUE, reg <- v1, src <- v2, at <- v3, ours <- v4, memo <- v5,
    blocks <- v6, tasks <- v7, said <- v8, posts <- v9, changes <- v10,
    faults <- v11
Pipeline == INSTANCE ConsoleDetail WITH
    Ids <- {a0, b0}, Kind <- "pipeline", Detached <- TRUE, Quick <- FALSE,
    MaxInFlight <- 3, MaxActs <- 1, id <- v1, content <- v2, renders <- v3,
    polling <- v4, notice <- v5, gone <- v6, over <- v7, acts <- v8
Review == INSTANCE ConsoleReview WITH
    Consoles <- {c1}, MaxRev <- 4, MaxLost <- 2, Losses <- {"get", "post"},
    doc <- v1, may <- v2, con <- v3, req <- v4, lost <- v5
Lock == INSTANCE ConsoleLock WITH
    Consoles <- {c1}, MaxReqs <- 2, MaxTouch <- 1, MaxLost <- 1, Attempts <- 2,
    doc <- v1, may <- v2, con <- v3, req <- v4, used <- v5
Collection == INSTANCE Collections WITH
    Consoles <- {c1}, Fields <- {"name"}, Assets <- {"a", "b"}, Live <- {"a"},
    Ops <- {"add", "delete"}, MaxReqs <- 2, MaxLost <- 1, Attempts <- 2,
    Overlap <- TRUE, doc <- v1, want <- v2, may <- v3, con <- v4, req <- v5,
    audits <- v6, lost <- v7

-----------------------------------------------------------------------------
\* The slots from the n-th on, which a scene with fewer variables leaves empty.
Rest5 == <<v5, v6, v7, v8, v9, v10, v11, v12, v13, v14>>
Rest6 == <<v6, v7, v8, v9, v10, v11, v12, v13, v14>>
Rest7 == <<v7, v8, v9, v10, v11, v12, v13, v14>>
Rest8 == <<v8, v9, v10, v11, v12, v13, v14>>
Rest9 == <<v9, v10, v11, v12, v13, v14>>
Rest10 == <<v10, v11, v12, v13, v14>>
Rest11 == <<v11, v12, v13, v14>>
Rest12 == <<v12, v13, v14>>
Rest13 == <<v13, v14>>
Unused13 == v13 = None /\ v14 = None
Unused12 == v12 = None /\ Unused13
Unused11 == v11 = None /\ Unused12
Unused10 == v10 = None /\ Unused11
Unused9 == v9 = None /\ Unused10
Unused8 == v8 = None /\ Unused9
Unused7 == v7 = None /\ Unused8
Unused6 == v6 = None /\ Unused7
Unused5 == v5 = None /\ Unused6

Init ==
    \/ scene = "packaging" /\ Packaging!Init /\ Unused13
    \/ scene = "leaks" /\ Leaks!Init
    \/ scene = "waiting jobs" /\ Waiting!Init
    \/ scene = "retention" /\ Retention!Init /\ Unused7
    \/ scene = "tiers" /\ Tiers!Init /\ Unused7
    \/ scene = "ingest" /\ Intake!Init /\ Unused12
    \/ scene = "watch folder" /\ Watch!Init /\ Unused13
    \/ scene = "quota" /\ Quota!Init /\ Unused9
    \/ scene = "provisioning" /\ Provision!Init /\ Unused13
    \/ scene = "clips" /\ Clips!Init /\ Unused10
    \/ scene = "settling" /\ Settling!Init /\ Unused12
    \/ scene = "webhooks" /\ Hooks!Init /\ Unused5
    \/ scene = "completions" /\ Completions!Init /\ Unused11
    \/ scene = "boot" /\ Boot!Init /\ Unused12
    \/ scene = "tags" /\ Tags!Init /\ Unused9
    \/ scene = "ids" /\ Identifiers!Init /\ Unused9
    \/ scene = "tracks" /\ Tracks!Init /\ Unused7
    \/ scene = "exports" /\ Exports!Init /\ Unused12
    \/ scene = "pipeline window" /\ Pipeline!Init /\ Unused9
    \/ scene = "review" /\ Review!Init /\ Unused6
    \/ scene = "lock" /\ Lock!Init /\ Unused6
    \/ scene = "collection" /\ Collection!Init /\ Unused8
Next ==
    /\ UNCHANGED scene
    /\ \/ scene = "packaging" /\ Packaging!Next /\ UNCHANGED Rest13
       \/ scene = "leaks" /\ Leaks!Next
       \/ scene = "waiting jobs" /\ Waiting!Next
       \/ scene = "retention" /\ Retention!Next /\ UNCHANGED Rest7
       \/ scene = "tiers" /\ Tiers!Next /\ UNCHANGED Rest7
       \/ scene = "ingest" /\ Intake!Next /\ UNCHANGED Rest12
       \/ scene = "watch folder" /\ Watch!Next /\ UNCHANGED Rest13
       \/ scene = "quota" /\ Quota!Next /\ UNCHANGED Rest9
       \/ scene = "provisioning" /\ Provision!Next /\ UNCHANGED Rest13
       \/ scene = "clips" /\ Clips!Next /\ UNCHANGED Rest10
       \/ scene = "settling" /\ Settling!Next /\ UNCHANGED Rest12
       \/ scene = "webhooks" /\ Hooks!Next /\ UNCHANGED Rest5
       \/ scene = "completions" /\ Completions!Next /\ UNCHANGED Rest11
       \/ scene = "boot" /\ Boot!Next /\ UNCHANGED Rest12
       \/ scene = "tags" /\ Tags!Next /\ UNCHANGED Rest9
       \/ scene = "ids" /\ Identifiers!Next /\ UNCHANGED Rest9
       \/ scene = "tracks" /\ Tracks!Next /\ UNCHANGED Rest7
       \/ scene = "exports" /\ Exports!Next /\ UNCHANGED Rest12
       \/ scene = "pipeline window" /\ Pipeline!Next /\ UNCHANGED Rest9
       \/ scene = "review" /\ Review!Next /\ UNCHANGED Rest6
       \/ scene = "lock" /\ Lock!Next /\ UNCHANGED Rest6
       \/ scene = "collection" /\ Collection!Next /\ UNCHANGED Rest8

Spec == Init /\ [][Next]_vars

\* What goes on by itself, several conditions to a scene, numbered from 1:
\*  - a request or handler under way goes on, and an awaited call ends (every
\*    handler; the console's requests are served or lost, answers handled);
\*  - timers fire: the scaler's interval, sweeps, the poll of a watch folder or of
\*    a run's window, deadlines, back-offs, the boot budget, an abort timer;
\*  - OSC finishes what it started and an encode ends (packaging, leaks, waiting
\*    jobs); transfers end (ingest, quota);
\*  - 11 and 12 come round again and again although what they look at may go away
\*    in between: the packaging and failure sweeps, an operator who relocates
\*    again, the delivery of a completion.
\* Nothing is assumed of the packager and its callbacks, of the platform's media
\* jobs, of webhook receivers, of an export's object store, or of clients.
Turn(k) ==
    /\ UNCHANGED scene
    /\ \/ /\ scene = "packaging" /\ UNCHANGED Rest13
          /\ \/ k = 1 /\ Packaging!RunStep(r1)
             \/ k = 2 /\ Packaging!SweepWrites
             \/ k = 3 /\ Packaging!Settles
             \/ k = 11 /\ Packaging!SweepRead(r1)
       \/ /\ scene = "leaks"
          /\ \/ k = 1 /\ Leaks!Tick(a0)
             \/ k = 2 /\ Leaks!HoldOffEnds(a0)
             \/ k \in {3, 4} /\ Leaks!Lands(<<a0, k - 2>>)
             \/ k \in {5, 6} /\ Leaks!ComesUp(<<a0, k - 4>>)
             \/ k \in {7, 8} /\ Leaks!WorkEnds(<<a0, k - 6>>)
             \/ k \in {9, 10} /\ Leaks!Late(<<a0, k - 8>>)
       \/ /\ scene = "waiting jobs"
          /\ \/ k = 1 /\ Waiting!Tick(a0)
             \/ k = 2 /\ Waiting!HoldOffEnds(a0)
             \/ k \in {3, 4} /\ Waiting!Lands(<<a0, k - 2>>)
             \/ k \in {5, 6} /\ Waiting!ComesUp(<<a0, k - 4>>)
             \/ k \in {7, 8} /\ Waiting!WorkEnds(<<a0, k - 6>>)
             \/ k \in {9, 10} /\ Waiting!Late(<<a0, k - 8>>)
       \/ /\ scene = "retention" /\ UNCHANGED Rest7
          /\ \/ k = 1 /\ Retention!Step(r1)
             \/ k = 2 /\ Retention!Step(Sweeper)
             \/ k = 3 /\ Retention!Sweeps
       \/ /\ scene = "tiers" /\ UNCHANGED Rest7
          /\ \/ k = 1 /\ Tiers!Engine(x)
             \/ k = 11 /\ Tiers!StartsAll
       \/ /\ scene = "ingest" /\ UNCHANGED Rest12
          /\ \/ k = 1 /\ Intake!PullStep(a0)
             \/ k = 2 /\ Intake!Age(a0)
             \/ k = 3 /\ Intake!UploadStored(a0)
             \/ k = 4 /\ Intake!UploadRecord(a0)
             \/ k = 5 /\ Intake!RecStep
             \/ k = 6 /\ Intake!SweepStep
       \/ /\ scene = "watch folder" /\ UNCHANGED Rest13
          /\ \/ k = 1 /\ Watch!WatcherStep(w1)
             \/ k = 2 /\ Watch!WatcherStep(w2)
             \/ k = 3 /\ Watch!WorkStep
             \/ k = 4 /\ Watch!PassStep(p0)
       \/ /\ scene = "quota" /\ UNCHANGED Rest9
          /\ \/ k = 1 /\ (Quota!SweepStart \/ Quota!SweepEnd)
             \/ k \in 2..4 /\ Quota!SumStack(<<s0, t0, n0>>[k - 1])
             \/ k \in 5..7 /\ Quota!UploadEnds(<<big, small, file>>[k - 4])
       \/ /\ scene = "provisioning" /\ UNCHANGED Rest13
          /\ k \in 1..2 /\ Provision!Step(k)
       \/ /\ scene = "clips" /\ UNCHANGED Rest10
          /\ k \in 1..2 /\ Clips!Step(k)
       \/ /\ scene = "settling" /\ UNCHANGED Rest12
          /\ \/ k = 1 /\ Settling!SubmitStep(1)
             \/ k = 2 /\ Settling!DispatchStep(1)
             \/ k = 3 /\ Settling!Completes(1)
             \/ k = 4 /\ Settling!CancelStep(1)
             \/ k = 5 /\ Settling!Recomputes(1)
             \/ k = 11 /\ Settling!Sweep(1)
             \/ k = 12 /\ Settling!Deliver(1)
       \/ /\ scene = "webhooks" /\ UNCHANGED Rest5
          /\ \/ k = 1 /\ (Hooks!List(1) \/ Hooks!LookupFails(1))
             \/ k = 2 /\ Hooks!End(1)
             \/ k = 3 /\ Hooks!GiveUp(1, w1)
             \/ k = 4 /\ Hooks!GiveUp(1, w2)
       \/ /\ scene = "completions" /\ UNCHANGED Rest11
          /\ \/ k = 1 /\ Completions!LoopStep(p1)
             \/ k \in 2..3 /\ Completions!SweepCheck(<<m1, m2>>[k - 1])
             \/ k \in 4..5 /\ Completions!SweepAdd(<<m1, m2>>[k - 3])
             \/ k = 6 /\ Completions!Start(p1)
             \/ k = 7 /\ Completions!BackoffPasses
       \/ /\ scene = "boot" /\ UNCHANGED Rest12
          /\ k = 1 /\ Boot!BootFallback
       \/ /\ scene = "tags" /\ UNCHANGED Rest9
          /\ \/ k = 1 /\ Tags!Serve
             \/ k = 2 /\ Tags!Answer
       \/ /\ scene = "ids" /\ UNCHANGED Rest9
          /\ \/ k = 1 /\ Identifiers!Serve
             \/ k = 2 /\ Identifiers!Answer
       \/ /\ scene = "tracks" /\ UNCHANGED Rest7
          /\ \/ k = 1 /\ Tracks!Api
             \/ k = 2 /\ Tracks!Answer
       \/ /\ scene = "exports" /\ UNCHANGED Rest12
          /\ \/ k = 1 /\ Exports!ListServed
             \/ k = 2 /\ Exports!RecordRead
             \/ k = 3 /\ Exports!Resolved
             \/ k = 4 /\ Exports!TimerFires
             \/ k = 5 /\ Exports!Handled
       \/ /\ scene = "pipeline window" /\ UNCHANGED Rest9
          /\ \/ k = 1 /\ Pipeline!Tick
             \/ k = 2 /\ Pipeline!Served
       \/ /\ scene = "review" /\ UNCHANGED Rest6
          /\ k = 1 /\ Review!Step(c1)
       \/ /\ scene = "lock" /\ UNCHANGED Rest6
          /\ k \in 1..2 /\ Lock!Step(k)
       \/ /\ scene = "collection" /\ UNCHANGED Rest8
          /\ k \in 1..2 /\ Collection!Step(k)

FairSpec ==
    /\ Spec
    /\ \A k \in 1..10 : WF_vars(Turn(k))
    /\ \A k \in 11..12 : SF_vars(Turn(k))

-----------------------------------------------------------------------------
\* Nothing the backend began stays unfinished for ever: package steps, leaked
\* instances, waiting jobs, expired assets, interrupted relocations, pulls and
\* uploads, dropped files, a counter that is off, provisioning, clips, encoded
\* jobs, dispatches of events and the boot itself.
BackendUnfinished ==
    \/ scene = "packaging" /\ Packaging!Unfinished
    \/ scene = "leaks" /\ Leaks!Leaking
    \/ scene = "waiting jobs" /\ Waiting!JobsWaiting
    \/ scene = "retention" /\ Retention!Unfinished
    \/ scene = "tiers" /\ Tiers!Unfinished
    \/ scene = "ingest" /\ Intake!Unfinished
    \/ scene = "watch folder" /\ Watch!Unfinished
    \/ scene = "quota" /\ Quota!Unfinished
    \/ scene = "provisioning" /\ Provision!Unfinished
    \/ scene = "clips" /\ Clips!Unfinished
    \/ scene = "settling" /\ Settling!Unfinished
    \/ scene = "webhooks" /\ Hooks!Unfinished
    \/ scene = "completions" /\ Completions!Unfinished
    \/ scene = "boot" /\ Boot!Unfinished
BackendSettles == []<>~BackendUnfinished

\* Every write of the console gives its controls back, however it ends, every
\* request is answered, and the poll of a run's window stops with the ended run
\* on view.
ConsoleUnfinished ==
    \/ scene = "tags" /\ Tags!Unfinished
    \/ scene = "ids" /\ Identifiers!Unfinished
    \/ scene = "tracks" /\ Tracks!Unfinished
    \/ scene = "exports" /\ Exports!Unfinished
    \/ scene = "pipeline window" /\ Pipeline!Unfinished
    \/ scene = "review" /\ Review!Unfinished
    \/ scene = "lock" /\ Lock!Unfinished
    \/ scene = "collection" /\ Collection!Unfinished
ConsoleSettles == []<>~ConsoleUnfinished
=============================================================================
