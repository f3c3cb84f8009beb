------------------------------ MODULE MCAssets ------------------------------
(***************************************************************************)
(* Assets, where they live, and the transcode profiles, for TLC, side by   *)
(* side as in MCBackend: scene says which component moves and with which   *)
(* bounds, v1, v2, ... hold its variables.                                 *)
(***************************************************************************)
EXTENDS Integers, Sequences, FiniteSets, TLC

CONSTANTS
    Memory, NoName, None, Sweeper, a0, b0, big, c1, c2, child, direct, file, k1,
    k2, mother, n0, n1, other, p0, q0, r1, r2, ren1, ren2, renditions, s0,
    small, source, src, t0, upload, w1, w2, w3, w4, x

VARIABLES
    scene,   \* which component moves, under which bounds
    \* its variables, in its order; None where it has fewer
    v1, v2, v3, v4, v5, v6, v7, v8, v9, v10, v11, v12
vars == <<scene, v1, v2, v3, v4, v5, v6, v7, v8, v9, v10, v11, v12>>

\* One asset and its child; one asset by itself.
Family == (mother :> None) @@ (child :> mother)
Alone == (mother :> None)
\* One source object and two renditions.
ThreeObjects == (src :> source) @@ (ren1 :> renditions) @@ (ren2 :> renditions)
\* The keys of the watched buckets: other is in the bucket of t.
HomeOfKeys(keys) == [k \in keys |-> IF k = other THEN t0 ELSE s0]
\* Uploads: their sizes, and the stacks their bytes go to.
SizeOf == [u \in {big, small, direct, file} |-> IF u = big THEN 2 ELSE 1]
PlaceOf == [u \in {big, small, direct, file} |-> IF u \in {small, file} THEN t0 ELSE s0]
OwnStore == [k \in {s0, t0, n0} |-> k]
OneStore == [k \in {s0, t0} |-> s0]
\* The companions of a stack in order of creation.
ThreeServices == <<"minio", "couchdb", "valkey">>
TwoServices == <<"minio", "couchdb">>

-----------------------------------------------------------------------------
Writers == INSTANCE AssetLifecycle WITH
    Assets <- {mother}, Parent <- Alone, Requests <- {r1, r2}, Sweeper <- Sweeper,
    Ops <- {"create", "delete", "patch", "review", "lock", "restore", "purge"},
    Sweeping <- FALSE, OneAtATime <- FALSE, MaxStops <- 0, MaxRev <- 3,
    MaxAttempts <- 2, doc <- v1, bytes <- v2, active <- v3, req <- v4,
    sweep <- v5, stops <- v6
Purge == INSTANCE AssetLifecycle WITH
    Assets <- {mother, child}, Parent <- Family, Requests <- {r1},
    Sweeper <- Sweeper,
    Ops <- {"create", "delete", "patch", "lock", "repoint", "restore", "purge", "job"},
    Sweeping <- FALSE, OneAtATime <- TRUE, MaxStops <- 0, MaxRev <- 4,
    MaxAttempts <- 2, doc <- v1, bytes <- v2, active <- v3, req <- v4,
    sweep <- v5, stops <- v6
Related == INSTANCE AssetLifecycle WITH
    Assets <- {mother, child}, Parent <- Family, Requests <- {r1},
    Sweeper <- Sweeper, Ops <- {"create", "delete", "patch", "lock", "restore"},
    Sweeping <- TRUE, OneAtATime <- TRUE, MaxStops <- 0, MaxRev <- 4,
    MaxAttempts <- 2, doc <- v1, bytes <- v2, active <- v3, req <- v4,
    sweep <- v5, stops <- v6
Retention == INSTANCE AssetLifecycle WITH
    Assets <- {mother}, Parent <- Alone, Requests <- {r1, r2}, Sweeper <- Sweeper,
    Ops <- {"create", "patch", "delete", "lock"}, Sweeping <- TRUE,
    OneAtATime <- FALSE, MaxStops <- 1, MaxRev <- 3, MaxAttempts <- 2, doc <- v1,
    bytes <- v2, active <- v3, req <- v4, sweep <- v5, stops <- v6
ArchiveTiers == INSTANCE ArchiveTier WITH
    Classes <- {source, renditions}, Objects <- {src, ren1, ren2},
    ClassOf <- ThreeObjects, Runs <- {x}, Kinds <- {"relocate", "rehydrate"},
    MaxFaults <- 2, hot <- v1, cold <- v2, tier <- v3, rehydrating <- v4,
    run <- v5, faults <- v6
Pulls == INSTANCE Ingest WITH
    Assets <- {a0, b0}, Ways <- {"pull", "external"}, MaxAttempts <- 2,
    MaxBoots <- 1, MaxFaults <- 2, DocFaults <- {"job", "asset"}, MaxUploads <- 0,
    OverCap <- {FALSE}, asset <- v1, obj <- v2, parts <- v3, job <- v4,
    pull <- v5, up <- v6, gen <- v7, rec <- v8, sweep <- v9, faults <- v10,
    uploads <- v11
Uploads == INSTANCE Ingest WITH
    Assets <- {a0, b0}, Ways <- {"put", "multipart"}, MaxAttempts <- 2,
    MaxBoots <- 1, MaxFaults <- 2, DocFaults <- {}, MaxUploads <- 3,
    OverCap <- {FALSE}, asset <- v1, obj <- v2, parts <- v3, job <- v4,
    pull <- v5, up <- v6, gen <- v7, rec <- v8, sweep <- v9, faults <- v10,
    uploads <- v11
Once == INSTANCE WatchFolder WITH
    Stacks <- {s0, t0}, FirstListed <- s0, Drops <- {file, other},
    Managed <- {upload}, Pulled <- {}, Home <- HomeOfKeys({file, other, upload}),
    Watchers <- {w1, w2}, Passes <- {p0}, MaxChanges <- 1, MaxFaults <- 0,
    ListFails <- FALSE, MaxStops <- 0, MaxBoots <- 0, stacks <- v1, bucket <- v2,
    owned <- v3, watcher <- v4, registry <- v5, work <- v6, pass <- v7,
    kicks <- v8, changes <- v9, faults <- v10, stops <- v11, boots <- v12
WatchRegistry == INSTANCE WatchFolder WITH
    Stacks <- {s0, t0}, FirstListed <- s0, Drops <- {}, Managed <- {upload},
    Pulled <- {}, Home <- HomeOfKeys({upload}), Watchers <- {w1, w2, w3, w4},
    Passes <- {p0, q0}, MaxChanges <- 2, MaxFaults <- 1, ListFails <- TRUE,
    MaxStops <- 1, MaxBoots <- 0, stacks <- v1, bucket <- v2, owned <- v3,
    watcher <- v4, registry <- v5, work <- v6, pass <- v7, kicks <- v8,
    changes <- v9, faults <- v10, stops <- v11, boots <- v12
Settled == INSTANCE WatchFolder WITH
    Stacks <- {s0, t0}, FirstListed <- s0, Drops <- {}, Managed <- {upload},
    Pulled <- {}, Home <- HomeOfKeys({upload}), Watchers <- {w1, w2, w3, w4},
    Passes <- {p0}, MaxChanges <- 3, MaxFaults <- 0, ListFails <- FALSE,
    MaxStops <- 0, MaxBoots <- 0, stacks <- v1, bucket <- v2, owned <- v3,
    watcher <- v4, registry <- v5, work <- v6, pass <- v7, kicks <- v8,
    changes <- v9, faults <- v10, stops <- v11, boots <- v12
Resolver == INSTANCE StackResolver WITH
    Stacks <- {s0, t0}, NoName <- NoName, Memory <- Memory, Pinned <- None,
    Names <- <<s0, t0>>, Initially <- <<s0>>, Legacy <- {}, Requests <- {r1, r2},
    Overlap <- FALSE, MaxChanges <- 2, MaxFaults <- 0, MaxExpiries <- 1,
    conf <- v1, order <- v2, stale <- v3, torn <- v4, cache <- v5, health <- v6,
    req <- v7, changing <- v8, changes <- v9, faults <- v10, expiries <- v11
Outage == INSTANCE StackResolver WITH
    Stacks <- {s0, t0}, NoName <- NoName, Memory <- Memory, Pinned <- t0,
    Names <- <<s0, t0>>, Initially <- <<s0, t0>>, Legacy <- {}, Requests <- {r1},
    Overlap <- FALSE, MaxChanges <- 0, MaxFaults <- 2, MaxExpiries <- 3,
    conf <- v1, order <- v2, stale <- v3, torn <- v4, cache <- v5, health <- v6,
    req <- v7, changing <- v8, changes <- v9, faults <- v10, expiries <- v11
Migration == INSTANCE StackResolver WITH
    Stacks <- {s0, t0}, NoName <- NoName, Memory <- Memory, Pinned <- None,
    Names <- <<s0, t0>>, Initially <- <<>>, Legacy <- {t0}, Requests <- {r1, r2},
    Overlap <- FALSE, MaxChanges <- 0, MaxFaults <- 1, MaxExpiries <- 1,
    conf <- v1, order <- v2, stale <- v3, torn <- v4, cache <- v5, health <- v6,
    req <- v7, changing <- v8, changes <- v9, faults <- v10, expiries <- v11
Quota == INSTANCE StorageQuota WITH
    Cap <- 2, Sized <- {big, small}, Presigned <- {direct}, Dropped <- {},
    Size <- SizeOf, Place <- PlaceOf, Stacks <- {s0, t0}, Ready <- {s0, t0},
    Identity <- OwnStore, Durable <- TRUE, Quiet <- TRUE, MaxRuns <- 5,
    MaxFaults <- 3, MaxBoots <- 0, counter <- v1, up <- v2, held <- v3,
    stored <- v4, sweep <- v5, runs <- v6, faults <- v7, boots <- v8
QuotaCrash == INSTANCE StorageQuota WITH
    Cap <- 2, Sized <- {big, small}, Presigned <- {}, Dropped <- {},
    Size <- SizeOf, Place <- PlaceOf, Stacks <- {s0, t0}, Ready <- {s0, t0},
    Identity <- OwnStore, Durable <- TRUE, Quiet <- TRUE, MaxRuns <- 4,
    MaxFaults <- 1, MaxBoots <- 2, counter <- v1, up <- v2, held <- v3,
    stored <- v4, sweep <- v5, runs <- v6, faults <- v7, boots <- v8
QuotaSweep == INSTANCE StorageQuota WITH
    Cap <- 3, Sized <- {big}, Presigned <- {}, Dropped <- {file}, Size <- SizeOf,
    Place <- PlaceOf, Stacks <- {s0, t0, n0}, Ready <- {s0, t0},
    Identity <- OwnStore, Durable <- TRUE, Quiet <- FALSE, MaxRuns <- 3,
    MaxFaults <- 1, MaxBoots <- 0, counter <- v1, up <- v2, held <- v3,
    stored <- v4, sweep <- v5, runs <- v6, faults <- v7, boots <- v8
QuotaOverride == INSTANCE StorageQuota WITH
    Cap <- 3, Sized <- {big, small}, Presigned <- {}, Dropped <- {},
    Size <- SizeOf, Place <- PlaceOf, Stacks <- {s0, t0}, Ready <- {s0, t0},
    Identity <- OneStore, Durable <- TRUE, Quiet <- FALSE, MaxRuns <- 3,
    MaxFaults <- 1, MaxBoots <- 0, counter <- v1, up <- v2, held <- v3,
    stored <- v4, sweep <- v5, runs <- v6, faults <- v7, boots <- v8
OneByOne == INSTANCE Provisioning WITH
    Names <- {"a"}, Order <- ThreeServices, Ops <- {1, 2, 3, 4},
    Kinds <- {"provision", "delete", "packager"}, Serial <- TRUE, Legacy <- {},
    MaxReads <- 0, MaxWrites <- 0, MaxCalls <- 1, MaxExpired <- 0, MaxBoots <- 0,
    inst <- v1, root <- v2, maker <- v3, rec <- v4, op <- v5, inFlight <- v6,
    next <- v7, reads <- v8, writes <- v9, calls <- v10, expired <- v11,
    boots <- v12
Overlapped == INSTANCE Provisioning WITH
    Names <- {"a"}, Order <- ThreeServices, Ops <- {1, 2, 3},
    Kinds <- {"provision", "delete"}, Serial <- FALSE, Legacy <- {},
    MaxReads <- 0, MaxWrites <- 0, MaxCalls <- 1, MaxExpired <- 0, MaxBoots <- 0,
    inst <- v1, root <- v2, maker <- v3, rec <- v4, op <- v5, inFlight <- v6,
    next <- v7, reads <- v8, writes <- v9, calls <- v10, expired <- v11,
    boots <- v12
Ordered == INSTANCE Provisioning WITH
    Names <- {"a", "b"}, Order <- TwoServices, Ops <- {1, 2, 3},
    Kinds <- {"provision", "delete"}, Serial <- TRUE, Legacy <- {"b"},
    MaxReads <- 1, MaxWrites <- 1, MaxCalls <- 1, MaxExpired <- 0, MaxBoots <- 0,
    inst <- v1, root <- v2, maker <- v3, rec <- v4, op <- v5, inFlight <- v6,
    next <- v7, reads <- v8, writes <- v9, calls <- v10, expired <- v11,
    boots <- v12
Crashed == INSTANCE Provisioning WITH
    Names <- {"a"}, Order <- ThreeServices, Ops <- {1, 2, 3},
    Kinds <- {"provision"}, Serial <- TRUE, Legacy <- {}, MaxReads <- 0,
    MaxWrites <- 0, MaxCalls <- 1, MaxExpired <- 0, MaxBoots <- 1, inst <- v1,
    root <- v2, maker <- v3, rec <- v4, op <- v5, inFlight <- v6, next <- v7,
    reads <- v8, writes <- v9, calls <- v10, expired <- v11, boots <- v12
Backends == INSTANCE StorageBackends WITH
    MaxIds <- 2, MaxCalls <- 3, Calls <- {c1}, Names <- {n1}, Keys <- {k1, k2},
    Roles <- {"source", "both"}, Overlap <- FALSE, SaveFails <- FALSE,
    RolePatch <- FALSE, Checker <- TRUE, Slow <- FALSE, rec <- v1, sec <- v2,
    call <- v3, jobs <- v4, stray <- v5, used <- v6, gone <- v7, made <- v8
Faulty == INSTANCE StorageBackends WITH
    MaxIds <- 1, MaxCalls <- 3, Calls <- {c1, c2}, Names <- {n1},
    Keys <- {k1, k2}, Roles <- {"packaged", "archive"}, Overlap <- TRUE,
    SaveFails <- TRUE, RolePatch <- FALSE, Checker <- TRUE, Slow <- TRUE,
    rec <- v1, sec <- v2, call <- v3, jobs <- v4, stray <- v5, used <- v6,
    gone <- v7, made <- v8
Edits == INSTANCE ProfileIndex WITH
    Stacks <- {1}, Names <- {1, 2}, Builtin <- {1}, Remote <- {2}, Tiers <- {},
    Provisioned <- {1}, Overlap <- FALSE, RemoteFails <- FALSE, MaxWrites <- 2,
    MaxTasks <- 1, MaxBoots <- 1, MaxFaults <- 0, MaxCrashes <- 1, store <- v1,
    bucket <- v2, tasks <- v3, proc <- v4, loops <- v5, loaded <- v6, acked <- v7,
    spent <- v8
Index == INSTANCE ProfileIndex WITH
    Stacks <- {1}, Names <- {1, 2}, Builtin <- {1}, Remote <- {2}, Tiers <- {},
    Provisioned <- {1}, Overlap <- TRUE, RemoteFails <- TRUE, MaxWrites <- 1,
    MaxTasks <- 2, MaxBoots <- 0, MaxFaults <- 1, MaxCrashes <- 0, store <- v1,
    bucket <- v2, tasks <- v3, proc <- v4, loops <- v5, loaded <- v6, acked <- v7,
    spent <- v8
Stacked == INSTANCE ProfileIndex WITH
    Stacks <- {1, 2}, Names <- {1}, Builtin <- {1}, Remote <- {},
    Tiers <- {"app-path"}, Provisioned <- {1}, Overlap <- TRUE,
    RemoteFails <- FALSE, MaxWrites <- 0, MaxTasks <- 2, MaxBoots <- 0,
    MaxFaults <- 1, MaxCrashes <- 0, store <- v1, bucket <- v2, tasks <- v3,
    proc <- v4, loops <- v5, loaded <- v6, acked <- v7, spent <- v8

-----------------------------------------------------------------------------
\* The slots from the n-th on, which a scene with fewer variables leaves empty.
Rest7 == <<v7, v8, v9, v10, v11, v12>>
Rest9 == <<v9, v10, v11, v12>>
Rest12 == <<v12>>
Unused12 == v12 = None
Unused9 == v9 = None /\ v10 = None /\ v11 = None /\ Unused12
Unused7 == v7 = None /\ v8 = None /\ Unused9

Init ==
    \/ scene = "writers" /\ Writers!Init /\ Unused7
    \/ scene = "purge" /\ Purge!Init /\ Unused7
    \/ scene = "family" /\ Related!Init /\ Unused7
    \/ scene = "retention" /\ Retention!Init /\ Unused7
    \/ scene = "tiers" /\ ArchiveTiers!Init /\ Unused7
    \/ scene = "pulls" /\ Pulls!Init /\ Unused12
    \/ scene = "uploads" /\ Uploads!Init /\ Unused12
    \/ scene = "watch once" /\ Once!Init
    \/ scene = "watch registry" /\ WatchRegistry!Init
    \/ scene = "watch converges" /\ Settled!Init
    \/ scene = "requests" /\ Resolver!Init /\ Unused12
    \/ scene = "outage" /\ Outage!Init /\ Unused12
    \/ scene = "migration" /\ Migration!Init /\ Unused12
    \/ scene = "quota" /\ Quota!Init /\ Unused9
    \/ scene = "quota crash" /\ QuotaCrash!Init /\ Unused9
    \/ scene = "quota sweep" /\ QuotaSweep!Init /\ Unused9
    \/ scene = "quota override" /\ QuotaOverride!Init /\ Unused9
    \/ scene = "one by one" /\ OneByOne!Init
    \/ scene = "overlap" /\ Overlapped!Init
    \/ scene = "order" /\ Ordered!Init
    \/ scene = "crash" /\ Crashed!Init
    \/ scene = "backends" /\ Backends!Init /\ Unused9
    \/ scene = "backend faults" /\ Faulty!Init /\ Unused9
    \/ scene = "profile edits" /\ Edits!Init /\ Unused9
    \/ scene = "profile index" /\ Index!Init /\ Unused9
    \/ scene = "profiles of stacks" /\ Stacked!Init /\ Unused9
Next ==
    /\ UNCHANGED scene
    /\ \/ scene = "writers" /\ Writers!Next /\ UNCHANGED Rest7
       \/ scene = "purge" /\ Purge!Next /\ UNCHANGED Rest7
       \/ scene = "family" /\ Related!Next /\ UNCHANGED Rest7
       \/ scene = "retention" /\ Retention!Next /\ UNCHANGED Rest7
       \/ scene = "tiers" /\ ArchiveTiers!Next /\ UNCHANGED Rest7
       \/ scene = "pulls" /\ Pulls!Next /\ UNCHANGED Rest12
       \/ scene = "uploads" /\ Uploads!Next /\ UNCHANGED Rest12
       \/ scene = "watch once" /\ Once!Next
       \/ scene = "watch registry" /\ WatchRegistry!Next
       \/ scene = "watch converges" /\ Settled!Next
       \/ scene = "requests" /\ Resolver!Next /\ UNCHANGED Rest12
       \/ scene = "outage" /\ Outage!Next /\ UNCHANGED Rest12
       \/ scene = "migration" /\ Migration!Next /\ UNCHANGED Rest12
       \/ scene = "quota" /\ Quota!Next /\ UNCHANGED Rest9
       \/ scene = "quota crash" /\ QuotaCrash!Next /\ UNCHANGED Rest9
       \/ scene = "quota sweep" /\ QuotaSweep!Next /\ UNCHANGED Rest9
       \/ scene = "quota override" /\ QuotaOverride!Next /\ UNCHANGED Rest9
       \/ scene = "one by one" /\ OneByOne!Next
       \/ scene = "overlap" /\ Overlapped!Next
       \/ scene = "order" /\ Ordered!Next
       \/ scene = "crash" /\ Crashed!Next
       \/ scene = "backends" /\ Backends!Next /\ UNCHANGED Rest9
       \/ scene = "backend faults" /\ Faulty!Next /\ UNCHANGED Rest9
       \/ scene = "profile edits" /\ Edits!Next /\ UNCHANGED Rest9
       \/ scene = "profile index" /\ Index!Next /\ UNCHANGED Rest9
       \/ scene = "profiles of stacks" /\ Stacked!Next /\ UNCHANGED Rest9

Spec == Init /\ [][Next]_vars

-----------------------------------------------------------------------------
\* The asset documents, scene by scene.  "writers": two overlapping requests, no
\* sweep: compare-and-set keeps the state graphs, the lock and tombstones.
\* "purge": one request at a time, no sweep, other jobs beside it: a purge by
\* request takes only an archived, unlocked asset no active job names, and no
\* bytes another document refers to.  "family": requests and the sweep's purges
\* one after another, with the sweep's listing old: no child is left in use under
\* a purged parent.  "retention": two requests interleaved with the sweep, which
\* checks neither lock nor shared bytes: it purges only what is archived, and a
\* ready asset has its source (asset-repo.ts, routes/assets.ts,
\* archived-asset-purge-sweep.ts).
DocumentsKept ==
    /\ [](scene = "writers" => Writers!TypeOK)
    /\ [](scene = "family" => Related!NoOrphanedChild)
    /\ [](scene = "retention" => Retention!ReadyHasSource)
    /\ [][scene = "writers" => Writers!DocumentsLawful]_vars
    /\ [][scene = "purge" => Purge!PurgeGuarded /\ Purge!BytesUnreferenced]_vars
    /\ [][scene = "retention" => Retention!PurgedFromArchive]_vars

\* Moving an asset's objects between storage tiers, with copies, deletes and
\* writes failing, loses no object, and the tier the document names is where the
\* bytes are.
TiersHonest ==
    scene = "tiers" => ArchiveTiers!TypeOK /\ ArchiveTiers!NothingLost /\ ArchiveTiers!TierHonest

\* A processing asset has its source; the boot sweep and the stale-upload sweep
\* touch neither a pull that is running nor an upload that beats nor an asset
\* that moved on (url pulls, uploads, the reconcilers).
IngestKept ==
    /\ [](scene = "pulls" => Pulls!TypeOK /\ Pulls!ProcessingHasSource)
    /\ [](scene = "uploads" => Uploads!ProcessingHasSource)
    /\ [][scene = "pulls" => Pulls!LivePullSpared /\ Pulls!AdvancedSpared]_vars
    /\ [][scene = "uploads" => Uploads!BeatingNotSwept]_vars

\* A file in a watched bucket becomes one asset; no watcher runs that the
\* registry does not know, through overlapping passes and failures; and when
\* stacks stop changing the watchers are those of the stacks.
WatchedOnce ==
    /\ scene = "watch once" => Once!TypeOK /\ Once!OneAssetPerObject
    /\ scene = "watch registry" => WatchRegistry!NoStrayWatcher
    /\ scene = "watch converges" => Settled!Converged

\* A request's document and bytes go to one stack, the stamp on a document names
\* the stack that holds it, a new stack is picked up, a stack that answers stays
\* in use while others fail, and migrated documents keep their stamp (stack
\* resolution).
RoutedTogether ==
    /\ [](scene = "requests" =>
         /\ Resolver!TypeOK /\ Resolver!StampTrue /\ Resolver!DocsWithBytes
         /\ Resolver!PickedUp)
    /\ [](scene = "outage" => Outage!DocsWithBytes)
    /\ [](scene = "migration" => Migration!StampTrue)
    /\ [][scene = "outage" => Outage!HealthyKept]_vars

\* Uploads admitted stay within the cap and give their headroom back on every
\* path; what is stored stays within it through restarts; and a sweep sets the
\* counter to what is in the buckets, each store counted once (storage-quota.ts).
QuotaKept ==
    /\ [](scene = "quota" =>
         /\ Quota!TypeOK /\ Quota!AdmittedWithinCap /\ Quota!HeadroomReturned)
    /\ [](scene = "quota crash" => QuotaCrash!StoredWithinCap)
    /\ [][scene = "quota sweep" => QuotaSweep!SweepExact]_vars
    /\ [][scene = "quota override" => QuotaOverride!SweepExact]_vars

\* A stack reported ready runs, nothing runs that no record lists, and its
\* credentials fit, one operation after another and over a restart; operations
\* that overlap remove no adopted companion, and the order of stacks is kept
\* although reads and writes of the store fail (routes/provision.ts).
ProvisionTrue ==
    /\ [](scene = "one by one" =>
         /\ OneByOne!ReadyRuns /\ OneByOne!NothingUnlisted
         /\ OneByOne!CredentialFits)
    /\ [](scene = "overlap" => Overlapped!TypeOK)
    /\ [](scene = "crash" => Crashed!CredentialFits)
    /\ [][scene = "overlap" => Overlapped!AdoptedSpared]_vars
    /\ [][scene = "order" => Ordered!OrderKept]_vars
    /\ [][scene = "crash" => Crashed!ReadyKept]_vars

\* Registered backends, their secrets and the default roles agree after every
\* call, removed ones stay removed, a patch keeps what it does not name and one
\* in use stays; when store writes fail and calls overlap, every listed backend
\* still has its secret and what was delivered landed (storage backends).
BackendsCoherent ==
    /\ [](scene = "backends" =>
         /\ Backends!TypeOK /\ Backends!Coherent /\ Backends!StaysRemoved
         /\ Backends!DeliveredThere /\ Backends!StrayTold)
    /\ [](scene = "backend faults" =>
         /\ Faulty!SecretsPresent /\ Faulty!DeliveredLanded)
    /\ [][scene = "backends" => Backends!UnpatchedKept /\ Backends!InUseStays]_vars

\* With one writer at a time the mirror holds the profiles last acknowledged,
\* over restarts and crashes; with writers overlapping, every name of the index
\* has its document; and a stack's jobs read only its own index (profile seeding
\* and the profile routes).
ProfilesTrue ==
    /\ scene = "profile edits" =>
         /\ Edits!TypeOK /\ Edits!MirrorFresh /\ Edits!EditKept
    /\ scene = "profile index" => Index!IndexBacked
    /\ scene = "profiles of stacks" => Stacked!OwnIndex
=============================================================================
