---------------------------- MODULE WatchFolder ----------------------------
(***************************************************************************)
(* Ingest of files dropped into a stack's source bucket (pipeline/watch-   *)
(* folder.ts) and the registry of one watcher per provisioned stack        *)
(* (services/watch-folder-wiring.ts, main.ts).  A watcher learns of keys   *)
(* from notifications and from listings and keeps those it has handled in  *)
(* memory.  Every change of the stacks starts a pass over the registry;    *)
(* passes are not serialized.                                              *)
(***************************************************************************)
EXTENDS Naturals, FiniteSets, TLC

CONSTANTS
    None,
    Stacks,       \* stack names, in listing order by FirstListed
    FirstListed,  \* the name listed first when both are there
    Drops,        \* keys written by others
    Managed,      \* keys the API writes under sources/
    Pulled,       \* keys a URL pull writes under ingest/
    Home,         \* [Drops \cup Managed \cup Pulled -> Stacks]
    Watchers,     \* watcher instances, a pool
    Passes,       \* registry passes that may overlap
    MaxChanges,   \* bound: provisions and teardowns
    MaxFaults,    \* bound: failed asset writes and failed listings
    ListFails,    \* may reading the stack list fail?
    MaxStops,     \* bound: operator stops
    MaxBoots      \* bound: restarts

VARIABLES
    stacks,    \* provisioned stacks
    bucket,    \* keys present
    owned,     \* [key -> asset documents that name it]
    watcher,   \* [Watchers -> [st, on, processed, listed]]; on: the bucket watched
    registry,  \* [Stacks -> watcher or None]
    work,      \* ingests under way: [w, k, at]
    pass,      \* [Passes -> [at, names]]
    kicks,     \* stack changes whose pass has not begun
    changes, faults, stops, boots
vars == <<stacks, bucket, owned, watcher, registry, work, pass, kicks, changes, faults, stops, boots>>
counts == <<changes, faults, stops, boots>>

Keys == Drops \cup Managed \cup Pulled
Fresh == [st |-> "unused", on |-> None, processed |-> {}, listed |-> {}]
NoPass == [at |-> "idle", names |-> {}]

\* Objects the API wrote have their asset already; a drop has none.
Init ==
    /\ stacks = {FirstListed} /\ bucket = {} /\ owned = [k \in Keys |-> 0]
    /\ watcher = [w \in Watchers |-> Fresh]
    /\ registry = [s \in Stacks |-> None]
    /\ work = {} /\ pass = [p \in Passes |-> NoPass] /\ kicks = 1
    /\ changes = 0 /\ faults = 0 /\ stops = 0 /\ boots = 0

---------------------------------------------------------------------------
(* One watcher.                                                            *)

\* An object is written; one the API wrote comes with its asset.
Write(k) ==
    /\ k \notin bucket /\ Home[k] \in stacks
    /\ bucket' = bucket \cup {k}
    /\ owned' = [owned EXCEPT ![k] = IF k \in Drops THEN 0 ELSE 1]
    /\ UNCHANGED <<stacks, watcher, registry, work, pass, kicks, counts>>

Sees(w) == {k \in bucket : Home[k] = watcher[w].on /\ Home[k] \in stacks}

\* poll(): the listing, whose keys are then taken one by one.
List(w) ==
    /\ watcher[w].st = "on" /\ ~(Sees(w) \subseteq watcher[w].listed \cup watcher[w].processed)
    /\ watcher' = [watcher EXCEPT ![w].listed = Sees(w) \ watcher[w].processed]
    /\ UNCHANGED <<stacks, bucket, owned, registry, work, pass, kicks, counts>>

\* ingestKey: the key is reserved in memory before the first await.
IngestKey(w, k, listed) ==
    /\ k \notin watcher[w].processed
    /\ watcher' = [watcher EXCEPT ![w].listed = listed, ![w].processed = @ \cup {k}]
    /\ work' = IF k \in Managed THEN work ELSE work \cup {[w |-> w, k |-> k, at |-> "create"]}
    /\ UNCHANGED <<stacks, bucket, owned, registry, pass, kicks, counts>>

\* A notification, and a key of the listing; a listing outlives a stop.
Notified(w, k) ==
    watcher[w].st = "on" /\ k \in Sees(w) /\ IngestKey(w, k, watcher[w].listed)
Polled(w, k) ==
    k \in watcher[w].listed /\ IngestKey(w, k, watcher[w].listed \ {k})
AlreadyDone(w, k) ==
    /\ k \in watcher[w].listed \cap watcher[w].processed
    /\ watcher' = [watcher EXCEPT ![w].listed = @ \ {k}]
    /\ UNCHANGED <<stacks, bucket, owned, registry, work, pass, kicks, counts>>

\* The asset is created, then moved to processing.
CreateAsset(i) ==
    /\ i \in work /\ i.at = "create"
    /\ owned' = [owned EXCEPT ![i.k] = @ + 1]
    /\ work' = (work \ {i}) \cup {[i EXCEPT !.at = "record"]}
    /\ UNCHANGED <<stacks, bucket, watcher, registry, pass, kicks, counts>>

Record(i) ==
    /\ i \in work /\ i.at = "record"
    /\ work' = work \ {i}
    /\ UNCHANGED <<stacks, bucket, owned, watcher, registry, pass, kicks, counts>>

\* Either write fails: the key is forgotten, to be retried.
IngestFails(i) ==
    /\ i \in work /\ faults < MaxFaults /\ faults' = faults + 1
    /\ work' = work \ {i}
    /\ watcher' = [watcher EXCEPT ![i.w].processed = @ \ {i.k}]
    /\ UNCHANGED <<stacks, bucket, owned, registry, pass, kicks, changes, stops, boots>>

\* POST /watch-folder/stop and /start, on the default watcher.
OperatorStop(w) ==
    /\ watcher[w].st = "on" /\ w = registry[FirstListed]
    /\ stops < MaxStops /\ stops' = stops + 1
    /\ watcher' = [watcher EXCEPT ![w].st = "off"]
    /\ UNCHANGED <<stacks, bucket, owned, registry, work, pass, kicks, changes, faults, boots>>
OperatorStart(w) ==
    /\ watcher[w].st = "off" /\ w = registry[FirstListed]
    /\ watcher' = [watcher EXCEPT ![w].st = "on"]
    /\ UNCHANGED <<stacks, bucket, owned, registry, work, pass, kicks, counts>>

---------------------------------------------------------------------------
(* The registry.                                                           *)

\* A stack is provisioned or torn down; onStackChange starts a pass.
Change(s) ==
    /\ changes < MaxChanges /\ changes' = changes + 1
    /\ stacks' = IF s \in stacks THEN stacks \ {s} ELSE stacks \cup {s}
    /\ bucket' = {k \in bucket : Home[k] # s}
    /\ kicks' = kicks + 1
    /\ UNCHANGED <<owned, watcher, registry, work, pass, faults, stops, boots>>

\* The pass asks for the list; the answer is of that moment.  A failed read is
\* an empty list.
PassList(p, names) ==
    /\ pass[p].at = "idle" /\ kicks > 0
    /\ kicks' = kicks - 1
    /\ \/ names = stacks /\ UNCHANGED faults
       \/ ListFails /\ names = {} /\ faults < MaxFaults /\ faults' = faults + 1
    /\ pass' = [pass EXCEPT ![p] = [at |-> "apply", names |-> names]]
    /\ UNCHANGED <<stacks, bucket, owned, watcher, registry, work, changes, stops, boots>>

Registered == {s \in Stacks : registry[s] # None}

\* The answer arrives.  An empty list beside live watchers changes nothing;
\* else watchers of names not listed are stopped.
PassApply(p) ==
    LET gone == Registered \ pass[p].names
        ended == {registry[s] : s \in gone} IN
    /\ pass[p].at = "apply"
    /\ IF pass[p].names = {}
       THEN /\ pass' = [pass EXCEPT ![p] = NoPass]
            /\ UNCHANGED <<watcher, registry>>
       ELSE /\ pass' = [pass EXCEPT ![p].at = "wire"]
            /\ watcher' = [w \in Watchers |-> IF w \in ended THEN [watcher[w] EXCEPT !.st = "off"]
                                              ELSE watcher[w]]
            /\ registry' = [s \in Stacks |-> IF s \in gone THEN None ELSE registry[s]]
    /\ UNCHANGED <<stacks, bucket, owned, work, kicks, counts>>

\* The resolver: a name that is gone resolves to the first listed stack.
Resolved(s) == IF s \in stacks THEN s
               ELSE IF FirstListed \in stacks THEN FirstListed
               ELSE IF stacks = {} THEN None ELSE CHOOSE t \in stacks : TRUE

\* Variant: the existing watcher is not looked for.
PassWireBlind(p, s, w) ==
    /\ pass[p].at = "wire" /\ s \in pass[p].names
    /\ w # None /\ watcher[w].st = "unused" /\ Resolved(s) # None
    /\ watcher' = [watcher EXCEPT ![w] = [Fresh EXCEPT !.st = "on", !.on = Resolved(s)]]
    /\ registry' = [registry EXCEPT ![s] = w]
    /\ pass' = [pass EXCEPT ![p] = IF pass[p].names = {s} THEN NoPass
                                   ELSE [pass[p] EXCEPT !.names = @ \ {s}]]
    /\ UNCHANGED <<stacks, bucket, owned, work, kicks, counts>>

\* One stack of the pass: after the await of the resolver, check and replace
\* run in one piece.
PassWire(p, s, w) ==
    LET old == registry[s]
        holds == old # None /\ watcher[old].st = "on" /\ watcher[old].on = Resolved(s) IN
    /\ pass[p].at = "wire" /\ s \in pass[p].names
    /\ IF holds \/ Resolved(s) = None
       THEN w = None /\ UNCHANGED <<watcher, registry>>
       ELSE /\ w # None /\ watcher[w].st = "unused"
            /\ watcher' = [v \in Watchers |->
                             CASE v = w -> [Fresh EXCEPT !.st = "on", !.on = Resolved(s)]
                               [] v = old -> [watcher[v] EXCEPT !.st = "off"]
                               [] OTHER -> watcher[v]]
            /\ registry' = [registry EXCEPT ![s] = w]
    /\ pass' = [pass EXCEPT ![p] = IF pass[p].names = {s} THEN NoPass
                                   ELSE [pass[p] EXCEPT !.names = @ \ {s}]]
    /\ UNCHANGED <<stacks, bucket, owned, work, kicks, counts>>

\* A restart: every watcher and what it remembers is gone, boot makes a pass.
Restart ==
    /\ boots < MaxBoots /\ boots' = boots + 1
    /\ watcher' = [w \in Watchers |-> Fresh]
    /\ registry' = [s \in Stacks |-> None]
    /\ work' = {} /\ pass' = [p \in Passes |-> NoPass] /\ kicks' = 1
    /\ UNCHANGED <<stacks, bucket, owned, changes, faults, stops>>

---------------------------------------------------------------------------
WatcherStep(w) == List(w) \/ \E k \in Keys : Polled(w, k) \/ AlreadyDone(w, k)
WorkStep == \E i \in work : CreateAsset(i) \/ Record(i)
PassStep(p) ==
    \/ (\E names \in SUBSET Stacks : PassList(p, names)) \/ PassApply(p)
    \/ \E s \in Stacks, w \in Watchers \cup {None} : PassWire(p, s, w)

Next ==
    \/ \E k \in Keys : Write(k)
    \/ \E w \in Watchers : WatcherStep(w) \/ (\E k \in Keys : Notified(w, k))
                           \/ OperatorStop(w) \/ OperatorStart(w)
    \/ WorkStep \/ (\E i \in work : IngestFails(i))
    \/ \E s \in Stacks : Change(s)
    \/ \E p \in Passes : PassStep(p)
    \/ Restart
Spec == Init /\ [][Next]_vars

---------------------------------------------------------------------------
TypeOK ==
    /\ stacks \subseteq Stacks /\ bucket \subseteq Keys
    /\ \A k \in Keys : owned[k] \in Nat
    /\ \A w \in Watchers : watcher[w].st \in {"unused", "on", "off"}
                           /\ watcher[w].processed \cup watcher[w].listed \subseteq Keys
    /\ registry \in [Stacks -> Watchers \cup {None}]
    /\ \A i \in work : i.w \in Watchers /\ i.k \in Keys /\ i.at \in {"create", "record"}
    /\ \A p \in Passes : pass[p].at \in {"idle", "apply", "wire"} /\ pass[p].names \subseteq Stacks

\* An object becomes one asset, however often notifications and overlapping
\* listings meet its key.
OneAssetPerObject == \A k \in Keys : owned[k] <= 1

\* Every watcher that runs is the one its stack's entry names: none is left
\* polling behind the registry.
NoStrayWatcher ==
    \A w \in Watchers : watcher[w].st = "on" => \E s \in Stacks : registry[s] = w

\* Once the passes are through, every provisioned stack has its watcher.
Converged ==
    kicks = 0 /\ (\A p \in Passes : pass[p].at = "idle")
    => \A s \in stacks : /\ registry[s] # None
                         /\ watcher[registry[s]].st = "on" /\ watcher[registry[s]].on = s

\* A file dropped into the bucket of a stack that stays becomes an asset.
Unfinished == \E k \in Drops : k \in bucket /\ owned[k] = 0
=============================================================================
