--------------------------- MODULE SpawnLifecycle ---------------------------
(***************************************************************************)
(* How the scaler of each workspace gets Encore instances and gives them   *)
(* back: the scale-up gate and its three holds, the create attempts with   *)
(* the take-over of a create that landed behind a gateway timeout, the     *)
(* paired callback listener, the readiness wait, the pending record and    *)
(* its resolver, eviction, scale-down, the orphan sweep, the callback      *)
(* trust gate in front of dispatch, and the restart that rebuilds a lost   *)
(* pool from OSC.  (src/src/encore-scaler/instance-pool.ts,                *)
(* spawn-admission.ts, spawn-failure.ts, callback-trust-probe.ts and       *)
(* scaler-loop.ts.)  One process runs one loop per workspace; the loops    *)
(* share the spawn slots.  OSC and the instances are external.             *)
(***************************************************************************)
EXTENDS Naturals, FiniteSets

CONSTANTS
  Workspaces,
  Numbers,      \* per workspace, the instance names in use at once
  None,         \* no instance
  SlotLimit,    \* MAX_CONCURRENT_SPAWNS
  MinInstances, \* config.minInstances, the warm floor
  MaxInstances, \* config.maxInstances
  MaxAttempts,  \* creates per spawn
  MaxJobs,      \* bound: jobs submitted to a workspace
  MaxFaults,    \* bound: failed calls, slow or broken instances
  MaxCrashes    \* bound: restarts and Valkey wipes

VARIABLES
  enc,     \* the Encore instance of each name on OSC
  lis,     \* its callback listener on OSC
  work,    \* what the instance is needed for
  pool,    \* encore:pool, all workspaces
  seen,    \* encore:orphan-seen
  queue,   \* jobs waiting, per workspace
  fail,    \* encore:spawn-failure, per workspace
  tick,    \* locals of each workspace's tick
  slots,   \* SpawnConcurrencyLimiter.inFlight
  killed,  \* history: names torn down with work on them
  blind,   \* history: names dispatched to without a callback URI
  left,    \* jobs not submitted yet
  faults, crashes

osc == <<enc, lis, work>>
valkey == <<pool, seen, queue, fail>>
process == <<tick, slots>>
ghosts == <<killed, blind>>
vars == <<enc, lis, work, pool, seen, queue, fail, tick, slots, killed,
          blind, left, faults, crashes>>

\* scalerInstancePrefix: a name carries its owner's tag, so ownership is part
\* of the name (classifyInstanceOwnership; the pre-tag shape is left out).
Names == Workspaces \X Numbers
Owned(w) == {w} \X Numbers

\* "landing": a create that timed out at the gateway may still go through;
\* "broken": it exists on OSC and never reports running.
EncStates == {"none", "landing", "starting", "running", "broken"}
Exists(n) == enc[n] \notin {"none", "landing"}

\* EncoreInstanceRecord: pendingReadySince ("late" past its deadline), the
\* listener create's back-off, the callback-trust stamps, idleness.
Record == [in : BOOLEAN, url : BOOLEAN, pend : {"no", "new", "late"},
           block : {"no", "wait", "never"}, drain : BOOLEAN, aged : BOOLEAN,
           trust : {"no", "probing", "late", "ready", "unusable",
                    "quarantined"}]
Gone == [in |-> FALSE, url |-> FALSE, pend |-> "no", block |-> "no",
         drain |-> FALSE, aged |-> FALSE, trust |-> "no"]
Ready(url) == [Gone EXCEPT !.in = TRUE, !.url = url]
Pending(url) == [Ready(url) EXCEPT !.pend = "new"]

Steps == {"off", "boot", "idle", "resolve", "teardown", "create", "probe",
          "listener", "wait", "cleanup", "down", "reap", "dispatch"}
Local == [at : Steps, name : Names \cup {None}, todo : SUBSET Names,
          try : 0 .. MaxAttempts, slot : BOOLEAN, adopted : BOOLEAN,
          paired : BOOLEAN, ours : BOOLEAN, late : BOOLEAN, rec : Record]
Idle == [at |-> "idle", name |-> None, todo |-> {}, try |-> 0,
         slot |-> FALSE, adopted |-> FALSE, paired |-> FALSE,
         ours |-> FALSE, late |-> FALSE, rec |-> Gone]

TypeOK ==
  /\ enc \in [Names -> EncStates]
  /\ lis \in [Names -> {"none", "starting", "running"}]
  /\ work \in [Names -> {"no", "encode", "package"}]
  /\ pool \in [Names -> Record] /\ seen \in [Names -> {"no", "new", "late"}]
  /\ queue \in [Workspaces -> Nat] /\ left \in [Workspaces -> Nat]
  /\ fail \in [Workspaces -> {"no", "held", "plain"}]
  /\ tick \in [Workspaces -> Local] /\ slots \in Nat
  /\ killed \subseteq Names /\ blind \subseteq Names
  /\ faults \in 0 .. MaxFaults /\ crashes \in 0 .. MaxCrashes

Init ==
  /\ enc = [n \in Names |-> "none"] /\ lis = [n \in Names |-> "none"]
  /\ work = [n \in Names |-> "no"] /\ pool = [n \in Names |-> Gone]
  /\ seen = [n \in Names |-> "no"] /\ queue = [w \in Workspaces |-> 0]
  /\ left = [w \in Workspaces |-> MaxJobs]
  /\ fail = [w \in Workspaces |-> "no"]
  /\ tick = [w \in Workspaces |-> [Idle EXCEPT !.at = "off"]]
  /\ slots = 0 /\ killed = {} /\ blind = {} /\ faults = 0 /\ crashes = 0

-----------------------------------------------------------------------------
(* Helpers. *)

Tracked(w) == {n \in Owned(w) : pool[n].in}
Usable(w) == {n \in Tracked(w) : pool[n].pend = "no"}
\* `k` calls of this step failed.
Failed(k) == faults + k <= MaxFaults /\ faults' = faults + k
NoFault == UNCHANGED faults
Go(w, at) == tick' = [tick EXCEPT ![w].at = at]
Done(w, n, at) == tick' = [tick EXCEPT ![w].todo = @ \ {n}, ![w].at = at]

\* SpawnSlot.release is idempotent: the hook and the finally both call it.
Released(w) == IF tick[w].slot THEN slots - 1 ELSE slots

\* A name that nothing remembers: Date.now() makes every name a new one.
Fresh(n) == enc[n] = "none" /\ lis[n] = "none" /\ ~pool[n].in /\ seen[n] = "no"

\* destroyInstance when OSC takes the removal: the listener's removal and the
\* record's are best effort, one failed call among them at most.
Destroyed(n) ==
  /\ enc' = [enc EXCEPT ![n] = "none"]
  /\ work' = [work EXCEPT ![n] = "no"]
  /\ killed' = killed \cup {m \in {n} : work[m] # "no"}
  /\ \E lost \in {"none", "listener", "record"} :
       /\ Failed(IF lost = "none" THEN 0 ELSE 1)
       /\ lis' = IF lost = "listener" THEN lis ELSE [lis EXCEPT ![n] = "none"]
       /\ pool' = IF lost = "record" THEN pool ELSE [pool EXCEPT ![n] = Gone]

\* recordSpawnFailure: a gateway timeout or a transport error holds off.
Kinds == {"held", "plain"}
SpawnFailed(w, kind) ==
  /\ fail' = [fail EXCEPT ![w] = kind]
  /\ slots' = Released(w)
  /\ tick' = [tick EXCEPT ![w] = [Idle EXCEPT !.at = "down",
                                              !.todo = Usable(w)]]

-----------------------------------------------------------------------------
(* The tick: evict, resolve pending spawns, the gate. *)

\* reconcile: records whose instance OSC no longer lists are evicted, with
\* their listeners; an unreadable list evicts nothing.
TickStart(w) ==
  /\ tick[w].at = "idle"
  /\ \E listed \in BOOLEAN :
       LET gone == {n \in Tracked(w) : listed /\ ~Exists(n)}
       IN /\ Failed(IF listed THEN 0 ELSE 1)
          /\ pool' = [n \in Names |-> IF n \in gone THEN Gone ELSE pool[n]]
          /\ lis' = [n \in Names |-> IF n \in gone THEN "none" ELSE lis[n]]
          /\ tick' = [tick EXCEPT ![w].at = "resolve",
               ![w].todo = {n \in Tracked(w) \ gone : pool[n].pend # "no"}]
  /\ UNCHANGED <<enc, work, seen, queue, fail, slots, ghosts, left, crashes>>

\* What resolvePendingSpawns finds out about a pending record, and does: its
\* health cannot be read; it is not running; its listener exists; the
\* listener's create is blocked; it creates or adopts the listener, or fails to.
Resolution(l, rec, up, cost) ==
  [lis |-> l, rec |-> rec, up |-> up, cost |-> cost]
Resolutions(n) ==
  LET rec == pool[n]
      same == Resolution(lis[n], rec, FALSE, 0)
      l == IF lis[n] = "none" THEN "starting" ELSE lis[n]
  IN {[same EXCEPT !.cost = 1]} \cup
     IF enc[n] # "running" THEN {same}
     ELSE IF rec.url THEN {[same EXCEPT !.up = lis[n] = "running"]}
     ELSE IF rec.block # "no" THEN {same}
     ELSE {Resolution(l, [rec EXCEPT !.url = TRUE], l = "running", 0)}
          \cup {Resolution(lis[n], [rec EXCEPT !.block = b], FALSE, 1) :
                  b \in {"wait", "never"}}

\* One pending record: promoted when both halves run; past its deadline it is
\* claimed for teardown, its record deleted first.
ResolvePending(w, n) ==
  /\ tick[w].at = "resolve" /\ n \in tick[w].todo
  /\ \E r \in Resolutions(n) :
       /\ Failed(r.cost)
       /\ lis' = [lis EXCEPT ![n] = r.lis]
       /\ LET claim == ~r.up /\ pool[n].pend = "late"
          IN /\ pool' = [pool EXCEPT ![n] = IF r.up THEN Ready(TRUE)
                                            ELSE IF claim THEN Gone
                                            ELSE r.rec]
             /\ tick' = [tick EXCEPT ![w].todo = @ \ {n},
                  ![w].at = IF claim THEN "teardown" ELSE @,
                  ![w].name = IF claim THEN n ELSE @,
                  ![w].rec = IF claim THEN r.rec ELSE @]
  /\ UNCHANGED <<enc, work, seen, queue, fail, slots, ghosts, left, crashes>>

\* ... and destroyed; when OSC refuses, the record is put back.
Teardown(w) ==
  LET n == tick[w].name
  IN /\ tick[w].at = "teardown"
     /\ tick' = [tick EXCEPT ![w].at = "resolve", ![w].name = None,
                             ![w].rec = Gone]
     /\ \/ Destroyed(n)
        \/ \E k \in 1 .. 2 :
             /\ Failed(k)
             /\ pool' = IF k = 1 THEN [pool EXCEPT ![n] = tick[w].rec] ELSE pool
             /\ UNCHANGED <<osc, ghosts>>
     /\ UNCHANGED <<seen, queue, fail, slots, blind, left, crashes>>

\* The scale-up gate: below the floor, or jobs waiting and every usable
\* instance busy.
Busy(n) == work[n] = "encode"
WantsInstance(w) ==
  /\ Cardinality(Tracked(w)) < MaxInstances
  /\ \/ Cardinality(Tracked(w)) < MinInstances
     \/ queue[w] > 0 /\ \A n \in Usable(w) : Busy(n)
\* adoptionPendingInstance, the failure hold-off, the process-wide slots.
AdoptionPending(w) == Tracked(w) # {} /\ Usable(w) = {}
HeldOff(w) == AdoptionPending(w) \/ fail[w] = "held" \/ slots >= SlotLimit

Gate(w) ==
  /\ tick[w].at = "resolve" /\ tick[w].todo = {}
  /\ IF WantsInstance(w) /\ ~HeldOff(w) /\ \E n \in Owned(w) : Fresh(n)
     THEN \E n \in Owned(w) :
            /\ Fresh(n)
            /\ slots' = slots + 1
            /\ tick' = [tick EXCEPT ![w] = [Idle EXCEPT !.at = "create",
                          !.name = n, !.try = 1, !.slot = TRUE]]
     ELSE /\ tick' = [tick EXCEPT ![w] = [Idle EXCEPT !.at = "down",
                                                      !.todo = Usable(w)]]
          /\ UNCHANGED slots
  /\ UNCHANGED <<osc, valkey, ghosts, left, faults, crashes>>

-----------------------------------------------------------------------------
(* The spawn. *)

\* The next create attempt, or what follows the last one.
Retry(w, last) ==
  IF tick[w].try < MaxAttempts
  THEN tick' = [tick EXCEPT ![w].try = @ + 1] /\ UNCHANGED <<fail, slots>>
  ELSE last

\* One createInstance of the Encore instance.  A gateway timeout may have
\* landed, may land later, or never; the last one is watched for.
Create(w) ==
  LET n == tick[w].name
      take(adopted) == tick' = [tick EXCEPT ![w].at = "listener",
                                  ![w].try = 1, ![w].adopted = adopted]
  IN /\ tick[w].at = "create"
     /\ \/ /\ ~Exists(n)
           /\ \E e \in {"starting", "broken"} :
                /\ Failed(IF e = "broken" THEN 1 ELSE 0)
                /\ enc' = [enc EXCEPT ![n] = e]
           /\ take(FALSE) /\ UNCHANGED <<fail, slots>>
        \/ /\ Exists(n) /\ NoFault
           /\ take(TRUE) /\ UNCHANGED <<enc, fail, slots>>
        \/ /\ Exists(n) /\ Failed(1)
           /\ Retry(w, SpawnFailed(w, "plain")) /\ UNCHANGED enc
        \/ /\ ~Exists(n) /\ Failed(1)
           /\ \E e \in {enc[n], "landing"} : enc' = [enc EXCEPT ![n] = e]
           /\ Retry(w, Go(w, "probe") /\ UNCHANGED <<fail, slots>>)
        \/ /\ ~Exists(n) /\ Failed(1) /\ UNCHANGED enc
           /\ \/ Retry(w, SpawnFailed(w, "held"))
              \/ SpawnFailed(w, "plain")
     /\ UNCHANGED <<lis, work, pool, seen, queue, ghosts, left, crashes>>

\* probeForGatewayTimedOutInstance: adopt it once OSC confirms it, else give
\* up at the end of the budget and leave whatever lands to the orphan sweep.
ProbeTimedOut(w) ==
  LET n == tick[w].name
  IN /\ tick[w].at = "probe"
     /\ \/ /\ Exists(n) /\ NoFault
           /\ tick' = [tick EXCEPT ![w].at = "listener", ![w].try = 1,
                                   ![w].adopted = TRUE]
           /\ UNCHANGED <<fail, slots>>
        \/ ~Exists(n) /\ NoFault /\ SpawnFailed(w, "held")
        \/ Exists(n) /\ Failed(1) /\ SpawnFailed(w, "held")
     /\ UNCHANGED <<osc, pool, seen, queue, ghosts, left, crashes>>

\* createOrAdoptCallbackListener; once it is through, onCreatesSettled gives
\* the slot back before the readiness wait.
CreateListener(w) ==
  LET n == tick[w].name
  IN /\ tick[w].at = "listener"
     /\ \/ /\ NoFault
           /\ lis' = [lis EXCEPT ![n] = IF @ = "none" THEN "starting" ELSE @]
           /\ slots' = Released(w)
           /\ tick' = [tick EXCEPT ![w].at = "wait", ![w].slot = FALSE,
                         ![w].paired = TRUE, ![w].ours = lis[n] = "none"]
        \/ /\ Failed(1)
           /\ \E l \in {lis[n], "starting"} :
                lis' = [lis EXCEPT ![n] = IF @ = "none" THEN l ELSE @]
           /\ UNCHANGED slots
           /\ \/ tick[w].try < MaxAttempts
                 /\ tick' = [tick EXCEPT ![w].try = @ + 1]
              \/ Go(w, "cleanup")
     /\ UNCHANGED <<enc, work, valkey, ghosts, left, crashes>>

\* Both halves run: the record is written and the failure state cleared.  The
\* wait is bounded (SpawnReadyTimeoutError).
AwaitReady(w) ==
  LET n == tick[w].name
  IN /\ tick[w].at = "wait"
     /\ \/ /\ enc[n] = "running" /\ lis[n] = "running" /\ NoFault
           /\ pool' = [pool EXCEPT ![n] = Ready(TRUE)]
           /\ fail' = [fail EXCEPT ![w] = "no"]
           /\ slots' = Released(w)
           /\ tick' = [tick EXCEPT ![w] = [Idle EXCEPT !.at = "down",
                                             !.todo = Usable(w)]]
        \/ /\ enc[n] = "running" /\ lis[n] = "running" /\ Failed(1)
           /\ Go(w, "cleanup") /\ UNCHANGED <<pool, fail, slots>>
        \/ /\ ~(enc[n] = "running" /\ lis[n] = "running")
           /\ Failed(IF enc[n] \in {"broken", "none"} THEN 0 ELSE 1)
           /\ tick' = [tick EXCEPT ![w].at = "cleanup", ![w].late = TRUE]
           /\ UNCHANGED <<pool, fail, slots>>
     /\ UNCHANGED <<osc, seen, queue, ghosts, left, crashes>>

\* The catch of spawnPooledInstance: an adopted or a still starting instance is
\* kept as a pending record; what this spawn created is removed, best effort.
Cleanup(w) ==
  LET n == tick[w].name
      keep == tick[w].adopted \/ tick[w].late
      kind == IF tick[w].late THEN {"plain"} ELSE Kinds
  IN /\ tick[w].at = "cleanup"
     /\ \/ /\ keep
           /\ \E written \in BOOLEAN :
                /\ Failed(IF written THEN 0 ELSE 1)
                /\ pool' = IF written
                           THEN [pool EXCEPT ![n] = Pending(tick[w].paired)]
                           ELSE pool
           /\ UNCHANGED <<enc, lis>>
        \/ /\ ~keep /\ UNCHANGED pool
           /\ \E e, l \in BOOLEAN :
                /\ Failed((IF e THEN 0 ELSE 1) + (IF l THEN 0 ELSE 1))
                /\ enc' = IF e THEN [enc EXCEPT ![n] = "none"] ELSE enc
                /\ lis' = IF l /\ tick[w].paired /\ tick[w].ours
                          THEN [lis EXCEPT ![n] = "none"] ELSE lis
     /\ \E k \in kind : SpawnFailed(w, k)
     /\ UNCHANGED <<work, seen, queue, ghosts, left, crashes>>

-----------------------------------------------------------------------------
(* Scale-down, the orphan sweep, dispatch. *)

\* Scale-down of one usable instance that is idle past its timeout or already
\* draining.  At the floor it stays; unreachable it stays; with packaging
\* pinned to it it drains; otherwise it is destroyed, and an OSC error there
\* ends the tick.
ScaleDown(w, n) ==
  LET candidate == (pool[n].aged /\ ~Busy(n)) \/ pool[n].drain
      floor == Cardinality(Tracked(w)) <= MinInstances
  IN /\ tick[w].at = "down" /\ n \in tick[w].todo
     /\ \/ /\ ~candidate \/ floor \/ enc[n] # "running"
           /\ Done(w, n, "down")
           /\ UNCHANGED <<osc, pool, ghosts, faults>>
        \/ /\ candidate /\ ~floor /\ Failed(1) /\ Done(w, n, "down")
           /\ UNCHANGED <<osc, pool, ghosts>>
        \/ /\ candidate /\ ~floor /\ enc[n] = "running" /\ work[n] # "no"
           /\ pool' = [pool EXCEPT ![n].drain = TRUE]
           /\ Done(w, n, "down") /\ NoFault /\ UNCHANGED <<osc, ghosts>>
        \/ /\ candidate /\ ~floor /\ enc[n] = "running" /\ work[n] = "no"
           /\ \/ Destroyed(n) /\ Done(w, n, "down")
              \/ Failed(1) /\ tick' = [tick EXCEPT ![w] = Idle]
                 /\ UNCHANGED <<osc, pool, ghosts>>
     /\ UNCHANGED <<seen, queue, fail, slots, blind, left, crashes>>

\* reapOrphanedInstances, the sweep itself: owned names on OSC that no pool
\* tracks.  A first sighting only starts the clock; an unreadable list, or an
\* unreadable pool, ends the sweep.
Orphans(w) == {n \in Owned(w) : (Exists(n) \/ lis[n] # "none") /\ ~pool[n].in}
Sweep(w) ==
  /\ tick[w].at = "down" /\ tick[w].todo = {}
  /\ \/ /\ Failed(1) /\ Go(w, "dispatch") /\ UNCHANGED seen
     \/ /\ NoFault
        /\ seen' = [n \in Names |-> IF n \notin Owned(w) THEN seen[n]
                                    ELSE IF n \notin Orphans(w) THEN "no"
                                    ELSE IF seen[n] = "no" THEN "new"
                                    ELSE seen[n]]
        /\ tick' = [tick EXCEPT ![w].at = "reap",
             ![w].todo = {n \in Orphans(w) : seen[n] = "late"}]
  /\ UNCHANGED <<osc, pool, queue, fail, slots, ghosts, left, crashes>>

\* Mutant: the instance is not asked what it is doing.
ReapUnasked(w, n) ==
  /\ tick[w].at = "reap" /\ n \in tick[w].todo /\ Done(w, n, "reap")
  /\ Destroyed(n) /\ seen' = [seen EXCEPT ![n] = "no"]
  /\ UNCHANGED <<queue, fail, slots, blind, left, crashes>>
\* One orphan past the grace window.  It answers: with work it is adopted into
\* the pool, without it is destroyed.  It does not answer: it is left alone
\* only when OSC says it is running.
Reap(w, n) ==
  /\ tick[w].at = "reap" /\ n \in tick[w].todo /\ Done(w, n, "reap")
  /\ \/ /\ enc[n] = "running" /\ work[n] # "no" /\ NoFault
        /\ pool' = [pool EXCEPT ![n] = Ready(FALSE)]
        /\ seen' = [seen EXCEPT ![n] = "no"]
        /\ UNCHANGED <<osc, ghosts>>
     \/ /\ enc[n] # "running" \/ work[n] = "no"
        /\ Destroyed(n) /\ seen' = [seen EXCEPT ![n] = "no"]
     \/ /\ enc[n] = "running" /\ Failed(1)
        /\ UNCHANGED <<osc, pool, seen, ghosts>>
     \/ /\ enc[n] = "running" /\ faults + 2 <= MaxFaults
        /\ faults' = faults + 2
        /\ enc' = [enc EXCEPT ![n] = "none"]
        /\ lis' = [lis EXCEPT ![n] = "none"]
        /\ killed' = killed \cup {m \in {n} : work[m] # "no"}
        /\ work' = [work EXCEPT ![n] = "no"]
        /\ seen' = [seen EXCEPT ![n] = "no"]
        /\ UNCHANGED pool
     \/ /\ enc[n] # "running" /\ Failed(1)
        /\ UNCHANGED <<osc, pool, seen, ghosts>>
  /\ UNCHANGED <<queue, fail, slots, blind, left, crashes>>
ReapEnds(w) ==
  /\ tick[w].at = "reap" /\ tick[w].todo = {}
  /\ tick' = [tick EXCEPT ![w].at = "dispatch",
                ![w].todo = {n \in Usable(w) : ~pool[n].drain}]
  /\ UNCHANGED <<osc, valkey, slots, ghosts, left, faults, crashes>>

\* ensureCallbackTrust over probeCallbackTrust: what the gate makes of the
\* record.  A missing listener URL and a path already found unusable pass;
\* a probe that fails past the bounded wait quarantines, one that is rejected
\* falls back to the terminal sweep.
Trusts(n) ==
  LET t == pool[n].trust
  IN IF t \in {"ready", "unusable", "quarantined"} \/ ~pool[n].url
     THEN {[trust |-> t, cost |-> 0]}
     ELSE {[trust |-> "ready", cost |-> 0],
           [trust |-> IF t = "late" THEN "unusable" ELSE "probing",
            cost |-> 1],
           [trust |-> IF t = "late" THEN "quarantined" ELSE "probing",
            cost |-> 1]}
Eligible(n, t) == t \in {"ready", "unusable"} \/ ~pool[n].url

\* Dispatch to one instance; a failed POST puts the job back.
Dispatch(w, n) ==
  /\ tick[w].at = "dispatch" /\ n \in tick[w].todo /\ Done(w, n, "dispatch")
  /\ \E t \in Trusts(n), posted \in BOOLEAN :
       LET sends == Eligible(n, t.trust) /\ ~Busy(n) /\ queue[w] > 0
           gone == posted /\ sends /\ enc[n] = "running"
       IN /\ Failed(t.cost + IF sends /\ ~posted THEN 1 ELSE 0)
          /\ pool' = [pool EXCEPT ![n].trust = t.trust,
                        ![n].aged = IF gone THEN FALSE ELSE @]
          /\ queue' = IF gone THEN [queue EXCEPT ![w] = @ - 1] ELSE queue
          /\ work' = IF gone THEN [work EXCEPT ![n] = "encode"] ELSE work
          /\ blind' = IF gone /\ ~pool[n].url THEN blind \cup {n} ELSE blind
  /\ UNCHANGED <<enc, lis, seen, fail, slots, killed, left, crashes>>
TickEnds(w) ==
  /\ tick[w].at = "dispatch" /\ tick[w].todo = {}
  /\ tick' = [tick EXCEPT ![w] = Idle]
  /\ UNCHANGED <<osc, valkey, slots, ghosts, left, faults, crashes>>

-----------------------------------------------------------------------------
(* Submissions, restarts, and what is outside the process. *)

\* A submit queues the job and starts the workspace's loop when it is off.
Submit(w) ==
  /\ left[w] > 0 /\ left' = [left EXCEPT ![w] = @ - 1]
  /\ queue' = [queue EXCEPT ![w] = @ + 1]
  /\ tick' = IF tick[w].at = "off" THEN [tick EXCEPT ![w] = Idle] ELSE tick
  /\ UNCHANGED <<osc, pool, seen, fail, slots, ghosts, faults, crashes>>

\* The process stops anywhere and starts again: locals and slots are lost.
Restart ==
  /\ crashes < MaxCrashes /\ crashes' = crashes + 1
  /\ slots' = 0
  /\ tick' = [w \in Workspaces |-> [Idle EXCEPT !.at = "boot"]]
  /\ UNCHANGED <<osc, valkey, ghosts, left, faults>>

\* reconcilePoolFromOsc: every owned instance on OSC becomes a record, without
\* its listener's URL and whatever its health.
AdoptedFromOsc(w) ==
  [n \in Names |-> IF n \in Owned(w) /\ Exists(n) THEN Ready(FALSE) ELSE pool[n]]

\* resumeExistingWorkspaces: a loop for every workspace with a pool or a queue;
\* with a queue and no pool, reconcilePoolFromOsc adopts what OSC lists.
Resume(w) ==
  /\ tick[w].at = "boot"
  /\ Go(w, IF Tracked(w) = {} /\ queue[w] = 0 THEN "off" ELSE "idle")
  /\ \/ /\ Tracked(w) = {} /\ queue[w] > 0 /\ NoFault
        /\ pool' = AdoptedFromOsc(w)
     \/ /\ Tracked(w) # {} \/ queue[w] = 0
        /\ NoFault /\ UNCHANGED pool
     \/ Tracked(w) = {} /\ queue[w] > 0 /\ Failed(1) /\ UNCHANGED pool
  /\ UNCHANGED <<osc, seen, queue, fail, slots, ghosts, left, crashes>>

\* Valkey loses a workspace's pool, queue and sightings.
Wipe(w) ==
  /\ crashes < MaxCrashes /\ crashes' = crashes + 1
  /\ pool' = [n \in Names |-> IF n \in Owned(w) THEN Gone ELSE pool[n]]
  /\ seen' = [n \in Names |-> IF n \in Owned(w) THEN "no" ELSE seen[n]]
  /\ queue' = [queue EXCEPT ![w] = 0] /\ fail' = [fail EXCEPT ![w] = "no"]
  /\ UNCHANGED <<osc, process, ghosts, left, faults>>

\* OSC: a timed-out create goes through or not, instances come up or vanish.
Lands(n) ==
  /\ enc[n] = "landing"
  /\ \E e \in {"starting", "none"} : enc' = [enc EXCEPT ![n] = e]
  /\ UNCHANGED <<lis, work, valkey, process, ghosts, left, faults, crashes>>
ComesUp(n) ==
  /\ \/ enc[n] = "starting" /\ enc' = [enc EXCEPT ![n] = "running"]
        /\ UNCHANGED lis
     \/ lis[n] = "starting" /\ lis' = [lis EXCEPT ![n] = "running"]
        /\ UNCHANGED enc
  /\ UNCHANGED <<work, valkey, process, ghosts, left, faults, crashes>>
Vanishes(n) ==
  /\ Exists(n) /\ Failed(1) /\ work[n] = "no"
  /\ enc' = [enc EXCEPT ![n] = "none"]
  /\ UNCHANGED <<lis, work, valkey, process, ghosts, left, crashes>>
\* An encode ends and leaves its output pinned until it is packaged.
WorkEnds(n) ==
  /\ work[n] # "no"
  /\ work' = [work EXCEPT ![n] = IF @ = "encode" THEN "package" ELSE "no"]
  /\ UNCHANGED <<enc, lis, valkey, process, ghosts, left, faults, crashes>>

\* Time: deadlines pass.  An instance only ages while it is offered no job.
Late(n) ==
  /\ \/ pool[n].pend = "new" /\ pool' = [pool EXCEPT ![n].pend = "late"]
        /\ UNCHANGED seen
     \/ pool[n].block = "wait" /\ pool' = [pool EXCEPT ![n].block = "no"]
        /\ UNCHANGED seen
     \/ pool[n].trust = "probing" /\ pool' = [pool EXCEPT ![n].trust = "late"]
        /\ UNCHANGED seen
     \/ seen[n] = "new" /\ seen' = [seen EXCEPT ![n] = "late"]
        /\ UNCHANGED pool
     \/ /\ pool[n].in /\ pool[n].pend = "no" /\ ~pool[n].aged /\ ~Busy(n)
        /\ queue[n[1]] = 0 \/ pool[n].trust = "quarantined"
           \/ enc[n] # "running" \/ pool[n].drain
        /\ pool' = [pool EXCEPT ![n].aged = TRUE] /\ UNCHANGED seen
  /\ UNCHANGED <<osc, queue, fail, process, ghosts, left, faults, crashes>>
HoldOffEnds(w) ==
  /\ fail[w] = "held" /\ fail' = [fail EXCEPT ![w] = "plain"]
  /\ UNCHANGED <<osc, pool, seen, queue, process, ghosts, left, faults,
                 crashes>>

Tick(w) ==
  \/ Resume(w) \/ TickStart(w) \/ Teardown(w) \/ Gate(w) \/ Create(w)
  \/ ProbeTimedOut(w) \/ CreateListener(w) \/ AwaitReady(w) \/ Cleanup(w)
  \/ Sweep(w) \/ ReapEnds(w) \/ TickEnds(w)
  \/ \E n \in Owned(w) : \/ ResolvePending(w, n) \/ ScaleDown(w, n)
                         \/ Reap(w, n) \/ Dispatch(w, n)
Outside(n) == Lands(n) \/ ComesUp(n) \/ WorkEnds(n) \/ Late(n)
Next ==
  \/ \E w \in Workspaces : Tick(w) \/ Submit(w) \/ HoldOffEnds(w) \/ Wipe(w)
  \/ \E n \in Names : Outside(n) \/ Vanishes(n)
  \/ Restart

Spec == Init /\ [][Next]_vars

-----------------------------------------------------------------------------
(* Properties. *)

\* At most SlotLimit workspaces have a create in flight at OSC at any moment,
\* over every path a spawn can end on and the early release (#1322).
CreatesBounded ==
  Cardinality({w \in Workspaces : tick[w].at \in {"create", "probe",
                                                  "listener"}}) <= SlotLimit

\* No sweep, resolver, clean-up or scale-down ever removes an instance that is
\* encoding or whose output waits for packaging, also after the pool was lost.
WorkSpared == killed = {}

\* A pool record that names a listener and is not pending was written when both
\* halves were up: dispatch never meets an instance whose listener is not.
PromotedWhole ==
  \A n \in Names : pool[n].in /\ pool[n].pend = "no" /\ pool[n].url /\ Exists(n)
                   => lis[n] # "starting"

\* Nothing bills unseen: an instance or a listener on OSC without a record ends
\* up tracked or removed, while its workspace's loop runs.
Leaking == \E w \in Workspaces : tick[w].at # "off" /\ Orphans(w) # {}

\* A waiting job does not wait for ever: the queue of a workspace drains.
JobsWaiting == \E w \in Workspaces : queue[w] > 0

=============================================================================
