----------------------------- MODULE ScalerTick -----------------------------
(***************************************************************************)
(* The state the encode path shares, and the helpers every part of it      *)
(* calls: the per-workspace Valkey keys of src/src/encore-scaler/types.ts, *)
(* the job record in CouchDB, the Encore instances with the encodes they   *)
(* run (external), and the local variables of the three processes that     *)
(* act on them: the scaler tick, the callback poller and the operator's    *)
(* cancel request.                                                         *)
(*                                                                         *)
(* Then one tick of the scaler loop (scaler-loop.ts) and the hooks main.ts *)
(* wires into it.  A tick runs alone, but every await in it lets the       *)
(* poller and the API handlers run: each action is the work between two of *)
(* those points, and tick holds what the code keeps in local variables     *)
(* meanwhile.  One workspace; EncodeScaler adds the poller's actions, the  *)
(* requests' and the world's.                                              *)
(***************************************************************************)
EXTENDS Naturals, FiniteSets

CONSTANTS
  Jobs,         \* externalIds submitted to this workspace
  Instances,    \* names the pool may give an Encore instance
  None,         \* the absent job or instance
  MaxAttempts,  \* MAX_ENCODE_ATTEMPTS
  MinInstances, \* config.minInstances, the warm floor
  QueueCap,     \* config.maxQueuedJobs
  Cancellable,  \* jobs an operator may cancel
  MaxRuns,      \* bound: encodes ever started on Encore
  MaxEntries,   \* bound: queue tickets in use at once
  MaxFaults,    \* bound: failed calls to Encore or Valkey
  MaxCrashes    \* bound: restarts of the API process

ASSUME ConstantsAssumption ==
  /\ None \notin Jobs /\ None \notin Instances /\ Cancellable \subseteq Jobs
  /\ IsFiniteSet(Jobs) /\ IsFiniteSet(Instances)
  /\ MaxAttempts \in Nat \ {0}
  /\ MinInstances \in Nat /\ QueueCap \in Nat
  /\ MaxRuns \in Nat /\ MaxEntries \in Nat
  /\ MaxFaults \in Nat /\ MaxCrashes \in Nat

\* An Encore instance takes one job at a time.
JobsPerInstance == 1

VARIABLES
  queue,      \* encore:queue, entries ordered by their ticket
  inflight,   \* encore:inflight
  kv,         \* the per-job Valkey keys
  pool,       \* encore:pool, one record per instance
  record,     \* the durable job record
  alive,      \* instances that exist on OSC
  runs,       \* encodes Encore has accepted
  msgs,       \* the callback queue, by the run a message names
  tick,       \* locals of the scaler tick
  poller,     \* locals of the callback poller
  canceller,  \* locals of the cancel request in progress
  hist,       \* history: re-dispatches of each job by cause, encoded or not
  killed,     \* history: wanted encodes that a teardown stopped
  mislaid,    \* history: jobs a failed call kept from being put back
  faults,     \* failed calls so far
  crashes     \* restarts so far

valkey == <<queue, inflight, kv, pool>>
encore == <<alive, runs, msgs>>
ghosts == <<hist, killed, mislaid>>
vars == <<queue, inflight, kv, pool, record, alive, runs, msgs, tick, poller,
          canceller, hist, killed, mislaid, faults, crashes>>

-----------------------------------------------------------------------------
Runs == 1 .. MaxRuns
RunRef == 0 .. MaxRuns                        \* 0: no URL recorded
InstOrNone == Instances \cup {None}
JobOrNone == Jobs \cup {None}

\* QueuedJob: `at` is the entry's place in the list, `due` says its notBefore
\* has passed.
Entry == [job : Jobs, attempts : Nat, due : BOOLEAN, at : Nat]

\* jobStatus, jobInstance, jobEncoreUrl (with jobUuid), jobTerminalInstance,
\* jobAttempts (0: absent), jobPayload, jobCancelRequested,
\* partialVisibilityDropPasses and the job's member of pendingPackaging.  A
\* cancel marker is "ripe" once CANCEL_RECLAIM_GRACE_MS has passed.
JobKeys == [status : {"none", "QUEUED", "RUNNING", "SUCCESSFUL", "FAILED",
                      "CANCELLED"},
            inst : InstOrNone, url : RunRef, term : InstOrNone,
            attempts : Nat, payload : BOOLEAN,
            cancelReq : {"no", "fresh", "ripe"}, passes : 0 .. 1,
            pin : InstOrNone]
NoKeys == [status |-> "none", inst |-> None, url |-> 0, term |-> None,
           attempts |-> 0, payload |-> FALSE, cancelReq |-> "no",
           passes |-> 0, pin |-> None]

\* EncoreInstanceRecord; `in` is false when the pool holds no record, `aged`
\* says that lastIdleAt is older than idleTimeoutMs.
PoolRecord == [in : BOOLEAN, active : Nat, draining : BOOLEAN,
               cancelDrain : BOOLEAN, aged : BOOLEAN]
Gone == [in |-> FALSE, active |-> 0, draining |-> FALSE,
         cancelDrain |-> FALSE, aged |-> FALSE]
Fresh == [Gone EXCEPT !.in = TRUE]

JobStatus == {"none", "queued", "running", "done", "failed", "cancelled"}
JobRecord == [st : JobStatus, dropped : BOOLEAN]

\* An encode on Encore.  "transport" and "fatal" are FAILED with a retryable
\* and with a deterministic message; "gone": its instance was destroyed.
Finished == {"ok", "transport", "fatal", "cancelled"}
Run == [st : {"free", "active", "gone"} \cup Finished, job : JobOrNone,
        inst : InstOrNone, called : BOOLEAN, known : BOOLEAN]
FreeRun == [st |-> "free", job |-> None, inst |-> None, called |-> FALSE,
            known |-> FALSE]

\* What a probe of one instance returned.
Probe == [ok : BOOLEAN, jobs : SUBSET Jobs, count : Nat]
NoAnswer == [ok |-> FALSE, jobs |-> {}, count |-> 0]

-----------------------------------------------------------------------------
(* The job record. *)

\* ALLOWED_JOB_TRANSITIONS.
AllowedNext(from) ==
  CASE from = "queued"  -> {"running", "failed", "cancelled"}
    [] from = "running" -> {"done", "failed", "running", "cancelled"}
    [] from = "failed"  -> {"done", "running"}
    [] OTHER            -> {}

\* Mutant: the repository accepts every status.
AnyTransition(from, to) == TRUE

IsValidJobTransition(from, to) == from = to \/ to \in AllowedNext(from)

IsTerminal(j) == record[j].st \in {"done", "failed", "cancelled"}

-----------------------------------------------------------------------------
(* The queue. *)

\* The entry RPOP takes.
AtHead(e) == \A f \in queue : e.at <= f.at

\* LPUSH places an entry behind every live one.
FreshTicket(t) ==
  LET live == queue \cup inflight \cup tick.claim
  IN  /\ \A e \in live : e.at < t
      /\ t = 1 \/ \E e \in live : e.at = t - 1

Push(j, n, due) ==
  \E t \in 1 .. MaxEntries :
    /\ FreshTicket(t)
    /\ queue' = queue \cup {[job |-> j, attempts |-> n, due |-> due, at |-> t]}

-----------------------------------------------------------------------------
(* Encore, as the scaler calls it (external). *)

ActiveRuns(i) == {r \in Runs : runs[r].st = "active" /\ runs[r].inst = i}

\* POST /encoreJobs/{uuid}/cancel.  404 and 409 are no-ops, and a frozen
\* encode answers 200 and stays active; so does one the call never reached.
CancelRun(r) ==
  \/ UNCHANGED runs
  \/ /\ r # 0 /\ runs[r].st = "active"
     /\ runs' = [runs EXCEPT ![r].st = "cancelled"]

\* The bound on encodes, met at the dispatch.
RunsLeft == \E r \in Runs : runs[r].st = "free"

\* Encore accepts a job and starts it.
StartRun(j, i) ==
  \E r \in Runs :
    /\ runs[r].st = "free" /\ \A q \in Runs : q < r => runs[q].st # "free"
    /\ runs' = [runs EXCEPT ![r] = [st |-> "active", job |-> j, inst |-> i,
                                    called |-> FALSE, known |-> FALSE]]
    /\ tick' = [tick EXCEPT !.pc = "record", !.run = r]

\* fetchRealActiveState of an instance that answers.
ProbeOf(i) == [ok |-> TRUE, jobs |-> {runs[r].job : r \in ActiveRuns(i)},
               count |-> Cardinality(ActiveRuns(i))]

\* destroyInstance: the instance goes, with every job document it held.
Destroyed(i) ==
  [r \in Runs |-> IF runs[r].inst = i
                    THEN [runs[r] EXCEPT !.st = "gone", !.called = FALSE]
                    ELSE runs[r]]

-----------------------------------------------------------------------------
(* retry-store.ts. *)

\* hasQueuedOrInflightEntry.
HasQueuedOrInflightEntry(j) == \E e \in queue \cup inflight : e.job = j

\* decideRetry falls back to attempt 1 when the key is missing.
AttemptsSoFar(j) == IF kv[j].attempts = 0 THEN 1 ELSE kv[j].attempts

\* decideRetry up to its first write.
RetryDecision(j, retryable) ==
  IF ~retryable \/ AttemptsSoFar(j) >= MaxAttempts \/ ~kv[j].payload
    THEN "settle"
    ELSE IF HasQueuedOrInflightEntry(j) THEN "skip" ELSE "retry"

\* completeTranscode with success = false: a terminal record is left alone.
SettleFailed(j, drop) ==
  record' = IF IsTerminal(j) THEN record
            ELSE [record EXCEPT ![j] = [st |-> "failed", dropped |-> drop]]

\* The keys a re-dispatch invalidates.
Requeued(k) == [k EXCEPT !.status = "RUNNING", !.inst = None, !.url = 0,
                         !.term = None]

\* Mutant: the retry counts itself, as the dispatch will again.
RetryRequeueCounted(j, n) ==
  /\ CancelRun(kv[j].url)
  /\ kv' = [kv EXCEPT ![j] = Requeued(@)]
  /\ Push(j, n + 1, FALSE)
  /\ hist' = [hist EXCEPT ![j].retries = @ + 1]

\* decideRetry from the prior attempt's cancel on: n is the attempt count it
\* read before.
RetryRequeue(j, n) ==
  /\ CancelRun(kv[j].url)
  /\ kv' = [kv EXCEPT ![j] = Requeued(@)]
  /\ Push(j, n, FALSE)
  /\ hist' = [hist EXCEPT ![j].retries = @ + 1]

\* decideRetry throws on its way to the LPUSH: the keys are gone, the entry
\* was never queued.
RequeueFails(j) ==
  /\ faults < MaxFaults /\ faults' = faults + 1
  /\ CancelRun(kv[j].url)

\* clearRetryState.
Cleared(k) == [k EXCEPT !.payload = FALSE, !.attempts = 0]

-----------------------------------------------------------------------------
(* cancel-target.ts and cancelled-job-reclaim.ts. *)

\* resolveJobInstanceId.
JobInstanceId(j) == IF kv[j].term # None THEN kv[j].term ELSE kv[j].inst

\* The pool as recordOperatorCancel leaves it: the job's instance drains.
CancelDrained(j) ==
  LET i == JobInstanceId(j)
  IN  IF i = None THEN pool
      ELSE IF ~pool[i].in \/ pool[i].draining THEN pool
      ELSE [pool EXCEPT ![i].draining = TRUE, ![i].cancelDrain = TRUE]

\* Local status and drain marker of a cancel that resolved the URL u.
CancelKeys(j, u) ==
  [kv EXCEPT ![j].status = "CANCELLED",
             ![j].cancelReq = IF u = 0 THEN @ ELSE "fresh"]

-----------------------------------------------------------------------------
(* The locals each process keeps across its awaits. *)

TickLocals ==
  [pc : {"idle", "reconcile", "interrupt", "drops", "requeue", "sweep",
         "spawn", "scaleDown", "act", "dispatch", "post", "record",
         "dispatched", "count", "refused", "giveBack"},
   back : {"reconcile", "act"},
   todo : SUBSET Instances,
   snap : [Instances -> PoolRecord], real : [Instances -> Probe],
   drops : SUBSET [job : Jobs, retryable : BOOLEAN],
   onto : SUBSET Instances, stuck : SUBSET Instances,
   lost : SUBSET Jobs,
   cur : InstOrNone, job : JobOrNone, n : Nat,
   claim : SUBSET Entry, run : RunRef]

PollerLocals ==
  [pc : {"idle", "handle", "requeue", "write", "count"},
   run : RunRef, job : JobOrNone, seen : JobStatus,
   success : BOOLEAN, retryable : BOOLEAN, term : InstOrNone,
   n : Nat, inst : InstOrNone, rec : PoolRecord, applied : BOOLEAN]

CancellerLocals ==
  [pc : {"idle", "mark", "save", "fail"}, job : JobOrNone, url : RunRef]

JobHistory == [retries : Nat, interrupts : Nat, encoded : BOOLEAN]

\* Every key, record and local of the encode path keeps its shape: no count
\* goes below zero (decrementActiveJobs), no key names an unknown instance.
TypeOK ==
  /\ queue \subseteq Entry /\ inflight \subseteq Entry
  /\ kv \in [Jobs -> JobKeys]
  /\ pool \in [Instances -> PoolRecord]
  /\ record \in [Jobs -> JobRecord]
  /\ alive \subseteq Instances
  /\ runs \in [Runs -> Run]
  /\ msgs \subseteq Runs
  /\ tick \in TickLocals
  /\ poller \in PollerLocals
  /\ canceller \in CancellerLocals
  /\ hist \in [Jobs -> JobHistory]
  /\ killed \subseteq Runs /\ mislaid \subseteq Jobs
  /\ faults \in Nat /\ crashes \in Nat

-----------------------------------------------------------------------------
(* The tick.                                                               *)

IdleTick ==
  [pc |-> "idle", back |-> "reconcile", todo |-> {},
   snap |-> [i \in Instances |-> Gone],
   real |-> [i \in Instances |-> NoAnswer],
   drops |-> {}, onto |-> {}, lost |-> {}, stuck |-> {}, cur |-> None,
   job |-> None, n |-> 0, claim |-> {}, run |-> 0]

InPool(p) == {i \in Instances : p[i].in}

\* Instances that dispatch may hand a job to.
Dispatchable(p) == {i \in InPool(p) : ~p[i].draining
                                      /\ p[i].active < JobsPerInstance}

\* The phase a tick is in once a phase has nothing left to do.
Onward(t) ==
  CASE t.pc = "reconcile" /\ t.todo = {} /\ t.onto = {} ->
         [IdleTick EXCEPT !.pc = IF t.drops = {} THEN "sweep" ELSE "drops",
                          !.drops = t.drops]
    [] t.pc = "drops" /\ t.drops = {} -> [IdleTick EXCEPT !.pc = "sweep"]
    [] t.pc = "scaleDown" /\ t.todo = {} ->
         IF Dispatchable(t.snap) = {} THEN IdleTick
         ELSE [IdleTick EXCEPT !.pc = "dispatch", !.snap = t.snap,
                               !.todo = Dispatchable(t.snap)]
    [] t.pc = "dispatch" /\ t.todo = {} -> IdleTick
    [] OTHER -> t

-----------------------------------------------------------------------------
(* Jobs lost with an instance: requeueScaleDownInterruptions. *)

LiveStatus == {"RUNNING", "QUEUED"}

\* Mutant: jobs the instance still runs are taken for lost.
LostWithActive(i, activeIds) ==
  {j \in Jobs : kv[j].inst = i /\ kv[j].status \in LiveStatus}

LostWith(i, activeIds) ==
  {j \in Jobs : /\ kv[j].inst = i
                /\ j \notin activeIds
                /\ kv[j].status \in LiveStatus}

\* Where the tick goes on once its lost jobs are dealt with.
Resume(t) == IF t.lost = {} THEN Onward([t EXCEPT !.pc = t.back])
             ELSE [t EXCEPT !.pc = "interrupt"]

\* requeueInterruptedByScaleDown.
InterruptRequeue(j) ==
  /\ tick.pc = "interrupt" /\ j \in tick.lost /\ kv[j].payload
  /\ CancelRun(kv[j].url)
  /\ kv' = [kv EXCEPT ![j] = Requeued(@)]
  /\ Push(j, kv[j].attempts, TRUE)
  /\ hist' = [hist EXCEPT ![j].interrupts = @ + 1]
  /\ tick' = Resume([tick EXCEPT !.lost = @ \ {j}])
  /\ UNCHANGED <<inflight, pool, record, alive, msgs, poller, canceller,
                 killed, mislaid, faults, crashes>>

\* resolveUnrequeueableScaleDownLoss and the settle its hook makes.
InterruptLost(j) ==
  /\ tick.pc = "interrupt" /\ j \in tick.lost /\ ~kv[j].payload
  /\ tick' = Resume([tick EXCEPT !.lost = @ \ {j}])
  /\ IF kv[j].status \in {"CANCELLED", "FAILED", "SUCCESSFUL"}
       THEN UNCHANGED <<kv, record>>
       ELSE /\ SettleFailed(j, TRUE)
            /\ kv' = [kv EXCEPT ![j] = Cleared([@ EXCEPT !.status = "FAILED",
                                                         !.inst = None])]
  /\ UNCHANGED <<queue, inflight, pool, encore, poller, canceller, ghosts,
                 faults, crashes>>

\* A read, the prior attempt's cancel, a write or the LPUSH throws on the way:
\* requeueScaleDownInterruptions logs it and gives up this job and those it had
\* not come to yet.
InterruptFails(j) ==
  /\ tick.pc = "interrupt" /\ j \in tick.lost
  /\ faults < MaxFaults /\ faults' = faults + 1
  /\ \/ UNCHANGED <<kv, runs>>
     \/ /\ kv[j].payload
        /\ CancelRun(kv[j].url)
        /\ kv' = [kv EXCEPT ![j] = Requeued(@)]
  /\ mislaid' = mislaid \cup tick.lost
  /\ tick' = Resume([tick EXCEPT !.lost = {}])
  /\ UNCHANGED <<queue, inflight, pool, record, alive, msgs, poller, canceller,
                 hist, killed, crashes>>

\* The status of a job without payload is not written, or its hook does not
\* settle the record.
LostFails(j) ==
  /\ tick.pc = "interrupt" /\ j \in tick.lost /\ ~kv[j].payload
  /\ faults < MaxFaults /\ faults' = faults + 1
  /\ \/ mislaid' = mislaid \cup {j} /\ UNCHANGED kv
     \/ /\ kv[j].status \notin {"CANCELLED", "FAILED", "SUCCESSFUL"}
        /\ kv' = [kv EXCEPT ![j] = [@ EXCEPT !.status = "FAILED", !.inst = None]]
        /\ UNCHANGED mislaid
  /\ tick' = Resume([tick EXCEPT !.lost = @ \ {j}])
  /\ UNCHANGED <<queue, inflight, pool, record, encore, poller, canceller,
                 hist, killed, crashes>>

-----------------------------------------------------------------------------
(* reconcile() *)

\* Every instance of the pool is probed; some that are up may not answer.
TickStart ==
  /\ tick.pc = "idle"
  /\ \E silent \in SUBSET (InPool(pool) \cap alive) :
       /\ faults + Cardinality(silent) <= MaxFaults
       /\ faults' = faults + Cardinality(silent)
       /\ tick' = Onward([IdleTick EXCEPT
            !.pc = "reconcile", !.todo = InPool(pool), !.snap = pool,
            !.real = [i \in Instances |->
                        IF i \in (InPool(pool) \cap alive) \ silent
                          THEN ProbeOf(i) ELSE NoAnswer]])
  /\ UNCHANGED <<valkey, record, encore, poller, canceller, ghosts, crashes>>

\* Mutant: the record goes, its jobs are forgotten.
EvictOnly(i) ==
  /\ tick.pc = "reconcile" /\ i \in tick.todo
  /\ ~tick.real[i].ok /\ i \notin alive
  /\ pool' = [pool EXCEPT ![i] = Gone]
  /\ tick' = Onward([tick EXCEPT !.todo = @ \ {i}, !.snap[i] = Gone])
  /\ UNCHANGED <<queue, inflight, kv, record, encore, poller, canceller,
                 ghosts, faults, crashes>>

\* evictVanishedInstances: unreachable, and no longer listed by OSC.
EvictVanished(i) ==
  /\ tick.pc = "reconcile" /\ i \in tick.todo
  /\ ~tick.real[i].ok /\ i \notin alive
  /\ pool' = [pool EXCEPT ![i] = Gone]
  /\ tick' = Resume([tick EXCEPT !.todo = @ \ {i}, !.snap[i] = Gone,
                                 !.lost = LostWith(i, {}),
                                 !.back = "reconcile"])
  /\ UNCHANGED <<queue, inflight, kv, record, encore, poller, canceller,
                 ghosts, faults, crashes>>

Evictable == {i \in tick.todo : ~tick.real[i].ok /\ i \notin alive}

\* Jobs mapped to i that Encore does not list there.
Missing(i) == LostWith(i, tick.real[i].jobs)

\* Mutant: only the mapped instance is asked.
ActiveNowhere(j) == {}

\* instancesActiveFor.
ActiveElsewhere(j) ==
  {k \in Instances : tick.real[k].ok /\ j \in tick.real[k].jobs}

\* keys.jobCompletionSeen is set while the poller frees the job's slot.
CompletionSeen(j) ==
  poller.job = j /\ poller.applied /\ poller.pc = "count"

PoolVisibilityIsPartial ==
  \E k \in Instances : tick.snap[k].in /\ ~tick.real[k].ok

Suspects(i) == {j \in Missing(i) : ActiveElsewhere(j) = {}
                                   /\ ~CompletionSeen(j)}

\* admitPartialVisibilityDrop: a drop needs two passes while part of the pool
\* is out of sight.
WithheldDrops(i) ==
  {j \in Suspects(i) : PoolVisibilityIsPartial /\ kv[j].passes = 0}

Drops(i) == Suspects(i) \ WithheldDrops(i)

\* fetchDroppedFailureReasons: Encore's text for the job's failed encode.
DropIsRetryable(j, i) ==
  LET failed == {r \in Runs : /\ runs[r].job = j /\ runs[r].inst = i
                              /\ runs[r].st \in {"transport", "fatal"}}
  IN  \E r \in failed : /\ \A q \in failed : q <= r
                        /\ runs[r].st = "transport"

\* The job keys after the drop classification of instance i.
Classified(i) ==
  [j \in Jobs |->
     IF j \in Drops(i)
       THEN [kv[j] EXCEPT !.status = "FAILED", !.passes = 0]
     ELSE IF j \in WithheldDrops(i) THEN [kv[j] EXCEPT !.passes = 1]
     ELSE IF j \in Missing(i) /\ Cardinality(ActiveElsewhere(j)) = 1
       THEN [kv[j] EXCEPT !.passes = 0,
                          !.inst = CHOOSE k \in ActiveElsewhere(j) : TRUE]
     ELSE IF /\ kv[j].inst = i /\ kv[j].status \in LiveStatus
             /\ \/ j \in tick.real[i].jobs
                \/ ActiveElsewhere(j) # {}
       THEN [kv[j] EXCEPT !.passes = 0]
     ELSE kv[j]]

\* The instances a repaired mapping points to.
RepairedOnto(i) ==
  {k \in Instances : \E j \in Missing(i) : ActiveElsewhere(j) = {k}}

\* One instance of the pass: classify what it lost, correct its count.
ReconcileInstance(i) ==
  /\ tick.pc = "reconcile" /\ Evictable = {} /\ i \in tick.todo
  /\ LET rec == tick.snap[i]
         real == tick.real[i]
         off == rec.active # 0 /\ real.ok /\ rec.active # real.count
         fewer == off /\ real.count < rec.active
     IN  /\ kv' = IF fewer THEN Classified(i) ELSE kv
         /\ pool' = IF off /\ ~(fewer /\ WithheldDrops(i) # {})
                      THEN [pool EXCEPT ![i] = [rec EXCEPT
                                                  !.active = real.count]]
                      ELSE pool
         /\ tick' = Onward([tick EXCEPT
              !.todo = @ \ {i},
              !.snap[i] = IF off /\ ~(fewer /\ WithheldDrops(i) # {})
                            THEN [@ EXCEPT !.active = real.count] ELSE @,
              !.onto = IF fewer THEN @ \cup RepairedOnto(i) ELSE @,
              !.drops = IF fewer
                          THEN @ \cup {[job |-> j,
                                        retryable |-> DropIsRetryable(j, i)] :
                                       j \in Drops(i)}
                          ELSE @])
  /\ UNCHANGED <<queue, inflight, record, encore, poller, canceller, ghosts,
                 faults, crashes>>

\* The counts of the instances a mapping was repaired onto.
ReconcileEnd ==
  /\ tick.pc = "reconcile" /\ tick.todo = {} /\ tick.onto # {}
  /\ pool' = [i \in Instances |->
                IF /\ i \in tick.onto /\ tick.snap[i].in
                   /\ tick.snap[i].active # tick.real[i].count
                  THEN [tick.snap[i] EXCEPT !.active = tick.real[i].count]
                  ELSE pool[i]]
  /\ tick' = Onward([tick EXCEPT !.onto = {}])
  /\ UNCHANGED <<queue, inflight, kv, record, encore, poller, canceller,
                 ghosts, faults, crashes>>

-----------------------------------------------------------------------------
(* onJobsDropped: settleOrRetryEncoreJobDrops in main.ts *)

SettleDrop(d) ==
  /\ tick.pc = "drops" /\ d \in tick.drops
  /\ LET verdict == IF IsTerminal(d.job) THEN "settle"
                    ELSE RetryDecision(d.job, d.retryable)
     IN  /\ tick' = IF verdict = "retry"
                      THEN [tick EXCEPT !.pc = "requeue", !.job = d.job,
                                        !.n = AttemptsSoFar(d.job),
                                        !.drops = @ \ {d}]
                      ELSE Onward([tick EXCEPT !.drops = @ \ {d}])
         /\ IF verdict = "settle"
              THEN /\ SettleFailed(d.job, TRUE)
                   /\ kv' = [kv EXCEPT ![d.job] = Cleared(@)]
              ELSE UNCHANGED <<record, kv>>
  /\ UNCHANGED <<queue, inflight, pool, encore, poller, canceller, ghosts,
                 faults, crashes>>

DropRequeued == Onward([tick EXCEPT !.pc = "drops", !.job = None, !.n = 0])

DropRequeue ==
  /\ tick.pc = "requeue"
  /\ RetryRequeue(tick.job, tick.n)
  /\ tick' = DropRequeued
  /\ UNCHANGED <<inflight, pool, record, alive, msgs, poller, canceller,
                 killed, mislaid, faults, crashes>>

\* The retry gate threw: the drop is settled.
DropRequeueFails ==
  /\ tick.pc = "requeue"
  /\ RequeueFails(tick.job)
  /\ kv' = [kv EXCEPT ![tick.job] = Cleared(Requeued(@))]
  /\ SettleFailed(tick.job, TRUE)
  /\ tick' = DropRequeued
  /\ UNCHANGED <<queue, inflight, pool, alive, msgs, poller, canceller,
                 ghosts, crashes>>

-----------------------------------------------------------------------------
(* reconcileFailedTranscodes *)

\* The record is live but the scaler's status says the job ended.
NeedsFailing(j) == /\ record[j].st \in {"queued", "running"}
                   /\ kv[j].status \in {"FAILED", "CANCELLED"}

\* settleFailedTranscode with reason 'encore-error', which also cancels.
SweepFailed(j) ==
  /\ tick.pc = "sweep" /\ NeedsFailing(j)
  /\ SettleFailed(j, FALSE)
  /\ queue' = {e \in queue : e.job # j}
  /\ CancelRun(kv[j].url)
  /\ kv' = CancelKeys(j, kv[j].url)
  /\ pool' = IF kv[j].url = 0 THEN pool ELSE CancelDrained(j)
  /\ UNCHANGED <<inflight, alive, msgs, tick, poller, canceller, ghosts,
                 faults, crashes>>

-----------------------------------------------------------------------------
(* Scale up. *)

WantsInstance ==
  \/ Cardinality(InPool(pool)) < MinInstances
  \/ /\ queue # {}
     /\ \A i \in InPool(pool) : pool[i].active >= JobsPerInstance

\* A spawn draws a name nobody refers to.
Unused == {i \in Instances : /\ i \notin alive /\ ~pool[i].in
                             /\ poller.inst # i /\ poller.term # i
                             /\ \A j \in Jobs : kv[j].inst # i
                                                /\ kv[j].term # i
                                                /\ kv[j].pin # i}

IdleAndAged(p) == p.active = 0 /\ p.aged

\* instancesHoldingStuckCancelledJobs.
StuckCancelledHosts ==
  {i \in Instances : \E j \in Jobs : /\ kv[j].inst = i
                                     /\ kv[j].status = "CANCELLED"
                                     /\ kv[j].cancelReq = "ripe"}

\* The pool p, as listed for scaling down and dispatch: the instances the
\* teardown loop does not pass over.
EnterScaleDown(p) ==
  Onward([IdleTick EXCEPT
            !.pc = "scaleDown", !.snap = p, !.stuck = StuckCancelledHosts,
            !.todo = {i \in InPool(p) : \/ IdleAndAged(p[i])
                                        \/ p[i].draining
                                        \/ i \in StuckCancelledHosts}])

SweepDone == tick.pc = "sweep" /\ \A j \in Jobs : ~NeedsFailing(j)

\* The pool is listed once.  Nothing is spawned when it is large enough or the
\* spawn is held back.
NoScaleUp ==
  /\ SweepDone
  /\ \/ ~WantsInstance /\ UNCHANGED faults
     \/ faults < MaxFaults /\ faults' = faults + 1
  /\ tick' = EnterScaleDown(pool)
  /\ UNCHANGED <<valkey, record, encore, poller, canceller, ghosts, crashes>>

\* spawnInstance is called: it takes minutes, in which the list grows stale.
ScaleUpStart ==
  /\ SweepDone /\ WantsInstance
  /\ tick' = [IdleTick EXCEPT !.pc = "spawn", !.snap = pool]
  /\ UNCHANGED <<valkey, record, encore, poller, canceller, ghosts, faults,
                 crashes>>

\* spawnInstance returns with the record it put into the pool.
ScaleUp(i) ==
  /\ tick.pc = "spawn" /\ i \in Unused
  /\ alive' = alive \cup {i}
  /\ pool' = [pool EXCEPT ![i] = Fresh]
  /\ tick' = EnterScaleDown([tick.snap EXCEPT ![i] = Fresh])
  /\ UNCHANGED <<queue, inflight, kv, record, runs, msgs, poller, canceller,
                 ghosts, faults, crashes>>

\* The spawn fails, or the pool is at maxInstances.
SpawnFails ==
  /\ tick.pc = "spawn"
  /\ \/ Unused = {} /\ UNCHANGED faults
     \/ faults < MaxFaults /\ faults' = faults + 1
  /\ tick' = EnterScaleDown(tick.snap)
  /\ UNCHANGED <<valkey, record, encore, poller, canceller, ghosts, crashes>>

-----------------------------------------------------------------------------
(* Scale down. *)

\* A candidate only because an operator's cancel marked it draining.
CancelDrainOnly(i) ==
  /\ tick.snap[i].cancelDrain
  /\ ~IdleAndAged(tick.snap[i])
  /\ i \notin tick.stuck

BelowFloor == Cardinality(InPool(tick.snap)) <= MinInstances

\* At the floor, or its real state cannot be confirmed.
ScaleDownKeep(i) ==
  /\ tick.pc = "scaleDown" /\ i \in tick.todo
  /\ \/ /\ \/ BelowFloor /\ ~CancelDrainOnly(i)
           \/ i \notin alive
        /\ UNCHANGED faults
     \/ /\ faults < MaxFaults /\ faults' = faults + 1
  /\ tick' = Onward([tick EXCEPT !.todo = @ \ {i}])
  /\ UNCHANGED <<valkey, record, encore, poller, canceller, ghosts, crashes>>

\* The real state of a candidate, and the jobs it has lost.
ScaleDownProbe(i) ==
  /\ tick.pc = "scaleDown" /\ i \in tick.todo /\ i \in alive
  /\ ~BelowFloor \/ CancelDrainOnly(i)
  /\ tick' = Resume([tick EXCEPT !.todo = @ \ {i}, !.cur = i,
                                 !.real[i] = ProbeOf(i), !.back = "act",
                                 !.lost = LostWith(i, ProbeOf(i).jobs)])
  /\ UNCHANGED <<valkey, record, encore, poller, canceller, ghosts, faults,
                 crashes>>

\* Mutant: an active job always protects its instance.
NoneAbandoned(i) == {}

\* stuckCancelledActiveIds: active jobs that ignored their cancel.
Abandoned(i) == {j \in tick.real[i].jobs : kv[j].cancelReq = "ripe"}

\* hasPendingPackaging: the packager has yet to read a job document of i.
PendingPackaging(i) == \E j \in Jobs : kv[j].pin = i

\* Mutant: the tracked count is believed, not the probe.
ProtectedAsTracked(i) == tick.snap[i].active > 0 \/ PendingPackaging(i)

Protected(i) == \/ tick.real[i].count > Cardinality(Abandoned(i))
                \/ PendingPackaging(i)

\* Back to the loop over the instances, with i's record as p.
Kept(i, p) ==
  Onward([tick EXCEPT !.pc = "scaleDown", !.cur = None, !.snap[i] = p,
                      !.back = "reconcile", !.real[i] = NoAnswer])

\* Drain, don't kill: real work, or a packaging pin.
ScaleDownDrain ==
  /\ tick.pc = "act"
  /\ LET i == tick.cur
         p == [tick.snap[i] EXCEPT !.active = tick.real[i].count,
                                   !.draining = TRUE]
     IN  /\ Protected(i)
         /\ pool' = [pool EXCEPT ![i] = p]
         /\ tick' = Kept(i, p)
  /\ UNCHANGED <<queue, inflight, kv, record, encore, poller, canceller,
                 ghosts, faults, crashes>>

\* The cancel was honoured: the instance returns to service.
ScaleDownRelease ==
  /\ tick.pc = "act"
  /\ LET i == tick.cur
         p == [tick.snap[i] EXCEPT !.active = 0, !.draining = FALSE,
                                   !.cancelDrain = FALSE,
                                   !.aged = @ /\ tick.snap[i].active = 0]
     IN  /\ ~Protected(i) /\ CancelDrainOnly(i)
         /\ Abandoned(i) = {}
         /\ pool' = [pool EXCEPT ![i] = p]
         /\ tick' = Kept(i, p)
  /\ UNCHANGED <<queue, inflight, kv, record, encore, poller, canceller,
                 ghosts, faults, crashes>>

\* destroyInstance, unless the pool is at its floor.
ScaleDownDestroy ==
  /\ tick.pc = "act"
  /\ LET i == tick.cur
     IN  /\ ~Protected(i)
         /\ ~(CancelDrainOnly(i) /\ Abandoned(i) = {})
         /\ IF BelowFloor
              THEN /\ tick' = Kept(i, tick.snap[i])
                   /\ UNCHANGED <<pool, alive, runs, killed>>
              ELSE /\ tick' = Kept(i, Gone)
                   /\ pool' = [pool EXCEPT ![i] = Gone]
                   /\ alive' = alive \ {i}
                   /\ runs' = Destroyed(i)
                   /\ killed' = killed \cup
                        {r \in ActiveRuns(i) :
                           kv[runs[r].job].cancelReq # "ripe"}
  /\ UNCHANGED <<queue, inflight, kv, record, msgs, poller, canceller, hist,
                 mislaid, faults, crashes>>

-----------------------------------------------------------------------------
(* Dispatch. *)

\* Nothing to hand out, or callback trust is not confirmed.
DispatchNone(i) ==
  /\ tick.pc = "dispatch" /\ i \in tick.todo
  /\ \/ (queue = {} \/ ~RunsLeft) /\ UNCHANGED faults
     \/ faults < MaxFaults /\ faults' = faults + 1
  /\ tick' = Onward([tick EXCEPT !.todo = @ \ {i}])
  /\ UNCHANGED <<valkey, record, encore, poller, canceller, ghosts, crashes>>

\* Mutant: the entry is read and stays in the queue.
DispatchPeek(i) ==
  /\ tick.pc = "dispatch" /\ i \in tick.todo
  /\ RunsLeft
  /\ \E e \in queue :
       /\ AtHead(e)
       /\ inflight' = inflight \cup {e}
       /\ tick' = [tick EXCEPT !.pc = IF e.due THEN "post" ELSE "refused",
                               !.cur = i, !.claim = {e}, !.todo = @ \ {i}]
  /\ UNCHANGED <<queue, kv, pool, record, encore, poller, canceller, ghosts,
                 faults, crashes>>

\* RPOPLPUSH queue -> inflight; an entry that is backing off goes back.
DispatchClaim(i) ==
  /\ tick.pc = "dispatch" /\ i \in tick.todo
  /\ RunsLeft
  /\ \E e \in queue :
       /\ AtHead(e)
       /\ queue' = queue \ {e}
       /\ inflight' = inflight \cup {e}
       /\ tick' = [tick EXCEPT !.pc = IF e.due THEN "post" ELSE "refused",
                               !.cur = i, !.claim = {e}, !.todo = @ \ {i}]
  /\ UNCHANGED <<kv, pool, record, encore, poller, canceller, ghosts, faults,
                 crashes>>

\* POST /encoreJobs accepted.
DispatchPost ==
  /\ tick.pc = "post" /\ tick.cur \in alive
  /\ \E e \in tick.claim : StartRun(e.job, tick.cur)
  /\ UNCHANGED <<valkey, record, alive, msgs, poller, canceller, ghosts,
                 faults, crashes>>

\* POST rejected, or unanswered.
DispatchRefused ==
  /\ tick.pc = "post"
  /\ \/ tick.cur \notin alive /\ UNCHANGED faults
     \/ faults < MaxFaults /\ faults' = faults + 1
  /\ tick' = [tick EXCEPT !.pc = "refused"]
  /\ UNCHANGED <<valkey, record, encore, poller, canceller, ghosts, crashes>>

\* The mapping and the status, and what recordDispatch stores.
Mapped(k, i) == [k EXCEPT !.status = "RUNNING", !.inst = i]
Counted(k, e) == [k EXCEPT !.payload = TRUE, !.attempts = e.attempts + 1]

\* The writes that follow an accepted POST, to the UUID and URL keys, and
\* onDispatched.  dispatch() goes on when recordDispatch or onDispatched throws.
DispatchRecord ==
  /\ tick.pc = "record"
  /\ \E e \in tick.claim, stored \in BOOLEAN, told \in BOOLEAN :
       /\ IF stored /\ told THEN UNCHANGED faults
          ELSE /\ stored \/ told
               /\ faults < MaxFaults /\ faults' = faults + 1
       /\ LET k == Mapped(kv[e.job], tick.cur)
              c == IF stored THEN Counted(k, e) ELSE k
          IN  kv' = [kv EXCEPT ![e.job] = [c EXCEPT !.url = tick.run]]
       /\ record' = IF told /\ record[e.job].st = "queued"
                      THEN [record EXCEPT ![e.job].st = "running"]
                      ELSE record
  /\ runs' = [runs EXCEPT ![tick.run].known = TRUE]
  /\ tick' = [tick EXCEPT !.pc = "dispatched"]
  /\ UNCHANGED <<queue, inflight, pool, alive, msgs, poller, canceller,
                 ghosts, crashes>>

\* Another write throws after Encore accepted the job, and dispatch() reports
\* failure: before the mapping, after it, or after recordDispatch.
DispatchRecordFails ==
  /\ tick.pc = "record" /\ faults < MaxFaults
  /\ faults' = faults + 1
  /\ \E e \in tick.claim :
       LET k == Mapped(kv[e.job], tick.cur)
       IN  \/ UNCHANGED kv
           \/ kv' = [kv EXCEPT ![e.job] = k]
           \/ kv' = [kv EXCEPT ![e.job] = Counted(k, e)]
  /\ tick' = [tick EXCEPT !.pc = "refused", !.run = 0]
  /\ UNCHANGED <<queue, inflight, pool, record, encore, poller, canceller,
                 ghosts, crashes>>

\* LREM from inflight, whatever the outcome.
DispatchUnclaim ==
  /\ tick.pc \in {"dispatched", "refused"}
  /\ inflight' = inflight \ tick.claim
  /\ tick' = [tick EXCEPT !.pc = IF @ = "dispatched" THEN "count"
                                 ELSE "giveBack"]
  /\ UNCHANGED <<queue, kv, pool, record, encore, poller, canceller, ghosts,
                 faults, crashes>>

\* The whole record, with one job more.
DispatchCount ==
  /\ tick.pc = "count"
  /\ LET p == [tick.snap[tick.cur] EXCEPT !.active = @ + 1]
     IN  /\ pool' = [pool EXCEPT ![tick.cur] = p]
         /\ tick' = Onward([tick EXCEPT !.pc = "dispatch", !.cur = None,
                                        !.snap[tick.cur] = p, !.claim = {},
                                        !.run = 0])
  /\ UNCHANGED <<queue, inflight, kv, record, encore, poller, canceller,
                 ghosts, faults, crashes>>

\* Mutant: the entry is not put back.
DispatchDiscard ==
  /\ tick.pc = "giveBack"
  /\ tick' = Onward([tick EXCEPT !.pc = "dispatch", !.cur = None,
                                 !.claim = {}])
  /\ UNCHANGED <<valkey, record, encore, poller, canceller, ghosts, faults,
                 crashes>>

\* RPUSH back to the head of the queue.
DispatchGiveBack ==
  /\ tick.pc = "giveBack"
  /\ queue' = queue \cup tick.claim
  /\ tick' = Onward([tick EXCEPT !.pc = "dispatch", !.cur = None,
                                 !.claim = {}])
  /\ UNCHANGED <<inflight, kv, pool, record, encore, poller, canceller,
                 ghosts, faults, crashes>>

-----------------------------------------------------------------------------
\* A call to Valkey or OSC throws where tick() has no catch: listInstances,
\* hasPendingPackaging, updateInstance, destroyInstance, RPOPLPUSH, LREM, RPUSH.
\* start() logs it and the rest of the tick is not run, so an entry in the
\* tick's hand stays where the calls made so far have left it.  A write whose
\* answer is lost is the step that makes it and then this one.
TickThrows ==
  /\ tick.pc \in {"sweep", "scaleDown", "act", "dispatch", "post",
                  "dispatched", "count", "refused", "giveBack"}
  /\ faults < MaxFaults /\ faults' = faults + 1
  /\ mislaid' = IF tick.pc = "count" THEN mislaid
                ELSE mislaid \cup {e.job : e \in tick.claim}
  /\ tick' = IdleTick
  /\ UNCHANGED <<valkey, record, encore, poller, canceller, hist, killed,
                 crashes>>

-----------------------------------------------------------------------------
TickStep ==
  \/ TickStart \/ ReconcileEnd
  \/ \E i \in Instances : EvictVanished(i) \/ ReconcileInstance(i)
  \/ \E j \in Jobs : InterruptRequeue(j) \/ InterruptLost(j) \/ SweepFailed(j)
  \/ \E j \in Jobs : InterruptFails(j) \/ LostFails(j)
  \/ \E d \in [job : Jobs, retryable : BOOLEAN] : SettleDrop(d)
  \/ DropRequeue \/ DropRequeueFails
  \/ \E i \in Instances : ScaleUp(i) \/ ScaleDownKeep(i) \/ ScaleDownProbe(i)
  \/ NoScaleUp \/ ScaleUpStart \/ SpawnFails
  \/ ScaleDownDrain \/ ScaleDownRelease \/ ScaleDownDestroy
  \/ \E i \in Instances : DispatchNone(i) \/ DispatchClaim(i)
  \/ DispatchPost \/ DispatchRefused \/ DispatchRecord \/ DispatchRecordFails
  \/ DispatchUnclaim \/ DispatchCount \/ DispatchGiveBack \/ TickThrows
=============================================================================
