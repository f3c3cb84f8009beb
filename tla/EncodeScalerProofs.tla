------------------------- MODULE EncodeScalerProofs -------------------------
(***************************************************************************)
(* Type correctness of the encode path, for every set of jobs and          *)
(* instances and every bound.  TypeOK alone is not inductive: a step of    *)
(* the poller or of the tick indexes the keys and the pool by a name that  *)
(* an earlier step, before an await, put into a message or a local.        *)
(* TypeInv adds that those names are real.                                 *)
(*                                                                         *)
(* On it rest two safety properties: a cancelled job stays cancelled, and  *)
(* the attempts of a job stay within its budget.                           *)
(***************************************************************************)
EXTENDS EncodeScaler, FiniteSetTheorems, TLAPS

-----------------------------------------------------------------------------
(* The inductive invariant. *)

\* An encode that was started belongs to a job and to an instance, one that
\* was not belongs to none.
NamedRun(run) ==
  \/ run.st = "free" /\ run.job = None /\ run.inst = None
  \/ run.st # "free" /\ run.job \in Jobs /\ run.inst \in Instances

RunsNamed == \A r \in Runs : NamedRun(runs[r])

\* A message names an encode that was started.
MessagesNamed == \A r \in msgs : runs[r].st # "free"

\* The retry a tick is about to queue is of a job, and the instance it is
\* about to tear down is one.
NamedTick(t) ==
  /\ t.pc = "requeue" => t.job \in Jobs
  /\ t.pc = "act" \/ (t.pc = "interrupt" /\ t.back = "act")
     => t.cur \in Instances

TickNamed == NamedTick(tick)

\* The message in the poller's hand names an encode and its job.
PollerNamed ==
  poller.pc # "idle" => /\ poller.run \in Runs
                        /\ runs[poller.run].st # "free"
                        /\ poller.job \in Jobs

\* The inductive invariant.
TypeInv == /\ TypeOK
           /\ RunsNamed /\ MessagesNamed /\ TickNamed /\ PollerNamed

-----------------------------------------------------------------------------
(* The helpers of ScalerTick keep the types.                               *)

\* 0, the absent URL, and every encode are run references.
LEMMA RunRefs == 0 \in RunRef /\ Runs \subseteq RunRef
BY ConstantsAssumption DEF RunRef, Runs

\* A started encode stays started.
NeverFreed == \A r \in Runs : runs[r].st # "free" => runs'[r].st # "free"

\* LPUSH of a well-formed entry leaves a well-formed queue.
LEMMA PushType ==
  ASSUME NEW j \in Jobs, NEW n \in Nat, NEW due \in BOOLEAN,
         queue \subseteq Entry, Push(j, n, due)
  PROVE  queue' \subseteq Entry
BY DEF Push, Entry

\* One encode is rewritten, and keeps its job and its instance.
LEMMA RunUpdateType ==
  ASSUME runs \in [Runs -> Run], RunsNamed, NEW u \in RunRef, NEW v,
         u \in Runs => /\ v \in Run /\ NamedRun(v)
                       /\ runs[u].st # "free" => v.st # "free",
         runs' = [runs EXCEPT ![u] = v]
  PROVE  runs' \in [Runs -> Run] /\ RunsNamed' /\ NeverFreed
BY DEF RunsNamed, NeverFreed

\* A cancel sent to Encore leaves well-formed encodes, each of which keeps its
\* job and its instance.
LEMMA CancelRunType ==
  ASSUME NEW u \in RunRef, runs \in [Runs -> Run], RunsNamed, CancelRun(u)
  PROVE  runs' \in [Runs -> Run] /\ RunsNamed' /\ NeverFreed
<1>1. CASE UNCHANGED runs
  BY <1>1 DEF RunsNamed, NeverFreed
<1>2. CASE /\ runs[u].st = "active"
           /\ runs' = [runs EXCEPT ![u].st = "cancelled"]
  <2>. DEFINE v == [runs[u] EXCEPT !.st = "cancelled"]
  <2>1. u \in Runs => /\ v \in Run
                      /\ v.st # "free" /\ v.job = runs[u].job
                      /\ v.inst = runs[u].inst
    BY DEF Run, Finished
  <2>2. u \in Runs => NamedRun(v)
    BY <1>2, <2>1 DEF RunsNamed, NamedRun
  <2>3. runs' = [runs EXCEPT ![u] = v]
    BY <1>2
  <2>. HIDE DEF v
  <2>. QED BY <2>1, <2>2, <2>3, RunUpdateType
<1>. QED BY <1>1, <1>2 DEF CancelRun

\* destroyInstance leaves well-formed encodes, each of which keeps its job and
\* its instance.
LEMMA DestroyedType ==
  ASSUME NEW i \in Instances, runs \in [Runs -> Run], RunsNamed,
         runs' = Destroyed(i)
  PROVE  runs' \in [Runs -> Run] /\ RunsNamed' /\ NeverFreed
<1>1. runs' \in [Runs -> Run]
  BY DEF Destroyed, Run
<1>2. ASSUME NEW r \in Runs
      PROVE  /\ runs[r].st # "free" => runs'[r].st # "free"
             /\ NamedRun(runs'[r])
  <2>1. CASE runs[r].inst = i
    <3>1. runs[r].st # "free" /\ runs[r].job \in Jobs
      BY <2>1, ConstantsAssumption DEF RunsNamed, NamedRun
    <3>2. /\ runs'[r].st = "gone"
          /\ runs'[r].job = runs[r].job /\ runs'[r].inst = runs[r].inst
      BY <2>1 DEF Destroyed, Run
    <3>. QED BY <2>1, <3>1, <3>2 DEF NamedRun
  <2>2. CASE runs[r].inst # i
    BY <2>2 DEF Destroyed, RunsNamed
  <2>. QED BY <2>1, <2>2
<1>. QED BY <1>1, <1>2 DEF RunsNamed, NeverFreed

\* The key updates of a requeue, of clearRetryState and of a stamped success
\* yield well-formed keys.
LEMMA KeysType ==
  ASSUME NEW k \in JobKeys
  PROVE  /\ Requeued(k) \in JobKeys /\ Cleared(k) \in JobKeys
         /\ Stamped(k) \in JobKeys
<1>1. None \in InstOrNone /\ 0 \in RunRef
  BY ConstantsAssumption DEF InstOrNone, RunRef
<1>2. Requeued(k) \in JobKeys
  BY <1>1 DEF JobKeys, Requeued
<1>3. Cleared(k) \in JobKeys
  BY DEF JobKeys, Cleared
<1>4. Stamped(k) \in JobKeys
  BY <1>1 DEF JobKeys, Stamped
<1>. QED BY <1>2, <1>3, <1>4

\* completeTranscode with success = false leaves well-formed records.
LEMMA SettleFailedType ==
  ASSUME NEW j, NEW drop \in BOOLEAN, record \in [Jobs -> JobRecord],
         SettleFailed(j, drop)
  PROVE  record' \in [Jobs -> JobRecord]
BY DEF SettleFailed, JobRecord, JobStatus

\* A probe returns known jobs and a natural count.
LEMMA ProbeType ==
  ASSUME NEW i \in Instances, runs \in [Runs -> Run], RunsNamed
  PROVE  ProbeOf(i) \in Probe
<1>1. IsFiniteSet(ActiveRuns(i))
  BY ConstantsAssumption, FS_Interval, FS_Subset DEF ActiveRuns, Runs
<1>2. Cardinality(ActiveRuns(i)) \in Nat
  BY <1>1, FS_CardinalityType
<1>3. {runs[r].job : r \in ActiveRuns(i)} \subseteq Jobs
  BY DEF ActiveRuns, RunsNamed, NamedRun
<1>. QED BY <1>2, <1>3 DEF ProbeOf, Probe

-----------------------------------------------------------------------------
(* The locals of the tick. *)

\* A step of the tick that is not about to queue a retry and claims nothing.
ClaimKept == tick'.pc # "requeue" /\ tick'.claim \subseteq tick.claim

\* The tick between two runs is well formed and claims nothing.
LEMMA IdleTickType ==
  IdleTick \in TickLocals /\ IdleTick.pc = "idle" /\ IdleTick.claim = {}
BY ConstantsAssumption DEF IdleTick, TickLocals, Gone, NoAnswer, PoolRecord,
   Probe, InstOrNone, JobOrNone, RunRef

\* Leaving a phase keeps the tick's locals well formed, claims nothing new and
\* never enters a requeue.
LEMMA OnwardType ==
  ASSUME NEW t \in TickLocals
  PROVE  /\ Onward(t) \in TickLocals
         /\ NamedTick(t) => NamedTick(Onward(t))
         /\ Onward(t).pc = "requeue" => Onward(t) = t
         /\ Onward(t).claim \subseteq t.claim
<1>. DEFINE P(u) == /\ u \in TickLocals
                    /\ u.pc \notin {"requeue", "act", "interrupt"}
                    /\ u.claim = {}
<1>1. P([IdleTick EXCEPT !.pc = "drops", !.drops = t.drops])
  BY IdleTickType DEF TickLocals
<1>2. P([IdleTick EXCEPT !.pc = "sweep", !.drops = t.drops])
  BY IdleTickType DEF TickLocals
<1>3. P([IdleTick EXCEPT !.pc = "sweep"])
  BY IdleTickType DEF TickLocals
<1>4. P([IdleTick EXCEPT !.pc = "dispatch", !.snap = t.snap,
                         !.todo = Dispatchable(t.snap)])
  BY IdleTickType DEF TickLocals, Dispatchable, InPool
<1>5. P(IdleTick)
  BY IdleTickType
<1>6. Onward(t) = t \/ P(Onward(t))
  BY <1>1, <1>2, <1>3, <1>4, <1>5 DEF Onward
<1>. QED BY <1>6 DEF NamedTick

\* Going on after lost jobs keeps the tick's locals well formed and its claim,
\* and an instance about to be torn down stays named.
LEMMA ResumeType ==
  ASSUME NEW t \in TickLocals
  PROVE  /\ Resume(t) \in TickLocals
         /\ (t.back = "act" => t.cur \in Instances) => NamedTick(Resume(t))
         /\ Resume(t).pc # "requeue"
         /\ Resume(t).claim \subseteq t.claim
<1>1. [t EXCEPT !.pc = t.back] \in TickLocals
  BY DEF TickLocals
<1>2. [t EXCEPT !.pc = "interrupt"] \in TickLocals
  BY DEF TickLocals
<1>. QED BY <1>1, <1>2, OnwardType, SMTT(30) DEF Resume, TickLocals, NamedTick

-----------------------------------------------------------------------------
(* Every step keeps the types. *)

\* What is left to show of a step that touches neither messages nor poller.
LEMMA NamesKept ==
  ASSUME TypeInv, RunsNamed', NeverFreed, UNCHANGED <<msgs, poller>>
  PROVE  RunsNamed' /\ MessagesNamed' /\ PollerNamed'
BY DEF TypeInv, TypeOK, NeverFreed, MessagesNamed, PollerNamed

\* A step that leaves encodes, messages and poller alone keeps their names.
LEMMA NamesUnchanged ==
  ASSUME TypeInv, UNCHANGED <<runs, msgs, poller>>
  PROVE  RunsNamed' /\ MessagesNamed' /\ PollerNamed'
BY DEF TypeInv, RunsNamed, MessagesNamed, PollerNamed

\* requeueScaleDownInterruptions keeps the type invariant and the claim.
LEMMA InterruptType ==
  ASSUME TypeInv, NEW j \in Jobs, InterruptRequeue(j) \/ InterruptLost(j)
  PROVE  TypeInv' /\ ClaimKept
<1>1. kv[j] \in JobKeys /\ kv[j].url \in RunRef /\ kv[j].attempts \in Nat
  BY DEF TypeInv, TypeOK, JobKeys
<1>2. /\ [tick EXCEPT !.lost = @ \ {j}] \in TickLocals
      /\ [tick EXCEPT !.lost = @ \ {j}].back = tick.back
      /\ [tick EXCEPT !.lost = @ \ {j}].cur = tick.cur
      /\ [tick EXCEPT !.lost = @ \ {j}].claim = tick.claim
  BY DEF TypeInv, TypeOK, TickLocals
<1>3. tick' \in TickLocals /\ TickNamed' /\ ClaimKept
  BY <1>2, ResumeType DEF InterruptRequeue, InterruptLost, TypeInv, ClaimKept,
                          TickNamed, NamedTick
<1>4. CASE InterruptRequeue(j)
  <2>1. runs' \in [Runs -> Run] /\ RunsNamed' /\ NeverFreed
    BY <1>1, <1>4, CancelRunType DEF InterruptRequeue, TypeInv, TypeOK
  <2>2. kv' \in [Jobs -> JobKeys]
    BY <1>1, <1>4, KeysType DEF InterruptRequeue, TypeInv, TypeOK
  <2>3. queue' \subseteq Entry
    BY <1>1, <1>4, PushType DEF InterruptRequeue, TypeInv, TypeOK
  <2>4. hist' \in [Jobs -> JobHistory]
    BY <1>4 DEF InterruptRequeue, TypeInv, TypeOK, JobHistory
  <2>5. RunsNamed' /\ MessagesNamed' /\ PollerNamed'
    BY <1>4, <2>1, NamesKept DEF InterruptRequeue
  <2>. QED BY <1>3, <1>4, <2>1, <2>2, <2>3, <2>4, <2>5
           DEF InterruptRequeue, TypeInv, TypeOK
<1>5. CASE InterruptLost(j)
  <2>1. kv' \in [Jobs -> JobKeys]
    <3>. DEFINE k == [kv[j] EXCEPT !.status = "FAILED", !.inst = None]
    <3>1. k \in JobKeys
      BY <1>1 DEF JobKeys, InstOrNone
    <3>2. kv' = kv \/ kv' = [kv EXCEPT ![j] = Cleared(k)]
      BY <1>5 DEF InterruptLost
    <3>. QED BY <3>1, <3>2, KeysType DEF TypeInv, TypeOK
  <2>2. record' \in [Jobs -> JobRecord]
    BY <1>5, SettleFailedType DEF InterruptLost, TypeInv, TypeOK
  <2>3. RunsNamed' /\ MessagesNamed' /\ PollerNamed'
    BY <1>5, NamesUnchanged DEF InterruptLost, encore
  <2>. QED BY <1>3, <1>5, <2>1, <2>2, <2>3
           DEF InterruptLost, TypeInv, TypeOK, encore, ghosts
<1>. QED BY <1>4, <1>5

\* A step of the tick in which a call throws that nothing makes up for.
TickFails ==
  TickThrows \/ \E j \in Jobs : InterruptFails(j) \/ LostFails(j)

\* Such a step writes no more than keys, encodes and the tick's own locals.
LEMMA FailsQuietly ==
  ASSUME TickFails
  PROVE  /\ UNCHANGED <<queue, inflight, pool, record, alive, msgs, poller,
                        canceller, hist, killed, crashes>>
         /\ faults' = faults + 1
BY DEF TickFails, TickThrows, InterruptFails, LostFails, valkey, encore

\* It keeps the type invariant and claims nothing.
LEMMA FailsType ==
  ASSUME TypeInv, TickFails
  PROVE  TypeInv' /\ ClaimKept
<1>1. faults' \in Nat
  BY FailsQuietly DEF TypeInv, TypeOK
<1>2. CASE TickThrows
  <2>1. tick' \in TickLocals /\ TickNamed' /\ ClaimKept
    BY <1>2, IdleTickType DEF TickThrows, TickNamed, NamedTick, ClaimKept
  <2>2. mislaid' \subseteq Jobs
    <3>1. \A e \in tick.claim : e.job \in Jobs
      BY DEF TypeInv, TypeOK, TickLocals, Entry
    <3>2. mislaid' = mislaid \/ mislaid' = mislaid \cup {e.job : e \in tick.claim}
      BY <1>2 DEF TickThrows
    <3>. QED BY <3>1, <3>2 DEF TypeInv, TypeOK
  <2>3. RunsNamed' /\ MessagesNamed' /\ PollerNamed'
    BY <1>2, NamesUnchanged DEF TickThrows, encore
  <2>. QED BY <1>1, <1>2, <2>1, <2>2, <2>3
           DEF TickThrows, TypeInv, TypeOK, valkey, encore
<1>3. ASSUME NEW j \in Jobs, InterruptFails(j) PROVE TypeInv' /\ ClaimKept
  <2>. DEFINE t == [tick EXCEPT !.lost = {}]
  <2>1. /\ t \in TickLocals /\ t.back = tick.back /\ t.cur = tick.cur
        /\ t.claim = tick.claim
    BY DEF TypeInv, TypeOK, TickLocals
  <2>2. tick' = Resume(t) /\ tick.pc = "interrupt"
    BY <1>3 DEF InterruptFails
  <2>. HIDE DEF t
  <2>3. tick' \in TickLocals /\ TickNamed' /\ ClaimKept
    BY <2>1, <2>2, ResumeType DEF TypeInv, ClaimKept, TickNamed, NamedTick
  <2>4. runs' \in [Runs -> Run] /\ RunsNamed' /\ NeverFreed
    <3>1. kv[j].url \in RunRef
      BY DEF TypeInv, TypeOK, JobKeys
    <3>2. CASE UNCHANGED runs
      BY <3>2 DEF TypeInv, TypeOK, RunsNamed, NeverFreed
    <3>3. CASE CancelRun(kv[j].url)
      BY <3>1, <3>3, CancelRunType DEF TypeInv, TypeOK
    <3>. QED BY <1>3, <3>2, <3>3 DEF InterruptFails
  <2>5. kv' \in [Jobs -> JobKeys]
    <3>1. kv[j] \in JobKeys
      BY DEF TypeInv, TypeOK
    <3>. QED BY <1>3, <3>1, KeysType DEF InterruptFails, TypeInv, TypeOK
  <2>6. mislaid' \subseteq Jobs
    BY <1>3 DEF InterruptFails, TypeInv, TypeOK, TickLocals
  <2>7. RunsNamed' /\ MessagesNamed' /\ PollerNamed'
    BY <1>3, <2>4, NamesKept DEF InterruptFails
  <2>. QED BY <1>1, <1>3, <2>3, <2>4, <2>5, <2>6, <2>7
           DEF InterruptFails, TypeInv, TypeOK
<1>4. ASSUME NEW j \in Jobs, LostFails(j) PROVE TypeInv' /\ ClaimKept
  <2>. DEFINE t == [tick EXCEPT !.lost = @ \ {j}]
  <2>1. /\ t \in TickLocals /\ t.back = tick.back /\ t.cur = tick.cur
        /\ t.claim = tick.claim
    BY DEF TypeInv, TypeOK, TickLocals
  <2>2. tick' = Resume(t) /\ tick.pc = "interrupt"
    BY <1>4 DEF LostFails
  <2>. HIDE DEF t
  <2>3. tick' \in TickLocals /\ TickNamed' /\ ClaimKept
    BY <2>1, <2>2, ResumeType DEF TypeInv, ClaimKept, TickNamed, NamedTick
  <2>4. kv' \in [Jobs -> JobKeys]
    <3>. DEFINE k == [kv[j] EXCEPT !.status = "FAILED", !.inst = None]
    <3>0. kv[j] \in JobKeys
      BY DEF TypeInv, TypeOK
    <3>1. k \in JobKeys
      BY <3>0 DEF JobKeys, InstOrNone
    <3>2. UNCHANGED kv \/ kv' = [kv EXCEPT ![j] = k]
      BY <1>4 DEF LostFails
    <3>. HIDE DEF k
    <3>. QED BY <3>1, <3>2 DEF TypeInv, TypeOK
  <2>5. mislaid' \subseteq Jobs
    BY <1>4 DEF LostFails, TypeInv, TypeOK
  <2>6. RunsNamed' /\ MessagesNamed' /\ PollerNamed'
    BY <1>4, NamesUnchanged DEF LostFails, encore
  <2>. QED BY <1>1, <1>4, <2>3, <2>4, <2>5, <2>6
           DEF LostFails, TypeInv, TypeOK, encore
<1>. QED BY <1>2, <1>3, <1>4 DEF TickFails

\* reconcile keeps the type invariant and the claim.
LEMMA ReconcileType ==
  ASSUME TypeInv,
         \/ TickStart \/ ReconcileEnd
         \/ \E i \in Instances : EvictVanished(i) \/ ReconcileInstance(i)
  PROVE  TypeInv' /\ ClaimKept
<1>1. CASE TickStart
  <2>1. PICK silent \in SUBSET (InPool(pool) \cap alive) :
          /\ faults' = faults + Cardinality(silent)
          /\ tick' = Onward([IdleTick EXCEPT
               !.pc = "reconcile", !.todo = InPool(pool), !.snap = pool,
               !.real = [i \in Instances |->
                           IF i \in (InPool(pool) \cap alive) \ silent
                             THEN ProbeOf(i) ELSE NoAnswer]])
    BY <1>1 DEF TickStart
  <2>2. faults' \in Nat
    <3>1. IsFiniteSet(silent)
      BY ConstantsAssumption, FS_Subset DEF InPool
    <3>. QED BY <2>1, <3>1, FS_CardinalityType DEF TypeInv, TypeOK
  <2>3. \A i \in Instances : ProbeOf(i) \in Probe
    BY ProbeType DEF TypeInv, TypeOK
  <2>4. NoAnswer \in Probe
    BY DEF NoAnswer, Probe
  <2>. DEFINE real == [i \in Instances |->
                        IF i \in (InPool(pool) \cap alive) \ silent
                          THEN ProbeOf(i) ELSE NoAnswer]
  <2>5. real \in [Instances -> Probe]
    BY <2>3, <2>4
  <2>6. InPool(pool) \subseteq Instances
    BY DEF InPool
  <2>7. pool \in [Instances -> PoolRecord]
    BY DEF TypeInv, TypeOK
  <2>. DEFINE t == [IdleTick EXCEPT
               !.pc = "reconcile", !.todo = InPool(pool), !.snap = pool,
               !.real = real]
  <2>8. t \in TickLocals /\ t.pc = "reconcile" /\ t.claim = {}
    <3>. HIDE DEF real
    <3>. QED BY <2>5, <2>6, <2>7, IdleTickType DEF TickLocals
  <2>9. tick' = Onward(t)
    BY <2>1
  <2>10. tick' \in TickLocals /\ TickNamed' /\ ClaimKept
    <3>. HIDE DEF t
    <3>. QED BY <2>8, <2>9, OnwardType DEF ClaimKept, TickNamed, NamedTick
  <2>11. RunsNamed' /\ MessagesNamed' /\ PollerNamed'
    BY <1>1, NamesUnchanged DEF TickStart, encore
  <2>. QED BY <1>1, <2>2, <2>10, <2>11
           DEF TickStart, TypeInv, TypeOK, valkey, encore, ghosts
<1>2. CASE ReconcileEnd
  <2>1. pool' \in [Instances -> PoolRecord]
    <3>1. \A i \in Instances : [tick.snap[i] EXCEPT !.active = tick.real[i].count]
                               \in PoolRecord
      BY SMTT(30) DEF TypeInv, TypeOK, TickLocals, PoolRecord, Probe
    <3>. QED BY <1>2, <3>1 DEF ReconcileEnd, TypeInv, TypeOK
  <2>2. [tick EXCEPT !.onto = {}] \in TickLocals
    BY DEF TypeInv, TypeOK, TickLocals
  <2>3. tick' \in TickLocals /\ TickNamed' /\ ClaimKept
    BY <1>2, <2>2, OnwardType
    DEF ReconcileEnd, ClaimKept, TickNamed, NamedTick, TickLocals, TypeInv,
        TypeOK
  <2>4. RunsNamed' /\ MessagesNamed' /\ PollerNamed'
    BY <1>2, NamesUnchanged DEF ReconcileEnd, encore
  <2>. QED BY <1>2, <2>1, <2>3, <2>4
           DEF ReconcileEnd, TypeInv, TypeOK, encore, ghosts
<1>3. ASSUME NEW i \in Instances, EvictVanished(i) PROVE TypeInv' /\ ClaimKept
  <2>1. Gone \in PoolRecord
    BY DEF Gone, PoolRecord
  <2>2. pool' \in [Instances -> PoolRecord]
    BY <1>3, <2>1 DEF EvictVanished, TypeInv, TypeOK
  <2>3. LostWith(i, {}) \subseteq Jobs
    BY DEF LostWith
  <2>. DEFINE t == [tick EXCEPT !.todo = @ \ {i}, !.snap[i] = Gone,
                                !.lost = LostWith(i, {}),
                                !.back = "reconcile"]
  <2>4. t \in TickLocals /\ t.back = "reconcile" /\ t.claim = tick.claim
    BY <2>1, <2>3 DEF TypeInv, TypeOK, TickLocals
  <2>5. tick' \in TickLocals /\ TickNamed' /\ ClaimKept
    <3>1. tick' = Resume(t)
      BY <1>3 DEF EvictVanished
    <3>. HIDE DEF t
    <3>. QED BY <2>4, <3>1, ResumeType DEF ClaimKept, TickNamed, NamedTick
  <2>6. RunsNamed' /\ MessagesNamed' /\ PollerNamed'
    BY <1>3, NamesUnchanged DEF EvictVanished, encore
  <2>. QED BY <1>3, <2>2, <2>5, <2>6
           DEF EvictVanished, TypeInv, TypeOK, encore, ghosts
<1>4. ASSUME NEW i \in Instances, ReconcileInstance(i) PROVE TypeInv' /\ ClaimKept
  <2>. DEFINE rec == tick.snap[i]
              real == tick.real[i]
              off == rec.active # 0 /\ real.ok /\ rec.active # real.count
              fewer == off /\ real.count < rec.active
              fixed == [rec EXCEPT !.active = real.count]
  <2>1. fixed \in PoolRecord /\ rec \in PoolRecord
    BY DEF TypeInv, TypeOK, TickLocals, PoolRecord, Probe
  <2>2. Classified(i) \in [Jobs -> JobKeys]
    <3>1. \A j \in Jobs : kv[j] \in JobKeys
      BY DEF TypeInv, TypeOK
    <3>. DEFINE a(j) == [kv[j] EXCEPT !.status = "FAILED", !.passes = 0]
                b(j) == [kv[j] EXCEPT !.passes = 1]
                c(j) == [kv[j] EXCEPT !.passes = 0,
                                      !.inst = CHOOSE k \in ActiveElsewhere(j) : TRUE]
                d(j) == [kv[j] EXCEPT !.passes = 0]
    <3>2. \A j \in Jobs : a(j) \in JobKeys /\ b(j) \in JobKeys /\ d(j) \in JobKeys
      <4>1. 0 \in 0 .. 1 /\ 1 \in 0 .. 1
        OBVIOUS
      <4>. QED BY <3>1, <4>1 DEF JobKeys
    <3>3. ASSUME NEW j \in Jobs, Cardinality(ActiveElsewhere(j)) = 1
          PROVE  c(j) \in JobKeys
      <4>1. IsFiniteSet(ActiveElsewhere(j))
        BY ConstantsAssumption, FS_Subset DEF ActiveElsewhere
      <4>2. ActiveElsewhere(j) # {}
        BY <3>3, FS_EmptySet
      <4>3. (CHOOSE k \in ActiveElsewhere(j) : TRUE) \in InstOrNone
        BY <4>2 DEF ActiveElsewhere, InstOrNone
      <4>4. \A k \in InstOrNone :
              [kv[j] EXCEPT !.passes = 0, !.inst = k] \in JobKeys
        <5>1. 0 \in 0 .. 1
          OBVIOUS
        <5>. QED BY <3>1, <5>1 DEF JobKeys
      <4>. QED BY <4>3, <4>4
    <3>. HIDE DEF a, b, c, d
    <3>4. \A j \in Jobs : Classified(i)[j] \in JobKeys
      <4>. SUFFICES ASSUME NEW j \in Jobs PROVE Classified(i)[j] \in JobKeys
        OBVIOUS
      <4>1. \/ Classified(i)[j] = a(j) \/ Classified(i)[j] = b(j)
            \/ Classified(i)[j] = d(j) \/ Classified(i)[j] = kv[j]
            \/ Cardinality(ActiveElsewhere(j)) = 1 /\ Classified(i)[j] = c(j)
        BY Zenon DEF Classified, a, b, c, d
      <4>. QED BY <3>1, <3>2, <3>3, <4>1
    <3>. QED BY <3>4 DEF Classified
  <2>3. kv' \in [Jobs -> JobKeys]
    BY <1>4, <2>2 DEF ReconcileInstance, TypeInv, TypeOK
  <2>4. pool' \in [Instances -> PoolRecord]
    BY <1>4, <2>1 DEF ReconcileInstance, TypeInv, TypeOK
  <2>. DEFINE snap == IF off /\ ~(fewer /\ WithheldDrops(i) # {})
                        THEN fixed ELSE rec
              onto == IF fewer THEN tick.onto \cup RepairedOnto(i)
                      ELSE tick.onto
              drops == IF fewer
                         THEN tick.drops \cup
                              {[job |-> j, retryable |-> DropIsRetryable(j, i)] :
                               j \in Drops(i)}
                         ELSE tick.drops
              t == [tick EXCEPT !.todo = @ \ {i}, !.snap[i] = snap,
                                !.onto = onto, !.drops = drops]
  <2>5. /\ snap \in PoolRecord /\ onto \in SUBSET Instances
        /\ drops \in SUBSET [job : Jobs, retryable : BOOLEAN]
    <3>1. RepairedOnto(i) \subseteq Instances /\ Drops(i) \subseteq Jobs
      BY DEF RepairedOnto, Drops, Suspects, Missing, LostWith
    <3>2. \A j : DropIsRetryable(j, i) \in BOOLEAN
      BY DEF DropIsRetryable
    <3>3. tick.onto \in SUBSET Instances
          /\ tick.drops \in SUBSET [job : Jobs, retryable : BOOLEAN]
      BY DEF TypeInv, TypeOK, TickLocals
    <3>. QED BY <2>1, <3>1, <3>2, <3>3
  <2>6. t \in TickLocals /\ t.pc = tick.pc /\ t.claim = tick.claim
    <3>. HIDE DEF snap, onto, drops
    <3>. QED BY <2>5 DEF TypeInv, TypeOK, TickLocals
  <2>7. tick' \in TickLocals /\ TickNamed' /\ ClaimKept
    <3>1. tick' = Onward(t) /\ tick.pc = "reconcile"
      BY <1>4 DEF ReconcileInstance
    <3>. HIDE DEF t
    <3>. QED BY <2>6, <3>1, OnwardType DEF ClaimKept, TickNamed, NamedTick
  <2>8. RunsNamed' /\ MessagesNamed' /\ PollerNamed'
    BY <1>4, NamesUnchanged DEF ReconcileInstance, encore
  <2>. QED BY <1>4, <2>3, <2>4, <2>7, <2>8
           DEF ReconcileInstance, TypeInv, TypeOK, encore, ghosts
<1>. QED BY <1>1, <1>2, <1>3, <1>4

\* decideRetry leaves well-formed queue, keys, history and encodes.
LEMMA RetryRequeueType ==
  ASSUME TypeInv, NEW j \in Jobs, NEW n \in Nat, RetryRequeue(j, n)
  PROVE  /\ queue' \subseteq Entry /\ kv' \in [Jobs -> JobKeys]
         /\ hist' \in [Jobs -> JobHistory]
         /\ runs' \in [Runs -> Run] /\ RunsNamed' /\ NeverFreed
<1>1. kv[j] \in JobKeys /\ kv[j].url \in RunRef
  BY DEF TypeInv, TypeOK, JobKeys
<1>2. runs' \in [Runs -> Run] /\ RunsNamed' /\ NeverFreed
  BY <1>1, CancelRunType DEF RetryRequeue, TypeInv, TypeOK
<1>3. kv' \in [Jobs -> JobKeys]
  BY <1>1, KeysType DEF RetryRequeue, TypeInv, TypeOK
<1>4. queue' \subseteq Entry
  BY PushType DEF RetryRequeue, TypeInv, TypeOK
<1>5. hist' \in [Jobs -> JobHistory]
  BY DEF RetryRequeue, TypeInv, TypeOK, JobHistory
<1>. QED BY <1>2, <1>3, <1>4, <1>5

\* A decideRetry that throws leaves well-formed encodes and fault count.
LEMMA RequeueFailsType ==
  ASSUME TypeInv, NEW j \in Jobs, RequeueFails(j)
  PROVE  /\ faults' \in Nat
         /\ runs' \in [Runs -> Run] /\ RunsNamed' /\ NeverFreed
<1>1. kv[j].url \in RunRef
  BY DEF TypeInv, TypeOK, JobKeys
<1>. QED BY <1>1, CancelRunType DEF RequeueFails, TypeInv, TypeOK

\* decideRetry reads a natural attempt count.
LEMMA AttemptsType ==
  ASSUME TypeInv, NEW j \in Jobs
  PROVE  AttemptsSoFar(j) \in Nat
BY DEF AttemptsSoFar, TypeInv, TypeOK, JobKeys

\* A cancel leaves well-formed pool records and keys, whatever it resolved.
LEMMA CancelType ==
  ASSUME TypeInv, NEW j, NEW u
  PROVE  /\ CancelDrained(j) \in [Instances -> PoolRecord]
         /\ CancelKeys(j, u) \in [Jobs -> JobKeys]
<1>1. ASSUME NEW i
      PROVE  [pool EXCEPT ![i].draining = TRUE, ![i].cancelDrain = TRUE]
             \in [Instances -> PoolRecord]
  BY DEF TypeInv, TypeOK, PoolRecord
<1>2. CancelDrained(j) \in [Instances -> PoolRecord]
  BY <1>1 DEF CancelDrained, TypeInv, TypeOK
<1>3. CancelKeys(j, u) \in [Jobs -> JobKeys]
  <2>1. ASSUME NEW k \in JobKeys
        PROVE  [k EXCEPT !.status = "CANCELLED",
                         !.cancelReq = IF u = 0 THEN @ ELSE "fresh"] \in JobKeys
    BY DEF JobKeys
  <2>2. CancelKeys(j, u) =
          [kv EXCEPT ![j] = [kv[j] EXCEPT
                               !.status = "CANCELLED",
                               !.cancelReq = IF u = 0 THEN @ ELSE "fresh"]]
    BY DEF CancelKeys, TypeInv, TypeOK
  <2>3. kv \in [Jobs -> JobKeys]
    BY DEF TypeInv, TypeOK
  <2>4. CASE j \in Jobs
    <3>1. kv[j] \in JobKeys
      BY <2>3, <2>4
    <3>2. [kv[j] EXCEPT !.status = "CANCELLED",
                        !.cancelReq = IF u = 0 THEN @ ELSE "fresh"] \in JobKeys
      BY <2>1, <3>1
    <3>. QED BY <2>2, <2>3, <3>2
  <2>5. CASE j \notin Jobs
    BY <2>2, <2>3, <2>5
  <2>. QED BY <2>4, <2>5
<1>. QED BY <1>2, <1>3

\* settleOrRetryEncoreJobDrops and the failure sweep keep the type invariant.
LEMMA DropType ==
  ASSUME TypeInv,
         \/ \E d \in [job : Jobs, retryable : BOOLEAN] : SettleDrop(d)
         \/ DropRequeue \/ DropRequeueFails
         \/ \E j \in Jobs : SweepFailed(j)
  PROVE  TypeInv'
<1>1. ASSUME NEW d \in [job : Jobs, retryable : BOOLEAN], SettleDrop(d)
      PROVE  TypeInv'
  <2>1. d.job \in Jobs /\ AttemptsSoFar(d.job) \in Nat
    BY AttemptsType
  <2>2. /\ [tick EXCEPT !.drops = @ \ {d}] \in TickLocals
        /\ [tick EXCEPT !.drops = @ \ {d}].pc = tick.pc
    BY DEF TypeInv, TypeOK, TickLocals
  <2>. DEFINE t == [tick EXCEPT !.pc = "requeue", !.job = d.job,
                                !.n = AttemptsSoFar(d.job), !.drops = @ \ {d}]
  <2>3. t \in TickLocals /\ t.pc = "requeue" /\ t.job \in Jobs
    BY <2>1 DEF TypeInv, TypeOK, TickLocals, JobOrNone
  <2>4. \/ tick' = t
        \/ tick' = Onward([tick EXCEPT !.drops = @ \ {d}])
    BY <1>1 DEF SettleDrop
  <2>5. tick' \in TickLocals /\ TickNamed'
    <3>. HIDE DEF t
    <3>1. tick.pc = "drops"
      BY <1>1 DEF SettleDrop
    <3>. QED BY <2>2, <2>3, <2>4, <3>1, OnwardType DEF TickNamed, NamedTick
  <2>6. record' \in [Jobs -> JobRecord]
    BY <1>1, SettleFailedType DEF SettleDrop, TypeInv, TypeOK
  <2>7. kv' \in [Jobs -> JobKeys]
    <3>1. kv' = kv \/ kv' = [kv EXCEPT ![d.job] = Cleared(kv[d.job])]
      BY <1>1 DEF SettleDrop
    <3>. QED BY <2>1, <3>1, KeysType DEF TypeInv, TypeOK
  <2>8. RunsNamed' /\ MessagesNamed' /\ PollerNamed'
    BY <1>1, NamesUnchanged DEF SettleDrop, encore
  <2>. QED BY <1>1, <2>5, <2>6, <2>7, <2>8
           DEF SettleDrop, TypeInv, TypeOK, encore, ghosts
<1>2. tick.pc = "requeue" => tick.job \in Jobs /\ tick.n \in Nat
  BY DEF TypeInv, TypeOK, TickNamed, NamedTick, TickLocals
<1>3. DropRequeued \in TickLocals /\ NamedTick(DropRequeued)
  <2>. DEFINE t == [tick EXCEPT !.pc = "drops", !.job = None, !.n = 0]
  <2>1. t \in TickLocals /\ t.pc = "drops"
    BY DEF TypeInv, TypeOK, TickLocals, JobOrNone
  <2>2. DropRequeued = Onward(t)
    BY DEF DropRequeued
  <2>. HIDE DEF t
  <2>. QED BY <2>1, <2>2, OnwardType DEF NamedTick
<1>4. CASE DropRequeue
  <2>1. /\ queue' \subseteq Entry /\ kv' \in [Jobs -> JobKeys]
        /\ hist' \in [Jobs -> JobHistory]
        /\ runs' \in [Runs -> Run] /\ RunsNamed' /\ NeverFreed
    BY <1>2, <1>4, RetryRequeueType DEF DropRequeue
  <2>2. RunsNamed' /\ MessagesNamed' /\ PollerNamed'
    BY <1>4, <2>1, NamesKept DEF DropRequeue
  <2>. QED BY <1>3, <1>4, <2>1, <2>2
           DEF DropRequeue, TypeInv, TypeOK, TickNamed, NamedTick
<1>5. CASE DropRequeueFails
  <2>1. faults' \in Nat /\ runs' \in [Runs -> Run] /\ RunsNamed' /\ NeverFreed
    BY <1>2, <1>5, RequeueFailsType DEF DropRequeueFails
  <2>2. kv' \in [Jobs -> JobKeys]
    BY <1>5, KeysType DEF DropRequeueFails, TypeInv, TypeOK
  <2>3. record' \in [Jobs -> JobRecord]
    BY <1>5, SettleFailedType DEF DropRequeueFails, TypeInv, TypeOK
  <2>4. RunsNamed' /\ MessagesNamed' /\ PollerNamed'
    BY <1>5, <2>1, NamesKept DEF DropRequeueFails
  <2>. QED BY <1>3, <1>5, <2>1, <2>2, <2>3, <2>4
           DEF DropRequeueFails, TypeInv, TypeOK, TickNamed, NamedTick, ghosts
<1>6. ASSUME NEW j \in Jobs, SweepFailed(j) PROVE TypeInv'
  <2>1. kv[j].url \in RunRef
    BY DEF TypeInv, TypeOK, JobKeys
  <2>2. runs' \in [Runs -> Run] /\ RunsNamed' /\ NeverFreed
    BY <1>6, <2>1, CancelRunType DEF SweepFailed, TypeInv, TypeOK
  <2>3. kv' \in [Jobs -> JobKeys] /\ pool' \in [Instances -> PoolRecord]
    BY <1>6, CancelType DEF SweepFailed, TypeInv, TypeOK
  <2>4. record' \in [Jobs -> JobRecord]
    BY <1>6, SettleFailedType DEF SweepFailed, TypeInv, TypeOK
  <2>5. RunsNamed' /\ MessagesNamed' /\ PollerNamed'
    BY <1>6, <2>2, NamesKept DEF SweepFailed
  <2>. QED BY <1>6, <2>2, <2>3, <2>4, <2>5
           DEF SweepFailed, TypeInv, TypeOK, TickNamed, NamedTick, ghosts
<1>. QED BY <1>1, <1>4, <1>5, <1>6

\* Entering scale-down gives well-formed locals that claim nothing.
LEMMA EnterScaleDownType ==
  ASSUME NEW p \in [Instances -> PoolRecord]
  PROVE  /\ EnterScaleDown(p) \in TickLocals
         /\ NamedTick(EnterScaleDown(p)) /\ EnterScaleDown(p).claim = {}
         /\ EnterScaleDown(p).pc # "requeue"
<1>. DEFINE todo == {i \in InPool(p) : \/ IdleAndAged(p[i]) \/ p[i].draining
                                       \/ i \in StuckCancelledHosts}
            t == [IdleTick EXCEPT !.pc = "scaleDown", !.snap = p,
                                  !.stuck = StuckCancelledHosts, !.todo = todo]
<1>1. todo \subseteq Instances /\ StuckCancelledHosts \subseteq Instances
  BY DEF InPool, StuckCancelledHosts
<1>2. t \in TickLocals /\ t.pc = "scaleDown" /\ t.claim = {}
  <2>. HIDE DEF todo
  <2>. QED BY <1>1, IdleTickType DEF TickLocals
<1>3. EnterScaleDown(p) = Onward(t)
  BY DEF EnterScaleDown
<1>. HIDE DEF t
<1>. QED BY <1>2, <1>3, OnwardType DEF NamedTick

\* Returning to the scale-down loop keeps the tick's locals well formed and
\* claims nothing new.
LEMMA KeptType ==
  ASSUME TypeInv, NEW i, NEW p, i \in Instances => p \in PoolRecord
  PROVE  /\ Kept(i, p) \in TickLocals /\ NamedTick(Kept(i, p))
         /\ Kept(i, p).claim \subseteq tick.claim
         /\ Kept(i, p).pc # "requeue"
<1>. DEFINE t == [tick EXCEPT !.pc = "scaleDown", !.cur = None, !.snap[i] = p,
                              !.back = "reconcile", !.real[i] = NoAnswer]
<1>1. NoAnswer \in Probe
  BY DEF NoAnswer, Probe
<1>2. t \in TickLocals /\ t.pc = "scaleDown" /\ t.claim = tick.claim
  <2>. HIDE DEF NoAnswer
  <2>. QED BY <1>1, ZenonT(30) DEF TypeInv, TypeOK, TickLocals, InstOrNone
<1>3. Kept(i, p) = Onward(t)
  BY DEF Kept
<1>. HIDE DEF t
<1>. QED BY <1>2, <1>3, OnwardType DEF NamedTick

\* Scaling up and down keeps the type invariant and the claim.
LEMMA ScaleType ==
  ASSUME TypeInv,
         \/ \E i \in Instances : ScaleUp(i) \/ ScaleDownKeep(i)
                                 \/ ScaleDownProbe(i)
         \/ NoScaleUp \/ ScaleUpStart \/ SpawnFails
         \/ ScaleDownDrain \/ ScaleDownRelease \/ ScaleDownDestroy
  PROVE  TypeInv' /\ ClaimKept
<1>1. ASSUME NEW i \in Instances, ScaleUp(i) PROVE TypeInv' /\ ClaimKept
  <2>1. /\ [pool EXCEPT ![i] = Fresh] \in [Instances -> PoolRecord]
        /\ [tick.snap EXCEPT ![i] = Fresh] \in [Instances -> PoolRecord]
    BY DEF TypeInv, TypeOK, TickLocals, PoolRecord, Fresh, Gone
  <2>2. tick' \in TickLocals /\ TickNamed' /\ ClaimKept
    BY <1>1, <2>1, EnterScaleDownType DEF ScaleUp, ClaimKept, TickNamed, NamedTick
  <2>3. RunsNamed' /\ MessagesNamed' /\ PollerNamed'
    BY <1>1, NamesUnchanged DEF ScaleUp
  <2>. QED BY <1>1, <2>1, <2>2, <2>3 DEF ScaleUp, TypeInv, TypeOK, ghosts
<1>2. CASE NoScaleUp
  <2>1. tick' \in TickLocals /\ TickNamed' /\ ClaimKept
    BY <1>2, EnterScaleDownType
    DEF NoScaleUp, ClaimKept, TickNamed, NamedTick, TypeInv, TypeOK
  <2>2. RunsNamed' /\ MessagesNamed' /\ PollerNamed'
    BY <1>2, NamesUnchanged DEF NoScaleUp, encore
  <2>3. faults' \in Nat
    BY <1>2 DEF NoScaleUp, TypeInv, TypeOK
  <2>. QED BY <1>2, <2>1, <2>2, <2>3
           DEF NoScaleUp, TypeInv, TypeOK, valkey, encore, ghosts
<1>3. CASE ScaleUpStart
  <2>1. tick' \in TickLocals /\ tick'.pc = "spawn" /\ tick'.claim = {}
    BY <1>3, IdleTickType DEF ScaleUpStart, TypeInv, TypeOK, TickLocals
  <2>2. RunsNamed' /\ MessagesNamed' /\ PollerNamed'
    BY <1>3, NamesUnchanged DEF ScaleUpStart, encore
  <2>. QED BY <1>3, <2>1, <2>2
           DEF ScaleUpStart, TypeInv, TypeOK, valkey, encore, ghosts, TickNamed,
               NamedTick, ClaimKept
<1>4. CASE SpawnFails
  <2>1. tick' \in TickLocals /\ TickNamed' /\ ClaimKept
    <3>1. tick.snap \in [Instances -> PoolRecord]
      BY DEF TypeInv, TypeOK, TickLocals
    <3>. QED BY <1>4, <3>1, EnterScaleDownType
             DEF SpawnFails, ClaimKept, TickNamed, NamedTick
  <2>2. RunsNamed' /\ MessagesNamed' /\ PollerNamed'
    BY <1>4, NamesUnchanged DEF SpawnFails, encore
  <2>3. faults' \in Nat
    BY <1>4 DEF SpawnFails, TypeInv, TypeOK
  <2>. QED BY <1>4, <2>1, <2>2, <2>3
           DEF SpawnFails, TypeInv, TypeOK, valkey, encore, ghosts
<1>5. ASSUME NEW i \in Instances, ScaleDownKeep(i) PROVE TypeInv' /\ ClaimKept
  <2>1. /\ [tick EXCEPT !.todo = @ \ {i}] \in TickLocals
        /\ [tick EXCEPT !.todo = @ \ {i}].pc = tick.pc
        /\ [tick EXCEPT !.todo = @ \ {i}].claim = tick.claim
    BY DEF TypeInv, TypeOK, TickLocals
  <2>2. tick' \in TickLocals /\ TickNamed' /\ ClaimKept
    BY <1>5, <2>1, OnwardType DEF ScaleDownKeep, ClaimKept, TickNamed, NamedTick
  <2>3. RunsNamed' /\ MessagesNamed' /\ PollerNamed'
    BY <1>5, NamesUnchanged DEF ScaleDownKeep, encore
  <2>4. faults' \in Nat
    BY <1>5 DEF ScaleDownKeep, TypeInv, TypeOK
  <2>. QED BY <1>5, <2>2, <2>3, <2>4
           DEF ScaleDownKeep, TypeInv, TypeOK, valkey, encore, ghosts
<1>6. ASSUME NEW i \in Instances, ScaleDownProbe(i) PROVE TypeInv' /\ ClaimKept
  <2>1. ProbeOf(i) \in Probe
    BY ProbeType DEF TypeInv, TypeOK
  <2>2. LostWith(i, ProbeOf(i).jobs) \subseteq Jobs
    BY DEF LostWith
  <2>. DEFINE t == [tick EXCEPT !.todo = @ \ {i}, !.cur = i,
                                !.real[i] = ProbeOf(i), !.back = "act",
                                !.lost = LostWith(i, ProbeOf(i).jobs)]
  <2>3. t \in TickLocals /\ t.cur = i /\ t.claim = tick.claim
    BY <2>1, <2>2 DEF TypeInv, TypeOK, TickLocals, InstOrNone
  <2>4. tick' \in TickLocals /\ TickNamed' /\ ClaimKept
    <3>1. tick' = Resume(t)
      BY <1>6 DEF ScaleDownProbe
    <3>. HIDE DEF t
    <3>. QED BY <2>3, <3>1, ResumeType DEF ClaimKept, TickNamed, NamedTick
  <2>5. RunsNamed' /\ MessagesNamed' /\ PollerNamed'
    BY <1>6, NamesUnchanged DEF ScaleDownProbe, encore
  <2>. QED BY <1>6, <2>4, <2>5
           DEF ScaleDownProbe, TypeInv, TypeOK, valkey, encore, ghosts
<1>7. CASE ScaleDownDrain
  <2>. DEFINE p == [tick.snap[tick.cur] EXCEPT
                      !.active = tick.real[tick.cur].count, !.draining = TRUE]
  <2>1. tick.cur \in Instances => p \in PoolRecord
    <3>1. tick.cur \in Instances => /\ tick.snap[tick.cur] \in PoolRecord
                                    /\ tick.real[tick.cur].count \in Nat
      BY DEF TypeInv, TypeOK, TickLocals, Probe
    <3>. QED BY <3>1 DEF PoolRecord
  <2>2. pool' = [pool EXCEPT ![tick.cur] = p] /\ tick' = Kept(tick.cur, p)
    BY <1>7 DEF ScaleDownDrain
  <2>. HIDE DEF p
  <2>3. pool' \in [Instances -> PoolRecord]
    BY <2>1, <2>2 DEF TypeInv, TypeOK
  <2>4. tick' \in TickLocals /\ TickNamed' /\ ClaimKept
    BY <2>1, <2>2, KeptType DEF ClaimKept, TickNamed, NamedTick
  <2>5. RunsNamed' /\ MessagesNamed' /\ PollerNamed'
    BY <1>7, NamesUnchanged DEF ScaleDownDrain, encore
  <2>. QED BY <1>7, <2>3, <2>4, <2>5
           DEF ScaleDownDrain, TypeInv, TypeOK, encore, ghosts
<1>8. CASE ScaleDownRelease
  <2>. DEFINE p == [tick.snap[tick.cur] EXCEPT
                      !.active = 0, !.draining = FALSE, !.cancelDrain = FALSE,
                      !.aged = @ /\ tick.snap[tick.cur].active = 0]
  <2>1. tick.cur \in Instances => p \in PoolRecord
    <3>1. tick.cur \in Instances => tick.snap[tick.cur] \in PoolRecord
      BY DEF TypeInv, TypeOK, TickLocals
    <3>. QED BY <3>1 DEF PoolRecord
  <2>2. pool' = [pool EXCEPT ![tick.cur] = p] /\ tick' = Kept(tick.cur, p)
    BY <1>8 DEF ScaleDownRelease
  <2>. HIDE DEF p
  <2>3. pool' \in [Instances -> PoolRecord]
    BY <2>1, <2>2 DEF TypeInv, TypeOK
  <2>4. tick' \in TickLocals /\ TickNamed' /\ ClaimKept
    BY <2>1, <2>2, KeptType DEF ClaimKept, TickNamed, NamedTick
  <2>5. RunsNamed' /\ MessagesNamed' /\ PollerNamed'
    BY <1>8, NamesUnchanged DEF ScaleDownRelease, encore
  <2>. QED BY <1>8, <2>3, <2>4, <2>5
           DEF ScaleDownRelease, TypeInv, TypeOK, encore, ghosts
<1>9. CASE ScaleDownDestroy
  <2>1. CASE BelowFloor
    <3>1. tick.cur \in Instances => tick.snap[tick.cur] \in PoolRecord
      BY DEF TypeInv, TypeOK, TickLocals
    <3>2. tick' = Kept(tick.cur, tick.snap[tick.cur])
          /\ UNCHANGED <<pool, alive, runs, killed>>
      BY <1>9, <2>1 DEF ScaleDownDestroy
    <3>3. tick' \in TickLocals /\ TickNamed' /\ ClaimKept
      BY <3>1, <3>2, KeptType DEF ClaimKept, TickNamed, NamedTick
    <3>4. RunsNamed' /\ MessagesNamed' /\ PollerNamed'
      BY <1>9, <3>2, NamesUnchanged DEF ScaleDownDestroy
    <3>. QED BY <1>9, <3>2, <3>3, <3>4 DEF ScaleDownDestroy, TypeInv, TypeOK
  <2>2. CASE ~BelowFloor
    <3>1. Gone \in PoolRecord
      BY DEF Gone, PoolRecord
    <3>2. /\ tick' = Kept(tick.cur, Gone)
          /\ pool' = [pool EXCEPT ![tick.cur] = Gone]
          /\ alive' = alive \ {tick.cur} /\ runs' = Destroyed(tick.cur)
          /\ \E s : s \subseteq Runs /\ killed' = killed \cup s
      BY <1>9, <2>2 DEF ScaleDownDestroy, ActiveRuns
    <3>3. tick' \in TickLocals /\ TickNamed' /\ ClaimKept
      BY <3>1, <3>2, KeptType DEF ClaimKept, TickNamed, NamedTick
    <3>4. pool' \in [Instances -> PoolRecord] /\ killed' \subseteq Runs
      BY <3>1, <3>2 DEF TypeInv, TypeOK
    <3>5. tick.cur \in Instances
      BY <1>9 DEF ScaleDownDestroy, TypeInv, TickNamed, NamedTick
    <3>6. runs' \in [Runs -> Run] /\ RunsNamed' /\ NeverFreed
      BY <3>2, <3>5, DestroyedType DEF TypeInv, TypeOK
    <3>7. RunsNamed' /\ MessagesNamed' /\ PollerNamed'
      BY <1>9, <3>6, NamesKept DEF ScaleDownDestroy
    <3>. QED BY <1>9, <3>2, <3>3, <3>4, <3>6, <3>7
             DEF ScaleDownDestroy, TypeInv, TypeOK
  <2>. QED BY <2>1, <2>2
<1>. QED BY <1>1, <1>2, <1>3, <1>4, <1>5, <1>6, <1>7, <1>8, <1>9

\* What dispatch writes after an accepted POST yields well-formed keys; the
\* mapping keeps a job's count and recordDispatch sets it.
LEMMA MappedType ==
  ASSUME TypeInv, NEW e \in tick.claim
  PROVE  LET k == Mapped(kv[e.job], tick.cur)
         IN  /\ e.job \in Jobs /\ k \in JobKeys /\ Counted(k, e) \in JobKeys
             /\ k.attempts = kv[e.job].attempts
             /\ Counted(k, e).attempts = e.attempts + 1
<1>. DEFINE k == Mapped(kv[e.job], tick.cur)
<1>1. /\ e.job \in Jobs /\ e.attempts + 1 \in Nat /\ tick.cur \in InstOrNone
      /\ kv[e.job] \in JobKeys
  <2>1. e \in Entry /\ tick.cur \in InstOrNone
    BY DEF TypeInv, TypeOK, TickLocals
  <2>. QED BY <2>1 DEF Entry, TypeInv, TypeOK
<1>2. k \in JobKeys /\ k.attempts = kv[e.job].attempts
  BY <1>1 DEF Mapped, JobKeys
<1>. HIDE DEF k
<1>3. Counted(k, e) \in JobKeys /\ Counted(k, e).attempts = e.attempts + 1
  BY <1>1, <1>2 DEF Counted, JobKeys
<1>. QED BY <1>1, <1>2, <1>3 DEF k

\* dispatch keeps the type invariant.
LEMMA DispatchType ==
  ASSUME TypeInv,
         \/ \E i \in Instances : DispatchNone(i) \/ DispatchClaim(i)
         \/ DispatchPost \/ DispatchRefused \/ DispatchRecord
         \/ DispatchRecordFails \/ DispatchUnclaim \/ DispatchCount
         \/ DispatchGiveBack
  PROVE  TypeInv'
<1>1. ASSUME NEW i \in Instances, DispatchNone(i) PROVE TypeInv'
  <2>1. /\ [tick EXCEPT !.todo = @ \ {i}] \in TickLocals
        /\ [tick EXCEPT !.todo = @ \ {i}].pc = tick.pc
    BY DEF TypeInv, TypeOK, TickLocals
  <2>2. tick' \in TickLocals /\ TickNamed'
    BY <1>1, <2>1, OnwardType DEF DispatchNone, TickNamed, NamedTick
  <2>3. RunsNamed' /\ MessagesNamed' /\ PollerNamed'
    BY <1>1, NamesUnchanged DEF DispatchNone, encore
  <2>4. faults' \in Nat
    BY <1>1 DEF DispatchNone, TypeInv, TypeOK
  <2>. QED BY <1>1, <2>2, <2>3, <2>4
           DEF DispatchNone, TypeInv, TypeOK, valkey, encore, ghosts
<1>2. ASSUME NEW i \in Instances, DispatchClaim(i) PROVE TypeInv'
  <2>1. PICK e \in queue :
          /\ queue' = queue \ {e} /\ inflight' = inflight \cup {e}
          /\ tick' = [tick EXCEPT !.pc = IF e.due THEN "post" ELSE "refused",
                                  !.cur = i, !.claim = {e}, !.todo = @ \ {i}]
    BY <1>2 DEF DispatchClaim
  <2>2. e \in Entry
    BY DEF TypeInv, TypeOK
  <2>3. tick' \in TickLocals /\ tick'.pc \in {"post", "refused"}
    BY <2>1, <2>2 DEF TypeInv, TypeOK, TickLocals, InstOrNone
  <2>4. RunsNamed' /\ MessagesNamed' /\ PollerNamed'
    BY <1>2, NamesUnchanged DEF DispatchClaim, encore
  <2>. QED BY <1>2, <2>1, <2>2, <2>3, <2>4
           DEF DispatchClaim, TypeInv, TypeOK, encore, ghosts, TickNamed,
               NamedTick
<1>3. CASE DispatchPost
  <2>1. PICK e \in tick.claim : StartRun(e.job, tick.cur)
    BY <1>3 DEF DispatchPost
  <2>2. PICK r \in Runs :
          /\ runs[r].st = "free"
          /\ runs' = [runs EXCEPT ![r] =
                        [st |-> "active", job |-> e.job, inst |-> tick.cur,
                         called |-> FALSE, known |-> FALSE]]
          /\ tick' = [tick EXCEPT !.pc = "record", !.run = r]
    BY <2>1 DEF StartRun
  <2>3. e.job \in Jobs /\ tick.cur \in Instances
    BY <1>3 DEF DispatchPost, TypeInv, TypeOK, TickLocals, Entry
  <2>4. runs' \in [Runs -> Run] /\ RunsNamed' /\ NeverFreed
    <3>1. [st |-> "active", job |-> e.job, inst |-> tick.cur,
           called |-> FALSE, known |-> FALSE] \in Run
      BY <2>3 DEF Run, JobOrNone, InstOrNone
    <3>. QED BY <2>2, <2>3, <3>1
             DEF TypeInv, TypeOK, RunsNamed, NamedRun, NeverFreed
  <2>5. tick' \in TickLocals /\ tick'.pc = "record"
    <3>1. r \in RunRef
      BY RunRefs
    <3>. QED BY <2>2, <3>1 DEF TypeInv, TypeOK, TickLocals
  <2>6. RunsNamed' /\ MessagesNamed' /\ PollerNamed'
    BY <1>3, <2>4, NamesKept DEF DispatchPost
  <2>. QED BY <1>3, <2>4, <2>5, <2>6
           DEF DispatchPost, TypeInv, TypeOK, valkey, ghosts, TickNamed,
               NamedTick
<1>4. CASE DispatchRefused
  <2>1. tick' \in TickLocals /\ tick'.pc = "refused"
    BY <1>4 DEF DispatchRefused, TypeInv, TypeOK, TickLocals
  <2>2. RunsNamed' /\ MessagesNamed' /\ PollerNamed'
    BY <1>4, NamesUnchanged DEF DispatchRefused, encore
  <2>3. faults' \in Nat
    BY <1>4 DEF DispatchRefused, TypeInv, TypeOK
  <2>. QED BY <1>4, <2>1, <2>2, <2>3
           DEF DispatchRefused, TypeInv, TypeOK, valkey, encore, ghosts,
               TickNamed, NamedTick
<1>5. CASE DispatchRecord
  <2>1. PICK e \in tick.claim, stored \in BOOLEAN, told \in BOOLEAN :
          /\ faults' \in {faults, faults + 1}
          /\ LET k == Mapped(kv[e.job], tick.cur)
                 c == IF stored THEN Counted(k, e) ELSE k
             IN  kv' = [kv EXCEPT ![e.job] = [c EXCEPT !.url = tick.run]]
          /\ record' = IF told /\ record[e.job].st = "queued"
                         THEN [record EXCEPT ![e.job].st = "running"]
                         ELSE record
    BY <1>5 DEF DispatchRecord
  <2>2. tick.run \in RunRef
    BY DEF TypeInv, TypeOK, TickLocals
  <2>3. kv' \in [Jobs -> JobKeys]
    <3>. DEFINE k == Mapped(kv[e.job], tick.cur)
                c == IF stored THEN Counted(k, e) ELSE k
    <3>1. c \in JobKeys
      BY MappedType
    <3>. HIDE DEF c
    <3>2. [c EXCEPT !.url = tick.run] \in JobKeys
      BY <2>2, <3>1 DEF JobKeys
    <3>3. kv' = [kv EXCEPT ![e.job] = [c EXCEPT !.url = tick.run]]
      BY <2>1 DEF c
    <3>. QED BY <3>2, <3>3 DEF TypeInv, TypeOK
  <2>4. record' \in [Jobs -> JobRecord] /\ faults' \in Nat
    <3>1. \A r \in JobRecord : [r EXCEPT !.st = "running"] \in JobRecord
      BY DEF JobRecord, JobStatus
    <3>2. \/ record' = record
          \/ record' = [record EXCEPT ![e.job] = [@ EXCEPT !.st = "running"]]
      BY <2>1
    <3>3. record \in [Jobs -> JobRecord] /\ faults \in Nat /\ e.job \in Jobs
      BY MappedType DEF TypeInv, TypeOK
    <3>4. record' \in [Jobs -> JobRecord]
      BY <3>1, <3>2, <3>3
    <3>5. faults' \in {faults, faults + 1}
      BY <2>1
    <3>. QED BY <3>3, <3>4, <3>5
  <2>5. runs' \in [Runs -> Run] /\ RunsNamed' /\ NeverFreed
    <3>. DEFINE v == [runs[tick.run] EXCEPT !.known = TRUE]
    <3>1. tick.run \in Runs => /\ v \in Run /\ v.st = runs[tick.run].st
                               /\ v.job = runs[tick.run].job
                               /\ v.inst = runs[tick.run].inst
      BY DEF TypeInv, TypeOK, Run
    <3>2. tick.run \in Runs => NamedRun(v)
      BY <3>1 DEF TypeInv, RunsNamed, NamedRun
    <3>3. runs' = [runs EXCEPT ![tick.run] = v]
      BY <1>5 DEF DispatchRecord
    <3>. HIDE DEF v
    <3>. QED BY <2>2, <3>1, <3>2, <3>3, RunUpdateType DEF TypeInv, TypeOK
  <2>6. tick' \in TickLocals /\ tick'.pc = "dispatched"
    BY <1>5 DEF DispatchRecord, TypeInv, TypeOK, TickLocals
  <2>7. RunsNamed' /\ MessagesNamed' /\ PollerNamed'
    BY <1>5, <2>5, NamesKept DEF DispatchRecord
  <2>. QED BY <1>5, <2>3, <2>4, <2>5, <2>6, <2>7
           DEF DispatchRecord, TypeInv, TypeOK, ghosts, TickNamed, NamedTick
<1>6. CASE DispatchRecordFails
  <2>1. kv' \in [Jobs -> JobKeys]
    <3>1. PICK e \in tick.claim :
            \/ UNCHANGED kv
            \/ kv' = [kv EXCEPT ![e.job] = Mapped(kv[e.job], tick.cur)]
            \/ kv' = [kv EXCEPT ![e.job] =
                         Counted(Mapped(kv[e.job], tick.cur), e)]
      BY <1>6 DEF DispatchRecordFails
    <3>. QED BY <3>1, MappedType DEF TypeInv, TypeOK
  <2>2. tick' \in TickLocals /\ tick'.pc = "refused"
    BY <1>6, RunRefs DEF DispatchRecordFails, TypeInv, TypeOK, TickLocals
  <2>3. RunsNamed' /\ MessagesNamed' /\ PollerNamed'
    BY <1>6, NamesUnchanged DEF DispatchRecordFails, encore
  <2>. QED BY <1>6, <2>1, <2>2, <2>3
           DEF DispatchRecordFails, TypeInv, TypeOK, encore, ghosts,
               TickNamed, NamedTick
<1>7. CASE DispatchCount
  <2>. DEFINE p == [tick.snap[tick.cur] EXCEPT !.active = @ + 1]
              t == [tick EXCEPT !.pc = "dispatch", !.cur = None,
                                !.snap[tick.cur] = p, !.claim = {}, !.run = 0]
  <2>1. tick.cur \in Instances => p \in PoolRecord
    <3>1. tick.cur \in Instances => tick.snap[tick.cur] \in PoolRecord
      BY DEF TypeInv, TypeOK, TickLocals
    <3>. QED BY <3>1 DEF PoolRecord
  <2>2. pool' = [pool EXCEPT ![tick.cur] = p] /\ tick' = Onward(t)
    BY <1>7 DEF DispatchCount
  <2>3. t \in TickLocals /\ t.pc = "dispatch"
    <3>. HIDE DEF p
    <3>. QED BY <2>1, RunRefs, ZenonT(30) DEF TypeInv, TypeOK, TickLocals, InstOrNone
  <2>. HIDE DEF p, t
  <2>4. pool' \in [Instances -> PoolRecord]
    BY <2>1, <2>2 DEF TypeInv, TypeOK
  <2>5. tick' \in TickLocals /\ TickNamed'
    BY <2>2, <2>3, OnwardType DEF TickNamed, NamedTick
  <2>6. RunsNamed' /\ MessagesNamed' /\ PollerNamed'
    BY <1>7, NamesUnchanged DEF DispatchCount, encore
  <2>. QED BY <1>7, <2>4, <2>5, <2>6
           DEF DispatchCount, TypeInv, TypeOK, encore, ghosts
<1>8. CASE DispatchGiveBack
  <2>. DEFINE t == [tick EXCEPT !.pc = "dispatch", !.cur = None, !.claim = {}]
  <2>1. t \in TickLocals /\ t.pc = "dispatch"
    BY DEF TypeInv, TypeOK, TickLocals, InstOrNone
  <2>2. tick' = Onward(t)
    BY <1>8 DEF DispatchGiveBack
  <2>. HIDE DEF t
  <2>3. tick' \in TickLocals /\ TickNamed'
    BY <2>1, <2>2, OnwardType DEF TickNamed, NamedTick
  <2>4. queue' \subseteq Entry
    BY <1>8 DEF DispatchGiveBack, TypeInv, TypeOK, TickLocals
  <2>5. RunsNamed' /\ MessagesNamed' /\ PollerNamed'
    BY <1>8, NamesUnchanged DEF DispatchGiveBack, encore
  <2>. QED BY <1>8, <2>3, <2>4, <2>5
           DEF DispatchGiveBack, TypeInv, TypeOK, encore, ghosts
<1>9. CASE DispatchUnclaim
  <2>1. tick' \in TickLocals /\ tick'.pc \in {"count", "giveBack"}
    BY <1>9 DEF DispatchUnclaim, TypeInv, TypeOK, TickLocals
  <2>2. RunsNamed' /\ MessagesNamed' /\ PollerNamed'
    BY <1>9, NamesUnchanged DEF DispatchUnclaim, encore
  <2>. QED BY <1>9, <2>1, <2>2
           DEF DispatchUnclaim, TypeInv, TypeOK, encore, ghosts, TickNamed,
               NamedTick
<1>. QED BY <1>1, <1>2, <1>3, <1>4, <1>5, <1>6, <1>7, <1>8, <1>9

-----------------------------------------------------------------------------
(* The poller. *)

\* The poller between two messages is well formed.
LEMMA IdlePollerType == IdlePoller \in PollerLocals /\ IdlePoller.pc = "idle"
<1>1. Gone \in PoolRecord
  BY DEF Gone, PoolRecord
<1>. QED BY <1>1, RunRefs
         DEF IdlePoller, PollerLocals, JobOrNone, InstOrNone, JobStatus

\* What a handler keeps after the settle is well formed, about the same message.
LEMMA SettledType ==
  ASSUME TypeInv
  PROVE  /\ Settled \in PollerLocals
         /\ Settled.run = poller.run /\ Settled.job = poller.job
<1>1. poller.run \in RunRef /\ poller.job \in JobOrNone
  BY DEF TypeInv, TypeOK, PollerLocals
<1>. QED BY <1>1, IdlePollerType DEF Settled, PollerLocals

\* A step of a handler that goes on with its message, ends, or puts it back.
HandlerMoves ==
  /\ poller' \in PollerLocals
  /\ poller'.pc # "idle" => /\ poller'.run = poller.run
                            /\ poller'.job = poller.job
  /\ msgs' \subseteq msgs \cup {poller.run}

\* A handler that keeps or returns its message keeps every name.
LEMMA HandlerNames ==
  ASSUME TypeInv, poller.pc # "idle", HandlerMoves, RunsNamed', NeverFreed
  PROVE  msgs' \subseteq Runs /\ MessagesNamed' /\ PollerNamed'
BY DEF TypeInv, TypeOK, HandlerMoves, NeverFreed, MessagesNamed, PollerNamed

\* decrementActiveJobs' read leaves well-formed locals about the same message.
LEMMA SlotReadType ==
  ASSUME TypeInv, NEW p \in PollerLocals, NEW i \in InstOrNone
  PROVE  /\ SlotRead(p, i) \in PollerLocals
         /\ SlotRead(p, i).run = p.run /\ SlotRead(p, i).job = p.job
<1>1. /\ [p EXCEPT !.pc = "count"] \in PollerLocals
      /\ [p EXCEPT !.pc = "count"].run = p.run
      /\ [p EXCEPT !.pc = "count"].job = p.job
  BY DEF PollerLocals
<1>2. ASSUME i # None
      PROVE  /\ [p EXCEPT !.pc = "count", !.inst = i, !.rec = pool[i]]
                \in PollerLocals
             /\ [p EXCEPT !.pc = "count", !.inst = i, !.rec = pool[i]].run = p.run
             /\ [p EXCEPT !.pc = "count", !.inst = i, !.rec = pool[i]].job = p.job
  <2>1. pool[i] \in PoolRecord
    BY <1>2 DEF TypeInv, TypeOK, InstOrNone
  <2>. QED BY <2>1 DEF PollerLocals
<1>. QED BY <1>1, <1>2 DEF SlotRead

\* completeTranscode leaves well-formed records and keeps or returns the
\* message.
LEMMA CompleteType ==
  ASSUME TypeInv, poller.pc # "idle", NEW term \in InstOrNone, NEW k \in JobKeys,
         Complete(poller.job, term, k)
  PROVE  record' \in [Jobs -> JobRecord] /\ HandlerMoves
<1>. DEFINE j == poller.job
            behind == poller.seen = "queued"
            cur == IF behind THEN [record[j] EXCEPT !.st = "running"]
                   ELSE record[j]
            applies == \/ cur.st \in {"queued", "running"}
                       \/ cur.st = "failed" /\ cur.dropped /\ poller.success
            written == [poller EXCEPT !.pc = "write", !.term = term]
<1>1. j \in Jobs
  BY DEF TypeInv, PollerNamed
<1>2. cur \in JobRecord
  BY <1>1 DEF TypeInv, TypeOK, JobRecord, JobStatus
<1>3. [st |-> "failed", dropped |-> FALSE] \in JobRecord
  BY DEF JobRecord, JobStatus
<1>4. /\ Settled \in PollerLocals
      /\ Settled.run = poller.run /\ Settled.job = poller.job
  BY SettledType
<1>5. /\ written \in PollerLocals
      /\ written.run = poller.run /\ written.job = poller.job
  BY DEF TypeInv, TypeOK, PollerLocals
<1>6. k.inst \in InstOrNone
  BY DEF JobKeys
<1>7. \/ record' = record
      \/ record' = [record EXCEPT ![j] = cur]
      \/ record' = [record EXCEPT ![j] = [st |-> "failed", dropped |-> FALSE]]
  BY DEF Complete
<1>8. \/ poller' = IdlePoller
      \/ poller' = written
      \/ poller' = SlotRead(Settled, k.inst)
  BY DEF Complete, PollThrow
<1>9. msgs' \subseteq msgs \cup {poller.run}
  BY DEF Complete, PollThrow
<1>. HIDE DEF cur, written
<1>10. record' \in [Jobs -> JobRecord]
  BY <1>2, <1>3, <1>7 DEF TypeInv, TypeOK
<1>11. HandlerMoves
  BY <1>4, <1>5, <1>6, <1>8, <1>9, IdlePollerType, SlotReadType DEF HandlerMoves
<1>. QED BY <1>10, <1>11

\* Popping a message and fetching its job keeps the type invariant.
LEMMA FetchType ==
  ASSUME TypeInv, NEW r \in Runs, PollFetch(r) \/ PollUnreachable(r)
  PROVE  TypeInv'
<1>1. runs[r].st # "free" /\ runs[r].job \in Jobs
  BY DEF TypeInv, MessagesNamed, RunsNamed, NamedRun, PollFetch,
         PollUnreachable
<1>2. ASSUME NEW s \in BOOLEAN, NEW t \in BOOLEAN
      PROVE  /\ Fetched(r, s, t) \in PollerLocals
             /\ Fetched(r, s, t).run = r
             /\ Fetched(r, s, t).job = runs[r].job
  <2>1. r \in RunRef /\ record[runs[r].job].st \in JobStatus
    BY <1>1, RunRefs DEF TypeInv, TypeOK, JobRecord
  <2>. QED BY <1>1, <2>1, IdlePollerType
           DEF Fetched, PollerLocals, JobOrNone
<1>3. \/ poller' = IdlePoller
      \/ \E s, t \in BOOLEAN : poller' = Fetched(r, s, t)
  BY DEF PollFetch, PollUnreachable
<1>4. poller' \in PollerLocals
  BY <1>2, <1>3, IdlePollerType
<1>5. RunsNamed' /\ MessagesNamed' /\ PollerNamed'
  <2>1. runs' = runs /\ msgs' \subseteq msgs
    BY DEF PollFetch, PollUnreachable
  <2>. QED BY <1>1, <1>2, <1>3, <2>1, IdlePollerType
           DEF TypeInv, RunsNamed, MessagesNamed, PollerNamed
<1>6. faults' \in Nat
  <2>1. faults' = faults \/ faults' = faults + 1
    BY DEF PollFetch, PollUnreachable
  <2>. QED BY <2>1 DEF TypeInv, TypeOK
<1>. QED BY <1>4, <1>5, <1>6
         DEF PollFetch, PollUnreachable, TypeInv, TypeOK, TickNamed, valkey,
             ghosts

\* Handling a fetched message keeps the type invariant.
LEMMA HandlerType ==
  ASSUME TypeInv,
         \/ PollSuccess \/ PollFailure \/ PollRetry \/ PollRequeue
         \/ PollRequeueFails \/ PollWrite \/ PollCount
  PROVE  TypeInv'
<1>1. /\ poller.pc # "idle" /\ poller.job \in Jobs
      /\ kv[poller.job] \in JobKeys
  BY DEF TypeInv, TypeOK, PollerNamed, PollSuccess, PollFailure, PollRetry,
         PollRequeue, PollRequeueFails, PollWrite, PollCount
<1>2. None \in InstOrNone /\ kv[poller.job].inst \in InstOrNone
  BY <1>1 DEF InstOrNone, JobKeys
<1>3. runs' = runs => RunsNamed' /\ NeverFreed
  BY DEF TypeInv, RunsNamed, NeverFreed
<1>4. CASE PollSuccess
  <2>1. kv' \in [Jobs -> JobKeys]
    BY <1>1, <1>4, KeysType DEF PollSuccess, TypeInv, TypeOK
  <2>2. record' \in [Jobs -> JobRecord] /\ HandlerMoves
    BY <1>1, <1>2, <1>4, CompleteType DEF PollSuccess
  <2>3. msgs' \subseteq Runs /\ RunsNamed' /\ MessagesNamed' /\ PollerNamed'
    BY <1>1, <1>3, <1>4, <2>2, HandlerNames DEF PollSuccess
  <2>. QED BY <1>4, <2>1, <2>2, <2>3
           DEF PollSuccess, TypeInv, TypeOK, HandlerMoves, TickNamed, ghosts
<1>5. CASE PollFailure
  <2>1. record' \in [Jobs -> JobRecord] /\ HandlerMoves
    BY <1>1, <1>2, <1>5, CompleteType DEF PollFailure
  <2>2. msgs' \subseteq Runs /\ RunsNamed' /\ MessagesNamed' /\ PollerNamed'
    BY <1>1, <1>3, <1>5, <2>1, HandlerNames DEF PollFailure
  <2>. QED BY <1>5, <2>1, <2>2
           DEF PollFailure, TypeInv, TypeOK, HandlerMoves, TickNamed, valkey,
               ghosts
<1>6. CASE PollRetry
  <2>1. AttemptsSoFar(poller.job) \in Nat
    BY <1>1, AttemptsType
  <2>. DEFINE p == [poller EXCEPT !.pc = "requeue",
                                  !.n = AttemptsSoFar(poller.job)]
  <2>2. p \in PollerLocals /\ p.run = poller.run /\ p.job = poller.job
    BY <2>1 DEF TypeInv, TypeOK, PollerLocals
  <2>3. poller' = IdlePoller \/ poller' = p
    BY <1>6 DEF PollRetry
  <2>4. HandlerMoves
    <3>. HIDE DEF p
    <3>. QED BY <1>6, <2>2, <2>3, IdlePollerType
             DEF HandlerMoves, PollRetry, encore
  <2>5. msgs' \subseteq Runs /\ RunsNamed' /\ MessagesNamed' /\ PollerNamed'
    BY <1>1, <1>3, <1>6, <2>4, HandlerNames DEF PollRetry, encore
  <2>. QED BY <1>6, <2>4, <2>5
           DEF PollRetry, TypeInv, TypeOK, HandlerMoves, TickNamed, valkey,
               encore, ghosts
<1>7. CASE PollRequeue
  <2>1. poller.n \in Nat /\ poller.term \in InstOrNone /\ poller \in PollerLocals
    BY DEF TypeInv, TypeOK, PollerLocals
  <2>2. /\ queue' \subseteq Entry /\ kv' \in [Jobs -> JobKeys]
        /\ hist' \in [Jobs -> JobHistory]
        /\ runs' \in [Runs -> Run] /\ RunsNamed' /\ NeverFreed
    BY <1>1, <1>7, <2>1, RetryRequeueType DEF PollRequeue
  <2>3. SlotInstance(Requeued(kv[poller.job])) \in InstOrNone
    <3>1. Requeued(kv[poller.job]) \in JobKeys
      BY <1>1, KeysType
    <3>. QED BY <2>1, <3>1 DEF SlotInstance, JobKeys
  <2>4. HandlerMoves
    BY <1>7, <2>1, <2>3, SlotReadType DEF HandlerMoves, PollRequeue
  <2>5. msgs' \subseteq Runs /\ MessagesNamed' /\ PollerNamed'
    BY <1>1, <2>2, <2>4, HandlerNames
  <2>. QED BY <1>7, <2>2, <2>4, <2>5
           DEF PollRequeue, TypeInv, TypeOK, HandlerMoves, TickNamed
<1>8. CASE PollRequeueFails
  <2>1. Requeued(kv[poller.job]) \in JobKeys
    BY <1>1, KeysType
  <2>2. kv' \in [Jobs -> JobKeys]
    BY <1>8, <2>1 DEF PollRequeueFails, TypeInv, TypeOK
  <2>3. faults' \in Nat /\ runs' \in [Runs -> Run] /\ RunsNamed' /\ NeverFreed
    BY <1>1, <1>8, RequeueFailsType DEF PollRequeueFails
  <2>4. record' \in [Jobs -> JobRecord] /\ HandlerMoves
    BY <1>1, <1>2, <1>8, <2>1, CompleteType DEF PollRequeueFails
  <2>5. msgs' \subseteq Runs /\ MessagesNamed' /\ PollerNamed'
    BY <1>1, <2>3, <2>4, HandlerNames
  <2>. QED BY <1>8, <2>2, <2>3, <2>4, <2>5
           DEF PollRequeueFails, TypeInv, TypeOK, HandlerMoves, TickNamed,
               ghosts
<1>9. CASE PollWrite
  <2>1. /\ Settled \in PollerLocals
        /\ Settled.run = poller.run /\ Settled.job = poller.job
        /\ poller.term \in InstOrNone
    BY SettledType DEF TypeInv, TypeOK, PollerLocals
  <2>2. \/ /\ record' = [record EXCEPT ![poller.job] =
                                 [st |-> "done", dropped |-> FALSE]]
           /\ kv' = [kv EXCEPT ![poller.job].pin =
                                 IF poller.term = None THEN @ ELSE poller.term]
           /\ poller' = SlotRead(Settled, SlotInstance(kv[poller.job]))
           /\ UNCHANGED msgs
        \/ PollThrow /\ UNCHANGED <<record, kv>>
    BY <1>9 DEF PollWrite
  <2>3. SlotInstance(kv[poller.job]) \in InstOrNone
    BY <1>2, <2>1 DEF SlotInstance
  <2>4. HandlerMoves
    BY <2>1, <2>2, <2>3, IdlePollerType, SlotReadType DEF HandlerMoves, PollThrow
  <2>5. record' \in [Jobs -> JobRecord]
    <3>1. [st |-> "done", dropped |-> FALSE] \in JobRecord
      BY DEF JobRecord, JobStatus
    <3>. QED BY <2>2, <3>1 DEF TypeInv, TypeOK
  <2>6. kv' \in [Jobs -> JobKeys]
    <3>1. [kv[poller.job] EXCEPT !.pin = IF poller.term = None THEN @
                                         ELSE poller.term] \in JobKeys
      BY <1>1, <2>1 DEF JobKeys
    <3>. QED BY <2>2, <3>1 DEF TypeInv, TypeOK
  <2>7. msgs' \subseteq Runs /\ RunsNamed' /\ MessagesNamed' /\ PollerNamed'
    BY <1>1, <1>3, <1>9, <2>4, HandlerNames DEF PollWrite
  <2>. QED BY <1>9, <2>4, <2>5, <2>6, <2>7
           DEF PollWrite, TypeInv, TypeOK, HandlerMoves, TickNamed, ghosts
<1>10. CASE PollCount
  <2>1. Decremented(poller.rec) \in PoolRecord
    <3>1. poller.rec \in PoolRecord
      BY DEF TypeInv, TypeOK, PollerLocals
    <3>2. poller.rec.active \in Nat
      BY <3>1 DEF PoolRecord
    <3>3. (IF poller.rec.active = 0 THEN 0 ELSE poller.rec.active - 1) \in Nat
      BY <3>2
    <3>. QED BY <3>1, <3>3 DEF Decremented, PoolRecord
  <2>2. pool' \in [Instances -> PoolRecord]
    BY <1>10, <2>1 DEF PollCount, TypeInv, TypeOK
  <2>3. kv' \in [Jobs -> JobKeys]
    BY <1>1, <1>10, KeysType DEF PollCount, TypeInv, TypeOK
  <2>4. HandlerMoves
    BY <1>10, IdlePollerType DEF HandlerMoves, PollCount, encore
  <2>5. msgs' \subseteq Runs /\ RunsNamed' /\ MessagesNamed' /\ PollerNamed'
    BY <1>1, <1>3, <1>10, <2>4, HandlerNames DEF PollCount, encore
  <2>. QED BY <1>10, <2>2, <2>3, <2>4, <2>5
           DEF PollCount, TypeInv, TypeOK, HandlerMoves, TickNamed, encore,
               ghosts
<1>. QED BY <1>4, <1>5, <1>6, <1>7, <1>8, <1>9, <1>10

-----------------------------------------------------------------------------
(* The sweep timer, the API and the environment. *)

\* The sweep timer keeps the type invariant.
LEMMA SweepType ==
  ASSUME TypeInv, NEW r \in Runs, SweepTerminalJob(r) \/ StallDetected(r)
  PROVE  TypeInv'
<1>1. CASE SweepTerminalJob(r)
  <2>1. runs[r].st # "free" /\ msgs' = msgs \cup {r} /\ runs' = runs
        /\ poller' = poller
    BY <1>1 DEF SweepTerminalJob, Swept
  <2>2. RunsNamed' /\ MessagesNamed' /\ PollerNamed'
    BY <2>1 DEF TypeInv, RunsNamed, MessagesNamed, PollerNamed
  <2>. QED BY <1>1, <2>1, <2>2
           DEF SweepTerminalJob, TypeInv, TypeOK, TickNamed, valkey, ghosts
<1>2. CASE StallDetected(r)
  <2>1. runs[r].job \in Jobs
    BY <1>2 DEF StallDetected, TypeInv, RunsNamed, NamedRun
  <2>2. AttemptsSoFar(runs[r].job) \in Nat
    BY <2>1, AttemptsType
  <2>3. \/ /\ SettleFailed(runs[r].job, TRUE)
           /\ kv' = [kv EXCEPT ![runs[r].job] = Cleared(@)]
           /\ UNCHANGED <<queue, runs, hist>>
        \/ /\ RetryRequeue(runs[r].job, AttemptsSoFar(runs[r].job))
           /\ UNCHANGED record
    BY <1>2 DEF StallDetected
  <2>4. /\ queue' \subseteq Entry /\ kv' \in [Jobs -> JobKeys]
        /\ hist' \in [Jobs -> JobHistory]
        /\ runs' \in [Runs -> Run] /\ RunsNamed' /\ NeverFreed
        /\ record' \in [Jobs -> JobRecord]
    <3>1. CASE /\ SettleFailed(runs[r].job, TRUE)
               /\ kv' = [kv EXCEPT ![runs[r].job] = Cleared(@)]
               /\ UNCHANGED <<queue, runs, hist>>
      <4>1. kv' \in [Jobs -> JobKeys]
        BY <2>1, <3>1, KeysType DEF TypeInv, TypeOK
      <4>2. record' \in [Jobs -> JobRecord]
        BY <3>1, SettleFailedType DEF TypeInv, TypeOK
      <4>. QED BY <3>1, <4>1, <4>2 DEF TypeInv, TypeOK, RunsNamed, NeverFreed
    <3>2. CASE /\ RetryRequeue(runs[r].job, AttemptsSoFar(runs[r].job))
               /\ UNCHANGED record
      BY <2>1, <2>2, <3>2, RetryRequeueType DEF TypeInv, TypeOK
    <3>. QED BY <2>3, <3>1, <3>2
  <2>5. RunsNamed' /\ MessagesNamed' /\ PollerNamed'
    BY <1>2, <2>4, NamesKept DEF StallDetected
  <2>6. faults' \in Nat
    BY <1>2 DEF StallDetected, TypeInv, TypeOK
  <2>. QED BY <1>2, <2>4, <2>5, <2>6
           DEF StallDetected, TypeInv, TypeOK, TickNamed
<1>. QED BY <1>1, <1>2

\* Submits and cancels keep the type invariant.
LEMMA ApiType ==
  ASSUME TypeInv, ApiStep
  PROVE  TypeInv'
<1>1. ASSUME NEW j \in Jobs, Submit(j) \/ SubmitRejected(j) \/ SubmitTimesOut(j)
      PROVE  TypeInv'
  <2>1. queue' \subseteq Entry
    <3>1. UNCHANGED queue \/ Push(j, 0, TRUE)
      BY <1>1 DEF Submit, SubmitRejected, SubmitTimesOut, valkey
    <3>. QED BY <3>1, PushType DEF TypeInv, TypeOK
  <2>2. record' \in [Jobs -> JobRecord]
    <3>1. \/ record' = [record EXCEPT ![j].st = "queued"]
          \/ record' = [record EXCEPT ![j].st = "failed"]
      BY <1>1 DEF Submit, SubmitRejected, SubmitTimesOut
    <3>2. record \in [Jobs -> JobRecord]
      BY DEF TypeInv, TypeOK
    <3>. QED BY <3>1, <3>2 DEF JobRecord, JobStatus
  <2>3. kv' \in [Jobs -> JobKeys]
    <3>1. [kv EXCEPT ![j].status = "QUEUED"] \in [Jobs -> JobKeys]
      BY DEF TypeInv, TypeOK, JobKeys
    <3>2. UNCHANGED kv \/ kv' = [kv EXCEPT ![j].status = "QUEUED"]
      BY <1>1 DEF Submit, SubmitRejected, SubmitTimesOut, valkey
    <3>. QED BY <3>1, <3>2 DEF TypeInv, TypeOK
  <2>4. faults' \in Nat
    <3>1. faults' = faults \/ faults' = faults + 1
      BY <1>1 DEF Submit, SubmitRejected, SubmitTimesOut
    <3>. QED BY <3>1 DEF TypeInv, TypeOK
  <2>5. UNCHANGED <<inflight, pool, alive, runs, msgs, tick, poller,
                    canceller, hist, killed, mislaid, crashes>>
    BY <1>1 DEF Submit, SubmitRejected, SubmitTimesOut, valkey, encore, ghosts
  <2>6. RunsNamed' /\ MessagesNamed' /\ PollerNamed'
    BY <2>5, NamesUnchanged
  <2>. QED BY <2>1, <2>2, <2>3, <2>4, <2>5, <2>6
           DEF TypeInv, TypeOK, TickNamed
<1>2. ASSUME NEW j \in Jobs, CancelStart(j) PROVE TypeInv'
  <2>1. kv[j].url \in RunRef
    BY DEF TypeInv, TypeOK, JobKeys
  <2>2. runs' \in [Runs -> Run] /\ RunsNamed' /\ NeverFreed
    BY <1>2, <2>1, CancelRunType DEF CancelStart, TypeInv, TypeOK
  <2>3. canceller' \in CancellerLocals
    BY <1>2, <2>1 DEF CancelStart, CancellerLocals, JobOrNone
  <2>4. RunsNamed' /\ MessagesNamed' /\ PollerNamed'
    BY <1>2, <2>2, NamesKept DEF CancelStart
  <2>. QED BY <1>2, <2>2, <2>3, <2>4
           DEF CancelStart, TypeInv, TypeOK, TickNamed, ghosts
<1>3. CASE CancelMark
  <2>1. kv' \in [Jobs -> JobKeys] /\ pool' \in [Instances -> PoolRecord]
    BY <1>3, CancelType DEF CancelMark, TypeInv, TypeOK
  <2>2. canceller' \in CancellerLocals
    BY <1>3 DEF CancelMark, TypeInv, TypeOK, CancellerLocals
  <2>3. RunsNamed' /\ MessagesNamed' /\ PollerNamed'
    BY <1>3, NamesUnchanged DEF CancelMark, encore
  <2>. QED BY <1>3, <2>1, <2>2, <2>3
           DEF CancelMark, TypeInv, TypeOK, TickNamed, encore, ghosts
<1>4. CASE CancelSave \/ CancelFail
  <2>1. record' \in [Jobs -> JobRecord]
    BY <1>4 DEF CancelSave, CancelFail, TypeInv, TypeOK, JobRecord, JobStatus
  <2>2. canceller' \in CancellerLocals
    BY <1>4, RunRefs
    DEF CancelSave, CancelFail, IdleCanceller, CancellerLocals, JobOrNone
  <2>3. RunsNamed' /\ MessagesNamed' /\ PollerNamed'
    BY <1>4, NamesUnchanged DEF CancelSave, CancelFail, encore
  <2>. QED BY <1>4, <2>1, <2>2, <2>3
           DEF CancelSave, CancelFail, TypeInv, TypeOK, TickNamed, valkey,
               encore, ghosts
<1>5. CASE CancelThrows \/ \E j \in Jobs : CancelJob(j) \/ CancelUndrained(j)
  <2>1. canceller' \in CancellerLocals
    BY <1>5, RunRefs DEF CancelJob, CancelUndrained, CancelThrows, TypeInv,
                         TypeOK, CancellerLocals, JobOrNone
  <2>2. RunsNamed' /\ MessagesNamed' /\ PollerNamed'
    BY <1>5, NamesUnchanged DEF CancelJob, CancelUndrained, CancelThrows, encore
  <2>. QED BY <1>5, <2>1, <2>2
           DEF CancelJob, CancelUndrained, CancelThrows, TypeInv, TypeOK,
               TickNamed, valkey, encore, ghosts
<1>. QED BY <1>1, <1>2, <1>3, <1>4, <1>5 DEF ApiStep

\* Encore, OSC, the timers and a restart keep the type invariant.
LEMMA EnvironmentType ==
  ASSUME TypeInv, Environment
  PROVE  TypeInv'
<1>1. ASSUME NEW r \in Runs, RunEnds(r) PROVE TypeInv'
  <2>1. PICK st \in {"ok", "transport", "fatal"} :
          /\ faults' = faults \/ faults' = faults + 1
          /\ runs' = [runs EXCEPT ![r].st = st]
          /\ hist' = [hist EXCEPT ![runs[r].job].encoded = @ \/ st = "ok"]
    BY <1>1 DEF RunEnds
  <2>. DEFINE v == [runs[r] EXCEPT !.st = st]
  <2>2. v \in Run /\ v.st # "free" /\ v.job = runs[r].job /\ v.inst = runs[r].inst
    BY DEF TypeInv, TypeOK, Run, Finished
  <2>3. NamedRun(v)
    BY <1>1, <2>2 DEF RunEnds, TypeInv, RunsNamed, NamedRun
  <2>4. runs' = [runs EXCEPT ![r] = v]
    BY <2>1
  <2>. HIDE DEF v
  <2>5. runs' \in [Runs -> Run] /\ RunsNamed' /\ NeverFreed
    BY <2>2, <2>3, <2>4, RunRefs, RunUpdateType DEF TypeInv, TypeOK
  <2>6. RunsNamed' /\ MessagesNamed' /\ PollerNamed'
    BY <1>1, <2>5, NamesKept DEF RunEnds
  <2>7. hist' \in [Jobs -> JobHistory] /\ faults' \in Nat
    <3>1. \A j \in Jobs : [hist[j] EXCEPT !.encoded = @ \/ st = "ok"] \in JobHistory
      BY DEF TypeInv, TypeOK, JobHistory
    <3>2. hist' = [hist EXCEPT ![runs[r].job] =
                     [hist[runs[r].job] EXCEPT !.encoded = @ \/ st = "ok"]]
      BY <2>1
    <3>3. [hist[runs[r].job] EXCEPT !.encoded = @ \/ st = "ok"] \in JobHistory
      BY <1>1, <3>1 DEF RunEnds, TypeInv, RunsNamed, NamedRun
    <3>4. hist' \in [Jobs -> JobHistory]
      BY <3>2, <3>3 DEF TypeInv, TypeOK
    <3>. QED BY <2>1, <3>4 DEF TypeInv, TypeOK
  <2>. QED BY <1>1, <2>5, <2>6, <2>7
           DEF RunEnds, TypeInv, TypeOK, TickNamed, valkey
<1>2. ASSUME NEW r \in Runs, EncoreCallback(r) PROVE TypeInv'
  <2>. DEFINE v == [runs[r] EXCEPT !.called = TRUE]
  <2>1. /\ v \in Run /\ v.st = runs[r].st /\ v.job = runs[r].job
        /\ v.inst = runs[r].inst
    BY DEF TypeInv, TypeOK, Run
  <2>2. NamedRun(v)
    BY <2>1 DEF TypeInv, RunsNamed, NamedRun
  <2>3. runs' = [runs EXCEPT ![r] = v]
    BY <1>2 DEF EncoreCallback
  <2>. HIDE DEF v
  <2>4. runs' \in [Runs -> Run] /\ RunsNamed' /\ NeverFreed
    BY <2>1, <2>2, <2>3, RunRefs, RunUpdateType DEF TypeInv, TypeOK
  <2>5. MessagesNamed' /\ PollerNamed'
    BY <1>2, <2>4 DEF EncoreCallback, TypeInv, TypeOK, NeverFreed,
                      MessagesNamed, PollerNamed
  <2>. QED BY <1>2, <2>4, <2>5
           DEF EncoreCallback, TypeInv, TypeOK, TickNamed, valkey, ghosts
<1>3. ASSUME NEW i \in Instances, InstanceVanishes(i) PROVE TypeInv'
  <2>1. runs' \in [Runs -> Run] /\ RunsNamed' /\ NeverFreed
    BY <1>3, DestroyedType DEF InstanceVanishes, TypeInv, TypeOK
  <2>2. RunsNamed' /\ MessagesNamed' /\ PollerNamed'
    BY <1>3, <2>1, NamesKept DEF InstanceVanishes
  <2>3. faults' \in Nat
    BY <1>3 DEF InstanceVanishes, TypeInv, TypeOK
  <2>. QED BY <1>3, <2>1, <2>2, <2>3
           DEF InstanceVanishes, TypeInv, TypeOK, TickNamed, valkey, ghosts
<1>4. ASSUME NEW i \in Instances, IdleTimeElapses(i) PROVE TypeInv'
  <2>1. pool' \in [Instances -> PoolRecord]
    BY <1>4 DEF IdleTimeElapses, TypeInv, TypeOK, PoolRecord
  <2>2. RunsNamed' /\ MessagesNamed' /\ PollerNamed'
    BY <1>4, NamesUnchanged DEF IdleTimeElapses, encore
  <2>. QED BY <1>4, <2>1, <2>2
           DEF IdleTimeElapses, TypeInv, TypeOK, TickNamed, encore, ghosts
<1>5. ASSUME NEW e \in queue \cup tick.claim, BackoffElapses(e) PROVE TypeInv'
  <2>. DEFINE elapsed(S) == {IF f = e THEN [e EXCEPT !.due = TRUE] ELSE f : f \in S}
  <2>1. ASSUME NEW S, S \subseteq Entry PROVE elapsed(S) \subseteq Entry
    <3>1. [e EXCEPT !.due = TRUE] \in Entry
      <4>1. e \in Entry
        BY DEF TypeInv, TypeOK, TickLocals
      <4>. QED BY <4>1 DEF Entry
    <3>. QED BY <2>1, <3>1
  <2>3. /\ queue' = elapsed(queue) /\ inflight' = elapsed(inflight)
        /\ tick' = [tick EXCEPT !.claim = elapsed(tick.claim)]
    BY <1>5 DEF BackoffElapses
  <2>. HIDE DEF elapsed
  <2>4. tick.claim \subseteq Entry
    BY DEF TypeInv, TypeOK, TickLocals
  <2>5. elapsed(tick.claim) \subseteq Entry
    BY <2>1, <2>4
  <2>6. /\ tick' \in TickLocals /\ tick'.pc = tick.pc /\ tick'.job = tick.job
        /\ tick'.back = tick.back /\ tick'.cur = tick.cur
    BY <2>3, <2>5 DEF TypeInv, TypeOK, TickLocals
  <2>7. TickNamed'
    BY <2>6 DEF TypeInv, TickNamed, NamedTick
  <2>8. queue' \subseteq Entry /\ inflight' \subseteq Entry
    BY <2>1, <2>3 DEF TypeInv, TypeOK
  <2>2. RunsNamed' /\ MessagesNamed' /\ PollerNamed'
    BY <1>5, NamesUnchanged DEF BackoffElapses, encore
  <2>. QED BY <1>5, <2>2, <2>6, <2>7, <2>8
           DEF BackoffElapses, TypeInv, TypeOK, encore, ghosts
<1>6. ASSUME NEW j \in Jobs, GraceElapses(j) \/ GateExpires(j) \/ PinReleased(j)
      PROVE  TypeInv'
  <2>1. kv[j] \in JobKeys /\ 0 \in 0 .. 1 /\ None \in InstOrNone
    BY DEF TypeInv, TypeOK, InstOrNone
  <2>2. /\ [kv[j] EXCEPT !.cancelReq = "ripe"] \in JobKeys
        /\ [kv[j] EXCEPT !.passes = 0] \in JobKeys
        /\ [kv[j] EXCEPT !.pin = None] \in JobKeys
    BY <2>1 DEF JobKeys
  <2>3. \/ kv' = [kv EXCEPT ![j] = [kv[j] EXCEPT !.cancelReq = "ripe"]]
        \/ kv' = [kv EXCEPT ![j] = [kv[j] EXCEPT !.passes = 0]]
        \/ kv' = [kv EXCEPT ![j] = [kv[j] EXCEPT !.pin = None]]
    BY <1>6 DEF GraceElapses, GateExpires, PinReleased
  <2>4. kv' \in [Jobs -> JobKeys]
    BY <2>2, <2>3 DEF TypeInv, TypeOK
  <2>5. RunsNamed' /\ MessagesNamed' /\ PollerNamed'
    BY <1>6, NamesUnchanged DEF GraceElapses, GateExpires, PinReleased, encore
  <2>. QED BY <1>6, <2>4, <2>5
           DEF GraceElapses, GateExpires, PinReleased, TypeInv, TypeOK,
               TickNamed, encore, ghosts
<1>7. CASE Crash
  <2>1. runs' = runs /\ tick' = IdleTick /\ poller' = IdlePoller
        /\ canceller' = IdleCanceller /\ crashes' = crashes + 1
        /\ msgs' \subseteq IF poller.pc = "idle" THEN msgs
                           ELSE msgs \cup {poller.run}
    BY <1>7 DEF Crash
  <2>2. msgs' \subseteq Runs /\ RunsNamed' /\ MessagesNamed' /\ PollerNamed'
    BY <2>1, IdlePollerType DEF TypeInv, TypeOK, RunsNamed, MessagesNamed, PollerNamed
  <2>3. canceller' \in CancellerLocals
    BY <2>1, RunRefs DEF IdleCanceller, CancellerLocals, JobOrNone
  <2>4. TickNamed' /\ tick' \in TickLocals /\ poller' \in PollerLocals
    BY <2>1, IdleTickType, IdlePollerType DEF TickNamed, NamedTick
  <2>. QED BY <1>7, <2>1, <2>2, <2>3, <2>4
           DEF Crash, TypeInv, TypeOK, valkey, ghosts
<1>. QED BY <1>1, <1>2, <1>3, <1>4, <1>5, <1>6, <1>7 DEF Environment

-----------------------------------------------------------------------------

\* The type invariant holds initially.
LEMMA InitType == Init => TypeInv
<1>. SUFFICES ASSUME Init PROVE TypeInv
  OBVIOUS
<1>1. NoKeys \in JobKeys
  <2>1. 0 \in 0 .. 1
    OBVIOUS
  <2>. QED BY <2>1, RunRefs DEF NoKeys, JobKeys, InstOrNone
<1>2. Gone \in PoolRecord
  BY DEF Gone, PoolRecord
<1>3. FreeRun \in Run
  BY DEF FreeRun, Run, JobOrNone, InstOrNone
<1>4. canceller \in CancellerLocals
  BY RunRefs DEF Init, IdleCanceller, CancellerLocals, JobOrNone
<1>5. TypeOK
  BY <1>1, <1>2, <1>3, <1>4, IdleTickType, IdlePollerType
  DEF Init, TypeOK, JobRecord, JobStatus, JobHistory
<1>6. RunsNamed /\ MessagesNamed /\ TickNamed /\ PollerNamed
  BY IdleTickType, IdlePollerType
  DEF Init, FreeRun, RunsNamed, NamedRun, MessagesNamed, TickNamed, NamedTick,
      PollerNamed
<1>. QED BY <1>5, <1>6 DEF TypeInv

\* Every step keeps the type invariant.
LEMMA NextType == TypeInv /\ [Next]_vars => TypeInv'
<1>. SUFFICES ASSUME TypeInv, [Next]_vars PROVE TypeInv'
  OBVIOUS
<1>1. CASE TickStep
  BY <1>1, InterruptType, FailsType, ReconcileType, DropType, ScaleType,
     DispatchType DEF TickStep, TickFails
<1>2. CASE PollerStep
  BY <1>2, FetchType, HandlerType DEF PollerStep
<1>3. CASE SweepStep
  BY <1>3, SweepType DEF SweepStep
<1>4. CASE ApiStep
  BY <1>4, ApiType
<1>5. CASE Environment
  BY <1>5, EnvironmentType
<1>6. CASE UNCHANGED vars
  BY <1>6 DEF vars, TypeInv, TypeOK, RunsNamed, MessagesNamed, TickNamed,
              PollerNamed
<1>. QED BY <1>1, <1>2, <1>3, <1>4, <1>5, <1>6 DEF Next

\* The encode path keeps its shape (TypeOK) in every reachable state, for any
\* number of jobs, instances, encodes, faults and restarts.
THEOREM TypeCorrect == Spec => []TypeOK
<1>1. TypeInv => TypeOK
  BY DEF TypeInv
<1>. QED BY <1>1, InitType, NextType, PTL DEF Spec

-----------------------------------------------------------------------------
\* The inductive type invariant holds in every reachable state: keys, records,
\* messages and the locals of tick and poller name real jobs, encodes and
\* instances.
THEOREM TypeInvariance == Spec => []TypeInv
BY InitType, NextType, PTL DEF Spec

-----------------------------------------------------------------------------
(* A cancelled record is written by nobody. *)

CancelledStays ==
  \A j \in Jobs : record[j].st = "cancelled" => record'[j].st = "cancelled"

\* Settling a failure leaves a cancelled record alone.
LEMMA SettleFailedSparesCancelled ==
  ASSUME TypeInv, NEW j, NEW drop, SettleFailed(j, drop)
  PROVE  CancelledStays
BY DEF SettleFailed, IsTerminal, CancelledStays, TypeInv, TypeOK

\* completeTranscode leaves a cancelled record alone, although the status it
\* advances from was read at the fetch.
LEMMA CompleteSparesCancelled ==
  ASSUME TypeInv, NEW j \in Jobs, NEW term, NEW k, Complete(j, term, k)
  PROVE  CancelledStays
<1>1. ASSUME record[j].st = "cancelled" PROVE record' = record
  <2>1. CASE poller.seen = "queued"
    BY <1>1, <2>1 DEF Complete, IsValidJobTransition, AllowedNext
  <2>2. CASE poller.seen # "queued"
    <3>1. record' = [record EXCEPT ![j] = record[j]]
      BY <1>1, <2>2 DEF Complete
    <3>. QED BY <3>1 DEF TypeInv, TypeOK
  <2>. QED BY <2>1, <2>2
<1>2. \A i \in Jobs : i # j => record'[i] = record[i]
  BY DEF Complete, TypeInv, TypeOK
<1>. QED BY <1>1, <1>2 DEF CancelledStays

\* A step that writes no record overturns no cancel.
LEMMA RecordUnchanged ==
  ASSUME UNCHANGED record
  PROVE  CancelledStays
BY DEF CancelledStays

\* No step writes a cancelled record.
LEMMA NextSparesCancelled == TypeInv /\ [Next]_vars => CancelledStays
<1>. SUFFICES ASSUME TypeInv, [Next]_vars PROVE CancelledStays
  OBVIOUS
<1>1. CASE TickStep
  <2>1. CASE \E j \in Jobs : InterruptLost(j) \/ SweepFailed(j)
    BY <2>1, SettleFailedSparesCancelled, RecordUnchanged
    DEF InterruptLost, SweepFailed
  <2>2. CASE \E d \in [job : Jobs, retryable : BOOLEAN] : SettleDrop(d)
    BY <2>2, SettleFailedSparesCancelled, RecordUnchanged DEF SettleDrop
  <2>3. CASE DropRequeueFails
    BY <2>3, SettleFailedSparesCancelled DEF DropRequeueFails
  <2>4. CASE DispatchRecord
    BY <2>4 DEF DispatchRecord, CancelledStays, TypeInv, TypeOK
  <2>5. CASE \/ TickStart \/ ReconcileEnd
             \/ \E i \in Instances : EvictVanished(i) \/ ReconcileInstance(i)
             \/ \E j \in Jobs : InterruptRequeue(j)
             \/ DropRequeue
    BY <2>5, RecordUnchanged
    DEF TickStart, ReconcileEnd, EvictVanished, ReconcileInstance,
        InterruptRequeue, DropRequeue
  <2>6. CASE \/ \E i \in Instances : ScaleUp(i) \/ ScaleDownKeep(i)
                                     \/ ScaleDownProbe(i)
             \/ NoScaleUp \/ ScaleUpStart \/ SpawnFails
             \/ ScaleDownDrain \/ ScaleDownRelease \/ ScaleDownDestroy
    BY <2>6, RecordUnchanged
    DEF ScaleUp, ScaleDownKeep, ScaleDownProbe, NoScaleUp, ScaleUpStart,
        SpawnFails, ScaleDownDrain, ScaleDownRelease, ScaleDownDestroy
  <2>7. CASE \/ \E i \in Instances : DispatchNone(i) \/ DispatchClaim(i)
             \/ DispatchPost \/ DispatchRefused \/ DispatchRecordFails
             \/ DispatchUnclaim \/ DispatchCount \/ DispatchGiveBack
    BY <2>7, RecordUnchanged
    DEF DispatchNone, DispatchClaim, DispatchPost, DispatchRefused,
        DispatchRecordFails, DispatchUnclaim, DispatchCount, DispatchGiveBack
  <2>8. CASE TickFails
    BY <2>8, FailsQuietly, RecordUnchanged
  <2>. QED BY <1>1, <2>1, <2>2, <2>3, <2>4, <2>5, <2>6, <2>7, <2>8
           DEF TickStep, TickFails
<1>2. CASE PollerStep
  <2>1. CASE PollSuccess \/ PollFailure \/ PollRequeueFails
    <3>1. poller.job \in Jobs
      BY <2>1 DEF PollSuccess, PollFailure, PollRequeueFails, TypeInv,
                  PollerNamed
    <3>. QED BY <2>1, <3>1, CompleteSparesCancelled
             DEF PollSuccess, PollFailure, PollRequeueFails
  <2>2. CASE PollWrite
    BY <2>2 DEF PollWrite, IsValidJobTransition, AllowedNext, CancelledStays,
                TypeInv, TypeOK
  <2>3. CASE \/ \E r \in Runs : PollFetch(r) \/ PollUnreachable(r)
             \/ PollRetry \/ PollRequeue \/ PollCount
    BY <2>3, RecordUnchanged
    DEF PollFetch, PollUnreachable, PollRetry, PollRequeue, PollCount
  <2>. QED BY <1>2, <2>1, <2>2, <2>3 DEF PollerStep
<1>3. CASE SweepStep
  BY <1>3, SettleFailedSparesCancelled, RecordUnchanged
  DEF SweepStep, SweepTerminalJob, StallDetected
<1>4. CASE ApiStep
  <2>1. ASSUME NEW j \in Jobs, Submit(j) \/ SubmitRejected(j) \/ SubmitTimesOut(j)
        PROVE  CancelledStays
    BY <2>1 DEF Submit, SubmitRejected, SubmitTimesOut, CancelledStays,
                TypeInv, TypeOK
  <2>2. CASE CancelSave
    BY <2>2 DEF CancelSave, CancelledStays, TypeInv, TypeOK, JobRecord
  <2>3. CASE CancelFail
    BY <2>3 DEF CancelFail, IsValidJobTransition, AllowedNext, CancelledStays,
                TypeInv, TypeOK
  <2>4. CASE \/ CancelMark \/ CancelThrows
             \/ \E j \in Jobs : CancelJob(j) \/ CancelStart(j) \/ CancelUndrained(j)
    BY <2>4, RecordUnchanged
    DEF CancelMark, CancelThrows, CancelJob, CancelStart, CancelUndrained
  <2>. QED BY <1>4, <2>1, <2>2, <2>3, <2>4 DEF ApiStep
<1>5. CASE Environment
  BY <1>5, RecordUnchanged
  DEF Environment, RunEnds, EncoreCallback, InstanceVanishes, IdleTimeElapses,
      BackoffElapses, GraceElapses, GateExpires, PinReleased, Crash
<1>6. CASE UNCHANGED vars
  BY <1>6, RecordUnchanged DEF vars
<1>. QED BY <1>1, <1>2, <1>3, <1>4, <1>5, <1>6 DEF Next

\* No completion, drop, stall or dispatch ever overturns a cancel that was
\* recorded (CancelledIsFinal), however the poller, the tick and the request
\* interleave and whichever of their reads is stale.
THEOREM CancelStands == Spec => CancelledIsFinal
<1>1. TypeInv /\ [Next]_vars
      => [\A j \in Jobs : record[j].st = "cancelled"
                          => record'[j].st = "cancelled"]_vars
  BY NextSparesCancelled DEF CancelledStays
<1>. QED BY <1>1, TypeInvariance, PTL DEF Spec, CancelledIsFinal

-----------------------------------------------------------------------------
(* The attempt budget. *)

\* An entry that leaves room for the attempt its dispatch will count.
Affordable(e) == e.attempts < MaxAttempts + hist[e.job].interrupts

\* AttemptBudget is not inductive: the claim a tick holds goes back to the
\* queue, and the counts that tick and poller read before a requeue are pushed
\* after it.
BudgetInv ==
  /\ AttemptBudget
  /\ \A e \in tick.claim : Affordable(e)
  /\ tick.pc = "requeue" => tick.n < MaxAttempts
  /\ poller.pc = "requeue" => poller.n < MaxAttempts

\* Keys, entries and locals of a step that starts no attempt and queues none.
CountsKept ==
  \A j \in Jobs : /\ kv'[j].attempts <= kv[j].attempts
                  /\ hist'[j].interrupts >= hist[j].interrupts
EntriesKept ==
  queue' \cup inflight' \cup tick'.claim \subseteq
    queue \cup inflight \cup tick.claim
TickKept ==
  tick'.pc = "requeue" => tick.pc = "requeue" /\ tick'.n = tick.n
PollerKept ==
  poller'.pc = "requeue" => poller.pc = "requeue" /\ poller'.n = poller.n

\* The counts the budget compares are natural numbers.
LEMMA BudgetTypes ==
  ASSUME TypeInv
  PROVE  /\ \A j \in Jobs : kv[j].attempts \in Nat /\ hist[j].interrupts \in Nat
         /\ \A e \in queue \cup inflight \cup tick.claim :
              e.job \in Jobs /\ e.attempts \in Nat
         /\ MaxAttempts \in Nat /\ tick.n \in Nat /\ poller.n \in Nat
BY ConstantsAssumption
DEF TypeInv, TypeOK, JobKeys, JobHistory, Entry, TickLocals, PollerLocals

\* A step that adds at most entries with a bounded count keeps the budget.
LEMMA BudgetKept ==
  ASSUME TypeInv, TypeInv', BudgetInv,
         \A j \in Jobs : /\ kv'[j].attempts <= MaxAttempts + hist'[j].interrupts
                         /\ hist'[j].interrupts >= hist[j].interrupts,
         \A e \in queue' \cup inflight' \cup tick'.claim :
           \/ e \in queue \cup inflight \cup tick.claim
           \/ e.attempts < MaxAttempts + hist'[e.job].interrupts,
         tick'.pc = "requeue" => tick'.n < MaxAttempts,
         poller'.pc = "requeue" => poller'.n < MaxAttempts
  PROVE  BudgetInv'
<1>1. ASSUME NEW e \in queue' \cup inflight' \cup tick'.claim
      PROVE  e.attempts < MaxAttempts + hist'[e.job].interrupts
  <2>1. CASE e \in queue \cup inflight \cup tick.claim
    <3>1. /\ e.job \in Jobs /\ e.attempts \in Nat /\ MaxAttempts \in Nat
          /\ hist[e.job].interrupts \in Nat /\ hist'[e.job].interrupts \in Nat
      BY <2>1, BudgetTypes DEF TypeInv, TypeOK, JobHistory
    <3>2. e.attempts < MaxAttempts + hist[e.job].interrupts
      BY <2>1 DEF BudgetInv, AttemptBudget, Affordable
    <3>3. hist'[e.job].interrupts >= hist[e.job].interrupts
      BY <3>1
    <3>. QED BY <3>1, <3>2, <3>3
  <2>. QED BY <2>1
<1>. QED BY <1>1 DEF BudgetInv, AttemptBudget, Affordable

\* A step that starts no attempt and queues none keeps the budget.
LEMMA QuietStep ==
  ASSUME TypeInv, TypeInv', BudgetInv, CountsKept, EntriesKept, TickKept,
         PollerKept
  PROVE  BudgetInv'
<1>1. ASSUME NEW j \in Jobs
      PROVE  kv'[j].attempts <= MaxAttempts + hist'[j].interrupts
  <2>1. /\ kv[j].attempts \in Nat /\ kv'[j].attempts \in Nat
        /\ hist[j].interrupts \in Nat /\ hist'[j].interrupts \in Nat
        /\ MaxAttempts \in Nat
    BY BudgetTypes DEF TypeInv, TypeOK, JobKeys, JobHistory
  <2>2. /\ kv'[j].attempts <= kv[j].attempts
        /\ hist'[j].interrupts >= hist[j].interrupts
        /\ kv[j].attempts <= MaxAttempts + hist[j].interrupts
    BY DEF CountsKept, BudgetInv, AttemptBudget
  <2>. QED BY <2>1, <2>2
<1>. QED BY <1>1, BudgetKept
         DEF CountsKept, EntriesKept, TickKept, PollerKept, BudgetInv

\* A step that writes no key raises no count.
LEMMA CountsUnchanged ==
  ASSUME TypeInv, UNCHANGED <<kv, hist>>
  PROVE  CountsKept
BY BudgetTypes DEF CountsKept

\* One job's keys change, and its count stays or is cleared.
LEMMA CountCleared ==
  ASSUME TypeInv, NEW j, NEW k, UNCHANGED hist, kv' = [kv EXCEPT ![j] = k],
         j \in Jobs => k.attempts = kv[j].attempts \/ k.attempts = 0
  PROVE  CountsKept
<1>1. \A i \in Jobs : \/ kv'[i].attempts = kv[i].attempts
                      \/ kv'[i].attempts = 0
  BY DEF TypeInv, TypeOK
<1>. QED BY <1>1, BudgetTypes DEF CountsKept

\* A requeue and a stamped success keep a job's count, clearRetryState resets
\* it.
LEMMA KeyCounts ==
  ASSUME NEW k \in JobKeys
  PROVE  /\ Requeued(k).attempts = k.attempts /\ Cleared(k).attempts = 0
         /\ Stamped(k).attempts = k.attempts
BY DEF JobKeys, Requeued, Cleared, Stamped

\* reconcile keeps the budget: it writes statuses and mappings, no count.
LEMMA ReconcileBudget ==
  ASSUME TypeInv, TypeInv', BudgetInv,
         \/ TickStart \/ ReconcileEnd
         \/ \E i \in Instances : EvictVanished(i) \/ ReconcileInstance(i)
  PROVE  BudgetInv'
<1>1. ClaimKept
  BY ReconcileType
<1>2. UNCHANGED <<queue, inflight, poller, hist>>
  BY DEF TickStart, ReconcileEnd, EvictVanished, ReconcileInstance, valkey,
         ghosts
<1>3. EntriesKept /\ TickKept /\ PollerKept
  BY <1>1, <1>2 DEF ClaimKept, EntriesKept, TickKept, PollerKept
<1>4. CountsKept
  <2>1. ASSUME NEW i \in Instances, NEW j \in Jobs
        PROVE  Classified(i)[j].attempts = kv[j].attempts
    <3>1. kv[j] \in JobKeys
      BY DEF TypeInv, TypeOK
    <3>. DEFINE a == [kv[j] EXCEPT !.status = "FAILED", !.passes = 0]
                b == [kv[j] EXCEPT !.passes = 1]
                c(k) == [kv[j] EXCEPT !.passes = 0, !.inst = k]
                d == [kv[j] EXCEPT !.passes = 0]
    <3>2. /\ a.attempts = kv[j].attempts /\ b.attempts = kv[j].attempts
          /\ d.attempts = kv[j].attempts
          /\ \A k : c(k).attempts = kv[j].attempts
      BY <3>1 DEF JobKeys
    <3>3. \/ Classified(i)[j] = a \/ Classified(i)[j] = b
          \/ Classified(i)[j] = d \/ Classified(i)[j] = kv[j]
          \/ Classified(i)[j] = c(CHOOSE k \in ActiveElsewhere(j) : TRUE)
      BY Zenon DEF Classified
    <3>. HIDE DEF a, b, c, d
    <3>. QED BY <3>2, <3>3
  <2>2. UNCHANGED kv \/ \E i \in Instances : kv' = Classified(i)
    BY DEF TickStart, ReconcileEnd, EvictVanished, ReconcileInstance, valkey
  <2>. QED BY <1>2, <2>1, <2>2, BudgetTypes DEF CountsKept
<1>. QED BY <1>3, <1>4, QuietStep

\* An interruption queues the count it found, and raises the budget by one.
LEMMA InterruptBudget ==
  ASSUME TypeInv, TypeInv', BudgetInv, NEW j \in Jobs,
         InterruptRequeue(j) \/ InterruptLost(j)
  PROVE  BudgetInv'
<1>1. ClaimKept /\ UNCHANGED <<inflight, poller>>
  BY InterruptType DEF InterruptRequeue, InterruptLost
<1>2. kv[j] \in JobKeys
  BY DEF TypeInv, TypeOK
<1>3. CASE InterruptLost(j)
  <2>1. CountsKept
    <3>. DEFINE k == Cleared([kv[j] EXCEPT !.status = "FAILED", !.inst = None])
    <3>1. k.attempts = 0
      BY <1>2 DEF Cleared, JobKeys
    <3>2. UNCHANGED kv \/ kv' = [kv EXCEPT ![j] = k]
      BY <1>3 DEF InterruptLost
    <3>3. UNCHANGED hist
      BY <1>3 DEF InterruptLost, ghosts
    <3>. HIDE DEF k
    <3>. QED BY <3>1, <3>2, <3>3, CountsUnchanged, CountCleared
  <2>2. EntriesKept /\ TickKept /\ PollerKept
    BY <1>1, <1>3 DEF InterruptLost, ClaimKept, EntriesKept, TickKept, PollerKept
  <2>. QED BY <2>1, <2>2, QuietStep
<1>4. CASE InterruptRequeue(j)
  <2>1. \A i \in Jobs :
          /\ kv'[i].attempts = kv[i].attempts
          /\ hist'[i].interrupts = IF i = j THEN hist[i].interrupts + 1
                                   ELSE hist[i].interrupts
    BY <1>2, <1>4, KeyCounts
    DEF InterruptRequeue, TypeInv, TypeOK, JobHistory
  <2>2. ASSUME NEW i \in Jobs
        PROVE  /\ kv'[i].attempts <= MaxAttempts + hist'[i].interrupts
               /\ hist'[i].interrupts >= hist[i].interrupts
    BY <2>1, BudgetTypes DEF BudgetInv, AttemptBudget
  <2>3. kv[j].attempts < MaxAttempts + hist'[j].interrupts
    BY <2>1, BudgetTypes DEF BudgetInv, AttemptBudget
  <2>4. ASSUME NEW e \in queue' \cup inflight' \cup tick'.claim
        PROVE  \/ e \in queue \cup inflight \cup tick.claim
               \/ e.attempts < MaxAttempts + hist'[e.job].interrupts
    <3>1. PICK t \in 1 .. MaxEntries :
            queue' = queue \cup {[job |-> j, attempts |-> kv[j].attempts,
                                  due |-> TRUE, at |-> t]}
      BY <1>4 DEF InterruptRequeue, Push
    <3>. QED BY <1>1, <2>3, <3>1 DEF ClaimKept
  <2>. QED BY <1>1, <2>2, <2>4, BudgetKept DEF ClaimKept, BudgetInv
<1>. QED BY <1>3, <1>4

\* A call of the tick that throws queues nothing and counts nothing.
LEMMA FailsBudget ==
  ASSUME TypeInv, TypeInv', BudgetInv, TickFails
  PROVE  BudgetInv'
<1>1. UNCHANGED <<queue, inflight, poller, hist>> /\ ClaimKept
  BY FailsQuietly, FailsType
<1>2. EntriesKept /\ TickKept /\ PollerKept
  BY <1>1 DEF ClaimKept, EntriesKept, TickKept, PollerKept
<1>3. CountsKept
  <2>1. CASE TickThrows
    BY <2>1, CountsUnchanged DEF TickThrows, valkey
  <2>2. ASSUME NEW j \in Jobs, InterruptFails(j) PROVE CountsKept
    <3>1. Requeued(kv[j]).attempts = kv[j].attempts
      BY KeyCounts DEF TypeInv, TypeOK
    <3>2. UNCHANGED kv \/ kv' = [kv EXCEPT ![j] = Requeued(kv[j])]
      BY <2>2 DEF InterruptFails
    <3>. QED BY <1>1, <3>1, <3>2, CountsUnchanged, CountCleared
  <2>3. ASSUME NEW j \in Jobs, LostFails(j) PROVE CountsKept
    <3>. DEFINE k == [kv[j] EXCEPT !.status = "FAILED", !.inst = None]
    <3>1. k.attempts = kv[j].attempts
      BY DEF TypeInv, TypeOK, JobKeys
    <3>2. UNCHANGED kv \/ kv' = [kv EXCEPT ![j] = k]
      BY <2>3 DEF LostFails
    <3>. HIDE DEF k
    <3>. QED BY <1>1, <3>1, <3>2, CountsUnchanged, CountCleared
  <2>. QED BY <2>1, <2>2, <2>3 DEF TickFails
<1>. QED BY <1>2, <1>3, QuietStep

\* decideRetry re-queues only an attempt that is within the bound.
LEMMA RetryAffordable ==
  ASSUME TypeInv, NEW j \in Jobs, NEW retryable,
         RetryDecision(j, retryable) # "settle"
  PROVE  AttemptsSoFar(j) < MaxAttempts
BY AttemptsType, ConstantsAssumption DEF RetryDecision

\* A retry queued with a count below the bound keeps the budget.
LEMMA RetryBudget ==
  ASSUME TypeInv, TypeInv', BudgetInv, NEW j \in Jobs, NEW n \in Nat,
         n < MaxAttempts, RetryRequeue(j, n), UNCHANGED inflight,
         tick'.claim \subseteq tick.claim, TickKept, PollerKept
  PROVE  BudgetInv'
<1>1. \A i \in Jobs : /\ kv'[i].attempts = kv[i].attempts
                      /\ hist'[i].interrupts = hist[i].interrupts
  BY KeyCounts DEF RetryRequeue, TypeInv, TypeOK, JobHistory
<1>2. ASSUME NEW i \in Jobs
      PROVE  /\ kv'[i].attempts <= MaxAttempts + hist'[i].interrupts
             /\ hist'[i].interrupts >= hist[i].interrupts
  BY <1>1, BudgetTypes DEF BudgetInv, AttemptBudget
<1>3. n < MaxAttempts + hist'[j].interrupts
  BY <1>1, BudgetTypes
<1>4. ASSUME NEW e \in queue' \cup inflight' \cup tick'.claim
      PROVE  \/ e \in queue \cup inflight \cup tick.claim
             \/ e.attempts < MaxAttempts + hist'[e.job].interrupts
  <2>1. PICK t \in 1 .. MaxEntries :
          queue' = queue \cup {[job |-> j, attempts |-> n,
                                due |-> FALSE, at |-> t]}
    BY DEF RetryRequeue, Push
  <2>. QED BY <1>3, <2>1
<1>. QED BY <1>2, <1>4, BudgetKept DEF TickKept, PollerKept, BudgetInv

\* The drop path keeps the budget: the count it pushes was compared with the
\* bound when it was read.
LEMMA DropBudget ==
  ASSUME TypeInv, TypeInv', BudgetInv,
         \/ \E d \in [job : Jobs, retryable : BOOLEAN] : SettleDrop(d)
         \/ DropRequeue \/ DropRequeueFails
         \/ \E j \in Jobs : SweepFailed(j)
  PROVE  BudgetInv'
<1>1. ASSUME NEW d \in [job : Jobs, retryable : BOOLEAN], SettleDrop(d)
      PROVE  BudgetInv'
  <2>1. d.job \in Jobs /\ kv[d.job] \in JobKeys /\ AttemptsSoFar(d.job) \in Nat
    BY AttemptsType DEF TypeInv, TypeOK
  <2>2. CountsKept
    <3>1. UNCHANGED kv \/ kv' = [kv EXCEPT ![d.job] = Cleared(kv[d.job])]
      BY <1>1 DEF SettleDrop
    <3>2. UNCHANGED hist
      BY <1>1 DEF SettleDrop, ghosts
    <3>. QED BY <2>1, <3>1, <3>2, CountsUnchanged, CountCleared, KeyCounts
  <2>. DEFINE t == [tick EXCEPT !.pc = "requeue", !.job = d.job,
                                !.n = AttemptsSoFar(d.job), !.drops = @ \ {d}]
              u == [tick EXCEPT !.drops = @ \ {d}]
  <2>3. /\ t.claim = tick.claim /\ t.n = AttemptsSoFar(d.job)
        /\ u.claim = tick.claim /\ u.pc = tick.pc
        /\ u \in TickLocals
    BY DEF TypeInv, TypeOK, TickLocals
  <2>4. \/ tick' = t /\ RetryDecision(d.job, d.retryable) = "retry"
        \/ tick' = Onward(u)
    BY <1>1 DEF SettleDrop
  <2>5. tick.pc = "drops" /\ UNCHANGED <<queue, inflight, poller>>
    BY <1>1 DEF SettleDrop
  <2>. HIDE DEF t, u
  <2>6. tick'.claim \subseteq tick.claim
    BY <2>3, <2>4, OnwardType
  <2>7. tick'.pc = "requeue" => tick'.n < MaxAttempts
    BY <2>1, <2>3, <2>4, <2>5, OnwardType, RetryAffordable
  <2>8. ASSUME NEW j \in Jobs
        PROVE  kv'[j].attempts <= MaxAttempts + hist'[j].interrupts
    <3>1. /\ kv[j].attempts \in Nat /\ kv'[j].attempts \in Nat
          /\ hist[j].interrupts \in Nat /\ hist'[j].interrupts \in Nat
          /\ MaxAttempts \in Nat
      BY BudgetTypes DEF TypeInv, TypeOK, JobKeys, JobHistory
    <3>2. /\ kv'[j].attempts <= kv[j].attempts
          /\ hist'[j].interrupts >= hist[j].interrupts
          /\ kv[j].attempts <= MaxAttempts + hist[j].interrupts
      BY <2>2 DEF CountsKept, BudgetInv, AttemptBudget
    <3>. QED BY <3>1, <3>2
  <2>. QED BY <2>2, <2>5, <2>6, <2>7, <2>8, BudgetKept
           DEF CountsKept, BudgetInv
<1>2. tick.pc = "requeue" => /\ tick.job \in Jobs /\ tick.n \in Nat
                             /\ kv[tick.job] \in JobKeys
                             /\ tick.n < MaxAttempts
  BY DEF TypeInv, TypeOK, TickNamed, NamedTick, TickLocals, BudgetInv
<1>3. DropRequeued.claim \subseteq tick.claim /\ DropRequeued.pc # "requeue"
  <2>. DEFINE t == [tick EXCEPT !.pc = "drops", !.job = None, !.n = 0]
  <2>1. t \in TickLocals /\ t.pc = "drops" /\ t.claim = tick.claim
    BY DEF TypeInv, TypeOK, TickLocals, JobOrNone
  <2>2. DropRequeued = Onward(t)
    BY DEF DropRequeued
  <2>. HIDE DEF t
  <2>. QED BY <2>1, <2>2, OnwardType
<1>4. CASE DropRequeue
  BY <1>2, <1>3, <1>4, RetryBudget DEF DropRequeue, TickKept, PollerKept
<1>5. CASE DropRequeueFails
  <2>1. CountsKept
    <3>1. Requeued(kv[tick.job]) \in JobKeys
      BY <1>2, <1>5, KeysType DEF DropRequeueFails
    <3>2. Cleared(Requeued(kv[tick.job])).attempts = 0
      BY <3>1, KeyCounts
    <3>. QED BY <1>5, <3>2, CountCleared DEF DropRequeueFails, ghosts
  <2>2. EntriesKept /\ TickKept /\ PollerKept
    BY <1>3, <1>5 DEF DropRequeueFails, EntriesKept, TickKept, PollerKept
  <2>. QED BY <2>1, <2>2, QuietStep
<1>6. ASSUME NEW j \in Jobs, SweepFailed(j) PROVE BudgetInv'
  <2>1. CountsKept
    <3>1. \A i \in Jobs : kv'[i].attempts = kv[i].attempts
      BY <1>6 DEF SweepFailed, CancelKeys, TypeInv, TypeOK, JobKeys
    <3>. QED BY <1>6, <3>1, BudgetTypes DEF SweepFailed, ghosts, CountsKept
  <2>2. EntriesKept /\ TickKept /\ PollerKept
    BY <1>6 DEF SweepFailed, EntriesKept, TickKept, PollerKept
  <2>. QED BY <2>1, <2>2, QuietStep
<1>. QED BY <1>1, <1>4, <1>5, <1>6

\* Scaling up and down keeps the budget: it touches no entry and no count.
LEMMA ScaleBudget ==
  ASSUME TypeInv, TypeInv', BudgetInv,
         \/ \E i \in Instances : ScaleUp(i) \/ ScaleDownKeep(i)
                                 \/ ScaleDownProbe(i)
         \/ NoScaleUp \/ ScaleUpStart \/ SpawnFails
         \/ ScaleDownDrain \/ ScaleDownRelease \/ ScaleDownDestroy
  PROVE  BudgetInv'
<1>1. ClaimKept
  BY ScaleType
<1>2. UNCHANGED <<queue, inflight, kv, poller, hist>>
  BY DEF ScaleUp, ScaleDownKeep, ScaleDownProbe, NoScaleUp, ScaleUpStart,
         SpawnFails, ScaleDownDrain, ScaleDownRelease, ScaleDownDestroy, valkey,
         ghosts
<1>3. CountsKept /\ EntriesKept /\ TickKept /\ PollerKept
  BY <1>1, <1>2, CountsUnchanged DEF ClaimKept, EntriesKept, TickKept, PollerKept
<1>. QED BY <1>3, QuietStep

\* dispatch keeps the budget: the count it records is one more than that of an
\* entry that left room for it.
LEMMA DispatchBudget ==
  ASSUME TypeInv, TypeInv', BudgetInv,
         \/ \E i \in Instances : DispatchNone(i) \/ DispatchClaim(i)
         \/ DispatchPost \/ DispatchRefused \/ DispatchRecord
         \/ DispatchRecordFails \/ DispatchUnclaim \/ DispatchCount
         \/ DispatchGiveBack
  PROVE  BudgetInv'
<1>1. tick \in TickLocals
  BY DEF TypeInv, TypeOK
<1>2. ASSUME NEW i \in Instances, DispatchNone(i) PROVE BudgetInv'
  <2>1. /\ [tick EXCEPT !.todo = @ \ {i}] \in TickLocals
        /\ [tick EXCEPT !.todo = @ \ {i}].pc = tick.pc
        /\ [tick EXCEPT !.todo = @ \ {i}].claim = tick.claim
    BY <1>1 DEF TickLocals
  <2>2. CountsKept /\ EntriesKept /\ TickKept /\ PollerKept
    BY <1>2, <2>1, OnwardType, CountsUnchanged
    DEF DispatchNone, EntriesKept, TickKept, PollerKept, valkey, ghosts
  <2>. QED BY <2>2, QuietStep
<1>3. ASSUME NEW i \in Instances, DispatchClaim(i) PROVE BudgetInv'
  <2>1. PICK e \in queue :
          /\ queue' = queue \ {e} /\ inflight' = inflight \cup {e}
          /\ tick' = [tick EXCEPT !.pc = IF e.due THEN "post" ELSE "refused",
                                  !.cur = i, !.claim = {e}, !.todo = @ \ {i}]
    BY <1>3 DEF DispatchClaim
  <2>2. tick'.claim = {e} /\ tick'.pc # "requeue"
    BY <1>1, <2>1 DEF TickLocals
  <2>3. CountsKept /\ EntriesKept /\ TickKept /\ PollerKept
    BY <1>3, <2>1, <2>2, CountsUnchanged
    DEF DispatchClaim, EntriesKept, TickKept, PollerKept, ghosts
  <2>. QED BY <2>3, QuietStep
<1>4. CASE DispatchPost \/ DispatchRefused
  <2>1. tick'.claim = tick.claim /\ tick'.pc # "requeue"
    BY <1>1, <1>4 DEF DispatchPost, StartRun, DispatchRefused, TickLocals
  <2>2. CountsKept /\ EntriesKept /\ TickKept /\ PollerKept
    BY <1>4, <2>1, CountsUnchanged
    DEF DispatchPost, DispatchRefused, EntriesKept, TickKept, PollerKept,
        valkey, ghosts
  <2>. QED BY <2>2, QuietStep
<1>5. CASE DispatchRecord \/ DispatchRecordFails
  <2>1. PICK e \in tick.claim, v \in JobKeys :
          /\ UNCHANGED kv \/ kv' = [kv EXCEPT ![e.job] = v]
          /\ v.attempts = kv[e.job].attempts \/ v.attempts = e.attempts + 1
    <3>1. CASE DispatchRecord
      <4>1. PICK e \in tick.claim, stored \in BOOLEAN :
              LET k == Mapped(kv[e.job], tick.cur)
                  c == IF stored THEN Counted(k, e) ELSE k
              IN  kv' = [kv EXCEPT ![e.job] = [c EXCEPT !.url = tick.run]]
        BY <3>1 DEF DispatchRecord
      <4>. DEFINE k == Mapped(kv[e.job], tick.cur)
                  c == IF stored THEN Counted(k, e) ELSE k
                  v == [c EXCEPT !.url = tick.run]
      <4>2. /\ c \in JobKeys
            /\ c.attempts = kv[e.job].attempts \/ c.attempts = e.attempts + 1
        BY MappedType
      <4>3. kv' = [kv EXCEPT ![e.job] = v]
        BY <4>1
      <4>. HIDE DEF c
      <4>4. v \in JobKeys /\ v.attempts = c.attempts
        BY <1>1, <4>2 DEF JobKeys, TickLocals
      <4>. HIDE DEF v
      <4>. QED BY <4>2, <4>3, <4>4
    <3>2. CASE DispatchRecordFails
      <4>1. PICK e \in tick.claim :
              \/ UNCHANGED kv
              \/ kv' = [kv EXCEPT ![e.job] = Mapped(kv[e.job], tick.cur)]
              \/ kv' = [kv EXCEPT ![e.job] =
                           Counted(Mapped(kv[e.job], tick.cur), e)]
        BY <3>2 DEF DispatchRecordFails
      <4>. QED BY <4>1, MappedType
    <3>. QED BY <1>5, <3>1, <3>2
  <2>2. /\ e.job \in Jobs /\ e.attempts \in Nat
        /\ e.attempts < MaxAttempts + hist[e.job].interrupts
    BY BudgetTypes DEF BudgetInv, Affordable
  <2>3. \A j \in Jobs : \/ kv'[j].attempts = kv[j].attempts
                        \/ j = e.job /\ kv'[j].attempts = e.attempts + 1
    <3>1. CASE UNCHANGED kv
      BY <3>1
    <3>2. CASE kv' = [kv EXCEPT ![e.job] = v]
      <4>1. kv \in [Jobs -> JobKeys]
        BY DEF TypeInv, TypeOK
      <4>2. \A j \in Jobs : kv'[j] = IF j = e.job THEN v ELSE kv[j]
        BY <3>2, <4>1
      <4>. QED BY <2>1, <4>2
    <3>. QED BY <2>1, <3>1, <3>2
  <2>4. UNCHANGED <<queue, inflight, poller, hist>>
    BY <1>5 DEF DispatchRecord, DispatchRecordFails, ghosts
  <2>5. ASSUME NEW j \in Jobs
        PROVE  /\ kv'[j].attempts <= MaxAttempts + hist'[j].interrupts
               /\ hist'[j].interrupts >= hist[j].interrupts
    BY <2>2, <2>3, <2>4, BudgetTypes DEF BudgetInv, AttemptBudget
  <2>6. tick'.claim = tick.claim /\ tick'.pc # "requeue"
    BY <1>1, <1>5 DEF DispatchRecord, DispatchRecordFails, TickLocals
  <2>. QED BY <2>4, <2>5, <2>6, BudgetKept DEF BudgetInv
<1>6. CASE DispatchCount
  <2>. DEFINE p == [tick.snap[tick.cur] EXCEPT !.active = @ + 1]
              t == [tick EXCEPT !.pc = "dispatch", !.cur = None,
                                !.snap[tick.cur] = p, !.claim = {}, !.run = 0]
  <2>1. t \in TickLocals /\ t.pc = "dispatch" /\ t.claim = {}
    <3>1. tick.cur \in Instances => p \in PoolRecord
      <4>1. tick.cur \in Instances => tick.snap[tick.cur] \in PoolRecord
        BY <1>1 DEF TickLocals
      <4>. QED BY <4>1 DEF PoolRecord
    <3>. HIDE DEF p
    <3>. QED BY <1>1, <3>1, RunRefs DEF TickLocals, InstOrNone
  <2>2. tick' = Onward(t)
    BY <1>6 DEF DispatchCount
  <2>. HIDE DEF t
  <2>3. CountsKept /\ EntriesKept /\ TickKept /\ PollerKept
    BY <1>6, <2>1, <2>2, OnwardType, CountsUnchanged
    DEF DispatchCount, EntriesKept, TickKept, PollerKept, ghosts
  <2>. QED BY <2>3, QuietStep
<1>7. CASE DispatchGiveBack
  <2>. DEFINE t == [tick EXCEPT !.pc = "dispatch", !.cur = None, !.claim = {}]
  <2>1. t \in TickLocals /\ t.pc = "dispatch" /\ t.claim = {}
    BY <1>1 DEF TickLocals, InstOrNone
  <2>2. tick' = Onward(t)
    BY <1>7 DEF DispatchGiveBack
  <2>. HIDE DEF t
  <2>3. CountsKept /\ EntriesKept /\ TickKept /\ PollerKept
    BY <1>7, <2>1, <2>2, OnwardType, CountsUnchanged
    DEF DispatchGiveBack, EntriesKept, TickKept, PollerKept, ghosts
  <2>. QED BY <2>3, QuietStep
<1>8. CASE DispatchUnclaim
  <2>1. tick'.claim = tick.claim /\ tick'.pc # "requeue"
    BY <1>1, <1>8 DEF DispatchUnclaim, TickLocals
  <2>2. CountsKept /\ EntriesKept /\ TickKept /\ PollerKept
    BY <1>8, <2>1, CountsUnchanged
    DEF DispatchUnclaim, EntriesKept, TickKept, PollerKept, ghosts
  <2>. QED BY <2>2, QuietStep
<1>. QED BY <1>2, <1>3, <1>4, <1>5, <1>6, <1>7, <1>8

\* What the poller's handling of a message does to the budget: only decideRetry
\* queues an entry, with a count it has compared with the bound.
LEMMA PollerBudget ==
  ASSUME TypeInv, TypeInv', BudgetInv, PollerStep
  PROVE  BudgetInv'
<1>1. poller \in PollerLocals /\ IdlePoller.pc = "idle"
  BY IdlePollerType DEF TypeInv, TypeOK
<1>2. poller.pc # "idle" => poller.job \in Jobs /\ kv[poller.job] \in JobKeys
  BY DEF TypeInv, TypeOK, PollerNamed
<1>3. ASSUME NEW p \in PollerLocals, NEW i PROVE SlotRead(p, i).pc = "count"
  BY DEF SlotRead, PollerLocals
<1>4. ASSUME NEW term, NEW k, Complete(poller.job, term, k)
      PROVE  poller'.pc # "requeue"
  <2>. DEFINE write == [poller EXCEPT !.pc = "write", !.term = term]
  <2>1. Settled \in PollerLocals /\ write.pc = "write"
    BY <1>1, SettledType DEF PollerLocals
  <2>2. \/ poller' = IdlePoller \/ poller' = write
        \/ poller' = SlotRead(Settled, k.inst)
    BY <1>4, Zenon DEF Complete, PollThrow
  <2>. HIDE DEF write
  <2>. QED BY <1>1, <1>3, <2>1, <2>2
<1>5. ASSUME NEW r \in Runs, PollFetch(r) \/ PollUnreachable(r) PROVE BudgetInv'
  <2>1. poller'.pc # "requeue"
    BY <1>1, <1>5, ZenonT(30) DEF PollFetch, PollUnreachable, Fetched, IdlePoller
  <2>2. CountsKept /\ EntriesKept /\ TickKept /\ PollerKept
    BY <1>5, <2>1, CountsUnchanged
    DEF PollFetch, PollUnreachable, valkey, ghosts, EntriesKept, TickKept,
        PollerKept
  <2>. QED BY <2>2, QuietStep
<1>6. CASE PollSuccess
  <2>1. CountsKept
    <3>1. kv' = [kv EXCEPT ![poller.job] = Stamped(kv[poller.job])]
      BY <1>6 DEF PollSuccess
    <3>2. Stamped(kv[poller.job]).attempts = kv[poller.job].attempts
      BY <1>2, <1>6, KeyCounts DEF PollSuccess
    <3>. QED BY <1>6, <3>1, <3>2, CountCleared DEF PollSuccess, ghosts
  <2>2. EntriesKept /\ TickKept /\ PollerKept
    BY <1>4, <1>6 DEF PollSuccess, EntriesKept, TickKept, PollerKept
  <2>. QED BY <2>1, <2>2, QuietStep
<1>7. CASE PollFailure
  <2>1. CountsKept /\ EntriesKept /\ TickKept /\ PollerKept
    BY <1>4, <1>7, CountsUnchanged
    DEF PollFailure, valkey, ghosts, EntriesKept, TickKept, PollerKept
  <2>. QED BY <2>1, QuietStep
<1>8. CASE PollRetry
  <2>1. AttemptsSoFar(poller.job) < MaxAttempts
    BY <1>2, <1>8, RetryAffordable DEF PollRetry
  <2>. DEFINE p == [poller EXCEPT !.pc = "requeue",
                                  !.n = AttemptsSoFar(poller.job)]
  <2>2. p.n = AttemptsSoFar(poller.job)
    BY <1>1 DEF PollerLocals
  <2>3. poller' = IdlePoller \/ poller' = p
    BY <1>8 DEF PollRetry
  <2>. HIDE DEF p
  <2>4. poller'.pc = "requeue" => poller'.n < MaxAttempts
    BY <1>1, <2>1, <2>2, <2>3
  <2>5. UNCHANGED <<queue, inflight, kv, tick, hist>>
    BY <1>8 DEF PollRetry, valkey, ghosts
  <2>6. ASSUME NEW j \in Jobs
        PROVE  /\ kv'[j].attempts <= MaxAttempts + hist'[j].interrupts
               /\ hist'[j].interrupts >= hist[j].interrupts
    BY <2>5, BudgetTypes DEF BudgetInv, AttemptBudget
  <2>. QED BY <2>4, <2>5, <2>6, BudgetKept DEF BudgetInv
<1>9. CASE PollRequeue
  <2>1. poller'.pc = "count"
    BY <1>1, <1>3, <1>9 DEF PollRequeue
  <2>2. poller.n \in Nat /\ poller.n < MaxAttempts
    BY <1>9, BudgetTypes DEF PollRequeue, BudgetInv
  <2>3. UNCHANGED <<inflight, tick>> /\ TickKept /\ PollerKept
    BY <1>9, <2>1 DEF PollRequeue, TickKept, PollerKept
  <2>. QED BY <1>2, <1>9, <2>2, <2>3, RetryBudget DEF PollRequeue
<1>10. CASE PollRequeueFails
  <2>1. CountsKept
    <3>1. kv' = [kv EXCEPT ![poller.job] = Requeued(kv[poller.job])]
      BY <1>10 DEF PollRequeueFails
    <3>2. Requeued(kv[poller.job]).attempts = kv[poller.job].attempts
      BY <1>2, <1>10, KeyCounts DEF PollRequeueFails
    <3>. QED BY <1>10, <3>1, <3>2, CountCleared DEF PollRequeueFails, ghosts
  <2>2. EntriesKept /\ TickKept /\ PollerKept
    BY <1>4, <1>10 DEF PollRequeueFails, EntriesKept, TickKept, PollerKept
  <2>. QED BY <2>1, <2>2, QuietStep
<1>11. CASE PollWrite
  <2>1. poller'.pc # "requeue"
    <3>1. Settled \in PollerLocals
      BY SettledType
    <3>. QED BY <1>1, <1>3, <1>11, <3>1 DEF PollWrite, PollThrow
  <2>2. CountsKept
    <3>. DEFINE k == [kv[poller.job] EXCEPT
                        !.pin = IF poller.term = None THEN @ ELSE poller.term]
    <3>1. k.attempts = kv[poller.job].attempts
      BY <1>2, <1>11 DEF PollWrite, JobKeys
    <3>2. UNCHANGED kv \/ kv' = [kv EXCEPT ![poller.job] = k]
      BY <1>11, Zenon DEF PollWrite
    <3>3. UNCHANGED hist
      BY <1>11 DEF PollWrite, ghosts
    <3>. HIDE DEF k
    <3>. QED BY <3>1, <3>2, <3>3, CountsUnchanged, CountCleared
  <2>3. EntriesKept /\ TickKept /\ PollerKept
    BY <1>11, <2>1 DEF PollWrite, EntriesKept, TickKept, PollerKept
  <2>. QED BY <2>2, <2>3, QuietStep
<1>12. CASE PollCount
  <2>1. CountsKept
    <3>1. UNCHANGED kv \/ kv' = [kv EXCEPT ![poller.job] = Cleared(kv[poller.job])]
      BY <1>12 DEF PollCount
    <3>2. Cleared(kv[poller.job]).attempts = 0
      BY <1>2, <1>12, KeyCounts DEF PollCount
    <3>3. UNCHANGED hist
      BY <1>12 DEF PollCount, ghosts
    <3>. QED BY <3>1, <3>2, <3>3, CountsUnchanged, CountCleared
  <2>2. EntriesKept /\ TickKept /\ PollerKept
    BY <1>1, <1>12 DEF PollCount, EntriesKept, TickKept, PollerKept
  <2>. QED BY <2>1, <2>2, QuietStep
<1>. QED BY <1>5, <1>6, <1>7, <1>8, <1>9, <1>10, <1>11, <1>12 DEF PollerStep

\* The sweep timer, the requests and the world around them.  A stall is
\* re-queued under decideRetry's bound, a submit starts from no attempt at all,
\* and a restart drops the claim and the counts read before it.
LEMMA WorldBudget ==
  ASSUME TypeInv, TypeInv', BudgetInv, SweepStep \/ ApiStep \/ Environment
  PROVE  BudgetInv'
<1>1. ASSUME NEW r \in Runs, SweepTerminalJob(r) PROVE BudgetInv'
  <2>1. CountsKept /\ EntriesKept /\ TickKept /\ PollerKept
    BY <1>1, CountsUnchanged
    DEF SweepTerminalJob, valkey, ghosts, EntriesKept, TickKept, PollerKept
  <2>. QED BY <2>1, QuietStep
<1>2. ASSUME NEW r \in Runs, StallDetected(r) PROVE BudgetInv'
  <2>. DEFINE j == runs[r].job
  <2>1. j \in Jobs /\ kv[j] \in JobKeys /\ AttemptsSoFar(j) \in Nat
    <3>1. j \in Jobs
      BY <1>2 DEF StallDetected, TypeInv, RunsNamed, NamedRun
    <3>. QED BY <3>1, AttemptsType DEF TypeInv, TypeOK
  <2>2. TickKept /\ PollerKept /\ UNCHANGED <<inflight, tick>>
    BY <1>2 DEF StallDetected, TickKept, PollerKept
  <2>3. CASE kv' = [kv EXCEPT ![j] = Cleared(kv[j])] /\ UNCHANGED <<queue, hist>>
    <3>1. CountsKept
      BY <2>1, <2>3, KeyCounts, CountCleared
    <3>2. EntriesKept
      BY <2>2, <2>3 DEF EntriesKept
    <3>. QED BY <2>2, <3>1, <3>2, QuietStep
  <2>4. CASE RetryDecision(j, TRUE) = "retry" /\ RetryRequeue(j, AttemptsSoFar(j))
    BY <2>1, <2>2, <2>4, RetryAffordable, RetryBudget
  <2>5. \/ kv' = [kv EXCEPT ![j] = Cleared(kv[j])] /\ UNCHANGED <<queue, hist>>
        \/ RetryDecision(j, TRUE) = "retry" /\ RetryRequeue(j, AttemptsSoFar(j))
    BY <1>2 DEF StallDetected
  <2>. HIDE DEF j
  <2>. QED BY <2>3, <2>4, <2>5
<1>3. ASSUME NEW j \in Jobs, Submit(j) \/ SubmitTimesOut(j) PROVE BudgetInv'
  <2>1. UNCHANGED <<inflight, tick, poller, hist>>
    BY <1>3 DEF Submit, SubmitTimesOut, ghosts
  <2>2. CountsKept
    <3>. DEFINE k == [kv[j] EXCEPT !.status = "QUEUED"]
    <3>1. k.attempts = kv[j].attempts
      BY DEF TypeInv, TypeOK, JobKeys
    <3>2. UNCHANGED kv \/ kv' = [kv EXCEPT ![j] = k]
      BY <1>3 DEF Submit, SubmitTimesOut
    <3>. HIDE DEF k
    <3>. QED BY <2>1, <3>1, <3>2, CountsUnchanged, CountCleared
  <2>3. ASSUME NEW i \in Jobs
        PROVE  /\ kv'[i].attempts <= MaxAttempts + hist'[i].interrupts
               /\ hist'[i].interrupts >= hist[i].interrupts
    <3>1. /\ kv'[i].attempts \in Nat /\ kv[i].attempts \in Nat
          /\ hist[i].interrupts \in Nat /\ MaxAttempts \in Nat
      BY BudgetTypes DEF TypeInv, TypeOK, JobKeys
    <3>2. kv'[i].attempts <= kv[i].attempts /\ hist' = hist
      BY <2>1, <2>2 DEF CountsKept
    <3>3. kv[i].attempts <= MaxAttempts + hist[i].interrupts
      BY DEF BudgetInv, AttemptBudget
    <3>. QED BY <3>1, <3>2, <3>3
  <2>4. 0 < MaxAttempts + hist'[j].interrupts
    BY <2>1, BudgetTypes, ConstantsAssumption
  <2>5. ASSUME NEW e \in queue' \cup inflight' \cup tick'.claim
        PROVE  \/ e \in queue \cup inflight \cup tick.claim
               \/ e.attempts < MaxAttempts + hist'[e.job].interrupts
    <3>1. CASE Push(j, 0, TRUE)
      <4>1. PICK t \in 1 .. MaxEntries :
              queue' = queue \cup {[job |-> j, attempts |-> 0, due |-> TRUE,
                                    at |-> t]}
        BY <3>1 DEF Push
      <4>. QED BY <2>1, <2>4, <4>1
    <3>2. CASE UNCHANGED queue
      BY <2>1, <3>2
    <3>. QED BY <1>3, <3>1, <3>2 DEF Submit, SubmitTimesOut
  <2>. QED BY <2>1, <2>3, <2>5, BudgetKept DEF BudgetInv
<1>4. CASE \/ \E j \in Jobs : \/ SubmitRejected(j) \/ CancelJob(j)
                              \/ CancelStart(j) \/ CancelUndrained(j)
           \/ CancelSave \/ CancelThrows \/ CancelFail
  <2>1. CountsKept /\ EntriesKept /\ TickKept /\ PollerKept
    BY <1>4, CountsUnchanged
    DEF SubmitRejected, CancelJob, CancelStart, CancelUndrained, CancelSave,
        CancelThrows, CancelFail, valkey, ghosts, EntriesKept, TickKept,
        PollerKept
  <2>. QED BY <2>1, QuietStep
<1>5. CASE CancelMark
  <2>1. \A j \in Jobs : kv'[j].attempts = kv[j].attempts
    BY <1>5 DEF CancelMark, CancelKeys, TypeInv, TypeOK, JobKeys
  <2>2. CountsKept /\ EntriesKept /\ TickKept /\ PollerKept
    BY <1>5, <2>1, BudgetTypes
    DEF CancelMark, ghosts, CountsKept, EntriesKept, TickKept, PollerKept
  <2>. QED BY <2>2, QuietStep
<1>6. CASE \/ \E r \in Runs : RunEnds(r) \/ EncoreCallback(r)
           \/ \E i \in Instances : InstanceVanishes(i) \/ IdleTimeElapses(i)
           \/ \E j \in Jobs : GraceElapses(j) \/ GateExpires(j) \/ PinReleased(j)
  <2>1. \A j \in Jobs : /\ kv'[j].attempts = kv[j].attempts
                        /\ hist'[j].interrupts = hist[j].interrupts
    <3>1. CASE \E r \in Runs : RunEnds(r)
      BY <3>1 DEF RunEnds, valkey, TypeInv, TypeOK, JobHistory
    <3>2. CASE \E j \in Jobs : GraceElapses(j) \/ GateExpires(j) \/ PinReleased(j)
      BY <3>2 DEF GraceElapses, GateExpires, PinReleased, ghosts, TypeInv,
                  TypeOK, JobKeys
    <3>3. CASE \/ \E r \in Runs : EncoreCallback(r)
               \/ \E i \in Instances : InstanceVanishes(i) \/ IdleTimeElapses(i)
      BY <3>3 DEF EncoreCallback, InstanceVanishes, IdleTimeElapses, valkey,
                  ghosts
    <3>. QED BY <1>6, <3>1, <3>2, <3>3
  <2>2. EntriesKept /\ TickKept /\ PollerKept
    BY <1>6
    DEF RunEnds, EncoreCallback, InstanceVanishes, IdleTimeElapses, GraceElapses,
        GateExpires, PinReleased, valkey, EntriesKept, TickKept, PollerKept
  <2>3. CountsKept
    BY <2>1, BudgetTypes DEF CountsKept
  <2>. QED BY <2>2, <2>3, QuietStep
<1>7. ASSUME NEW e \in queue \cup tick.claim, BackoffElapses(e) PROVE BudgetInv'
  <2>. DEFINE f == [e EXCEPT !.due = TRUE]
              elapsed(S) == {IF g = e THEN f ELSE g : g \in S}
  <2>1. f.job = e.job /\ f.attempts = e.attempts
    BY DEF TypeInv, TypeOK, TickLocals, Entry
  <2>2. /\ UNCHANGED <<kv, poller, hist>>
        /\ queue' = elapsed(queue) /\ inflight' = elapsed(inflight)
        /\ tick' = [tick EXCEPT !.claim = elapsed(tick.claim)]
    BY <1>7 DEF BackoffElapses, ghosts
  <2>. HIDE DEF f
  <2>3. ASSUME NEW S, NEW g \in elapsed(S) PROVE g \in S \/ g = f
    OBVIOUS
  <2>. HIDE DEF elapsed
  <2>4. tick'.claim = elapsed(tick.claim) /\ tick'.pc = tick.pc /\ tick'.n = tick.n
    BY <2>2 DEF TypeInv, TypeOK, TickLocals
  <2>5. ASSUME NEW j \in Jobs
        PROVE  /\ kv'[j].attempts <= MaxAttempts + hist'[j].interrupts
               /\ hist'[j].interrupts >= hist[j].interrupts
    BY <2>2, BudgetTypes DEF BudgetInv, AttemptBudget
  <2>6. f.attempts < MaxAttempts + hist'[f.job].interrupts
    BY <2>1, <2>2 DEF BudgetInv, AttemptBudget, Affordable
  <2>7. ASSUME NEW g \in queue' \cup inflight' \cup tick'.claim
        PROVE  \/ g \in queue \cup inflight \cup tick.claim
               \/ g.attempts < MaxAttempts + hist'[g.job].interrupts
    BY <2>2, <2>3, <2>4, <2>6
  <2>. QED BY <2>2, <2>4, <2>5, <2>7, BudgetKept DEF BudgetInv
<1>8. CASE Crash
  <2>1. CountsKept /\ EntriesKept /\ TickKept /\ PollerKept
    BY <1>8, CountsUnchanged, IdleTickType, IdlePollerType
    DEF Crash, valkey, ghosts, EntriesKept, TickKept, PollerKept
  <2>. QED BY <2>1, QuietStep
<1>. QED BY <1>1, <1>2, <1>3, <1>4, <1>5, <1>6, <1>7, <1>8
         DEF SweepStep, ApiStep, Environment

\* Every step keeps the budget.
LEMMA NextBudget == TypeInv /\ TypeInv' /\ BudgetInv /\ [Next]_vars => BudgetInv'
<1>. SUFFICES ASSUME TypeInv, TypeInv', BudgetInv, [Next]_vars PROVE BudgetInv'
  OBVIOUS
<1>1. CASE TickStep
  BY <1>1, InterruptBudget, FailsBudget, ReconcileBudget, DropBudget,
     ScaleBudget, DispatchBudget DEF TickStep, TickFails
<1>2. CASE UNCHANGED vars
  BY <1>2 DEF vars, BudgetInv, AttemptBudget, Affordable
<1>. QED BY <1>1, <1>2, PollerBudget, WorldBudget DEF Next

\* However retries and interruptions interleave, no queue entry of a job and
\* no count of its dispatches goes beyond MAX_ENCODE_ATTEMPTS by more than its
\* interruptions (decideRetry, recordDispatch, requeueInterruptedByScaleDown).
THEOREM BudgetHolds == Spec => []AttemptBudget
<1>1. TypeInv /\ Init => BudgetInv
  BY ConstantsAssumption, IdleTickType, IdlePollerType
  DEF Init, BudgetInv, AttemptBudget, Affordable, NoKeys
<1>2. BudgetInv => AttemptBudget
  BY DEF BudgetInv
<1>. QED BY <1>1, <1>2, InitType, NextBudget, TypeInvariance, PTL DEF Spec
=============================================================================
