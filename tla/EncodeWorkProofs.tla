-------------------------- MODULE EncodeWorkProofs --------------------------
(***************************************************************************)
(* What the encode path does with the encodes it started: scale-down       *)
(* destroys none that somebody wants, and no queue entry is spent on two;  *)
(* and who holds the jobs that are not settled yet.                        *)
(***************************************************************************)
EXTENDS EncodeScalerProofs

-----------------------------------------------------------------------------
(* Scale-down. *)

\* The tick holds the probe of an instance it is about to tear down, or deals
\* with the jobs that instance lost first.
Acting(t) == t.pc = "act" \/ (t.pc = "interrupt" /\ t.back = "act")

\* The probe is older than the teardown but still covers every encode on the
\* instance, and counts no fewer encodes than it lists jobs: encodes end
\* meanwhile, and only the tick itself would start one.
ProbeCovers ==
  Acting(tick) =>
    /\ Cardinality(tick.real[tick.cur].jobs) <= tick.real[tick.cur].count
    /\ \A r \in Runs : runs[r].st = "active" /\ runs[r].inst = tick.cur
                       => runs[r].job \in tick.real[tick.cur].jobs

\* The inductive invariant of scale-down.
SparesInv == ScaleDownSparesLiveWork /\ ProbeCovers

\* No encode starts.
NoneStarted ==
  \A r \in Runs : runs'[r].st = "active"
                  => /\ runs[r].st = "active"
                     /\ runs'[r].job = runs[r].job /\ runs'[r].inst = runs[r].inst

\* The tick goes on with the probe it has, or with none.
ProbeKept ==
  Acting(tick') => /\ Acting(tick)
                   /\ tick'.cur = tick.cur /\ tick'.real = tick.real

\* The tick is in reconcile, or will return to it.
Reconciling(t) ==
  t.pc = "reconcile" \/ (t.pc = "interrupt" /\ t.back = "reconcile")

\* The probes reconcile works with are old, but list every encode that is active
\* on an instance that answered.
ProbesCover ==
  Reconciling(tick) =>
    \A r \in Runs : runs[r].st = "active" /\ tick.real[runs[r].inst].ok
                    => runs[r].job \in tick.real[runs[r].inst].jobs

\* reconcile goes on with the probes it has, or the tick has left it.
ViewKeeps == Reconciling(tick') => Reconciling(tick) /\ tick'.real = tick.real

\* A step that starts no encode, tears nothing down and takes no probe.
LEMMA SparesKept ==
  ASSUME SparesInv, NoneStarted, ProbeKept, UNCHANGED killed
  PROVE  SparesInv'
BY DEF SparesInv, ScaleDownSparesLiveWork, ProbeCovers, NoneStarted, ProbeKept

\* A cancel sent to Encore starts no encode.
LEMMA CancelRunStartsNone ==
  ASSUME runs \in [Runs -> Run], NEW u, CancelRun(u)
  PROVE  NoneStarted
BY DEF CancelRun, NoneStarted, Run

\* Nor does the loss of an instance.
LEMMA DestroyedStartsNone ==
  ASSUME runs \in [Runs -> Run], NEW i, runs' = Destroyed(i)
  PROVE  NoneStarted
BY DEF Destroyed, NoneStarted, Run

\* Leaving a phase never leads to a teardown, nor back to reconcile.
LEMMA OnwardActs ==
  ASSUME NEW t, t.pc \notin {"act", "interrupt"}
  PROVE  /\ ~Acting(Onward(t))
         /\ Reconciling(Onward(t)) => t.pc = "reconcile" /\ Onward(t).real = t.real
<1>1. Onward(t) = t \/ Onward(t).pc \in {"idle", "sweep", "drops", "dispatch"}
  BY DEF Onward, IdleTick
<1>. QED BY <1>1 DEF Acting, Reconciling

\* After lost jobs, a teardown goes on with the probe it took, and reconcile with
\* the probes it took.
LEMMA ResumeActs ==
  ASSUME NEW t \in TickLocals
  PROVE  /\ Acting(Resume(t)) => /\ t.back = "act" /\ Resume(t).cur = t.cur
                                 /\ Resume(t).real = t.real
         /\ Reconciling(Resume(t)) => /\ t.back = "reconcile"
                                      /\ Resume(t).real = t.real
<1>1. CASE t.lost # {}
  BY <1>1 DEF Resume, Acting, Reconciling, TickLocals
<1>2. CASE t.lost = {}
  <2>. DEFINE u == [t EXCEPT !.pc = t.back]
  <2>1. u \in TickLocals /\ u.pc = t.back /\ u.cur = t.cur /\ u.real = t.real
    BY DEF TickLocals
  <2>2. Resume(t) = Onward(u)
    BY <1>2 DEF Resume
  <2>3. t.back \in {"reconcile", "act"}
    BY DEF TickLocals
  <2>. HIDE DEF u
  <2>4. CASE t.back = "reconcile"
    BY <2>1, <2>2, <2>4, OnwardActs
  <2>5. CASE t.back = "act"
    BY <2>1, <2>2, <2>5 DEF Onward, Reconciling
  <2>. QED BY <2>3, <2>4, <2>5
<1>. QED BY <1>1, <1>2

\* Entering the scale-down loop, or returning to it, is not a teardown.
LEMMA LoopActs ==
  ASSUME tick \in TickLocals
  PROVE  /\ \A p : ~Acting(EnterScaleDown(p)) /\ ~Reconciling(EnterScaleDown(p))
         /\ \A i, p : ~Acting(Kept(i, p)) /\ ~Reconciling(Kept(i, p))
<1>1. ASSUME NEW p
      PROVE  ~Acting(EnterScaleDown(p)) /\ ~Reconciling(EnterScaleDown(p))
  <2>. DEFINE t == [IdleTick EXCEPT
            !.pc = "scaleDown", !.snap = p, !.stuck = StuckCancelledHosts,
            !.todo = {i \in InPool(p) : \/ IdleAndAged(p[i])
                                        \/ p[i].draining
                                        \/ i \in StuckCancelledHosts}]
  <2>1. t.pc = "scaleDown"
    BY DEF IdleTick
  <2>2. EnterScaleDown(p) = Onward(t)
    BY DEF EnterScaleDown
  <2>. HIDE DEF t
  <2>. QED BY <2>1, <2>2, OnwardActs
<1>2. ASSUME NEW i, NEW p PROVE ~Acting(Kept(i, p)) /\ ~Reconciling(Kept(i, p))
  <2>. DEFINE t == [tick EXCEPT !.pc = "scaleDown", !.cur = None, !.snap[i] = p,
                                !.back = "reconcile", !.real[i] = NoAnswer]
  <2>1. t.pc = "scaleDown"
    BY DEF TickLocals
  <2>2. Kept(i, p) = Onward(t)
    BY DEF Kept
  <2>. HIDE DEF t
  <2>. QED BY <2>1, <2>2, OnwardActs
<1>. QED BY <1>1, <1>2

\* A tick that starts prepares no teardown, and what it knows of an instance is a
\* probe taken now.
LEMMA StartActs ==
  ASSUME TickStart
  PROVE  /\ ~Acting(tick')
         /\ Reconciling(tick') =>
              \A i \in Instances : tick'.real[i].ok => tick'.real[i] = ProbeOf(i)
<1>1. PICK silent \in SUBSET (InPool(pool) \cap alive) :
        tick' = Onward([IdleTick EXCEPT
          !.pc = "reconcile", !.todo = InPool(pool), !.snap = pool,
          !.real = [i \in Instances |->
                      IF i \in (InPool(pool) \cap alive) \ silent
                        THEN ProbeOf(i) ELSE NoAnswer]])
  BY DEF TickStart
<1>. DEFINE real == [i \in Instances |->
                      IF i \in (InPool(pool) \cap alive) \ silent
                        THEN ProbeOf(i) ELSE NoAnswer]
            t == [IdleTick EXCEPT !.pc = "reconcile", !.todo = InPool(pool),
                                  !.snap = pool, !.real = real]
<1>2. \A i \in Instances : real[i].ok => real[i] = ProbeOf(i)
  BY DEF NoAnswer
<1>3. t.pc = "reconcile" /\ t.real = real
  BY DEF IdleTick
<1>4. tick' = Onward(t)
  BY <1>1
<1>. HIDE DEF t, real
<1>. QED BY <1>2, <1>3, <1>4, OnwardActs

\* reconcile, the drops and the failure sweep prepare no teardown
\* and take no probe.
LEMMA ReconcileActs ==
  ASSUME TypeInv,
         \/ ReconcileEnd
         \/ \E i \in Instances : EvictVanished(i) \/ ReconcileInstance(i)
         \/ \E j \in Jobs : SweepFailed(j)
         \/ \E d \in [job : Jobs, retryable : BOOLEAN] : SettleDrop(d)
         \/ DropRequeue \/ DropRequeueFails
  PROVE  ~Acting(tick') /\ ViewKeeps
<1>1. tick \in TickLocals
  BY DEF TypeInv, TypeOK
<1>3. CASE ReconcileEnd
  <2>. DEFINE t == [tick EXCEPT !.onto = {}]
  <2>1. t.pc = "reconcile" /\ t.real = tick.real /\ Reconciling(tick)
    BY <1>1, <1>3 DEF ReconcileEnd, Reconciling, TickLocals
  <2>2. tick' = Onward(t)
    BY <1>3 DEF ReconcileEnd
  <2>. HIDE DEF t
  <2>. QED BY <2>1, <2>2, OnwardActs DEF ViewKeeps
<1>4. ASSUME NEW i \in Instances, EvictVanished(i)
      PROVE  ~Acting(tick') /\ ViewKeeps
  <2>. DEFINE t == [tick EXCEPT !.todo = @ \ {i}, !.snap[i] = Gone,
                                !.lost = LostWith(i, {}), !.back = "reconcile"]
  <2>1. t \in TickLocals /\ t.back = "reconcile" /\ t.real = tick.real
    <3>1. LostWith(i, {}) \subseteq Jobs
      BY DEF LostWith
    <3>2. Gone \in PoolRecord
      BY DEF Gone, PoolRecord
    <3>. QED BY <1>1, <3>1, <3>2 DEF TickLocals
  <2>2. tick' = Resume(t) /\ Reconciling(tick)
    BY <1>4 DEF EvictVanished, Reconciling
  <2>. HIDE DEF t
  <2>. QED BY <2>1, <2>2, ResumeActs DEF ViewKeeps, Acting
<1>5. ASSUME NEW i \in Instances, ReconcileInstance(i)
      PROVE  ~Acting(tick') /\ ViewKeeps
  <2>1. PICK t, s, onto, drops :
          /\ t = [tick EXCEPT !.todo = @ \ {i}, !.snap[i] = s, !.onto = onto,
                              !.drops = drops]
          /\ tick' = Onward(t)
    BY <1>5 DEF ReconcileInstance
  <2>2. t.pc = "reconcile" /\ t.real = tick.real /\ Reconciling(tick)
    BY <1>1, <1>5, <2>1 DEF ReconcileInstance, Reconciling, TickLocals
  <2>. QED BY <2>1, <2>2, OnwardActs DEF ViewKeeps
<1>6. CASE \E j \in Jobs : SweepFailed(j)
  BY <1>6 DEF SweepFailed, Acting, Reconciling, ViewKeeps
<1>7. ASSUME NEW d \in [job : Jobs, retryable : BOOLEAN], SettleDrop(d)
      PROVE  ~Acting(tick') /\ ViewKeeps
  <2>. DEFINE t == [tick EXCEPT !.drops = @ \ {d}]
              u == [tick EXCEPT !.pc = "requeue", !.job = d.job,
                                !.n = AttemptsSoFar(d.job), !.drops = @ \ {d}]
  <2>1. t.pc = "drops" /\ u.pc = "requeue"
    BY <1>1, <1>7 DEF SettleDrop, TickLocals
  <2>2. tick' = u \/ tick' = Onward(t)
    BY <1>7 DEF SettleDrop
  <2>. HIDE DEF t, u
  <2>. QED BY <2>1, <2>2, OnwardActs DEF Acting, Reconciling, ViewKeeps
<1>8. CASE DropRequeue \/ DropRequeueFails
  <2>. DEFINE t == [tick EXCEPT !.pc = "drops", !.job = None, !.n = 0]
  <2>1. t.pc = "drops"
    BY <1>1 DEF TickLocals
  <2>2. tick' = Onward(t)
    BY <1>8 DEF DropRequeue, DropRequeueFails, DropRequeued
  <2>. HIDE DEF t
  <2>. QED BY <2>1, <2>2, OnwardActs DEF ViewKeeps
<1>. QED BY <1>3, <1>4, <1>5, <1>6, <1>7, <1>8

\* Scaling up and dispatch prepare no teardown and take no probe, and a
\* teardown that is done is over.
LEMMA LoopStepActs ==
  ASSUME TypeInv,
         \/ \E i \in Instances : ScaleUp(i) \/ ScaleDownKeep(i)
         \/ NoScaleUp \/ ScaleUpStart \/ SpawnFails
         \/ ScaleDownDrain \/ ScaleDownRelease \/ ScaleDownDestroy
         \/ \E i \in Instances : DispatchNone(i) \/ DispatchClaim(i)
         \/ DispatchPost \/ DispatchRefused \/ DispatchRecord
         \/ DispatchRecordFails \/ DispatchUnclaim \/ DispatchCount
         \/ DispatchGiveBack
  PROVE  ~Acting(tick') /\ ~Reconciling(tick')
<1>1. tick \in TickLocals
  BY DEF TypeInv, TypeOK
<1>2. CASE \/ \E i \in Instances : ScaleUp(i)
           \/ NoScaleUp \/ SpawnFails
           \/ ScaleDownDrain \/ ScaleDownRelease \/ ScaleDownDestroy
  <2>1. \/ \E p : tick' = EnterScaleDown(p)
        \/ \E i, p : tick' = Kept(i, p)
    BY <1>2 DEF ScaleUp, NoScaleUp, SpawnFails, ScaleDownDrain,
                ScaleDownRelease, ScaleDownDestroy
  <2>. QED BY <1>1, <2>1, LoopActs
<1>3. CASE ScaleUpStart
  BY <1>3 DEF ScaleUpStart, IdleTick, Acting, Reconciling
<1>4. ASSUME NEW i \in Instances, ScaleDownKeep(i) \/ DispatchNone(i)
      PROVE  ~Acting(tick') /\ ~Reconciling(tick')
  <2>1. [tick EXCEPT !.todo = @ \ {i}].pc \in {"scaleDown", "dispatch"}
    BY <1>1, <1>4 DEF ScaleDownKeep, DispatchNone, TickLocals
  <2>. QED BY <1>4, <2>1, OnwardActs DEF ScaleDownKeep, DispatchNone
<1>5. CASE \/ \E i \in Instances : DispatchClaim(i)
           \/ DispatchPost \/ DispatchRefused \/ DispatchRecord
           \/ DispatchRecordFails \/ DispatchUnclaim
  <2>1. CASE \E i \in Instances : DispatchClaim(i)
    <3>1. PICK i, e :
            tick' = [tick EXCEPT !.pc = IF e.due THEN "post" ELSE "refused",
                                 !.cur = i, !.claim = {e}, !.todo = @ \ {i}]
      BY <2>1 DEF DispatchClaim
    <3>. QED BY <1>1, <3>1 DEF Acting, Reconciling, TickLocals
  <2>2. CASE DispatchPost
    BY <1>1, <2>2 DEF DispatchPost, StartRun, Acting, Reconciling, TickLocals
  <2>3. CASE DispatchRefused
    BY <1>1, <2>3 DEF DispatchRefused, Acting, Reconciling, TickLocals
  <2>4. CASE DispatchRecord
    <3>1. tick' = [tick EXCEPT !.pc = "dispatched"]
      BY <2>4 DEF DispatchRecord
    <3>. QED BY <1>1, <3>1 DEF Acting, Reconciling, TickLocals
  <2>5. CASE DispatchRecordFails
    <3>1. tick' = [tick EXCEPT !.pc = "refused", !.run = 0]
      BY <2>5 DEF DispatchRecordFails
    <3>. QED BY <1>1, <3>1 DEF Acting, Reconciling, TickLocals
  <2>6. CASE DispatchUnclaim
    BY <1>1, <2>6 DEF DispatchUnclaim, Acting, Reconciling, TickLocals
  <2>. QED BY <1>5, <2>1, <2>2, <2>3, <2>4, <2>5, <2>6
<1>6. CASE DispatchCount
  <2>1. PICK p : tick' = Onward([tick EXCEPT !.pc = "dispatch", !.cur = None,
                                   !.snap[tick.cur] = p, !.claim = {}, !.run = 0])
    BY <1>6 DEF DispatchCount
  <2>2. [tick EXCEPT !.pc = "dispatch", !.cur = None, !.snap[tick.cur] = p,
                     !.claim = {}, !.run = 0].pc = "dispatch"
    BY <1>1 DEF TickLocals
  <2>. QED BY <2>1, <2>2, OnwardActs
<1>7. CASE DispatchGiveBack
  <2>1. [tick EXCEPT !.pc = "dispatch", !.cur = None, !.claim = {}].pc = "dispatch"
    BY <1>1 DEF TickLocals
  <2>. QED BY <1>7, <2>1, OnwardActs DEF DispatchGiveBack
<1>. QED BY <1>2, <1>3, <1>4, <1>5, <1>6, <1>7

\* A probe lists every encode on the instance, and counts at least as many
\* encodes as it lists jobs.
LEMMA ProbeCoversAll ==
  ASSUME TypeInv, NEW i \in Instances
  PROVE  /\ Cardinality(ProbeOf(i).jobs) <= ProbeOf(i).count
         /\ \A r \in Runs : runs[r].st = "active" /\ runs[r].inst = i
                            => runs[r].job \in ProbeOf(i).jobs
<1>. DEFINE S == ActiveRuns(i)
            T == {runs[r].job : r \in S}
            f == [r \in S |-> runs[r].job]
<1>1. IsFiniteSet(S)
  BY ConstantsAssumption, FS_Interval, FS_Subset DEF ActiveRuns, Runs
<1>2. f \in Surjection(S, T)
  BY DEF Surjection
<1>3. Cardinality(T) <= Cardinality(S)
  <2>. HIDE DEF S, T, f
  <2>. QED BY <1>1, <1>2, FS_Surjection
<1>. QED BY <1>3 DEF ProbeOf, ActiveRuns

\* A scale-down candidate is torn down with a probe taken now.
LEMMA ProbeActs ==
  ASSUME TypeInv, NEW i \in Instances, ScaleDownProbe(i)
  PROVE  /\ Acting(tick') => tick'.cur = i /\ tick'.real[i] = ProbeOf(i)
         /\ ~Reconciling(tick')
<1>. DEFINE t == [tick EXCEPT !.todo = @ \ {i}, !.cur = i,
                              !.real[i] = ProbeOf(i), !.back = "act",
                              !.lost = LostWith(i, ProbeOf(i).jobs)]
<1>1. /\ t \in TickLocals /\ t.cur = i /\ t.real[i] = ProbeOf(i)
      /\ t.back = "act"
  <2>1. tick \in TickLocals /\ ProbeOf(i) \in Probe
    BY ProbeType DEF TypeInv, TypeOK
  <2>2. LostWith(i, ProbeOf(i).jobs) \subseteq Jobs
    BY DEF LostWith
  <2>. QED BY <2>1, <2>2 DEF TickLocals, InstOrNone
<1>2. tick' = Resume(t)
  BY DEF ScaleDownProbe
<1>. HIDE DEF t
<1>. QED BY <1>1, <1>2, ResumeActs

\* Such a probe covers the encodes on the instance.
LEMMA ProbeSpares ==
  ASSUME TypeInv, SparesInv, NEW i \in Instances, ScaleDownProbe(i)
  PROVE  SparesInv'
<1>1. UNCHANGED <<runs, killed>>
  BY DEF ScaleDownProbe, encore, ghosts
<1>. QED BY <1>1, ProbeActs, ProbeCoversAll
         DEF SparesInv, ScaleDownSparesLiveWork, ProbeCovers

\* Lost jobs are requeued or settled under the probes that were taken.
LEMMA InterruptLeavesProbe ==
  ASSUME TypeInv, NEW j \in Jobs, InterruptRequeue(j) \/ InterruptLost(j)
  PROVE  NoneStarted /\ UNCHANGED killed /\ ProbeKept /\ ViewKeeps
<1>1. NoneStarted
  <2>1. runs \in [Runs -> Run]
    BY DEF TypeInv, TypeOK
  <2>2. CASE InterruptRequeue(j)
    BY <2>1, <2>2, CancelRunStartsNone DEF InterruptRequeue
  <2>3. CASE InterruptLost(j)
    BY <2>1, <2>3 DEF InterruptLost, encore, NoneStarted
  <2>. QED BY <2>2, <2>3
<1>2. ProbeKept /\ ViewKeeps
  <2>. DEFINE t == [tick EXCEPT !.lost = @ \ {j}]
  <2>1. /\ t \in TickLocals /\ t.back = tick.back
        /\ t.cur = tick.cur /\ t.real = tick.real
    BY DEF TypeInv, TypeOK, TickLocals
  <2>2. tick' = Resume(t) /\ tick.pc = "interrupt"
    BY DEF InterruptRequeue, InterruptLost
  <2>. HIDE DEF t
  <2>. QED BY <2>1, <2>2, ResumeActs
         DEF ProbeKept, ViewKeeps, Acting, Reconciling
<1>3. UNCHANGED killed
  BY DEF InterruptRequeue, InterruptLost, ghosts
<1>. QED BY <1>1, <1>2, <1>3

\* After a call that failed the tick is over, or goes on with fewer lost jobs.
LEMMA FailsGo ==
  ASSUME TickFails
  PROVE  \/ TickThrows /\ tick' = IdleTick
         \/ tick.pc = "interrupt" /\ \E S \in SUBSET tick.lost :
              tick' = Resume([tick EXCEPT !.lost = S])
<1>1. CASE TickThrows
  BY <1>1 DEF TickThrows
<1>2. ASSUME NEW j \in Jobs, InterruptFails(j)
      PROVE  tick.pc = "interrupt" /\ \E S \in SUBSET tick.lost :
               tick' = Resume([tick EXCEPT !.lost = S])
  BY <1>2 DEF InterruptFails
<1>3. ASSUME NEW j \in Jobs, LostFails(j)
      PROVE  tick.pc = "interrupt" /\ \E S \in SUBSET tick.lost :
               tick' = Resume([tick EXCEPT !.lost = S])
  <2>1. tick.lost \ {j} \in SUBSET tick.lost
    OBVIOUS
  <2>. QED BY <1>3, <2>1 DEF LostFails
<1>. QED BY <1>1, <1>2, <1>3 DEF TickFails

\* It cancels an encode at most.
LEMMA FailsRuns ==
  ASSUME TickFails
  PROVE  UNCHANGED runs \/ \E j \in Jobs : CancelRun(kv[j].url)
<1>1. ASSUME NEW j \in Jobs, InterruptFails(j)
      PROVE  UNCHANGED runs \/ CancelRun(kv[j].url)
  BY <1>1 DEF InterruptFails
<1>. QED BY <1>1 DEF TickFails, TickThrows, LostFails, encore

\* It starts nothing, and the probes stay as they were taken.
LEMMA FailsLeaveProbe ==
  ASSUME TypeInv, TickFails
  PROVE  NoneStarted /\ UNCHANGED killed /\ ProbeKept /\ ViewKeeps
<1>1. NoneStarted
  <2>1. runs \in [Runs -> Run]
    BY DEF TypeInv, TypeOK
  <2>2. UNCHANGED runs => NoneStarted
    BY DEF NoneStarted
  <2>. QED BY <2>1, <2>2, FailsRuns, CancelRunStartsNone
<1>2. ProbeKept /\ ViewKeeps
  <2>1. CASE tick' = IdleTick
    BY <2>1 DEF IdleTick, ProbeKept, ViewKeeps, Acting, Reconciling
  <2>2. ASSUME NEW S \in SUBSET tick.lost, tick.pc = "interrupt",
               tick' = Resume([tick EXCEPT !.lost = S])
        PROVE  ProbeKept /\ ViewKeeps
    <3>. DEFINE t == [tick EXCEPT !.lost = S]
    <3>1. /\ t \in TickLocals /\ t.back = tick.back
          /\ t.cur = tick.cur /\ t.real = tick.real
      BY DEF TypeInv, TypeOK, TickLocals
    <3>2. tick' = Resume(t)
      BY <2>2
    <3>. HIDE DEF t
    <3>. QED BY <2>2, <3>1, <3>2, ResumeActs
           DEF ProbeKept, ViewKeeps, Acting, Reconciling
  <2>. QED BY <2>1, <2>2, FailsGo
<1>3. UNCHANGED killed
  BY FailsQuietly
<1>. QED BY <1>1, <1>2, <1>3

\* An instance that is not protected runs only encodes that ignored their cancel:
\* the probe counts no fewer encodes than it lists, and all it counts are abandoned.
LEMMA ProbeAbandoned ==
  ASSUME TypeInv, SparesInv, tick.pc = "act", ~Protected(tick.cur)
  PROVE  Abandoned(tick.cur) = tick.real[tick.cur].jobs
<1>. DEFINE i == tick.cur
            jobs == tick.real[i].jobs
<1>1. i \in Instances /\ Acting(tick)
  BY DEF TypeInv, TickNamed, NamedTick, Acting
<1>2. tick.real[i].count \in Nat /\ jobs \subseteq Jobs
  BY <1>1 DEF TypeInv, TypeOK, TickLocals, Probe
<1>3. /\ IsFiniteSet(jobs) /\ Abandoned(i) \subseteq jobs
      /\ Cardinality(jobs) \in Nat /\ Cardinality(Abandoned(i)) \in Nat
  <2>1. IsFiniteSet(jobs)
    BY <1>2, ConstantsAssumption, FS_Subset
  <2>2. Abandoned(i) \subseteq jobs
    BY DEF Abandoned
  <2>. HIDE DEF jobs
  <2>3. IsFiniteSet(Abandoned(i))
    BY <2>1, <2>2, FS_Subset
  <2>. QED BY <2>1, <2>2, <2>3, FS_CardinalityType
<1>4. tick.real[i].count <= Cardinality(Abandoned(i))
  BY <1>2, <1>3 DEF Protected
<1>5. Cardinality(jobs) <= tick.real[i].count
  BY <1>1 DEF SparesInv, ProbeCovers
<1>. HIDE DEF jobs
<1>6. Cardinality(Abandoned(i)) <= Cardinality(jobs)
  BY <1>3, FS_Subset
<1>7. Cardinality(Abandoned(i)) = Cardinality(jobs)
  BY <1>2, <1>3, <1>4, <1>5, <1>6
<1>8. Abandoned(i) = jobs
  BY <1>3, <1>7, FS_Subset
<1>. QED BY <1>8 DEF jobs

\* The teardown itself.
LEMMA DestroySpares ==
  ASSUME TypeInv, SparesInv, ScaleDownDestroy
  PROVE  SparesInv'
<1>1. tick.pc = "act" /\ ~Protected(tick.cur) /\ Acting(tick)
  BY DEF ScaleDownDestroy, Acting
<1>2. \A r \in ActiveRuns(tick.cur) : kv[runs[r].job].cancelReq = "ripe"
  <2>1. \A r \in ActiveRuns(tick.cur) : runs[r].job \in tick.real[tick.cur].jobs
    BY <1>1 DEF SparesInv, ProbeCovers, ActiveRuns
  <2>. QED BY <1>1, <2>1, ProbeAbandoned DEF Abandoned
<1>3. killed' = {}
  BY <1>2 DEF ScaleDownDestroy, SparesInv, ScaleDownSparesLiveWork
<1>. QED BY <1>3, LoopStepActs DEF SparesInv, ScaleDownSparesLiveWork, ProbeCovers

\* Every step of the tick spares wanted encodes.
LEMMA TickSpares ==
  ASSUME TypeInv, SparesInv, TickStep
  PROVE  SparesInv'
<1>1. runs \in [Runs -> Run]
  BY DEF TypeInv, TypeOK
<1>2. CASE \/ \E i \in Instances : ScaleDownProbe(i)
           \/ \E j \in Jobs : InterruptRequeue(j) \/ InterruptLost(j)
           \/ ScaleDownDestroy
  BY <1>2, ProbeSpares, InterruptLeavesProbe, SparesKept, DestroySpares
<1>3. CASE \/ TickStart \/ ReconcileEnd
           \/ \E i \in Instances : EvictVanished(i) \/ ReconcileInstance(i)
           \/ \E j \in Jobs : SweepFailed(j)
           \/ \E d \in [job : Jobs, retryable : BOOLEAN] : SettleDrop(d)
           \/ DropRequeue \/ DropRequeueFails
  <2>1. ~Acting(tick')
    BY <1>3, StartActs, ReconcileActs
  <2>2. UNCHANGED killed
    BY <1>3 DEF TickStart, ReconcileEnd, EvictVanished, ReconcileInstance,
                SweepFailed, SettleDrop, DropRequeue, DropRequeueFails, ghosts
  <2>. QED BY <2>1, <2>2 DEF SparesInv, ScaleDownSparesLiveWork, ProbeCovers
<1>4. CASE \/ \E i \in Instances : ScaleUp(i) \/ ScaleDownKeep(i)
           \/ NoScaleUp \/ ScaleUpStart \/ SpawnFails
           \/ ScaleDownDrain \/ ScaleDownRelease
           \/ \E i \in Instances : DispatchNone(i) \/ DispatchClaim(i)
           \/ DispatchPost \/ DispatchRefused \/ DispatchRecord
           \/ DispatchRecordFails \/ DispatchUnclaim \/ DispatchCount
           \/ DispatchGiveBack
  <2>1. ~Acting(tick')
    BY <1>4, LoopStepActs
  <2>2. UNCHANGED killed
    BY <1>4 DEF ScaleUp, ScaleDownKeep, NoScaleUp, ScaleUpStart, SpawnFails,
                ScaleDownDrain, ScaleDownRelease, DispatchNone, DispatchClaim,
                DispatchPost, DispatchRefused, TickThrows, DispatchRecord,
                DispatchRecordFails, DispatchUnclaim, DispatchCount,
                DispatchGiveBack, ghosts
  <2>. QED BY <2>1, <2>2 DEF SparesInv, ScaleDownSparesLiveWork, ProbeCovers
<1>5. CASE TickFails
  BY <1>5, FailsLeaveProbe, SparesKept
<1>. QED BY <1>2, <1>3, <1>4, <1>5 DEF TickStep, TickFails

\* The steps of poller, sweep, requests and world start no encode and leave
\* the probe alone.
LEMMA OthersLeaveProbe ==
  ASSUME TypeInv, PollerStep \/ SweepStep \/ ApiStep \/ Environment
  PROVE  NoneStarted /\ UNCHANGED killed /\ ProbeKept /\ ViewKeeps
<1>1. runs \in [Runs -> Run]
  BY DEF TypeInv, TypeOK
<1>2. NoneStarted
  <2>1. CASE UNCHANGED runs
    BY <2>1 DEF NoneStarted
  <2>2. CASE \E u : CancelRun(u)
    BY <1>1, <2>2, CancelRunStartsNone
  <2>3. CASE \E i : runs' = Destroyed(i)
    BY <1>1, <2>3, DestroyedStartsNone
  <2>4. CASE \E r \in Runs : RunEnds(r) \/ EncoreCallback(r)
    BY <1>1, <2>4 DEF RunEnds, EncoreCallback, NoneStarted, Run
  <2>5. CASE PollerStep
    BY <2>1, <2>2, <2>5
    DEF PollerStep, PollFetch, PollUnreachable, PollSuccess, PollFailure,
        PollRetry, PollRequeue, PollRequeueFails, PollWrite, PollCount,
        RetryRequeue, RequeueFails, encore
  <2>6. CASE SweepStep
    BY <2>1, <2>2, <2>6
    DEF SweepStep, SweepTerminalJob, StallDetected, RetryRequeue
  <2>7. CASE ApiStep
    BY <2>1, <2>2, <2>7
    DEF ApiStep, Submit, SubmitRejected, SubmitTimesOut, CancelStart, CancelJob,
        CancelUndrained, CancelMark, CancelThrows, CancelSave, CancelFail,
        encore
  <2>8. CASE Environment
    BY <2>1, <2>3, <2>4, <2>8
    DEF Environment, InstanceVanishes, IdleTimeElapses, BackoffElapses,
        GraceElapses, GateExpires, PinReleased, Crash, encore
  <2>. QED BY <2>5, <2>6, <2>7, <2>8
<1>3. UNCHANGED killed
  BY DEF PollerStep, PollFetch, PollUnreachable, PollSuccess, PollFailure,
         PollRetry, PollRequeue, PollRequeueFails, PollWrite, PollCount,
         SweepStep, SweepTerminalJob, StallDetected, ApiStep, Submit,
         SubmitRejected, SubmitTimesOut, CancelStart, CancelJob,
         CancelUndrained, CancelMark, CancelThrows, CancelSave, CancelFail,
         Environment, RunEnds, EncoreCallback, InstanceVanishes,
         IdleTimeElapses, BackoffElapses, GraceElapses, GateExpires,
         PinReleased, Crash, ghosts
<1>4. ProbeKept /\ ViewKeeps
  <2>1. CASE UNCHANGED tick
    BY <2>1 DEF ProbeKept, ViewKeeps
  <2>2. CASE \E e \in queue \cup tick.claim : BackoffElapses(e)
    <3>1. PICK claim : tick' = [tick EXCEPT !.claim = claim]
      BY <2>2 DEF BackoffElapses
    <3>. QED BY <3>1 DEF TypeInv, TypeOK, TickLocals, ProbeKept, ViewKeeps, Acting,
                       Reconciling
  <2>3. CASE Crash
    BY <2>3 DEF Crash, IdleTick, ProbeKept, ViewKeeps, Acting, Reconciling
  <2>4. CASE PollerStep
    BY <2>1, <2>4
    DEF PollerStep, PollFetch, PollUnreachable, PollSuccess, PollFailure,
        PollRetry, PollRequeue, PollRequeueFails, PollWrite, PollCount
  <2>5. CASE SweepStep \/ ApiStep
    BY <2>1, <2>5
    DEF SweepStep, SweepTerminalJob, StallDetected, ApiStep, Submit,
        SubmitRejected, SubmitTimesOut, CancelStart, CancelJob, CancelUndrained,
        CancelMark, CancelThrows, CancelSave, CancelFail
  <2>6. CASE Environment
    BY <2>1, <2>2, <2>3, <2>6
    DEF Environment, RunEnds, EncoreCallback, InstanceVanishes,
        IdleTimeElapses, GraceElapses, GateExpires, PinReleased
  <2>. QED BY <2>4, <2>5, <2>6
<1>. QED BY <1>2, <1>3, <1>4

\* What a teardown knows of its instance stays true.
LEMMA SparesInvariance == Spec => []SparesInv
<1>1. Init => SparesInv
  BY DEF Init, IdleTick, SparesInv, ScaleDownSparesLiveWork, ProbeCovers, Acting
<1>2. TypeInv /\ SparesInv /\ [Next]_vars => SparesInv'
  <2>. SUFFICES ASSUME TypeInv, SparesInv, [Next]_vars PROVE SparesInv'
    OBVIOUS
  <2>1. CASE UNCHANGED vars
    BY <2>1 DEF vars, SparesInv, ScaleDownSparesLiveWork, ProbeCovers
  <2>. QED BY <2>1, TickSpares, OthersLeaveProbe, SparesKept DEF Next
<1>. QED BY <1>1, <1>2, TypeInvariance, PTL DEF Spec

\* Scale-down never destroys an instance that runs an encode somebody wants
\* (drain-don't-kill), although its decision rests on a probe taken before the
\* lost jobs were dealt with and the pool's tracked counts may be wrong.
THEOREM WorkSpared == Spec => []ScaleDownSparesLiveWork
<1>1. SparesInv => ScaleDownSparesLiveWork
  BY DEF SparesInv
<1>. QED BY <1>1, SparesInvariance, PTL

-----------------------------------------------------------------------------
(* One holder for each job. *)

Active(r, j) == runs[r].st = "active" /\ runs[r].job = j

\* The tick has an entry in its hand that is yet to be dispatched or goes back.
Holding(t) == t.pc \in {"post", "refused", "giveBack"}

\* A dispatch of job j is due.
Waits(j) == \/ \E e \in queue : e.job = j
            \/ Holding(tick) /\ \E e \in tick.claim : e.job = j

\* A job has one entry, in the queue or in the tick's hand, or one active
\* encode, or neither, and its mapping names the instance of that encode.  A job
\* that was never submitted has left no trace.
JobOnce(j) ==
  /\ \A e, f \in queue : e.job = j /\ f.job = j => e = f
  /\ Holding(tick) =>
       \A e \in tick.claim : e.job = j =>
         /\ \A f \in queue : f.job # j
         /\ \A f \in tick.claim : e = f
  /\ Waits(j) => kv[j].inst = None
  /\ \A r \in Runs : Active(r, j) =>
       /\ ~Waits(j)
       /\ kv[j].inst = None \/ kv[j].inst = runs[r].inst
       /\ \A q \in Runs : Active(q, j) => q = r
  /\ record[j].st = "none" =>
       /\ ~Waits(j) /\ kv[j].inst = None
       /\ \A r \in Runs : runs[r].job # j

\* Jobs the tick found lost wait for nothing and run nowhere, until it requeues
\* them.
LostGone ==
  tick.pc = "interrupt" =>
    \A j \in tick.lost : /\ ~Waits(j) /\ record[j].st # "none"
                         /\ \A r \in Runs : ~Active(r, j)

\* An accepted POST whose mapping is still to be written.
PostedOnce ==
  tick.pc = "record" =>
    \A e \in tick.claim :
      /\ tick.run \in Runs
      /\ runs[tick.run].job = e.job /\ runs[tick.run].inst = tick.cur
      /\ \A f \in queue : f.job # e.job
      /\ \A r \in Runs : Active(r, e.job) => r = tick.run

\* Active encodes are on instances that exist.
ActiveAlive == \A r \in Runs : runs[r].st = "active" => runs[r].inst \in alive

\* No encode has failed, so none is retried.
NoRetries ==
  /\ \A r \in Runs : runs[r].st \notin {"transport", "fatal"}
  /\ poller.pc # "requeue" /\ ~poller.retryable
  /\ tick.pc # "requeue" /\ \A d \in tick.drops : ~d.retryable

\* The inductive invariant of a run in which no call fails.
OnceInv ==
  /\ \A j \in Jobs : JobOnce(j)
  /\ LostGone /\ ProbesCover /\ PostedOnce /\ ActiveAlive /\ NoRetries

-----------------------------------------------------------------------------
(* Steps that start no encode and queue no entry. *)

\* Encodes at most end, and none fails.
RunsKept ==
  \A r \in Runs :
    /\ runs'[r].job = runs[r].job /\ runs'[r].inst = runs[r].inst
    /\ runs'[r].st \in {"active", "transport", "fatal"}
       => runs'[r].st = runs[r].st

\* Nothing is queued, and nothing claimed.
NoneEntered ==
  /\ queue' \subseteq queue
  /\ Holding(tick') => Holding(tick) /\ tick'.claim = tick.claim

\* No mapping is written, and no record is forgotten.
MappingsKept ==
  \A j \in Jobs : /\ kv'[j].inst = kv[j].inst \/ kv'[j].inst = None
                  /\ record'[j].st = "none" => record[j].st = "none"

\* The tick finds no job lost, takes no probe and starts no encode.
TickQuiet ==
  /\ tick'.pc = "interrupt" => /\ tick.pc = "interrupt"
                               /\ tick'.lost \subseteq tick.lost
  /\ Reconciling(tick') => Reconciling(tick) /\ tick'.real = tick.real
  /\ tick'.pc = "record" => UNCHANGED tick

\* Neither tick nor poller decides a retry.
NoneRetried ==
  /\ poller'.pc # "requeue" /\ ~poller'.retryable
  /\ tick'.pc # "requeue" /\ tick'.drops \subseteq tick.drops

-----------------------------------------------------------------------------
(* What a step does to the work of each job. *)

\* No encode changes its job and no record is forgotten.
WorkNamed ==
  /\ \A r \in Runs : runs'[r].job = runs[r].job
  /\ \A j \in Jobs : record'[j].st = "none" => record[j].st = "none"

\* Nothing new is due.
WorkKept == WorkNamed /\ \A j \in Jobs : Waits(j)' => Waits(j)

\* A job that waited for nothing is queued: submitted, or once more after an
\* interruption.
Entered(j) ==
  /\ WorkNamed /\ ~Waits(j)
  /\ \A i \in Jobs : Waits(i)' => Waits(i) \/ i = j
  /\ record'[j].st # "none"
  /\ \/ record[j].st = "none"
     \/ hist'[j].interrupts = hist[j].interrupts + 1

\* A job that waited is encoded.
Started(j, r) ==
  /\ runs[r].job = None /\ runs'[r].job = j
  /\ \A q \in Runs : q # r => runs'[q].job = runs[q].job
  /\ Waits(j) /\ ~Waits(j)' /\ UNCHANGED record
  /\ \A i \in Jobs : Waits(i)' => Waits(i)

WorkStep == \/ WorkKept
            \/ \E j \in Jobs : Entered(j)
            \/ \E j \in Jobs, r \in Runs : Started(j, r)

-----------------------------------------------------------------------------
(* The steps that start no encode and queue no entry keep the invariant. *)

\* A job stays with its holder, or loses it.
LEMMA JobOnceKept ==
  ASSUME OnceInv, RunsKept, NoneEntered, MappingsKept, NEW j \in Jobs
  PROVE  JobOnce(j)' /\ (Waits(j)' => Waits(j))
<1>1. Waits(j)' => Waits(j)
  BY DEF Waits, NoneEntered
<1>2. \A r \in Runs : Active(r, j)' => Active(r, j)
  BY DEF Active, RunsKept
<1>3. JobOnce(j)
  BY DEF OnceInv
<1>4. /\ \A e, f \in queue' : e.job = j /\ f.job = j => e = f
      /\ Holding(tick') =>
           \A e \in tick'.claim : e.job = j =>
             /\ \A f \in queue' : f.job # j
             /\ \A f \in tick'.claim : e = f
  BY <1>3 DEF JobOnce, NoneEntered
<1>5. Waits(j)' => kv'[j].inst = None
  BY <1>1, <1>3 DEF JobOnce, MappingsKept
<1>6. ASSUME NEW r \in Runs, Active(r, j)'
      PROVE  /\ ~Waits(j)'
             /\ kv'[j].inst = None \/ kv'[j].inst = runs'[r].inst
             /\ \A q \in Runs : Active(q, j)' => q = r
  BY <1>1, <1>2, <1>3, <1>6 DEF JobOnce, MappingsKept, RunsKept
<1>7. record'[j].st = "none" =>
        /\ ~Waits(j)' /\ kv'[j].inst = None
        /\ \A r \in Runs : runs'[r].job # j
  BY <1>1, <1>3 DEF JobOnce, MappingsKept, RunsKept
<1>. QED BY <1>1, <1>4, <1>5, <1>6, <1>7 DEF JobOnce

\* Such a step adds no work.
LEMMA WorkQuiet ==
  ASSUME OnceInv, RunsKept, NoneEntered, MappingsKept
  PROVE  WorkStep
BY JobOnceKept DEF WorkStep, WorkKept, WorkNamed, RunsKept, MappingsKept

\* What such a step keeps of the tick's view of the encodes.
LEMMA ViewKept ==
  ASSUME TypeInv, OnceInv, RunsKept, NoneEntered, MappingsKept, TickQuiet
  PROVE  LostGone' /\ ProbesCover' /\ PostedOnce'
<1>1. \A r \in Runs, j \in Jobs : Active(r, j)' => Active(r, j)
  BY DEF Active, RunsKept
<1>2. LostGone'
  <2>1. tick'.pc = "interrupt" => tick'.lost \subseteq Jobs
    BY DEF TickQuiet, TypeInv, TypeOK, TickLocals
  <2>. QED BY <1>1, <2>1, JobOnceKept DEF LostGone, TickQuiet, OnceInv, MappingsKept
<1>3. ProbesCover'
  BY DEF ProbesCover, TickQuiet, RunsKept, OnceInv
<1>4. PostedOnce'
  <2>. SUFFICES ASSUME tick'.pc = "record", NEW e \in tick'.claim
       PROVE  /\ tick'.run \in Runs
              /\ runs'[tick'.run].job = e.job /\ runs'[tick'.run].inst = tick'.cur
              /\ \A f \in queue' : f.job # e.job
              /\ \A r \in Runs : Active(r, e.job)' => r = tick'.run
    BY DEF PostedOnce
  <2>1. tick' = tick /\ e \in tick.claim /\ e.job \in Jobs
    BY DEF TickQuiet, TypeInv, TypeOK, TickLocals, Entry
  <2>2. tick.run \in Runs
    BY <2>1 DEF OnceInv, PostedOnce
  <2>. QED BY <1>1, <2>1, <2>2 DEF OnceInv, PostedOnce, NoneEntered, RunsKept
<1>. QED BY <1>2, <1>3, <1>4

\* A step of this kind keeps the whole invariant, when it takes no instance
\* away.
LEMMA OnceKept ==
  ASSUME TypeInv, OnceInv, RunsKept, NoneEntered, MappingsKept, TickQuiet,
         NoneRetried, alive \subseteq alive'
  PROVE  OnceInv' /\ WorkStep
<1>1. \A j \in Jobs : JobOnce(j)'
  BY JobOnceKept
<1>2. LostGone' /\ ProbesCover' /\ PostedOnce'
  BY ViewKept
<1>3. ActiveAlive'
  BY DEF OnceInv, ActiveAlive, RunsKept
<1>4. NoRetries'
  BY DEF OnceInv, NoRetries, RunsKept, NoneRetried
<1>. QED BY <1>1, <1>2, <1>3, <1>4, WorkQuiet DEF OnceInv

\* A cancel sent to Encore ends an encode at most, and so does the loss of an
\* instance.
LEMMA CancelRunKeeps ==
  ASSUME runs \in [Runs -> Run], NEW u, CancelRun(u)
  PROVE  RunsKept
BY DEF CancelRun, RunsKept, Run

LEMMA DestroyedKeeps ==
  ASSUME runs \in [Runs -> Run], NEW i, runs' = Destroyed(i)
  PROVE  RunsKept
BY DEF Destroyed, RunsKept, Run

\* A requeue, a cleared state and a stamped success lose the mapping or leave it.
LEMMA KeysMapping ==
  ASSUME NEW k \in JobKeys
  PROVE  /\ Requeued(k).inst = None /\ Cleared(k).inst = k.inst
         /\ Stamped(k).inst = None
BY DEF Requeued, Cleared, Stamped, JobKeys

\* One job's keys are written.
LEMMA MappingKept ==
  ASSUME TypeInv, NEW j \in Jobs, NEW k, kv' = [kv EXCEPT ![j] = k],
         k.inst = kv[j].inst \/ k.inst = None
  PROVE  \A i \in Jobs : kv'[i].inst = kv[i].inst \/ kv'[i].inst = None
BY DEF TypeInv, TypeOK

\* Settling a failure forgets no record.
LEMMA SettleFailedKeeps ==
  ASSUME record \in [Jobs -> JobRecord], NEW j, NEW drop, SettleFailed(j, drop)
  PROVE  \A i \in Jobs : record'[i].st = "none" => record[i].st = "none"
BY DEF SettleFailed, JobRecord

\* Leaving a phase of the tick is quiet.
LEMMA OnwardQuiet ==
  ASSUME NEW t, tick' = Onward(t), t.drops \subseteq tick.drops,
         t.pc \in {"reconcile", "drops", "scaleDown", "dispatch"},
         t.pc = "reconcile" => Reconciling(tick) /\ t.real = tick.real
  PROVE  /\ TickQuiet /\ ~Holding(tick')
         /\ tick'.pc # "requeue" /\ tick'.drops \subseteq tick.drops
<1>1. \/ tick' = t
      \/ /\ tick'.pc \in {"idle", "sweep", "drops", "dispatch"}
         /\ tick'.drops = {} \/ tick'.drops = t.drops
  BY DEF Onward, IdleTick
<1>. QED BY <1>1 DEF TickQuiet, Holding, Reconciling

\* Where the tick goes on after lost jobs.
LEMMA ResumeGoes ==
  ASSUME NEW t \in TickLocals
  PROVE  /\ Resume(t).pc \notin {"record", "requeue"} /\ ~Holding(Resume(t))
         /\ Resume(t).drops \subseteq t.drops
         /\ Resume(t).pc = "interrupt" => Resume(t).lost = t.lost
         /\ Reconciling(Resume(t)) => t.back = "reconcile" /\ Resume(t).real = t.real
<1>1. t.back \in {"reconcile", "act"}
  BY DEF TickLocals
<1>2. CASE t.lost # {}
  BY <1>1, <1>2 DEF Resume, Holding, Reconciling, TickLocals
<1>3. CASE t.lost = {}
  <2>. DEFINE u == [t EXCEPT !.pc = t.back]
  <2>1. u.pc = t.back /\ u.drops = t.drops /\ u.real = t.real
    BY DEF TickLocals
  <2>2. Resume(t) = Onward(u)
    BY <1>3 DEF Resume
  <2>. HIDE DEF u
  <2>3. \/ Resume(t) = u
        \/ /\ Resume(t).pc \in {"idle", "sweep", "drops", "dispatch"}
           /\ Resume(t).drops = {} \/ Resume(t).drops = t.drops
    BY <2>1, <2>2 DEF Onward, IdleTick
  <2>. QED BY <1>1, <2>1, <2>3 DEF Holding, Reconciling
<1>. QED BY <1>2, <1>3

-----------------------------------------------------------------------------
(* The poller, the sweep timer, the requests and the world. *)

\* completeTranscode forgets no record and decides no retry.
LEMMA CompleteKeeps ==
  ASSUME TypeInv, ~poller.retryable, NEW j \in Jobs, NEW term, NEW k,
         Complete(j, term, k)
  PROVE  /\ \A i \in Jobs : record'[i].st = "none" => record[i].st = "none"
         /\ poller'.pc # "requeue" /\ ~poller'.retryable
<1>1. poller \in PollerLocals /\ IdlePoller.pc = "idle" /\ ~IdlePoller.retryable
  BY IdlePollerType DEF TypeInv, TypeOK, IdlePoller
<1>2. ASSUME NEW i \in Jobs, record'[i].st = "none" PROVE record[i].st = "none"
  BY <1>2 DEF Complete, TypeInv, TypeOK, JobRecord
<1>3. poller'.pc # "requeue" /\ ~poller'.retryable
  <2>. DEFINE write == [poller EXCEPT !.pc = "write", !.term = term]
  <2>1. /\ Settled \in PollerLocals /\ ~Settled.retryable
        /\ write.pc = "write" /\ ~write.retryable
    BY <1>1, SettledType DEF PollerLocals, Settled, IdlePoller
  <2>2. \/ poller' = IdlePoller \/ poller' = write
        \/ poller' = SlotRead(Settled, k.inst)
    BY Zenon DEF Complete, PollThrow
  <2>3. /\ SlotRead(Settled, k.inst).pc = "count"
        /\ ~SlotRead(Settled, k.inst).retryable
    <3>. HIDE DEF Settled
    <3>. QED BY <2>1 DEF SlotRead, PollerLocals
  <2>. HIDE DEF write
  <2>. QED BY <1>1, <2>1, <2>2, <2>3
<1>. QED BY <1>2, <1>3

\* The poller's steps keep the invariant: with no failed encode it never
\* decides a retry.
LEMMA PollerOnce ==
  ASSUME TypeInv, OnceInv, faults' = 0, PollerStep
  PROVE  OnceInv' /\ WorkStep
<1>1. /\ poller \in PollerLocals /\ IdlePoller.pc = "idle"
      /\ ~IdlePoller.retryable /\ ~poller.retryable
  BY IdlePollerType DEF TypeInv, TypeOK, IdlePoller, OnceInv, NoRetries
<1>2. poller.pc # "idle" => poller.job \in Jobs /\ kv[poller.job] \in JobKeys
  BY DEF TypeInv, TypeOK, PollerNamed
<1>3. UNCHANGED <<queue, tick, alive, runs>>
  <2>1. poller.pc # "requeue"
    BY DEF OnceInv, NoRetries
  <2>. QED BY <2>1
    DEF PollerStep, PollFetch, PollUnreachable, PollSuccess, PollFailure,
        PollRetry, PollRequeue, PollRequeueFails, PollWrite, PollCount, valkey,
        encore
<1>4. RunsKept /\ NoneEntered /\ TickQuiet
  BY <1>3 DEF RunsKept, NoneEntered, TickQuiet
<1>5. tick'.pc # "requeue" /\ tick'.drops \subseteq tick.drops
  BY <1>3 DEF OnceInv, NoRetries
<1>6. SUFFICES MappingsKept /\ poller'.pc # "requeue" /\ ~poller'.retryable
  BY <1>3, <1>4, <1>5, OnceKept DEF NoneRetried
<1>7. ASSUME NEW r \in Runs, PollFetch(r)
      PROVE  MappingsKept /\ poller'.pc # "requeue" /\ ~poller'.retryable
  <2>1. runs[ResolvedRun(r)].st # "transport"
    <3>1. runs[r].job \in Jobs
      BY <1>7 DEF PollFetch, TypeInv, MessagesNamed, RunsNamed, NamedRun
    <3>2. kv[runs[r].job].url \in RunRef
      BY <3>1 DEF TypeInv, TypeOK, JobKeys
    <3>3. ResolvedRun(r) \in Runs
      BY <3>1, <3>2 DEF ResolvedRun, Runs, RunRef
    <3>. QED BY <3>3 DEF OnceInv, NoRetries
  <2>2. poller'.pc # "requeue" /\ ~poller'.retryable
    BY <1>1, <1>7, <2>1 DEF PollFetch, Fetched, IdlePoller
  <2>. QED BY <1>7, <2>2 DEF PollFetch, valkey, MappingsKept
<1>8. ASSUME NEW r \in Runs, PollUnreachable(r)
      PROVE  MappingsKept /\ poller'.pc # "requeue" /\ ~poller'.retryable
  BY <1>1, <1>8 DEF PollUnreachable, Fetched, IdlePoller, valkey, MappingsKept
<1>9. CASE PollSuccess
  <2>1. kv' = [kv EXCEPT ![poller.job] = Stamped(kv[poller.job])]
    BY <1>9 DEF PollSuccess
  <2>2. \A i \in Jobs : kv'[i].inst = kv[i].inst \/ kv'[i].inst = None
    BY <1>2, <1>9, <2>1, KeysMapping, MappingKept DEF PollSuccess
  <2>. QED BY <1>1, <1>2, <1>9, <2>2, CompleteKeeps DEF PollSuccess, MappingsKept
<1>10. CASE PollFailure
  BY <1>1, <1>2, <1>10, CompleteKeeps DEF PollFailure, valkey, MappingsKept
<1>11. CASE PollRetry
  BY <1>1, <1>11 DEF PollRetry, RetryDecision
<1>12. CASE PollRequeue \/ PollRequeueFails
  BY <1>12 DEF PollRequeue, PollRequeueFails, OnceInv, NoRetries
<1>13. CASE PollWrite
  <2>. DEFINE k == [kv[poller.job] EXCEPT
                      !.pin = IF poller.term = None THEN @ ELSE poller.term]
  <2>1. k.inst = kv[poller.job].inst
    BY <1>2, <1>13 DEF PollWrite, JobKeys
  <2>2. UNCHANGED kv \/ kv' = [kv EXCEPT ![poller.job] = k]
    BY <1>13, Zenon DEF PollWrite
  <2>. HIDE DEF k
  <2>3. \A i \in Jobs : kv'[i].inst = kv[i].inst \/ kv'[i].inst = None
    BY <1>2, <1>13, <2>1, <2>2, MappingKept DEF PollWrite
  <2>4. \A i \in Jobs : record'[i].st = "none" => record[i].st = "none"
    BY <1>13 DEF PollWrite, TypeInv, TypeOK
  <2>5. poller'.pc # "requeue" /\ ~poller'.retryable
    <3>1. Settled \in PollerLocals /\ ~Settled.retryable
      BY SettledType DEF Settled, IdlePoller
    <3>2. \A i : SlotRead(Settled, i).pc = "count" /\ ~SlotRead(Settled, i).retryable
      <4>. HIDE DEF Settled
      <4>. QED BY <3>1 DEF SlotRead, PollerLocals
    <3>3. poller' = IdlePoller \/ \E i : poller' = SlotRead(Settled, i)
      BY <1>13 DEF PollWrite, PollThrow
    <3>. QED BY <1>1, <3>2, <3>3
  <2>. QED BY <2>3, <2>4, <2>5 DEF MappingsKept
<1>14. CASE PollCount
  <2>1. UNCHANGED kv \/ kv' = [kv EXCEPT ![poller.job] = Cleared(kv[poller.job])]
    BY <1>14 DEF PollCount
  <2>2. \A i \in Jobs : kv'[i].inst = kv[i].inst \/ kv'[i].inst = None
    BY <1>2, <1>14, <2>1, KeysMapping, MappingKept DEF PollCount
  <2>. QED BY <1>1, <1>14, <2>2 DEF PollCount, MappingsKept
<1>. QED BY <1>7, <1>8, <1>9, <1>10, <1>11, <1>12, <1>13, <1>14 DEF PollerStep

\* LPUSH for a job that has neither an entry nor an active encode.
LEMMA PushOnce ==
  ASSUME TypeInv, OnceInv, NEW j \in Jobs, NEW n, NEW due, Push(j, n, due),
         ~Waits(j), \A r \in Runs : ~Active(r, j), record'[j].st # "none",
         kv'[j].inst = None, RunsKept, MappingsKept,
         Holding(tick') => Holding(tick) /\ tick'.claim = tick.claim
  PROVE  \A i \in Jobs : JobOnce(i)' /\ (Waits(i)' => Waits(i) \/ i = j)
<1>1. PICK x : x.job = j /\ queue' = queue \cup {x}
  BY DEF Push
<1>2. ASSUME NEW i \in Jobs PROVE Waits(i)' => Waits(i) \/ i = j
  BY <1>1 DEF Waits
<1>3. \A i \in Jobs, r \in Runs : Active(r, i)' => Active(r, i)
  BY DEF Active, RunsKept
<1>4. ASSUME NEW i \in Jobs PROVE JobOnce(i)'
  <2>1. JobOnce(i) /\ JobOnce(j)
    BY DEF OnceInv
  <2>2. \A e, f \in queue' : e.job = i /\ f.job = i => e = f
    BY <1>1, <2>1 DEF JobOnce, Waits
  <2>3. Holding(tick') =>
          \A e \in tick'.claim : e.job = i =>
            /\ \A f \in queue' : f.job # i
            /\ \A f \in tick'.claim : e = f
    BY <1>1, <2>1 DEF JobOnce, Waits
  <2>4. Waits(i)' => kv'[i].inst = None
    BY <1>2, <2>1 DEF JobOnce, MappingsKept
  <2>5. ASSUME NEW r \in Runs, Active(r, i)'
        PROVE  /\ ~Waits(i)'
               /\ kv'[i].inst = None \/ kv'[i].inst = runs'[r].inst
               /\ \A q \in Runs : Active(q, i)' => q = r
    BY <1>2, <1>3, <2>1, <2>5 DEF JobOnce, MappingsKept, RunsKept
  <2>6. record'[i].st = "none" =>
          /\ ~Waits(i)' /\ kv'[i].inst = None
          /\ \A r \in Runs : runs'[r].job # i
    BY <1>2, <2>1 DEF JobOnce, MappingsKept, RunsKept
  <2>. QED BY <2>2, <2>3, <2>4, <2>5, <2>6 DEF JobOnce
<1>. QED BY <1>2, <1>4

\* The sweep timer and the requests keep the invariant: a submit queues a job
\* that has left no trace.
LEMMA RequestsOnce ==
  ASSUME TypeInv, OnceInv, faults' = 0, SweepStep \/ ApiStep
  PROVE  OnceInv' /\ WorkStep
<1>1. UNCHANGED <<tick, poller, alive>> \/ \E r \in Runs : StallDetected(r)
  BY DEF SweepStep, SweepTerminalJob, ApiStep, Submit, SubmitRejected,
         SubmitTimesOut, CancelStart, CancelJob, CancelUndrained, CancelMark,
         CancelThrows, CancelSave, CancelFail, encore
<1>2. faults' # faults + 1
  BY DEF TypeInv, TypeOK
<1>3. UNCHANGED <<tick, poller, alive>>
  BY <1>1, <1>2 DEF StallDetected
<1>4. TickQuiet /\ NoneRetried
  BY <1>3 DEF TickQuiet, NoneRetried, OnceInv, NoRetries
<1>5. runs \in [Runs -> Run]
  BY DEF TypeInv, TypeOK
<1>6. CASE SweepStep
  <2>1. UNCHANGED <<queue, kv, record, runs>>
    BY <1>2, <1>6 DEF SweepStep, SweepTerminalJob, StallDetected, valkey
  <2>. QED BY <1>3, <1>4, <2>1, OnceKept DEF RunsKept, NoneEntered, MappingsKept
<1>7. ASSUME NEW j \in Jobs, Submit(j) PROVE OnceInv' /\ WorkStep
  <2>1. JobOnce(j) /\ record[j].st = "none" /\ UNCHANGED runs
    BY <1>7 DEF OnceInv, Submit, encore
  <2>2. /\ ~Waits(j) /\ kv[j].inst = None
        /\ \A r \in Runs : runs[r].job # j
    BY <2>1 DEF JobOnce
  <2>3. RunsKept
    BY <2>1 DEF RunsKept
  <2>4. MappingsKept /\ record'[j].st = "queued" /\ kv'[j].inst = None
    BY <1>7, <2>2 DEF Submit, MappingsKept, TypeInv, TypeOK, JobRecord, JobKeys
  <2>5. Push(j, 0, TRUE)
    BY <1>7 DEF Submit
  <2>6. \A i \in Jobs : JobOnce(i)' /\ (Waits(i)' => Waits(i) \/ i = j)
    BY <1>3, <2>2, <2>3, <2>4, <2>5, PushOnce DEF Active
  <2>7. LostGone'
    <3>1. tick.lost \subseteq Jobs
      BY DEF TypeInv, TypeOK, TickLocals
    <3>. QED BY <1>3, <2>1, <2>4, <2>6, <3>1
             DEF LostGone, OnceInv, MappingsKept, Active
  <2>8. PostedOnce'
    <3>1. PICK x : x.job = j /\ queue' = queue \cup {x}
      BY <2>5 DEF Push
    <3>. QED BY <1>3, <2>1, <2>2, <3>1 DEF PostedOnce, OnceInv, Active
  <2>9. ProbesCover' /\ ActiveAlive' /\ NoRetries'
    BY <1>3, <2>1 DEF OnceInv, ProbesCover, ActiveAlive, NoRetries
  <2>10. Entered(j)
    BY <2>1, <2>2, <2>3, <2>4, <2>6
    DEF Entered, WorkNamed, RunsKept, MappingsKept
  <2>. QED BY <2>6, <2>7, <2>8, <2>9, <2>10 DEF OnceInv, WorkStep
<1>8. ASSUME NEW j \in Jobs, SubmitRejected(j) \/ SubmitTimesOut(j)
      PROVE  OnceInv' /\ WorkStep
  <2>1. UNCHANGED <<queue, kv, runs>>
    BY <1>2, <1>8 DEF SubmitRejected, SubmitTimesOut, valkey, encore
  <2>2. \A i \in Jobs : record'[i].st = "none" => record[i].st = "none"
    BY <1>8 DEF SubmitRejected, SubmitTimesOut, TypeInv, TypeOK, JobRecord
  <2>. QED BY <1>3, <1>4, <2>1, <2>2, OnceKept
           DEF RunsKept, NoneEntered, MappingsKept
<1>9. ASSUME NEW j \in Jobs, CancelStart(j) PROVE OnceInv' /\ WorkStep
  <2>1. RunsKept
    BY <1>5, <1>9, CancelRunKeeps DEF CancelStart
  <2>2. NoneEntered /\ MappingsKept
    BY <1>3, <1>9 DEF CancelStart, NoneEntered, MappingsKept
  <2>. QED BY <1>3, <1>4, <2>1, <2>2, OnceKept
<1>10. CASE \/ CancelMark \/ CancelSave \/ CancelThrows \/ CancelFail
            \/ \E j \in Jobs : CancelJob(j) \/ CancelUndrained(j)
  <2>1. UNCHANGED <<queue, runs>>
    BY <1>10 DEF CancelMark, CancelSave, CancelThrows, CancelFail, CancelJob,
                 CancelUndrained, valkey, encore
  <2>2. \A i \in Jobs : kv'[i].inst = kv[i].inst
    <3>1. UNCHANGED kv \/ kv' = CancelKeys(canceller.job, canceller.url)
      BY <1>10 DEF CancelMark, CancelSave, CancelThrows, CancelFail, CancelJob,
                   CancelUndrained, valkey
    <3>2. kv \in [Jobs -> JobKeys]
      BY DEF TypeInv, TypeOK
    <3>. QED BY <3>1, <3>2 DEF CancelKeys, JobKeys
  <2>3. \A i \in Jobs : record'[i].st = "none" => record[i].st = "none"
    BY <1>10 DEF CancelMark, CancelSave, CancelThrows, CancelFail, CancelJob,
                 CancelUndrained, TypeInv, TypeOK, JobRecord
  <2>. QED BY <1>3, <1>4, <2>1, <2>2, <2>3, OnceKept
           DEF RunsKept, NoneEntered, MappingsKept
<1>. QED BY <1>6, <1>7, <1>8, <1>9, <1>10 DEF ApiStep

\* A back-off that runs out leaves each entry its job and its place.
LEMMA BackoffOnce ==
  ASSUME TypeInv, OnceInv, NEW e \in Entry, BackoffElapses(e)
  PROVE  OnceInv' /\ WorkStep
<1>. DEFINE el(f) == IF f = e THEN [e EXCEPT !.due = TRUE] ELSE f
<1>1. /\ queue' = {el(f) : f \in queue}
      /\ tick' = [tick EXCEPT !.claim = {el(f) : f \in tick.claim}]
      /\ UNCHANGED <<kv, record, alive, runs, poller>>
  BY DEF BackoffElapses, encore
<1>2. \A f : el(f).job = f.job
  BY DEF Entry
<1>3. /\ \A x \in queue' : \E f \in queue : x = el(f) /\ f.job = x.job
      /\ tick' = [tick EXCEPT !.claim = tick'.claim]
      /\ \A x \in tick'.claim : \E f \in tick.claim : x = el(f) /\ f.job = x.job
  <2>1. tick'.claim = {el(f) : f \in tick.claim}
    BY <1>1 DEF TypeInv, TypeOK, TickLocals
  <2>. HIDE DEF el
  <2>. QED BY <1>1, <1>2, <2>1
<1>. HIDE DEF el
<1>4. /\ tick'.pc = tick.pc /\ tick'.lost = tick.lost /\ tick'.real = tick.real
      /\ tick'.back = tick.back /\ tick'.run = tick.run /\ tick'.cur = tick.cur
      /\ tick'.drops = tick.drops
  BY <1>1 DEF TypeInv, TypeOK, TickLocals
<1>5. \A j \in Jobs : Waits(j)' => Waits(j)
  BY <1>3, <1>4 DEF Waits, Holding
<1>6. \A j \in Jobs, r \in Runs : Active(r, j)' <=> Active(r, j)
  BY <1>1 DEF Active
<1>7. ASSUME NEW j \in Jobs PROVE JobOnce(j)'
  <2>1. JobOnce(j)
    BY DEF OnceInv
  <2>2. \A x, f \in queue' : x.job = j /\ f.job = j => x = f
    BY <1>3, <2>1 DEF JobOnce
  <2>3. Holding(tick') =>
          \A x \in tick'.claim : x.job = j =>
            /\ \A f \in queue' : f.job # j
            /\ \A f \in tick'.claim : x = f
    BY <1>3, <1>4, <2>1 DEF JobOnce, Holding
  <2>. QED BY <1>1, <1>5, <1>6, <2>1, <2>2, <2>3 DEF JobOnce
<1>8. LostGone'
  <2>1. tick.lost \subseteq Jobs
    BY DEF TypeInv, TypeOK, TickLocals
  <2>. QED BY <1>1, <1>4, <1>5, <1>6, <2>1 DEF LostGone, OnceInv
<1>9. PostedOnce'
  BY <1>1, <1>3, <1>4 DEF PostedOnce, OnceInv, Active
<1>10. ProbesCover' /\ ActiveAlive' /\ NoRetries'
  BY <1>1, <1>4 DEF OnceInv, ProbesCover, Reconciling, ActiveAlive, NoRetries
<1>11. WorkKept
  BY <1>1, <1>5 DEF WorkKept, WorkNamed
<1>. QED BY <1>7, <1>8, <1>9, <1>10, <1>11 DEF OnceInv, WorkStep

\* What the world does keeps the invariant: encodes end, time passes, the
\* process restarts.
LEMMA EnvironmentOnce ==
  ASSUME TypeInv, OnceInv, faults' = 0, Environment
  PROVE  OnceInv' /\ WorkStep
<1>1. faults' # faults + 1 /\ runs \in [Runs -> Run] /\ kv \in [Jobs -> JobKeys]
  BY DEF TypeInv, TypeOK
<1>2. CASE \E e \in queue \cup tick.claim : BackoffElapses(e)
  BY <1>2, BackoffOnce DEF TypeInv, TypeOK, TickLocals
<1>3. CASE \E r \in Runs : RunEnds(r) \/ EncoreCallback(r)
  <2>1. UNCHANGED <<queue, tick, poller, kv, record, alive>>
    BY <1>3 DEF RunEnds, EncoreCallback, valkey
  <2>2. RunsKept
    BY <1>1, <1>3 DEF RunEnds, EncoreCallback, RunsKept, Run
  <2>3. NoneEntered /\ MappingsKept /\ TickQuiet /\ NoneRetried
    BY <2>1 DEF NoneEntered, MappingsKept, TickQuiet, NoneRetried, OnceInv, NoRetries
  <2>. QED BY <2>1, <2>2, <2>3, OnceKept
<1>4. ASSUME NEW i \in Instances, InstanceVanishes(i) PROVE OnceInv' /\ WorkStep
  BY <1>1, <1>4 DEF InstanceVanishes
<1>5. CASE \/ \E i \in Instances : IdleTimeElapses(i)
           \/ \E j \in Jobs : GraceElapses(j) \/ GateExpires(j) \/ PinReleased(j)
  <2>1. UNCHANGED <<queue, tick, poller, record, alive, runs>>
    BY <1>5 DEF IdleTimeElapses, GraceElapses, GateExpires, PinReleased, encore
  <2>2. \A j \in Jobs : kv'[j].inst = kv[j].inst
    BY <1>1, <1>5 DEF IdleTimeElapses, GraceElapses, GateExpires, PinReleased, JobKeys
  <2>3. RunsKept /\ NoneEntered /\ MappingsKept /\ TickQuiet /\ NoneRetried
    BY <2>1, <2>2
    DEF RunsKept, NoneEntered, MappingsKept, TickQuiet, NoneRetried, OnceInv, NoRetries
  <2>. QED BY <2>1, <2>3, OnceKept
<1>6. CASE Crash
  <2>1. UNCHANGED <<queue, kv, record, alive, runs>>
    BY <1>6 DEF Crash, valkey
  <2>2. tick' = IdleTick /\ poller' = IdlePoller
    BY <1>6 DEF Crash
  <2>3. RunsKept /\ NoneEntered /\ MappingsKept /\ TickQuiet /\ NoneRetried
    BY <2>1, <2>2
    DEF RunsKept, NoneEntered, MappingsKept, TickQuiet, NoneRetried, IdleTick,
        IdlePoller, Holding, Reconciling
  <2>. QED BY <2>1, <2>3, OnceKept
<1>. QED BY <1>2, <1>3, <1>4, <1>5, <1>6 DEF Environment

-----------------------------------------------------------------------------
(* The tick. *)

\* Entering the scale-down loop, or returning to it, is quiet.
LEMMA LoopQuiet ==
  ASSUME TypeInv,
         (\E p : tick' = EnterScaleDown(p)) \/ (\E i, p : tick' = Kept(i, p))
  PROVE  /\ TickQuiet /\ ~Holding(tick')
         /\ tick'.pc # "requeue" /\ tick'.drops \subseteq tick.drops
<1>1. tick \in TickLocals
  BY DEF TypeInv, TypeOK
<1>2. ASSUME NEW p, tick' = EnterScaleDown(p)
      PROVE  /\ TickQuiet /\ ~Holding(tick')
             /\ tick'.pc # "requeue" /\ tick'.drops \subseteq tick.drops
  <2>. DEFINE t == [IdleTick EXCEPT
            !.pc = "scaleDown", !.snap = p, !.stuck = StuckCancelledHosts,
            !.todo = {i \in InPool(p) : \/ IdleAndAged(p[i])
                                        \/ p[i].draining
                                        \/ i \in StuckCancelledHosts}]
  <2>1. t.pc = "scaleDown" /\ t.drops = {}
    BY DEF IdleTick
  <2>2. tick' = Onward(t)
    BY <1>2 DEF EnterScaleDown
  <2>. HIDE DEF t
  <2>. QED BY <2>1, <2>2, OnwardQuiet
<1>3. ASSUME NEW i, NEW p, tick' = Kept(i, p)
      PROVE  /\ TickQuiet /\ ~Holding(tick')
             /\ tick'.pc # "requeue" /\ tick'.drops \subseteq tick.drops
  <2>1. PICK t : /\ t = [tick EXCEPT
                           !.pc = "scaleDown", !.cur = None, !.snap[i] = p,
                           !.back = "reconcile", !.real[i] = NoAnswer]
                 /\ tick' = Onward(t)
    BY <1>3 DEF Kept
  <2>2. t.pc = "scaleDown" /\ t.drops = tick.drops
    BY <1>1, <2>1 DEF TickLocals
  <2>. QED BY <2>1, <2>2, OnwardQuiet
<1>. QED BY <1>2, <1>3

\* A tick starts with probes of what runs now.
LEMMA StartOnce ==
  ASSUME TypeInv, OnceInv, TickStart
  PROVE  OnceInv' /\ WorkStep
<1>1. PICK real : /\ tick' = Onward([IdleTick EXCEPT !.pc = "reconcile",
                               !.todo = InPool(pool), !.snap = pool, !.real = real])
                  /\ \A i \in Instances : real[i].ok => real[i] = ProbeOf(i)
  <2>1. PICK silent \in SUBSET (InPool(pool) \cap alive) :
          tick' = Onward([IdleTick EXCEPT
            !.pc = "reconcile", !.todo = InPool(pool), !.snap = pool,
            !.real = [i \in Instances |->
                        IF i \in (InPool(pool) \cap alive) \ silent
                          THEN ProbeOf(i) ELSE NoAnswer]])
    BY DEF TickStart
  <2>. DEFINE real == [i \in Instances |->
                        IF i \in (InPool(pool) \cap alive) \ silent
                          THEN ProbeOf(i) ELSE NoAnswer]
  <2>2. \A i \in Instances : real[i].ok => real[i] = ProbeOf(i)
    BY DEF NoAnswer
  <2>. QED BY <2>1, <2>2
<1>. DEFINE t == [IdleTick EXCEPT !.pc = "reconcile", !.todo = InPool(pool),
                                  !.snap = pool, !.real = real]
<1>2. t.pc = "reconcile" /\ t.drops = {} /\ t.real = real
  BY DEF IdleTick
<1>3. tick' = Onward(t)
  BY <1>1
<1>. HIDE DEF t
<1>4. /\ tick'.pc \in {"reconcile", "sweep"} /\ tick'.drops = {}
      /\ tick'.pc = "reconcile" => tick'.real = real
  BY <1>2, <1>3 DEF Onward, IdleTick
<1>5. UNCHANGED <<queue, kv, record, alive, runs, poller>>
  BY DEF TickStart, valkey, encore
<1>6. RunsKept /\ NoneEntered /\ MappingsKept
  BY <1>4, <1>5 DEF RunsKept, NoneEntered, MappingsKept, Holding
<1>7. \A j \in Jobs : JobOnce(j)'
  BY <1>6, JobOnceKept
<1>8. ProbesCover'
  <2>1. ASSUME NEW r \in Runs, runs[r].st = "active"
        PROVE  /\ runs[r].inst \in Instances
               /\ runs[r].job \in ProbeOf(runs[r].inst).jobs
    <3>1. runs[r].inst \in Instances
      BY <2>1 DEF TypeInv, RunsNamed, NamedRun
    <3>. QED BY <2>1, <3>1 DEF ProbeOf, ActiveRuns
  <2>. QED BY <1>1, <1>4, <1>5, <2>1 DEF ProbesCover, Reconciling
<1>9. LostGone' /\ PostedOnce' /\ ActiveAlive' /\ NoRetries'
  BY <1>4, <1>5 DEF LostGone, PostedOnce, ActiveAlive, NoRetries, OnceInv
<1>. QED BY <1>6, <1>7, <1>8, <1>9, WorkQuiet DEF OnceInv

\* A vanished instance and a teardown candidate: what is found lost there is
\* mapped to an instance that does not run it, so nothing does.
LEMMA FoundOnce ==
  ASSUME TypeInv, OnceInv, NEW i \in Instances,
         EvictVanished(i) \/ ScaleDownProbe(i)
  PROVE  OnceInv' /\ WorkStep
<1>1. PICK t : /\ t \in TickLocals /\ tick' = Resume(t)
               /\ t.drops = tick.drops
               /\ t.back = "reconcile" => Reconciling(tick) /\ t.real = tick.real
               /\ \A j \in t.lost :
                    /\ kv[j].inst = i
                    /\ \A r \in Runs : Active(r, j) => runs[r].inst # i
  <2>. DEFINE u == [tick EXCEPT !.todo = @ \ {i}, !.snap[i] = Gone,
                                !.lost = LostWith(i, {}), !.back = "reconcile"]
              v == [tick EXCEPT !.todo = @ \ {i}, !.cur = i,
                                !.real[i] = ProbeOf(i), !.back = "act",
                                !.lost = LostWith(i, ProbeOf(i).jobs)]
  <2>1. tick \in TickLocals /\ ProbeOf(i) \in Probe /\ Gone \in PoolRecord
    BY ProbeType DEF TypeInv, TypeOK, Gone, PoolRecord
  <2>2. /\ u \in TickLocals /\ u.drops = tick.drops /\ u.back = "reconcile"
        /\ u.real = tick.real /\ u.lost = LostWith(i, {})
    <3>1. LostWith(i, {}) \subseteq Jobs
      BY DEF LostWith
    <3>. QED BY <2>1, <3>1 DEF TickLocals
  <2>3. /\ v \in TickLocals /\ v.drops = tick.drops /\ v.back = "act"
        /\ v.lost = LostWith(i, ProbeOf(i).jobs)
    <3>1. LostWith(i, ProbeOf(i).jobs) \subseteq Jobs
      BY DEF LostWith
    <3>. QED BY <2>1, <3>1 DEF TickLocals, InstOrNone
  <2>4. \/ EvictVanished(i) /\ tick' = Resume(u)
        \/ ScaleDownProbe(i) /\ tick' = Resume(v)
    BY DEF EvictVanished, ScaleDownProbe
  <2>. HIDE DEF u, v
  <2>5. CASE EvictVanished(i) /\ tick' = Resume(u)
    <3>1. Reconciling(tick) /\ i \notin alive
      BY <2>5 DEF EvictVanished, Reconciling
    <3>2. \A j \in u.lost :
            /\ kv[j].inst = i
            /\ \A r \in Runs : Active(r, j) => runs[r].inst # i
      BY <2>2, <3>1 DEF LostWith, Active, OnceInv, ActiveAlive
    <3>. QED BY <2>2, <2>5, <3>1, <3>2
  <2>6. CASE ScaleDownProbe(i) /\ tick' = Resume(v)
    <3>1. \A j \in v.lost :
            /\ kv[j].inst = i
            /\ \A r \in Runs : Active(r, j) => runs[r].inst # i
      BY <2>3 DEF LostWith, ProbeOf, ActiveRuns, Active
    <3>. QED BY <2>3, <2>6, <3>1
  <2>. QED BY <2>4, <2>5, <2>6
<1>2. UNCHANGED <<queue, kv, record, alive, runs, poller>>
  BY DEF EvictVanished, ScaleDownProbe, valkey, encore
<1>3. /\ tick'.pc \notin {"record", "requeue"} /\ ~Holding(tick')
      /\ tick'.drops \subseteq tick.drops
      /\ tick'.pc = "interrupt" => tick'.lost = t.lost
      /\ Reconciling(tick') => Reconciling(tick) /\ tick'.real = tick.real
  BY <1>1, ResumeGoes
<1>4. RunsKept /\ NoneEntered /\ MappingsKept
  BY <1>2, <1>3 DEF RunsKept, NoneEntered, MappingsKept
<1>5. \A j \in Jobs : JobOnce(j)' /\ (Waits(j)' => Waits(j))
  BY <1>4, JobOnceKept
<1>6. LostGone'
  <2>1. ASSUME NEW j \in t.lost
        PROVE  /\ ~Waits(j)' /\ record'[j].st # "none"
               /\ \A r \in Runs : ~Active(r, j)'
    <3>1. j \in Jobs /\ JobOnce(j)
      BY <1>1 DEF TickLocals, OnceInv
    <3>2. kv[j].inst = i /\ i # None
      BY <1>1, ConstantsAssumption
    <3>3. ~Waits(j) /\ record[j].st # "none" /\ \A r \in Runs : ~Active(r, j)
      BY <1>1, <3>1, <3>2 DEF JobOnce
    <3>. QED BY <1>2, <1>5, <3>1, <3>3 DEF Active
  <2>. QED BY <1>3, <2>1 DEF LostGone
<1>7. ProbesCover'
  BY <1>2, <1>3 DEF OnceInv, ProbesCover
<1>8. PostedOnce' /\ ActiveAlive' /\ NoRetries'
  BY <1>2, <1>3 DEF PostedOnce, ActiveAlive, NoRetries, OnceInv
<1>. QED BY <1>4, <1>5, <1>6, <1>7, <1>8, WorkQuiet DEF OnceInv

\* Lost jobs are requeued or settled, one after the other.
LEMMA InterruptOnce ==
  ASSUME TypeInv, OnceInv, NEW j \in Jobs,
         InterruptRequeue(j) \/ InterruptLost(j)
  PROVE  OnceInv' /\ WorkStep
<1>1. PICK t : /\ t \in TickLocals /\ tick' = Resume(t)
               /\ t.drops = tick.drops /\ t.lost = tick.lost \ {j}
               /\ t.back = tick.back /\ t.real = tick.real
  <2>. DEFINE t == [tick EXCEPT !.lost = @ \ {j}]
  <2>1. tick \in TickLocals
    BY DEF TypeInv, TypeOK
  <2>2. /\ t \in TickLocals /\ t.drops = tick.drops /\ t.lost = tick.lost \ {j}
        /\ t.back = tick.back /\ t.real = tick.real
    BY <2>1 DEF TickLocals
  <2>3. tick' = Resume(t)
    BY DEF InterruptRequeue, InterruptLost
  <2>. HIDE DEF t
  <2>. QED BY <2>2, <2>3
<1>2. tick.pc = "interrupt" /\ j \in tick.lost /\ tick.lost \subseteq Jobs
  BY DEF InterruptRequeue, InterruptLost, TypeInv, TypeOK, TickLocals
<1>3. /\ tick'.pc \notin {"record", "requeue"} /\ ~Holding(tick')
      /\ tick'.drops \subseteq tick.drops
      /\ tick'.pc = "interrupt" => tick'.lost = tick.lost \ {j}
      /\ Reconciling(tick') => Reconciling(tick) /\ tick'.real = tick.real
  BY <1>1, <1>2, ResumeGoes DEF Reconciling
<1>4. /\ ~Waits(j) /\ record[j].st # "none"
      /\ \A r \in Runs : ~Active(r, j)
  BY <1>2 DEF OnceInv, LostGone
<1>5. UNCHANGED <<poller, alive>>
  BY DEF InterruptRequeue, InterruptLost, encore
<1>6. TickQuiet /\ NoneRetried
  BY <1>2, <1>3, <1>5 DEF TickQuiet, NoneRetried, OnceInv, NoRetries
<1>7. kv[j] \in JobKeys /\ record[j] \in JobRecord
  BY DEF TypeInv, TypeOK
<1>8. CASE InterruptLost(j)
  <2>1. RunsKept /\ NoneEntered
    BY <1>3, <1>8 DEF InterruptLost, encore, RunsKept, NoneEntered
  <2>2. \A i \in Jobs : record'[i].st = "none" => record[i].st = "none"
    BY <1>8, SettleFailedKeeps DEF InterruptLost, TypeInv, TypeOK
  <2>3. \A i \in Jobs : kv'[i].inst = kv[i].inst \/ kv'[i].inst = None
    <3>. DEFINE k == Cleared([kv[j] EXCEPT !.status = "FAILED", !.inst = None])
    <3>1. k.inst = None
      BY <1>7 DEF Cleared, JobKeys
    <3>2. UNCHANGED kv \/ kv' = [kv EXCEPT ![j] = k]
      BY <1>8 DEF InterruptLost
    <3>. HIDE DEF k
    <3>. QED BY <3>1, <3>2, MappingKept
  <2>. QED BY <1>5, <1>6, <2>1, <2>2, <2>3, OnceKept DEF MappingsKept
<1>9. CASE InterruptRequeue(j)
  <2>1. RunsKept
    BY <1>9, CancelRunKeeps DEF InterruptRequeue, TypeInv, TypeOK
  <2>2. kv' = [kv EXCEPT ![j] = Requeued(kv[j])] /\ UNCHANGED record
    BY <1>9 DEF InterruptRequeue
  <2>3. MappingsKept
    BY <1>7, <2>2, KeysMapping, MappingKept DEF MappingsKept
  <2>4. kv'[j].inst = None
    BY <1>7, <2>2, KeysMapping DEF TypeInv, TypeOK
  <2>5. Push(j, kv[j].attempts, TRUE)
    BY <1>9 DEF InterruptRequeue
  <2>6. \A i \in Jobs : JobOnce(i)' /\ (Waits(i)' => Waits(i) \/ i = j)
    BY <1>3, <1>4, <2>1, <2>2, <2>3, <2>4, <2>5, PushOnce
  <2>7. \A i \in Jobs, r \in Runs : Active(r, i)' => Active(r, i)
    BY <2>1 DEF Active, RunsKept
  <2>8. LostGone'
    BY <1>2, <1>3, <2>2, <2>6, <2>7 DEF LostGone, OnceInv
  <2>9. ProbesCover'
    BY <1>3, <2>1 DEF ProbesCover, RunsKept, OnceInv
  <2>10. PostedOnce' /\ ActiveAlive' /\ NoRetries'
    BY <1>3, <1>5, <2>1 DEF PostedOnce, ActiveAlive, NoRetries, OnceInv, RunsKept
  <2>11. Entered(j)
    <3>1. hist'[j].interrupts = hist[j].interrupts + 1
      BY <1>9 DEF InterruptRequeue, TypeInv, TypeOK, JobHistory
    <3>. QED BY <1>4, <2>1, <2>2, <2>6, <3>1 DEF Entered, WorkNamed, RunsKept
  <2>. QED BY <2>6, <2>8, <2>9, <2>10, <2>11 DEF OnceInv, WorkStep
<1>. QED BY <1>8, <1>9

\* The new mapping of reconcile: it is written for a job that the probes find
\* missing from the instance it is mapped to.
LEMMA ClassifiedMapping ==
  ASSUME TypeInv, NEW i \in Instances, NEW j \in Jobs
  PROVE  Classified(i)[j].inst = kv[j].inst \/ j \in Missing(i)
<1>1. kv[j] \in JobKeys
  BY DEF TypeInv, TypeOK
<1>. DEFINE a == [kv[j] EXCEPT !.status = "FAILED", !.passes = 0]
            b == [kv[j] EXCEPT !.passes = 1]
            d == [kv[j] EXCEPT !.passes = 0]
<1>2. /\ a.inst = kv[j].inst /\ b.inst = kv[j].inst /\ d.inst = kv[j].inst
  BY <1>1 DEF JobKeys
<1>3. \/ Classified(i)[j] = a \/ Classified(i)[j] = b
      \/ Classified(i)[j] = d \/ Classified(i)[j] = kv[j]
      \/ j \in Missing(i)
  BY Zenon DEF Classified
<1>. HIDE DEF a, b, d
<1>. QED BY <1>2, <1>3

\* One instance of the pass: what is missing from an instance that answered
\* runs nowhere, so a mapping repaired by an old probe names no second holder,
\* and no drop is retried where nothing failed.
LEMMA ClassifyOnce ==
  ASSUME TypeInv, OnceInv, NEW i \in Instances, ReconcileInstance(i)
  PROVE  OnceInv' /\ WorkStep
<1>1. tick \in TickLocals /\ tick.pc = "reconcile"
  BY DEF TypeInv, TypeOK, ReconcileInstance
<1>2. PICK s, onto, drops :
        /\ tick' = Onward([tick EXCEPT !.todo = @ \ {i}, !.snap[i] = s,
                                       !.onto = onto, !.drops = drops])
        /\ \/ drops = tick.drops
           \/ drops = tick.drops \cup
                {[job |-> j, retryable |-> DropIsRetryable(j, i)] :
                 j \in Drops(i)}
  BY DEF ReconcileInstance
<1>3. PICK t : /\ tick' = Onward(t) /\ t.pc = "reconcile"
               /\ t.drops = drops /\ t.real = tick.real
  <2>. DEFINE t == [tick EXCEPT !.todo = @ \ {i}, !.snap[i] = s,
                                !.onto = onto, !.drops = drops]
  <2>1. t.pc = "reconcile" /\ t.drops = drops /\ t.real = tick.real
    BY <1>1 DEF TickLocals
  <2>2. tick' = Onward(t)
    BY <1>2
  <2>. HIDE DEF t
  <2>. QED BY <2>1, <2>2
<1>4. /\ tick'.pc \in {"reconcile", "sweep", "drops"}
      /\ tick'.drops = {} \/ tick'.drops = drops
      /\ tick'.pc = "reconcile" => tick'.real = tick.real
  BY <1>3 DEF Onward, IdleTick
<1>5. UNCHANGED <<queue, record, alive, runs, poller>>
  BY DEF ReconcileInstance, encore
<1>6. \A d \in drops : ~d.retryable
  <2>1. \A j \in Drops(i) : ~DropIsRetryable(j, i)
    BY DEF OnceInv, NoRetries, DropIsRetryable
  <2>. QED BY <1>2, <2>1 DEF OnceInv, NoRetries
<1>7. \A j \in Jobs : Waits(j)' => Waits(j)
  BY <1>4, <1>5 DEF Waits, Holding
<1>8. ASSUME NEW j \in Jobs PROVE JobOnce(j)'
  <2>1. JobOnce(j)
    BY DEF OnceInv
  <2>2. ASSUME kv'[j].inst # kv[j].inst
        PROVE  /\ ~Waits(j) /\ record[j].st # "none"
               /\ \A r \in Runs : ~Active(r, j)
    <3>1. kv' = Classified(i) /\ tick.real[i].ok
      BY <2>2 DEF ReconcileInstance
    <3>2. j \in Missing(i)
      BY <2>2, <3>1, ClassifiedMapping
    <3>3. kv[j].inst = i /\ j \notin tick.real[i].jobs /\ i # None
      BY <3>2, ConstantsAssumption DEF Missing, LostWith
    <3>4. \A r \in Runs : ~Active(r, j)
      BY <1>1, <2>1, <3>1, <3>3
      DEF JobOnce, OnceInv, ProbesCover, Reconciling, Active
    <3>. QED BY <2>1, <3>3, <3>4 DEF JobOnce
  <2>3. ~Holding(tick')
    BY <1>4 DEF Holding
  <2>. QED BY <1>5, <1>7, <2>1, <2>2, <2>3 DEF JobOnce, Active
<1>9. LostGone' /\ PostedOnce' /\ ProbesCover'
  BY <1>1, <1>4, <1>5
  DEF OnceInv, LostGone, PostedOnce, ProbesCover, Reconciling
<1>10. ActiveAlive' /\ NoRetries'
  BY <1>4, <1>5, <1>6 DEF OnceInv, ActiveAlive, NoRetries
<1>11. WorkKept
  BY <1>5, <1>7 DEF WorkKept, WorkNamed
<1>. QED BY <1>8, <1>9, <1>10, <1>11 DEF OnceInv, WorkStep

\* Drops and failures are settled; with no failed encode none is retried.
LEMMA SettleOnce ==
  ASSUME TypeInv, OnceInv, faults' = 0,
         \/ ReconcileEnd \/ DropRequeue \/ DropRequeueFails
         \/ \E j \in Jobs : SweepFailed(j)
         \/ \E d \in [job : Jobs, retryable : BOOLEAN] : SettleDrop(d)
  PROVE  OnceInv' /\ WorkStep
<1>1. /\ tick \in TickLocals /\ tick.pc # "requeue"
      /\ kv \in [Jobs -> JobKeys] /\ record \in [Jobs -> JobRecord]
      /\ runs \in [Runs -> Run]
  BY DEF TypeInv, TypeOK, OnceInv, NoRetries
<1>2. UNCHANGED <<poller, alive>>
  BY <1>1
  DEF ReconcileEnd, DropRequeue, DropRequeueFails, SweepFailed, SettleDrop, encore
<1>3. poller'.pc # "requeue" /\ ~poller'.retryable
  BY <1>2 DEF OnceInv, NoRetries
<1>4. CASE ReconcileEnd
  <2>1. PICK t : /\ tick' = Onward(t) /\ t.pc = "reconcile"
                 /\ t.drops = tick.drops /\ t.real = tick.real
    <3>. DEFINE t == [tick EXCEPT !.onto = {}]
    <3>1. /\ t.pc = "reconcile" /\ t.drops = tick.drops /\ t.real = tick.real
          /\ tick' = Onward(t)
      BY <1>1, <1>4 DEF ReconcileEnd, TickLocals
    <3>. HIDE DEF t
    <3>. QED BY <3>1
  <2>2. /\ TickQuiet /\ ~Holding(tick')
        /\ tick'.pc # "requeue" /\ tick'.drops \subseteq tick.drops
    BY <1>4, <2>1, OnwardQuiet DEF ReconcileEnd, Reconciling
  <2>3. UNCHANGED <<queue, kv, record, runs>>
    BY <1>4 DEF ReconcileEnd, encore
  <2>. QED BY <1>2, <1>3, <2>2, <2>3, OnceKept
           DEF RunsKept, NoneEntered, MappingsKept, NoneRetried
<1>5. ASSUME NEW j \in Jobs, SweepFailed(j) PROVE OnceInv' /\ WorkStep
  <2>1. RunsKept
    BY <1>1, <1>5, CancelRunKeeps DEF SweepFailed
  <2>2. UNCHANGED tick /\ queue' \subseteq queue
    BY <1>5 DEF SweepFailed
  <2>3. \A i \in Jobs : kv'[i].inst = kv[i].inst
    BY <1>1, <1>5 DEF SweepFailed, CancelKeys, JobKeys
  <2>4. \A i \in Jobs : record'[i].st = "none" => record[i].st = "none"
    BY <1>1, <1>5, SettleFailedKeeps DEF SweepFailed
  <2>5. NoneEntered /\ MappingsKept /\ TickQuiet /\ NoneRetried
    BY <1>1, <1>3, <2>2, <2>3, <2>4
    DEF NoneEntered, MappingsKept, TickQuiet, NoneRetried
  <2>. QED BY <1>2, <2>1, <2>5, OnceKept
<1>6. ASSUME NEW d \in [job : Jobs, retryable : BOOLEAN], SettleDrop(d)
      PROVE  OnceInv' /\ WorkStep
  <2>1. ~d.retryable /\ d.job \in Jobs
    BY <1>6 DEF SettleDrop, OnceInv, NoRetries
  <2>2. PICK t : /\ tick' = Onward(t) /\ t.pc = "drops"
                 /\ t.drops \subseteq tick.drops
    <3>. DEFINE t == [tick EXCEPT !.drops = @ \ {d}]
    <3>1. t.pc = "drops" /\ t.drops \subseteq tick.drops
      BY <1>1, <1>6 DEF SettleDrop, TickLocals
    <3>2. tick' = Onward(t)
      BY <1>6, <2>1 DEF SettleDrop, RetryDecision
    <3>. HIDE DEF t
    <3>. QED BY <3>1, <3>2
  <2>3. /\ TickQuiet /\ ~Holding(tick')
        /\ tick'.pc # "requeue" /\ tick'.drops \subseteq tick.drops
    BY <2>2, OnwardQuiet
  <2>4. UNCHANGED <<queue, runs>>
    BY <1>6 DEF SettleDrop, encore
  <2>5. \A i \in Jobs : record'[i].st = "none" => record[i].st = "none"
    BY <1>1, <1>6, SettleFailedKeeps DEF SettleDrop
  <2>6. \A i \in Jobs : kv'[i].inst = kv[i].inst \/ kv'[i].inst = None
    <3>1. UNCHANGED kv \/ kv' = [kv EXCEPT ![d.job] = Cleared(kv[d.job])]
      BY <1>6 DEF SettleDrop
    <3>2. Cleared(kv[d.job]).inst = kv[d.job].inst
      BY <1>1, <2>1, KeysMapping
    <3>. QED BY <2>1, <3>1, <3>2, MappingKept
  <2>. QED BY <1>2, <1>3, <2>3, <2>4, <2>5, <2>6, OnceKept
           DEF RunsKept, NoneEntered, MappingsKept, NoneRetried
<1>7. CASE DropRequeue \/ DropRequeueFails
  BY <1>1, <1>7 DEF DropRequeue, DropRequeueFails
<1>. QED BY <1>4, <1>5, <1>6, <1>7

\* Scaling up and down starts no encode; a teardown ends those on the instance.
LEMMA ScaleOnce ==
  ASSUME TypeInv, OnceInv,
         \/ \E i \in Instances : ScaleUp(i) \/ ScaleDownKeep(i)
         \/ NoScaleUp \/ ScaleUpStart \/ SpawnFails
         \/ ScaleDownDrain \/ ScaleDownRelease \/ ScaleDownDestroy
  PROVE  OnceInv' /\ WorkStep
<1>1. tick \in TickLocals /\ runs \in [Runs -> Run]
  BY DEF TypeInv, TypeOK
<1>2. /\ TickQuiet /\ ~Holding(tick')
      /\ tick'.pc # "requeue" /\ tick'.drops \subseteq tick.drops
  <2>1. CASE \/ \E i \in Instances : ScaleUp(i)
             \/ NoScaleUp \/ SpawnFails
             \/ ScaleDownDrain \/ ScaleDownRelease \/ ScaleDownDestroy
    <3>1. \/ \E p : tick' = EnterScaleDown(p)
          \/ \E i, p : tick' = Kept(i, p)
      BY <2>1 DEF ScaleUp, NoScaleUp, SpawnFails, ScaleDownDrain,
                  ScaleDownRelease, ScaleDownDestroy
    <3>. QED BY <3>1, LoopQuiet
  <2>2. CASE ScaleUpStart
    BY <2>2 DEF ScaleUpStart, IdleTick, TickQuiet, Holding, Reconciling
  <2>3. ASSUME NEW i \in Instances, ScaleDownKeep(i)
        PROVE  /\ TickQuiet /\ ~Holding(tick')
               /\ tick'.pc # "requeue" /\ tick'.drops \subseteq tick.drops
    <3>1. PICK t : /\ tick' = Onward(t) /\ t.pc = "scaleDown"
                   /\ t.drops = tick.drops
      <4>. DEFINE t == [tick EXCEPT !.todo = @ \ {i}]
      <4>1. t.pc = "scaleDown" /\ t.drops = tick.drops /\ tick' = Onward(t)
        BY <1>1, <2>3 DEF ScaleDownKeep, TickLocals
      <4>. HIDE DEF t
      <4>. QED BY <4>1
    <3>. QED BY <3>1, OnwardQuiet
  <2>. QED BY <2>1, <2>2, <2>3
<1>3. UNCHANGED <<queue, kv, record, poller>>
  BY DEF ScaleUp, ScaleDownKeep, NoScaleUp, ScaleUpStart, SpawnFails,
         ScaleDownDrain, ScaleDownRelease, ScaleDownDestroy, valkey
<1>4. /\ NoneEntered /\ MappingsKept /\ NoneRetried
  BY <1>2, <1>3 DEF NoneEntered, MappingsKept, NoneRetried, OnceInv, NoRetries
<1>5. \/ UNCHANGED runs /\ alive \subseteq alive'
      \/ \E i : runs' = Destroyed(i) /\ alive' = alive \ {i}
  BY DEF ScaleUp, ScaleDownKeep, NoScaleUp, ScaleUpStart, SpawnFails,
         ScaleDownDrain, ScaleDownRelease, ScaleDownDestroy, encore
<1>6. RunsKept
  BY <1>1, <1>5, DestroyedKeeps DEF RunsKept
<1>7. ActiveAlive'
  <2>1. ASSUME NEW i, runs' = Destroyed(i), alive' = alive \ {i}
        PROVE  ActiveAlive'
    BY <1>1, <2>1 DEF Destroyed, OnceInv, ActiveAlive, Run
  <2>. QED BY <1>5, <2>1 DEF OnceInv, ActiveAlive
<1>8. \A j \in Jobs : JobOnce(j)'
  BY <1>4, <1>6, JobOnceKept
<1>9. LostGone' /\ ProbesCover' /\ PostedOnce'
  BY <1>2, <1>4, <1>6, ViewKept
<1>10. NoRetries'
  BY <1>4, <1>6 DEF OnceInv, NoRetries, NoneRetried, RunsKept
<1>. QED BY <1>4, <1>6, <1>7, <1>8, <1>9, <1>10, WorkQuiet DEF OnceInv

\* RPOPLPUSH moves an entry from the queue into the tick's hand.
LEMMA ClaimOnce ==
  ASSUME TypeInv, OnceInv, NEW i \in Instances, DispatchClaim(i)
  PROVE  OnceInv' /\ WorkStep
<1>1. PICK e \in queue :
        /\ queue' = queue \ {e}
        /\ tick' = [tick EXCEPT !.pc = IF e.due THEN "post" ELSE "refused",
                                !.cur = i, !.claim = {e}, !.todo = @ \ {i}]
  BY DEF DispatchClaim
<1>2. /\ tick'.pc \in {"post", "refused"} /\ tick'.claim = {e}
      /\ tick'.drops = tick.drops
  BY <1>1 DEF TypeInv, TypeOK, TickLocals
<1>3. UNCHANGED <<kv, record, alive, runs, poller>>
  BY DEF DispatchClaim, encore
<1>4. \A j \in Jobs : Waits(j)' => Waits(j)
  BY <1>1, <1>2 DEF Waits
<1>5. ASSUME NEW j \in Jobs PROVE JobOnce(j)'
  <2>1. JobOnce(j)
    BY DEF OnceInv
  <2>2. \A x, f \in queue' : x.job = j /\ f.job = j => x = f
    BY <1>1, <2>1 DEF JobOnce
  <2>3. \A x \in tick'.claim : x.job = j =>
          /\ \A f \in queue' : f.job # j
          /\ \A f \in tick'.claim : x = f
    BY <1>1, <1>2, <2>1 DEF JobOnce
  <2>. QED BY <1>3, <1>4, <2>1, <2>2, <2>3 DEF JobOnce, Active
<1>6. LostGone' /\ ProbesCover' /\ PostedOnce' /\ ActiveAlive' /\ NoRetries'
  BY <1>2, <1>3
  DEF OnceInv, LostGone, ProbesCover, Reconciling, PostedOnce, ActiveAlive, NoRetries
<1>7. WorkKept
  BY <1>3, <1>4 DEF WorkKept, WorkNamed
<1>. QED BY <1>5, <1>6, <1>7 DEF OnceInv, WorkStep

\* The accepted POST starts the one encode of a job that was waiting.
LEMMA PostOnce ==
  ASSUME TypeInv, OnceInv, DispatchPost
  PROVE  OnceInv' /\ WorkStep
<1>1. PICK e \in tick.claim, r \in Runs :
        /\ runs[r].st = "free"
        /\ runs' = [runs EXCEPT ![r] = [st |-> "active", job |-> e.job,
                                        inst |-> tick.cur, called |-> FALSE,
                                        known |-> FALSE]]
        /\ tick' = [tick EXCEPT !.pc = "record", !.run = r]
  BY DEF DispatchPost, StartRun
<1>2. /\ tick'.pc = "record" /\ tick'.claim = tick.claim /\ tick'.run = r
      /\ tick'.cur = tick.cur /\ tick'.drops = tick.drops
  BY <1>1 DEF TypeInv, TypeOK, TickLocals
<1>3. /\ e.job \in Jobs /\ Holding(tick) /\ tick.cur \in alive
      /\ JobOnce(e.job)
  BY DEF DispatchPost, Holding, OnceInv, TypeInv, TypeOK, TickLocals, Entry
<1>4. /\ runs'[r].job = e.job /\ runs'[r].st = "active" /\ runs'[r].inst = tick.cur
      /\ \A q \in Runs : q # r => runs'[q] = runs[q]
  BY <1>1 DEF TypeInv, TypeOK
<1>5. UNCHANGED <<queue, kv, record, alive, poller>>
  BY DEF DispatchPost, valkey
<1>6. /\ Waits(e.job) /\ kv[e.job].inst = None /\ record[e.job].st # "none"
      /\ \A f \in queue : f.job # e.job
      /\ \A q \in Runs : ~Active(q, e.job)
      /\ \A f \in tick.claim : f = e
  BY <1>3 DEF JobOnce, Waits
<1>7. ~Holding(tick')
  BY <1>2 DEF Holding
<1>8. ASSUME NEW j \in Jobs PROVE JobOnce(j)'
  <2>1. JobOnce(j)
    BY DEF OnceInv
  <2>2. Waits(j)' => Waits(j) /\ j # e.job
    BY <1>5, <1>6, <1>7 DEF Waits
  <2>3. ASSUME NEW q \in Runs, Active(q, j)'
        PROVE  IF j = e.job THEN q = r ELSE q # r /\ Active(q, j)
    BY <1>4, <1>6, <2>3 DEF Active
  <2>4. ASSUME NEW q \in Runs, Active(q, j)'
        PROVE  /\ ~Waits(j)'
               /\ kv'[j].inst = None \/ kv'[j].inst = runs'[q].inst
               /\ \A p \in Runs : Active(p, j)' => p = q
    BY <1>4, <1>5, <1>6, <2>1, <2>2, <2>3, <2>4 DEF JobOnce
  <2>5. record'[j].st = "none" =>
          /\ ~Waits(j)' /\ kv'[j].inst = None
          /\ \A q \in Runs : runs'[q].job # j
    BY <1>4, <1>5, <1>6, <2>1, <2>2 DEF JobOnce
  <2>6. \A x, f \in queue' : x.job = j /\ f.job = j => x = f
    BY <1>5, <2>1 DEF JobOnce
  <2>7. Waits(j)' => kv'[j].inst = None
    BY <1>5, <2>1, <2>2 DEF JobOnce
  <2>. QED BY <1>7, <2>4, <2>5, <2>6, <2>7 DEF JobOnce
<1>9. PostedOnce'
  <2>1. \A q \in Runs : Active(q, e.job)' => q = r
    BY <1>4, <1>6 DEF Active
  <2>. QED BY <1>2, <1>4, <1>5, <1>6, <2>1 DEF PostedOnce
<1>10. LostGone' /\ ProbesCover'
  BY <1>2 DEF LostGone, ProbesCover, Reconciling
<1>11. ActiveAlive'
  BY <1>3, <1>4, <1>5 DEF OnceInv, ActiveAlive
<1>12. NoRetries'
  BY <1>2, <1>4, <1>5 DEF OnceInv, NoRetries
<1>13. Started(e.job, r)
  <2>1. runs[r].job = None
    BY <1>1 DEF TypeInv, RunsNamed, NamedRun
  <2>2. ~Waits(e.job)' /\ \A i \in Jobs : Waits(i)' => Waits(i)
    BY <1>5, <1>6, <1>7 DEF Waits
  <2>. QED BY <1>4, <1>5, <1>6, <2>1, <2>2 DEF Started
<1>. QED BY <1>3, <1>8, <1>9, <1>10, <1>11, <1>12, <1>13 DEF OnceInv, WorkStep

\* The mapping that is written names the instance of the encode just started.
LEMMA RecordOnce ==
  ASSUME TypeInv, OnceInv, DispatchRecord
  PROVE  OnceInv' /\ WorkStep
<1>1. PICK e \in tick.claim :
        /\ \E c : c.inst = tick.cur /\ kv' = [kv EXCEPT ![e.job] = c]
        /\ \/ UNCHANGED record
           \/ /\ record[e.job].st = "queued"
              /\ record' = [record EXCEPT ![e.job].st = "running"]
  <2>1. PICK e \in tick.claim, stored \in BOOLEAN, told \in BOOLEAN :
          /\ LET k == Mapped(kv[e.job], tick.cur)
                 c == IF stored THEN Counted(k, e) ELSE k
             IN  kv' = [kv EXCEPT ![e.job] = [c EXCEPT !.url = tick.run]]
          /\ record' = IF told /\ record[e.job].st = "queued"
                         THEN [record EXCEPT ![e.job].st = "running"]
                         ELSE record
    BY DEF DispatchRecord
  <2>. DEFINE k == Mapped(kv[e.job], tick.cur)
              c == [(IF stored THEN Counted(k, e) ELSE k) EXCEPT !.url = tick.run]
  <2>2. kv[e.job] \in JobKeys
    BY DEF TypeInv, TypeOK, TickLocals, Entry
  <2>3. k.inst = tick.cur /\ Counted(k, e).inst = tick.cur
        /\ DOMAIN k = DOMAIN kv[e.job] /\ DOMAIN Counted(k, e) = DOMAIN kv[e.job]
    BY <2>2 DEF Mapped, Counted, JobKeys
  <2>4. c.inst = tick.cur
    BY <2>2, <2>3 DEF Mapped, Counted, JobKeys
  <2>5. kv' = [kv EXCEPT ![e.job] = c]
    BY <2>1
  <2>. HIDE DEF c, k
  <2>. QED BY <2>1, <2>4, <2>5
<1>2. /\ tick.pc = "record" /\ tick.run \in Runs /\ e.job \in Jobs
      /\ runs[tick.run].job = e.job /\ runs[tick.run].inst = tick.cur
      /\ \A f \in queue : f.job # e.job
      /\ \A r \in Runs : Active(r, e.job) => r = tick.run
      /\ JobOnce(e.job)
  BY DEF DispatchRecord, OnceInv, PostedOnce, TypeInv, TypeOK, TickLocals, Entry
<1>3. tick'.pc = "dispatched" /\ tick'.drops = tick.drops
  BY DEF DispatchRecord, TypeInv, TypeOK, TickLocals
<1>4. \A r \in Runs : /\ runs'[r].st = runs[r].st /\ runs'[r].job = runs[r].job
                      /\ runs'[r].inst = runs[r].inst
  <2>1. runs \in [Runs -> Run] /\ runs' = [runs EXCEPT ![tick.run].known = TRUE]
    BY DEF DispatchRecord, TypeInv, TypeOK
  <2>. QED BY <2>1 DEF Run
<1>5. UNCHANGED <<queue, alive, poller>>
  BY DEF DispatchRecord
<1>6. \A j \in Jobs : /\ j # e.job => kv'[j] = kv[j]
                      /\ record'[j].st = "none" => record[j].st = "none"
  BY <1>1, <1>2 DEF TypeInv, TypeOK, JobRecord
<1>7. kv'[e.job].inst = tick.cur
  BY <1>1, <1>2 DEF TypeInv, TypeOK
<1>8. ~Holding(tick')
  BY <1>3 DEF Holding
<1>9. ASSUME NEW j \in Jobs PROVE JobOnce(j)'
  <2>1. JobOnce(j)
    BY DEF OnceInv
  <2>2. (Waits(j)' => Waits(j)) /\ ~Waits(e.job)'
    BY <1>2, <1>5, <1>8 DEF Waits
  <2>3. \A q \in Runs : Active(q, j)' <=> Active(q, j)
    BY <1>4 DEF Active
  <2>4. CASE j # e.job
    BY <1>4, <1>5, <1>6, <1>8, <2>1, <2>2, <2>3, <2>4 DEF JobOnce
  <2>5. CASE j = e.job
    <3>1. record'[j].st # "none"
      BY <1>2, <1>6, <2>1, <2>5 DEF JobOnce
    <3>2. \A q \in Runs : Active(q, j)' =>
            /\ kv'[j].inst = runs'[q].inst
            /\ \A p \in Runs : Active(p, j)' => p = q
      BY <1>2, <1>4, <1>7, <2>3, <2>5
    <3>. QED BY <1>5, <1>8, <2>1, <2>2, <2>5, <3>1, <3>2 DEF JobOnce
  <2>. QED BY <2>4, <2>5
<1>10. LostGone' /\ ProbesCover' /\ PostedOnce' /\ ActiveAlive' /\ NoRetries'
  BY <1>3, <1>4, <1>5
  DEF OnceInv, LostGone, ProbesCover, Reconciling, PostedOnce, ActiveAlive, NoRetries
<1>11. WorkKept
  BY <1>4, <1>5, <1>6, <1>8 DEF WorkKept, WorkNamed, Waits
<1>. QED BY <1>9, <1>10, <1>11 DEF OnceInv, WorkStep

\* A refused entry goes back to the queue.
LEMMA GiveBackOnce ==
  ASSUME TypeInv, OnceInv, DispatchGiveBack
  PROVE  OnceInv' /\ WorkStep
<1>1. PICK t : /\ tick' = Onward(t) /\ t.pc = "dispatch"
               /\ t.drops = tick.drops
  <2>. DEFINE t == [tick EXCEPT !.pc = "dispatch", !.cur = None, !.claim = {}]
  <2>1. t.pc = "dispatch" /\ t.drops = tick.drops /\ tick' = Onward(t)
    BY DEF DispatchGiveBack, TypeInv, TypeOK, TickLocals
  <2>. HIDE DEF t
  <2>. QED BY <2>1
<1>2. /\ tick'.pc \in {"dispatch", "idle"} /\ tick'.drops \subseteq tick.drops
  BY <1>1 DEF Onward, IdleTick
<1>3. /\ Holding(tick) /\ queue' = queue \cup tick.claim
      /\ UNCHANGED <<kv, record, alive, runs, poller>>
  BY DEF DispatchGiveBack, Holding, encore
<1>4. \A j \in Jobs : Waits(j)' => Waits(j)
  BY <1>2, <1>3 DEF Waits, Holding
<1>5. ASSUME NEW j \in Jobs PROVE JobOnce(j)'
  <2>1. JobOnce(j)
    BY DEF OnceInv
  <2>2. \A x, f \in queue' : x.job = j /\ f.job = j => x = f
    BY <1>3, <2>1 DEF JobOnce
  <2>3. ~Holding(tick')
    BY <1>2 DEF Holding
  <2>. QED BY <1>3, <1>4, <2>1, <2>2, <2>3 DEF JobOnce, Active
<1>6. LostGone' /\ ProbesCover' /\ PostedOnce' /\ ActiveAlive' /\ NoRetries'
  BY <1>2, <1>3
  DEF OnceInv, LostGone, ProbesCover, Reconciling, PostedOnce, ActiveAlive, NoRetries
<1>7. WorkKept
  BY <1>3, <1>4 DEF WorkKept, WorkNamed
<1>. QED BY <1>5, <1>6, <1>7 DEF OnceInv, WorkStep

\* The other steps of a dispatch.
LEMMA DispatchOnce ==
  ASSUME TypeInv, OnceInv, faults' = 0,
         \/ \E i \in Instances : DispatchNone(i)
         \/ DispatchRefused \/ DispatchRecordFails
         \/ DispatchUnclaim \/ DispatchCount
  PROVE  OnceInv' /\ WorkStep
<1>1. tick \in TickLocals /\ faults' # faults + 1
  BY DEF TypeInv, TypeOK
<1>2. ~DispatchRecordFails
  BY <1>1 DEF DispatchRecordFails
<1>3. UNCHANGED <<queue, kv, record, alive, runs, poller>>
  BY <1>2 DEF DispatchNone, DispatchRefused, TickThrows, DispatchUnclaim,
              DispatchCount, valkey, encore
<1>4. SUFFICES /\ TickQuiet /\ tick'.pc # "requeue" /\ tick'.drops \subseteq tick.drops
               /\ Holding(tick') => Holding(tick) /\ tick'.claim = tick.claim
  BY <1>3, OnceKept
  DEF RunsKept, NoneEntered, MappingsKept, NoneRetried, OnceInv, NoRetries
<1>5. CASE DispatchRefused
  BY <1>1, <1>5 DEF DispatchRefused, TickLocals, TickQuiet, Holding, Reconciling
<1>6. CASE DispatchUnclaim
  BY <1>1, <1>6 DEF DispatchUnclaim, TickLocals, TickQuiet, Holding, Reconciling
<1>7. CASE (\E i \in Instances : DispatchNone(i)) \/ DispatchCount
  <2>1. PICK t : /\ tick' = Onward(t) /\ t.pc = "dispatch"
                 /\ t.drops = tick.drops
    <3>1. CASE \E i \in Instances : DispatchNone(i)
      <4>1. PICK i \in Instances : DispatchNone(i)
        BY <3>1
      <4>. DEFINE t == [tick EXCEPT !.todo = @ \ {i}]
      <4>2. t.pc = "dispatch" /\ t.drops = tick.drops /\ tick' = Onward(t)
        BY <1>1, <4>1 DEF DispatchNone, TickLocals
      <4>. HIDE DEF t
      <4>. QED BY <4>2
    <3>2. CASE DispatchCount
      <4>1. PICK p : tick' = Onward([tick EXCEPT !.pc = "dispatch", !.cur = None,
                                       !.snap[tick.cur] = p, !.claim = {}, !.run = 0])
        BY <3>2 DEF DispatchCount
      <4>. DEFINE t == [tick EXCEPT !.pc = "dispatch", !.cur = None,
                          !.snap[tick.cur] = p, !.claim = {}, !.run = 0]
      <4>2. t.pc = "dispatch" /\ t.drops = tick.drops /\ tick' = Onward(t)
        BY <1>1, <4>1 DEF TickLocals
      <4>. HIDE DEF t
      <4>. QED BY <4>2
    <3>. QED BY <1>7, <3>1, <3>2
  <2>. QED BY <2>1, OnwardQuiet
<1>. QED BY <1>2, <1>5, <1>6, <1>7

\* Every step of the tick keeps the invariant.
LEMMA TickOnce ==
  ASSUME TypeInv, OnceInv, faults' = 0, TickStep
  PROVE  OnceInv' /\ WorkStep
<1>1. ~TickFails
  BY FailsQuietly DEF TypeInv, TypeOK
<1>. QED BY <1>1, StartOnce, FoundOnce, InterruptOnce, ClassifyOnce, SettleOnce,
            ScaleOnce, ClaimOnce, PostOnce, RecordOnce, GiveBackOnce,
            DispatchOnce
         DEF TickStep, TickFails

\* Failed calls are never taken back.
LEMMA FaultsKept ==
  ASSUME TypeInv, [Next]_vars, faults' = 0
  PROVE  faults = 0
<1>1. faults \in Nat
  BY DEF TypeInv, TypeOK
<1>2. \/ faults' = faults \/ faults' = faults + 1
      \/ \E n \in Nat : faults' = faults + n
  <2>1. CASE TickStart
    <3>1. PICK silent \in SUBSET (InPool(pool) \cap alive) :
            faults' = faults + Cardinality(silent)
      BY <2>1 DEF TickStart
    <3>2. Cardinality(silent) \in Nat
      BY ConstantsAssumption, FS_Subset, FS_CardinalityType DEF InPool
    <3>. QED BY <3>1, <3>2
  <2>2. CASE TickStep /\ ~TickStart
    BY <2>2
    DEF TickStep, ReconcileEnd, EvictVanished, ReconcileInstance,
        InterruptRequeue, InterruptLost, InterruptFails, LostFails, SweepFailed,
        SettleDrop, DropRequeue, DropRequeueFails, RequeueFails, ScaleUp,
        ScaleDownKeep, ScaleDownProbe, NoScaleUp, ScaleUpStart, SpawnFails,
        ScaleDownDrain, ScaleDownRelease, ScaleDownDestroy, DispatchNone,
        DispatchClaim, DispatchPost, DispatchRefused, TickThrows,
        DispatchRecord, DispatchRecordFails, DispatchUnclaim, DispatchCount,
        DispatchGiveBack
  <2>3. CASE PollerStep
    BY <2>3
    DEF PollerStep, PollFetch, PollUnreachable, PollSuccess, PollFailure,
        PollRetry, PollRequeue, PollRequeueFails, PollWrite, PollCount,
        RequeueFails, Complete, PollThrow
  <2>4. CASE SweepStep \/ ApiStep
    BY <2>4
    DEF SweepStep, SweepTerminalJob, StallDetected, ApiStep, Submit,
        SubmitRejected, SubmitTimesOut, CancelStart, CancelJob, CancelUndrained,
        CancelMark, CancelThrows, CancelSave, CancelFail
  <2>5. CASE Environment
    BY <2>5
    DEF Environment, RunEnds, EncoreCallback, InstanceVanishes,
        IdleTimeElapses, BackoffElapses, GraceElapses, GateExpires,
        PinReleased, Crash
  <2>6. CASE UNCHANGED vars
    BY <2>6 DEF vars
  <2>. QED BY <2>1, <2>2, <2>3, <2>4, <2>5, <2>6 DEF Next
<1>. QED BY <1>1, <1>2

\* While no call has failed, the invariant holds.
FaultlessOnce == faults = 0 => OnceInv

LEMMA OnceInvariance == Spec => []FaultlessOnce
<1>1. Init => FaultlessOnce
  <2>. SUFFICES ASSUME Init PROVE OnceInv
    BY DEF FaultlessOnce
  <2>1. /\ \A r \in Runs : runs[r].st = "free" /\ runs[r].job = None
        /\ queue = {} /\ \A j \in Jobs : kv[j].inst = None
        /\ tick.pc = "idle" /\ tick.drops = {}
        /\ poller.pc = "idle" /\ ~poller.retryable
    BY DEF Init, FreeRun, NoKeys, IdleTick, IdlePoller
  <2>2. None \notin Jobs
    BY ConstantsAssumption
  <2>. QED BY <2>1, <2>2
           DEF OnceInv, JobOnce, Active, Waits, Holding, LostGone, ProbesCover,
               Reconciling, PostedOnce, ActiveAlive, NoRetries
<1>2. TypeInv /\ FaultlessOnce /\ [Next]_vars => FaultlessOnce'
  <2>. SUFFICES ASSUME TypeInv, FaultlessOnce, [Next]_vars, faults' = 0
                PROVE  OnceInv'
    BY DEF FaultlessOnce
  <2>1. OnceInv
    BY FaultsKept DEF FaultlessOnce
  <2>2. CASE UNCHANGED vars
    BY <2>1, <2>2
    DEF vars, OnceInv, JobOnce, Active, Waits, LostGone, ProbesCover, PostedOnce,
        ActiveAlive, NoRetries
  <2>. QED BY <2>1, <2>2, TickOnce, PollerOnce, RequestsOnce, EnvironmentOnce DEF Next
<1>. QED BY <1>1, <1>2, TypeInvariance, PTL DEF Spec

\* While no call fails a job is never active on two instances at once, for any
\* number of jobs, restarts, cancels and teardowns: reconcile works with old
\* probes and requeues what it takes for lost, but only what they prove gone.
THEOREM OneEncode == Spec => []OneEncodeEach
<1>1. FaultlessOnce => OneEncodeEach
  <2>1. ASSUME OnceInv, NEW j \in Jobs
        PROVE  Cardinality({r \in RunsOf(j) : runs[r].st = "active"}) <= 1
    <3>. DEFINE S == {r \in RunsOf(j) : runs[r].st = "active"}
    <3>1. \A q, r \in S : q = r
      BY <2>1 DEF OnceInv, JobOnce, Active, RunsOf
    <3>. HIDE DEF S
    <3>2. ASSUME NEW r \in S PROVE S = {r}
      BY <3>1
    <3>3. Cardinality(S) = 0 \/ Cardinality(S) = 1
      <4>1. CASE S = {}
        BY <4>1, FS_EmptySet
      <4>2. ASSUME NEW r \in S PROVE Cardinality(S) = 1
        BY <3>2, FS_Singleton, Zenon
      <4>. QED BY <4>1, <4>2
    <3>4. Cardinality(S) <= 1
      BY <3>3
    <3>. QED BY <3>4 DEF S
  <2>. QED BY <2>1 DEF FaultlessOnce, OneEncodeEach, OneEncodePerJob
<1>. QED BY <1>1, OnceInvariance, PTL

-----------------------------------------------------------------------------
(* Every entry is spent on one encode. *)

\* The encodes of a job, and the dispatch that is due, are entitled by its
\* submit, its retries and its interruptions.
Due(j) == IF Waits(j) THEN 1 ELSE 0
Submitted(j) == IF record[j].st = "none" THEN 0 ELSE 1
JobSpent(j) ==
  Cardinality(RunsOf(j)) + Due(j)
    <= Submitted(j) + hist[j].retries + hist[j].interrupts

\* The inductive invariant of a run in which no call fails.
FaultlessSpent == faults = 0 => \A j \in Jobs : JobSpent(j)

\* The counts of retries and interruptions never fall.
LEMMA HistKept ==
  ASSUME TypeInv, [Next]_vars
  PROVE  \A j \in Jobs : /\ hist'[j].retries \in Nat /\ hist'[j].interrupts \in Nat
                         /\ hist'[j].retries >= hist[j].retries
                         /\ hist'[j].interrupts >= hist[j].interrupts
<1>1. hist \in [Jobs -> JobHistory]
  BY DEF TypeInv, TypeOK
<1>. DEFINE Counts == \/ hist' = hist
                      \/ \E j : hist' = [hist EXCEPT ![j].retries = @ + 1]
                      \/ \E j : hist' = [hist EXCEPT ![j].interrupts = @ + 1]
                      \/ \E j, b : hist' = [hist EXCEPT ![j].encoded = b]
<1>2. Counts
  <2>1. CASE TickStep
    BY <2>1
    DEF TickStep, TickStart, ReconcileEnd, EvictVanished, ReconcileInstance,
        InterruptRequeue, InterruptLost, InterruptFails, LostFails, SweepFailed,
        SettleDrop, DropRequeue, DropRequeueFails, RetryRequeue, ScaleUp,
        ScaleDownKeep, ScaleDownProbe, NoScaleUp, ScaleUpStart, SpawnFails,
        ScaleDownDrain, ScaleDownRelease, ScaleDownDestroy, DispatchNone,
        DispatchClaim, DispatchPost, DispatchRefused, TickThrows,
        DispatchRecord, DispatchRecordFails, DispatchUnclaim, DispatchCount,
        DispatchGiveBack, ghosts
  <2>2. CASE PollerStep
    BY <2>2
    DEF PollerStep, PollFetch, PollUnreachable, PollSuccess, PollFailure,
        PollRetry, PollRequeue, PollRequeueFails, PollWrite, PollCount,
        RetryRequeue, ghosts
  <2>3. CASE SweepStep \/ ApiStep
    BY <2>3
    DEF SweepStep, SweepTerminalJob, StallDetected, RetryRequeue, ApiStep,
        Submit, SubmitRejected, SubmitTimesOut, CancelStart, CancelJob,
        CancelUndrained, CancelMark, CancelThrows, CancelSave, CancelFail,
        ghosts
  <2>4. CASE Environment
    <3>1. CASE \E r \in Runs : RunEnds(r)
      <4>1. PICK r \in Runs, st \in {"ok", "transport", "fatal"} :
              hist' = [hist EXCEPT ![runs[r].job].encoded = @ \/ st = "ok"]
        BY <3>1 DEF RunEnds
      <4>2. \E b : hist' = [hist EXCEPT ![runs[r].job].encoded = b]
        BY <4>1
      <4>. QED BY <4>2
    <3>. QED BY <2>4, <3>1
         DEF Environment, EncoreCallback, InstanceVanishes, IdleTimeElapses,
             BackoffElapses, GraceElapses, GateExpires, PinReleased, Crash, ghosts
  <2>5. CASE UNCHANGED vars
    BY <2>5 DEF vars
  <2>. QED BY <2>1, <2>2, <2>3, <2>4, <2>5 DEF Next
<1>. QED BY <1>1, <1>2 DEF JobHistory

\* The encodes of a job are finitely many.
LEMMA RunsCounted ==
  ASSUME NEW j
  PROVE  IsFiniteSet(RunsOf(j)) /\ Cardinality(RunsOf(j)) \in Nat
<1>1. IsFiniteSet(RunsOf(j))
  BY ConstantsAssumption, FS_Interval, FS_Subset DEF RunsOf, Runs
<1>. QED BY <1>1, FS_CardinalityType

\* The step that starts an encode spends the entry of its job.
LEMMA StartSpends ==
  ASSUME TypeInv, NEW j \in Jobs, NEW r \in Runs, Started(j, r),
         NEW i \in Jobs
  PROVE  Cardinality(RunsOf(i))' =
           Cardinality(RunsOf(i)) + (IF i = j THEN 1 ELSE 0)
<1>1. j # None
  BY ConstantsAssumption
<1>2. CASE i = j
  <2>1. RunsOf(j)' = RunsOf(j) \cup {r} /\ r \notin RunsOf(j)
    BY <1>1 DEF RunsOf, Started
  <2>2. Cardinality(RunsOf(j) \cup {r}) = Cardinality(RunsOf(j)) + 1
    BY <2>1, RunsCounted, FS_AddElement
  <2>. QED BY <1>2, <2>1, <2>2
<1>3. CASE i # j
  <2>1. RunsOf(i)' = RunsOf(i)
    BY <1>3, ConstantsAssumption DEF RunsOf, Started
  <2>. QED BY <1>3, <2>1, RunsCounted
<1>. QED BY <1>2, <1>3

\* What is spent stays within what is granted when nothing is added, when an
\* entry is granted, and when one is spent.
LEMMA SpendingBound ==
  ASSUME NEW n \in Nat, NEW a \in Nat, NEW b \in Nat,
         NEW w \in {0, 1}, NEW s \in {0, 1},
         NEW n1 \in Nat, NEW a1 \in Nat, NEW b1 \in Nat,
         NEW w1 \in {0, 1}, NEW s1 \in {0, 1},
         a <= a1, b <= b1, s <= s1, n + w <= s + a + b,
         \/ n1 = n /\ w1 <= w
         \/ n1 = n /\ w = 0 /\ s1 = 1 /\ (s = 0 \/ b1 = b + 1)
         \/ n1 = n + 1 /\ w = 1 /\ w1 = 0
  PROVE  n1 + w1 <= s1 + a1 + b1
OBVIOUS

\* No step spends an entry twice.
LEMMA WorkSpent ==
  ASSUME TypeInv, [Next]_vars, WorkStep, NEW i \in Jobs, JobSpent(i)
  PROVE  JobSpent(i)'
<1>1. /\ hist[i].retries \in Nat /\ hist[i].interrupts \in Nat
      /\ hist'[i].retries \in Nat /\ hist'[i].interrupts \in Nat
      /\ hist[i].retries <= hist'[i].retries
      /\ hist[i].interrupts <= hist'[i].interrupts
  BY HistKept DEF TypeInv, TypeOK, JobHistory
<1>2. /\ Cardinality(RunsOf(i)) \in Nat
      /\ Due(i) \in {0, 1} /\ Due(i)' \in {0, 1}
      /\ Submitted(i) \in {0, 1} /\ Submitted(i)' \in {0, 1}
  BY RunsCounted DEF Due, Submitted
<1>3. SUFFICES
        /\ Cardinality(RunsOf(i))' \in Nat /\ Submitted(i) <= Submitted(i)'
        /\ \/ Cardinality(RunsOf(i))' = Cardinality(RunsOf(i)) /\ Due(i)' <= Due(i)
           \/ /\ Cardinality(RunsOf(i))' = Cardinality(RunsOf(i))
              /\ Due(i) = 0 /\ Submitted(i)' = 1
              /\ \/ Submitted(i) = 0
                 \/ hist'[i].interrupts = hist[i].interrupts + 1
           \/ /\ Cardinality(RunsOf(i))' = Cardinality(RunsOf(i)) + 1
              /\ Due(i) = 1 /\ Due(i)' = 0
  BY <1>1, <1>2, SpendingBound DEF JobSpent
<1>4. CASE WorkKept
  <2>1. RunsOf(i)' = RunsOf(i)
    BY <1>4 DEF WorkKept, WorkNamed, RunsOf
  <2>2. Due(i)' <= Due(i) /\ Submitted(i) <= Submitted(i)'
    BY <1>4 DEF WorkKept, WorkNamed, Due, Submitted
  <2>. QED BY <1>2, <2>1, <2>2
<1>5. ASSUME NEW j \in Jobs, Entered(j)
      PROVE  /\ Cardinality(RunsOf(i))' = Cardinality(RunsOf(i))
             /\ Submitted(i) <= Submitted(i)'
             /\ \/ Due(i)' <= Due(i)
                \/ /\ Due(i) = 0 /\ Submitted(i)' = 1
                   /\ \/ Submitted(i) = 0
                      \/ hist'[i].interrupts = hist[i].interrupts + 1
  <2>1. RunsOf(i)' = RunsOf(i)
    BY <1>5 DEF Entered, WorkNamed, RunsOf
  <2>2. Submitted(i) <= Submitted(i)' /\ (i # j => Due(i)' <= Due(i))
    BY <1>5 DEF Entered, WorkNamed, Due, Submitted
  <2>3. i = j => /\ Due(i) = 0 /\ Submitted(i)' = 1
                 /\ \/ Submitted(i) = 0
                    \/ hist'[i].interrupts = hist[i].interrupts + 1
    BY <1>5 DEF Entered, Due, Submitted
  <2>. QED BY <2>1, <2>2, <2>3
<1>6. ASSUME NEW j \in Jobs, NEW r \in Runs, Started(j, r)
      PROVE  /\ Cardinality(RunsOf(i))' =
                  Cardinality(RunsOf(i)) + (IF i = j THEN 1 ELSE 0)
             /\ Submitted(i) = Submitted(i)' /\ Due(i)' <= Due(i)
             /\ i = j => Due(i) = 1 /\ Due(i)' = 0
  <2>1. Cardinality(RunsOf(i))' =
          Cardinality(RunsOf(i)) + (IF i = j THEN 1 ELSE 0)
    BY <1>6, StartSpends
  <2>2. /\ Submitted(i) = Submitted(i)' /\ Due(i)' <= Due(i)
        /\ i = j => Due(i) = 1 /\ Due(i)' = 0
    BY <1>6 DEF Started, Due, Submitted
  <2>. QED BY <2>1, <2>2
<1>. QED BY <1>2, <1>4, <1>5, <1>6 DEF WorkStep

\* While no call fails a job is encoded once, and once more for each retry and
\* interruption, whatever restarts, cancels and teardowns come between the
\* claim of its entry, the POST and the LREM.
THEOREM EncodeSpent == Spec => []EncodesSpent
<1>1. Init => FaultlessSpent
  <2>. SUFFICES ASSUME Init, NEW j \in Jobs PROVE JobSpent(j)
    BY DEF FaultlessSpent
  <2>1. RunsOf(j) = {}
    BY ConstantsAssumption DEF Init, RunsOf, FreeRun
  <2>2. Cardinality(RunsOf(j)) = 0
    BY <2>1, FS_EmptySet
  <2>3. ~Waits(j) /\ record[j].st = "none"
    BY DEF Init, Waits, Holding, IdleTick
  <2>4. hist[j].retries = 0 /\ hist[j].interrupts = 0
    BY DEF Init
  <2>. QED BY <2>2, <2>3, <2>4 DEF JobSpent, Due, Submitted
<1>2. TypeInv /\ FaultlessOnce /\ FaultlessSpent /\ [Next]_vars => FaultlessSpent'
  <2>. SUFFICES ASSUME TypeInv, FaultlessOnce, FaultlessSpent, [Next]_vars,
                       faults' = 0, NEW j \in Jobs
                PROVE  JobSpent(j)'
    BY DEF FaultlessSpent
  <2>1. OnceInv /\ JobSpent(j)
    BY FaultsKept DEF FaultlessOnce, FaultlessSpent
  <2>2. WorkStep
    <3>1. CASE UNCHANGED vars
      BY <3>1 DEF vars, WorkStep, WorkKept, WorkNamed, Waits
    <3>. QED BY <2>1, <3>1, TickOnce, PollerOnce, RequestsOnce, EnvironmentOnce
             DEF Next
  <2>. QED BY <2>1, <2>2, WorkSpent
<1>3. TypeInv /\ FaultlessSpent => EncodesSpent
  <2>. SUFFICES ASSUME TypeInv, NEW j \in Jobs, JobSpent(j)
       PROVE  Cardinality(RunsOf(j)) <= 1 + hist[j].retries + hist[j].interrupts
    BY DEF FaultlessSpent, EncodesSpent, EncodesAccountedFor
  <2>1. hist[j].retries \in Nat /\ hist[j].interrupts \in Nat
    BY DEF TypeInv, TypeOK, JobHistory
  <2>. QED BY <2>1, RunsCounted DEF JobSpent, Due, Submitted
<1>. QED BY <1>1, <1>2, <1>3, OnceInvariance, TypeInvariance, PTL DEF Spec

-----------------------------------------------------------------------------
(* What reconcile drops, through any failed calls and restarts. *)

\* The probes of a tick that reconciles list every encode on an instance that
\* answered: encodes end meanwhile, and none starts before dispatch.
LEMMA ViewStays ==
  ASSUME ProbesCover, NoneStarted, ViewKeeps
  PROVE  ProbesCover'
BY DEF ProbesCover, NoneStarted, ViewKeeps

LEMMA CoverInvariance == Spec => []ProbesCover
<1>1. Init => ProbesCover
  BY DEF Init, IdleTick, ProbesCover, Reconciling
<1>2. TypeInv /\ ProbesCover /\ [Next]_vars => ProbesCover'
  <2>. SUFFICES ASSUME TypeInv, ProbesCover, [Next]_vars PROVE ProbesCover'
    OBVIOUS
  <2>1. runs \in [Runs -> Run]
    BY DEF TypeInv, TypeOK
  <2>2. CASE UNCHANGED vars
    BY <2>2 DEF vars, ProbesCover, Reconciling
  <2>3. CASE TickStart
    <3>1. UNCHANGED runs
      BY <2>3 DEF TickStart, encore
    <3>2. \A r \in Runs : runs[r].st = "active" =>
            /\ runs[r].inst \in Instances
            /\ runs[r].job \in ProbeOf(runs[r].inst).jobs
      BY DEF TypeInv, RunsNamed, NamedRun, ProbeOf, ActiveRuns
    <3>. QED BY <2>3, <3>1, <3>2, StartActs DEF ProbesCover
  <2>4. CASE \/ ReconcileEnd
             \/ \E i \in Instances : EvictVanished(i) \/ ReconcileInstance(i)
             \/ \E j \in Jobs : SweepFailed(j)
             \/ \E d \in [job : Jobs, retryable : BOOLEAN] : SettleDrop(d)
             \/ DropRequeue \/ DropRequeueFails
    <3>1. ViewKeeps
      BY <2>4, ReconcileActs
    <3>2. CASE UNCHANGED runs
      BY <3>1, <3>2, ViewStays DEF NoneStarted
    <3>3. CASE \E u : CancelRun(u)
      BY <2>1, <3>1, <3>3, CancelRunStartsNone, ViewStays
    <3>4. UNCHANGED runs \/ \E u : CancelRun(u)
      BY <2>4 DEF ReconcileEnd, EvictVanished, ReconcileInstance, SweepFailed,
                  SettleDrop, DropRequeue, DropRequeueFails, RetryRequeue,
                  RequeueFails, encore
    <3>. QED BY <3>2, <3>3, <3>4
  <2>5. CASE \E j \in Jobs : InterruptRequeue(j) \/ InterruptLost(j)
    BY <2>5, InterruptLeavesProbe, ViewStays
  <2>9. CASE TickFails
    BY <2>9, FailsLeaveProbe, ViewStays
  <2>6. CASE \E i \in Instances : ScaleDownProbe(i)
    <3>1. ~Reconciling(tick')
      BY <2>6, ProbeActs
    <3>. QED BY <3>1 DEF ProbesCover
  <2>7. CASE \/ \E i \in Instances : ScaleUp(i) \/ ScaleDownKeep(i)
             \/ NoScaleUp \/ ScaleUpStart \/ SpawnFails
             \/ ScaleDownDrain \/ ScaleDownRelease \/ ScaleDownDestroy
             \/ \E i \in Instances : DispatchNone(i) \/ DispatchClaim(i)
             \/ DispatchPost \/ DispatchRefused \/ DispatchRecord
             \/ DispatchRecordFails \/ DispatchUnclaim \/ DispatchCount
             \/ DispatchGiveBack
    BY <2>7, LoopStepActs DEF ProbesCover
  <2>8. CASE PollerStep \/ SweepStep \/ ApiStep \/ Environment
    BY <2>8, OthersLeaveProbe, ViewStays
  <2>. QED BY <2>2, <2>3, <2>4, <2>5, <2>6, <2>7, <2>8, <2>9
           DEF Next, TickStep, TickFails
<1>. QED BY <1>1, <1>2, TypeInvariance, PTL DEF Spec

\* A job that reconcile drops runs on no instance that answered.
LEMMA ReconcileDropsReal ==
  ASSUME TypeInv, ProbesCover, NEW i \in Instances, ReconcileInstance(i)
  PROVE  DropsAreReal
<1>. SUFFICES ASSUME NEW j \in Jobs,
                     kv[j].status # "FAILED", kv'[j].status = "FAILED",
                     NEW r \in RunsOf(j), runs[r].st = "active",
                     tick.real[runs[r].inst].ok
              PROVE  FALSE
  BY DEF DropsAreReal
<1>1. kv[j] \in JobKeys
  BY DEF TypeInv, TypeOK
<1>2. kv' = Classified(i)
  BY DEF ReconcileInstance
<1>3. j \in Drops(i)
  BY <1>1, <1>2 DEF Classified, JobKeys
<1>4. ActiveElsewhere(j) = {}
  BY <1>3 DEF Drops, Suspects
<1>5. r \in Runs /\ runs[r].job = j /\ runs[r].inst \in Instances
  BY DEF RunsOf, TypeInv, RunsNamed, NamedRun
<1>6. j \in tick.real[runs[r].inst].jobs
  BY <1>5 DEF ProbesCover, Reconciling, ReconcileInstance
<1>. QED BY <1>4, <1>5, <1>6 DEF ActiveElsewhere

\* reconcile declares a job lost only if no instance that answered its probe runs
\* it, whatever calls failed before and however often the process restarted, and
\* although the probe is older than the mappings it is compared with.
THEOREM ReconcileDropsTrue ==
  Spec => [][(\E i \in Instances : ReconcileInstance(i)) => DropsAreReal]_vars
<1>1. TypeInv /\ ProbesCover /\ [Next]_vars
      => [(\E i \in Instances : ReconcileInstance(i)) => DropsAreReal]_vars
  BY ReconcileDropsReal
<1>. QED BY <1>1, TypeInvariance, CoverInvariance, PTL DEF Spec

\* No job's status becomes FAILED.
NoneFails == \A j \in Jobs : kv'[j].status = "FAILED" => kv[j].status = "FAILED"

\* One job's keys are written, and its status is another one or stays.
LEMMA KeysSpared ==
  ASSUME TypeInv, NEW j \in Jobs, NEW k, kv' = [kv EXCEPT ![j] = k],
         k.status # "FAILED" \/ k.status = kv[j].status
  PROVE  NoneFails
BY DEF NoneFails, TypeInv, TypeOK

\* Nor do a requeue, a cleared state, a stamped success and a cancel fail a job.
LEMMA HelpersSpare ==
  ASSUME TypeInv, NEW j \in Jobs
  PROVE  /\ kv' = [kv EXCEPT ![j] = Requeued(@)] => NoneFails
         /\ kv' = [kv EXCEPT ![j] = Cleared(@)] => NoneFails
         /\ kv' = [kv EXCEPT ![j] = Cleared(Requeued(@))] => NoneFails
         /\ kv' = [kv EXCEPT ![j] = Stamped(@)] => NoneFails
         /\ \A i, u : kv' = CancelKeys(i, u) => NoneFails
<1>1. /\ kv \in [Jobs -> JobKeys] /\ kv[j] \in JobKeys
  BY DEF TypeInv, TypeOK
<1>2. /\ Requeued(kv[j]).status # "FAILED"
      /\ Cleared(kv[j]).status = kv[j].status
      /\ Cleared(Requeued(kv[j])).status # "FAILED"
      /\ Stamped(kv[j]).status # "FAILED"
  BY <1>1 DEF Requeued, Cleared, Stamped, JobKeys
<1>3. ASSUME NEW i, NEW u, kv' = CancelKeys(i, u) PROVE NoneFails
  BY <1>1, <1>3 DEF CancelKeys, NoneFails, JobKeys
<1>. QED BY <1>2, <1>3, KeysSpared

\* Only the classification and an interruption without a payload fail a job's
\* keys.
LEMMA FailedKeys ==
  ASSUME TypeInv, [Next]_vars, NEW j \in Jobs,
         kv[j].status # "FAILED", kv'[j].status = "FAILED"
  PROVE  \/ \E i \in Instances : ReconcileInstance(i)
         \/ InterruptLost(j) \/ LostFails(j)
<1>. SUFFICES ASSUME ~\E i \in Instances : ReconcileInstance(i),
                     ~\E i \in Jobs : InterruptLost(i) \/ LostFails(i)
              PROVE  NoneFails
  <2>1. ASSUME NEW i \in Jobs, i # j, InterruptLost(i) \/ LostFails(i)
        PROVE  kv'[j] = kv[j]
    BY <2>1 DEF InterruptLost, LostFails, TypeInv, TypeOK
  <2>. QED BY <2>1 DEF NoneFails
<1>1. CASE UNCHANGED kv
  BY <1>1 DEF NoneFails
<1>2. ASSUME TickStep, kv' # kv PROVE NoneFails
  <2>1. CASE \E i \in Jobs : InterruptRequeue(i) \/ InterruptFails(i)
    BY <1>2, <2>1, HelpersSpare DEF InterruptRequeue, InterruptFails
  <2>2. CASE \E d \in [job : Jobs, retryable : BOOLEAN] : SettleDrop(d)
    BY <1>2, <2>2, HelpersSpare DEF SettleDrop, valkey
  <2>3. CASE DropRequeue \/ DropRequeueFails
    <3>1. tick.job \in Jobs
      BY <2>3 DEF DropRequeue, DropRequeueFails, TypeInv, TickNamed, NamedTick
    <3>. QED BY <2>3, <3>1, HelpersSpare
             DEF DropRequeue, DropRequeueFails, RetryRequeue
  <2>4. CASE \E i \in Jobs : SweepFailed(i)
    BY <2>4, HelpersSpare DEF SweepFailed
  <2>5. CASE DispatchRecord \/ DispatchRecordFails
    <3>. DEFINE k(e) == Mapped(kv[e.job], tick.cur)
                c(e) == Counted(k(e), e)
    <3>1. ASSUME NEW e \in tick.claim
          PROVE  /\ e.job \in Jobs
                 /\ k(e).status = "RUNNING" /\ c(e).status = "RUNNING"
                 /\ [k(e) EXCEPT !.url = tick.run].status = "RUNNING"
                 /\ [c(e) EXCEPT !.url = tick.run].status = "RUNNING"
      <4>1. e.job \in Jobs /\ kv[e.job] \in JobKeys
        BY DEF TypeInv, TypeOK, TickLocals, Entry
      <4>. QED BY <4>1 DEF Mapped, Counted, JobKeys
    <3>2. CASE DispatchRecord
      <4>1. \E e \in tick.claim :
              \/ kv' = [kv EXCEPT ![e.job] = [k(e) EXCEPT !.url = tick.run]]
              \/ kv' = [kv EXCEPT ![e.job] = [c(e) EXCEPT !.url = tick.run]]
        BY <3>2 DEF DispatchRecord
      <4>. HIDE DEF k, c
      <4>. QED BY <3>1, <4>1, KeysSpared
    <3>3. CASE DispatchRecordFails
      <4>1. \E e \in tick.claim : \/ kv' = [kv EXCEPT ![e.job] = k(e)]
                                  \/ kv' = [kv EXCEPT ![e.job] = c(e)]
        BY <1>2, <3>3 DEF DispatchRecordFails
      <4>. HIDE DEF k, c
      <4>. QED BY <3>1, <4>1, KeysSpared
    <3>. QED BY <2>5, <3>2, <3>3
  <2>. QED BY <1>2, <2>1, <2>2, <2>3, <2>4, <2>5
       DEF TickStep, TickStart, EvictVanished, ReconcileEnd, NoScaleUp,
           ScaleUpStart, ScaleUp, SpawnFails, ScaleDownKeep, ScaleDownProbe,
           ScaleDownDrain, ScaleDownRelease, ScaleDownDestroy, DispatchNone,
           DispatchClaim, DispatchPost, DispatchRefused, TickThrows,
           DispatchUnclaim, DispatchCount, DispatchGiveBack, valkey
<1>3. ASSUME PollerStep \/ SweepStep, kv' # kv PROVE NoneFails
  <2>1. poller.pc # "idle" => poller.job \in Jobs
    BY DEF TypeInv, PollerNamed
  <2>2. CASE PollSuccess \/ PollRequeue \/ PollRequeueFails \/ PollCount
    BY <1>3, <2>1, <2>2, HelpersSpare
    DEF PollSuccess, PollRequeue, PollRequeueFails, PollCount, RetryRequeue
  <2>3. CASE PollWrite
    BY <1>3, <2>1, <2>3 DEF PollWrite, NoneFails, TypeInv, TypeOK, JobKeys
  <2>4. CASE \E r \in Runs : StallDetected(r)
    <3>1. PICK r \in Runs : StallDetected(r)
      BY <2>4
    <3>2. runs[r].job \in Jobs
      BY <3>1 DEF StallDetected, TypeInv, RunsNamed, NamedRun
    <3>. QED BY <3>1, <3>2, HelpersSpare DEF StallDetected, RetryRequeue
  <2>. QED BY <1>3, <2>2, <2>3, <2>4
       DEF PollerStep, PollFetch, PollUnreachable, PollFailure, PollRetry,
           SweepStep, SweepTerminalJob, valkey
<1>4. ASSUME ApiStep \/ Environment, kv' # kv PROVE NoneFails
  <2>1. CASE ApiStep
    <3>1. CASE CancelMark
      BY <3>1, HelpersSpare DEF CancelMark
    <3>2. CASE \E i \in Jobs : Submit(i)
      BY <3>2 DEF Submit, NoneFails, TypeInv, TypeOK, JobKeys
    <3>. QED BY <1>4, <2>1, <3>1, <3>2
         DEF ApiStep, SubmitRejected, SubmitTimesOut, CancelStart, CancelJob,
             CancelUndrained, CancelThrows, CancelSave, CancelFail, valkey
  <2>2. CASE Environment
    <3>1. CASE \E i \in Jobs : GraceElapses(i) \/ GateExpires(i) \/ PinReleased(i)
      <4>1. PICK i \in Jobs : GraceElapses(i) \/ GateExpires(i) \/ PinReleased(i)
        BY <3>1
      <4>2. kv \in [Jobs -> JobKeys] /\ kv[i] \in JobKeys
        BY DEF TypeInv, TypeOK
      <4>3. \A q \in Jobs : kv'[q].status = kv[q].status
        BY <4>1, <4>2 DEF GraceElapses, GateExpires, PinReleased, JobKeys
      <4>. QED BY <4>3 DEF NoneFails
    <3>. QED BY <1>4, <2>2, <3>1
         DEF Environment, RunEnds, EncoreCallback, InstanceVanishes,
             IdleTimeElapses, BackoffElapses, Crash, valkey
  <2>. QED BY <1>4, <2>1, <2>2
<1>. QED BY <1>1, <1>2, <1>3, <1>4 DEF Next, vars

\* While no call fails, a job is declared lost, by reconcile or with its
\* instance, only if it runs nowhere that can be seen.
THEOREM DropsStand == Spec /\ [](faults = 0) => DropsReal
<1>1. TypeInv /\ ProbesCover /\ FaultlessOnce /\ faults = 0 /\ [Next]_vars
      => [DropsAreReal]_vars
  <2>. SUFFICES ASSUME TypeInv, ProbesCover, OnceInv, [Next]_vars,
                       NEW j \in Jobs,
                       kv[j].status # "FAILED", kv'[j].status = "FAILED",
                       NEW r \in RunsOf(j), runs[r].st = "active"
                PROVE  ~pool[runs[r].inst].in \/ ~tick.real[runs[r].inst].ok
    BY DEF FaultlessOnce, DropsAreReal
  <2>1. CASE \E i \in Instances : ReconcileInstance(i)
    BY <2>1, ReconcileDropsReal DEF DropsAreReal
  <2>2. CASE InterruptLost(j) \/ LostFails(j)
    BY <2>2 DEF InterruptLost, LostFails, OnceInv, LostGone, Active, RunsOf
  <2>. QED BY <2>1, <2>2, FailedKeys
<1>. QED BY <1>1, TypeInvariance, CoverInvariance, OnceInvariance, PTL DEF Spec, DropsReal

-----------------------------------------------------------------------------
(***************************************************************************)
(* Every unsettled job of the encode path has a holder that comes back to  *)
(* it, as long as the process does not restart and no call fails that was  *)
(* to put the job back.                                                    *)
(***************************************************************************)


-----------------------------------------------------------------------------
(* Jobs that were never submitted have left no trace. *)

\* What the tick holds of a job.
TickNames(t, j) ==
  \/ \E e \in t.claim : e.job = j
  \/ j \in t.lost
  \/ \E d \in t.drops : d.job = j
  \/ t.pc = "requeue" /\ t.job = j

\* A queue entry, an encode, keys or some process refers to the job.
Named(j) ==
  \/ \E e \in queue : e.job = j
  \/ \E r \in Runs : runs[r].job = j
  \/ kv[j].inst # None \/ kv[j].cancelReq # "no"
  \/ TickNames(tick, j)
  \/ poller.pc # "idle" /\ poller.job = j
  \/ canceller.pc # "idle" /\ canceller.job = j

UnsubmittedUnnamed == \A j \in Jobs : record[j].st = "none" => ~Named(j)

\* The parts of Named that a step of one process leaves alone.
KeysUnnamed(j) == kv[j].inst = None /\ kv[j].cancelReq = "no"

\* No record becomes queued but by a submit, and none is forgotten.
RecordsAdvance ==
  \A j \in Jobs : /\ record'[j].st = "none" => record[j].st = "none"
                  /\ record'[j].st = "queued" => record[j].st \in {"none", "queued"}

\* Leaving a phase adds no name.
LEMMA OnwardNames ==
  ASSUME NEW t, NEW j, ~TickNames(t, j)
  PROVE  ~TickNames(Onward(t), j)
<1>1. \/ Onward(t) = t
      \/ /\ Onward(t).pc # "requeue" /\ Onward(t).claim = {}
         /\ Onward(t).lost = {} /\ Onward(t).drops \in {{}, t.drops}
  BY DEF Onward, IdleTick
<1>. QED BY <1>1 DEF TickNames

\* Nor does going on after lost jobs.
LEMMA ResumeNames ==
  ASSUME NEW t \in TickLocals, NEW j, ~TickNames(t, j)
  PROVE  ~TickNames(Resume(t), j)
<1>1. PICK u, v : u = [t EXCEPT !.pc = t.back] /\ v = [t EXCEPT !.pc = "interrupt"]
  OBVIOUS
<1>2. ~TickNames(u, j) /\ ~TickNames(v, j)
  BY <1>1 DEF TickNames, TickLocals
<1>. QED BY <1>1, <1>2, OnwardNames DEF Resume

\* Entering the scale-down loop names no job, returning to it no further one.
LEMMA LoopNames ==
  ASSUME tick \in TickLocals, NEW j
  PROVE  /\ \A p : ~TickNames(EnterScaleDown(p), j)
         /\ ~TickNames(tick, j) => \A i, p : ~TickNames(Kept(i, p), j)
<1>1. ASSUME NEW p PROVE ~TickNames(EnterScaleDown(p), j)
  <2>1. PICK t : /\ t = [IdleTick EXCEPT
                           !.pc = "scaleDown", !.snap = p, !.stuck = StuckCancelledHosts,
                           !.todo = {i \in InPool(p) : \/ IdleAndAged(p[i])
                                                       \/ p[i].draining
                                                       \/ i \in StuckCancelledHosts}]
                 /\ EnterScaleDown(p) = Onward(t)
    BY DEF EnterScaleDown
  <2>2. ~TickNames(t, j)
    BY <2>1 DEF TickNames, IdleTick
  <2>. QED BY <2>1, <2>2, OnwardNames
<1>2. ASSUME NEW i, NEW p, ~TickNames(tick, j) PROVE ~TickNames(Kept(i, p), j)
  <2>1. PICK t : /\ t = [tick EXCEPT
                           !.pc = "scaleDown", !.cur = None, !.snap[i] = p,
                           !.back = "reconcile", !.real[i] = NoAnswer]
                 /\ Kept(i, p) = Onward(t)
    BY DEF Kept
  <2>2. ~TickNames(t, j)
    BY <1>2, <2>1 DEF TickNames, TickLocals
  <2>. QED BY <2>1, <2>2, OnwardNames
<1>. QED BY <1>1, <1>2

\* reconcile, lost jobs and drops.
LEMMA ReconcileNames ==
  ASSUME TypeInv, NEW j \in Jobs, ~Named(j),
         \/ TickStart \/ ReconcileEnd
         \/ \E i \in Instances : EvictVanished(i) \/ ReconcileInstance(i)
  PROVE  ~Named(j)'
<1>1. /\ tick \in TickLocals /\ ~TickNames(tick, j)
      /\ kv[j].inst = None /\ None \notin Instances
  BY ConstantsAssumption DEF TypeInv, TypeOK, Named
<1>2. CASE TickStart
  <2>1. PICK t : /\ tick' = Onward(t)
                 /\ \E p, todo, real : t = [IdleTick EXCEPT !.pc = "reconcile",
                                         !.todo = todo, !.snap = p, !.real = real]
    BY <1>2 DEF TickStart
  <2>2. ~TickNames(t, j)
    BY <2>1 DEF TickNames, IdleTick
  <2>3. ~TickNames(tick', j)
    BY <2>1, <2>2, OnwardNames
  <2>. QED BY <1>2, <2>3 DEF TickStart, Named, valkey, encore
<1>3. CASE ReconcileEnd
  <2>1. PICK t : t = [tick EXCEPT !.onto = {}] /\ tick' = Onward(t)
    BY <1>3 DEF ReconcileEnd
  <2>2. ~TickNames(t, j)
    BY <1>1, <2>1 DEF TickNames, TickLocals
  <2>3. ~TickNames(tick', j)
    BY <2>1, <2>2, OnwardNames
  <2>. QED BY <1>3, <2>3 DEF ReconcileEnd, Named, encore
<1>4. ASSUME NEW i \in Instances, EvictVanished(i) PROVE ~Named(j)'
  <2>1. PICK t : /\ t = [tick EXCEPT !.todo = @ \ {i}, !.snap[i] = Gone,
                                     !.lost = LostWith(i, {}), !.back = "reconcile"]
                 /\ tick' = Resume(t)
    BY <1>4 DEF EvictVanished
  <2>2. t \in TickLocals /\ ~TickNames(t, j)
    <3>1. LostWith(i, {}) \subseteq Jobs \ {j}
      BY <1>1 DEF LostWith
    <3>2. Gone \in PoolRecord
      BY DEF Gone, PoolRecord
    <3>. QED BY <1>1, <2>1, <3>1, <3>2 DEF TickNames, TickLocals
  <2>3. ~TickNames(tick', j)
    BY <2>1, <2>2, ResumeNames
  <2>. QED BY <1>4, <2>3 DEF EvictVanished, Named, encore
<1>5. ASSUME NEW i \in Instances, ReconcileInstance(i) PROVE ~Named(j)'
  <2>1. j \notin Missing(i)
    BY <1>1 DEF Missing, LostWith
  <2>2. PICK t, s, onto, drops :
          /\ t = [tick EXCEPT !.todo = @ \ {i}, !.snap[i] = s, !.onto = onto,
                              !.drops = drops]
          /\ tick' = Onward(t)
          /\ \/ drops = tick.drops
             \/ drops = tick.drops \cup
                  {[job |-> l, retryable |-> DropIsRetryable(l, i)] :
                   l \in Drops(i)}
    BY <1>5 DEF ReconcileInstance
  <2>3. ~TickNames(t, j)
    <3>1. \A d \in drops : d \in tick.drops \/ d.job \in Missing(i)
      BY <2>2 DEF Drops, Suspects
    <3>2. tick.pc = "reconcile"
      BY <1>5 DEF ReconcileInstance
    <3>. QED BY <1>1, <2>1, <2>2, <3>1, <3>2 DEF TickNames, TickLocals
  <2>4. ~TickNames(tick', j)
    BY <2>2, <2>3, OnwardNames
  <2>5. kv'[j].inst = None /\ kv'[j].cancelReq = kv[j].cancelReq
    <3>1. CASE kv' = kv
      BY <1>1, <3>1
    <3>2. CASE kv' = Classified(i)
      <4>1. j \notin Drops(i) /\ j \notin WithheldDrops(i)
        BY <2>1 DEF Drops, WithheldDrops, Suspects
      <4>2. Classified(i)[j] = kv[j]
        BY <1>1, <2>1, <4>1 DEF Classified
      <4>. QED BY <1>1, <3>2, <4>2
    <3>. QED BY <1>5, <3>1, <3>2 DEF ReconcileInstance
  <2>. QED BY <1>5, <2>4, <2>5 DEF ReconcileInstance, Named, encore
<1>. QED BY <1>2, <1>3, <1>4, <1>5

\* A cancel sent to Encore renames no encode.
LEMMA CancelRunNames ==
  ASSUME runs \in [Runs -> Run], NEW u, CancelRun(u)
  PROVE  \A r \in Runs : runs'[r].job = runs[r].job
BY DEF CancelRun, Run

\* An entry queued for another job does not name this one.
LEMMA PushNames ==
  ASSUME NEW j, NEW l, NEW n, NEW due, l # j, Push(l, n, due),
         ~\E e \in queue : e.job = j
  PROVE  ~\E e \in queue' : e.job = j
BY DEF Push

\* The keys of another job say nothing of this one.
LEMMA KeyNames ==
  ASSUME TypeInv, NEW j \in Jobs, NEW l, l # j,
         kv' = kv \/ \E k : kv' = [kv EXCEPT ![l] = k]
  PROVE  kv'[j] = kv[j]
BY DEF TypeInv, TypeOK

\* Lost jobs, drops and failures are of jobs the tick has named, or that were
\* submitted.
LEMMA SettleNames ==
  ASSUME TypeInv, NEW j \in Jobs, ~Named(j), record[j].st = "none",
         \/ \E l \in Jobs : InterruptRequeue(l) \/ InterruptLost(l) \/ SweepFailed(l)
         \/ \E d \in [job : Jobs, retryable : BOOLEAN] : SettleDrop(d)
         \/ DropRequeue \/ DropRequeueFails
  PROVE  ~Named(j)'
<1>1. /\ tick \in TickLocals /\ ~TickNames(tick, j)
      /\ runs \in [Runs -> Run] /\ kv \in [Jobs -> JobKeys]
  BY DEF TypeInv, TypeOK, Named
<1>2. ASSUME NEW l \in Jobs, InterruptRequeue(l) \/ InterruptLost(l)
      PROVE  ~Named(j)'
  <2>1. l # j
    BY <1>1, <1>2 DEF InterruptRequeue, InterruptLost, TickNames
  <2>2. PICK t : t = [tick EXCEPT !.lost = @ \ {l}] /\ tick' = Resume(t)
    BY <1>2 DEF InterruptRequeue, InterruptLost
  <2>3. t \in TickLocals /\ ~TickNames(t, j)
    BY <1>1, <2>2 DEF TickNames, TickLocals
  <2>4. ~TickNames(tick', j)
    BY <2>2, <2>3, ResumeNames
  <2>5. kv'[j] = kv[j]
    <3>1. kv' = kv \/ \E k : kv' = [kv EXCEPT ![l] = k]
      BY <1>2 DEF InterruptRequeue, InterruptLost
    <3>. QED BY <2>1, <3>1, KeyNames
  <2>6. CASE InterruptRequeue(l)
    <3>1. \A r \in Runs : runs'[r].job = runs[r].job
      BY <1>1, <2>6, CancelRunNames DEF InterruptRequeue
    <3>2. ~\E e \in queue' : e.job = j
      BY <2>1, <2>6, PushNames DEF InterruptRequeue, Named
    <3>. QED BY <2>4, <2>5, <2>6, <3>1, <3>2 DEF InterruptRequeue, Named
  <2>7. CASE InterruptLost(l)
    BY <2>4, <2>5, <2>7 DEF InterruptLost, Named, encore
  <2>. QED BY <1>2, <2>6, <2>7
<1>3. ASSUME NEW l \in Jobs, SweepFailed(l) PROVE ~Named(j)'
  <2>1. l # j
    BY <1>3 DEF SweepFailed, NeedsFailing
  <2>2. kv'[j] = kv[j]
    BY <1>1, <1>3, <2>1 DEF SweepFailed, CancelKeys
  <2>3. \A r \in Runs : runs'[r].job = runs[r].job
    BY <1>1, <1>3, CancelRunNames DEF SweepFailed
  <2>. QED BY <1>3, <2>2, <2>3 DEF SweepFailed, Named
<1>4. ASSUME NEW d \in [job : Jobs, retryable : BOOLEAN], SettleDrop(d)
      PROVE  ~Named(j)'
  <2>1. d.job # j /\ d.job \in Jobs
    BY <1>1, <1>4 DEF SettleDrop, TickNames
  <2>2. PICK t, u : /\ t = [tick EXCEPT !.drops = @ \ {d}]
                    /\ u = [tick EXCEPT !.pc = "requeue", !.job = d.job,
                                        !.n = AttemptsSoFar(d.job),
                                        !.drops = @ \ {d}]
                    /\ tick' = u \/ tick' = Onward(t)
    BY <1>4 DEF SettleDrop
  <2>3. tick.pc = "drops"
    BY <1>4 DEF SettleDrop
  <2>4. ~TickNames(t, j) /\ ~TickNames(u, j)
    BY <1>1, <2>1, <2>2, <2>3 DEF TickNames, TickLocals
  <2>5. ~TickNames(tick', j)
    BY <2>2, <2>4, OnwardNames
  <2>6. kv'[j] = kv[j]
    BY <1>4, <2>1, KeyNames, ZenonT(30) DEF SettleDrop
  <2>7. UNCHANGED <<queue, runs, poller, canceller>>
    BY <1>4 DEF SettleDrop, encore
  <2>. QED BY <2>5, <2>6, <2>7 DEF Named
<1>5. CASE DropRequeue \/ DropRequeueFails
  <2>1. tick.job # j /\ tick.job \in Jobs
    BY <1>1, <1>5 DEF DropRequeue, DropRequeueFails, TickNames, TypeInv, TickNamed, NamedTick
  <2>2. PICK t : /\ t = [tick EXCEPT !.pc = "drops", !.job = None, !.n = 0]
                 /\ tick' = Onward(t)
    BY <1>5 DEF DropRequeue, DropRequeueFails, DropRequeued
  <2>3. ~TickNames(t, j)
    BY <1>1, <2>2 DEF TickNames, TickLocals
  <2>4. ~TickNames(tick', j)
    BY <2>2, <2>3, OnwardNames
  <2>5. kv'[j] = kv[j]
    <3>1. \E k : kv' = [kv EXCEPT ![tick.job] = k]
      BY <1>5 DEF DropRequeue, DropRequeueFails, RetryRequeue
    <3>. QED BY <2>1, <3>1, KeyNames
  <2>6. \A r \in Runs : runs'[r].job = runs[r].job
    BY <1>1, <1>5, CancelRunNames
    DEF DropRequeue, DropRequeueFails, RetryRequeue, RequeueFails
  <2>7. ~\E e \in queue' : e.job = j
    BY <1>5, <2>1, PushNames DEF DropRequeue, DropRequeueFails, RetryRequeue, Named
  <2>8. UNCHANGED <<poller, canceller>>
    BY <1>5 DEF DropRequeue, DropRequeueFails
  <2>. QED BY <2>4, <2>5, <2>6, <2>7, <2>8 DEF Named
<1>. QED BY <1>2, <1>3, <1>4, <1>5

\* A call that fails names no job.
LEMMA FailsNames ==
  ASSUME TypeInv, NEW j \in Jobs, ~Named(j), TickFails
  PROVE  ~Named(j)'
<1>1. /\ tick \in TickLocals /\ ~TickNames(tick, j)
      /\ runs \in [Runs -> Run]
  BY DEF TypeInv, TypeOK, Named
<1>2. ~TickNames(tick', j)
  <2>1. CASE tick' = IdleTick
    BY <2>1 DEF IdleTick, TickNames
  <2>2. ASSUME NEW S \in SUBSET tick.lost, tick' = Resume([tick EXCEPT !.lost = S])
        PROVE  ~TickNames(tick', j)
    <3>. DEFINE t == [tick EXCEPT !.lost = S]
    <3>1. t \in TickLocals /\ ~TickNames(t, j)
      BY <1>1, ZenonT(30) DEF TickNames, TickLocals
    <3>. HIDE DEF t
    <3>. QED BY <2>2, <3>1, ResumeNames DEF t
  <2>. QED BY <2>1, <2>2, FailsGo
<1>3. \A r \in Runs : runs'[r].job = runs[r].job
  BY <1>1, FailsRuns, CancelRunNames
<1>4. kv'[j] = kv[j]
  <2>1. CASE TickThrows
    BY <2>1 DEF TickThrows, valkey
  <2>2. ASSUME NEW l \in Jobs, InterruptFails(l) \/ LostFails(l)
        PROVE  kv'[j] = kv[j]
    <3>1. l # j
      BY <1>1, <2>2 DEF InterruptFails, LostFails, TickNames
    <3>2. kv' = kv \/ \E k : kv' = [kv EXCEPT ![l] = k]
      BY <2>2 DEF InterruptFails, LostFails
    <3>. QED BY <3>1, <3>2, KeyNames
  <2>. QED BY <2>1, <2>2 DEF TickFails
<1>. QED BY <1>2, <1>3, <1>4, FailsQuietly DEF Named

\* Scaling names no job, and dispatch only those it takes from the queue.
LEMMA LoopStepNames ==
  ASSUME TypeInv, NEW j \in Jobs, ~Named(j),
         \/ \E i \in Instances : \/ ScaleUp(i) \/ ScaleDownKeep(i)
                                 \/ ScaleDownProbe(i)
         \/ NoScaleUp \/ ScaleUpStart \/ SpawnFails
         \/ ScaleDownDrain \/ ScaleDownRelease \/ ScaleDownDestroy
         \/ \E i \in Instances : DispatchNone(i)
         \/ DispatchRefused \/ DispatchUnclaim \/ DispatchCount
         \/ DispatchGiveBack
  PROVE  ~Named(j)'
<1>1. /\ tick \in TickLocals /\ ~TickNames(tick, j) /\ kv[j].inst = None
      /\ runs \in [Runs -> Run] /\ None \notin Instances
  BY ConstantsAssumption DEF TypeInv, TypeOK, Named
<1>2. CASE \/ \E i \in Instances : ScaleUp(i)
           \/ NoScaleUp \/ SpawnFails
           \/ ScaleDownDrain \/ ScaleDownRelease \/ ScaleDownDestroy
  <2>1. \/ \E p : tick' = EnterScaleDown(p)
        \/ \E i, p : tick' = Kept(i, p)
    BY <1>2 DEF ScaleUp, NoScaleUp, SpawnFails, ScaleDownDrain,
                ScaleDownRelease, ScaleDownDestroy
  <2>2. ~TickNames(tick', j)
    BY <1>1, <2>1, LoopNames
  <2>3. \A r \in Runs : runs'[r].job = runs[r].job
    <3>1. runs' = runs \/ \E i : runs' = Destroyed(i)
      BY <1>2
      DEF ScaleUp, NoScaleUp, SpawnFails, ScaleDownDrain, ScaleDownRelease,
          ScaleDownDestroy, encore
    <3>. QED BY <1>1, <3>1 DEF Destroyed, Run
  <2>4. UNCHANGED <<queue, kv, poller, canceller>>
    BY <1>2
    DEF ScaleUp, NoScaleUp, SpawnFails, ScaleDownDrain, ScaleDownRelease,
        ScaleDownDestroy, valkey
  <2>. QED BY <2>2, <2>3, <2>4 DEF Named
<1>3. CASE \/ ScaleUpStart \/ DispatchRefused \/ DispatchUnclaim
  <2>1. ~TickNames(tick', j)
    <3>1. CASE ScaleUpStart
      BY <3>1 DEF ScaleUpStart, IdleTick, TickNames
    <3>2. CASE DispatchRefused
      BY <1>1, <3>2 DEF DispatchRefused, TickNames, TickLocals
    <3>3. CASE DispatchUnclaim
      BY <1>1, <3>3 DEF DispatchUnclaim, TickNames, TickLocals
    <3>. QED BY <1>3, <3>1, <3>2, <3>3
  <2>. QED BY <1>3, <2>1
         DEF ScaleUpStart, DispatchRefused, DispatchUnclaim, Named, valkey, encore
<1>4. ASSUME NEW i \in Instances, ScaleDownKeep(i) \/ DispatchNone(i)
      PROVE  ~Named(j)'
  <2>1. PICK t : t = [tick EXCEPT !.todo = @ \ {i}] /\ tick' = Onward(t)
    BY <1>4 DEF ScaleDownKeep, DispatchNone
  <2>2. ~TickNames(t, j)
    BY <1>1, <2>1 DEF TickNames, TickLocals
  <2>3. ~TickNames(tick', j)
    BY <2>1, <2>2, OnwardNames
  <2>. QED BY <1>4, <2>3 DEF ScaleDownKeep, DispatchNone, Named, valkey, encore
<1>5. ASSUME NEW i \in Instances, ScaleDownProbe(i) PROVE ~Named(j)'
  <2>1. PICK t : /\ t = [tick EXCEPT !.todo = @ \ {i}, !.cur = i,
                                     !.real[i] = ProbeOf(i), !.back = "act",
                                     !.lost = LostWith(i, ProbeOf(i).jobs)]
                 /\ tick' = Resume(t)
    BY <1>5 DEF ScaleDownProbe
  <2>2. t \in TickLocals /\ ~TickNames(t, j)
    <3>1. LostWith(i, ProbeOf(i).jobs) \subseteq Jobs \ {j}
      BY <1>1 DEF LostWith
    <3>2. ProbeOf(i) \in Probe
      BY ProbeType DEF TypeInv, TypeOK
    <3>. QED BY <1>1, <2>1, <3>1, <3>2, ZenonT(30) DEF TickNames, TickLocals, InstOrNone
  <2>3. ~TickNames(tick', j)
    BY <2>1, <2>2, ResumeNames
  <2>. QED BY <1>5, <2>3 DEF ScaleDownProbe, Named, valkey, encore
<1>6. CASE DispatchCount \/ DispatchGiveBack
  <2>1. PICK t : /\ \/ \E p : t = [tick EXCEPT !.pc = "dispatch", !.cur = None,
                                     !.snap[tick.cur] = p, !.claim = {}, !.run = 0]
                    \/ t = [tick EXCEPT !.pc = "dispatch", !.cur = None,
                                        !.claim = {}]
                 /\ tick' = Onward(t)
    BY <1>6 DEF DispatchCount, DispatchGiveBack
  <2>2. ~TickNames(t, j)
    BY <1>1, <2>1, ZenonT(30) DEF TickNames, TickLocals
  <2>3. ~TickNames(tick', j)
    BY <2>1, <2>2, OnwardNames
  <2>4. ~\E e \in queue' : e.job = j
    BY <1>1, <1>6 DEF DispatchCount, DispatchGiveBack, TickNames, Named
  <2>5. UNCHANGED <<kv, runs, poller, canceller>>
    BY <1>6 DEF DispatchCount, DispatchGiveBack, encore
  <2>. QED BY <2>3, <2>4, <2>5 DEF Named
<1>. QED BY <1>2, <1>3, <1>4, <1>5, <1>6

\* A job is started and mapped from the queue.
LEMMA DispatchNames ==
  ASSUME TypeInv, NEW j \in Jobs, ~Named(j),
         \/ \E i \in Instances : DispatchClaim(i)
         \/ DispatchPost \/ DispatchRecord \/ DispatchRecordFails
  PROVE  ~Named(j)'
<1>1. /\ tick \in TickLocals /\ ~TickNames(tick, j)
      /\ runs \in [Runs -> Run]
  BY DEF TypeInv, TypeOK, Named
<1>2. ASSUME NEW i \in Instances, DispatchClaim(i) PROVE ~Named(j)'
  <2>1. PICK e \in queue :
          tick' = [tick EXCEPT !.pc = IF e.due THEN "post" ELSE "refused",
                               !.cur = i, !.claim = {e}, !.todo = @ \ {i}]
    BY <1>2 DEF DispatchClaim
  <2>2. e.job # j
    BY DEF Named
  <2>3. ~TickNames(tick', j)
    BY <1>1, <2>1, <2>2 DEF TickNames, TickLocals
  <2>. QED BY <1>2, <2>3 DEF DispatchClaim, Named, encore
<1>3. CASE DispatchPost
  <2>1. PICK e \in tick.claim : StartRun(e.job, tick.cur)
    BY <1>3 DEF DispatchPost
  <2>2. e.job # j
    BY <1>1 DEF TickNames
  <2>3. ~TickNames(tick', j) /\ \A r \in Runs : runs'[r].job = runs[r].job
                                                \/ runs'[r].job # j
    BY <1>1, <2>1, <2>2 DEF StartRun, TickNames, TickLocals, Run
  <2>. QED BY <1>3, <2>3 DEF DispatchPost, Named, valkey
<1>4. CASE DispatchRecord \/ DispatchRecordFails
  <2>1. \E e \in tick.claim : \E k : kv' = kv \/ kv' = [kv EXCEPT ![e.job] = k]
    BY <1>4 DEF DispatchRecord, DispatchRecordFails
  <2>2. kv'[j] = kv[j]
    BY <1>1, <2>1, KeyNames DEF TickNames
  <2>3. ~TickNames(tick', j)
    <3>1. \/ tick' = [tick EXCEPT !.pc = "dispatched"]
          \/ tick' = [tick EXCEPT !.pc = "refused", !.run = 0]
      BY <1>4 DEF DispatchRecord, DispatchRecordFails
    <3>. QED BY <1>1, <3>1, ZenonT(30) DEF TickNames, TickLocals
  <2>4. \A r \in Runs : runs'[r].job = runs[r].job
    BY <1>1, <1>4 DEF DispatchRecord, DispatchRecordFails, Run, encore
  <2>5. UNCHANGED <<queue, poller, canceller>>
    BY <1>4 DEF DispatchRecord, DispatchRecordFails
  <2>. QED BY <2>2, <2>3, <2>4, <2>5 DEF Named
<1>. QED BY <1>2, <1>3, <1>4

\* completeTranscode turns no record into a queued one.
LEMMA CompleteAdvances ==
  ASSUME TypeInv, NEW j \in Jobs, NEW term, NEW k, Complete(j, term, k)
  PROVE  RecordsAdvance
<1>1. record \in [Jobs -> JobRecord] /\ record[j] \in JobRecord
  BY DEF TypeInv, TypeOK
<1>2. \E v : /\ record' = record \/ record' = [record EXCEPT ![j] = v]
             /\ v.st \in {"failed", "running", record[j].st}
  <2>1. [record[j] EXCEPT !.st = "running"].st = "running"
    BY <1>1 DEF JobRecord
  <2>. QED BY <2>1 DEF Complete
<1>. QED BY <1>1, <1>2 DEF RecordsAdvance

\* A record is queued once, by its submit.
LEMMA NextAdvances ==
  ASSUME TypeInv, [Next]_vars
  PROVE  RecordsAdvance
<1>1. record \in [Jobs -> JobRecord]
  BY DEF TypeInv, TypeOK
<1>2. CASE UNCHANGED record
  BY <1>2 DEF RecordsAdvance
<1>4. CASE \E j, drop : SettleFailed(j, drop)
  BY <1>1, <1>4 DEF SettleFailed, RecordsAdvance
<1>5. ASSUME NEW j \in Jobs, NEW x, NEW k, Complete(j, x, k)
      PROVE  RecordsAdvance
  BY <1>5, CompleteAdvances
<1>6. CASE TickStep
  <2>1. CASE DispatchRecord
    <3>1. PICK e \in tick.claim : \/ record' = [record EXCEPT ![e.job].st = "running"]
                                  \/ record' = record
      BY <2>1 DEF DispatchRecord
    <3>. QED BY <1>1, <3>1 DEF RecordsAdvance, JobRecord
  <2>. QED BY <1>2, <1>4, <1>6, <2>1
    DEF TickStep, TickStart, ReconcileEnd, EvictVanished, ReconcileInstance,
        InterruptRequeue, InterruptLost, InterruptFails, LostFails, SweepFailed,
        SettleDrop, DropRequeue, DropRequeueFails, ScaleUp, ScaleDownKeep,
        ScaleDownProbe, NoScaleUp, ScaleUpStart, SpawnFails, ScaleDownDrain,
        ScaleDownRelease, ScaleDownDestroy, DispatchNone, DispatchClaim,
        DispatchPost, DispatchRefused, TickThrows, DispatchRecordFails,
        DispatchUnclaim, DispatchCount, DispatchGiveBack
<1>7. CASE PollerStep
  <2>1. CASE PollSuccess \/ PollFailure \/ PollRequeueFails
    <3>1. poller.job \in Jobs
      BY <2>1 DEF PollSuccess, PollFailure, PollRequeueFails, TypeInv, PollerNamed
    <3>. QED BY <1>5, <2>1, <3>1 DEF PollSuccess, PollFailure, PollRequeueFails
  <2>2. CASE PollWrite
    BY <1>1, <2>2 DEF PollWrite, RecordsAdvance
  <2>. QED BY <1>2, <1>7, <2>1, <2>2
    DEF PollerStep, PollFetch, PollUnreachable, PollRetry, PollRequeue, PollCount
<1>8. CASE SweepStep
  BY <1>2, <1>4, <1>8 DEF SweepStep, SweepTerminalJob, StallDetected
<1>9. CASE ApiStep
  <2>1. CASE CancelSave \/ CancelFail
    BY <1>1, <2>1 DEF CancelSave, CancelFail, RecordsAdvance, JobRecord
  <2>2. ASSUME NEW j \in Jobs, Submit(j) \/ SubmitRejected(j) \/ SubmitTimesOut(j)
        PROVE  RecordsAdvance
    BY <1>1, <2>2 DEF Submit, SubmitRejected, SubmitTimesOut, RecordsAdvance, JobRecord
  <2>. QED BY <1>2, <1>9, <2>1, <2>2
           DEF ApiStep, CancelJob, CancelStart, CancelUndrained, CancelMark,
               CancelThrows
<1>10. CASE Environment
  BY <1>2, <1>10
  DEF Environment, RunEnds, EncoreCallback, InstanceVanishes, IdleTimeElapses,
      BackoffElapses, GraceElapses, GateExpires, PinReleased, Crash
<1>11. CASE UNCHANGED vars
  BY <1>2, <1>11 DEF vars
<1>. QED BY <1>6, <1>7, <1>8, <1>9, <1>10, <1>11 DEF Next

\* What a handler keeps of its message: the job, and the write that is due only
\* after a success.
HandlerGoes ==
  poller'.pc # "idle" =>
    /\ poller'.job = poller.job
    /\ poller'.pc \in {"requeue", "write", "count"}
    /\ poller'.pc = "requeue" => ~poller.success /\ poller'.success = poller.success

\* decrementActiveJobs' read, wherever the handler was.
LEMMA SlotGoes ==
  ASSUME NEW p \in PollerLocals, NEW i
  PROVE  SlotRead(p, i).pc = "count" /\ SlotRead(p, i).job = p.job
BY DEF SlotRead, PollerLocals

\* completeTranscode goes on with the same job.
LEMMA CompleteGoes ==
  ASSUME TypeInv, NEW j, NEW term, NEW k, Complete(j, term, k)
  PROVE  HandlerGoes
<1>1. poller \in PollerLocals /\ IdlePoller.pc = "idle"
  BY IdlePollerType DEF TypeInv, TypeOK
<1>2. PICK write : /\ write = [poller EXCEPT !.pc = "write", !.term = term]
                   /\ \/ poller' = IdlePoller \/ poller' = write
                      \/ poller' = SlotRead(Settled, k.inst)
  BY Zenon DEF Complete, PollThrow
<1>3. write.pc = "write" /\ write.job = poller.job
  BY <1>1, <1>2 DEF PollerLocals
<1>4. /\ SlotRead(Settled, k.inst).pc = "count"
      /\ SlotRead(Settled, k.inst).job = poller.job
  BY SettledType, SlotGoes
<1>. QED BY <1>1, <1>2, <1>3, <1>4 DEF HandlerGoes

\* A step of handleMessageInStack after the fetch.
HandlerStep == \/ PollSuccess \/ PollFailure \/ PollRetry \/ PollRequeue
               \/ PollRequeueFails \/ PollWrite \/ PollCount

\* Every step of the handler goes on with the same job, or is done with it.
LEMMA HandlerGoesOn ==
  ASSUME TypeInv, HandlerStep
  PROVE  poller.pc # "idle" /\ poller.job \in Jobs /\ HandlerGoes
<1>1. poller \in PollerLocals /\ IdlePoller.pc = "idle"
  BY IdlePollerType DEF TypeInv, TypeOK
<1>2. poller.pc # "idle"
  BY DEF HandlerStep, PollSuccess, PollFailure, PollRetry, PollRequeue, PollRequeueFails,
         PollWrite, PollCount
<1>. SUFFICES HandlerGoes
  BY <1>2 DEF TypeInv, PollerNamed
<1>3. CASE PollSuccess \/ PollFailure \/ PollRequeueFails
  BY <1>3, CompleteGoes DEF PollSuccess, PollFailure, PollRequeueFails
<1>4. CASE PollRetry
  BY <1>1, <1>4 DEF PollRetry, HandlerGoes, PollerLocals
<1>5. CASE PollRequeue
  BY <1>1, <1>5, SlotGoes DEF PollRequeue, HandlerGoes
<1>6. CASE PollWrite
  <2>1. poller' = IdlePoller \/ \E i : poller' = SlotRead(Settled, i)
    BY <1>6 DEF PollWrite, PollThrow
  <2>. QED BY <1>1, <2>1, SettledType, SlotGoes DEF HandlerGoes
<1>7. CASE PollCount
  BY <1>1, <1>7 DEF PollCount, HandlerGoes
<1>. QED BY <1>2, <1>3, <1>4, <1>5, <1>6, <1>7 DEF HandlerStep

\* The poller names the job of a message, then no other.
LEMMA PollerNames ==
  ASSUME TypeInv, NEW j \in Jobs, ~Named(j), PollerStep
  PROVE  ~Named(j)'
<1>1. /\ runs \in [Runs -> Run] /\ kv \in [Jobs -> JobKeys] /\ msgs \subseteq Runs
  BY DEF TypeInv, TypeOK
<1>2. CASE \E r \in Runs : PollFetch(r) \/ PollUnreachable(r)
  <2>1. poller'.pc # "idle" => \E r \in Runs : poller'.job = runs[r].job
    <3>1. PICK r \in Runs : PollFetch(r) \/ PollUnreachable(r)
      BY <1>2
    <3>2. \A s, t : Fetched(r, s, t).job = runs[r].job
      BY DEF Fetched, IdlePoller
    <3>3. poller' = IdlePoller \/ \E s, t : poller' = Fetched(r, s, t)
      BY <3>1 DEF PollFetch, PollUnreachable
    <3>. QED BY <3>2, <3>3, IdlePollerType
  <2>. QED BY <1>2, <2>1 DEF PollFetch, PollUnreachable, Named, valkey
<1>3. CASE HandlerStep
  <2>1. /\ poller.job # j /\ poller.job \in Jobs
        /\ poller'.pc # "idle" => poller'.job # j
    BY <1>3, HandlerGoesOn DEF HandlerGoes, Named
  <2>2. kv' = kv \/ \E k : kv' = [kv EXCEPT ![poller.job] = k]
    BY <1>3 DEF HandlerStep, PollSuccess, PollFailure, PollRetry, PollRequeue,
                PollRequeueFails, PollWrite, PollCount, RetryRequeue, valkey
  <2>3. kv'[j] = kv[j]
    BY <2>1, <2>2, KeyNames
  <2>4. runs' = runs \/ \E u : CancelRun(u)
    BY <1>3 DEF HandlerStep, PollSuccess, PollFailure, PollRetry, PollRequeue,
                PollRequeueFails, PollWrite, PollCount, RetryRequeue,
                RequeueFails, encore
  <2>5. \A r \in Runs : runs'[r].job = runs[r].job
    BY <1>1, <2>4, CancelRunNames
  <2>6. queue' = queue \/ Push(poller.job, poller.n, FALSE)
    BY <1>3 DEF HandlerStep, PollSuccess, PollFailure, PollRetry, PollRequeue,
                PollRequeueFails, PollWrite, PollCount, RetryRequeue, valkey
  <2>7. ~\E e \in queue' : e.job = j
    BY <2>1, <2>6, PushNames DEF Named
  <2>8. UNCHANGED <<tick, canceller>>
    BY <1>3 DEF HandlerStep, PollSuccess, PollFailure, PollRetry, PollRequeue,
                PollRequeueFails, PollWrite, PollCount
  <2>. QED BY <2>1, <2>3, <2>5, <2>7, <2>8 DEF Named
<1>. QED BY <1>2, <1>3 DEF PollerStep, HandlerStep

\* The sweep timer and the requests name jobs that were submitted.
LEMMA RequestNames ==
  ASSUME TypeInv, NEW j \in Jobs, ~Named(j), record[j].st = "none",
         SweepStep \/ ApiStep
  PROVE  ~Named(j)' \/ record'[j].st # "none"
<1>1. /\ runs \in [Runs -> Run] /\ kv \in [Jobs -> JobKeys]
      /\ record \in [Jobs -> JobRecord]
  BY DEF TypeInv, TypeOK
<1>2. ASSUME NEW r \in Runs, SweepTerminalJob(r) PROVE ~Named(j)'
  BY <1>2 DEF SweepTerminalJob, Named, valkey
<1>3. ASSUME NEW r \in Runs, StallDetected(r) PROVE ~Named(j)'
  <2>1. runs[r].job # j
    BY DEF Named
  <2>2. kv' = kv \/ \E k : kv' = [kv EXCEPT ![runs[r].job] = k]
    BY <1>3 DEF StallDetected, RetryRequeue
  <2>3. kv'[j] = kv[j]
    BY <2>1, <2>2, KeyNames
  <2>4. runs' = runs \/ \E u : CancelRun(u)
    BY <1>3 DEF StallDetected, RetryRequeue
  <2>5. \A q \in Runs : runs'[q].job = runs[q].job
    BY <1>1, <2>4, CancelRunNames
  <2>6. queue' = queue \/ \E n : Push(runs[r].job, n, FALSE)
    BY <1>3 DEF StallDetected, RetryRequeue
  <2>7. ~\E e \in queue' : e.job = j
    BY <2>1, <2>6, PushNames DEF Named
  <2>. QED BY <1>3, <2>3, <2>5, <2>7 DEF StallDetected, Named
<1>4. ASSUME NEW l \in Jobs, Submit(l) \/ SubmitRejected(l) \/ SubmitTimesOut(l)
      PROVE  ~Named(j)' \/ record'[j].st # "none"
  <2>1. CASE l = j
    <3>1. \/ record' = [record EXCEPT ![j].st = "queued"]
          \/ record' = [record EXCEPT ![j].st = "failed"]
      BY <1>4, <2>1 DEF Submit, SubmitRejected, SubmitTimesOut
    <3>. QED BY <1>1, <3>1 DEF JobRecord
  <2>2. CASE l # j
    <3>1. kv' = kv \/ \E k : kv' = [kv EXCEPT ![l] = k]
      BY <1>4 DEF Submit, SubmitRejected, SubmitTimesOut, valkey
    <3>2. kv'[j] = kv[j]
      BY <2>2, <3>1, KeyNames
    <3>3. queue' = queue \/ Push(l, 0, TRUE)
      BY <1>4 DEF Submit, SubmitRejected, SubmitTimesOut, valkey
    <3>4. ~\E e \in queue' : e.job = j
      BY <2>2, <3>3, PushNames DEF Named
    <3>5. UNCHANGED <<runs, tick, poller, canceller>>
      BY <1>4 DEF Submit, SubmitRejected, SubmitTimesOut, encore
    <3>. QED BY <3>2, <3>4, <3>5 DEF Named
  <2>. QED BY <2>1, <2>2
<1>5. ASSUME NEW l \in Jobs, CancelJob(l) \/ CancelStart(l) \/ CancelUndrained(l)
      PROVE  ~Named(j)'
  <2>1. l # j
    BY <1>5 DEF CancelJob, CancelStart, CancelUndrained
  <2>2. \A r \in Runs : runs'[r].job = runs[r].job
    BY <1>1, <1>5, CancelRunNames DEF CancelJob, CancelStart, CancelUndrained, encore
  <2>. QED BY <1>5, <2>1, <2>2
           DEF CancelJob, CancelStart, CancelUndrained, Named, valkey
<1>6. CASE CancelMark
  <2>1. canceller.pc = "mark" /\ canceller.job # j
    BY <1>6 DEF CancelMark, Named
  <2>2. canceller'.job = canceller.job /\ kv'[j] = kv[j]
    BY <1>1, <1>6, <2>1 DEF CancelMark, CancelKeys, TypeInv, TypeOK, CancellerLocals
  <2>. QED BY <1>6, <2>1, <2>2 DEF CancelMark, Named, encore
<1>7. CASE CancelSave \/ CancelFail
  BY <1>7 DEF CancelSave, CancelFail, IdleCanceller, Named, valkey, encore
<1>8. CASE CancelThrows
  <2>1. canceller'.job = canceller.job /\ canceller.pc = "mark"
    BY <1>8 DEF CancelThrows, TypeInv, TypeOK, CancellerLocals
  <2>. QED BY <1>8, <2>1 DEF CancelThrows, Named, valkey, encore
<1>. QED BY <1>2, <1>3, <1>4, <1>5, <1>6, <1>7, <1>8 DEF SweepStep, ApiStep

\* A back-off that runs out changes no entry's job, and no other local.
LEMMA BackoffRenames ==
  ASSUME TypeInv, NEW e \in Entry, BackoffElapses(e)
  PROVE  /\ \A x \in queue' : \E f \in queue : f.job = x.job
         /\ \A f \in queue : \E x \in queue' : f.job = x.job
         /\ \A x \in tick'.claim : \E f \in tick.claim : f.job = x.job
         /\ \A f \in tick.claim : \E x \in tick'.claim : f.job = x.job
         /\ tick' = [tick EXCEPT !.claim = tick'.claim]
         /\ tick'.pc = tick.pc /\ tick'.back = tick.back /\ tick'.lost = tick.lost
         /\ tick'.cur = tick.cur /\ tick'.real = tick.real /\ tick'.snap = tick.snap
         /\ tick'.todo = tick.todo /\ tick'.drops = tick.drops /\ tick'.job = tick.job
<1>. DEFINE el(f) == IF f = e THEN [e EXCEPT !.due = TRUE] ELSE f
<1>1. /\ queue' = {el(f) : f \in queue}
      /\ tick' = [tick EXCEPT !.claim = {el(f) : f \in tick.claim}]
  BY DEF BackoffElapses
<1>2. \A f : el(f).job = f.job
  BY DEF Entry
<1>3. /\ tick'.claim = {el(f) : f \in tick.claim}
      /\ tick' = [tick EXCEPT !.claim = tick'.claim]
  BY <1>1 DEF TypeInv, TypeOK, TickLocals
<1>. HIDE DEF el
<1>. QED BY <1>1, <1>2, <1>3 DEF TypeInv, TypeOK, TickLocals

\* The world around the process names no job, nor does a restart.
LEMMA EnvironmentNames ==
  ASSUME TypeInv, NEW j \in Jobs, ~Named(j), Environment
  PROVE  ~Named(j)'
<1>1. /\ runs \in [Runs -> Run] /\ kv \in [Jobs -> JobKeys] /\ tick \in TickLocals
      /\ queue \subseteq Entry /\ tick.claim \subseteq Entry
  BY DEF TypeInv, TypeOK, TickLocals
<1>2. CASE \/ \E r \in Runs : RunEnds(r) \/ EncoreCallback(r)
           \/ \E i \in Instances : InstanceVanishes(i)
  <2>1. \A r \in Runs : runs'[r].job = runs[r].job
    <3>1. CASE \E r \in Runs : RunEnds(r) \/ EncoreCallback(r)
      BY <1>1, <3>1 DEF RunEnds, EncoreCallback, Run
    <3>2. CASE \E i \in Instances : InstanceVanishes(i)
      BY <1>1, <3>2, ZenonT(30) DEF InstanceVanishes, Destroyed, Run
    <3>. QED BY <1>2, <3>1, <3>2
  <2>. QED BY <1>2, <2>1 DEF RunEnds, EncoreCallback, InstanceVanishes, Named, valkey
<1>3. CASE \E i \in Instances : IdleTimeElapses(i)
  BY <1>3 DEF IdleTimeElapses, Named, encore
<1>4. CASE \E l \in Jobs : GraceElapses(l) \/ GateExpires(l) \/ PinReleased(l)
  <2>1. kv'[j].inst = kv[j].inst /\ kv'[j].cancelReq = kv[j].cancelReq
    BY <1>1, <1>4 DEF GraceElapses, GateExpires, PinReleased, Named, JobKeys
  <2>. QED BY <1>4, <2>1 DEF GraceElapses, GateExpires, PinReleased, Named, encore
<1>5. ASSUME NEW e \in queue \cup tick.claim, BackoffElapses(e) PROVE ~Named(j)'
  <2>1. /\ ~\E f \in queue' : f.job = j
        /\ ~TickNames(tick', j)
    BY <1>1, <1>5, BackoffRenames DEF Named, TickNames
  <2>. QED BY <1>5, <2>1 DEF BackoffElapses, Named, encore
<1>6. CASE Crash
  BY <1>6 DEF Crash, IdleTick, IdlePoller, IdleCanceller, Named, TickNames, valkey
<1>. QED BY <1>2, <1>3, <1>4, <1>5, <1>6 DEF Environment

\* A job that was never submitted has left no trace.
LEMMA NamesInvariance == Spec => []UnsubmittedUnnamed
<1>1. Init => UnsubmittedUnnamed
  BY ConstantsAssumption
  DEF Init, IdleTick, IdlePoller, IdleCanceller, NoKeys, FreeRun,
         UnsubmittedUnnamed, Named, TickNames
<1>2. TypeInv /\ UnsubmittedUnnamed /\ [Next]_vars => UnsubmittedUnnamed'
  <2>. SUFFICES ASSUME TypeInv, UnsubmittedUnnamed, [Next]_vars,
                       NEW j \in Jobs, record'[j].st = "none"
                PROVE  ~Named(j)'
    BY DEF UnsubmittedUnnamed
  <2>1. record[j].st = "none" /\ ~Named(j)
    BY NextAdvances DEF RecordsAdvance, UnsubmittedUnnamed
  <2>2. CASE TickStep
    BY <2>1, <2>2, ReconcileNames, SettleNames, LoopStepNames, DispatchNames,
       FailsNames
    DEF TickStep, TickFails
  <2>3. CASE PollerStep \/ SweepStep \/ ApiStep \/ Environment
    BY <2>1, <2>3, PollerNames, RequestNames, EnvironmentNames
  <2>4. CASE UNCHANGED vars
    BY <2>1, <2>4 DEF vars, Named
  <2>. QED BY <2>2, <2>3, <2>4 DEF Next
<1>. QED BY <1>1, <1>2, TypeInvariance, PTL DEF Spec

-----------------------------------------------------------------------------
(* The tick's copy of the pool. *)

\* Outcomes of the POST that the tick has yet to record.
Posting == {"post", "record", "dispatched", "count"}

\* What the tick t remembers of the pool p: the records of its snapshot that are
\* in the pool still are, so are those of the instances it will look at, tear
\* down or dispatch to, and it claims one job at a time.
Remembers(t, p) ==
  /\ \A i \in Instances : t.snap[i].in => p[i].in
  /\ \A i \in t.todo : t.snap[i].in
  /\ Acting(t) => t.cur \notin t.todo
  /\ Acting(t) \/ t.pc \in Posting => t.cur \in Instances /\ t.snap[t.cur].in
  /\ Reconciling(t) => \A i \in Instances : t.real[i].ok => t.snap[i].in
  /\ \A e, f \in t.claim : e.job = f.job

\* The record in the poller's hand was in the pool.
PoolListed == /\ Remembers(tick, pool)
              /\ poller.inst # None => poller.rec.in

\* No record leaves the pool.
PoolKept == \A i \in Instances : pool[i].in => pool'[i].in

\* A tick between two phases remembers nothing, and so little goes wrong when
\* it leaves a phase.
LEMMA OnwardRemembers ==
  ASSUME NEW t, NEW p, Remembers(t, p)
  PROVE  Remembers(Onward(t), p)
<1>1. PICK d, drops :
        /\ d = [IdleTick EXCEPT !.pc = "dispatch", !.snap = t.snap,
                                !.todo = Dispatchable(t.snap)]
        /\ \/ Onward(t) = t \/ Onward(t) = d \/ Onward(t) = IdleTick
           \/ Onward(t) = [IdleTick EXCEPT !.pc = "sweep", !.drops = drops]
           \/ Onward(t) = [IdleTick EXCEPT !.pc = "drops", !.drops = drops]
           \/ Onward(t) = [IdleTick EXCEPT !.pc = "sweep"]
  BY DEF Onward
<1>2. Remembers(d, p)
  <2>1. /\ d.pc = "dispatch" /\ d.snap = t.snap /\ d.claim = {}
        /\ d.todo = Dispatchable(t.snap)
    BY <1>1 DEF IdleTick
  <2>. QED BY <2>1 DEF Remembers, Acting, Reconciling, Posting, Dispatchable, InPool
<1>3. \A x, q : q \in {"idle", "sweep", "drops"} =>
         Remembers([IdleTick EXCEPT !.pc = q, !.drops = x], p)
  BY DEF Remembers, Acting, Reconciling, Posting, IdleTick, Gone
<1>4. Remembers(IdleTick, p) /\ Remembers([IdleTick EXCEPT !.pc = "sweep"], p)
  BY DEF Remembers, Acting, Reconciling, Posting, IdleTick, Gone
<1>. QED BY <1>1, <1>2, <1>3, <1>4

\* Going on after lost jobs.
LEMMA ResumeRemembers ==
  ASSUME NEW t \in TickLocals, NEW p, Remembers([t EXCEPT !.pc = t.back], p)
  PROVE  Remembers(Resume(t), p)
<1>1. PICK u, v : u = [t EXCEPT !.pc = t.back] /\ v = [t EXCEPT !.pc = "interrupt"]
  OBVIOUS
<1>2. u \in TickLocals /\ Remembers(u, p)
  BY <1>1 DEF TickLocals
<1>3. Remembers(v, p)
  <2>1. /\ u.pc = t.back /\ v.pc = "interrupt" /\ v.back = t.back
        /\ u.snap = t.snap /\ v.snap = t.snap /\ u.todo = t.todo /\ v.todo = t.todo
        /\ u.cur = t.cur /\ v.cur = t.cur /\ u.real = t.real /\ v.real = t.real
        /\ u.claim = t.claim /\ v.claim = t.claim /\ t.back \in {"reconcile", "act"}
    BY <1>1 DEF TickLocals
  <2>. QED BY <1>2, <2>1 DEF Remembers, Acting, Reconciling, Posting
<1>. QED BY <1>1, <1>2, <1>3, OnwardRemembers DEF Resume

\* Entering the scale-down loop with records that are in the pool.
LEMMA EnterRemembers ==
  ASSUME NEW q, NEW p, \A i \in Instances : q[i].in => p[i].in
  PROVE  Remembers(EnterScaleDown(q), p)
<1>1. PICK t : /\ t = [IdleTick EXCEPT
                         !.pc = "scaleDown", !.snap = q, !.stuck = StuckCancelledHosts,
                         !.todo = {i \in InPool(q) : \/ IdleAndAged(q[i])
                                                     \/ q[i].draining
                                                     \/ i \in StuckCancelledHosts}]
               /\ EnterScaleDown(q) = Onward(t)
  BY DEF EnterScaleDown
<1>2. /\ t.pc = "scaleDown" /\ t.snap = q /\ t.todo \subseteq InPool(q)
      /\ t.claim = {}
  BY <1>1 DEF IdleTick
<1>3. Remembers(t, p)
  BY <1>2 DEF Remembers, Acting, Reconciling, Posting, InPool
<1>. QED BY <1>1, <1>3, OnwardRemembers

\* Back to the loop with a new record of the instance, or without one.
LEMMA KeptRemembers ==
  ASSUME TypeInv, PoolListed, tick.pc = "act", NEW q \in PoolRecord,
         \/ pool' = [pool EXCEPT ![tick.cur] = q]
         \/ q = tick.snap[tick.cur] /\ pool' = pool
  PROVE  Remembers(Kept(tick.cur, q), pool')
<1>1. /\ tick \in TickLocals /\ tick.cur \in Instances
      /\ pool \in [Instances -> PoolRecord] /\ Acting(tick)
  BY DEF TypeInv, TypeOK, PoolListed, Remembers, Acting
<1>2. PICK t : /\ t = [tick EXCEPT !.pc = "scaleDown", !.cur = None,
                                   !.snap[tick.cur] = q, !.back = "reconcile",
                                   !.real[tick.cur] = NoAnswer]
               /\ Kept(tick.cur, q) = Onward(t)
  BY DEF Kept
<1>3. /\ t.pc = "scaleDown" /\ t.snap = [tick.snap EXCEPT ![tick.cur] = q]
      /\ t.todo = tick.todo /\ t.claim = tick.claim
  BY <1>1, <1>2 DEF TickLocals
<1>5. /\ tick.snap \in [Instances -> PoolRecord] /\ tick.todo \subseteq Instances
  BY <1>1 DEF TickLocals
<1>6. Remembers(t, pool')
  BY <1>1, <1>3, <1>5 DEF PoolListed, Remembers, Acting, Reconciling, Posting
<1>. QED BY <1>2, <1>6, OnwardRemembers

\* A tick t that goes on from here remembers what this one does.
GoesOn(t) ==
  /\ t.snap = tick.snap /\ t.todo \subseteq tick.todo /\ t.real = tick.real
  /\ t.claim \subseteq tick.claim
  /\ Acting(t) => Acting(tick) /\ t.cur = tick.cur
  /\ t.pc \in Posting => tick.pc \in Posting /\ t.cur = tick.cur
  /\ Reconciling(t) => Reconciling(tick)

LEMMA GoingOn ==
  ASSUME PoolListed, PoolKept, NEW t, GoesOn(t)
  PROVE  Remembers(t, pool')
BY DEF PoolListed, PoolKept, GoesOn, Remembers

\* reconcile.
LEMMA ReconcileRemembers ==
  ASSUME TypeInv, PoolListed,
         \/ TickStart \/ ReconcileEnd
         \/ \E i \in Instances : EvictVanished(i) \/ ReconcileInstance(i)
  PROVE  /\ Remembers(tick', pool')
         /\ (\A i \in Instances : ~EvictVanished(i)) => PoolKept
<1>1. /\ tick \in TickLocals /\ tick.snap \in [Instances -> PoolRecord]
      /\ tick.real \in [Instances -> Probe] /\ tick.todo \subseteq Instances
      /\ pool \in [Instances -> PoolRecord] /\ Remembers(tick, pool)
  BY DEF TypeInv, TypeOK, TickLocals, PoolListed
<1>2. CASE TickStart
  <2>1. PICK real, t :
          /\ t = [IdleTick EXCEPT !.pc = "reconcile", !.todo = InPool(pool),
                                  !.snap = pool, !.real = real]
          /\ tick' = Onward(t)
          /\ \A i \in Instances : real[i].ok => pool[i].in
    <3>1. PICK silent \in SUBSET (InPool(pool) \cap alive) :
            tick' = Onward([IdleTick EXCEPT
              !.pc = "reconcile", !.todo = InPool(pool), !.snap = pool,
              !.real = [i \in Instances |->
                          IF i \in (InPool(pool) \cap alive) \ silent
                            THEN ProbeOf(i) ELSE NoAnswer]])
      BY <1>2 DEF TickStart
    <3>2. PICK real : real = [i \in Instances |->
                                IF i \in (InPool(pool) \cap alive) \ silent
                                  THEN ProbeOf(i) ELSE NoAnswer]
      OBVIOUS
    <3>3. \A i \in Instances : real[i].ok => pool[i].in
      BY <3>2 DEF NoAnswer, InPool
    <3>. QED BY <3>1, <3>2, <3>3
  <2>2. /\ t.pc = "reconcile" /\ t.todo = InPool(pool) /\ t.snap = pool
        /\ t.real = real /\ t.claim = {}
    BY <2>1 DEF IdleTick
  <2>3. pool' = pool
    BY <1>2 DEF TickStart, valkey
  <2>4. Remembers(t, pool')
    BY <2>1, <2>2, <2>3 DEF Remembers, Acting, Reconciling, Posting, InPool
  <2>. QED BY <2>1, <2>3, <2>4, OnwardRemembers DEF PoolKept
<1>3. CASE ReconcileEnd
  <2>1. PICK t : t = [tick EXCEPT !.onto = {}] /\ tick' = Onward(t)
    BY <1>3 DEF ReconcileEnd
  <2>2. PoolKept
    BY <1>1, <1>3 DEF ReconcileEnd, PoolKept, PoolRecord
  <2>3. GoesOn(t)
    BY <1>1, <2>1 DEF TickLocals, GoesOn, Acting, Reconciling
  <2>. QED BY <2>1, <2>2, <2>3, GoingOn, OnwardRemembers
<1>4. ASSUME NEW i \in Instances, EvictVanished(i) PROVE Remembers(tick', pool')
  <2>1. PICK t : /\ t = [tick EXCEPT !.todo = @ \ {i}, !.snap[i] = Gone,
                                     !.lost = LostWith(i, {}), !.back = "reconcile"]
                 /\ tick' = Resume(t)
    BY <1>4 DEF EvictVanished
  <2>2. PICK u : u = [t EXCEPT !.pc = t.back]
    OBVIOUS
  <2>3. /\ u.pc = "reconcile" /\ u.todo = tick.todo \ {i} /\ u.real = tick.real
        /\ u.snap = [tick.snap EXCEPT ![i] = Gone] /\ u.claim = tick.claim
    BY <1>1, <2>1, <2>2 DEF TickLocals
  <2>4. t \in TickLocals
    <3>1. LostWith(i, {}) \subseteq Jobs
      BY DEF LostWith
    <3>2. Gone \in PoolRecord
      BY DEF Gone, PoolRecord
    <3>. QED BY <1>1, <2>1, <3>1, <3>2 DEF TickLocals
  <2>5. /\ pool' = [pool EXCEPT ![i] = Gone] /\ ~tick.real[i].ok
        /\ Reconciling(tick)
    BY <1>4 DEF EvictVanished, Reconciling
  <2>6. Remembers(u, pool')
    BY <1>1, <2>3, <2>5 DEF Remembers, Acting, Reconciling, Posting
  <2>. QED BY <2>1, <2>2, <2>4, <2>6, ResumeRemembers
<1>5. ASSUME NEW i \in Instances, ReconcileInstance(i)
      PROVE  Remembers(tick', pool') /\ PoolKept
  <2>1. PICK p, onto, drops, t :
          /\ t = [tick EXCEPT !.todo = @ \ {i}, !.snap[i] = p,
                              !.onto = onto, !.drops = drops]
          /\ tick' = Onward(t)
          /\ p = tick.snap[i] \/ p = [tick.snap[i] EXCEPT !.active = tick.real[i].count]
          /\ pool' = pool \/ pool' = [pool EXCEPT ![i] =
                                        [tick.snap[i] EXCEPT !.active = tick.real[i].count]]
    BY <1>5 DEF ReconcileInstance
  <2>2. tick.pc = "reconcile" /\ i \in tick.todo /\ Reconciling(tick)
    BY <1>5 DEF ReconcileInstance, Reconciling
  <2>3. /\ tick.snap[i].in
        /\ [tick.snap[i] EXCEPT !.active = tick.real[i].count].in
    BY <1>1, <2>2 DEF Remembers, PoolRecord
  <2>4. PoolKept
    BY <1>1, <2>1, <2>3 DEF PoolKept
  <2>5. /\ t.pc = "reconcile" /\ t.todo = tick.todo \ {i} /\ t.real = tick.real
        /\ t.snap = [tick.snap EXCEPT ![i] = p] /\ t.claim = tick.claim
    BY <1>1, <2>1, <2>2 DEF TickLocals
  <2>6. Remembers(t, pool')
    <3>1. p.in
      BY <2>1, <2>3
    <3>2. \A k \in Instances : t.snap[k].in <=> tick.snap[k].in
      BY <1>1, <2>3, <2>5, <3>1
    <3>3. \A k \in Instances : tick.snap[k].in => pool'[k].in
      BY <1>1, <2>4 DEF PoolKept, Remembers
    <3>. QED BY <1>1, <2>2, <2>5, <3>2, <3>3 DEF Remembers, Acting, Reconciling, Posting
  <2>. QED BY <2>1, <2>4, <2>6, OnwardRemembers
<1>. QED BY <1>2, <1>3, <1>4, <1>5

\* Lost jobs, drops and failures leave the pool its records.
LEMMA SettleRemembers ==
  ASSUME TypeInv, PoolListed,
         \/ \E l \in Jobs : InterruptRequeue(l) \/ InterruptLost(l) \/ SweepFailed(l)
         \/ \E d \in [job : Jobs, retryable : BOOLEAN] : SettleDrop(d)
         \/ DropRequeue \/ DropRequeueFails
  PROVE  Remembers(tick', pool') /\ PoolKept
<1>1. tick \in TickLocals /\ pool \in [Instances -> PoolRecord]
  BY DEF TypeInv, TypeOK
<1>2. ASSUME NEW l \in Jobs, InterruptRequeue(l) \/ InterruptLost(l)
      PROVE  Remembers(tick', pool') /\ PoolKept
  <2>1. PICK t : t = [tick EXCEPT !.lost = @ \ {l}] /\ tick' = Resume(t)
    BY <1>2 DEF InterruptRequeue, InterruptLost
  <2>2. PICK u : u = [t EXCEPT !.pc = t.back]
    OBVIOUS
  <2>3. tick.pc = "interrupt" /\ PoolKept
    BY <1>2 DEF InterruptRequeue, InterruptLost, PoolKept
  <2>4. t \in TickLocals /\ GoesOn(u)
    BY <1>1, <2>1, <2>2, <2>3 DEF TickLocals, GoesOn, Acting, Reconciling, Posting
  <2>. QED BY <2>1, <2>2, <2>3, <2>4, GoingOn, ResumeRemembers
<1>3. ASSUME NEW l \in Jobs, SweepFailed(l) PROVE Remembers(tick', pool') /\ PoolKept
  <2>1. PoolKept /\ tick' = tick
    BY <1>1, <1>3 DEF SweepFailed, PoolKept, CancelDrained, PoolRecord
  <2>. QED BY <2>1, GoingOn DEF GoesOn
<1>4. ASSUME NEW d \in [job : Jobs, retryable : BOOLEAN], SettleDrop(d)
      PROVE  Remembers(tick', pool') /\ PoolKept
  <2>1. PICK t, u : /\ t = [tick EXCEPT !.drops = @ \ {d}]
                    /\ u = [tick EXCEPT !.pc = "requeue", !.job = d.job,
                                        !.n = AttemptsSoFar(d.job),
                                        !.drops = @ \ {d}]
                    /\ tick' = u \/ tick' = Onward(t)
    BY <1>4 DEF SettleDrop
  <2>2. tick.pc = "drops" /\ PoolKept
    BY <1>4 DEF SettleDrop, PoolKept
  <2>3. GoesOn(t) /\ GoesOn(u)
    BY <1>1, <2>1, <2>2 DEF TickLocals, GoesOn, Acting, Reconciling, Posting
  <2>. QED BY <2>1, <2>2, <2>3, GoingOn, OnwardRemembers
<1>5. CASE DropRequeue \/ DropRequeueFails
  <2>1. PICK t : /\ t = [tick EXCEPT !.pc = "drops", !.job = None, !.n = 0]
                 /\ tick' = Onward(t)
    BY <1>5 DEF DropRequeue, DropRequeueFails, DropRequeued
  <2>2. PoolKept
    BY <1>5 DEF DropRequeue, DropRequeueFails, PoolKept
  <2>3. GoesOn(t)
    BY <1>1, <2>1 DEF TickLocals, GoesOn, Acting, Reconciling, Posting
  <2>. QED BY <2>1, <2>2, <2>3, GoingOn, OnwardRemembers
<1>. QED BY <1>2, <1>3, <1>4, <1>5

\* The scale-up and scale-down loops.
LEMMA LoopRemembers ==
  ASSUME TypeInv, PoolListed,
         \/ \E i \in Instances : \/ ScaleUp(i) \/ ScaleDownKeep(i)
                                 \/ ScaleDownProbe(i)
         \/ NoScaleUp \/ ScaleUpStart \/ SpawnFails
         \/ ScaleDownDrain \/ ScaleDownRelease \/ ScaleDownDestroy
  PROVE  /\ Remembers(tick', pool')
         /\ ~ScaleDownDestroy => PoolKept
<1>1. /\ tick \in TickLocals /\ tick.snap \in [Instances -> PoolRecord]
      /\ tick.todo \subseteq Instances
      /\ pool \in [Instances -> PoolRecord] /\ Remembers(tick, pool)
  BY DEF TypeInv, TypeOK, TickLocals, PoolListed
<1>2. ASSUME NEW i \in Instances, ScaleUp(i) PROVE Remembers(tick', pool') /\ PoolKept
  <2>1. PICK q : q = [tick.snap EXCEPT ![i] = Fresh] /\ tick' = EnterScaleDown(q)
    BY <1>2 DEF ScaleUp
  <2>2. pool' = [pool EXCEPT ![i] = Fresh] /\ Fresh.in
    BY <1>2 DEF ScaleUp, Fresh, Gone
  <2>3. \A k \in Instances : q[k].in => pool'[k].in
    BY <1>1, <2>1, <2>2 DEF Remembers
  <2>. QED BY <1>1, <2>1, <2>2, <2>3, EnterRemembers DEF PoolKept
<1>3. CASE NoScaleUp \/ SpawnFails
  <2>1. /\ pool' = pool
        /\ tick' = EnterScaleDown(pool) \/ tick' = EnterScaleDown(tick.snap)
    BY <1>3 DEF NoScaleUp, SpawnFails, valkey
  <2>. QED BY <1>1, <2>1, EnterRemembers DEF Remembers, PoolKept
<1>4. CASE ScaleUpStart
  <2>1. /\ pool' = pool /\ tick'.pc = "spawn" /\ tick'.snap = pool
        /\ tick'.todo = {} /\ tick'.claim = {}
    BY <1>4 DEF ScaleUpStart, valkey, IdleTick
  <2>. QED BY <2>1 DEF Remembers, PoolKept, Acting, Reconciling, Posting
<1>5. ASSUME NEW i \in Instances, ScaleDownKeep(i)
      PROVE  Remembers(tick', pool') /\ PoolKept
  <2>1. PICK t : t = [tick EXCEPT !.todo = @ \ {i}] /\ tick' = Onward(t)
    BY <1>5 DEF ScaleDownKeep
  <2>2. GoesOn(t)
    BY <1>1, <2>1 DEF TickLocals, GoesOn, Acting, Reconciling
  <2>3. PoolKept
    BY <1>5 DEF ScaleDownKeep, valkey, PoolKept
  <2>. QED BY <2>1, <2>2, <2>3, GoingOn, OnwardRemembers
<1>6. ASSUME NEW i \in Instances, ScaleDownProbe(i)
      PROVE  Remembers(tick', pool') /\ PoolKept
  <2>1. PICK t : /\ t = [tick EXCEPT !.todo = @ \ {i}, !.cur = i,
                                     !.real[i] = ProbeOf(i), !.back = "act",
                                     !.lost = LostWith(i, ProbeOf(i).jobs)]
                 /\ tick' = Resume(t)
    BY <1>6 DEF ScaleDownProbe
  <2>2. PICK u : u = [t EXCEPT !.pc = t.back]
    OBVIOUS
  <2>3. t \in TickLocals
    <3>1. LostWith(i, ProbeOf(i).jobs) \subseteq Jobs
      BY DEF LostWith
    <3>2. ProbeOf(i) \in Probe
      BY ProbeType DEF TypeInv, TypeOK
    <3>. QED BY <1>1, <2>1, <3>1, <3>2 DEF TickLocals, InstOrNone
  <2>4. /\ u.pc = "act" /\ u.todo = tick.todo \ {i} /\ u.cur = i
        /\ u.snap = tick.snap /\ u.claim = tick.claim
    BY <1>1, <2>1, <2>2 DEF TickLocals
  <2>5. pool' = pool /\ i \in tick.todo
    BY <1>6 DEF ScaleDownProbe, valkey
  <2>6. Remembers(u, pool')
    BY <1>1, <2>4, <2>5 DEF Remembers, Acting, Reconciling
  <2>. QED BY <2>1, <2>2, <2>3, <2>5, <2>6, ResumeRemembers DEF PoolKept
<1>7. CASE ScaleDownDrain \/ ScaleDownRelease
  <2>1. PICK q : /\ tick' = Kept(tick.cur, q) /\ pool' = [pool EXCEPT ![tick.cur] = q]
                 /\ \/ q = [tick.snap[tick.cur] EXCEPT
                              !.active = tick.real[tick.cur].count, !.draining = TRUE]
                    \/ q = [tick.snap[tick.cur] EXCEPT
                              !.active = 0, !.draining = FALSE, !.cancelDrain = FALSE,
                              !.aged = @ /\ tick.snap[tick.cur].active = 0]
    BY <1>7 DEF ScaleDownDrain, ScaleDownRelease
  <2>2. tick.pc = "act"
    BY <1>7 DEF ScaleDownDrain, ScaleDownRelease
  <2>3. tick.cur \in Instances /\ tick.snap[tick.cur].in
    BY <1>1, <2>2 DEF Remembers, Acting
  <2>4. q \in PoolRecord /\ q.in
    <3>1. /\ tick.real[tick.cur].count \in Nat
          /\ tick.snap[tick.cur] \in PoolRecord
      BY <1>1, <2>3 DEF TickLocals, Probe
    <3>2. PICK b \in BOOLEAN : b = (tick.snap[tick.cur].aged /\ tick.snap[tick.cur].active = 0)
      OBVIOUS
    <3>3. \/ q = [tick.snap[tick.cur] EXCEPT
                    !.active = tick.real[tick.cur].count, !.draining = TRUE]
          \/ q = [tick.snap[tick.cur] EXCEPT !.active = 0, !.draining = FALSE,
                                             !.cancelDrain = FALSE, !.aged = b]
      BY <2>1, <3>1, <3>2 DEF PoolRecord
    <3>4. CASE q = [tick.snap[tick.cur] EXCEPT
                      !.active = tick.real[tick.cur].count, !.draining = TRUE]
      BY <2>3, <3>1, <3>4 DEF PoolRecord
    <3>5. CASE q = [tick.snap[tick.cur] EXCEPT !.active = 0, !.draining = FALSE,
                                               !.cancelDrain = FALSE, !.aged = b]
      BY <2>3, <3>1, <3>2, <3>5 DEF PoolRecord
    <3>. QED BY <3>3, <3>4, <3>5
  <2>. QED BY <1>1, <2>1, <2>2, <2>4, KeptRemembers DEF PoolKept
<1>8. CASE ScaleDownDestroy
  <2>1. /\ tick.pc = "act" /\ tick.snap[tick.cur] \in PoolRecord /\ Gone \in PoolRecord
    <3>1. tick.pc = "act"
      BY <1>8 DEF ScaleDownDestroy
    <3>. QED BY <1>1, <3>1 DEF Remembers, Acting, Gone, PoolRecord
  <2>2. \/ tick' = Kept(tick.cur, Gone) /\ pool' = [pool EXCEPT ![tick.cur] = Gone]
        \/ tick' = Kept(tick.cur, tick.snap[tick.cur]) /\ pool' = pool
    BY <1>8 DEF ScaleDownDestroy
  <2>. QED BY <1>8, <2>1, <2>2, KeptRemembers
<1>. QED BY <1>2, <1>3, <1>4, <1>5, <1>6, <1>7, <1>8

\* A call that fails.
LEMMA FailsRemember ==
  ASSUME TypeInv, PoolListed, TickFails
  PROVE  Remembers(tick', pool') /\ PoolKept
<1>1. tick \in TickLocals /\ PoolKept
  BY FailsQuietly DEF TypeInv, TypeOK, PoolKept
<1>2. CASE tick' = IdleTick
  BY <1>1, <1>2 DEF Remembers, Acting, Reconciling, Posting, IdleTick, Gone
<1>3. ASSUME NEW S \in SUBSET tick.lost, tick.pc = "interrupt",
             tick' = Resume([tick EXCEPT !.lost = S])
      PROVE  Remembers(tick', pool')
  <2>1. PICK t, u : /\ t = [tick EXCEPT !.lost = S] /\ tick' = Resume(t)
                    /\ u = [t EXCEPT !.pc = t.back]
    BY <1>3
  <2>2. t \in TickLocals /\ GoesOn(u)
    BY <1>1, <1>3, <2>1 DEF TickLocals, GoesOn, Acting, Reconciling, Posting
  <2>. QED BY <1>1, <2>1, <2>2, GoingOn, ResumeRemembers
<1>. QED BY <1>1, <1>2, <1>3, FailsGo

\* Dispatch.
LEMMA DispatchRemembers ==
  ASSUME TypeInv, PoolListed,
         \/ \E i \in Instances : DispatchNone(i) \/ DispatchClaim(i)
         \/ DispatchPost \/ DispatchRefused \/ DispatchRecord \/ DispatchRecordFails
         \/ DispatchUnclaim \/ DispatchCount \/ DispatchGiveBack
  PROVE  Remembers(tick', pool') /\ PoolKept
<1>1. /\ tick \in TickLocals /\ tick.snap \in [Instances -> PoolRecord]
      /\ tick.todo \subseteq Instances
      /\ pool \in [Instances -> PoolRecord] /\ Remembers(tick, pool)
  BY DEF TypeInv, TypeOK, TickLocals, PoolListed
<1>2. ASSUME NEW i \in Instances, DispatchNone(i)
      PROVE  Remembers(tick', pool') /\ PoolKept
  <2>1. PICK t : t = [tick EXCEPT !.todo = @ \ {i}] /\ tick' = Onward(t)
    BY <1>2 DEF DispatchNone
  <2>2. GoesOn(t)
    BY <1>1, <2>1 DEF TickLocals, GoesOn, Acting, Reconciling
  <2>3. PoolKept
    BY <1>2 DEF DispatchNone, valkey, PoolKept
  <2>. QED BY <2>1, <2>2, <2>3, GoingOn, OnwardRemembers
<1>3. ASSUME NEW i \in Instances, DispatchClaim(i)
      PROVE  Remembers(tick', pool') /\ PoolKept
  <2>1. PICK e \in queue :
          tick' = [tick EXCEPT !.pc = IF e.due THEN "post" ELSE "refused",
                               !.cur = i, !.claim = {e}, !.todo = @ \ {i}]
    BY <1>3 DEF DispatchClaim
  <2>2. /\ tick'.pc \in {"post", "refused"} /\ tick'.cur = i /\ tick'.claim = {e}
        /\ tick'.todo = tick.todo \ {i} /\ tick'.snap = tick.snap
    BY <1>1, <2>1 DEF TickLocals
  <2>3. pool' = pool /\ i \in tick.todo
    BY <1>3 DEF DispatchClaim
  <2>. QED BY <1>1, <2>2, <2>3 DEF Remembers, Acting, Reconciling, PoolKept
<1>4. CASE DispatchPost \/ DispatchRefused \/ DispatchRecord \/ DispatchRecordFails
           \/ DispatchUnclaim
  <2>1. PICK q, run : tick' = [tick EXCEPT !.pc = q, !.run = run]
    <3>1. \/ \E q : tick' = [tick EXCEPT !.pc = q]
          \/ \E q, run : tick' = [tick EXCEPT !.pc = q, !.run = run]
      BY <1>4 DEF DispatchPost, StartRun, DispatchRefused, TickThrows,
                  DispatchRecord, DispatchRecordFails, DispatchUnclaim
    <3>2. \A q : [tick EXCEPT !.pc = q] = [tick EXCEPT !.pc = q, !.run = tick.run]
      BY <1>1 DEF TickLocals
    <3>. QED BY <3>1, <3>2
  <2>2. tick'.pc \notin {"act", "interrupt", "reconcile"}
    BY <1>1, <1>4 DEF DispatchPost, StartRun, DispatchRefused, TickThrows,
                      DispatchRecord, DispatchRecordFails, DispatchUnclaim,
                      TickLocals
  <2>3. tick'.pc \in Posting => tick.pc \in Posting
    BY <1>1, <1>4 DEF DispatchPost, StartRun, DispatchRefused, TickThrows,
                      DispatchRecord, DispatchRecordFails, DispatchUnclaim,
                      TickLocals, Posting
  <2>4. GoesOn(tick')
    BY <1>1, <2>1, <2>2, <2>3 DEF GoesOn, Acting, Reconciling, TickLocals
  <2>5. PoolKept
    BY <1>4 DEF DispatchPost, DispatchRefused, TickThrows, DispatchRecord,
                DispatchRecordFails, DispatchUnclaim, valkey, PoolKept
  <2>. QED BY <2>4, <2>5, GoingOn
<1>5. CASE DispatchCount
  <2>1. tick.pc = "count" /\ tick.cur \in Instances /\ tick.snap[tick.cur].in
    BY <1>1, <1>5 DEF DispatchCount, Remembers, Posting
  <2>2. PICK q : q = [tick.snap[tick.cur] EXCEPT !.active = @ + 1]
    OBVIOUS
  <2>3. q.in
    BY <1>1, <2>1, <2>2 DEF PoolRecord
  <2>4. PICK t : /\ t = [tick EXCEPT !.pc = "dispatch", !.cur = None,
                                     !.snap[tick.cur] = q, !.claim = {}, !.run = 0]
                 /\ tick' = Onward(t) /\ pool' = [pool EXCEPT ![tick.cur] = q]
    BY <1>5, <2>2 DEF DispatchCount
  <2>5. /\ t.pc = "dispatch" /\ t.snap = [tick.snap EXCEPT ![tick.cur] = q]
        /\ t.claim = {} /\ t.todo = tick.todo
    BY <1>1, <2>4 DEF TickLocals
  <2>6. Remembers(t, pool')
    BY <1>1, <2>1, <2>3, <2>4, <2>5 DEF Remembers, Acting, Reconciling, Posting
  <2>. QED BY <1>1, <2>1, <2>3, <2>4, <2>6, OnwardRemembers DEF PoolKept
<1>6. CASE DispatchGiveBack
  <2>1. PICK t : /\ t = [tick EXCEPT !.pc = "dispatch", !.cur = None, !.claim = {}]
                 /\ tick' = Onward(t)
    BY <1>6 DEF DispatchGiveBack
  <2>2. GoesOn(t)
    BY <1>1, <2>1 DEF TickLocals, GoesOn, Acting, Reconciling, Posting
  <2>3. PoolKept
    BY <1>6 DEF DispatchGiveBack, PoolKept
  <2>. QED BY <2>1, <2>2, <2>3, GoingOn, OnwardRemembers
<1>. QED BY <1>2, <1>3, <1>4, <1>5, <1>6

\* The poller, the requests and the world take no record out of the pool.
LEMMA OthersKeepPool ==
  ASSUME TypeInv, PoolListed, PollerStep \/ SweepStep \/ ApiStep \/ Environment
  PROVE  PoolKept /\ (poller'.inst # None => poller'.rec.in)
<1>1. /\ pool \in [Instances -> PoolRecord] /\ poller \in PollerLocals
      /\ poller.inst # None => poller.rec.in
  BY DEF TypeInv, TypeOK, PoolListed
<1>2. CASE PollerStep
  <2>1. CASE PollCount
    <3>1. poller.inst # None => Decremented(poller.rec).in
      BY <1>1 DEF Decremented, PollerLocals, PoolRecord
    <3>. QED BY <1>1, <2>1, <3>1 DEF PollCount, PoolKept, IdlePoller
  <2>2. IdlePoller.inst = None /\ Settled.inst = None
    BY DEF IdlePoller, Settled
  <2>3. ASSUME NEW q \in PollerLocals, NEW i, q.inst # None => q.rec.in,
               poller' = SlotRead(q, i)
        PROVE  poller'.inst # None => poller'.rec.in
    BY <2>3 DEF SlotRead, PollerLocals
  <2>4. CASE \E r \in Runs : PollFetch(r) \/ PollUnreachable(r)
    BY <2>2, <2>4 DEF PollFetch, PollUnreachable, Fetched, IdlePoller, valkey, PoolKept
  <2>5. ASSUME NEW j, NEW term, NEW k, Complete(j, term, k)
        PROVE  poller'.inst # None => poller'.rec.in
    <3>1. PICK write : /\ write = [poller EXCEPT !.pc = "write", !.term = term]
                       /\ \/ poller' = IdlePoller \/ poller' = write
                          \/ poller' = SlotRead(Settled, k.inst)
      BY <2>5, Zenon DEF Complete, PollThrow
    <3>2. write.inst = poller.inst /\ write.rec = poller.rec
      BY <1>1, <3>1 DEF PollerLocals
    <3>. HIDE DEF Settled
    <3>. QED BY <1>1, <2>2, <2>3, <3>1, <3>2, SettledType
  <2>6. CASE PollSuccess \/ PollFailure \/ PollRequeueFails
    BY <2>5, <2>6 DEF PollSuccess, PollFailure, PollRequeueFails, valkey, PoolKept
  <2>7. CASE PollRetry
    <3>1. \/ poller' = IdlePoller
          \/ poller' = [poller EXCEPT !.pc = "requeue", !.n = AttemptsSoFar(poller.job)]
      BY <2>7 DEF PollRetry
    <3>. QED BY <1>1, <2>2, <2>7, <3>1 DEF PollRetry, PollerLocals, valkey, PoolKept
  <2>8. CASE PollRequeue
    BY <1>1, <2>3, <2>8 DEF PollRequeue, PoolKept
  <2>9. CASE PollWrite
    <3>1. poller' = IdlePoller \/ \E i : poller' = SlotRead(Settled, i)
      BY <2>9 DEF PollWrite, PollThrow
    <3>. QED BY <2>2, <2>3, <2>9, <3>1, SettledType DEF PollWrite, PoolKept
  <2>. QED BY <1>2, <2>1, <2>4, <2>6, <2>7, <2>8, <2>9 DEF PollerStep
<1>3. CASE SweepStep
  BY <1>1, <1>3 DEF SweepStep, SweepTerminalJob, StallDetected, PoolKept, valkey
<1>4. CASE ApiStep
  <2>1. CASE CancelMark
    <3>1. pool' = pool \/ \E i \in Instances : pool[i].in /\ pool' =
            [pool EXCEPT ![i].draining = TRUE, ![i].cancelDrain = TRUE]
      BY <1>1, <2>1 DEF CancelMark, CancelDrained
    <3>. QED BY <1>1, <2>1, <3>1, ZenonT(30) DEF CancelMark, PoolKept, PoolRecord
  <2>2. CASE CancelSave \/ CancelThrows \/ CancelFail
    BY <1>1, <2>2 DEF CancelSave, CancelThrows, CancelFail, PoolKept, valkey
  <2>3. CASE UNCHANGED <<pool, poller>>
    BY <1>1, <2>3 DEF PoolKept
  <2>4. ASSUME NEW l \in Jobs,
               \/ Submit(l) \/ SubmitRejected(l) \/ SubmitTimesOut(l)
               \/ CancelJob(l) \/ CancelStart(l) \/ CancelUndrained(l)
        PROVE  PoolKept /\ (poller'.inst # None => poller'.rec.in)
    BY <2>3, <2>4 DEF Submit, SubmitRejected, SubmitTimesOut, CancelStart,
                      CancelJob, CancelUndrained, valkey
  <2>. QED BY <1>4, <2>1, <2>2, <2>4 DEF ApiStep
<1>5. CASE Environment
  <2>1. CASE Crash
    BY <2>1 DEF Crash, IdlePoller, PoolKept, valkey
  <2>2. ASSUME NEW i \in Instances, IdleTimeElapses(i)
        PROVE  PoolKept /\ (poller'.inst # None => poller'.rec.in)
    BY <1>1, <2>2 DEF IdleTimeElapses, PoolKept, PoolRecord
  <2>3. CASE UNCHANGED <<pool, poller>>
    BY <1>1, <2>3 DEF PoolKept
  <2>. QED BY <1>5, <2>1, <2>2, <2>3
    DEF Environment, RunEnds, EncoreCallback, InstanceVanishes, BackoffElapses,
        GraceElapses, GateExpires, PinReleased, valkey
<1>. QED BY <1>2, <1>3, <1>4, <1>5

\* Only the eviction of a vanished instance and a teardown take a record out of
\* the pool.
LEMMA PoolStays ==
  ASSUME TypeInv, PoolListed, [Next]_vars, ~ScaleDownDestroy,
         \A i \in Instances : ~EvictVanished(i)
  PROVE  PoolKept
<1>1. CASE TickStep
  BY <1>1, ReconcileRemembers, SettleRemembers, LoopRemembers, DispatchRemembers,
     FailsRemember
  DEF TickStep, TickFails
<1>2. CASE PollerStep \/ SweepStep \/ ApiStep \/ Environment
  BY <1>2, OthersKeepPool
<1>3. CASE UNCHANGED vars
  BY <1>3 DEF vars, PoolKept
<1>. QED BY <1>1, <1>2, <1>3 DEF Next

\* The tick's copy of the pool lists no instance the pool does not.
LEMMA PoolListedInvariance == Spec => []PoolListed
<1>1. Init => PoolListed
  BY DEF Init, PoolListed, Remembers, Acting, Reconciling, Posting, IdleTick,
         IdlePoller, Gone
<1>2. TypeInv /\ PoolListed /\ [Next]_vars => PoolListed'
  <2>. SUFFICES ASSUME TypeInv, PoolListed, [Next]_vars
                PROVE  Remembers(tick', pool') /\ (poller'.inst # None => poller'.rec.in)
    BY DEF PoolListed
  <2>1. CASE TickStep
    <3>1. poller' = poller
      BY <2>1
      DEF TickStep, TickStart, ReconcileEnd, EvictVanished, ReconcileInstance,
          InterruptRequeue, InterruptLost, InterruptFails, LostFails,
          SweepFailed, SettleDrop, DropRequeue, DropRequeueFails, ScaleUp,
          ScaleDownKeep, ScaleDownProbe, NoScaleUp, ScaleUpStart, SpawnFails,
          ScaleDownDrain, ScaleDownRelease, ScaleDownDestroy, DispatchNone,
          DispatchClaim, DispatchPost, DispatchRefused, TickThrows,
          DispatchRecord, DispatchRecordFails, DispatchUnclaim, DispatchCount,
          DispatchGiveBack
    <3>. QED BY <2>1, <3>1, ReconcileRemembers, SettleRemembers, LoopRemembers,
                DispatchRemembers, FailsRemember
             DEF TickStep, TickFails, PoolListed
  <2>2. CASE PollerStep \/ SweepStep \/ ApiStep \/ Environment
    <3>1. PoolKept /\ (poller'.inst # None => poller'.rec.in)
      BY <2>2, OthersKeepPool
    <3>2. GoesOn(tick') \/ Remembers(tick', pool')
      <4>1. CASE UNCHANGED tick
        BY <4>1 DEF GoesOn
      <4>2. CASE Crash
        BY <4>2 DEF Crash, Remembers, Acting, Reconciling, Posting, IdleTick, Gone
      <4>3. ASSUME NEW e \in queue \cup tick.claim, BackoffElapses(e)
            PROVE  Remembers(tick', pool')
        <5>1. e \in Entry
          BY DEF TypeInv, TypeOK, TickLocals
        <5>2. pool' = pool /\ tick'.pc = tick.pc /\ tick'.back = tick.back
          BY <4>3, <5>1, BackoffRenames DEF BackoffElapses
        <5>. QED BY <4>3, <5>1, <5>2, BackoffRenames
               DEF PoolListed, Remembers, Acting, Reconciling
      <4>. QED BY <2>2, <4>1, <4>2, <4>3
             DEF PollerStep, PollFetch, PollUnreachable, PollSuccess,
                 PollFailure, PollRetry, PollRequeue, PollRequeueFails,
                 PollWrite, PollCount, SweepStep, SweepTerminalJob,
                 StallDetected, ApiStep, Submit, SubmitRejected, SubmitTimesOut,
                 CancelStart, CancelJob, CancelUndrained, CancelMark,
                 CancelThrows, CancelSave, CancelFail, Environment, RunEnds,
                 EncoreCallback, InstanceVanishes, IdleTimeElapses,
                 GraceElapses, GateExpires, PinReleased
    <3>. QED BY <3>1, <3>2, GoingOn
  <2>3. CASE UNCHANGED vars
    BY <2>3 DEF vars, PoolListed
  <2>. QED BY <2>1, <2>2, <2>3 DEF Next
<1>. QED BY <1>1, <1>2, TypeInvariance, PTL DEF Spec

-----------------------------------------------------------------------------
(* How the keys of one job change: its mapping, its status, its marker. *)

MarkerKept(j) == kv'[j].cancelReq = kv[j].cancelReq
MappingSame(j) == kv'[j].inst = kv[j].inst
KeysSame(j) == MarkerKept(j) /\ MappingSame(j) /\ kv'[j].status = kv[j].status

\* A retry or an interruption unmaps the job, also when its LPUSH fails.
Unmaps(j) ==
  \/ InterruptRequeue(j) \/ InterruptFails(j)
  \/ tick.job = j /\ (DropRequeue \/ DropRequeueFails)
  \/ poller.job = j /\ (PollRequeue \/ PollRequeueFails)
  \/ \E r \in Runs : /\ runs[r].job = j /\ StallDetected(r)
                     /\ RetryDecision(j, TRUE) = "retry"
                     /\ RetryRequeue(j, AttemptsSoFar(j))

UnmapStep(j) ==
  /\ Unmaps(j) /\ MarkerKept(j)
  /\ kv'[j].inst = None /\ kv'[j].status = "RUNNING"

EndStep(j) ==
  /\ MarkerKept(j) /\ kv'[j].inst = None
  /\ \/ (InterruptLost(j) \/ LostFails(j)) /\ kv'[j].status = "FAILED"
     \/ PollSuccess /\ poller.job = j /\ kv'[j].status = "SUCCESSFUL"

MapStep(j) ==
  /\ DispatchRecord \/ DispatchRecordFails
  /\ \E e \in tick.claim : e.job = j
  /\ MarkerKept(j) /\ kv'[j].inst = tick.cur /\ kv'[j].status = "RUNNING"

ClassifyStep(j) ==
  /\ \E i \in Instances : ReconcileInstance(i)
  /\ MarkerKept(j)
  /\ \/ MappingSame(j) /\ kv'[j].status = "FAILED"
     \/ /\ kv'[j].inst \in ActiveElsewhere(j)
        /\ kv'[j].status = kv[j].status /\ kv[j].status \in LiveStatus

CancelStep(j) ==
  /\ SweepFailed(j) \/ (CancelMark /\ canceller.job = j)
  /\ MappingSame(j) /\ kv'[j].status = "CANCELLED"
  /\ kv'[j].cancelReq \in {kv[j].cancelReq, "fresh"}

SubmitStep(j) ==
  Submit(j) /\ MarkerKept(j) /\ MappingSame(j) /\ kv'[j].status = "QUEUED"

GraceStep(j) ==
  /\ GraceElapses(j) /\ kv[j].cancelReq = "fresh"
  /\ MappingSame(j) /\ kv'[j].status = kv[j].status

KeysStep(j) ==
  \/ KeysSame(j) \/ UnmapStep(j) \/ EndStep(j) \/ MapStep(j)
  \/ ClassifyStep(j) \/ CancelStep(j) \/ SubmitStep(j) \/ GraceStep(j)

\* What one write says of each job.
LEMMA OneWrite ==
  ASSUME TypeInv, NEW j \in Jobs, NEW l \in Jobs, NEW k, kv' = [kv EXCEPT ![l] = k]
  PROVE  /\ l # j => KeysSame(j)
         /\ l = j => kv'[j] = k
BY DEF TypeInv, TypeOK, KeysSame, MarkerKept, MappingSame

\* What the helpers make of a job's keys.
LEMMA HelperKeys ==
  ASSUME NEW k \in JobKeys
  PROVE  /\ Requeued(k).inst = None /\ Requeued(k).status = "RUNNING"
         /\ Requeued(k).cancelReq = k.cancelReq
         /\ Cleared(k).inst = k.inst /\ Cleared(k).status = k.status
         /\ Cleared(k).cancelReq = k.cancelReq
         /\ Cleared(Requeued(k)).inst = None
         /\ Cleared(Requeued(k)).status = "RUNNING"
         /\ Cleared(Requeued(k)).cancelReq = k.cancelReq
         /\ Stamped(k).inst = None /\ Stamped(k).status = "SUCCESSFUL"
         /\ Stamped(k).cancelReq = k.cancelReq
BY DEF Requeued, Cleared, Stamped, JobKeys

LEMMA CancelWrites ==
  ASSUME TypeInv, NEW j \in Jobs, NEW l, NEW u, kv' = CancelKeys(l, u)
  PROVE  /\ l # j => KeysSame(j)
         /\ l = j => /\ MappingSame(j) /\ kv'[j].status = "CANCELLED"
                     /\ kv'[j].cancelReq \in {kv[j].cancelReq, "fresh"}
<1>1. kv \in [Jobs -> JobKeys] /\ kv[j] \in JobKeys
  BY DEF TypeInv, TypeOK
<1>. QED BY <1>1 DEF CancelKeys, KeysSame, MarkerKept, MappingSame, JobKeys

LEMMA KeysUnchanged ==
  ASSUME NEW j, UNCHANGED kv
  PROVE  KeysSame(j)
BY DEF KeysSame, MarkerKept, MappingSame

\* The tick's writes.
LEMMA SettleKeys ==
  ASSUME TypeInv, NEW j \in Jobs,
         \/ \E l \in Jobs : InterruptRequeue(l) \/ InterruptLost(l) \/ SweepFailed(l)
         \/ \E d \in [job : Jobs, retryable : BOOLEAN] : SettleDrop(d)
         \/ DropRequeue \/ DropRequeueFails
  PROVE  KeysStep(j)
<1>1. kv \in [Jobs -> JobKeys] /\ kv[j] \in JobKeys
  BY DEF TypeInv, TypeOK
<1>2. ASSUME NEW l \in Jobs, InterruptRequeue(l) PROVE KeysStep(j)
  <2>1. kv' = [kv EXCEPT ![l] = Requeued(kv[l])]
    BY <1>2 DEF InterruptRequeue
  <2>2. CASE l = j
    <3>1. InterruptRequeue(j)
      BY <1>2, <2>2
    <3>2. Unmaps(j)
      BY <3>1 DEF Unmaps
    <3>. QED BY <1>1, <2>1, <2>2, <3>2, OneWrite, HelperKeys
           DEF KeysStep, UnmapStep, MarkerKept
  <2>. QED BY <2>1, <2>2, OneWrite DEF KeysStep
<1>3. ASSUME NEW l \in Jobs, InterruptLost(l) PROVE KeysStep(j)
  <2>1. PICK k : /\ k = Cleared([kv[l] EXCEPT !.status = "FAILED", !.inst = None])
                 /\ kv' = kv \/ kv' = [kv EXCEPT ![l] = k]
    BY <1>3 DEF InterruptLost
  <2>2. l = j => /\ k.status = "FAILED" /\ k.inst = None
                 /\ k.cancelReq = kv[j].cancelReq
    BY <1>1, <2>1 DEF Cleared, JobKeys
  <2>. QED BY <1>3, <2>1, <2>2, OneWrite, KeysUnchanged
         DEF KeysStep, EndStep, MarkerKept
<1>4. ASSUME NEW l \in Jobs, SweepFailed(l) PROVE KeysStep(j)
  <2>1. kv' = CancelKeys(l, kv[l].url)
    BY <1>4 DEF SweepFailed
  <2>. QED BY <1>4, <2>1, CancelWrites DEF KeysStep, CancelStep
<1>5. ASSUME NEW d \in [job : Jobs, retryable : BOOLEAN], SettleDrop(d)
      PROVE  KeysStep(j)
  <2>1. kv' = kv \/ kv' = [kv EXCEPT ![d.job] = Cleared(kv[d.job])]
    BY <1>5 DEF SettleDrop
  <2>2. d.job \in Jobs
    OBVIOUS
  <2>. QED BY <1>1, <2>1, <2>2, OneWrite, HelperKeys, KeysUnchanged
         DEF KeysStep, KeysSame, MarkerKept, MappingSame
<1>6. CASE DropRequeue \/ DropRequeueFails
  <2>1. tick.job \in Jobs
    BY <1>6 DEF DropRequeue, DropRequeueFails, TypeInv, TickNamed, NamedTick
  <2>2. \/ kv' = [kv EXCEPT ![tick.job] = Requeued(kv[tick.job])]
        \/ kv' = [kv EXCEPT ![tick.job] = Cleared(Requeued(kv[tick.job]))]
    BY <1>6 DEF DropRequeue, DropRequeueFails, RetryRequeue
  <2>3. tick.job = j => Unmaps(j)
    BY <1>6 DEF Unmaps
  <2>. QED BY <1>1, <2>1, <2>2, <2>3, OneWrite, HelperKeys
         DEF KeysStep, UnmapStep, MarkerKept
<1>. QED BY <1>2, <1>3, <1>4, <1>5, <1>6

LEMMA FailsKeys ==
  ASSUME TypeInv, NEW j \in Jobs, TickFails
  PROVE  KeysStep(j)
<1>1. kv \in [Jobs -> JobKeys] /\ kv[j] \in JobKeys
  BY DEF TypeInv, TypeOK
<1>2. CASE UNCHANGED kv
  BY <1>2, KeysUnchanged DEF KeysStep
<1>3. ASSUME NEW l \in Jobs, InterruptFails(l) PROVE KeysStep(j)
  <2>1. CASE kv' = [kv EXCEPT ![l] = Requeued(kv[l])]
    <3>1. l = j => Unmaps(j)
      BY <1>3 DEF Unmaps
    <3>2. CASE l = j
      <4>1. kv'[j] = Requeued(kv[j])
        BY <1>1, <2>1, <3>2
      <4>. QED BY <1>1, <3>1, <3>2, <4>1, HelperKeys
             DEF KeysStep, UnmapStep, MarkerKept
    <3>. QED BY <2>1, <3>2, OneWrite DEF KeysStep
  <2>. QED BY <1>2, <1>3, <2>1 DEF InterruptFails
<1>4. ASSUME NEW l \in Jobs, LostFails(l) PROVE KeysStep(j)
  <2>1. PICK k : /\ k = [kv[l] EXCEPT !.status = "FAILED", !.inst = None]
                 /\ kv' = kv \/ kv' = [kv EXCEPT ![l] = k]
    BY <1>4 DEF LostFails
  <2>2. l = j => /\ k.status = "FAILED" /\ k.inst = None
                 /\ k.cancelReq = kv[j].cancelReq
    BY <1>1, <2>1 DEF JobKeys
  <2>. QED BY <1>4, <2>1, <2>2, OneWrite, KeysUnchanged
         DEF KeysStep, EndStep, MarkerKept
<1>. QED BY <1>2, <1>3, <1>4 DEF TickFails, TickThrows, valkey

LEMMA ClassifiedKeys ==
  ASSUME TypeInv, NEW j \in Jobs, NEW i \in Instances, ReconcileInstance(i)
  PROVE  KeysStep(j)
<1>1. kv[j] \in JobKeys
  BY DEF TypeInv, TypeOK
<1>2. kv' = kv \/ kv' = Classified(i)
  BY DEF ReconcileInstance
<1>3. CASE kv' = Classified(i)
  <2>1. PICK a, b, d, m :
          /\ a = [kv[j] EXCEPT !.status = "FAILED", !.passes = 0]
          /\ b = [kv[j] EXCEPT !.passes = 1] /\ d = [kv[j] EXCEPT !.passes = 0]
          /\ m = [kv[j] EXCEPT !.passes = 0,
                               !.inst = CHOOSE k \in ActiveElsewhere(j) : TRUE]
    OBVIOUS
  <2>2. \/ kv'[j] = a \/ kv'[j] = b \/ kv'[j] = d \/ kv'[j] = kv[j]
        \/ /\ kv'[j] = m /\ j \in Missing(i)
           /\ Cardinality(ActiveElsewhere(j)) = 1
    BY <1>3, <2>1, Zenon DEF Classified
  <2>3. /\ a.inst = kv[j].inst /\ a.status = "FAILED" /\ a.cancelReq = kv[j].cancelReq
        /\ b.inst = kv[j].inst /\ b.status = kv[j].status
        /\ b.cancelReq = kv[j].cancelReq
        /\ d.inst = kv[j].inst /\ d.status = kv[j].status
        /\ d.cancelReq = kv[j].cancelReq
        /\ m.inst = (CHOOSE k \in ActiveElsewhere(j) : TRUE)
        /\ m.status = kv[j].status /\ m.cancelReq = kv[j].cancelReq
    BY <1>1, <2>1 DEF JobKeys
  <2>4. CASE kv'[j] = m /\ j \in Missing(i) /\ Cardinality(ActiveElsewhere(j)) = 1
    <3>1. ActiveElsewhere(j) # {}
      BY <2>4, FS_EmptySet
    <3>2. m.inst \in ActiveElsewhere(j) /\ kv[j].status \in LiveStatus
      BY <2>3, <2>4, <3>1 DEF Missing, LostWith
    <3>. QED BY <2>3, <2>4, <3>2 DEF KeysStep, ClassifyStep, MarkerKept
  <2>. QED BY <2>2, <2>3, <2>4
         DEF KeysStep, ClassifyStep, KeysSame, MarkerKept, MappingSame
<1>. QED BY <1>2, <1>3, KeysUnchanged DEF KeysStep

LEMMA RecordKeys ==
  ASSUME TypeInv, NEW j \in Jobs, DispatchRecord \/ DispatchRecordFails
  PROVE  KeysStep(j)
<1>. DEFINE k(e) == Mapped(kv[e.job], tick.cur)
            c(e) == Counted(k(e), e)
<1>1. ASSUME NEW e \in tick.claim
      PROVE  /\ e.job \in Jobs
             /\ \A x \in {k(e), c(e), [k(e) EXCEPT !.url = tick.run],
                          [c(e) EXCEPT !.url = tick.run]} :
                  /\ x.status = "RUNNING" /\ x.inst = tick.cur
                  /\ x.cancelReq = kv[e.job].cancelReq
  <2>1. e.job \in Jobs /\ kv[e.job] \in JobKeys
    BY DEF TypeInv, TypeOK, TickLocals, Entry
  <2>. QED BY <2>1 DEF Mapped, Counted, JobKeys
<1>2. \/ kv' = kv
      \/ \E e \in tick.claim : \E x :
           /\ x \in {k(e), c(e), [k(e) EXCEPT !.url = tick.run],
                     [c(e) EXCEPT !.url = tick.run]}
           /\ kv' = [kv EXCEPT ![e.job] = x]
  BY DEF DispatchRecord, DispatchRecordFails
<1>3. CASE kv' = kv
  BY <1>3, KeysUnchanged DEF KeysStep
<1>4. CASE kv' # kv
  <2>1. PICK e \in tick.claim : \E x :
           /\ x \in {k(e), c(e), [k(e) EXCEPT !.url = tick.run],
                     [c(e) EXCEPT !.url = tick.run]}
           /\ kv' = [kv EXCEPT ![e.job] = x]
    BY <1>2, <1>4
  <2>2. PICK x : /\ kv' = [kv EXCEPT ![e.job] = x]
                 /\ x.status = "RUNNING" /\ x.inst = tick.cur
                 /\ x.cancelReq = kv[e.job].cancelReq
    BY <1>1, <2>1
  <2>3. e.job \in Jobs
    BY <1>1
  <2>. QED BY <2>2, <2>3, OneWrite DEF KeysStep, MapStep, MarkerKept
<1>. QED BY <1>3, <1>4

\* The poller's writes.
LEMMA PollerKeys ==
  ASSUME TypeInv, NEW j \in Jobs, PollerStep
  PROVE  KeysStep(j)
<1>1. kv \in [Jobs -> JobKeys] /\ kv[j] \in JobKeys
  BY DEF TypeInv, TypeOK
<1>2. poller.pc # "idle" => poller.job \in Jobs
  BY DEF TypeInv, PollerNamed
<1>3. CASE PollRequeue \/ PollRequeueFails
  <2>1. poller.job \in Jobs /\ kv' = [kv EXCEPT ![poller.job] = Requeued(kv[poller.job])]
    BY <1>2, <1>3 DEF PollRequeue, PollRequeueFails, RetryRequeue
  <2>2. CASE poller.job = j
    <3>1. Unmaps(j)
      BY <1>3, <2>2 DEF Unmaps
    <3>2. kv'[j] = Requeued(kv[j])
      BY <2>1, <2>2, OneWrite
    <3>. QED BY <1>1, <3>1, <3>2, HelperKeys DEF KeysStep, UnmapStep, MarkerKept
  <2>. QED BY <2>1, <2>2, OneWrite DEF KeysStep
<1>4. CASE PollSuccess
  <2>1. poller.job \in Jobs /\ kv' = [kv EXCEPT ![poller.job] = Stamped(kv[poller.job])]
    BY <1>2, <1>4 DEF PollSuccess
  <2>. QED BY <1>1, <1>4, <2>1, OneWrite, HelperKeys, ZenonT(30)
         DEF KeysStep, EndStep, MarkerKept
<1>5. CASE PollCount
  <2>1. /\ poller.job \in Jobs
        /\ kv' = kv \/ kv' = [kv EXCEPT ![poller.job] = Cleared(kv[poller.job])]
    BY <1>2, <1>5 DEF PollCount
  <2>. QED BY <1>1, <2>1, OneWrite, HelperKeys, KeysUnchanged
         DEF KeysStep, KeysSame, MarkerKept, MappingSame
<1>6. CASE PollWrite
  <2>1. KeysSame(j)
    BY <1>1, <1>6 DEF PollWrite, KeysSame, MarkerKept, MappingSame, JobKeys
  <2>. QED BY <2>1 DEF KeysStep
<1>7. CASE UNCHANGED kv
  BY <1>7, KeysUnchanged DEF KeysStep
<1>. QED BY <1>3, <1>4, <1>5, <1>6, <1>7
       DEF PollerStep, PollFetch, PollUnreachable, PollFailure, PollRetry, valkey

\* The writes of the sweep, the requests and the world.
LEMMA RequestKeys ==
  ASSUME TypeInv, NEW j \in Jobs, SweepStep \/ ApiStep \/ Environment
  PROVE  KeysStep(j)
<1>1. kv \in [Jobs -> JobKeys] /\ kv[j] \in JobKeys
  BY DEF TypeInv, TypeOK
<1>2. ASSUME NEW r \in Runs, StallDetected(r) PROVE KeysStep(j)
  <2>1. runs[r].job \in Jobs
    BY <1>2 DEF StallDetected, TypeInv, RunsNamed, NamedRun
  <2>2. \/ kv' = [kv EXCEPT ![runs[r].job] = Cleared(kv[runs[r].job])]
        \/ /\ kv' = [kv EXCEPT ![runs[r].job] = Requeued(kv[runs[r].job])]
           /\ RetryDecision(runs[r].job, TRUE) = "retry"
           /\ RetryRequeue(runs[r].job, AttemptsSoFar(runs[r].job))
    BY <1>2 DEF StallDetected, RetryRequeue
  <2>3. CASE kv' = [kv EXCEPT ![runs[r].job] = Cleared(kv[runs[r].job])]
    BY <1>1, <2>1, <2>3, OneWrite, HelperKeys
    DEF KeysStep, KeysSame, MarkerKept, MappingSame
  <2>4. CASE /\ kv' = [kv EXCEPT ![runs[r].job] = Requeued(kv[runs[r].job])]
             /\ RetryDecision(runs[r].job, TRUE) = "retry"
             /\ RetryRequeue(runs[r].job, AttemptsSoFar(runs[r].job))
    <3>1. CASE runs[r].job = j
      <4>1. Unmaps(j)
        BY <1>2, <2>4, <3>1 DEF Unmaps
      <4>2. kv'[j] = Requeued(kv[j])
        BY <2>1, <2>4, <3>1, OneWrite
      <4>. QED BY <1>1, <4>1, <4>2, HelperKeys DEF KeysStep, UnmapStep, MarkerKept
    <3>. QED BY <2>1, <2>4, <3>1, OneWrite DEF KeysStep
  <2>. QED BY <2>2, <2>3, <2>4
<1>3. ASSUME NEW l \in Jobs, Submit(l) PROVE KeysStep(j)
  <2>1. /\ l # j => KeysSame(j)
        /\ l = j => MarkerKept(j) /\ MappingSame(j) /\ kv'[j].status = "QUEUED"
    BY <1>1, <1>3 DEF Submit, KeysSame, MarkerKept, MappingSame, JobKeys
  <2>. QED BY <1>3, <2>1 DEF KeysStep, SubmitStep
<1>4. CASE CancelMark
  <2>1. kv' = CancelKeys(canceller.job, canceller.url)
    BY <1>4 DEF CancelMark
  <2>. QED BY <1>4, <2>1, CancelWrites DEF KeysStep, CancelStep
<1>5. ASSUME NEW l \in Jobs, GraceElapses(l) PROVE KeysStep(j)
  <2>1. /\ l # j => KeysSame(j)
        /\ l = j => /\ MappingSame(j) /\ kv'[j].status = kv[j].status
                    /\ kv[j].cancelReq = "fresh"
    BY <1>1, <1>5 DEF GraceElapses, KeysSame, MarkerKept, MappingSame, JobKeys
  <2>. QED BY <1>5, <2>1 DEF KeysStep, GraceStep
<1>6. ASSUME NEW l \in Jobs, GateExpires(l) \/ PinReleased(l) PROVE KeysStep(j)
  <2>1. KeysSame(j)
    BY <1>1, <1>6 DEF GateExpires, PinReleased, KeysSame, MarkerKept, MappingSame,
                      JobKeys
  <2>. QED BY <2>1 DEF KeysStep
<1>7. CASE UNCHANGED kv
  BY <1>7, KeysUnchanged DEF KeysStep
<1>8. CASE SweepStep
  BY <1>2, <1>7, <1>8 DEF SweepStep, SweepTerminalJob, valkey
<1>9. CASE ApiStep
  BY <1>3, <1>4, <1>7, <1>9
  DEF ApiStep, SubmitRejected, SubmitTimesOut, CancelStart, CancelJob,
      CancelUndrained, CancelThrows, CancelSave, CancelFail, valkey
<1>10. CASE Environment
  BY <1>5, <1>6, <1>7, <1>10
  DEF Environment, RunEnds, EncoreCallback, InstanceVanishes, IdleTimeElapses,
      BackoffElapses, Crash, valkey
<1>. QED BY <1>8, <1>9, <1>10

\* Every step changes the keys of a job in one of these ways.
LEMMA KeysGo ==
  ASSUME TypeInv, NEW j \in Jobs, [Next]_vars
  PROVE  KeysStep(j)
<1>1. CASE UNCHANGED kv
  BY <1>1, KeysUnchanged DEF KeysStep
<1>2. CASE TickStep
  BY <1>1, <1>2, SettleKeys, ClassifiedKeys, RecordKeys, FailsKeys
  DEF TickStep, TickFails, TickStart, EvictVanished, ReconcileEnd, NoScaleUp, ScaleUpStart,
      ScaleUp, SpawnFails, ScaleDownKeep, ScaleDownProbe, ScaleDownDrain,
      ScaleDownRelease, ScaleDownDestroy, DispatchNone, DispatchClaim,
      DispatchPost, DispatchRefused, TickThrows, DispatchUnclaim, DispatchCount,
      DispatchGiveBack, valkey
<1>. QED BY <1>1, <1>2, PollerKeys, RequestKeys DEF Next, vars

\* A job that is mapped is queued, running, or has ended without a success.
MappedLive ==
  \A j \in Jobs :
    kv[j].inst # None => kv[j].status \in LiveStatus \cup {"FAILED", "CANCELLED"}

LEMMA MappedLiveInvariance == Spec => []MappedLive
<1>1. Init => MappedLive
  BY DEF Init, MappedLive, NoKeys
<1>2. TypeInv /\ MappedLive /\ [Next]_vars => MappedLive'
  <2>. SUFFICES ASSUME TypeInv, MappedLive, [Next]_vars, NEW j \in Jobs,
                       kv'[j].inst # None
                PROVE  kv'[j].status \in LiveStatus \cup {"FAILED", "CANCELLED"}
    BY DEF MappedLive, LiveStatus
  <2>. QED BY KeysGo
         DEF KeysStep, KeysSame, UnmapStep, EndStep, MapStep, ClassifyStep,
             CancelStep, SubmitStep, GraceStep, MappingSame, MappedLive, LiveStatus
<1>. QED BY <1>1, <1>2, TypeInvariance, PTL DEF Spec

-----------------------------------------------------------------------------
(* What the poller knows of the record. *)

\* A handler that has not settled the record yet saw it queued if it is, and it
\* writes a success only over a record that is not; a retry follows a failure.
PollerFollows ==
  /\ poller.pc \in {"handle", "requeue"} /\ record[poller.job].st = "queued"
     => poller.seen = "queued"
  /\ poller.pc = "write" => record[poller.job].st # "queued"
  /\ poller.pc = "requeue" => ~poller.success

\* completeTranscode leaves a record unsettled only to write a success.
LEMMA CompleteSettles ==
  ASSUME TypeInv, poller.pc # "idle", NEW term, NEW k, Complete(poller.job, term, k)
  PROVE  /\ \A j \in Jobs : j # poller.job => record'[j] = record[j]
         /\ record'[poller.job].st \in {"queued", "running"}
            => poller.success /\ poller'.pc = "write" /\ poller'.job = poller.job
         /\ poller'.pc = "write" /\ poller.seen = "queued"
            => record'[poller.job].st # "queued"
<1>1. /\ poller \in PollerLocals /\ poller.job \in Jobs /\ IdlePoller.pc = "idle"
      /\ record \in [Jobs -> JobRecord] /\ record[poller.job] \in JobRecord
  BY IdlePollerType DEF TypeInv, TypeOK, PollerNamed
<1>. DEFINE j == poller.job
            behind == poller.seen = "queued"
            cur == IF behind THEN [record[j] EXCEPT !.st = "running"] ELSE record[j]
            applies == \/ cur.st \in {"queued", "running"}
                       \/ cur.st = "failed" /\ cur.dropped /\ poller.success
            write == [poller EXCEPT !.pc = "write", !.term = term]
<1>2. write.pc = "write" /\ write.job = j
  BY <1>1 DEF PollerLocals
<1>3. SlotRead(Settled, k.inst).pc = "count"
  BY SettledType, SlotGoes
<1>4. behind => cur.st = "running"
  BY <1>1 DEF JobRecord
<1>5. CASE behind /\ ~IsValidJobTransition(record[j].st, "running")
  <2>1. record' = record /\ poller' = IdlePoller
    BY <1>5 DEF Complete, PollThrow
  <2>2. record[j].st \notin {"queued", "running"}
    BY <1>5 DEF IsValidJobTransition, AllowedNext
  <2>. QED BY <1>1, <2>1, <2>2
<1>6. CASE ~(behind /\ ~IsValidJobTransition(record[j].st, "running"))
  <2>1. /\ record' = IF applies /\ ~poller.success
                       THEN [record EXCEPT ![j] = [st |-> "failed", dropped |-> FALSE]]
                       ELSE [record EXCEPT ![j] = cur]
        /\ poller' = IF ~applies THEN IdlePoller
                     ELSE IF poller.success THEN write
                     ELSE SlotRead(Settled, k.inst)
    BY <1>6, Zenon DEF Complete
  <2>2. cur.st \in {"queued", "running"} => applies
    OBVIOUS
  <2>. HIDE DEF cur, applies, write
  <2>3. \A l \in Jobs : l # j => record'[l] = record[l]
    BY <1>1, <2>1
  <2>4. CASE ~applies
    BY <1>1, <1>4, <2>1, <2>2, <2>4
  <2>5. CASE applies /\ ~poller.success
    BY <1>1, <1>3, <2>1, <2>5
  <2>6. CASE applies /\ poller.success
    BY <1>1, <1>2, <1>4, <2>1, <2>6
  <2>. QED BY <2>3, <2>4, <2>5, <2>6
<1>. QED BY <1>5, <1>6

\* What the fetch keeps is what it reads.
LEMMA FetchFollows ==
  ASSUME TypeInv, NEW r \in Runs, PollFetch(r) \/ PollUnreachable(r)
  PROVE  PollerFollows'
<1>1. \A s, t : /\ Fetched(r, s, t).pc = "handle" /\ Fetched(r, s, t).job = runs[r].job
                /\ Fetched(r, s, t).seen = record[runs[r].job].st
  BY DEF Fetched, IdlePoller
<1>2. record' = record /\ (poller' = IdlePoller \/ \E s, t : poller' = Fetched(r, s, t))
  BY DEF PollFetch, PollUnreachable
<1>. QED BY <1>1, <1>2, IdlePollerType DEF PollerFollows

\* The handler's own steps.
LEMMA HandlerFollows ==
  ASSUME TypeInv, PollerFollows, HandlerStep
  PROVE  PollerFollows'
<1>1. poller \in PollerLocals /\ IdlePoller.pc = "idle"
  BY IdlePollerType DEF TypeInv, TypeOK
<1>2. poller.pc # "idle" /\ HandlerGoes
  BY HandlerGoesOn
<1>3. CASE PollSuccess \/ PollFailure \/ PollRequeueFails
  <2>1. PICK term, k : Complete(poller.job, term, k)
    BY <1>3 DEF PollSuccess, PollFailure, PollRequeueFails
  <2>2. poller'.pc # "requeue" /\ poller'.pc # "handle"
    <3>1. CASE poller'.pc = "idle"
      BY <3>1
    <3>2. PICK write : /\ write = [poller EXCEPT !.pc = "write", !.term = term]
                       /\ \/ poller' = IdlePoller \/ poller' = write
                          \/ poller' = SlotRead(Settled, k.inst)
      BY <2>1, Zenon DEF Complete, PollThrow
    <3>3. write.pc = "write" /\ SlotRead(Settled, k.inst).pc = "count"
      BY <1>1, <3>2, SettledType, SlotGoes DEF PollerLocals
    <3>. QED BY <1>1, <3>2, <3>3
  <2>3. poller'.pc = "write" => record'[poller.job].st # "queued"
    <3>1. poller.pc \in {"handle", "requeue"}
      BY <1>3 DEF PollSuccess, PollFailure, PollRequeueFails
    <3>2. CASE poller.seen = "queued"
      BY <1>2, <2>1, <3>2, CompleteSettles
    <3>3. CASE poller.seen # "queued"
      <4>1. record[poller.job].st # "queued"
        BY <3>1, <3>3 DEF PollerFollows
      <4>2. poller.job \in Jobs /\ record \in [Jobs -> JobRecord]
        BY <1>2 DEF TypeInv, TypeOK, PollerNamed
      <4>3. record'[poller.job].st \in {"failed", record[poller.job].st}
        BY <2>1, <3>3, <4>2 DEF Complete
      <4>. QED BY <4>1, <4>3
    <3>. QED BY <3>2, <3>3
  <2>. QED BY <1>2, <2>2, <2>3 DEF PollerFollows, HandlerGoes
<1>4. CASE PollRetry
  <2>1. /\ record' = record /\ poller.pc = "handle" /\ ~poller.success
        /\ \/ poller' = IdlePoller
           \/ poller' = [poller EXCEPT !.pc = "requeue", !.n = AttemptsSoFar(poller.job)]
    BY <1>4 DEF PollRetry
  <2>. QED BY <1>1, <2>1 DEF PollerFollows, PollerLocals
<1>5. CASE PollRequeue \/ PollWrite \/ PollCount
  <2>1. poller'.pc \in {"idle", "count"}
    <3>1. CASE PollRequeue
      BY <1>1, <3>1, SlotGoes DEF PollRequeue
    <3>2. CASE PollWrite
      <4>1. poller' = IdlePoller \/ \E i : poller' = SlotRead(Settled, i)
        BY <3>2 DEF PollWrite, PollThrow
      <4>. QED BY <1>1, <4>1, SettledType, SlotGoes
    <3>3. CASE PollCount
      BY <1>1, <3>3 DEF PollCount
    <3>. QED BY <1>5, <3>1, <3>2, <3>3
  <2>. QED BY <2>1 DEF PollerFollows
<1>. QED BY <1>3, <1>4, <1>5 DEF HandlerStep

\* What the poller knows of the record stays true.
LEMMA FollowsInvariance == Spec => []PollerFollows
<1>1. Init => PollerFollows
  BY DEF Init, PollerFollows, IdlePoller
<1>2. TypeInv /\ UnsubmittedUnnamed /\ PollerFollows /\ [Next]_vars => PollerFollows'
  <2>. SUFFICES ASSUME TypeInv, UnsubmittedUnnamed, PollerFollows, [Next]_vars
                PROVE  PollerFollows'
    OBVIOUS
  <2>1. CASE PollerStep
    BY <2>1, FetchFollows, HandlerFollows DEF PollerStep, HandlerStep
  <2>2. CASE UNCHANGED poller
    <3>1. CASE poller.pc = "idle"
      BY <2>2, <3>1 DEF PollerFollows
    <3>2. CASE poller.pc # "idle"
      <4>1. poller.job \in Jobs /\ record[poller.job].st # "none"
        BY <3>2 DEF UnsubmittedUnnamed, Named, TypeInv, PollerNamed
      <4>2. record'[poller.job].st = "queued" => record[poller.job].st = "queued"
        BY <4>1, NextAdvances DEF RecordsAdvance
      <4>. QED BY <2>2, <4>2 DEF PollerFollows
    <3>. QED BY <3>1, <3>2
  <2>3. CASE Crash
    BY <2>3 DEF Crash, IdlePoller, PollerFollows
  <2>4. UNCHANGED poller \/ PollerStep \/ Crash
    BY DEF Next, TickStep, TickStart, ReconcileEnd, EvictVanished,
           ReconcileInstance, InterruptRequeue, InterruptLost, InterruptFails,
           LostFails, SweepFailed, SettleDrop, DropRequeue, DropRequeueFails,
           ScaleUp, ScaleDownKeep, ScaleDownProbe, NoScaleUp, ScaleUpStart,
           SpawnFails, ScaleDownDrain, ScaleDownRelease, ScaleDownDestroy,
           DispatchNone, DispatchClaim, DispatchPost, DispatchRefused,
           TickThrows, DispatchRecord, DispatchRecordFails, DispatchUnclaim,
           DispatchCount, DispatchGiveBack, SweepStep, SweepTerminalJob,
           StallDetected, ApiStep, Submit, SubmitRejected, SubmitTimesOut,
           CancelStart, CancelJob, CancelUndrained, CancelMark, CancelThrows,
           CancelSave, CancelFail, Environment, RunEnds, EncoreCallback,
           InstanceVanishes, IdleTimeElapses, BackoffElapses, GraceElapses,
           GateExpires, PinReleased, vars
  <2>. QED BY <2>1, <2>2, <2>3, <2>4
<1>. QED BY <1>1, <1>2, TypeInvariance, NamesInvariance, PTL DEF Spec

-----------------------------------------------------------------------------
(* Records that are not settled. *)

\* The poller writes the job's success; a request cancels the job.
Writing(j) == poller.pc = "write" /\ poller.job = j
Cancelling(j) == canceller.pc # "idle" /\ canceller.job = j

\* A settled failure leaves no other record live than were.
LEMMA SettleFailedEnds ==
  ASSUME TypeInv, NEW l \in Jobs, NEW drop, SettleFailed(l, drop)
  PROVE  ~Live(l)' /\ \A j \in Jobs : Live(j)' => Live(j)
BY DEF SettleFailed, IsTerminal, Live, TypeInv, TypeOK

\* A job comes to be live when it is submitted, or when a success is about to be
\* written over a drop that was no failure.
LEMMA LiveGoes ==
  ASSUME TypeInv, [Next]_vars, NEW j \in Jobs, Live(j)'
  PROVE  Live(j) \/ Writing(j)' \/ (Submit(j) /\ record[j].st = "none")
<1>1. record \in [Jobs -> JobRecord]
  BY DEF TypeInv, TypeOK
<1>2. CASE UNCHANGED record
  BY <1>2 DEF Live
<1>3. CASE \E l \in Jobs, drop \in BOOLEAN : SettleFailed(l, drop)
  BY <1>3, SettleFailedEnds
<1>4. CASE TickStep
  <2>1. CASE DispatchRecord
    <3>1. PICK e \in tick.claim : /\ \/ /\ record[e.job].st = "queued"
                                        /\ record' = [record EXCEPT ![e.job].st = "running"]
                                     \/ record' = record
      BY <2>1 DEF DispatchRecord
    <3>. QED BY <1>1, <3>1 DEF Live, JobRecord
  <2>2. CASE DropRequeueFails
    <3>1. tick.job \in Jobs
      BY <2>2 DEF DropRequeueFails, TypeInv, TickNamed, NamedTick
    <3>. QED BY <1>3, <2>2, <3>1 DEF DropRequeueFails
  <2>. QED BY <1>2, <1>3, <1>4, <2>1, <2>2
    DEF TickStep, TickStart, ReconcileEnd, EvictVanished, ReconcileInstance,
        InterruptRequeue, InterruptLost, InterruptFails, LostFails, SweepFailed,
        SettleDrop, DropRequeue, ScaleUp, ScaleDownKeep, ScaleDownProbe,
        NoScaleUp, ScaleUpStart, SpawnFails, ScaleDownDrain, ScaleDownRelease,
        ScaleDownDestroy, DispatchNone, DispatchClaim, DispatchPost,
        DispatchRefused, TickThrows, DispatchRecordFails, DispatchUnclaim,
        DispatchCount, DispatchGiveBack
<1>5. CASE PollerStep
  <2>1. CASE PollSuccess \/ PollFailure \/ PollRequeueFails
    <3>1. poller.pc # "idle" /\ \E term, k : Complete(poller.job, term, k)
      BY <2>1 DEF PollSuccess, PollFailure, PollRequeueFails
    <3>. QED BY <3>1, CompleteSettles DEF Live, Writing
  <2>2. CASE PollWrite
    BY <1>1, <2>2 DEF PollWrite, Live
  <2>. QED BY <1>2, <1>5, <2>1, <2>2
    DEF PollerStep, PollFetch, PollUnreachable, PollRetry, PollRequeue, PollCount
<1>6. CASE SweepStep
  <2>1. ASSUME NEW r \in Runs, StallDetected(r) PROVE Live(j)
    <3>1. runs[r].job \in Jobs
      BY <2>1 DEF StallDetected, TypeInv, RunsNamed, NamedRun
    <3>2. SettleFailed(runs[r].job, TRUE) \/ record' = record
      BY <2>1 DEF StallDetected
    <3>. QED BY <3>1, <3>2, SettleFailedEnds DEF Live
  <2>. QED BY <1>2, <1>6, <2>1 DEF SweepStep, SweepTerminalJob
<1>7. CASE ApiStep
  <2>1. CASE CancelSave \/ CancelFail
    BY <1>1, <2>1 DEF CancelSave, CancelFail, Live, JobRecord
  <2>2. ASSUME NEW l \in Jobs, Submit(l) \/ SubmitRejected(l) \/ SubmitTimesOut(l)
        PROVE  Live(j) \/ (Submit(j) /\ record[j].st = "none")
    <3>1. CASE l = j
      <4>1. CASE Submit(l)
        <5>1. Submit(j)
          BY <3>1, <4>1
        <5>. QED BY <5>1 DEF Submit
      <4>2. CASE SubmitRejected(l) \/ SubmitTimesOut(l)
        BY <1>1, <3>1, <4>2, ZenonT(30) DEF SubmitRejected, SubmitTimesOut, Live, JobRecord
      <4>. QED BY <2>2, <4>1, <4>2
    <3>2. CASE l # j
      BY <1>1, <2>2, <3>2 DEF Submit, SubmitRejected, SubmitTimesOut, Live
    <3>. QED BY <3>1, <3>2
  <2>. QED BY <1>2, <1>7, <2>1, <2>2
           DEF ApiStep, CancelJob, CancelStart, CancelUndrained, CancelMark,
               CancelThrows
<1>8. CASE Environment
  BY <1>2, <1>8
  DEF Environment, RunEnds, EncoreCallback, InstanceVanishes, IdleTimeElapses,
      BackoffElapses, GraceElapses, GateExpires, PinReleased, Crash
<1>9. CASE UNCHANGED vars
  BY <1>2, <1>9 DEF vars
<1>. QED BY <1>4, <1>5, <1>6, <1>7, <1>8, <1>9 DEF Next

\* The end of a cancel settles the record, and so does the write of a success.
LEMMA LiveEnds ==
  ASSUME TypeInv, PollerFollows, [Next]_vars, NEW j \in Jobs, Live(j)'
  PROVE  /\ CancelSave \/ CancelFail => canceller.job # j
         /\ PollWrite => poller.job # j
         /\ ~SweepFailed(j)
<1>1. record \in [Jobs -> JobRecord]
  BY DEF TypeInv, TypeOK
<1>2. CancelSave \/ CancelFail => canceller.job # j
  BY <1>1 DEF CancelSave, CancelFail, Live, IsValidJobTransition, AllowedNext, JobRecord, JobStatus
<1>3. PollWrite => poller.job # j
  BY <1>1 DEF PollWrite, PollerFollows, Live, IsValidJobTransition, AllowedNext
<1>4. ~SweepFailed(j)
  BY SettleFailedEnds DEF SweepFailed
<1>. QED BY <1>2, <1>3, <1>4

\* Without a restart, the marker of a cancel is on a live job only while the
\* request is being handled, or while a success is written that came after it.
MarkedInHand ==
  \A j \in Jobs : Live(j) /\ kv[j].cancelReq # "no" => Cancelling(j) \/ Writing(j)

\* Who cancels and who writes goes on with it.
LEMMA HandsGo ==
  ASSUME TypeInv, [Next]_vars, crashes' = 0, NEW j \in Jobs
  PROVE  /\ Cancelling(j) /\ ~CancelSave /\ ~CancelFail => Cancelling(j)'
         /\ Writing(j) /\ ~PollWrite => Writing(j)'
<1>1. CASE TickStep \/ SweepStep \/ Environment
  <2>1. ~Crash
    BY DEF Crash, TypeInv, TypeOK
  <2>2. UNCHANGED <<poller, canceller>>
    BY <1>1, <2>1
    DEF TickStep, TickStart, ReconcileEnd, EvictVanished, ReconcileInstance,
        InterruptRequeue, InterruptLost, InterruptFails, LostFails, SweepFailed,
        SettleDrop, DropRequeue, DropRequeueFails, ScaleUp, ScaleDownKeep,
        ScaleDownProbe, NoScaleUp, ScaleUpStart, SpawnFails, ScaleDownDrain,
        ScaleDownRelease, ScaleDownDestroy, DispatchNone, DispatchClaim,
        DispatchPost, DispatchRefused, TickThrows, DispatchRecord,
        DispatchRecordFails, DispatchUnclaim, DispatchCount, DispatchGiveBack,
        SweepStep, SweepTerminalJob, StallDetected, Environment, RunEnds,
        EncoreCallback, InstanceVanishes, IdleTimeElapses, BackoffElapses,
        GraceElapses, GateExpires, PinReleased
  <2>. QED BY <2>2 DEF Cancelling, Writing
<1>2. CASE PollerStep
  <2>1. canceller' = canceller
    BY <1>2 DEF PollerStep, PollFetch, PollUnreachable, PollSuccess, PollFailure,
                PollRetry, PollRequeue, PollRequeueFails, PollWrite, PollCount
  <2>2. poller.pc = "write" => PollWrite
    BY <1>2 DEF PollerStep, PollFetch, PollUnreachable, PollSuccess, PollFailure,
                PollRetry, PollRequeue, PollRequeueFails, PollCount
  <2>. QED BY <2>1, <2>2 DEF Cancelling, Writing
<1>3. CASE ApiStep
  <2>1. poller' = poller
    BY <1>3 DEF ApiStep, Submit, SubmitRejected, SubmitTimesOut, CancelStart,
                CancelJob, CancelUndrained, CancelMark, CancelThrows,
                CancelSave, CancelFail
  <2>2. \/ canceller' = canceller \/ canceller.pc = "idle"
        \/ CancelSave \/ CancelFail
        \/ canceller' = [canceller EXCEPT !.pc = "fail"]
    BY <1>3 DEF ApiStep, Submit, SubmitRejected, SubmitTimesOut, CancelStart,
                CancelJob, CancelUndrained, CancelMark, CancelThrows
  <2>. QED BY <2>1, <2>2 DEF Cancelling, Writing, TypeInv, TypeOK, CancellerLocals
<1>4. CASE UNCHANGED vars
  BY <1>4 DEF vars, Cancelling, Writing
<1>. QED BY <1>1, <1>2, <1>3, <1>4 DEF Next

LEMMA NextMarked ==
  ASSUME TypeInv, UnsubmittedUnnamed, PollerFollows, MarkedInHand, [Next]_vars,
         crashes' = 0
  PROVE  MarkedInHand'
<1>. SUFFICES ASSUME NEW j \in Jobs, Live(j)', kv'[j].cancelReq # "no"
              PROVE  Cancelling(j)' \/ Writing(j)'
  BY DEF MarkedInHand
<1>1. CASE CancelMark /\ canceller.job = j
  BY <1>1 DEF CancelMark, Cancelling, TypeInv, TypeOK, CancellerLocals
<1>2. CASE ~(CancelMark /\ canceller.job = j)
  <2>1. kv[j].cancelReq # "no"
    BY <1>2, KeysGo, LiveEnds
    DEF KeysStep, KeysSame, UnmapStep, EndStep, MapStep, ClassifyStep,
        CancelStep, SubmitStep, GraceStep, MarkerKept
  <2>2. Live(j) \/ Writing(j)'
    BY <2>1, LiveGoes DEF UnsubmittedUnnamed, Named
  <2>3. CASE Live(j)
    <3>1. Cancelling(j) \/ Writing(j)
      BY <2>1, <2>3 DEF MarkedInHand
    <3>2. /\ CancelSave \/ CancelFail => ~Cancelling(j)
          /\ PollWrite => ~Writing(j)
      BY LiveEnds DEF Cancelling, Writing
    <3>. QED BY <3>1, <3>2, HandsGo
  <2>. QED BY <2>2, <2>3
<1>. QED BY <1>1, <1>2

-----------------------------------------------------------------------------
(* What a teardown knows of the jobs of its instance. *)

\* A job that a failed call mislaid stays mislaid.
LEMMA MislaidGrows ==
  ASSUME [Next]_vars
  PROVE  mislaid \subseteq mislaid'
<1>1. CASE UNCHANGED mislaid
  BY <1>1
<1>2. CASE TickFails
  BY <1>2 DEF TickFails, TickThrows, InterruptFails, LostFails
<1>. QED BY <1>1, <1>2
     DEF Next, vars, TickStep, TickFails, TickStart, ReconcileEnd, EvictVanished,
         ReconcileInstance, InterruptRequeue, InterruptLost,
         SweepFailed, SettleDrop, DropRequeue, DropRequeueFails,
         ScaleUp, ScaleDownKeep, ScaleDownProbe, NoScaleUp, ScaleUpStart,
         SpawnFails, ScaleDownDrain, ScaleDownRelease, ScaleDownDestroy,
         DispatchNone, DispatchClaim, DispatchPost, DispatchRefused,
         DispatchRecord, DispatchRecordFails, DispatchUnclaim, DispatchCount,
         DispatchGiveBack, PollerStep, PollFetch, PollUnreachable, PollSuccess,
         PollFailure, PollRetry, PollRequeue, PollRequeueFails, PollWrite,
         PollCount, SweepStep, SweepTerminalJob, StallDetected, ApiStep, Submit,
         SubmitRejected, SubmitTimesOut, CancelStart, CancelJob,
         CancelUndrained, CancelMark, CancelThrows, CancelSave, CancelFail,
         Environment, RunEnds, EncoreCallback, InstanceVanishes,
         IdleTimeElapses, BackoffElapses, GraceElapses, GateExpires, PinReleased,
         Crash, ghosts

\* The probe lists each live job that is mapped to the instance, but for the jobs
\* it has lost and that are yet to be dealt with, or could not be dealt with.
ActingLost ==
  Acting(tick) =>
    \A j \in Jobs : kv[j].inst = tick.cur =>
      \/ j \in tick.real[tick.cur].jobs
      \/ kv[j].status \notin LiveStatus
      \/ tick.pc = "interrupt" /\ j \in tick.lost
      \/ j \in mislaid

\* No job is mapped to the instance while the tick prepares its teardown.
LEMMA LostStays ==
  ASSUME TypeInv, UnsubmittedUnnamed, ActingLost, Acting(tick), NEW j \in Jobs,
         KeysStep(j), kv'[j].inst = tick.cur
  PROVE  \/ j \in tick.real[tick.cur].jobs
         \/ kv'[j].status \notin LiveStatus
         \/ tick.pc = "interrupt" /\ j \in tick.lost
         \/ j \in mislaid
<1>1. tick.cur \in Instances /\ tick.cur # None
  BY ConstantsAssumption DEF TypeInv, TickNamed, NamedTick, Acting
<1>2. tick.pc \in {"act", "interrupt"}
  BY DEF Acting
<1>3. CASE KeysSame(j) \/ GraceStep(j)
  BY <1>3 DEF KeysSame, GraceStep, MappingSame, ActingLost
<1>4. CASE UnmapStep(j) \/ EndStep(j)
  BY <1>1, <1>4 DEF UnmapStep, EndStep
<1>5. CASE MapStep(j) \/ ClassifyStep(j)
  BY <1>2, <1>5 DEF MapStep, ClassifyStep, DispatchRecord, DispatchRecordFails,
                    ReconcileInstance
<1>6. CASE CancelStep(j)
  BY <1>6 DEF CancelStep, LiveStatus
<1>7. CASE SubmitStep(j)
  BY <1>1, <1>7 DEF SubmitStep, Submit, MappingSame, UnsubmittedUnnamed, Named
<1>. QED BY <1>3, <1>4, <1>5, <1>6, <1>7 DEF KeysStep

\* The other processes leave the tick's lost jobs alone.
LEMMA OthersKeepLost ==
  ASSUME TypeInv, PollerStep \/ SweepStep \/ ApiStep \/ Environment, Acting(tick')
  PROVE  tick'.pc = tick.pc /\ tick'.lost = tick.lost
<1>1. CASE UNCHANGED tick
  BY <1>1
<1>2. CASE Environment
  <2>1. CASE \E e \in queue \cup tick.claim : BackoffElapses(e)
    <3>1. queue \cup tick.claim \subseteq Entry
      BY DEF TypeInv, TypeOK, TickLocals
    <3>. QED BY <2>1, <3>1, BackoffRenames
  <2>2. CASE Crash
    BY <2>2 DEF Crash, IdleTick, Acting
  <2>. QED BY <1>1, <1>2, <2>1, <2>2
       DEF Environment, RunEnds, EncoreCallback, InstanceVanishes,
           IdleTimeElapses, GraceElapses, GateExpires, PinReleased
<1>3. CASE PollerStep \/ SweepStep \/ ApiStep
  BY <1>1, <1>3
  DEF PollerStep, PollFetch, PollUnreachable, PollSuccess, PollFailure,
      PollRetry, PollRequeue, PollRequeueFails, PollWrite, PollCount, SweepStep,
      SweepTerminalJob, StallDetected, ApiStep, Submit, SubmitRejected,
      SubmitTimesOut, CancelStart, CancelJob, CancelUndrained, CancelMark,
      CancelThrows, CancelSave, CancelFail
<1>. QED BY <1>2, <1>3

\* The probe says which jobs are lost.
LEMMA ProbeKnowsLost ==
  ASSUME TypeInv, NEW i \in Instances, ScaleDownProbe(i)
  PROVE  ActingLost'
<1>. DEFINE t == [tick EXCEPT !.todo = @ \ {i}, !.cur = i,
                              !.real[i] = ProbeOf(i), !.back = "act",
                              !.lost = LostWith(i, ProbeOf(i).jobs)]
<1>1. t.lost = LostWith(i, ProbeOf(i).jobs)
  BY DEF TypeInv, TypeOK, TickLocals
<1>2. tick' = Resume(t) /\ kv' = kv
  BY DEF ScaleDownProbe, valkey
<1>. HIDE DEF t
<1>. SUFFICES ASSUME Acting(tick'), NEW j \in Jobs, kv[j].inst = tick'.cur
              PROVE  \/ j \in tick'.real[tick'.cur].jobs
                     \/ kv[j].status \notin LiveStatus
                     \/ tick'.pc = "interrupt" /\ j \in tick'.lost
  BY <1>2 DEF ActingLost
<1>3. tick'.cur = i /\ tick'.real[i] = ProbeOf(i)
  BY ProbeActs
<1>4. CASE j \in LostWith(i, ProbeOf(i).jobs)
  <2>1. tick' = [t EXCEPT !.pc = "interrupt"]
    BY <1>1, <1>2, <1>4 DEF Resume
  <2>2. t \in TickLocals
    <3>1. tick \in TickLocals /\ ProbeOf(i) \in Probe
      BY ProbeType DEF TypeInv, TypeOK
    <3>2. LostWith(i, ProbeOf(i).jobs) \subseteq Jobs
      BY DEF LostWith
    <3>. QED BY <3>1, <3>2 DEF t, TickLocals, InstOrNone
  <2>. QED BY <1>1, <1>4, <2>1, <2>2 DEF TickLocals
<1>5. CASE j \notin LostWith(i, ProbeOf(i).jobs)
  BY <1>3, <1>5 DEF LostWith
<1>. QED BY <1>4, <1>5

\* A lost job that is dealt with is unmapped, or has ended.
LEMMA InterruptKnowsLost ==
  ASSUME TypeInv, ActingLost, NEW l \in Jobs, InterruptRequeue(l) \/ InterruptLost(l)
  PROVE  ActingLost'
<1>. DEFINE t == [tick EXCEPT !.lost = @ \ {l}]
<1>1. /\ t \in TickLocals /\ t.back = tick.back /\ t.lost = tick.lost \ {l}
      /\ t.cur = tick.cur /\ t.real = tick.real
  BY DEF TypeInv, TypeOK, TickLocals
<1>2. tick' = Resume(t) /\ tick.pc = "interrupt"
  BY DEF InterruptRequeue, InterruptLost
<1>. HIDE DEF t
<1>. SUFFICES ASSUME Acting(tick'), NEW j \in Jobs, kv'[j].inst = tick'.cur,
                     kv'[j].status \in LiveStatus
              PROVE  \/ j \in tick'.real[tick'.cur].jobs
                     \/ tick'.pc = "interrupt" /\ j \in tick'.lost
                     \/ j \in mislaid'
  BY DEF ActingLost
<1>3. Acting(tick) /\ tick'.cur = tick.cur /\ tick'.real = tick.real
  BY <1>1, <1>2, ResumeActs DEF Acting
<1>4. tick.cur \in Instances /\ tick.cur # None
  BY <1>3, ConstantsAssumption DEF TypeInv, TickNamed, NamedTick, Acting
<1>5. j # l /\ kv'[j] = kv[j]
  <2>1. CASE InterruptRequeue(l)
    <3>1. kv' = [kv EXCEPT ![l] = Requeued(kv[l])]
      BY <2>1 DEF InterruptRequeue
    <3>2. kv[l] \in JobKeys
      BY DEF TypeInv, TypeOK
    <3>3. kv'[l].inst = None
      BY <3>1, <3>2, HelperKeys DEF TypeInv, TypeOK
    <3>. QED BY <1>3, <1>4, <3>1, <3>3 DEF TypeInv, TypeOK
  <2>2. CASE InterruptLost(l)
    <3>1. CASE kv[l].status \in {"CANCELLED", "FAILED", "SUCCESSFUL"}
      BY <2>2, <3>1 DEF InterruptLost, LiveStatus
    <3>2. CASE kv[l].status \notin {"CANCELLED", "FAILED", "SUCCESSFUL"}
      <4>1. kv' = [kv EXCEPT ![l] = Cleared([@ EXCEPT !.status = "FAILED",
                                                      !.inst = None])]
        BY <2>2, <3>2 DEF InterruptLost
      <4>2. kv'[l].status = "FAILED"
        BY <4>1 DEF Cleared, TypeInv, TypeOK, JobKeys
      <4>. QED BY <4>1, <4>2 DEF LiveStatus, TypeInv, TypeOK
    <3>. QED BY <3>1, <3>2
  <2>. QED BY <2>1, <2>2
<1>6. CASE j \in tick.lost
  <2>1. j \in t.lost
    BY <1>1, <1>5, <1>6
  <2>2. tick' = [t EXCEPT !.pc = "interrupt"]
    BY <1>2, <2>1 DEF Resume
  <2>. QED BY <1>1, <2>1, <2>2 DEF TickLocals
<1>7. mislaid' = mislaid
  BY DEF InterruptRequeue, InterruptLost, ghosts
<1>. QED BY <1>3, <1>5, <1>6, <1>7 DEF ActingLost

\* The jobs a failed call gave up are mislaid, unless their status is written.
LEMMA FailsKnowLost ==
  ASSUME TypeInv, UnsubmittedUnnamed, ActingLost, TickFails, mislaid \subseteq mislaid'
  PROVE  ActingLost'
<1>. SUFFICES ASSUME Acting(tick'), NEW j \in Jobs, kv'[j].inst = tick'.cur,
                     kv'[j].status \in LiveStatus, j \notin mislaid'
              PROVE  \/ j \in tick'.real[tick'.cur].jobs
                     \/ tick'.pc = "interrupt" /\ j \in tick'.lost
  BY DEF ActingLost
<1>1. Acting(tick) /\ tick'.cur = tick.cur /\ tick'.real = tick.real
  BY FailsLeaveProbe DEF ProbeKept
<1>2. \/ j \in tick.real[tick.cur].jobs
      \/ tick.pc = "interrupt" /\ j \in tick.lost
  BY <1>1, FailsKeys, LostStays
<1>3. ASSUME tick.pc = "interrupt", j \in tick.lost
      PROVE  tick'.pc = "interrupt" /\ j \in tick'.lost
  <2>1. PICK l \in Jobs : LostFails(l)
    <3>1. ~TickThrows
      BY <1>3 DEF TickThrows
    <3>2. \A l \in Jobs : ~InterruptFails(l)
      BY <1>3 DEF InterruptFails
    <3>. QED BY <3>1, <3>2 DEF TickFails
  <2>2. j # l
    <3>1. tick.cur \in Instances /\ tick.cur # None
      BY <1>1, ConstantsAssumption DEF TypeInv, TickNamed, NamedTick, Acting
    <3>2. kv[l] \in JobKeys /\ kv \in [Jobs -> JobKeys]
      BY DEF TypeInv, TypeOK
    <3>3. \/ l \in mislaid'
          \/ kv' = [kv EXCEPT ![l] = [@ EXCEPT !.status = "FAILED", !.inst = None]]
      BY <2>1 DEF LostFails
    <3>4. [kv[l] EXCEPT !.status = "FAILED", !.inst = None].inst = None
      BY <3>2 DEF JobKeys
    <3>. QED BY <1>1, <3>1, <3>2, <3>3, <3>4
  <2>3. PICK t : t = [tick EXCEPT !.lost = @ \ {l}] /\ tick' = Resume(t)
    BY <2>1 DEF LostFails
  <2>4. t \in TickLocals /\ j \in t.lost
    BY <1>3, <2>2, <2>3 DEF TypeInv, TypeOK, TickLocals
  <2>5. tick' = [t EXCEPT !.pc = "interrupt"]
    BY <2>3, <2>4 DEF Resume
  <2>. QED BY <2>4, <2>5 DEF TickLocals
<1>. QED BY <1>1, <1>2, <1>3

\* No other step of the tick prepares a teardown.
LEMMA TickKnowsLost ==
  ASSUME TypeInv, UnsubmittedUnnamed, ActingLost, TickStep, mislaid \subseteq mislaid'
  PROVE  ActingLost'
<1>1. CASE \/ \E i \in Instances : ScaleDownProbe(i)
           \/ \E j \in Jobs : InterruptRequeue(j) \/ InterruptLost(j)
  BY <1>1, ProbeKnowsLost, InterruptKnowsLost
<1>2. CASE \/ TickStart \/ ReconcileEnd
           \/ \E i \in Instances : EvictVanished(i) \/ ReconcileInstance(i)
           \/ \E j \in Jobs : SweepFailed(j)
           \/ \E d \in [job : Jobs, retryable : BOOLEAN] : SettleDrop(d)
           \/ DropRequeue \/ DropRequeueFails
  <2>1. ~Acting(tick')
    BY <1>2, StartActs, ReconcileActs
  <2>. QED BY <2>1 DEF ActingLost
<1>3. CASE \/ \E i \in Instances : ScaleUp(i) \/ ScaleDownKeep(i)
           \/ NoScaleUp \/ ScaleUpStart \/ SpawnFails
           \/ ScaleDownDrain \/ ScaleDownRelease \/ ScaleDownDestroy
           \/ \E i \in Instances : DispatchNone(i) \/ DispatchClaim(i)
           \/ DispatchPost \/ DispatchRefused \/ DispatchRecord
           \/ DispatchRecordFails \/ DispatchUnclaim \/ DispatchCount
           \/ DispatchGiveBack
  <2>1. ~Acting(tick')
    BY <1>3, LoopStepActs
  <2>. QED BY <2>1 DEF ActingLost
<1>. QED BY <1>1, <1>2, <1>3, FailsKnowLost DEF TickStep, TickFails

\* What a teardown knows of lost jobs stays true.
LEMMA LostInvariance == Spec => []ActingLost
<1>1. Init => ActingLost
  BY DEF Init, IdleTick, ActingLost, Acting
<1>2. TypeInv /\ UnsubmittedUnnamed /\ ActingLost /\ [Next]_vars => ActingLost'
  <2>. SUFFICES ASSUME TypeInv, UnsubmittedUnnamed, ActingLost, [Next]_vars
                PROVE  ActingLost'
    OBVIOUS
  <2>1. CASE UNCHANGED vars
    BY <2>1 DEF vars, ActingLost, Acting
  <2>2. CASE PollerStep \/ SweepStep \/ ApiStep \/ Environment
    <3>. SUFFICES ASSUME Acting(tick'), NEW j \in Jobs, kv'[j].inst = tick'.cur
                  PROVE  \/ j \in tick'.real[tick'.cur].jobs
                         \/ kv'[j].status \notin LiveStatus
                         \/ tick'.pc = "interrupt" /\ j \in tick'.lost
                         \/ j \in mislaid'
      BY DEF ActingLost
    <3>1. Acting(tick) /\ tick'.cur = tick.cur /\ tick'.real = tick.real
      BY <2>2, OthersLeaveProbe DEF ProbeKept
    <3>2. tick'.pc = tick.pc /\ tick'.lost = tick.lost
      BY <2>2, OthersKeepLost
    <3>3. KeysStep(j)
      BY KeysGo
    <3>. QED BY <3>1, <3>2, <3>3, LostStays, MislaidGrows
  <2>. QED BY <2>1, <2>2, TickKnowsLost, MislaidGrows DEF Next
<1>. QED BY <1>1, <1>2, TypeInvariance, NamesInvariance, PTL DEF Spec

-----------------------------------------------------------------------------
(* The holders of a job. *)

InQueue(j) == \E e \in queue : e.job = j

\* Dispatch has taken the entry and not yet mapped the job.
InHand(j) == /\ tick.pc \in {"post", "record", "refused", "giveBack"}
             /\ \E e \in tick.claim : e.job = j

\* The failure sweep will see the status.
Over(j) == kv[j].status \in {"FAILED", "CANCELLED"}

\* reconcile will look at the mapping.
HostListed(j) == kv[j].inst # None /\ pool[kv[j].inst].in

\* The tick is about to requeue or to settle it.
LostNow(j) == tick.pc = "interrupt" /\ j \in tick.lost /\ kv[j].status # "SUCCESSFUL"

Held(j) == \/ InQueue(j) \/ InHand(j) \/ Over(j) \/ HostListed(j) \/ LostNow(j)
           \/ Writing(j) \/ Cancelling(j)

\* Without a restart each unsettled job has a holder, between any two steps,
\* unless a failed call has mislaid it.
LiveHeld == \A j \in Jobs \ mislaid : Live(j) => Held(j)

LEMMA PushHolds ==
  ASSUME NEW j, NEW n, NEW due, Push(j, n, due)
  PROVE  InQueue(j)'
<1>1. PICK e : e \in queue' /\ e = [job |-> j, attempts |-> n, due |-> due, at |-> e.at]
  BY DEF Push
<1>2. e.job = j
  BY <1>1
<1>. QED BY <1>1, <1>2 DEF InQueue

\* A job that a retry or an interruption unmaps is queued, or was settled.
LEMMA UnmapHolds ==
  ASSUME TypeInv, PollerFollows, NEW j \in Jobs, Unmaps(j), Live(j)',
         j \notin mislaid'
  PROVE  InQueue(j)'
<1>1. CASE InterruptRequeue(j)
  BY <1>1, PushHolds DEF InterruptRequeue
<1>2. CASE tick.job = j /\ DropRequeue
  BY <1>2, PushHolds DEF DropRequeue, RetryRequeue
<1>3. CASE tick.job = j /\ DropRequeueFails
  BY <1>3, SettleFailedEnds DEF DropRequeueFails
<1>4. CASE poller.job = j /\ PollRequeue
  BY <1>4, PushHolds DEF PollRequeue, RetryRequeue
<1>5. CASE poller.job = j /\ PollRequeueFails
  <2>1. poller.pc = "requeue" /\ ~poller.success
    BY <1>5 DEF PollRequeueFails, PollerFollows
  <2>2. PICK k : Complete(poller.job, None, k)
    BY <1>5 DEF PollRequeueFails
  <2>3. record'[poller.job].st \in {"queued", "running"}
    BY <1>5 DEF Live
  <2>. QED BY <2>1, <2>2, <2>3, CompleteSettles
<1>6. CASE \E r \in Runs : RetryRequeue(j, AttemptsSoFar(j))
  BY <1>6, PushHolds DEF RetryRequeue
<1>7. ~InterruptFails(j)
  BY DEF InterruptFails
<1>. QED BY <1>1, <1>2, <1>3, <1>4, <1>5, <1>6, <1>7 DEF Unmaps

\* A step that changes the mapping or the status of a job leaves it held.
LEMMA KeysHold ==
  ASSUME TypeInv, PollerFollows, PoolListed, NEW j \in Jobs \ mislaid', Live(j)',
         KeysStep(j), ~KeysSame(j), ~GraceStep(j)
  PROVE  Held(j)'
<1>1. CASE UnmapStep(j)
  BY <1>1, UnmapHolds DEF UnmapStep, Held
<1>2. CASE EndStep(j)
  <2>1. CASE kv'[j].status = "FAILED"
    BY <2>1 DEF Over, Held
  <2>2. CASE PollSuccess /\ poller.job = j
    <3>1. PICK term, k : Complete(poller.job, term, k)
      BY <2>2 DEF PollSuccess
    <3>2. poller.pc # "idle"
      BY <2>2 DEF PollSuccess
    <3>3. record'[poller.job].st \in {"queued", "running"}
      BY <2>2 DEF Live
    <3>. QED BY <2>2, <3>1, <3>2, <3>3, CompleteSettles DEF Writing, Held
  <2>. QED BY <1>2, <2>1, <2>2 DEF EndStep
<1>3. CASE MapStep(j)
  <2>1. tick.pc = "record" /\ pool' = pool
    BY <1>3 DEF MapStep, DispatchRecord, DispatchRecordFails, valkey
  <2>2. tick.cur \in Instances /\ pool[tick.cur].in /\ tick.cur # None
    BY <2>1, ConstantsAssumption DEF PoolListed, Remembers, Posting
  <2>. QED BY <1>3, <2>1, <2>2 DEF MapStep, HostListed, Held
<1>4. CASE ClassifyStep(j)
  <2>1. CASE kv'[j].status = "FAILED"
    BY <2>1 DEF Over, Held
  <2>2. CASE kv'[j].inst \in ActiveElsewhere(j)
    <3>1. PICK i \in Instances : ReconcileInstance(i)
      BY <1>4 DEF ClassifyStep
    <3>2. tick.pc = "reconcile" /\ \A k \in Instances : ~EvictVanished(k)
      BY <3>1 DEF ReconcileInstance, Evictable, EvictVanished
    <3>3. PoolKept
      BY <3>1, <3>2, ReconcileRemembers
    <3>4. /\ kv'[j].inst \in Instances /\ tick.real[kv'[j].inst].ok
          /\ kv'[j].inst # None
      BY <2>2, ConstantsAssumption DEF ActiveElsewhere
    <3>5. pool[kv'[j].inst].in
      BY <3>2, <3>4 DEF PoolListed, Remembers, Reconciling
    <3>. QED BY <3>3, <3>4, <3>5 DEF PoolKept, HostListed, Held
  <2>. QED BY <1>4, <2>1, <2>2 DEF ClassifyStep
<1>5. CASE CancelStep(j)
  BY <1>5 DEF CancelStep, Over, Held
<1>6. CASE SubmitStep(j)
  BY <1>6, PushHolds DEF SubmitStep, Submit, Held
<1>. QED BY <1>1, <1>2, <1>3, <1>4, <1>5, <1>6 DEF KeysStep

\* An entry leaves the queue for the tick's hand, with a cancel, or with the
\* failure sweep.
LEMMA QueueGoes ==
  ASSUME TypeInv, NEW j \in Jobs, InQueue(j), [Next]_vars
  PROVE  InQueue(j)' \/ InHand(j)' \/ Cancelling(j)' \/ SweepFailed(j)
<1>0. PICK e \in queue : e.job = j
  BY DEF InQueue
<1>1. CASE queue \subseteq queue'
  BY <1>0, <1>1 DEF InQueue
<1>2. ASSUME NEW n, NEW due, NEW l, Push(l, n, due)
      PROVE  queue \subseteq queue'
  BY <1>2 DEF Push
<1>3. CASE PollerStep
  BY <1>1, <1>2, <1>3
  DEF PollerStep, PollFetch, PollUnreachable, PollSuccess, PollFailure,
      PollRetry, PollRequeue, PollRequeueFails, PollWrite, PollCount,
      RetryRequeue, valkey
<1>4. CASE SweepStep
  BY <1>1, <1>2, <1>4
  DEF SweepStep, SweepTerminalJob, StallDetected, RetryRequeue, valkey
<1>5. CASE ApiStep
  <2>1. ASSUME NEW l \in Jobs, CancelStart(l)
        PROVE  InQueue(j)' \/ Cancelling(j)'
    <3>1. CASE l = j
      BY <2>1, <3>1 DEF CancelStart, Cancelling
    <3>2. CASE l # j
      BY <1>0, <2>1, <3>2 DEF CancelStart, InQueue
    <3>. QED BY <3>1, <3>2
  <2>2. CASE \/ \E l \in Jobs : Submit(l) \/ SubmitRejected(l) \/ SubmitTimesOut(l)
             \/ \E l \in Jobs : CancelJob(l) \/ CancelUndrained(l)
             \/ CancelMark \/ CancelSave \/ CancelThrows \/ CancelFail
    BY <1>1, <1>2, <2>2 DEF Submit, SubmitRejected, SubmitTimesOut, CancelJob,
                            CancelUndrained, CancelMark, CancelThrows,
                            CancelSave, CancelFail, valkey
  <2>. QED BY <1>5, <2>1, <2>2 DEF ApiStep
<1>6. CASE Environment
  <2>1. CASE \E f \in queue \cup tick.claim : BackoffElapses(f)
    <3>1. queue \cup tick.claim \subseteq Entry
      BY DEF TypeInv, TypeOK, TickLocals
    <3>2. \E f \in queue' : f.job = e.job
      BY <2>1, <3>1, BackoffRenames
    <3>. QED BY <1>0, <3>2 DEF InQueue
  <2>. QED BY <1>1, <1>6, <2>1
       DEF Environment, RunEnds, EncoreCallback, InstanceVanishes,
           IdleTimeElapses, GraceElapses, GateExpires, PinReleased, Crash, valkey
<1>7. CASE TickStep
  <2>1. ASSUME NEW l \in Jobs, SweepFailed(l)
        PROVE  InQueue(j)' \/ SweepFailed(j)
    BY <1>0, <2>1 DEF SweepFailed, InQueue
  <2>2. ASSUME NEW i \in Instances, DispatchClaim(i)
        PROVE  InQueue(j)' \/ InHand(j)'
    <3>1. PICK f \in queue :
            /\ queue' = queue \ {f}
            /\ tick' = [tick EXCEPT !.pc = IF f.due THEN "post" ELSE "refused",
                                    !.cur = i, !.claim = {f}, !.todo = @ \ {i}]
      BY <2>2 DEF DispatchClaim
    <3>2. tick'.pc \in {"post", "refused"} /\ tick'.claim = {f}
      BY <3>1 DEF TypeInv, TypeOK, TickLocals
    <3>. QED BY <1>0, <3>1, <3>2 DEF InQueue, InHand
  <2>3. CASE \/ \E l \in Jobs : InterruptRequeue(l)
             \/ DropRequeue \/ DispatchGiveBack
    BY <1>1, <1>2, <2>3 DEF InterruptRequeue, DropRequeue, DispatchGiveBack,
                            RetryRequeue
  <2>4. CASE UNCHANGED queue
    BY <1>1, <2>4
  <2>. QED BY <1>7, <2>1, <2>2, <2>3, <2>4
       DEF TickStep, TickStart, ReconcileEnd, EvictVanished, ReconcileInstance,
           InterruptLost, InterruptFails, LostFails, SettleDrop,
           DropRequeueFails, ScaleUp, ScaleDownKeep, ScaleDownProbe, NoScaleUp,
           ScaleUpStart, SpawnFails, ScaleDownDrain, ScaleDownRelease,
           ScaleDownDestroy, DispatchNone, DispatchPost, DispatchRefused,
           TickThrows, DispatchRecord, DispatchRecordFails, DispatchUnclaim,
           DispatchCount, valkey
<1>8. CASE UNCHANGED vars
  BY <1>1, <1>8 DEF vars
<1>. QED BY <1>3, <1>4, <1>5, <1>6, <1>7, <1>8 DEF Next

\* What the tick holds goes on in the tick's hand, but for a restart.
LEMMA OthersKeepHand ==
  ASSUME TypeInv, NEW j \in Jobs,
         PollerStep \/ SweepStep \/ ApiStep \/ Environment, crashes' = 0
  PROVE  /\ InHand(j) => InHand(j)'
         /\ tick'.pc = tick.pc /\ tick'.lost = tick.lost
<1>1. CASE UNCHANGED tick
  BY <1>1 DEF InHand
<1>2. CASE Environment
  <2>1. CASE \E e \in queue \cup tick.claim : BackoffElapses(e)
    <3>1. queue \cup tick.claim \subseteq Entry
      BY DEF TypeInv, TypeOK, TickLocals
    <3>2. PICK e \in Entry : BackoffElapses(e)
      BY <2>1, <3>1
    <3>. QED BY <3>2, BackoffRenames DEF InHand
  <2>2. CASE Crash
    BY <2>2 DEF Crash, TypeInv, TypeOK
  <2>. QED BY <1>1, <1>2, <2>1, <2>2
       DEF Environment, RunEnds, EncoreCallback, InstanceVanishes,
           IdleTimeElapses, GraceElapses, GateExpires, PinReleased
<1>3. CASE PollerStep \/ SweepStep \/ ApiStep
  BY <1>1, <1>3
  DEF PollerStep, PollFetch, PollUnreachable, PollSuccess, PollFailure,
      PollRetry, PollRequeue, PollRequeueFails, PollWrite, PollCount, SweepStep,
      SweepTerminalJob, StallDetected, ApiStep, Submit, SubmitRejected,
      SubmitTimesOut, CancelStart, CancelJob, CancelUndrained, CancelMark,
      CancelThrows, CancelSave, CancelFail
<1>. QED BY <1>2, <1>3

\* An entry in hand is mapped, or goes back to the queue.
LEMMA HandGoes ==
  ASSUME TypeInv, PoolListed, NEW j \in Jobs \ mislaid', InHand(j), TickStep
  PROVE  InHand(j)' \/ InQueue(j)' \/ HostListed(j)'
<1>0. PICK e \in tick.claim : e.job = j
  BY DEF InHand
<1>1. tick \in TickLocals /\ tick.pc \in {"post", "record", "refused", "giveBack"}
  BY DEF InHand, TypeInv, TypeOK
<1>2. CASE DispatchPost
  <2>1. PICK r : tick' = [tick EXCEPT !.pc = "record", !.run = r]
    BY <1>2 DEF DispatchPost, StartRun
  <2>. QED BY <1>0, <1>1, <2>1 DEF TickLocals, InHand
<1>3. CASE DispatchRefused
  BY <1>0, <1>1, <1>3 DEF DispatchRefused, TickLocals, InHand
<1>4. CASE DispatchRecord
  <2>1. PICK f \in tick.claim, stored \in BOOLEAN :
          LET k == Mapped(kv[f.job], tick.cur)
              c == IF stored THEN Counted(k, f) ELSE k
          IN  kv' = [kv EXCEPT ![f.job] = [c EXCEPT !.url = tick.run]]
    BY <1>4 DEF DispatchRecord
  <2>2. f.job = j
    BY <1>0 DEF PoolListed, Remembers
  <2>3. kv'[j].inst = tick.cur
    BY <2>1, <2>2 DEF Mapped, Counted, TypeInv, TypeOK, JobKeys
  <2>4. tick.pc = "record" /\ pool' = pool
    BY <1>4 DEF DispatchRecord
  <2>5. tick.cur # None /\ pool[tick.cur].in
    BY <2>4, ConstantsAssumption DEF PoolListed, Remembers, Posting
  <2>. QED BY <2>3, <2>4, <2>5 DEF HostListed
<1>5. CASE DispatchRecordFails
  BY <1>0, <1>1, <1>5 DEF DispatchRecordFails, TickLocals, InHand
<1>6. CASE DispatchUnclaim
  BY <1>0, <1>1, <1>6 DEF DispatchUnclaim, TickLocals, InHand
<1>7. CASE DispatchGiveBack
  BY <1>0, <1>7 DEF DispatchGiveBack, InQueue
<1>8. ~TickThrows
  BY <1>0, <1>1 DEF TickThrows
<1>. QED BY <1>1, <1>2, <1>3, <1>4, <1>5, <1>6, <1>7, <1>8
     DEF TickStep, TickStart, ReconcileEnd, EvictVanished, ReconcileInstance,
         InterruptRequeue, InterruptLost, InterruptFails, LostFails,
         SweepFailed, SettleDrop, DropRequeue, DropRequeueFails, ScaleUp,
         ScaleDownKeep, ScaleDownProbe, NoScaleUp, SweepDone, ScaleUpStart,
         SpawnFails, ScaleDownDrain, ScaleDownRelease, ScaleDownDestroy,
         DispatchNone, DispatchClaim, DispatchCount

\* An instance that vanishes hands its jobs to the tick.
LEMMA EvictHolds ==
  ASSUME TypeInv, MappedLive, NEW j \in Jobs, HostListed(j),
         NEW i \in Instances, EvictVanished(i)
  PROVE  Held(j)'
<1>1. /\ kv' = kv /\ pool' = [pool EXCEPT ![i] = Gone]
      /\ tick' = Resume([tick EXCEPT !.todo = @ \ {i}, !.snap[i] = Gone,
                                     !.lost = LostWith(i, {}),
                                     !.back = "reconcile"])
  BY DEF EvictVanished
<1>2. CASE kv[j].inst # i
  BY <1>1, <1>2 DEF HostListed, Held, TypeInv, TypeOK
<1>3. CASE kv[j].inst = i /\ kv[j].status \in {"FAILED", "CANCELLED"}
  BY <1>1, <1>3 DEF Over, Held
<1>4. CASE kv[j].inst = i /\ kv[j].status \in LiveStatus
  <2>. DEFINE t == [tick EXCEPT !.todo = @ \ {i}, !.snap[i] = Gone,
                                !.lost = LostWith(i, {}), !.back = "reconcile"]
  <2>1. j \in t.lost /\ DOMAIN t = DOMAIN tick /\ "pc" \in DOMAIN t
    BY <1>4 DEF LostWith, TypeInv, TypeOK, TickLocals
  <2>2. tick' = Resume(t)
    BY <1>1
  <2>. HIDE DEF t
  <2>3. tick' = [t EXCEPT !.pc = "interrupt"]
    BY <2>1, <2>2 DEF Resume
  <2>4. tick'.pc = "interrupt" /\ tick'.lost = t.lost
    BY <2>1, <2>3
  <2>. QED BY <1>1, <1>4, <2>1, <2>4 DEF LostNow, LiveStatus, Held
<1>. QED BY <1>2, <1>3, <1>4 DEF HostListed, MappedLive

\* A teardown takes no instance from a job but one whose cancel is in hand.
LEMMA DestroyHolds ==
  ASSUME TypeInv, SparesInv, MappedLive, ActingLost, MarkedInHand,
         NEW j \in Jobs \ mislaid, Live(j), HostListed(j), ScaleDownDestroy
  PROVE  Held(j)' \/ Cancelling(j) \/ Writing(j)
<1>1. /\ tick.pc = "act" /\ Acting(tick) /\ ~Protected(tick.cur) /\ kv' = kv
      /\ pool' = pool \/ pool' = [pool EXCEPT ![tick.cur] = Gone]
  BY DEF ScaleDownDestroy, Acting
<1>2. CASE pool' = pool \/ kv[j].inst # tick.cur
  <2>1. kv[j].inst \in Instances /\ pool \in [Instances -> PoolRecord]
    BY DEF HostListed, TypeInv, TypeOK, JobKeys, InstOrNone
  <2>2. pool'[kv[j].inst] = pool[kv[j].inst]
    BY <1>1, <1>2, <2>1
  <2>. QED BY <1>1, <2>2 DEF HostListed, Held
<1>3. CASE kv[j].inst = tick.cur /\ kv[j].status \notin LiveStatus
  BY <1>1, <1>3 DEF HostListed, MappedLive, Over, Held
<1>4. CASE kv[j].inst = tick.cur /\ j \in tick.real[tick.cur].jobs
  <2>1. kv[j].cancelReq = "ripe"
    BY <1>1, <1>4, ProbeAbandoned DEF Abandoned
  <2>. QED BY <2>1 DEF MarkedInHand
<1>. QED BY <1>1, <1>2, <1>3, <1>4 DEF ActingLost

\* A mapping the tick can look at stays one.
LEMMA HostGoes ==
  ASSUME TypeInv, SparesInv, PoolListed, MappedLive, ActingLost, MarkedInHand,
         NEW j \in Jobs \ mislaid, Live(j), HostListed(j), KeysSame(j) \/ GraceStep(j),
         [Next]_vars
  PROVE  Held(j)' \/ Cancelling(j) \/ Writing(j)
<1>1. CASE \E i \in Instances : EvictVanished(i)
  BY <1>1, EvictHolds
<1>2. CASE ScaleDownDestroy
  BY <1>2, DestroyHolds
<1>3. CASE ~ScaleDownDestroy /\ \A i \in Instances : ~EvictVanished(i)
  <2>1. PoolKept
    BY <1>3, PoolStays
  <2>2. kv'[j].inst = kv[j].inst
    BY DEF KeysSame, GraceStep, MappingSame
  <2>3. kv[j].inst \in Instances
    BY DEF HostListed, TypeInv, TypeOK, JobKeys, InstOrNone
  <2>. QED BY <2>1, <2>2, <2>3 DEF PoolKept, HostListed, Held
<1>. QED BY <1>1, <1>2, <1>3

\* A lost job waits until the tick requeues or settles it.
LEMMA LostGoes ==
  ASSUME TypeInv, NEW j \in Jobs \ mislaid', LostNow(j),
         KeysSame(j) \/ GraceStep(j), TickStep
  PROVE  Held(j)'
<1>1. tick.pc = "interrupt" /\ j \in tick.lost /\ kv[j].status # "SUCCESSFUL"
  BY DEF LostNow
<1>2. CASE InterruptRequeue(j)
  BY <1>2, PushHolds DEF InterruptRequeue, Held
<1>3. CASE InterruptLost(j)
  <2>1. CASE kv[j].status \in {"CANCELLED", "FAILED", "SUCCESSFUL"}
    BY <1>1, <1>3, <2>1 DEF InterruptLost, Over, Held
  <2>2. CASE kv[j].status \notin {"CANCELLED", "FAILED", "SUCCESSFUL"}
    <3>1. kv' = [kv EXCEPT ![j] = Cleared([@ EXCEPT !.status = "FAILED",
                                                    !.inst = None])]
      BY <1>3, <2>2 DEF InterruptLost
    <3>2. kv'[j].status = "FAILED"
      BY <3>1 DEF Cleared, TypeInv, TypeOK, JobKeys
    <3>. QED BY <3>2 DEF Over, Held
  <2>. QED BY <2>1, <2>2
<1>4. CASE LostFails(j)
  <2>1. kv' = [kv EXCEPT ![j] = [@ EXCEPT !.status = "FAILED", !.inst = None]]
    BY <1>4 DEF LostFails
  <2>2. kv'[j].status = "FAILED"
    BY <2>1 DEF TypeInv, TypeOK, JobKeys
  <2>. QED BY <2>2 DEF Over, Held
<1>5. ~TickThrows /\ \A l \in Jobs : ~InterruptFails(l)
  BY <1>1 DEF TickThrows, InterruptFails
<1>6. ASSUME NEW l \in Jobs, l # j,
             InterruptRequeue(l) \/ InterruptLost(l) \/ LostFails(l)
      PROVE  Held(j)'
  <2>. DEFINE t == [tick EXCEPT !.lost = @ \ {l}]
  <2>1. j \in t.lost /\ t \in TickLocals
    BY <1>1, <1>6 DEF TypeInv, TypeOK, TickLocals
  <2>2. tick' = Resume(t)
    BY <1>6 DEF InterruptRequeue, InterruptLost, LostFails
  <2>. HIDE DEF t
  <2>3. tick' = [t EXCEPT !.pc = "interrupt"]
    BY <2>1, <2>2 DEF Resume
  <2>4. tick'.pc = "interrupt" /\ tick'.lost = t.lost
    BY <2>1, <2>3 DEF TickLocals
  <2>5. kv'[j].status = kv[j].status
    BY DEF KeysSame, GraceStep
  <2>. QED BY <1>1, <2>1, <2>4, <2>5 DEF LostNow, Held
<1>. QED BY <1>1, <1>2, <1>3, <1>4, <1>5, <1>6
     DEF TickStep, TickStart, ReconcileEnd, EvictVanished, ReconcileInstance,
         SweepFailed, SettleDrop, DropRequeue, DropRequeueFails, ScaleUp,
         ScaleDownKeep, ScaleDownProbe, NoScaleUp, SweepDone, ScaleUpStart,
         SpawnFails, ScaleDownDrain, ScaleDownRelease, ScaleDownDestroy,
         DispatchNone, DispatchClaim, DispatchPost, DispatchRefused, TickThrows,
         DispatchRecord, DispatchRecordFails, DispatchUnclaim, DispatchCount,
         DispatchGiveBack

\* What the process knows of jobs, between two steps without a restart.
HolderView == /\ SparesInv /\ PoolListed /\ MappedLive /\ ActingLost
              /\ UnsubmittedUnnamed /\ PollerFollows

\* A job whose keys do not change keeps a holder.
LEMMA HolderGoes ==
  ASSUME TypeInv, HolderView, MarkedInHand, [Next]_vars, crashes' = 0,
         NEW j \in Jobs \ mislaid', Live(j), Live(j)', Held(j), KeysSame(j) \/ GraceStep(j)
  PROVE  Held(j)'
<1>0. j \in Jobs \ mislaid
  BY MislaidGrows
<1>1. CASE Cancelling(j) \/ Writing(j)
  BY <1>1, HandsGo, LiveEnds DEF Cancelling, Writing, HolderView, Held
<1>2. CASE InQueue(j)
  BY <1>2, QueueGoes, LiveEnds DEF HolderView, Held
<1>3. CASE InHand(j)
  <2>1. CASE UNCHANGED vars
    BY <1>3, <2>1 DEF vars, InHand, Held
  <2>. QED BY <1>3, <2>1, HandGoes, OthersKeepHand DEF Next, HolderView, Held
<1>4. CASE Over(j)
  BY <1>4 DEF KeysSame, GraceStep, Over, Held
<1>5. CASE HostListed(j)
  <2>1. Held(j)' \/ Cancelling(j) \/ Writing(j)
    BY <1>0, <1>5, HostGoes DEF HolderView
  <2>. QED BY <1>1, <2>1
<1>6. CASE LostNow(j)
  <2>1. CASE TickStep
    BY <1>6, <2>1, LostGoes
  <2>2. CASE UNCHANGED vars \/ PollerStep \/ SweepStep \/ ApiStep \/ Environment
    <3>1. tick'.pc = tick.pc /\ tick'.lost = tick.lost
      BY <2>2, OthersKeepHand DEF vars
    <3>2. kv'[j].status = kv[j].status
      BY DEF KeysSame, GraceStep
    <3>. QED BY <1>6, <3>1, <3>2 DEF LostNow, Held
  <2>. QED BY <2>1, <2>2 DEF Next
<1>. QED BY <1>1, <1>2, <1>3, <1>4, <1>5, <1>6 DEF Held

\* No step leaves an unsettled job without a holder.
LEMMA NextHeld ==
  ASSUME TypeInv, HolderView, MarkedInHand, LiveHeld, [Next]_vars, crashes' = 0
  PROVE  LiveHeld'
<1>. SUFFICES ASSUME NEW j \in Jobs \ mislaid', Live(j)'
              PROVE  Held(j)'
  BY DEF LiveHeld
<1>1. CASE Writing(j)'
  BY <1>1 DEF Held
<1>2. CASE Submit(j)
  BY <1>2, PushHolds DEF Submit, Held
<1>3. CASE Live(j)
  <2>1. Held(j) /\ KeysStep(j)
    BY <1>3, KeysGo, MislaidGrows DEF LiveHeld
  <2>2. CASE KeysSame(j) \/ GraceStep(j)
    BY <1>3, <2>1, <2>2, HolderGoes
  <2>3. CASE ~KeysSame(j) /\ ~GraceStep(j)
    BY <2>1, <2>3, KeysHold DEF HolderView
  <2>. QED BY <2>2, <2>3
<1>. QED BY <1>1, <1>2, <1>3, LiveGoes

\* The process has restarted if it ever did.
LEMMA CrashesKept ==
  ASSUME TypeInv, [Next]_vars, crashes' = 0
  PROVE  crashes = 0
<1>1. CASE UNCHANGED crashes
  BY <1>1
<1>2. CASE Crash
  BY <1>2 DEF Crash, TypeInv, TypeOK
<1>. QED BY <1>1, <1>2
     DEF Next, vars, TickStep, TickStart, ReconcileEnd, EvictVanished,
         ReconcileInstance, InterruptRequeue, InterruptLost, InterruptFails,
         LostFails, SweepFailed, SettleDrop, DropRequeue, DropRequeueFails,
         ScaleUp, ScaleDownKeep, ScaleDownProbe, NoScaleUp, ScaleUpStart,
         SpawnFails, ScaleDownDrain, ScaleDownRelease, ScaleDownDestroy,
         DispatchNone, DispatchClaim, DispatchPost, DispatchRefused, TickThrows,
         DispatchRecord, DispatchRecordFails, DispatchUnclaim, DispatchCount,
         DispatchGiveBack, PollerStep, PollFetch, PollUnreachable, PollSuccess,
         PollFailure, PollRetry, PollRequeue, PollRequeueFails, PollWrite,
         PollCount, SweepStep, SweepTerminalJob, StallDetected, ApiStep, Submit,
         SubmitRejected, SubmitTimesOut, CancelStart, CancelJob,
         CancelUndrained, CancelMark, CancelThrows, CancelSave, CancelFail,
         Environment, RunEnds, EncoreCallback, InstanceVanishes,
         IdleTimeElapses, BackoffElapses, GraceElapses, GateExpires, PinReleased

\* A holder that comes back to the job, once every process is idle.
LEMMA IdleHeld ==
  ASSUME TypeInv, LiveHeld
  PROVE  NotStranded
<1>. SUFFICES ASSUME tick.pc = "idle", poller.pc = "idle", canceller.pc = "idle",
                     NEW j \in Jobs \ mislaid, Live(j)
              PROVE  \/ \E e \in queue : e.job = j
                     \/ kv[j].status \in {"FAILED", "CANCELLED"}
                     \/ \E i \in Instances : kv[j].inst = i /\ pool[i].in
  BY DEF NotStranded
<1>1. InQueue(j) \/ Over(j) \/ HostListed(j)
  BY DEF LiveHeld, Held, InHand, LostNow, Writing, Cancelling
<1>2. kv[j].inst # None => kv[j].inst \in Instances
  BY DEF TypeInv, TypeOK, JobKeys, InstOrNone
<1>. QED BY <1>1, <1>2 DEF InQueue, Over, HostListed

\* While the process does not restart, no unsettled job is ever forgotten: when
\* the tick, the poller and the cancel request are idle, each is queued, or its
\* instance is one the tick will look at, or its status is one the failure sweep
\* reads, however the steps of the three interleaved and whatever calls failed but
\* for those that put a job back: an entry that was claimed, or a job lost with
\* its instance (hasQueuedOrInflightEntry and the retry path of retry-store.ts,
\* drain-don't-kill and evictVanishedInstances of scaler-loop.ts).
THEOREM NoneStranded == Spec => [](crashes = 0 => NotStranded)
<1>. DEFINE Good == crashes = 0 => MarkedInHand /\ LiveHeld
<1>1. Init => Good
  BY DEF Init, MarkedInHand, LiveHeld, Live
<1>2. TypeInv /\ HolderView /\ Good /\ [Next]_vars => Good'
  BY CrashesKept, NextMarked, NextHeld DEF HolderView
<1>3. TypeInv /\ Good => (crashes = 0 => NotStranded)
  BY IdleHeld
<1>4. Spec => []HolderView
  BY SparesInvariance, PoolListedInvariance, MappedLiveInvariance, LostInvariance,
     NamesInvariance, FollowsInvariance, PTL DEF HolderView
<1>. QED BY <1>1, <1>2, <1>3, <1>4, TypeInvariance, PTL DEF Spec
=============================================================================
