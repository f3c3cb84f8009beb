---------------------------- MODULE EncodeScaler ----------------------------
(***************************************************************************)
(* The encode path of one workspace: the API requests, the scaler tick and *)
(* the callback poller interleaved over the Valkey keys, the job records   *)
(* and Encore.  The rest of Next is the world around them: encodes end,    *)
(* completion callbacks arrive, are late or are lost, timers run out, OSC  *)
(* loses an instance, and the API process restarts.                        *)
(***************************************************************************)
EXTENDS ScalerTick, TLC

-----------------------------------------------------------------------------
(* The callback poller (src/src/pipeline/encore-callback-poller.ts): one   *)
(* message at a time is popped, its Encore job fetched, and the job record *)
(* settled or the job re-queued.  Next to that loop runs the sweep timer,  *)
(* which queues messages the listener lost and reports frozen encodes.     *)
(* poller holds the locals of handleMessageInStack between its awaits.     *)

IdlePoller ==
  [pc |-> "idle", run |-> 0, job |-> None, seen |-> "none",
   success |-> FALSE, retryable |-> FALSE, term |-> None, n |-> 0,
   inst |-> None, rec |-> Gone, applied |-> FALSE]

-----------------------------------------------------------------------------
(* A message is popped and its Encore job fetched. *)

\* resolveUrlFromEncoreUuid, or the message's own URL: a message of an earlier
\* attempt resolves to the attempt Valkey knows now.
ResolvedRun(r) ==
  LET u == kv[runs[r].job].url
  IN  IF runs[r].known /\ u # 0 THEN u ELSE r

\* What handling goes on with.  The local job is looked up once, here, and
\* its status is used later.
Fetched(r, success, retryable) ==
  LET j == runs[r].job
  IN  [IdlePoller EXCEPT !.pc = "handle", !.run = r, !.job = j,
                         !.seen = record[j].st, !.success = success,
                         !.retryable = retryable]

\* Encore answers: QUEUED and IN_PROGRESS are dropped.
PollFetch(r) ==
  /\ poller.pc = "idle" /\ r \in msgs
  /\ LET st == runs[ResolvedRun(r)].st
     IN  /\ st # "gone"
         /\ poller' = IF st = "active" THEN IdlePoller
                      ELSE Fetched(r, st = "ok", st = "transport")
  /\ msgs' = msgs \ {r}
  /\ UNCHANGED <<valkey, record, alive, runs, tick, canceller, ghosts,
                 faults, crashes>>

\* Three answers that were not OK: the message is taken for a success, unless
\* the run's UUID was never mapped to a job.
PollUnreachable(r) ==
  /\ poller.pc = "idle" /\ r \in msgs
  /\ \/ runs[ResolvedRun(r)].st = "gone" /\ UNCHANGED faults
     \/ faults < MaxFaults /\ faults' = faults + 1
  /\ poller' = IF runs[r].known THEN Fetched(r, TRUE, FALSE) ELSE IdlePoller
  /\ msgs' = msgs \ {r}
  /\ UNCHANGED <<valkey, record, alive, runs, tick, canceller, ghosts,
                 crashes>>

-----------------------------------------------------------------------------
(* completeTranscode, and the slot it frees. *)

\* The instance decrementActiveJobs resolves: the one captured before the
\* success was stamped, else the job's mapping k.
SlotInstance(k) == IF poller.term # None THEN poller.term ELSE k.inst

\* decrementActiveJobs has read instance i's record.
SlotRead(p, i) ==
  IF i = None THEN [p EXCEPT !.pc = "count"]
  ELSE IF ~pool[i].in THEN [p EXCEPT !.pc = "count"]
  ELSE [p EXCEPT !.pc = "count", !.inst = i, !.rec = pool[i]]

\* What the handler keeps once the record is settled.
Settled == [IdlePoller EXCEPT !.run = poller.run, !.job = poller.job,
                              !.applied = TRUE]

\* A handler that throws puts its message back (requeueOrDeadLetter).
PollThrow == /\ poller' = IdlePoller
             /\ msgs' = msgs \cup {poller.run}

\* A job never marked running is advanced first, from the status read at the
\* fetch; completeTranscode then reads the record again and settles it, or
\* leaves a success for PollWrite.  term and k are the job's instance and
\* keys as this step found them.
Complete(j, term, k) ==
  LET behind == poller.seen = "queued"
      cur == IF behind THEN [record[j] EXCEPT !.st = "running"] ELSE record[j]
      applies == \/ cur.st \in {"queued", "running"}
                 \/ cur.st = "failed" /\ cur.dropped /\ poller.success
  IN  IF behind /\ ~IsValidJobTransition(record[j].st, "running")
      THEN PollThrow /\ UNCHANGED record
      ELSE /\ record' = IF applies /\ ~poller.success
                          THEN [record EXCEPT ![j] = [st |-> "failed",
                                                      dropped |-> FALSE]]
                          ELSE [record EXCEPT ![j] = cur]
           /\ poller' = IF ~applies THEN IdlePoller
                        ELSE IF poller.success
                          THEN [poller EXCEPT !.pc = "write", !.term = term]
                          ELSE SlotRead(Settled, k.inst)
           /\ UNCHANGED msgs

\* The keys of a job whose success is stamped: before the record is settled.
Stamped(k) == [k EXCEPT !.status = "SUCCESSFUL", !.inst = None,
                        !.term = IF k.inst = None THEN @ ELSE k.inst]

PollSuccess ==
  /\ poller.pc = "handle" /\ poller.success
  /\ LET j == poller.job
     IN  /\ kv' = [kv EXCEPT ![j] = Stamped(@)]
         /\ Complete(j, kv[j].inst, kv[j])
  /\ UNCHANGED <<queue, inflight, pool, alive, runs, tick, canceller, ghosts,
                 faults, crashes>>

\* A failure that decideRetry settles.
PollFailure ==
  /\ poller.pc = "handle" /\ ~poller.success
  /\ RetryDecision(poller.job, poller.retryable) = "settle"
  /\ Complete(poller.job, None, kv[poller.job])
  /\ UNCHANGED <<valkey, alive, runs, tick, canceller, ghosts, faults,
                 crashes>>

\* A failure that is retried, or whose retry is already queued.
PollRetry ==
  /\ poller.pc = "handle" /\ ~poller.success
  /\ LET verdict == RetryDecision(poller.job, poller.retryable)
     IN  /\ verdict # "settle"
         /\ poller' = IF verdict = "skip" THEN IdlePoller
                      ELSE [poller EXCEPT !.pc = "requeue",
                                          !.n = AttemptsSoFar(poller.job)]
  /\ UNCHANGED <<valkey, record, encore, tick, canceller, ghosts, faults,
                 crashes>>

\* The rest of decideRetry, which unmaps the job; the slot is looked up next.
PollRequeue ==
  /\ poller.pc = "requeue"
  /\ RetryRequeue(poller.job, poller.n)
  /\ poller' = SlotRead(poller, SlotInstance(Requeued(kv[poller.job])))
  /\ UNCHANGED <<inflight, pool, record, alive, msgs, tick, canceller,
                 killed, mislaid, faults, crashes>>

\* decideRetry threw: the failure is settled.
PollRequeueFails ==
  /\ poller.pc = "requeue"
  /\ RequeueFails(poller.job)
  /\ kv' = [kv EXCEPT ![poller.job] = Requeued(@)]
  /\ Complete(poller.job, None, Requeued(kv[poller.job]))
  /\ UNCHANGED <<queue, inflight, pool, alive, tick, canceller, ghosts,
                 crashes>>

\* The record is written last, after the asset, unless the repository rejects
\* a transition that is no longer allowed; then the instance that encoded the
\* job is pinned for packaging, before its slot is freed.
PollWrite ==
  /\ poller.pc = "write"
  /\ LET j == poller.job
     IN  IF IsValidJobTransition(record[j].st, "done")
         THEN /\ record' = [record EXCEPT ![j] = [st |-> "done",
                                                  dropped |-> FALSE]]
              /\ kv' = [kv EXCEPT ![j].pin = IF poller.term = None THEN @
                                             ELSE poller.term]
              /\ poller' = SlotRead(Settled, SlotInstance(kv[j]))
              /\ UNCHANGED msgs
         ELSE PollThrow /\ UNCHANGED <<record, kv>>
  /\ UNCHANGED <<queue, inflight, pool, alive, runs, tick, canceller, ghosts,
                 faults, crashes>>

\* Mutant: the count is not held at zero.
DecrementedUnchecked(p) == [p EXCEPT !.active = @ - 1,
                                     !.aged = @ /\ p.active > 1]

\* One job less; lastIdleAt is set when none is left.
Decremented(p) == [p EXCEPT !.active = IF @ = 0 THEN 0 ELSE @ - 1,
                            !.aged = @ /\ p.active > 1]

\* decrementActiveJobs writes the record it read, whole; clearRetryState
\* follows when the settle was applied.
PollCount ==
  /\ poller.pc = "count"
  /\ pool' = IF poller.inst = None THEN pool
             ELSE [pool EXCEPT ![poller.inst] = Decremented(poller.rec)]
  /\ kv' = IF poller.applied THEN [kv EXCEPT ![poller.job] = Cleared(@)]
           ELSE kv
  /\ poller' = IdlePoller
  /\ UNCHANGED <<queue, inflight, record, encore, tick, canceller, ghosts,
                 faults, crashes>>

-----------------------------------------------------------------------------
(* The sweep timer. *)

Swept == {"ok", "transport", "fatal"}        \* SWEEP_STATUSES

\* sweepTerminalJobs: a finished encode whose job is not settled.
SweepTerminalJob(r) ==
  /\ runs[r].st \in Swept /\ runs[r].known
  /\ runs[r].inst \in alive /\ pool[runs[r].inst].in
  /\ record[runs[r].job].st \notin {"done", "failed"}
  /\ r \notin msgs /\ poller.run # r
  /\ msgs' = msgs \cup {r}
  /\ UNCHANGED <<valkey, record, alive, runs, tick, poller, canceller,
                 ghosts, faults, crashes>>

\* recordProgressAndDetectStalls declared an active encode frozen;
\* onTranscodeStalled is the drop path of main.ts.
StallDetected(r) ==
  /\ runs[r].st = "active" /\ pool[runs[r].inst].in
  /\ faults < MaxFaults /\ faults' = faults + 1
  /\ LET j == runs[r].job
         verdict == IF IsTerminal(j) THEN "settle" ELSE RetryDecision(j, TRUE)
     IN  \/ /\ verdict = "settle"
            /\ SettleFailed(j, TRUE)
            /\ kv' = [kv EXCEPT ![j] = Cleared(@)]
            /\ UNCHANGED <<queue, runs, hist>>
         \/ /\ verdict = "retry"
            /\ RetryRequeue(j, AttemptsSoFar(j))
            /\ UNCHANGED record
  /\ UNCHANGED <<inflight, pool, alive, msgs, tick, poller, canceller,
                 killed, mislaid, crashes>>

-----------------------------------------------------------------------------
PollerStep ==
  \/ \E r \in Runs : PollFetch(r) \/ PollUnreachable(r)
  \/ PollSuccess \/ PollFailure \/ PollRetry \/ PollRequeue
  \/ PollRequeueFails \/ PollWrite \/ PollCount

SweepStep == \E r \in Runs : SweepTerminalJob(r) \/ StallDetected(r)

-----------------------------------------------------------------------------
(* The requests: submitTranscode with the scaling client's submit          *)
(* (src/src/pipeline/transcode.ts, src/src/encore-scaler/index.ts), and    *)
(* the two cancels: DELETE /jobs/:id (src/src/routes/jobs.ts), and         *)
(* DELETE /pipelines/:executionId (src/src/routes/pipelines.ts), which     *)
(* alone reaches the scaling client.  canceller holds the locals of the    *)
(* one cancel request in progress.                                         *)

IdleCanceller == [pc |-> "idle", job |-> None, url |-> 0]

\* outstandingJobCount.
Outstanding == Cardinality(queue) + Cardinality(inflight)

\* Below the throughput cap: the entry is queued and its status set.
Submit(j) ==
  /\ record[j].st = "none" /\ Outstanding < QueueCap
  /\ record' = [record EXCEPT ![j].st = "queued"]
  /\ Push(j, 0, TRUE)
  /\ kv' = [kv EXCEPT ![j].status = "QUEUED"]
  /\ UNCHANGED <<inflight, pool, encore, tick, poller, canceller, ghosts,
                 faults, crashes>>

\* assertUnderJobThroughputCap threw: the job is recorded failed.
SubmitRejected(j) ==
  /\ record[j].st = "none" /\ Outstanding >= QueueCap
  /\ record' = [record EXCEPT ![j].st = "failed"]
  /\ UNCHANGED <<valkey, encore, tick, poller, canceller, ghosts, faults,
                 crashes>>

\* withDependencyTimeout gave up on the LPUSH, which may still have landed.
SubmitTimesOut(j) ==
  /\ record[j].st = "none" /\ Outstanding < QueueCap
  /\ faults < MaxFaults /\ faults' = faults + 1
  /\ record' = [record EXCEPT ![j].st = "failed"]
  /\ Push(j, 0, TRUE) \/ UNCHANGED queue
  /\ UNCHANGED <<inflight, kv, pool, encore, tick, poller, canceller, ghosts,
                 crashes>>

-----------------------------------------------------------------------------
(* DELETE /jobs/:id *)

\* A live job.  No workspace with this scaler has an Encore client among its
\* connections, so the request goes straight to the local record.
CancelJob(j) ==
  /\ canceller.pc = "idle" /\ j \in Cancellable
  /\ record[j].st \in {"queued", "running"}
  /\ canceller' = [pc |-> "save", job |-> j, url |-> 0]
  /\ UNCHANGED <<valkey, record, encore, tick, poller, ghosts, faults, crashes>>

\* The record, unless the repository rejects the transition.
CancelSave ==
  /\ canceller.pc = "save"
  /\ LET j == canceller.job
     IN  record' = IF IsValidJobTransition(record[j].st, "cancelled")
                     THEN [record EXCEPT ![j].st = "cancelled"]
                     ELSE record
  /\ canceller' = IdleCanceller
  /\ UNCHANGED <<valkey, encore, tick, poller, ghosts, faults, crashes>>

-----------------------------------------------------------------------------
(* DELETE /pipelines/:executionId *)

\* A step that is not done: the queue drain of the client's cancel,
\* resolveEncoreCancelUrl and the POST.
CancelStart(j) ==
  /\ canceller.pc = "idle" /\ j \in Cancellable
  /\ record[j].st \notin {"none", "done"}
  /\ queue' = {e \in queue : e.job # j}
  /\ CancelRun(kv[j].url)
  /\ canceller' = [pc |-> "mark", job |-> j, url |-> kv[j].url]
  /\ UNCHANGED <<inflight, kv, pool, record, alive, msgs, tick, poller,
                 ghosts, faults, crashes>>

\* The client's cancel throws on its first read: nothing is drained.
CancelUndrained(j) ==
  /\ canceller.pc = "idle" /\ j \in Cancellable
  /\ record[j].st \notin {"none", "done"}
  /\ canceller' = [pc |-> "fail", job |-> j, url |-> 0]
  /\ UNCHANGED <<valkey, record, encore, tick, poller, ghosts, faults, crashes>>

\* The local status, and recordOperatorCancel when a URL was resolved.
CancelMark ==
  /\ canceller.pc = "mark"
  /\ kv' = CancelKeys(canceller.job, canceller.url)
  /\ pool' = IF canceller.url = 0 THEN pool ELSE CancelDrained(canceller.job)
  /\ canceller' = [canceller EXCEPT !.pc = "fail"]
  /\ UNCHANGED <<queue, inflight, record, encore, tick, poller, ghosts,
                 faults, crashes>>

\* It throws before its status is written; the request goes on.
CancelThrows ==
  /\ canceller.pc = "mark"
  /\ canceller' = [canceller EXCEPT !.pc = "fail"]
  /\ UNCHANGED <<valkey, record, encore, tick, poller, ghosts, faults, crashes>>

\* The linked job is marked failed, unless the repository rejects that.
CancelFail ==
  /\ canceller.pc = "fail"
  /\ LET j == canceller.job
     IN  record' = IF IsValidJobTransition(record[j].st, "failed")
                     THEN [record EXCEPT ![j].st = "failed"]
                     ELSE record
  /\ canceller' = IdleCanceller
  /\ UNCHANGED <<valkey, encore, tick, poller, ghosts, faults, crashes>>

-----------------------------------------------------------------------------
ApiStep ==
  \/ \E j \in Jobs : \/ Submit(j) \/ SubmitRejected(j) \/ SubmitTimesOut(j)
                     \/ CancelJob(j) \/ CancelStart(j) \/ CancelUndrained(j)
  \/ CancelSave \/ CancelMark \/ CancelThrows \/ CancelFail

-----------------------------------------------------------------------------
(* The initial state. *)

Init ==
  /\ queue = {} /\ inflight = {}
  /\ kv = [j \in Jobs |-> NoKeys]
  /\ pool = [i \in Instances |-> Gone]
  /\ record = [j \in Jobs |-> [st |-> "none", dropped |-> FALSE]]
  /\ alive = {}
  /\ runs = [r \in Runs |-> FreeRun]
  /\ msgs = {}
  /\ tick = IdleTick /\ poller = IdlePoller /\ canceller = IdleCanceller
  /\ hist = [j \in Jobs |-> [retries |-> 0, interrupts |-> 0,
                             encoded |-> FALSE]]
  /\ killed = {} /\ mislaid = {}
  /\ faults = 0 /\ crashes = 0

-----------------------------------------------------------------------------
(* Encore and OSC (external). *)

\* An encode ends; a failure is one of the bounded faults.
RunEnds(r) ==
  /\ runs[r].st = "active"
  /\ \E st \in {"ok", "transport", "fatal"} :
       /\ IF st = "ok" THEN UNCHANGED faults
          ELSE faults < MaxFaults /\ faults' = faults + 1
       /\ runs' = [runs EXCEPT ![r].st = st]
       /\ hist' = [hist EXCEPT ![runs[r].job].encoded = @ \/ st = "ok"]
  /\ UNCHANGED <<valkey, record, alive, msgs, tick, poller, canceller, killed,
                 mislaid, crashes>>

\* The callback listener enqueues a successful encode, once if ever.
EncoreCallback(r) ==
  /\ runs[r].st = "ok" /\ ~runs[r].called
  /\ runs' = [runs EXCEPT ![r].called = TRUE]
  /\ msgs' = msgs \cup {r}
  /\ UNCHANGED <<valkey, record, alive, tick, poller, canceller, ghosts,
                 faults, crashes>>

\* An instance disappears from OSC, with everything it was running.
InstanceVanishes(i) ==
  /\ i \in alive
  /\ faults < MaxFaults /\ faults' = faults + 1
  /\ alive' = alive \ {i}
  /\ runs' = Destroyed(i)
  /\ UNCHANGED <<valkey, record, msgs, tick, poller, canceller, ghosts,
                 crashes>>

-----------------------------------------------------------------------------
(* Time. *)

\* notBefore passes, for an entry in the queue or in the tick's hand.
BackoffElapses(e) ==
  /\ ~e.due
  /\ LET elapsed(S) == {IF f = e THEN [e EXCEPT !.due = TRUE] ELSE f : f \in S}
     IN  /\ queue' = elapsed(queue)
         /\ inflight' = elapsed(inflight)
         /\ tick' = [tick EXCEPT !.claim = elapsed(@)]
  /\ UNCHANGED <<kv, pool, record, encore, poller, canceller, ghosts, faults,
                 crashes>>

\* idleTimeoutMs passes since lastIdleAt, be the instance busy or not.
IdleTimeElapses(i) ==
  /\ pool[i].in /\ ~pool[i].aged
  /\ pool' = [pool EXCEPT ![i].aged = TRUE]
  /\ UNCHANGED <<queue, inflight, kv, record, encore, tick, poller, canceller,
                 ghosts, faults, crashes>>

\* CANCEL_RECLAIM_GRACE_MS passes.
GraceElapses(j) ==
  /\ kv[j].cancelReq = "fresh"
  /\ kv' = [kv EXCEPT ![j].cancelReq = "ripe"]
  /\ UNCHANGED <<queue, inflight, pool, record, encore, tick, poller,
                 canceller, ghosts, faults, crashes>>

\* The partial-visibility marker expires.
GateExpires(j) ==
  /\ kv[j].passes = 1
  /\ kv' = [kv EXCEPT ![j].passes = 0]
  /\ UNCHANGED <<queue, inflight, pool, record, encore, tick, poller,
                 canceller, ghosts, faults, crashes>>

\* The packager has read the job document, packaging is not part of this
\* pipeline, or the pin's TTL passes.
PinReleased(j) ==
  /\ kv[j].pin # None
  /\ kv' = [kv EXCEPT ![j].pin = None]
  /\ UNCHANGED <<queue, inflight, pool, record, encore, tick, poller,
                 canceller, ghosts, faults, crashes>>

-----------------------------------------------------------------------------
(* The API process stops and starts again: everything in memory is gone. *)

\* recoverProcessingQueue returns the message in hand, unless the process
\* stopped between the pop and the ZADD to the processing set.
Crash ==
  /\ crashes < MaxCrashes /\ crashes' = crashes + 1
  /\ \/ msgs' = IF poller.pc = "idle" THEN msgs ELSE msgs \cup {poller.run}
     \/ poller.pc = "handle" /\ UNCHANGED msgs
  /\ tick' = IdleTick /\ poller' = IdlePoller /\ canceller' = IdleCanceller
  /\ UNCHANGED <<valkey, record, alive, runs, ghosts, faults>>

-----------------------------------------------------------------------------
Environment ==
  \/ \E r \in Runs : RunEnds(r) \/ EncoreCallback(r)
  \/ \E i \in Instances : InstanceVanishes(i) \/ IdleTimeElapses(i)
  \/ \E e \in queue \cup tick.claim : BackoffElapses(e)
  \/ \E j \in Jobs : GraceElapses(j) \/ GateExpires(j) \/ PinReleased(j)
  \/ Crash

Next == TickStep \/ PollerStep \/ SweepStep \/ ApiStep \/ Environment

Spec == Init /\ [][Next]_vars

-----------------------------------------------------------------------------
(* Fairness. *)

\* The tick and the sweep run on timers and the poller in a loop; back-off and
\* pin run out.  A callback may be lost, an instance need not grow old, and
\* messages may overtake each other.
SystemFairness ==
  /\ WF_vars(TickStep) /\ WF_vars(PollerStep)
  /\ WF_vars(\E e \in queue \cup tick.claim : BackoffElapses(e))
  /\ \A j \in Jobs : WF_vars(PinReleased(j))
  /\ \A r \in Runs : WF_vars(SweepTerminalJob(r))

\* A cancel request runs to its end and its grace window passes; any encode
\* may freeze.
FrozenSpec == /\ Spec /\ SystemFairness
              /\ WF_vars(CancelSave \/ CancelMark \/ CancelThrows \/ CancelFail)
              /\ \A j \in Jobs : WF_vars(GraceElapses(j))

\* Encodes end.
FairSpec == Spec /\ SystemFairness /\ WF_vars(\E r \in Runs : RunEnds(r))

-----------------------------------------------------------------------------
(* Properties. *)

RunsOf(j) == {r \in Runs : runs[r].job = j}

Live(j) == record[j].st \in {"queued", "running"}

\* The entries of each job carry fewer attempts than the bound, however many
\* retries poller, tick and stall detector interleave; only an interruption,
\* which is not a failure of the encode, moves it (recordDispatch,
\* decideRetry, requeueInterruptedByScaleDown).
AttemptBudget ==
  /\ \A j \in Jobs : kv[j].attempts <= MaxAttempts + hist[j].interrupts
  /\ \A e \in queue \cup inflight :
       e.attempts < MaxAttempts + hist[e.job].interrupts

\* Scale-down never destroys an instance that runs an encode somebody wants,
\* whatever the tracked counts say (drain-don't-kill, scaler-loop.ts step 4).
ScaleDownSparesLiveWork == killed = {}

\* While nothing is being handled, each unsettled job has a holder that will
\* come back to it: a queue entry, a message, an encode or a mapping that a
\* timer looks at, or a status the failure sweep reads.  Only the calls that put
\* a job back may lose it, by failing: the LREM and RPUSH of an entry that was
\* claimed, and the re-queue of a job lost with its instance.
NotStranded ==
  tick.pc = "idle" /\ poller.pc = "idle" /\ canceller.pc = "idle" =>
    \A j \in Jobs \ mislaid : Live(j) =>
      \/ \E e \in queue : e.job = j
      \/ kv[j].status \in {"FAILED", "CANCELLED"}
      \/ \E r \in RunsOf(j) :
           \/ r \in msgs
           \/ runs[r].st = "active"
           \/ /\ runs[r].st \in Swept /\ runs[r].known
              /\ pool[runs[r].inst].in
      \/ \E i \in Instances : kv[j].inst = i /\ pool[i].in

\* reconcile declares a job lost only if no instance that answered still runs
\* it, although the mapping it starts from may be stale and the probe is older
\* than the retries the poller and the stall detector queue meanwhile.
DropsAreReal ==
  \A j \in Jobs :
    kv[j].status # "FAILED" /\ kv'[j].status = "FAILED"
    => \A r \in RunsOf(j) :
         runs[r].st = "active" => \/ ~pool[runs[r].inst].in
                                  \/ ~tick.real[runs[r].inst].ok
DropsReal == [][DropsAreReal]_vars

\* Every queue entry is spent on one encode: while no call fails a job is
\* encoded once, and once more for each retry or interruption, across restarts
\* between any two steps (RPOPLPUSH, the LREM after dispatch).
EncodesAccountedFor ==
  \A j \in Jobs :
    Cardinality(RunsOf(j)) <= 1 + hist[j].retries + hist[j].interrupts
EncodesSpent == faults = 0 => EncodesAccountedFor

\* While no call fails a job is never active on two instances at once, with
\* two jobs and across restarts (retry-store.ts, #745).
OneEncodePerJob ==
  \A j \in Jobs :
    Cardinality({r \in RunsOf(j) : runs[r].st = "active"}) <= 1
OneEncodeEach == faults = 0 => OneEncodePerJob

\* A submitted job is settled in the end: done, failed or cancelled
\* (scaler-loop.ts: retried, never lost), unless the call that was to put it
\* back failed.
EventuallySettled ==
  \A j \in Jobs : Live(j) ~> IsTerminal(j) \/ j \in mislaid

\* A completion that races a cancel never overturns it, whichever of poller,
\* tick and request writes last (completeTranscode, settleFailedTranscode).
CancelledIsFinal ==
  [][\A j \in Jobs : record[j].st = "cancelled"
                      => record'[j].st = "cancelled"]_vars

\* An encode cancelled with its pipeline that ignores the cancel does not hold
\* its instance for ever: past the grace window the instance is destroyed,
\* unless a further cancel opens a new one (cancelled-job-reclaim.ts, #1219).
CancelledEncodeStops ==
  \A r \in Runs, j \in Jobs :
    /\ runs[r].st = "active" /\ runs[r].job = j /\ kv[j].url = r
    /\ kv[j].status = "CANCELLED" /\ kv[j].cancelReq = "ripe"
    ~> runs[r].st # "active" \/ kv[j].cancelReq # "ripe"

-----------------------------------------------------------------------------
(* What a comment promises and the code does not keep. *)

\* An instance is never given a second encode while it runs one: dispatch
\* trusts a snapshot of the count that tick and poller write whole
\* (JOBS_PER_INSTANCE).
OneEncodePerInstance ==
  \A i \in Instances : Cardinality(ActiveRuns(i)) <= JobsPerInstance

-----------------------------------------------------------------------------
(* For TLC: the names of jobs and of instances are interchangeable, which  *)
(* the runs without temporal properties use.                               *)

Symmetry == Permutations(Jobs) \cup Permutations(Instances)

\* A second fault is the last step of a behaviour in which a failed call has
\* mislaid the job.
FewMislaid == mislaid = {} \/ faults <= 1

\* One disturbance per behaviour, be it a second job, a fault or a restart; and
\* with two jobs also the reconcile of a tick that did not hear from an
\* instance.
FewDisturbances ==
  LET jobs == Cardinality({j \in Jobs : record[j].st # "none"})
  IN  \/ jobs + faults + crashes <= 2
      \/ /\ jobs <= 2 /\ crashes = 0 /\ poller.pc = "idle"
         /\ tick.pc = "reconcile" /\ PoolVisibilityIsPartial
=============================================================================
