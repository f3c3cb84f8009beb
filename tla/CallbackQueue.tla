--------------------------- MODULE CallbackQueue ---------------------------
(***************************************************************************)
(* The completion queue of one stack Valkey: the sorted set that callback  *)
(* listeners and the sweep fill, the loop that empties it in two phases    *)
(* (src/src/pipeline/encore-callback-poller.ts) and the registry that      *)
(* starts and stops that loop (stack-callback-poller-registry.ts).  What a *)
(* message does when it is applied is EncodeScaler's subject; here the     *)
(* handler succeeds or throws.                                             *)
(***************************************************************************)
EXTENDS Naturals, Sequences, SequencesExt

CONSTANTS
  Msgs,         \* completions, one per finished encode
  Poison,       \* those whose handling always throws
  Pollers,      \* pollers started over time on this connection
  None,
  MaxAttempts,  \* MAX_MESSAGE_ATTEMPTS
  MaxThrows,    \* bound: handlers of sound messages that throw
  MaxFaults,    \* bound: Valkey calls of the loop that fail
  MaxStops      \* bound: stops and restarts

ASSUME QueueAssumption ==
  /\ Poison \subseteq Msgs /\ None \notin Msgs
  /\ MaxAttempts \in Nat \ {0} /\ MaxThrows \in Nat
  /\ MaxFaults \in Nat /\ MaxStops \in Nat

VARIABLES
  queue,       \* the sorted set, lowest score first
  processing,  \* <queueKey>:processing
  attempts,    \* <queueKey>:attempts
  dead,        \* <queueKey>:dead
  pollers,     \* the loops: program counter, message in hand, abort signal
  sweeping,    \* messages the sweep has decided to add
  settled,     \* messages whose job record is terminal
  called,      \* messages whose listener has called back
  up,          \* messages whose Encore instance still answers
  budget       \* what is left of the bounds

sets == <<queue, processing, attempts, dead>>
vars == <<queue, processing, attempts, dead, pollers, sweeping, settled,
          called, up, budget>>

-----------------------------------------------------------------------------
\* A member of the sorted set; `late` says that its score is in the future.
Member == [msg : Msgs, late : BOOLEAN]

\* `staged` records that the message in hand got into the processing set.
Loop == [pc : {"off", "recover", "pop", "popped", "handle", "ack", "failed",
               "requeue", "bury", "unstage"},
         msg : Msgs \cup {None}, todo : SUBSET Msgs, aborted : BOOLEAN,
         staged : BOOLEAN]
OffLoop == [pc |-> "off", msg |-> None, todo |-> {}, aborted |-> FALSE,
            staged |-> FALSE]

Queued == {queue[k].msg : k \in 1 .. Len(queue)}

Place(m) == CHOOSE k \in 1 .. Len(queue) : queue[k].msg = m

\* ZADD moves a member that is there already.
Without(m) == IF m \in Queued THEN RemoveAt(queue, Place(m)) ELSE queue

\* A sorted set: a member has one score, and those due come before those
\* that are late.
SortedSet(q) ==
  /\ q \in Seq(Member)
  /\ \A k, l \in 1 .. Len(q) : q[k].msg = q[l].msg => k = l
  /\ \A k, l \in 1 .. Len(q) : k < l /\ q[k].late => q[l].late

\* The sets keep their shape.
TypeOK ==
  /\ SortedSet(queue)
  /\ processing \subseteq Msgs /\ dead \subseteq Msgs
  /\ attempts \in [Msgs -> Nat]
  /\ pollers \in [Pollers -> Loop]
  /\ sweeping \subseteq Msgs /\ settled \subseteq Msgs
  /\ called \subseteq Msgs /\ up \subseteq Msgs
  /\ budget \in [throws : Nat, faults : Nat, stops : Nat]

Init ==
  /\ queue = <<>> /\ processing = {} /\ dead = {}
  /\ attempts = [m \in Msgs |-> 0]
  /\ pollers = [p \in Pollers |-> OffLoop]
  /\ sweeping = {} /\ settled = {} /\ called = {} /\ up = Msgs
  /\ budget = [throws |-> MaxThrows, faults |-> MaxFaults, stops |-> MaxStops]

\* ZADD at position k; due members stay before late ones.
AddAt(m, late, k) ==
  /\ k \in 1 .. Len(Without(m)) + 1
  /\ IF late THEN \A l \in k .. Len(Without(m)) : Without(m)[l].late
             ELSE \A l \in 1 .. k - 1 : ~Without(m)[l].late
  /\ queue' = InsertAt(Without(m), k, [msg |-> m, late |-> late])

\* ZADD with the present time: behind every due member, before the late ones.
AddNow(m) ==
  \E k \in 1 .. Len(queue) + 1 :
    /\ \A l \in k .. Len(Without(m)) : Without(m)[l].late
    /\ AddAt(m, FALSE, k)

\* ZADD with a score in the future: somewhere among the late members, whose
\* back-offs differ.
AddLate(m) == \E k \in 1 .. Len(queue) + 1 : AddAt(m, TRUE, k)

\* ZADD with a score that was kept: anywhere.
AddBack(m) ==
  \E k \in 1 .. Len(queue) + 1, late \in BOOLEAN : AddAt(m, late, k)

Running(p) == pollers[p].pc # "off" /\ ~pollers[p].aborted

Goto(p, pc) == pollers' = [pollers EXCEPT ![p].pc = pc]

\* Back to `while (!signal.aborted)`.
EndIteration(p) ==
  pollers' = [pollers EXCEPT ![p] = IF @.aborted THEN OffLoop
                                    ELSE [OffLoop EXCEPT !.pc = "pop"]]

-----------------------------------------------------------------------------
(* The loop. *)

\* StackCallbackPollerRegistry.sync: one poller per connection.
Start(p) ==
  /\ pollers[p].pc = "off" /\ \A q \in Pollers : ~Running(q)
  /\ pollers' = [pollers EXCEPT
                   ![p] = [OffLoop EXCEPT !.pc = "recover",
                                          !.todo = processing]]
  /\ UNCHANGED <<sets, sweeping, called, settled, up, budget>>

\* recoverProcessingQueue, one member of the list it read.
Recover(p, m) ==
  /\ pollers[p].pc = "recover" /\ m \in pollers[p].todo
  /\ AddBack(m)
  /\ processing' = processing \ {m}
  /\ pollers' = [pollers EXCEPT ![p].todo = @ \ {m}]
  /\ UNCHANGED <<attempts, dead, sweeping, called, settled, up, budget>>

\* The recovery scan fails: the loop starts, what is left stays staged.
RecoverFails(p) ==
  /\ pollers[p].pc = "recover" /\ budget.faults > 0
  /\ budget' = [budget EXCEPT !.faults = @ - 1]
  /\ EndIteration(p)
  /\ UNCHANGED <<sets, sweeping, called, settled, up>>

Recovered(p) ==
  /\ pollers[p].pc = "recover" /\ pollers[p].todo = {}
  /\ EndIteration(p)
  /\ UNCHANGED <<sets, sweeping, called, settled, up, budget>>

\* BZPOPMIN.
Pop(p) ==
  /\ pollers[p].pc = "pop" /\ queue # <<>>
  /\ queue' = Tail(queue)
  /\ pollers' = [pollers EXCEPT ![p].pc = "popped",
                                ![p].msg = Head(queue).msg]
  /\ UNCHANGED <<processing, attempts, dead, sweeping, called, settled, up, budget>>

\* The poller was stopped while its pop was answered: the message is in no set.
PopAborted(p) ==
  /\ pollers[p].pc = "popped" /\ pollers[p].aborted
  /\ pollers' = [pollers EXCEPT ![p] = OffLoop]
  /\ UNCHANGED <<sets, sweeping, called, settled, up, budget>>

\* Mutant: the message is handled straight from the pop.
StageNowhere(p) ==
  /\ pollers[p].pc = "popped" /\ ~pollers[p].aborted
  /\ pollers' = [pollers EXCEPT ![p].pc = "handle", ![p].staged = TRUE]
  /\ UNCHANGED <<sets, sweeping, called, settled, up, budget>>

Stage(p) ==
  /\ pollers[p].pc = "popped" /\ ~pollers[p].aborted
  /\ processing' = processing \cup {pollers[p].msg}
  /\ pollers' = [pollers EXCEPT ![p].pc = "handle", ![p].staged = TRUE]
  /\ UNCHANGED <<queue, attempts, dead, sweeping, called, settled, up, budget>>

\* The ZADD into the processing set fails: the catch re-queues the message,
\* which is nowhere else.
StageFails(p) ==
  /\ pollers[p].pc = "popped" /\ ~pollers[p].aborted /\ budget.faults > 0
  /\ budget' = [budget EXCEPT !.faults = @ - 1]
  /\ Goto(p, "failed")
  /\ UNCHANGED <<sets, sweeping, called, settled, up>>

\* handleMessage returns: the job record is terminal.
Handle(p) ==
  /\ pollers[p].pc = "handle" /\ pollers[p].msg \notin Poison
  /\ settled' = settled \cup {pollers[p].msg}
  /\ Goto(p, "ack")
  /\ UNCHANGED <<sets, sweeping, called, up, budget>>

HandleThrows(p) ==
  /\ pollers[p].pc = "handle"
  /\ \/ pollers[p].msg \in Poison /\ UNCHANGED budget
     \/ /\ pollers[p].msg \notin Poison /\ budget.throws > 0
        /\ budget' = [budget EXCEPT !.throws = @ - 1]
  /\ Goto(p, "failed")
  /\ UNCHANGED <<sets, sweeping, called, settled, up>>

\* ZREM from the processing set and HDEL of the counter.
Ack(p) ==
  /\ pollers[p].pc = "ack"
  /\ processing' = processing \ {pollers[p].msg}
  /\ attempts' = [attempts EXCEPT ![pollers[p].msg] = 0]
  /\ EndIteration(p)
  /\ UNCHANGED <<queue, dead, sweeping, called, settled, up, budget>>

\* The ZREM fails: the catch re-queues a message that has been applied.
AckFails(p) ==
  /\ pollers[p].pc = "ack" /\ budget.faults > 0
  /\ budget' = [budget EXCEPT !.faults = @ - 1]
  /\ Goto(p, "failed")
  /\ UNCHANGED <<sets, sweeping, called, settled, up>>

-----------------------------------------------------------------------------
(* requeueOrDeadLetter. *)

\* Mutant: the message leaves the processing set first.
CountUnstaged(p) ==
  /\ pollers[p].pc = "failed"
  /\ LET n == attempts[pollers[p].msg] + 1
     IN  /\ attempts' = [attempts EXCEPT ![pollers[p].msg] = n]
         /\ Goto(p, IF n >= MaxAttempts THEN "bury" ELSE "requeue")
  /\ processing' = processing \ {pollers[p].msg}
  /\ UNCHANGED <<queue, dead, sweeping, called, settled, up, budget>>

\* HINCRBY of the counter decides.
Count(p) ==
  /\ pollers[p].pc = "failed"
  /\ LET n == attempts[pollers[p].msg] + 1
     IN  /\ attempts' = [attempts EXCEPT ![pollers[p].msg] = n]
         /\ Goto(p, IF n >= MaxAttempts THEN "bury" ELSE "requeue")
  /\ UNCHANGED <<queue, processing, dead, sweeping, called, settled, up, budget>>

Requeue(p) ==
  /\ pollers[p].pc = "requeue"
  /\ AddLate(pollers[p].msg)
  /\ Goto(p, "unstage")
  /\ UNCHANGED <<processing, attempts, dead, sweeping, called, settled, up, budget>>

Bury(p) ==
  /\ pollers[p].pc = "bury"
  /\ dead' = dead \cup {pollers[p].msg}
  /\ Goto(p, "unstage")
  /\ UNCHANGED <<queue, processing, attempts, sweeping, called, settled, up, budget>>

\* ZREM from the processing set; a dead-lettered message also loses its
\* counter.
Unstage(p) ==
  /\ pollers[p].pc = "unstage"
  /\ LET m == pollers[p].msg
     IN  /\ processing' = processing \ {m}
         /\ attempts' = IF attempts[m] < MaxAttempts THEN attempts
                        ELSE [attempts EXCEPT ![m] = 0]
  /\ EndIteration(p)
  /\ UNCHANGED <<queue, dead, sweeping, called, settled, up, budget>>

\* A Valkey error on this path: the message is left wherever it is.
RequeueFails(p) ==
  /\ pollers[p].pc \in {"failed", "requeue", "bury", "unstage"}
  /\ budget.faults > 0
  /\ budget' = [budget EXCEPT !.faults = @ - 1]
  /\ EndIteration(p)
  /\ UNCHANGED <<sets, sweeping, called, settled, up>>

-----------------------------------------------------------------------------
(* The sweep, stops and restarts, and the environment. *)

\* sweepTerminalJobs up to its two ZSCOREs.
SweepCheck(m) ==
  /\ \E p \in Pollers : Running(p)
  /\ m \in up /\ m \notin settled
  /\ m \notin Queued \cup processing
  /\ sweeping' = sweeping \cup {m}
  /\ UNCHANGED <<sets, pollers, called, settled, up, budget>>

\* Its ZADD, after the awaits.
SweepAdd(m) ==
  /\ m \in sweeping
  /\ AddNow(m)
  /\ sweeping' = sweeping \ {m}
  /\ UNCHANGED <<processing, attempts, dead, pollers, called, settled, up, budget>>

\* The stop function of a poller: a blocked pop is dropped, anything else runs
\* on to the next look at the signal.
Stop(p) ==
  /\ Running(p) /\ budget.stops > 0
  /\ budget' = [budget EXCEPT !.stops = @ - 1]
  /\ pollers' = [pollers EXCEPT ![p] = IF @.pc = "pop" THEN OffLoop
                                       ELSE [@ EXCEPT !.aborted = TRUE]]
  /\ UNCHANGED <<sets, sweeping, called, settled, up>>

\* The process is restarted: every loop and the sweep forget what they held.
Restart ==
  /\ budget.stops > 0
  /\ budget' = [budget EXCEPT !.stops = @ - 1]
  /\ pollers' = [p \in Pollers |-> OffLoop]
  /\ sweeping' = {}
  /\ UNCHANGED <<sets, called, settled, up>>

\* The callback listener's ZADD: at most one, at any time.
Callback(m) ==
  /\ m \in up \ called
  /\ called' = called \cup {m}
  /\ AddNow(m)
  /\ UNCHANGED <<processing, attempts, dead, pollers, sweeping, settled, up,
                 budget>>

\* Time passes: every score lies in the past.
BackoffPasses ==
  /\ \E k \in 1 .. Len(queue) : queue[k].late
  /\ queue' = [k \in 1 .. Len(queue) |-> [queue[k] EXCEPT !.late = FALSE]]
  /\ UNCHANGED <<processing, attempts, dead, pollers, sweeping, called, settled, up,
                 budget>>

\* The instance is gone, and with it what the sweep could find.
Vanish(m) ==
  /\ m \in up /\ m \notin settled
  /\ up' = up \ {m}
  /\ UNCHANGED <<sets, pollers, sweeping, called, settled, budget>>

LoopStep(p) ==
  \/ RecoverFails(p) \/ Recovered(p) \/ Pop(p) \/ PopAborted(p)
  \/ Stage(p) \/ StageFails(p) \/ Handle(p) \/ HandleThrows(p)
  \/ Ack(p) \/ AckFails(p) \/ Count(p) \/ Requeue(p) \/ Bury(p)
  \/ Unstage(p) \/ RequeueFails(p)
  \/ \E m \in Msgs : Recover(p, m)

Next ==
  \/ \E p \in Pollers : Start(p) \/ LoopStep(p) \/ Stop(p)
  \/ \E m \in Msgs : SweepCheck(m) \/ SweepAdd(m) \/ Callback(m) \/ Vanish(m)
  \/ Restart \/ BackoffPasses

Spec == Init /\ [][Next]_vars

-----------------------------------------------------------------------------
(* Properties. *)

\* A completion that a loop has popped and not staged.
InHand(m) == \E p \in Pollers : pollers[p].msg = m /\ ~pollers[p].staged

\* Where a completion stands for the rest of the system.
Standing(m) ==
  IF m \in settled THEN "applied"
  ELSE IF m \in Queued \cup processing THEN "pending"
  ELSE IF InHand(m) THEN "claimed"
  ELSE IF m \in dead THEN "dead" ELSE "absent"

InboxState == [m \in Msgs |-> Standing(m)]

\* Two-phase processing loses no completion once it is staged: whatever
\* handlers and Valkey calls fail and whenever the loop or the process is
\* stopped, a completion the queue has accepted is pending until it is applied
\* or dead-lettered, but for the moment between its pop and its staging.
Inbox == INSTANCE CompletionInbox WITH state <- InboxState
NoCompletionLost == Inbox!Spec

\* A message in the handler's hands survives a restart: it is in the processing
\* set until the handler has returned, and until it is back in the queue or
\* among the dead letters if the handler threw.
HandledIsStaged ==
  \A p \in Pollers :
    pollers[p].pc \in {"handle", "ack", "failed", "requeue", "bury", "unstage"}
    /\ pollers[p].staged => pollers[p].msg \in processing

StagedUntilApplied == TypeOK /\ HandledIsStaged

\* Poison messages, lost callbacks, stops and restarts do not keep a sound
\* completion from being applied while its instance is up.
Unfinished == \E m \in Msgs \ Poison : m \in up /\ m \notin settled
=============================================================================
