-------------------------- MODULE ScalerActivation --------------------------
(***************************************************************************)
(* The scaler is switched on against the first stack's Valkey when a stack *)
(* is provisioned and off when the last one is gone; a poller drains the   *)
(* completions of every stack's Valkey (main.ts, stack-callback-poller-    *)
(* registry.ts, the hooks of routes/provision.ts).  A reconcile is started *)
(* by every stack change, reads the parameter store twice, either of which *)
(* may fail, and awaits between its decisions; nothing keeps two of them   *)
(* apart.                                                                  *)
(***************************************************************************)
EXTENDS Naturals, FiniteSets

CONSTANTS
    Stacks,      \* stack names
    Reconciles,  \* reconciles that may be under way together
    Serial,      \* a stack changes only while no reconcile is under way
    StoreFails,  \* a delete of a stored config may fail
    MaxIncs,     \* bound: Valkeys a stack name gets
    None

VARIABLES
    config,    \* [Stacks -> incarnation its stored config names, 0 for none]
    inc,       \* [Stacks -> Valkeys of this name so far]
    live,      \* Valkeys that exist: <<stack, incarnation>>
    shared,    \* sharedRedis: the activation Valkey, or None
    options,   \* callbackPollerOptions and activationConnectionId are set
    actPoll,   \* the activation poller runs
    actConn,   \* the Valkey it runs on
    actKey,    \* activationPollerStackKey
    pollers,   \* Valkeys with a poller of their own
    removed,   \* removedStackQueues
    rec,       \* [Reconciles -> [pc, seen]]: seen, the stacks listed and the Valkey of each
    del,       \* the teardown under way, or None
    blind,     \* the last reconcile could not read the parameter store
    misread    \* some reconcile could not
vars == <<config, inc, live, shared, options, actPoll, actConn, actKey, pollers, removed, rec, del,
          blind, misread>>
reads == <<blind, misread>>

---------------------------------------------------------------------------
Idle == [pc |-> "idle", seen |-> {}]
Stored == {<<s, config[s]>> : s \in {t \in Stacks : config[t] > 0}}
AtRest == del = None /\ \A r \in Reconciles : rec[r].pc = "idle"

\* RemovedStackQueues: what a run established of a stack's queue, and the records of
\* stacks no longer listed dropped.
Record(s, present) == IF present THEN removed \ {s} ELSE removed \cup {s}
ForgetUnlisted(listed) == removed \cap listed

Init ==
    /\ config = [s \in Stacks |-> 0] /\ inc = [s \in Stacks |-> 0] /\ live = {}
    /\ shared = None /\ options = FALSE /\ actPoll = FALSE /\ actConn = None /\ actKey = None
    /\ pollers = {} /\ removed = {}
    /\ rec = [r \in Reconciles |-> Idle] /\ del = None
    /\ blind = FALSE /\ misread = FALSE

\* onStackChange: the resolver's cache is dropped and a reconcile is started.
Signal == \E r \in Reconciles : rec[r].pc = "idle" /\ rec' = [rec EXCEPT ![r].pc = "resolve"]

\* A provision run ends: the config is stored, the queue reported present.
Provision(s) ==
    /\ Serial => AtRest
    /\ del = None /\ <<s, config[s]>> \notin live /\ inc[s] < MaxIncs
    /\ inc' = [inc EXCEPT ![s] = @ + 1]
    /\ config' = [config EXCEPT ![s] = inc[s] + 1]
    /\ live' = live \cup {<<s, inc[s] + 1>>}
    /\ removed' = Record(s, TRUE)
    /\ Signal
    /\ UNCHANGED <<shared, options, actPoll, actConn, actKey, pollers, del, reads>>

---------------------------------------------------------------------------
\* activateScaler: the first listed stack's Valkey, its poller, the registry.
Activate(c) ==
    /\ shared' = c /\ options' = TRUE /\ actPoll' = TRUE /\ actConn' = c

\* reconcileScaler, once a stack resolved: activate if off, then list the connections
\* unless the scaler is not wired.
Resolved(r) ==
    /\ rec[r].pc = "resolve" /\ Stored # {}
    /\ IF shared = None THEN \E c \in Stored : Activate(c)
       ELSE UNCHANGED <<shared, options, actPoll, actConn>>
    /\ IF options' THEN actKey' = None /\ rec' = [rec EXCEPT ![r].pc = "list"]
       ELSE rec' = [rec EXCEPT ![r] = Idle] /\ UNCHANGED actKey
    /\ blind' = FALSE
    /\ UNCHANGED <<config, inc, live, pollers, removed, del, misread>>

\* ... and once none did, because none is stored or because the parameter store
\* could not be read: deactivateScaler up to its await of teardownAll.
Deactivate(r) ==
    /\ rec[r].pc = "resolve"
    /\ \/ Stored = {} /\ blind' = FALSE /\ UNCHANGED misread
       \/ blind' = TRUE /\ misread' = TRUE
    /\ IF shared = None
       THEN /\ rec' = [rec EXCEPT ![r] = Idle]
            /\ UNCHANGED <<options, actPoll, actKey, pollers, removed>>
       ELSE /\ actPoll' = FALSE /\ actKey' = None /\ pollers' = {} /\ removed' = {}
            /\ options' = FALSE
            /\ rec' = [rec EXCEPT ![r].pc = "deactivate"]
    /\ UNCHANGED <<config, inc, live, shared, actConn, del>>

\* The rest of deactivateScaler: the registry and the connection are dropped.
Deactivated(r) ==
    /\ rec[r].pc = "deactivate"
    /\ shared' = None
    /\ rec' = [rec EXCEPT ![r] = Idle]
    /\ UNCHANGED <<config, inc, live, options, actPoll, actConn, actKey, pollers, removed, del, reads>>

\* syncStackCallbackPollers reads the listing: each stack with its own Valkey ...
Owned == {<<c[1], c>> : c \in Stored}
List(r) ==
    /\ rec[r].pc = "list"
    /\ rec' = [rec EXCEPT ![r] = [pc |-> "sync", seen |-> Owned]]
    /\ UNCHANGED <<config, inc, live, shared, options, actPoll, actConn, actKey, pollers, removed, del, reads>>

\* ... or, when the parameter store does not answer, the stacks the registry knew
\* before: some with the connection it holds, the others with the activation Valkey.
ListBlind(r) ==
    /\ rec[r].pc = "list"
    /\ \E own, other \in SUBSET Stacks :
          /\ own \cap other = {}
          /\ rec' = [rec EXCEPT ![r] =
                       [pc |-> "sync", seen |-> {p \in Owned : p[1] \in own} \cup (other \X {actConn})]]
    /\ blind' = TRUE /\ misread' = TRUE
    /\ UNCHANGED <<config, inc, live, shared, options, actPoll, actConn, actKey, pollers, removed, del>>

\* Without the gate for the stacks whose Valkey was removed.
SyncUngated(r) ==
    LET seen == rec[r].seen
        act  == {p \in seen : options /\ p[2] = actConn}
    IN  /\ rec[r].pc = "sync"
        /\ actPoll' = (actPoll \/ act # {})
        /\ actKey' = IF actKey = None /\ act # {} THEN (CHOOSE p \in act : TRUE)[1] ELSE actKey
        /\ pollers' = {p[2] : p \in seen \ act}
        /\ removed' = ForgetUnlisted({p[1] : p \in rec[r].seen})
        /\ rec' = [rec EXCEPT ![r] = Idle]
        /\ UNCHANGED <<config, inc, live, shared, options, actConn, del, reads>>

\* ... and converges on it: stacks whose Valkey a teardown removed are skipped, the
\* activation Valkey is its own poller's, the others get one each or lose theirs.
Sync(r) ==
    LET seen == {p \in rec[r].seen : p[1] \notin removed}
        act  == {p \in seen : options /\ p[2] = actConn}
    IN  /\ rec[r].pc = "sync"
        /\ actPoll' = (actPoll \/ act # {})
        /\ actKey' = IF actKey = None /\ act # {} THEN (CHOOSE p \in act : TRUE)[1] ELSE actKey
        /\ pollers' = {p[2] : p \in seen \ act}
        /\ removed' = ForgetUnlisted({p[1] : p \in rec[r].seen})
        /\ rec' = [rec EXCEPT ![r] = Idle]
        /\ UNCHANGED <<config, inc, live, shared, options, actConn, del, reads>>

---------------------------------------------------------------------------
\* A teardown starts: stopCallbackPollersForStack, before the Valkey is removed.
DeleteStart(s) ==
    /\ Serial => AtRest
    /\ del = None /\ config[s] > 0
    /\ del' = [stack |-> s, pc |-> "queue"]
    /\ pollers' = {c \in pollers : c[1] # s}
    /\ IF actPoll /\ actKey = s THEN actPoll' = FALSE /\ actKey' = None
       ELSE UNCHANGED <<actPoll, actKey>>
    /\ UNCHANGED <<config, inc, live, shared, options, actConn, removed, rec, reads>>

\* The queue instance is removed (confirmed absent if an earlier run removed it), or its
\* removal fails.
DeleteQueue ==
    /\ del # None /\ del.pc = "queue"
    /\ \/ live' = live \ {<<del.stack, config[del.stack]>>} /\ del' = [del EXCEPT !.pc = "gone"]
       \/ /\ <<del.stack, config[del.stack]>> \in live
          /\ UNCHANGED live /\ del' = [del EXCEPT !.pc = "kept"]
    /\ UNCHANGED <<config, inc, shared, options, actPoll, actConn, actKey, pollers, removed, rec, reads>>

\* A part of the teardown failed: the config is kept and what became of the queue is
\* reported before the change is signalled.
DeleteFails ==
    /\ del # None /\ del.pc \in {"gone", "kept"}
    /\ removed' = Record(del.stack, del.pc = "kept")
    /\ del' = None
    /\ Signal
    /\ UNCHANGED <<config, inc, live, shared, options, actPoll, actConn, actKey, pollers, reads>>

\* Everything is gone: the config is deleted and the change signalled.
DeleteEnds ==
    /\ del # None /\ del.pc = "gone"
    /\ \/ config' = [config EXCEPT ![del.stack] = 0]
       \/ StoreFails /\ UNCHANGED config
    /\ del' = None
    /\ Signal
    /\ UNCHANGED <<inc, live, shared, options, actPoll, actConn, actKey, pollers, removed, reads>>

Next ==
    \/ \E s \in Stacks : Provision(s) \/ DeleteStart(s)
    \/ DeleteQueue \/ DeleteFails \/ DeleteEnds
    \/ \E r \in Reconciles : Resolved(r) \/ Deactivate(r) \/ Deactivated(r)
                            \/ List(r) \/ ListBlind(r) \/ Sync(r)

Spec == Init /\ [][Next]_vars

---------------------------------------------------------------------------
\* The module-level bindings of main.ts and the teardown under way.
TypeOK ==
    /\ \A s \in Stacks : config[s] \in 0..inc[s] /\ inc[s] \in 0..MaxIncs
    /\ actPoll => actConn # None
    /\ removed \subseteq Stacks /\ actKey \in Stacks \cup {None}
    /\ \A r \in Reconciles : rec[r].pc \in {"idle", "resolve", "list", "sync", "deactivate"}

\* Unless the last reconcile could not read the parameter store: at rest the
\* completions of every stack that is there are drained ("one poller per distinct
\* live connection", stack-callback-poller-registry.ts:78).
Polled == pollers \cup (IF actPoll THEN {actConn} ELSE {})
Drained ==
    AtRest /\ ~blind => \A s \in Stacks : <<s, config[s]>> \in live => <<s, config[s]>> \in Polled

\* As long as every reconcile could read it: at rest nothing polls a Valkey that a
\* teardown removed (main.ts:2698).
NoDeadPoll == AtRest /\ ~misread => Polled \subseteq live

\* No Valkey is drained by two pollers ("so a stack that shares the activation Valkey
\* is not drained twice", main.ts:2670).
DrainedOnce == AtRest /\ actPoll => actConn \notin pollers

\* At rest a scaler that is off leaves no poller behind, whatever switched it off.
OffIsQuiet == AtRest /\ shared = None => Polled = {}

\* Unless the last reconcile could not read the parameter store: at rest the scaler
\* is on exactly when a stack is stored (main.ts:2632).
OnWhenProvisioned == AtRest /\ ~blind => (shared # None <=> Stored # {})
=============================================================================
