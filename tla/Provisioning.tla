---------------------------- MODULE Provisioning ----------------------------
(***************************************************************************)
(* Stacks come and go through routes/provision.ts.  A provision operation  *)
(* creates the companion instances one after another, adopts those that    *)
(* already run, and ends by storing a ready record; when a step fails it   *)
(* removes what it created and stores a failed record.  A teardown loads   *)
(* the record, marks it, removes the instances it names and deletes it     *)
(* (services/deprovision.ts), under a deadline that cannot stop the work   *)
(* already under way.  The packager joins a stack on demand (services/     *)
(* packager-provisioning.ts).  Records are read and written whole, with no *)
(* revision check.                                                         *)
(***************************************************************************)
EXTENDS Naturals, Sequences, SequencesExt, FiniteSets

CONSTANTS
    Names,        \* stack names
    Order,        \* companion services in the order they are created
    Ops,          \* operations, {1, 2, ...}: begun in this order
    Kinds,        \* the operations that may be asked for: "provision", "delete", "packager"
    Serial,       \* is a stack's next operation asked for only when the last one is reported settled?
    Legacy,       \* stacks provisioned before creation times and own credentials
    MaxReads, MaxWrites,  \* bounds: store reads and store writes that fail
    MaxCalls,     \* bound: platform calls that fail
    MaxExpired,   \* bound: teardowns that run into the deadline
    MaxBoots,     \* bound: restarts of the process
    None

Minio == Order[1]
Companions == Range(Order)
Packager == "packager"

VARIABLES
    inst,      \* [Names -> running instances of the stack]
    root,      \* [Names -> the credential its object store was created with]
    maker,     \* [Names -> [service -> the operation that created the instance, 0]]
    rec,       \* [Names -> the stored stack record or None]
    op,        \* [Ops -> what the process knows of the operation]
    inFlight,  \* names with a provision under way
    next,      \* operations begun so far; also the clock creation times are read from
    reads, writes, calls, expired, boots
vars == <<inst, root, maker, rec, op, inFlight, next, reads, writes, calls, expired, boots>>
bounds == <<reads, writes, calls, expired, boots>>

AllServices == Companions \cup {Packager}
\* The shared credential, and creation time, of a legacy stack; 0 also stands for none.
Idle == [kind |-> "none", name |-> None, at |-> "idle", absent |-> FALSE, known |-> None,
         cred |-> 0, i |-> 1, provisioned |-> {}, created |-> {}, todo |-> {}, failed |-> {},
         cfg |-> None, status |-> "none", expiry |-> "armed"]

Record(status, services, born, cred) ==
    [status |-> status, services |-> services, born |-> born, cred |-> cred]

Init ==
    /\ inst = [n \in Names |-> IF n \in Legacy THEN Companions ELSE {}]
    /\ root = [n \in Names |-> 0]
    /\ maker = [n \in Names |-> [s \in AllServices |-> 0]]
    /\ rec = [n \in Names |-> IF n \in Legacy THEN Record("ready", Companions, None, 0) ELSE None]
    /\ op = [o \in Ops |-> Idle]
    /\ inFlight = {} /\ next = 0
    /\ reads = 0 /\ writes = 0 /\ calls = 0 /\ expired = 0 /\ boots = 0

Settled(o) == op[o].status \in {"done", "failed"}
\* Work that has ended; a teardown past its deadline is settled and still at work.
Ended(o) == op[o].at \in {"idle", "over"}
Active(n) == {o \in Ops : op[o].name = n /\ ~(Ended(o) /\ op[o].expiry # "marking")}

ReadFails == reads < MaxReads /\ reads' = reads + 1 /\ UNCHANGED <<writes, calls, expired, boots>>
WriteFails == writes < MaxWrites /\ writes' = writes + 1 /\ UNCHANGED <<reads, calls, expired, boots>>
CallFails == calls < MaxCalls /\ calls' = calls + 1 /\ UNCHANGED <<reads, writes, expired, boots>>

\* ops.update of the operation to a terminal status; settle() of a teardown keeps
\* the first one.
Settle(w, status) ==
    [w EXCEPT !.status = IF w.status \in {"done", "failed"} THEN @ ELSE status,
              !.at = "over", !.expiry = IF @ = "armed" THEN "off" ELSE @]

Begin(n, k) ==
    /\ next + 1 \in Ops /\ k \in Kinds
    /\ Serial => \A o \in Ops : op[o].name = n => op[o].status # "running"
    /\ next' = next + 1

---------------------------------------------------------------------------
(* POST /provision.                                                        *)

\* A second provision of a name in flight reports so and ends.
ProvisionStart(n) ==
    /\ Begin(n, "provision")
    /\ op' = [op EXCEPT ![next + 1] =
                IF n \in inFlight
                THEN [Idle EXCEPT !.kind = "provision", !.name = n, !.at = "over", !.status = "done"]
                ELSE [Idle EXCEPT !.kind = "provision", !.name = n, !.at = "preflight", !.status = "running"]]
    /\ inFlight' = inFlight \cup {n}
    /\ UNCHANGED <<inst, root, maker, rec, bounds>>

\* planObjectStoreCredential: a recorded credential is kept; an object store or a
\* record without one stays on the shared credential; otherwise a new one is made.
PlanCredential(n, o) ==
    IF rec[n] # None THEN rec[n].cred ELSE IF Minio \in inst[n] THEN 0 ELSE o

\* decideStackCreatedAt.
CreatedAt(w, o) == IF w.known # None THEN w.known ELSE IF w.absent THEN o ELSE None

\* The stored record is read: a ready stack is reported as it is (an unstamped one
\* is first given the legacy mark, which orders as absence does).
Preflight(o) ==
    LET w == op[o] n == w.name IN
    /\ w.at = "preflight"
    /\ IF rec[n] # None /\ rec[n].status = "ready"
       THEN op' = [op EXCEPT ![o] = Settle(w, "done")] /\ inFlight' = inFlight \ {n}
       ELSE /\ op' = [op EXCEPT ![o] = [w EXCEPT !.at = "mark", !.absent = rec[n] = None,
                        !.known = IF rec[n] = None THEN None ELSE rec[n].born,
                        !.cred = PlanCredential(n, o)]]
            /\ UNCHANGED inFlight
    /\ UNCHANGED <<inst, root, maker, rec, next, bounds>>

\* The read fails: provisioning goes on with the shared credential and no marker.
PreflightFails(o) ==
    /\ op[o].at = "preflight" /\ ReadFails
    /\ op' = [op EXCEPT ![o].at = "create"]
    /\ UNCHANGED <<inst, root, maker, rec, inFlight, next>>

Mark(o) ==
    LET w == op[o] IN
    /\ w.at = "mark"
    /\ rec' = [rec EXCEPT ![w.name] = Record("provisioning", {}, CreatedAt(w, o), w.cred)]
    /\ op' = [op EXCEPT ![o].at = "create"]
    /\ UNCHANGED <<inst, root, maker, inFlight, next, bounds>>

\* downgradeObjectStorePlanOnUnpersistableId.
MarkFails(o) ==
    /\ op[o].at = "mark" /\ WriteFails
    /\ op' = [op EXCEPT ![o].at = "create", ![o].cred = 0]
    /\ UNCHANGED <<inst, root, maker, rec, inFlight, next>>

Launch(n, s, o, cred) ==
    /\ inst' = [inst EXCEPT ![n] = @ \cup {s}]
    /\ maker' = [maker EXCEPT ![n][s] = o]
    /\ root' = IF s = Minio THEN [root EXCEPT ![n] = cred] ELSE root

\* provision(): create the next companion, or adopt the one that runs.
Create(o) ==
    LET w == op[o] n == w.name s == Order[w.i] IN
    /\ w.at = "create"
    /\ IF s \in inst[n]
       THEN /\ UNCHANGED <<inst, root, maker>>
            /\ op' = [op EXCEPT ![o].at = "setup", ![o].provisioned = @ \cup {s}]
       ELSE /\ Launch(n, s, o, w.cred)
            /\ op' = [op EXCEPT ![o].at = "setup", ![o].provisioned = @ \cup {s},
                                ![o].created = @ \cup {s}]
    /\ UNCHANGED <<rec, inFlight, next, bounds>>

\* The answer of a create is lost and the retry is told that the name is taken.
CreateAnswerLost(o) ==
    LET w == op[o] n == w.name s == Order[w.i] IN
    /\ w.at = "create" /\ s \notin inst[n] /\ CallFails
    /\ Launch(n, s, o, w.cred)
    /\ op' = [op EXCEPT ![o].at = "setup", ![o].provisioned = @ \cup {s}]
    /\ UNCHANGED <<rec, inFlight, next>>

CreateFails(o) ==
    /\ op[o].at = "create" /\ CallFails
    /\ op' = [op EXCEPT ![o].at = "rollback", ![o].todo = op[o].created]
    /\ UNCHANGED <<inst, root, maker, rec, inFlight, next>>

\* The companion is ready and its buckets or databases exist.  The object store
\* only answers to the credential it was created with.
Reachable(o) ==
    LET w == op[o] s == Order[w.i] IN
    s \in inst[w.name] /\ (s = Minio => root[w.name] = w.cred)

Setup(o) ==
    LET w == op[o] IN
    /\ w.at = "setup" /\ Reachable(o)
    /\ op' = [op EXCEPT ![o].at = IF w.i = Len(Order) THEN "refresh" ELSE "create",
                        ![o].i = IF w.i = Len(Order) THEN @ ELSE @ + 1]
    /\ UNCHANGED <<inst, root, maker, rec, inFlight, next, bounds>>

RollBackAll(o) ==
    /\ op[o].at = "setup"
    /\ IF Reachable(o) THEN CallFails ELSE UNCHANGED bounds
    /\ op' = [op EXCEPT ![o].at = "rollback", ![o].todo = op[o].provisioned]
    /\ UNCHANGED <<inst, root, maker, rec, inFlight, next>>

SetupFails(o) ==
    /\ op[o].at = "setup"
    /\ IF Reachable(o) THEN CallFails ELSE UNCHANGED bounds
    /\ op' = [op EXCEPT ![o].at = "rollback", ![o].todo = op[o].created]
    /\ UNCHANGED <<inst, root, maker, rec, inFlight, next>>

\* refreshExistingCreatedAt before the ready and the failed record.
Refresh(o) ==
    LET w == op[o] IN
    /\ w.at \in {"refresh", "refreshFailed"}
    /\ \/ /\ op' = [op EXCEPT ![o].at = IF w.at = "refresh" THEN "persist" ELSE "recordFailed",
                      ![o].known = IF rec[w.name] # None /\ rec[w.name].born # None
                                   THEN rec[w.name].born ELSE @]
          /\ UNCHANGED bounds
       \/ ReadFails /\ op' = [op EXCEPT ![o].at = IF w.at = "refresh" THEN "persist" ELSE "recordFailed"]
    /\ UNCHANGED <<inst, root, maker, rec, inFlight, next>>

\* persistStackConfig; the stack's callback poller is armed and the profiles seeded.
Persist(o) ==
    LET w == op[o] IN
    /\ w.at = "persist"
    /\ rec' = [rec EXCEPT ![w.name] = Record("ready", Companions, CreatedAt(w, o), w.cred)]
    /\ op' = [op EXCEPT ![o] = Settle(w, "done")]
    /\ inFlight' = inFlight \ {w.name}
    /\ UNCHANGED <<inst, root, maker, next, bounds>>

PersistFails(o) ==
    /\ op[o].at = "persist" /\ WriteFails
    /\ op' = [op EXCEPT ![o] = Settle(op[o], "failed")]
    /\ inFlight' = inFlight \ {op[o].name}
    /\ UNCHANGED <<inst, root, maker, rec, next>>

---------------------------------------------------------------------------
(* Removing instances: teardownService.                                    *)

Gone(n, s) == inst' = [inst EXCEPT ![n] = @ \ {s}]

\* The instances of todo go in teardown order: packager, then the companions in
\* reverse order of creation.
TeardownNext(S) ==
    IF Packager \in S THEN Packager
    ELSE CHOOSE s \in S : \A i, j \in DOMAIN Order : Order[i] = s /\ Order[j] \in S => j <= i

RemoveOne(o) ==
    LET w == op[o] s == TeardownNext(w.todo) IN
    /\ w.at \in {"rollback", "remove"} /\ w.todo # {}
    /\ \/ /\ Gone(w.name, s) /\ UNCHANGED bounds
          /\ op' = [op EXCEPT ![o].todo = @ \ {s}]
       \/ /\ CallFails
          /\ inst' \in {inst, [inst EXCEPT ![w.name] = @ \ {s}]}
          /\ op' = [op EXCEPT ![o].todo = @ \ {s}, ![o].failed = @ \cup {s}]
    /\ UNCHANGED <<root, maker, rec, inFlight, next>>

\* Everything was tried: what was adopted or could not be removed is recorded as
\* the failed stack's services; with no companion there is nothing to record.
RolledBack(o) ==
    LET w == op[o] IN
    /\ w.at = "rollback" /\ w.todo = {}
    /\ IF w.provisioned = {}
       THEN op' = [op EXCEPT ![o] = Settle(w, "failed")] /\ inFlight' = inFlight \ {w.name}
       ELSE op' = [op EXCEPT ![o].at = "refreshFailed"] /\ UNCHANGED inFlight
    /\ UNCHANGED <<inst, root, maker, rec, next, bounds>>

StillRunning(w) == (w.provisioned \ w.created) \cup w.failed

RecordFailed(o) ==
    LET w == op[o] IN
    /\ w.at = "recordFailed"
    /\ \/ /\ rec' = [rec EXCEPT ![w.name] = Record("failed", StillRunning(w), CreatedAt(w, o), w.cred)]
          /\ UNCHANGED bounds
       \/ WriteFails /\ UNCHANGED rec
    /\ op' = [op EXCEPT ![o] = Settle(w, "failed")]
    /\ inFlight' = inFlight \ {w.name}
    /\ UNCHANGED <<inst, root, maker, next>>

---------------------------------------------------------------------------
(* DELETE /provision/:name.                                                *)

DeleteStart(n) ==
    /\ Begin(n, "delete")
    /\ op' = [op EXCEPT ![next + 1] =
                [Idle EXCEPT !.kind = "delete", !.name = n, !.at = "load", !.status = "running"]]
    /\ UNCHANGED <<inst, root, maker, rec, inFlight, bounds>>

Load(o) ==
    LET w == op[o] IN
    /\ w.at = "load"
    /\ \/ /\ UNCHANGED bounds
          /\ op' = [op EXCEPT ![o] =
                IF rec[w.name] = None THEN Settle(w, "done")
                ELSE [w EXCEPT !.cfg = rec[w.name], !.at = "deleting"]]
       \/ ReadFails /\ op' = [op EXCEPT ![o] = Settle(w, "failed")]
    /\ UNCHANGED <<inst, root, maker, rec, inFlight, next>>

\* markStackTeardownStatus: the loaded record with another status, best effort.
MarkAs(w, status) ==
    \/ rec' = [rec EXCEPT ![w.name] = [w.cfg EXCEPT !.status = status]] /\ UNCHANGED bounds
    \/ WriteFails /\ UNCHANGED rec

MarkDeleting(o) ==
    LET w == op[o] IN
    /\ w.at = "deleting"
    /\ MarkAs(w, "deleting")
    /\ op' = [op EXCEPT ![o].at = "remove", ![o].todo = w.cfg.services \cup {Packager}]
    /\ UNCHANGED <<inst, root, maker, inFlight, next>>

\* The record goes only when every instance it names is gone.
Finish(o) ==
    LET w == op[o] IN
    /\ w.at = "remove" /\ w.todo = {}
    /\ IF w.failed = {}
       THEN \/ rec' = [rec EXCEPT ![w.name] = None] /\ UNCHANGED bounds
            \/ WriteFails /\ UNCHANGED rec
       ELSE MarkAs(w, "delete_failed")
    /\ op' = [op EXCEPT ![o] = Settle(w, IF w.failed = {} THEN "done" ELSE "failed")]
    /\ UNCHANGED <<inst, root, maker, inFlight, next>>

\* The deadline passes: the work goes on, the handler marks the record and settles.
Expire(o) ==
    LET w == op[o] IN
    /\ w.kind = "delete" /\ w.expiry = "armed" /\ w.at \in {"load", "deleting", "remove"}
    /\ expired < MaxExpired /\ expired' = expired + 1
    /\ op' = [op EXCEPT ![o].expiry = IF w.cfg = None THEN "off" ELSE "marking",
                        ![o].status = IF w.cfg = None THEN "failed" ELSE @]
    /\ UNCHANGED <<inst, root, maker, rec, inFlight, next, reads, writes, calls, boots>>

ExpiredMark(o) ==
    LET w == op[o] IN
    /\ w.expiry = "marking"
    /\ MarkAs(w, "delete_failed")
    /\ op' = [op EXCEPT ![o].expiry = "off", ![o].status = IF Settled(o) THEN @ ELSE "failed"]
    /\ UNCHANGED <<inst, root, maker, inFlight, next>>

---------------------------------------------------------------------------
(* The packager, ensured when a packaging step finds none.                 *)

\* Two calls for one stack share one flight.
PackagerStart(n) ==
    /\ Begin(n, "packager")
    /\ rec[n] # None /\ rec[n].status = "ready"
    /\ \A o \in Ops : op[o].kind = "packager" /\ op[o].name = n => Ended(o)
    /\ op' = [op EXCEPT ![next + 1] =
                [Idle EXCEPT !.kind = "packager", !.name = n, !.at = "ensure", !.status = "running"]]
    /\ UNCHANGED <<inst, root, maker, rec, inFlight, bounds>>

EnsurePackager(o) ==
    LET w == op[o] IN
    /\ w.at = "ensure"
    /\ IF Packager \in inst[w.name]
       THEN op' = [op EXCEPT ![o] = Settle(w, "done")] /\ UNCHANGED <<inst, root, maker, bounds>>
       ELSE \/ /\ Launch(w.name, Packager, o, 0)
               /\ op' = [op EXCEPT ![o].at = "inventory"] /\ UNCHANGED bounds
            \/ /\ CallFails
               /\ op' = [op EXCEPT ![o] = Settle(w, "failed")] /\ UNCHANGED <<inst, root, maker>>
    /\ UNCHANGED <<rec, inFlight, next>>

\* recordInInventory reads the record, then writes it back with the packager.
Inventory(o) ==
    LET w == op[o] IN
    /\ w.at = "inventory"
    /\ \/ /\ op' = [op EXCEPT ![o] = IF rec[w.name] = None THEN Settle(w, "done")
                                     ELSE [w EXCEPT !.cfg = rec[w.name], !.at = "inventoried"]]
          /\ UNCHANGED bounds
       \/ ReadFails /\ op' = [op EXCEPT ![o] = Settle(w, "failed")]
    /\ UNCHANGED <<inst, root, maker, rec, inFlight, next>>

Inventoried(o) ==
    LET w == op[o] IN
    /\ w.at = "inventoried"
    /\ \/ /\ rec' = [rec EXCEPT ![w.name] = [w.cfg EXCEPT !.services = @ \cup {Packager}]]
          /\ op' = [op EXCEPT ![o] = Settle(w, "done")] /\ UNCHANGED bounds
       \/ WriteFails /\ UNCHANGED rec /\ op' = [op EXCEPT ![o] = Settle(w, "failed")]
    /\ UNCHANGED <<inst, root, maker, inFlight, next>>

---------------------------------------------------------------------------
\* Operations live in memory: a restart forgets them and the names in flight.
Restart ==
    /\ boots < MaxBoots /\ boots' = boots + 1
    /\ op' = [o \in Ops |-> IF Ended(o) THEN [op[o] EXCEPT !.expiry = "off"]
                            ELSE [Idle EXCEPT !.at = "over", !.kind = op[o].kind, !.name = op[o].name]]
    /\ inFlight' = {}
    /\ UNCHANGED <<inst, root, maker, rec, next, reads, writes, calls, expired>>

ProvisionStep(o) ==
    \/ Preflight(o) \/ PreflightFails(o) \/ Mark(o) \/ MarkFails(o) \/ Create(o)
    \/ CreateAnswerLost(o) \/ CreateFails(o) \/ Setup(o) \/ SetupFails(o) \/ Refresh(o)
    \/ Persist(o) \/ PersistFails(o) \/ RolledBack(o) \/ RecordFailed(o)

DeleteStep(o) == Load(o) \/ MarkDeleting(o) \/ Finish(o)

PackagerStep(o) == EnsurePackager(o) \/ Inventory(o) \/ Inventoried(o)

Step(o) == ProvisionStep(o) \/ DeleteStep(o) \/ RemoveOne(o) \/ PackagerStep(o) \/ ExpiredMark(o)

Quiet == \A o \in Ops : Ended(o) /\ op[o].expiry # "marking"

Done == next + 1 \notin Ops /\ Quiet /\ UNCHANGED vars

Next ==
    \/ \E n \in Names : ProvisionStart(n) \/ DeleteStart(n) \/ PackagerStart(n)
    \/ \E o \in Ops : Step(o) \/ Expire(o)
    \/ Restart
    \/ Done

Spec == Init /\ [][Next]_vars

---------------------------------------------------------------------------
RecordType == [status : {"provisioning", "ready", "failed", "deleting", "delete_failed"},
               services : SUBSET AllServices, born : Ops \cup {None}, cred : Ops \cup {0}]

\* Records, instances and operations have the shapes of param-store.ts and
\* operation-store.ts, and a provision is in flight exactly while one is at work.
TypeOK ==
    /\ inst \in [Names -> SUBSET AllServices]
    /\ \A n \in Names : rec[n] = None \/ rec[n] \in RecordType
    /\ inFlight = {op[o].name : o \in {p \in Ops : op[p].kind = "provision" /\ ~Ended(p)}}

\* A stack listed as ready runs every companion (provision.ts:3005: a teardown
\* "never leaves a half-removed stack still advertising itself as ready").
ReadyRuns == \A n \in Names : rec[n] # None /\ rec[n].status = "ready" => Companions \subseteq inst[n]

\* Nothing runs that no record names once the work on a stack has ended: the
\* record is "the only record of what is left to remove" (provision.ts:2823).
NothingUnlisted ==
    \A n \in Names : Active(n) = {} =>
        inst[n] \subseteq (IF rec[n] = None THEN {} ELSE rec[n].services \cup {Packager})

\* The credential a record stands for opens the object store that runs
\* (provision.ts:1141).
CredentialFits ==
    \A n \in Names : Active(n) = {} /\ rec[n] # None /\ Minio \in inst[n] => root[n] = rec[n].cred

\* A failing provision removes only what it created itself (provision.ts:2351):
\* instances that ran before it are left alone.
AdoptedSpared ==
    \A o \in Ops, n \in Names, s \in AllServices :
        op[o].kind = "provision" /\ op[o] # op'[o] /\ s \in inst[n] \ inst'[n] => maker[n][s] = o

\* compareStackCreationOrder, unstamped stacks first.
Earlier(R, m, n) == LET b(x) == IF R[x].born = None THEN 0 ELSE R[x].born IN b(m) < b(n)

\* Two stacks that stay stored keep their order in the listing, so the default
\* stack does not move (provision.ts:2558).
OrderKept ==
    \A m, n \in Names : rec[m] # None /\ rec[n] # None /\ rec'[m] # None /\ rec'[n] # None =>
        (Earlier(rec, m, n) => ~Earlier(rec', n, m))

\* Every operation reaches a terminal status, whatever fails on the way, unless
\* the process restarts (provision.ts:3196).
Unfinished == \E o \in Ops : op[o].status = "running"

\* A stack stays ready until it is deleted; provisioning it again is harmless
\* (provision.ts:1117, persisted convergence).
ReadyKept ==
    \A n \in Names : rec[n] # None /\ rec[n].status = "ready" /\ (\A o \in Ops : op[o].kind # "delete")
        => rec'[n].status = "ready"
=============================================================================
