--------------------------- MODULE StackResolver ---------------------------
(***************************************************************************)
(* Which stack a request works on.  services/workspace-stack.ts turns the  *)
(* stack name of a request into the connections of a provisioned stack,    *)
(* from a cache or from the parameter store; services/request-stack-       *)
(* context.ts carries the name and the stamp its documents get; main.ts    *)
(* resolves before the handler, the repositories resolve again at each     *)
(* call (data/per-workspace-repos.ts) and the object storage is taken from *)
(* the cache alone.  Provisions and teardowns change the store and clear   *)
(* the cache (routes/provision.ts).                                        *)
(***************************************************************************)
EXTENDS Naturals, Sequences, SequencesExt, FiniteSets

CONSTANTS
    None,
    Stacks,       \* stack names
    NoName,       \* the key of a request that names no stack
    Memory,       \* the connections that store nothing durable
    Pinned,       \* DEFAULT_STACK_NAME, or None
    Names,        \* a sequence: the stack names in name order
    Initially,    \* a sequence: the stacks there at boot, oldest first
    Legacy,       \* stacks whose record sits under another namespace
    Requests,
    Overlap,      \* may a request be served while a stack changes?
    MaxChanges,   \* bound: provisions and teardowns
    MaxFaults,    \* bound: failed reads of the parameter store
    MaxExpiries   \* bound: cache entries that pass a time limit

VARIABLES
    conf,      \* [Stacks -> "none" | "marked" | "ready"]: records under `default`
    order,     \* names listed, oldest first
    stale,     \* records under another namespace
    torn,      \* names torn down and not provisioned since
    cache,     \* [Keys -> entry]
    health,    \* resolver health gauge
    req,       \* [Requests -> the request and the resolve call it is in]
    changing,  \* the provision or teardown under way, or None
    changes, faults, expiries
vars == <<conf, order, stale, torn, cache, health, req, changing, changes, faults, expiries>>
store == <<conf, order, stale, torn, changing, changes>>

Keys == Stacks \cup {NoName}
NoEntry == [to |-> None, fresh |-> FALSE, good |-> FALSE, old |-> FALSE]
Idle == [at |-> "idle", for |-> None, key |-> NoName, seen |-> NoEntry, first |-> None,
         stamp |-> None, doc |-> None, bytes |-> None]

Init ==
    /\ conf = [s \in Stacks |-> IF s \in ToSet(Initially) THEN "ready" ELSE "none"]
    /\ order = Initially /\ stale = Legacy /\ torn = {}
    /\ cache = [k \in Keys |-> NoEntry] /\ health = "none"
    /\ req = [r \in Requests |-> Idle]
    /\ changing = None /\ changes = 0 /\ faults = 0 /\ expiries = 0

---------------------------------------------------------------------------
(* The parameter store.                                                    *)

\* The name at the head of a listing: creation order behind an operator's pin.
FirstOf(names) == IF Pinned \in ToSet(names) THEN Pinned ELSE names[1]

\* A record written lists its name, a new one last.
Listed(s) == IF s \in ToSet(order) THEN order ELSE Append(order, s)

\* loadStackConfig under `default`.
Load(s) == conf[s]

\* A record found under another namespace is rewritten under `default`, where
\* it lists first, by name: it carries no creation time.  A failed rewrite is served
\* all the same.  The old record stays.
Migrate(s, written) ==
    IF written
    THEN /\ conf' = [conf EXCEPT ![s] = "ready"]
         /\ order' = SelectSeq(Names, LAMBDA n : n \in stale /\ n \in ToSet(order) \cup {s})
                     \o SelectSeq(order, LAMBDA n : n \notin stale)
         /\ UNCHANGED faults
    ELSE /\ faults < MaxFaults /\ faults' = faults + 1
         /\ UNCHANGED <<conf, order>>

---------------------------------------------------------------------------
(* resolve().  The three reads of the store are separate steps.            *)

Reading == {"named", "list", "first"}

\* What the caller does with the connections it is given: the preHandler
\* stamps the request with their stack name, a repository writes to them.
Hand(q, to) ==
    IF q.for = "prehandler"
    THEN [q EXCEPT !.at = "handling", !.stamp = IF to = Memory THEN None ELSE to]
    ELSE [q EXCEPT !.at = "written", !.doc = to]

\* A fresh entry answers; otherwise the read begins, with the entry it found.
Begin(r, k, caller) ==
    LET q == [req[r] EXCEPT !.key = k, !.for = caller, !.seen = cache[k]]
    IN  req' = [req EXCEPT ![r] =
            IF cache[k].fresh THEN Hand(q, cache[k].to)
            ELSE [q EXCEPT !.at = IF k = NoName THEN "list" ELSE "named"]]

\* The outcome of the reads: only a ready record is connected; whatever is
\* built is cached, the connections that store nothing included.
Settle(r, to) ==
    /\ cache' = [cache EXCEPT ![req[r].key] =
                    [to |-> to, fresh |-> TRUE, good |-> to # Memory, old |-> FALSE]]
    /\ health' = IF to = Memory THEN "no-storage" ELSE "none"
    /\ req' = [req EXCEPT ![r] = Hand(@, to)]

Connect(s, c) == IF s # None /\ c = "ready" THEN s ELSE Memory

\* The record of the name asked for; none makes the first listed stack serve.
ReadNamed(r) ==
    LET k == req[r].key IN
    /\ req[r].at = "named"
    /\ \/ Load(k) # "none" /\ Settle(r, Connect(k, Load(k))) /\ UNCHANGED <<conf, order, faults>>
       \/ /\ Load(k) = "none" /\ k \in stale
          /\ \E w \in BOOLEAN : Migrate(k, w)
          /\ Settle(r, k)
       \/ /\ Load(k) = "none" /\ k \notin stale
          /\ req' = [req EXCEPT ![r].at = "list"]
          /\ UNCHANGED <<conf, order, faults, cache, health>>
    /\ UNCHANGED <<stale, torn, changing, changes, expiries>>

\* An empty list makes one stale record, the first by name, the list.
ReadList(r) ==
    /\ req[r].at = "list"
    /\ \/ /\ order # <<>>
          /\ req' = [req EXCEPT ![r].at = "first", ![r].first = FirstOf(order)]
          /\ UNCHANGED <<conf, order, faults, cache, health>>
       \/ /\ order = <<>> /\ stale # {}
          /\ LET s == SelectSeq(Names, LAMBDA n : n \in stale)[1]
             IN  /\ \E w \in BOOLEAN : Migrate(s, w)
                 /\ req' = [req EXCEPT ![r].at = "first", ![r].first = s]
          /\ UNCHANGED <<cache, health>>
       \/ /\ order = <<>> /\ stale = {}
          /\ Settle(r, Memory) /\ UNCHANGED <<conf, order, faults>>
    /\ UNCHANGED <<stale, torn, changing, changes, expiries>>

ReadFirst(r) ==
    LET s == req[r].first IN
    /\ req[r].at = "first"
    /\ \/ (Load(s) # "none" \/ s \notin stale) /\ Settle(r, Connect(s, Load(s)))
          /\ UNCHANGED <<conf, order, faults>>
       \/ Load(s) = "none" /\ s \in stale /\ (\E w \in BOOLEAN : Migrate(s, w)) /\ Settle(r, s)
    /\ UNCHANGED <<stale, torn, changing, changes, expiries>>

\* A read throws: the connections found at the start are served again when
\* they came from a ready stack not too long ago, and nothing is cached.
ReadFails(r) ==
    /\ req[r].at \in Reading /\ faults < MaxFaults
    /\ faults' = faults + 1
    /\ \/ /\ req[r].seen.good /\ ~req[r].seen.old
          /\ req' = [req EXCEPT ![r] = Hand(@, req[r].seen.to)]
          /\ health' = "stale" /\ UNCHANGED cache
       \/ ~(req[r].seen.good /\ ~req[r].seen.old) /\ Settle(r, Memory)
    /\ UNCHANGED <<store, expiries>>

---------------------------------------------------------------------------
(* A request: the preHandler, a document written, its bytes written.       *)

Arrive(r, k) ==
    /\ req[r].at = "idle" /\ (Overlap \/ changing = None)
    /\ Begin(r, k, "prehandler")
    /\ UNCHANGED <<store, cache, health, faults, expiries>>

WriteDocument(r) ==
    /\ req[r].at = "handling"
    /\ Begin(r, req[r].key, "repository")
    /\ UNCHANGED <<store, cache, health, faults, expiries>>

\* The storage factory reads the cache under the request's name and never the
\* store; with no fresh entry, or one without storage, it throws.
WriteBytes(r) ==
    /\ req[r].at = "written"
    /\ LET e == cache[req[r].key]
       IN  req' = [req EXCEPT ![r].at = "done",
                              ![r].bytes = IF e.fresh /\ e.to # Memory THEN e.to ELSE "refused"]
    /\ UNCHANGED <<store, cache, health, faults, expiries>>

Respond(r) ==
    /\ req[r].at = "done"
    /\ req' = [req EXCEPT ![r] = Idle]
    /\ UNCHANGED <<store, cache, health, faults, expiries>>

---------------------------------------------------------------------------
(* Provision and teardown, and the clock.                                  *)

MayChange == Overlap \/ \A r \in Requests : req[r].at \in {"idle", "done"}

\* A stack is marked before its services are touched; the cache is not told.
Mark(s) ==
    /\ changing = None /\ changes < MaxChanges /\ MayChange
    /\ changes' = changes + 1
    /\ changing' = [name |-> s, to |-> IF conf[s] = "ready" THEN "none" ELSE "ready"]
    /\ conf' = [conf EXCEPT ![s] = "marked"]
    /\ order' = Listed(s) /\ torn' = torn \ {s}
    /\ UNCHANGED <<stale, cache, health, req, faults, expiries>>

\* The record becomes ready, or is deleted under `default`.
Store ==
    /\ changing # None /\ MayChange /\ conf[changing.name] = "marked"
    /\ conf' = [conf EXCEPT ![changing.name] = changing.to]
    /\ order' = IF changing.to = "none" THEN SelectSeq(order, LAMBDA s : s # changing.name)
                ELSE order
    /\ torn' = IF changing.to = "none" THEN torn \cup {changing.name} ELSE torn
    /\ UNCHANGED <<stale, cache, health, req, changing, changes, faults, expiries>>

KeepCache ==
    /\ changing # None /\ conf[changing.name] # "marked"
    /\ changing' = None
    /\ UNCHANGED <<conf, order, stale, torn, cache, health, req, changes, faults, expiries>>

\* onStackChange: the whole cache is dropped once the store was written.
Invalidate ==
    /\ changing # None /\ conf[changing.name] # "marked"
    /\ changing' = None
    /\ cache' = [k \in Keys |-> NoEntry]
    /\ UNCHANGED <<conf, order, stale, torn, health, req, changes, faults, expiries>>

\* An entry passes CACHE_TTL_MS, and later MAX_STALE_MS.
Age(k) ==
    /\ expiries < MaxExpiries /\ expiries' = expiries + 1
    /\ \/ cache[k].fresh /\ cache' = [cache EXCEPT ![k].fresh = FALSE]
       \/ ~cache[k].fresh /\ cache[k].good /\ ~cache[k].old
          /\ cache' = [cache EXCEPT ![k].old = TRUE]
    /\ UNCHANGED <<store, health, req, faults>>

---------------------------------------------------------------------------
Serve(r) ==
    ReadNamed(r) \/ ReadList(r) \/ ReadFirst(r) \/ WriteDocument(r) \/ WriteBytes(r) \/ Respond(r)

Next ==
    \/ \E r \in Requests, k \in Keys : Arrive(r, k)
    \/ \E r \in Requests : Serve(r) \/ ReadFails(r)
    \/ \E s \in Stacks : Mark(s)
    \/ Store \/ Invalidate
    \/ \E k \in Keys : Age(k)

Spec == Init /\ [][Next]_vars

---------------------------------------------------------------------------
(* Properties                                                              *)

Ends == Stacks \cup {Memory}
EntryType == [to : Ends \cup {None}, fresh : BOOLEAN, good : BOOLEAN, old : BOOLEAN]

\* Every variable has its type and the listing names exactly the records.
TypeOK ==
    /\ conf \in [Stacks -> {"none", "marked", "ready"}]
    /\ ToSet(order) = {s \in Stacks : conf[s] # "none"}
    /\ stale \subseteq Stacks /\ torn \subseteq Stacks
    /\ cache \in [Keys -> EntryType] /\ health \in {"none", "stale", "no-storage"}
    /\ req \in [Requests -> [at : {"idle", "handling", "written", "done"} \cup Reading,
                             for : {None, "prehandler", "repository"}, key : Keys, seen : EntryType,
                             first : Stacks \cup {None}, stamp : Stacks \cup {None},
                             doc : Ends \cup {None}, bytes : Stacks \cup {None, "refused"}]]
    /\ changes \in 0..MaxChanges /\ faults \in 0..MaxFaults /\ expiries \in 0..MaxExpiries

\* A document is never stamped with a stack other than the one it was written to.
StampTrue ==
    \A r \in Requests : {req[r].stamp, req[r].doc} \subseteq Stacks => req[r].stamp = req[r].doc

\* The bytes of a request never go to another stack than its documents.
DocsWithBytes ==
    \A r \in Requests : {req[r].doc, req[r].bytes} \subseteq Stacks => req[r].doc = req[r].bytes

\* The stack a name stands for in the store as it is.
Effective(k) ==
    IF k \in Stacks /\ conf[k] # "none" THEN Connect(k, conf[k])
    ELSE IF order = <<>> THEN Memory ELSE Connect(FirstOf(order), conf[FirstOf(order)])

\* Between stack changes, what a request would be served from the cache is what
\* the store says (reads that fail aside).
PickedUp ==
    changing = None => \A k \in Keys : cache[k].fresh => cache[k].to = Effective(k)

\* The entry of a healthy stack is never replaced by connections without
\* storage because of a failed read: it is served until it is too old.
HealthyKept ==
    \A k \in Keys :
        (cache[k].good /\ ~cache[k].old /\ faults' # faults) => cache'[k].good

=============================================================================
