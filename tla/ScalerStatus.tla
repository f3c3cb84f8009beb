--------------------------- MODULE ScalerStatus ---------------------------
(***************************************************************************)
(* GET /scaler/status: the pools of the scaler loops are spread over one   *)
(* Valkey per provisioned stack.  A status read enumerates the stacks,     *)
(* resolves the connection of each, collapses them to one target per       *)
(* store and scans every target, while stacks are provisioned and torn     *)
(* down, pools come and go and stores become unreachable.  The             *)
(* enumeration and the connections are cached by the registry.             *)
(***************************************************************************)
EXTENDS FiniteSets, Naturals

CONSTANTS Stacks, Conns,
          Global,       \* the process-global connection
          MaxChanges,   \* bound: stack, pool and network changes
          MaxReads,     \* bound: status reads
          MaxFaults,    \* bound: failed resolutions
          Churn,        \* stacks are torn down, and provisioned again
          Blind,        \* the parameter store may fail
          None

VARIABLES place,    \* the Valkey of every provisioned stack, None for the others
          held,     \* the stacks with a pool or a spawn failure on every store
          reach,    \* the stores that answer
          cache,    \* the registry's enumeration, and whether it is recent
          open,     \* the registry's cached connections
          read,     \* the status read under way
          changes, reads, faults
vars == <<place, held, reach, cache, open, read, changes, reads, faults>>

Row == [ws : Stacks, conn : Conns \cup {None}, observed : BOOLEAN, pool : BOOLEAN]
Free == [step |-> "free", listed |-> {}, left |-> {}, rows |-> {}, count |-> 0, due |-> {}, had |-> {}]

TypeOK ==
    /\ place \in [Stacks -> Conns \cup {None}] /\ held \in [Conns -> SUBSET Stacks] /\ reach \subseteq Conns
    /\ cache \in [keys : SUBSET Stacks, recent : BOOLEAN] /\ open \in [Stacks -> Conns \cup {None}]
    /\ read \in [step : {"free", "scan", "done"}, listed : SUBSET (Stacks \X Conns),
                 left : SUBSET (Conns \X SUBSET Stacks), rows : SUBSET Row, count : Nat,
                 due : SUBSET Stacks, had : SUBSET Stacks]
    /\ changes \in 0..MaxChanges /\ reads \in 0..MaxReads /\ faults \in 0..MaxFaults

Provisioned == {s \in Stacks : place[s] # None}
Change == changes < MaxChanges /\ changes' = changes + 1

-----------------------------------------------------------------------------
(* The stacks and their stores. *)

\* The callback pollers are synchronised after every change of the stacks,
\* which refreshes the enumeration; taken at the same instant.
Refreshed(p) == [keys |-> {s \in Stacks : p[s] # None}, recent |-> TRUE]

Provision(s) ==
    /\ place[s] = None /\ Change
    /\ \E c \in Conns : place' = [place EXCEPT ![s] = c]
    /\ cache' = Refreshed(place')
    /\ UNCHANGED <<held, reach, open, read, reads, faults>>

\* The pool's keys go, if the store answers; the registry disposes of the connection.
\* Nothing keeps it from happening while a status read is under way.
Teardown(s) ==
    /\ Churn /\ place[s] # None /\ Change
    /\ place' = [place EXCEPT ![s] = None]
    /\ held' = IF place[s] \in reach THEN [held EXCEPT ![place[s]] = @ \ {s}] ELSE held
    /\ open' = [open EXCEPT ![s] = None]
    /\ cache' = Refreshed(place')
    /\ UNCHANGED <<reach, read, reads, faults>>

\* A loop spawns an instance, or fails to.
PoolWrites(s) ==
    /\ place[s] # None /\ s \notin held[place[s]] /\ Change
    /\ held' = [held EXCEPT ![place[s]] = @ \cup {s}]
    /\ UNCHANGED <<place, reach, cache, open, read, reads, faults>>

\* A store becomes unreachable or answers again.
LinkChanges ==
    /\ Change
    /\ \E c \in Conns : reach' = IF c \in reach THEN reach \ {c} ELSE reach \cup {c}
    /\ UNCHANGED <<place, held, cache, open, read, reads, faults>>

\* STACK_KEYS_CACHE_MS passes.
CacheAges ==
    /\ cache.recent
    /\ cache' = [cache EXCEPT !.recent = FALSE]
    /\ UNCHANGED <<place, held, reach, open, read, changes, reads, faults>>

-----------------------------------------------------------------------------
(* A status read. *)

\* enumerateStackKeys, when the parameter store answers (ok) and when it does
\* not.
Enumerated(ok) ==
    IF cache.recent \/ ~ok THEN cache ELSE [keys |-> Provisioned, recent |-> TRUE]

\* resolveRedisUrl: the stack's own Valkey, else that of the first listed stack;
\* None when the parameter store fails or holds no stack.
RedisUrl(s, ok) ==
    IF ~ok \/ Provisioned = {} THEN None
    ELSE IF place[s] # None THEN place[s] ELSE place[CHOOSE t \in Provisioned : TRUE]

\* resolveStackRedis: the cached connection, else the resolved one, which is
\* cached, else the process-global one.
Resolve(s, ok) ==
    IF open[s] # None THEN open[s] ELSE IF RedisUrl(s, ok) = None THEN Global ELSE RedisUrl(s, ok)
Opened(s, ok) == IF open[s] # None THEN open[s] ELSE RedisUrl(s, ok)

\* collectTargets: one per store, the process-global one always among them.
Targets(listed) ==
    {<<c, {p[1] : p \in {q \in listed : q[2] = c}}>> : c \in {Global} \cup {p[2] : p \in listed}}

\* The row of a stack with no connection.
Unresolved(s) == [ws |-> s, conn |-> None, observed |-> FALSE, pool |-> FALSE]

\* GET /status enumerates and resolves, in one step here.  A stack whose connection cannot be
\* opened is reported as unobserved.
StatusList ==
    /\ read.step = "free" /\ reads < MaxReads /\ reads' = reads + 1
    /\ \E lists \in IF Blind THEN BOOLEAN ELSE {TRUE}, ok \in IF Blind THEN BOOLEAN ELSE {TRUE},
          lost \in SUBSET Stacks :
          LET stacks == Enumerated(lists).keys \cup {s \in Stacks : open[s] # None}
              listed == {<<s, Resolve(s, ok)>> : s \in stacks \ lost}
              cost == Cardinality(lost) + (IF lists THEN 0 ELSE 1) + (IF ok THEN 0 ELSE 1)
          IN  /\ \A s \in lost : s \in stacks /\ open[s] = None
              /\ faults + cost <= MaxFaults /\ faults' = faults + cost
              /\ cache' = Enumerated(lists)
              /\ open' = [s \in Stacks |-> IF s \in stacks \ lost THEN Opened(s, ok) ELSE open[s]]
              /\ read' = [Free EXCEPT !.step = "scan", !.listed = listed, !.left = Targets(listed),
                                      !.rows = {Unresolved(s) : s \in lost}, !.count = Cardinality(lost),
                                      !.due = stacks, !.had = Provisioned]
    /\ UNCHANGED <<place, held, reach, changes>>

\* scanWorkspaceIds: every workspace with keys on the store, none if it cannot
\* be read.
Scanned(c) == IF c \in reach THEN held[c] ELSE {}

\* observeWorkspace.
RowOf(c, s) == [ws |-> s, conn |-> c, observed |-> c \in reach, pool |-> s \in Scanned(c)]

\* An unreachable store reports nothing.
ScanReachable(t) ==
    /\ read.step = "scan" /\ t \in read.left
    /\ LET found == IF t[1] \in reach THEN Scanned(t[1]) \cup t[2] ELSE {}
       IN  read' = [read EXCEPT !.left = @ \ {t}, !.rows = @ \cup {RowOf(t[1], s) : s \in found},
                                !.count = @ + Cardinality(found)]
    /\ UNCHANGED <<place, held, reach, cache, open, changes, reads, faults>>

\* observeTarget: the workspaces found on the store and the stacks bound to it.
StatusScan(t) ==
    /\ read.step = "scan" /\ t \in read.left
    /\ LET found == Scanned(t[1]) \cup t[2]
       IN  read' = [read EXCEPT !.left = @ \ {t}, !.rows = @ \cup {RowOf(t[1], s) : s \in found},
                                !.count = @ + Cardinality(found)]
    /\ UNCHANGED <<place, held, reach, cache, open, changes, reads, faults>>

StatusDone ==
    /\ read.step = "scan" /\ read.left = {}
    /\ read' = [read EXCEPT !.step = "done"]
    /\ UNCHANGED <<place, held, reach, cache, open, changes, reads, faults>>

StatusAgain ==
    /\ read.step = "done" /\ read' = Free
    /\ UNCHANGED <<place, held, reach, cache, open, changes, reads, faults>>

Next ==
    \/ \E s \in Stacks : Provision(s) \/ Teardown(s) \/ PoolWrites(s)
    \/ LinkChanges \/ CacheAges \/ StatusList \/ StatusDone \/ StatusAgain
    \/ \E t \in read.left : StatusScan(t)

Init ==
    /\ place \in [Stacks -> Conns \cup {None}] /\ held = [c \in Conns |-> {}] /\ reach = Conns
    /\ cache = [keys |-> {}, recent |-> FALSE] /\ open = [s \in Stacks |-> None]
    /\ read = Free /\ changes = 0 /\ reads = 0 /\ faults = 0

Spec == Init /\ [][Next]_vars

-----------------------------------------------------------------------------

\* Every stack the registry knows of has a row, observed or flagged, whatever
\* became unreachable since it was enumerated.
KnownReported == read.step = "done" => \A s \in read.due : \E r \in read.rows : r.ws = s

\* No pool is reported twice from one store.
OneRowEach == read.step = "done" => read.count = Cardinality(read.rows)

\* A row that says a stack's pool was looked at and is empty was read from the
\* store that stack's loop uses.
EmptyMeansEmpty ==
    read.step = "done" =>
        \A r \in read.rows : r.observed /\ ~r.pool /\ r.ws \in read.had => r.conn = place[r.ws]
===========================================================================
