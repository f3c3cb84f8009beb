--------------------------- MODULE ScalerRegistry ---------------------------
(***************************************************************************)
(* The registry of scaler loops (encore-scaler/workspace-registry.ts): one *)
(* loop and one Valkey connection per stack, made on the first use,        *)
(* observed by the status route and the poller sync, torn down with the    *)
(* stack, resumed after a restart.  Every method awaits between looking    *)
(* into the maps and writing them.                                         *)
(***************************************************************************)
EXTENDS Naturals, FiniteSets

CONSTANTS
    Stacks,    \* stack names
    Shared,    \* stacks whose Valkey is the one the process was activated on
    Callers,   \* calls that may be under way together
    Overlap,   \* calls for one stack, and a tick at its teardown, may overlap
    MaxMade,   \* bound: connections and loops made
    MaxDown,   \* bound: stores that do not answer at a time
    Global,    \* the activation connection
    Params,    \* the parameter store
    None

VARIABLES
    stored,   \* stacks whose stored config names a Valkey
    loops,    \* [Stacks -> loop or None], the map
    ticking,  \* loops whose interval is set
    inTick,   \* loops with a tick under way
    conns,    \* [Stacks -> connection or None], the map
    open,     \* connections the registry opened and did not close
    call,     \* [Callers -> call under way or None]
    held,     \* <<stack, store>>: scaler keys of the stack are in that Valkey
    made,     \* connections and loops made so far
    resumed,  \* what the last resume found, and what of it failed
    down      \* Valkeys, and the parameter store, that do not answer now
vars == <<stored, loops, ticking, inTick, conns, open, call, held, made, resumed, down>>

---------------------------------------------------------------------------
\* A connection is the activation one, or one opened for a stack.
Store(c) == IF c = Global THEN Global ELSE c.stack

\* distinctStackRedis: the activation Valkey, those of the open connections and, while
\* the stored configs can be listed, those of every stored stack.  The connections it
\* opens for other stacks are Observe's.
Known == {Global} \cup {Store(conns[s]) : s \in {t \in Stacks : conns[t] # None}}
                  \cup (IF Params \in down THEN {} ELSE stored)

Alive(c) == c = Global \/ c \in open

Busy(s) == \E p \in Callers : call[p] # None /\ call[p].stack = s
Quiet(s) == ~Busy(s) /\ \A l \in inTick : l.stack # s
MayCall(p, s) == call[p] = None /\ (Overlap \/ Quiet(s))

Call(kind, s, pc, todo) == [kind |-> kind, stack |-> s, pc |-> pc, conn |-> None, todo |-> todo]
At(p, pc) == call[p] # None /\ call[p].pc = pc
Goto(p, pc, c) == call' = [call EXCEPT ![p].pc = pc, ![p].conn = c]

Init ==
    /\ stored \in SUBSET Stacks
    /\ held \in SUBSET ({<<s, Global>> : s \in Stacks} \cup {<<s, s>> : s \in stored \ Shared})
    /\ loops = [s \in Stacks |-> None] /\ conns = [s \in Stacks |-> None]
    /\ ticking = {} /\ inTick = {} /\ open = {} /\ made = 0
    /\ call = [p \in Callers |-> None]
    /\ resumed = None /\ down = {}

---------------------------------------------------------------------------
\* submit, getJobStatus, cancel: getOrCreate of the job's stack.
Request(p, s) ==
    /\ MayCall(p, s) /\ loops[s] = None
    /\ call' = [call EXCEPT ![p] = Call("request", s, "s3", {})]
    /\ UNCHANGED <<stored, loops, ticking, inTick, conns, open, held, made, resumed, down>>

\* The next workspace of a resume, or its end.
Continue(p) ==
    IF call[p].kind # "resume" \/ call[p].todo = {} THEN call' = [call EXCEPT ![p] = None]
    ELSE \E s \in call[p].todo : (Overlap \/ ~Busy(s)) /\
           call' = [call EXCEPT ![p] = Call("resume", s, IF loops[s] = None THEN "s3" ELSE "have", call[p].todo \ {s})]

\* resolveS3Config answered; the connection is taken from the map or looked up.
GotS3(p) ==
    /\ At(p, "s3")
    /\ IF conns[call[p].stack] # None THEN Goto(p, "profiles", conns[call[p].stack])
       ELSE Goto(p, "url", None)
    /\ UNCHANGED <<stored, loops, ticking, inTick, conns, open, held, made, resumed, down>>

\* No object store, or no connection, can be made: the call throws, a resume logs it
\* and goes on.
Fails(p) ==
    /\ At(p, "s3") \/ (At(p, "url") /\ call[p].kind \in {"request", "resume"})
    /\ Continue(p)
    /\ resumed' = IF call[p].kind = "resume"
                  THEN [resumed EXCEPT !.failed = @ \cup {call[p].stack}, !.over = (call[p].todo = {})] ELSE resumed
    /\ UNCHANGED <<stored, loops, ticking, inTick, conns, open, held, made, down>>

\* resolveStackRedis after its lookup: no stored URL, or none that could be read, falls
\* back and is not kept, the activation Valkey is shared, any other gets a connection.
Resolve(p, then) ==
    LET s == call[p].stack
        c == [n |-> made + 1, stack |-> s]
    IN  /\ At(p, "url")
        /\ \/ /\ s \notin stored \/ Params \in down
              /\ Goto(p, then, Global) /\ UNCHANGED <<conns, open, made>>
           \/ /\ s \in stored /\ s \in Shared /\ Params \notin down
              /\ conns' = [conns EXCEPT ![s] = Global]
              /\ Goto(p, then, Global) /\ UNCHANGED <<open, made>>
           \/ /\ s \in stored \ Shared /\ Params \notin down /\ made < MaxMade
              /\ conns' = [conns EXCEPT ![s] = c]
              /\ open' = open \cup {c} /\ made' = made + 1
              /\ Goto(p, then, c)
        /\ UNCHANGED <<stored, loops, ticking, inTick, held, resumed, down>>

ResolveForLoop(p) == call[p] # None /\ call[p].kind \in {"request", "resume"} /\ Resolve(p, "profiles")

\* The profile index is resolved: the loop is made, started and put into the map.
Create(p) ==
    LET l == [n |-> made + 1, stack |-> call[p].stack, conn |-> call[p].conn]
    IN  /\ At(p, "profiles") /\ made < MaxMade
        /\ loops' = [loops EXCEPT ![l.stack] = l]
        /\ ticking' = ticking \cup {l} /\ made' = made + 1
        /\ Continue(p)
        /\ resumed' = IF call[p].kind = "resume" THEN [resumed EXCEPT !.over = (call[p].todo = {})] ELSE resumed
        /\ UNCHANGED <<stored, inTick, conns, open, held, down>>

\* A resumed workspace that has its loop already.
Have(p) ==
    /\ At(p, "have")
    /\ Continue(p)
    /\ resumed' = [resumed EXCEPT !.over = (call[p].todo = {})]
    /\ UNCHANGED <<stored, loops, ticking, inTick, conns, open, held, made, down>>

\* listStackConnections, redisForEncoreJob: the connection of a stack without its loop.
Observe(p, s) ==
    /\ MayCall(p, s) /\ conns[s] = None
    /\ call' = [call EXCEPT ![p] = Call("observe", s, "url", {})]
    /\ UNCHANGED <<stored, loops, ticking, inTick, conns, open, held, made, resumed, down>>
Observed(p) == call[p] # None /\ call[p].kind = "observe" /\ Resolve(p, "done")
Answer(p) ==
    /\ At(p, "done")
    /\ call' = [call EXCEPT ![p] = None]
    /\ UNCHANGED <<stored, loops, ticking, inTick, conns, open, held, made, resumed, down>>

\* The lookup of an observation or of a teardown rejects: the stack is reported without
\* its pool, the teardown ends with the loop gone and nothing purged.
Rejects(p) ==
    /\ At(p, "url") /\ call[p].kind \in {"observe", "teardown"}
    /\ call' = [call EXCEPT ![p] = None]
    /\ UNCHANGED <<stored, loops, ticking, inTick, conns, open, held, made, resumed, down>>

\* A loop's tick: it reads its Valkey, and may spawn, which writes the pool.
TickStart(l) ==
    /\ l \in ticking \ inTick
    /\ inTick' = inTick \cup {l}
    /\ UNCHANGED <<stored, loops, ticking, conns, open, call, held, made, resumed, down>>
TickEnd(l) ==
    /\ l \in inTick
    /\ inTick' = inTick \ {l}
    /\ held' \in IF Alive(l.conn) THEN {held, held \cup {<<l.stack, Store(l.conn)>>}} ELSE {held}
    /\ UNCHANGED <<stored, loops, ticking, conns, open, call, made, resumed, down>>

---------------------------------------------------------------------------
TeardownKeepsTicking(p, s) ==
    /\ MayCall(p, s)
    /\ loops' = [loops EXCEPT ![s] = None]
    /\ call' = [call EXCEPT ![p] = [Call("teardown", s, IF conns[s] = None THEN "url" ELSE "purge", {}) EXCEPT !.conn = conns[s]]]
    /\ resumed' = IF resumed = None THEN None ELSE [resumed EXCEPT !.torn = @ \cup {s}]
    /\ UNCHANGED <<stored, ticking, inTick, conns, open, held, made, down>>

\* teardown: the loop's interval is cleared and the loop forgotten.
Teardown(p, s) ==
    /\ MayCall(p, s)
    /\ ticking' = ticking \ {loops[s]}
    /\ loops' = [loops EXCEPT ![s] = None]
    /\ call' = [call EXCEPT ![p] = [Call("teardown", s, IF conns[s] = None THEN "url" ELSE "purge", {}) EXCEPT !.conn = conns[s]]]
    /\ resumed' = IF resumed = None THEN None ELSE [resumed EXCEPT !.torn = @ \cup {s}]
    /\ UNCHANGED <<stored, inTick, conns, open, held, made, down>>
ResolveForTeardown(p) == call[p] # None /\ call[p].kind = "teardown" /\ Resolve(p, "purge")

\* The pooled instances are destroyed, one that refuses being logged and left, and the
\* stack's keys deleted on every known Valkey; one that does not answer is passed over.
\* Then the stack's connection is closed.
Purge(p) ==
    LET s == call[p].stack
        reached == (Known \cup {Store(call[p].conn)}) \ down
    IN  /\ At(p, "purge")
        /\ held' = {h \in held : h[1] # s \/ h[2] \notin reached}
        /\ open' = open \ {conns[s]}
        /\ conns' = [conns EXCEPT ![s] = None]
        /\ call' = [call EXCEPT ![p] = None]
        /\ UNCHANGED <<stored, loops, ticking, inTick, made, resumed, down>>

\* resumeExistingWorkspaces: the pools and queues found in the Valkeys that answer.
Resume(p) ==
    /\ call[p] = None /\ resumed = None /\ \A s \in Stacks : ~Busy(s)
    /\ LET found == {h[1] : h \in {k \in held : k[2] \in Known \ down}} IN
       /\ resumed' = [found |-> found, failed |-> {}, torn |-> {}, over |-> (found = {})]
       /\ IF found = {} THEN UNCHANGED call
          ELSE \E s \in found :
                 call' = [call EXCEPT ![p] = Call("resume", s, IF loops[s] = None THEN "s3" ELSE "have", found \ {s})]
    /\ UNCHANGED <<stored, loops, ticking, inTick, conns, open, held, made, down>>

\* A provision stores the stack's Valkey URL.
Provisioned(s) ==
    /\ s \notin stored /\ (Overlap \/ Quiet(s))
    /\ stored' = stored \cup {s}
    /\ UNCHANGED <<loops, ticking, inTick, conns, open, call, held, made, resumed, down>>

\* A store stops answering, or answers again.
Outage(d) ==
    /\ down' = (down \ {d}) \cup ({d} \ down) /\ Cardinality(down') <= MaxDown
    /\ UNCHANGED <<stored, loops, ticking, inTick, conns, open, call, held, made, resumed>>

Next ==
    \/ \E p \in Callers :
         \/ \E s \in Stacks : Request(p, s) \/ Observe(p, s) \/ Teardown(p, s)
         \/ GotS3(p) \/ Fails(p) \/ ResolveForLoop(p) \/ Create(p) \/ Have(p)
         \/ Observed(p) \/ Answer(p) \/ Rejects(p) \/ ResolveForTeardown(p) \/ Purge(p) \/ Resume(p)
    \/ \E l \in ticking \cup inTick : TickStart(l) \/ TickEnd(l)
    \/ \E s \in Stacks : Provisioned(s)
    \/ \E d \in {Global, Params} \cup (stored \ Shared) : Outage(d)

Spec == Init /\ [][Next]_vars

---------------------------------------------------------------------------
\* The maps, the loops and the calls of the registry.
TypeOK ==
    /\ stored \subseteq Stacks /\ made \in 0..MaxMade
    /\ \A s \in Stacks : /\ loops[s] # None => loops[s].stack = s
                         /\ conns[s] \notin {None, Global} => conns[s].stack = s
    /\ \A h \in held : h[1] \in Stacks /\ h[2] \in Stacks \cup {Global}
    /\ \A p \in Callers : call[p] # None => call[p].pc \in {"s3", "url", "profiles", "have", "done", "purge"}

\* No loop ticks that a teardown would not find ("stop its background loop and
\* destroy every pooled Encore OSC instance", workspace-registry.ts:705).
LoopsReachable == \A l \in ticking : loops[l.stack] = l

\* Every connection opened is one the maps still hold, so there are at most as many
\* as stacks ("the connection count can never exceed the number of provisioned
\* stacks", workspace-registry.ts:228).
ConnectionsKnown == \A c \in open : conns[c.stack] = c

\* When a teardown ends, no Valkey the registry knows holds keys of that stack, and
\* none appears before a loop of the stack ticks again.
TornDownClean == \A s \in Stacks :
    (\E c \in {Global} \cup open : <<s, Store(c)>> \in held' \ held) => \E l \in inTick : l.stack = s /\ loops[s] = l

\* A purge leaves a key of the stack only in a Valkey that did not answer it, or in one
\* it could not learn of because the stored configs could not be listed; where neither
\* is so, a later resume finds nothing of the stack.
PurgesEverywhere == \A p \in Callers : Purge(p) =>
    \A h \in held' : h[1] = call[p].stack =>
        h[2] \in down \/ (Params \in down /\ h[2] # Global)

\* A resume ends with a loop for every workspace it found, but the ones that could
\* not be resolved or were torn down since ("one unresolvable stack early in the
\* loop would abandon the resume", workspace-registry.ts:570).
ResumesAll == \A s \in Stacks :
    resumed # None /\ ~resumed.over /\ resumed'.over /\ s \in resumed.found \ (resumed'.failed \cup resumed.torn)
      => loops'[s] # None
=============================================================================
