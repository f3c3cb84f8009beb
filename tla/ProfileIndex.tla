--------------------------- MODULE ProfileIndex ---------------------------
\* The transcoding profiles of each stack and the index Encore loads them from:
\* the profile store and its routes, the bootstrap that seeds it at start, at
\* provisioning and on demand, the publisher that mirrors the store into the
\* stack's profiles bucket, the tiers that choose the URL a spawned instance is
\* given, and the check at start that the published index can be used.
\*
\* Every publish and every bootstrap is a task of its own; each of its calls to
\* the store or to the object store is a step.
EXTENDS Naturals, FiniteSets

CONSTANTS
    Stacks,       \* the stacks, numbered; the least is the default one (first listed)
    Names,        \* the profile names, numbered in listing order
    Builtin,      \* the names the API ships itself
    Remote,       \* the names of the default Encore profile index
    Tiers,        \* which of "override", "app-path" and "param-store" are configured
    Provisioned,  \* the stacks whose bucket exists at the start
    Overlap,      \* may a request start while a task is under way
    RemoteFails,  \* may the remote index be out of reach
    MaxWrites,    \* bound: profile texts operators send
    MaxTasks,     \* bound: tasks under way at once
    MaxBoots,     \* bound: bootstraps asked for by operators
    MaxFaults,    \* bound: failing calls to a store
    MaxCrashes,   \* bound: restarts
    None

VARIABLES
    store,   \* per stack and name: the stored text, or None
    bucket,  \* per stack: the profiles bucket (documents and index), or None
    tasks,   \* the publishes and bootstraps under way
    proc,    \* the process: how far its start has come, the URLs it hands out
    loops,   \* per stack: the URL its scaler loop gives to the instances it spawns
    loaded,  \* the last index an instance loaded
    acked,   \* history: per stack and name, the operator's text last accepted
    spent    \* how much of each bound is used

vars == <<store, bucket, tasks, proc, loops, loaded, acked, spent>>

Least(S) == CHOOSE k \in S : \A j \in S : k <= j

Default == Least(Stacks)

\* A profile document: whose text (0: shipped or seeded), GPU-only or not, and
\* whether every rung already has its bounding width.
Text == [n : 0..MaxWrites, gpu : BOOLEAN, fit : BOOLEAN]

Shipped == [n |-> 0, gpu |-> FALSE, fit |-> FALSE]

isProfileRunnable(text) == text # None /\ ~text.gpu

levelSafe(text) == [text EXCEPT !.fit = TRUE]

Runnable(docs) == {m \in Names : isProfileRunnable(docs[m])}

Stored(docs) == {m \in Names : docs[m] # None}

NoDocs == [m \in Names |-> None]

\* The bucket as stack provisioning creates it.
Empty == [docs |-> NoDocs, index |-> None]

Url == [tier : {"override", "object-store", "app-path", "param-store", "remote-default"},
        stack : Stacks \cup {None}]

-----------------------------------------------------------------------------
\* Which index an instance is pointed at.

At(tier, s) == [tier |-> tier, stack |-> s]

\* The five tiers in their order; `published` is the stack whose publish went
\* through, or None, and `scoped` the stack named in the app's own route.
ResolveTier(published, scoped) ==
    CASE "override" \in Tiers -> At("override", None)
      [] "override" \notin Tiers /\ published # None -> At("object-store", published)
      [] "override" \notin Tiers /\ published = None /\ "app-path" \in Tiers -> At("app-path", scoped)
      [] OTHER -> At(IF "param-store" \in Tiers THEN "param-store" ELSE "remote-default", None)

\* The URL of one stack's loop: its own publish first, then the other tiers.
UrlForStack(s, ok) == ResolveTier(IF ok THEN s ELSE None, s)

-----------------------------------------------------------------------------
\* Tasks.

Task(id, kind, why, s) ==
    [id |-> id, kind |-> kind, why |-> why, stack |-> s,
     pc |-> IF kind = "publish" THEN "exists" ELSE "count",
     list |-> NoDocs, todo |-> {}, force |-> FALSE, some |-> FALSE]

Idle == Overlap \/ tasks = {}

Room == Cardinality(tasks) < MaxTasks

Serving == proc.phase = "serving"

Fits == spent.faults < MaxFaults

Becomes(t, u) == tasks' = (tasks \ {t}) \cup {u}

NewId == Least({k \in 1..MaxTasks : \A t \in tasks : t.id # k})

-----------------------------------------------------------------------------
\* The operator's requests: each is stored, then the stack is published again by
\* a task nobody waits for.

Notified(s) == tasks \cup {Task(NewId, "publish", "change", s)}

Write(s, m, gpu) ==
    /\ Serving /\ Idle /\ Room /\ spent.writes < MaxWrites
    /\ bucket[s] # None
    /\ LET text == [n |-> spent.writes + 1, gpu |-> gpu, fit |-> FALSE]
       IN  /\ store' = [store EXCEPT ![s][m] = text]
           /\ acked' = [acked EXCEPT ![s][m] = text.n]
    /\ tasks' = Notified(s)
    /\ spent' = [spent EXCEPT !.writes = @ + 1]
    /\ UNCHANGED <<bucket, proc, loops, loaded>>

\* POST / of a new name, PUT /:name of a stored one.
Create(s, m, gpu) == store[s][m] = None /\ Write(s, m, gpu)

Update(s, m, gpu) == store[s][m] # None /\ Write(s, m, gpu)

\* DELETE /:name.
Remove(s, m) ==
    /\ Serving /\ Idle /\ Room /\ bucket[s] # None /\ store[s][m] # None
    /\ store' = [store EXCEPT ![s][m] = None]
    /\ acked' = [acked EXCEPT ![s][m] = 0]
    /\ tasks' = Notified(s)
    /\ UNCHANGED <<spent, bucket, proc, loops, loaded>>

\* POST /bootstrap; a forced one is asked to overwrite what the index names.
AskBootstrap(s, force) ==
    /\ Serving /\ Idle /\ Room /\ spent.boots < MaxBoots /\ bucket[s] # None
    /\ tasks' = tasks \cup {[Task(NewId, "bootstrap", "post", s) EXCEPT !.force = force]}
    /\ spent' = [spent EXCEPT !.boots = @ + 1]
    /\ acked' = [acked EXCEPT ![s] = [m \in Names |-> IF force /\ m \in Remote THEN 0 ELSE @[m]]]
    /\ UNCHANGED <<store, bucket, proc, loops, loaded>>

\* Provisioning creates the stack's bucket and then seeds and publishes its profiles.
Provision(s) ==
    /\ Serving /\ Idle /\ Room /\ bucket[s] = None
    /\ bucket' = [bucket EXCEPT ![s] = Empty]
    /\ tasks' = tasks \cup {Task(NewId, "bootstrap", "seed", s)}
    /\ UNCHANGED <<spent, store, proc, loops, loaded, acked>>

-----------------------------------------------------------------------------
\* bootstrapProfiles.

Put(s, m, text) == store' = [store EXCEPT ![s][m] = text]

\* The number of profiles that are not built in decides whether the index is read.
Count(t) ==
    /\ t.kind = "bootstrap" /\ t.pc = "count"
    /\ Becomes(t, [t EXCEPT !.pc = "builtin", !.todo = Builtin,
                            !.some = ~t.force /\ Stored(store[t.stack]) \ Builtin # {}])
    /\ UNCHANGED <<store, bucket, proc, loops, loaded, acked, spent>>

\* ensureBuiltinProfiles: what is stored under the name is left alone.
SeedBuiltin(t) ==
    /\ t.kind = "bootstrap" /\ t.pc = "builtin" /\ t.todo # {}
    /\ LET m == Least(t.todo)
       IN  /\ Becomes(t, [t EXCEPT !.todo = @ \ {m}])
           /\ IF store[t.stack][m] = None THEN Put(t.stack, m, Shipped) ELSE UNCHANGED store
    /\ UNCHANGED <<bucket, proc, loops, loaded, acked, spent>>

\* The index is read unless profiles that are not built in were there before.
Fetch(t) ==
    /\ t.kind = "bootstrap" /\ t.pc = "builtin" /\ t.todo = {}
    /\ Becomes(t, IF t.some THEN [t EXCEPT !.pc = "fit-list"]
                  ELSE [t EXCEPT !.pc = "seed", !.todo = Remote])
    /\ UNCHANGED <<store, bucket, proc, loops, loaded, acked, spent>>

\* One entry of the index, fitted and stored; one that cannot be fetched is skipped.
Seed(t) ==
    /\ t.kind = "bootstrap" /\ t.pc = "seed" /\ t.todo # {}
    /\ LET m == Least(t.todo)
       IN  /\ Becomes(t, [t EXCEPT !.todo = @ \ {m}])
           /\ \/ Put(t.stack, m, levelSafe(Shipped)) /\ UNCHANGED spent
              \/ /\ Fits /\ UNCHANGED store
                 /\ spent' = [spent EXCEPT !.faults = @ + 1]
    /\ UNCHANGED <<bucket, proc, loops, loaded, acked>>

\* fitStoredProfileLadders reads the stored profiles once ...
FitList(t) ==
    /\ t.kind = "bootstrap"
    /\ t.pc = "fit-list" \/ (t.pc = "seed" /\ t.todo = {})
    /\ Becomes(t, [t EXCEPT !.pc = "fit", !.list = store[t.stack],
                            !.todo = {m \in Stored(store[t.stack]) : ~store[t.stack][m].fit}])
    /\ UNCHANGED <<store, bucket, proc, loops, loaded, acked, spent>>

\* ... and writes the fitted form of what it read over what is stored by then.
Fit(t) ==
    /\ t.kind = "bootstrap" /\ t.pc = "fit" /\ t.todo # {}
    /\ LET m == Least(t.todo)
       IN  /\ Becomes(t, [t EXCEPT !.todo = @ \ {m}])
           /\ IF store[t.stack][m] = None THEN UNCHANGED store
              ELSE Put(t.stack, m, levelSafe(t.list[m]))
    /\ UNCHANGED <<bucket, proc, loops, loaded, acked, spent>>

\* What follows a bootstrap: at start the second publish either way; a request or
\* a provision publishes only when the bootstrap went through.
After(t, ok) ==
    CASE t.why = "boot" -> {Task(t.id, "publish", "boot-seeded", t.stack)}
      [] t.why = "post" /\ ok -> {Task(t.id, "publish", "change", t.stack)}
      [] t.why = "seed" /\ ok -> {Task(t.id, "publish", "seed", t.stack)}
      [] OTHER -> {}

Bootstrapped(t) ==
    /\ t.kind = "bootstrap" /\ t.pc = "fit" /\ t.todo = {}
    /\ tasks' = (tasks \ {t}) \cup After(t, TRUE)
    /\ UNCHANGED <<spent, store, bucket, proc, loops, loaded, acked>>

\* The index cannot be fetched: the bootstrap throws, with its built-ins stored.
Unreachable(t) ==
    /\ RemoteFails
    /\ t.kind = "bootstrap" /\ t.pc = "builtin" /\ t.todo = {} /\ ~t.some
    /\ tasks' = (tasks \ {t}) \cup After(t, FALSE)
    /\ UNCHANGED <<spent, store, bucket, proc, loops, loaded, acked>>

-----------------------------------------------------------------------------
\* publishProfileIndex. What follows depends on who asked: the first publish at
\* start chooses the URL of the process and lets the store be seeded, the second
\* lets the process serve, and a loop's gives the loop its URL.

Ended(t, ok, count) ==
    /\ CASE t.why = "boot" ->
              /\ proc' = [proc EXCEPT !.phase = "seeding",
                            !.url = ResolveTier(IF ok THEN t.stack ELSE None, None),
                            !.expected = IF ok THEN count ELSE None]
              /\ Becomes(t, Task(t.id, "bootstrap", "boot", t.stack))
              /\ UNCHANGED loops
         [] t.why = "boot-seeded" ->
              /\ proc' = [proc EXCEPT !.phase = "serving"]
              /\ tasks' = tasks \ {t}
              /\ UNCHANGED loops
         [] t.why = "loop" ->
              LET url == UrlForStack(t.stack, ok)
              IN  /\ loops' = [loops EXCEPT ![t.stack] = url]
                  /\ proc' = [proc EXCEPT !.cache[t.stack] =
                                IF url.tier = "object-store" THEN url ELSE @]
                  /\ tasks' = tasks \ {t}
         [] OTHER -> tasks' = tasks \ {t} /\ UNCHANGED <<proc, loops>>
    /\ UNCHANGED <<store, loaded, acked>>

\* The bucket is looked for first: without it the publish is skipped.
Exists(t) ==
    /\ t.kind = "publish" /\ t.pc = "exists"
    /\ IF bucket[t.stack] = None THEN Ended(t, FALSE, 0)
       ELSE /\ Becomes(t, [t EXCEPT !.pc = "list"])
            /\ UNCHANGED <<store, proc, loops, loaded, acked>>
    /\ UNCHANGED <<bucket, spent>>

List(t) ==
    /\ t.kind = "publish" /\ t.pc = "list"
    /\ Becomes(t, [t EXCEPT !.pc = "docs", !.list = store[t.stack], !.todo = Runnable(store[t.stack])])
    /\ UNCHANGED <<store, bucket, proc, loops, loaded, acked, spent>>

\* The documents are written one by one, each in its level-safe form ...
PutDoc(t) ==
    /\ t.kind = "publish" /\ t.pc = "docs" /\ t.todo # {}
    /\ LET m == Least(t.todo)
       IN  /\ Becomes(t, [t EXCEPT !.todo = @ \ {m}])
           /\ bucket' = [bucket EXCEPT ![t.stack].docs[m] = levelSafe(t.list[m])]
    /\ UNCHANGED <<store, proc, loops, loaded, acked, spent>>

\* Bug form: the index is written before the documents.
PutIndexEarly(t) ==
    /\ t.kind = "publish" /\ t.pc = "docs"
    /\ bucket' = [bucket EXCEPT ![t.stack].index = Runnable(t.list)]
    /\ IF t.todo = {} THEN Ended(t, TRUE, Cardinality(Runnable(t.list)))
       ELSE UNCHANGED <<store, tasks, proc, loops, loaded, acked>>
    /\ UNCHANGED spent

\* ... and then the index of what was listed.
PutIndex(t) ==
    /\ t.kind = "publish" /\ t.pc = "docs" /\ t.todo = {}
    /\ bucket' = [bucket EXCEPT ![t.stack].index = Runnable(t.list)]
    /\ Ended(t, TRUE, Cardinality(Runnable(t.list)))
    /\ UNCHANGED spent

\* A call to a store fails: the publish reports it and is not tried again.
PublishFails(t) ==
    /\ Fits /\ t.kind = "publish"
    /\ Ended(t, FALSE, 0)
    /\ spent' = [spent EXCEPT !.faults = @ + 1]
    /\ UNCHANGED bucket

-----------------------------------------------------------------------------
\* The loops, the instances they spawn, the check at start, and a restart.

\* A loop for the stack: the cached URL, or a publish of the stack first.
EnsureLoop(s) ==
    /\ Serving /\ loops[s] = None /\ bucket[s] # None
    /\ IF proc.cache[s] # None
       THEN loops' = [loops EXCEPT ![s] = proc.cache[s]] /\ UNCHANGED tasks
       ELSE /\ Idle /\ Room
            /\ tasks' = tasks \cup {Task(NewId, "publish", "loop", s)}
            /\ UNCHANGED loops
    /\ UNCHANGED <<spent, store, bucket, proc, loaded, acked>>

\* What the URL serves: the bucket's index, or the app's own view of a store.
Served(url) ==
    CASE url.tier = "object-store" -> bucket[url.stack].index
      [] url.tier = "app-path" -> Runnable(store[IF url.stack = None THEN Default ELSE url.stack])
      [] OTHER -> None

\* An instance spawned for the stack reads its index once, as it starts.
Spawn(s) ==
    /\ loops[s] # None
    /\ loaded' = [stack |-> s, url |-> loops[s], names |-> Served(loops[s])]
    /\ UNCHANGED <<store, bucket, tasks, proc, loops, acked, spent>>

\* checkProfilesIndexReachable: the entries the index serves now against the
\* number the first publish at start reported.
Check ==
    /\ Serving /\ proc.verdict = None
    /\ proc.url.tier \in {"object-store", "app-path"}
    /\ proc' = [proc EXCEPT !.verdict =
                  IF proc.url.tier = "object-store" /\ Cardinality(Served(proc.url)) # proc.expected
                  THEN "stale" ELSE "ok"]
    /\ UNCHANGED <<store, bucket, tasks, loops, loaded, acked, spent>>

Fresh == [phase |-> "starting", url |-> None, expected |-> None, verdict |-> None,
          cache |-> [s \in Stacks |-> None]]

\* The process stops anywhere; the next one starts with the default stack's publish.
Crash ==
    /\ spent.crashes < MaxCrashes
    /\ proc' = Fresh
    /\ tasks' = {Task(1, "publish", "boot", Default)}
    /\ loops' = [s \in Stacks |-> None]
    /\ spent' = [spent EXCEPT !.crashes = @ + 1]
    /\ UNCHANGED <<store, bucket, loaded, acked>>

Init ==
    /\ store = [s \in Stacks |-> NoDocs]
    /\ bucket = [s \in Stacks |-> IF s \in Provisioned THEN Empty ELSE None]
    /\ tasks = {Task(1, "publish", "boot", Default)}
    /\ proc = Fresh
    /\ loops = [s \in Stacks |-> None]
    /\ loaded = None
    /\ acked = [s \in Stacks |-> [m \in Names |-> 0]]
    /\ spent = [writes |-> 0, boots |-> 0, faults |-> 0, crashes |-> 0]

Bootstrap(t) ==
    \/ Count(t) \/ SeedBuiltin(t) \/ Fetch(t) \/ Unreachable(t)
    \/ Seed(t) \/ FitList(t) \/ Fit(t) \/ Bootstrapped(t)

Publish(t) == Exists(t) \/ List(t) \/ PutDoc(t) \/ PutIndex(t) \/ PublishFails(t)

Next ==
    \/ \E s \in Stacks, m \in Names, gpu \in BOOLEAN : Create(s, m, gpu) \/ Update(s, m, gpu)
    \/ \E s \in Stacks, m \in Names : Remove(s, m)
    \/ \E s \in Stacks, force \in BOOLEAN : AskBootstrap(s, force)
    \/ \E s \in Stacks : Provision(s) \/ EnsureLoop(s) \/ Spawn(s)
    \/ \E t \in tasks : Bootstrap(t) \/ Publish(t)
    \/ Check
    \/ Crash

Spec == Init /\ [][Next]_vars

-----------------------------------------------------------------------------
\* Properties.

TypeOK ==
    /\ \A s \in Stacks, m \in Names : store[s][m] \in Text \cup {None}
    /\ \A s \in Stacks : bucket[s] # None => bucket[s].index \in (SUBSET Names) \cup {None}
    /\ \A s \in Stacks : loops[s] \in Url \cup {None} /\ proc.cache[s] \in Url \cup {None}
    /\ proc.phase \in {"starting", "seeding", "serving"}
    /\ proc.url \in Url \cup {None} /\ proc.verdict \in {None, "ok", "stale"}
    /\ Cardinality(tasks) <= MaxTasks
    /\ acked \in [Stacks -> [Names -> 0..MaxWrites]]

\* The published index never names a profile whose document is not in the bucket,
\* whatever publishes overlap, fail or are cut off by a restart.
IndexBacked ==
    \A s \in Stacks : bucket[s] # None /\ bucket[s].index # None =>
        \A m \in bucket[s].index : bucket[s].docs[m] # None

\* Once the process serves and nothing is under way, the default stack's bucket
\* holds what its store holds: the runnable names, each with its current text.
MirrorFresh ==
    Serving /\ tasks = {} /\ bucket[Default] # None =>
        /\ bucket[Default].index = Runnable(store[Default])
        /\ \A m \in bucket[Default].index :
              bucket[Default].docs[m] = levelSafe(store[Default][m])

\* A loop is never given another stack's profiles: not its bucket, not its route.
OwnIndex == \A s \in Stacks : loops[s] # None => loops[s].stack \in {s, None}

\* A text an operator sent and was told is stored stays the stored one until an
\* operator replaces or removes it; a bootstrap may only add bounding widths.
EditKept ==
    \A s \in Stacks, m \in Names :
        acked[s][m] # 0 => store[s][m] # None /\ store[s][m].n = acked[s][m]

===========================================================================
