---------------------------- MODULE ArchiveTier ----------------------------
(***************************************************************************)
(* Moving the bytes of one asset to the archive backend and back           *)
(* (pipeline/archive-tier-relocation.ts, pipeline/archive-tier-            *)
(* rehydrate.ts, the tiering writes of data/asset-repo.ts).  An engine run *)
(* reads the asset once, then per object looks, copies, looks again and    *)
(* deletes the origin; the tier of a byte class is written last.  A run    *)
(* may fail at any call or stop with its process.  No route calls the two  *)
(* engines yet: an operator is taken to run them.                          *)
(***************************************************************************)
EXTENDS Naturals, FiniteSets, TLC

CONSTANTS
    None,
    Classes,     \* the archivable byte classes
    Objects,     \* objects of the asset
    ClassOf,     \* [Objects -> Classes]
    Runs,        \* engine runs that may be under way at once
    Kinds,       \* which engines the operator starts
    MaxFaults    \* bound: failed calls and stops together

VARIABLES
    hot, cold,   \* objects present in either tier
    tier,        \* storageTiering.tiers
    rehydrating, \* storageTiering.rehydrating
    run,         \* engine runs
    faults
vars == <<hot, cold, tier, rehydrating, run, faults>>

Of(c) == {o \in Objects : ClassOf[o] = c}
NoRun == [at |-> "idle"]

Init ==
    /\ hot = Objects /\ cold = {}
    /\ tier = [c \in Classes |-> "hot"]
    /\ rehydrating = {}
    /\ run = [r \in Runs |-> NoRun]
    /\ faults = 0

---------------------------------------------------------------------------
(* A run: `seen` are the tiers it read, `todo` the classes left, `cls`,    *)
(* `objs` and `obj` the class, the objects left of it and the one in hand, *)
(* `whole` whether every object so far is moved, `done` classes to record. *)

Start(r, kind, cs) ==
    /\ run[r].at = "idle"
    /\ run' = [run EXCEPT ![r] = [at |-> "class", kind |-> kind, seen |-> tier, todo |-> cs,
                                  cls |-> None, objs |-> {}, obj |-> None, whole |-> TRUE,
                                  done |-> {}]]
    /\ UNCHANGED <<hot, cold, tier, rehydrating, faults>>

\* The next class: one already where it should be needs nothing; a rehydrate
\* marks the class before it moves a byte.
NextClass(r, c) ==
    LET q == run[r]  there == (q.kind = "relocate") = (q.seen[c] = "archive") IN
    /\ q.at = "class" /\ c \in q.todo
    /\ run' = [run EXCEPT ![r] =
                 IF there THEN [q EXCEPT !.todo = @ \ {c}]
                 ELSE [q EXCEPT !.at = "object", !.todo = @ \ {c}, !.cls = c,
                                !.objs = Of(c), !.whole = TRUE]]
    /\ rehydrating' = IF ~there /\ q.kind = "rehydrate" THEN rehydrating \cup {c}
                      ELSE rehydrating
    /\ UNCHANGED <<hot, cold, tier, faults>>

From(q) == IF q.kind = "relocate" THEN hot ELSE cold
To(q) == IF q.kind = "relocate" THEN cold ELSE hot
Move(q, from, to) ==
    IF q.kind = "relocate" THEN hot' = from /\ cold' = to ELSE cold' = from /\ hot' = to

Skipped(q, moved) == [q EXCEPT !.at = "object", !.objs = @ \ {q.obj}, !.whole = @ /\ moved]

\* The first look.  Origin gone and copy there: an earlier run moved it.  Gone
\* from both: the class is not recorded.
Look(r, o) ==
    LET q == [run[r] EXCEPT !.obj = o] IN
    /\ q.at = "object" /\ o \in q.objs
    /\ run' = [run EXCEPT ![r] = IF o \in From(q) THEN [q EXCEPT !.at = "copy"]
                                 ELSE Skipped(q, o \in To(q))]
    /\ UNCHANGED <<hot, cold, tier, rehydrating, faults>>

\* The server-side copy; its origin may be gone by now, which throws.
Copy(r) ==
    LET q == run[r] IN
    /\ q.at = "copy"
    /\ IF q.obj \in From(q)
       THEN /\ Move(q, From(q), To(q) \cup {q.obj})
            /\ run' = [run EXCEPT ![r].at = "verify"]
       ELSE /\ run' = [run EXCEPT ![r] = Skipped(q, FALSE)]
            /\ UNCHANGED <<hot, cold>>
    /\ UNCHANGED <<tier, rehydrating, faults>>

\* Variant: the copy is not looked for.
VerifyBlind(r) ==
    /\ run[r].at = "verify"
    /\ run' = [run EXCEPT ![r].at = "delete"]
    /\ UNCHANGED <<hot, cold, tier, rehydrating, faults>>

Verify(r) ==
    LET q == run[r] IN
    /\ q.at = "verify"
    /\ run' = [run EXCEPT ![r] = IF q.obj \in To(q) THEN [q EXCEPT !.at = "delete"]
                                 ELSE Skipped(q, FALSE)]
    /\ UNCHANGED <<hot, cold, tier, rehydrating, faults>>

Remove(r) ==
    LET q == run[r] IN
    /\ q.at = "delete"
    /\ Move(q, From(q) \ {q.obj}, To(q))
    /\ run' = [run EXCEPT ![r] = Skipped(q, TRUE)]
    /\ UNCHANGED <<tier, rehydrating, faults>>

\* The objects of a class are through: completeRehydrate at once, relocation
\* keeps the class for its one write at the end.
EndClass(r) ==
    LET q == run[r] IN
    /\ q.at = "object" /\ q.objs = {}
    /\ run' = [run EXCEPT ![r] = [q EXCEPT !.at = "class",
                                           !.done = IF q.whole THEN @ \cup {q.cls} ELSE @]]
    /\ IF q.kind = "rehydrate" /\ q.whole
       THEN /\ tier' = [tier EXCEPT ![q.cls] = "hot"]
            /\ rehydrating' = rehydrating \ {q.cls}
       ELSE UNCHANGED <<tier, rehydrating>>
    /\ UNCHANGED <<hot, cold, faults>>

\* setStorageTier: the whole map, made from the tiers read at the start.
EndRun(r) ==
    LET q == run[r] IN
    /\ q.at = "class" /\ q.todo = {}
    /\ run' = [run EXCEPT ![r] = NoRun]
    /\ tier' = IF q.kind = "relocate" /\ q.done # {}
               THEN [c \in Classes |-> IF c \in q.done THEN "archive" ELSE q.seen[c]]
               ELSE tier
    /\ UNCHANGED <<hot, cold, rehydrating, faults>>

\* A call of the object store throws, or the copy reports success and does not
\* land; or the process stops.
CallFails(r) ==
    LET q == run[r] IN
    /\ q.at \in {"copy", "delete"} /\ faults < MaxFaults
    /\ faults' = faults + 1
    /\ run' = [run EXCEPT ![r] = IF q.at = "copy" THEN [q EXCEPT !.at = "verify"]
                                 ELSE Skipped(q, FALSE)]
    /\ UNCHANGED <<hot, cold, tier, rehydrating>>

Stop ==
    /\ faults < MaxFaults
    /\ \E r \in Runs : run[r].at # "idle"
    /\ faults' = faults + 1
    /\ run' = [r \in Runs |-> NoRun]
    /\ UNCHANGED <<hot, cold, tier, rehydrating>>

Starts == \E r \in Runs, k \in Kinds, cs \in (SUBSET Classes) \ {{}} : Start(r, k, cs)
StartsAll == \E r \in Runs, k \in Kinds : Start(r, k, Classes)
Engine(r) ==
    \/ \E c \in Classes : NextClass(r, c)
    \/ \E o \in Objects : Look(r, o)
    \/ Copy(r) \/ Verify(r) \/ Remove(r) \/ EndClass(r) \/ EndRun(r)

Next == Starts \/ (\E r \in Runs : Engine(r) \/ CallFails(r)) \/ Stop

Spec == Init /\ [][Next]_vars

---------------------------------------------------------------------------
TypeOK ==
    /\ hot \subseteq Objects /\ cold \subseteq Objects
    /\ tier \in [Classes -> {"hot", "archive"}] /\ rehydrating \subseteq Classes
    /\ \A r \in Runs :
         /\ run[r].at \in {"idle", "class", "object", "copy", "verify", "delete"}
         /\ run[r].at \notin {"idle", "class"} => \A o \in run[r].objs : ClassOf[o] = run[r].cls

\* An object is deleted from a tier only while its copy is in the other: the
\* bytes are always somewhere.
NothingLost == hot \cup cold = Objects

\* The tier-write records only classes fully relocated: a class on `archive`
\* with no restore under way has all its objects in the archive.
TierHonest ==
    \A c \in Classes : tier[c] = "archive" /\ c \notin rehydrating => Of(c) \subseteq cold

\* A relocation that failed half-way, or whose process stopped between the
\* deletes and the tier-write, is healed by simply running it again.
Unfinished == \E c \in Classes : tier[c] # "archive" \/ ~(Of(c) \subseteq cold)
=============================================================================
