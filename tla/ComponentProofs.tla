-------------------------- MODULE ComponentProofs ---------------------------
(***************************************************************************)
(* Proofs about components that are small enough to be proved about here:  *)
(* the archive tier, the pollers of the callback queues, the scaler's      *)
(* configuration, status and registry, the watch-folder registry, the      *)
(* webhooks, the delete protection and the columns of the console's        *)
(* tables.  Each is proved about as a module of its own; their names for   *)
(* constants and variables are declared together here and no theorem       *)
(* relates two of them.                                                    *)
(***************************************************************************)
EXTENDS Integers, Sequences, FiniteSets, FiniteSetTheorems, TLAPS

CONSTANTS
    None, MaxFaults,
    Classes, Objects, ClassOf, Runs, Kinds,                      \* ArchiveTier
    Stacks, Reconciles, Serial, StoreFails, MaxIncs,             \* ScalerActivation
    Lo, Hi, MaxRaw, Reqs, Overlap, Lost, Toggles,                \* ScalerConfig
    FirstListed, Drops, Managed, Pulled, Home, Watchers, Passes, \* WatchFolder
    MaxChanges, ListFails, MaxStops, MaxBoots,
    Conns, Global, MaxReads, Churn, Blind,                       \* ScalerStatus
    Ids, Types, MaxEvents,                                       \* Webhooks
    Consoles, MaxReqs, MaxTouch, MaxLost, Attempts,              \* ConsoleLock
    Columns, Releases, Fixed, Optional, Groups, Windows,         \* ConsoleColumns
    Shared, Callers, MaxMade, MaxDown, Params                    \* ScalerRegistry

VARIABLES
    faults,
    hot, cold, tier, rehydrating, run,
    config, inc, live, shared, options, actPoll, actConn, actKey, pollers, removed, rec, del,
    blind, misread,
    env, store, phase, boot, src, loops, req, said, named,
    stacks, bucket, owned, watcher, registry, work, pass, kicks, changes, stops, boots,
    place, held, reach, cache, open, read, reads,
    regs, ev, post, got,
    doc, may, con, used,
    declared, view, stored,
    ticking, inTick, conns, call, made, resumed, down

Tier == INSTANCE ArchiveTier
Activation == INSTANCE ScalerActivation
Scaler == INSTANCE ScalerConfig
Watch == INSTANCE WatchFolder
Status == INSTANCE ScalerStatus
Hooks == INSTANCE Webhooks
Lock == INSTANCE ConsoleLock
Choice == INSTANCE ConsoleColumns
Registry == INSTANCE ScalerRegistry

---------------------------------------------------------------------------
\* The archive tier.  The engines move an object by a copy, a check and a delete,
\* and write the tiers of the asset's record as they go: what a run knows of its
\* object (Grounded) is the inductive invariant, and it is enough for every step.

Engines ==
  [at : {"class", "object", "copy", "verify", "delete"}, kind : Kinds,
   seen : [Classes -> {"hot", "archive"}], todo : SUBSET Classes, cls : Classes \cup {None},
   objs : SUBSET Objects, obj : Objects \cup {None}, whole : BOOLEAN, done : SUBSET Classes]

\* What the proofs ask of the constants.
ArchiveConstants ==
  /\ ClassOf \in [Objects -> Classes]
  /\ Kinds \subseteq {"relocate", "rehydrate"}

\* One engine run at a time, or any number of relocations.
Orderly == (\A r, s \in Runs : r = s) \/ Kinds \subseteq {"relocate"}

TierTypes ==
  /\ hot \subseteq Objects /\ cold \subseteq Objects
  /\ tier \in [Classes -> {"hot", "archive"}] /\ rehydrating \subseteq Classes
  /\ run \in [Runs -> Engines \cup {Tier!NoRun}]

\* What a run has to go on: its class and object; that an object it is about to
\* delete has its copy; that what it calls moved is in the other tier; and that
\* the tiers it read and the classes it will record are true.
Grounded(q) ==
  /\ q.at # "class" => q.cls \in Classes /\ q.objs \subseteq Tier!Of(q.cls)
  /\ q.at \in {"copy", "verify", "delete"} => q.obj \in q.objs
  /\ q.at = "delete" => q.obj \in Tier!To(q)
  /\ q.at # "class" /\ q.whole => Tier!Of(q.cls) \ q.objs \subseteq Tier!To(q)
  /\ q.at # "class" /\ q.kind = "rehydrate" => q.cls \in rehydrating
  /\ q.kind = "relocate" =>
       \A c \in Classes : c \in q.done \/ (q.seen[c] = "archive" /\ c \notin rehydrating)
                          => Tier!Of(c) \subseteq cold

TierInv ==
  /\ TierTypes /\ Tier!NothingLost /\ Tier!TierHonest
  /\ \A r \in Runs : run[r] # Tier!NoRun => Grounded(run[r])

\* A run stays grounded while the tier it moves to only grows.
LEMMA GroundedStays ==
  ASSUME NEW q \in Engines, Grounded(q), Tier!To(q) \subseteq Tier!To(q)',
         rehydrating \subseteq rehydrating'
  PROVE  Grounded(q)'
BY DEF Grounded, Tier!To, Tier!Of, Engines

\* Beside another run there are relocations only, so a relocation's step leaves
\* it grounded.
LEMMA Beside ==
  ASSUME ArchiveConstants, Orderly, TierTypes, NEW r \in Runs, NEW s \in Runs, r # s,
         run[s] # Tier!NoRun, Grounded(run[s]), run'[s] = run[s],
         run[r] # Tier!NoRun /\ run[r].kind = "relocate" =>
           cold \subseteq cold' /\ rehydrating \subseteq rehydrating',
         run[r] = Tier!NoRun => UNCHANGED <<hot, cold, rehydrating>>
  PROVE  Grounded(run[s])'
<1>1. Kinds \subseteq {"relocate"}
  BY DEF Orderly
<1>2. PICK q \in Engines : q = run[s]
  BY DEF TierTypes
<1>3. q.kind = "relocate" /\ (run[r] # Tier!NoRun => run[r].kind = "relocate")
  BY <1>1, <1>2 DEF TierTypes, Engines
<1>4. Grounded(q) /\ Tier!To(q) \subseteq Tier!To(q)' /\ rehydrating \subseteq rehydrating'
  BY <1>2, <1>3 DEF Tier!To
<1>5. Grounded(q)'
  BY <1>2, <1>4, GroundedStays
<1> QED BY <1>2, <1>5

\* A step of run r that leaves it as p, grounded, keeps the invariant.
LEMMA TierMoved ==
  ASSUME ArchiveConstants, Orderly, TierInv, NEW r \in Runs, NEW p \in Engines \cup {Tier!NoRun},
         run' = [run EXCEPT ![r] = p], p # Tier!NoRun => Grounded(p)',
         hot' \subseteq Objects /\ cold' \subseteq Objects,
         tier' \in [Classes -> {"hot", "archive"}] /\ rehydrating' \subseteq Classes,
         Tier!NothingLost', Tier!TierHonest',
         run[r] # Tier!NoRun /\ run[r].kind = "relocate" =>
           cold \subseteq cold' /\ rehydrating \subseteq rehydrating',
         run[r] = Tier!NoRun => UNCHANGED <<hot, cold, rehydrating>>
  PROVE  TierInv'
<1>1. TierTypes'
  BY DEF TierInv, TierTypes
<1>2. ASSUME NEW s \in Runs, run'[s] # Tier!NoRun
      PROVE  Grounded(run[s])'
  <2>1. CASE s = r
    BY <1>2, <2>1 DEF TierInv, TierTypes
  <2>2. CASE s # r
    <3>1. run'[s] = run[s]
      BY <2>2 DEF TierInv, TierTypes
    <3>2. run[s] # Tier!NoRun /\ Grounded(run[s])
      BY <1>2, <3>1 DEF TierInv
    <3> QED BY <2>2, <3>1, <3>2, Beside DEF TierInv
  <2> QED BY <2>1, <2>2
<1> QED BY <1>1, <1>2 DEF TierInv

\* A run under way.
LEMMA EngineRunning ==
  ASSUME TierInv, NEW r \in Runs, run[r].at # "idle"
  PROVE  run[r] \in Engines /\ Grounded(run[r]) /\ run[r] # Tier!NoRun
BY DEF TierInv, TierTypes, Tier!NoRun

LEMMA StartKeeps ==
  ASSUME ArchiveConstants, Orderly, TierInv, NEW r \in Runs, NEW k \in Kinds,
         NEW cs \in SUBSET Classes, Tier!Start(r, k, cs)
  PROVE  TierInv'
<1> DEFINE p == [at |-> "class", kind |-> k, seen |-> tier, todo |-> cs, cls |-> None,
                 objs |-> {}, obj |-> None, whole |-> TRUE, done |-> {}]
<1>1. run[r] = Tier!NoRun /\ run' = [run EXCEPT ![r] = p] /\ UNCHANGED <<hot, cold, tier, rehydrating>>
  BY DEF Tier!Start, TierInv, TierTypes, Engines, Tier!NoRun
<1>2. PICK q \in Engines : q = p
  BY DEF TierInv, TierTypes, Engines
<1>3. Grounded(q)'
  BY <1>1, <1>2 DEF Grounded, TierInv, Tier!TierHonest, Tier!Of
<1> HIDE DEF p
<1>4. Tier!NothingLost' /\ Tier!TierHonest'
  BY <1>1 DEF TierInv, Tier!NothingLost, Tier!TierHonest
<1>5. run' = [run EXCEPT ![r] = q]
  BY <1>1, <1>2
<1> QED BY <1>1, <1>3, <1>4, <1>5, TierMoved DEF TierInv, TierTypes

LEMMA NextClassKeeps ==
  ASSUME ArchiveConstants, Orderly, TierInv, NEW r \in Runs, NEW c \in Classes, Tier!NextClass(r, c)
  PROVE  TierInv'
<1>1. PICK q \in Engines : q = run[r]
  BY EngineRunning DEF Tier!NextClass
<1>2. Grounded(q) /\ q.at = "class" /\ UNCHANGED <<hot, cold, tier>> /\ run[r] # Tier!NoRun
  BY <1>1, EngineRunning DEF Tier!NextClass
<1> DEFINE there == (q.kind = "relocate") = (q.seen[c] = "archive")
           p == IF there THEN [q EXCEPT !.todo = @ \ {c}]
                ELSE [q EXCEPT !.at = "object", !.todo = @ \ {c}, !.cls = c,
                               !.objs = Tier!Of(c), !.whole = TRUE]
<1>3. run' = [run EXCEPT ![r] = p] /\ rehydrating' \subseteq Classes
      /\ rehydrating' = IF ~there /\ q.kind = "rehydrate" THEN rehydrating \cup {c} ELSE rehydrating
  BY <1>1 DEF Tier!NextClass, TierInv, TierTypes
<1>4. Tier!Of(c) \subseteq Objects
  BY DEF Tier!Of
<1>5. p \in Engines
  BY <1>4 DEF Engines
<1>6. Grounded(p)'
  <2>1. CASE there
    BY <1>2, <1>3, <2>1 DEF Grounded, Tier!To, Tier!Of, Engines
  <2>2. CASE ~there
    BY <1>2, <1>3, <2>2 DEF Grounded, Tier!To, Tier!Of, Engines
  <2> QED BY <2>1, <2>2
<1> HIDE DEF p, there
<1>7. Tier!NothingLost' /\ Tier!TierHonest'
  BY <1>2, <1>3 DEF TierInv, Tier!NothingLost, Tier!TierHonest
<1> QED BY <1>2, <1>3, <1>5, <1>6, <1>7, TierMoved DEF TierInv, TierTypes

LEMMA LookKeeps ==
  ASSUME ArchiveConstants, Orderly, TierInv, NEW r \in Runs, NEW o \in Objects, Tier!Look(r, o)
  PROVE  TierInv'
<1>1. PICK q \in Engines : q = run[r]
  BY EngineRunning DEF Tier!Look
<1>2. /\ Grounded(q) /\ q.at = "object" /\ o \in q.objs /\ UNCHANGED <<hot, cold, tier, rehydrating>>
      /\ run[r] # Tier!NoRun
  BY <1>1, EngineRunning DEF Tier!Look, Engines
<1> DEFINE h == [q EXCEPT !.obj = o]
           p == IF o \in Tier!From(h) THEN [h EXCEPT !.at = "copy"] ELSE Tier!Skipped(h, o \in Tier!To(h))
<1>3. run' = [run EXCEPT ![r] = p]
  BY <1>1 DEF Tier!Look
<1>4. PICK e \in Engines : e = p
  BY DEF Engines, Tier!Skipped
<1>5. Grounded(e)'
  <2>1. CASE o \in Tier!From(h)
    BY <1>2, <1>4, <2>1 DEF Grounded, Tier!To, Tier!Of, Engines
  <2>2. CASE o \notin Tier!From(h)
    <3>1. /\ e.at = "object" /\ e.cls = q.cls /\ e.objs = q.objs \ {o} /\ e.kind = q.kind
          /\ e.seen = q.seen /\ e.done = q.done /\ (e.whole => q.whole /\ o \in Tier!To(q))
      BY <1>4, <2>2 DEF Engines, Tier!Skipped, Tier!To
    <3> QED BY <1>2, <3>1 DEF Grounded, Tier!To, Tier!Of
  <2> QED BY <2>1, <2>2
<1> HIDE DEF p, h
<1>6. Tier!NothingLost' /\ Tier!TierHonest'
  BY <1>2 DEF TierInv, Tier!NothingLost, Tier!TierHonest
<1> QED BY <1>2, <1>3, <1>4, <1>5, <1>6, TierMoved DEF TierInv, TierTypes

LEMMA VerifyKeeps ==
  ASSUME ArchiveConstants, Orderly, TierInv, NEW r \in Runs, Tier!Verify(r)
  PROVE  TierInv'
<1>1. PICK q \in Engines : q = run[r]
  BY EngineRunning DEF Tier!Verify
<1>2. /\ Grounded(q) /\ q.at = "verify" /\ UNCHANGED <<hot, cold, tier, rehydrating>>
      /\ run[r] # Tier!NoRun
  BY <1>1, EngineRunning DEF Tier!Verify
<1> DEFINE p == IF q.obj \in Tier!To(q) THEN [q EXCEPT !.at = "delete"] ELSE Tier!Skipped(q, FALSE)
<1>3. run' = [run EXCEPT ![r] = p]
  BY <1>1 DEF Tier!Verify
<1>4. PICK e \in Engines : e = p
  BY DEF Engines, Tier!Skipped
<1>5. Grounded(e)'
  <2>1. CASE q.obj \in Tier!To(q)
    <3>1. /\ e.at = "delete" /\ e.obj = q.obj /\ e.cls = q.cls /\ e.objs = q.objs
          /\ e.kind = q.kind /\ e.seen = q.seen /\ e.done = q.done /\ e.whole = q.whole
      BY <1>4, <2>1 DEF Engines
    <3> QED
      BY <1>2, <2>1, <3>1 DEF Grounded, Tier!To, Tier!Of
  <2>2. CASE q.obj \notin Tier!To(q)
    <3>1. /\ e.at = "object" /\ ~e.whole /\ e.cls = q.cls /\ e.objs = q.objs \ {q.obj}
          /\ e.kind = q.kind /\ e.seen = q.seen /\ e.done = q.done
      BY <1>4, <2>2 DEF Engines, Tier!Skipped
    <3> QED
      BY <1>2, <3>1 DEF Grounded, Tier!Of
  <2> QED
    BY <2>1, <2>2
<1> HIDE DEF p
<1>6. Tier!NothingLost' /\ Tier!TierHonest'
  BY <1>2 DEF TierInv, Tier!NothingLost, Tier!TierHonest
<1> QED BY <1>2, <1>3, <1>4, <1>5, <1>6, TierMoved DEF TierInv, TierTypes

LEMMA CopyKeeps ==
  ASSUME ArchiveConstants, Orderly, TierInv, NEW r \in Runs, Tier!Copy(r)
  PROVE  TierInv'
<1>1. PICK q \in Engines : q = run[r]
  BY EngineRunning DEF Tier!Copy
<1>2. Grounded(q) /\ q.at = "copy" /\ UNCHANGED <<tier, rehydrating>> /\ run[r] # Tier!NoRun
  BY <1>1, EngineRunning DEF Tier!Copy
<1>3. q.obj \in Objects
  BY <1>2 DEF Grounded, Tier!Of
<1> DEFINE p == IF q.obj \in Tier!From(q) THEN [q EXCEPT !.at = "verify"] ELSE Tier!Skipped(q, FALSE)
<1>4. run' = [run EXCEPT ![r] = p]
  BY <1>1 DEF Tier!Copy
<1>5. PICK e \in Engines : e = p
  BY DEF Engines, Tier!Skipped
<1>6. /\ hot \subseteq hot' /\ cold \subseteq cold'
      /\ hot' \subseteq Objects /\ cold' \subseteq Objects
  BY <1>1, <1>3 DEF Tier!Copy, Tier!Move, Tier!From, Tier!To, TierInv, TierTypes
<1>7. Grounded(e)'
  BY <1>2, <1>5, <1>6 DEF Grounded, Tier!To, Tier!Of, Engines, Tier!Skipped
<1> HIDE DEF p
<1>8. Tier!NothingLost' /\ Tier!TierHonest'
  BY <1>2, <1>6 DEF TierInv, Tier!NothingLost, Tier!TierHonest
<1> QED BY <1>2, <1>4, <1>5, <1>6, <1>7, <1>8, TierMoved DEF TierInv, TierTypes

LEMMA RemoveKeeps ==
  ASSUME ArchiveConstants, Orderly, TierInv, NEW r \in Runs, Tier!Remove(r)
  PROVE  TierInv'
<1>1. PICK q \in Engines : q = run[r]
  BY EngineRunning DEF Tier!Remove
<1>2. Grounded(q) /\ q.at = "delete" /\ UNCHANGED <<tier, rehydrating>> /\ run[r] # Tier!NoRun
  BY <1>1, EngineRunning DEF Tier!Remove
<1>3. q.obj \in Tier!Of(q.cls) /\ q.obj \in Tier!To(q) /\ q.obj \in Objects
  BY <1>2 DEF Grounded, Tier!Of
<1> DEFINE p == Tier!Skipped(q, TRUE)
<1>4. run' = [run EXCEPT ![r] = p]
  BY <1>1 DEF Tier!Remove
<1>5. p \in Engines
  BY DEF Engines, Tier!Skipped
<1>6. CASE q.kind = "relocate"
  <2>1. cold' = cold /\ hot' = hot \ {q.obj} /\ q.obj \in cold
    BY <1>1, <1>3, <1>6 DEF Tier!Remove, Tier!Move, Tier!From, Tier!To
  <2>2. Grounded(p)'
    BY <1>2, <1>3, <1>6, <2>1 DEF Grounded, Tier!To, Tier!Of, Engines, Tier!Skipped
  <2> HIDE DEF p
  <2>3. Tier!NothingLost' /\ Tier!TierHonest'
    BY <1>2, <2>1 DEF TierInv, Tier!NothingLost, Tier!TierHonest
  <2> QED BY <1>2, <1>4, <1>5, <2>1, <2>2, <2>3, TierMoved DEF TierInv, TierTypes
<1>7. CASE q.kind # "relocate"
  <2>1. hot' = hot /\ cold' = cold \ {q.obj} /\ q.obj \in hot /\ q.cls \in rehydrating
    BY <1>1, <1>2, <1>3, <1>7 DEF Tier!Remove, Tier!Move, Tier!From, Tier!To, Grounded, Engines, ArchiveConstants
  <2>2. Grounded(p)'
    BY <1>2, <1>3, <1>7, <2>1 DEF Grounded, Tier!To, Tier!Of, Engines, Tier!Skipped
  <2> HIDE DEF p
  <2>3. Tier!NothingLost' /\ Tier!TierHonest'
    BY <1>2, <1>3, <2>1 DEF TierInv, Tier!NothingLost, Tier!TierHonest, Tier!Of
  <2> QED BY <1>1, <1>2, <1>4, <1>5, <1>7, <2>1, <2>2, <2>3, TierMoved DEF TierInv, TierTypes
<1> QED BY <1>6, <1>7

LEMMA EndClassKeeps ==
  ASSUME ArchiveConstants, Orderly, TierInv, NEW r \in Runs, Tier!EndClass(r)
  PROVE  TierInv'
<1>1. PICK q \in Engines : q = run[r]
  BY EngineRunning DEF Tier!EndClass
<1>2. Grounded(q) /\ q.at = "object" /\ q.objs = {} /\ UNCHANGED <<hot, cold>> /\ run[r] # Tier!NoRun
  BY <1>1, EngineRunning DEF Tier!EndClass
<1>3. q.cls \in Classes /\ (q.whole => Tier!Of(q.cls) \subseteq Tier!To(q))
  BY <1>2 DEF Grounded
<1> DEFINE p == [q EXCEPT !.at = "class", !.done = IF q.whole THEN @ \cup {q.cls} ELSE @]
<1>4. run' = [run EXCEPT ![r] = p]
  BY <1>1 DEF Tier!EndClass
<1>5. p \in Engines
  BY <1>3 DEF Engines
<1>6. CASE q.kind = "rehydrate" /\ q.whole
  <2>1. tier' = [tier EXCEPT ![q.cls] = "hot"] /\ rehydrating' = rehydrating \ {q.cls}
    BY <1>1, <1>6 DEF Tier!EndClass
  <2>2. Grounded(p)'
    BY <1>6 DEF Grounded, Engines
  <2> HIDE DEF p
  <2>3. Tier!NothingLost' /\ Tier!TierHonest'
    BY <1>2, <1>3, <2>1 DEF TierInv, TierTypes, Tier!NothingLost, Tier!TierHonest
  <2>4. tier' \in [Classes -> {"hot", "archive"}] /\ rehydrating' \subseteq Classes
    BY <2>1 DEF TierInv, TierTypes
  <2> QED BY <1>1, <1>2, <1>4, <1>5, <1>6, <2>2, <2>3, <2>4, TierMoved DEF TierInv, TierTypes
<1>7. CASE ~(q.kind = "rehydrate" /\ q.whole)
  <2>1. UNCHANGED <<tier, rehydrating>>
    BY <1>1, <1>7 DEF Tier!EndClass
  <2>2. Grounded(p)'
    BY <1>2, <1>3, <1>7, <2>1 DEF Grounded, Tier!To, Tier!Of, Engines
  <2> HIDE DEF p
  <2>3. Tier!NothingLost' /\ Tier!TierHonest'
    BY <1>2, <2>1 DEF TierInv, Tier!NothingLost, Tier!TierHonest
  <2> QED BY <1>2, <1>4, <1>5, <2>1, <2>2, <2>3, TierMoved DEF TierInv, TierTypes
<1> QED BY <1>6, <1>7

LEMMA EndRunKeeps ==
  ASSUME ArchiveConstants, Orderly, TierInv, NEW r \in Runs, Tier!EndRun(r)
  PROVE  TierInv'
<1>1. PICK q \in Engines : q = run[r]
  BY EngineRunning DEF Tier!EndRun
<1>2. Grounded(q) /\ UNCHANGED <<hot, cold, rehydrating>> /\ run[r] # Tier!NoRun
      /\ run' = [run EXCEPT ![r] = Tier!NoRun]
  BY <1>1, EngineRunning DEF Tier!EndRun
<1>3. tier' = IF q.kind = "relocate" /\ q.done # {}
              THEN [c \in Classes |-> IF c \in q.done THEN "archive" ELSE q.seen[c]]
              ELSE tier
  BY <1>1 DEF Tier!EndRun
<1>4. tier' \in [Classes -> {"hot", "archive"}]
  BY <1>3 DEF Engines, TierInv, TierTypes
<1>5. Tier!NothingLost' /\ Tier!TierHonest'
  BY <1>2, <1>3 DEF TierInv, Tier!NothingLost, Tier!TierHonest, Grounded, Tier!Of
<1> QED BY <1>2, <1>4, <1>5, TierMoved DEF TierInv, TierTypes

LEMMA CallFailsKeeps ==
  ASSUME ArchiveConstants, Orderly, TierInv, NEW r \in Runs, Tier!CallFails(r)
  PROVE  TierInv'
<1>1. PICK q \in Engines : q = run[r]
  BY EngineRunning DEF Tier!CallFails
<1>2. /\ Grounded(q) /\ q.at \in {"copy", "delete"} /\ UNCHANGED <<hot, cold, tier, rehydrating>>
      /\ run[r] # Tier!NoRun
  BY <1>1, EngineRunning DEF Tier!CallFails
<1> DEFINE p == IF q.at = "copy" THEN [q EXCEPT !.at = "verify"] ELSE Tier!Skipped(q, FALSE)
<1>3. run' = [run EXCEPT ![r] = p]
  BY <1>1 DEF Tier!CallFails
<1>4. p \in Engines
  BY DEF Engines, Tier!Skipped
<1>5. Grounded(p)'
  BY <1>2 DEF Grounded, Tier!To, Tier!Of, Engines, Tier!Skipped
<1> HIDE DEF p
<1>6. Tier!NothingLost' /\ Tier!TierHonest'
  BY <1>2 DEF TierInv, Tier!NothingLost, Tier!TierHonest
<1> QED BY <1>2, <1>3, <1>4, <1>5, <1>6, TierMoved DEF TierInv, TierTypes

LEMMA TierStep ==
  ASSUME ArchiveConstants, Orderly, TierInv, [Tier!Next]_(Tier!vars)
  PROVE  TierInv'
<1>1. CASE Tier!Starts
  BY <1>1, StartKeeps DEF Tier!Starts
<1>2. CASE \E r \in Runs : Tier!Engine(r) \/ Tier!CallFails(r)
  <2>1. PICK r \in Runs : Tier!Engine(r) \/ Tier!CallFails(r)
    BY <1>2
  <2>2. CASE \E c \in Classes : Tier!NextClass(r, c)
    BY <2>2, NextClassKeeps
  <2>3. CASE \E o \in Objects : Tier!Look(r, o)
    BY <2>3, LookKeeps
  <2>4. CASE Tier!Copy(r) \/ Tier!Verify(r) \/ Tier!Remove(r)
    BY <2>4, CopyKeeps, VerifyKeeps, RemoveKeeps
  <2>5. CASE Tier!EndClass(r) \/ Tier!EndRun(r) \/ Tier!CallFails(r)
    BY <2>5, EndClassKeeps, EndRunKeeps, CallFailsKeeps
  <2> QED BY <2>1, <2>2, <2>3, <2>4, <2>5 DEF Tier!Engine
<1>3. CASE Tier!Stop
  <2>1. run' = [r \in Runs |-> Tier!NoRun] /\ UNCHANGED <<hot, cold, tier, rehydrating>>
    BY <1>3 DEF Tier!Stop
  <2> QED BY <2>1 DEF TierInv, TierTypes, Tier!NothingLost, Tier!TierHonest
<1>4. CASE UNCHANGED Tier!vars
  BY <1>4 DEF Tier!vars, TierInv, TierTypes, Tier!NothingLost, Tier!TierHonest, Grounded, Tier!To
<1> QED BY <1>1, <1>2, <1>3, <1>4 DEF Tier!Next

LEMMA TierStart ==
  ASSUME ArchiveConstants, Tier!Init
  PROVE  TierInv
BY DEF ArchiveConstants, Tier!Init, TierInv, TierTypes, Tier!NothingLost, Tier!TierHonest

\* However copies, looks and deletes fail and the process stops, and with
\* relocations at once, an object is deleted from a tier only while its copy is
\* in the other (archive-tier-relocation.ts, archive-tier-rehydrate.ts).
THEOREM BytesKept ==
  ASSUME ArchiveConstants, Orderly
  PROVE  Tier!Spec => []Tier!NothingLost
<1>1. Tier!Init => TierInv
  BY TierStart
<1>2. TierInv /\ [Tier!Next]_(Tier!vars) => TierInv'
  BY TierStep
<1>3. TierInv => Tier!NothingLost
  BY DEF TierInv
<1> QED BY <1>1, <1>2, <1>3, PTL DEF Tier!Spec

\* Likewise a class recorded on the archive, with no restore under way, has all
\* its objects there (setStorageTier, completeRehydrate).
THEOREM TiersTrue ==
  ASSUME ArchiveConstants, Orderly
  PROVE  Tier!Spec => []Tier!TierHonest
<1>1. Tier!Init => TierInv
  BY TierStart
<1>2. TierInv /\ [Tier!Next]_(Tier!vars) => TierInv'
  BY TierStep
<1>3. TierInv => Tier!TierHonest
  BY DEF TierInv
<1> QED BY <1>1, <1>2, <1>3, PTL DEF Tier!Spec

---------------------------------------------------------------------------
\* Which Valkeys have a poller.  With stack changes and reconciles one at a time,
\* every stored config's queue is drained by one poller and by no more: the pollers
\* are those of the Valkeys that exist, but for the one of the activation poller.

Valkeys == Stacks \X Nat
Teardowns == [stack : Stacks, pc : {"queue", "gone", "kept"}]
Listings == SUBSET (Stacks \X Valkeys)
Phases == [pc : {"idle", "resolve", "list", "sync", "deactivate"}, seen : Listings]

\* Stacks change one after another and a stored config that is to be deleted is:
\* two changes at once may leave a Valkey without a poller.
Steady == Serial /\ ~StoreFails

ActivationConstants ==
  None \notin Stacks /\ None \notin Valkeys /\ None \notin Teardowns /\ MaxIncs \in Nat

ActivationTypes ==
  /\ config \in [Stacks -> Nat] /\ inc \in [Stacks -> Nat]
  /\ \A s \in Stacks : config[s] <= inc[s] /\ inc[s] <= MaxIncs
  /\ shared \in Valkeys \cup {None} /\ actConn \in Valkeys \cup {None}
  /\ options \in BOOLEAN /\ actPoll \in BOOLEAN
  /\ actKey \in Stacks \cup {None} /\ removed \subseteq Stacks /\ pollers \subseteq Valkeys
  /\ rec \in [Reconciles -> Phases] /\ del \in Teardowns \cup {None}
  /\ blind \in BOOLEAN /\ misread \in BOOLEAN /\ (blind => misread)

AtPc(r, pc) == rec[r].pc = pc
Torn(s) == del # None /\ del.stack = s

\* One thing at a time: a reconcile, or a teardown.
OneByOne ==
  /\ \A q, r \in Reconciles : ~AtPc(q, "idle") /\ ~AtPc(r, "idle") => q = r
  /\ del # None => \A r \in Reconciles : AtPc(r, "idle")

\* A Valkey is there only as the one its stack's config names; of those named, the
\* ones recorded as removed are gone, and while every listing could be read the ones
\* that are gone are recorded.
QueuesTrue ==
  /\ live \subseteq Activation!Stored
  /\ \A s \in Stacks : config[s] > 0 /\ ~Torn(s) =>
       /\ s \in removed => <<s, config[s]>> \notin live
       /\ ~misread => (s \in removed \/ <<s, config[s]>> \in live)
  /\ del # None =>
       /\ config[del.stack] > 0
       /\ del.pc = "gone" => <<del.stack, config[del.stack]>> \notin live
       /\ del.pc = "kept" => <<del.stack, config[del.stack]>> \in live

\* What is polled is polled once and, while every listing could be read, is there and
\* not about to be torn down.
PollsTrue ==
  /\ actPoll => options /\ actConn # None
  /\ options => actConn \notin pollers
  /\ ~misread =>
       /\ pollers \subseteq live /\ \A c \in pollers : ~Torn(c[1])
       /\ actPoll => actConn \in live /\ ~Torn(actConn[1])

\* The key the activation poller is stopped by is its stack's, but while a
\* reconcile works it out again.
KeyTrue ==
  /\ ~misread /\ actPoll /\ (\A r \in Reconciles : ~AtPc(r, "list") /\ ~AtPc(r, "sync")) =>
       actKey = actConn[1]
  /\ (\E r \in Reconciles : AtPc(r, "list") \/ AtPc(r, "sync")) => actKey = None

\* When the scaler is on, and what a reconcile has seen.
OnTrue ==
  /\ ~options /\ (\A r \in Reconciles : ~AtPc(r, "deactivate")) => shared = None
  /\ shared = None => ~options /\ pollers = {}
  /\ shared # None => actConn # None
  /\ ~misread /\ shared = None /\ (\E r \in Reconciles : AtPc(r, "resolve")) => Activation!Stored \subseteq live
  /\ ~misread /\ del # None => shared # None
  /\ \A r \in Reconciles :
       /\ AtPc(r, "list") \/ AtPc(r, "sync") => options /\ shared # None /\ Activation!Stored # {} /\ actConn # None
       /\ AtPc(r, "list") => ~blind
       /\ AtPc(r, "sync") /\ ~blind => rec[r].seen = Activation!Owned
       /\ AtPc(r, "deactivate") => (blind \/ Activation!Stored = {}) /\ ~options /\ pollers = {}

RestTrue == Activation!AtRest /\ ~blind => (shared # None <=> Activation!Stored # {}) /\ live \subseteq Activation!Polled

ActivationInv ==
  ActivationTypes /\ OneByOne /\ QueuesTrue /\ PollsTrue /\ KeyTrue /\ OnTrue /\ RestTrue

LEMMA StoredIs ==
  ASSUME ActivationTypes, NEW c
  PROVE  /\ c \in Activation!Stored <=> \E s \in Stacks : c = <<s, config[s]>> /\ config[s] > 0
         /\ c \in Activation!Stored => c \in Valkeys /\ c = <<c[1], config[c[1]]>> /\ c[1] \in Stacks
BY DEF Activation!Stored, ActivationTypes, Valkeys

LEMMA OthersIdle ==
  ASSUME OneByOne, NEW r \in Reconciles, ~AtPc(r, "idle")
  PROVE  del = None /\ ~Activation!AtRest /\ \A q \in Reconciles \ {r} : AtPc(q, "idle")
BY DEF OneByOne, Activation!AtRest, AtPc

\* A change signals a reconcile while there is none.
LEMMA Signals ==
  ASSUME ActivationConstants, ActivationTypes, Activation!Signal, \A q \in Reconciles : AtPc(q, "idle")
  PROVE  \E r \in Reconciles :
           /\ AtPc(r, "resolve")' /\ \A q \in Reconciles \ {r} : AtPc(q, "idle")'
           /\ rec' \in [Reconciles -> Phases] /\ ~Activation!AtRest'
<1>1. PICK r \in Reconciles : rec' = [rec EXCEPT ![r].pc = "resolve"]
  BY DEF Activation!Signal
<1>2. rec' \in [Reconciles -> Phases]
  BY <1>1 DEF ActivationTypes, Phases
<1>3. AtPc(r, "resolve")' /\ \A q \in Reconciles \ {r} : AtPc(q, "idle")'
  BY <1>1 DEF ActivationTypes, Phases, AtPc
<1> QED BY <1>2, <1>3 DEF AtPc, Activation!AtRest

LEMMA ProvisionKeeps ==
  ASSUME ActivationConstants, Steady, ActivationInv, NEW s \in Stacks, Activation!Provision(s)
  PROVE  ActivationInv'
<1>1. /\ Activation!AtRest /\ <<s, config[s]>> \notin live /\ inc[s] < MaxIncs
      /\ inc' = [inc EXCEPT ![s] = @ + 1] /\ config' = [config EXCEPT ![s] = inc[s] + 1]
      /\ live' = live \cup {<<s, inc[s] + 1>>} /\ removed' = removed \ {s} /\ Activation!Signal
      /\ UNCHANGED <<shared, options, actPoll, actConn, actKey, pollers, del, blind, misread>>
  BY DEF Activation!Provision, Steady, Activation!Record, Activation!reads
<1>2. del = None /\ \A q \in Reconciles : AtPc(q, "idle")
  BY <1>1 DEF Activation!AtRest, AtPc
<1>3. PICK r \in Reconciles :
           /\ AtPc(r, "resolve")' /\ \A q \in Reconciles \ {r} : AtPc(q, "idle")'
           /\ rec' \in [Reconciles -> Phases] /\ ~Activation!AtRest'
  BY <1>1, <1>2, Signals DEF ActivationInv
<1>4. \A q \in Reconciles : ~AtPc(q, "list")' /\ ~AtPc(q, "sync")' /\ ~AtPc(q, "deactivate")'
  BY <1>3 DEF AtPc
<1>5. PICK n \in Nat : n = inc[s] + 1 /\ n > 0
  BY DEF ActivationInv, ActivationTypes
<1>6. /\ config' = [config EXCEPT ![s] = n] /\ inc' = [inc EXCEPT ![s] = n]
      /\ live' = live \cup {<<s, n>>} /\ n <= MaxIncs
  BY <1>1, <1>5 DEF ActivationInv, ActivationTypes, ActivationConstants
<1>7. ActivationTypes'
  BY <1>1, <1>3, <1>5, <1>6 DEF ActivationInv, ActivationTypes
<1>8. OneByOne'
  BY <1>1, <1>2, <1>3 DEF OneByOne, AtPc
<1>9. \A t \in Stacks : config'[t] = IF t = s THEN n ELSE config[t]
  BY <1>6 DEF ActivationInv, ActivationTypes
<1>10. \A c \in live : c \in live' /\ c[1] \in Stacks /\ c[1] # s /\ c = <<c[1], config[c[1]]>>
                         /\ config[c[1]] > 0
  BY <1>1, <1>6, StoredIs DEF ActivationInv, QueuesTrue
<1>11. Activation!Stored' = {<<t, config'[t]>> : t \in {u \in Stacks : config'[u] > 0}}
  BY DEF Activation!Stored
<1>12. QueuesTrue'
  <2>1. live' \subseteq Activation!Stored'
    BY <1>5, <1>6, <1>9, <1>10, <1>11
  <2>2. ASSUME NEW t \in Stacks, config'[t] > 0
        PROVE  /\ t \in removed' => <<t, config'[t]>> \notin live'
               /\ ~misread => (t \in removed' \/ <<t, config'[t]>> \in live')
    BY <1>1, <1>2, <1>6, <1>9, <2>2 DEF ActivationInv, QueuesTrue, Torn
  <2> QED BY <1>1, <1>2, <2>1, <2>2 DEF QueuesTrue
<1>13. PollsTrue'
  BY <1>1, <1>2, <1>10 DEF ActivationInv, PollsTrue, Torn
<1>14. KeyTrue'
  <2>1. \A q \in Reconciles : ~AtPc(q, "list") /\ ~AtPc(q, "sync")
    BY <1>2 DEF AtPc
  <2> QED BY <1>1, <1>4, <2>1 DEF ActivationInv, KeyTrue
<1>15. OnTrue'
  <2>1. \A q \in Reconciles : ~AtPc(q, "deactivate")
    BY <1>2 DEF AtPc
  <2>2. ~misread /\ shared = None => Activation!Stored' \subseteq live'
    <3>1. SUFFICES ASSUME ~misread, shared = None, NEW t \in Stacks, config'[t] > 0
                   PROVE  t = s
      BY <1>6, <1>9, <1>11
    <3>2. Activation!Stored = {}
      BY <1>1, <3>1 DEF ActivationInv, RestTrue, ActivationTypes
    <3> QED BY <1>9, <3>1, <3>2, StoredIs DEF ActivationInv
  <2> QED BY <1>1, <1>2, <1>4, <2>1, <2>2 DEF ActivationInv, OnTrue
<1>16. RestTrue'
  BY <1>3 DEF RestTrue
<1> QED BY <1>7, <1>8, <1>12, <1>13, <1>14, <1>15, <1>16 DEF ActivationInv

\* A teardown starts: nothing polls what it will remove.
LEMMA DeleteStartKeeps ==
  ASSUME ActivationConstants, Steady, ActivationInv, NEW s \in Stacks, Activation!DeleteStart(s)
  PROVE  ActivationInv'
<1>1. /\ Activation!AtRest /\ config[s] > 0 /\ del' = [stack |-> s, pc |-> "queue"]
      /\ pollers' = {c \in pollers : c[1] # s}
      /\ UNCHANGED <<config, inc, live, shared, options, actConn, removed, rec, blind, misread>>
      /\ IF actPoll /\ actKey = s THEN actPoll' = FALSE /\ actKey' = None
         ELSE UNCHANGED <<actPoll, actKey>>
  BY DEF Activation!DeleteStart, Steady, Activation!reads
<1>2. del = None /\ \A q \in Reconciles : AtPc(q, "idle")
  BY <1>1 DEF Activation!AtRest, AtPc
<1>3. \A q \in Reconciles : AtPc(q, "idle")' /\ ~AtPc(q, "list") /\ ~AtPc(q, "sync")
                            /\ ~AtPc(q, "resolve") /\ ~AtPc(q, "deactivate")
  BY <1>1, <1>2 DEF AtPc
<1>4. del' \in Teardowns /\ del' # None /\ del'.stack = s /\ del'.pc = "queue"
  BY <1>1 DEF Teardowns, ActivationConstants
<1>5. ActivationTypes'
  BY <1>1, <1>4 DEF ActivationInv, ActivationTypes
<1>6. OneByOne'
  BY <1>3 DEF OneByOne, AtPc
<1>7. Activation!Stored' = Activation!Stored
  BY <1>1 DEF Activation!Stored
<1>8. \A t \in Stacks : ~Torn(t) /\ (Torn(t)' <=> t = s)
  BY <1>2, <1>4 DEF Torn
<1>9. QueuesTrue'
  BY <1>1, <1>4, <1>7, <1>8 DEF ActivationInv, QueuesTrue
<1>10. actPoll' => actPoll /\ actKey # s
  BY <1>1 DEF ActivationInv, ActivationTypes
<1>11. ~misread /\ actPoll => actKey = actConn[1]
  BY <1>3 DEF ActivationInv, KeyTrue
<1>12. PollsTrue'
  BY <1>1, <1>4, <1>10, <1>11 DEF ActivationInv, PollsTrue, Torn
<1>13. KeyTrue'
  <2>1. \A q \in Reconciles : ~AtPc(q, "list")' /\ ~AtPc(q, "sync")'
    BY <1>3 DEF AtPc
  <2> QED BY <1>1, <1>10, <1>11, <2>1 DEF KeyTrue
<1>14. OnTrue'
  <2>1. ~misread => shared # None
    BY <1>1, StoredIs DEF ActivationInv, RestTrue, ActivationTypes
  <2>2. \A q \in Reconciles : ~AtPc(q, "list")' /\ ~AtPc(q, "sync")' /\ ~AtPc(q, "deactivate")'
                              /\ ~AtPc(q, "resolve")'
    BY <1>3 DEF AtPc
  <2> QED BY <1>1, <1>3, <2>1, <2>2 DEF ActivationInv, OnTrue
<1>15. RestTrue'
  BY <1>4 DEF RestTrue, Activation!AtRest
<1> QED BY <1>5, <1>6, <1>9, <1>12, <1>13, <1>14, <1>15 DEF ActivationInv

LEMMA DeleteQueueKeeps ==
  ASSUME ActivationConstants, Steady, ActivationInv, Activation!DeleteQueue
  PROVE  ActivationInv'
<1> DEFINE s == del.stack
<1>1. /\ del # None /\ del.pc = "queue"
      /\ UNCHANGED <<config, inc, shared, options, actPoll, actConn, actKey, pollers, removed, rec, blind, misread>>
      /\ \/ live' = live \ {<<s, config[s]>>} /\ del' = [del EXCEPT !.pc = "gone"]
         \/ <<s, config[s]>> \in live /\ live' = live /\ del' = [del EXCEPT !.pc = "kept"]
  BY DEF Activation!DeleteQueue, Activation!reads
<1>2. s \in Stacks /\ del \in Teardowns /\ config[s] > 0 /\ \A q \in Reconciles : AtPc(q, "idle")
  BY <1>1 DEF ActivationInv, ActivationTypes, QueuesTrue, OneByOne, Teardowns
<1>3. del' \in Teardowns /\ del' # None /\ del'.stack = s
  BY <1>1, <1>2 DEF Teardowns, ActivationConstants
<1>4. ActivationTypes'
  BY <1>1, <1>3 DEF ActivationInv, ActivationTypes
<1>5. OneByOne'
  BY <1>1, <1>2 DEF OneByOne, AtPc
<1>6. Activation!Stored' = Activation!Stored
  BY <1>1 DEF Activation!Stored
<1>7. \A t \in Stacks : (Torn(t) <=> t = s) /\ (Torn(t)' <=> t = s)
  BY <1>1, <1>3 DEF Torn
<1>8. \A c \in live : c[1] \in Stacks /\ c = <<c[1], config[c[1]]>>
  BY StoredIs DEF ActivationInv, QueuesTrue
<1>9. \A c \in live : c[1] # s => c \in live'
  BY <1>1, <1>8
<1>10. QueuesTrue'
  <2>1. \A t \in Stacks : t # s => (<<t, config[t]>> \in live <=> <<t, config[t]>> \in live')
    BY <1>1
  <2>2. /\ del'.pc = "gone" => <<s, config[s]>> \notin live'
        /\ del'.pc = "kept" => <<s, config[s]>> \in live'
    BY <1>1, <1>2 DEF Teardowns
  <2> QED BY <1>1, <1>2, <1>3, <1>6, <1>7, <2>1, <2>2 DEF ActivationInv, QueuesTrue
<1>11. PollsTrue'
  BY <1>1, <1>7, <1>8, <1>9 DEF ActivationInv, PollsTrue
<1>12. KeyTrue'
  BY <1>1 DEF ActivationInv, KeyTrue, AtPc
<1>13. OnTrue'
  BY <1>1, <1>2, <1>3, <1>6 DEF ActivationInv, OnTrue, AtPc
<1>14. RestTrue'
  BY <1>3 DEF RestTrue, Activation!AtRest
<1> QED BY <1>4, <1>5, <1>10, <1>11, <1>12, <1>13, <1>14 DEF ActivationInv

\* The end of a teardown, with the config kept or gone.
LEMMA DeleteFailsKeeps ==
  ASSUME ActivationConstants, Steady, ActivationInv, Activation!DeleteFails
  PROVE  ActivationInv'
<1> DEFINE s == del.stack
<1>1. /\ del # None /\ del.pc \in {"gone", "kept"} /\ del' = None /\ Activation!Signal
      /\ removed' = IF del.pc = "kept" THEN removed \ {s} ELSE removed \cup {s}
      /\ UNCHANGED <<config, inc, live, shared, options, actPoll, actConn, actKey, pollers, blind, misread>>
  BY DEF Activation!DeleteFails, Activation!Record, Activation!reads
<1>2. s \in Stacks /\ config[s] > 0 /\ \A q \in Reconciles : AtPc(q, "idle")
  BY <1>1 DEF ActivationInv, ActivationTypes, QueuesTrue, OneByOne, Teardowns
<1>3. PICK r \in Reconciles :
           /\ AtPc(r, "resolve")' /\ \A q \in Reconciles \ {r} : AtPc(q, "idle")'
           /\ rec' \in [Reconciles -> Phases] /\ ~Activation!AtRest'
  BY <1>1, <1>2, Signals DEF ActivationInv
<1>4. \A q \in Reconciles : /\ ~AtPc(q, "list")' /\ ~AtPc(q, "sync")' /\ ~AtPc(q, "deactivate")'
                            /\ ~AtPc(q, "list") /\ ~AtPc(q, "sync") /\ ~AtPc(q, "deactivate")
  BY <1>2, <1>3 DEF AtPc
<1>5. ActivationTypes'
  BY <1>1, <1>2, <1>3 DEF ActivationInv, ActivationTypes
<1>6. OneByOne'
  BY <1>1, <1>3 DEF OneByOne, AtPc
<1>7. Activation!Stored' = Activation!Stored
  BY <1>1 DEF Activation!Stored
<1>8. \A t \in Stacks : (Torn(t) <=> t = s) /\ ~Torn(t)'
  BY <1>1 DEF Torn
<1>9. QueuesTrue'
  BY <1>1, <1>2, <1>7, <1>8 DEF ActivationInv, QueuesTrue
<1>10. PollsTrue'
  BY <1>1 DEF ActivationInv, PollsTrue, Torn
<1>11. KeyTrue'
  BY <1>1, <1>4 DEF ActivationInv, KeyTrue
<1>12. OnTrue'
  BY <1>1, <1>4, <1>7 DEF ActivationInv, OnTrue
<1>13. RestTrue'
  BY <1>3 DEF RestTrue
<1> QED BY <1>5, <1>6, <1>9, <1>10, <1>11, <1>12, <1>13 DEF ActivationInv

LEMMA DeleteEndsKeeps ==
  ASSUME ActivationConstants, Steady, ActivationInv, Activation!DeleteEnds
  PROVE  ActivationInv'
<1> DEFINE s == del.stack
<1>1. /\ del # None /\ del.pc = "gone" /\ del' = None /\ Activation!Signal
      /\ config' = [config EXCEPT ![s] = 0]
      /\ UNCHANGED <<inc, live, shared, options, actPoll, actConn, actKey, pollers, removed, blind, misread>>
  BY DEF Activation!DeleteEnds, Steady, Activation!reads
<1>2. /\ s \in Stacks /\ config[s] > 0 /\ \A q \in Reconciles : AtPc(q, "idle")
      /\ <<s, config[s]>> \notin live
  BY <1>1 DEF ActivationInv, ActivationTypes, QueuesTrue, OneByOne, Teardowns
<1>3. PICK r \in Reconciles :
           /\ AtPc(r, "resolve")' /\ \A q \in Reconciles \ {r} : AtPc(q, "idle")'
           /\ rec' \in [Reconciles -> Phases] /\ ~Activation!AtRest'
  BY <1>1, <1>2, Signals DEF ActivationInv
<1>4. \A q \in Reconciles : /\ ~AtPc(q, "list")' /\ ~AtPc(q, "sync")' /\ ~AtPc(q, "deactivate")'
                            /\ ~AtPc(q, "list") /\ ~AtPc(q, "sync") /\ ~AtPc(q, "deactivate")
  BY <1>2, <1>3 DEF AtPc
<1>5. \A t \in Stacks : config'[t] = IF t = s THEN 0 ELSE config[t]
  BY <1>1 DEF ActivationInv, ActivationTypes
<1>6. ActivationTypes'
  <2>1. config' \in [Stacks -> Nat]
    BY <1>1 DEF ActivationInv, ActivationTypes
  <2>2. \A t \in Stacks : config'[t] <= inc'[t] /\ inc'[t] <= MaxIncs
    BY <1>1, <1>5 DEF ActivationInv, ActivationTypes
  <2> QED BY <1>1, <1>3, <2>1, <2>2 DEF ActivationInv, ActivationTypes
<1>7. OneByOne'
  BY <1>1, <1>3 DEF OneByOne, AtPc
<1>8. \A t \in Stacks : (Torn(t) <=> t = s) /\ ~Torn(t)'
  BY <1>1 DEF Torn
<1>9. QueuesTrue'
  <2>1. live' \subseteq Activation!Stored'
    <3>1. SUFFICES ASSUME NEW c \in live
                   PROVE  c \in Activation!Stored'
      BY <1>1
    <3>2. c[1] \in Stacks /\ c = <<c[1], config[c[1]]>> /\ config[c[1]] > 0
      BY StoredIs DEF ActivationInv, QueuesTrue
    <3>3. c[1] # s
      BY <1>2, <3>2
    <3> QED BY <1>5, <3>2, <3>3 DEF Activation!Stored
  <2>2. ASSUME NEW t \in Stacks, config'[t] > 0
        PROVE  /\ t \in removed' => <<t, config'[t]>> \notin live'
               /\ ~misread => (t \in removed' \/ <<t, config'[t]>> \in live')
    BY <1>1, <1>5, <1>8, <2>2 DEF ActivationInv, QueuesTrue
  <2> QED BY <1>1, <2>1, <2>2 DEF QueuesTrue
<1>10. PollsTrue'
  BY <1>1 DEF ActivationInv, PollsTrue, Torn
<1>11. KeyTrue'
  BY <1>1, <1>4 DEF ActivationInv, KeyTrue
<1>12. OnTrue'
  BY <1>1, <1>4 DEF ActivationInv, OnTrue
<1>13. RestTrue'
  BY <1>3 DEF RestTrue
<1> QED BY <1>6, <1>7, <1>9, <1>10, <1>11, <1>12, <1>13 DEF ActivationInv

---------------------------------------------------------------------------
(* The reconcile: alone, and with no teardown under way.                   *)

\* What a step of a reconcile leaves: a reconcile in another phase or at its end.
LEMMA ReconcileSteps ==
  ASSUME ActivationInv, NEW r \in Reconciles, ~AtPc(r, "idle"), NEW p \in Phases,
         rec' = [rec EXCEPT ![r] = p], UNCHANGED del
  PROVE  /\ OneByOne' /\ del = None /\ del' = None /\ rec' \in [Reconciles -> Phases]
         /\ \A q \in Reconciles : rec'[q].pc = IF q = r THEN p.pc ELSE "idle"
         /\ rec'[r] = p /\ ~Activation!AtRest /\ \A q \in Reconciles \ {r} : rec[q].pc = "idle"
<1>1. del = None /\ ~Activation!AtRest /\ \A q \in Reconciles \ {r} : AtPc(q, "idle")
  BY OthersIdle DEF ActivationInv
<1>2. /\ rec' \in [Reconciles -> Phases] /\ rec'[r] = p
      /\ \A q \in Reconciles \ {r} : rec'[q] = rec[q]
  BY DEF ActivationInv, ActivationTypes
<1>3. \A q \in Reconciles : rec'[q].pc = IF q = r THEN p.pc ELSE "idle"
  BY <1>1, <1>2 DEF AtPc
<1>4. OneByOne'
  BY <1>1, <1>3 DEF OneByOne, AtPc
<1> QED BY <1>1, <1>2, <1>3, <1>4 DEF AtPc

LEMMA ResolvedKeeps ==
  ASSUME ActivationConstants, Steady, ActivationInv, NEW r \in Reconciles, Activation!Resolved(r)
  PROVE  ActivationInv'
<1>1. /\ AtPc(r, "resolve") /\ ~AtPc(r, "idle") /\ Activation!Stored # {} /\ blind' = FALSE
      /\ UNCHANGED <<config, inc, live, pollers, removed, del, misread>>
  BY DEF Activation!Resolved, AtPc
<1>2. \A q \in Reconciles : ~AtPc(q, "list") /\ ~AtPc(q, "sync") /\ ~AtPc(q, "deactivate")
  BY <1>1 DEF ActivationInv, OneByOne, AtPc
<1>3. /\ options' = TRUE /\ shared' # None /\ shared' \in Valkeys \cup {None}
      /\ actConn' \in Valkeys \cup {None} /\ actPoll' \in BOOLEAN
      /\ actConn' \notin pollers /\ (actPoll' => actConn' # None)
      /\ ~misread /\ actPoll' => actConn' \in live
  <2>1. CASE shared = None
    <3>1. PICK c \in Activation!Stored : Activation!Activate(c)
      BY <2>1 DEF Activation!Resolved
    <3>2. c \in Valkeys /\ c # None /\ c \notin pollers /\ (~misread => c \in live)
      BY <1>1, <2>1, <3>1, StoredIs DEF ActivationInv, OnTrue, ActivationConstants
    <3> QED BY <3>1, <3>2 DEF Activation!Activate
  <2>2. CASE shared # None
    <3>1. UNCHANGED <<shared, options, actPoll, actConn>>
      BY <2>2 DEF Activation!Resolved
    <3>2. options = TRUE
      BY <1>2, <2>2 DEF ActivationInv, OnTrue, ActivationTypes
    <3> QED BY <2>2, <3>1, <3>2 DEF ActivationInv, ActivationTypes, PollsTrue
  <2> QED BY <2>1, <2>2
<1>4. actConn' # None
  <2>1. CASE shared = None
    <3>1. PICK c \in Activation!Stored : Activation!Activate(c)
      BY <2>1 DEF Activation!Resolved
    <3> QED BY <3>1, StoredIs DEF Activation!Activate, ActivationInv, ActivationConstants
  <2>2. CASE shared # None
    <3>1. UNCHANGED <<shared, actConn>>
      BY <2>2 DEF Activation!Resolved
    <3> QED BY <2>2, <3>1 DEF ActivationInv, OnTrue
  <2> QED BY <2>1, <2>2
<1> DEFINE p == [rec[r] EXCEPT !.pc = "list"]
<1>5. actKey' = None /\ rec' = [rec EXCEPT ![r] = p]
  BY <1>3 DEF Activation!Resolved, ActivationInv, ActivationTypes
<1>6. p \in Phases /\ p.pc = "list"
  BY DEF ActivationInv, ActivationTypes, Phases
<1> HIDE DEF p
<1>7. /\ OneByOne' /\ del = None /\ del' = None /\ rec' \in [Reconciles -> Phases]
      /\ \A q \in Reconciles : rec'[q].pc = IF q = r THEN "list" ELSE "idle"
  BY <1>1, <1>5, <1>6, ReconcileSteps
<1>8. Activation!Stored' = Activation!Stored
  BY <1>1 DEF Activation!Stored
<1>9. ActivationTypes'
  BY <1>1, <1>3, <1>5, <1>7 DEF ActivationInv, ActivationTypes
<1>10. QueuesTrue'
  BY <1>1, <1>7, <1>8 DEF ActivationInv, QueuesTrue, Torn
<1>11. PollsTrue'
  BY <1>1, <1>3, <1>7 DEF ActivationInv, PollsTrue, Torn
<1>12. KeyTrue'
  BY <1>5, <1>7 DEF KeyTrue, AtPc
<1>13. OnTrue'
  BY <1>1, <1>3, <1>4, <1>7, <1>8 DEF OnTrue, AtPc
<1>14. RestTrue'
  BY <1>7 DEF RestTrue, Activation!AtRest
<1> QED BY <1>7, <1>9, <1>10, <1>11, <1>12, <1>13, <1>14 DEF ActivationInv

LEMMA DeactivateKeeps ==
  ASSUME ActivationConstants, Steady, ActivationInv, NEW r \in Reconciles, Activation!Deactivate(r)
  PROVE  ActivationInv'
<1>1. /\ AtPc(r, "resolve") /\ ~AtPc(r, "idle")
      /\ UNCHANGED <<config, inc, live, shared, actConn, del>>
      /\ \/ Activation!Stored = {} /\ blind' = FALSE /\ misread' = misread
         \/ blind' = TRUE /\ misread' = TRUE
  BY DEF Activation!Deactivate, AtPc
<1>2. \A q \in Reconciles : ~AtPc(q, "list") /\ ~AtPc(q, "sync") /\ ~AtPc(q, "deactivate")
  BY <1>1 DEF ActivationInv, OneByOne, AtPc
<1>3. Activation!Stored' = Activation!Stored /\ (Activation!Stored = {} => live = {} /\ \A t \in Stacks : ~(config[t] > 0))
  <2>1. Activation!Stored = {} => \A t \in Stacks : ~(config[t] > 0)
    BY StoredIs DEF ActivationInv
  <2> QED BY <1>1, <2>1 DEF ActivationInv, QueuesTrue, Activation!Stored
<1>4. CASE shared = None
  <2>1. /\ rec' = [rec EXCEPT ![r] = Activation!Idle]
        /\ UNCHANGED <<options, actPoll, actKey, pollers, removed>>
    BY <1>4 DEF Activation!Deactivate
  <2>2. Activation!Idle \in Phases /\ Activation!Idle.pc = "idle"
    BY DEF Activation!Idle, Phases, Listings
  <2>3. /\ OneByOne' /\ del = None /\ del' = None /\ rec' \in [Reconciles -> Phases]
        /\ \A q \in Reconciles : rec'[q].pc = "idle"
    BY <1>1, <2>1, <2>2, ReconcileSteps
  <2>4. ActivationTypes'
    BY <1>1, <2>1, <2>3 DEF ActivationInv, ActivationTypes
  <2>5. QueuesTrue'
    BY <1>1, <1>3, <2>1, <2>3 DEF ActivationInv, QueuesTrue, Torn
  <2>6. ~options /\ ~actPoll /\ pollers = {}
    BY <1>4 DEF ActivationInv, OnTrue, PollsTrue
  <2>7. PollsTrue' /\ KeyTrue' /\ RestTrue'
    BY <1>1, <1>3, <1>4, <2>1, <2>3, <2>6 DEF PollsTrue, KeyTrue, RestTrue, AtPc
  <2>8. OnTrue'
    BY <1>1, <1>4, <2>1, <2>3, <2>6 DEF OnTrue, AtPc
  <2> QED BY <2>3, <2>4, <2>5, <2>7, <2>8 DEF ActivationInv
<1>5. CASE shared # None
  <2> DEFINE p == [rec[r] EXCEPT !.pc = "deactivate"]
  <2>1. /\ actPoll' = FALSE /\ actKey' = None /\ pollers' = {} /\ removed' = {}
        /\ options' = FALSE /\ rec' = [rec EXCEPT ![r] = p]
    BY <1>5 DEF Activation!Deactivate, ActivationInv, ActivationTypes
  <2>2. p \in Phases /\ p.pc = "deactivate"
    BY DEF ActivationInv, ActivationTypes, Phases
  <2> HIDE DEF p
  <2>3. /\ OneByOne' /\ del = None /\ del' = None /\ rec' \in [Reconciles -> Phases]
        /\ \A q \in Reconciles : rec'[q].pc = IF q = r THEN "deactivate" ELSE "idle"
    BY <1>1, <2>1, <2>2, ReconcileSteps
  <2>4. ActivationTypes'
    BY <1>1, <2>1, <2>3 DEF ActivationInv, ActivationTypes
  <2>5. QueuesTrue'
    BY <1>1, <1>3, <2>1, <2>3 DEF ActivationInv, QueuesTrue, Torn
  <2>6. PollsTrue' /\ KeyTrue' /\ RestTrue'
    BY <2>1, <2>3 DEF PollsTrue, KeyTrue, RestTrue, Activation!AtRest, AtPc
  <2>7. OnTrue'
    BY <1>1, <1>3, <1>5, <2>1, <2>3 DEF ActivationInv, OnTrue, AtPc
  <2> QED BY <2>3, <2>4, <2>5, <2>6, <2>7 DEF ActivationInv
<1> QED BY <1>4, <1>5

LEMMA DeactivatedKeeps ==
  ASSUME ActivationConstants, Steady, ActivationInv, NEW r \in Reconciles, Activation!Deactivated(r)
  PROVE  ActivationInv'
<1>1. /\ AtPc(r, "deactivate") /\ ~AtPc(r, "idle") /\ shared' = None
      /\ rec' = [rec EXCEPT ![r] = Activation!Idle]
      /\ UNCHANGED <<config, inc, live, options, actPoll, actConn, actKey, pollers, removed, del,
                     blind, misread>>
  BY DEF Activation!Deactivated, AtPc, Activation!reads
<1>2. Activation!Stored' = Activation!Stored /\ ~options /\ pollers = {} /\ ~actPoll /\ (~blind => Activation!Stored = {} /\ live = {})
  BY <1>1 DEF ActivationInv, QueuesTrue, OnTrue, PollsTrue, Activation!Stored
<1>3. Activation!Idle \in Phases /\ Activation!Idle.pc = "idle"
  BY DEF Activation!Idle, Phases, Listings
<1>4. /\ OneByOne' /\ del = None /\ del' = None /\ rec' \in [Reconciles -> Phases]
      /\ \A q \in Reconciles : rec'[q].pc = "idle"
  BY <1>1, <1>3, ReconcileSteps
<1>5. ActivationTypes'
  BY <1>1, <1>4 DEF ActivationInv, ActivationTypes
<1>6. QueuesTrue'
  BY <1>1, <1>4, <1>2 DEF ActivationInv, QueuesTrue, Torn
<1>7. PollsTrue' /\ KeyTrue' /\ RestTrue'
  BY <1>1, <1>2, <1>4 DEF PollsTrue, KeyTrue, RestTrue, AtPc
<1>8. OnTrue'
  BY <1>1, <1>2, <1>4 DEF OnTrue, AtPc
<1> QED BY <1>4, <1>5, <1>6, <1>7, <1>8 DEF ActivationInv

\* What a listing names: read, or remembered.
LEMMA ListKeeps ==
  ASSUME ActivationConstants, Steady, ActivationInv, NEW r \in Reconciles, Activation!List(r) \/ Activation!ListBlind(r)
  PROVE  ActivationInv'
<1>1. /\ AtPc(r, "list") /\ ~AtPc(r, "idle")
      /\ UNCHANGED <<config, inc, live, shared, options, actPoll, actConn, actKey, pollers, removed, del>>
  BY DEF Activation!List, Activation!ListBlind, AtPc
<1>2. PICK seen \in Listings :
           /\ rec' = [rec EXCEPT ![r] = [pc |-> "sync", seen |-> seen]]
           /\ \/ seen = Activation!Owned /\ blind' = blind /\ misread' = misread
              \/ blind' = TRUE /\ misread' = TRUE
  <2>1. Activation!Owned \in Listings
    BY StoredIs DEF Activation!Owned, Listings, ActivationInv
  <2>2. CASE Activation!List(r)
    BY <2>1, <2>2 DEF Activation!List, Activation!reads
  <2>3. CASE Activation!ListBlind(r)
    <3>1. PICK own \in SUBSET Stacks, other \in SUBSET Stacks :
            rec' = [rec EXCEPT ![r] =
                      [pc |-> "sync", seen |-> {p \in Activation!Owned : p[1] \in own} \cup (other \X {actConn})]]
      BY <2>3 DEF Activation!ListBlind
    <3>2. actConn \in Valkeys
      BY <1>1 DEF ActivationInv, ActivationTypes, OnTrue
    <3>3. {p \in Activation!Owned : p[1] \in own} \cup (other \X {actConn}) \in Listings
      BY <2>1, <3>2 DEF Listings
    <3> QED BY <2>3, <3>1, <3>3 DEF Activation!ListBlind
  <2> QED BY <2>2, <2>3
<1> DEFINE p == [pc |-> "sync", seen |-> seen]
<1>3. p \in Phases /\ p.pc = "sync" /\ p.seen = seen /\ rec' = [rec EXCEPT ![r] = p]
  BY <1>2 DEF Phases
<1> HIDE DEF p
<1>4. /\ OneByOne' /\ del = None /\ del' = None /\ rec' \in [Reconciles -> Phases]
      /\ \A q \in Reconciles : rec'[q].pc = IF q = r THEN "sync" ELSE "idle"
      /\ rec'[r].seen = seen
  BY <1>1, <1>3, ReconcileSteps
<1>5. Activation!Stored' = Activation!Stored /\ Activation!Owned' = Activation!Owned
  BY <1>1 DEF Activation!Stored, Activation!Owned
<1>6. ActivationTypes'
  <2> DEFINE Ok(b, m) == b \in BOOLEAN /\ m \in BOOLEAN /\ (b => m)
  <2>1. Ok(blind, misread) /\ Ok(TRUE, TRUE)
    BY DEF ActivationInv, ActivationTypes
  <2> HIDE DEF Ok
  <2>2. Ok(blind', misread')
    BY <1>2, <2>1
  <2> USE DEF Ok
  <2> QED BY <1>1, <1>4, <2>2 DEF ActivationInv, ActivationTypes
<1>7. QueuesTrue'
  BY <1>1, <1>2, <1>4, <1>5 DEF ActivationInv, QueuesTrue, Torn
<1>8. PollsTrue'
  BY <1>1, <1>2, <1>4 DEF ActivationInv, PollsTrue, Torn
<1>9. KeyTrue' /\ RestTrue'
  BY <1>1, <1>4 DEF ActivationInv, KeyTrue, RestTrue, Activation!AtRest, AtPc
<1>10. OnTrue'
  BY <1>1, <1>2, <1>4, <1>5 DEF ActivationInv, OnTrue, AtPc
<1> QED BY <1>4, <1>6, <1>7, <1>8, <1>9, <1>10 DEF ActivationInv

\* The reconcile ends with a poller for every Valkey there is, if it could read which
\* there are, and for no other if every reconcile before it could.
LEMMA SyncKeeps ==
  ASSUME ActivationConstants, Steady, ActivationInv, NEW r \in Reconciles, Activation!Sync(r)
  PROVE  ActivationInv'
<1> DEFINE seen == {p \in rec[r].seen : p[1] \notin removed}
           act  == {p \in seen : options /\ p[2] = actConn}
<1>1. /\ AtPc(r, "sync") /\ ~AtPc(r, "idle")
      /\ actPoll' = (actPoll \/ act # {})
      /\ actKey' = IF actKey = None /\ act # {} THEN (CHOOSE p \in act : TRUE)[1] ELSE actKey
      /\ pollers' = {p[2] : p \in seen \ act}
      /\ removed' = Activation!ForgetUnlisted({p[1] : p \in rec[r].seen})
      /\ rec' = [rec EXCEPT ![r] = Activation!Idle]
      /\ UNCHANGED <<config, inc, live, shared, options, actConn, del, blind, misread>>
  BY DEF Activation!Sync, AtPc, Activation!reads
<1>2. Activation!Idle \in Phases /\ Activation!Idle.pc = "idle"
  BY DEF Activation!Idle, Phases, Listings
<1>3. /\ OneByOne' /\ del = None /\ del' = None /\ rec' \in [Reconciles -> Phases]
      /\ \A q \in Reconciles : rec'[q].pc = "idle"
  BY <1>1, <1>2, ReconcileSteps
<1>4. /\ options = TRUE /\ shared # None /\ Activation!Stored # {} /\ actKey = None /\ actConn # None
      /\ ~blind => rec[r].seen = Activation!Owned
  BY <1>1 DEF ActivationInv, OnTrue, KeyTrue, ActivationTypes
<1>5. rec[r].seen \subseteq Stacks \X Valkeys
  BY DEF ActivationInv, ActivationTypes, Phases, Listings
<1>6. act = {p \in seen : p[2] = actConn}
  BY <1>4
<1>7. ASSUME ~blind
      PROVE  /\ \A c \in live : \E p \in seen : p[2] = c
             /\ ~misread => \A p \in seen : p[2] \in live /\ p[1] = p[2][1]
  <2>1. rec[r].seen = {<<c[1], c>> : c \in Activation!Stored}
    BY <1>4, <1>7 DEF Activation!Owned
  <2>2. ASSUME NEW c \in live
        PROVE  \E p \in seen : p[2] = c
    <3>1. c \in Activation!Stored /\ c[1] \in Stacks /\ c = <<c[1], config[c[1]]>> /\ config[c[1]] > 0
      BY StoredIs DEF ActivationInv, QueuesTrue
    <3>2. PICK t \in Stacks : t = c[1]
      BY <3>1
    <3>3. <<t, config[t]>> \in live /\ config[t] > 0
      BY <3>1, <3>2
    <3>4. t \notin removed
      BY <1>3, <3>3 DEF ActivationInv, QueuesTrue, Torn
    <3>5. <<t, c>> \in rec[r].seen /\ <<t, c>>[1] = t /\ <<t, c>>[2] = c
      BY <2>1, <3>1, <3>2
    <3> QED BY <3>4, <3>5
  <2>3. ASSUME ~misread, NEW p \in seen
        PROVE  p[2] \in live /\ p[1] = p[2][1]
    <3>1. PICK c \in Activation!Stored : p = <<c[1], c>>
      BY <2>1
    <3>2. c[1] \in Stacks /\ c = <<c[1], config[c[1]]>> /\ config[c[1]] > 0
      BY StoredIs DEF ActivationInv
    <3>3. c[1] \notin removed
      BY <3>1
    <3>4. c \in live
      BY <1>3, <2>3, <3>2, <3>3 DEF ActivationInv, QueuesTrue, Torn
    <3> QED BY <3>1, <3>4
  <2> QED BY <2>2, <2>3
<1>8. seen \subseteq Stacks \X Valkeys
  BY <1>5
<1> HIDE DEF seen
<1>9. actKey' \in Stacks \cup {None} /\ pollers' \subseteq Valkeys /\ actConn \notin pollers'
      /\ removed' \subseteq removed
  <2>1. act # {} => (CHOOSE p \in act : TRUE) \in act
    OBVIOUS
  <2>2. act # {} => (CHOOSE p \in act : TRUE)[1] \in Stacks
    BY <1>6, <1>8, <2>1
  <2> QED BY <1>1, <1>4, <1>6, <1>8, <2>2 DEF Activation!ForgetUnlisted
<1>10. ASSUME ~misread
       PROVE  /\ pollers' \subseteq live /\ (actPoll' => actConn \in live /\ actKey' = actConn[1])
  <2>1. ~blind
    BY <1>10 DEF ActivationInv, ActivationTypes
  <2>2. pollers' \subseteq live
    BY <1>1, <1>7, <1>10, <2>1
  <2>3. act # {} <=> actConn \in live
    BY <1>6, <1>7, <1>10, <2>1
  <2>4. actPoll' => actConn \in live
    BY <1>1, <1>10, <2>3 DEF ActivationInv, PollsTrue
  <2>5. act # {} => (CHOOSE p \in act : TRUE) \in act
    OBVIOUS
  <2>6. act # {} => (CHOOSE p \in act : TRUE)[1] = actConn[1]
    BY <1>6, <1>7, <1>10, <2>1, <2>5
  <2> QED BY <1>1, <1>4, <2>2, <2>3, <2>4, <2>6
<1>11. ~blind => live \subseteq Activation!Polled'
  <2> SUFFICES ASSUME ~blind, NEW c \in live
               PROVE  c \in Activation!Polled'
    OBVIOUS
  <2>1. PICK p \in seen : p[2] = c
    BY <1>7
  <2>2. CASE c = actConn
    BY <1>1, <1>6, <2>1, <2>2 DEF Activation!Polled
  <2>3. CASE c # actConn
    BY <1>1, <1>6, <2>1, <2>3 DEF Activation!Polled
  <2> QED BY <2>2, <2>3
<1> HIDE DEF act
<1>12. Activation!Stored' = Activation!Stored
  BY <1>1 DEF Activation!Stored
<1>13. actPoll' \in BOOLEAN
  BY <1>1 DEF ActivationInv, ActivationTypes
<1>14. ActivationTypes'
  BY <1>1, <1>3, <1>9, <1>13 DEF ActivationInv, ActivationTypes
<1>15. QueuesTrue'
  <2>1. ASSUME ~misread, NEW t \in Stacks, config[t] > 0, t \in removed
        PROVE  t \in removed'
    <3>1. <<t, <<t, config[t]>>>> \in rec[r].seen
      BY <1>4, <2>1 DEF Activation!Owned, Activation!Stored, ActivationInv, ActivationTypes
    <3> QED BY <1>1, <2>1, <3>1 DEF Activation!ForgetUnlisted
  <2> QED BY <1>1, <1>3, <1>9, <1>12, <2>1 DEF ActivationInv, QueuesTrue, Torn
<1>16. PollsTrue'
  BY <1>1, <1>3, <1>4, <1>9, <1>10 DEF PollsTrue, Torn
<1>17. KeyTrue'
  BY <1>1, <1>3, <1>10 DEF KeyTrue, AtPc
<1>18. OnTrue'
  BY <1>1, <1>3, <1>4 DEF OnTrue, AtPc
<1>19. RestTrue'
  BY <1>1, <1>4, <1>11, <1>12 DEF RestTrue
<1> QED BY <1>3, <1>14, <1>15, <1>16, <1>17, <1>18, <1>19 DEF ActivationInv

LEMMA ActivationInductive ==
  ASSUME ActivationConstants, Steady, ActivationInv, [Activation!Next]_(Activation!vars)
  PROVE  ActivationInv'
<1>1. CASE UNCHANGED Activation!vars
  BY <1>1 DEF Activation!vars, ActivationInv, ActivationTypes, OneByOne, QueuesTrue, PollsTrue, KeyTrue, OnTrue,
              RestTrue, Activation!Stored, Activation!Owned, Activation!Polled, Activation!AtRest, AtPc, Torn
<1>2. CASE Activation!Next
  BY <1>2, ProvisionKeeps, DeleteStartKeeps, DeleteQueueKeeps, DeleteFailsKeeps, DeleteEndsKeeps,
     ResolvedKeeps, DeactivateKeeps, DeactivatedKeeps, ListKeeps, SyncKeeps DEF Activation!Next
<1> QED BY <1>1, <1>2

LEMMA ActivationStarts ==
  ASSUME ActivationConstants, Activation!Init
  PROVE  ActivationInv
<1>1. Activation!Stored = {} /\ live = {} /\ Activation!Idle \in Phases
  BY DEF Activation!Init, Activation!Stored, Activation!Idle, Phases, Listings
<1>2. ActivationTypes
  <2>1. config \in [Stacks -> Nat] /\ inc \in [Stacks -> Nat] /\ rec \in [Reconciles -> Phases]
    BY <1>1 DEF Activation!Init
  <2>2. \A s \in Stacks : config[s] <= inc[s] /\ inc[s] <= MaxIncs
    BY DEF Activation!Init, ActivationConstants
  <2> QED BY <2>1, <2>2 DEF Activation!Init, ActivationTypes
<1>3. OneByOne /\ QueuesTrue /\ PollsTrue
  BY <1>1 DEF Activation!Init, OneByOne, QueuesTrue, PollsTrue, AtPc, Activation!Idle
<1>4. KeyTrue /\ OnTrue /\ RestTrue
  BY <1>1 DEF Activation!Init, KeyTrue, OnTrue, RestTrue, AtPc, Activation!Idle
<1> QED BY <1>2, <1>3, <1>4 DEF ActivationInv

LEMMA ActivationHolds ==
  ASSUME ActivationConstants, Steady
  PROVE  Activation!Spec => []ActivationInv
<1>1. Activation!Init => ActivationInv
  BY ActivationStarts
<1>2. ActivationInv /\ [Activation!Next]_(Activation!vars) => ActivationInv'
  BY ActivationInductive
<1> QED BY <1>1, <1>2, PTL DEF Activation!Spec

\* Once a change has been taken in by a reconcile that could read the parameter
\* store, every Valkey that is there is drained; no Valkey is ever drained by two
\* pollers, and none that a teardown removed is while every reconcile could read
\* it, whichever removal of a teardown fails; and a scaler that is off, because
\* nothing is stored or because the store could not be read, polls nothing.
THEOREM EveryQueueDrained ==
  ASSUME ActivationConstants, Steady
  PROVE  Activation!Spec => [](Activation!Drained /\ Activation!NoDeadPoll /\ Activation!DrainedOnce /\ Activation!OffIsQuiet)
<1>1. ActivationInv => Activation!Drained
  BY DEF ActivationInv, RestTrue, Activation!Drained
<1>2. ActivationInv => Activation!NoDeadPoll
  BY DEF ActivationInv, PollsTrue, Activation!NoDeadPoll, Activation!Polled
<1>3. ActivationInv => Activation!DrainedOnce
  BY DEF ActivationInv, PollsTrue, Activation!DrainedOnce
<1>4. ActivationInv => Activation!OffIsQuiet
  BY DEF ActivationInv, OnTrue, PollsTrue, Activation!OffIsQuiet, Activation!Polled
<1> QED BY <1>1, <1>2, <1>3, <1>4, ActivationHolds, PTL

\* Once a change has been taken in by a reconcile that could read the parameter
\* store, the scaler is on exactly while a stack is stored.
THEOREM ScalerOn ==
  ASSUME ActivationConstants, Steady
  PROVE  Activation!Spec => []Activation!OnWhenProvisioned
<1>1. ActivationInv => Activation!OnWhenProvisioned
  BY DEF ActivationInv, RestTrue, Activation!OnWhenProvisioned
<1> QED BY <1>1, ActivationHolds, PTL

---------------------------------------------------------------------------
\* The operator's scaler configuration: the values the loops enforce, the record of
\* the parameter store, and what the route answers.

\* Configurations within the bounds, and PATCH requests that carry one.
Bounded == [Scaler!Fields -> Scaler!Vals]
Patches ==
  [step : {"free", "save", "apply", "adrift", "done"}, body : SUBSET Scaler!Fields,
   next : {None} \cup Bounded, ans : {0, 200, 503}]
Active(r) == req[r].step \in {"save", "apply"}

\* What the proofs ask of the constants.
ConfigConstants ==
  /\ Lo \in Nat /\ Hi \in Nat /\ Lo <= Hi
  /\ MaxFaults \in Nat /\ None \notin Nat /\ None \notin Bounded /\ None \notin Scaler!Config

ConfigTypes ==
  /\ env \in Scaler!Config /\ store \in {None} \cup Scaler!Config \cup Bounded /\ phase \in {"boot", "up"}
  /\ boot \in {None} \cup Bounded /\ live \in {None} \cup Bounded
  /\ loops \in {None} \cup Bounded
  /\ src \in [Scaler!Fields -> {"env", "runtime"}] /\ req \in [Reqs -> Patches]
  /\ said \in [Scaler!Fields -> {None} \cup Scaler!Vals] /\ faults \in Nat

\* A process that is up has its values, one that boots has none and serves no
\* PATCH; a PATCH under way, or given up on, knows what it writes.
ConfigPhases ==
  /\ phase = "up" => boot # None /\ live # None
  /\ phase = "boot" => loops = None /\ \A r \in Reqs : ~Active(r)
  /\ \A r \in Reqs : Active(r) \/ req[r].step = "adrift" => req[r].next # None

ConfigShape == ConfigTypes /\ ConfigPhases

\* A value is clamped into the bounds, and one within them is left alone.
LEMMA ClampBounds ==
  ASSUME ConfigConstants, NEW n \in Nat
  PROVE  Scaler!Clamp(n) \in Scaler!Vals /\ (n \in Scaler!Vals => Scaler!Clamp(n) = n)
BY DEF ConfigConstants, Scaler!Clamp, Scaler!Vals

LEMMA ClampedBounds ==
  ASSUME ConfigConstants, NEW c \in Scaler!Config \cup Bounded
  PROVE  Scaler!Clamped(c) \in Bounded /\ (c \in Bounded => Scaler!Clamped(c) = c)
<1>1. \A f \in Scaler!Fields : c[f] \in Nat
  BY DEF Scaler!Config, Bounded, Scaler!Raw, Scaler!Vals, ConfigConstants
<1>2. \A f \in Scaler!Fields : Scaler!Clamp(c[f]) \in Scaler!Vals /\ (c[f] \in Scaler!Vals => Scaler!Clamp(c[f]) = c[f])
  BY <1>1, ClampBounds
<1> QED BY <1>2 DEF Scaler!Clamped, Bounded, Scaler!Config

\* What a boot does, whichever values it takes.
LEMMA BootEffect ==
  ASSUME ConfigConstants, ConfigShape, Scaler!Resolve
  PROVE  \E c \in Bounded :
           /\ phase = "boot" /\ phase' = "up" /\ boot' = c /\ live' = c /\ loops' \in {None, c}
           /\ UNCHANGED <<env, store, req, named>>
           /\ faults' \in Nat
           /\ \/ /\ store # None /\ c = Scaler!Clamped(store) /\ said' = said /\ faults' = faults
                 /\ src' = [f \in Scaler!Fields |-> "runtime"]
              \/ /\ c = Scaler!Clamped(env) /\ said' = [f \in Scaler!Fields |-> None]
                 /\ src' = [f \in Scaler!Fields |-> "env"]
                 /\ store = None \/ MaxFaults = 0 \/ faults' # 0
           /\ ~Toggles => loops' = c
<1>1. CASE Scaler!BootLoaded /\ store # None
  BY <1>1, ClampedBounds DEF Scaler!BootLoaded, Scaler!Boot, ConfigShape, ConfigTypes
<1>2. CASE Scaler!BootLoaded /\ store = None
  BY <1>2, ClampedBounds DEF Scaler!BootLoaded, Scaler!Boot, ConfigShape, ConfigTypes
<1>3. CASE Scaler!BootFallback
  BY <1>3, ClampedBounds DEF Scaler!BootFallback, Scaler!Boot, ConfigShape, ConfigTypes, ConfigConstants
<1> QED BY <1>1, <1>2, <1>3 DEF Scaler!Resolve

\* What a PATCH starts with: every field it does not carry as the live copy has it.
LEMMA PatchEffect ==
  ASSUME ConfigConstants, ConfigShape, NEW r \in Reqs, Scaler!Patch(r)
  PROVE  \E p \in Patches :
           /\ phase = "up" /\ req[r].step = "free" /\ (Overlap \/ Scaler!Idle)
           /\ p.step = "save" /\ p.next # None /\ \A f \in Scaler!Fields \ p.body : p.next[f] = live[f]
           /\ req' = [req EXCEPT ![r] = p]
           /\ UNCHANGED <<env, store, phase, boot, live, src, loops, said, faults>>
<1>1. PICK body \in (SUBSET Scaler!Fields) \ {{}}, v \in Scaler!Vals :
        req' = [req EXCEPT ![r] = [step |-> "save", body |-> body, next |-> Scaler!Merged(body, v), ans |-> 0]]
  BY DEF Scaler!Patch
<1>2. live \in Bounded
  BY DEF Scaler!Patch, ConfigShape, ConfigTypes, ConfigPhases
<1>3. Scaler!Merged(body, v) \in Bounded /\ \A f \in Scaler!Fields \ body : Scaler!Merged(body, v)[f] = live[f]
  BY <1>1, <1>2 DEF Scaler!Merged, Bounded
<1> DEFINE p == [step |-> "save", body |-> body, next |-> Scaler!Merged(body, v), ans |-> 0]
<1>4. p \in Patches /\ p.step = "save" /\ p.body = body /\ p.next = Scaler!Merged(body, v)
  BY <1>1, <1>3 DEF Patches
<1>5. p.next # None
  BY <1>3, <1>4 DEF ConfigConstants
<1>6. req' = [req EXCEPT ![r] = p]
  BY <1>1
<1> HIDE DEF p
<1> QED BY <1>3, <1>4, <1>5, <1>6 DEF Scaler!Patch

\* A PATCH with its step and its answer set.
Over(r, s, n) == [[req EXCEPT ![r].step = s] EXCEPT ![r].ans = n]

\* A PATCH that is answered keeps what it writes.
WithAnswer(q, n) == [q EXCEPT !.ans = n]

LEMMA AnswerKeeps ==
  ASSUME NEW q \in Patches, NEW n \in {200, 503}
  PROVE  /\ WithAnswer(q, n) \in Patches
         /\ WithAnswer(q, n).next = q.next /\ WithAnswer(q, n).step = q.step
BY DEF Patches, WithAnswer

\* Nor does its end change any other's.
LEMMA Answered ==
  ASSUME req \in [Reqs -> Patches], NEW r \in Reqs, NEW s \in {"done", "adrift"},
         NEW n \in {200, 503}
  PROVE  /\ Over(r, s, n) \in [Reqs -> Patches] /\ Over(r, s, n)[r].next = req[r].next
         /\ Over(r, s, n)[r].step = s /\ \A t \in Reqs \ {r} : Over(r, s, n)[t] = req[t]
<1> DEFINE half == [req EXCEPT ![r].step = s]
<1>1. /\ half \in [Reqs -> Patches] /\ half[r].next = req[r].next
      /\ half[r].step = s /\ \A t \in Reqs \ {r} : half[t] = req[t]
  BY DEF Patches
<1>2. Over(r, s, n) = [half EXCEPT ![r].ans = n]
  BY DEF Over
<1> HIDE DEF half
<1>3. PICK q \in Patches : q = half[r]
  BY <1>1
<1>4. /\ WithAnswer(q, n) \in Patches
      /\ WithAnswer(q, n).next = q.next /\ WithAnswer(q, n).step = q.step
  BY <1>3, AnswerKeeps
<1>5. Over(r, s, n) = [half EXCEPT ![r] = WithAnswer(q, n)]
  BY <1>2, <1>3 DEF WithAnswer
<1> QED
  BY <1>1, <1>3, <1>4, <1>5

LEMMA ConfigShapeKept ==
  ASSUME ConfigConstants, ConfigShape, [Scaler!Next]_(Scaler!vars)
  PROVE  ConfigShape'
<1>1. CASE Scaler!Resolve
  <2>1. PICK c \in Bounded :
           /\ phase' = "up" /\ boot' = c /\ live' = c /\ loops' \in {None, c}
           /\ UNCHANGED <<env, store, req, named>> /\ faults' \in Nat
           /\ (said' = said \/ said' = [f \in Scaler!Fields |-> None])
           /\ (src' = [f \in Scaler!Fields |-> "runtime"] \/ src' = [f \in Scaler!Fields |-> "env"])
    BY <1>1, BootEffect
  <2>2. c # None
    BY <2>1 DEF ConfigConstants
  <2>3. ConfigTypes'
    BY <2>1 DEF ConfigShape, ConfigTypes
  <2>4. ConfigPhases'
    BY <2>1, <2>2 DEF ConfigShape, ConfigPhases, Active
  <2> QED BY <2>3, <2>4 DEF ConfigShape
<1>2. ASSUME NEW r \in Reqs, Scaler!Patch(r)
      PROVE  ConfigShape'
  <2>1. PICK p \in Patches :
           /\ phase = "up" /\ p.step = "save" /\ p.next # None
           /\ req' = [req EXCEPT ![r] = p]
           /\ UNCHANGED <<env, store, phase, boot, live, src, loops, said, faults>>
    BY <1>2, PatchEffect
  <2>2. ConfigTypes'
    BY <2>1 DEF ConfigShape, ConfigTypes
  <2>3. ConfigPhases'
    BY <2>1 DEF ConfigShape, ConfigTypes, ConfigPhases, Active
  <2> QED BY <2>2, <2>3 DEF ConfigShape
<1>3. ASSUME NEW r \in Reqs, Scaler!Save(r) \/ Scaler!SaveFails(r) \/ Scaler!Land(r) \/ Scaler!Apply(r)
      PROVE  ConfigShape'
  <2>1. PICK q \in Patches : q = req[r]
    BY DEF ConfigShape, ConfigTypes
  <2>2. /\ q.step \in {"save", "apply", "adrift"} /\ q.next \in Bounded
        /\ (phase = "up" \/ q.step = "adrift")
    BY <1>3, <2>1 DEF Scaler!Save, Scaler!SaveFails, Scaler!Land, Scaler!Apply, ConfigShape, ConfigPhases, Active, Patches
  <2>3. /\ req' \in [Reqs -> Patches] /\ req'[r].next = q.next
        /\ \A t \in Reqs \ {r} : req'[t] = req[t]
        /\ phase # "up" => ~Active(r)'
    <3>1. req \in [Reqs -> Patches]
      BY DEF ConfigShape, ConfigTypes
    <3>2. CASE Scaler!Save(r)
      BY <2>1, <3>1, <3>2 DEF Scaler!Save, Patches
    <3>3. CASE Scaler!SaveFails(r)
      <4>1. \E s \in {"done", "adrift"} : req' = [req EXCEPT ![r].step = s, ![r].ans = 503]
        <5>1. \E s \in IF Lost THEN {"done", "adrift"} ELSE {"done"} :
                req' = [req EXCEPT ![r].step = s, ![r].ans = 503]
          BY <3>3 DEF Scaler!SaveFails
        <5> QED BY <5>1, Zenon
      <4>2. req' = Over(r, "done", 503) \/ req' = Over(r, "adrift", 503)
        BY <4>1, Zenon DEF Over
      <4>3. /\ req' \in [Reqs -> Patches] /\ req'[r].next = q.next
            /\ \A t \in Reqs \ {r} : req'[t] = req[t]
        BY <2>1, <3>1, <4>2, Answered
      <4> QED BY <3>3, <4>3 DEF Scaler!SaveFails
    <3>4. CASE Scaler!Land(r)
      <4>1. req' = [req EXCEPT ![r].step = "done"]
        BY <3>4 DEF Scaler!Land
      <4>2. req' \in [Reqs -> Patches] /\ req'[r].next = q.next /\ req'[r].step = "done"
        BY <2>1, <3>1, <4>1 DEF Patches
      <4>3. \A t \in Reqs \ {r} : req'[t] = req[t]
        BY <3>1, <4>1
      <4>4. ~Active(r)'
        BY <4>2 DEF Active
      <4> QED BY <4>2, <4>3, <4>4
    <3>5. CASE Scaler!Apply(r)
      <4>1. req' = Over(r, "done", 200) /\ phase = "up"
        BY <3>5, Zenon DEF Scaler!Apply, Scaler!Answer, Over
      <4> QED BY <2>1, <3>1, <4>1, Answered
    <3> QED BY <1>3, <3>2, <3>3, <3>4, <3>5
  <2>4. /\ UNCHANGED <<env, phase, boot>> /\ store' \in {store, q.next} /\ faults' \in Nat
        /\ live' \in {live, q.next} /\ src' \in [Scaler!Fields -> {"env", "runtime"}]
        /\ loops' \in {None} \cup Bounded /\ (loops = None => loops' = None)
        /\ said' \in [Scaler!Fields -> {None} \cup Scaler!Vals]
    <3>1. CASE Scaler!Apply(r)
      <4>1. said' = [f \in Scaler!Fields |-> IF f \in q.body THEN q.next[f] ELSE said[f]]
        BY <2>1, <3>1 DEF Scaler!Apply, Scaler!Answer
      <4>2. said' \in [Scaler!Fields -> {None} \cup Scaler!Vals]
        BY <2>2, <4>1 DEF ConfigShape, ConfigTypes, Bounded
      <4>3. loops' = Scaler!FanOut(q.next) /\ Scaler!FanOut(q.next) \in {None} \cup Bounded
        BY <2>1, <2>2, <3>1 DEF Scaler!Apply, Scaler!FanOut, ConfigShape, ConfigTypes, Bounded, Scaler!Fields
      <4>4. src' \in [Scaler!Fields -> {"env", "runtime"}]
        BY <3>1 DEF Scaler!Apply, ConfigShape, ConfigTypes
      <4> QED BY <2>1, <3>1, <4>2, <4>3, <4>4 DEF Scaler!Apply, Scaler!FanOut, ConfigShape, ConfigTypes
    <3>2. CASE Scaler!Save(r) \/ Scaler!SaveFails(r) \/ Scaler!Land(r)
      BY <2>1, <3>2 DEF Scaler!Save, Scaler!SaveFails, Scaler!Land, Scaler!Fault, ConfigShape, ConfigTypes
    <3> QED BY <1>3, <3>1, <3>2
  <2>5. ConfigTypes'
    BY <2>2, <2>3, <2>4 DEF ConfigShape, ConfigTypes
  <2>6. ConfigPhases'
    <3>1. phase = "up" => boot' # None /\ live' # None
      BY <2>2, <2>4 DEF ConfigConstants, ConfigShape, ConfigPhases
    <3>2. phase = "boot" => loops' = None /\ \A t \in Reqs : ~Active(t)'
      BY <2>2, <2>3, <2>4 DEF ConfigShape, ConfigTypes, ConfigPhases, Active
    <3>3. \A t \in Reqs : Active(t)' \/ req'[t].step = "adrift" => req'[t].next # None
      BY <2>2, <2>3 DEF ConfigConstants, ConfigShape, ConfigTypes, ConfigPhases, Active
    <3> QED BY <2>4, <3>1, <3>2, <3>3 DEF ConfigPhases
  <2> QED BY <2>5, <2>6 DEF ConfigShape
<1>4. CASE Scaler!Activate \/ Scaler!Deactivate
  BY <1>4 DEF Scaler!Activate, Scaler!Deactivate, ConfigShape, ConfigTypes, ConfigPhases, Active
<1>5. CASE Scaler!Restart
  <2>1. /\ req' \in [Reqs -> Patches] /\ \A r \in Reqs : ~Active(r)'
        /\ \A t \in Reqs : req'[t].step = "adrift" =>
             req[t].step \in {"save", "adrift"} /\ req'[t].next = req[t].next
    <3>1. ASSUME NEW r \in Reqs
          PROVE  /\ req'[r] \in Patches /\ ~Active(r)'
                 /\ req'[r].step = "adrift" =>
                      req[r].step \in {"save", "adrift"} /\ req'[r].next = req[r].next
      <4>1. PICK q \in Patches : q = req[r]
        BY DEF ConfigShape, ConfigTypes
      <4>2. PICK s \in {"free", "adrift", "done"} :
              req'[r] = [q EXCEPT !.step = s] /\ (s = "adrift" => q.step \in {"save", "adrift"})
        BY <1>5, <4>1 DEF Scaler!Restart, Patches
      <4>3. [q EXCEPT !.step = s] \in Patches /\ [q EXCEPT !.step = s].step = s
            /\ [q EXCEPT !.step = s].next = q.next
        BY <4>2 DEF Patches
      <4> QED BY <4>1, <4>2, <4>3 DEF Active
    <3>2. req' = [r \in Reqs |-> req'[r]]
      BY <1>5 DEF Scaler!Restart
    <3> QED BY <3>1, <3>2
  <2>2. ConfigTypes'
    BY <1>5, <2>1 DEF Scaler!Restart, Scaler!Fault, ConfigShape, ConfigTypes
  <2>3. ConfigPhases'
    BY <1>5, <2>1 DEF Scaler!Restart, ConfigShape, ConfigPhases, Active
  <2> QED BY <2>2, <2>3 DEF ConfigShape
<1>6. CASE UNCHANGED Scaler!vars
  BY <1>6 DEF Scaler!vars, ConfigShape, ConfigTypes, ConfigPhases, Active
<1> QED BY <1>1, <1>2, <1>3, <1>4, <1>5, <1>6 DEF Scaler!Next

LEMMA ConfigShapeStart ==
  ASSUME ConfigConstants, Scaler!Init
  PROVE  ConfigShape
<1>1. ConfigTypes
  <2>1. \A n \in Scaler!Raw : [f \in Scaler!Fields |-> n] \in Scaler!Config
    BY DEF Scaler!Config
  <2>2. env \in Scaler!Config /\ store \in {None} \cup Scaler!Config
    BY <2>1 DEF Scaler!Init
  <2> QED BY <2>2 DEF Scaler!Init, ConfigTypes, Patches
<1>2. ConfigPhases
  BY DEF Scaler!Init, ConfigPhases, Active
<1> QED BY <1>1, <1>2 DEF ConfigShape

---------------------------------------------------------------------------
(* What the steps of a PATCH do.                                           *)

\* The other PATCHes are left as they are.
Others(r) == \A t \in Reqs \ {r} : req'[t] = req[t]

LEMMA SaveEffect ==
  ASSUME ConfigShape, NEW r \in Reqs, Scaler!Save(r)
  PROVE  /\ phase = "up" /\ req[r].step = "save" /\ store' = req[r].next
         /\ req'[r].step = "apply" /\ req'[r].next = req[r].next /\ req'[r].body = req[r].body
         /\ Others(r) /\ UNCHANGED <<env, phase, live, src, loops, said, faults>>
BY DEF Scaler!Save, ConfigShape, ConfigTypes, Patches, Others

LEMMA ApplyEffect ==
  ASSUME ConfigShape, NEW r \in Reqs, Scaler!Apply(r)
  PROVE  /\ phase = "up" /\ req[r].step = "apply" /\ ~Active(r)' /\ req'[r].step # "adrift"
         /\ Others(r) /\ live' = req[r].next /\ loops' = Scaler!FanOut(req[r].next)
         /\ src' = [f \in Scaler!Fields |-> IF f \in req[r].body THEN "runtime" ELSE src[f]]
         /\ said' = [f \in Scaler!Fields |-> IF f \in req[r].body THEN req[r].next[f] ELSE said[f]]
         /\ UNCHANGED <<env, store, phase, faults>>
<1>1. req' = Over(r, "done", 200)
  BY Zenon DEF Scaler!Apply, Scaler!Answer, Over
<1>2. req \in [Reqs -> Patches]
  BY DEF ConfigShape, ConfigTypes
<1>3. req'[r].step = "done" /\ Others(r)
  BY <1>1, <1>2, Answered DEF Others
<1> QED BY <1>3 DEF Scaler!Apply, Scaler!Answer, Active

\* A PATCH that is refused, or a late write that lands.
LEMMA FailEffect ==
  ASSUME ConfigConstants, ConfigShape, NEW r \in Reqs, Scaler!SaveFails(r) \/ Scaler!Land(r)
  PROVE  /\ ~Active(r)' /\ Others(r) /\ UNCHANGED <<env, phase, live, src, loops, said>>
         /\ \/ req[r].step = "adrift"
            \/ /\ req[r].step = "save" /\ phase = "up" /\ store' = store /\ faults' # 0
               /\ faults' \in Nat
               /\ ~Lost => req'[r].step # "adrift"
<1>1. req \in [Reqs -> Patches] /\ faults \in Nat
  BY DEF ConfigShape, ConfigTypes
<1>2. CASE Scaler!SaveFails(r)
  <2>1. \E s \in IF Lost THEN {"done", "adrift"} ELSE {"done"} :
          req' = [req EXCEPT ![r].step = s, ![r].ans = 503]
    BY <1>2 DEF Scaler!SaveFails
  <2>2. \/ req' = Over(r, "done", 503)
        \/ Lost /\ req' = Over(r, "adrift", 503)
    BY <2>1, Zenon DEF Over
  <2>3. Others(r) /\ req'[r].step \in {"done", "adrift"} /\ (~Lost => req'[r].step = "done")
    BY <1>1, <2>2, Answered DEF Others
  <2>4. /\ phase = "up" /\ req[r].step = "save" /\ faults' = faults + 1
        /\ UNCHANGED <<env, store, phase, boot, live, src, loops, said, named>>
    BY <1>2 DEF Scaler!SaveFails, Scaler!Fault
  <2> QED BY <1>1, <2>3, <2>4 DEF Active
<1>3. CASE Scaler!Land(r)
  <2>1. req' = [req EXCEPT ![r].step = "done"] /\ req[r].step = "adrift"
        /\ UNCHANGED <<env, phase, live, src, loops, said>>
    BY <1>3 DEF Scaler!Land
  <2>2. req'[r].step = "done" /\ Others(r)
    BY <1>1, <2>1 DEF Patches, Others
  <2> QED BY <2>1, <2>2 DEF Active
<1> QED BY <1>2, <1>3

LEMMA RestartEffect ==
  ASSUME ConfigConstants, ConfigShape, Scaler!Restart
  PROVE  /\ phase' = "boot" /\ live' = None /\ loops' = None /\ faults' # 0 /\ faults' \in Nat
         /\ UNCHANGED <<env, store>> /\ \A r \in Reqs : ~Active(r)'
         /\ \A f \in Scaler!Fields : said'[f] # None =>
              said'[f] = said[f] /\ \A r \in Reqs : req[r].step = "apply" => f \notin req[r].body
         /\ ~Lost => \A r \in Reqs : req'[r].step = "adrift" => req[r].step = "adrift"
<1>1. ASSUME NEW r \in Reqs
      PROVE  /\ req'[r].step \in {"free", "adrift", "done"}
             /\ ~Lost => (req'[r].step = "adrift" => req[r].step = "adrift")
  <2>1. PICK q \in Patches : q = req[r]
    BY DEF ConfigShape, ConfigTypes
  <2>2. PICK s \in {"free", "adrift", "done"} :
          req'[r] = [q EXCEPT !.step = s] /\ (~Lost => (s = "adrift" => q.step = "adrift"))
    BY <2>1 DEF Scaler!Restart, Patches
  <2>3. req'[r].step = s
    BY <2>2 DEF Patches
  <2> QED BY <2>1, <2>2, <2>3
<1>2. \A f \in Scaler!Fields : said'[f] # None =>
        said'[f] = said[f] /\ \A r \in Reqs : req[r].step = "apply" => f \notin req[r].body
  BY DEF Scaler!Restart
<1> QED BY <1>1, <1>2 DEF Scaler!Restart, Scaler!Fault, Active, ConfigShape, ConfigTypes

LEMMA ToggleEffect ==
  ASSUME Scaler!Activate \/ Scaler!Deactivate
  PROVE  Toggles /\ UNCHANGED <<env, store, phase, live, src, req, said, faults>>
BY DEF Scaler!Activate, Scaler!Deactivate

---------------------------------------------------------------------------
(* The invariants.                                                         *)

HonestInv ==
  /\ ConfigShape /\ Scaler!EnvHonest
  /\ \A r \in Reqs : Active(r) =>
       \A f \in Scaler!Fields \ req[r].body : src[f] = "env" => req[r].next[f] = Scaler!Clamp(env[f])

LEMMA HonestStep ==
  ASSUME ConfigConstants, HonestInv, [Scaler!Next]_(Scaler!vars)
  PROVE  HonestInv'
<1>0. ConfigShape /\ ConfigShape'
  BY ConfigShapeKept DEF HonestInv
<1>1. CASE Scaler!Resolve
  <2>1. PICK c \in Bounded :
           /\ phase = "boot" /\ live' = c /\ UNCHANGED <<env, req>>
           /\ \/ src' = [f \in Scaler!Fields |-> "runtime"]
              \/ c = Scaler!Clamped(env) /\ src' = [f \in Scaler!Fields |-> "env"]
    BY <1>0, <1>1, BootEffect
  <2>2. Scaler!EnvHonest'
    BY <2>1 DEF Scaler!EnvHonest, Scaler!Clamped
  <2>3. \A r \in Reqs : ~Active(r)'
    BY <1>0, <2>1 DEF ConfigShape, ConfigPhases, Active
  <2> QED BY <1>0, <2>2, <2>3 DEF HonestInv
<1>2. ASSUME NEW r \in Reqs, Scaler!Patch(r)
      PROVE  HonestInv'
  <2>1. PICK p \in Patches :
           /\ phase = "up" /\ \A f \in Scaler!Fields \ p.body : p.next[f] = live[f]
           /\ req' = [req EXCEPT ![r] = p] /\ UNCHANGED <<env, phase, live, src>>
    BY <1>0, <1>2, PatchEffect
  <2>2. Scaler!EnvHonest'
    BY <2>1 DEF HonestInv, Scaler!EnvHonest
  <2>3. ASSUME NEW t \in Reqs, Active(t)', NEW f \in Scaler!Fields \ req'[t].body, src'[f] = "env"
        PROVE  req'[t].next[f] = Scaler!Clamp(env'[f])
    <3>1. CASE t = r
      BY <1>0, <2>1, <2>3, <3>1 DEF HonestInv, Scaler!EnvHonest, ConfigShape, ConfigTypes
    <3>2. CASE t # r
      BY <1>0, <2>1, <2>3, <3>2 DEF HonestInv, ConfigShape, ConfigTypes, Active
    <3> QED BY <3>1, <3>2
  <2> QED BY <1>0, <2>2, <2>3 DEF HonestInv
<1>3. ASSUME NEW r \in Reqs, Scaler!Save(r)
      PROVE  HonestInv'
  BY <1>0, <1>3, SaveEffect DEF HonestInv, Scaler!EnvHonest, Active, Others
<1>4. ASSUME NEW r \in Reqs, Scaler!SaveFails(r) \/ Scaler!Land(r)
      PROVE  HonestInv'
  BY <1>0, <1>4, FailEffect DEF HonestInv, Scaler!EnvHonest, Active, Others
<1>5. ASSUME NEW r \in Reqs, Scaler!Apply(r)
      PROVE  HonestInv'
  <2>1. \A f \in Scaler!Fields : src'[f] = "env" => f \notin req[r].body /\ src[f] = "env"
    BY <1>0, <1>5, ApplyEffect
  <2>2. Scaler!EnvHonest'
    BY <1>0, <1>5, <2>1, ApplyEffect DEF HonestInv, Scaler!EnvHonest, Active
  <2>3. \A t \in Reqs : Active(t)' => t # r /\ req'[t] = req[t] /\ Active(t)
    BY <1>0, <1>5, ApplyEffect DEF Active, Others
  <2> QED BY <1>0, <1>5, <2>1, <2>2, <2>3, ApplyEffect DEF HonestInv
<1>6. CASE Scaler!Activate \/ Scaler!Deactivate
  BY <1>0, <1>6, ToggleEffect DEF HonestInv, Scaler!EnvHonest, Active
<1>7. CASE Scaler!Restart
  BY <1>0, <1>7, RestartEffect DEF HonestInv, Scaler!EnvHonest
<1>8. CASE UNCHANGED Scaler!vars
  BY <1>0, <1>8 DEF Scaler!vars, HonestInv, Scaler!EnvHonest, Active
<1> QED BY <1>1, <1>2, <1>3, <1>4, <1>5, <1>6, <1>7, <1>8 DEF Scaler!Next

\* PATCHes one at a time: what each carries besides its own fields is the live
\* copy, what was written is what is to be applied, and what was promised is in
\* the record.
Single == \A q, r \in Reqs : Active(q) /\ Active(r) => q = r
NoneAdrift == \A r \in Reqs : req[r].step # "adrift"
WrittenFirst == \A r \in Reqs : req[r].step = "apply" => store = req[r].next

AcceptedInv ==
  /\ ConfigShape /\ Scaler!AcceptedInForce /\ Single /\ NoneAdrift /\ WrittenFirst
  /\ \A r \in Reqs : Active(r) => \A f \in Scaler!Fields \ req[r].body : req[r].next[f] = live[f]
  /\ \A f \in Scaler!Fields : said[f] # None =>
       \/ \E r \in Reqs : req[r].step = "apply" /\ f \in req[r].body
       \/ store # None /\ store[f] = said[f]

LEMMA AcceptedStep ==
  ASSUME ConfigConstants, ~Overlap, ~Lost, AcceptedInv, [Scaler!Next]_(Scaler!vars)
  PROVE  AcceptedInv'
<1>0. ConfigShape /\ ConfigShape'
  BY ConfigShapeKept DEF AcceptedInv
<1>1. CASE Scaler!Resolve
  <2>1. PICK c \in Bounded :
           /\ phase = "boot" /\ live' = c /\ UNCHANGED <<store, req>>
           /\ \/ store # None /\ c = Scaler!Clamped(store) /\ said' = said
              \/ said' = [f \in Scaler!Fields |-> None]
    BY <1>0, <1>1, BootEffect
  <2>2. \A r \in Reqs : ~Active(r) /\ ~Active(r)'
    BY <1>0, <2>1 DEF ConfigShape, ConfigPhases, Active
  <2>3. \A f \in Scaler!Fields : said'[f] # None =>
          store # None /\ store[f] = said'[f] /\ c[f] = Scaler!Clamp(store[f]) /\ said'[f] \in Scaler!Vals
    BY <1>0, <2>1, <2>2 DEF AcceptedInv, Active, Scaler!Clamped, ConfigShape, ConfigTypes
  <2>4. \A f \in Scaler!Fields : said'[f] # None => live'[f] = said'[f]
    BY <2>1, <2>3 DEF Scaler!Clamp, Scaler!Vals, ConfigConstants
  <2> QED BY <1>0, <2>1, <2>2, <2>3, <2>4
          DEF AcceptedInv, Scaler!AcceptedInForce, Single, NoneAdrift, WrittenFirst, Active
<1>2. ASSUME NEW r \in Reqs, Scaler!Patch(r)
      PROVE  AcceptedInv'
  <2>1. PICK p \in Patches :
           /\ Scaler!Idle /\ p.step = "save" /\ \A f \in Scaler!Fields \ p.body : p.next[f] = live[f]
           /\ req' = [req EXCEPT ![r] = p]
           /\ UNCHANGED <<store, phase, live, said>>
    BY <1>0, <1>2, PatchEffect
  <2>2. \A t \in Reqs : ~Active(t)
    BY <2>1 DEF Scaler!Idle, Active
  <2>3. req'[r] = p /\ \A t \in Reqs \ {r} : req'[t] = req[t]
    BY <1>0, <2>1 DEF ConfigShape, ConfigTypes
  <2>4. Scaler!AcceptedInForce' /\ Single' /\ NoneAdrift' /\ WrittenFirst'
    BY <2>1, <2>2, <2>3 DEF AcceptedInv, Scaler!AcceptedInForce, Single, NoneAdrift, WrittenFirst, Active
  <2> QED BY <1>0, <2>1, <2>2, <2>3, <2>4 DEF AcceptedInv, Active
<1>3. ASSUME NEW r \in Reqs, Scaler!Save(r)
      PROVE  AcceptedInv'
  <2>1. \A t \in Reqs : Active(t) => t = r
    BY <1>0, <1>3, SaveEffect DEF AcceptedInv, Single, Active
  <2>2. Scaler!AcceptedInForce' /\ Single' /\ NoneAdrift' /\ WrittenFirst'
    BY <1>0, <1>3, <2>1, SaveEffect
       DEF AcceptedInv, Scaler!AcceptedInForce, Single, NoneAdrift, WrittenFirst, Active, Others
  <2>3. ASSUME NEW f \in Scaler!Fields, said'[f] # None
        PROVE  \/ \E t \in Reqs : req'[t].step = "apply" /\ f \in req'[t].body
               \/ store' # None /\ store'[f] = said'[f]
    <3>1. CASE f \in req[r].body
      BY <1>0, <1>3, <3>1, SaveEffect
    <3>2. CASE f \notin req[r].body
      <4>1. store'[f] = said'[f]
        BY <1>0, <1>3, <2>3, <3>2, SaveEffect DEF AcceptedInv, Scaler!AcceptedInForce, Active
      <4>2. store' # None
        BY <1>0, <1>3, SaveEffect DEF ConfigShape, ConfigPhases, Active
      <4> QED BY <4>1, <4>2
    <3> QED BY <3>1, <3>2
  <2>4. \A t \in Reqs : Active(t)' => \A f \in Scaler!Fields \ req'[t].body : req'[t].next[f] = live'[f]
    BY <1>0, <1>3, SaveEffect DEF AcceptedInv, Active, Others
  <2> QED BY <1>0, <2>2, <2>3, <2>4 DEF AcceptedInv
<1>4. ASSUME NEW r \in Reqs, Scaler!SaveFails(r) \/ Scaler!Land(r)
      PROVE  AcceptedInv'
  <2>1. /\ ~Active(r)' /\ Others(r) /\ UNCHANGED <<phase, live, said, store>>
        /\ req[r].step = "save" /\ req'[r].step # "adrift"
    BY <1>0, <1>4, FailEffect DEF AcceptedInv, NoneAdrift
  <2>2. Scaler!AcceptedInForce' /\ Single' /\ NoneAdrift' /\ WrittenFirst'
    BY <2>1 DEF AcceptedInv, Scaler!AcceptedInForce, Single, NoneAdrift, WrittenFirst, Active, Others
  <2> QED BY <1>0, <2>1, <2>2 DEF AcceptedInv, Active, Others
<1>5. ASSUME NEW r \in Reqs, Scaler!Apply(r)
      PROVE  AcceptedInv'
  <2>1. \A t \in Reqs : ~Active(t)'
    BY <1>0, <1>5, ApplyEffect DEF AcceptedInv, Single, Active, Others
  <2>2. NoneAdrift'
    BY <1>0, <1>5, ApplyEffect DEF AcceptedInv, NoneAdrift, Others
  <2>3. store' = req[r].next /\ live' = req[r].next /\ store' # None
    BY <1>0, <1>5, ApplyEffect DEF AcceptedInv, WrittenFirst, ConfigShape, ConfigPhases, Active
  <2>4. ASSUME NEW f \in Scaler!Fields, said'[f] # None
        PROVE  req[r].next[f] = said'[f]
    <3>1. CASE f \in req[r].body
      BY <1>0, <1>5, <3>1, ApplyEffect
    <3>2. CASE f \notin req[r].body
      BY <1>0, <1>5, <2>4, <3>2, ApplyEffect DEF AcceptedInv, Scaler!AcceptedInForce, Active
    <3> QED BY <3>1, <3>2
  <2>5. Scaler!AcceptedInForce' /\ Single' /\ WrittenFirst'
    BY <2>1, <2>3, <2>4 DEF Scaler!AcceptedInForce, Single, WrittenFirst, Active
  <2> QED BY <1>0, <2>1, <2>2, <2>3, <2>4, <2>5 DEF AcceptedInv
<1>6. CASE Scaler!Activate \/ Scaler!Deactivate
  BY <1>0, <1>6, ToggleEffect
     DEF AcceptedInv, Scaler!AcceptedInForce, Single, NoneAdrift, WrittenFirst, Active
<1>7. CASE Scaler!Restart
  <2>1. /\ phase' = "boot" /\ store' = store /\ \A r \in Reqs : ~Active(r)'
        /\ \A f \in Scaler!Fields : said'[f] # None => store # None /\ store[f] = said'[f]
        /\ NoneAdrift'
    BY <1>0, <1>7, RestartEffect DEF AcceptedInv, NoneAdrift
  <2> QED BY <1>0, <2>1 DEF AcceptedInv, Scaler!AcceptedInForce, Single, WrittenFirst, Active
<1>8. CASE UNCHANGED Scaler!vars
  BY <1>0, <1>8 DEF Scaler!vars, AcceptedInv, Scaler!AcceptedInForce, Single, NoneAdrift, WrittenFirst, Active
<1> QED BY <1>1, <1>2, <1>3, <1>4, <1>5, <1>6, <1>7, <1>8 DEF Scaler!Next

\* As long as nothing failed, the record is the live copy, but for a PATCH between
\* its write and its answer.
StoredInv ==
  /\ ConfigShape /\ Single
  /\ faults = 0 =>
       /\ NoneAdrift /\ WrittenFirst
       /\ phase = "up" => \/ \E r \in Reqs : req[r].step = "apply"
                          \/ store = None \/ Scaler!Clamped(store) = live

LEMMA StoredStep ==
  ASSUME ConfigConstants, MaxFaults > 0, ~Overlap, StoredInv, [Scaler!Next]_(Scaler!vars)
  PROVE  StoredInv'
<1>0. ConfigShape /\ ConfigShape' /\ faults \in Nat
  BY ConfigShapeKept DEF StoredInv, ConfigShape, ConfigTypes
<1>1. CASE Scaler!Resolve
  <2>1. PICK c \in Bounded :
           /\ phase = "boot" /\ live' = c /\ UNCHANGED <<store, req>>
           /\ \/ c = Scaler!Clamped(store) /\ faults' = faults
              \/ store = None \/ MaxFaults = 0 \/ faults' # 0
    BY <1>0, <1>1, BootEffect
  <2>2. \A r \in Reqs : ~Active(r)'
    BY <1>0, <2>1 DEF ConfigShape, ConfigPhases, Active
  <2>3. faults' = 0 => faults = 0
    BY <1>0, <1>1 DEF Scaler!Resolve, Scaler!BootLoaded, Scaler!BootFallback, Scaler!Boot
  <2>4. NoneAdrift => NoneAdrift'
    BY <2>1 DEF NoneAdrift
  <2> QED BY <1>0, <2>1, <2>2, <2>3, <2>4 DEF StoredInv, Single, WrittenFirst, Active, ConfigConstants
<1>2. ASSUME NEW r \in Reqs, Scaler!Patch(r)
      PROVE  StoredInv'
  <2>1. PICK p \in Patches :
           /\ Scaler!Idle /\ p.step = "save" /\ req' = [req EXCEPT ![r] = p]
           /\ UNCHANGED <<store, phase, live, faults>>
    BY <1>0, <1>2, PatchEffect
  <2>2. \A t \in Reqs : ~Active(t)
    BY <2>1 DEF Scaler!Idle, Active
  <2>3. req'[r] = p /\ \A t \in Reqs \ {r} : req'[t] = req[t]
    BY <1>0, <2>1 DEF ConfigShape, ConfigTypes
  <2> QED BY <1>0, <2>1, <2>2, <2>3 DEF StoredInv, Single, NoneAdrift, WrittenFirst, Active
<1>3. ASSUME NEW r \in Reqs, Scaler!Save(r)
      PROVE  StoredInv'
  <2>1. \A t \in Reqs : Active(t) => t = r
    BY <1>0, <1>3, SaveEffect DEF StoredInv, Single, Active
  <2> QED BY <1>0, <1>3, <2>1, SaveEffect
          DEF StoredInv, Single, NoneAdrift, WrittenFirst, Active, Others
<1>4. ASSUME NEW r \in Reqs, Scaler!SaveFails(r) \/ Scaler!Land(r)
      PROVE  StoredInv'
  <2>1. Single'
    BY <1>0, <1>4, FailEffect DEF StoredInv, Single, Active, Others
  <2>2. faults' # 0
    <3>1. CASE faults = 0
      BY <1>0, <1>4, <3>1, FailEffect DEF StoredInv, NoneAdrift
    <3>2. CASE faults # 0
      BY <1>0, <1>4, <3>2 DEF Scaler!SaveFails, Scaler!Land, Scaler!Fault
    <3> QED BY <3>1, <3>2
  <2> QED BY <1>0, <2>1, <2>2 DEF StoredInv
<1>5. ASSUME NEW r \in Reqs, Scaler!Apply(r)
      PROVE  StoredInv'
  <2>1. \A t \in Reqs : ~Active(t)'
    BY <1>0, <1>5, ApplyEffect DEF StoredInv, Single, Active, Others
  <2>2. faults' = faults /\ store' = store /\ live' = req[r].next
    BY <1>0, <1>5, ApplyEffect
  <2>3. faults = 0 => NoneAdrift' /\ store = req[r].next
    BY <1>0, <1>5, ApplyEffect DEF StoredInv, NoneAdrift, WrittenFirst, Others
  <2>4. req[r].next \in Bounded
    BY <1>0, <1>5, ApplyEffect DEF ConfigShape, ConfigTypes, ConfigPhases, Active, Patches
  <2>5. Scaler!Clamped(req[r].next) = req[r].next
    BY <2>4, ClampedBounds
  <2> QED BY <1>0, <2>1, <2>2, <2>3, <2>5 DEF StoredInv, Single, WrittenFirst, Active
<1>6. CASE Scaler!Activate \/ Scaler!Deactivate
  BY <1>0, <1>6, ToggleEffect DEF StoredInv, Single, NoneAdrift, WrittenFirst, Active
<1>7. CASE Scaler!Restart
  BY <1>0, <1>7, RestartEffect DEF StoredInv, Single
<1>8. CASE UNCHANGED Scaler!vars
  BY <1>0, <1>8 DEF Scaler!vars, StoredInv, Single, NoneAdrift, WrittenFirst, Active
<1> QED BY <1>1, <1>2, <1>3, <1>4, <1>5, <1>6, <1>7, <1>8 DEF Scaler!Next

LEMMA EnforcedStep ==
  ASSUME ConfigConstants, ~Toggles, ConfigShape, Scaler!EnforcedReported, [Scaler!Next]_(Scaler!vars)
  PROVE  Scaler!EnforcedReported'
<1>1. CASE Scaler!Resolve
  BY <1>1, BootEffect DEF Scaler!EnforcedReported
<1>2. ASSUME NEW r \in Reqs, Scaler!Patch(r)
      PROVE  Scaler!EnforcedReported'
  BY <1>2 DEF Scaler!Patch, Scaler!EnforcedReported
<1>3. ASSUME NEW r \in Reqs, Scaler!Save(r) \/ Scaler!SaveFails(r) \/ Scaler!Land(r)
      PROVE  Scaler!EnforcedReported'
  BY <1>3 DEF Scaler!Save, Scaler!SaveFails, Scaler!Land, Scaler!EnforcedReported
<1>4. ASSUME NEW r \in Reqs, Scaler!Apply(r)
      PROVE  Scaler!EnforcedReported'
  <2>1. live' = req[r].next /\ loops' = Scaler!FanOut(req[r].next)
    BY <1>4 DEF Scaler!Apply
  <2>2. CASE loops = None
    BY <2>1, <2>2 DEF Scaler!FanOut, Scaler!EnforcedReported
  <2>3. CASE loops # None
    <3>1. loops' = [loops EXCEPT !["max"] = req[r].next["max"], !["idle"] = req[r].next["idle"]]
      BY <2>1, <2>3 DEF Scaler!FanOut
    <3>2. loops \in Bounded
      BY <2>3 DEF ConfigShape, ConfigTypes
    <3> QED BY <2>1, <3>1, <3>2 DEF Scaler!EnforcedReported, Bounded, Scaler!Fields
  <2> QED BY <2>2, <2>3
<1>5. CASE Scaler!Activate \/ Scaler!Deactivate
  BY <1>5, ToggleEffect
<1>6. CASE Scaler!Restart
  BY <1>6 DEF Scaler!Restart, Scaler!EnforcedReported
<1>7. CASE UNCHANGED Scaler!vars
  BY <1>7 DEF Scaler!vars, Scaler!EnforcedReported
<1> QED BY <1>1, <1>2, <1>3, <1>4, <1>5, <1>6, <1>7 DEF Scaler!Next

---------------------------------------------------------------------------

\* Whatever the environment and the record hold, and however PATCHes overlap,
\* writes are lost or land late and the process restarts, the route and the
\* loops are within the bounds (clampPersistedScalerConfig, the PATCH schema).
THEOREM ValuesInBounds ==
  ASSUME ConfigConstants
  PROVE  Scaler!Spec => []Scaler!InBounds
<1>1. Scaler!Init => ConfigShape
  BY ConfigShapeStart
<1>2. ConfigShape /\ [Scaler!Next]_(Scaler!vars) => ConfigShape'
  BY ConfigShapeKept
<1>3. ConfigShape => Scaler!InBounds
  BY DEF ConfigShape, ConfigTypes, Scaler!InBounds, Bounded
<1> QED BY <1>1, <1>2, <1>3, PTL DEF Scaler!Spec

\* Likewise a field GET /config reports as the environment's has its value.
THEOREM SourcesTrue ==
  ASSUME ConfigConstants
  PROVE  Scaler!Spec => []Scaler!EnvHonest
<1>1. Scaler!Init => HonestInv
  BY ConfigShapeStart DEF Scaler!Init, HonestInv, Scaler!EnvHonest, Active
<1>2. HonestInv /\ [Scaler!Next]_(Scaler!vars) => HonestInv'
  BY HonestStep
<1>3. HonestInv => Scaler!EnvHonest
  BY DEF HonestInv
<1> QED BY <1>1, <1>2, <1>3, PTL DEF Scaler!Spec

\* PATCHes one after another, no late write: what was answered 200 is in force,
\* through refused writes and restarts, until a later PATCH of the field or a
\* boot that cannot read the record.
THEOREM AcceptedStays ==
  ASSUME ConfigConstants, ~Overlap, ~Lost
  PROVE  Scaler!Spec => []Scaler!AcceptedInForce
<1>1. Scaler!Init => AcceptedInv
  BY ConfigShapeStart
     DEF Scaler!Init, AcceptedInv, Scaler!AcceptedInForce, Single, NoneAdrift, WrittenFirst, Active
<1>2. AcceptedInv /\ [Scaler!Next]_(Scaler!vars) => AcceptedInv'
  BY AcceptedStep
<1>3. AcceptedInv => Scaler!AcceptedInForce
  BY DEF AcceptedInv
<1> QED BY <1>1, <1>2, <1>3, PTL DEF Scaler!Spec

\* PATCHes one after another: until something fails, the record and the live
\* copy are the same whenever no PATCH is under way.
THEOREM RecordIsLive ==
  ASSUME ConfigConstants, MaxFaults > 0, ~Overlap
  PROVE  Scaler!Spec => []Scaler!StoredIsLive
<1>1. Scaler!Init => StoredInv
  BY ConfigShapeStart DEF Scaler!Init, StoredInv, Single, NoneAdrift, WrittenFirst, Active
<1>2. StoredInv /\ [Scaler!Next]_(Scaler!vars) => StoredInv'
  BY StoredStep
<1>3. StoredInv => Scaler!StoredIsLive
  BY DEF StoredInv, Scaler!StoredIsLive, Scaler!Idle
<1> QED BY <1>1, <1>2, <1>3, PTL DEF Scaler!Spec

\* While no stack is provisioned or torn down, the cap and the timeout the loops
\* enforce are those GET /config reports, however PATCHes overlap.
THEOREM ReportedEnforced ==
  ASSUME ConfigConstants, ~Toggles
  PROVE  Scaler!Spec => []Scaler!EnforcedReported
<1>1. Scaler!Init => ConfigShape /\ Scaler!EnforcedReported
  BY ConfigShapeStart DEF Scaler!Init, Scaler!EnforcedReported
<1>2. ConfigShape /\ Scaler!EnforcedReported /\ [Scaler!Next]_(Scaler!vars) => (ConfigShape /\ Scaler!EnforcedReported)'
  BY ConfigShapeKept, EnforcedStep
<1> QED BY <1>1, <1>2, PTL DEF Scaler!Spec

---------------------------------------------------------------------------
\* The registry of the watch-folder watchers.

\* What the proofs ask of the constants.
WatchConstants ==
  FirstListed \in Stacks /\ None \notin Watchers /\ None \notin Stacks

\* One pass over the registry at a time, whose read of the list does not fail,
\* and no stop by an operator.
Undisturbed == (\A p, q \in Passes : p = q) /\ ~ListFails /\ MaxStops = 0

Watching ==
  [st : {"unused", "on", "off"}, on : Stacks \cup {None},
   processed : SUBSET Watch!Keys, listed : SUBSET Watch!Keys]

WatchTypes ==
  /\ stacks \in SUBSET Stacks /\ bucket \in SUBSET Watch!Keys
  /\ watcher \in [Watchers -> Watching]
  /\ registry \in [Stacks -> Watchers \cup {None}]
  /\ work \in SUBSET [w : Watchers, k : Watch!Keys, at : {"create", "record"}]
  /\ pass \in [Passes -> [at : {"idle", "apply", "wire"}, names : SUBSET Stacks]]
  /\ kicks \in Nat /\ stops \in Nat

\* A watcher stands in one entry of the registry, and one that does is in use.
RegistryApart ==
  /\ \A s \in Stacks : registry[s] # None => watcher[registry[s]].st # "unused"
  /\ \A s, t \in Stacks : registry[s] # None /\ registry[s] = registry[t] => s = t

WatchInv == WatchTypes /\ RegistryApart /\ Watch!NoStrayWatcher

\* The steps of the watchers themselves: no registry, pass or stack changes, and
\* every watcher stays on or off, and on its bucket.
Still ==
  /\ stacks' = stacks /\ registry' = registry /\ pass' = pass /\ kicks' = kicks /\ stops' = stops
  /\ \A w \in Watchers : watcher'[w].st = watcher[w].st /\ watcher'[w].on = watcher[w].on

ByWatcher ==
  \/ \E k \in Watch!Keys : Watch!Write(k)
  \/ \E w \in Watchers : Watch!WatcherStep(w) \/ \E k \in Watch!Keys : Watch!Notified(w, k)
  \/ Watch!WorkStep \/ (\E i \in work : Watch!IngestFails(i))

LEMMA StillSteps ==
  ASSUME WatchTypes, ByWatcher
  PROVE  WatchTypes' /\ Still
<1>1. ASSUME NEW k \in Watch!Keys, Watch!Write(k) PROVE WatchTypes' /\ Still
  BY <1>1 DEF Watch!Write, WatchTypes, Watching, Still, Watch!counts
<1>2. ASSUME NEW w \in Watchers, Watch!List(w) PROVE WatchTypes' /\ Still
  <2>1. Watch!Sees(w) \subseteq Watch!Keys
    BY DEF Watch!Sees, WatchTypes, Watching
  <2> QED
    BY <1>2, <2>1 DEF Watch!List, WatchTypes, Watching, Still, Watch!counts
<1>3. ASSUME NEW w \in Watchers, NEW k \in Watch!Keys, NEW l \in SUBSET Watch!Keys, Watch!IngestKey(w, k, l)
      PROVE  WatchTypes' /\ Still
  <2>1. work' \in SUBSET [w : Watchers, k : Watch!Keys, at : {"create", "record"}]
    BY <1>3 DEF Watch!IngestKey, WatchTypes, Watching
  <2>2. /\ watcher' \in [Watchers -> Watching]
        /\ \A v \in Watchers : watcher'[v].st = watcher[v].st /\ watcher'[v].on = watcher[v].on
    <3> DEFINE n == [watcher[w] EXCEPT !.listed = l, !.processed = @ \cup {k}]
    <3>1. watcher' = [watcher EXCEPT ![w] = n]
      BY <1>3 DEF Watch!IngestKey, WatchTypes, Watching
    <3>2. PICK v \in Watching : v = watcher[w]
      BY DEF WatchTypes, Watching
    <3>3. n \in Watching /\ n.st = v.st /\ n.on = v.on
      <4>1. n = [v EXCEPT !.listed = l, !.processed = v.processed \cup {k}]
        BY <3>2
      <4>2. v.processed \cup {k} \in SUBSET Watch!Keys
        BY <3>2 DEF Watching
      <4> HIDE DEF n
      <4> QED
        BY <3>2, <4>1, <4>2 DEF Watching
    <3> HIDE DEF n
    <3> QED
      BY <3>1, <3>2, <3>3 DEF WatchTypes, Watching
  <2> QED
    BY <1>3, <2>1, <2>2 DEF Watch!IngestKey, WatchTypes, Watching, Still, Watch!counts
<1>4. ASSUME NEW w \in Watchers, NEW k \in Watch!Keys, Watch!Polled(w, k) PROVE WatchTypes' /\ Still
  <2>1. watcher[w].listed \ {k} \in SUBSET Watch!Keys
    BY DEF WatchTypes, Watching
  <2> QED
    BY <1>3, <1>4, <2>1 DEF Watch!Polled
<1>5. ASSUME NEW w \in Watchers, NEW k \in Watch!Keys, Watch!Notified(w, k) PROVE WatchTypes' /\ Still
  <2>1. watcher[w].listed \in SUBSET Watch!Keys
    BY DEF WatchTypes, Watching
  <2> QED
    BY <1>3, <1>5, <2>1 DEF Watch!Notified
<1>6. ASSUME NEW w \in Watchers, NEW k \in Watch!Keys, Watch!AlreadyDone(w, k) PROVE WatchTypes' /\ Still
  BY <1>6 DEF Watch!AlreadyDone, WatchTypes, Watching, Still, Watch!counts
<1>7. ASSUME NEW i \in work, Watch!CreateAsset(i) PROVE WatchTypes' /\ Still
  <2>1. i \in [w : Watchers, k : Watch!Keys, at : {"create", "record"}]
    BY <1>7 DEF WatchTypes, Watching
  <2>2. [i EXCEPT !.at = "record"] \in [w : Watchers, k : Watch!Keys, at : {"create", "record"}]
    BY <2>1
  <2> QED
    BY <1>7, <2>2 DEF Watch!CreateAsset, WatchTypes, Watching, Still, Watch!counts
<1>8. ASSUME NEW i \in work, Watch!Record(i) PROVE WatchTypes' /\ Still
  BY <1>8 DEF Watch!Record, WatchTypes, Watching, Still, Watch!counts
<1>9. ASSUME NEW i \in work, Watch!IngestFails(i) PROVE WatchTypes' /\ Still
  <2>1. i.w \in Watchers
    BY <1>9 DEF WatchTypes, Watching
  <2> QED
    BY <1>9, <2>1 DEF Watch!IngestFails, WatchTypes, Watching, Still, Watch!counts
<1> QED
  BY <1>1, <1>2, <1>4, <1>5, <1>6, <1>7, <1>8, <1>9 DEF ByWatcher, Watch!WatcherStep, Watch!WorkStep

\* A step is one of those, or one of the registry's.
LEMMA WatchCases ==
  ASSUME [Watch!Next]_(Watch!vars)
  PROVE  \/ ByWatcher
         \/ \E w \in Watchers : Watch!OperatorStop(w) \/ Watch!OperatorStart(w)
         \/ \E s \in Stacks : Watch!Change(s)
         \/ \E p \in Passes : Watch!PassStep(p)
         \/ Watch!Restart
         \/ UNCHANGED Watch!vars
BY DEF Watch!Next, ByWatcher

\* A name resolves to a stack, or to none; a provisioned one to itself.
LEMMA ResolvedStack ==
  ASSUME WatchConstants, WatchTypes, NEW s \in Stacks
  PROVE  Watch!Resolved(s) \in Stacks \cup {None} /\ (s \in stacks => Watch!Resolved(s) = s)
<1>1. CASE stacks = {}
  BY <1>1 DEF Watch!Resolved, WatchConstants
<1>2. CASE stacks # {}
  <2>1. (CHOOSE t \in stacks : TRUE) \in stacks
    BY <1>2
  <2> QED
    BY <2>1, <1>2 DEF Watch!Resolved, WatchConstants, WatchTypes, Watching
<1> QED
  BY <1>1, <1>2

\* The invariant of the registry, step by step.
LEMMA WatchStep ==
  ASSUME WatchConstants, WatchInv, [Watch!Next]_(Watch!vars)
  PROVE  WatchInv'
<1> USE DEF WatchInv
<1>1. CASE ByWatcher
  <2>1. WatchTypes' /\ Still
    BY <1>1, StillSteps
  <2>2. RegistryApart'
    BY <2>1 DEF Still, RegistryApart, WatchTypes, Watching
  <2>3. Watch!NoStrayWatcher'
    BY <2>1 DEF Still, Watch!NoStrayWatcher
  <2> QED
    BY <2>1, <2>2, <2>3
<1>2. ASSUME NEW w \in Watchers, Watch!OperatorStop(w) \/ Watch!OperatorStart(w) PROVE WatchInv'
  <2>1. PICK x \in {"on", "off"} : watcher' = [watcher EXCEPT ![w].st = x]
    BY <1>2 DEF Watch!OperatorStop, Watch!OperatorStart
  <2>2. watcher' \in [Watchers -> Watching]
    <3>1. [watcher[w] EXCEPT !.st = x] \in Watching
      BY <2>1 DEF WatchTypes, Watching
    <3>2. watcher' = [watcher EXCEPT ![w] = [watcher[w] EXCEPT !.st = x]]
      BY <2>1
    <3> QED
      BY <3>1, <3>2 DEF WatchTypes
  <2>3. WatchTypes'
    BY <1>2, <2>2 DEF Watch!OperatorStop, Watch!OperatorStart, WatchTypes, Watch!counts
  <2>4. registry' = registry /\ w = registry[FirstListed]
    BY <1>2 DEF Watch!OperatorStop, Watch!OperatorStart
  <2>5. RegistryApart'
    BY <2>1, <2>4 DEF RegistryApart, WatchTypes, Watching
  <2>6. Watch!NoStrayWatcher'
    BY <2>1, <2>4 DEF Watch!NoStrayWatcher, WatchTypes, Watching, WatchConstants
  <2> QED
    BY <2>3, <2>5, <2>6
<1>3. ASSUME NEW s \in Stacks, Watch!Change(s) PROVE WatchInv'
  <2>1. WatchTypes'
    BY <1>3 DEF Watch!Change, WatchTypes, Watching
  <2>2. watcher' = watcher /\ registry' = registry
    BY <1>3 DEF Watch!Change
  <2> QED
    BY <2>1, <2>2 DEF RegistryApart, Watch!NoStrayWatcher
<1>4. ASSUME NEW p \in Passes, NEW names \in SUBSET Stacks, Watch!PassList(p, names)
      PROVE  WatchInv'
  <2>1. WatchTypes'
    BY <1>4 DEF Watch!PassList, WatchTypes, Watching
  <2>2. watcher' = watcher /\ registry' = registry
    BY <1>4 DEF Watch!PassList
  <2> QED
    BY <2>1, <2>2 DEF RegistryApart, Watch!NoStrayWatcher
<1>5. ASSUME NEW p \in Passes, Watch!PassApply(p) PROVE WatchInv'
  <2>1. CASE pass[p].names = {}
    <3>1. WatchTypes'
      BY <1>5, <2>1 DEF Watch!PassApply, WatchTypes, Watching, Watch!NoPass, Watch!counts
    <3>2. watcher' = watcher /\ registry' = registry
      BY <1>5, <2>1 DEF Watch!PassApply
    <3> QED
      BY <3>1, <3>2 DEF RegistryApart, Watch!NoStrayWatcher
  <2>2. CASE pass[p].names # {}
    <3> DEFINE gone == Watch!Registered \ pass[p].names
               ended == {registry[s] : s \in gone}
    <3>1. /\ watcher' = [w \in Watchers |-> IF w \in ended THEN [watcher[w] EXCEPT !.st = "off"]
                                            ELSE watcher[w]]
          /\ registry' = [s \in Stacks |-> IF s \in gone THEN None ELSE registry[s]]
          /\ pass' = [pass EXCEPT ![p].at = "wire"]
      BY <1>5, <2>2 DEF Watch!PassApply
    <3>2. WatchTypes'
      <4>1. \A w \in Watchers :
              watcher'[w] \in Watching
        <5> HIDE DEF ended
        <5>1. \A w \in Watchers : [watcher[w] EXCEPT !.st = "off"] \in Watching
          BY DEF WatchTypes, Watching
        <5> QED
          BY <3>1, <5>1 DEF WatchTypes
      <4>2. watcher' \in [Watchers -> Watching]
        <5> HIDE DEF ended
        <5> QED
          BY <3>1, <4>1
      <4>3. registry' \in [Stacks -> Watchers \cup {None}]
        BY <3>1 DEF WatchTypes, Watching
      <4>4. pass' \in [Passes -> [at : {"idle", "apply", "wire"}, names : SUBSET Stacks]]
        BY <3>1 DEF WatchTypes, Watching
      <4> QED
        BY <1>5, <4>2, <4>3, <4>4 DEF Watch!PassApply, WatchTypes, Watching, Watch!counts
    <3>3. RegistryApart'
      BY <3>1 DEF RegistryApart, WatchTypes, Watching
    <3>4. Watch!NoStrayWatcher'
      BY <3>1 DEF Watch!NoStrayWatcher, WatchTypes, Watching
    <3> QED
      BY <3>2, <3>3, <3>4
  <2> QED
    BY <2>1, <2>2
<1>6. ASSUME NEW p \in Passes, NEW s \in Stacks, NEW w \in Watchers \cup {None}, Watch!PassWire(p, s, w)
      PROVE  WatchInv'
  <2>1. pass' = [pass EXCEPT ![p] = IF pass[p].names = {s} THEN Watch!NoPass
                                    ELSE [pass[p] EXCEPT !.names = @ \ {s}]]
    BY <1>6 DEF Watch!PassWire
  <2>2. pass' \in [Passes -> [at : {"idle", "apply", "wire"}, names : SUBSET Stacks]]
    BY <2>1 DEF WatchTypes, Watching, Watch!NoPass
  <2>3. CASE watcher' = watcher /\ registry' = registry
    <3>1. WatchTypes'
      BY <1>6, <2>2, <2>3 DEF Watch!PassWire, WatchTypes, Watching, Watch!counts
    <3> QED
      BY <2>3, <3>1 DEF RegistryApart, Watch!NoStrayWatcher
  <2>4. CASE ~(watcher' = watcher /\ registry' = registry)
    <3> DEFINE old == registry[s]
               fresh == [Watch!Fresh EXCEPT !.st = "on", !.on = Watch!Resolved(s)]
    <3>1. /\ w \in Watchers /\ watcher[w].st = "unused"
          /\ watcher' = [v \in Watchers |-> CASE v = w -> fresh
                                              [] v = old -> [watcher[v] EXCEPT !.st = "off"]
                                              [] OTHER -> watcher[v]]
          /\ registry' = [registry EXCEPT ![s] = w]
      BY <1>6, <2>4 DEF Watch!PassWire
    <3>2. Watch!Resolved(s) \in Stacks \cup {None}
      BY ResolvedStack
    <3>3. /\ fresh \in Watching
          /\ fresh.st = "on"
      BY <3>2 DEF Watch!Fresh, Watching
    <3> HIDE DEF fresh
    <3>4. watcher' \in [Watchers -> Watching]
      BY <3>1, <3>3 DEF WatchTypes, Watching
    <3>5. WatchTypes'
      BY <1>6, <2>2, <3>1, <3>4 DEF Watch!PassWire, WatchTypes, Watching, Watch!counts
    <3>6. RegistryApart'
      <4>1. \A t \in Stacks : registry[t] # w
        BY <3>1 DEF RegistryApart, WatchConstants
      <4> QED
        BY <3>1, <3>3, <4>1 DEF RegistryApart, WatchTypes, Watching
    <3>7. Watch!NoStrayWatcher'
      BY <3>1 DEF Watch!NoStrayWatcher, WatchTypes, Watching
    <3> QED
      BY <3>5, <3>6, <3>7
  <2> QED
    BY <2>3, <2>4
<1>7. CASE Watch!Restart
  BY <1>7 DEF Watch!Restart, WatchTypes, Watching, RegistryApart, Watch!NoStrayWatcher, Watch!Fresh, Watch!NoPass
<1>8. CASE UNCHANGED Watch!vars
  BY <1>8 DEF Watch!vars, Watch!counts, WatchTypes, Watching, RegistryApart, Watch!NoStrayWatcher
<1> QED
  BY <1>1, <1>2, <1>3, <1>4, <1>5, <1>6, <1>7, <1>8, WatchCases DEF Watch!PassStep

LEMMA WatchStart ==
  ASSUME WatchConstants, Watch!Init
  PROVE  WatchInv
BY DEF Watch!Init, WatchConstants, WatchInv, WatchTypes, Watching, RegistryApart, Watch!NoStrayWatcher, Watch!Fresh, Watch!NoPass

\* Every watcher that runs is the one an entry of the registry names, however
\* many passes overlap, lists fail and stacks come and go.
THEOREM NoneStray ==
  ASSUME WatchConstants
  PROVE  Watch!Spec => []Watch!NoStrayWatcher
<1>1. WatchInv /\ [Watch!Next]_(Watch!vars) => WatchInv'
  BY WatchStep
<1>2. WatchInv => Watch!NoStrayWatcher
  BY DEF WatchInv
<1> QED
  BY <1>1, <1>2, WatchStart, PTL DEF Watch!Spec

\* A stack whose entry names a watcher that runs on its bucket.
Served(s) ==
  registry[s] # None /\ watcher[registry[s]].st = "on" /\ watcher[registry[s]].on = s

\* With no change of the stacks to come, a pass has read the list as it is and has
\* yet to apply it, or all it has left to wire is all that is not yet served.
Progress(p) ==
  /\ pass[p].at = "apply" => pass[p].names = stacks
  /\ pass[p].at = "wire" =>
       /\ pass[p].names \subseteq stacks
       /\ \A s \in stacks \ pass[p].names : Served(s)

ConvergeInv ==
  /\ stops = 0
  /\ kicks = 0 => /\ \A p \in Passes : Progress(p)
                  /\ (\A p \in Passes : pass[p].at = "idle") => \A s \in stacks : Served(s)

LEMMA ConvergeStep ==
  ASSUME WatchConstants, Undisturbed, WatchInv, WatchInv', ConvergeInv, [Watch!Next]_(Watch!vars)
  PROVE  ConvergeInv'
<1> USE DEF WatchInv
<1>1. CASE ByWatcher
  <2>1. Still
    BY <1>1, StillSteps
  <2>2. \A s \in Stacks : Served(s) => Served(s)'
    BY <2>1 DEF Still, Served, WatchTypes, Watching
  <2> QED
    BY <2>1, <2>2 DEF Still, ConvergeInv, Progress, WatchTypes, Watching
<1>2. ASSUME NEW w \in Watchers, Watch!OperatorStop(w) \/ Watch!OperatorStart(w) PROVE ConvergeInv'
  <2>1. watcher' = [watcher EXCEPT ![w].st = "on"] /\ Watch!OperatorStart(w)
    BY <1>2 DEF Watch!OperatorStop, Watch!OperatorStart, ConvergeInv, Undisturbed
  <2>2. /\ stacks' = stacks /\ registry' = registry /\ pass' = pass /\ kicks' = kicks
        /\ stops' = stops
    BY <2>1 DEF Watch!OperatorStart, Watch!counts
  <2>3. \A s \in Stacks : Served(s) => Served(s)'
    BY <2>1, <2>2 DEF Served, WatchTypes, Watching
  <2> QED
    BY <2>2, <2>3 DEF ConvergeInv, Progress, WatchTypes, Watching
<1>3. ASSUME NEW s \in Stacks, Watch!Change(s) PROVE ConvergeInv'
  BY <1>3 DEF Watch!Change, ConvergeInv, WatchTypes, Watching
<1>4. ASSUME NEW p \in Passes, NEW names \in SUBSET Stacks, Watch!PassList(p, names)
      PROVE  ConvergeInv'
  <2>1. /\ names = stacks /\ pass' = [pass EXCEPT ![p] = [at |-> "apply", names |-> names]]
        /\ stacks' = stacks /\ stops' = stops
    BY <1>4 DEF Watch!PassList, Undisturbed
  <2>2. \A q \in Passes : q = p
    BY DEF Undisturbed
  <2>3. pass'[p].at = "apply" /\ pass'[p].names = stacks'
    BY <2>1 DEF WatchTypes, Watching
  <2> QED
    BY <2>1, <2>2, <2>3 DEF ConvergeInv, Progress
<1>5. ASSUME NEW p \in Passes, Watch!PassApply(p) PROVE ConvergeInv'
  <2>1. \A q \in Passes : q = p
    BY DEF Undisturbed
  <2>2. /\ stacks' = stacks /\ kicks' = kicks /\ stops' = stops /\ pass[p].at = "apply"
        /\ pass[p].names = {} => pass' = [pass EXCEPT ![p] = Watch!NoPass]
        /\ pass[p].names # {} => pass' = [pass EXCEPT ![p].at = "wire"]
    BY <1>5 DEF Watch!PassApply, Watch!counts
  <2>3. CASE pass[p].names = {}
    <3>1. pass'[p].at = "idle"
      BY <2>2, <2>3 DEF WatchTypes, Watching, Watch!NoPass
    <3>2. kicks = 0 => stacks = {}
      BY <2>2, <2>3 DEF ConvergeInv, Progress
    <3> QED
      BY <2>1, <2>2, <3>1, <3>2 DEF ConvergeInv, Progress
  <2>4. CASE pass[p].names # {}
    <3>1. pass'[p].at = "wire" /\ pass'[p].names = pass[p].names
      BY <2>2, <2>4 DEF WatchTypes, Watching
    <3>2. kicks = 0 => pass[p].names = stacks
      BY <2>2 DEF ConvergeInv, Progress
    <3> QED
      BY <2>1, <2>2, <3>1, <3>2 DEF ConvergeInv, Progress
  <2> QED
    BY <2>3, <2>4
<1>6. ASSUME NEW p \in Passes, NEW s \in Stacks, NEW w \in Watchers \cup {None}, Watch!PassWire(p, s, w)
      PROVE  ConvergeInv'
  <2>1. \A q \in Passes : q = p
    BY DEF Undisturbed
  <2>2. /\ stacks' = stacks /\ kicks' = kicks /\ stops' = stops
        /\ pass[p].at = "wire" /\ s \in pass[p].names
        /\ pass[p].names = {s} => pass' = [pass EXCEPT ![p] = Watch!NoPass]
        /\ pass[p].names # {s} => pass' = [pass EXCEPT ![p].names = @ \ {s}]
    BY <1>6 DEF Watch!PassWire, Watch!counts, WatchTypes, Watching
  <2>3. SUFFICES ASSUME kicks = 0
                 PROVE  \A t \in stacks \ (pass[p].names \ {s}) : Served(t)'
    <3>1. CASE pass[p].names = {s}
      <4>1. pass'[p].at = "idle"
        BY <2>2, <3>1 DEF WatchTypes, Watching, Watch!NoPass
      <4> QED
        BY <2>1, <2>2, <2>3, <3>1, <4>1 DEF ConvergeInv, Progress
    <3>2. CASE pass[p].names # {s}
      <4>1. pass'[p].at = "wire" /\ pass'[p].names = pass[p].names \ {s}
        BY <2>2, <3>2 DEF WatchTypes, Watching
      <4> QED
        BY <2>1, <2>2, <2>3, <4>1 DEF ConvergeInv, Progress
    <3> QED
      BY <3>1, <3>2
  <2>4. /\ s \in stacks /\ Watch!Resolved(s) = s
        /\ \A t \in stacks \ pass[p].names : Served(t)
    BY <2>2, <2>3, ResolvedStack DEF ConvergeInv, Progress
  <2>5. CASE watcher' = watcher /\ registry' = registry /\ w = None
    <3>1. Served(s)
      BY <1>6, <2>4, <2>5 DEF Watch!PassWire, Served, WatchConstants
    <3> QED
      BY <2>4, <2>5, <3>1 DEF Served
  <2>6. CASE ~(watcher' = watcher /\ registry' = registry /\ w = None)
    <3> DEFINE old == registry[s]
               fresh == [Watch!Fresh EXCEPT !.st = "on", !.on = Watch!Resolved(s)]
    <3>1. /\ w \in Watchers /\ watcher[w].st = "unused"
          /\ watcher' = [v \in Watchers |-> CASE v = w -> fresh
                                              [] v = old -> [watcher[v] EXCEPT !.st = "off"]
                                              [] OTHER -> watcher[v]]
          /\ registry' = [registry EXCEPT ![s] = w]
      BY <1>6, <2>6 DEF Watch!PassWire
    <3>2. fresh.st = "on" /\ fresh.on = s
      BY <2>4 DEF Watch!Fresh
    <3> HIDE DEF fresh
    <3>3. Served(s)'
      <4>1. registry'[s] = w
        BY <3>1 DEF WatchTypes, Watching
      <4>2. watcher'[w] = fresh
        <5>1. watcher'[w] = CASE w = w -> fresh
                              [] w = old -> [watcher[w] EXCEPT !.st = "off"]
                              [] OTHER -> watcher[w]
          BY <3>1
        <5>2. w # old
          BY <3>1 DEF RegistryApart, WatchConstants
        <5> QED
          BY <5>1, <5>2
      <4> QED
        BY <3>1, <3>2, <4>1, <4>2 DEF Served, WatchConstants
    <3>4. ASSUME NEW t \in Stacks, t # s, Served(t) PROVE Served(t)'
      <4>1. registry[t] \in Watchers /\ registry[t] # w /\ registry[t] # old
        BY <3>1, <3>4 DEF Served, RegistryApart, WatchTypes, Watching
      <4>2. registry'[t] = registry[t] /\ watcher'[registry[t]] = watcher[registry[t]]
        BY <3>1, <3>4, <4>1 DEF WatchTypes, Watching
      <4> QED
        BY <3>4, <4>2 DEF Served
    <3> QED
      BY <2>4, <3>3, <3>4 DEF WatchTypes, Watching
  <2> QED
    BY <2>5, <2>6
<1>7. CASE Watch!Restart
  BY <1>7 DEF Watch!Restart, ConvergeInv
<1>8. CASE UNCHANGED Watch!vars
  BY <1>8 DEF Watch!vars, Watch!counts, ConvergeInv, Progress, Served
<1> QED
  BY <1>1, <1>2, <1>3, <1>4, <1>5, <1>6, <1>7, <1>8, WatchCases DEF Watch!PassStep

\* Once the passes are through, every provisioned stack has its watcher, on its own
\* bucket: with one pass at a time, lists that are read and no operator's stop,
\* after any number of changes and restarts.
THEOREM EveryStackWatched ==
  ASSUME WatchConstants, Undisturbed
  PROVE  Watch!Spec => []Watch!Converged
<1>1. Watch!Init => WatchInv /\ ConvergeInv
  <2>1. ASSUME Watch!Init PROVE ConvergeInv
    BY <2>1 DEF Watch!Init, ConvergeInv
  <2> QED
    BY <2>1, WatchStart
<1>2. WatchInv /\ ConvergeInv /\ [Watch!Next]_(Watch!vars) => (WatchInv /\ ConvergeInv)'
  <2>1. ASSUME WatchInv, ConvergeInv, [Watch!Next]_(Watch!vars) PROVE WatchInv' /\ ConvergeInv'
    <3>1. WatchInv'
      BY <2>1, WatchStep
    <3> QED
      BY <2>1, <3>1, ConvergeStep
  <2> QED
    BY <2>1
<1>3. WatchInv /\ ConvergeInv => Watch!Converged
  BY DEF WatchInv, WatchTypes, Watching, ConvergeInv, Served, Watch!Converged
<1> QED
  BY <1>1, <1>2, <1>3, PTL DEF Watch!Spec

---------------------------------------------------------------------------
\* The status of the scaler: what a read of it covers, and what its rows say.

\* What the proofs ask of the constants.
StatusConstants ==
  /\ IsFiniteSet(Stacks) /\ None \notin Conns /\ Global \in Conns
  /\ MaxChanges \in Nat /\ MaxReads \in Nat /\ MaxFaults \in Nat

StatusReads ==
  [step : {"free", "scan", "done"}, listed : SUBSET (Stacks \X Conns),
   left : SUBSET (Conns \X SUBSET Stacks), rows : SUBSET Status!Row, count : Nat,
   due : SUBSET Stacks, had : SUBSET Stacks]

\* A stack that is due has its row or is still to be scanned for.
DueCovered ==
  \A s \in read.due : (\E r \in read.rows : r.ws = s) \/ (\E t \in read.left : s \in t[2])

\* The rows are counted, and none is of a store that is still to be scanned.
RowsCounted ==
  /\ IsFiniteSet(read.rows) /\ read.count = Cardinality(read.rows)
  /\ \A r \in read.rows, t \in read.left : r.conn # t[1]
  /\ \A t, u \in read.left : t[1] = u[1] => t = u

ScanInv ==
  /\ Status!TypeOK /\ DueCovered /\ RowsCounted
  /\ read.step \in {"free", "done"} => read.left = {}

---------------------------------------------------------------------------

\* The instance counts as this module does.
LEMMA SameCount ==
  \A S : Status!Cardinality(S) = Cardinality(S)
BY Zenon DEF Status!Cardinality, Cardinality

\* As many as are named: the image of a set under a function that tells its
\* elements apart.
LEMMA StatusImages ==
  ASSUME NEW F, IsFiniteSet(F), NEW f, \A x, y \in F : f[x] = f[y] => x = y
  PROVE  IsFiniteSet({f[x] : x \in F}) /\ Cardinality({f[x] : x \in F}) = Cardinality(F)
<1> DEFINE T == {f[x] : x \in F}
           g == [x \in F |-> f[x]]
<1>1. g \in Bijection(F, T)
  BY DEF Bijection, Injection, IsInjective, Surjection
<1>2. ExistsBijection(F, T)
  BY <1>1 DEF ExistsBijection
<1> HIDE DEF T, g
<1>3. IsFiniteSet(T) /\ Cardinality(T) = Cardinality(F)
  BY <1>2, FS_Bijection
<1> QED
  BY <1>3 DEF T

\* The rows of one store, added to those of others.
LEMMA AddRows ==
  ASSUME NEW R, IsFiniteSet(R), NEW F, IsFiniteSet(F), NEW c, \A r \in R : r.conn # c
  PROVE  LET New == {Status!RowOf(c, s) : s \in F} IN
         IsFiniteSet(R \cup New) /\ Cardinality(R \cup New) = Cardinality(R) + Cardinality(F)
<1> DEFINE f == [s \in F |-> Status!RowOf(c, s)]
           New == {Status!RowOf(c, s) : s \in F}
<1>1. \A x, y \in F : f[x] = f[y] => x = y
  BY DEF Status!RowOf
<1>2. New = {f[x] : x \in F}
  OBVIOUS
<1>3. \A r \in New : r.conn = c
  BY DEF Status!RowOf
<1> HIDE DEF f, New
<1>4. IsFiniteSet(New) /\ Cardinality(New) = Cardinality(F)
  BY <1>1, <1>2, StatusImages
<1>5. R \cap New = {}
  BY <1>3
<1>6. /\ IsFiniteSet(R \cup New)
      /\ Cardinality(R \cup New) = Cardinality(R) + Cardinality(New) - Cardinality(R \cap New)
  BY <1>4, FS_Union
<1>7. Cardinality(R) \in Nat /\ Cardinality(F) \in Nat /\ Cardinality(R \cap New) = 0
  BY <1>5, FS_CardinalityType, FS_EmptySet
<1>8. IsFiniteSet(R \cup New) /\ Cardinality(R \cup New) = Cardinality(R) + Cardinality(F)
  BY <1>4, <1>6, <1>7
<1> QED
  BY <1>8 DEF New

LEMMA FlagRows ==
  ASSUME NEW F, IsFiniteSet(F)
  PROVE  LET New == {Status!Unresolved(s) : s \in F} IN IsFiniteSet(New) /\ Cardinality(New) = Cardinality(F)
<1> DEFINE f == [s \in F |-> Status!Unresolved(s)]
           New == {Status!Unresolved(s) : s \in F}
<1>1. \A x, y \in F : f[x] = f[y] => x = y
  BY DEF Status!Unresolved
<1>2. New = {f[x] : x \in F}
  OBVIOUS
<1> HIDE DEF f, New
<1>3. IsFiniteSet(New) /\ Cardinality(New) = Cardinality(F)
  BY <1>1, <1>2, StatusImages
<1> QED
  BY <1>3 DEF New

\* A stack resolves to a connection: with an answer of the parameter store, a
\* provisioned one to its own or to the one that is cached.
LEMMA ResolvedConn ==
  ASSUME StatusConstants, Status!TypeOK, NEW s \in Stacks, NEW ok \in BOOLEAN
  PROVE  /\ Status!Resolve(s, ok) \in Conns /\ Status!Opened(s, ok) \in Conns \cup {None}
         /\ s \in Status!Provisioned /\ open[s] \in {None, place[s]} =>
              Status!Resolve(s, TRUE) = place[s] /\ Status!Opened(s, TRUE) = place[s]
<1>1. open[s] \in Conns \cup {None} /\ place[s] \in Conns \cup {None}
  BY DEF Status!TypeOK
<1>2. Status!RedisUrl(s, ok) \in Conns \cup {None}
  <2>1. CASE Status!Provisioned = {}
    BY <2>1 DEF Status!RedisUrl
  <2>2. CASE Status!Provisioned # {}
    <3>1. (CHOOSE t \in Status!Provisioned : TRUE) \in Status!Provisioned
      BY <2>2
    <3>2. \A t \in Status!Provisioned : place[t] \in Conns
      BY DEF Status!Provisioned, Status!TypeOK
    <3> QED
      BY <1>1, <2>2, <3>1, <3>2 DEF Status!RedisUrl
  <2> QED
    BY <2>1, <2>2
<1>3. s \in Status!Provisioned => Status!RedisUrl(s, TRUE) = place[s] /\ place[s] # None
  BY DEF Status!RedisUrl, Status!Provisioned
<1> QED
  BY <1>1, <1>2, <1>3 DEF Status!Resolve, Status!Opened, StatusConstants

\* What a listing does, given the answers of the parameter store and the stacks
\* whose connection is lost.
Due(lists) == Status!Enumerated(lists).keys \cup {s \in Stacks : open[s] # None}
Listed(lists, ok, lost) == {<<s, Status!Resolve(s, ok)>> : s \in Due(lists) \ lost}

ListsAs(lists, ok, lost) ==
  LET known == Status!Enumerated(lists).keys \cup {s \in Stacks : open[s] # None}
      listed == {<<s, Status!Resolve(s, ok)>> : s \in known \ lost}
      cost == Status!Cardinality(lost) + (IF lists THEN 0 ELSE 1) + (IF ok THEN 0 ELSE 1)
  IN  /\ \A s \in lost : s \in known /\ open[s] = None
      /\ faults + cost <= MaxFaults /\ faults' = faults + cost
      /\ cache' = Status!Enumerated(lists)
      /\ open' = [s \in Stacks |-> IF s \in known \ lost THEN Status!Opened(s, ok) ELSE open[s]]
      /\ read' = [Status!Free EXCEPT !.step = "scan", !.listed = listed, !.left = Status!Targets(listed),
                              !.rows = {Status!Unresolved(s) : s \in lost}, !.count = Status!Cardinality(lost),
                              !.due = known, !.had = Status!Provisioned]

Listing(lists, ok, lost) ==
  /\ ~Blind => lists = TRUE /\ ok = TRUE
  /\ Due(lists) \subseteq Stacks /\ lost \subseteq Due(lists)
  /\ read' \in StatusReads /\ read'.step = "scan" /\ read'.listed = Listed(lists, ok, lost)
  /\ read'.left = Status!Targets(Listed(lists, ok, lost)) /\ read'.rows = {Status!Unresolved(s) : s \in lost}
  /\ read'.count = Cardinality(lost) /\ read'.due = Due(lists) /\ read'.had = Status!Provisioned
  /\ cache' = Status!Enumerated(lists)
  /\ open' = [s \in Stacks |-> IF s \in Due(lists) \ lost THEN Status!Opened(s, ok) ELSE open[s]]
  /\ reads' = reads + 1 /\ reads < MaxReads
  /\ faults' \in 0..MaxFaults /\ UNCHANGED <<place, held, reach, changes>>

\* What a read that lists starts from.
LEMMA ListEffect ==
  ASSUME StatusConstants, Status!TypeOK, Status!StatusList
  PROVE  \E lists, ok \in BOOLEAN, lost \in SUBSET Stacks : Listing(lists, ok, lost)
<1>1. PICK lists \in BOOLEAN, ok \in BOOLEAN, lost \in SUBSET Stacks :
        (~Blind => lists = TRUE /\ ok = TRUE) /\ ListsAs(lists, ok, lost)
  <2>1. \E lists \in IF Blind THEN BOOLEAN ELSE {TRUE}, ok \in IF Blind THEN BOOLEAN ELSE {TRUE},
           lost \in SUBSET Stacks : ListsAs(lists, ok, lost)
    BY DEF Status!StatusList, ListsAs
  <2>2. CASE Blind
    BY <2>1, <2>2
  <2>3. CASE ~Blind
    BY <2>1, <2>3
  <2> QED
    BY <2>2, <2>3
<1> DEFINE due == Due(lists)
           listed == Listed(lists, ok, lost)
           rows == {Status!Unresolved(s) : s \in lost}
<1>2. due \subseteq Stacks /\ lost \subseteq due
  <2>1. Status!Enumerated(lists).keys \subseteq Stacks
    BY DEF Status!Enumerated, Status!TypeOK, Status!Provisioned
  <2> QED
    BY <1>1, <2>1 DEF ListsAs, Due
<1>3. listed \subseteq Stacks \X Conns
  <2>1. \A s \in Stacks : Status!Resolve(s, ok) \in Conns
    BY <1>1, ResolvedConn
  <2> QED
    BY <1>2, <2>1 DEF Listed
<1>4. Status!Targets(listed) \subseteq Conns \X SUBSET Stacks
  <2> HIDE DEF listed
  <2>1. \A p \in listed : p[1] \in Stacks /\ p[2] \in Conns
    BY <1>3
  <2>2. ASSUME NEW c \in {Global} \cup {p[2] : p \in listed}
        PROVE  c \in Conns /\ {p[1] : p \in {q \in listed : q[2] = c}} \in SUBSET Stacks
    BY <2>1 DEF StatusConstants
  <2>3. ASSUME NEW t \in Status!Targets(listed) PROVE t \in Conns \X SUBSET Stacks
    <3>1. PICK c \in {Global} \cup {p[2] : p \in listed} :
            t = <<c, {p[1] : p \in {q \in listed : q[2] = c}}>>
      BY DEF Status!Targets
    <3> QED
      BY <2>2, <3>1
  <2> QED
    BY <2>3
<1>5. rows \subseteq Status!Row
  <2>1. ASSUME NEW s \in lost PROVE Status!Unresolved(s) \in Status!Row
    BY DEF Status!Unresolved, Status!Row
  <2> QED
    BY <2>1
<1>6. IsFiniteSet(lost) /\ Cardinality(lost) \in Nat
  BY FS_Subset, FS_CardinalityType DEF StatusConstants
<1>7. Status!Provisioned \subseteq Stacks
  BY DEF Status!Provisioned
<1>8. faults' \in 0..MaxFaults
  <2>1. faults \in Nat
    BY DEF Status!TypeOK
  <2> QED
    BY <1>1, <1>6, <2>1, SameCount DEF StatusConstants, ListsAs
<1>9. read' = [step |-> "scan", listed |-> listed, left |-> Status!Targets(listed), rows |-> rows,
              count |-> Cardinality(lost), due |-> due, had |-> Status!Provisioned]
  BY <1>1, SameCount DEF Status!Free, ListsAs, Listed, Due
<1>10. reads' = reads + 1 /\ reads < MaxReads /\ UNCHANGED <<place, held, reach, changes>>
  BY DEF Status!StatusList
<1>11. /\ cache' = Status!Enumerated(lists) /\ (~Blind => lists = TRUE /\ ok = TRUE)
       /\ open' = [s \in Stacks |-> IF s \in due \ lost THEN Status!Opened(s, ok) ELSE open[s]]
  BY <1>1 DEF ListsAs, Due
<1> HIDE DEF due, listed, rows
<1>12. read' \in StatusReads
  BY <1>2, <1>3, <1>4, <1>5, <1>6, <1>7, <1>9 DEF StatusReads
<1>13. /\ read'.step = "scan" /\ read'.listed = listed /\ read'.left = Status!Targets(listed)
       /\ read'.rows = rows /\ read'.count = Cardinality(lost) /\ read'.due = due
       /\ read'.had = Status!Provisioned
  BY <1>9
<1>14. Listing(lists, ok, lost)
  BY <1>2, <1>8, <1>10, <1>11, <1>12, <1>13 DEF due, listed, rows, Listing
<1> QED
  BY <1>14

\* What the scan of one store adds.
LEMMA ScanEffect ==
  ASSUME StatusConstants, Status!TypeOK, NEW t \in read.left, Status!StatusScan(t)
  PROVE  LET found == Status!Scanned(t[1]) \cup t[2] IN
         /\ t[1] \in Conns /\ found \subseteq Stacks /\ read.step = "scan"
         /\ read' \in StatusReads /\ read'.step = "scan" /\ read'.left = read.left \ {t}
         /\ read'.rows = read.rows \cup {Status!RowOf(t[1], s) : s \in found}
         /\ read'.count = read.count + Cardinality(found)
         /\ read'.due = read.due /\ read'.had = read.had
         /\ UNCHANGED <<place, held, reach, cache, open, changes, reads, faults>>
<1> DEFINE found == Status!Scanned(t[1]) \cup t[2]
           rows == {Status!RowOf(t[1], s) : s \in found}
<1>1. read \in StatusReads
  BY DEF Status!TypeOK, StatusReads
<1>2. t[1] \in Conns /\ t[2] \subseteq Stacks
  BY <1>1 DEF StatusReads
<1>3. found \subseteq Stacks
  BY <1>2 DEF Status!Scanned, Status!TypeOK
<1>4. rows \subseteq Status!Row
  <2>1. ASSUME NEW s \in found PROVE Status!RowOf(t[1], s) \in Status!Row
    BY <1>2, <1>3 DEF Status!RowOf, Status!Row
  <2> QED
    BY <2>1
<1>5. IsFiniteSet(found) /\ Cardinality(found) \in Nat
  BY <1>3, FS_Subset, FS_CardinalityType DEF StatusConstants
<1>6. /\ read.step = "scan" /\ UNCHANGED <<place, held, reach, cache, open, changes, reads, faults>>
      /\ read' = [read EXCEPT !.left = @ \ {t}, !.rows = @ \cup rows, !.count = @ + Cardinality(found)]
  BY SameCount DEF Status!StatusScan
<1> HIDE DEF found, rows
<1>7. read' \in StatusReads
  <2>1. read.left \ {t} \subseteq read.left /\ read.rows \cup rows \subseteq Status!Row
    BY <1>1, <1>4 DEF StatusReads
  <2>2. read.count + Cardinality(found) \in Nat
    BY <1>1, <1>5 DEF StatusReads
  <2> QED
    BY <1>1, <1>6, <2>1, <2>2 DEF StatusReads
<1>8. /\ read'.step = "scan" /\ read'.left = read.left \ {t} /\ read'.rows = read.rows \cup rows
      /\ read'.count = read.count + Cardinality(found)
      /\ read'.due = read.due /\ read'.had = read.had
  BY <1>1, <1>6 DEF StatusReads
<1> QED
  BY <1>2, <1>3, <1>6, <1>7, <1>8 DEF found, rows

\* Every step but those of the read leaves it alone.
LEMMA StatusCases ==
  ASSUME [Status!Next]_(Status!vars)
  PROVE  \/ Status!StatusList \/ \E t \in read.left : Status!StatusScan(t)
         \/ (Status!StatusDone \/ Status!StatusAgain)
         \/ /\ read' = read
            /\ \/ \E s \in Stacks : Status!Provision(s) \/ Status!Teardown(s) \/ Status!PoolWrites(s)
               \/ Status!LinkChanges \/ Status!CacheAges \/ UNCHANGED Status!vars
BY DEF Status!Next, Status!vars, Status!Provision, Status!Teardown, Status!PoolWrites, Status!LinkChanges, Status!CacheAges

LEMMA ReadMoves ==
  ASSUME Status!TypeOK, Status!StatusDone \/ Status!StatusAgain
  PROVE  /\ read' \in StatusReads /\ UNCHANGED <<place, held, reach, cache, open, changes, reads, faults>>
         /\ \/ /\ read.left = {} /\ read'.left = {} /\ read'.rows = read.rows
               /\ read'.count = read.count /\ read'.due = read.due /\ read'.had = read.had
            \/ read'.left = {} /\ read'.rows = {} /\ read'.count = 0 /\ read'.due = {}
<1>1. read \in StatusReads
  BY DEF Status!TypeOK, StatusReads
<1>2. CASE Status!StatusDone
  BY <1>1, <1>2 DEF Status!StatusDone, StatusReads
<1>3. CASE Status!StatusAgain
  BY <1>3 DEF Status!StatusAgain, Status!Free, StatusReads
<1> QED
  BY <1>2, <1>3

LEMMA TypeStep ==
  ASSUME StatusConstants, Status!TypeOK, [Status!Next]_(Status!vars)
  PROVE  Status!TypeOK'
<1>1. Status!TypeOK <=> /\ place \in [Stacks -> Conns \cup {None}] /\ held \in [Conns -> SUBSET Stacks]
                 /\ reach \subseteq Conns /\ cache \in [keys : SUBSET Stacks, recent : BOOLEAN]
                 /\ open \in [Stacks -> Conns \cup {None}] /\ read \in StatusReads
                 /\ changes \in 0..MaxChanges /\ reads \in 0..MaxReads /\ faults \in 0..MaxFaults
  BY DEF Status!TypeOK, StatusReads
<1>2. CASE Status!StatusList
  <2>1. PICK lists \in BOOLEAN, ok \in BOOLEAN, lost \in SUBSET Stacks : Listing(lists, ok, lost)
    BY <1>2, ListEffect
  <2>2. cache' \in [keys : SUBSET Stacks, recent : BOOLEAN]
    BY <2>1 DEF Status!Enumerated, Status!TypeOK, Status!Provisioned, Listing
  <2>3. open' \in [Stacks -> Conns \cup {None}]
    <3>1. \A s \in Stacks : Status!Opened(s, ok) \in Conns \cup {None} /\ open[s] \in Conns \cup {None}
      BY <2>1, ResolvedConn DEF Status!TypeOK
    <3> QED
      BY <2>1, <3>1 DEF Listing
  <2>4. reads' \in 0..MaxReads
    BY <2>1 DEF Status!TypeOK, StatusConstants, Listing
  <2>5. read' \in StatusReads /\ faults' \in 0..MaxFaults /\ UNCHANGED <<place, held, reach, changes>>
    BY <2>1 DEF Listing
  <2> QED
    BY <2>2, <2>3, <2>4, <2>5 DEF Status!TypeOK, StatusReads
<1>3. CASE \E t \in read.left : Status!StatusScan(t)
  <2>1. /\ read' \in StatusReads /\ UNCHANGED <<place, held, reach, cache, open, changes, reads, faults>>
    BY <1>3, ScanEffect
  <2> QED
    BY <2>1 DEF Status!TypeOK, StatusReads
<1>4. CASE Status!StatusDone \/ Status!StatusAgain
  <2>1. read' \in StatusReads /\ UNCHANGED <<place, held, reach, cache, open, changes, reads, faults>>
    BY <1>4, ReadMoves
  <2> QED
    BY <2>1 DEF Status!TypeOK, StatusReads
<1>5. ASSUME NEW s \in Stacks, Status!Provision(s) \/ Status!Teardown(s) PROVE Status!TypeOK'
  <2>1. place' \in [Stacks -> Conns \cup {None}]
    BY <1>5 DEF Status!Provision, Status!Teardown, Status!TypeOK
  <2>2. cache' \in [keys : SUBSET Stacks, recent : BOOLEAN]
    <3>1. cache' = Status!Refreshed(place')
      BY <1>5 DEF Status!Provision, Status!Teardown
    <3> QED
      BY <3>1 DEF Status!Refreshed
  <2>3. held' \in [Conns -> SUBSET Stacks] /\ open' \in [Stacks -> Conns \cup {None}]
    BY <1>5 DEF Status!Provision, Status!Teardown, Status!TypeOK
  <2>4. changes' \in 0..MaxChanges /\ UNCHANGED <<reach, read, reads, faults>>
    BY <1>5 DEF Status!Provision, Status!Teardown, Status!Change, Status!TypeOK, StatusConstants
  <2> QED
    BY <2>1, <2>2, <2>3, <2>4 DEF Status!TypeOK
<1>6. ASSUME NEW s \in Stacks, Status!PoolWrites(s) PROVE Status!TypeOK'
  BY <1>6 DEF Status!PoolWrites, Status!Change, Status!TypeOK, StatusConstants
<1>7. CASE Status!LinkChanges
  BY <1>7 DEF Status!LinkChanges, Status!Change, Status!TypeOK, StatusConstants
<1>8. CASE Status!CacheAges
  BY <1>8 DEF Status!CacheAges, Status!TypeOK
<1>9. CASE UNCHANGED Status!vars
  BY <1>9 DEF Status!vars, Status!TypeOK
<1> QED
  BY <1>2, <1>3, <1>4, <1>5, <1>6, <1>7, <1>8, <1>9, StatusCases

LEMMA ScanStep ==
  ASSUME StatusConstants, ScanInv, [Status!Next]_(Status!vars)
  PROVE  ScanInv'
<1>1. Status!TypeOK'
  BY TypeStep DEF ScanInv
<1>2. CASE Status!StatusList
  <2>1. PICK lists \in BOOLEAN, ok \in BOOLEAN, lost \in SUBSET Stacks : Listing(lists, ok, lost)
    BY <1>2, ListEffect DEF ScanInv
  <2> DEFINE due == Due(lists)
             listed == Listed(lists, ok, lost)
  <2>0. /\ due \subseteq Stacks /\ read'.step = "scan"
        /\ read'.left = Status!Targets(listed) /\ read'.rows = {Status!Unresolved(s) : s \in lost}
        /\ read'.count = Cardinality(lost) /\ read'.due = due
    BY <2>1 DEF Listing
  <2>2. DueCovered'
    <3>1. ASSUME NEW s \in due
          PROVE  (\E r \in read'.rows : r.ws = s) \/ (\E t \in read'.left : s \in t[2])
      <4>1. CASE s \in lost
        <5>1. Status!Unresolved(s) \in read'.rows /\ Status!Unresolved(s).ws = s
          BY <2>0, <4>1 DEF Status!Unresolved
        <5> QED
          BY <5>1
      <4>2. CASE s \notin lost
        <5> DEFINE c == Status!Resolve(s, ok)
                   t == <<c, {p[1] : p \in {q \in listed : q[2] = c}}>>
        <5>1. <<s, c>> \in listed
          BY <4>2 DEF Listed
        <5> HIDE DEF listed, c, due
        <5>2. t \in Status!Targets(listed) /\ s \in t[2]
          BY <5>1 DEF Status!Targets
        <5> QED
          BY <2>0, <5>2 DEF listed
      <4> QED
        BY <4>1, <4>2
    <3> QED
      BY <2>0, <3>1 DEF DueCovered
  <2>3. RowsCounted'
    <3>1. IsFiniteSet(lost)
      BY <2>1, FS_Subset DEF StatusConstants
    <3>2. IsFiniteSet(read'.rows) /\ read'.count = Cardinality(read'.rows)
      BY <2>0, <3>1, FlagRows
    <3>3. \A r \in read'.rows : r.conn = None
      BY <2>0 DEF Status!Unresolved
    <3>4. \A t \in read'.left : t[1] \in Conns
      BY <1>1 DEF Status!TypeOK
    <3>5. \A t, u \in read'.left : t[1] = u[1] => t = u
      <4> HIDE DEF listed
      <4>1. ASSUME NEW t \in Status!Targets(listed), NEW u \in Status!Targets(listed), t[1] = u[1]
            PROVE  t = u
        <5>1. PICK c : t = <<c, {p[1] : p \in {q \in listed : q[2] = c}}>>
          BY DEF Status!Targets
        <5>2. PICK d : u = <<d, {p[1] : p \in {q \in listed : q[2] = d}}>>
          BY DEF Status!Targets
        <5>3. c = d
          BY <4>1, <5>1, <5>2
        <5> QED
          BY <5>1, <5>2, <5>3
      <4> QED
        BY <2>0, <4>1 DEF listed
    <3> QED
      BY <3>2, <3>3, <3>4, <3>5 DEF RowsCounted, StatusConstants
  <2> HIDE DEF due, listed
  <2> QED
    BY <1>1, <2>0, <2>2, <2>3 DEF ScanInv
<1>3. ASSUME NEW t \in read.left, Status!StatusScan(t) PROVE ScanInv'
  <2> DEFINE found == Status!Scanned(t[1]) \cup t[2]
             rows == {Status!RowOf(t[1], s) : s \in found}
  <2>1. /\ t[1] \in Conns /\ found \subseteq Stacks
        /\ read'.step = "scan" /\ read'.left = read.left \ {t}
        /\ read'.rows = read.rows \cup rows
        /\ read'.count = read.count + Cardinality(found) /\ read'.due = read.due
    BY <1>3, ScanEffect DEF ScanInv
  <2>2. \A s \in found : Status!RowOf(t[1], s) \in rows /\ Status!RowOf(t[1], s).ws = s
    BY DEF Status!RowOf
  <2>3. \A r \in rows : r.conn = t[1]
    BY DEF Status!RowOf
  <2>4. t[2] \subseteq found
    OBVIOUS
  <2>5. IsFiniteSet(found)
    BY <2>1, FS_Subset DEF StatusConstants
  <2>6. /\ IsFiniteSet(read.rows \cup rows)
        /\ Cardinality(read.rows \cup rows) = Cardinality(read.rows) + Cardinality(found)
    <3> DEFINE R == read.rows
               c == t[1]
    <3>1. IsFiniteSet(R) /\ \A r \in R : r.conn # c
      BY DEF ScanInv, RowsCounted
    <3> HIDE DEF found, R, c
    <3>2. /\ IsFiniteSet(R \cup {Status!RowOf(c, s) : s \in found})
          /\ Cardinality(R \cup {Status!RowOf(c, s) : s \in found}) = Cardinality(R) + Cardinality(found)
      BY <2>5, <3>1, AddRows
    <3> QED
      BY <3>2 DEF R, c
  <2> HIDE DEF found, rows
  <2>7. DueCovered'
    BY <2>1, <2>2, <2>4 DEF ScanInv, DueCovered
  <2>8. RowsCounted'
    BY <2>1, <2>3, <2>6 DEF ScanInv, RowsCounted
  <2> QED
    BY <1>1, <2>1, <2>7, <2>8 DEF ScanInv
<1>4. CASE Status!StatusDone \/ Status!StatusAgain
  <2>1. \/ /\ read.left = {} /\ read'.left = {} /\ read'.rows = read.rows
           /\ read'.count = read.count /\ read'.due = read.due
        \/ read'.left = {} /\ read'.rows = {} /\ read'.count = 0 /\ read'.due = {}
    BY <1>4, ReadMoves DEF ScanInv
  <2>2. DueCovered'
    BY <2>1 DEF ScanInv, DueCovered
  <2>3. RowsCounted'
    BY <2>1, FS_EmptySet DEF ScanInv, RowsCounted
  <2> QED
    BY <1>1, <2>1, <2>2, <2>3 DEF ScanInv
<1>5. CASE read' = read
  BY <1>1, <1>5 DEF ScanInv, DueCovered, RowsCounted
<1> QED
  BY <1>2, <1>3, <1>4, <1>5, StatusCases

LEMMA ScanHolds ==
  ASSUME StatusConstants
  PROVE  Status!Spec => []ScanInv
<1>1. ASSUME Status!Init PROVE ScanInv
  <2>1. Status!TypeOK
    BY <1>1 DEF Status!Init, Status!TypeOK, Status!Free, StatusConstants
  <2>2. read.left = {} /\ read.rows = {} /\ read.due = {} /\ read.count = 0
    BY <1>1 DEF Status!Init, Status!Free
  <2> QED
    BY <2>1, <2>2, FS_EmptySet DEF ScanInv, DueCovered, RowsCounted
<1>2. ScanInv /\ [Status!Next]_(Status!vars) => ScanInv'
  BY ScanStep
<1> QED
  BY <1>1, <1>2, PTL DEF Status!Spec

\* Every stack the registry knows of has a row, and each pool one row of its store,
\* whatever comes, goes or becomes unreachable during the read.
THEOREM AllReported ==
  ASSUME StatusConstants
  PROVE  Status!Spec => [](Status!KnownReported /\ Status!OneRowEach)
<1>1. ScanInv => Status!KnownReported
  BY DEF ScanInv, DueCovered, Status!KnownReported
<1>2. ScanInv => Status!OneRowEach
  BY SameCount DEF ScanInv, RowsCounted, Status!OneRowEach
<1> QED
  BY <1>1, <1>2, ScanHolds, PTL

---------------------------------------------------------------------------

\* While stacks are only added and the parameter store answers: what the registry
\* has cached is true, a store is scanned for the stacks on it, and the rows are true.
EmptyInv ==
  /\ Status!TypeOK /\ cache.keys \subseteq Status!Provisioned
  /\ \A s \in Stacks : open[s] \in {None, place[s]}
  /\ read.had \subseteq Status!Provisioned
  /\ \A t \in read.left : \A s \in t[2] : t[1] = place[s]
  /\ \A r \in read.rows : r.observed /\ ~r.pool /\ r.ws \in read.had => r.conn = place[r.ws]

LEMMA EmptyStep ==
  ASSUME StatusConstants, ~Churn, ~Blind, EmptyInv, [Status!Next]_(Status!vars)
  PROVE  EmptyInv'
<1>1. Status!TypeOK'
  BY TypeStep DEF EmptyInv
<1>2. CASE Status!StatusList
  <2>1. PICK lists \in BOOLEAN, ok \in BOOLEAN, lost \in SUBSET Stacks : Listing(lists, ok, lost)
    BY <1>2, ListEffect DEF EmptyInv
  <2> DEFINE due == Due(lists)
             listed == Listed(lists, ok, lost)
  <2>0. /\ lists = TRUE /\ ok = TRUE /\ due \subseteq Stacks
        /\ read'.left = Status!Targets(listed) /\ read'.rows = {Status!Unresolved(s) : s \in lost}
        /\ read'.had = Status!Provisioned /\ cache' = Status!Enumerated(lists)
        /\ open' = [s \in Stacks |-> IF s \in due \ lost THEN Status!Opened(s, ok) ELSE open[s]]
        /\ UNCHANGED <<place, held, reach, changes>>
    BY <2>1 DEF Listing
  <2>2. Status!Provisioned' = Status!Provisioned
    BY <2>0 DEF Status!Provisioned
  <2>3. Status!Enumerated(lists).keys \subseteq Status!Provisioned
    BY DEF Status!Enumerated, EmptyInv
  <2>4. due \subseteq Status!Provisioned
    BY <2>3 DEF EmptyInv, Status!Provisioned, Due, Status!TypeOK
  <2>5. \A s \in due : Status!Resolve(s, ok) = place[s] /\ Status!Opened(s, ok) = place[s]
    BY <2>0, <2>4, ResolvedConn DEF EmptyInv
  <2>6. \A p \in listed : p[2] = place[p[1]]
    BY <2>5 DEF Listed
  <2>7. \A t \in read'.left : \A s \in t[2] : t[1] = place'[s]
    <3> HIDE DEF listed
    <3>1. \A t \in Status!Targets(listed) : \A s \in t[2] : t[1] = place[s]
      BY <2>6 DEF Status!Targets
    <3> QED
      BY <2>0, <3>1 DEF listed
  <2>8. \A s \in Stacks : open'[s] \in {None, place'[s]}
    BY <2>0, <2>5 DEF EmptyInv
  <2>9. \A r \in read'.rows : ~r.observed
    BY <2>0 DEF Status!Unresolved
  <2> QED
    BY <1>1, <2>0, <2>2, <2>3, <2>7, <2>8, <2>9 DEF EmptyInv
<1>3. ASSUME NEW t \in read.left, Status!StatusScan(t) PROVE EmptyInv'
  <2> DEFINE found == Status!Scanned(t[1]) \cup t[2]
             rows == {Status!RowOf(t[1], s) : s \in found}
  <2>1. /\ read'.left = read.left \ {t} /\ read'.rows = read.rows \cup rows /\ read'.had = read.had
        /\ UNCHANGED <<place, held, reach, cache, open, changes, reads, faults>>
    BY <1>3, ScanEffect DEF EmptyInv
  <2>2. ASSUME NEW r \in rows, r.observed, ~r.pool PROVE r.conn = place[r.ws]
    <3>1. PICK s \in found : r = Status!RowOf(t[1], s)
      OBVIOUS
    <3>2. s \in t[2]
      BY <2>2, <3>1 DEF Status!RowOf
    <3> QED
      BY <3>1, <3>2 DEF EmptyInv, Status!RowOf
  <2>3. Status!Provisioned' = Status!Provisioned
    BY <2>1 DEF Status!Provisioned
  <2> HIDE DEF rows
  <2> QED
    BY <1>1, <2>1, <2>2, <2>3 DEF EmptyInv
<1>4. CASE Status!StatusDone \/ Status!StatusAgain
  <2>1. /\ UNCHANGED <<place, cache, open>> /\ read'.left = {}
        /\ (read'.rows = read.rows /\ read'.had = read.had) \/ read'.rows = {}
    BY <1>4, ReadMoves DEF EmptyInv
  <2>2. read'.had \subseteq Status!Provisioned
    BY <1>4 DEF Status!StatusDone, Status!StatusAgain, Status!Free, EmptyInv, Status!TypeOK
  <2>3. Status!Provisioned' = Status!Provisioned
    BY <2>1 DEF Status!Provisioned
  <2> QED
    BY <1>1, <2>1, <2>2, <2>3 DEF EmptyInv
<1>5. ASSUME NEW s \in Stacks, Status!Provision(s) PROVE EmptyInv'
  <2>1. /\ place[s] = None /\ cache' = Status!Refreshed(place') /\ read' = read /\ open' = open
        /\ \E c \in Conns : place' = [place EXCEPT ![s] = c]
    BY <1>5 DEF Status!Provision
  <2>2. \A u \in Status!Provisioned : place'[u] = place[u] /\ u \in Status!Provisioned'
    BY <2>1 DEF Status!Provisioned, EmptyInv, Status!TypeOK
  <2>3. cache'.keys \subseteq Status!Provisioned'
    BY <2>1 DEF Status!Refreshed, Status!Provisioned
  <2>4. ASSUME NEW u \in Stacks PROVE open'[u] \in {None, place'[u]}
    <3>1. open[u] \in {None, place[u]} /\ open'[u] = open[u]
      BY <2>1 DEF EmptyInv
    <3> QED
      BY <2>2, <3>1 DEF Status!Provisioned
  <2>5. ASSUME NEW t \in read.left, NEW u \in t[2] PROVE t[1] = place'[u]
    <3>1. t[1] = place[u] /\ t[1] \in Conns /\ u \in Stacks
      BY DEF EmptyInv, Status!TypeOK
    <3> QED
      BY <2>2, <3>1 DEF Status!Provisioned, StatusConstants
  <2>6. \A r \in read.rows : r.observed /\ ~r.pool /\ r.ws \in read.had => r.conn = place'[r.ws]
    BY <2>2 DEF EmptyInv
  <2> QED
    BY <1>1, <2>1, <2>2, <2>3, <2>4, <2>5, <2>6 DEF EmptyInv
<1>6. CASE (\E s \in Stacks : Status!PoolWrites(s)) \/ Status!LinkChanges \/ Status!CacheAges \/ UNCHANGED Status!vars
  <2>1. /\ UNCHANGED <<place, open, read>> /\ cache'.keys = cache.keys
    BY <1>6 DEF Status!PoolWrites, Status!LinkChanges, Status!CacheAges, Status!vars, EmptyInv, Status!TypeOK
  <2>2. Status!Provisioned' = Status!Provisioned
    BY <2>1 DEF Status!Provisioned
  <2> QED
    BY <1>1, <2>1, <2>2 DEF EmptyInv
<1>7. ~(\E s \in Stacks : Status!Teardown(s))
  BY DEF Status!Teardown
<1> QED
  BY <1>2, <1>3, <1>4, <1>5, <1>6, <1>7, StatusCases

\* While stacks are only added and the parameter store answers, a row that says a
\* stack's pool was looked at and is empty was read from that stack's own store.
THEOREM EmptyIsEmpty ==
  ASSUME StatusConstants, ~Churn, ~Blind
  PROVE  Status!Spec => []Status!EmptyMeansEmpty
<1>1. ASSUME Status!Init PROVE EmptyInv
  <2>1. Status!TypeOK
    BY <1>1 DEF Status!Init, Status!TypeOK, Status!Free, StatusConstants
  <2> QED
    BY <1>1, <2>1 DEF Status!Init, EmptyInv, Status!Free
<1>2. EmptyInv /\ [Status!Next]_(Status!vars) => EmptyInv'
  BY EmptyStep
<1>3. EmptyInv => Status!EmptyMeansEmpty
  BY DEF EmptyInv, Status!EmptyMeansEmpty
<1> QED
  BY <1>1, <1>2, <1>3, PTL DEF Status!Spec

---------------------------------------------------------------------------
\* The webhooks: who is sent an event.

Registrations == [types : SUBSET Types, there : BOOLEAN]
Dispatched ==
  [type : Types, at : {"asked", "posting", "ended"}, fixed : SUBSET Ids, all : BOOLEAN,
   dead : SUBSET Ids]
Outcomes == {"open", "ok", "failed"}

\* What the proofs ask of the constants.
HookConstants ==
  None \notin Registrations /\ None \notin Dispatched /\ None \notin Outcomes

HookTypes ==
  /\ regs \in [Ids -> Registrations \cup {None}]
  /\ ev \in [Hooks!Events -> Dispatched \cup {None}]
  /\ post \in [Hooks!Events -> [Ids -> Outcomes \cup {None}]]
  /\ got \subseteq Hooks!Events \X Ids

\* A post is of an event whose registrations have been read, to one that wants it
\* and that was not deleted before; what was sent was posted.
PostOK(e, id) ==
  /\ post[e][id] # None =>
       ev[e] # None /\ ev[e].at # "asked" /\ Hooks!Wants(id, ev[e].type) /\ id \notin ev[e].dead
  /\ post[e][id] = "open" => ev[e].at = "posting"
  /\ <<e, id>> \in got => post[e][id] # None

\* Of those there at the event, the ones still there want what they wanted and, once
\* the registrations have been read, have a post; the deleted ones do not come back.
EventOK(e) ==
  ev[e] # None =>
    /\ ev[e].at = "asked" => ~ev[e].all
    /\ \A id \in ev[e].fixed :
         /\ Hooks!Registered(id)
         /\ ev[e].all /\ Hooks!Wants(id, ev[e].type) => post[e][id] # None
    /\ \A id \in ev[e].dead : regs[id] # None /\ ~regs[id].there

HookInv ==
  /\ HookTypes
  /\ \A e \in Hooks!Events : EventOK(e) /\ \A id \in Ids : PostOK(e, id)

\* What registrations do: one is made, or one goes; what was wanted stays wanted.
LEMMA CreateKeeps ==
  ASSUME HookConstants, HookInv, NEW id \in Ids, NEW types \in SUBSET Types, Hooks!Create(id, types)
  PROVE  HookInv'
<1> DEFINE g == [types |-> types, there |-> TRUE]
<1>1. /\ regs[id] = None /\ regs' = [regs EXCEPT ![id] = g]
      /\ ev' = ev /\ post' = post /\ got' = got
  BY DEF Hooks!Create
<1>2. g \in Registrations /\ g # None
  <2>1. g \in Registrations
    BY DEF Registrations
  <2> HIDE DEF g
  <2> QED
    BY <2>1 DEF HookConstants
<1> HIDE DEF g
<1>3. HookTypes'
  BY <1>1, <1>2 DEF HookInv, HookTypes
<1>4. \A i \in Ids : /\ regs[i] # None => regs'[i] = regs[i]
                     /\ Hooks!Registered(i) => Hooks!Registered(i)'
                     /\ \A t \in Types : Hooks!Wants(i, t) => Hooks!Wants(i, t)'
                     /\ \A t \in Types : Hooks!Wants(i, t)' /\ Hooks!Registered(i) => Hooks!Wants(i, t)
  BY <1>1, <1>2 DEF HookInv, HookTypes, Hooks!Registered, Hooks!Wants
<1>5. ASSUME NEW e \in Hooks!Events PROVE EventOK(e)' /\ \A i \in Ids : PostOK(e, i)'
  <2>1. ev[e] # None => ev[e] \in Dispatched
    BY DEF HookInv, HookTypes
  <2>2. EventOK(e)'
    BY <1>1, <1>4, <2>1 DEF HookInv, EventOK, Dispatched
  <2>3. ASSUME NEW i \in Ids PROVE PostOK(e, i)'
    BY <1>1, <1>4, <2>1 DEF HookInv, PostOK, Dispatched
  <2> QED
    BY <2>2, <2>3
<1> QED
  BY <1>3, <1>5 DEF HookInv

LEMMA DeleteKeeps ==
  ASSUME HookConstants, HookInv, NEW id \in Ids, Hooks!Delete(id)
  PROVE  HookInv'
<1>1. /\ Hooks!Registered(id) /\ regs' = [regs EXCEPT ![id].there = FALSE]
      /\ ev' = [e \in Hooks!Events |-> IF ev[e] = None THEN None ELSE [ev[e] EXCEPT !.fixed = @ \ {id}]]
      /\ post' = post /\ got' = got
  BY DEF Hooks!Delete
<1>2. regs[id] \in Registrations /\ regs[id] # None
  BY <1>1 DEF HookInv, HookTypes, Hooks!Registered
<1>3. /\ regs' \in [Ids -> Registrations \cup {None}]
      /\ regs'[id] # None /\ ~regs'[id].there /\ regs'[id].types = regs[id].types
      /\ \A i \in Ids : i # id => regs'[i] = regs[i]
  BY <1>1, <1>2 DEF HookInv, HookTypes, Registrations, HookConstants
<1>4. \A i \in Ids : /\ i # id => Hooks!Registered(i)' = Hooks!Registered(i)
                     /\ regs'[i] = None <=> regs[i] = None
                     /\ regs[i] # None => regs'[i].types = regs[i].types
  BY <1>2, <1>3 DEF Hooks!Registered
<1>5. ASSUME NEW e \in Hooks!Events
      PROVE  /\ ev'[e] \in Dispatched \cup {None} /\ (ev'[e] = None <=> ev[e] = None)
             /\ ev[e] # None =>
                  /\ ev[e] \in Dispatched /\ ev'[e] \in Dispatched
                  /\ ev'[e].type = ev[e].type /\ ev'[e].at = ev[e].at /\ ev'[e].all = ev[e].all
                  /\ ev'[e].dead = ev[e].dead /\ ev'[e].fixed = ev[e].fixed \ {id}
  <2>1. CASE ev[e] = None
    BY <1>1, <2>1
  <2>2. CASE ev[e] # None
    <3>1. ev[e] \in Dispatched
      BY <2>2 DEF HookInv, HookTypes
    <3>2. ev'[e] = [ev[e] EXCEPT !.fixed = @ \ {id}]
      BY <1>1, <2>2
    <3> QED
      BY <2>2, <3>1, <3>2 DEF Dispatched, HookConstants
  <2> QED
    BY <2>1, <2>2
<1>6. ev' \in [Hooks!Events -> Dispatched \cup {None}]
  BY <1>1, <1>5
<1>7. HookTypes'
  BY <1>1, <1>3, <1>6 DEF HookInv, HookTypes
<1>8. ASSUME NEW e \in Hooks!Events PROVE EventOK(e)' /\ \A i \in Ids : PostOK(e, i)'
  <2>1. CASE ev[e] = None
    <3>1. ev'[e] = None
      BY <1>5, <2>1
    <3> QED
      BY <1>1, <2>1, <3>1 DEF HookInv, EventOK, PostOK
  <2>2. CASE ev[e] # None
    <3>1. /\ ev[e] \in Dispatched /\ ev'[e] # None
          /\ ev'[e].type = ev[e].type /\ ev'[e].at = ev[e].at /\ ev'[e].all = ev[e].all
          /\ ev'[e].dead = ev[e].dead /\ ev'[e].fixed = ev[e].fixed \ {id}
      BY <1>5, <2>2
    <3>2. /\ ev[e].type \in Types /\ ev[e].fixed \subseteq Ids /\ ev[e].dead \subseteq Ids
      BY <3>1 DEF Dispatched
    <3>3. ASSUME NEW i \in Ids PROVE Hooks!Wants(i, ev[e].type)' <=> Hooks!Wants(i, ev[e].type)
      BY <1>4, <3>1 DEF Hooks!Wants
    <3>4. ASSUME NEW i \in ev'[e].fixed
          PROVE  /\ Hooks!Registered(i)'
                 /\ ev'[e].all /\ Hooks!Wants(i, ev[e].type)' => post'[e][i] # None
      <4>1. i \in Ids /\ i \in ev[e].fixed /\ i # id
        BY <3>1, <3>2, <3>4
      <4>2. Hooks!Registered(i) /\ (ev[e].all /\ Hooks!Wants(i, ev[e].type) => post[e][i] # None)
        BY <2>2, <4>1 DEF HookInv, EventOK
      <4> QED
        BY <1>1, <1>4, <3>1, <3>3, <4>1, <4>2
    <3>5. ASSUME NEW i \in ev'[e].dead PROVE regs'[i] # None /\ ~regs'[i].there
      <4>1. i \in Ids /\ i \in ev[e].dead
        BY <3>1, <3>2, <3>5
      <4>2. regs[i] # None /\ ~regs[i].there
        BY <2>2, <4>1 DEF HookInv, EventOK
      <4> QED
        BY <1>3, <4>1, <4>2
    <3>6. EventOK(e)'
      <4>1. ev[e].at = "asked" => ~ev[e].all
        BY <2>2 DEF HookInv, EventOK
      <4> QED
        BY <3>1, <3>4, <3>5, <4>1 DEF EventOK
    <3>7. ASSUME NEW i \in Ids PROVE PostOK(e, i)'
      <4>1. PostOK(e, i)
        BY DEF HookInv
      <4> QED
        BY <1>1, <2>2, <3>1, <3>3, <4>1 DEF PostOK
    <3> QED
      BY <3>6, <3>7
  <2> QED
    BY <2>1, <2>2
<1> QED
  BY <1>7, <1>8 DEF HookInv

\* A step of one event: nothing else changes.
BesideEvent(e) ==
  /\ regs' = regs
  /\ \A f \in Hooks!Events : f # e =>
       /\ ev'[f] = ev[f] /\ post'[f] = post[f]
       /\ \A id \in Ids : <<f, id>> \in got' <=> <<f, id>> \in got

LEMMA EventKeeps ==
  ASSUME HookInv, HookTypes', NEW e \in Hooks!Events, BesideEvent(e), EventOK(e)',
         \A id \in Ids : PostOK(e, id)'
  PROVE  HookInv'
<1>1. ASSUME NEW f \in Hooks!Events, f # e PROVE EventOK(f)' /\ \A id \in Ids : PostOK(f, id)'
  BY <1>1 DEF HookInv, BesideEvent, EventOK, PostOK, Hooks!Registered, Hooks!Wants
<1> QED
  BY <1>1 DEF HookInv

LEMMA DispatchKeeps ==
  ASSUME HookConstants, HookInv, NEW e \in Hooks!Events, NEW type \in Types, Hooks!Dispatch(e, type)
  PROVE  HookInv'
<1> DEFINE now == {id \in Ids : Hooks!Registered(id)}
           d == [type |-> type, at |-> "asked", fixed |-> now, all |-> FALSE,
                 dead |-> {id \in Ids : regs[id] # None} \ now]
<1>1. /\ ev[e] = None /\ ev' = [ev EXCEPT ![e] = d]
      /\ regs' = regs /\ post' = post /\ got' = got
  BY DEF Hooks!Dispatch
<1>2. d \in Dispatched /\ d # None
  <2>1. d \in Dispatched
    BY DEF Dispatched
  <2> HIDE DEF d
  <2> QED
    BY <2>1 DEF HookConstants
<1>3. /\ d.at = "asked" /\ ~d.all /\ \A id \in d.fixed : Hooks!Registered(id)
      /\ \A id \in d.dead : regs[id] # None /\ ~regs[id].there
  BY DEF Hooks!Registered, HookInv, HookTypes, Registrations
<1> HIDE DEF d
<1>4. HookTypes'
  BY <1>1, <1>2 DEF HookInv, HookTypes
<1>5. ev'[e] = d
  BY <1>1 DEF HookInv, HookTypes
<1>6. EventOK(e)'
  BY <1>1, <1>3, <1>5 DEF EventOK, Hooks!Registered
<1>7. ASSUME NEW id \in Ids PROVE PostOK(e, id)'
  BY <1>1 DEF HookInv, PostOK, HookConstants, Outcomes
<1>8. BesideEvent(e)
  BY <1>1 DEF BesideEvent, HookInv, HookTypes
<1> QED
  BY <1>4, <1>6, <1>7, <1>8, EventKeeps

LEMMA HookListKeeps ==
  ASSUME HookConstants, HookInv, NEW e \in Hooks!Events, Hooks!List(e)
  PROVE  HookInv'
<1> DEFINE posts == [id \in Ids |-> IF Hooks!Registered(id) /\ Hooks!Wants(id, ev[e].type) THEN "open" ELSE None]
<1>1. /\ ev[e] # None /\ ev[e].at = "asked"
      /\ ev' = [ev EXCEPT ![e].at = "posting", ![e].all = TRUE]
      /\ post' = [post EXCEPT ![e] = posts] /\ regs' = regs /\ got' = got
  BY DEF Hooks!List
<1>2. PICK d \in Dispatched : d = ev[e]
  BY <1>1 DEF HookInv, HookTypes
<1>3. PICK n : n = [d EXCEPT !.at = "posting", !.all = TRUE]
  OBVIOUS
<1>4. /\ n \in Dispatched /\ n.at = "posting" /\ n.all /\ n.type = d.type /\ n.fixed = d.fixed
      /\ n.dead = d.dead
  BY <1>2, <1>3 DEF Dispatched
<1>5. ev'[e] = n /\ ev' \in [Hooks!Events -> Dispatched \cup {None}]
      /\ \A f \in Hooks!Events : f # e => ev'[f] = ev[f]
  BY <1>1, <1>2, <1>3, <1>4 DEF HookInv, HookTypes
<1>6. posts \in [Ids -> Outcomes \cup {None}]
  BY DEF Outcomes
<1>7. HookTypes'
  BY <1>1, <1>5, <1>6 DEF HookInv, HookTypes
<1>8. post'[e] = posts
  BY <1>1 DEF HookInv, HookTypes
<1>9. EventOK(e)'
  <2>1. ASSUME NEW id \in d.fixed PROVE Hooks!Registered(id) /\ (Hooks!Wants(id, d.type) => posts[id] # None)
    BY <1>1, <1>2, <2>1 DEF HookInv, EventOK, Dispatched, HookConstants, Outcomes
  <2>2. \A id \in d.dead : regs[id] # None /\ ~regs[id].there
    BY <1>1, <1>2 DEF HookInv, EventOK
  <2>3. ev'[e].at = "posting" /\ ev'[e].fixed = d.fixed /\ ev'[e].dead = d.dead /\ ev'[e].type = d.type
    BY <1>4, <1>5
  <2> HIDE DEF posts
  <2> QED
    BY <1>1, <1>8, <2>1, <2>2, <2>3 DEF EventOK, Hooks!Registered, Hooks!Wants
<1>10. ASSUME NEW id \in Ids PROVE PostOK(e, id)'
  <2>1. <<e, id>> \notin got
    BY <1>1 DEF HookInv, PostOK
  <2>2. id \in d.dead => ~Hooks!Registered(id)
    BY <1>1, <1>2 DEF HookInv, EventOK, Hooks!Registered
  <2>3. posts[id] # None => Hooks!Registered(id) /\ Hooks!Wants(id, d.type) /\ id \notin d.dead
    BY <1>2, <2>2
  <2>4. ev'[e] # None
    BY <1>4, <1>5 DEF HookConstants
  <2> HIDE DEF posts
  <2> QED
    BY <1>1, <1>4, <1>5, <1>8, <2>1, <2>3, <2>4 DEF PostOK, Hooks!Wants
<1>11. BesideEvent(e)
  BY <1>1, <1>5 DEF BesideEvent, HookInv, HookTypes
<1> QED
  BY <1>7, <1>9, <1>10, <1>11, EventKeeps

\* An event that ends: the lookup failed, or every post is settled.
LEMMA EndsKeeps ==
  ASSUME HookConstants, HookInv, NEW e \in Hooks!Events, Hooks!LookupFails(e) \/ Hooks!End(e)
  PROVE  HookInv'
<1>1. /\ ev[e] # None /\ ev' = [ev EXCEPT ![e].at = "ended"]
      /\ regs' = regs /\ post' = post /\ got' = got
      /\ \A id \in Ids : post[e][id] # "open"
  BY DEF Hooks!LookupFails, Hooks!End, HookInv, PostOK
<1>2. PICK d \in Dispatched : d = ev[e]
  BY <1>1 DEF HookInv, HookTypes
<1>3. PICK n : n = [d EXCEPT !.at = "ended"]
  OBVIOUS
<1>4. /\ n \in Dispatched /\ n.at = "ended" /\ n.type = d.type /\ n.fixed = d.fixed
      /\ n.dead = d.dead /\ n.all = d.all
  BY <1>2, <1>3 DEF Dispatched
<1>5. ev'[e] = n /\ ev' \in [Hooks!Events -> Dispatched \cup {None}]
      /\ \A f \in Hooks!Events : f # e => ev'[f] = ev[f]
  BY <1>1, <1>2, <1>3, <1>4 DEF HookInv, HookTypes
<1>6. HookTypes'
  BY <1>1, <1>5 DEF HookInv, HookTypes
<1>7. EventOK(e)'
  BY <1>1, <1>2, <1>4, <1>5 DEF HookInv, EventOK, Hooks!Registered, Hooks!Wants
<1>8. ASSUME NEW id \in Ids PROVE PostOK(e, id)'
  <2>1. ev'[e] # None
    BY <1>4, <1>5 DEF HookConstants
  <2> QED
    BY <1>1, <1>2, <1>4, <1>5, <2>1 DEF HookInv, PostOK, Hooks!Wants
<1>9. BesideEvent(e)
  BY <1>1, <1>5 DEF BesideEvent
<1> QED
  BY <1>6, <1>7, <1>8, <1>9, EventKeeps

\* A post that is open: the receiver has the body, or the post is settled.
LEMMA PostKeeps ==
  ASSUME HookConstants, HookInv, NEW e \in Hooks!Events, NEW id \in Ids,
         Hooks!Arrive(e, id) \/ Hooks!GiveUp(e, id) \/ \E ok \in BOOLEAN : Hooks!Reply(e, id, ok)
  PROVE  HookInv'
<1>1. /\ post[e][id] = "open" /\ regs' = regs /\ ev' = ev
      /\ \/ post' = post /\ got' = got \cup {<<e, id>>}
         \/ got' = got /\ \E x \in {"ok", "failed"} : post' = [post EXCEPT ![e][id] = x]
  BY DEF Hooks!Arrive, Hooks!GiveUp, Hooks!Reply
<1>2. PICK p \in [Ids -> Outcomes \cup {None}] : p = post'[e] /\ post' = [post EXCEPT ![e] = p]
                       /\ \A i \in Ids : /\ p[i] = None <=> post[e][i] = None
                                         /\ p[i] = "open" => post[e][i] = "open"
  <2>1. CASE post' = post
    BY <2>1 DEF HookInv, HookTypes
  <2>2. CASE \E x \in {"ok", "failed"} : post' = [post EXCEPT ![e][id] = x]
    <3>1. PICK x \in {"ok", "failed"} : post' = [post EXCEPT ![e][id] = x]
      BY <2>2
    <3>2. PICK q \in [Ids -> Outcomes \cup {None}] : q = post[e]
      BY DEF HookInv, HookTypes
    <3>3. /\ [q EXCEPT ![id] = x] \in [Ids -> Outcomes \cup {None}]
          /\ post' = [post EXCEPT ![e] = [q EXCEPT ![id] = x]]
      BY <3>1, <3>2 DEF Outcomes
    <3>4. post'[e] = [q EXCEPT ![id] = x]
      BY <3>3 DEF HookInv, HookTypes
    <3>5. \A i \in Ids : /\ [q EXCEPT ![id] = x][i] = None <=> q[i] = None
                         /\ [q EXCEPT ![id] = x][i] = "open" => q[i] = "open"
      BY <1>1, <3>1, <3>2 DEF HookConstants, Outcomes
    <3> QED
      BY <3>2, <3>3, <3>4, <3>5
  <2> QED
    BY <1>1, <2>1, <2>2
<1>3. HookTypes'
  BY <1>1, <1>2 DEF HookInv, HookTypes
<1>4. EventOK(e)'
  BY <1>1, <1>2 DEF HookInv, HookTypes, EventOK, Hooks!Registered, Hooks!Wants, Dispatched
<1>5. ASSUME NEW i \in Ids PROVE PostOK(e, i)'
  <2>1. <<e, i>> \in got' => <<e, i>> \in got \/ i = id
    BY <1>1
  <2> QED
    BY <1>1, <1>2, <2>1 DEF HookInv, PostOK, Hooks!Wants, HookConstants, Outcomes
<1>6. BesideEvent(e)
  BY <1>1, <1>2 DEF BesideEvent, HookInv, HookTypes
<1> QED
  BY <1>3, <1>4, <1>5, <1>6, EventKeeps

LEMMA HookStep ==
  ASSUME HookConstants, HookInv, [Hooks!Next]_(Hooks!vars)
  PROVE  HookInv'
<1>1. ASSUME NEW id \in Ids, Hooks!Delete(id) \/ \E types \in (SUBSET Types) \ {{}} : Hooks!Create(id, types)
      PROVE  HookInv'
  BY <1>1, DeleteKeeps, CreateKeeps
<1>2. ASSUME NEW e \in Hooks!Events,
             \/ Hooks!List(e) \/ Hooks!LookupFails(e) \/ Hooks!End(e)
             \/ \E type \in Types : Hooks!Dispatch(e, type)
      PROVE  HookInv'
  BY <1>2, HookListKeeps, EndsKeeps, DispatchKeeps
<1>3. ASSUME NEW e \in Hooks!Events, NEW id \in Ids,
             Hooks!Arrive(e, id) \/ Hooks!GiveUp(e, id) \/ \E ok \in BOOLEAN : Hooks!Reply(e, id, ok)
      PROVE  HookInv'
  BY <1>3, PostKeeps
<1>4. CASE UNCHANGED Hooks!vars
  BY <1>4 DEF Hooks!vars, HookInv, HookTypes, EventOK, PostOK, Hooks!Registered, Hooks!Wants
<1> QED
  BY <1>1, <1>2, <1>3, <1>4 DEF Hooks!Next

LEMMA HookHolds ==
  ASSUME HookConstants
  PROVE  Hooks!Spec => []HookInv
<1>1. Hooks!Init => HookInv
  BY DEF Hooks!Init, HookInv, HookTypes, EventOK, PostOK, HookConstants, Outcomes
<1>2. HookInv /\ [Hooks!Next]_(Hooks!vars) => HookInv'
  BY HookStep
<1> QED
  BY <1>1, <1>2, PTL DEF Hooks!Spec

\* Whatever posts and lookups fail and however registrations come and go meanwhile,
\* nothing is sent for a type that was not asked for or to a registration deleted
\* before the event, and one that stays is attempted (deliver).
THEOREM RightlyDelivered ==
  ASSUME HookConstants
  PROVE  Hooks!Spec => [](Hooks!RightReceivers /\ Hooks!NotAfterDelete)
<1>1. ASSUME HookInv PROVE Hooks!RightReceivers
  <2>1. SUFFICES ASSUME NEW e \in Hooks!Events, ev[e] # None, ev[e].at = "ended", ev[e].all,
                        NEW id \in ev[e].fixed, Hooks!Wants(id, ev[e].type)
                 PROVE  post[e][id] \in {"ok", "failed"}
    BY DEF Hooks!RightReceivers
  <2>2. id \in Ids
    BY <1>1, <2>1 DEF HookInv, HookTypes, Dispatched
  <2>3. post[e][id] \in Outcomes \cup {None}
    BY <1>1, <2>2 DEF HookInv, HookTypes
  <2>4. post[e][id] # None /\ post[e][id] # "open"
    BY <1>1, <2>1, <2>2 DEF HookInv, EventOK, PostOK
  <2> QED
    BY <2>3, <2>4 DEF Outcomes
<1>2. HookInv => Hooks!NotAfterDelete
  BY DEF HookInv, PostOK, Hooks!NotAfterDelete
<1> QED
  BY <1>1, <1>2, HookHolds, PTL

---------------------------------------------------------------------------
\* Delete protection: the lock of an asset, its trail and what the consoles show.

LockDocs == [exists : BOOLEAN, lock : Lock!Reqs \cup {None}, rev : Nat, trail : Seq(Lock!Reqs)]
LockAnswers == {"200", "403", "404", "409", "lost"}
LockRequests ==
  [c : Consoles, op : {"lock", "unlock"}, mode : {"lock", "edit", "confirm"}, own : BOOLEAN,
   at : {"sent", "read", "done", "redraw", "ended"}, try : Nat, rev : Nat,
   ans : LockAnswers \cup {None}, wrote : BOOLEAN, over : BOOLEAN,
   since : SUBSET (Lock!Reqs \cup {None}), trail : Seq(Lock!Reqs), barred : BOOLEAN]
LockOutcomes == [kind : {"ok", "forbidden", "not-found", "network"}, req : Lock!Reqs]
LockDialogs ==
  [mode : {"lock", "edit"}, own : BOOLEAN, busy : Lock!Reqs \cup {None}, err : LockOutcomes \cup {None}]
LockPanels ==
  [up : BOOLEAN, view : Lock!Reqs \cup {None}, on : BOOLEAN, unl : BOOLEAN,
   dlg : LockDialogs \cup {None}, said : LockOutcomes \cup {None}, barred : BOOLEAN]

\* What the proofs ask of the constants: None is a value of its own.
LockConstants ==
  /\ None \notin LockRequests /\ None \notin LockDialogs /\ None \notin LockOutcomes
  /\ None \notin Nat /\ None \notin LockAnswers /\ MaxReqs \in Nat

\* The instance counts as this module does.
LEMMA LockSameCount ==
  \A S : Lock!Cardinality(S) = Cardinality(S)
BY Zenon DEF Lock!Cardinality, Cardinality

\* Before its write a request has written nothing; one that has read holds the
\* document's revision and trail or an older revision; one that wrote has seen every
\* lock since.
RequestFits(r) ==
  /\ r.at \in {"sent", "read"} => ~r.wrote
  /\ r.at = "read" => r.rev <= doc.rev /\ (r.rev = doc.rev => r.trail = doc.trail)
  /\ r.wrote => doc.lock \in r.since
  /\ r.ans = "200" => r.wrote

\* The trail names each request that wrote, once, and ends with the lock's.
TrailInv ==
  /\ \A n \in DOMAIN doc.trail : req[doc.trail[n]] # None /\ req[doc.trail[n]].wrote
  /\ \A m, n \in DOMAIN doc.trail : doc.trail[m] = doc.trail[n] => m = n
  /\ \A i \in Lock!Reqs : req[i] # None /\ req[i].wrote => \E n \in DOMAIN doc.trail : doc.trail[n] = i
  /\ doc.trail # <<>> =>
       doc.lock = IF req[doc.trail[Len(doc.trail)]].op = "lock" THEN doc.trail[Len(doc.trail)] ELSE None

LockInv ==
  /\ doc \in LockDocs /\ req \in [Lock!Reqs -> LockRequests \cup {None}]
  /\ \A i \in Lock!Reqs : req[i] # None => RequestFits(req[i])
  /\ TrailInv

\* A dialog that waits, waits for a request of its own; a success that is shown is of
\* a request that has seen the lock on the page.
LockWaits(c, p) ==
  p.dlg # None /\ p.dlg.busy # None =>
    /\ req[p.dlg.busy] # None /\ req[p.dlg.busy].c = c /\ req[p.dlg.busy].op = "lock"
    /\ req[p.dlg.busy].at \notin {"redraw", "ended"}
LockShown(p) ==
  p.said # None /\ p.said.kind = "ok" /\ p.up =>
    req[p.said.req] # None /\ req[p.said.req].wrote /\ p.view \in req[p.said.req].since
PanelInv ==
  /\ con \in [Consoles -> LockPanels]
  /\ \A c \in Consoles : LockWaits(c, con[c]) /\ LockShown(con[c])

---------------------------------------------------------------------------
(* What each step does to the document and the requests.                    *)

\* What becomes of a request by any step but a write: it is sent, or stays what it
\* is, but for what it has read and how far it is.
RequestMoves(i) ==
  \/ req'[i] = req[i]
  \/ /\ req[i] = None /\ req'[i] \in LockRequests
     /\ req'[i].at = "sent" /\ ~req'[i].wrote /\ req'[i].ans # "200"
  \/ /\ req[i] # None /\ req'[i] \in LockRequests
     /\ req'[i].c = req[i].c /\ req'[i].op = req[i].op
     /\ req'[i].wrote = req[i].wrote /\ req'[i].since = req[i].since
     /\ req'[i].ans = "200" => req[i].ans = "200"
     /\ req'[i].at \in {"sent", "read"} => req[i].at \in {"sent", "read"}
     /\ req'[i].at = "read" =>
          \/ req[i].at = "read" /\ req'[i].rev = req[i].rev /\ req'[i].trail = req[i].trail
          \/ req'[i].rev = doc.rev /\ req'[i].trail = doc.trail

\* The document but for its revision.
DocStays ==
  /\ doc' \in LockDocs /\ doc'.lock = doc.lock /\ doc'.trail = doc.trail /\ doc.rev <= doc'.rev

LockQuiet ==
  DocStays /\ req' \in [Lock!Reqs -> LockRequests \cup {None}] /\ \A i \in Lock!Reqs : RequestMoves(i)

\* One request changes.
LEMMA OneMoves ==
  ASSUME LockInv, DocStays, NEW i \in Lock!Reqs, NEW r \in LockRequests,
         req' = [req EXCEPT ![i] = r], RequestMoves(i)
  PROVE  LockQuiet
<1>1. req' \in [Lock!Reqs -> LockRequests \cup {None}]
  BY DEF LockInv
<1>2. ASSUME NEW k \in Lock!Reqs, k # i PROVE req'[k] = req[k]
  BY <1>2 DEF LockInv
<1>3. \A k \in Lock!Reqs : RequestMoves(k)
  BY <1>2 DEF RequestMoves
<1> QED
  BY <1>1, <1>3 DEF LockQuiet

LEMMA NoneMoves ==
  ASSUME LockInv, DocStays, req' = req
  PROVE  LockQuiet
BY DEF LockInv, LockQuiet, RequestMoves

LEMMA DocKept ==
  ASSUME LockInv, doc' = doc
  PROVE  DocStays
BY DEF LockInv, DocStays, LockDocs

LEMMA SendMoves ==
  ASSUME LockConstants, LockInv, PanelInv, doc' = doc, NEW c \in Consoles, NEW i \in Lock!Reqs,
         NEW op \in {"lock", "unlock"}, NEW mode \in {"lock", "edit", "confirm"},
         NEW own \in BOOLEAN, Lock!Send(i, c, op, mode, own)
  PROVE  /\ LockQuiet /\ req[i] = None /\ req'[i] # None /\ req'[i].c = c /\ req'[i].op = op
         /\ req'[i].at = "sent" /\ \A k \in Lock!Reqs : req[k] # None => req'[k] = req[k]
<1> DEFINE r == [c |-> c, op |-> op, mode |-> mode, own |-> own, at |-> "sent", try |-> 0,
                 rev |-> 0, ans |-> None, wrote |-> FALSE, over |-> FALSE, since |-> {},
                 trail |-> <<>>, barred |-> con[c].barred /\ own]
<1>1. req[i] = None /\ req' = [req EXCEPT ![i] = r]
  BY DEF Lock!Send
<1>2. (con[c].barred /\ own) \in BOOLEAN /\ <<>> \in Seq(Lock!Reqs)
  OBVIOUS
<1>3. r \in LockRequests
  BY <1>2 DEF LockRequests
<1>4. r.at = "sent" /\ ~r.wrote /\ r.ans # "200" /\ r.c = c /\ r.op = op
  BY DEF LockConstants, LockAnswers
<1> HIDE DEF r
<1>5. req'[i] = r
  BY <1>1 DEF LockInv
<1>6. RequestMoves(i)
  BY <1>1, <1>3, <1>4, <1>5 DEF RequestMoves
<1>7. LockQuiet
  BY <1>1, <1>3, <1>6, DocKept, OneMoves
<1> QED
  BY <1>1, <1>3, <1>4, <1>5, <1>7 DEF LockConstants, LockInv

LEMMA AnswerMoves ==
  ASSUME LockConstants, LockInv, doc' = doc, NEW i \in Lock!Reqs, req[i] # None,
         NEW a \in LockAnswers \ {"200"}, Lock!Answered(i, a)
  PROVE  LockQuiet /\ req'[i].at = "done" /\ \A k \in Lock!Reqs : k # i => req'[k] = req[k]
<1> DEFINE r == [req[i] EXCEPT !.at = "done", !.ans = a]
<1>1. req[i] \in LockRequests
  BY DEF LockInv
<1>2. req' = [req EXCEPT ![i] = r]
  BY DEF Lock!Answered, LockInv
<1>3. /\ r \in LockRequests /\ r.at = "done" /\ r.ans = a /\ r.c = req[i].c /\ r.op = req[i].op
      /\ r.wrote = req[i].wrote /\ r.since = req[i].since
  BY <1>1 DEF LockRequests
<1> HIDE DEF r
<1>4. req'[i] = r /\ \A k \in Lock!Reqs : k # i => req'[k] = req[k]
  BY <1>2 DEF LockInv
<1>5. RequestMoves(i)
  BY <1>3, <1>4 DEF RequestMoves
<1> QED
  BY <1>2, <1>3, <1>4, <1>5, DocKept, OneMoves

LEMMA LockReads ==
  ASSUME LockConstants, LockInv, NEW i \in Lock!Reqs, Lock!Read(i)
  PROVE  /\ LockQuiet /\ UNCHANGED <<doc, con>> /\ req'[i].at \in {"read", "done"}
         /\ \A k \in Lock!Reqs : k # i => req'[k] = req[k]
<1>1. req[i] # None /\ req[i].at = "sent" /\ UNCHANGED <<doc, con>> /\ req[i] \in LockRequests
  BY DEF Lock!Read, LockInv
<1>2. CASE Lock!Answered(i, "403") \/ Lock!Answered(i, "404")
  BY <1>1, <1>2, AnswerMoves DEF LockAnswers
<1>3. CASE ~(Lock!Answered(i, "403") \/ Lock!Answered(i, "404"))
  <2> DEFINE r == [req[i] EXCEPT !.at = "read", !.rev = doc.rev, !.try = @ + 1, !.trail = doc.trail]
  <2>1. req' = [req EXCEPT ![i] = r]
    BY <1>3 DEF Lock!Read, LockInv
  <2>2. doc.rev \in Nat /\ doc.trail \in Seq(Lock!Reqs) /\ req[i].try + 1 \in Nat
    BY <1>1 DEF LockInv, LockDocs, LockRequests
  <2>3. /\ r \in LockRequests /\ r.at = "read" /\ r.ans = req[i].ans /\ r.c = req[i].c
        /\ r.op = req[i].op /\ r.wrote = req[i].wrote /\ r.since = req[i].since
        /\ r.rev = doc.rev /\ r.trail = doc.trail
    BY <1>1, <2>2 DEF LockRequests
  <2> HIDE DEF r
  <2>4. req'[i] = r /\ \A k \in Lock!Reqs : k # i => req'[k] = req[k]
    BY <2>1 DEF LockInv
  <2>5. RequestMoves(i)
    BY <1>1, <2>3, <2>4 DEF RequestMoves
  <2> QED
    BY <1>1, <2>1, <2>3, <2>4, <2>5, DocKept, OneMoves
<1> QED
  BY <1>2, <1>3

\* A write that loses the race.
LEMMA ConflictMoves ==
  ASSUME LockConstants, LockInv, NEW i \in Lock!Reqs, Lock!Write(i), ~Lock!Stored(i)
  PROVE  /\ LockQuiet /\ UNCHANGED <<doc, con>> /\ req'[i].at \in {"sent", "done"}
         /\ \A k \in Lock!Reqs : k # i => req'[k] = req[k]
<1>1. req[i] # None /\ req[i].at = "read" /\ UNCHANGED <<doc, con>> /\ req[i] \in LockRequests
  BY DEF Lock!Write, LockInv
<1>2. CASE Lock!Answered(i, "409")
  BY <1>1, <1>2, AnswerMoves DEF LockAnswers
<1>3. CASE ~Lock!Answered(i, "409")
  <2> DEFINE r == [req[i] EXCEPT !.at = "sent"]
  <2>1. req' = [req EXCEPT ![i] = r]
    BY <1>3 DEF Lock!Write, LockInv
  <2>2. /\ r \in LockRequests /\ r.at = "sent" /\ r.ans = req[i].ans /\ r.c = req[i].c
        /\ r.op = req[i].op /\ r.wrote = req[i].wrote /\ r.since = req[i].since
    BY <1>1 DEF LockRequests
  <2> HIDE DEF r
  <2>3. req'[i] = r /\ \A k \in Lock!Reqs : k # i => req'[k] = req[k]
    BY <2>1 DEF LockInv
  <2>4. RequestMoves(i)
    BY <1>1, <2>2, <2>3 DEF RequestMoves
  <2> QED
    BY <1>1, <2>1, <2>2, <2>3, <2>4, DocKept, OneMoves
<1> QED
  BY <1>2, <1>3

\* What a request that is over, or whose page was built again, keeps.
LEMMA Leaving ==
  ASSUME LockConstants, NEW r \in LockRequests
  PROVE  LET o == Lock!Over(r)  d == [r EXCEPT !.own = FALSE]  e == [r EXCEPT !.at = "redraw"] IN
         /\ o \in LockRequests /\ o.at = "ended" /\ o.c = r.c /\ o.op = r.op /\ o.ans = r.ans
         /\ o.wrote = r.wrote /\ o.since = r.since
         /\ d \in LockRequests /\ d.at = r.at /\ d.c = r.c /\ d.op = r.op /\ d.ans = r.ans
         /\ d.wrote = r.wrote /\ d.since = r.since /\ d.rev = r.rev /\ d.trail = r.trail
         /\ e \in LockRequests /\ e.at = "redraw" /\ e.c = r.c /\ e.op = r.op /\ e.ans = r.ans
         /\ e.wrote = r.wrote /\ e.since = r.since
<1>1. <<>> \in Seq(Lock!Reqs)
  OBVIOUS
<1> QED
  BY <1>1 DEF LockRequests, Lock!Over

LEMMA DisownedMoves ==
  ASSUME LockConstants, LockInv, NEW c \in Consoles, NEW k \in Lock!Reqs
  PROVE  /\ req[k] = None => Lock!Disowned(c)[k] = None
         /\ req[k] # None =>
              /\ Lock!Disowned(c)[k] \in LockRequests /\ Lock!Disowned(c)[k].at = req[k].at
              /\ Lock!Disowned(c)[k].c = req[k].c /\ Lock!Disowned(c)[k].op = req[k].op
              /\ Lock!Disowned(c)[k].ans = req[k].ans /\ Lock!Disowned(c)[k].wrote = req[k].wrote
              /\ Lock!Disowned(c)[k].since = req[k].since /\ Lock!Disowned(c)[k].rev = req[k].rev
              /\ Lock!Disowned(c)[k].trail = req[k].trail
<1>1. Lock!Disowned(c)[k] = IF req[k] # None /\ req[k].c = c THEN [req[k] EXCEPT !.own = FALSE] ELSE req[k]
  BY DEF Lock!Disowned
<1>2. CASE req[k] # None /\ req[k].c = c
  <2> DEFINE d == [req[k] EXCEPT !.own = FALSE]
  <2>1. req[k] \in LockRequests
    BY <1>2 DEF LockInv
  <2>2. /\ d \in LockRequests /\ d.at = req[k].at /\ d.c = req[k].c /\ d.op = req[k].op
        /\ d.ans = req[k].ans /\ d.wrote = req[k].wrote /\ d.since = req[k].since
        /\ d.rev = req[k].rev /\ d.trail = req[k].trail
    BY <2>1, Leaving
  <2>3. Lock!Disowned(c)[k] = d
    BY <1>1, <1>2
  <2> HIDE DEF d
  <2> QED
    BY <1>2, <2>2, <2>3
<1>3. CASE ~(req[k] # None /\ req[k].c = c)
  <2>1. Lock!Disowned(c)[k] = req[k]
    BY <1>1, <1>3
  <2> QED
    BY <2>1 DEF LockInv
<1> QED
  BY <1>2, <1>3

LEMMA MountMoves ==
  ASSUME LockConstants, LockInv, NEW c \in Consoles, doc' = doc, req' = Lock!Disowned(c)
  PROVE  LockQuiet /\ \A k \in Lock!Reqs : req[k] # None => req'[k].at = req[k].at
<1>1. ASSUME NEW k \in Lock!Reqs
      PROVE  /\ RequestMoves(k) /\ req'[k] \in LockRequests \cup {None}
             /\ req[k] # None => req'[k].at = req[k].at
  BY DisownedMoves DEF RequestMoves
<1>2. req' \in [Lock!Reqs -> LockRequests \cup {None}]
  BY <1>1 DEF Lock!Disowned
<1> QED
  BY <1>1, <1>2, DocKept DEF LockQuiet

LEMMA DoneMoves ==
  ASSUME LockConstants, LockInv, NEW i \in Lock!Reqs, Lock!Done(i)
  PROVE  /\ LockQuiet /\ UNCHANGED doc /\ \A k \in Lock!Reqs : k # i => req'[k] = req[k]
<1>1. req[i] # None /\ req[i].at = "done" /\ UNCHANGED doc /\ req[i] \in LockRequests
  BY DEF Lock!Done, LockInv
<1>2. PICK r \in LockRequests :
        /\ req' = [req EXCEPT ![i] = r] /\ r.at \in {"redraw", "ended"} /\ r.c = req[i].c
        /\ r.op = req[i].op /\ r.ans = req[i].ans /\ r.wrote = req[i].wrote /\ r.since = req[i].since
  <2>1. CASE Lock!Kind(req[i].ans) \in {"ok", "not-found"}
    <3> DEFINE r == [req[i] EXCEPT !.at = "redraw"]
    <3>1. req' = [req EXCEPT ![i] = r]
      BY <2>1 DEF Lock!Done, LockInv
    <3>2. /\ r \in LockRequests /\ r.at = "redraw" /\ r.c = req[i].c /\ r.op = req[i].op
          /\ r.ans = req[i].ans /\ r.wrote = req[i].wrote /\ r.since = req[i].since
      BY <1>1, Leaving
    <3> HIDE DEF r
    <3> QED
      BY <3>1, <3>2
  <2>2. CASE Lock!Kind(req[i].ans) \notin {"ok", "not-found"}
    <3> DEFINE r == Lock!Over(req[i])
    <3>1. req' = [req EXCEPT ![i] = r]
      BY <2>2 DEF Lock!Done, LockInv
    <3>2. /\ r \in LockRequests /\ r.at = "ended" /\ r.c = req[i].c /\ r.op = req[i].op
          /\ r.ans = req[i].ans /\ r.wrote = req[i].wrote /\ r.since = req[i].since
      BY <1>1, Leaving
    <3> HIDE DEF r
    <3> QED
      BY <3>1, <3>2
  <2> QED
    BY <2>1, <2>2
<1>3. req'[i] = r /\ \A k \in Lock!Reqs : k # i => req'[k] = req[k]
  BY <1>2 DEF LockInv
<1>4. RequestMoves(i)
  BY <1>1, <1>2, <1>3 DEF RequestMoves
<1> QED
  BY <1>1, <1>2, <1>3, <1>4, DocKept, OneMoves

LEMMA RedrawMoves ==
  ASSUME LockConstants, LockInv, NEW i \in Lock!Reqs, Lock!Redraw(i)
  PROVE  /\ LockQuiet /\ UNCHANGED doc /\ req[i] \in LockRequests /\ req[i].at = "redraw"
         /\ req'[i] # None /\ req'[i].ans = req[i].ans /\ req'[i].since = req[i].since
         /\ req'[i].c = req[i].c
         /\ \A k \in Lock!Reqs : k # i /\ req[k] # None => req'[k].at = req[k].at
<1> DEFINE c == req[i].c
           o == Lock!Over(Lock!Disowned(c)[i])
<1>1. /\ req[i] # None /\ req[i].at = "redraw" /\ UNCHANGED doc
      /\ req' = [Lock!Disowned(c) EXCEPT ![i] = o]
  BY DEF Lock!Redraw
<1>2. req[i] \in LockRequests /\ c \in Consoles
  BY <1>1 DEF LockInv, LockRequests
<1>3. /\ o \in LockRequests /\ o.at = "ended" /\ o.c = c /\ o.op = req[i].op /\ o.ans = req[i].ans
      /\ o.wrote = req[i].wrote /\ o.since = req[i].since
  <2> DEFINE d == Lock!Disowned(c)[i]
  <2>1. /\ d \in LockRequests /\ d.c = c /\ d.op = req[i].op /\ d.ans = req[i].ans
        /\ d.wrote = req[i].wrote /\ d.since = req[i].since
    BY <1>1, <1>2, DisownedMoves
  <2> HIDE DEF d
  <2>2. /\ Lock!Over(d) \in LockRequests /\ Lock!Over(d).at = "ended" /\ Lock!Over(d).c = d.c /\ Lock!Over(d).op = d.op
        /\ Lock!Over(d).ans = d.ans /\ Lock!Over(d).wrote = d.wrote /\ Lock!Over(d).since = d.since
    BY <2>1, Leaving
  <2> QED
    BY <2>1, <2>2 DEF d
<1> HIDE DEF o
<1>4. /\ req'[i] = o /\ \A k \in Lock!Reqs : k # i => req'[k] = Lock!Disowned(c)[k]
      /\ DOMAIN req' = Lock!Reqs /\ req' = [k \in Lock!Reqs |-> req'[k]]
  BY <1>1 DEF Lock!Disowned
<1>5. ASSUME NEW k \in Lock!Reqs, k # i
      PROVE  /\ RequestMoves(k) /\ req'[k] \in LockRequests \cup {None}
             /\ req[k] # None => req'[k].at = req[k].at
  BY <1>2, <1>4, <1>5, DisownedMoves DEF RequestMoves
<1>6. RequestMoves(i)
  BY <1>1, <1>3, <1>4 DEF RequestMoves
<1>7. \A k \in Lock!Reqs : RequestMoves(k) /\ req'[k] \in LockRequests \cup {None}
  BY <1>3, <1>4, <1>5, <1>6
<1>8. req' \in [Lock!Reqs -> LockRequests \cup {None}]
  BY <1>4, <1>7
<1>9. LockQuiet
  BY <1>1, <1>7, <1>8, DocKept DEF LockQuiet
<1> QED
  BY <1>1, <1>2, <1>3, <1>4, <1>5, <1>9 DEF LockConstants

---------------------------------------------------------------------------
(* The document and its trail.                                              *)

LEMMA QuietKeeps ==
  ASSUME LockConstants, LockInv, LockQuiet
  PROVE  LockInv'
<1>1. ASSUME NEW i \in Lock!Reqs, req'[i] # None
      PROVE  /\ RequestFits(req[i])'
             /\ req[i] # None => req'[i].op = req[i].op
             /\ req'[i].wrote <=> (req[i] # None /\ req[i].wrote)
  <2>1. RequestMoves(i) /\ DocStays
    BY DEF LockQuiet
  <2>2. doc.rev \in Nat /\ doc'.rev \in Nat
    BY <2>1 DEF DocStays, LockDocs, LockInv
  <2>3. CASE req[i] = None
    <3>1. req'[i].at = "sent" /\ ~req'[i].wrote /\ req'[i].ans # "200"
      BY <1>1, <2>1, <2>3 DEF RequestMoves
    <3> QED
      BY <2>3, <3>1 DEF RequestFits
  <2>4. CASE req[i] # None
    <3>1. RequestFits(req[i]) /\ req[i] \in LockRequests /\ req[i].rev \in Nat
      BY <2>4 DEF LockInv, LockRequests
    <3>2. /\ req'[i].op = req[i].op /\ req'[i].wrote = req[i].wrote /\ req'[i].since = req[i].since
          /\ req'[i].ans = "200" => req[i].ans = "200"
          /\ req'[i].at \in {"sent", "read"} => req[i].at \in {"sent", "read"}
          /\ req'[i].at = "read" =>
               \/ req[i].at = "read" /\ req'[i].rev = req[i].rev /\ req'[i].trail = req[i].trail
               \/ req'[i].rev = doc.rev /\ req'[i].trail = doc.trail
      BY <2>1, <2>4 DEF RequestMoves
    <3>3. req'[i].at = "read" =>
            req'[i].rev <= doc'.rev /\ (req'[i].rev = doc'.rev => req'[i].trail = doc'.trail)
      BY <2>1, <2>2, <3>1, <3>2 DEF RequestFits, DocStays
    <3>4. req'[i].wrote \in BOOLEAN
      BY <3>1, <3>2 DEF LockRequests
    <3> QED
      BY <2>1, <2>4, <3>1, <3>2, <3>3, <3>4 DEF RequestFits, DocStays
  <2> QED
    BY <2>3, <2>4
<1>2. \A i \in Lock!Reqs : req[i] # None => req'[i] # None
  BY DEF LockQuiet, RequestMoves, LockConstants
<1>3. doc'.trail = doc.trail /\ doc'.lock = doc.lock /\ doc' \in LockDocs /\ doc.trail \in Seq(Lock!Reqs)
  BY DEF LockQuiet, DocStays, LockInv, LockDocs
<1>4. \A n \in DOMAIN doc.trail : doc.trail[n] \in Lock!Reqs
  BY <1>3
<1>5. doc.trail # <<>> => doc.trail[Len(doc.trail)] \in Lock!Reqs /\ Len(doc.trail) \in DOMAIN doc.trail
  BY <1>3
<1>6. TrailInv'
  <2>1. \A n \in DOMAIN doc.trail : req[doc.trail[n]] # None /\ req[doc.trail[n]].wrote
    BY DEF LockInv, TrailInv
  <2>2. \A n \in DOMAIN doc'.trail : req'[doc'.trail[n]] # None /\ req'[doc'.trail[n]].wrote
    BY <1>1, <1>2, <1>3, <1>4, <2>1
  <2>3. \A m, n \in DOMAIN doc'.trail : doc'.trail[m] = doc'.trail[n] => m = n
    BY <1>3 DEF LockInv, TrailInv
  <2>4. \A i \in Lock!Reqs : req'[i] # None /\ req'[i].wrote =>
                          \E n \in DOMAIN doc'.trail : doc'.trail[n] = i
    BY <1>1, <1>3 DEF LockInv, TrailInv
  <2>5. doc'.trail # <<>> =>
          doc'.lock = IF req'[doc'.trail[Len(doc'.trail)]].op = "lock"
                      THEN doc'.trail[Len(doc'.trail)] ELSE None
    <3> SUFFICES ASSUME doc.trail # <<>>
                 PROVE  doc'.lock = IF req'[doc.trail[Len(doc.trail)]].op = "lock"
                                    THEN doc.trail[Len(doc.trail)] ELSE None
      BY <1>3
    <3>1. PICK k \in Lock!Reqs : k = doc.trail[Len(doc.trail)]
      BY <1>5
    <3>2. req[k] # None
      BY <1>5, <2>1, <3>1
    <3>3. req'[k].op = req[k].op
      BY <1>1, <1>2, <3>2
    <3>4. doc.lock = IF req[k].op = "lock" THEN k ELSE None
      BY <3>1 DEF LockInv, TrailInv
    <3> QED
      BY <1>3, <3>1, <3>3, <3>4
  <2> QED
    BY <2>2, <2>3, <2>4, <2>5 DEF TrailInv
<1>7. req' \in [Lock!Reqs -> LockRequests \cup {None}]
  BY DEF LockQuiet
<1>8. (\A i \in Lock!Reqs : req[i] # None => RequestFits(req[i]))'
  BY <1>1
<1> QED
  BY <1>3, <1>6, <1>7, <1>8 DEF LockInv

\* A write that wins: it read this document, and its entry is the trail's last.
LEMMA StoredKeeps ==
  ASSUME LockConstants, LockInv, NEW i \in Lock!Reqs, Lock!Write(i), Lock!Stored(i)
  PROVE  /\ LockInv' /\ con' = con /\ req'[i].at = "done"
         /\ \A k \in Lock!Reqs : req[k] # None =>
              /\ req'[k] # None /\ req'[k].c = req[k].c /\ req'[k].op = req[k].op
              /\ k # i => req'[k].at = req[k].at /\ req'[k].ans = req[k].ans
              /\ req[k].wrote => req'[k].wrote /\ req[k].since \subseteq req'[k].since
<1> DEFINE lock == IF req[i].op = "lock" THEN i ELSE None
           r == [req[i] EXCEPT !.at = "done", !.ans = "200", !.wrote = TRUE,
                               !.over = doc.lock # None /\ req[i].mode = "lock", !.since = {lock}]
           s(k) == [req[k] EXCEPT !.since = IF req[k].wrote THEN req[k].since \cup {lock} ELSE req[k].since]
<1>1. doc \in LockDocs /\ req[i] \in LockRequests /\ req[i].at = "read"
  BY DEF Lock!Write, LockInv
<1>2. doc.trail \in Seq(Lock!Reqs) /\ doc.rev \in Nat /\ req[i].trail \in Seq(Lock!Reqs)
  BY <1>1 DEF LockDocs, LockRequests
<1>3. lock \in Lock!Reqs \cup {None}
  OBVIOUS
<1>4. doc.exists /\ doc.rev = req[i].rev /\ req[i] # None /\ con' = con
  <2>1. doc' # doc
    <3>1. doc'.rev = doc.rev + 1
      BY <1>1 DEF Lock!Stored, Lock!applyDeleteLock, LockDocs
    <3> QED
      BY <1>2, <3>1
  <2> QED
    BY <2>1 DEF Lock!Write
<1>5. req[i].trail = doc.trail /\ ~req[i].wrote
  BY <1>1, <1>4 DEF LockInv, RequestFits
<1>6. /\ doc' \in LockDocs /\ doc'.trail = Append(doc.trail, i) /\ doc'.lock = lock
      /\ doc'.rev = doc.rev + 1
  <2>1. doc' = [doc EXCEPT !.lock = lock, !.rev = @ + 1, !.trail = Append(doc.trail, i)]
    BY <1>5 DEF Lock!Stored, Lock!applyDeleteLock
  <2>2. Append(doc.trail, i) \in Seq(Lock!Reqs) /\ doc.rev + 1 \in Nat
    BY <1>2
  <2> HIDE DEF lock
  <2> QED
    BY <1>1, <1>3, <2>1, <2>2 DEF LockDocs
<1>7. /\ req'[i] = r /\ \A k \in Lock!Reqs : k # i => req'[k] = IF req[k] = None THEN None ELSE s(k)
      /\ req' = [k \in Lock!Reqs |-> req'[k]]
  <2>1. doc'.lock = lock
    BY <1>6
  <2>2. req' = [k \in Lock!Reqs |->
                  IF k = i
                  THEN [req[k] EXCEPT !.at = "done", !.ans = "200", !.wrote = TRUE,
                          !.over = doc.lock # None /\ req[i].mode = "lock", !.since = {lock}]
                  ELSE IF req[k] = None THEN None
                  ELSE [req[k] EXCEPT !.since = IF req[k].wrote THEN @ \cup {lock} ELSE @]]
    BY <2>1 DEF Lock!Stored
  <2> HIDE DEF lock
  <2> QED
    BY <2>2
<1>8. /\ r \in LockRequests /\ r.at = "done" /\ r.wrote /\ r.since = {lock} /\ r.c = req[i].c
      /\ r.op = req[i].op
  <2>1. (doc.lock # None /\ req[i].mode = "lock") \in BOOLEAN
    OBVIOUS
  <2> HIDE DEF lock
  <2> QED
    BY <1>1, <1>3, <2>1 DEF LockRequests, LockAnswers
<1>9. ASSUME NEW k \in Lock!Reqs, req[k] # None
      PROVE  /\ s(k) \in LockRequests /\ s(k).at = req[k].at /\ s(k).c = req[k].c /\ s(k).op = req[k].op
             /\ s(k).ans = req[k].ans /\ s(k).wrote = req[k].wrote /\ s(k).rev = req[k].rev
             /\ req[k].wrote => lock \in s(k).since /\ req[k].since \subseteq s(k).since
  <2>1. req[k] \in LockRequests
    BY <1>9 DEF LockInv
  <2> HIDE DEF lock
  <2>2. (IF req[k].wrote THEN req[k].since \cup {lock} ELSE req[k].since) \in SUBSET (Lock!Reqs \cup {None})
    BY <1>3, <2>1 DEF LockRequests
  <2> QED
    BY <2>1, <2>2 DEF LockRequests
<1> HIDE DEF r, s, lock
<1>10. req' \in [Lock!Reqs -> LockRequests \cup {None}]
  <2>1. \A k \in Lock!Reqs : req'[k] \in LockRequests \cup {None}
    BY <1>7, <1>8, <1>9
  <2> QED
    BY <1>7, <2>1
<1>11. ASSUME NEW k \in Lock!Reqs, req[k] # None
       PROVE  /\ req'[k] # None /\ req'[k].c = req[k].c /\ req'[k].op = req[k].op
              /\ k # i => /\ req'[k].at = req[k].at /\ req'[k].ans = req[k].ans
                          /\ req'[k].wrote = req[k].wrote /\ req'[k].rev = req[k].rev
              /\ req[k].wrote => /\ req'[k].wrote /\ req[k].since \subseteq req'[k].since
                                 /\ lock \in req'[k].since
  <2>1. CASE k = i
    BY <1>5, <1>7, <1>8, <2>1 DEF LockConstants
  <2>2. CASE k # i
    BY <1>7, <1>9, <1>11, <2>2 DEF LockConstants
  <2> QED
    BY <2>1, <2>2
<1>12. ASSUME NEW k \in Lock!Reqs, req'[k] # None
       PROVE  RequestFits(req[k])'
  <2>1. CASE k = i
    BY <1>6, <1>7, <1>8, <2>1 DEF RequestFits
  <2>2. CASE k # i
    <3>1. req[k] # None
      BY <1>7, <1>12, <2>2
    <3>2. RequestFits(req[k]) /\ req[k].rev \in Nat
      BY <3>1 DEF LockInv, LockRequests
    <3>3. req'[k].at = "read" => req'[k].rev < doc'.rev
      BY <1>2, <1>6, <1>11, <2>2, <3>1, <3>2 DEF RequestFits
    <3>4. req'[k].rev \in Nat /\ doc'.rev \in Nat
      BY <1>2, <1>6, <1>11, <2>2, <3>1, <3>2
    <3> QED
      BY <1>6, <1>11, <2>2, <3>1, <3>2, <3>3, <3>4 DEF RequestFits
  <2> QED
    BY <2>1, <2>2
<1>13. TrailInv'
  <2> DEFINE L == Len(doc.trail)
             T == Append(doc.trail, i)
  <2>1. /\ DOMAIN doc.trail = 1..L /\ L \in Nat /\ DOMAIN T = 1..(L + 1) /\ T[L + 1] = i
        /\ \A n \in 1..L : T[n] = doc.trail[n] /\ doc.trail[n] \in Lock!Reqs
        /\ T # <<>> /\ Len(T) = L + 1
    BY <1>2
  <2> HIDE DEF L, T
  <2>2. doc'.trail = T /\ doc'.lock = lock
    BY <1>6 DEF T
  <2>3. \A n \in 1..L : req[doc.trail[n]] # None /\ req[doc.trail[n]].wrote /\ doc.trail[n] # i
    BY <1>5, <2>1 DEF LockInv, TrailInv
  <2>4. req'[i] # None /\ req'[i].wrote /\ req'[i].op = req[i].op
    BY <1>7, <1>8 DEF LockConstants
  <2>5. \A n \in DOMAIN T : req'[T[n]] # None /\ req'[T[n]].wrote
    <3>1. ASSUME NEW n \in 1..L PROVE req'[T[n]] # None /\ req'[T[n]].wrote
      BY <1>11, <2>1, <2>3
    <3> QED
      BY <2>1, <2>4, <3>1
  <2>6. \A m, n \in DOMAIN T : T[m] = T[n] => m = n
    <3>1. \A m, n \in 1..L : T[m] = T[n] => m = n
      BY <2>1 DEF LockInv, TrailInv
    <3> QED
      BY <2>1, <2>3, <3>1
  <2>7. ASSUME NEW k \in Lock!Reqs, req'[k] # None, req'[k].wrote
        PROVE  \E n \in DOMAIN T : T[n] = k
    <3>1. CASE k = i
      BY <2>1, <3>1
    <3>2. CASE k # i
      <4>1. req[k] # None /\ req[k].wrote
        <5>1. req[k] # None
          BY <1>7, <2>7, <3>2
        <5> QED
          BY <1>11, <2>7, <3>2, <5>1
      <4>2. PICK n \in 1..L : doc.trail[n] = k
        BY <2>1, <4>1 DEF LockInv, TrailInv
      <4> QED
        BY <2>1, <4>2
    <3> QED
      BY <3>1, <3>2
  <2>8. lock = IF req'[T[Len(T)]].op = "lock" THEN T[Len(T)] ELSE None
    BY <2>1, <2>4 DEF lock
  <2> QED
    BY <2>2, <2>5, <2>6, <2>7, <2>8 DEF TrailInv
<1> QED
  BY <1>4, <1>6, <1>7, <1>8, <1>10, <1>11, <1>12, <1>13 DEF LockInv

---------------------------------------------------------------------------
(* The panels.                                                              *)

\* What the requests of before still are.
ReqsStay ==
  \A k \in Lock!Reqs : req[k] # None =>
    /\ req'[k] # None /\ req'[k].c = req[k].c /\ req'[k].op = req[k].op
    /\ req[k].wrote => req'[k].wrote /\ req[k].since \subseteq req'[k].since

LEMMA QuietStays ==
  ASSUME LockConstants, LockQuiet
  PROVE  ReqsStay
BY DEF LockQuiet, RequestMoves, ReqsStay, LockConstants

NextWaits(c, p) ==
  p.dlg # None /\ p.dlg.busy # None =>
    /\ req'[p.dlg.busy] # None /\ req'[p.dlg.busy].c = c /\ req'[p.dlg.busy].op = "lock"
    /\ req'[p.dlg.busy].at \notin {"redraw", "ended"}
NextShown(p) ==
  p.said # None /\ p.said.kind = "ok" /\ p.up =>
    req'[p.said.req] # None /\ req'[p.said.req].wrote /\ p.view \in req'[p.said.req].since

\* The panel of one console, or of none, is another; the requests of the other
\* consoles are as far as they were, or not over.
LEMMA PanelsStay ==
  ASSUME LockConstants, PanelInv, ReqsStay, NEW c \in Consoles, NEW p \in LockPanels,
         con' = [con EXCEPT ![c] = p], NextWaits(c, p), NextShown(p),
         \A k \in Lock!Reqs : req[k] # None /\ req[k].c # c =>
           req'[k].at = req[k].at \/ req'[k].at \notin {"redraw", "ended"}
  PROVE  PanelInv'
<1>1. con' \in [Consoles -> LockPanels] /\ con'[c] = p /\ \A d \in Consoles : d # c => con'[d] = con[d]
  BY DEF PanelInv
<1>2. ASSUME NEW d \in Consoles PROVE NextWaits(d, con'[d]) /\ NextShown(con'[d])
  <2>1. CASE d = c
    BY <1>1, <2>1
  <2>2. CASE d # c
    <3>1. con'[d] = con[d] /\ con[d] \in LockPanels /\ LockWaits(d, con[d]) /\ LockShown(con[d])
      BY <1>1, <2>2 DEF PanelInv
    <3>2. NextShown(con[d])
      <4>1. con[d].said # None => con[d].said.req \in Lock!Reqs
        BY <3>1 DEF LockPanels, LockOutcomes
      <4> QED
        BY <3>1, <4>1 DEF LockShown, NextShown, ReqsStay
    <3>3. NextWaits(d, con[d])
      <4>1. con[d].dlg # None /\ con[d].dlg.busy # None => con[d].dlg.busy \in Lock!Reqs
        BY <3>1 DEF LockPanels, LockDialogs
      <4> QED
        BY <2>2, <3>1, <4>1 DEF LockWaits, NextWaits, ReqsStay
    <3> QED
      BY <3>1, <3>2, <3>3
  <2> QED
    BY <2>1, <2>2
<1>3. ASSUME NEW d \in Consoles PROVE LockWaits(d, con[d])' /\ LockShown(con[d])'
  BY <1>2 DEF NextWaits, NextShown, LockWaits, LockShown
<1> QED
  BY <1>1, <1>3 DEF PanelInv

LEMMA NoPanelMoves ==
  ASSUME LockConstants, PanelInv, ReqsStay, con' = con,
         \A k \in Lock!Reqs : req[k] # None => req'[k].at = req[k].at \/ req'[k].at \notin {"redraw", "ended"}
  PROVE  PanelInv'
<1>1. ASSUME NEW d \in Consoles PROVE NextWaits(d, con'[d]) /\ NextShown(con'[d])
  <2>1. con'[d] = con[d] /\ con[d] \in LockPanels /\ LockWaits(d, con[d]) /\ LockShown(con[d])
    BY DEF PanelInv
  <2>2. NextShown(con[d])
    <3>1. con[d].said # None => con[d].said.req \in Lock!Reqs
      BY <2>1 DEF LockPanels, LockOutcomes
    <3> QED
      BY <2>1, <3>1 DEF LockShown, NextShown, ReqsStay
  <2>3. NextWaits(d, con[d])
    <3>1. con[d].dlg # None /\ con[d].dlg.busy # None => con[d].dlg.busy \in Lock!Reqs
      BY <2>1 DEF LockPanels, LockDialogs
    <3> QED
      BY <2>1, <3>1 DEF LockWaits, NextWaits, ReqsStay
  <2> QED
    BY <2>1, <2>2, <2>3
<1>2. ASSUME NEW d \in Consoles PROVE LockWaits(d, con[d])' /\ LockShown(con[d])'
  BY <1>1 DEF NextWaits, NextShown, LockWaits, LockShown
<1> QED
  BY <1>2 DEF PanelInv

\* A page built from the document that is there.
LEMMA BuiltPanel ==
  ASSUME LockConstants, LockInv, PanelInv, NEW c \in Consoles, NEW told \in LockOutcomes \cup {None}
  PROVE  LET p == Lock!Built(c, told)  q == con[c] IN
         /\ p \in LockPanels /\ p.said = told /\ p.view = doc.lock
         /\ q.dlg = None => p.dlg = None
         /\ q.dlg # None => p.dlg # None /\ p.dlg.busy = q.dlg.busy
<1> DEFINE x == [con[c].dlg EXCEPT !.own = FALSE]
           y == IF con[c].dlg = None THEN None ELSE x
           on == doc.exists /\ c \in may
<1>1. con[c] \in LockPanels /\ doc.exists \in BOOLEAN /\ doc.lock \in Lock!Reqs \cup {None}
  BY DEF PanelInv, LockInv, LockDocs
<1>2. con[c].dlg # None => x \in LockDialogs /\ x.busy = con[c].dlg.busy
  BY <1>1 DEF LockPanels, LockDialogs
<1>3. Lock!Built(c, told) = [con[c] EXCEPT !.up = doc.exists, !.view = doc.lock, !.unl = FALSE,
                                      !.on = on, !.said = told, !.barred = FALSE, !.dlg = y]
  BY <1>1 DEF Lock!Built, LockPanels
<1> HIDE DEF x
<1>4. y \in LockDialogs \cup {None} /\ (con[c].dlg = None => y = None)
      /\ (con[c].dlg # None => y # None /\ y.busy = con[c].dlg.busy)
  BY <1>2 DEF LockConstants
<1>5. on \in BOOLEAN
  BY <1>1
<1> HIDE DEF y, on
<1>6. /\ Lock!Built(c, told) \in LockPanels /\ Lock!Built(c, told).said = told /\ Lock!Built(c, told).view = doc.lock
      /\ Lock!Built(c, told).dlg = y
  BY <1>1, <1>3, <1>4, <1>5 DEF LockPanels
<1> QED
  BY <1>4, <1>6

\* A panel after a refusal.
LockButtons == [on : BOOLEAN, barred : BOOLEAN, unl : BOOLEAN]
PanelAfter(q, y, b, told) ==
  [q EXCEPT !.dlg = y, !.on = b.on, !.barred = b.barred, !.unl = b.unl, !.said = told]

LEMMA PanelWith ==
  ASSUME NEW q \in LockPanels, NEW y \in LockDialogs \cup {None}, NEW b \in LockButtons,
         NEW told \in LockOutcomes \cup {None}
  PROVE  LET p == PanelAfter(q, y, b, told) IN
         p \in LockPanels /\ p.dlg = y /\ p.said = told /\ p.up = q.up /\ p.view = q.view
<1> DEFINE d == [q EXCEPT !.dlg = y, !.on = b.on]
           e == [d EXCEPT !.barred = b.barred, !.unl = b.unl]
           p == [e EXCEPT !.said = told]
<1>1. b.on \in BOOLEAN /\ b.barred \in BOOLEAN /\ b.unl \in BOOLEAN
  BY DEF LockButtons
<1>2. d \in LockPanels /\ d.dlg = y /\ d.up = q.up /\ d.view = q.view
  BY <1>1 DEF LockPanels
<1>3. p = PanelAfter(q, y, b, told)
  BY DEF PanelAfter
<1> HIDE DEF d
<1>4. e \in LockPanels /\ e.dlg = y /\ e.up = q.up /\ e.view = q.view
  BY <1>1, <1>2 DEF LockPanels
<1> HIDE DEF e
<1>5. p \in LockPanels /\ p.dlg = y /\ p.said = told /\ p.up = q.up /\ p.view = q.view
  BY <1>4 DEF LockPanels
<1> HIDE DEF p
<1> QED
  BY <1>3, <1>5

\* The answers of classifyLockError.
LEMMA LockKinds ==
  ASSUME NEW i \in Lock!Reqs
  PROVE  /\ [kind |-> Lock!Kind(req[i].ans), req |-> i] \in LockOutcomes
         /\ Lock!Kind(req[i].ans) = "ok" => req[i].ans = "200"
BY DEF Lock!Kind, LockOutcomes

LEMMA LockStep ==
  ASSUME LockConstants, LockInv, PanelInv, [Lock!Next]_(Lock!vars)
  PROVE  LockInv' /\ PanelInv'
<1>1. \A c \in Consoles : con[c] \in LockPanels /\ LockWaits(c, con[c]) /\ LockShown(con[c])
  BY DEF PanelInv
<1>2. ASSUME NEW c \in Consoles, Lock!Mount(c) PROVE LockInv' /\ PanelInv'
  <2> DEFINE p == Lock!Built(c, None)
  <2>1. doc' = doc /\ req' = Lock!Disowned(c) /\ con' = [con EXCEPT ![c] = p] /\ con[c].dlg = None
    BY <1>2 DEF Lock!Mount
  <2>2. p \in LockPanels /\ p.dlg = None /\ p.said = None
    BY <2>1, BuiltPanel
  <2> HIDE DEF p
  <2>3. LockQuiet /\ \A k \in Lock!Reqs : req[k] # None => req'[k].at = req[k].at
    BY <2>1, MountMoves
  <2>4. NextWaits(c, p) /\ NextShown(p)
    BY <2>2 DEF NextWaits, NextShown
  <2> QED
    BY <2>1, <2>2, <2>3, <2>4, QuietKeeps, QuietStays, PanelsStay
<1>3. ASSUME NEW c \in Consoles, Lock!openLockForm(c) \/ Lock!Close(c) PROVE LockInv' /\ PanelInv'
  <2>1. doc' = doc /\ req' = req
    BY <1>3 DEF Lock!openLockForm, Lock!Close
  <2>2. PICK y \in LockDialogs \cup {None} :
          con' = [con EXCEPT ![c].dlg = y] /\ (y # None => y.busy = None)
    <3>1. CASE Lock!Close(c)
      BY <3>1 DEF Lock!Close
    <3>2. CASE Lock!openLockForm(c)
      <4> DEFINE x == [mode |-> IF con[c].view = None THEN "lock" ELSE "edit", own |-> TRUE,
                       busy |-> None, err |-> None]
      <4>1. con' = [con EXCEPT ![c].dlg = x]
        BY <3>2 DEF Lock!openLockForm
      <4>2. x \in LockDialogs /\ x.busy = None
        BY DEF LockDialogs
      <4> HIDE DEF x
      <4> QED
        BY <4>1, <4>2
    <3> QED
      BY <1>3, <3>1, <3>2
  <2> DEFINE p == [con[c] EXCEPT !.dlg = y]
  <2>3. con' = [con EXCEPT ![c] = p]
    BY <2>2
  <2>4. /\ p \in LockPanels /\ p.dlg = y /\ p.said = con[c].said /\ p.up = con[c].up
        /\ p.view = con[c].view
    BY <1>1 DEF LockPanels
  <2> HIDE DEF p
  <2>5. LockQuiet
    BY <2>1, NoneMoves, DocKept
  <2>6. NextWaits(c, p) /\ NextShown(p)
    BY <1>1, <2>1, <2>2, <2>4 DEF NextWaits, NextShown, LockShown
  <2> QED
    BY <2>1, <2>3, <2>4, <2>5, <2>6, QuietKeeps, QuietStays, PanelsStay
<1>4. ASSUME NEW c \in Consoles, Lock!Demote(c) PROVE LockInv' /\ PanelInv'
  <2>1. UNCHANGED <<doc, req, con>>
    BY <1>4 DEF Lock!Demote
  <2>2. LockQuiet
    BY <2>1, NoneMoves, DocKept
  <2> QED
    BY <2>1, <2>2, QuietKeeps, QuietStays, NoPanelMoves
<1>5. ASSUME NEW c \in Consoles, NEW i \in Lock!Reqs, Lock!Submit(c, i) PROVE LockInv' /\ PanelInv'
  <2> DEFINE x == [con[c].dlg EXCEPT !.busy = i, !.err = None]
             p == [con[c] EXCEPT !.dlg = x]
  <2>1. doc' = doc /\ con[c].dlg \in LockDialogs /\ Lock!Send(i, c, "lock", con[c].dlg.mode, con[c].dlg.own)
    BY <1>1, <1>5 DEF Lock!Submit, LockPanels
  <2>2. con' = [con EXCEPT ![c] = p]
    BY <1>1, <1>5, <2>1 DEF Lock!Submit, PanelInv, LockPanels, LockDialogs
  <2>3. con[c].dlg.mode \in {"lock", "edit", "confirm"} /\ con[c].dlg.own \in BOOLEAN
    BY <2>1 DEF LockDialogs
  <2>4. x \in LockDialogs /\ x.busy = i
    BY <2>1 DEF LockDialogs
  <2> HIDE DEF x
  <2>5. /\ p \in LockPanels /\ p.dlg = x /\ p.said = con[c].said /\ p.up = con[c].up
        /\ p.view = con[c].view
    BY <1>1, <2>4 DEF LockPanels
  <2> HIDE DEF p
  <2>6. /\ LockQuiet /\ req'[i] # None /\ req'[i].c = c /\ req'[i].op = "lock"
        /\ req'[i].at = "sent" /\ \A k \in Lock!Reqs : req[k] # None => req'[k] = req[k]
    BY <2>1, <2>3, SendMoves
  <2>7. NextWaits(c, p)
    BY <2>4, <2>5, <2>6 DEF NextWaits
  <2>8. NextShown(p)
    <3>1. con[c].said # None => con[c].said.req \in Lock!Reqs
      BY <1>1 DEF LockPanels, LockOutcomes
    <3> QED
      BY <1>1, <2>5, <2>6, <3>1 DEF NextShown, LockShown
  <2> QED
    BY <2>2, <2>5, <2>6, <2>7, <2>8, QuietKeeps, QuietStays, PanelsStay
<1>6. ASSUME NEW c \in Consoles, NEW i \in Lock!Reqs, Lock!Unlock(c, i) PROVE LockInv' /\ PanelInv'
  <2> DEFINE p == [con[c] EXCEPT !.unl = TRUE]
  <2>1. /\ doc' = doc /\ con[c].dlg = None /\ Lock!Send(i, c, "unlock", "confirm", TRUE)
        /\ con' = [con EXCEPT ![c] = p]
    BY <1>6 DEF Lock!Unlock, PanelInv
  <2>2. /\ p \in LockPanels /\ p.dlg = None /\ p.said = con[c].said /\ p.up = con[c].up
        /\ p.view = con[c].view
    BY <1>1, <2>1 DEF LockPanels
  <2> HIDE DEF p
  <2>3. LockQuiet /\ \A k \in Lock!Reqs : req[k] # None => req'[k] = req[k]
    BY <2>1, SendMoves
  <2>4. NextWaits(c, p)
    BY <2>2 DEF NextWaits
  <2>5. NextShown(p)
    <3>1. con[c].said # None => con[c].said.req \in Lock!Reqs
      BY <1>1 DEF LockPanels, LockOutcomes
    <3> QED
      BY <1>1, <2>2, <2>3, <3>1 DEF NextShown, LockShown
  <2> QED
    BY <2>1, <2>2, <2>3, <2>4, <2>5, QuietKeeps, QuietStays, PanelsStay
<1>7. ASSUME NEW i \in Lock!Reqs, Lock!Read(i) PROVE LockInv' /\ PanelInv'
  <2>1. /\ LockQuiet /\ con' = con /\ req'[i].at \in {"read", "done"}
        /\ \A k \in Lock!Reqs : k # i => req'[k] = req[k]
    BY <1>7, LockReads
  <2>2. \A k \in Lock!Reqs : req[k] # None => req'[k].at = req[k].at \/ req'[k].at \notin {"redraw", "ended"}
    BY <2>1
  <2> QED
    BY <2>1, <2>2, QuietKeeps, QuietStays, NoPanelMoves
<1>8. ASSUME NEW i \in Lock!Reqs, Lock!Write(i) PROVE LockInv' /\ PanelInv'
  <2>1. CASE Lock!Stored(i)
    <3>1. /\ LockInv' /\ con' = con /\ req'[i].at = "done"
          /\ \A k \in Lock!Reqs : req[k] # None =>
               /\ req'[k] # None /\ req'[k].c = req[k].c /\ req'[k].op = req[k].op
               /\ k # i => req'[k].at = req[k].at
               /\ req[k].wrote => req'[k].wrote /\ req[k].since \subseteq req'[k].since
      BY <1>8, <2>1, StoredKeeps
    <3>2. ReqsStay
      BY <3>1 DEF ReqsStay
    <3>3. \A k \in Lock!Reqs : req[k] # None => req'[k].at = req[k].at \/ req'[k].at \notin {"redraw", "ended"}
      BY <3>1
    <3> QED
      BY <3>1, <3>2, <3>3, NoPanelMoves
  <2>2. CASE ~Lock!Stored(i)
    <3>1. /\ LockQuiet /\ con' = con /\ req'[i].at \in {"sent", "done"}
          /\ \A k \in Lock!Reqs : k # i => req'[k] = req[k]
      BY <1>8, <2>2, ConflictMoves
    <3>2. \A k \in Lock!Reqs : req[k] # None => req'[k].at = req[k].at \/ req'[k].at \notin {"redraw", "ended"}
      BY <3>1
    <3> QED
      BY <3>1, <3>2, QuietKeeps, QuietStays, NoPanelMoves
  <2> QED
    BY <2>1, <2>2
<1>9. ASSUME NEW i \in Lock!Reqs, Lock!Lose(i) PROVE LockInv' /\ PanelInv'
  <2>1. req[i] # None /\ Lock!Answered(i, "lost") /\ UNCHANGED <<doc, con>>
    BY <1>9 DEF Lock!Lose
  <2>2. LockQuiet /\ req'[i].at = "done" /\ \A k \in Lock!Reqs : k # i => req'[k] = req[k]
    BY <2>1, AnswerMoves DEF LockAnswers
  <2>3. \A k \in Lock!Reqs : req[k] # None => req'[k].at = req[k].at \/ req'[k].at \notin {"redraw", "ended"}
    BY <2>2
  <2> QED
    BY <2>1, <2>2, <2>3, QuietKeeps, QuietStays, NoPanelMoves
<1>10. ASSUME NEW i \in Lock!Reqs, Lock!Done(i) PROVE LockInv' /\ PanelInv'
  <2> DEFINE c == req[i].c
             o == [kind |-> Lock!Kind(req[i].ans), req |-> i]
  <2>1. LockQuiet /\ \A k \in Lock!Reqs : k # i => req'[k] = req[k]
    BY <1>10, DoneMoves
  <2>2. req[i] # None /\ c \in Consoles
    BY <1>10 DEF Lock!Done, LockInv, LockRequests
  <2>3. \A k \in Lock!Reqs : req[k] # None /\ req[k].c # c => req'[k].at = req[k].at
    BY <2>1
  <2>4. o \in LockOutcomes /\ (o.kind = "ok" <=> Lock!Kind(req[i].ans) = "ok")
    BY LockKinds
  <2>5. \A p \in LockPanels : p.dlg # None => p.dlg.busy \in Lock!Reqs \cup {None}
    BY DEF LockPanels, LockDialogs
  <2>6. \A p \in LockPanels : p.said # None => p.said.req \in Lock!Reqs
    BY DEF LockPanels, LockOutcomes
  <2>7. CASE Lock!Kind(req[i].ans) \in {"ok", "not-found"}
    <3> DEFINE y == IF Lock!Mine(c, i) THEN None ELSE con[c].dlg
               p == [con[c] EXCEPT !.dlg = y]
    <3>1. con' = [con EXCEPT ![c] = p]
      BY <1>10, <2>2, <2>7 DEF Lock!Done, PanelInv
    <3>2. y \in LockDialogs \cup {None} /\ (Lock!Mine(c, i) => y = None) /\ (~Lock!Mine(c, i) => y = con[c].dlg)
      BY <1>1, <2>2 DEF LockPanels
    <3> HIDE DEF y
    <3>3. /\ p \in LockPanels /\ p.dlg = y /\ p.said = con[c].said /\ p.up = con[c].up
          /\ p.view = con[c].view
      BY <1>1, <2>2, <3>2 DEF LockPanels
    <3> HIDE DEF p
    <3>4. NextWaits(c, p)
      BY <1>1, <2>1, <2>2, <2>5, <3>2, <3>3 DEF NextWaits, LockWaits, Lock!Mine
    <3>5. ReqsStay
      BY <2>1, QuietStays
    <3>6. NextShown(p)
      <4>1. LockShown(con[c]) /\ (con[c].said # None => con[c].said.req \in Lock!Reqs)
        BY <1>1, <2>2, <2>6
      <4> HIDE DEF c
      <4> QED
        BY <3>3, <3>5, <4>1 DEF NextShown, LockShown, ReqsStay
    <3> HIDE DEF c
    <3> QED
      BY <2>1, <2>2, <2>3, <3>1, <3>3, <3>4, <3>5, <3>6, QuietKeeps, PanelsStay
  <2>8. CASE Lock!Kind(req[i].ans) \notin {"ok", "not-found"}
    <3> DEFINE x == [con[c].dlg EXCEPT !.busy = None, !.err = o]
               y == IF Lock!Mine(c, i) THEN x ELSE con[c].dlg
               barring == Lock!Kind(req[i].ans) = "forbidden" /\ req[i].own
               on == con[c].on /\ ~barring
               barred == con[c].barred \/ barring
               unl == con[c].unl /\ ~(req[i].own /\ req[i].op = "unlock")
               b == [on |-> on, barred |-> barred, unl |-> unl]
               told == IF req[i].op = "unlock" THEN o ELSE con[c].said
               p == PanelAfter(con[c], y, b, told)
    <3>1. con' = [con EXCEPT ![c] = p]
      <4> DEFINE z == [con[c] EXCEPT !.dlg = y, !.on = on, !.barred = barred, !.unl = unl, !.said = told]
      <4>1. con' = [con EXCEPT ![c] = z]
        <5> DEFINE q == [con EXCEPT ![c].dlg = y, ![c].on = on, ![c].barred = barred,
                                    ![c].unl = unl, ![c].said = told]
        <5>1. con' = q
          BY <1>10, <2>2, <2>8 DEF Lock!Done
        <5>2. c \in Consoles /\ con \in [Consoles -> LockPanels]
          BY <1>1, <2>2 DEF PanelInv
        <5> HIDE DEF c, y, on, barred, unl, told
        <5>3. q = [con EXCEPT ![c] = z]
          BY <5>2 DEF LockPanels
        <5> HIDE DEF q, z
        <5> QED
          BY <5>1, <5>3
      <4>2. b.on = on /\ b.barred = barred /\ b.unl = unl
        OBVIOUS
      <4> HIDE DEF b, c, y, on, barred, unl, told
      <4>3. p = z
        BY <4>2 DEF PanelAfter
      <4> QED
        BY <4>1, <4>3
    <3>2. Lock!Mine(c, i) => x \in LockDialogs /\ x.busy = None
      BY <1>1, <2>2, <2>4 DEF Lock!Mine, LockPanels, LockDialogs
    <3>3. b \in LockButtons
      <4>1. on \in BOOLEAN /\ barred \in BOOLEAN /\ unl \in BOOLEAN
        BY <1>1, <2>2 DEF LockPanels
      <4> HIDE DEF on, barred, unl
      <4> QED
        BY <4>1 DEF LockButtons
    <3>4. told \in LockOutcomes \cup {None} /\ (told = con[c].said \/ told.kind # "ok")
      BY <1>1, <2>2, <2>4, <2>8 DEF LockPanels
    <3> HIDE DEF x, o
    <3>5. y \in LockDialogs \cup {None} /\ (Lock!Mine(c, i) => y = x) /\ (~Lock!Mine(c, i) => y = con[c].dlg)
      BY <1>1, <2>2, <3>2 DEF LockPanels
    <3> HIDE DEF y, b, told
    <3>6. /\ p \in LockPanels /\ p.dlg = y /\ p.said = told /\ p.up = con[c].up
          /\ p.view = con[c].view
      <4>1. con[c] \in LockPanels
        BY <1>1, <2>2
      <4>2. y \in LockDialogs \cup {None} /\ told \in LockOutcomes \cup {None}
        BY <3>4, <3>5
      <4> HIDE DEF c
      <4> QED
        BY <3>3, <4>1, <4>2, PanelWith
    <3> HIDE DEF p
    <3>7. NextWaits(c, p)
      BY <1>1, <2>1, <2>2, <2>5, <3>2, <3>5, <3>6 DEF NextWaits, LockWaits, Lock!Mine
    <3>8. ReqsStay
      BY <2>1, QuietStays
    <3>9. NextShown(p)
      <4>1. LockShown(con[c]) /\ (con[c].said # None => con[c].said.req \in Lock!Reqs)
        BY <1>1, <2>2, <2>6
      <4> HIDE DEF c
      <4> QED
        BY <3>4, <3>6, <3>8, <4>1 DEF NextShown, LockShown, ReqsStay
    <3> HIDE DEF c
    <3> QED
      BY <2>1, <2>2, <2>3, <3>1, <3>6, <3>7, <3>8, <3>9, QuietKeeps, PanelsStay
  <2> QED
    BY <2>7, <2>8
<1>11. ASSUME NEW i \in Lock!Reqs, Lock!Redraw(i) PROVE LockInv' /\ PanelInv'
  <2> DEFINE c == req[i].c
             o == [kind |-> Lock!Kind(req[i].ans), req |-> i]
             p == Lock!Built(c, o)
  <2>1. /\ LockQuiet /\ doc' = doc /\ req[i] \in LockRequests /\ req[i].at = "redraw"
        /\ req'[i] # None /\ req'[i].ans = req[i].ans
        /\ \A k \in Lock!Reqs : k # i /\ req[k] # None => req'[k].at = req[k].at
    BY <1>11, RedrawMoves
  <2>2. req[i] # None /\ con' = [con EXCEPT ![c] = p]
    BY <1>11 DEF Lock!Redraw
  <2>3. c \in Consoles /\ o \in LockOutcomes /\ (o.kind = "ok" => req[i].ans = "200") /\ o.req = i
    BY <2>1, LockKinds DEF LockRequests
  <2> HIDE DEF o
  <2>4. /\ p \in LockPanels /\ p.said = o /\ p.view = doc.lock
        /\ con[c].dlg = None => p.dlg = None
        /\ con[c].dlg # None => p.dlg # None /\ p.dlg.busy = con[c].dlg.busy
    BY <2>3, BuiltPanel
  <2> HIDE DEF p
  <2>5. ReqsStay
    BY <2>1, QuietStays
  <2>6. NextShown(p)
    <3>1. o.kind = "ok" => req[i].wrote /\ doc.lock \in req[i].since
      BY <2>2, <2>3 DEF LockInv, RequestFits
    <3> QED
      BY <2>2, <2>3, <2>4, <2>5, <3>1 DEF NextShown, ReqsStay
  <2>7. NextWaits(c, p)
    <3>1. con[c].dlg # None => con[c].dlg.busy \in Lock!Reqs \cup {None}
      BY <1>1, <2>3 DEF LockPanels, LockDialogs
    <3>2. LockWaits(c, con[c])
      BY <1>1, <2>3
    <3> QED
      BY <2>1, <2>4, <2>5, <3>1, <3>2 DEF NextWaits, LockWaits, ReqsStay
  <2>8. \A k \in Lock!Reqs : req[k] # None /\ req[k].c # c => req'[k].at = req[k].at
    BY <2>1
  <2> HIDE DEF c
  <2> QED
    BY <2>1, <2>2, <2>3, <2>4, <2>5, <2>6, <2>7, <2>8, QuietKeeps, PanelsStay
<1>12. CASE Lock!Touch \/ Lock!Purge
  <2>1. doc \in LockDocs /\ req' = req /\ con' = con
    BY <1>12 DEF Lock!Touch, Lock!Purge, LockInv
  <2>2. DocStays
    <3>1. CASE Lock!Touch
      <4>1. doc' = [doc EXCEPT !.rev = @ + 1]
        BY <3>1 DEF Lock!Touch
      <4>2. doc.rev \in Nat /\ doc.rev + 1 \in Nat /\ doc.rev <= doc.rev + 1
        BY <2>1 DEF LockDocs
      <4>3. /\ doc' \in LockDocs /\ doc'.rev = doc.rev + 1 /\ doc'.lock = doc.lock
            /\ doc'.trail = doc.trail
        BY <2>1, <4>1, <4>2 DEF LockDocs
      <4> QED
        BY <4>2, <4>3 DEF DocStays
    <3>2. CASE Lock!Purge
      <4>1. doc' = [doc EXCEPT !.exists = FALSE]
        BY <3>2 DEF Lock!Purge
      <4>2. /\ doc' \in LockDocs /\ doc'.rev = doc.rev /\ doc'.lock = doc.lock
            /\ doc'.trail = doc.trail /\ doc.rev \in Nat
        BY <2>1, <4>1 DEF LockDocs
      <4> QED
        BY <4>2 DEF DocStays
    <3> QED
      BY <1>12, <3>1, <3>2
  <2>3. LockQuiet
    BY <2>1, <2>2, NoneMoves
  <2> QED
    BY <2>1, <2>3, QuietKeeps, QuietStays, NoPanelMoves
<1>13. CASE UNCHANGED Lock!vars
  <2>1. doc' = doc /\ req' = req /\ con' = con
    BY <1>13 DEF Lock!vars
  <2>2. LockQuiet
    BY <2>1, NoneMoves, DocKept
  <2> QED
    BY <2>1, <2>2, QuietKeeps, QuietStays, NoPanelMoves
<1> QED
  BY <1>2, <1>3, <1>4, <1>5, <1>6, <1>7, <1>8, <1>9, <1>10, <1>11, <1>12, <1>13 DEF Lock!Next

LEMMA LockHolds ==
  ASSUME LockConstants
  PROVE  Lock!Spec => [](LockInv /\ PanelInv)
<1>1. ASSUME Lock!Init PROVE LockInv /\ PanelInv
  <2>1. doc \in LockDocs /\ doc.trail = <<>>
    <3>1. <<>> \in Seq(Lock!Reqs)
      OBVIOUS
    <3> QED
      BY <1>1, <3>1 DEF Lock!Init, LockDocs
  <2>2. req = [i \in Lock!Reqs |-> None]
    BY <1>1 DEF Lock!Init
  <2>3. TrailInv
    BY <2>1, <2>2 DEF TrailInv
  <2>4. LockInv
    BY <2>1, <2>2, <2>3 DEF LockInv
  <2>5. Lock!Blank \in LockPanels /\ Lock!Blank.dlg = None /\ Lock!Blank.said = None
    BY DEF Lock!Blank, LockPanels
  <2>6. con = [c \in Consoles |-> Lock!Blank]
    BY <1>1 DEF Lock!Init
  <2> QED
    BY <2>4, <2>5, <2>6 DEF PanelInv, LockWaits, LockShown
<1>2. (LockInv /\ PanelInv) /\ [Lock!Next]_(Lock!vars) => (LockInv /\ PanelInv)'
  BY LockStep
<1> QED
  BY <1>1, <1>2, PTL DEF Lock!Spec

(* However consoles and other writers of the document interleave, every change of the
   lock has its one entry in the trail, and the lock is what the last entry says. *)
THEOREM ChangesTraced ==
  ASSUME LockConstants
  PROVE  Lock!Spec => []Lock!TrailComplete
<1>1. ASSUME LockInv PROVE Lock!TrailComplete
  <2>1. doc.trail \in Seq(Lock!Reqs)
    BY <1>1 DEF LockInv, LockDocs
  <2>2. ASSUME NEW i \in Lock!Reqs, req[i] # None, req[i].wrote
        PROVE  Cardinality(Lock!Entries(i)) = 1
    <3>1. PICK n \in DOMAIN doc.trail : doc.trail[n] = i
      BY <1>1, <2>2 DEF LockInv, TrailInv
    <3>2. Lock!Entries(i) = {n}
      BY <1>1, <3>1 DEF LockInv, TrailInv, Lock!Entries
    <3> QED
      BY <3>2, FS_Singleton
  <2>3. ASSUME NEW i \in Lock!Reqs, ~(req[i] # None /\ req[i].wrote)
        PROVE  Cardinality(Lock!Entries(i)) = 0
    <3>1. Lock!Entries(i) = {}
      BY <1>1, <2>3 DEF LockInv, TrailInv, Lock!Entries
    <3> QED
      BY <3>1, FS_EmptySet
  <2>4. \A i \in Lock!Reqs : Cardinality(Lock!Entries(i)) = IF req[i] # None /\ req[i].wrote THEN 1 ELSE 0
    BY <2>2, <2>3
  <2> QED
    BY <1>1, <2>4, LockSameCount DEF LockInv, TrailInv, Lock!TrailComplete
<1> QED
  BY <1>1, LockHolds, PTL

(* Told that a change succeeded, the operator sees a lock stored at or after it; a
   dialog whose button is disabled waits for a request of its own that is under way. *)
THEOREM ChangesShown ==
  ASSUME LockConstants
  PROVE  Lock!Spec => [](Lock!FreshAfterChange /\ Lock!TypeOK)
<1>1. PanelInv => Lock!FreshAfterChange
  BY DEF PanelInv, LockShown, Lock!FreshAfterChange
<1>2. LockInv /\ PanelInv => Lock!TypeOK
  BY DEF PanelInv, LockInv, LockWaits, LockDocs, Lock!TypeOK
<1> QED
  BY <1>1, <1>2, LockHolds, PTL

---------------------------------------------------------------------------
\* The columns of a console table: what is shown whatever a link, the storage, the
\* release and the operator ask for.

Views == [keys : SUBSET Columns, explicit : BOOLEAN, of : Releases]

\* What the proofs ask of the constants: None is a value of its own, and every
\* table shows by default what its own rules ask for, a pinned column or a group
\* among them.
ColumnConstants ==
  /\ None \notin SUBSET Columns /\ None \notin Views
  /\ Releases \subseteq SUBSET Columns
  /\ \A D \in Releases :
       /\ \A G \in Groups : G \cap D # {} => G \cap Choice!Default(D) # {}
       /\ (Fixed \cap D # {}) \/ (\E G \in Groups : G \cap D # {})

LegalSet(S, D) ==
  /\ S # {} /\ S \subseteq D /\ Fixed \cap D \subseteq S
  /\ \A G \in Groups : G \cap D # {} => G \cap S # {}

ColumnInv ==
  /\ declared \in Releases
  /\ stored = None \/ (stored \in SUBSET Columns /\ stored # {})
  /\ view \in [Windows -> Views \cup {None}]
  /\ \A w \in Windows : view[w] # None => LegalSet(view[w].keys, view[w].of)

\* Whatever is asked for, what is shown is legal; a legal set is shown as it is.
LEMMA Repaired ==
  ASSUME ColumnConstants, NEW D \in Releases, NEW S \in SUBSET D
  PROVE  /\ Choice!Repair(S, D) \subseteq D /\ S \subseteq Choice!Repair(S, D)
         /\ \A G \in Groups : G \cap D # {} => G \cap Choice!Repair(S, D) # {}
         /\ (\A G \in Groups : G \cap D # {} => G \cap S # {}) => Choice!Repair(S, D) = S
<1> DEFINE Short == {H \in Groups : H \cap S = {} /\ H \cap D # {}}
<1>1. Choice!Repair(S, D) = S \cup {Choice!First(G \cap D) : G \in Short}
  BY DEF Choice!Repair
<1>2. \A G \in Short : Choice!First(G \cap D) \in G \cap D
  BY DEF Choice!First
<1>3. \A G \in Groups : G \cap D # {} => G \cap Choice!Repair(S, D) # {}
  <2>1. ASSUME NEW G \in Groups, G \cap D # {} PROVE G \cap Choice!Repair(S, D) # {}
    <3>1. CASE G \cap S # {}
      BY <1>1, <3>1
    <3>2. CASE G \cap S = {}
      <4>1. G \in Short
        BY <2>1, <3>2
      <4> HIDE DEF Short
      <4> QED
        BY <1>1, <1>2, <4>1
    <3> QED
      BY <3>1, <3>2
  <2> QED
    BY <2>1
<1>4. (\A G \in Groups : G \cap D # {} => G \cap S # {}) => Short = {}
  OBVIOUS
<1> HIDE DEF Short
<1>5. Choice!Repair(S, D) \subseteq D /\ S \subseteq Choice!Repair(S, D)
  BY <1>1, <1>2
<1>6. (\A G \in Groups : G \cap D # {} => G \cap S # {}) => Choice!Repair(S, D) = S
  BY <1>1, <1>4
<1> QED
  BY <1>3, <1>5, <1>6

LEMMA DefaultLegal ==
  ASSUME ColumnConstants, NEW D \in Releases
  PROVE  LegalSet(Choice!Default(D), D)
<1>1. Choice!Default(D) \subseteq D /\ Fixed \cap D \subseteq Choice!Default(D)
  BY DEF Choice!Default
<1>2. \A G \in Groups : G \cap D # {} => G \cap Choice!Default(D) # {}
  BY DEF ColumnConstants
<1>3. Choice!Default(D) # {}
  BY <1>1, <1>2 DEF ColumnConstants
<1> QED
  BY <1>1, <1>2, <1>3 DEF LegalSet

LEMMA NormalLegal ==
  ASSUME ColumnConstants, NEW D \in Releases, NEW asked \in (SUBSET Columns) \cup {None}
  PROVE  LegalSet(Choice!Normalize(asked, D), D)
<1> DEFINE B == {k \in D : k \in asked \/ k \in Fixed}
           S == Choice!Repair(B, D)
<1>1. CASE asked = None \/ asked = {}
  BY <1>1, DefaultLegal DEF Choice!Normalize
<1>2. CASE ~(asked = None \/ asked = {})
  <2>1. Choice!Normalize(asked, D) = IF S = {} THEN Choice!Default(D) ELSE S
    BY <1>2 DEF Choice!Normalize
  <2>2. B \in SUBSET D /\ Fixed \cap D \subseteq B
    OBVIOUS
  <2> HIDE DEF B
  <2>3. S \subseteq D /\ B \subseteq S /\ \A G \in Groups : G \cap D # {} => G \cap S # {}
    BY <2>2, Repaired
  <2> HIDE DEF S
  <2> QED
    BY <2>1, <2>2, <2>3, DefaultLegal DEF LegalSet
<1> QED
  BY <1>1, <1>2

LEMMA LegalShown ==
  ASSUME ColumnConstants, NEW D \in Releases, NEW S, LegalSet(S, D)
  PROVE  Choice!Normalize(S, D) = S
<1>1. S \in SUBSET Columns /\ S \in SUBSET D /\ S # {} /\ S # None
  BY DEF LegalSet, ColumnConstants
<1>2. {k \in D : k \in S \/ k \in Fixed} = S
  BY DEF LegalSet
<1>3. Choice!Repair(S, D) = S
  BY <1>1, Repaired DEF LegalSet
<1> QED
  BY <1>1, <1>2, <1>3 DEF Choice!Normalize

LEMMA LegalColumns ==
  ASSUME ColumnConstants, NEW D \in Releases, NEW S, LegalSet(S, D)
  PROVE  S \in SUBSET Columns /\ S # {} /\ S # None
BY DEF LegalSet, ColumnConstants

\* What a window shows after each step.
LEMMA OpenShows ==
  ASSUME ColumnConstants, ColumnInv, NEW cols \in (SUBSET Columns) \cup {None}
  PROVE  /\ Choice!Initial(cols) \in Views /\ LegalSet(Choice!Initial(cols).keys, Choice!Initial(cols).of)
         /\ cols # None /\ cols # {} =>
              Choice!Initial(cols).keys = Choice!Normalize(cols, declared) /\ Choice!Initial(cols).of = declared
<1>1. declared \in Releases /\ stored \in (SUBSET Columns) \cup {None}
  BY DEF ColumnInv
<1>2. \A a \in (SUBSET Columns) \cup {None} :
        LegalSet(Choice!Normalize(a, declared), declared) /\ Choice!Normalize(a, declared) \in SUBSET Columns
  BY <1>1, NormalLegal, LegalColumns
<1>3. PICK a \in (SUBSET Columns) \cup {None}, e \in BOOLEAN :
        /\ Choice!Initial(cols) = [keys |-> Choice!Normalize(a, declared), explicit |-> e, of |-> declared]
        /\ cols # None /\ cols # {} => a = cols
  BY <1>1 DEF Choice!Initial
<1> QED
  BY <1>1, <1>2, <1>3 DEF Views

LEMMA CommitShows ==
  ASSUME ColumnConstants, ColumnInv, NEW w \in Windows, view[w] # None,
         NEW S \in SUBSET Columns, Choice!Commit(w, S)
  PROVE  /\ ColumnInv' /\ view'[w] \in Views /\ view'[w].keys = Choice!Normalize(S, view[w].of)
<1> DEFINE keys == Choice!Normalize(S, view[w].of)
           v == [view[w] EXCEPT !.keys = keys, !.explicit = TRUE]
<1>1. view[w] \in Views /\ view[w].of \in Releases
  BY DEF ColumnInv, Views
<1>2. LegalSet(keys, view[w].of) /\ keys \in SUBSET Columns /\ keys # {}
  BY <1>1, NormalLegal, LegalColumns
<1>3. view' = [view EXCEPT ![w] = v] /\ stored' = keys /\ declared' = declared
  BY DEF Choice!Commit
<1> HIDE DEF keys
<1>4. v \in Views /\ v.keys = keys /\ v.of = view[w].of
  BY <1>1, <1>2 DEF Views
<1> HIDE DEF v
<1>5. view' \in [Windows -> Views \cup {None}] /\ view'[w] = v
      /\ \A x \in Windows : x # w => view'[x] = view[x]
  BY <1>3, <1>4 DEF ColumnInv
<1>6. ColumnInv'
  BY <1>2, <1>3, <1>4, <1>5 DEF ColumnInv
<1> QED
  BY <1>4, <1>5, <1>6 DEF keys

LEMMA OpenKeeps ==
  ASSUME ColumnConstants, ColumnInv, NEW w \in Windows, NEW cols \in (SUBSET Columns) \cup {None},
         Choice!Open(w, cols)
  PROVE  ColumnInv' /\ view'[w] = Choice!Initial(cols)
<1> DEFINE v == Choice!Initial(cols)
<1>1. v \in Views /\ LegalSet(v.keys, v.of)
  BY OpenShows
<1>2. view' = [view EXCEPT ![w] = v] /\ stored' = stored /\ declared' = declared
  BY DEF Choice!Open
<1> HIDE DEF v
<1>3. view' \in [Windows -> Views \cup {None}] /\ view'[w] = v
      /\ \A x \in Windows : x # w => view'[x] = view[x]
  BY <1>1, <1>2 DEF ColumnInv
<1>4. ColumnInv'
  BY <1>1, <1>2, <1>3 DEF ColumnInv
<1> QED
  BY <1>3, <1>4 DEF v

LEMMA UrlAsked ==
  ASSUME ColumnConstants, ColumnInv, NEW v \in Windows, view[v] # None
  PROVE  Choice!UrlOf(view[v]) \in (SUBSET Columns) \cup {None}
BY DEF ColumnInv, Choice!UrlOf, Views

\* What a toggle asks for is legal, so it is what is shown.
LEMMA ToggleLegal ==
  ASSUME ColumnConstants, ColumnInv, NEW w \in Windows, NEW k \in Columns, view[w] # None,
         k \in view[w].of \ Choice!Locked(view[w].keys, view[w].of)
  PROVE  LET S == IF k \in view[w].keys THEN view[w].keys \ {k} ELSE view[w].keys \cup {k} IN
         LegalSet(S, view[w].of) /\ S \in SUBSET Columns
<1> DEFINE K == view[w].keys
           D == view[w].of
           S == IF k \in K THEN K \ {k} ELSE K \cup {k}
<1>1. D \in Releases /\ LegalSet(K, D) /\ K \in SUBSET Columns
  BY DEF ColumnInv, Views
<1>2. k \in D /\ k \notin Fixed /\ \A G \in Groups : G \cap K # {k}
  BY DEF Choice!Locked
<1> HIDE DEF K, D
<1>3. S \subseteq D /\ Fixed \cap D \subseteq S
  BY <1>1, <1>2 DEF LegalSet
<1>4. ASSUME NEW G \in Groups, G \cap D # {} PROVE G \cap S # {}
  <2>1. G \cap K # {} /\ G \cap K # {k}
    BY <1>1, <1>2, <1>4 DEF LegalSet
  <2> QED
    BY <2>1
<1>5. S # {}
  <2>1. (Fixed \cap D # {}) \/ (\E G \in Groups : G \cap D # {})
    BY <1>1 DEF ColumnConstants
  <2> QED
    BY <1>3, <1>4, <2>1
<1>6. LegalSet(S, D) /\ S \in SUBSET Columns
  BY <1>1, <1>3, <1>4, <1>5 DEF LegalSet
<1> QED
  BY <1>6 DEF K, D

LEMMA ColumnStep ==
  ASSUME ColumnConstants, ColumnInv, [Choice!Next]_(Choice!vars)
  PROVE  ColumnInv'
<1>1. ASSUME NEW w \in Windows, Choice!Open(w, None) PROVE ColumnInv'
  BY <1>1, OpenKeeps
<1>2. ASSUME NEW w \in Windows, Choice!ShowAll(w) PROVE ColumnInv'
  <2>1. view[w] # None /\ Choice!Commit(w, view[w].of)
    BY <1>2 DEF Choice!ShowAll
  <2>2. view[w].of \in SUBSET Columns
    BY <2>1 DEF ColumnInv, Views, ColumnConstants
  <2> QED
    BY <2>1, <2>2, CommitShows
<1>3. ASSUME NEW w \in Windows, Choice!Reset(w) PROVE ColumnInv'
  <2> DEFINE keys == Choice!Normalize(None, view[w].of)
             v == [view[w] EXCEPT !.keys = keys, !.explicit = FALSE]
  <2>1. view[w] \in Views /\ view[w].of \in Releases
    BY <1>3 DEF Choice!Reset, ColumnInv, Views
  <2>2. LegalSet(keys, view[w].of) /\ keys \in SUBSET Columns
    BY <2>1, NormalLegal, LegalColumns
  <2>3. view' = [view EXCEPT ![w] = v] /\ stored' = None /\ declared' = declared
    BY <1>3 DEF Choice!Reset
  <2> HIDE DEF keys
  <2>4. v \in Views /\ v.keys = keys /\ v.of = view[w].of
    BY <2>1, <2>2 DEF Views
  <2> HIDE DEF v
  <2>5. view' \in [Windows -> Views \cup {None}] /\ view'[w] = v
        /\ \A x \in Windows : x # w => view'[x] = view[x]
    BY <2>3, <2>4 DEF ColumnInv
  <2> QED
    BY <2>2, <2>3, <2>4, <2>5 DEF ColumnInv
<1>4. ASSUME NEW w \in Windows, NEW k \in Columns, Choice!Toggle(w, k) PROVE ColumnInv'
  <2> DEFINE S == IF k \in view[w].keys THEN view[w].keys \ {k} ELSE view[w].keys \cup {k}
  <2>1. view[w] # None /\ k \in view[w].of \ Choice!Locked(view[w].keys, view[w].of) /\ Choice!Commit(w, S)
    BY <1>4 DEF Choice!Toggle
  <2>2. S \in SUBSET Columns
    BY <2>1, ToggleLegal
  <2> HIDE DEF S
  <2> QED
    BY <2>1, <2>2, CommitShows
<1>5. ASSUME NEW w \in Windows, NEW v \in Windows, Choice!Follow(w, v) PROVE ColumnInv'
  BY <1>5, UrlAsked, OpenKeeps DEF Choice!Follow
<1>6. ASSUME NEW R \in Releases, Choice!Release(R) PROVE ColumnInv'
  BY <1>6 DEF Choice!Release, ColumnInv
<1>7. CASE UNCHANGED Choice!vars
  BY <1>7 DEF Choice!vars, ColumnInv
<1> QED
  BY <1>1, <1>2, <1>3, <1>4, <1>5, <1>6, <1>7 DEF Choice!Next

LEMMA ColumnHolds ==
  ASSUME ColumnConstants
  PROVE  Choice!Spec => []ColumnInv
<1>1. Choice!Init => ColumnInv
  BY DEF Choice!Init, ColumnInv
<1>2. ColumnInv /\ [Choice!Next]_(Choice!vars) => ColumnInv'
  BY ColumnStep
<1> QED
  BY <1>1, <1>2, PTL DEF Choice!Spec

(* Whatever the link, the storage, the release and the operator ask for, a table shows
   a column, only declared ones, the fixed ones, and one of every group. *)
THEOREM AlwaysLegal ==
  ASSUME ColumnConstants
  PROVE  Choice!Spec => []Choice!ViewsLegal
<1>1. ColumnInv => Choice!ViewsLegal
  BY DEF ColumnInv, Choice!ViewsLegal, Choice!Legal, LegalSet
<1> QED
  BY <1>1, ColumnHolds, PTL

(* A box of the chooser changes its own column and no other, and a link made from a
   chosen view shows that view in a window with the same release. *)
THEOREM BoxesAndLinks ==
  ASSUME ColumnConstants
  PROVE  Choice!Spec => [][Choice!TogglesOne /\ Choice!LinkReproduces]_(Choice!vars)
<1>1. ASSUME ColumnInv PROVE Choice!TogglesOne
  <2> SUFFICES ASSUME NEW w \in Windows, NEW k \in Columns, Choice!Toggle(w, k)
               PROVE  view'[w].keys = IF k \in view[w].keys THEN view[w].keys \ {k}
                                      ELSE view[w].keys \cup {k}
    BY DEF Choice!TogglesOne
  <2> DEFINE S == IF k \in view[w].keys THEN view[w].keys \ {k} ELSE view[w].keys \cup {k}
  <2>1. view[w] # None /\ k \in view[w].of \ Choice!Locked(view[w].keys, view[w].of) /\ Choice!Commit(w, S)
    BY DEF Choice!Toggle
  <2>2. S \in SUBSET Columns /\ LegalSet(S, view[w].of)
    BY <1>1, <2>1, ToggleLegal
  <2>3. view[w].of \in Releases
    BY <1>1, <2>1 DEF ColumnInv, Views
  <2> HIDE DEF S
  <2>4. view'[w].keys = S
    BY <1>1, <2>1, <2>2, <2>3, CommitShows, LegalShown
  <2> QED
    BY <2>4 DEF S
<1>2. ASSUME ColumnInv PROVE Choice!LinkReproduces
  <2> SUFFICES ASSUME NEW w \in Windows, NEW v \in Windows, Choice!Follow(w, v), w # v,
                      view[v].explicit, view[v].of = declared
               PROVE  view'[w].keys = view[v].keys
    BY DEF Choice!LinkReproduces
  <2> DEFINE K == view[v].keys
  <2>1. view[v] # None /\ Choice!Open(w, K)
    BY DEF Choice!Follow, Choice!UrlOf
  <2>2. LegalSet(K, declared) /\ declared \in Releases
    BY <1>2, <2>1 DEF ColumnInv
  <2> HIDE DEF K
  <2>3. K \in SUBSET Columns /\ K # {} /\ K # None /\ Choice!Normalize(K, declared) = K
    BY <2>2, LegalColumns, LegalShown
  <2>4. view'[w].keys = K
    BY <1>2, <2>1, <2>3, OpenKeeps, OpenShows
  <2> QED
    BY <2>4 DEF K
<1> QED
  BY <1>1, <1>2, ColumnHolds, PTL

---------------------------------------------------------------------------
\* The registry of the scaler's loops and connections.

RegConns == [n : 1..MaxMade, stack : Stacks]
RegLoops == [n : 1..MaxMade, stack : Stacks, conn : RegConns \cup {Global}]
RegKinds == {"request", "resume", "observe", "teardown"}
RegPcs == {"s3", "url", "profiles", "have", "done", "purge"}
RegCalls == [kind : RegKinds, stack : Stacks, pc : RegPcs,
             conn : RegConns \cup {Global, None}, todo : SUBSET Stacks]
RegResumes == [found : SUBSET Stacks, failed : SUBSET Stacks, torn : SUBSET Stacks, over : BOOLEAN]

\* What the proofs ask of the constants: None and Global are values of their own.
RegistryConstants ==
  /\ MaxMade \in Nat /\ Global \notin Stacks /\ Global # None
  /\ None \notin RegConns \cup RegLoops \cup RegCalls \cup RegResumes
  /\ Global \notin RegConns
  /\ Overlap \in BOOLEAN

\* The maps and the calls; the Valkey of a connection is one that is stored.
OwnStored(c) == c \in {Global, None} \/ c.stack \in stored
RegistryTypes ==
  /\ stored \subseteq Stacks /\ made \in 0..MaxMade
  /\ loops \in [Stacks -> RegLoops \cup {None}]
  /\ conns \in [Stacks -> RegConns \cup {Global, None}]
  /\ \A s \in Stacks : /\ loops[s] # None => loops[s].stack = s
                       /\ conns[s] \notin {None, Global} => conns[s].stack = s
  /\ ticking \subseteq RegLoops /\ inTick \subseteq RegLoops /\ open \subseteq RegConns
  /\ held \subseteq Stacks \X (Stacks \cup {Global})
  /\ call \in [Callers -> RegCalls \cup {None}]
  /\ resumed \in RegResumes \cup {None}
StoresKnown ==
  /\ \A s \in Stacks : OwnStored(conns[s])
  /\ \A l \in ticking \cup inTick : OwnStored(l.conn)
  /\ \A h \in held : h[2] = Global \/ h[2] \in stored
\* How far a call is, what it holds, and what is left of a resume.
CallShape(x) ==
  /\ OwnStored(x.conn)
  /\ x.pc \in {"profiles", "purge", "done"} => x.conn # None
  /\ x.kind = "resume" => resumed # None /\ ~resumed.over
  /\ x.pc = "have" => x.kind = "resume" /\ (loops[x.stack] # None \/ x.stack \in resumed.torn)
ResumeLeft(x) ==
  x.kind = "resume" =>
    \A s \in resumed.found : \/ s \in resumed.failed \cup resumed.torn \cup x.todo
                             \/ loops[s] # None \/ s = x.stack
RegistryInv ==
  /\ RegistryTypes /\ StoresKnown
  /\ \A p \in Callers : call[p] # None =>
       /\ CallShape(call[p]) /\ ResumeLeft(call[p])
       /\ \A q \in Callers : call[q] # None /\ call[p].kind = "resume" /\ call[q].kind = "resume" => p = q

\* With calls for a stack one at a time: who has what.
CallAlone(x) ==
  /\ x.pc \in {"s3", "profiles"} => x.kind \in {"request", "resume"}
  /\ x.pc \in {"s3", "url", "profiles"} /\ x.kind \in {"request", "resume"} => loops[x.stack] = None
  /\ x.pc = "url" => conns[x.stack] = None
QuietInv ==
  /\ Registry!LoopsReachable /\ Registry!ConnectionsKnown
  /\ \A l \in inTick : loops[l.stack] = l
  /\ \A p \in Callers : call[p] # None =>
       /\ CallAlone(call[p])
       /\ \A q \in Callers : call[q] # None /\ call[p].stack = call[q].stack => p = q

---------------------------------------------------------------------------
(* What a call's step leaves of the other calls.                            *)
OwnStoredNext(c) == c \in {Global, None} \/ c.stack \in stored'
CallShapeNext(x) ==
  /\ OwnStoredNext(x.conn)
  /\ x.pc \in {"profiles", "purge", "done"} => x.conn # None
  /\ x.kind = "resume" => resumed' # None /\ ~resumed'.over
  /\ x.pc = "have" => x.kind = "resume" /\ (loops'[x.stack] # None \/ x.stack \in resumed'.torn)
ResumeLeftNext(x) ==
  x.kind = "resume" =>
    \A s \in resumed'.found : \/ s \in resumed'.failed \cup resumed'.torn \cup x.todo
                              \/ loops'[s] # None \/ s = x.stack
RegCallsNext ==
  \A p \in Callers : call'[p] # None =>
    /\ CallShapeNext(call'[p]) /\ ResumeLeftNext(call'[p])
    /\ \A q \in Callers : call'[q] # None /\ call'[p].kind = "resume" /\ call'[q].kind = "resume" => p = q

\* A resume goes on: what it found stays, what failed or was torn down is noted, a
\* loop goes by a teardown only.
ResumeOn ==
  /\ stored \subseteq stored'
  /\ resumed # None =>
       /\ resumed' # None /\ resumed'.found = resumed.found
       /\ resumed.failed \subseteq resumed'.failed /\ resumed.torn \subseteq resumed'.torn
       /\ \A s \in Stacks : loops[s] # None => loops'[s] # None \/ s \in resumed'.torn

LEMMA OtherStays ==
  ASSUME ResumeOn, RegistryTypes, NEW x \in RegCalls, CallShape(x), ResumeLeft(x),
         x.kind = "resume" => resumed'.over = resumed.over
  PROVE  CallShapeNext(x) /\ ResumeLeftNext(x)
<1>1. OwnStoredNext(x.conn)
  BY DEF CallShape, OwnStored, OwnStoredNext, ResumeOn
<1>2. x.kind = "resume" => resumed' # None /\ ~resumed'.over
  BY DEF CallShape, ResumeOn
<1>3. x.pc = "have" => x.kind = "resume" /\ (loops'[x.stack] # None \/ x.stack \in resumed'.torn)
  BY DEF CallShape, ResumeOn, RegCalls
<1>4. ResumeLeftNext(x)
  <2> SUFFICES ASSUME x.kind = "resume", NEW s \in resumed'.found
               PROVE  \/ s \in resumed'.failed \cup resumed'.torn \cup x.todo
                      \/ loops'[s] # None \/ s = x.stack
    BY DEF ResumeLeftNext
  <2>1. resumed # None /\ s \in resumed.found
    BY DEF CallShape, ResumeOn
  <2>2. s \in Stacks
    BY <2>1 DEF RegistryTypes, RegResumes
  <2> QED
    BY <2>1, <2>2 DEF ResumeLeft, ResumeOn
<1> QED
  BY <1>1, <1>2, <1>3, <1>4 DEF CallShape, CallShapeNext

LEMMA CallsMove ==
  ASSUME RegistryInv, ResumeOn, NEW p \in Callers, NEW x \in RegCalls \cup {None},
         call' = [call EXCEPT ![p] = x],
         resumed # None /\ resumed'.over # resumed.over => call[p] # None /\ call[p].kind = "resume",
         x # None => CallShapeNext(x) /\ ResumeLeftNext(x),
         x # None /\ x.kind = "resume" =>
           (call[p] # None /\ call[p].kind = "resume") \/ (\A q \in Callers : call[q] = None)
  PROVE  RegCallsNext /\ call' \in [Callers -> RegCalls \cup {None}]
<1>1. call \in [Callers -> RegCalls \cup {None}] /\ call'[p] = x /\ \A q \in Callers : q # p => call'[q] = call[q]
  BY DEF RegistryInv, RegistryTypes
<1>2. ASSUME NEW q \in Callers, call'[q] # None
      PROVE  /\ CallShapeNext(call'[q]) /\ ResumeLeftNext(call'[q])
             /\ \A r \in Callers : call'[r] # None /\ call'[q].kind = "resume" /\ call'[r].kind = "resume" => q = r
  <2>1. CASE q = p
    <3>1. \A r \in Callers \ {p} : call'[r] # None /\ x.kind = "resume" => call'[r].kind # "resume"
      BY <1>1, <1>2, <2>1 DEF RegistryInv
    <3> QED
      BY <1>1, <1>2, <2>1, <3>1
  <2>2. CASE q # p
    <3>1. call'[q] = call[q] /\ call[q] \in RegCalls /\ CallShape(call[q]) /\ ResumeLeft(call[q])
      BY <1>1, <1>2, <2>2 DEF RegistryInv
    <3>2. call[q].kind = "resume" => resumed # None /\ resumed'.over = resumed.over
      BY <2>2, <3>1, <1>2 DEF RegistryInv, CallShape
    <3>3. CallShapeNext(call[q]) /\ ResumeLeftNext(call[q])
      BY <3>1, <3>2, OtherStays DEF RegistryInv
    <3>4. \A r \in Callers : call'[r] # None /\ call[q].kind = "resume" /\ call'[r].kind = "resume" => q = r
      BY <1>1, <1>2, <2>2, <3>1 DEF RegistryInv
    <3> QED
      BY <3>1, <3>3, <3>4
  <2> QED
    BY <2>1, <2>2
<1> QED
  BY <1>1, <1>2 DEF RegCallsNext

LEMMA CallsStay ==
  ASSUME RegistryInv, ResumeOn, call' = call, resumed' = resumed
  PROVE  RegCallsNext /\ call' \in [Callers -> RegCalls \cup {None}]
<1>1. call \in [Callers -> RegCalls \cup {None}]
  BY DEF RegistryInv, RegistryTypes
<1>2. ASSUME NEW q \in Callers, call[q] # None
      PROVE  CallShapeNext(call[q]) /\ ResumeLeftNext(call[q])
  BY <1>1, <1>2, OtherStays DEF RegistryInv
<1> QED
  BY <1>1, <1>2 DEF RegistryInv, RegCallsNext

\* The next workspace of a resume.
LEMMA ContinueGives ==
  ASSUME RegistryConstants, RegistryInv, NEW p \in Callers, call[p] # None, Registry!Continue(p)
  PROVE  \E x \in RegCalls \cup {None} :
           /\ call' = [call EXCEPT ![p] = x]
           /\ x = None => call[p].kind # "resume" \/ call[p].todo = {}
           /\ x # None =>
                /\ call[p].kind = "resume" /\ x.kind = "resume" /\ x.conn = None
                /\ x.stack \in call[p].todo /\ x.todo = call[p].todo \ {x.stack}
                /\ x.pc = IF loops[x.stack] = None THEN "s3" ELSE "have"
                /\ Overlap \/ ~Registry!Busy(x.stack)
<1>1. call[p] \in RegCalls
  BY DEF RegistryInv, RegistryTypes
<1>2. CASE call[p].kind # "resume" \/ call[p].todo = {}
  BY <1>2 DEF Registry!Continue
<1>3. CASE ~(call[p].kind # "resume" \/ call[p].todo = {})
  <2>1. PICK s \in call[p].todo : (Overlap \/ ~Registry!Busy(s)) /\
          call' = [call EXCEPT ![p] = Registry!Call("resume", s, IF loops[s] = None THEN "s3" ELSE "have", call[p].todo \ {s})]
    BY <1>3 DEF Registry!Continue
  <2> DEFINE x == Registry!Call("resume", s, IF loops[s] = None THEN "s3" ELSE "have", call[p].todo \ {s})
  <2>2. /\ x \in RegCalls /\ x.kind = "resume" /\ x.conn = None /\ x.stack = s
        /\ x.todo = call[p].todo \ {s} /\ x.pc = IF loops[s] = None THEN "s3" ELSE "have"
    BY <1>1, <2>1 DEF Registry!Call, RegCalls, RegKinds, RegPcs
  <2>3. call' = [call EXCEPT ![p] = x]
    BY <2>1
  <2>4. x # None
    BY <2>2 DEF RegistryConstants
  <2> HIDE DEF x
  <2> QED
    BY <1>3, <2>1, <2>2, <2>3, <2>4
<1> QED
  BY <1>2, <1>3

\* What a step that goes on to the next workspace does.
Continues(p) ==
  /\ call[p] # None /\ Registry!Continue(p)
  /\ stored' = stored
  /\ \A s \in Stacks : loops[s] # None => loops'[s] # None
  /\ call[p].kind # "resume" => resumed' = resumed
  /\ call[p].kind = "resume" =>
       /\ resumed' # None /\ resumed'.found = resumed.found /\ resumed'.torn = resumed.torn
       /\ resumed.failed \subseteq resumed'.failed /\ resumed'.over = (call[p].todo = {})
       /\ call[p].stack \in resumed'.failed \cup resumed.torn \/ loops'[call[p].stack] # None

LEMMA ContinueKeeps ==
  ASSUME RegistryConstants, RegistryInv, NEW p \in Callers, Continues(p)
  PROVE  RegCallsNext /\ call' \in [Callers -> RegCalls \cup {None}] /\ Registry!ResumesAll
<1>1. call[p] \in RegCalls /\ CallShape(call[p]) /\ ResumeLeft(call[p])
  BY DEF Continues, RegistryInv, RegistryTypes
<1>2. ResumeOn
  BY <1>1 DEF Continues, ResumeOn, CallShape
<1>3. PICK x \in RegCalls \cup {None} :
        /\ call' = [call EXCEPT ![p] = x]
        /\ x = None => call[p].kind # "resume" \/ call[p].todo = {}
        /\ x # None =>
             /\ call[p].kind = "resume" /\ x.kind = "resume" /\ x.conn = None
             /\ x.stack \in call[p].todo /\ x.todo = call[p].todo \ {x.stack}
             /\ x.pc = IF loops[x.stack] = None THEN "s3" ELSE "have"
             /\ Overlap \/ ~Registry!Busy(x.stack)
  BY ContinueGives DEF Continues
<1>4. ASSUME x # None PROVE CallShapeNext(x) /\ ResumeLeftNext(x)
  <2>1. /\ call[p].kind = "resume" /\ x.kind = "resume" /\ x.conn = None /\ x.stack \in Stacks
        /\ x.stack \in call[p].todo /\ x.todo = call[p].todo \ {x.stack}
        /\ x.pc = IF loops[x.stack] = None THEN "s3" ELSE "have"
    BY <1>3, <1>4 DEF RegCalls
  <2>2. resumed' # None /\ ~resumed'.over
    BY <2>1 DEF Continues
  <2>3. x.pc = "have" => loops'[x.stack] # None
    BY <2>1 DEF Continues
  <2>4. CallShapeNext(x)
    BY <2>1, <2>2, <2>3 DEF CallShapeNext, OwnStoredNext
  <2>5. ASSUME NEW s \in resumed'.found
        PROVE  \/ s \in resumed'.failed \cup resumed'.torn \cup x.todo
               \/ loops'[s] # None \/ s = x.stack
    <3>1. resumed # None /\ s \in resumed.found
      BY <1>1, <2>1, <2>5 DEF Continues, CallShape
    <3>2. s \in Stacks
      BY <3>1 DEF RegistryInv, RegistryTypes, RegResumes
    <3>3. \/ s \in resumed.failed \cup resumed.torn \cup call[p].todo
          \/ loops[s] # None \/ s = call[p].stack
      BY <1>1, <2>1, <3>1 DEF ResumeLeft
    <3> QED
      BY <2>1, <3>2, <3>3 DEF Continues
  <2> QED
    BY <2>4, <2>5 DEF ResumeLeftNext
<1>5. Registry!ResumesAll
  <2> SUFFICES ASSUME NEW s \in Stacks, resumed # None, ~resumed.over, resumed'.over,
                      s \in resumed.found \ (resumed'.failed \cup resumed.torn)
               PROVE  loops'[s] # None
    BY DEF Registry!ResumesAll
  <2>1. call[p].kind = "resume" /\ call[p].todo = {}
    BY DEF Continues
  <2>2. \/ s \in resumed.failed \cup resumed.torn \cup call[p].todo
        \/ loops[s] # None \/ s = call[p].stack
    BY <1>1, <2>1 DEF ResumeLeft
  <2> QED
    BY <2>1, <2>2 DEF Continues
<1>6. resumed # None /\ resumed'.over # resumed.over => call[p] # None /\ call[p].kind = "resume"
  BY DEF Continues
<1> QED
  BY <1>2, <1>3, <1>4, <1>5, <1>6, CallsMove DEF Continues

LEMMA CallIs ==
  ASSUME RegistryConstants, NEW k \in RegKinds, NEW s \in Stacks, NEW pc \in RegPcs, NEW T \in SUBSET Stacks
  PROVE  /\ Registry!Call(k, s, pc, T) \in RegCalls /\ Registry!Call(k, s, pc, T) # None
         /\ Registry!Call(k, s, pc, T).kind = k /\ Registry!Call(k, s, pc, T).stack = s /\ Registry!Call(k, s, pc, T).pc = pc
         /\ Registry!Call(k, s, pc, T).conn = None /\ Registry!Call(k, s, pc, T).todo = T
<1>1. Registry!Call(k, s, pc, T) \in RegCalls
  BY DEF Registry!Call, RegCalls
<1> QED
  BY <1>1 DEF Registry!Call, RegistryConstants

LEMMA GotoIs ==
  ASSUME RegistryTypes, NEW p \in Callers, call[p] # None, NEW pc \in RegPcs,
         NEW c \in RegConns \cup {Global, None}, Registry!Goto(p, pc, c)
  PROVE  \E x \in RegCalls :
           /\ call' = [call EXCEPT ![p] = x]
           /\ x.pc = pc /\ x.conn = c /\ x.kind = call[p].kind /\ x.stack = call[p].stack /\ x.todo = call[p].todo
<1> DEFINE x == [call[p] EXCEPT !.pc = pc, !.conn = c]
<1>1. call \in [Callers -> RegCalls \cup {None}] /\ call[p] \in RegCalls
  BY DEF RegistryTypes
<1>2. call' = [call EXCEPT ![p] = x]
  BY <1>1 DEF Registry!Goto, RegCalls
<1>3. x \in RegCalls /\ x.pc = pc /\ x.conn = c /\ x.kind = call[p].kind /\ x.stack = call[p].stack /\ x.todo = call[p].todo
  BY <1>1 DEF RegCalls
<1> HIDE DEF x
<1> QED
  BY <1>2, <1>3

---------------------------------------------------------------------------
(* Every step.                                                              *)
RegQuietStep ==
  /\ stored' = stored /\ resumed' = resumed /\ loops' = loops /\ ticking' = ticking
  /\ inTick' = inTick /\ held' = held

\* A lookup: a Valkey that is not stored falls back, any other is one that is stored.
LEMMA ResolveKeeps ==
  ASSUME RegistryConstants, RegistryInv, NEW p \in Callers, NEW pc \in {"profiles", "purge", "done"}, Registry!Resolve(p, pc)
  PROVE  RegistryInv' /\ RegQuietStep
<1> DEFINE s == call[p].stack
           n == [n |-> made + 1, stack |-> s]
<1>1. call[p] # None /\ call[p] \in RegCalls /\ s \in Stacks /\ CallShape(call[p]) /\ ResumeLeft(call[p])
  BY DEF Registry!Resolve, Registry!At, RegistryInv, RegistryTypes, RegCalls
<1>2. PICK c \in RegConns \cup {Global} :
        /\ Registry!Goto(p, pc, c) /\ OwnStored(c)
        /\ \/ UNCHANGED <<conns, open, made>>
           \/ conns' = [conns EXCEPT ![s] = Global] /\ c = Global /\ UNCHANGED <<open, made>>
           \/ /\ conns' = [conns EXCEPT ![s] = c] /\ c \in RegConns /\ c.stack = s /\ open' = open \cup {c}
              /\ made' = made + 1 /\ made < MaxMade
  <2>1. CASE Registry!Goto(p, pc, Global) /\ UNCHANGED <<conns, open, made>>
    BY <2>1 DEF OwnStored
  <2>2. CASE s \in stored /\ conns' = [conns EXCEPT ![s] = Global] /\ Registry!Goto(p, pc, Global) /\ UNCHANGED <<open, made>>
    BY <2>2 DEF OwnStored
  <2>3. CASE /\ s \in stored \ Shared /\ made < MaxMade
             /\ conns' = [conns EXCEPT ![s] = n]
             /\ open' = open \cup {n} /\ made' = made + 1
             /\ Registry!Goto(p, pc, n)
    <3>1. made + 1 \in 1..MaxMade
      BY <2>3 DEF RegistryInv, RegistryTypes, RegistryConstants
    <3>2. n \in RegConns /\ n.stack = s
      BY <1>1, <3>1 DEF RegConns
    <3>3. OwnStored(n)
      BY <2>3, <3>2 DEF OwnStored
    <3> HIDE DEF n, s
    <3> QED
      BY <2>3, <3>2, <3>3
  <2> QED
    BY <2>1, <2>2, <2>3 DEF Registry!Resolve
<1>3. RegQuietStep
  BY DEF Registry!Resolve, RegQuietStep
<1>4. PICK x \in RegCalls :
        /\ call' = [call EXCEPT ![p] = x]
        /\ x.pc = pc /\ x.conn = c /\ x.kind = call[p].kind /\ x.stack = call[p].stack /\ x.todo = call[p].todo
  BY <1>1, <1>2, GotoIs DEF RegistryInv, RegPcs
<1>5. ResumeOn
  BY <1>3 DEF RegQuietStep, ResumeOn
<1>6. CallShapeNext(x) /\ ResumeLeftNext(x)
  <2>1. c # None
    BY <1>2 DEF RegistryConstants
  <2>2. CallShapeNext(x)
    BY <1>1, <1>2, <1>3, <1>4, <2>1 DEF CallShape, CallShapeNext, OwnStored, OwnStoredNext, RegQuietStep
  <2>3. ResumeLeftNext(x)
    BY <1>1, <1>3, <1>4 DEF ResumeLeft, ResumeLeftNext, RegQuietStep
  <2> QED
    BY <2>2, <2>3
<1>7. RegCallsNext /\ call' \in [Callers -> RegCalls \cup {None}]
  BY <1>1, <1>3, <1>4, <1>5, <1>6, CallsMove DEF RegQuietStep
<1>8. /\ conns' \in [Stacks -> RegConns \cup {Global, None}] /\ open' \subseteq RegConns /\ made' \in 0..MaxMade
      /\ \A t \in Stacks : (conns'[t] \notin {None, Global} => conns'[t].stack = t) /\ OwnStored(conns'[t])
  <2>1. /\ conns \in [Stacks -> RegConns \cup {Global, None}] /\ open \subseteq RegConns /\ made \in 0..MaxMade
        /\ \A t \in Stacks : (conns[t] \notin {None, Global} => conns[t].stack = t) /\ OwnStored(conns[t])
    BY DEF RegistryInv, RegistryTypes, StoresKnown
  <2>2. CASE UNCHANGED <<conns, open, made>>
    BY <2>1, <2>2
  <2>3. CASE conns' = [conns EXCEPT ![s] = Global] /\ c = Global /\ UNCHANGED <<open, made>>
    BY <1>1, <1>2, <2>1, <2>3
  <2>4. CASE /\ conns' = [conns EXCEPT ![s] = c] /\ c \in RegConns /\ c.stack = s /\ open' = open \cup {c}
             /\ made' = made + 1 /\ made < MaxMade
    <3>1. made' \in 0..MaxMade
      BY <2>1, <2>4 DEF RegistryConstants
    <3> QED
      BY <1>1, <1>2, <2>1, <2>4, <3>1
  <2> QED
    BY <1>2, <2>2, <2>3, <2>4
<1>9. RegistryTypes' /\ StoresKnown'
  BY <1>3, <1>7, <1>8 DEF RegistryInv, RegistryTypes, StoresKnown, OwnStored, RegQuietStep
<1> QED
  BY <1>3, <1>7, <1>9 DEF RegistryInv, RegCallsNext, CallShapeNext, CallShape, OwnStored, OwnStoredNext,
     ResumeLeft, ResumeLeftNext

LEMMA NextInv ==
  ASSUME RegistryTypes', StoresKnown', RegCallsNext
  PROVE  RegistryInv'
BY DEF RegistryInv, RegCallsNext, CallShapeNext, CallShape, OwnStored, OwnStoredNext, ResumeLeft, ResumeLeftNext

\* A call comes, goes or moves to another place, and nothing else changes.
LEMMA CallOnlyKeeps ==
  ASSUME RegistryConstants, RegistryInv, NEW p \in Callers, NEW x \in RegCalls \cup {None},
         call' = [call EXCEPT ![p] = x], RegQuietStep, UNCHANGED <<conns, open, made>>,
         x # None => CallShape(x) /\ ResumeLeft(x),
         x # None /\ x.kind = "resume" => call[p] # None /\ call[p].kind = "resume"
  PROVE  RegistryInv'
<1>1. ResumeOn
  BY DEF RegQuietStep, ResumeOn
<1>2. x # None => CallShapeNext(x) /\ ResumeLeftNext(x)
  BY <1>1, OtherStays DEF RegQuietStep, RegistryInv
<1>3. RegCallsNext /\ call' \in [Callers -> RegCalls \cup {None}]
  BY <1>1, <1>2, CallsMove DEF RegQuietStep
<1>4. RegistryTypes' /\ StoresKnown'
  BY <1>3 DEF RegistryInv, RegistryTypes, StoresKnown, OwnStored, RegQuietStep
<1> QED
  BY <1>3, <1>4, NextInv

LEMMA TearKeeps ==
  ASSUME RegistryConstants, RegistryInv, NEW p \in Callers, NEW s \in Stacks, Registry!Teardown(p, s)
  PROVE  RegistryInv' /\ Registry!ResumesAll
<1> DEFINE y == Registry!Call("teardown", s, IF conns[s] = None THEN "url" ELSE "purge", {})
           x == [y EXCEPT !.conn = conns[s]]
<1>1. /\ y \in RegCalls /\ y.kind = "teardown" /\ y.stack = s /\ y.todo = {}
      /\ y.pc = IF conns[s] = None THEN "url" ELSE "purge"
  BY CallIs DEF RegKinds, RegPcs
<1>2. call' = [call EXCEPT ![p] = x] /\ call[p] = None
  BY DEF Registry!Teardown, Registry!MayCall
<1> HIDE DEF y
<1>3. conns[s] \in RegConns \cup {Global, None} /\ OwnStored(conns[s])
  BY DEF RegistryInv, RegistryTypes, StoresKnown
<1>4. x \in RegCalls /\ x.kind = "teardown" /\ x.stack = s /\ x.conn = conns[s] /\ x.pc = y.pc
  BY <1>1, <1>3 DEF RegCalls
<1> HIDE DEF x
<1>5. CASE resumed = None
  <2>1. resumed' = None /\ ResumeOn
    BY <1>5 DEF Registry!Teardown, ResumeOn
  <2>2. CallShapeNext(x) /\ ResumeLeftNext(x)
    BY <1>1, <1>3, <1>4 DEF CallShapeNext, ResumeLeftNext, OwnStored, OwnStoredNext, Registry!Teardown
  <2>3. RegCallsNext /\ call' \in [Callers -> RegCalls \cup {None}]
    BY <1>2, <1>4, <1>5, <2>1, <2>2, CallsMove
  <2>4. RegistryTypes' /\ StoresKnown'
    BY <1>5, <2>1, <2>3 DEF RegistryInv, RegistryTypes, StoresKnown, OwnStored, Registry!Teardown
  <2> QED
    BY <1>5, <2>3, <2>4, NextInv DEF Registry!ResumesAll
<1>6. CASE resumed # None
  <2>1. /\ resumed \in RegResumes /\ resumed' = [resumed EXCEPT !.torn = @ \cup {s}]
        /\ loops \in [Stacks -> RegLoops \cup {None}] /\ loops' = [loops EXCEPT ![s] = None] /\ stored' = stored
    BY <1>6 DEF Registry!Teardown, RegistryInv, RegistryTypes
  <2>2. /\ resumed' \in RegResumes /\ resumed'.found = resumed.found /\ resumed'.failed = resumed.failed
        /\ resumed'.over = resumed.over /\ resumed'.torn = resumed.torn \cup {s}
    BY <2>1 DEF RegResumes
  <2>3. resumed' # None
    BY <2>2 DEF RegistryConstants
  <2>4. ResumeOn
    BY <2>1, <2>2, <2>3 DEF ResumeOn
  <2>5. CallShapeNext(x) /\ ResumeLeftNext(x)
    BY <1>1, <1>3, <1>4, <2>1 DEF CallShapeNext, ResumeLeftNext, OwnStored, OwnStoredNext
  <2>6. RegCallsNext /\ call' \in [Callers -> RegCalls \cup {None}]
    BY <1>2, <1>4, <2>2, <2>4, <2>5, CallsMove
  <2>7. /\ loops' \in [Stacks -> RegLoops \cup {None}]
        /\ \A t \in Stacks : loops'[t] # None => loops'[t].stack = t
    BY <2>1 DEF RegistryInv, RegistryTypes
  <2>8. RegistryTypes' /\ StoresKnown'
    BY <2>2, <2>6, <2>7 DEF RegistryInv, RegistryTypes, StoresKnown, OwnStored, Registry!Teardown
  <2> QED
    BY <2>2, <2>6, <2>8, NextInv DEF Registry!ResumesAll
<1> QED
  BY <1>5, <1>6

LEMMA PurgeKeeps ==
  ASSUME RegistryConstants, RegistryInv, NEW p \in Callers, Registry!Purge(p)
  PROVE  RegistryInv' /\ Registry!ResumesAll
<1>1. /\ call[p] # None /\ call[p] \in RegCalls /\ call[p].stack \in Stacks
      /\ call' = [call EXCEPT ![p] = None] /\ resumed' = resumed /\ loops' = loops /\ stored' = stored
  BY DEF Registry!Purge, Registry!At, RegistryInv, RegistryTypes, RegCalls
<1>2. ResumeOn
  BY <1>1 DEF ResumeOn
<1>3. RegCallsNext /\ call' \in [Callers -> RegCalls \cup {None}]
  BY <1>1, <1>2, CallsMove
<1>4. held' \subseteq held /\ open' \subseteq open
  BY DEF Registry!Purge
<1>5. RegistryTypes' /\ StoresKnown'
  <2>1. /\ conns' \in [Stacks -> RegConns \cup {Global, None}]
        /\ \A t \in Stacks : conns'[t] \notin {None, Global} => conns'[t].stack = t
        /\ \A t \in Stacks : OwnStored(conns'[t])
    BY <1>1 DEF Registry!Purge, RegistryInv, RegistryTypes, StoresKnown, OwnStored
  <2> QED
    BY <1>1, <1>3, <1>4, <2>1 DEF RegistryInv, RegistryTypes, StoresKnown, OwnStored, Registry!Purge
<1> QED
  BY <1>1, <1>3, <1>5, NextInv DEF Registry!ResumesAll

LEMMA ResumeKeeps ==
  ASSUME RegistryConstants, RegistryInv, NEW p \in Callers, Registry!Resume(p)
  PROVE  RegistryInv' /\ Registry!ResumesAll
<1> DEFINE found == {h[1] : h \in {k \in held : k[2] \in Registry!Known \ down}}
           R == [found |-> found, failed |-> {}, torn |-> {}, over |-> (found = {})]
<1>1. found \subseteq Stacks
  BY DEF RegistryInv, RegistryTypes
<1>2. /\ resumed = None /\ call[p] = None /\ resumed' = R
      /\ UNCHANGED <<stored, loops, ticking, inTick, conns, open, held, made>>
  BY DEF Registry!Resume
<1>3. \A q \in Callers : call[q] = None
  <2> SUFFICES ASSUME NEW q \in Callers, call[q] # None PROVE FALSE
    OBVIOUS
  <2>1. call[q].stack \in Stacks
    BY DEF RegistryInv, RegistryTypes, RegCalls
  <2> QED
    BY <2>1 DEF Registry!Resume, Registry!Busy
<1>4. found = {} \/ \E s \in found :
        call' = [call EXCEPT ![p] = Registry!Call("resume", s, IF loops[s] = None THEN "s3" ELSE "have", found \ {s})]
  BY DEF Registry!Resume
<1>5. found = {} => call' = call
  BY DEF Registry!Resume
<1> HIDE DEF found
<1>6. /\ R \in RegResumes /\ R # None /\ R.found = found /\ R.over = (found = {}) /\ R.torn = {} /\ R.failed = {}
  <2>1. R \in RegResumes
    BY <1>1 DEF RegResumes
  <2>2. R.found = found /\ R.torn = {} /\ R.failed = {}
    OBVIOUS
  <2>3. R.over = (found = {})
    BY Zenon
  <2>4. R # None
    BY <2>1 DEF RegistryConstants
  <2> QED
    BY <2>1, <2>2, <2>3, <2>4
<1> HIDE DEF R
<1>7. ResumeOn
  BY <1>2 DEF ResumeOn
<1>8. RegCallsNext /\ call' \in [Callers -> RegCalls \cup {None}]
  <2>1. CASE found = {}
    BY <1>3, <1>5, <2>1 DEF RegCallsNext, RegistryInv, RegistryTypes
  <2>2. CASE found # {}
    <3>1. PICK s \in found :
            call' = [call EXCEPT ![p] = Registry!Call("resume", s, IF loops[s] = None THEN "s3" ELSE "have", found \ {s})]
      BY <1>4, <2>2
    <3> DEFINE x == Registry!Call("resume", s, IF loops[s] = None THEN "s3" ELSE "have", found \ {s})
    <3>2. /\ x \in RegCalls /\ x.kind = "resume" /\ x.stack = s /\ x.conn = None /\ x.todo = found \ {s}
          /\ x.pc = IF loops[s] = None THEN "s3" ELSE "have"
      BY <1>1, <3>1, CallIs DEF RegKinds, RegPcs
    <3>3. call' = [call EXCEPT ![p] = x]
      BY <3>1
    <3> HIDE DEF x
    <3>4. CallShapeNext(x) /\ ResumeLeftNext(x)
      BY <1>2, <1>6, <2>2, <3>1, <3>2 DEF CallShapeNext, ResumeLeftNext, OwnStoredNext
    <3> QED
      BY <1>2, <1>3, <1>7, <3>2, <3>3, <3>4, CallsMove
  <2> QED
    BY <2>1, <2>2
<1>9. RegistryTypes' /\ StoresKnown'
  BY <1>2, <1>6, <1>8 DEF RegistryInv, RegistryTypes, StoresKnown, OwnStored
<1> QED
  BY <1>2, <1>8, <1>9, NextInv DEF Registry!ResumesAll

\* A loop that is made has the connection its call holds, and closes its own part of a
\* resume; so does a lookup that failed, or a loop that is there.
LEMMA LoopMadeKeeps ==
  ASSUME RegistryConstants, RegistryInv, NEW p \in Callers, Registry!Create(p)
  PROVE  RegistryInv' /\ Registry!ResumesAll
<1> DEFINE s == call[p].stack
           l == [n |-> made + 1, stack |-> s, conn |-> call[p].conn]
<1>1. /\ call[p] # None /\ call[p] \in RegCalls /\ s \in Stacks /\ CallShape(call[p]) /\ call[p].pc = "profiles"
      /\ call[p].conn \in RegConns \cup {Global}
  BY DEF Registry!Create, Registry!At, RegistryInv, RegistryTypes, RegCalls, CallShape
<1>2. /\ made < MaxMade /\ made \in Nat /\ made + 1 \in 1..MaxMade /\ made' = made + 1
  BY DEF Registry!Create, RegistryInv, RegistryTypes, RegistryConstants
<1>3. l \in RegLoops /\ l.stack = s /\ l.conn = call[p].conn
  BY <1>1, <1>2 DEF RegLoops
<1>4. loops' = [loops EXCEPT ![s] = l] /\ ticking' = ticking \cup {l}
  BY <1>3 DEF Registry!Create
<1>5. l # None
  BY <1>3 DEF RegistryConstants
<1> HIDE DEF l
<1>6. loops' \in [Stacks -> RegLoops \cup {None}] /\ \A t \in Stacks : loops'[t] # None => loops'[t].stack = t
  BY <1>1, <1>3, <1>4 DEF RegistryInv, RegistryTypes
<1>7. (\A t \in Stacks : loops[t] # None => loops'[t] # None) /\ loops'[s] # None
  BY <1>1, <1>4, <1>5 DEF RegistryInv, RegistryTypes
<1>8. /\ call[p].kind # "resume" => resumed' = resumed
      /\ call[p].kind = "resume" =>
           /\ resumed' \in RegResumes /\ resumed' # None /\ resumed'.found = resumed.found /\ resumed'.torn = resumed.torn
           /\ resumed'.failed = resumed.failed /\ resumed'.over = (call[p].todo = {})
  <2>1. CASE call[p].kind = "resume"
    <3>1. resumed \in RegResumes /\ resumed' = [resumed EXCEPT !.over = (call[p].todo = {})]
      BY <1>1, <2>1 DEF Registry!Create, CallShape, RegistryInv, RegistryTypes
    <3>2. resumed' \in RegResumes
      BY <3>1 DEF RegResumes
    <3> QED
      BY <2>1, <3>1, <3>2 DEF RegResumes, RegistryConstants
  <2>2. CASE call[p].kind # "resume"
    BY <2>2 DEF Registry!Create
  <2> QED
    BY <2>1, <2>2
<1>9. Continues(p)
  BY <1>1, <1>7, <1>8 DEF Registry!Create, Continues
<1>10. RegCallsNext /\ call' \in [Callers -> RegCalls \cup {None}] /\ Registry!ResumesAll
  BY <1>9, ContinueKeeps
<1>11. resumed' \in RegResumes \cup {None}
  BY <1>8 DEF RegistryInv, RegistryTypes
<1>12. OwnStored(l.conn)
  BY <1>1, <1>3 DEF CallShape
<1>13. RegistryTypes'
  <2>1. made' \in 0..MaxMade
    BY <1>2
  <2> QED
    BY <1>3, <1>4, <1>6, <1>10, <1>11, <2>1 DEF RegistryInv, RegistryTypes, Registry!Create
<1>14. StoresKnown'
  BY <1>4, <1>12 DEF RegistryInv, StoresKnown, OwnStored, Registry!Create
<1> QED
  BY <1>10, <1>13, <1>14, NextInv

LEMMA FailsKeeps ==
  ASSUME RegistryConstants, RegistryInv, NEW p \in Callers, Registry!Fails(p)
  PROVE  RegistryInv' /\ Registry!ResumesAll
<1>1. /\ call[p] # None /\ call[p] \in RegCalls /\ call[p].stack \in Stacks /\ CallShape(call[p])
  BY DEF Registry!Fails, Registry!At, RegistryInv, RegistryTypes, RegCalls
<1>2. UNCHANGED <<stored, loops, ticking, inTick, conns, open, held, made>>
  BY DEF Registry!Fails
<1>3. /\ call[p].kind # "resume" => resumed' = resumed
      /\ call[p].kind = "resume" =>
           /\ resumed' \in RegResumes /\ resumed' # None /\ resumed'.found = resumed.found /\ resumed'.torn = resumed.torn
           /\ resumed'.failed = resumed.failed \cup {call[p].stack} /\ resumed'.over = (call[p].todo = {})
  <2>1. CASE call[p].kind = "resume"
    <3>1. resumed \in RegResumes /\ resumed' = [resumed EXCEPT !.failed = @ \cup {call[p].stack}, !.over = (call[p].todo = {})]
      BY <1>1, <2>1 DEF Registry!Fails, CallShape, RegistryInv, RegistryTypes
    <3>2. resumed' \in RegResumes
      BY <1>1, <3>1 DEF RegResumes
    <3> QED
      BY <2>1, <3>1, <3>2 DEF RegResumes, RegistryConstants
  <2>2. CASE call[p].kind # "resume"
    BY <2>2 DEF Registry!Fails
  <2> QED
    BY <2>1, <2>2
<1>4. Continues(p)
  BY <1>1, <1>2, <1>3 DEF Registry!Fails, Continues
<1>5. RegCallsNext /\ call' \in [Callers -> RegCalls \cup {None}] /\ Registry!ResumesAll
  BY <1>4, ContinueKeeps
<1>6. RegistryTypes' /\ StoresKnown'
  BY <1>2, <1>3, <1>5 DEF RegistryInv, RegistryTypes, StoresKnown, OwnStored
<1> QED
  BY <1>5, <1>6, NextInv

LEMMA HaveKeeps ==
  ASSUME RegistryConstants, RegistryInv, NEW p \in Callers, Registry!Have(p)
  PROVE  RegistryInv' /\ Registry!ResumesAll
<1>1. /\ call[p] # None /\ call[p] \in RegCalls /\ call[p].stack \in Stacks /\ CallShape(call[p]) /\ call[p].pc = "have"
  BY DEF Registry!Have, Registry!At, RegistryInv, RegistryTypes, RegCalls
<1>2. /\ call[p].kind = "resume" /\ resumed # None /\ (loops[call[p].stack] # None \/ call[p].stack \in resumed.torn)
  BY <1>1 DEF CallShape
<1>3. /\ UNCHANGED <<stored, loops, ticking, inTick, conns, open, held, made>>
      /\ resumed \in RegResumes /\ resumed' = [resumed EXCEPT !.over = (call[p].todo = {})]
  BY <1>2 DEF Registry!Have, RegistryInv, RegistryTypes
<1>4. /\ resumed' \in RegResumes /\ resumed' # None /\ resumed'.found = resumed.found /\ resumed'.torn = resumed.torn
      /\ resumed'.failed = resumed.failed /\ resumed'.over = (call[p].todo = {})
  <2>1. resumed' \in RegResumes
    BY <1>3 DEF RegResumes
  <2> QED
    BY <1>3, <2>1 DEF RegResumes, RegistryConstants
<1>5. Continues(p)
  BY <1>1, <1>2, <1>3, <1>4 DEF Registry!Have, Continues
<1>6. RegCallsNext /\ call' \in [Callers -> RegCalls \cup {None}] /\ Registry!ResumesAll
  BY <1>5, ContinueKeeps
<1>7. RegistryTypes' /\ StoresKnown'
  BY <1>3, <1>4, <1>6 DEF RegistryInv, RegistryTypes, StoresKnown, OwnStored
<1> QED
  BY <1>6, <1>7, NextInv

LEMMA TickKeeps ==
  ASSUME RegistryConstants, RegistryInv, NEW l \in ticking \cup inTick, Registry!TickStart(l) \/ Registry!TickEnd(l)
  PROVE  RegistryInv' /\ Registry!ResumesAll
<1>1. /\ stored' = stored /\ loops' = loops /\ ticking' = ticking /\ conns' = conns /\ open' = open
      /\ call' = call /\ made' = made /\ resumed' = resumed
      /\ l \in RegLoops /\ l.stack \in Stacks /\ l.conn \in RegConns \cup {Global} /\ OwnStored(l.conn)
  BY DEF Registry!TickStart, Registry!TickEnd, RegistryInv, RegistryTypes, StoresKnown, RegLoops
<1>2. ResumeOn
  BY <1>1 DEF ResumeOn
<1>3. RegCallsNext /\ call' \in [Callers -> RegCalls \cup {None}]
  BY <1>1, <1>2, CallsStay
<1>4. inTick' \subseteq inTick \cup {l} /\ held' \subseteq held \cup {<<l.stack, Registry!Store(l.conn)>>}
  BY DEF Registry!TickStart, Registry!TickEnd
<1>5. Registry!Store(l.conn) \in {Global} \cup stored
  BY <1>1 DEF Registry!Store, OwnStored, RegistryConstants
<1>6. RegistryTypes' /\ StoresKnown'
  <2>1. held' \subseteq Stacks \X (Stacks \cup {Global})
    BY <1>1, <1>4, <1>5 DEF RegistryInv, RegistryTypes
  <2>2. \A h \in held' : h[2] = Global \/ h[2] \in stored
    BY <1>4, <1>5 DEF RegistryInv, StoresKnown
  <2> QED
    BY <1>1, <1>3, <1>4, <2>1, <2>2 DEF RegistryInv, RegistryTypes, StoresKnown, OwnStored
<1> QED
  BY <1>1, <1>3, <1>6, NextInv DEF Registry!ResumesAll

LEMMA ProvisionedKeeps ==
  ASSUME RegistryConstants, RegistryInv, NEW T \in SUBSET Stacks, stored' = stored \cup T,
         UNCHANGED <<loops, ticking, inTick, conns, open, call, held, made, resumed>>
  PROVE  RegistryInv' /\ Registry!ResumesAll
<1>1. /\ stored' = stored \cup T
      /\ UNCHANGED <<loops, ticking, inTick, conns, open, call, held, made, resumed>>
  OBVIOUS
<1>2. ResumeOn
  BY <1>1 DEF ResumeOn
<1>3. RegCallsNext /\ call' \in [Callers -> RegCalls \cup {None}]
  BY <1>1, <1>2, CallsStay
<1>4. RegistryTypes' /\ StoresKnown'
  BY <1>1, <1>3 DEF RegistryInv, RegistryTypes, StoresKnown, OwnStored
<1> QED
  BY <1>1, <1>3, <1>4, NextInv DEF Registry!ResumesAll

LEMMA RegistryStep ==
  ASSUME RegistryConstants, RegistryInv, [Registry!Next]_(Registry!vars)
  PROVE  RegistryInv' /\ Registry!ResumesAll
<1>1. ASSUME NEW p \in Callers, NEW s \in Stacks, Registry!Request(p, s) PROVE RegistryInv' /\ Registry!ResumesAll
  <2> DEFINE x == Registry!Call("request", s, "s3", {})
  <2>1. x \in RegCalls /\ x.kind = "request" /\ x.pc = "s3" /\ x.conn = None
    BY CallIs DEF RegKinds, RegPcs
  <2>2. call' = [call EXCEPT ![p] = x] /\ RegQuietStep /\ UNCHANGED <<conns, open, made>>
    BY <1>1 DEF Registry!Request, RegQuietStep
  <2> HIDE DEF x
  <2>3. CallShape(x) /\ ResumeLeft(x)
    BY <2>1 DEF CallShape, ResumeLeft, OwnStored
  <2> QED
    BY <2>1, <2>2, <2>3, CallOnlyKeeps DEF Registry!ResumesAll, RegQuietStep
<1>2. ASSUME NEW p \in Callers, NEW s \in Stacks, Registry!Observe(p, s) PROVE RegistryInv' /\ Registry!ResumesAll
  <2> DEFINE x == Registry!Call("observe", s, "url", {})
  <2>1. x \in RegCalls /\ x.kind = "observe" /\ x.pc = "url" /\ x.conn = None
    BY CallIs DEF RegKinds, RegPcs
  <2>2. call' = [call EXCEPT ![p] = x] /\ RegQuietStep /\ UNCHANGED <<conns, open, made>>
    BY <1>2 DEF Registry!Observe, RegQuietStep
  <2> HIDE DEF x
  <2>3. CallShape(x) /\ ResumeLeft(x)
    BY <2>1 DEF CallShape, ResumeLeft, OwnStored
  <2> QED
    BY <2>1, <2>2, <2>3, CallOnlyKeeps DEF Registry!ResumesAll, RegQuietStep
<1>3. ASSUME NEW p \in Callers, Registry!GotS3(p) PROVE RegistryInv' /\ Registry!ResumesAll
  <2>1. /\ call[p] # None /\ call[p] \in RegCalls /\ call[p].stack \in Stacks
        /\ CallShape(call[p]) /\ ResumeLeft(call[p])
    BY <1>3 DEF Registry!GotS3, Registry!At, RegistryInv, RegistryTypes, RegCalls
  <2>2. conns[call[p].stack] \in RegConns \cup {Global, None} /\ OwnStored(conns[call[p].stack])
    BY <2>1 DEF RegistryInv, RegistryTypes, StoresKnown
  <2>3. RegQuietStep /\ UNCHANGED <<conns, open, made>>
    BY <1>3 DEF Registry!GotS3, RegQuietStep
  <2>4. PICK c \in RegConns \cup {Global, None}, pc \in {"profiles", "url"} :
          Registry!Goto(p, pc, c) /\ OwnStored(c) /\ (pc = "profiles" => c # None)
    BY <1>3, <2>2 DEF Registry!GotS3, OwnStored
  <2>5. PICK x \in RegCalls :
        /\ call' = [call EXCEPT ![p] = x]
        /\ x.pc = pc /\ x.conn = c /\ x.kind = call[p].kind /\ x.stack = call[p].stack /\ x.todo = call[p].todo
    BY <2>1, <2>4, GotoIs DEF RegistryInv, RegPcs
  <2>6. CallShape(x) /\ ResumeLeft(x)
    BY <2>1, <2>4, <2>5 DEF CallShape, ResumeLeft
  <2> QED
    BY <2>1, <2>3, <2>5, <2>6, CallOnlyKeeps DEF Registry!ResumesAll, RegQuietStep
<1>4. ASSUME NEW p \in Callers, Registry!Answer(p) \/ Registry!Rejects(p) PROVE RegistryInv' /\ Registry!ResumesAll
  <2>1. call' = [call EXCEPT ![p] = None] /\ RegQuietStep /\ UNCHANGED <<conns, open, made>>
    BY <1>4 DEF Registry!Answer, Registry!Rejects, RegQuietStep
  <2> QED
    BY <2>1, CallOnlyKeeps DEF Registry!ResumesAll, RegQuietStep
<1>5. ASSUME NEW p \in Callers, Registry!ResolveForLoop(p) \/ Registry!Observed(p) \/ Registry!ResolveForTeardown(p)
      PROVE  RegistryInv' /\ Registry!ResumesAll
  BY <1>5, ResolveKeeps DEF Registry!ResolveForLoop, Registry!Observed, Registry!ResolveForTeardown,
     RegQuietStep, Registry!ResumesAll
<1>6. CASE UNCHANGED Registry!vars
  <2>1. ResumeOn
    BY <1>6 DEF Registry!vars, ResumeOn
  <2>2. RegCallsNext /\ call' \in [Callers -> RegCalls \cup {None}]
    BY <1>6, <2>1, CallsStay DEF Registry!vars
  <2>3. RegistryTypes' /\ StoresKnown'
    BY <1>6, <2>2 DEF Registry!vars, RegistryInv, RegistryTypes, StoresKnown, OwnStored
  <2> QED
    BY <1>6, <2>2, <2>3, NextInv DEF Registry!vars, Registry!ResumesAll
<1>7. ASSUME NEW s \in Stacks, Registry!Provisioned(s) PROVE RegistryInv' /\ Registry!ResumesAll
  <2>1. /\ {s} \in SUBSET Stacks /\ stored' = stored \cup {s}
        /\ UNCHANGED <<loops, ticking, inTick, conns, open, call, held, made, resumed>>
    BY <1>7 DEF Registry!Provisioned
  <2> QED
    BY <2>1, ProvisionedKeeps
<1>8. ASSUME NEW d, Registry!Outage(d) PROVE RegistryInv' /\ Registry!ResumesAll
  <2>1. /\ {} \in SUBSET Stacks /\ stored' = stored \cup {}
        /\ UNCHANGED <<loops, ticking, inTick, conns, open, call, held, made, resumed>>
    BY <1>8 DEF Registry!Outage
  <2> QED
    BY <2>1, ProvisionedKeeps
<1> QED
  BY <1>1, <1>2, <1>3, <1>4, <1>5, <1>6, <1>7, <1>8, TearKeeps, PurgeKeeps, ResumeKeeps, LoopMadeKeeps,
     FailsKeeps,
     HaveKeeps, TickKeeps DEF Registry!Next

LEMMA RegistryHolds ==
  ASSUME RegistryConstants
  PROVE  Registry!Spec => []RegistryInv /\ [][Registry!ResumesAll]_(Registry!vars)
<1>1. Registry!Init => RegistryInv
  <2> SUFFICES ASSUME Registry!Init PROVE RegistryInv
    OBVIOUS
  <2>1. \A s \in Stacks : loops[s] = None /\ conns[s] = None
    BY DEF Registry!Init
  <2>2. \A p \in Callers : call[p] = None
    BY DEF Registry!Init
  <2>3. held \subseteq Stacks \X (Stacks \cup {Global}) /\ \A h \in held : h[2] = Global \/ h[2] \in stored
    BY DEF Registry!Init
  <2>4. RegistryTypes
    BY <2>1, <2>3 DEF Registry!Init, RegistryTypes, RegistryConstants
  <2>5. StoresKnown
    BY <2>1, <2>3 DEF Registry!Init, StoresKnown, OwnStored
  <2> QED
    BY <2>2, <2>4, <2>5 DEF RegistryInv
<1>2. RegistryInv /\ [Registry!Next]_(Registry!vars) => RegistryInv' /\ Registry!ResumesAll
  BY RegistryStep
<1> QED
  BY <1>1, <1>2, PTL DEF Registry!Spec

(* However calls, ticks and teardowns overlap, and whichever stores do not answer: a
   teardown that ends leaves a key of its stack only in a Valkey that did not answer, or,
   where the stored configs could not be listed, in one that it did not know of and never
   in the activation Valkey; and a resume ends with a loop for each workspace that it
   found, but those that could not be resolved and those torn down since. *)
THEOREM PurgedAndResumed ==
  ASSUME RegistryConstants
  PROVE  Registry!Spec => [][Registry!PurgesEverywhere /\ Registry!ResumesAll]_(Registry!vars)
<1>1. RegistryInv => Registry!PurgesEverywhere
  <2> SUFFICES ASSUME RegistryInv, NEW p \in Callers, Registry!Purge(p),
                      NEW h \in held', h[1] = call[p].stack
               PROVE  h[2] \in down \/ (Params \in down /\ h[2] # Global)
    BY DEF Registry!PurgesEverywhere
  <2>1. h \in held /\ h[2] \notin Registry!Known \ down
    BY DEF Registry!Purge
  <2>2. h[2] = Global \/ h[2] \in stored
    BY <2>1 DEF RegistryInv, StoresKnown
  <2> QED
    BY <2>1, <2>2 DEF Registry!Known
<1> QED
  BY <1>1, RegistryHolds, PTL

---------------------------------------------------------------------------
(* Calls for a stack one at a time.                                         *)
CallAloneNext(x) ==
  /\ x.pc \in {"s3", "profiles"} => x.kind \in {"request", "resume"}
  /\ x.pc \in {"s3", "url", "profiles"} /\ x.kind \in {"request", "resume"} => loops'[x.stack] = None
  /\ x.pc = "url" => conns'[x.stack] = None
AloneNext ==
  \A p \in Callers : call'[p] # None =>
    /\ CallAloneNext(call'[p])
    /\ \A q \in Callers : call'[q] # None /\ call'[p].stack = call'[q].stack => p = q
\* The calls but for one of them are for other stacks than s, and only s changes.
OnlyStack(p, s) ==
  /\ \A q \in Callers \ {p} : call[q] # None => call[q].stack # s
  /\ \A t \in Stacks \ {s} : loops'[t] = loops[t] /\ conns'[t] = conns[t]

LEMMA AloneMove ==
  ASSUME RegistryTypes, QuietInv, NEW p \in Callers, NEW s \in Stacks, NEW x \in RegCalls \cup {None},
         call' = [call EXCEPT ![p] = x], OnlyStack(p, s),
         x # None => CallAloneNext(x) /\ (x.stack = s \/ ~Registry!Busy(x.stack))
  PROVE  AloneNext
<1>1. call \in [Callers -> RegCalls \cup {None}] /\ call'[p] = x /\ \A q \in Callers \ {p} : call'[q] = call[q]
  BY DEF RegistryTypes
<1>2. x # None => \A q \in Callers \ {p} : call[q] # None => call[q].stack # x.stack
  BY DEF OnlyStack, Registry!Busy
<1>3. ASSUME NEW q \in Callers \ {p}, call[q] # None PROVE CallAloneNext(call[q])
  <2>1. call[q].stack \in Stacks \ {s}
    BY <1>1, <1>3 DEF OnlyStack, RegCalls
  <2> QED
    BY <1>3, <2>1 DEF OnlyStack, QuietInv, CallAlone, CallAloneNext
<1>4. ASSUME NEW q \in Callers, call'[q] # None
      PROVE  /\ CallAloneNext(call'[q])
             /\ \A r \in Callers : call'[r] # None /\ call'[q].stack = call'[r].stack => q = r
  <2>1. CASE q = p
    BY <1>1, <1>2, <1>4, <2>1
  <2>2. CASE q # p
    BY <1>1, <1>2, <1>3, <1>4, <2>2 DEF QuietInv
  <2> QED
    BY <2>1, <2>2
<1> QED
  BY <1>4 DEF AloneNext

LEMMA NextQuiet ==
  ASSUME Registry!LoopsReachable', Registry!ConnectionsKnown', \A l \in inTick' : loops'[l.stack] = l, AloneNext
  PROVE  QuietInv'
BY DEF QuietInv, AloneNext, CallAloneNext, CallAlone

\* The stack of a call that is under way is its own; one that starts finds none.
LEMMA OwnStack ==
  ASSUME RegistryTypes, QuietInv, NEW p \in Callers, call[p] # None,
         \A t \in Stacks \ {call[p].stack} : loops'[t] = loops[t] /\ conns'[t] = conns[t]
  PROVE  call[p].stack \in Stacks /\ OnlyStack(p, call[p].stack) /\ CallAlone(call[p])
BY DEF RegistryTypes, RegCalls, QuietInv, OnlyStack

LEMMA NewStack ==
  ASSUME RegistryTypes, ~Overlap, NEW p \in Callers, NEW s \in Stacks, Registry!MayCall(p, s),
         \A t \in Stacks \ {s} : loops'[t] = loops[t] /\ conns'[t] = conns[t]
  PROVE  OnlyStack(p, s) /\ \A l \in inTick : l.stack # s
BY DEF Registry!MayCall, Registry!Quiet, Registry!Busy, OnlyStack

\* Only the calls change, and the one that moves stays with its stack.
LEMMA QuietCallMoves ==
  ASSUME RegistryTypes, QuietInv, NEW p \in Callers, NEW s \in Stacks, NEW x \in RegCalls \cup {None},
         call' = [call EXCEPT ![p] = x], OnlyStack(p, s), RegQuietStep, UNCHANGED <<conns, open>>,
         x # None => x.stack = s /\ CallAlone(x)
  PROVE  QuietInv'
<1>1. AloneNext
  BY AloneMove DEF CallAlone, CallAloneNext, RegQuietStep
<1> QED
  BY <1>1, NextQuiet DEF RegQuietStep, QuietInv, Registry!LoopsReachable, Registry!ConnectionsKnown

LEMMA QuietResolve ==
  ASSUME RegistryConstants, RegistryInv, QuietInv, NEW p \in Callers,
         Registry!ResolveForLoop(p) \/ Registry!Observed(p) \/ Registry!ResolveForTeardown(p)
  PROVE  QuietInv'
<1> DEFINE s == call[p].stack
           n == [n |-> made + 1, stack |-> s]
<1>1. PICK pc \in {"profiles", "done", "purge"} :
        Registry!Resolve(p, pc) /\ (pc = "profiles" => call[p].kind \in {"request", "resume"})
  BY DEF Registry!ResolveForLoop, Registry!Observed, Registry!ResolveForTeardown
<1>2. call[p] # None /\ call[p] \in RegCalls /\ call[p].pc = "url" /\ RegistryTypes
  BY <1>1 DEF Registry!Resolve, Registry!At, RegistryInv, RegistryTypes
<1>3. /\ RegQuietStep
      /\ \E c \in RegConns \cup {Global} :
           /\ Registry!Goto(p, pc, c)
           /\ \/ UNCHANGED <<conns, open>>
              \/ conns' = [conns EXCEPT ![s] = Global] /\ UNCHANGED open
              \/ conns' = [conns EXCEPT ![s] = c] /\ c.stack = s /\ open' = open \cup {c}
  <2>1. n \in RegConns \/ made >= MaxMade
    BY <1>2 DEF RegistryTypes, RegConns, RegCalls, RegistryConstants
  <2>2. made < MaxMade => ~(made >= MaxMade)
    BY <1>2 DEF RegistryTypes, RegistryConstants
  <2>3. n.stack = s
    OBVIOUS
  <2>4. \/ Registry!Goto(p, pc, Global) /\ UNCHANGED <<conns, open>>
        \/ conns' = [conns EXCEPT ![s] = Global] /\ Registry!Goto(p, pc, Global) /\ UNCHANGED open
        \/ made < MaxMade /\ conns' = [conns EXCEPT ![s] = n] /\ open' = open \cup {n} /\ Registry!Goto(p, pc, n)
    BY <1>1 DEF Registry!Resolve
  <2>5. RegQuietStep
    BY <1>1 DEF Registry!Resolve, RegQuietStep
  <2> HIDE DEF n, s
  <2> QED
    BY <2>1, <2>2, <2>3, <2>4, <2>5
<1>4. PICK c \in RegConns \cup {Global} :
        /\ Registry!Goto(p, pc, c)
        /\ \/ UNCHANGED <<conns, open>>
           \/ conns' = [conns EXCEPT ![s] = Global] /\ UNCHANGED open
           \/ conns' = [conns EXCEPT ![s] = c] /\ c.stack = s /\ open' = open \cup {c}
  BY <1>3
<1>5. \A t \in Stacks \ {s} : loops'[t] = loops[t] /\ conns'[t] = conns[t]
  BY <1>2, <1>3, <1>4 DEF RegQuietStep, RegistryTypes
<1>6. s \in Stacks /\ OnlyStack(p, s) /\ CallAlone(call[p])
  BY <1>2, <1>5, OwnStack
<1>7. PICK x \in RegCalls :
        /\ call' = [call EXCEPT ![p] = x]
        /\ x.pc = pc /\ x.conn = c /\ x.kind = call[p].kind /\ x.stack = call[p].stack /\ x.todo = call[p].todo
  BY <1>1, <1>2, <1>4, GotoIs DEF RegPcs
<1>8. AloneNext
  <2>1. CallAloneNext(x)
    BY <1>1, <1>2, <1>3, <1>6, <1>7 DEF CallAlone, CallAloneNext, RegQuietStep
  <2> QED
    BY <1>2, <1>6, <1>7, <2>1, AloneMove
<1>9. Registry!ConnectionsKnown'
  <2>1. conns[s] = None
    BY <1>2, <1>6 DEF CallAlone
  <2>2. \A d \in open : conns[d.stack] = d /\ d.stack \in Stacks /\ d # None
    BY <1>2 DEF QuietInv, Registry!ConnectionsKnown, RegistryTypes, RegConns, RegistryConstants
  <2>3. \A d \in open : conns'[d.stack] = d
    BY <1>5, <2>1, <2>2
  <2>4. CASE UNCHANGED open
    BY <2>3, <2>4 DEF Registry!ConnectionsKnown
  <2>5. CASE conns' = [conns EXCEPT ![s] = c] /\ c.stack = s /\ open' = open \cup {c}
    <3>1. conns'[c.stack] = c
      BY <1>2, <1>6, <2>5 DEF RegistryTypes
    <3> QED
      BY <2>3, <2>5, <3>1 DEF Registry!ConnectionsKnown
  <2> QED
    BY <1>4, <2>4, <2>5
<1>10. Registry!LoopsReachable' /\ \A l \in inTick' : loops'[l.stack] = l
  BY <1>3 DEF RegQuietStep, QuietInv, Registry!LoopsReachable
<1> QED
  BY <1>8, <1>9, <1>10, NextQuiet

\* The step to a resume's next workspace: nobody is at that one.
LEMMA QuietContinue ==
  ASSUME RegistryConstants, RegistryInv, QuietInv, ~Overlap, NEW p \in Callers, call[p] # None, Registry!Continue(p),
         \A t \in Stacks \ {call[p].stack} : loops'[t] = loops[t], conns' = conns
  PROVE  AloneNext
<1>1. PICK x \in RegCalls \cup {None} :
        /\ call' = [call EXCEPT ![p] = x]
        /\ x = None => call[p].kind # "resume" \/ call[p].todo = {}
        /\ x # None =>
             /\ call[p].kind = "resume" /\ x.kind = "resume" /\ x.conn = None
             /\ x.stack \in call[p].todo /\ x.todo = call[p].todo \ {x.stack}
             /\ x.pc = IF loops[x.stack] = None THEN "s3" ELSE "have"
             /\ Overlap \/ ~Registry!Busy(x.stack)
  BY ContinueGives
<1>2. RegistryTypes
  BY DEF RegistryInv
<1>3. call[p].stack \in Stacks /\ OnlyStack(p, call[p].stack)
  BY <1>2, OwnStack
<1>4. x # None => x.stack \in Stacks \ {call[p].stack}
  BY <1>1 DEF Registry!Busy, RegCalls
<1>5. x # None => CallAloneNext(x)
  BY <1>1, <1>4 DEF CallAloneNext
<1> QED
  BY <1>1, <1>2, <1>3, <1>5, AloneMove

LEMMA QuietCreate ==
  ASSUME RegistryConstants, RegistryInv, QuietInv, ~Overlap, NEW p \in Callers, Registry!Create(p)
  PROVE  QuietInv'
<1> DEFINE s == call[p].stack
           l == [n |-> made + 1, stack |-> s, conn |-> call[p].conn]
<1>1. /\ call[p] # None /\ call[p] \in RegCalls /\ s \in Stacks /\ call[p].pc = "profiles" /\ loops[s] = None
      /\ Registry!Continue(p) /\ UNCHANGED <<inTick, conns, open>>
  BY DEF Registry!Create, Registry!At, RegistryInv, RegistryTypes, RegCalls, QuietInv, CallAlone
<1>2. loops' = [loops EXCEPT ![s] = l] /\ ticking' = ticking \cup {l} /\ l.stack = s
  BY DEF Registry!Create
<1> HIDE DEF l
<1>3. loops \in [Stacks -> RegLoops \cup {None}]
  BY DEF RegistryInv, RegistryTypes
<1>4. /\ loops'[s] = l /\ \A t \in Stacks \ {s} : loops'[t] = loops[t]
  BY <1>1, <1>2, <1>3
<1>5. AloneNext
  BY <1>1, <1>4, QuietContinue
<1>6. \A m \in ticking \cup inTick : m.stack \in Stacks \ {s} /\ loops[m.stack] = m
  BY <1>1 DEF RegistryInv, RegistryTypes, RegLoops, QuietInv, Registry!LoopsReachable, RegistryConstants
<1>7. Registry!LoopsReachable' /\ \A m \in inTick' : loops'[m.stack] = m
  BY <1>1, <1>2, <1>4, <1>6 DEF Registry!LoopsReachable
<1>8. Registry!ConnectionsKnown'
  BY <1>1 DEF QuietInv, Registry!ConnectionsKnown
<1> QED
  BY <1>5, <1>7, <1>8, NextQuiet

LEMMA QuietTear ==
  ASSUME RegistryConstants, RegistryInv, QuietInv, ~Overlap, NEW p \in Callers, NEW s \in Stacks, Registry!Teardown(p, s)
  PROVE  QuietInv'
<1> DEFINE y == Registry!Call("teardown", s, IF conns[s] = None THEN "url" ELSE "purge", {})
           x == [y EXCEPT !.conn = conns[s]]
<1>1. /\ y \in RegCalls /\ y.kind = "teardown" /\ y.stack = s /\ y.pc = IF conns[s] = None THEN "url" ELSE "purge"
  BY CallIs DEF RegKinds, RegPcs
<1>2. /\ call' = [call EXCEPT ![p] = x] /\ Registry!MayCall(p, s)
      /\ loops' = [loops EXCEPT ![s] = None] /\ ticking' = ticking \ {loops[s]} /\ UNCHANGED <<inTick, conns, open>>
  BY DEF Registry!Teardown
<1> HIDE DEF y
<1>3. RegistryTypes
  BY DEF RegistryInv
<1>4. x \in RegCalls /\ x.kind = "teardown" /\ x.stack = s /\ x.pc = y.pc
  BY <1>1, <1>3 DEF RegCalls, RegistryTypes
<1> HIDE DEF x
<1>5. loops'[s] = None /\ \A t \in Stacks \ {s} : loops'[t] = loops[t] /\ conns'[t] = conns[t]
  BY <1>2, <1>3 DEF RegistryTypes
<1>6. OnlyStack(p, s) /\ \A l \in inTick : l.stack # s
  BY <1>2, <1>3, <1>5, NewStack
<1>7. AloneNext
  BY <1>1, <1>2, <1>3, <1>4, <1>6, AloneMove DEF CallAloneNext
<1>8. \A l \in ticking' : l.stack \in Stacks \ {s} /\ loops[l.stack] = l
  BY <1>2, <1>3 DEF RegistryTypes, RegLoops, QuietInv, Registry!LoopsReachable
<1>9. \A l \in inTick' : l.stack \in Stacks \ {s} /\ loops[l.stack] = l
  BY <1>2, <1>3, <1>6 DEF RegistryTypes, RegLoops, QuietInv
<1> QED
  BY <1>2, <1>5, <1>7, <1>8, <1>9, NextQuiet DEF Registry!LoopsReachable, QuietInv, Registry!ConnectionsKnown

LEMMA QuietPurge ==
  ASSUME RegistryConstants, RegistryInv, QuietInv, NEW p \in Callers, Registry!Purge(p)
  PROVE  QuietInv'
<1> DEFINE s == call[p].stack
<1>1. /\ call[p] # None /\ call' = [call EXCEPT ![p] = None] /\ UNCHANGED <<loops, ticking, inTick>>
      /\ open' = open \ {conns[s]} /\ conns' = [conns EXCEPT ![s] = None]
  BY DEF Registry!Purge, Registry!At
<1>2. RegistryTypes
  BY DEF RegistryInv
<1>3. \A t \in Stacks \ {s} : loops'[t] = loops[t] /\ conns'[t] = conns[t]
  BY <1>1, <1>2 DEF RegistryTypes
<1>4. s \in Stacks /\ OnlyStack(p, s)
  BY <1>1, <1>2, <1>3, OwnStack
<1>5. AloneNext
  BY <1>1, <1>2, <1>4, AloneMove
<1>6. Registry!ConnectionsKnown'
  <2>1. \A c \in open' : conns[c.stack] = c /\ c.stack \in Stacks \ {s}
    BY <1>1, <1>2 DEF QuietInv, Registry!ConnectionsKnown, RegistryTypes, RegConns
  <2> QED
    BY <1>3, <2>1 DEF Registry!ConnectionsKnown
<1> QED
  BY <1>1, <1>5, <1>6, NextQuiet DEF Registry!LoopsReachable, QuietInv

LEMMA QuietResume ==
  ASSUME RegistryConstants, RegistryInv, QuietInv, NEW p \in Callers, Registry!Resume(p)
  PROVE  QuietInv'
<1> DEFINE found == {h[1] : h \in {k \in held : k[2] \in Registry!Known \ down}}
<1>1. found \subseteq Stacks /\ RegistryTypes
  BY DEF RegistryInv, RegistryTypes
<1>2. UNCHANGED <<loops, ticking, inTick, conns, open>> /\ \A t \in Stacks : ~Registry!Busy(t)
  BY DEF Registry!Resume
<1>3. CASE found = {}
  <2>1. call' = call
    BY <1>3 DEF Registry!Resume
  <2> QED
    BY <1>2, <2>1 DEF QuietInv, Registry!LoopsReachable, Registry!ConnectionsKnown, CallAlone
<1>4. CASE found # {}
  <2>1. PICK s \in found :
          call' = [call EXCEPT ![p] = Registry!Call("resume", s, IF loops[s] = None THEN "s3" ELSE "have", found \ {s})]
    BY <1>4 DEF Registry!Resume
  <2> HIDE DEF found
  <2> DEFINE x == Registry!Call("resume", s, IF loops[s] = None THEN "s3" ELSE "have", found \ {s})
  <2>2. /\ x \in RegCalls /\ x.kind = "resume" /\ x.stack = s /\ x.pc = IF loops[s] = None THEN "s3" ELSE "have"
    BY <1>1, <2>1, CallIs DEF RegKinds, RegPcs
  <2>3. call' = [call EXCEPT ![p] = x]
    BY <2>1
  <2> HIDE DEF x
  <2>4. OnlyStack(p, s) /\ s \in Stacks
    BY <1>1, <1>2, <2>1 DEF OnlyStack, Registry!Busy
  <2>5. AloneNext
    BY <1>1, <1>2, <2>2, <2>3, <2>4, AloneMove DEF CallAloneNext
  <2> QED
    BY <1>2, <2>5, NextQuiet DEF Registry!LoopsReachable, QuietInv, Registry!ConnectionsKnown
<1> QED
  BY <1>3, <1>4

LEMMA QuietStep ==
  ASSUME RegistryConstants, RegistryInv, QuietInv, ~Overlap, [Registry!Next]_(Registry!vars)
  PROVE  QuietInv'
<1>1. RegistryTypes
  BY DEF RegistryInv
<1>2. ASSUME NEW p \in Callers, NEW s \in Stacks, Registry!Request(p, s) \/ Registry!Observe(p, s) PROVE QuietInv'
  <2>1. PICK x \in RegCalls : call' = [call EXCEPT ![p] = x] /\ x.stack = s /\ CallAlone(x)
    <3>1. CASE Registry!Request(p, s)
      <4> DEFINE x == Registry!Call("request", s, "s3", {})
      <4>1. x \in RegCalls /\ x.kind = "request" /\ x.pc = "s3" /\ x.stack = s
        BY CallIs DEF RegKinds, RegPcs
      <4>2. call' = [call EXCEPT ![p] = x] /\ loops[s] = None
        BY <3>1 DEF Registry!Request
      <4> HIDE DEF x
      <4> QED
        BY <4>1, <4>2 DEF CallAlone
    <3>2. CASE Registry!Observe(p, s)
      <4> DEFINE x == Registry!Call("observe", s, "url", {})
      <4>1. x \in RegCalls /\ x.kind = "observe" /\ x.pc = "url" /\ x.stack = s
        BY CallIs DEF RegKinds, RegPcs
      <4>2. call' = [call EXCEPT ![p] = x] /\ conns[s] = None
        BY <3>2 DEF Registry!Observe
      <4> HIDE DEF x
      <4> QED
        BY <4>1, <4>2 DEF CallAlone
    <3> QED
      BY <1>2, <3>1, <3>2
  <2>2. RegQuietStep /\ UNCHANGED <<conns, open>> /\ Registry!MayCall(p, s)
    BY <1>2 DEF Registry!Request, Registry!Observe, RegQuietStep
  <2>3. OnlyStack(p, s)
    BY <1>1, <2>2, NewStack DEF RegQuietStep
  <2> QED
    BY <1>1, <2>1, <2>2, <2>3, QuietCallMoves
<1>3. ASSUME NEW p \in Callers, Registry!GotS3(p) PROVE QuietInv'
  <2>1. /\ call[p] # None /\ call[p] \in RegCalls /\ call[p].pc = "s3"
        /\ RegQuietStep /\ UNCHANGED <<conns, open>>
    BY <1>1, <1>3 DEF Registry!GotS3, Registry!At, RegistryTypes, RegQuietStep
  <2>2. call[p].stack \in Stacks /\ OnlyStack(p, call[p].stack) /\ CallAlone(call[p])
    BY <1>1, <2>1, OwnStack DEF RegQuietStep
  <2>3. PICK c \in RegConns \cup {Global, None}, pc \in {"profiles", "url"} :
          Registry!Goto(p, pc, c) /\ (pc = "url" => conns[call[p].stack] = None)
    BY <1>1, <1>3, <2>2 DEF Registry!GotS3, RegistryTypes
  <2>4. PICK x \in RegCalls :
        /\ call' = [call EXCEPT ![p] = x]
        /\ x.pc = pc /\ x.conn = c /\ x.kind = call[p].kind /\ x.stack = call[p].stack /\ x.todo = call[p].todo
    BY <1>1, <2>1, <2>3, GotoIs DEF RegPcs
  <2>5. CallAlone(x)
    BY <2>1, <2>2, <2>3, <2>4 DEF CallAlone
  <2> QED
    BY <1>1, <2>1, <2>2, <2>4, <2>5, QuietCallMoves
<1>4. ASSUME NEW p \in Callers, Registry!Answer(p) \/ Registry!Rejects(p) PROVE QuietInv'
  <2>1. call[p] # None /\ call' = [call EXCEPT ![p] = None] /\ RegQuietStep /\ UNCHANGED <<conns, open>>
    BY <1>4 DEF Registry!Answer, Registry!Rejects, Registry!At, RegQuietStep
  <2>2. call[p].stack \in Stacks /\ OnlyStack(p, call[p].stack)
    BY <1>1, <2>1, OwnStack DEF RegQuietStep
  <2> QED
    BY <1>1, <2>1, <2>2, QuietCallMoves
<1>5. ASSUME NEW p \in Callers, Registry!Fails(p) \/ Registry!Have(p) PROVE QuietInv'
  <2>1. call[p] # None /\ Registry!Continue(p) /\ UNCHANGED <<loops, ticking, inTick, conns, open>>
    BY <1>5 DEF Registry!Fails, Registry!Have, Registry!At
  <2>2. AloneNext
    BY <2>1, QuietContinue
  <2> QED
    BY <2>1, <2>2, NextQuiet DEF Registry!LoopsReachable, QuietInv, Registry!ConnectionsKnown
<1>6. ASSUME NEW l \in ticking \cup inTick, Registry!TickStart(l) \/ Registry!TickEnd(l) PROVE QuietInv'
  <2>1. /\ UNCHANGED <<loops, ticking, conns, open, call>> /\ inTick' \subseteq inTick \cup {l}
    BY <1>6 DEF Registry!TickStart, Registry!TickEnd
  <2>2. loops[l.stack] = l
    BY <1>6 DEF QuietInv, Registry!LoopsReachable
  <2> QED
    BY <2>1, <2>2 DEF Registry!LoopsReachable, QuietInv, Registry!ConnectionsKnown, CallAlone
<1>7. ASSUME NEW s, Registry!Provisioned(s) \/ Registry!Outage(s) PROVE QuietInv'
  BY <1>7 DEF Registry!Provisioned, Registry!Outage, Registry!LoopsReachable, QuietInv,
     Registry!ConnectionsKnown, CallAlone
<1>8. CASE UNCHANGED Registry!vars
  BY <1>8 DEF Registry!vars, Registry!LoopsReachable, QuietInv, Registry!ConnectionsKnown, CallAlone
<1> QED
  BY <1>2, <1>3, <1>4, <1>5, <1>6, <1>7, <1>8, QuietResolve, QuietCreate, QuietTear, QuietPurge,
     QuietResume DEF Registry!Next

\* Only a tick that ends writes a key, for a loop the map has.
LEMMA CleanStep ==
  ASSUME RegistryConstants, RegistryInv, QuietInv, [Registry!Next]_(Registry!vars)
  PROVE  Registry!TornDownClean
<1>1. CASE \E l \in ticking \cup inTick : Registry!TickEnd(l)
  <2>1. PICK l \in inTick : Registry!TickEnd(l)
    BY <1>1 DEF Registry!TickEnd
  <2>2. held' \subseteq held \cup {<<l.stack, Registry!Store(l.conn)>>} /\ loops[l.stack] = l
    BY <2>1 DEF Registry!TickEnd, QuietInv
  <2> SUFFICES ASSUME NEW s \in Stacks, NEW c, <<s, Registry!Store(c)>> \in held' \ held
               PROVE  \E m \in inTick : m.stack = s /\ loops[s] = m
    BY DEF Registry!TornDownClean
  <2>3. <<s, Registry!Store(c)>> = <<l.stack, Registry!Store(l.conn)>>
    BY <2>2
  <2>4. s = l.stack
    BY <2>3
  <2> QED
    BY <2>2, <2>4
<1>2. CASE ~\E l \in ticking \cup inTick : Registry!TickEnd(l)
  <2>1. held' \subseteq held
    BY <1>2 DEF Registry!Next, Registry!vars, Registry!Request, Registry!Observe, Registry!Teardown,
       Registry!GotS3, Registry!Fails, Registry!ResolveForLoop, Registry!Observed, Registry!ResolveForTeardown,
       Registry!Resolve, Registry!Create, Registry!Have, Registry!Answer, Registry!Rejects, Registry!Purge, Registry!Resume, Registry!TickStart, Registry!Provisioned, Registry!Outage
  <2> QED
    BY <2>1 DEF Registry!TornDownClean
<1> QED
  BY <1>1, <1>2

LEMMA QuietHolds ==
  ASSUME RegistryConstants, ~Overlap
  PROVE  Registry!Spec => [](RegistryInv /\ QuietInv)
<1>1. Registry!Init => QuietInv
  BY DEF Registry!Init, QuietInv, Registry!LoopsReachable, Registry!ConnectionsKnown
<1>2. RegistryInv /\ QuietInv /\ [Registry!Next]_(Registry!vars) => QuietInv'
  BY QuietStep
<1> QED
  BY <1>1, <1>2, RegistryHolds, PTL DEF Registry!Spec

(* With calls for a stack one at a time and a teardown that waits for its tick, a loop
   that ticks and a connection that is open stand in the maps a teardown walks, so
   there are never more connections than stacks; and no key of a stack is written but by
   a tick of the loop that stands there. *)
THEOREM RegistryTrue ==
  ASSUME RegistryConstants, ~Overlap
  PROVE  Registry!Spec => [](Registry!TypeOK /\ Registry!LoopsReachable /\ Registry!ConnectionsKnown) /\ [][Registry!TornDownClean]_(Registry!vars)
<1>1. RegistryInv /\ QuietInv => Registry!TypeOK /\ Registry!LoopsReachable /\ Registry!ConnectionsKnown
  <2> SUFFICES ASSUME RegistryInv, QuietInv PROVE Registry!TypeOK /\ Registry!LoopsReachable /\ Registry!ConnectionsKnown
    OBVIOUS
  <2>1. Registry!LoopsReachable /\ Registry!ConnectionsKnown
    BY DEF QuietInv
  <2>2. Registry!TypeOK
    BY DEF RegistryInv, RegistryTypes, Registry!TypeOK, RegCalls, RegPcs
  <2> QED
    BY <2>1, <2>2
<1>2. RegistryInv /\ QuietInv /\ [Registry!Next]_(Registry!vars) => Registry!TornDownClean
  BY CleanStep
<1> QED
  BY <1>1, <1>2, QuietHolds, PTL DEF Registry!Spec
=============================================================================
