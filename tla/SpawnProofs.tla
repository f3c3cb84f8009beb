---------------------------- MODULE SpawnProofs ----------------------------
(***************************************************************************)
(* The spawn life cycle, for every finite set of workspaces, every set of  *)
(* numbers and every limit.                                                *)
(***************************************************************************)
EXTENDS SpawnLifecycle, FiniteSetTheorems, TLAPS

\* What the code's configuration guarantees of the constants.
SpawnConstants ==
  /\ IsFiniteSet(Workspaces)
  /\ SlotLimit \in Nat /\ MaxJobs \in Nat /\ MaxFaults \in Nat
  /\ MaxCrashes \in Nat /\ MaxAttempts \in Nat \ {0}

-----------------------------------------------------------------------------
(* The inductive invariant of the slots. *)

Creating == {"create", "probe", "listener"}
Spawning == Creating \cup {"wait", "cleanup"}

\* A tick deals with names of its own workspace, and holds a slot exactly
\* while it creates, or while it cleans up after a create that failed.
LocalOK(w, l) ==
  /\ l \in Local
  /\ l.todo \subseteq Owned(w)
  /\ l.at \in Spawning \cup {"teardown"} => l.name \in Owned(w)
  /\ l.at \in Creating => l.slot
  /\ l.slot => l.at \in Creating \cup {"cleanup"}
LocalsInv ==
  /\ tick \in [Workspaces -> Local]
  /\ \A w \in Workspaces : LocalOK(w, tick[w])

\* The limiter counts the ticks that hold a slot.
Holding == {w \in Workspaces : tick[w].slot}
SlotsInv == slots = Cardinality(Holding) /\ slots <= SlotLimit

\* The types of everything outside the process.
WorldOK ==
  /\ enc \in [Names -> EncStates]
  /\ lis \in [Names -> {"none", "starting", "running"}]
  /\ work \in [Names -> {"no", "encode", "package"}]
  /\ pool \in [Names -> Record] /\ seen \in [Names -> {"no", "new", "late"}]
  /\ queue \in [Workspaces -> Nat] /\ left \in [Workspaces -> Nat]
  /\ fail \in [Workspaces -> {"no", "held", "plain"}]
  /\ killed \subseteq Names /\ blind \subseteq Names
  /\ faults \in 0 .. MaxFaults /\ crashes \in 0 .. MaxCrashes

SpawnInv == WorldOK /\ LocalsInv /\ SlotsInv

\* How a step of workspace w's tick leaves its locals and the slots.
TickKept(w) == tick'[w].slot = tick[w].slot /\ slots' = slots
TickReleased(w) == tick'[w].slot = FALSE /\ slots' = Released(w)
TickTook(w) ==
  /\ tick'[w].slot = TRUE /\ tick[w].slot = FALSE
  /\ slots' = slots + 1 /\ slots < SlotLimit
Moves(w) ==
  /\ tick' \in [Workspaces -> Local]
  /\ \A v \in Workspaces \ {w} : tick'[v] = tick[v]
  /\ LocalOK(w, tick'[w])
  /\ TickKept(w) \/ TickReleased(w) \/ TickTook(w)

-----------------------------------------------------------------------------
(* Slots. *)

\* Whatever a tick does with its slot, the limiter's count stays right.
LEMMA SlotsMove ==
  ASSUME SpawnConstants, SpawnInv, NEW w \in Workspaces, Moves(w)
  PROVE  LocalsInv' /\ SlotsInv'
<1>1. LocalsInv'
  BY DEF SpawnInv, LocalsInv, Moves
<1>2. SlotsInv'
  <2>1. IsFiniteSet(Holding) /\ Cardinality(Holding) \in Nat
    BY FS_Subset, FS_CardinalityType DEF SpawnConstants, Holding
  <2>2. tick[w].slot \in BOOLEAN /\ tick'[w].slot \in BOOLEAN
    BY DEF SpawnInv, LocalsInv, Moves, Local
  <2>3. CASE tick'[w].slot = tick[w].slot /\ slots' = slots
    <3>1. Holding' = Holding
      BY <2>3 DEF Moves, Holding
    <3> QED BY <3>1, <2>3 DEF SpawnInv, SlotsInv
  <2>4. CASE tick'[w].slot = FALSE /\ tick[w].slot = TRUE /\ slots' = slots - 1
    <3>1. Holding' = Holding \ {w} /\ w \in Holding
      BY <2>4 DEF Moves, Holding
    <3>2. Cardinality(Holding \ {w}) = Cardinality(Holding) - 1
      BY <3>1, <2>1, FS_RemoveElement
    <3> QED BY <3>1, <3>2, <2>1, <2>4 DEF SpawnInv, SlotsInv, SpawnConstants
  <2>5. CASE TickTook(w)
    <3>1. Holding' = Holding \cup {w} /\ w \notin Holding
      BY <2>5 DEF Moves, Holding, TickTook
    <3>2. Cardinality(Holding \cup {w}) = Cardinality(Holding) + 1
      BY <3>1, <2>1, FS_AddElement
    <3> QED BY <3>1, <3>2, <2>1, <2>5
            DEF SpawnInv, SlotsInv, SpawnConstants, TickTook
  <2> QED BY <2>2, <2>3, <2>4, <2>5 DEF Moves, TickKept, TickReleased, Released
<1> QED BY <1>1, <1>2

-----------------------------------------------------------------------------
(* Locals. *)

LEMMA MovesTo ==
  ASSUME SpawnInv, NEW w \in Workspaces, NEW l, LocalOK(w, l),
         tick' = [tick EXCEPT ![w] = l],
         \/ l.slot = tick[w].slot /\ slots' = slots
         \/ l.slot = FALSE /\ slots' = Released(w)
         \/ l.slot = TRUE /\ tick[w].slot = FALSE /\ slots' = slots + 1
            /\ slots < SlotLimit
  PROVE  Moves(w)
BY DEF SpawnInv, LocalsInv, LocalOK, Moves, TickKept, TickReleased, TickTook

LEMMA GoneRecord == Gone \in Record /\ \A url \in BOOLEAN : Ready(url) \in Record /\ Pending(url) \in Record
BY DEF Gone, Ready, Pending, Record

LEMMA SlotsNat ==
  ASSUME SpawnConstants, SpawnInv
  PROVE  slots \in Nat
BY FS_Subset, FS_CardinalityType
   DEF SpawnConstants, SpawnInv, SlotsInv, Holding

LEMMA IdleLocal ==
  ASSUME SpawnConstants
  PROVE  /\ Idle \in Local /\ Idle.slot = FALSE /\ Idle.todo = {}
         /\ Idle.name = None /\ Idle.at = "idle"
BY GoneRecord DEF Idle, Local, Steps, SpawnConstants

LEMMA RecordWith ==
  ASSUME NEW r \in Record
  PROVE  /\ [r EXCEPT !.drain = TRUE] \in Record
         /\ \A b \in BOOLEAN : [r EXCEPT !.aged = b] \in Record
         /\ [r EXCEPT !.pend = "late"] \in Record
         /\ [r EXCEPT !.block = "no"] \in Record
         /\ \A t \in {"no", "probing", "late", "ready", "unusable",
                     "quarantined"} : [r EXCEPT !.trust = t] \in Record
BY DEF Record

\* The names a tick goes through are its own.
LEMMA OwnNames ==
  ASSUME NEW w \in Workspaces
  PROVE  /\ Owned(w) \subseteq Names
         /\ Tracked(w) \subseteq Owned(w) /\ Usable(w) \subseteq Owned(w)
BY DEF Owned, Names, Tracked, Usable

\* What the resolver finds out changes neither the record's deadline nor its
\* place in the pool, and promotes only with a running listener.
LEMMA ResolutionFacts ==
  ASSUME WorldOK, NEW n \in Names, NEW r \in Resolutions(n)
  PROVE  /\ r.lis \in {"none", "starting", "running"}
         /\ r.rec \in Record /\ r.rec.pend = pool[n].pend
         /\ r.rec.in = pool[n].in /\ r.cost \in {0, 1}
         /\ r.up \in BOOLEAN /\ (r.up => r.lis = "running")
<1> DEFINE rec == pool[n]
           l == IF lis[n] = "none" THEN "starting" ELSE lis[n]
<1>1. /\ rec \in Record /\ lis[n] \in {"none", "starting", "running"}
      /\ l \in {"none", "starting", "running"}
  BY DEF WorldOK
<1>2. /\ [rec EXCEPT !.url = TRUE] \in Record
      /\ \A b \in {"wait", "never"} : [rec EXCEPT !.block = b] \in Record
  BY <1>1 DEF Record
<1>3. /\ [rec EXCEPT !.url = TRUE].pend = rec.pend
      /\ [rec EXCEPT !.url = TRUE].in = rec.in
      /\ \A b \in {"wait", "never"} : /\ [rec EXCEPT !.block = b].pend = rec.pend
                                     /\ [rec EXCEPT !.block = b].in = rec.in
  BY <1>1 DEF Record
<1>4. \/ r = Resolution(lis[n], rec, FALSE, 1)
      \/ r = Resolution(lis[n], rec, FALSE, 0)
      \/ r = Resolution(lis[n], rec, lis[n] = "running", 0)
      \/ r = Resolution(l, [rec EXCEPT !.url = TRUE], l = "running", 0)
      \/ \E b \in {"wait", "never"} :
           r = Resolution(lis[n], [rec EXCEPT !.block = b], FALSE, 1)
  BY DEF Resolutions, Resolution
<1> DEFINE Fact == /\ r.lis \in {"none", "starting", "running"}
                   /\ r.rec \in Record /\ r.rec.pend = rec.pend
                   /\ r.rec.in = rec.in /\ r.cost \in {0, 1}
                   /\ r.up \in BOOLEAN /\ (r.up => r.lis = "running")
<1> SUFFICES Fact
  OBVIOUS
<1> HIDE DEF rec, l
<1>5. CASE r = Resolution(lis[n], rec, FALSE, 1)
  BY <1>1, <1>5 DEF Resolution
<1>6. CASE r = Resolution(lis[n], rec, FALSE, 0)
  BY <1>1, <1>6 DEF Resolution
<1>7. CASE r = Resolution(lis[n], rec, lis[n] = "running", 0)
  BY <1>1, <1>7 DEF Resolution
<1>8. CASE r = Resolution(l, [rec EXCEPT !.url = TRUE], l = "running", 0)
  <2> DEFINE u == [rec EXCEPT !.url = TRUE]
  <2>1. u \in Record /\ u.pend = rec.pend /\ u.in = rec.in
    BY <1>2, <1>3
  <2>2. r = Resolution(l, u, l = "running", 0)
    BY <1>8
  <2> HIDE DEF u
  <2> QED BY <1>1, <2>1, <2>2 DEF Resolution
<1>9. ASSUME NEW b \in {"wait", "never"},
             r = Resolution(lis[n], [rec EXCEPT !.block = b], FALSE, 1)
      PROVE  Fact
  <2> DEFINE u == [rec EXCEPT !.block = b]
  <2>1. u \in Record /\ u.pend = rec.pend /\ u.in = rec.in
    BY <1>2, <1>3
  <2>2. r = Resolution(lis[n], u, FALSE, 1)
    BY <1>9
  <2> HIDE DEF u
  <2> QED BY <1>1, <2>1, <2>2 DEF Resolution
<1> QED BY <1>4, <1>5, <1>6, <1>7, <1>8, <1>9

\* The locals with which the scale-down starts.
LEMMA DownLocal ==
  ASSUME SpawnConstants, NEW w \in Workspaces
  PROVE  /\ LocalOK(w, [Idle EXCEPT !.at = "down", !.todo = Usable(w)])
         /\ [Idle EXCEPT !.at = "down", !.todo = Usable(w)].slot = FALSE
<1> DEFINE todo == Usable(w)
<1>1. todo \in SUBSET Owned(w) /\ todo \in SUBSET Names
  BY OwnNames
<1> HIDE DEF todo
<1>2. /\ LocalOK(w, [Idle EXCEPT !.at = "down", !.todo = todo])
      /\ [Idle EXCEPT !.at = "down", !.todo = todo].slot = FALSE
  BY <1>1, IdleLocal DEF LocalOK, Local, Steps, Spawning, Creating
<1> QED BY <1>2 DEF todo

\* The start of a tick, the resolver and the gate.
LEMMA GateMoves ==
  ASSUME SpawnConstants, SpawnInv, NEW w \in Workspaces,
         Resume(w) \/ TickStart(w) \/ Teardown(w) \/ Gate(w)
  PROVE  Moves(w)
<1>0. LocalOK(w, tick[w])
  BY DEF SpawnInv, LocalsInv
<1>1. ASSUME Resume(w) PROVE Moves(w)
  <2>1. PICK at \in {"off", "idle"} : tick' = [tick EXCEPT ![w].at = at]
    BY <1>1 DEF Resume, Go
  <2> DEFINE l == [tick[w] EXCEPT !.at = at]
  <2>2. tick' = [tick EXCEPT ![w] = l]
    BY <2>1
  <2>3. tick[w].at = "boot" /\ slots' = slots
    BY <1>1 DEF Resume
  <2>4. LocalOK(w, l) /\ l.slot = tick[w].slot
    BY <1>0, <2>3 DEF LocalOK, Local, Steps, Spawning, Creating
  <2> HIDE DEF l
  <2> QED BY <2>2, <2>3, <2>4, MovesTo
<1>2. ASSUME TickStart(w) PROVE Moves(w)
  <2>1. PICK todo \in SUBSET Owned(w) :
          tick' = [tick EXCEPT ![w].at = "resolve", ![w].todo = todo]
    BY <1>2 DEF TickStart, Tracked
  <2> DEFINE l == [tick[w] EXCEPT !.at = "resolve", !.todo = todo]
  <2>2. tick' = [tick EXCEPT ![w] = l]
    BY <2>1, <1>0 DEF SpawnInv, LocalsInv, Local
  <2>3. tick[w].at = "idle" /\ slots' = slots
    BY <1>2 DEF TickStart
  <2>4. LocalOK(w, l) /\ l.slot = tick[w].slot
    BY <1>0, <2>3, ZenonT(30) DEF LocalOK, Local, Steps, Spawning, Creating, Owned, Names
  <2> HIDE DEF l
  <2> QED BY <2>2, <2>3, <2>4, MovesTo
<1>3. ASSUME Teardown(w) PROVE Moves(w)
  <2> DEFINE l == [tick[w] EXCEPT !.at = "resolve", !.name = None, !.rec = Gone]
  <2>1. tick' = [tick EXCEPT ![w] = l]
    BY <1>3, <1>0 DEF Teardown, SpawnInv, LocalsInv, Local
  <2>2. tick[w].at = "teardown" /\ slots' = slots
    BY <1>3 DEF Teardown
  <2>3. LocalOK(w, l) /\ l.slot = tick[w].slot
    BY <1>0, <2>2, GoneRecord
       DEF LocalOK, Local, Steps, Spawning, Creating
  <2> HIDE DEF l
  <2> QED BY <2>1, <2>2, <2>3, MovesTo
<1>4. ASSUME Gate(w) PROVE Moves(w)
  <2>1. tick[w].at = "resolve" /\ tick[w].slot = FALSE
    BY <1>4, <1>0 DEF Gate, LocalOK, Local, Creating
  <2>2. CASE WantsInstance(w) /\ ~HeldOff(w) /\ \E n \in Owned(w) : Fresh(n)
    <3> DEFINE l(n) == [Idle EXCEPT !.at = "create", !.name = n, !.try = 1,
                                    !.slot = TRUE]
    <3>1. PICK n \in Owned(w) : /\ slots' = slots + 1
                               /\ tick' = [tick EXCEPT ![w] = l(n)]
      BY <1>4, <2>2 DEF Gate
    <3>2. slots < SlotLimit
      <4>1. slots \in Nat /\ SlotLimit \in Nat
        BY SlotsNat DEF SpawnConstants
      <4>2. ~(slots >= SlotLimit)
        BY <2>2, Zenon DEF HeldOff
      <4> QED BY <4>1, <4>2
    <3>3. LocalOK(w, l(n)) /\ l(n).slot = TRUE
      <4>1. 1 \in 0 .. MaxAttempts /\ n \in Names
        BY OwnNames DEF SpawnConstants
      <4>2. l(n) \in Local
        BY <4>1, IdleLocal DEF Local, Steps
      <4>3. /\ l(n).at = "create" /\ l(n).slot = TRUE
            /\ l(n).name = n /\ l(n).todo = {}
        BY IdleLocal DEF Local
      <4> HIDE DEF l
      <4> QED BY <4>2, <4>3 DEF LocalOK, Spawning, Creating
    <3> HIDE DEF l
    <3> QED BY <3>1, <3>2, <3>3, <2>1, MovesTo
  <2>3. CASE ~(WantsInstance(w) /\ ~HeldOff(w) /\ \E n \in Owned(w) : Fresh(n))
    <3> DEFINE l == [Idle EXCEPT !.at = "down", !.todo = Usable(w)]
    <3>1. tick' = [tick EXCEPT ![w] = l] /\ slots' = slots
      BY <1>4, <2>3 DEF Gate
    <3>2. LocalOK(w, l) /\ l.slot = FALSE
      BY DownLocal
    <3> HIDE DEF l
    <3> QED BY <3>1, <3>2, <2>1, MovesTo
  <2> QED BY <2>2, <2>3
<1> QED BY <1>1, <1>2, <1>3, <1>4

\* A spawn that fails lets go of its slot and goes on to the scale-down.
LEMMA FailedMoves ==
  ASSUME SpawnConstants, SpawnInv, NEW w \in Workspaces, NEW kind,
         SpawnFailed(w, kind)
  PROVE  Moves(w)
<1> DEFINE l == [Idle EXCEPT !.at = "down", !.todo = Usable(w)]
<1>1. tick' = [tick EXCEPT ![w] = l] /\ slots' = Released(w)
  BY DEF SpawnFailed
<1>2. LocalOK(w, l) /\ l.slot = FALSE
  BY DownLocal
<1> HIDE DEF l
<1> QED BY <1>1, <1>2, MovesTo

\* Creating the instance, and waiting for one whose create timed out.
LEMMA CreateMoves ==
  ASSUME SpawnConstants, SpawnInv, NEW w \in Workspaces,
         Create(w) \/ ProbeTimedOut(w)
  PROVE  Moves(w)
<1>0. LocalOK(w, tick[w])
  BY DEF SpawnInv, LocalsInv
<1>1. ASSUME \E kind : SpawnFailed(w, kind) PROVE Moves(w)
  BY <1>1, FailedMoves
<1>2. ASSUME tick[w].at \in {"create", "probe"}, slots' = slots,
             NEW a \in BOOLEAN,
             tick' = [tick EXCEPT ![w].at = "listener", ![w].try = 1,
                                  ![w].adopted = a]
      PROVE  Moves(w)
  <2> DEFINE l == [tick[w] EXCEPT !.at = "listener", !.try = 1, !.adopted = a]
  <2>1. tick' = [tick EXCEPT ![w] = l]
    <3>1. CASE a = TRUE
      BY <3>1, <1>2, <1>0 DEF SpawnInv, LocalsInv, Local
    <3>2. CASE a = FALSE
      BY <3>2, <1>2, <1>0 DEF SpawnInv, LocalsInv, Local
    <3> QED BY <3>1, <3>2
  <2>2. LocalOK(w, l) /\ l.slot = tick[w].slot
    <3>1. 1 \in 0 .. MaxAttempts
      BY DEF SpawnConstants
    <3>2. l \in Local
      BY <1>0, <1>2, <3>1 DEF LocalOK, Local, Steps
    <3>3. /\ l.at = "listener" /\ l.slot = tick[w].slot
          /\ l.name = tick[w].name /\ l.todo = tick[w].todo
      BY <1>0 DEF LocalOK, Local
    <3> HIDE DEF l
    <3> QED BY <1>0, <1>2, <3>2, <3>3 DEF LocalOK, Spawning, Creating
  <2> HIDE DEF l
  <2> QED BY <2>1, <2>2, <1>2, MovesTo
<1>3. ASSUME tick[w].at = "create", slots' = slots,
             \/ tick[w].try < MaxAttempts
                /\ tick' = [tick EXCEPT ![w].try = @ + 1]
             \/ Go(w, "probe")
      PROVE  Moves(w)
  <2>1. PICK l \in {[tick[w] EXCEPT !.try = @ + 1], [tick[w] EXCEPT !.at = "probe"]} :
          /\ tick' = [tick EXCEPT ![w] = l]
          /\ l.try = tick[w].try \/ tick[w].try < MaxAttempts
    BY <1>3, <1>0 DEF Go, LocalOK, Local
  <2>2. LocalOK(w, l) /\ l.slot = tick[w].slot
    BY <1>0, <1>3, <2>1
       DEF LocalOK, Local, Steps, Spawning, Creating, SpawnConstants
  <2> QED BY <2>1, <2>2, <1>3, MovesTo
<1>4. CASE Create(w)
  BY <1>4, <1>1, <1>2, <1>3 DEF Create, Retry, Kinds
<1>5. CASE ProbeTimedOut(w)
  BY <1>5, <1>1, <1>2 DEF ProbeTimedOut
<1> QED BY <1>4, <1>5

\* The listener, the readiness wait and the clean-up.
LEMMA ListenerMoves ==
  ASSUME SpawnConstants, SpawnInv, NEW w \in Workspaces,
         CreateListener(w) \/ AwaitReady(w) \/ Cleanup(w)
  PROVE  Moves(w)
<1>0. LocalOK(w, tick[w]) /\ tick[w] \in Local
  BY DEF SpawnInv, LocalsInv, LocalOK
<1>1. ASSUME NEW k, SpawnFailed(w, k) PROVE Moves(w)
  BY <1>1, FailedMoves
<1>2. ASSUME tick[w].at \in {"listener", "wait"}, slots' = slots,
             \/ Go(w, "cleanup")
             \/ tick' = [tick EXCEPT ![w].at = "cleanup", ![w].late = TRUE]
      PROVE  Moves(w)
  <2>1. PICK l \in {[tick[w] EXCEPT !.at = "cleanup"],
                    [tick[w] EXCEPT !.at = "cleanup", !.late = TRUE]} :
          tick' = [tick EXCEPT ![w] = l]
    BY <1>2, <1>0 DEF Go, SpawnInv, LocalsInv
  <2>2. LocalOK(w, l) /\ l.slot = tick[w].slot
    BY <1>0, <1>2, <2>1, ZenonT(30) DEF LocalOK, Local, Steps, Spawning, Creating
  <2> QED BY <2>1, <2>2, <1>2, MovesTo
<1>3. ASSUME tick[w].at = "listener", slots' = Released(w),
             NEW o \in BOOLEAN,
             tick' = [tick EXCEPT ![w].at = "wait", ![w].slot = FALSE,
                                  ![w].paired = TRUE, ![w].ours = o]
      PROVE  Moves(w)
  <2> DEFINE l == [tick[w] EXCEPT !.at = "wait", !.slot = FALSE,
                                  !.paired = TRUE, !.ours = o]
  <2>1. tick' = [tick EXCEPT ![w] = l]
    <3>1. CASE o = TRUE
      BY <3>1, <1>3, <1>0 DEF SpawnInv, LocalsInv, Local
    <3>2. CASE o = FALSE
      BY <3>2, <1>3, <1>0 DEF SpawnInv, LocalsInv, Local
    <3> QED BY <3>1, <3>2
  <2>2. LocalOK(w, l) /\ l.slot = FALSE
    <3>1. l \in Local
      BY <1>0 DEF Local, Steps
    <3>2. /\ l.at = "wait" /\ l.slot = FALSE
          /\ l.name = tick[w].name /\ l.todo = tick[w].todo
      BY <1>0 DEF Local
    <3> HIDE DEF l
    <3> QED BY <1>0, <1>3, <3>1, <3>2 DEF LocalOK, Spawning, Creating
  <2> HIDE DEF l
  <2> QED BY <2>1, <2>2, <1>3, MovesTo
<1>4. ASSUME tick[w].at = "listener", slots' = slots,
             tick[w].try < MaxAttempts,
             tick' = [tick EXCEPT ![w].try = @ + 1]
      PROVE  Moves(w)
  <2> DEFINE l == [tick[w] EXCEPT !.try = @ + 1]
  <2>1. tick' = [tick EXCEPT ![w] = l]
    BY <1>4
  <2>2. LocalOK(w, l) /\ l.slot = tick[w].slot
    BY <1>0, <1>4 DEF LocalOK, Local, Steps, Spawning, Creating, SpawnConstants
  <2> HIDE DEF l
  <2> QED BY <2>1, <2>2, <1>4, MovesTo
<1>5. ASSUME tick[w].at = "wait", slots' = Released(w),
             tick' = [tick EXCEPT ![w] = [Idle EXCEPT !.at = "down",
                                             !.todo = Usable(w)]]
      PROVE  Moves(w)
  <2> DEFINE l == [Idle EXCEPT !.at = "down", !.todo = Usable(w)]
  <2>1. LocalOK(w, l) /\ l.slot = FALSE
    BY DownLocal
  <2>2. tick' = [tick EXCEPT ![w] = l]
    BY <1>5
  <2> HIDE DEF l
  <2> QED BY <1>5, <2>1, <2>2, MovesTo
<1>6. CASE CreateListener(w)
  <2>1. (lis[tick[w].name] = "none") \in BOOLEAN
    OBVIOUS
  <2> QED BY <1>6, <1>2, <1>3, <1>4, <2>1 DEF CreateListener
<1>7. CASE AwaitReady(w)
  BY <1>7, <1>2, <1>5 DEF AwaitReady
<1>8. CASE Cleanup(w)
  BY <1>8, <1>1 DEF Cleanup
<1> QED BY <1>6, <1>7, <1>8

\* Scale-down, the sweep, dispatch and the end of the tick.
LEMMA DownMoves ==
  ASSUME SpawnConstants, SpawnInv, NEW w \in Workspaces,
         \/ Sweep(w) \/ ReapEnds(w) \/ TickEnds(w)
         \/ \E n \in Owned(w) : \/ ResolvePending(w, n) \/ ScaleDown(w, n)
                                \/ Reap(w, n) \/ Dispatch(w, n)
  PROVE  Moves(w)
<1>0. LocalOK(w, tick[w]) /\ tick[w] \in Local
  BY DEF SpawnInv, LocalsInv, LocalOK
<1>1. ASSUME tick[w].at \in {"down", "reap", "dispatch"}, slots' = slots,
             NEW at \in {"down", "reap", "dispatch"},
             NEW todo \in SUBSET Owned(w),
             tick' = [tick EXCEPT ![w].todo = todo, ![w].at = at]
      PROVE  Moves(w)
  <2> DEFINE l == [tick[w] EXCEPT !.todo = todo, !.at = at]
  <2>1. tick' = [tick EXCEPT ![w] = l]
    BY <1>1, <1>0 DEF SpawnInv, LocalsInv
  <2>2. LocalOK(w, l) /\ l.slot = tick[w].slot
    BY <1>0, <1>1, OwnNames DEF LocalOK, Local, Steps, Spawning, Creating
  <2> HIDE DEF l
  <2> QED BY <2>1, <2>2, <1>1, MovesTo
<1>2. ASSUME tick[w].at \in {"down", "dispatch"}, slots' = slots,
             tick' = [tick EXCEPT ![w] = Idle]
      PROVE  Moves(w)
  <2>1. LocalOK(w, Idle) /\ tick[w].slot = FALSE
    BY <1>0, <1>2, IdleLocal DEF LocalOK, Local, Spawning, Creating
  <2> QED BY <1>2, <2>1, IdleLocal, MovesTo
<1>3. ASSUME NEW n \in Owned(w), NEW at \in {"down", "reap", "dispatch"},
             tick[w].at = at, slots' = slots, Done(w, n, at)
      PROVE  Moves(w)
  <2>1. tick[w].todo \ {n} \in SUBSET Owned(w)
    BY <1>0 DEF LocalOK
  <2> QED BY <1>3, <2>1, <1>1 DEF Done
<1>4. CASE Sweep(w)
  <2>1. CASE Go(w, "dispatch")
    <3>1. tick[w].todo = {} /\ slots' = slots /\ tick[w].at = "down"
      BY <1>4 DEF Sweep
    <3>2. tick' = [tick EXCEPT ![w].todo = {}, ![w].at = "dispatch"]
      BY <3>1, <2>1, <1>0 DEF Go, SpawnInv, LocalsInv, Local
    <3> QED BY <3>1, <3>2, <1>1
  <2>2. CASE ~Go(w, "dispatch")
    <3>1. PICK todo \in SUBSET Owned(w) :
            tick' = [tick EXCEPT ![w].at = "reap", ![w].todo = todo]
      BY <1>4, <2>2 DEF Sweep, Orphans
    <3>2. tick' = [tick EXCEPT ![w].todo = todo, ![w].at = "reap"]
      BY <3>1, <1>0 DEF SpawnInv, LocalsInv, Local
    <3>3. slots' = slots /\ tick[w].at = "down"
      BY <1>4 DEF Sweep
    <3> QED BY <3>2, <3>3, <1>1
  <2> QED BY <2>1, <2>2
<1>5. CASE ReapEnds(w)
  <2>1. PICK todo \in SUBSET Owned(w) :
          tick' = [tick EXCEPT ![w].at = "dispatch", ![w].todo = todo]
    BY <1>5, OwnNames DEF ReapEnds
  <2>2. tick' = [tick EXCEPT ![w].todo = todo, ![w].at = "dispatch"]
    BY <2>1, <1>0 DEF SpawnInv, LocalsInv, Local
  <2>3. slots' = slots /\ tick[w].at = "reap"
    BY <1>5 DEF ReapEnds
  <2> QED BY <2>2, <2>3, <1>1
<1>6. CASE TickEnds(w)
  BY <1>6, <1>2 DEF TickEnds
<1>7. ASSUME NEW n \in Owned(w), ResolvePending(w, n) PROVE Moves(w)
  <2>1. tick[w].at = "resolve" /\ slots' = slots
    BY <1>7 DEF ResolvePending
  <2>2. PICK r \in Resolutions(n) :
          tick' = [tick EXCEPT ![w].todo = @ \ {n},
            ![w].at = IF ~r.up /\ pool[n].pend = "late" THEN "teardown" ELSE @,
            ![w].name = IF ~r.up /\ pool[n].pend = "late" THEN n ELSE @,
            ![w].rec = IF ~r.up /\ pool[n].pend = "late" THEN r.rec ELSE @]
    BY <1>7 DEF ResolvePending
  <2>3. r.rec \in Record /\ n \in Names
    BY <1>7, OwnNames, ResolutionFacts DEF SpawnInv
  <2>4. CASE ~r.up /\ pool[n].pend = "late"
    <3> DEFINE l == [tick[w] EXCEPT !.todo = @ \ {n}, !.at = "teardown",
                                    !.name = n, !.rec = r.rec]
    <3>1. tick' = [tick EXCEPT ![w] = l]
      BY <2>2, <2>4, <1>0 DEF SpawnInv, LocalsInv, Local
    <3>2. l \in Local
      BY <2>3, <1>0 DEF Local, Steps
    <3>3. /\ l.at = "teardown" /\ l.slot = tick[w].slot
          /\ l.name = n /\ l.todo = tick[w].todo \ {n}
      BY <1>0 DEF Local
    <3> HIDE DEF l
    <3>4. LocalOK(w, l)
      BY <3>2, <3>3, <2>1, <1>0, <1>7 DEF LocalOK, Spawning, Creating
    <3> QED BY <3>1, <3>3, <3>4, <2>1, MovesTo
  <2>5. CASE ~(~r.up /\ pool[n].pend = "late")
    <3> DEFINE l == [tick[w] EXCEPT !.todo = @ \ {n}]
    <3>1. tick' = [tick EXCEPT ![w] = l]
      BY <2>2, <2>5, <1>0 DEF SpawnInv, LocalsInv, Local
    <3>2. LocalOK(w, l) /\ l.slot = tick[w].slot
      BY <2>1, <1>0 DEF LocalOK, Local, Spawning, Creating
    <3> HIDE DEF l
    <3> QED BY <3>1, <3>2, <2>1, MovesTo
  <2> QED BY <2>4, <2>5
<1>8. ASSUME NEW n \in Owned(w), ScaleDown(w, n) PROVE Moves(w)
  BY <1>8, <1>2, <1>3 DEF ScaleDown
<1>9. ASSUME NEW n \in Owned(w), Reap(w, n) PROVE Moves(w)
  BY <1>9, <1>3 DEF Reap
<1>10. ASSUME NEW n \in Owned(w), Dispatch(w, n) PROVE Moves(w)
  BY <1>10, <1>3 DEF Dispatch
<1> QED BY <1>4, <1>5, <1>6, <1>7, <1>8, <1>9, <1>10

-----------------------------------------------------------------------------
(* Types. *)

LEMMA FailedTyped ==
  ASSUME SpawnConstants, WorldOK, NEW k \in Nat, Failed(k)
  PROVE  faults' \in 0 .. MaxFaults
BY DEF SpawnConstants, WorldOK, Failed

\* The effects of a removal keep their types.
LEMMA DestroyedTyped ==
  ASSUME SpawnConstants, WorldOK, NEW n \in Names, Destroyed(n)
  PROVE  /\ enc' \in [Names -> EncStates]
         /\ lis' \in [Names -> {"none", "starting", "running"}]
         /\ work' \in [Names -> {"no", "encode", "package"}]
         /\ pool' \in [Names -> Record] /\ killed' \subseteq Names
         /\ faults' \in 0 .. MaxFaults
<1>1. enc' \in [Names -> EncStates] /\ work' \in [Names -> {"no", "encode", "package"}]
  BY DEF Destroyed, WorldOK, EncStates
<1>2. killed' \subseteq Names
  BY DEF Destroyed, WorldOK
<1>3. PICK lost \in {"none", "listener", "record"} :
        /\ Failed(IF lost = "none" THEN 0 ELSE 1)
        /\ lis' = IF lost = "listener" THEN lis ELSE [lis EXCEPT ![n] = "none"]
        /\ pool' = IF lost = "record" THEN pool ELSE [pool EXCEPT ![n] = Gone]
  BY DEF Destroyed
<1>4. faults' \in 0 .. MaxFaults
  BY <1>3, FailedTyped
<1>5. lis' \in [Names -> {"none", "starting", "running"}] /\ pool' \in [Names -> Record]
  BY <1>3, GoneRecord DEF WorldOK
<1> QED BY <1>1, <1>2, <1>4, <1>5

LEMMA SpawnFailedTyped ==
  ASSUME WorldOK, NEW w \in Workspaces, NEW kind \in Kinds, SpawnFailed(w, kind)
  PROVE  fail' \in [Workspaces -> {"no", "held", "plain"}]
BY DEF WorldOK, SpawnFailed, Kinds

\* What the trust gate makes of a record.
LEMMA TrustFacts ==
  ASSUME WorldOK, NEW n \in Names, NEW t \in Trusts(n)
  PROVE  /\ t.trust \in {"no", "probing", "late", "ready", "unusable",
                         "quarantined"}
         /\ t.cost \in Nat
<1>1. pool[n].trust \in {"no", "probing", "late", "ready", "unusable",
                        "quarantined"}
  BY DEF WorldOK, Record
<1> QED BY <1>1 DEF Trusts

LEMMA DispatchTyped ==
  ASSUME SpawnConstants, WorldOK, NEW w \in Workspaces, NEW n \in Owned(w),
         Dispatch(w, n)
  PROVE  WorldOK'
<1>0. n \in Names
  BY OwnNames
<1> DEFINE Sends(t) == Eligible(n, t.trust) /\ ~Busy(n) /\ queue[w] > 0
           Taken(t, p) == p /\ Sends(t) /\ enc[n] = "running"
<1>1. PICK t \in Trusts(n), p \in BOOLEAN :
        /\ Failed(t.cost + IF Sends(t) /\ ~p THEN 1 ELSE 0)
        /\ pool' = [pool EXCEPT ![n].trust = t.trust,
                      ![n].aged = IF Taken(t, p) THEN FALSE ELSE @]
        /\ queue' = IF Taken(t, p) THEN [queue EXCEPT ![w] = @ - 1] ELSE queue
        /\ work' = IF Taken(t, p) THEN [work EXCEPT ![n] = "encode"] ELSE work
        /\ blind' = IF Taken(t, p) /\ ~pool[n].url THEN blind \cup {n} ELSE blind
  BY Zenon DEF Dispatch
<1>2. /\ t.trust \in {"no", "probing", "late", "ready", "unusable",
                      "quarantined"}
      /\ t.cost \in Nat
  BY <1>0, TrustFacts
<1>3. faults' \in 0 .. MaxFaults
  <2> DEFINE k == t.cost + IF Sends(t) /\ ~p THEN 1 ELSE 0
  <2>1. k \in Nat
    BY <1>2
  <2>2. Failed(k)
    BY <1>1
  <2> HIDE DEF k
  <2> QED BY <2>1, <2>2, FailedTyped
<1>4. queue' \in [Workspaces -> Nat]
  <2>1. CASE Taken(t, p)
    BY <2>1, <1>1 DEF WorldOK
  <2>2. CASE ~Taken(t, p)
    BY <2>2, <1>1 DEF WorldOK
  <2> QED BY <2>1, <2>2
<1>5. work' \in [Names -> {"no", "encode", "package"}] /\ blind' \subseteq Names
  <2> HIDE DEF Taken
  <2> QED BY <1>0, <1>1 DEF WorldOK
<1>6. pool' \in [Names -> Record]
  <2> DEFINE a == [pool[n] EXCEPT !.trust = t.trust, !.aged = FALSE]
             b == [pool[n] EXCEPT !.trust = t.trust]
  <2>1. a \in Record /\ b \in Record
    <3>1. b \in Record
      BY <1>0, <1>2, RecordWith DEF WorldOK
    <3>2. a = [b EXCEPT !.aged = FALSE]
      OBVIOUS
    <3> HIDE DEF b
    <3> QED BY <3>1, <3>2, RecordWith
  <2>2. pool' = [pool EXCEPT ![n] = a] \/ pool' = [pool EXCEPT ![n] = b]
    <3> HIDE DEF Taken
    <3> QED BY <1>0, <1>1, <1>2, ZenonT(30) DEF WorldOK, Record
  <2> HIDE DEF a, b
  <2> QED BY <1>0, <2>1, <2>2, SMTT(30) DEF WorldOK
<1> QED BY <1>3, <1>4, <1>5, <1>6 DEF Dispatch, WorldOK

LEMMA TickTyped ==
  ASSUME SpawnConstants, SpawnInv, NEW w \in Workspaces, Tick(w)
  PROVE  WorldOK'
<1>0. WorldOK /\ LocalOK(w, tick[w])
  BY DEF SpawnInv, LocalsInv
<1>a. 0 \in Nat /\ 1 \in Nat /\ 2 \in Nat
  OBVIOUS
<1> USE DEF osc, ghosts, valkey, process, NoFault
<1>1. ASSUME Resume(w) PROVE WorldOK'
  <2>1. faults' \in 0 .. MaxFaults
    BY <1>0, <1>a, <1>1, FailedTyped DEF Resume, WorldOK
  <2>2. pool' \in [Names -> Record]
    BY <1>0, <1>1, GoneRecord DEF Resume, WorldOK, AdoptedFromOsc
  <2> QED BY <2>1, <2>2, <1>0, <1>1 DEF Resume, WorldOK
<1>2. ASSUME TickStart(w) PROVE WorldOK'
  <2>1. faults' \in 0 .. MaxFaults
    BY <1>0, <1>a, <1>2, FailedTyped DEF TickStart
  <2>2. /\ pool' \in [Names -> Record]
        /\ lis' \in [Names -> {"none", "starting", "running"}]
    BY <1>0, <1>2, GoneRecord DEF TickStart, WorldOK
  <2> QED BY <2>1, <2>2, <1>0, <1>2 DEF TickStart, WorldOK
<1>3. ASSUME NEW n \in Owned(w), ResolvePending(w, n) PROVE WorldOK'
  <2>1. PICK r \in Resolutions(n) :
          /\ Failed(r.cost)
          /\ lis' = [lis EXCEPT ![n] = r.lis]
          /\ pool' = [pool EXCEPT ![n] =
               IF r.up THEN Ready(TRUE)
               ELSE IF ~r.up /\ pool[n].pend = "late" THEN Gone ELSE r.rec]
    BY <1>3 DEF ResolvePending
  <2>2. /\ r.lis \in {"none", "starting", "running"} /\ r.rec \in Record
        /\ r.cost \in Nat
    BY <1>0, <1>3, OwnNames, ResolutionFacts
  <2>3. faults' \in 0 .. MaxFaults
    BY <1>0, <2>1, <2>2, FailedTyped
  <2>4. /\ pool' \in [Names -> Record]
        /\ lis' \in [Names -> {"none", "starting", "running"}]
    BY <1>0, <2>1, <2>2, GoneRecord DEF WorldOK
  <2> QED BY <2>3, <2>4, <1>0, <1>3 DEF ResolvePending, WorldOK
<1>4. ASSUME Teardown(w) PROVE WorldOK'
  <2>1. tick[w].name \in Names /\ tick[w].rec \in Record
    BY <1>0, <1>4, OwnNames DEF Teardown, LocalOK, Local
  <2>2. CASE Destroyed(tick[w].name)
    BY <2>1, <2>2, <1>0, <1>4, DestroyedTyped DEF Teardown, WorldOK
  <2>3. CASE \E k \in 1 .. 2 : Failed(k) /\ pool' \in [Names -> Record]
                               /\ UNCHANGED <<osc, ghosts>>
    <3>1. faults' \in 0 .. MaxFaults
      BY <1>0, <2>3, FailedTyped
    <3> QED BY <3>1, <2>3, <1>0, <1>4 DEF Teardown, WorldOK
  <2> QED BY <2>1, <2>2, <2>3, <1>0, <1>4 DEF Teardown, WorldOK
<1>5. ASSUME Gate(w) PROVE WorldOK'
  BY <1>0, <1>5 DEF Gate, WorldOK
<1>6. ASSUME Create(w) PROVE WorldOK'
  <2>1. faults' \in 0 .. MaxFaults
    BY <1>0, <1>a, <1>6, FailedTyped DEF Create, WorldOK
  <2>2. enc' \in [Names -> EncStates]
    BY <1>0, <1>6 DEF Create, WorldOK, EncStates
  <2>3. fail' \in [Workspaces -> {"no", "held", "plain"}]
    BY <1>0, <1>6, SpawnFailedTyped DEF Create, Retry, WorldOK, Kinds
  <2> QED BY <2>1, <2>2, <2>3, <1>0, <1>6 DEF Create, WorldOK
<1>7. ASSUME ProbeTimedOut(w) PROVE WorldOK'
  <2>1. faults' \in 0 .. MaxFaults
    BY <1>0, <1>a, <1>7, FailedTyped DEF ProbeTimedOut, WorldOK
  <2>2. fail' \in [Workspaces -> {"no", "held", "plain"}]
    BY <1>0, <1>7, SpawnFailedTyped DEF ProbeTimedOut, WorldOK, Kinds
  <2> QED BY <2>1, <2>2, <1>0, <1>7 DEF ProbeTimedOut, WorldOK
<1>8. ASSUME CreateListener(w) PROVE WorldOK'
  <2>1. faults' \in 0 .. MaxFaults
    BY <1>0, <1>a, <1>8, FailedTyped DEF CreateListener, WorldOK
  <2>2. lis' \in [Names -> {"none", "starting", "running"}]
    BY <1>0, <1>8 DEF CreateListener, WorldOK
  <2> QED BY <2>1, <2>2, <1>0, <1>8 DEF CreateListener, WorldOK
<1>9. ASSUME AwaitReady(w) PROVE WorldOK'
  <2>1. faults' \in 0 .. MaxFaults
    BY <1>0, <1>a, <1>9, FailedTyped DEF AwaitReady, WorldOK
  <2>2. /\ pool' \in [Names -> Record]
        /\ fail' \in [Workspaces -> {"no", "held", "plain"}]
    BY <1>0, <1>9, GoneRecord, ZenonT(30) DEF AwaitReady, WorldOK
  <2> QED BY <2>1, <2>2, <1>0, <1>9, SMTT(30) DEF AwaitReady, WorldOK
<1>10. ASSUME Cleanup(w) PROVE WorldOK'
  <2>1. faults' \in 0 .. MaxFaults
    BY <1>0, <1>a, <1>10, FailedTyped DEF Cleanup, WorldOK
  <2>2. /\ enc' \in [Names -> EncStates]
        /\ lis' \in [Names -> {"none", "starting", "running"}]
    BY <1>0, <1>10 DEF Cleanup, WorldOK, EncStates
  <2>3. fail' \in [Workspaces -> {"no", "held", "plain"}]
    BY <1>0, <1>10, SpawnFailedTyped DEF Cleanup, Kinds
  <2>4. pool' \in [Names -> Record]
    BY <1>0, <1>10, GoneRecord DEF Cleanup, WorldOK, LocalOK, Local
  <2> QED BY <2>1, <2>2, <2>3, <2>4, <1>0, <1>10 DEF Cleanup, WorldOK
<1>11. ASSUME NEW n \in Owned(w), ScaleDown(w, n) PROVE WorldOK'
  <2>1. n \in Names
    BY <1>11, OwnNames
  <2>2. CASE Destroyed(n)
    BY <2>1, <2>2, <1>0, <1>11, DestroyedTyped DEF ScaleDown, WorldOK
  <2>3. CASE ~Destroyed(n)
    <3>1. faults' \in 0 .. MaxFaults
      BY <2>3, <1>0, <1>a, <1>11, FailedTyped DEF ScaleDown, WorldOK
    <3>2. [pool[n] EXCEPT !.drain = TRUE] \in Record
      BY <2>1, <1>0, RecordWith DEF WorldOK
    <3>3. pool' = pool \/ pool' = [pool EXCEPT ![n] = [pool[n] EXCEPT !.drain = TRUE]]
      BY <2>3, <1>11 DEF ScaleDown
    <3>4. pool' \in [Names -> Record]
      BY <2>1, <3>2, <3>3, <1>0 DEF WorldOK
    <3> QED BY <3>1, <3>4, <2>3, <1>0, <1>11 DEF ScaleDown, WorldOK
  <2> QED BY <2>2, <2>3
<1>12. ASSUME Sweep(w) PROVE WorldOK'
  <2>1. faults' \in 0 .. MaxFaults
    BY <1>0, <1>a, <1>12, FailedTyped DEF Sweep, WorldOK
  <2>2. seen' \in [Names -> {"no", "new", "late"}]
    BY <1>0, <1>12 DEF Sweep, WorldOK
  <2> QED BY <2>1, <2>2, <1>0, <1>12 DEF Sweep, WorldOK
<1>13. ASSUME NEW n \in Owned(w), Reap(w, n) PROVE WorldOK'
  <2>1. n \in Names
    BY <1>13, OwnNames
  <2>2. seen' \in [Names -> {"no", "new", "late"}]
    BY <1>0, <1>13 DEF Reap, WorldOK
  <2>3. CASE Destroyed(n)
    BY <2>1, <2>2, <2>3, <1>0, <1>13, DestroyedTyped DEF Reap, WorldOK
  <2>4. CASE ~Destroyed(n)
    <3>1. faults' \in 0 .. MaxFaults
      <4>1. \/ faults' = faults \/ Failed(1)
            \/ faults + 2 <= MaxFaults /\ faults' = faults + 2
        BY <2>4, <1>13, Zenon DEF Reap
      <4> QED BY <4>1, <1>0 DEF Failed, WorldOK, SpawnConstants
    <3>2. pool' \in [Names -> Record]
      BY <2>4, <1>0, <1>13, GoneRecord DEF Reap, WorldOK
    <3>3. /\ enc' \in [Names -> EncStates]
          /\ lis' \in [Names -> {"none", "starting", "running"}]
          /\ work' \in [Names -> {"no", "encode", "package"}]
          /\ killed' \subseteq Names
      BY <2>1, <2>4, <1>0, <1>13 DEF Reap, WorldOK, EncStates
    <3> QED BY <3>1, <3>2, <3>3, <2>2, <1>0, <1>13 DEF Reap, WorldOK
  <2> QED BY <2>3, <2>4
<1>14. ASSUME ReapEnds(w) \/ TickEnds(w) PROVE WorldOK'
  BY <1>0, <1>14 DEF ReapEnds, TickEnds, WorldOK
<1>15. ASSUME NEW n \in Owned(w), Dispatch(w, n) PROVE WorldOK'
  BY <1>15, <1>0, DispatchTyped
<1> QED BY <1>1, <1>2, <1>3, <1>4, <1>5, <1>6, <1>7, <1>8, <1>9, <1>10, <1>11,
           <1>12, <1>13, <1>14, <1>15 DEF Tick

\* Outside the ticks only a submit, which may start a loop, touches the locals.
LEMMA OutsideTyped ==
  ASSUME SpawnConstants, SpawnInv,
         \/ \E n \in Names : Outside(n) \/ Vanishes(n)
         \/ \E w \in Workspaces : Submit(w) \/ HoldOffEnds(w) \/ Wipe(w)
  PROVE  WorldOK' /\ slots' = slots /\ (tick' = tick \/ \E w \in Workspaces : Submit(w))
<1>0. WorldOK
  BY DEF SpawnInv
<1> USE DEF osc, ghosts, valkey, process
<1>1. ASSUME NEW n \in Names, Lands(n) \/ ComesUp(n) \/ Vanishes(n) \/ WorkEnds(n)
      PROVE  WorldOK' /\ slots' = slots /\ tick' = tick
  <2>1. faults' \in 0 .. MaxFaults
    BY <1>0, <1>1, FailedTyped DEF Lands, ComesUp, Vanishes, WorkEnds, WorldOK
  <2>2. /\ enc' \in [Names -> EncStates]
        /\ lis' \in [Names -> {"none", "starting", "running"}]
        /\ work' \in [Names -> {"no", "encode", "package"}]
    BY <1>0, <1>1 DEF Lands, ComesUp, Vanishes, WorkEnds, WorldOK, EncStates
  <2> QED BY <2>1, <2>2, <1>0, <1>1
          DEF Lands, ComesUp, Vanishes, WorkEnds, WorldOK
<1>2. ASSUME NEW n \in Names, Late(n)
      PROVE  WorldOK' /\ slots' = slots /\ tick' = tick
  <2>1. PICK r \in Record : pool' = pool \/ pool' = [pool EXCEPT ![n] = r]
    <3>1. /\ [pool[n] EXCEPT !.pend = "late"] \in Record
          /\ [pool[n] EXCEPT !.block = "no"] \in Record
          /\ [pool[n] EXCEPT !.trust = "late"] \in Record
          /\ [pool[n] EXCEPT !.aged = TRUE] \in Record
      BY <1>0, RecordWith DEF WorldOK
    <3> QED BY <3>1, <1>2 DEF Late
  <2>2. seen' \in [Names -> {"no", "new", "late"}]
    BY <1>0, <1>2 DEF Late, WorldOK
  <2> QED BY <2>1, <2>2, <1>0, <1>2 DEF Late, WorldOK
<1>3. ASSUME NEW w \in Workspaces, Submit(w) PROVE WorldOK' /\ slots' = slots
  BY <1>0, <1>3 DEF Submit, WorldOK
<1>4. ASSUME NEW w \in Workspaces, HoldOffEnds(w)
      PROVE  WorldOK' /\ slots' = slots /\ tick' = tick
  BY <1>0, <1>4 DEF HoldOffEnds, WorldOK
<1>5. ASSUME NEW w \in Workspaces, Wipe(w)
      PROVE  WorldOK' /\ slots' = slots /\ tick' = tick
  BY <1>0, <1>5, GoneRecord DEF Wipe, WorldOK, SpawnConstants
<1> QED BY <1>1, <1>2, <1>3, <1>4, <1>5 DEF Outside

LEMMA RestartSlots ==
  ASSUME SpawnConstants, SpawnInv, Restart
  PROVE  SpawnInv'
<1> DEFINE l == [Idle EXCEPT !.at = "boot"]
<1>0. tick' = [w \in Workspaces |-> l]
  BY DEF Restart
<1>1. \A w \in Workspaces : LocalOK(w, l) /\ l.slot = FALSE /\ l \in Local
  BY IdleLocal DEF LocalOK, Local, Steps, Spawning, Creating
<1> HIDE DEF l
<1>2. LocalsInv'
  BY <1>0, <1>1 DEF LocalsInv
<1>3. Holding' = {} /\ slots' = 0
  BY <1>0, <1>1 DEF Holding, Restart
<1>4. SlotsInv'
  BY <1>3, FS_EmptySet DEF SlotsInv, SpawnConstants
<1>5. WorldOK'
  BY DEF SpawnInv, WorldOK, Restart, osc, valkey, ghosts, SpawnConstants
<1> QED BY <1>2, <1>4, <1>5 DEF SpawnInv

\* A submit that starts the loop of a workspace leaves the slots alone.
LEMMA SubmitSlots ==
  ASSUME SpawnConstants, SpawnInv, NEW w \in Workspaces, Submit(w)
  PROVE  LocalsInv' /\ SlotsInv'
<1>1. slots' = slots
  BY DEF Submit
<1>2. CASE tick[w].at = "off"
  <2>1. LocalOK(w, tick[w]) /\ tick' = [tick EXCEPT ![w] = Idle]
    BY <1>2 DEF SpawnInv, LocalsInv, Submit
  <2>2. tick[w].slot = FALSE
    BY <2>1, <1>2 DEF LocalOK, Local, Creating
  <2>3. LocalOK(w, Idle)
    BY IdleLocal DEF LocalOK, Spawning, Creating
  <2>4. Moves(w)
    BY <2>1, <2>2, <2>3, <1>1, IdleLocal, MovesTo
  <2> QED BY <2>4, SlotsMove
<1>3. CASE tick[w].at # "off"
  <2>1. tick' = tick
    BY <1>3 DEF Submit
  <2> QED BY <2>1, <1>1 DEF SpawnInv, LocalsInv, SlotsInv, Holding
<1> QED BY <1>2, <1>3

LEMMA TickSlots ==
  ASSUME SpawnConstants, SpawnInv, NEW w \in Workspaces, Tick(w)
  PROVE  Moves(w)
BY GateMoves, CreateMoves, ListenerMoves, DownMoves DEF Tick

LEMMA InitSlots ==
  ASSUME SpawnConstants, Init
  PROVE  SpawnInv
<1> DEFINE l == [Idle EXCEPT !.at = "off"]
<1>0. tick = [w \in Workspaces |-> l]
  BY DEF Init
<1>1. \A w \in Workspaces : LocalOK(w, l) /\ l.slot = FALSE /\ l \in Local
  BY IdleLocal DEF LocalOK, Local, Steps, Spawning, Creating
<1> HIDE DEF l
<1>2. LocalsInv
  BY <1>0, <1>1 DEF LocalsInv
<1>3. Holding = {} /\ slots = 0
  BY <1>0, <1>1 DEF Holding, Init
<1>4. SlotsInv
  BY <1>3, FS_EmptySet DEF SlotsInv, SpawnConstants
<1>5. WorldOK
  BY GoneRecord DEF WorldOK, Init, EncStates, SpawnConstants
<1> QED BY <1>2, <1>4, <1>5 DEF SpawnInv

LEMMA NextSlots ==
  ASSUME SpawnConstants, SpawnInv, [Next]_vars
  PROVE  SpawnInv'
<1>1. ASSUME NEW w \in Workspaces, Tick(w) PROVE SpawnInv'
  BY <1>1, TickSlots, SlotsMove, TickTyped DEF SpawnInv
<1>2. CASE \/ \E n \in Names : Outside(n) \/ Vanishes(n)
           \/ \E w \in Workspaces : Submit(w) \/ HoldOffEnds(w) \/ Wipe(w)
  <2>1. /\ WorldOK' /\ slots' = slots
        /\ tick' = tick \/ \E w \in Workspaces : Submit(w)
    BY <1>2, OutsideTyped
  <2>2. CASE tick' = tick
    BY <2>1, <2>2 DEF SpawnInv, LocalsInv, SlotsInv, Holding
  <2>3. CASE \E w \in Workspaces : Submit(w)
    BY <2>1, <2>3, SubmitSlots DEF SpawnInv
  <2> QED BY <2>1, <2>2, <2>3
<1>3. CASE Restart
  BY <1>3, RestartSlots
<1>4. CASE UNCHANGED vars
  BY <1>4 DEF vars, SpawnInv, WorldOK, LocalsInv, SlotsInv, Holding
<1> QED BY <1>1, <1>2, <1>3, <1>4 DEF Next

LEMMA SlotsBound ==
  ASSUME SpawnConstants, SpawnInv
  PROVE  TypeOK /\ CreatesBounded
<1> DEFINE S == {w \in Workspaces : tick[w].at \in {"create", "probe", "listener"}}
<1>1. S \subseteq Holding
  BY DEF SpawnInv, LocalsInv, LocalOK, Holding, Creating
<1>2. IsFiniteSet(Holding)
  BY FS_Subset DEF Holding, SpawnConstants
<1>3. /\ Cardinality(S) <= Cardinality(Holding)
      /\ Cardinality(S) \in Nat /\ Cardinality(Holding) \in Nat
  BY <1>1, <1>2, FS_Subset, FS_CardinalityType
<1>4. Cardinality(S) <= SlotLimit
  <2> HIDE DEF S
  <2> QED BY <1>3 DEF SpawnInv, SlotsInv, SpawnConstants
<1> QED BY <1>4, SlotsNat DEF CreatesBounded, SpawnInv, TypeOK, WorldOK, LocalsInv

\* At most SlotLimit creates are in flight, whatever the workspaces, their ticks,
\* failed calls, restarts and losses of the pool.
THEOREM SlotsHold ==
  ASSUME SpawnConstants
  PROVE  Spec => [](TypeOK /\ CreatesBounded)
<1>1. Init => SpawnInv
  BY InitSlots
<1>2. SpawnInv /\ [Next]_vars => SpawnInv'
  BY NextSlots
<1>3. SpawnInv => TypeOK /\ CreatesBounded
  BY SlotsBound
<1> QED BY <1>1, <1>2, <1>3, PTL DEF Spec

-----------------------------------------------------------------------------
(* The inductive invariant of what the instances are needed for. *)

\* Only a running instance has work, a pending one has none, and one that is
\* offered jobs under a listener has one that is up or gone.
NameOK(n) ==
  /\ work[n] # "no" => enc[n] = "running"
  /\ pool[n].pend # "no" => work[n] = "no"
  /\ pool[n].in /\ pool[n].url /\ pool[n].pend = "no" => lis[n] # "starting"

\* What a tick learned before an await still holds: the instance it spawns or
\* tears down has no work, the records it resolves are pending, those it
\* dispatches to are not.
TickOK(w) ==
  LET l == tick[w]
  IN /\ l.at \in Spawning => work[l.name] = "no" /\ ~pool[l.name].in
     /\ l.at = "teardown" => work[l.name] = "no" /\ l.rec.pend # "no"
     /\ l.at \in {"resolve", "teardown"} =>
          \A n \in l.todo : pool[n].in => pool[n].pend # "no"
     /\ l.at = "dispatch" => \A n \in l.todo : pool[n].pend = "no"

\* Two failed calls may hide an orphan's work from the sweep.
SparedInv == faults < 2 => killed = {}

WorkInv ==
  /\ \A n \in Names : NameOK(n)
  /\ \A w \in Workspaces : TickOK(w)
  /\ SparedInv

Same(n) ==
  /\ enc'[n] = enc[n] /\ lis'[n] = lis[n] /\ work'[n] = work[n]
  /\ pool'[n] = pool[n]
Spares == faults <= faults' /\ (killed' = killed \/ faults' >= 2)

\* A step of a workspace's tick concerns its own names only.
LEMMA WorkFrame ==
  ASSUME SpawnInv, SpawnInv', WorkInv, NEW w \in Workspaces, Moves(w),
         \A n \in Names \ Owned(w) : Same(n),
         \A n \in Owned(w) : NameOK(n)',
         TickOK(w)', Spares
  PROVE  WorkInv'
<1>1. ASSUME NEW n \in Names PROVE NameOK(n)'
  <2>1. CASE n \in Owned(w)
    BY <2>1
  <2>2. CASE n \notin Owned(w)
    BY <2>2 DEF NameOK, Same, WorkInv
  <2> QED BY <2>1, <2>2
<1>2. ASSUME NEW v \in Workspaces PROVE TickOK(v)'
  <2>1. CASE v = w
    BY <2>1
  <2>2. CASE v # w
    <3>1. tick'[v] = tick[v]
      BY <2>2 DEF Moves
    <3>2. \A n \in Owned(v) : n \in Names \ Owned(w)
      BY <2>2 DEF Owned, Names
    <3>3. LocalOK(v, tick[v])
      BY DEF SpawnInv, LocalsInv
    <3>4. TickOK(v)
      BY DEF WorkInv
    <3> QED BY <3>1, <3>2, <3>3, <3>4 DEF TickOK, Same, LocalOK
  <2> QED BY <2>1, <2>2
<1>3. SparedInv'
  <2>1. faults \in Nat /\ faults' \in Nat
    BY DEF SpawnInv, WorldOK
  <2> QED BY <2>1 DEF Spares, SparedInv, WorkInv
<1> QED BY <1>1, <1>2, <1>3 DEF WorkInv

LEMMA WorkAt ==
  ASSUME SpawnInv, SpawnInv', WorkInv, NEW w \in Workspaces, Moves(w),
         NEW n \in Owned(w), \A m \in Names \ {n} : Same(m),
         NameOK(n)', TickOK(w)', Spares
  PROVE  WorkInv'
<1>1. \A m \in Names \ Owned(w) : Same(m)
  OBVIOUS
<1>2. ASSUME NEW m \in Owned(w) PROVE NameOK(m)'
  <2>1. CASE m = n
    BY <2>1
  <2>2. CASE m # n
    <3>1. m \in Names
      BY OwnNames
    <3> QED BY <2>2, <3>1 DEF NameOK, Same, WorkInv
  <2> QED BY <2>1, <2>2
<1> QED BY <1>1, <1>2, WorkFrame

LEMMA FailedSpares ==
  ASSUME WorldOK, NEW k \in Nat, Failed(k)
  PROVE  faults <= faults'
BY DEF Failed, WorldOK

\* Removing an instance without work spares it.
LEMMA DestroyedSpares ==
  ASSUME WorldOK, NEW n \in Names, Destroyed(n), work[n] = "no", NameOK(n)
  PROVE  /\ \A m \in Names \ {n} : Same(m)
         /\ NameOK(n)' /\ work'[n] = "no" /\ Spares
         /\ pool'[n] = pool[n] \/ pool'[n] = Gone
<1>1. PICK lost \in {"none", "listener", "record"} :
        /\ Failed(IF lost = "none" THEN 0 ELSE 1)
        /\ lis' = IF lost = "listener" THEN lis ELSE [lis EXCEPT ![n] = "none"]
        /\ pool' = IF lost = "record" THEN pool ELSE [pool EXCEPT ![n] = Gone]
  BY DEF Destroyed
<1>2. faults <= faults'
  BY <1>1, FailedSpares
<1>3. killed' = killed
  BY DEF Destroyed
<1>4. \A m \in Names \ {n} : Same(m)
  BY <1>1 DEF Destroyed, WorldOK, Same
<1>5. work'[n] = "no" /\ (pool'[n] = pool[n] \/ pool'[n] = Gone)
  BY <1>1 DEF Destroyed, WorldOK
<1>6. NameOK(n)'
  <2>1. CASE lost = "listener"
    BY <1>1, <1>5, <2>1 DEF NameOK, WorldOK, Gone
  <2>2. CASE lost # "listener"
    BY <1>1, <1>5, <2>2 DEF NameOK, WorldOK, Gone
  <2> QED BY <2>1, <2>2
<1> QED BY <1>2, <1>3, <1>4, <1>5, <1>6 DEF Spares

\* The start of the loop and of a tick.
LEMMA StartSpares ==
  ASSUME SpawnInv, SpawnInv', WorkInv, NEW w \in Workspaces, Moves(w),
         Resume(w) \/ TickStart(w)
  PROVE  WorkInv'
<1>0. WorldOK /\ tick[w] \in Local /\ tick \in [Workspaces -> Local]
  BY DEF SpawnInv, LocalsInv, LocalOK
<1>a. \A n \in Names : NameOK(n)
  BY DEF WorkInv
<1> USE DEF osc, ghosts, NoFault
<1>1. CASE Resume(w)
  <2>1. Spares
    <3>1. faults <= faults'
      BY <1>0, <1>1, FailedSpares DEF Resume, WorldOK
    <3> QED BY <3>1, <1>1 DEF Resume, Spares
  <2>2. enc' = enc /\ lis' = lis /\ work' = work
        /\ (pool' = AdoptedFromOsc(w) \/ pool' = pool)
    BY <1>1 DEF Resume
  <2>3. \A n \in Names \ Owned(w) : Same(n)
    BY <2>2 DEF Same, AdoptedFromOsc
  <2>4. \A n \in Owned(w) : NameOK(n)'
    <3> SUFFICES ASSUME NEW n \in Owned(w) PROVE NameOK(n)'
      OBVIOUS
    <3>1. n \in Names /\ NameOK(n)
      BY <1>a, OwnNames
    <3>2. pool'[n] = pool[n] \/ pool'[n] = Ready(FALSE)
      BY <2>2, <3>1 DEF AdoptedFromOsc
    <3>3. Ready(FALSE).url = FALSE /\ Ready(FALSE).pend = "no"
      BY DEF Ready, Gone
    <3> QED BY <2>2, <3>1, <3>2, <3>3 DEF NameOK
  <2>5. TickOK(w)'
    BY <1>0, <1>1 DEF Resume, Go, TickOK, Spawning, Creating
  <2> QED BY <2>1, <2>3, <2>4, <2>5, WorkFrame
<1>2. CASE TickStart(w)
  <2>1. Spares
    <3>1. faults <= faults'
      BY <1>0, <1>2, FailedSpares DEF TickStart
    <3> QED BY <3>1, <1>2 DEF TickStart, Spares
  <2>2. PICK gone \in SUBSET Owned(w) :
          /\ \A n \in gone : ~Exists(n)
          /\ pool' = [n \in Names |-> IF n \in gone THEN Gone ELSE pool[n]]
          /\ lis' = [n \in Names |-> IF n \in gone THEN "none" ELSE lis[n]]
          /\ tick' = [tick EXCEPT ![w].at = "resolve",
               ![w].todo = {n \in Tracked(w) \ gone : pool[n].pend # "no"}]
    BY <1>2, OwnNames DEF TickStart
  <2>3. enc' = enc /\ work' = work
    BY <1>2 DEF TickStart
  <2>4. \A n \in Names \ Owned(w) : Same(n)
    BY <2>2, <2>3, <1>0 DEF Same, WorldOK
  <2>5. \A n \in Owned(w) : NameOK(n)'
    BY <2>2, <2>3, <1>a, OwnNames DEF NameOK, Gone, Exists
  <2>6. TickOK(w)'
    <3>1. /\ tick'[w].at = "resolve"
          /\ tick'[w].todo = {n \in Tracked(w) \ gone : pool[n].pend # "no"}
      BY <2>2, <1>0 DEF Local
    <3>2. \A n \in tick'[w].todo : pool'[n].pend # "no"
      BY <3>1, <2>2, OwnNames
    <3> QED BY <3>1, <3>2 DEF TickOK, Spawning, Creating
  <2> QED BY <2>1, <2>4, <2>5, <2>6, WorkFrame
<1> QED BY <1>1, <1>2

\* Pending records: promoted, claimed, torn down, put back.
LEMMA ResolveSpares ==
  ASSUME SpawnInv, SpawnInv', WorkInv, NEW w \in Workspaces, Moves(w),
         NEW n \in Owned(w), ResolvePending(w, n)
  PROVE  WorkInv'
<1>0. WorldOK /\ tick[w] \in Local /\ tick \in [Workspaces -> Local] /\ n \in Names
  BY OwnNames DEF SpawnInv, LocalsInv, LocalOK
<1>a. NameOK(n) /\ TickOK(w)
  BY <1>0 DEF WorkInv
<1>1. PICK r \in Resolutions(n) :
        /\ Failed(r.cost)
        /\ lis' = [lis EXCEPT ![n] = r.lis]
        /\ pool' = [pool EXCEPT ![n] =
             IF r.up THEN Ready(TRUE)
             ELSE IF ~r.up /\ pool[n].pend = "late" THEN Gone ELSE r.rec]
        /\ tick' = [tick EXCEPT ![w].todo = @ \ {n},
             ![w].at = IF ~r.up /\ pool[n].pend = "late" THEN "teardown" ELSE @,
             ![w].name = IF ~r.up /\ pool[n].pend = "late" THEN n ELSE @,
             ![w].rec = IF ~r.up /\ pool[n].pend = "late" THEN r.rec ELSE @]
  BY DEF ResolvePending
<1>2. /\ r.rec.pend = pool[n].pend /\ r.rec.in = pool[n].in /\ r.cost \in Nat
      /\ r.up \in BOOLEAN /\ (r.up => r.lis = "running")
  BY <1>0, ResolutionFacts
<1>3. /\ enc' = enc /\ work' = work /\ killed' = killed
      /\ tick[w].at = "resolve" /\ n \in tick[w].todo
  BY DEF ResolvePending, ghosts
<1>4. Spares
  BY <1>0, <1>1, <1>2, <1>3, FailedSpares DEF Spares
<1>5. \A m \in Names \ {n} : Same(m)
  BY <1>0, <1>1, <1>3 DEF Same, WorldOK
<1>6. lis'[n] = r.lis /\ pool'[n] = IF r.up THEN Ready(TRUE)
             ELSE IF ~r.up /\ pool[n].pend = "late" THEN Gone ELSE r.rec
  BY <1>0, <1>1 DEF WorldOK
<1>b. pool[n].in => pool[n].pend # "no"
  BY <1>a, <1>3 DEF TickOK
<1>7. CASE r.up
  <2>1. NameOK(n)'
    <3>1. work[n] = "no" \/ enc[n] = "running"
      BY <1>a DEF NameOK
    <3> QED BY <3>1, <1>2, <1>3, <1>6, <1>7 DEF NameOK, Ready, Gone
  <2>2. TickOK(w)'
    <3>1. tick'[w].at = "resolve" /\ tick'[w].todo = tick[w].todo \ {n}
      BY <1>0, <1>1, <1>3, <1>7 DEF Local
    <3>2. \A m \in tick[w].todo \ {n} : pool'[m] = pool[m] /\ m \in Names
      BY <1>0, <1>5 DEF Same, Local
    <3> QED BY <3>1, <3>2, <1>a, <1>3 DEF TickOK, Spawning, Creating
  <2> QED BY <2>1, <2>2, <1>4, <1>5, WorkAt
<1>8. CASE ~r.up /\ pool[n].pend = "late"
  <2>0. work[n] = "no"
    BY <1>a, <1>8 DEF NameOK
  <2>1. NameOK(n)'
    BY <2>0, <1>3, <1>6, <1>8 DEF NameOK, Gone
  <2>2. TickOK(w)'
    <3>1. /\ tick'[w].at = "teardown" /\ tick'[w].name = n
          /\ tick'[w].rec = r.rec /\ tick'[w].todo = tick[w].todo \ {n}
      BY <1>0, <1>1, <1>3, <1>8 DEF Local
    <3>2. \A m \in tick[w].todo \ {n} : pool'[m] = pool[m] /\ m \in Names
      BY <1>0, <1>5 DEF Same, Local
    <3> QED BY <3>1, <3>2, <2>0, <1>2, <1>3, <1>8, <1>a
            DEF TickOK, Spawning, Creating
  <2> QED BY <2>1, <2>2, <1>4, <1>5, WorkAt
<1>9. CASE ~r.up /\ pool[n].pend # "late"
  <2>1. NameOK(n)'
    <3>1. pool'[n].pend = pool[n].pend /\ pool'[n].in = pool[n].in
      BY <1>2, <1>6, <1>9
    <3> QED BY <3>1, <1>3, <1>a, <1>b DEF NameOK
  <2>2. TickOK(w)'
    <3>1. tick'[w].at = "resolve" /\ tick'[w].todo = tick[w].todo \ {n}
      BY <1>0, <1>1, <1>3, <1>9 DEF Local
    <3>2. \A m \in tick[w].todo \ {n} : pool'[m] = pool[m] /\ m \in Names
      BY <1>0, <1>5 DEF Same, Local
    <3> QED BY <3>1, <3>2, <1>a, <1>3 DEF TickOK, Spawning, Creating
  <2> QED BY <2>1, <2>2, <1>4, <1>5, WorkAt
<1> QED BY <1>2, <1>7, <1>8, <1>9

LEMMA TeardownSpares ==
  ASSUME SpawnInv, SpawnInv', WorkInv, NEW w \in Workspaces, Moves(w),
         Teardown(w)
  PROVE  WorkInv'
<1>0. WorldOK /\ tick[w] \in Local /\ tick \in [Workspaces -> Local]
  BY DEF SpawnInv, LocalsInv, LocalOK
<1>n. PICK n \in Owned(w) : n = tick[w].name
  BY DEF Teardown, SpawnInv, LocalsInv, LocalOK
<1>1. /\ tick[w].at = "teardown" /\ n \in Owned(w) /\ n \in Names
      /\ work[n] = "no" /\ tick[w].rec.pend # "no" /\ NameOK(n)
      /\ tick[w].todo \subseteq Owned(w)
  BY <1>n, OwnNames DEF Teardown, SpawnInv, LocalsInv, LocalOK, WorkInv, TickOK
<1>2. tick'[w].at = "resolve" /\ tick'[w].todo = tick[w].todo
  BY <1>0 DEF Teardown, Local
<1>3. \A m \in tick[w].todo : m \in Names /\ (pool[m].in => pool[m].pend # "no")
  BY <1>1, OwnNames DEF WorkInv, TickOK
<1>4. CASE Destroyed(n)
  <2>1. /\ \A m \in Names \ {n} : Same(m)
        /\ NameOK(n)' /\ Spares
        /\ pool'[n] = pool[n] \/ pool'[n] = Gone
    BY <1>0, <1>1, <1>4, DestroyedSpares
  <2>2. \A m \in tick[w].todo : pool'[m].in => pool'[m].pend # "no"
    BY <2>1, <1>3 DEF Same, Gone
  <2>3. TickOK(w)'
    BY <1>2, <2>2 DEF TickOK, Spawning, Creating
  <2> QED BY <2>1, <2>3, <1>1, WorkAt
<1>5. CASE ~Destroyed(n)
  <2>1. PICK k \in 1 .. 2 :
          /\ Failed(k)
          /\ pool' = IF k = 1 THEN [pool EXCEPT ![n] = tick[w].rec] ELSE pool
          /\ UNCHANGED <<osc, ghosts>>
    BY <1>5, <1>n DEF Teardown
  <2>2. Spares
    BY <1>0, <2>1, FailedSpares DEF Spares, ghosts
  <2>3. \A m \in Names \ {n} : Same(m)
    BY <1>0, <2>1 DEF Same, WorldOK, osc
  <2>4. pool'[n] = pool[n] \/ pool'[n] = tick[w].rec
    BY <1>0, <1>1, <2>1 DEF WorldOK
  <2>5. NameOK(n)'
    BY <2>1, <2>4, <1>1 DEF NameOK, osc
  <2>6. \A m \in tick[w].todo : pool'[m].in => pool'[m].pend # "no"
    BY <2>3, <2>4, <1>1, <1>3 DEF Same
  <2>7. TickOK(w)'
    BY <1>2, <2>6 DEF TickOK, Spawning, Creating
  <2> QED BY <2>2, <2>3, <2>5, <2>7, <1>1, WorkAt
<1> QED BY <1>4, <1>5

LEMMA DownAt == \A todo : [Idle EXCEPT !.at = "down", !.todo = todo].at = "down"
BY DEF Idle

LEMMA FailedDown ==
  ASSUME NEW w \in Workspaces, tick \in [Workspaces -> Local],
         NEW kind, SpawnFailed(w, kind)
  PROVE  tick'[w].at = "down"
BY DownAt DEF SpawnFailed

\* The spawn itself: the name is new, so there is nothing on it to lose.
LEMMA SpawnSpares ==
  ASSUME SpawnConstants, SpawnInv, SpawnInv', WorkInv, NEW w \in Workspaces,
         Moves(w),
         Create(w) \/ ProbeTimedOut(w) \/ CreateListener(w) \/ AwaitReady(w)
           \/ Cleanup(w)
  PROVE  WorkInv'
<1>n. PICK n \in Owned(w) : n = tick[w].name
  BY DEF SpawnInv, LocalsInv, LocalOK, Create,
     ProbeTimedOut, CreateListener, AwaitReady, Cleanup, Spawning, Creating
<1>0. WorldOK /\ tick[w] \in Local /\ tick \in [Workspaces -> Local]
  BY DEF SpawnInv, LocalsInv, LocalOK
<1>1. /\ n \in Owned(w) /\ n \in Names
      /\ work[n] = "no" /\ ~pool[n].in /\ NameOK(n)
  BY <1>n, OwnNames DEF WorkInv, TickOK, Create,
     ProbeTimedOut, CreateListener, AwaitReady, Cleanup, Spawning, Creating
<1> USE DEF osc, ghosts, NoFault
<1>2. work' = work /\ killed' = killed
  BY DEF Create, ProbeTimedOut, CreateListener, AwaitReady, Cleanup, valkey
<1>3. \/ /\ pool' = pool
         /\ \/ tick'[w].at = "down"
            \/ tick'[w].at \in Spawning /\ tick'[w].name = n
      \/ \E rec \in Record :
           /\ pool' = [pool EXCEPT ![n] = rec]
           /\ rec.pend # "no" \/ lis'[n] = "running"
           /\ tick'[w].at = "down"
  <2>1. CASE Create(w)
    <3>1. pool' = pool
      BY <2>1 DEF Create
    <3>2. \/ \E kind : SpawnFailed(w, kind)
          \/ Go(w, "probe") \/ tick' = [tick EXCEPT ![w].try = @ + 1]
          \/ \E a : tick' = [tick EXCEPT ![w].at = "listener", ![w].try = 1,
                                          ![w].adopted = a]
      BY <2>1 DEF Create, Retry
    <3> QED BY <3>1, <3>2, <2>1, <1>0, <1>n, FailedDown
            DEF Create, Go, Spawning, Creating, Local
  <2>2. CASE ProbeTimedOut(w)
    BY <2>2, <1>0, <1>n, FailedDown
       DEF ProbeTimedOut, Spawning, Creating, Local
  <2>3. CASE CreateListener(w)
    BY <2>3, <1>0, <1>n DEF CreateListener, Go, Spawning, Creating, Local, valkey
  <2>4. CASE AwaitReady(w)
    <3>1. tick[w].at = "wait" /\ lis' = lis
      BY <2>4 DEF AwaitReady
    <3>2. CASE /\ lis[n] = "running" /\ pool' = [pool EXCEPT ![n] = Ready(TRUE)]
               /\ tick' = [tick EXCEPT ![w] = [Idle EXCEPT !.at = "down",
                                                  !.todo = Usable(w)]]
      <4>1. tick'[w].at = "down"
        BY <3>2, <1>0, DownAt
      <4> QED BY <4>1, <3>1, <3>2, GoneRecord
    <3>3. CASE /\ pool' = pool
               /\ \/ Go(w, "cleanup")
                  \/ tick' = [tick EXCEPT ![w].at = "cleanup", ![w].late = TRUE]
      BY <3>3, <1>0, <1>n DEF Go, Spawning, Creating, Local
    <3> QED BY <3>2, <3>3, <2>4, <1>n DEF AwaitReady
  <2>5. CASE Cleanup(w)
    <3>1. tick'[w].at = "down"
      BY <2>5, <1>0, FailedDown DEF Cleanup
    <3>2. tick[w].paired \in BOOLEAN
      BY <1>0 DEF Local
    <3>3. Pending(tick[w].paired) \in Record /\ Pending(tick[w].paired).pend # "no"
      BY <3>2, GoneRecord DEF Pending, Ready, Gone
    <3>4. pool' = pool \/ pool' = [pool EXCEPT ![n] = Pending(tick[w].paired)]
      BY <2>5, <1>n DEF Cleanup
    <3> QED BY <3>1, <3>3, <3>4
  <2> QED BY <2>1, <2>2, <2>3, <2>4, <2>5
<1>4. \A m \in Names \ {n} : enc'[m] = enc[m] /\ lis'[m] = lis[m]
  BY <1>0, <1>n DEF Create, ProbeTimedOut, CreateListener, AwaitReady, Cleanup, WorldOK
<1>5. faults <= faults'
  <2>1. faults' = faults => faults <= faults'
    BY <1>0 DEF WorldOK
  <2>2. CASE Cleanup(w)
    BY <2>1, <2>2, <1>0, FailedSpares DEF Cleanup
  <2>3. CASE Create(w) \/ ProbeTimedOut(w) \/ CreateListener(w) \/ AwaitReady(w)
    BY <2>1, <2>3, <1>0, FailedSpares
       DEF Create, ProbeTimedOut, CreateListener, AwaitReady
  <2> QED BY <2>2, <2>3
<1>6. Spares
  BY <1>2, <1>5 DEF Spares
<1>7. CASE pool' = pool
  <2>1. \A m \in Names \ {n} : Same(m)
    BY <1>2, <1>4, <1>7 DEF Same
  <2>2. NameOK(n)'
    BY <1>1, <1>2, <1>7 DEF NameOK
  <2>3. TickOK(w)'
    BY <1>1, <1>2, <1>3, <1>7 DEF TickOK, Spawning, Creating
  <2> QED BY <2>1, <2>2, <2>3, <1>1, <1>6, WorkAt
<1>8. ASSUME NEW rec \in Record,
             pool' = [pool EXCEPT ![n] = rec],
             rec.pend # "no" \/ lis'[n] = "running",
             tick'[w].at = "down"
      PROVE  WorkInv'
  <2>1. \A m \in Names \ {n} : Same(m)
    BY <1>0, <1>2, <1>4, <1>8 DEF Same, WorldOK
  <2>2. pool'[n] = rec
    BY <1>0, <1>1, <1>8 DEF WorldOK
  <2>3. NameOK(n)'
    BY <1>1, <1>2, <1>8, <2>2 DEF NameOK
  <2>4. TickOK(w)'
    BY <1>8 DEF TickOK, Spawning, Creating
  <2> QED BY <2>1, <2>3, <2>4, <1>1, <1>6, WorkAt
<1> QED BY <1>3, <1>7, <1>8

\* Steps that only move the tick on: the gate takes a name nothing remembers,
\* dispatch takes the usable instances.
LEMMA TurnSpares ==
  ASSUME SpawnInv, SpawnInv', WorkInv, NEW w \in Workspaces, Moves(w),
         Gate(w) \/ Sweep(w) \/ ReapEnds(w) \/ TickEnds(w)
  PROVE  WorkInv'
<1>0. WorldOK /\ tick[w] \in Local /\ tick \in [Workspaces -> Local]
  BY DEF SpawnInv, LocalsInv, LocalOK
<1>1. /\ enc' = enc /\ lis' = lis /\ work' = work /\ pool' = pool
      /\ killed' = killed
  BY DEF Gate, Sweep, ReapEnds, TickEnds, osc, valkey, ghosts
<1>2. faults <= faults'
  <2>1. faults' = faults => faults <= faults'
    BY <1>0 DEF WorldOK
  <2> QED BY <2>1, <1>0, FailedSpares
          DEF Gate, Sweep, ReapEnds, TickEnds, NoFault
<1>3. \A n \in Names \ Owned(w) : Same(n)
  BY <1>1 DEF Same
<1>4. \A n \in Owned(w) : NameOK(n)'
  BY <1>1, OwnNames DEF WorkInv, NameOK
<1>5. TickOK(w)'
  <2>1. CASE Gate(w)
    <3>1. CASE tick'[w].at = "down"
      BY <3>1 DEF TickOK, Spawning, Creating
    <3>2. CASE tick'[w].at # "down"
      <4>1. PICK n \in Owned(w) :
              /\ Fresh(n)
              /\ tick' = [tick EXCEPT ![w] = [Idle EXCEPT !.at = "create",
                             !.name = n, !.try = 1, !.slot = TRUE]]
        <5>1. \A todo : tick' = [tick EXCEPT ![w] = [Idle EXCEPT !.at = "down",
                                                    !.todo = todo]]
                         => tick'[w].at = "down"
          BY <1>0, DownAt
        <5> QED BY <5>1, <3>2, <2>1 DEF Gate
      <4>2. tick'[w].at = "create" /\ tick'[w].name = n
        BY <4>1, <1>0 DEF Idle
      <4>3. work[n] = "no" /\ ~pool[n].in
        BY <4>1, OwnNames DEF Fresh, WorkInv, NameOK
      <4> QED BY <4>2, <4>3, <1>1 DEF TickOK
    <3> QED BY <3>1, <3>2
  <2>2. CASE Sweep(w)
    <3>1. \/ tick'[w].at = "reap"
          \/ tick'[w].at = "dispatch" /\ tick'[w].todo = {}
      BY <2>2, <1>0 DEF Sweep, Go, Local
    <3> QED BY <3>1 DEF TickOK, Spawning, Creating
  <2>3. CASE ReapEnds(w)
    <3>1. /\ tick'[w].at = "dispatch"
          /\ tick'[w].todo = {n \in Usable(w) : ~pool[n].drain}
      BY <2>3, <1>0 DEF ReapEnds, Local
    <3>2. \A n \in tick'[w].todo : pool'[n].pend = "no"
      BY <3>1, <1>1 DEF Usable
    <3> QED BY <3>1, <3>2 DEF TickOK, Spawning, Creating
  <2>4. CASE TickEnds(w)
    <3>1. tick'[w].at = "idle"
      BY <2>4, <1>0 DEF TickEnds, Idle
    <3> QED BY <3>1 DEF TickOK, Spawning, Creating
  <2> QED BY <2>1, <2>2, <2>3, <2>4
<1> QED BY <1>1, <1>2, <1>3, <1>4, <1>5, WorkFrame DEF Spares

\* The scale-down destroys an instance only when it has no work.
LEMMA ScaleDownSpares ==
  ASSUME SpawnInv, SpawnInv', WorkInv, NEW w \in Workspaces, Moves(w),
         NEW n \in Owned(w), ScaleDown(w, n)
  PROVE  WorkInv'
<1>0. /\ WorldOK /\ tick[w] \in Local /\ tick \in [Workspaces -> Local]
      /\ n \in Names /\ NameOK(n)
  BY OwnNames DEF SpawnInv, LocalsInv, LocalOK, WorkInv
<1>1. TickOK(w)'
  <2>1. tick'[w].at \in {"down", "idle"}
    BY <1>0 DEF ScaleDown, Done, Local, Idle
  <2> QED BY <2>1 DEF TickOK, Spawning, Creating
<1>2. CASE Destroyed(n) /\ work[n] = "no"
  BY <1>0, <1>1, <1>2, DestroyedSpares, WorkAt
<1>3. CASE ~(Destroyed(n) /\ work[n] = "no")
  <2>1. /\ enc' = enc /\ lis' = lis /\ work' = work /\ killed' = killed
        /\ \/ pool' = pool
           \/ pool' = [pool EXCEPT ![n].drain = TRUE]
        /\ faults' = faults \/ Failed(1)
    BY <1>3 DEF ScaleDown, osc, ghosts, NoFault
  <2>2. Spares
    <3>1. faults' = faults => faults <= faults'
      BY <1>0 DEF WorldOK
    <3> QED BY <3>1, <2>1, <1>0, FailedSpares DEF Spares
  <2>3. \A m \in Names \ {n} : Same(m)
    BY <2>1, <1>0 DEF Same, WorldOK
  <2>4. /\ pool'[n].pend = pool[n].pend /\ pool'[n].in = pool[n].in
        /\ pool'[n].url = pool[n].url
    BY <2>1, <1>0 DEF WorldOK, Record
  <2>5. NameOK(n)'
    BY <2>1, <2>4, <1>0 DEF NameOK
  <2> QED BY <2>2, <2>3, <2>5, <1>1, WorkAt
<1> QED BY <1>2, <1>3

\* An orphan is removed when it answers that it has no work, when OSC does not
\* say that it runs, or after two failed calls.
LEMMA ReapSpares ==
  ASSUME SpawnInv, SpawnInv', WorkInv, NEW w \in Workspaces, Moves(w),
         NEW n \in Owned(w), Reap(w, n)
  PROVE  WorkInv'
<1>0. /\ WorldOK /\ tick[w] \in Local /\ tick \in [Workspaces -> Local]
      /\ n \in Names /\ NameOK(n)
  BY OwnNames DEF SpawnInv, LocalsInv, LocalOK, WorkInv
<1>1. TickOK(w)'
  <2>1. tick'[w].at = "reap"
    BY <1>0 DEF Reap, Done, Local
  <2> QED BY <2>1 DEF TickOK, Spawning, Creating
<1>a. faults' = faults => faults <= faults'
  BY <1>0 DEF WorldOK
<1>2. CASE Destroyed(n) /\ (enc[n] # "running" \/ work[n] = "no")
  <2>1. work[n] = "no"
    BY <1>0, <1>2 DEF NameOK
  <2> QED BY <1>0, <1>1, <1>2, <2>1, DestroyedSpares, WorkAt
<1>3. CASE /\ NoFault /\ pool' = [pool EXCEPT ![n] = Ready(FALSE)]
           /\ UNCHANGED <<osc, ghosts>>
  <2>1. Spares
    BY <1>3, <1>a DEF Spares, NoFault, ghosts
  <2>2. \A m \in Names \ {n} : Same(m)
    BY <1>3, <1>0 DEF Same, WorldOK, osc
  <2>3. pool'[n].pend = "no" /\ pool'[n].url = FALSE
    BY <1>3, <1>0 DEF WorldOK, Ready, Gone
  <2>4. NameOK(n)'
    BY <2>3, <1>3, <1>0 DEF NameOK, osc
  <2> QED BY <2>1, <2>2, <2>4, <1>1, WorkAt
<1>4. CASE Failed(1) /\ UNCHANGED <<osc, pool, ghosts>>
  <2>1. Spares
    BY <1>4, <1>0, FailedSpares DEF Spares, ghosts
  <2>2. \A m \in Names : Same(m)
    BY <1>4 DEF Same, osc
  <2>3. NameOK(n)'
    BY <1>4, <1>0 DEF NameOK, osc
  <2> QED BY <2>1, <2>2, <2>3, <1>1, WorkAt
<1>5. CASE /\ faults' = faults + 2
           /\ enc' = [enc EXCEPT ![n] = "none"]
           /\ lis' = [lis EXCEPT ![n] = "none"]
           /\ work' = [work EXCEPT ![n] = "no"]
           /\ UNCHANGED pool
  <2>1. Spares
    BY <1>5, <1>0 DEF Spares, WorldOK
  <2>2. \A m \in Names \ {n} : Same(m)
    BY <1>5, <1>0 DEF Same, WorldOK
  <2>3. NameOK(n)'
    BY <1>5, <1>0 DEF NameOK, WorldOK
  <2> QED BY <2>1, <2>2, <2>3, <1>1, WorkAt
<1> QED BY <1>2, <1>3, <1>4, <1>5, Zenon DEF Reap

LEMMA DispatchFaults ==
  ASSUME WorldOK, NEW w \in Workspaces, NEW n \in Names, Dispatch(w, n)
  PROVE  faults <= faults'
<1> DEFINE Sends(t) == Eligible(n, t.trust) /\ ~Busy(n) /\ queue[w] > 0
<1>1. PICK t \in Trusts(n), p \in BOOLEAN :
        Failed(t.cost + IF Sends(t) /\ ~p THEN 1 ELSE 0)
  BY Zenon DEF Dispatch
<1> DEFINE k == t.cost + IF Sends(t) /\ ~p THEN 1 ELSE 0
<1>2. k \in Nat
  BY TrustFacts
<1>3. Failed(k)
  BY <1>1
<1> HIDE DEF k
<1> QED BY <1>2, <1>3, FailedSpares

\* A job goes to an instance that is up and not pending.
LEMMA DispatchSpares ==
  ASSUME SpawnInv, SpawnInv', WorkInv, NEW w \in Workspaces, Moves(w),
         NEW n \in Owned(w), Dispatch(w, n)
  PROVE  WorkInv'
<1>0. /\ WorldOK /\ tick[w] \in Local /\ tick \in [Workspaces -> Local]
      /\ n \in Names /\ NameOK(n) /\ TickOK(w)
  BY OwnNames DEF SpawnInv, LocalsInv, LocalOK, WorkInv
<1>1. /\ tick[w].at = "dispatch" /\ n \in tick[w].todo /\ pool[n].pend = "no"
      /\ tick[w].todo \subseteq Names
      /\ tick'[w].at = "dispatch" /\ tick'[w].todo = tick[w].todo \ {n}
  BY <1>0 DEF Dispatch, TickOK, Done, Local
<1>2. enc' = enc /\ lis' = lis /\ killed' = killed
  BY DEF Dispatch
<1> DEFINE Sends(t) == Eligible(n, t.trust) /\ ~Busy(n) /\ queue[w] > 0
           Taken(t, p) == p /\ Sends(t) /\ enc[n] = "running"
<1>3. PICK t \in Trusts(n), p \in BOOLEAN :
        /\ pool' = [pool EXCEPT ![n].trust = t.trust,
                      ![n].aged = IF Taken(t, p) THEN FALSE ELSE @]
        /\ work' = IF Taken(t, p) THEN [work EXCEPT ![n] = "encode"] ELSE work
  BY Zenon DEF Dispatch
<1>4. \/ work' = work
      \/ enc[n] = "running" /\ work' = [work EXCEPT ![n] = "encode"]
  BY <1>3
<1> HIDE DEF Sends, Taken
<1>5. /\ pool'[n].pend = "no" /\ pool'[n].in = pool[n].in
      /\ pool'[n].url = pool[n].url
      /\ \A m \in Names \ {n} : pool'[m] = pool[m]
  BY <1>0, <1>1, <1>3 DEF WorldOK, Record
<1>6. NameOK(n)'
  BY <1>0, <1>1, <1>2, <1>4, <1>5 DEF NameOK, WorldOK
<1>7. \A m \in Names \ {n} : Same(m)
  BY <1>0, <1>2, <1>4, <1>5 DEF Same, WorldOK
<1>8. TickOK(w)'
  BY <1>0, <1>1, <1>5 DEF TickOK, Spawning, Creating
<1>9. Spares
  BY <1>0, <1>2, DispatchFaults DEF Spares
<1> QED BY <1>6, <1>7, <1>8, <1>9, WorkAt

LEMMA TickSpares ==
  ASSUME SpawnConstants, SpawnInv, SpawnInv', WorkInv, NEW w \in Workspaces,
         Tick(w)
  PROVE  WorkInv'
<1>1. Moves(w)
  BY TickSlots
<1> QED BY <1>1, StartSpares, ResolveSpares, TeardownSpares, SpawnSpares,
           TurnSpares, ScaleDownSpares, ReapSpares, DispatchSpares DEF Tick

\* OSC, time, submits, losses and restarts.
LEMMA OutsideSpares ==
  ASSUME SpawnConstants, SpawnInv, SpawnInv', WorkInv,
         \/ \E n \in Names : Outside(n) \/ Vanishes(n)
         \/ \E w \in Workspaces : Submit(w) \/ HoldOffEnds(w) \/ Wipe(w)
         \/ Restart
  PROVE  WorkInv'
<1>0. /\ WorldOK /\ tick \in [Workspaces -> Local]
      /\ \A w \in Workspaces : LocalOK(w, tick[w]) /\ TickOK(w)
      /\ \A n \in Names : NameOK(n)
  BY DEF SpawnInv, LocalsInv, WorkInv
<1> USE DEF osc, ghosts, valkey, process
\* Instances and deadlines: no step gives work, takes a record in, or makes a
\* record pending or ready.
<1>1. ASSUME tick' = tick, killed' = killed, faults <= faults',
             \A n \in Names :
               /\ NameOK(n)' /\ (work[n] = "no" => work'[n] = "no")
               /\ pool'[n].in => pool[n].in
               /\ pool[n].pend = "no" => pool'[n].pend = "no"
               /\ pool'[n].in => (pool[n].pend # "no" => pool'[n].pend # "no")
      PROVE  WorkInv'
  <2>1. ASSUME NEW w \in Workspaces PROVE TickOK(w)'
    <3>1. tick'[w] = tick[w] /\ LocalOK(w, tick[w]) /\ TickOK(w)
      BY <1>0, <1>1
    <3>2. /\ Owned(w) \subseteq Names
      BY OwnNames
    <3> QED BY <3>1, <3>2, <1>1 DEF TickOK, LocalOK
  <2>2. SparedInv'
    BY <1>0, <1>1 DEF WorkInv, SparedInv, SpawnInv, WorldOK
  <2> QED BY <1>1, <2>1, <2>2 DEF WorkInv
<1>2. ASSUME NEW n \in Names, Lands(n) \/ ComesUp(n) \/ Vanishes(n) \/ WorkEnds(n)
      PROVE  WorkInv'
  <2>1. /\ tick' = tick /\ killed' = killed /\ pool' = pool
    BY <1>2 DEF Lands, ComesUp, Vanishes, WorkEnds
  <2>2. faults <= faults'
    <3>1. faults' = faults => faults <= faults'
      BY <1>0 DEF WorldOK
    <3> QED BY <3>1, <1>0, <1>2, FailedSpares
            DEF Lands, ComesUp, Vanishes, WorkEnds
  <2>3. \A m \in Names : NameOK(m)' /\ (work[m] = "no" => work'[m] = "no")
    BY <1>0, <1>2 DEF Lands, ComesUp, Vanishes, WorkEnds, NameOK, WorldOK
  <2> QED BY <2>1, <2>2, <2>3, <1>1
<1>3. ASSUME NEW n \in Names, Late(n) PROVE WorkInv'
  <2>1. /\ tick' = tick /\ killed' = killed /\ enc' = enc /\ lis' = lis
        /\ work' = work /\ faults' = faults /\ faults <= faults'
    BY <1>3, <1>0 DEF Late, WorldOK
  <2>2. \A m \in Names :
          /\ pool'[m].in = pool[m].in /\ pool'[m].url = pool[m].url
          /\ pool'[m].pend = "no" <=> pool[m].pend = "no"
    <3> SUFFICES ASSUME NEW m \in Names
                 PROVE  /\ pool'[m].in = pool[m].in /\ pool'[m].url = pool[m].url
                        /\ pool'[m].pend = "no" <=> pool[m].pend = "no"
      OBVIOUS
    <3>1. pool[n] \in Record /\ pool[m] \in Record
      BY <1>0 DEF WorldOK
    <3>2. \/ pool' = pool
          \/ pool[n].pend = "new" /\ pool' = [pool EXCEPT ![n].pend = "late"]
          \/ pool' = [pool EXCEPT ![n].block = "no"]
          \/ pool' = [pool EXCEPT ![n].trust = "late"]
          \/ pool' = [pool EXCEPT ![n].aged = TRUE]
      BY <1>3 DEF Late
    <3>3. CASE m # n
      BY <3>2, <3>3, <1>0 DEF WorldOK
    <3>4. CASE m = n
      BY <3>1, <3>2, <3>4, <1>0 DEF WorldOK, Record
    <3> QED BY <3>3, <3>4
  <2>3. \A m \in Names : NameOK(m)'
    BY <2>1, <2>2, <1>0 DEF NameOK
  <2> QED BY <2>1, <2>2, <2>3, <1>1
<1>4. ASSUME NEW w \in Workspaces, HoldOffEnds(w) PROVE WorkInv'
  <2>1. /\ tick' = tick /\ killed' = killed /\ enc' = enc /\ lis' = lis
        /\ work' = work /\ pool' = pool /\ faults <= faults'
    BY <1>4, <1>0 DEF HoldOffEnds, WorldOK
  <2> QED BY <2>1, <1>0, <1>1 DEF NameOK
<1>5. ASSUME NEW w \in Workspaces, Wipe(w) PROVE WorkInv'
  <2>1. /\ tick' = tick /\ killed' = killed /\ enc' = enc /\ lis' = lis
        /\ work' = work /\ faults <= faults'
    BY <1>5, <1>0 DEF Wipe, WorldOK
  <2>2. \A n \in Names : pool'[n] = pool[n] \/ pool'[n] = Gone
    BY <1>5 DEF Wipe
  <2>3. Gone.in = FALSE /\ Gone.pend = "no"
    BY DEF Gone
  <2>4. \A n \in Names : NameOK(n)'
    BY <2>1, <2>2, <2>3, <1>0 DEF NameOK
  <2> QED BY <2>1, <2>2, <2>3, <2>4, <1>1
\* A loop that starts again knows nothing.
<1>6. ASSUME killed' = killed, faults' = faults, enc' = enc, lis' = lis,
             work' = work, pool' = pool,
             \A w \in Workspaces : \/ tick'[w] = tick[w]
                                   \/ tick'[w].at \in {"boot", "idle"}
      PROVE  WorkInv'
  <2>1. \A n \in Names : NameOK(n)'
    BY <1>0, <1>6 DEF NameOK
  <2>2. ASSUME NEW w \in Workspaces PROVE TickOK(w)'
    <3>1. CASE tick'[w] = tick[w]
      BY <3>1, <1>0, <1>6 DEF TickOK
    <3>2. CASE tick'[w].at \in {"boot", "idle"}
      BY <3>2 DEF TickOK, Spawning, Creating
    <3> QED BY <3>1, <3>2, <1>6
  <2>3. SparedInv'
    BY <1>6 DEF WorkInv, SparedInv
  <2> QED BY <2>1, <2>2, <2>3 DEF WorkInv
<1>7. ASSUME NEW w \in Workspaces, Submit(w) PROVE WorkInv'
  <2>1. \A v \in Workspaces : tick'[v] = tick[v] \/ tick'[v].at = "idle"
    BY <1>7, <1>0 DEF Submit, Idle
  <2> QED BY <1>7, <2>1, <1>6 DEF Submit
<1>8. CASE Restart
  <2>1. \A v \in Workspaces : tick'[v].at = "boot"
    BY <1>8 DEF Restart, Idle
  <2> QED BY <1>8, <2>1, <1>6 DEF Restart
<1> QED BY <1>2, <1>3, <1>4, <1>5, <1>7, <1>8 DEF Outside

LEMMA NextSpares ==
  ASSUME SpawnConstants, SpawnInv, WorkInv, [Next]_vars
  PROVE  WorkInv'
<1>0. SpawnInv'
  BY NextSlots
<1>1. CASE \E w \in Workspaces : Tick(w)
  BY <1>0, <1>1, TickSpares
<1>2. CASE \/ \E n \in Names : Outside(n) \/ Vanishes(n)
           \/ \E w \in Workspaces : Submit(w) \/ HoldOffEnds(w) \/ Wipe(w)
           \/ Restart
  BY <1>0, <1>2, OutsideSpares
<1>3. CASE UNCHANGED vars
  BY <1>3 DEF vars, WorkInv, NameOK, TickOK, SparedInv
<1> QED BY <1>1, <1>2, <1>3 DEF Next

LEMMA InitSpares == Init => WorkInv
BY DEF Init, WorkInv, NameOK, TickOK, SparedInv, Gone, Idle, Spawning, Creating

\* A pool record that names a listener and is not pending was written when both
\* halves were up, through any failed calls, restarts and losses.
THEOREM PromotedTrue ==
  ASSUME SpawnConstants
  PROVE  Spec => []PromotedWhole
<1>1. Init => SpawnInv /\ WorkInv
  BY InitSlots, InitSpares
<1>2. SpawnInv /\ WorkInv /\ [Next]_vars => (SpawnInv /\ WorkInv)'
  BY NextSlots, NextSpares
<1>3. SpawnInv /\ WorkInv => PromotedWhole
  BY DEF WorkInv, NameOK, PromotedWhole
<1> QED BY <1>1, <1>2, <1>3, PTL DEF Spec

\* While fewer than two calls have failed, no teardown, clean-up, scale-down or
\* sweep has removed an instance with work on it.  (When an orphan does not
\* answer and OSC's list cannot be read either, the sweep removes it unasked.)
THEOREM SweepsSpare ==
  ASSUME SpawnConstants
  PROVE  Spec => [](faults < 2 => WorkSpared)
<1>1. Init => SpawnInv /\ WorkInv
  BY InitSlots, InitSpares
<1>2. SpawnInv /\ WorkInv /\ [Next]_vars => (SpawnInv /\ WorkInv)'
  BY NextSlots, NextSpares
<1>3. SpawnInv /\ WorkInv => (faults < 2 => WorkSpared)
  BY DEF WorkInv, SparedInv, WorkSpared
<1> QED BY <1>1, <1>2, <1>3, PTL DEF Spec
=============================================================================
