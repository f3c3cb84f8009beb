---------------------------- MODULE StorageQuota ----------------------------
(***************************************************************************)
(* The cap on the bytes a deployment stores.  data/storage-quota.ts keeps  *)
(* one counter: bytes reserved by uploads under way and bytes committed.   *)
(* Uploads and pulls reserve before they write (routes/asset-upload.ts,    *)
(* pipeline/url-pull-worker.ts), presigned uploads are admitted when they  *)
(* are finalized, dropped files are only recorded (pipeline/watch-         *)
(* folder.ts).  A sweep overwrites the committed bytes with the sum over   *)
(* the buckets of every ready stack (data/storage-quota-stack-sum.ts).     *)
(***************************************************************************)
EXTENDS Naturals, FiniteSets, FiniteSetsExt, Functions

CONSTANTS
    Cap,          \* STORAGE_CAP_BYTES
    Sized,        \* uploads whose length is known when they begin (PUT, URL pull)
    Presigned,    \* uploads that reach the bucket without this process
    Dropped,      \* files written into a watched bucket by others
    Size,         \* [Uploads -> Nat]: bytes of the object
    Place,        \* [Uploads -> Stacks]: the stack whose bucket holds it
    Stacks, Ready,
    Identity,     \* [Stacks -> the object store behind it]; one for all under an override
    Durable,      \* is the counter in CouchDB (TRUE) or in memory (FALSE)?
    Quiet,        \* does the sweep only run while no upload is under way?
    MaxRuns,      \* bound: uploads begun
    MaxFaults,    \* bound: broken transfers, failed document writes and stack reads
    MaxBoots      \* bound: restarts

VARIABLES
    counter,   \* [consumed, reserved]
    up,        \* [Uploads -> "idle" | "reserved" | "written" | "committed"]
    held,      \* [Uploads -> bytes of its unsettled reservation]
    stored,    \* objects in the buckets
    sweep,     \* the reconciliation pass: [at, todo, total, seen, missed]; kept and ever:
               \* objects there throughout it, and at any time of it
    runs, faults, boots
vars == <<counter, up, held, stored, sweep, runs, faults, boots>>

Uploads == Sized \cup Presigned \cup Dropped
Bytes(S) == MapThenSumSet(LAMBDA u : Size[u], S)
NoSweep == [at |-> "idle", todo |-> {}, total |-> 0, seen |-> {}, missed |-> FALSE,
            kept |-> {}, ever |-> {}]

Init ==
    /\ counter = [consumed |-> 0, reserved |-> 0]
    /\ up = [u \in Uploads |-> "idle"] /\ held = [u \in Uploads |-> 0]
    /\ stored = {} /\ sweep = NoSweep
    /\ runs = 0 /\ faults = 0 /\ boots = 0

---------------------------------------------------------------------------
(* The counter.  Each operation is one atomic update of it.                *)

Minus(a, b) == IF a > b THEN a - b ELSE 0

\* reserve() when it admits.
Reserve(n) ==
    /\ counter.consumed + counter.reserved + n <= Cap
    /\ counter' = [counter EXCEPT !.reserved = @ + n]

OverCap(n) == counter.consumed + counter.reserved + n > Cap

\* commit() and release() of a reservation; a settled one does nothing.
CommitHeld(u) ==
    /\ counter' = [consumed |-> counter.consumed + Size[u],
                   reserved |-> Minus(counter.reserved, held[u])]
    /\ held' = [held EXCEPT ![u] = 0]

ReleaseHeld(u) ==
    /\ counter' = [counter EXCEPT !.reserved = Minus(@, held[u])]
    /\ held' = [held EXCEPT ![u] = 0]

---------------------------------------------------------------------------
(* Uploads.                                                                *)

Put(u) ==
    /\ stored' = stored \cup {u}
    /\ sweep' = IF sweep.at = "sum" THEN [sweep EXCEPT !.ever = @ \cup {u}] ELSE sweep
Take(u) == stored' = stored \ {u} /\ sweep' = [sweep EXCEPT !.kept = @ \ {u}]

\* PUT and URL pull: headroom is reserved before a byte is written.
Admit(u) ==
    /\ u \in Sized /\ up[u] = "idle" /\ runs < MaxRuns /\ (Quiet => sweep.at = "idle")
    /\ Reserve(Size[u])
    /\ held' = [held EXCEPT ![u] = Size[u]]
    /\ up' = [up EXCEPT ![u] = "reserved"] /\ runs' = runs + 1
    /\ UNCHANGED <<stored, sweep, faults, boots>>

Transfer(u) ==
    /\ up[u] = "reserved"
    /\ Put(u)
    /\ up' = [up EXCEPT ![u] = "written"]
    /\ UNCHANGED <<counter, held, runs, faults, boots>>

\* The transfer breaks: the reservation is released.
TransferBreaks(u) ==
    /\ up[u] = "reserved" /\ faults < MaxFaults
    /\ ReleaseHeld(u)
    /\ up' = [up EXCEPT ![u] = "idle"] /\ faults' = faults + 1
    /\ UNCHANGED <<stored, sweep, runs, boots>>

Commit(u) ==
    /\ up[u] = "written"
    /\ CommitHeld(u)
    /\ up' = [up EXCEPT ![u] = "committed"]
    /\ UNCHANGED <<stored, sweep, runs, faults, boots>>

\* The document write after the commit fails: the pull's catch block calls
\* release on the settled reservation and tries again, as a client may.
RecordFails(u) ==
    /\ up[u] = "committed" /\ faults < MaxFaults
    /\ ReleaseHeld(u)
    /\ up' = [up EXCEPT ![u] = "idle"] /\ faults' = faults + 1
    /\ UNCHANGED <<stored, sweep, runs, boots>>

Recorded(u) ==
    /\ up[u] = "committed"
    /\ up' = [up EXCEPT ![u] = "idle"]
    /\ UNCHANGED <<counter, held, stored, sweep, runs, faults, boots>>

\* A presigned object arrives in the bucket; a dropped file too, and the watch
\* folder adds its size without a check.
Arrives(u) ==
    /\ u \in Presigned /\ up[u] = "idle" /\ u \notin stored /\ runs < MaxRuns
    /\ (Quiet => sweep.at = "idle")
    /\ Put(u) /\ runs' = runs + 1
    /\ up' = [up EXCEPT ![u] = "arrived"]
    /\ UNCHANGED <<counter, held, faults, boots>>

Drop(u) ==
    /\ u \in Dropped /\ u \notin stored /\ runs < MaxRuns /\ (Quiet => sweep.at = "idle")
    /\ Put(u) /\ runs' = runs + 1
    /\ counter' = [counter EXCEPT !.consumed = @ + Size[u]]
    /\ UNCHANGED <<up, held, faults, boots>>

FinalizeKeeps(u) ==
    /\ up[u] = "arrived" /\ OverCap(Size[u])
    /\ up' = [up EXCEPT ![u] = "idle"]
    /\ UNCHANGED <<counter, held, stored, sweep, runs, faults, boots>>

\* POST /upload-complete on an object the cap does not admit: it is deleted.
FinalizeRefused(u) ==
    /\ up[u] = "arrived" /\ OverCap(Size[u])
    /\ Take(u)
    /\ up' = [up EXCEPT ![u] = "idle"]
    /\ UNCHANGED <<counter, held, runs, faults, boots>>

\* An admitted one is reserved and then committed.
FinalizeAdmit(u) ==
    /\ up[u] = "arrived"
    /\ Reserve(Size[u])
    /\ held' = [held EXCEPT ![u] = Size[u]]
    /\ up' = [up EXCEPT ![u] = "written"]
    /\ UNCHANGED <<stored, sweep, runs, faults, boots>>

\* Purges and deletions take objects away; the counter learns from the sweep.
Delete(u) ==
    /\ u \in stored /\ up[u] = "idle" /\ (Quiet => sweep.at = "idle")
    /\ Take(u)
    /\ UNCHANGED <<counter, up, held, runs, faults, boots>>

---------------------------------------------------------------------------
(* The sweep.                                                              *)

Underway == \E u \in Uploads : up[u] # "idle"

\* Only the stacks the resolver connects are walked.
SweepStart ==
    /\ sweep.at = "idle" /\ ~(Quiet /\ Underway)
    /\ sweep' = [NoSweep EXCEPT !.at = "sum", !.todo = Ready, !.kept = stored, !.ever = stored]
    /\ UNCHANGED <<counter, up, held, stored, runs, faults, boots>>

Held(s) == {u \in stored : Identity[Place[u]] = Identity[s]}

\* A stack is summed; an object store already summed in this pass counts once,
\* and a stack without storage (one that is not ready) spoils the pass.
SumStack(s) ==
    /\ sweep.at = "sum" /\ s \in sweep.todo
    /\ sweep' = IF Identity[s] \in sweep.seen THEN [sweep EXCEPT !.todo = @ \ {s}]
                ELSE IF s \notin Ready THEN [sweep EXCEPT !.todo = @ \ {s}, !.missed = TRUE]
                ELSE [sweep EXCEPT !.todo = @ \ {s}, !.seen = @ \cup {Identity[s]},
                                   !.total = @ + Bytes(Held(s))]
    /\ UNCHANGED <<counter, up, held, stored, runs, faults, boots>>

\* A stack cannot be read, resolves without storage, or resolves to another.
StackFails(s) ==
    /\ sweep.at = "sum" /\ s \in sweep.todo /\ faults < MaxFaults
    /\ sweep' = [sweep EXCEPT !.todo = @ \ {s}, !.missed = TRUE]
    /\ faults' = faults + 1
    /\ UNCHANGED <<counter, up, held, stored, runs, boots>>

\* The total is written unless a stack was missed or none was there.
SweepEnd ==
    /\ sweep.at = "sum" /\ sweep.todo = {}
    /\ counter' = IF sweep.missed \/ sweep.seen = {} THEN counter
                  ELSE [counter EXCEPT !.consumed = sweep.total]
    /\ sweep' = NoSweep
    /\ UNCHANGED <<up, held, stored, runs, faults, boots>>

\* The process dies with its uploads and restarts; a counter in memory is gone.
Restart ==
    /\ boots < MaxBoots /\ boots' = boots + 1
    /\ counter' = IF Durable THEN counter ELSE [consumed |-> 0, reserved |-> 0]
    /\ up' = [u \in Uploads |-> IF up[u] = "arrived" THEN "arrived" ELSE "idle"]
    /\ held' = [u \in Uploads |-> 0]
    /\ sweep' = NoSweep
    /\ UNCHANGED <<stored, runs, faults>>

---------------------------------------------------------------------------
Sweep == SweepStart \/ (\E s \in Stacks : SumStack(s)) \/ SweepEnd

UploadStep(u) ==
    \/ Admit(u) \/ Transfer(u) \/ TransferBreaks(u) \/ Commit(u) \/ RecordFails(u) \/ Recorded(u)
    \/ Arrives(u) \/ Drop(u) \/ FinalizeRefused(u) \/ FinalizeAdmit(u) \/ Delete(u)

Next ==
    \/ \E u \in Uploads : UploadStep(u)
    \/ Sweep \/ (\E s \in Stacks : StackFails(s))
    \/ Restart

Spec == Init /\ [][Next]_vars

\* What goes on by itself: an upload under way ends.
UploadEnds(u) == Transfer(u) \/ Commit(u) \/ Recorded(u) \/ FinalizeRefused(u) \/ FinalizeAdmit(u)

---------------------------------------------------------------------------
(* Properties                                                              *)

\* Every variable has its type; an idle upload holds nothing.
TypeOK ==
    /\ counter.consumed \in Nat /\ counter.reserved \in Nat
    /\ up \in [Uploads -> {"idle", "reserved", "written", "committed", "arrived"}]
    /\ \A u \in Uploads : held[u] \in 0..Size[u] /\ (up[u] = "idle" => held[u] = 0)
    /\ stored \subseteq Uploads /\ sweep.at \in {"idle", "sum"} /\ sweep.todo \subseteq Stacks

\* The objects stored never exceed the cap (uploads of known length).
StoredWithinCap == Bytes(stored) <= Cap

\* Every object the cap let in stays within it; a presigned object not yet
\* finalized, or a dropped file, is not let in by the cap.
AdmittedWithinCap == Bytes({u \in stored \ Dropped : up[u] # "arrived"}) <= Cap

\* Once no upload is under way no headroom is held.
HeadroomReturned == ~Underway => counter.reserved = 0

\* What a sweep writes is never short of the objects that were stored all the
\* while it ran, nor more than those stored at any time of it.
SweepExact ==
    (sweep.at = "sum" /\ sweep'.at = "idle" /\ counter' # counter)
       => counter'.consumed >= Bytes(sweep.kept)
          /\ counter'.consumed <= Bytes(sweep.ever)

\* When uploads cease, the counter comes to agree with the buckets.
Unfinished == counter.consumed # Bytes(stored) /\ ~Underway
=============================================================================
