----------------------------- MODULE Delivery -----------------------------
(***************************************************************************)
(* Exporting an asset to a registered destination: the console's export    *)
(* block (export-action.js), POST /:id/deliver and the copy behind it      *)
(* (asset-delivery.ts).  The copy is bounded by a timer that answers the   *)
(* request and leaves the copy running; the block is rebuilt by the detail *)
(* view while a request is under way.                                      *)
(*                                                                         *)
(* A source object is its version, and every version has its own size, so  *)
(* comparing byte counts compares versions; 0 is "no object".              *)
(***************************************************************************)
EXTENDS FiniteSets, Naturals, Sequences

CONSTANTS Dests, Buckets,
          MaxVer,      \* bound: source versions uploaded
          TooLarge,    \* versions above SINGLE_COPY_MAX_BYTES
          MaxMounts,   \* bound: export blocks mounted
          MaxPosts,    \* bound: exports asked for
          MaxChanges,  \* bound: registry changes
          MaxFaults,   \* bound: store and network failures
          Calm,        \* the block is rebuilt only when no request is under way
          Settled      \* the registry changes only when no request is under way

VARIABLES reg,      \* the registry's record of each destination
          src,      \* the source version in the source bucket
          at,       \* the version each bucket of our store holds
          ours,     \* the client's role may write; storage is configured
          memo,     \* notConfiguredSeen
          blocks,   \* the blocks mounted; the last is on screen
          tasks,    \* requests under way
          said,     \* the outcome on screen
          posts, changes, faults
vars == <<reg, src, at, ours, memo, blocks, tasks, said, posts, changes, faults>>

Ver == 0..MaxVer
Record == [on : BOOLEAN, out : BOOLEAN, here : BOOLEAN, bucket : Buckets]
Block == [view : {"loading", "form", "empty", "unreadable", "unavailable", "closed"},
          list : SUBSET Dests, listed : 0..MaxChanges, busy : BOOLEAN]
Steps == {"sent", "record", "target", "probe", "stat", "copy", "landed", "verify", "done"}
Answers == {"none", "200", "400", "403", "409", "422", "role", "501", "502", "504", "net"}
Task == [block : 1..MaxMounts, kind : {"list", "post"}, dest : Dests, step : Steps,
         ans : Answers, told : BOOLEAN, again : BOOLEAN, list : SUBSET Dests, listed : 0..MaxChanges,
         here : BOOLEAN, bucket : Buckets, whole : BOOLEAN,
         seen : Ver, cut : Ver, read : Ver, hit : BOOLEAN]

\* What the block can tell: the outcome classified from the answer.
Texts == Answers \cup {"busy"}

TypeOK ==
    /\ reg \in [Dests -> Record] /\ src \in Ver /\ at \in [Buckets -> Ver]
    /\ ours \in [write : BOOLEAN, conf : BOOLEAN] /\ memo \in BOOLEAN
    /\ blocks \in Seq(Block) /\ Len(blocks) \in 1..MaxMounts /\ tasks \in SUBSET Task
    /\ said \in [text : Texts, hit : BOOLEAN, reread : BOOLEAN]
    /\ posts \in 0..MaxPosts /\ changes \in 0..MaxChanges /\ faults \in 0..MaxFaults

-----------------------------------------------------------------------------
(* The block. *)

Screen == Len(blocks)
Fresh(q, kind) ==
    [block |-> q, kind |-> kind, dest |-> CHOOSE d \in Dests : TRUE, step |-> "sent", ans |-> "none",
     told |-> FALSE, again |-> FALSE, list |-> {}, listed |-> 0, here |-> FALSE,
     bucket |-> CHOOSE b \in Buckets : TRUE, whole |-> FALSE, seen |-> 0, cut |-> 0, read |-> 0,
     hit |-> FALSE]
New == [view |-> IF memo THEN "unavailable" ELSE "loading", list |-> {}, listed |-> 0, busy |-> FALSE]
Nothing == [text |-> "none", hit |-> FALSE, reread |-> TRUE]
Quiet == \A t \in tasks : t.told

\* GET /export-destinations keeps the output roles; deliverableDestinations
\* keeps what the API would accept.
Listed == {d \in Dests : reg[d].on /\ reg[d].out}

\* mountExportAction: the block in its pending (or unavailable) state, and a
\* read of the destinations.
Mount ==
    /\ Len(blocks) < MaxMounts /\ (Calm => Quiet)
    /\ blocks' = Append(blocks, New)
    /\ tasks' = IF memo THEN tasks ELSE tasks \cup {Fresh(Len(blocks) + 1, "list")}
    /\ said' = Nothing
    /\ UNCHANGED <<reg, src, at, ours, memo, posts, changes, faults>>

\* The retry button of an unreadable list.
Retry ==
    /\ blocks[Screen].view = "unreadable"
    /\ blocks' = [blocks EXCEPT ![Screen].view = IF memo THEN "unavailable" ELSE "loading"]
    /\ tasks' = IF memo THEN tasks ELSE tasks \cup {Fresh(Screen, "list")}
    /\ UNCHANGED <<reg, src, at, ours, memo, said, posts, changes, faults>>

\* submit: the controls are disabled until the answer.
Submit(d) ==
    /\ blocks[Screen].view = "form" /\ ~blocks[Screen].busy /\ d \in blocks[Screen].list
    /\ posts < MaxPosts
    /\ blocks' = [blocks EXCEPT ![Screen].busy = TRUE]
    /\ tasks' = tasks \cup {[Fresh(Screen, "post") EXCEPT !.dest = d, !.listed = blocks[Screen].listed]}
    /\ posts' = posts + 1 /\ said' = [Nothing EXCEPT !.text = "busy"]
    /\ UNCHANGED <<reg, src, at, ours, memo, changes, faults>>

-----------------------------------------------------------------------------
(* The server. *)

Update(t, u) == tasks' = (tasks \ {t}) \cup {u}
Answer(t, a) == Update(t, [t EXCEPT !.step = "done", !.ans = IF t.ans = "none" THEN a ELSE t.ans])
Fault == faults < MaxFaults /\ faults' = faults + 1
Calls(t, step) == t \in tasks /\ t.kind = "post" /\ t.step = step

ServeList(t) ==
    /\ t.kind = "list" /\ t.step = "sent"
    /\ Update(t, [t EXCEPT !.step = "done", !.list = Listed, !.listed = changes,
                           !.ans = IF ours.conf THEN "200" ELSE "501"])
    /\ UNCHANGED <<reg, src, at, ours, memo, blocks, said, posts, changes, faults>>

\* The guards of POST /:id/deliver up to its first read of the record.
ReadRecord(t) ==
    /\ Calls(t, "sent")
    /\ IF ~ours.write THEN Answer(t, "403")
       ELSE IF ~ours.conf THEN Answer(t, "501")
       ELSE IF ~reg[t.dest].on THEN Answer(t, "400")
       ELSE IF ~reg[t.dest].out THEN Answer(t, "role")
       ELSE Update(t, [t EXCEPT !.step = "record", !.here = reg[t.dest].here])
    /\ UNCHANGED <<reg, src, at, ours, memo, blocks, said, posts, changes, faults>>

\* resolveJobDestination reads the record again for the bucket; the endpoint
\* refusal is decided from the first read.
Resolve(t) ==
    /\ Calls(t, "record")
    /\ IF ~reg[t.dest].on \/ ~reg[t.dest].out THEN Answer(t, "400")
       ELSE IF ~t.here THEN Answer(t, "422")
       ELSE Update(t, [t EXCEPT !.step = "target", !.bucket = reg[t.dest].bucket,
                                !.whole = reg[t.dest].here])
    /\ UNCHANGED <<reg, src, at, ours, memo, blocks, said, posts, changes, faults>>

\* bucketExists.
Probe(t) ==
    /\ Calls(t, "target")
    /\ \/ Update(t, [t EXCEPT !.step = "probe"]) /\ UNCHANGED faults
       \/ Fault /\ Answer(t, "422")
    /\ UNCHANGED <<reg, src, at, ours, memo, blocks, said, posts, changes>>

\* statObject of the source.
StatSource(t) ==
    /\ Calls(t, "probe")
    /\ \/ /\ IF src = 0 THEN Answer(t, "409")
             ELSE IF src \in TooLarge THEN Answer(t, "422")
             ELSE Update(t, [t EXCEPT !.step = "stat", !.seen = src])
          /\ UNCHANGED faults
       \/ Fault /\ Answer(t, "502")
    /\ UNCHANGED <<reg, src, at, ours, memo, blocks, said, posts, changes>>

\* copyObject: the store takes the version it finds and writes it later.
StartCopy(t) ==
    /\ Calls(t, "stat")
    /\ IF src = 0 THEN Answer(t, "502") ELSE Update(t, [t EXCEPT !.step = "copy", !.cut = src])
    /\ UNCHANGED <<reg, src, at, ours, memo, blocks, said, posts, changes, faults>>

\* The copy lands and is acknowledged; its acknowledgement is lost; it fails;
\* or the store acknowledges what it did not do.  (A source above the limit is
\* refused by the store.)
Land(t) ==
    /\ Calls(t, "copy")
    /\ \/ /\ t.cut \notin TooLarge
          /\ at' = [at EXCEPT ![t.bucket] = t.cut]
          /\ \/ Update(t, [t EXCEPT !.step = "landed", !.hit = TRUE]) /\ UNCHANGED faults
             \/ /\ Fault
                /\ Update(t, [t EXCEPT !.step = "done", !.hit = TRUE,
                                       !.ans = IF t.ans = "none" THEN "502" ELSE t.ans])
       \/ Fault /\ Answer(t, "502") /\ UNCHANGED at
       \/ Fault /\ Update(t, [t EXCEPT !.step = "landed"]) /\ UNCHANGED at
    /\ UNCHANGED <<reg, src, ours, memo, blocks, said, posts, changes>>

\* Success on the strength of the copy call.
VerifyCalled(t) ==
    /\ Calls(t, "landed")
    /\ Update(t, [t EXCEPT !.step = "done", !.read = at[t.bucket],
                           !.ans = IF t.ans = "none" THEN "200" ELSE t.ans])
    /\ UNCHANGED <<reg, src, at, ours, memo, blocks, said, posts, changes, faults>>

\* The destination is read again and its byte count compared.
Verify(t) ==
    /\ Calls(t, "landed")
    /\ \/ /\ Update(t, [t EXCEPT !.step = "done", !.read = at[t.bucket],
                                 !.ans = IF t.ans # "none" THEN t.ans
                                         ELSE IF at[t.bucket] = t.seen THEN "200" ELSE "502"])
          /\ UNCHANGED faults
       \/ Fault /\ Answer(t, "502")
    /\ UNCHANGED <<reg, src, at, ours, memo, blocks, said, posts, changes>>

Running(t) == t.kind = "post" /\ t.step \in {"target", "probe", "stat", "copy", "landed"}

\* The timer armed only for the copy call.
TimeoutCopy(t) ==
    /\ t.kind = "post" /\ t.step = "copy" /\ t.ans = "none"
    /\ Update(t, [t EXCEPT !.ans = "504"])
    /\ UNCHANGED <<reg, src, at, ours, memo, blocks, said, posts, changes, faults>>

\* deliverAssetObject's timer wins the race; the delivery goes on unobserved.
Timeout(t) ==
    /\ Running(t) /\ t.ans = "none"
    /\ Update(t, [t EXCEPT !.ans = "504"])
    /\ UNCHANGED <<reg, src, at, ours, memo, blocks, said, posts, changes, faults>>

\* A request that never arrives, or an answer that does not come back.
Lose(t) ==
    /\ ~t.told /\ t.ans # "net" /\ (t.step = "sent" \/ t.ans # "none")
    /\ Fault
    /\ Update(t, [t EXCEPT !.ans = "net", !.step = IF t.step = "sent" THEN "done" ELSE t.step])
    /\ UNCHANGED <<reg, src, at, ours, memo, blocks, said, posts, changes>>

-----------------------------------------------------------------------------
(* The answers. *)

OnScreen(t) == t.block = Screen
Say(t, text, reread) ==
    said' = IF OnScreen(t) THEN [text |-> text, hit |-> t.hit, reread |-> reread] ELSE said
Close(t) == IF t.step = "done" THEN tasks' = tasks \ {t} ELSE Update(t, [t EXCEPT !.told = TRUE])
Ready(t) == ~t.told /\ t.ans # "none"

\* load() settles: the picker, the empty, the unreadable or the unavailable
\* state; the message of a stale list is shown again after it.
ListBack(t) ==
    /\ t.kind = "list" /\ Ready(t)
    /\ memo' = (memo \/ t.ans = "501")
    /\ blocks' = [blocks EXCEPT ![t.block].view =
                      IF memo' THEN "unavailable"
                      ELSE IF t.ans = "net" THEN "unreadable"
                      ELSE IF t.list = {} THEN "empty" ELSE "form",
                  ![t.block].list = t.list, ![t.block].listed = t.listed]
    /\ IF t.again THEN Say(t, "400", t.ans = "200") ELSE UNCHANGED said
    /\ tasks' = tasks \ {t}
    /\ UNCHANGED <<reg, src, at, ours, posts, changes, faults>>

\* A 403 takes the form away for the rest of this block.
Forbidden(t) ==
    /\ t.kind = "post" /\ Ready(t) /\ t.ans = "403"
    /\ blocks' = [blocks EXCEPT ![t.block].busy = FALSE, ![t.block].view = "closed"]
    /\ Say(t, "403", TRUE) /\ Close(t)
    /\ UNCHANGED <<reg, src, at, ours, memo, posts, changes, faults>>

\* A 501 is remembered for the session.
NotConfigured(t) ==
    /\ t.kind = "post" /\ Ready(t) /\ t.ans = "501"
    /\ memo' = TRUE
    /\ blocks' = [blocks EXCEPT ![t.block].busy = FALSE, ![t.block].view = "unavailable"]
    /\ said' = IF OnScreen(t) THEN Nothing ELSE said
    /\ Close(t)
    /\ UNCHANGED <<reg, src, at, ours, posts, changes, faults>>

\* A 400 reloads the list; its message is shown after the reload.
StaleList(t) ==
    /\ t.kind = "post" /\ Ready(t) /\ t.ans = "400"
    /\ blocks' = [blocks EXCEPT ![t.block].busy = FALSE,
                                ![t.block].view = IF memo THEN "unavailable" ELSE "loading"]
    /\ tasks' = IF memo THEN tasks \ {t}
                ELSE (tasks \ {t}) \cup {[Fresh(t.block, "list") EXCEPT !.again = TRUE]}
    /\ Say(t, "400", TRUE)
    /\ UNCHANGED <<reg, src, at, ours, memo, posts, changes, faults>>

\* Every other answer leaves the form and gives the controls back.
Reported(t) ==
    /\ t.kind = "post" /\ Ready(t) /\ t.ans \in {"200", "409", "422", "role", "502", "504", "net"}
    /\ blocks' = [blocks EXCEPT ![t.block].busy = FALSE]
    /\ Say(t, t.ans, TRUE) /\ Close(t)
    /\ UNCHANGED <<reg, src, at, ours, memo, posts, changes, faults>>

\* The delivery a timer gave up on ends.
Forget(t) ==
    /\ t.told /\ t.step = "done"
    /\ tasks' = tasks \ {t}
    /\ UNCHANGED <<reg, src, at, ours, memo, blocks, said, posts, changes, faults>>

-----------------------------------------------------------------------------
(* Everyone else. *)

Upload ==
    /\ src < MaxVer
    /\ src' \in {0, src + 1} /\ src' # src
    /\ UNCHANGED <<reg, at, ours, memo, blocks, tasks, said, posts, changes, faults>>

\* A destination is registered, changed or removed.
Change(d) ==
    /\ changes < MaxChanges /\ (Settled => Quiet)
    /\ \E r \in Record : r # reg[d] /\ reg' = [reg EXCEPT ![d] = r]
    /\ changes' = changes + 1
    /\ UNCHANGED <<src, at, ours, memo, blocks, tasks, said, posts, faults>>

Next ==
    \/ Mount \/ Retry \/ Upload
    \/ \E d \in Dests : Submit(d) \/ Change(d)
    \/ \E t \in tasks :
          \/ ServeList(t) \/ ReadRecord(t) \/ Resolve(t) \/ Probe(t) \/ StatSource(t)
          \/ StartCopy(t) \/ Land(t) \/ Verify(t) \/ Timeout(t) \/ Lose(t)
          \/ ListBack(t) \/ Forbidden(t) \/ NotConfigured(t) \/ StaleList(t) \/ Reported(t)
          \/ Forget(t)

Init ==
    /\ reg \in [Dests -> {r \in Record : r.on}] /\ \E d \in Dests : reg[d].out /\ reg[d].here
    /\ src = 1 /\ at = [b \in Buckets |-> 0]
    /\ ours \in [write : BOOLEAN, conf : BOOLEAN] /\ memo = FALSE
    /\ blocks = <<New>> /\ tasks = {Fresh(1, "list")} /\ said = Nothing
    /\ posts = 0 /\ changes = 0 /\ faults = 0

\* What goes on by itself: requests are served up to the store, the timer fires,
\* answers are handled.  The store's own calls may hang for ever.
ListServed == \E t \in tasks : ServeList(t)
RecordRead == \E t \in tasks : ReadRecord(t)
Resolved == \E t \in tasks : Resolve(t)
TimerFires == \E t \in tasks : Timeout(t)
Handled == \E t \in tasks :
    ListBack(t) \/ Forbidden(t) \/ NotConfigured(t) \/ StaleList(t) \/ Reported(t)

Spec == Init /\ [][Next]_vars

-----------------------------------------------------------------------------

\* A 200 is answered only when the destination, read again after the copy, holds
\* the very version of the source whose size was taken before it: whatever
\* uploads, other copies or a store that acknowledges what it did not do.
DeliveredTrue == \A t \in tasks : t.ans = "200" /\ t.kind = "post" => t.read = t.seen /\ t.seen # 0

\* A refusal (422, 409, 400) is decided before any bytes move.
RefusedUntouched == \A t \in tasks : t.ans \in {"400", "409", "422", "role"} => ~t.hit

\* Bytes are never copied into a bucket of our own store on the word of a record
\* that places it at another endpoint.
OwnStoreOnly == \A t \in tasks : t.hit => t.whole

\* One export of the asset is waited for at a time: a second would start a
\* second, unrelated copy.
OneExport == Cardinality({t \in tasks : t.kind = "post" /\ t.ans = "none"}) <= 1

\* A destination the picker offered is turned down as unknown, or for its role,
\* only if the registry changed after the list was read.
OfferedKnown == \A t \in tasks : t.kind = "post" /\ t.ans \in {"400", "role"} => changes > t.listed

\* A submitted export gives its controls back although the store may hang.
Unfinished == blocks[1].busy
===========================================================================
