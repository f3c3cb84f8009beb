--------------------------- MODULE ConsoleLists ---------------------------
(***************************************************************************)
(* The two list editors of the console's asset view: the tags panel        *)
(* (public/asset-tags.js, Kind = "tags") and the external identifiers      *)
(* panel (public/external-ids.js, Kind = "ids").  Each shows a list the    *)
(* server owns, sends one request per change and redraws from an answer:   *)
(* tags from the asset the write returns, identifiers from a second read.  *)
(* An identifier is edited by POSTing the new pair and DELETEing the old.  *)
(*                                                                         *)
(* A request is served at one instant (AssetIdentity has the interleaving  *)
(* inside the tag routes); between sending, serving and answering anything *)
(* else may happen: another operator's change, the asset's deletion, a     *)
(* change of role, a lost request or a lost answer.                        *)
(***************************************************************************)
EXTENDS FiniteSets, Naturals

CONSTANTS None,
          Kind,         \* "tags" or "ids"
          Items,        \* tag values, or { namespace, id } pairs
          Reserved,     \* "." and ".." among the tags
          ListMax,      \* TAGS_MAX_TOTAL
          MaxWrites,    \* bound: writes started in the panel
          MaxOthers,    \* bound: changes made elsewhere
          MaxFaults,    \* bound: requests and answers lost
          RoleChanges,  \* whether the role may be taken away meanwhile
          Overlap       \* whether a write may start while one is under way

VARIABLES srv,     \* the list the server holds, and its revision
          gone,    \* the asset is deleted
          role,    \* the principal may change the asset
          pan,     \* the panel
          tasks,   \* the panel's calls of add(), remove() and submit() under way
          said,    \* the last message reported, with what its task had applied
          refused, \* a write was answered 403 (history)
          spent    \* the bounds used up
vars == <<srv, gone, role, pan, tasks, said, refused, spent>>

\* One write and, after it, the read its handler awaits.  "hit": the requests
\* of this task the server has applied; "say": the report the read is to precede.
Task == [op : {"add", "remove", "edit"}, item : Items, orig : Items \cup {None},
         req : {"post", "delete", "get"}, at : {"sent", "back"},
         ans : {"none", "ok", "403", "404", "409", "net"},
         list : SUBSET Items, rev : Nat, hit : SUBSET {"post", "delete"}, say : STRING]

Texts == {"none", "done", "unchanged", "gone", "forbidden", "conflict", "both", "error"}

TypeOK ==
    /\ srv \in [list : SUBSET Items, rev : Nat] /\ gone \in BOOLEAN /\ role \in BOOLEAN
    /\ pan \in [shown : SUBSET Items, rev : Nat, usable : BOOLEAN, can : BOOLEAN,
                view : Items \cup {None, "add"}, form : Items \cup {None, "add"},
                live : BOOLEAN, rows : BOOLEAN, sub : BOOLEAN]
    /\ tasks \in SUBSET Task
    /\ said \in [text : Texts, op : {"none", "add", "remove", "edit"},
                 hit : SUBSET {"post", "delete"}]
    /\ refused \in BOOLEAN
    /\ spent \in [writes : 0..MaxWrites, others : 0..MaxOthers, faults : 0..MaxFaults]

-----------------------------------------------------------------------------
(* The panel.  "rows": the per-item controls are on screen and enabled (for *)
(* tags the add row with them); "sub": so is the open form's submit; "live": *)
(* the Add button of the identifiers panel, which setBusy does not disable.  *)

\* draw(): rebuild the block from the state; whatever was disabled is enabled.
Draw(p) ==
    LET on == p.usable /\ p.can
    IN  [p EXCEPT !.form = IF on THEN p.view ELSE None, !.live = on, !.rows = on, !.sub = on]

Show(p, list, rev) ==
    Draw([p EXCEPT !.shown = list, !.rev = rev, !.usable = TRUE])

\* A refresh that fails: the tags panel keeps what it has (nothing is drawn);
\* the identifiers panel withdraws its list and closes its form.
ShowFailed(p) ==
    IF Kind = "tags" THEN p
    ELSE Draw([p EXCEPT !.shown = {}, !.usable = FALSE, !.view = None])

SetBusy(p, form, busy) ==
    [p EXCEPT !.rows = ~busy, !.sub = IF form THEN ~busy ELSE @]

MayStart == spent.writes < MaxWrites /\ (Overlap \/ tasks = {})

Start(op, i, o, req) ==
    /\ tasks' = tasks \cup {[op |-> op, item |-> i, orig |-> o, req |-> req, at |-> "sent",
                             ans |-> "none", list |-> {}, rev |-> 0, hit |-> {}, say |-> "none"]}
    /\ spent' = [spent EXCEPT !.writes = @ + 1]

\* asset-tags.js add(): normaliseTagInput against the list on screen, then POST.
TagAdd(i) ==
    /\ Kind = "tags" /\ pan.rows /\ pan.can /\ MayStart
    /\ i \notin Reserved /\ i \notin pan.shown /\ Cardinality(pan.shown) < ListMax
    /\ Start("add", i, None, "post")
    /\ pan' = SetBusy(pan, FALSE, TRUE)
    /\ UNCHANGED <<srv, gone, role, said, refused>>

TagRemove(i) ==
    /\ Kind = "tags" /\ pan.rows /\ pan.can /\ MayStart
    /\ i \notin Reserved /\ i \in pan.shown
    /\ Start("remove", i, None, "delete")
    /\ pan' = SetBusy(pan, FALSE, TRUE)
    /\ UNCHANGED <<srv, gone, role, said, refused>>

\* external-ids.js: the Add button, the Edit button of a row, Cancel.
View(v) ==
    /\ Kind = "ids" /\ spent.writes < MaxWrites
    /\ \/ v = "add" /\ pan.live /\ pan.form = None
       \/ v \in Items /\ pan.rows /\ v \in pan.shown
       \/ v = None /\ pan.form # None /\ pan.sub
    /\ pan' = Draw([pan EXCEPT !.view = v])
    /\ UNCHANGED <<srv, gone, role, tasks, said, refused, spent>>

Orig == IF pan.form = "add" THEN None ELSE pan.form

\* The old pair deleted before the new one is added.
IdSubmitDeletesFirst(i) ==
    /\ Kind = "ids" /\ pan.form # None /\ pan.sub /\ MayStart
    /\ i \notin pan.shown \ {Orig} /\ i # Orig
    /\ Start(IF Orig = None THEN "add" ELSE "edit", i, Orig, IF Orig = None THEN "post" ELSE "delete")
    /\ pan' = SetBusy(pan, TRUE, TRUE)
    /\ UNCHANGED <<srv, gone, role, said, refused>>

\* submit(): the draft is checked against the list on screen; a draft equal to
\* the pair being edited sends nothing.
IdSubmit(i) ==
    /\ Kind = "ids" /\ pan.form # None /\ pan.sub /\ MayStart
    /\ i \notin pan.shown \ {Orig} /\ i # Orig
    /\ Start(IF Orig = None THEN "add" ELSE "edit", i, Orig, "post")
    /\ pan' = SetBusy(pan, TRUE, TRUE)
    /\ UNCHANGED <<srv, gone, role, said, refused>>

\* remove(), once the confirmation is given: the rows are disabled, not the form.
IdRemove(i) ==
    /\ Kind = "ids" /\ pan.rows /\ i \in pan.shown /\ MayStart
    /\ Start("remove", i, None, "delete")
    /\ pan' = SetBusy(pan, FALSE, TRUE)
    /\ UNCHANGED <<srv, gone, role, said, refused>>

-----------------------------------------------------------------------------
(* The server and the network. *)

Update(t, u) == tasks' = (tasks \ {t}) \cup {u}

Applied(t) ==
    IF t.req = "post" THEN srv.list \cup {t.item}
    ELSE srv.list \ {IF t.op = "edit" THEN t.orig ELSE t.item}

\* POST and DELETE: the role gate, then an unknown asset is 404, then the change.
\* Adding what is there and removing what is not are no-ops answered 200 / 204.
ServeWrite(t) ==
    /\ t.req # "get" /\ t.at = "sent"
    /\ IF ~role THEN Update(t, [t EXCEPT !.at = "back", !.ans = "403"]) /\ UNCHANGED srv
       ELSE IF gone THEN Update(t, [t EXCEPT !.at = "back", !.ans = "404"]) /\ UNCHANGED srv
       ELSE /\ srv' = [list |-> Applied(t),
                       rev |-> IF Applied(t) = srv.list THEN srv.rev ELSE srv.rev + 1]
            /\ Update(t, [t EXCEPT !.at = "back", !.ans = "ok", !.list = srv'.list,
                                   !.rev = srv'.rev, !.hit = @ \cup {t.req}])
    /\ UNCHANGED <<gone, role, pan, said, refused, spent>>

\* With EXTERNAL_ID_UNIQUENESS=enforced a pair another asset holds is 409.
ServeConflict(t) ==
    /\ Kind = "ids" /\ t.req = "post" /\ t.at = "sent" /\ role /\ ~gone
    /\ t.item \notin srv.list
    /\ Update(t, [t EXCEPT !.at = "back", !.ans = "409"])
    /\ UNCHANGED <<srv, gone, role, pan, said, refused, spent>>

ServeRead(t) ==
    /\ t.req = "get" /\ t.at = "sent"
    /\ Update(t, [t EXCEPT !.at = "back", !.ans = IF gone THEN "404" ELSE "ok",
                           !.list = IF gone THEN {} ELSE srv.list, !.rev = srv.rev])
    /\ UNCHANGED <<srv, gone, role, pan, said, refused, spent>>

\* A request that never arrives, or an answer that never returns.
Lose(t) ==
    /\ spent.faults < MaxFaults
    /\ t.at = "sent" \/ t.ans = "ok"
    /\ Update(t, [t EXCEPT !.at = "back", !.ans = "net"])
    /\ spent' = [spent EXCEPT !.faults = @ + 1]
    /\ UNCHANGED <<srv, gone, role, pan, said, refused>>

\* Other operators, the asset's deletion and restoration, the role's withdrawal.
Elsewhere ==
    /\ spent.others < MaxOthers
    /\ spent' = [spent EXCEPT !.others = @ + 1]
    /\ \/ /\ \E i \in Items : srv' = [list |-> (srv.list \ {i}) \cup ({i} \ srv.list),
                                      rev |-> srv.rev + 1]
          /\ ~gone /\ UNCHANGED <<gone, role>>
       \/ gone' = ~gone /\ UNCHANGED <<srv, role>>
       \/ RoleChanges /\ role /\ role' = FALSE /\ UNCHANGED <<srv, gone>>
    /\ UNCHANGED <<pan, tasks, said, refused>>

-----------------------------------------------------------------------------
(* The answers. *)

Report(t, text) == said' = [text |-> text, op |-> t.op, hit |-> t.hit]
End(t) == tasks' = tasks \ {t}
Then(t, req, say) ==
    Update(t, [t EXCEPT !.req = req, !.at = "sent", !.ans = "none", !.say = say])

\* classifyTagError / classifyExternalIdError
Text(t) ==
    CASE t.ans = "403" -> "forbidden"
      [] t.ans = "404" -> "gone"
      [] t.ans = "409" -> "conflict"
      [] OTHER -> IF Kind = "tags" THEN "unchanged" ELSE "error"

\* add() and remove() of the tags panel: the controls come back first, then the
\* answer's list is adopted, or a 404 re-reads quietly, or a 403 retires.
TagWritten(t) ==
    /\ Kind = "tags" /\ t.req # "get" /\ t.at = "back"
    /\ refused' = (refused \/ t.ans = "403")
    /\ CASE t.ans = "ok" -> /\ pan' = Show(SetBusy(pan, FALSE, FALSE), t.list, t.rev)
                            /\ Report(t, "done") /\ End(t)
         [] t.ans = "404" -> /\ pan' = SetBusy(pan, FALSE, FALSE)
                             /\ Then(t, "get", "gone") /\ UNCHANGED said
         [] t.ans = "403" -> /\ pan' = Draw([pan EXCEPT !.can = FALSE])
                             /\ Report(t, "forbidden") /\ End(t)
         [] OTHER -> /\ pan' = SetBusy(pan, FALSE, FALSE)
                     /\ Report(t, Text(t)) /\ End(t)
    /\ UNCHANGED <<srv, gone, role, spent>>

\* submit(), its POST answered: an edit goes on to the DELETE; a failure that
\* asks for it re-reads before it is reported.
IdPosted(t) ==
    /\ Kind = "ids" /\ t.req = "post" /\ t.at = "back"
    /\ refused' = (refused \/ t.ans = "403")
    /\ IF t.ans = "ok"
       THEN /\ IF t.op = "edit" THEN Then(t, "delete", "none") /\ UNCHANGED pan
               ELSE Then(t, "get", "done") /\ pan' = [pan EXCEPT !.view = None]
            /\ UNCHANGED said
       ELSE LET p == SetBusy([pan EXCEPT !.can = @ /\ t.ans # "403"], TRUE, FALSE)
            IN  IF t.ans = "net" THEN pan' = p /\ Report(t, Text(t)) /\ End(t)
                ELSE pan' = [p EXCEPT !.view = None] /\ Then(t, "get", Text(t)) /\ UNCHANGED said
    /\ UNCHANGED <<srv, gone, role, spent>>

\* The DELETE of an edit, or of remove().
IdDeleted(t) ==
    /\ Kind = "ids" /\ t.req = "delete" /\ t.at = "back"
    /\ refused' = (refused \/ t.ans = "403")
    /\ IF t.op = "edit"
       THEN /\ pan' = [pan EXCEPT !.view = None]
            /\ Then(t, "get", IF t.ans = "ok" THEN "done" ELSE "both")
       ELSE /\ pan' = [pan EXCEPT !.can = @ /\ t.ans # "403"]
            /\ Then(t, "get", IF t.ans = "ok" THEN "done" ELSE Text(t))
    /\ UNCHANGED <<srv, gone, role, said, spent>>

\* refresh(true), then the report it precedes.
ReadBack(t) ==
    /\ t.req = "get" /\ t.at = "back"
    /\ pan' = IF t.ans = "ok" THEN Show(pan, t.list, t.rev) ELSE ShowFailed(pan)
    /\ Report(t, t.say) /\ End(t)
    /\ UNCHANGED <<srv, gone, role, refused, spent>>

Init ==
    /\ srv \in [list : SUBSET Items, rev : {0}] /\ gone = FALSE /\ role \in BOOLEAN
    /\ RoleChanges => role
    /\ pan = Draw([shown |-> srv.list, rev |-> 0, usable |-> TRUE, can |-> TRUE,
                   view |-> None, form |-> None, live |-> TRUE, rows |-> TRUE, sub |-> TRUE])
    /\ tasks = {} /\ refused = FALSE
    /\ said = [text |-> "none", op |-> "none", hit |-> {}]
    /\ spent = [writes |-> 0, others |-> 0, faults |-> 0]

Operator ==
    \/ \E i \in Items : TagAdd(i) \/ TagRemove(i) \/ IdSubmit(i) \/ IdRemove(i)
    \/ \E v \in Items \cup {None, "add"} : View(v)

Serve == \E t \in tasks : ServeWrite(t) \/ ServeRead(t)
Answer == \E t \in tasks : TagWritten(t) \/ IdPosted(t) \/ IdDeleted(t) \/ ReadBack(t)
Network == \E t \in tasks : Lose(t) \/ ServeConflict(t)

Next == Operator \/ Serve \/ Answer \/ Network \/ Elsewhere

Spec == Init /\ [][Next]_vars

-----------------------------------------------------------------------------
(* Properties. *)

\* The list on screen never goes back to an older one the server had: every
\* redraw is from the most recent answer.
NeverOlder == pan'.usable /\ pan.usable => pan'.rev >= pan.rev

\* Once the panel is at rest and nothing was lost, it shows at least its own
\* last change, whatever others did meanwhile; alone, it shows the server's list.
Settled ==
    (tasks = {} /\ spent.faults = 0 /\ spent.others = 0 /\ pan.usable) => pan.shown = srv.list

\* At most one write of the panel is under way: its controls are disabled
\* while there is one.
OneWrite == Cardinality({t \in tasks : t.req # "get"}) <= 1

\* An edit never takes the old pair off an asset that does not carry the new
\* one, whichever of its two requests fails.
EditKeepsOne ==
    \A t \in tasks : (t.op = "edit" /\ spent'.others = 0 /\ t.orig \in srv.list \ srv'.list)
            => t.item \in srv'.list

\* What is reported is so: "the list was not changed" is said only of a write
\* that was not applied, "the asset now carries both" only of an edit whose
\* removal was not.
ToldTrue ==
    /\ said.text = "unchanged" => said.hit = {}
    /\ said.text = "both" => said.op = "edit" /\ said.hit = {"post"}

\* A control known to answer 403 is not offered again in this view.
ForbiddenLatches == (refused /\ tasks = {}) => ~pan.can /\ ~pan.rows

\* An asset reported gone has no list on screen any more.
GoneUnclaimed ==
    (said.text = "gone" /\ tasks = {} /\ gone /\ spent.faults = 0) => ~pan.usable \/ pan.shown = {}

\* The controls come back after every write, however it ends.
Unfinished == tasks # {} \/ ~(pan.rows \/ ~pan.can \/ ~pan.usable)
===========================================================================
