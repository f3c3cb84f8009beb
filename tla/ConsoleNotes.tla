--------------------------- MODULE ConsoleNotes ---------------------------
(***************************************************************************)
(* The comments panel of the console's asset view (comments-panel.js).     *)
(* The detail body is wiped and rebuilt by its poll and by sibling         *)
(* actions: every rebuild mounts a new panel and leaves the old one, with  *)
(* its requests still under way, detached.  What was typed is kept in a    *)
(* map of drafts shared by all panels, one entry per asset, capped.        *)
(*                                                                         *)
(* Every text typed is a number of its own (0 is the empty field), so a    *)
(* comment that appears twice was sent twice.                              *)
(***************************************************************************)
EXTENDS FiniteSets, Naturals, Sequences, SequencesExt

CONSTANTS Assets,
          DraftsMax,   \* DRAFTS_MAX
          MaxTexts,    \* bound: texts typed
          MaxMounts,   \* bound: panels mounted
          MaxFaults,   \* bound: requests and answers lost
          Calm         \* a panel is mounted and a comment sent only at rest

VARIABLES srv,     \* the comments of each asset, oldest first
          role,    \* the principal may comment
          drafts,  \* the Map, least recently written first
          panes,   \* the panels mounted; the last is on screen
          tasks,   \* the panels' requests under way
          wants,   \* what the operator typed on screen and is not yet accepted
          typed, lost, said
vars == <<srv, role, drafts, panes, tasks, wants, typed, lost, said>>

Text == 0..MaxTexts
Pane == [asset : Assets, text : Text, form : BOOLEAN, on : BOOLEAN, busy : BOOLEAN,
         list : Seq(Text), usable : BOOLEAN, refused : BOOLEAN]
Task == [pane : 1..MaxMounts, req : {"get", "post"}, at : {"sent", "back"}, text : Text,
         ans : {"none", "ok", "403", "net"}, list : Seq(Text), hit : BOOLEAN, added : BOOLEAN]

TypeOK ==
    /\ srv \in [Assets -> Seq(Text)] /\ role \in BOOLEAN
    /\ drafts \in Seq([asset : Assets, text : Text]) /\ Len(drafts) <= DraftsMax
    /\ panes \in Seq(Pane) /\ Len(panes) <= MaxMounts
    /\ tasks \in SUBSET Task /\ wants \in Text /\ typed \in Text /\ lost \in 0..MaxFaults
    /\ said \in [text : {"none", "added", "not added", "forbidden", "unread"}, hit : BOOLEAN]

-----------------------------------------------------------------------------
(* The drafts. *)

Draft(ds, a) ==
    LET own == {i \in DOMAIN ds : ds[i].asset = a}
    IN  IF own = {} THEN 0 ELSE ds[CHOOSE i \in own : TRUE].text

Without(ds, a) == SelectSeq(ds, LAMBDA r : r.asset # a)

\* setDraft: an empty draft is dropped; the entry written moves to the end and
\* the oldest are evicted over the cap.  (An empty field that has the focus
\* keeps a record too; it holds no text.)
SetDraft(ds, a, t) ==
    LET put == Append(Without(ds, a), [asset |-> a, text |-> t])
    IN  IF t = 0 THEN Without(ds, a)
        ELSE SubSeq(put, IF Len(put) > DraftsMax THEN Len(put) - DraftsMax + 1 ELSE 1, Len(put))

-----------------------------------------------------------------------------
(* The operator. *)

Screen == Len(panes)
Ask(q, req, t, added) ==
    [pane |-> q, req |-> req, at |-> "sent", text |-> t, ans |-> "none", list |-> <<>>,
     hit |-> FALSE, added |-> added]

\* mountAssetComments: the loading block with the draft in its form, and a read.
Mount(a) ==
    /\ Len(panes) < MaxMounts /\ (Calm => tasks = {})
    /\ panes' = Append(panes, [asset |-> a, text |-> Draft(drafts, a), form |-> TRUE, on |-> TRUE,
                               busy |-> FALSE, list |-> <<>>, usable |-> FALSE, refused |-> FALSE])
    /\ tasks' = tasks \cup {Ask(Len(panes) + 1, "get", 0, FALSE)}
    /\ drafts' = SetDraft(drafts, a, Draft(drafts, a))
    /\ wants' = IF panes # <<>> /\ panes[Screen].asset = a THEN wants ELSE Draft(drafts, a)
    /\ UNCHANGED <<srv, role, typed, lost, said>>

\* Input: the draft is saved with every change of the field.
Type ==
    /\ panes # <<>> /\ panes[Screen].form /\ panes[Screen].on /\ typed < MaxTexts
    /\ \E t \in {0, typed + 1} :
          /\ t = 0 => panes[Screen].text # 0
          /\ panes' = [panes EXCEPT ![Screen].text = t]
          /\ drafts' = SetDraft(drafts, panes[Screen].asset, t)
          /\ wants' = t
    /\ typed' = typed + 1
    /\ UNCHANGED <<srv, role, tasks, lost, said>>

\* submit(): one at a time for each panel.
Submit ==
    /\ panes # <<>> /\ panes[Screen].form /\ panes[Screen].text # 0
    /\ ~panes[Screen].busy /\ (Calm => tasks = {})
    /\ panes' = [panes EXCEPT ![Screen].busy = TRUE, ![Screen].on = FALSE]
    /\ tasks' = tasks \cup {Ask(Screen, "post", panes[Screen].text, FALSE)}
    /\ UNCHANGED <<srv, role, drafts, wants, typed, lost, said>>

-----------------------------------------------------------------------------
(* The server and the network. *)

Update(t, u) == tasks' = (tasks \ {t}) \cup {u}
AssetOf(t) == panes[t.pane].asset

ServePost(t) ==
    /\ t.req = "post" /\ t.at = "sent"
    /\ srv' = IF role THEN [srv EXCEPT ![AssetOf(t)] = Append(@, t.text)] ELSE srv
    /\ Update(t, [t EXCEPT !.at = "back", !.ans = IF role THEN "ok" ELSE "403", !.hit = role])
    /\ UNCHANGED <<role, drafts, panes, wants, typed, lost, said>>

ServeGet(t) ==
    /\ t.req = "get" /\ t.at = "sent"
    /\ Update(t, [t EXCEPT !.at = "back", !.ans = "ok", !.list = srv[AssetOf(t)]])
    /\ UNCHANGED <<srv, role, drafts, panes, wants, typed, lost, said>>

Lose(t) ==
    /\ lost < MaxFaults /\ (t.at = "sent" \/ t.ans = "ok")
    /\ Update(t, [t EXCEPT !.at = "back", !.ans = "net"])
    /\ lost' = lost + 1
    /\ UNCHANGED <<srv, role, drafts, panes, wants, typed, said>>

-----------------------------------------------------------------------------
(* The answers.  A panel that is no longer on screen handles its own all the *)
(* same, and writes the shared drafts.                                       *)

\* 201: the draft of the asset is dropped, the list is read again.
Accepted(t) ==
    /\ t.req = "post" /\ t.at = "back" /\ t.ans = "ok"
    /\ drafts' = Without(drafts, AssetOf(t))
    /\ panes' = [panes EXCEPT ![t.pane].busy = FALSE]
    /\ wants' = IF wants = t.text THEN 0 ELSE wants
    /\ Update(t, Ask(t.pane, "get", 0, TRUE))
    /\ UNCHANGED <<srv, role, typed, lost, said>>

\* A failure that clears the field.
FailedClears(t) ==
    /\ t.req = "post" /\ t.at = "back" /\ t.ans # "ok"
    /\ panes' = [panes EXCEPT ![t.pane].busy = FALSE, ![t.pane].on = TRUE, ![t.pane].text = 0,
                              ![t.pane].refused = @ \/ t.ans = "403"]
    /\ drafts' = Without(drafts, AssetOf(t))
    /\ said' = [text |-> IF t.ans = "403" THEN "forbidden" ELSE "not added", hit |-> t.hit]
    /\ tasks' = tasks \ {t}
    /\ UNCHANGED <<srv, role, wants, typed, lost>>

\* A refusal: the form is taken off (401 and 403 alike); any other failure
\* gives the field back and saves it as the draft again.
Failed(t) ==
    /\ t.req = "post" /\ t.at = "back" /\ t.ans # "ok"
    /\ panes' = [panes EXCEPT ![t.pane].busy = FALSE, ![t.pane].on = TRUE,
                              ![t.pane].form = @ /\ t.ans # "403",
                              ![t.pane].refused = @ \/ t.ans = "403"]
    /\ drafts' = IF t.ans = "403" THEN drafts ELSE SetDraft(drafts, AssetOf(t), panes[t.pane].text)
    /\ said' = [text |-> IF t.ans = "403" THEN "forbidden" ELSE "not added", hit |-> t.hit]
    /\ tasks' = tasks \ {t}
    /\ UNCHANGED <<srv, role, wants, typed, lost>>

\* refresh(): draw() rebuilds the block, form and all, with the saved draft.
Drawn(t) ==
    LET a == AssetOf(t)
    IN  /\ t.req = "get" /\ t.at = "back"
        /\ panes' = [panes EXCEPT ![t.pane] =
              [@ EXCEPT !.text = Draft(drafts, a), !.form = TRUE, !.on = TRUE,
                        !.list = t.list, !.usable = (t.ans = "ok")]]
        /\ drafts' = SetDraft(drafts, a, Draft(drafts, a))
        /\ said' = IF t.ans # "ok" THEN [text |-> "unread", hit |-> t.hit]
                   ELSE IF t.added THEN [text |-> "added", hit |-> TRUE] ELSE said
        /\ tasks' = tasks \ {t}
        /\ UNCHANGED <<srv, role, wants, typed, lost>>

Init ==
    /\ srv = [a \in Assets |-> <<>>] /\ role \in BOOLEAN
    /\ drafts = <<>> /\ panes = <<>> /\ tasks = {}
    /\ wants = 0 /\ typed = 0 /\ lost = 0 /\ said = [text |-> "none", hit |-> FALSE]

Next ==
    \/ \E a \in Assets : Mount(a)
    \/ Type \/ Submit
    \/ \E t \in tasks : ServePost(t) \/ ServeGet(t) \/ Lose(t) \/ Accepted(t) \/ Failed(t) \/ Drawn(t)

Spec == Init /\ [][Next]_vars

-----------------------------------------------------------------------------
(* Properties. *)

\* What the operator typed and has not had accepted is in the field on screen,
\* across every rebuild and every answer.
TypedKept ==
    (wants # 0 /\ panes[Screen].form) => panes[Screen].text = wants

\* A text is on the server once, whatever the panels do, unless an answer was lost.
SentOnce ==
    lost = 0 => \A a \in Assets : \A i, j \in DOMAIN srv[a] : srv[a][i] = srv[a][j] => i = j

\* A refused form is not offered again in the same panel.
RefusedStays == \A i \in DOMAIN panes : panes[i].refused => ~panes[i].form

\* At rest no accepted comment is still a draft, and a list on screen that was
\* read after the last comment has them all.
AcceptedDropped ==
    (tasks = {} /\ lost = 0 /\ panes # <<>>) =>
        /\ Draft(drafts, panes[Screen].asset) \notin {srv[panes[Screen].asset][i] : i \in DOMAIN srv[panes[Screen].asset]}
        /\ panes[Screen].usable => panes[Screen].list = srv[panes[Screen].asset]
===========================================================================
