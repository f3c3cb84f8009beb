--------------------------- MODULE ConsoleDetail ----------------------------
(***************************************************************************)
(* The detail view of an asset, a job or a pipeline run (public/app.js,    *)
(* detail.js, version-chain.js).  A render clears the body it was given,   *)
(* then appends section after section to it, with a request between two of *)
(* them.  The side panel gets a new body for every asset it shows; the     *)
(* popped-out window keeps one body and renders into it every five         *)
(* seconds, when the operator moves along the version chain and after an   *)
(* action.                                                                 *)
(***************************************************************************)
EXTENDS Naturals, Sequences, FiniteSets, SequencesExt

CONSTANTS
    Ids,         \* assets, jobs or runs
    Kind,        \* "asset", "job" or "pipeline"
    Detached,    \* the popped-out window, not the side panel
    Quick,       \* a render ends before the next one starts in its body
    MaxInFlight, \* bound: renders under way
    MaxActs,     \* bound: actions of the operator that re-read the asset
    None

\* What a render appends between two awaits.
Facts     == "facts"      \* the document's own fields, scenes and tracks
Chain     == "chain"      \* the version chain, and the frame of the executions
Actions   == "actions"    \* the form that runs a pipeline, and the row of buttons
Editorial == "editorial"  \* review state and tags
Outside   == "ids"        \* external identifiers
Comments  == "comments"
Rest      == "rest"       \* export, delete lock, rename, clip, and the buttons' handlers
Flow      == "flow"       \* a job's pipeline, its cancel button and raw form
Stages ==
    CASE Kind = "asset"    -> <<Facts, Chain, Actions, Editorial, Outside, Comments, Rest>>
      [] Kind = "job"      -> <<Facts, Flow>>
      [] Kind = "pipeline" -> <<Facts>>

VARIABLES
    id,       \* what the window or the panel says it shows
    content,  \* sections in the body, in order of arrival
    renders,  \* renders under way in this body
    polling,  \* the window's interval is set
    notice,   \* None, or an error instead of a view: [of, what]
    gone,     \* ids the server no longer has
    over,     \* pipeline runs that ended
    acts      \* assets with an action under way, in order of the presses
vars == <<id, content, renders, polling, notice, gone, over, acts>>

---------------------------------------------------------------------------
Has(n, stage) == \E s \in Range(content) : s.n = n /\ s.stage = stage
HasAny(stage) == \E s \in Range(content) : s.stage = stage

MayStart == Cardinality(renders) < MaxInFlight /\ (Quick => renders = {})

\* A render and its name among those under way.
Render(of, owned, tick) ==
    [n |-> CHOOSE n \in 1..(MaxInFlight + 1) : \A r \in renders : r.n # n, of |-> of, owned |-> owned, tick |-> tick, stage |-> 0, saw |-> None]

StartUncleared(of, owned, tick, keep) ==
    /\ renders' = keep \cup {Render(of, owned, tick)}
    /\ notice' = None
    /\ UNCHANGED content

\* The head of a renderer: clear the body, then ask for the document.  `owned`: the
\* version chain hands a navigation to the owner of the view.
Start(of, owned, tick, keep) ==
    /\ renders' = keep \cup {Render(of, owned, tick)}
    /\ content' = <<>>
    /\ notice' = None

Init ==
    /\ id \in Ids
    /\ content = <<>> /\ renders = {}
    /\ polling = Detached
    /\ notice = None /\ gone = {} /\ over = {} /\ acts = <<>>

\* showAssetDetail, showJobDetail: the panel gets a new body; what is still rendering
\* into the old one is out of sight.
Show(x) ==
    /\ ~Detached
    /\ id' = x
    /\ Start(x, TRUE, FALSE, {})
    /\ acts' = <<>>
    /\ UNCHANGED <<polling, gone, over>>

\* tick of the window
Tick ==
    /\ polling /\ MayStart
    /\ Start(id, TRUE, TRUE, renders)
    /\ UNCHANGED <<id, polling, gone, over, acts>>

\* navigateToAsset: the window's id and address follow the version chain.
Navigate(x) ==
    /\ Kind = "asset" /\ x # id /\ Detached /\ MayStart
    /\ \E s \in Range(content) : s.stage = Chain /\ s.owned
    /\ id' = x
    /\ Start(x, TRUE, FALSE, renders)
    /\ UNCHANGED <<polling, gone, over, acts>>

\* The panel's navigation shows the asset afresh.
NavigatePanel(x) ==
    /\ Kind = "asset" /\ x # id
    /\ \E s \in Range(content) : s.stage = Chain /\ s.owned
    /\ Show(x)

\* The default navigation of a render without an owner: the same body, another id.
NavigateBody(x) ==
    /\ Kind = "asset" /\ MayStart
    /\ \E s \in Range(content) : s.stage = Chain /\ ~s.owned /\ s.of # x
    /\ Start(x, FALSE, FALSE, renders)
    /\ UNCHANGED <<id, polling, gone, over, acts>>

\* Restore, lock, rename, a metadata run: the operator presses a button of the view.
Press ==
    /\ Kind = "asset" /\ Len(acts) < MaxActs
    /\ \E s \in Range(content) : s.stage = Rest /\ acts' = Append(acts, s.of)
    /\ UNCHANGED <<id, content, renders, polling, notice, gone, over>>

\* rerenderThenMsg: the asset is read again, without the options of the first render.
Answered(k) ==
    /\ k \in 1..Len(acts) /\ MayStart
    /\ acts' = RemoveAt(acts, k)
    /\ Start(acts[k], FALSE, FALSE, renders)
    /\ UNCHANGED <<id, polling, gone, over>>

\* The document is read at the server.
Serve(r) ==
    /\ r \in renders /\ r.saw = None
    /\ LET saw == IF r.of \in gone THEN "gone" ELSE IF r.of \in over THEN "over" ELSE "found"
       IN  renders' = (renders \ {r}) \cup {[r EXCEPT !.saw = saw]}
    /\ UNCHANGED <<id, content, polling, notice, gone, over, acts>>

\* A section that is put in place by way of an earlier one cannot be when that one was
\* cleared away: the editorial panel before its own action row, the buttons of the
\* action row by their ids.
Misplaced(r, stage) ==
    \/ stage = Editorial /\ ~Has(r.n, Actions)
    \/ stage = Rest /\ ~HasAny(Actions)

\* Comments and tags go into the render's own editorial panel, wherever that is.
Visible(r, stage) == stage = Comments => Has(r.n, Editorial)

Next1(r) == Stages[r.stage + 1]

\* An answer arrives and the next sections are appended; a run that ended stops the
\* window's poll.
Advance(r) ==
    /\ r \in renders /\ r.saw \notin {None, "gone"} /\ ~Misplaced(r, Next1(r))
    /\ content' = IF Visible(r, Next1(r))
                  THEN Append(content, [n |-> r.n, of |-> r.of, owned |-> r.owned, stage |-> Next1(r), saw |-> r.saw])
                  ELSE content
    /\ renders' = IF r.stage + 1 = Len(Stages) THEN renders \ {r}
                  ELSE (renders \ {r}) \cup {[r EXCEPT !.stage = @ + 1]}
    /\ polling' = (polling /\ ~(Kind = "pipeline" /\ r.tick /\ r.saw = "over"))
    /\ UNCHANGED <<id, notice, gone, over, acts>>

\* catch of the renderer: the body is cleared for an error.
Throws(r) ==
    /\ r \in renders /\ r.saw \notin {None, "gone"} /\ Misplaced(r, Next1(r))
    /\ content' = <<>>
    /\ notice' = [of |-> r.of, what |-> "failed"]
    /\ renders' = renders \ {r}
    /\ UNCHANGED <<id, polling, gone, over, acts>>

\* A 404 clears the body; met by the window's tick it ends the poll and the whole view
\* is replaced by the notice that the window's id no longer exists (fatal).
NotFound(r) ==
    /\ r \in renders /\ r.saw = "gone"
    /\ content' = <<>>
    /\ IF r.tick
       THEN /\ notice' = [of |-> id, what |-> "gone"]
            /\ polling' = FALSE
            /\ renders' = {} /\ acts' = <<>>
       ELSE /\ notice' = [of |-> r.of, what |-> "failed"]
            /\ renders' = renders \ {r}
            /\ UNCHANGED <<polling, acts>>
    /\ UNCHANGED <<id, gone, over>>

\* The server's side: an asset is purged, a run ends.
Purge(x) ==
    /\ Kind # "pipeline" /\ x \notin gone /\ gone' = gone \cup {x}
    /\ UNCHANGED <<id, content, renders, polling, notice, over, acts>>
End(x) ==
    /\ Kind = "pipeline" /\ x \notin over /\ over' = over \cup {x}
    /\ UNCHANGED <<id, content, renders, polling, notice, gone, acts>>

Next ==
    \/ Tick \/ Press
    \/ \E x \in Ids : Show(x) \/ Navigate(x) \/ NavigatePanel(x) \/ NavigateBody(x) \/ Purge(x) \/ End(x)
    \/ \E k \in 1..Len(acts) : Answered(k)
    \/ \E r \in renders : Serve(r) \/ Advance(r) \/ Throws(r) \/ NotFound(r)

Spec == Init /\ [][Next]_vars

\* What goes on by itself: requests are answered, the interval fires while it is set.
Served == \E r \in renders : Serve(r) \/ Advance(r) \/ NotFound(r)

---------------------------------------------------------------------------
\* The view of createChrome and of the renderers: sections, renders and notice.
TypeOK ==
    /\ id \in Ids /\ gone \subseteq Ids /\ over \subseteq Ids /\ polling \in BOOLEAN
    /\ \A s \in Range(content) : s.of \in Ids /\ s.stage \in Range(Stages) /\ s.n \in 1..(MaxInFlight + 1)
    /\ \A r \in renders : r.of \in Ids /\ r.stage \in 0..(Len(Stages) - 1) /\ r.n \in 1..(MaxInFlight + 1)
    /\ notice # None => notice.of \in Ids /\ content = <<>>

\* Once nothing is rendering, the body holds each section once, of one render
\* ("Clears `bodyEl` first so it is safe to call repeatedly", app.js:3294).
Whole(c) == /\ Len(c) = Len(Stages)
            /\ \A k \in 1..Len(c) : c[k].stage = Stages[k] /\ c[k].n = c[1].n
BodyWhole == renders = {} /\ content # <<>> => Whole(content)

\* A view that failed to load is of something the server no longer has
\* (renderAssetDetailBody throws "if the fetch fails / 404s", app.js:3295).
FailsForCause == notice # None /\ notice.what = "failed" => notice.of \in gone

\* What is on view is what the window's or the panel's chrome says
\* ("so their chrome follows the navigation", app.js:3302).
ShowsItsId == renders = {} /\ content # <<>> => \A s \in Range(content) : s.of = id

\* "... no longer exists" is said of something that does not (detail.js:170).
GoneIsGone == notice # None /\ notice.what = "gone" => notice.of \in gone

\* The poll of a run's window stops with the ended run on view (detail.js:146).
Unfinished == id \in over /\ (polling \/ \A s \in Range(content) : s.saw # "over")
=============================================================================
