-------------------------- MODULE ConsoleTracks --------------------------
(***************************************************************************)
(* The tracks panel of the console's asset view (tracks-panel.js) with its *)
(* audio editor (audio-track-edit.js), and the track routes of the API it  *)
(* writes to.  The panel keeps the subtitle list itself and advances it by *)
(* each answer; the audio list is part of the asset body it draws from,    *)
(* which the editor replaces by the list the server returns.               *)
(*                                                                         *)
(* A track route reads the asset, builds the new list and writes it back:  *)
(* two steps at the server, between which another request may be served.   *)
(***************************************************************************)
EXTENDS FiniteSets, Naturals

CONSTANTS MaxIds,     \* bound: track ids minted
          MaxWrites,  \* bound: writes started in the panel
          MaxOthers,  \* bound: changes made elsewhere
          MaxFaults,  \* bound: requests and answers lost
          Overlap     \* whether a write may start while another is under way

VARIABLES srv,    \* the asset's tracks at the server
          role,   \* the principal may change them
          pan,    \* the panel and its editor
          tasks,  \* handlers under way
          minted, spent
vars == <<srv, role, pan, tasks, minted, spent>>

Ids == 1..MaxIds
Lists == {"audio", "subs"}

\* "held": the asset body (its audio list) the handler closed over when its
\* control was wired; "snap": what the route read before it writes.
Task == [list : Lists, op : {"add", "remove"}, id : 0..MaxIds, held : SUBSET Ids,
         req : {"write", "get"}, gone : BOOLEAN, at : {"sent", "read", "back"},
         ans : {"none", "ok", "403", "404", "net"}, snap : SUBSET Ids]

TypeOK ==
    /\ srv \in [Lists -> SUBSET Ids] /\ role \in BOOLEAN
    /\ pan \in [audio : SUBSET Ids, subs : SUBSET Ids, retired : BOOLEAN, aRetired : BOOLEAN,
                aBusy : BOOLEAN, addOn : BOOLEAN, off : SUBSET Ids, refused : SUBSET Lists]
    /\ tasks \in SUBSET Task /\ minted \in 0..MaxIds
    /\ spent \in [writes : 0..MaxWrites, others : 0..MaxOthers, faults : 0..MaxFaults]

-----------------------------------------------------------------------------
(* The panel. *)

\* draw(asset): the whole block is rebuilt, the subtitle list from the panel's
\* own, the audio list from the body; every control of it is enabled again.
Draw(p, audio) == [p EXCEPT !.audio = audio, !.addOn = TRUE, !.off = {}]

\* The controls the renderers put on screen, and whether they are enabled.
SubtitleControls == ~pan.retired
AudioControls == ~pan.aRetired /\ ~pan.aBusy

MayStart == spent.writes < MaxWrites /\ (Overlap \/ tasks = {})

Start(list, op, id) ==
    /\ tasks' = tasks \cup {[list |-> list, op |-> op, id |-> id, held |-> pan.audio,
                             req |-> "write", gone |-> FALSE, at |-> "sent", ans |-> "none",
                             snap |-> {}]}
    /\ spent' = [spent EXCEPT !.writes = @ + 1]
    /\ UNCHANGED <<srv, role, minted>>

\* addTrack(): only the form's own submit is disabled.
AddSubtitle ==
    /\ SubtitleControls /\ pan.addOn /\ MayStart
    /\ Start("subs", "add", 0)
    /\ pan' = [pan EXCEPT !.addOn = FALSE]

\* removeTrack(), confirmed: only the row's own button is disabled.
RemoveSubtitle(i) ==
    /\ SubtitleControls /\ i \in pan.subs \ pan.off /\ MayStart
    /\ Start("subs", "remove", i)
    /\ pan' = [pan EXCEPT !.off = @ \cup {i}]

\* submitAdd() and submitRemove(): the editor's controls are disabled together.
AddAudio ==
    /\ AudioControls /\ MayStart
    /\ Start("audio", "add", 0)
    /\ pan' = [pan EXCEPT !.aBusy = TRUE]

RemoveAudio(i) ==
    /\ AudioControls /\ i \in pan.audio /\ MayStart
    /\ Start("audio", "remove", i)
    /\ pan' = [pan EXCEPT !.aBusy = TRUE]

-----------------------------------------------------------------------------
(* The API and the network. *)

Update(t, u) == tasks' = (tasks \ {t}) \cup {u}

\* The role gate, then the handler's read; an add mints its id here.
RouteReads(t) ==
    /\ t.req = "write" /\ t.at = "sent"
    /\ IF ~role THEN Update(t, [t EXCEPT !.at = "back", !.ans = "403"]) /\ UNCHANGED minted
       ELSE IF t.op = "add"
       THEN /\ minted < MaxIds /\ minted' = minted + 1
            /\ Update(t, [t EXCEPT !.at = "read", !.snap = srv[t.list], !.id = minted + 1])
       ELSE /\ Update(t, IF t.id \in srv[t.list] THEN [t EXCEPT !.at = "read", !.snap = srv[t.list]]
                         ELSE [t EXCEPT !.at = "back", !.ans = "404"])
            /\ UNCHANGED minted
    /\ UNCHANGED <<srv, role, pan, spent>>

\* repo.update with the list built from the read; an audio add answers it whole.
RouteWrites(t) ==
    /\ t.req = "write" /\ t.at = "read"
    /\ srv' = [srv EXCEPT ![t.list] = IF t.op = "add" THEN t.snap \cup {t.id} ELSE t.snap \ {t.id}]
    /\ Update(t, [t EXCEPT !.at = "back", !.ans = "ok", !.snap = srv'[t.list]])
    /\ UNCHANGED <<role, pan, minted, spent>>

\* GET /assets/{id}/tracks
RouteLists(t) ==
    /\ t.req = "get" /\ t.at = "sent"
    /\ Update(t, [t EXCEPT !.at = "back", !.ans = "ok", !.snap = srv[t.list]])
    /\ UNCHANGED <<srv, role, pan, minted, spent>>

Lose(t) ==
    /\ spent.faults < MaxFaults
    /\ t.at = "sent" \/ (t.at = "back" /\ t.ans = "ok")
    /\ Update(t, [t EXCEPT !.at = "back", !.ans = "net"])
    /\ spent' = [spent EXCEPT !.faults = @ + 1]
    /\ UNCHANGED <<srv, role, pan, minted>>

\* Another operator removes a track, or the role is withdrawn.
Elsewhere ==
    /\ spent.others < MaxOthers
    /\ spent' = [spent EXCEPT !.others = @ + 1]
    /\ \/ \E l \in Lists : \E i \in srv[l] : srv' = [srv EXCEPT ![l] = @ \ {i}] /\ UNCHANGED role
       \/ role /\ role' = FALSE /\ UNCHANGED srv
    /\ UNCHANGED <<pan, tasks, minted>>

-----------------------------------------------------------------------------
(* The answers. *)

\* addTrack() and removeTrack(): the list advances by the answer (a 404 to a
\* removal drops the row too) and the block is drawn from the held body.
SubtitleAnswered(t) ==
    /\ t.list = "subs" /\ t.at = "back"
    /\ LET on == IF t.op = "add" THEN [pan EXCEPT !.addOn = TRUE] ELSE [pan EXCEPT !.off = @ \ {t.id}]
       IN  pan' = CASE t.ans = "ok" /\ t.op = "add" -> Draw([pan EXCEPT !.subs = @ \cup {t.id}], t.held)
                    [] t.ans \in {"ok", "404"} /\ t.op = "remove" ->
                          Draw([pan EXCEPT !.subs = @ \ {t.id}], t.held)
                    [] t.ans = "403" ->
                          Draw([pan EXCEPT !.retired = TRUE, !.refused = @ \cup {"subs"}], t.held)
                    [] OTHER -> on
    /\ tasks' = tasks \ {t}
    /\ UNCHANGED <<srv, role, minted, spent>>

\* classifyAudioTrackError: a 403 withdraws the editor's controls.
Refused(p) == [p EXCEPT !.aRetired = TRUE, !.refused = @ \cup {"audio"}]

\* submitAdd() and submitRemove(): an add's 201 is the list; a removal reads it,
\* and so does a 404, once the controls are enabled again.
AudioAnswered(t) ==
    /\ t.list = "audio" /\ t.req = "write" /\ t.at = "back"
    /\ IF t.op = "remove" /\ t.ans \in {"ok", "404"}
       THEN /\ Update(t, [t EXCEPT !.req = "get", !.at = "sent", !.ans = "none",
                                   !.gone = (t.ans = "404")])
            /\ pan' = [pan EXCEPT !.aBusy = (t.ans = "ok")]
       ELSE /\ tasks' = tasks \ {t}
            /\ LET p == [pan EXCEPT !.aBusy = FALSE]
               IN  pan' = CASE t.ans = "ok" -> Draw(p, t.snap)
                            [] t.ans = "403" -> Refused(p)
                            [] OTHER -> p
    /\ UNCHANGED <<srv, role, minted, spent>>

\* readTracks() answered.  Should it fail after a removal, the filter the server
\* applied is applied to the list on screen; after a 404 nothing is drawn.
AudioRead(t) ==
    /\ t.list = "audio" /\ t.req = "get" /\ t.at = "back"
    /\ tasks' = tasks \ {t}
    /\ LET p == [pan EXCEPT !.aBusy = @ /\ t.gone]
       IN  pan' = IF t.ans = "ok" THEN Draw(p, t.snap)
                  ELSE IF ~t.gone THEN Draw(p, pan.audio \ {t.id}) ELSE p
    /\ UNCHANGED <<srv, role, minted, spent>>

Init ==
    /\ minted = 2 /\ srv = [audio |-> {1}, subs |-> {2}] /\ role = TRUE
    /\ pan = [audio |-> {1}, subs |-> {2}, retired |-> FALSE, aRetired |-> FALSE, aBusy |-> FALSE,
              addOn |-> TRUE, off |-> {}, refused |-> {}]
    /\ tasks = {} /\ spent = [writes |-> 0, others |-> 0, faults |-> 0]

Operator == AddSubtitle \/ AddAudio \/ \E i \in Ids : RemoveSubtitle(i) \/ RemoveAudio(i)
Api == \E t \in tasks : RouteReads(t) \/ RouteWrites(t) \/ RouteLists(t)
Answer == \E t \in tasks : SubtitleAnswered(t) \/ AudioAnswered(t) \/ AudioRead(t)

Next == Operator \/ Api \/ Answer \/ (\E t \in tasks : Lose(t)) \/ Elsewhere

Spec == Init /\ [][Next]_vars

-----------------------------------------------------------------------------
(* Properties.  Alone: nothing lost and nobody else at work. *)

Alone == tasks = {} /\ spent.faults = 0 /\ spent.others = 0

\* At rest the subtitle list on screen is the server's.
SubtitlesTrue == Alone => pan.subs = srv["subs"]

\* At rest the audio list on screen is the server's: no write of one kind
\* reverts the rows of the other.
AudioTrue == Alone => pan.audio = srv["audio"]

\* At most one audio write is under way, whatever the subtitle controls do: its
\* handlers disable every control they could race with.
OneAudioWrite == Cardinality({t \in tasks : t.list = "audio" /\ t.req = "write"}) <= 1

\* A list whose write was answered 403 offers no control again in this view.
RefusedRetires ==
    /\ "subs" \in pan.refused => pan.retired
    /\ "audio" \in pan.refused => pan.aRetired

\* The audio controls come back after every write.
Unfinished == pan.aBusy
===========================================================================
