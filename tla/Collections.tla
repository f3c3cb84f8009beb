--------------------------- MODULE Collections ---------------------------
(***************************************************************************)
(* One collection: its routes (routes/collections.ts) over the CouchDB     *)
(* repository, and the console's rename and edit dialogs, which patch it.  *)
(*                                                                         *)
(* Every route reads the document and writes it with its revision; only    *)
(* PATCH reads again on a conflict.  DELETE checks the lock and the member *)
(* count on one read and removes what a later read finds.  Value i of a    *)
(* field is the text request i wrote (0: the first one).  Membership, lock *)
(* and delete requests come from any caller of the API.  The size caps     *)
(* (the same in dialog and route) are left out.                            *)
(***************************************************************************)
EXTENDS Integers, FiniteSets
CONSTANTS
  None,
  Consoles,
  Fields,      \* the patched fields: "name", "description", "tags", "custom"
  Assets,
  Live,        \* the assets that exist
  Ops,         \* the other requests: "add", "remove", "lock", "unlock", "delete"
  MaxReqs,     \* bound: requests sent
  MaxLost,     \* bound: lost answers
  Attempts,    \* write attempts of updateWithRetry
  Overlap      \* may a request be sent while another is under way?

Reqs == 1..MaxReqs

VARIABLES
  doc,     \* the collection: exists, val, members, lock, rev
  want,    \* history: what the writes so far make of it, one after the other
  may,     \* consoles whose role may write
  con,     \* per console: page and dialog
  req,     \* requests: None until sent
  audits,  \* collection.deleted entries
  lost     \* lost answers
vars == <<doc, want, may, con, req, audits, lost>>

Blank == [up |-> FALSE, view |-> None, on |-> FALSE, dlg |-> None, said |-> None]
Quiet == ~Overlap => \A i \in Reqs : (req[i] # None => req[i].at = "ended")
(* on: the Rename and Edit buttons exist. *)
Built(c, said) ==
  [con[c] EXCEPT !.up = doc.exists, !.view = doc.val, !.on = doc.exists /\ c \in may,
                 !.said = said]

(* The collection's panel is opened or built again. *)
Mount(c) ==
  /\ doc.exists /\ con[c].dlg = None
  /\ con' = [con EXCEPT ![c] = Built(c, None)]
  /\ UNCHANGED <<doc, want, may, req, audits, lost>>
(* Rename or Edit: the dialog is filled from the panel's own read. *)
Open(c) ==
  /\ con[c].up /\ con[c].on /\ con[c].dlg = None
  /\ con' = [con EXCEPT ![c].dlg = [base |-> con[c].view, busy |-> None, err |-> None]]
  /\ UNCHANGED <<doc, want, may, req, audits, lost>>
(* Cancel is disabled while saving; Escape and the backdrop are not. *)
Close(c) ==
  /\ con[c].dlg # None
  /\ con' = [con EXCEPT ![c].dlg = None]
  /\ UNCHANGED <<doc, want, may, req, audits, lost>>

Send(i, r) ==
  /\ req[i] = None /\ (\A j \in 1..(i - 1) : req[j] # None) /\ Quiet
  /\ req' = [req EXCEPT ![i] = r]
Request(c, op) ==
  [c |-> c, op |-> op, patch |-> <<>>, edits |-> {}, a |-> None, n |-> None, force |-> FALSE,
   at |-> "sent", read |-> None, try |-> 0, ans |-> None, wrote |-> FALSE,
   cut |-> None]

(* Only the fields that differ from the panel's read are sent. *)
collectionEditPatchBody(i, base, edits) == [f \in edits |-> i]

(* Save: the fields in edits were typed anew. *)
Submit(c, i, edits) ==
  /\ con[c].dlg # None /\ con[c].dlg.busy = None
  /\ con' = [con EXCEPT ![c].dlg = [@ EXCEPT !.busy = i, !.err = None]]
  /\ Send(i, [Request(c, "patch") EXCEPT
       !.patch = collectionEditPatchBody(i, con[c].dlg.base, edits), !.edits = edits])
  /\ UNCHANGED <<doc, want, may, audits, lost>>
(* The other callers: n is the confirmed member count. *)
Ask(i, op, a, n, force) ==
  /\ Send(i, [Request(None, op) EXCEPT !.a = a, !.n = n, !.force = force])
  /\ UNCHANGED <<doc, want, may, con, audits, lost>>

Answered(i, ans) == req' = [req EXCEPT ![i].at = "done", ![i].ans = ans, ![i].read = None]

(* The deletes that are refused. *)
Protected(i) == doc.lock
MemberBlocked(i) ==
  IF req[i].n # None THEN req[i].n # Cardinality(doc.members)
  ELSE ~req[i].force /\ doc.members # {}

(* DELETE /:id: the lock, the confirmed count, the members. *)
CheckDelete(i) ==
  /\ req[i] # None /\ req[i].op = "delete" /\ req[i].at = "sent"
  /\ IF doc.exists /\ Protected(i) THEN Answered(i, "delete_protected")
     ELSE IF doc.exists /\ MemberBlocked(i) THEN Answered(i, "member_of_collection")
     ELSE req' = [req EXCEPT ![i].at = "checked", ![i].read = doc]
  /\ UNCHANGED <<doc, want, may, con, audits, lost>>
Removed(i) ==
  /\ audits' = audits + (IF req[i].read.exists THEN 1 ELSE 0)
  /\ req' = [req EXCEPT ![i].at = "done", ![i].ans = "204", ![i].read = None,
       ![i].cut = IF doc.exists THEN [lock |-> doc.lock, n |-> Cardinality(doc.members)] ELSE None]
(* repo.delete: the remove reads the revision again, so any document that is
   still there goes; the audit entry follows the first read. *)
Destroy(i) ==
  /\ req[i] # None /\ req[i].at = "checked"
  /\ Removed(i)
  /\ doc' = [doc EXCEPT !.exists = FALSE]
  /\ want' = [want EXCEPT !.exists = FALSE]
  /\ UNCHANGED <<may, con, lost>>

(* The role gate and the first read of the other routes. *)
Read(i) ==
  /\ req[i] # None /\ req[i].op # "delete" /\ req[i].at = "sent"
  /\ IF req[i].c # None /\ req[i].c \notin may THEN Answered(i, "403")
     ELSE IF req[i].op = "add" /\ req[i].a \notin Live THEN Answered(i, "422")
     ELSE IF ~doc.exists THEN Answered(i, "404")
     ELSE req' = [req EXCEPT ![i].at = "read", ![i].read = doc, ![i].try = @ + 1]
  /\ UNCHANGED <<doc, want, may, con, audits, lost>>

(* What request i makes of a collection: applyCollectionUpdate, addAssetId,
   removeAssetId, applyCollectionDeleteLock. *)
Apply(i, d) ==
  CASE req[i].op = "patch" ->
         [d EXCEPT !.val = [f \in Fields |-> IF f \in DOMAIN req[i].patch THEN req[i].patch[f] ELSE @[f]]]
    [] req[i].op = "add" -> [d EXCEPT !.members = @ \cup {req[i].a}]
    [] req[i].op = "remove" -> [d EXCEPT !.members = @ \ {req[i].a}]
    [] OTHER -> [d EXCEPT !.lock = req[i].op = "lock"]
Stored(i) ==
  /\ doc' = [Apply(i, req[i].read) EXCEPT !.rev = doc.rev + 1]
  /\ want' = Apply(i, want)
  /\ req' = [req EXCEPT ![i].at = "done", ![i].ans = "200", ![i].wrote = TRUE, ![i].read = None]
WriteBlind(i) ==
  /\ req[i] # None /\ req[i].at = "read" /\ doc.exists
  /\ Stored(i)
  /\ UNCHANGED <<may, con, audits, lost>>
(* The write: a conflict is retried by PATCH and fails the others. *)
Write(i) ==
  /\ req[i] # None /\ req[i].at = "read"
  /\ IF doc.exists /\ doc.rev = req[i].read.rev THEN Stored(i)
     ELSE /\ IF req[i].op = "patch" /\ req[i].try < Attempts
             THEN req' = [req EXCEPT ![i].at = "sent", ![i].read = None]
             ELSE Answered(i, "500")
          /\ UNCHANGED <<doc, want>>
  /\ UNCHANGED <<may, con, audits, lost>>

(* The network (external): an answer that does not arrive fails the fetch. *)
Lose(i) ==
  /\ req[i] # None /\ req[i].at = "done" /\ req[i].op = "patch" /\ req[i].ans # "lost"
  /\ lost < MaxLost
  /\ lost' = lost + 1
  /\ Answered(i, "lost")
  /\ UNCHANGED <<doc, want, may, con, audits>>

(* classifyCollectionEditError, classifyRenameFailure *)
Kind(ans) ==
  CASE ans = "200" -> "ok" [] ans = "403" -> "forbidden" [] ans = "404" -> "not-found"
    [] OTHER -> "network"
Mine(c, i) == con[c].dlg # None /\ con[c].dlg.busy = i
Over(r) == [r EXCEPT !.at = "ended", !.try = 0]
(* The dialog's answer: success and 404 close it and build the panel again, 403
   takes the button away, the others are told in the dialog. *)
Done(i) ==
  /\ req[i] # None /\ req[i].at = "done" /\ req[i].c # None
  /\ LET c == req[i].c
         k == Kind(req[i].ans)
     IN  IF k \in {"ok", "not-found"}
         THEN /\ req' = [req EXCEPT ![i].at = "redraw"]
              /\ con' = [con EXCEPT ![c].dlg = IF Mine(c, i) THEN None ELSE @]
         ELSE /\ req' = [req EXCEPT ![i] = Over(@)]
              /\ con' = [con EXCEPT
                   ![c].on = @ /\ k # "forbidden",
                   ![c].dlg = IF Mine(c, i)
                              THEN [@ EXCEPT !.busy = None, !.err = [kind |-> k, req |-> i]] ELSE @]
  /\ UNCHANGED <<doc, want, may, audits, lost>>
(* onSaved: the panel is read and built again, then the outcome is shown. *)
Redraw(i) ==
  /\ req[i] # None /\ req[i].at = "redraw"
  /\ req' = [req EXCEPT ![i] = Over(@)]
  /\ con' = [con EXCEPT ![req[i].c] = Built(req[i].c, [kind |-> Kind(req[i].ans), req |-> i])]
  /\ UNCHANGED <<doc, want, may, audits, lost>>
(* Any other caller has its answer. *)
Told(i) ==
  /\ req[i] # None /\ req[i].at = "done" /\ req[i].c = None
  /\ req' = [req EXCEPT ![i] = Over(@)]
  /\ UNCHANGED <<doc, want, may, con, audits, lost>>
Demote(c) ==
  /\ c \in may /\ may' = may \ {c}
  /\ UNCHANGED <<doc, want, con, req, audits, lost>>

New == [exists |-> TRUE, val |-> [f \in Fields |-> 0], members |-> {}, lock |-> FALSE, rev |-> 0]
Init ==
  /\ doc = New /\ want = New
  /\ may = Consoles
  /\ con = [c \in Consoles |-> Blank]
  /\ req = [i \in Reqs |-> None]
  /\ audits = 0 /\ lost = 0
Counts == {None} \cup 0..Cardinality(Live)
AskAny(i) ==
  \/ \E op \in Ops \cap {"add", "remove"}, a \in Assets : Ask(i, op, a, None, FALSE)
  \/ \E op \in Ops \cap {"lock", "unlock"} : Ask(i, op, None, None, FALSE)
  \/ "delete" \in Ops /\ \E n \in Counts, force \in BOOLEAN : Ask(i, "delete", None, n, force)
Step(i) ==
  CheckDelete(i) \/ Destroy(i) \/ Read(i) \/ Write(i) \/ Done(i) \/ Redraw(i) \/ Told(i)
Next ==
  \/ \E c \in Consoles :
       \/ Mount(c) \/ Open(c) \/ Close(c) \/ Demote(c)
       \/ \E i \in Reqs, edits \in (SUBSET Fields) \ {{}} : Submit(c, i, edits)
  \/ \E i \in Reqs :
       \/ AskAny(i) \/ CheckDelete(i) \/ Destroy(i) \/ Read(i) \/ Write(i) \/ Lose(i)
       \/ Done(i) \/ Redraw(i) \/ Told(i)
Spec == Init /\ [][Next]_vars

(* The members are assets that exist, and a dialog's Save is disabled by a
   request of its own that is under way (addAsset's check, the finally). *)
TypeOK ==
  /\ doc.members \subseteq Live /\ doc.val \in [Fields -> 0..MaxReqs] /\ lost \in 0..MaxLost
  /\ \A c \in Consoles :
       con[c].dlg # None /\ con[c].dlg.busy # None =>
         LET r == req[con[c].dlg.busy] IN r.c = c /\ r.at \notin {"redraw", "ended"}

(* The collection is what its answered writes make of it one after the other:
   no membership, field or lock change overwrites another that met it
   (updateWithRetry, mutate, setDeleteLock). *)
NoLostUpdate ==
  doc.exists =>
    /\ doc.val = want.val /\ doc.members = want.members /\ doc.lock = want.lock

(* A save changes only the fields the operator edited: those another operator
   changed since the panel was read keep their values
   (collectionEditPatchBody). *)
OthersKept ==
  \A i \in Reqs :
       (req[i] # None /\ ~req[i].wrote /\ req'[i].wrote /\ req[i].op = "patch")
       => \A f \in Fields \ req[i].edits : doc'.val[f] = doc.val[f]

(* Every request is answered and its dialog given back. *)
Unfinished == \E i \in Reqs : req[i] # None /\ req[i].at # "ended"

Cut(i) == req[i] # None /\ req[i].cut # None
(* A locked collection is never deleted, forced or not (the hard block of
   DELETE /:id). *)
LockedNotDeleted == \A i \in Reqs : Cut(i) => ~req[i].cut.lock

(* A collection with members is deleted only when forced or when the confirmed
   count is the number it then has (the soft block of DELETE /:id). *)
CountConfirmed ==
  \A i \in Reqs : Cut(i) =>
    \/ req[i].n = req[i].cut.n
    \/ req[i].n = None /\ (req[i].force \/ req[i].cut.n = 0)

(* One audit entry for the one deletion (the entry of DELETE /:id). *)
OneDeletionEntry == audits <= 1

===========================================================================
