--------------------------- MODULE ConsoleLock ---------------------------
(***************************************************************************)
(* Delete protection on the asset page (lock-detail.js) in several         *)
(* consoles, over PUT and DELETE /:id/lock.                                *)
(*                                                                         *)
(* The block shows the lock its page was built from.  Lock and Edit open a *)
(* dialog that lives beside the page, Unlock asks and sends; a success is  *)
(* followed by a new build of the page (Redraw).  The write is             *)
(* updateWithRetry: read, write with the revision, again on a conflict.    *)
(* Request i carries note i, so every lock and trail entry names the       *)
(* request that wrote it.  The page's own reads are one step (their        *)
(* overlaps are in ConsoleDetail); too long texts are left out.            *)
(***************************************************************************)
EXTENDS Integers, Sequences, FiniteSets
CONSTANTS
  None,
  Consoles,
  MaxReqs,     \* bound: requests sent
  MaxTouch,    \* bound: other writes of the document
  MaxLost,     \* bound: lost answers
  Attempts     \* write attempts of updateWithRetry
Reqs == 1..MaxReqs

VARIABLES
  doc,     \* exists, lock (None or the note's number), rev, trail of entries
  may,     \* consoles whose role may change the lock
  con,     \* per console: page and dialog
  req,     \* requests: None until sent
  used     \* the bounded events so far: touch, lost
vars == <<doc, may, con, req, used>>

(* on: do the page's buttons exist; unl: the Unlock button is disabled; dlg: the
   open dialog (own: opened from this build of the page); said: the message and
   the request it is about; barred (history): a 403 was answered in this build. *)
Blank == [up |-> FALSE, view |-> None, on |-> FALSE, unl |-> FALSE,
          dlg |-> None, said |-> None, barred |-> FALSE]

Built(c, said) ==
  [con[c] EXCEPT !.up = doc.exists, !.view = doc.lock, !.unl = FALSE,
                 !.on = doc.exists /\ c \in may, !.said = said, !.barred = FALSE,
                 !.dlg = IF @ = None THEN None ELSE [@ EXCEPT !.own = FALSE]]
(* The requests of the build before. *)
Disowned(c) ==
  [i \in Reqs |-> IF req[i] # None /\ req[i].c = c THEN [req[i] EXCEPT !.own = FALSE] ELSE req[i]]
(* What is kept of a request that is over. *)
Over(r) == [r EXCEPT !.at = "ended", !.rev = 0, !.try = 0, !.trail = <<>>, !.own = FALSE]

(* The asset page is opened or built again. *)
Mount(c) ==
  /\ doc.exists /\ con[c].dlg = None
  /\ con' = [con EXCEPT ![c] = Built(c, None)]
  /\ req' = Disowned(c)
  /\ UNCHANGED <<doc, may, used>>

(* Lock, or Edit lock note: the dialog warns in edit mode only. *)
openLockForm(c) ==
  /\ con[c].up /\ con[c].on /\ con[c].dlg = None
  /\ con' = [con EXCEPT ![c].dlg =
       [mode |-> IF con[c].view = None THEN "lock" ELSE "edit", own |-> TRUE,
        busy |-> None, err |-> None]]
  /\ UNCHANGED <<doc, may, req, used>>
(* Cancel, Escape or the backdrop, a request under way or not. *)
Close(c) ==
  /\ con[c].dlg # None
  /\ con' = [con EXCEPT ![c].dlg = None]
  /\ UNCHANGED <<doc, may, req, used>>

Send(i, c, op, mode, own) ==
  /\ req[i] = None /\ \A j \in 1..(i - 1) : req[j] # None
  /\ req' = [req EXCEPT ![i] =
       [c |-> c, op |-> op, mode |-> mode, own |-> own, at |-> "sent", try |-> 0, rev |-> 0,
        ans |-> None, wrote |-> FALSE, over |-> FALSE, since |-> {}, trail |-> <<>>,
        barred |-> con[c].barred /\ own]]
(* The submit button: disabled until the answer. *)
Submit(c, i) ==
  /\ con[c].dlg # None /\ con[c].dlg.busy = None
  /\ con' = [con EXCEPT ![c].dlg.busy = i, ![c].dlg.err = None]
  /\ Send(i, c, "lock", con[c].dlg.mode, con[c].dlg.own)
  /\ UNCHANGED <<doc, may, used>>
(* Unlock, confirmed. *)
Unlock(c, i) ==
  /\ con[c].up /\ con[c].on /\ con[c].view # None /\ ~con[c].unl /\ con[c].dlg = None
  /\ con' = [con EXCEPT ![c].unl = TRUE]
  /\ Send(i, c, "unlock", "confirm", TRUE)
  /\ UNCHANGED <<doc, may, used>>

Answered(i, a) == req' = [req EXCEPT ![i].at = "done", ![i].ans = a]
(* The role gate, the preflight and one read of updateWithRetry. *)
Read(i) ==
  /\ req[i] # None /\ req[i].at = "sent"
  /\ IF req[i].c \notin may THEN Answered(i, "403")
     ELSE IF ~doc.exists THEN Answered(i, "404")
     ELSE req' = [req EXCEPT ![i].at = "read", ![i].rev = doc.rev, ![i].try = @ + 1,
                             ![i].trail = doc.trail]
  /\ UNCHANGED <<doc, may, con, used>>

(* applyDeleteLock: a fresh lock or none, and one entry appended to the trail
   that was read. *)
applyDeleteLock(i) ==
  [doc EXCEPT !.lock = IF req[i].op = "lock" THEN i ELSE None, !.rev = @ + 1,
              !.trail = Append(req[i].trail, i)]
Stored(i) ==
  /\ doc' = applyDeleteLock(i)
  /\ req' = [j \in Reqs |->
       IF j = i
       THEN [req[j] EXCEPT !.at = "done", !.ans = "200", !.wrote = TRUE,
               !.over = doc.lock # None /\ req[i].mode = "lock", !.since = {doc'.lock}]
       ELSE IF req[j] = None THEN None
       ELSE [req[j] EXCEPT !.since = IF req[j].wrote THEN @ \cup {doc'.lock} ELSE @]]
(* One write of updateWithRetry: a conflict reads again while attempts are left. *)
Write(i) ==
  /\ req[i] # None /\ req[i].at = "read"
  /\ IF doc.exists /\ doc.rev = req[i].rev THEN Stored(i)
     ELSE /\ IF req[i].try < Attempts THEN req' = [req EXCEPT ![i].at = "sent"]
             ELSE Answered(i, "409")
          /\ UNCHANGED doc
  /\ UNCHANGED <<may, con, used>>

(* The network (external): an answer that does not arrive fails the fetch. *)
Lose(i) ==
  /\ req[i] # None /\ req[i].at = "done" /\ req[i].ans # "lost" /\ used.lost < MaxLost
  /\ used' = [used EXCEPT !.lost = @ + 1]
  /\ Answered(i, "lost")
  /\ UNCHANGED <<doc, may, con>>

(* classifyLockError *)
Kind(ans) ==
  CASE ans = "200" -> "ok" [] ans = "403" -> "forbidden" [] ans = "404" -> "not-found"
    [] OTHER -> "network"
Mine(c, i) == con[c].dlg # None /\ con[c].dlg.busy = i

(* The answer: success and 404 close the dialog and build the page again; 403
   takes the page's buttons away; the dialog keeps its own button. *)
Done(i) ==
  /\ req[i] # None /\ req[i].at = "done"
  /\ LET c == req[i].c
         k == Kind(req[i].ans)
         msg == [kind |-> k, req |-> i]
         same == req[i].own
     IN  IF k \in {"ok", "not-found"}
         THEN /\ req' = [req EXCEPT ![i].at = "redraw"]
              /\ con' = [con EXCEPT ![c].dlg = IF Mine(c, i) THEN None ELSE @]
         ELSE /\ req' = [req EXCEPT ![i] = Over(@)]
              /\ con' = [con EXCEPT
                   ![c].dlg = IF Mine(c, i) THEN [@ EXCEPT !.busy = None, !.err = msg] ELSE @,
                   ![c].on = @ /\ ~(k = "forbidden" /\ same),
                   ![c].barred = @ \/ (k = "forbidden" /\ same),
                   ![c].unl = @ /\ ~(same /\ req[i].op = "unlock"),
                   ![c].said = IF req[i].op = "unlock" THEN msg ELSE @]
  /\ UNCHANGED <<doc, may, used>>
(* onChanged: the page is read and built again, then the outcome is shown. *)
Redraw(i) ==
  /\ req[i] # None /\ req[i].at = "redraw"
  /\ LET c == req[i].c IN
     /\ req' = [Disowned(c) EXCEPT ![i] = Over(@)]
     /\ con' = [con EXCEPT ![c] = Built(c, [kind |-> Kind(req[i].ans), req |-> i])]
  /\ UNCHANGED <<doc, may, used>>

(* Other writers of the document, its purge, a role taken away. *)
Touch ==
  /\ doc.exists /\ used.touch < MaxTouch
  /\ used' = [used EXCEPT !.touch = @ + 1]
  /\ doc' = [doc EXCEPT !.rev = @ + 1]
  /\ UNCHANGED <<may, con, req>>
Purge ==
  /\ doc.exists /\ doc.lock = None /\ used.touch < MaxTouch
  /\ doc' = [doc EXCEPT !.exists = FALSE]
  /\ UNCHANGED <<may, con, req, used>>
Demote(c) ==
  /\ c \in may /\ used.touch < MaxTouch
  /\ may' = may \ {c}
  /\ UNCHANGED <<doc, con, req, used>>

Init ==
  /\ doc = [exists |-> TRUE, lock |-> None, rev |-> 0, trail |-> <<>>]
  /\ may = Consoles
  /\ con = [c \in Consoles |-> Blank]
  /\ req = [i \in Reqs |-> None]
  /\ used = [touch |-> 0, lost |-> 0]
Step(i) == Read(i) \/ Write(i) \/ Done(i) \/ Redraw(i)
Next ==
  \/ \E c \in Consoles :
       \/ Mount(c) \/ openLockForm(c) \/ Close(c) \/ Demote(c)
       \/ \E i \in Reqs : Submit(c, i) \/ Unlock(c, i)
  \/ \E i \in Reqs : Read(i) \/ Write(i) \/ Lose(i) \/ Done(i) \/ Redraw(i)
  \/ Touch
  \/ Purge
Spec == Init /\ [][Next]_vars

(* The dialog's button is disabled by a request that is under way, and only by
   its own (openLockForm's finally). *)
TypeOK ==
  /\ doc.lock \in Reqs \cup {None} /\ doc.trail \in Seq(Reqs)
  /\ \A c \in Consoles :
       con[c].dlg # None /\ con[c].dlg.busy # None =>
         LET r == req[con[c].dlg.busy] IN
         r.c = c /\ r.op = "lock" /\ r.at \notin {"redraw", "ended"}

Entries(i) == {n \in DOMAIN doc.trail : doc.trail[n] = i}
(* Every change of the lock that was stored has its one provenance entry,
   however many consoles and other writers met in the document, and the lock is
   what the last entry says (updateWithRetry, applyDeleteLock). *)
TrailComplete ==
  /\ \A i \in Reqs : Cardinality(Entries(i)) = IF req[i] # None /\ req[i].wrote THEN 1 ELSE 0
  /\ doc.trail # <<>> =>
       LET i == doc.trail[Len(doc.trail)] IN
       doc.lock = IF req[i].op = "lock" THEN i ELSE None

(* Told that the asset was locked or the lock cleared, the operator sees a lock
   stored at or after that change (onChanged re-reads the page). *)
FreshAfterChange ==
  \A c \in Consoles :
    con[c].said # None /\ con[c].said.kind = "ok" /\ con[c].up =>
      con[c].view \in req[con[c].said.req].since

(* Every request ends, and with it the dialog's or the button's busy state. *)
Unfinished == \E i \in Reqs : req[i] # None /\ req[i].at # "ended"

===========================================================================
