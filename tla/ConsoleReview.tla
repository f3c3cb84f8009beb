-------------------------- MODULE ConsoleReview --------------------------
(***************************************************************************)
(* The review block of the asset page (review-state.js) in several         *)
(* consoles, over the review routes of the asset service.                  *)
(*                                                                         *)
(* A console reads the state with its legal moves and offers one button    *)
(* per move; a click posts the move and reads again.  The POST is a read   *)
(* of the document and a write with its revision, which is not retried;    *)
(* any other update of the asset moves the revision too.  Answers may be   *)
(* lost; the asset may be purged and a role taken away.  A page that is   *)
(* left with a move under way goes on as a console that clicks no more.    *)
(***************************************************************************)
EXTENDS Integers, FiniteSets
CONSTANTS
  None,
  Consoles,
  MaxRev,      \* bound: writes of the asset's document
  MaxLost,     \* bound: lost answers
  Losses       \* the requests whose answers may be lost: "get", "post"

States == {"draft", "in-review", "approved", "rejected"}

VARIABLES
  doc,     \* the asset: exists, state, rev
  may,     \* whose role may change the state, as the server sees it
  con,     \* per console: the mounted block
  req,     \* per console: its request under way, or None
  lost     \* answers lost so far
vars == <<doc, may, con, req, lost>>

(* What the API advertises. *)
allowedReviewTransitions(s) ==
  CASE s = "draft" -> {"in-review"}
    [] s = "in-review" -> {"approved", "rejected"}
    [] OTHER -> {"in-review"}
(* What the API accepts. *)
isValidReviewTransition(from, to) ==
  \/ from = to
  \/ from = "draft" /\ to = "in-review"
  \/ from = "in-review" /\ to \in {"approved", "rejected"}
  \/ from \in {"approved", "rejected"} /\ to = "in-review"

(* shown: the badge, or None for "unavailable"; moves: the buttons; busy: they
   are disabled; can: the role gate at the mount; said: the message;
   goal: the move under way.  History: since, the states stored since the move was
   served; fresh, is shown still what is stored; did, was the last move written. *)
Blank == [up |-> FALSE, shown |-> None, moves |-> {}, busy |-> FALSE, can |-> FALSE,
          said |-> None, goal |-> None, since |-> {}, fresh |-> TRUE, did |-> FALSE]

Send(c, kind, next) ==
  req' = [req EXCEPT ![c] = [kind |-> kind, at |-> "sent", next |-> next, rev |-> 0,
                             ans |-> None, moves |-> {}]]

(* The asset page is built: a new block, which reads. *)
Mount(c) ==
  /\ ~con[c].busy
  /\ con' = [con EXCEPT ![c] = [Blank EXCEPT !.up = TRUE, !.can = c \in may, !.busy = TRUE]]
  /\ Send(c, "get", None)
  /\ UNCHANGED <<doc, may, lost>>

(* apply: the siblings are disabled and the move is posted. *)
Click(c, to) ==
  /\ con[c].up /\ ~con[c].busy /\ to \in con[c].moves
  /\ doc.rev < MaxRev
  /\ con' = [con EXCEPT ![c].busy = TRUE, ![c].goal = to, ![c].said = None,
                        ![c].since = {}, ![c].did = FALSE]
  /\ Send(c, "post", None)
  /\ UNCHANGED <<doc, may, lost>>

Answer(c, a, moves) ==
  req' = [req EXCEPT ![c].at = "done", ![c].ans = a, ![c].moves = moves]

(* GET /:id/review-state *)
ServeGet(c) ==
  /\ req[c] # None /\ req[c].kind = "get" /\ req[c].at = "sent"
  /\ IF doc.exists THEN Answer(c, doc.state, allowedReviewTransitions(doc.state))
     ELSE Answer(c, "404", {})
  /\ con' = [con EXCEPT ![c].fresh = TRUE]
  /\ UNCHANGED <<doc, may, lost>>

(* POST /:id/review-state: the role gate, the read, the transition check. *)
ServePost(c) ==
  /\ req[c] # None /\ req[c].kind = "post" /\ req[c].at = "sent"
  /\ CASE c \notin may -> Answer(c, "403", {})
       [] c \in may /\ ~doc.exists -> Answer(c, "404", {})
       [] c \in may /\ doc.exists /\ ~isValidReviewTransition(doc.state, con[c].goal) ->
            Answer(c, "422", {})
       [] OTHER -> req' = [req EXCEPT ![c].at = "read", ![c].rev = doc.rev]
  /\ UNCHANGED <<doc, may, con, lost>>

(* History: the state a console read last. *)
Read(c) == IF req[c] # None /\ req[c].kind = "get" /\ req[c].at = "done" THEN req[c].ans
           ELSE con[c].shown
Noted(state) ==
  [c \in Consoles |-> [con[c] EXCEPT !.since = @ \cup {state},
                                     !.fresh = @ /\ Read(c) = state]]

(* ... and the write, refused when the revision has moved. *)
Write(c) ==
  /\ req[c] # None /\ req[c].at = "read"
  /\ IF doc.exists /\ doc.rev = req[c].rev
     THEN /\ doc' = [doc EXCEPT !.state = con[c].goal, !.rev = @ + 1]
          /\ con' = [Noted(con[c].goal) EXCEPT ![c].since = {con[c].goal}, ![c].did = TRUE]
          /\ Answer(c, "200", {})
     ELSE /\ Answer(c, "500", {})
          /\ UNCHANGED <<doc, con>>
  /\ UNCHANGED <<may, lost>>

(* The network (external): an answer that does not arrive fails the fetch. *)
Lose(c) ==
  /\ req[c] # None /\ req[c].kind \in Losses /\ req[c].at = "done" /\ req[c].ans # "lost"
  /\ lost < MaxLost
  /\ lost' = lost + 1
  /\ req' = [req EXCEPT ![c].ans = "lost"]
  /\ UNCHANGED <<doc, may, con>>

(* draw: the block is replaced, with the message that was waiting for it. *)
Drawn(c, said) ==
  /\ con' = [con EXCEPT ![c].busy = FALSE, ![c].said = said, ![c].goal = None,
       ![c].shown = IF req[c].ans \in States THEN req[c].ans ELSE None,
       ![c].moves = IF con[c].can /\ req[c].ans \in States THEN req[c].moves ELSE {}]
  /\ req' = [req EXCEPT ![c] = None]
GetDone(c) ==
  /\ req[c] # None /\ req[c].kind = "get" /\ req[c].at = "done"
  /\ Drawn(c, req[c].next)
  /\ UNCHANGED <<doc, may, lost>>

(* classifyReviewError *)
Kind(ans) ==
  CASE ans = "403" -> "forbidden" [] ans = "404" -> "not-found"
    [] ans = "422" -> "stale" [] OTHER -> "network"

PostDoneQuick(c) ==
  /\ req[c] # None /\ req[c].kind = "post" /\ req[c].at = "done"
  /\ con' = [con EXCEPT ![c].busy = FALSE, ![c].goal = None,
               ![c].said = IF req[c].ans = "200" THEN "done" ELSE Kind(req[c].ans)]
  /\ req' = [req EXCEPT ![c] = None]
  /\ UNCHANGED <<doc, may, lost>>
(* The rest of apply: 200 and 422 read again before they are reported, the
   others give the buttons back, 403 takes them away. *)
PostDone(c) ==
  /\ req[c] # None /\ req[c].kind = "post" /\ req[c].at = "done"
  /\ IF req[c].ans \in {"200", "422"}
     THEN /\ Send(c, "get", IF req[c].ans = "200" THEN "done" ELSE "stale")
          /\ UNCHANGED con
     ELSE /\ con' = [con EXCEPT ![c].busy = FALSE, ![c].goal = None,
                       ![c].said = Kind(req[c].ans),
                       ![c].moves = IF req[c].ans = "403" THEN {} ELSE @]
          /\ req' = [req EXCEPT ![c] = None]
  /\ UNCHANGED <<doc, may, lost>>

(* Another write of the asset's document. *)
Touch ==
  /\ doc.exists /\ doc.rev < MaxRev
  /\ doc' = [doc EXCEPT !.rev = @ + 1]
  /\ UNCHANGED <<may, con, req, lost>>
Purge ==
  /\ doc.exists /\ doc' = [doc EXCEPT !.exists = FALSE]
  /\ UNCHANGED <<may, con, req, lost>>
Demote(c) ==
  /\ c \in may /\ may' = may \ {c}
  /\ UNCHANGED <<doc, con, req, lost>>

Init ==
  /\ doc = [exists |-> TRUE, state |-> "draft", rev |-> 0]
  /\ may = Consoles
  /\ con = [c \in Consoles |-> Blank]
  /\ req = [c \in Consoles |-> None]
  /\ lost = 0
Step(c) == ServeGet(c) \/ ServePost(c) \/ Write(c) \/ GetDone(c) \/ PostDone(c)
Next ==
  \/ \E c \in Consoles :
       \/ Mount(c) \/ ServeGet(c) \/ ServePost(c) \/ Write(c)
       \/ Lose(c) \/ GetDone(c) \/ PostDone(c) \/ Demote(c)
       \/ \E to \in States : Click(c, to)
  \/ Touch
  \/ Purge
Spec == Init /\ [][Next]_vars

(* A block is busy exactly while its read or its move is under way, and offers
   no move without a state (mountReviewState). *)
TypeOK ==
  /\ doc.state \in States /\ doc.rev \in 0..(MaxRev + Cardinality(Consoles)) /\ lost \in 0..MaxLost
  /\ \A c \in Consoles :
       /\ con[c].shown \in States \cup {None} /\ con[c].moves \subseteq States
       /\ con[c].busy <=> req[c] # None
       /\ con[c].shown = None => con[c].moves = {}

(* A verdict is only changed by passing through in-review again, whichever
   consoles move the asset at once (transitionReviewState with _rev). *)
GraphOnly ==
  doc'.state # doc.state => doc'.state \in allowedReviewTransitions(doc.state)

(* Told that the review state is now another, the operator sees a state that
   was stored at or after that move, never the one before it (refresh in
   apply). *)
FreshAfterMove ==
  \A c \in Consoles :
    con[c].said = "done" /\ ~con[c].busy /\ con[c].shown # None => con[c].shown \in con[c].since

(* A move the block offers is only refused as no longer allowed when the state
   has changed since the block's read: what is advertised is what is accepted
   (allowedReviewTransitions, isValidReviewTransition). *)
RefusedOnlyIfStale ==
  \A c \in Consoles :
    req[c] # None /\ req[c].ans = "422" => ~con[c].fresh

(* Every click ends with the buttons usable or gone (apply). *)
Unfinished == \E c \in Consoles : con[c].up /\ con[c].busy

===========================================================================
