-------------------------- MODULE CollectionsProofs --------------------------
(***************************************************************************)
(* What holds of a collection whatever consoles and callers of the API do, *)
(* proved with TLAPS: no change overwrites another, a save changes only    *)
(* what its operator edited, and, with one request at a time, a deletion   *)
(* is one that the lock and the confirmed count allow.                     *)
(***************************************************************************)
EXTENDS Collections, FiniteSetTheorems, TLAPS

Texts == 0..MaxReqs
Docs == [exists : BOOLEAN, val : [Fields -> Texts], members : SUBSET Live,
         lock : BOOLEAN, rev : Nat]
Operations == {"patch", "add", "remove", "lock", "unlock", "delete"}
Answers == {"200", "204", "403", "404", "422", "500", "lost",
            "delete_protected", "member_of_collection"}
Outcomes == [kind : {"ok", "forbidden", "not-found", "network"}, req : Reqs]
Patches == {<<>>} \cup UNION {[e -> Reqs] : e \in SUBSET Fields}
Calls == [c : Consoles \cup {None}, op : Operations, patch : Patches,
          edits : SUBSET Fields, a : Assets \cup {None}, n : Counts, force : BOOLEAN,
          at : {"sent", "checked", "read", "done", "redraw", "ended"},
          read : Docs \cup {None}, try : Nat, ans : Answers \cup {None},
          wrote : BOOLEAN, cut : [lock : BOOLEAN, n : Nat] \cup {None}]
Dialogs == [base : [Fields -> Texts] \cup {None}, busy : Reqs \cup {None},
            err : Outcomes \cup {None}]
Panels == [up : BOOLEAN, view : [Fields -> Texts] \cup {None}, on : BOOLEAN,
           dlg : Dialogs \cup {None}, said : Outcomes \cup {None}]

\* What the proofs ask of the constants: None is a value of its own.
CollectionConstants ==
  /\ None \notin Calls /\ None \notin Dialogs /\ None \notin Consoles
  /\ None \notin Nat /\ None \notin Docs /\ None \notin [lock : BOOLEAN, n : Nat]
  /\ IsFiniteSet(Live) /\ Live \subseteq Assets
  /\ MaxReqs \in Nat /\ MaxLost \in Nat

TypeInv ==
  /\ doc \in Docs /\ want \in Docs
  /\ req \in [Reqs -> Calls \cup {None}]
  /\ audits \in Nat

Alike(d, e) ==
  d.exists = e.exists /\ d.val = e.val /\ d.members = e.members /\ d.lock = e.lock

\* A patch names its edits; a request that has read holds the document or an
\* older one; a delete that was checked holds a document.
CallFits(r) ==
  /\ r.op = "patch" => r.patch \in [r.edits -> Reqs]
  /\ r.at = "read" =>
       /\ r.op # "delete" /\ (r.op = "add" => r.a \in Live)
       /\ r.read \in Docs /\ r.read.rev <= doc.rev
       /\ doc.exists /\ r.read.rev = doc.rev => Alike(r.read, doc)
  /\ r.at = "checked" => r.op = "delete" /\ r.read \in Docs

CallInv ==
  /\ TypeInv /\ Alike(doc, want)
  /\ \A i \in Reqs : req[i] # None => CallFits(req[i])

\* With one request at a time.
Solo == \A i, j \in Reqs :
  req[i] # None /\ req[i].at # "ended" /\ req[j] # None /\ req[j].at # "ended" => i = j
DeleteInv ==
  /\ Solo
  /\ audits = (IF doc.exists THEN 0 ELSE 1)
  /\ \A i \in Reqs : req[i] # None /\ req[i].at = "checked" =>
       /\ Alike(req[i].read, doc)
       /\ doc.exists => ~Protected(i) /\ ~MemberBlocked(i)
  /\ LockedNotDeleted /\ CountConfirmed

\* A dialog that waits, waits for a request of its own.
DialogInv ==
  /\ con \in [Consoles -> Panels] /\ lost \in 0..MaxLost
  /\ \A c \in Consoles : con[c].dlg # None /\ con[c].dlg.busy # None =>
       /\ req[con[c].dlg.busy] # None /\ req[con[c].dlg.busy].c = c
       /\ req[con[c].dlg.busy].at \notin {"redraw", "ended"}

\* What a request is after what it has done so far.
SameCall(e, r) ==
  /\ e.c = r.c /\ e.op = r.op /\ e.patch = r.patch /\ e.edits = r.edits /\ e.a = r.a
  /\ e.n = r.n /\ e.force = r.force /\ e.wrote = r.wrote /\ e.cut = r.cut

-----------------------------------------------------------------------------
(* The requests' records.                                                  *)

LEMMA Answering ==
  ASSUME CollectionConstants, NEW r \in Calls, NEW x \in Answers
  PROVE  LET e == [r EXCEPT !.at = "done", !.ans = x, !.read = None]
         IN  e \in Calls /\ e.at = "done" /\ SameCall(e, r)
  BY DEF Calls, SameCall

LEMMA Checking ==
  ASSUME CollectionConstants, NEW r \in Calls, NEW d \in Docs
  PROVE  LET e == [r EXCEPT !.at = "checked", !.read = d]
         IN  e \in Calls /\ e.at = "checked" /\ e.read = d /\ SameCall(e, r)
  BY DEF Calls, SameCall

LEMMA Reading ==
  ASSUME CollectionConstants, NEW r \in Calls, NEW d \in Docs
  PROVE  LET e == [r EXCEPT !.at = "read", !.read = d, !.try = @ + 1]
         IN  e \in Calls /\ e.at = "read" /\ e.read = d /\ SameCall(e, r)
<1>1. r.try + 1 \in Nat
  BY DEF Calls
<1> QED BY <1>1 DEF Calls, SameCall

LEMMA Storing ==
  ASSUME CollectionConstants, NEW r \in Calls
  PROVE  LET e == [r EXCEPT !.at = "done", !.ans = "200", !.wrote = TRUE, !.read = None]
         IN  /\ e \in Calls /\ e.at = "done" /\ e.c = r.c /\ e.op = r.op /\ e.n = r.n
             /\ e.force = r.force /\ e.cut = r.cut /\ e.patch = r.patch /\ e.edits = r.edits
  BY DEF Calls, Answers

LEMMA Removing ==
  ASSUME CollectionConstants, NEW r \in Calls, NEW x \in [lock : BOOLEAN, n : Nat] \cup {None}
  PROVE  LET e == [r EXCEPT !.at = "done", !.ans = "204", !.read = None, !.cut = x]
         IN  /\ e \in Calls /\ e.at = "done" /\ e.cut = x /\ e.c = r.c /\ e.op = r.op
             /\ e.n = r.n /\ e.force = r.force /\ e.patch = r.patch /\ e.edits = r.edits
             /\ e.wrote = r.wrote
  BY DEF Calls, Answers

LEMMA Retrying ==
  ASSUME CollectionConstants, NEW r \in Calls
  PROVE  LET e == [r EXCEPT !.at = "sent", !.read = None]
         IN  e \in Calls /\ e.at = "sent" /\ SameCall(e, r)
  BY DEF Calls, SameCall

LEMMA Ending ==
  ASSUME CollectionConstants, NEW r \in Calls
  PROVE  /\ Over(r) \in Calls /\ Over(r).at = "ended" /\ SameCall(Over(r), r)
         /\ LET e == [r EXCEPT !.at = "redraw"]
            IN  e \in Calls /\ e.at = "redraw" /\ SameCall(e, r)
  BY DEF Calls, SameCall, Over

LEMMA Asking ==
  ASSUME CollectionConstants, NEW c \in Consoles \cup {None}, NEW op \in Operations
  PROVE  LET r == Request(c, op)
         IN  /\ r \in Calls /\ r.at = "sent" /\ r.op = op /\ r.c = c /\ ~r.wrote
             /\ r.cut = None /\ r.read = None
  BY DEF Request, Calls, Counts, Patches

-----------------------------------------------------------------------------
(* What each step does to the requests.                                    *)

\* A request is sent.
Sent(i, r) ==
  /\ req[i] = None /\ Quiet /\ req' = [req EXCEPT ![i] = r]
  /\ r.at = "sent" /\ ~r.wrote /\ r.cut = None
  /\ r.op = "patch" => r.patch \in [r.edits -> Reqs]
  /\ UNCHANGED <<doc, want, audits>>
\* A request is answered, sent again or done with.
Moved(i, e) ==
  /\ req[i] # None /\ req[i].at # "ended" /\ req' = [req EXCEPT ![i] = e]
  /\ SameCall(e, req[i]) /\ e.at \in {"sent", "done", "redraw", "ended"}
  /\ UNCHANGED <<doc, want, audits>>
\* A delete passes its checks, another request reads.
Checked(i, e) ==
  /\ req[i] # None /\ req[i].at = "sent" /\ req[i].op = "delete"
  /\ doc.exists => ~Protected(i) /\ ~MemberBlocked(i)
  /\ req' = [req EXCEPT ![i] = e]
  /\ SameCall(e, req[i]) /\ e.at = "checked" /\ e.read = doc
  /\ UNCHANGED <<doc, want, audits>>
Fetched(i, e) ==
  /\ req[i] # None /\ req[i].at = "sent" /\ req[i].op # "delete"
  /\ req[i].op = "add" => req[i].a \in Live
  /\ req' = [req EXCEPT ![i] = e]
  /\ SameCall(e, req[i]) /\ e.at = "read" /\ e.read = doc
  /\ UNCHANGED <<doc, want, audits>>
\* A write lands on what was read.
Landed(i) ==
  /\ req[i] # None /\ req[i].at = "read" /\ doc.exists /\ doc.rev = req[i].read.rev
  /\ Stored(i) /\ UNCHANGED audits

Effect ==
  \/ UNCHANGED <<doc, want, req, audits>>
  \/ \E i \in Reqs, r \in Calls : Sent(i, r) \/ Moved(i, r) \/ Checked(i, r) \/ Fetched(i, r)
  \/ \E i \in Reqs : Landed(i) \/ Destroy(i)

LEMMA AnswerMoves ==
  ASSUME CollectionConstants, TypeInv, NEW i \in Reqs, req[i] # None, NEW x \in Answers,
         req[i].at # "ended", Answered(i, x), UNCHANGED <<doc, want, audits>>
  PROVE  Effect
<1> DEFINE e == [req[i] EXCEPT !.at = "done", !.ans = x, !.read = None]
<1>1. req[i] \in Calls /\ req' = [req EXCEPT ![i] = e]
  BY DEF TypeInv, Answered
<1>2. e \in Calls /\ e.at = "done" /\ SameCall(e, req[i])
  BY <1>1, Answering
<1> HIDE DEF e
<1> QED BY <1>1, <1>2 DEF Effect, Moved

LEMMA Effects ==
  ASSUME CollectionConstants, TypeInv, [Next]_vars
  PROVE  Effect
<1>1. ASSUME NEW c \in Consoles, Mount(c) \/ Open(c) \/ Close(c) \/ Demote(c)
      PROVE  Effect
  BY <1>1 DEF Mount, Open, Close, Demote, Effect
<1>2. ASSUME NEW c \in Consoles, NEW i \in Reqs, NEW edits \in (SUBSET Fields) \ {{}},
             Submit(c, i, edits)
      PROVE  Effect
  <2>1. PICK q \in Calls, b \in [edits -> Reqs] :
          /\ q.at = "sent" /\ ~q.wrote /\ q.cut = None
          /\ req[i] = None /\ Quiet /\ req' = [req EXCEPT ![i] = [q EXCEPT !.patch = b, !.edits = edits]]
          /\ UNCHANGED <<doc, want, audits>>
    <3> DEFINE q == Request(c, "patch")
               b == collectionEditPatchBody(i, con[c].dlg.base, edits)
    <3>1. q \in Calls /\ q.at = "sent" /\ ~q.wrote /\ q.cut = None
      BY Asking DEF Operations
    <3>2. b \in [edits -> Reqs]
      BY DEF collectionEditPatchBody
    <3>3. req[i] = None /\ Quiet /\ req' = [req EXCEPT ![i] = [q EXCEPT !.patch = b, !.edits = edits]]
          /\ UNCHANGED <<doc, want, audits>>
      BY <1>2 DEF Submit, Send
    <3> HIDE DEF q, b
    <3> QED BY <3>1, <3>2, <3>3
  <2> DEFINE r == [q EXCEPT !.patch = b, !.edits = edits]
  <2> HIDE DEF r
  <2>2. req' = [req EXCEPT ![i] = r] /\ r = [q EXCEPT !.patch = b, !.edits = edits]
    BY <2>1 DEF r
  <2>3. b \in Patches
    BY DEF Patches
  <2>4. r \in Calls /\ r.at = "sent" /\ ~r.wrote /\ r.cut = None /\ r.patch \in [r.edits -> Reqs]
    BY <2>1, <2>2, <2>3 DEF Calls
  <2> QED BY <2>1, <2>2, <2>4 DEF Effect, Sent
<1>3. ASSUME NEW i \in Reqs, AskAny(i)
      PROVE  Effect
  <2>1. ASSUME NEW op \in Operations, op # "patch", NEW a \in Assets \cup {None},
               NEW n \in Counts, NEW force \in BOOLEAN, Ask(i, op, a, n, force)
        PROVE  Effect
    <3> DEFINE q == Request(None, op)
               r == [q EXCEPT !.a = a, !.n = n, !.force = force]
    <3>1. q \in Calls /\ q.at = "sent" /\ ~q.wrote /\ q.cut = None /\ q.op = op
      BY Asking
    <3>2. req[i] = None /\ Quiet /\ req' = [req EXCEPT ![i] = r] /\ UNCHANGED <<doc, want, audits>>
          /\ r = [q EXCEPT !.a = a, !.n = n, !.force = force]
      BY <2>1 DEF Ask, Send
    <3> HIDE DEF q, r
    <3>3. r \in Calls /\ r.at = "sent" /\ ~r.wrote /\ r.cut = None /\ r.op # "patch"
      BY <2>1, <3>1, <3>2 DEF Calls
    <3> QED BY <3>2, <3>3 DEF Effect, Sent
  <2>2. None \in Counts /\ None \in Assets \cup {None}
    BY DEF Counts
  <2> QED BY <1>3, <2>1, <2>2 DEF AskAny, Operations
<1>4. ASSUME NEW i \in Reqs, CheckDelete(i)
      PROVE  Effect
  <2>1. req[i] \in Calls /\ req[i] # None /\ req[i].op = "delete" /\ req[i].at = "sent"
        /\ UNCHANGED <<doc, want, audits>>
    BY <1>4 DEF CheckDelete, TypeInv
  <2>2. CASE doc.exists /\ (Protected(i) \/ MemberBlocked(i))
    <3>1. Answered(i, "delete_protected") \/ Answered(i, "member_of_collection")
      BY <1>4, <2>2 DEF CheckDelete
    <3> QED BY <2>1, <3>1, AnswerMoves DEF Answers
  <2>3. CASE ~(doc.exists /\ (Protected(i) \/ MemberBlocked(i)))
    <3> DEFINE e == [req[i] EXCEPT !.at = "checked", !.read = doc]
    <3>1. req' = [req EXCEPT ![i] = e]
      BY <1>4, <2>3 DEF CheckDelete
    <3>2. e \in Calls /\ e.at = "checked" /\ e.read = doc /\ SameCall(e, req[i])
      BY <2>1, Checking DEF TypeInv
    <3> HIDE DEF e
    <3> QED BY <2>1, <2>3, <3>1, <3>2 DEF Effect, Checked
  <2> QED BY <2>2, <2>3
<1>5. ASSUME NEW i \in Reqs, Read(i)
      PROVE  Effect
  <2>1. req[i] \in Calls /\ req[i] # None /\ req[i].op # "delete" /\ req[i].at = "sent"
        /\ UNCHANGED <<doc, want, audits>>
    BY <1>5 DEF Read, TypeInv
  <2> DEFINE e == [req[i] EXCEPT !.at = "read", !.read = doc, !.try = @ + 1]
  <2>2. \/ Answered(i, "403") \/ Answered(i, "422") \/ Answered(i, "404")
        \/ (req[i].op = "add" => req[i].a \in Live) /\ req' = [req EXCEPT ![i] = e]
    BY <1>5 DEF Read
  <2>3. e \in Calls /\ e.at = "read" /\ e.read = doc /\ SameCall(e, req[i])
    BY <2>1, Reading DEF TypeInv
  <2> HIDE DEF e
  <2>4. CASE Answered(i, "403") \/ Answered(i, "422") \/ Answered(i, "404")
    BY <2>1, <2>4, AnswerMoves DEF Answers
  <2> QED BY <2>1, <2>2, <2>3, <2>4 DEF Effect, Fetched
<1>6. ASSUME NEW i \in Reqs, Write(i)
      PROVE  Effect
  <2>1. req[i] \in Calls /\ req[i] # None /\ req[i].at = "read" /\ UNCHANGED audits
    BY <1>6 DEF Write, TypeInv
  <2>2. CASE doc.exists /\ doc.rev = req[i].read.rev
    BY <1>6, <2>1, <2>2 DEF Write, Effect, Landed
  <2>3. CASE ~(doc.exists /\ doc.rev = req[i].read.rev)
    <3> DEFINE e == [req[i] EXCEPT !.at = "sent", !.read = None]
    <3>1. UNCHANGED <<doc, want>> /\ (req' = [req EXCEPT ![i] = e] \/ Answered(i, "500"))
      BY <1>6, <2>3 DEF Write
    <3>2. e \in Calls /\ e.at = "sent" /\ SameCall(e, req[i])
      BY <2>1, Retrying
    <3> HIDE DEF e
    <3>3. CASE Answered(i, "500")
      BY <2>1, <3>1, <3>3, AnswerMoves DEF Answers
    <3> QED BY <2>1, <3>1, <3>2, <3>3 DEF Effect, Moved
  <2> QED BY <2>2, <2>3
<1>7. ASSUME NEW i \in Reqs, Lose(i)
      PROVE  Effect
  BY <1>7, AnswerMoves DEF Lose, Answers
<1>8. ASSUME NEW i \in Reqs, Done(i) \/ Redraw(i) \/ Told(i)
      PROVE  Effect
  <2>1. req[i] \in Calls /\ req[i] # None /\ req[i].at # "ended" /\ UNCHANGED <<doc, want, audits>>
    BY <1>8 DEF Done, Redraw, Told, TypeInv
  <2>2. \/ req' = [req EXCEPT ![i] = Over(req[i])]
        \/ req' = [req EXCEPT ![i] = [req[i] EXCEPT !.at = "redraw"]]
    BY <1>8 DEF Done, Redraw, Told
  <2> DEFINE e == Over(req[i])
             f == [req[i] EXCEPT !.at = "redraw"]
  <2>3. e \in Calls /\ e.at = "ended" /\ SameCall(e, req[i])
        /\ f \in Calls /\ f.at = "redraw" /\ SameCall(f, req[i])
    BY <2>1, Ending
  <2>4. req' = [req EXCEPT ![i] = e] \/ req' = [req EXCEPT ![i] = f]
    BY <2>2
  <2> HIDE DEF e, f
  <2> QED BY <2>1, <2>3, <2>4 DEF Effect, Moved
<1>9. ASSUME NEW i \in Reqs, Destroy(i)
      PROVE  Effect
  BY <1>9 DEF Effect
<1>10. CASE UNCHANGED vars
  BY <1>10 DEF vars, Effect
<1> QED BY <1>1, <1>2, <1>3, <1>4, <1>5, <1>6, <1>7, <1>8, <1>9, <1>10 DEF Next

-----------------------------------------------------------------------------
(* No change overwrites another.                                           *)

LEMMA Applied ==
  ASSUME CollectionConstants, TypeInv, NEW i \in Reqs, req[i] \in Calls,
         req[i].op = "patch" => req[i].patch \in [req[i].edits -> Reqs],
         req[i].op = "add" => req[i].a \in Live, NEW d \in Docs
  PROVE  LET e == Apply(i, d)
         IN  e \in Docs /\ e.exists = d.exists /\ e.rev = d.rev
<1>1. CASE req[i].op = "patch"
  <2> DEFINE v == [f \in Fields |-> IF f \in DOMAIN req[i].patch THEN req[i].patch[f] ELSE d.val[f]]
  <2>1. v \in [Fields -> Texts]
    BY <1>1 DEF Docs, Texts, Reqs, CollectionConstants
  <2>2. Apply(i, d) = [d EXCEPT !.val = v]
    BY <1>1 DEF Apply, Docs
  <2> HIDE DEF v
  <2> QED BY <2>1, <2>2 DEF Docs
<1>2. CASE req[i].op = "add"
  BY <1>2 DEF Apply, Docs
<1>3. CASE req[i].op = "remove"
  BY <1>3 DEF Apply, Docs
<1>4. CASE req[i].op \notin {"patch", "add", "remove"}
  BY <1>4 DEF Apply, Docs
<1> QED BY <1>1, <1>2, <1>3, <1>4

LEMMA AppliedAlike ==
  ASSUME TypeInv, NEW i \in Reqs, NEW d \in Docs, NEW e \in Docs, Alike(d, e)
  PROVE  Alike(Apply(i, d), Apply(i, e))
<1>1. CASE req[i].op = "patch"
  BY <1>1 DEF Apply, Docs, Alike
<1>2. CASE req[i].op = "add"
  BY <1>2 DEF Apply, Docs, Alike
<1>3. CASE req[i].op = "remove"
  BY <1>3 DEF Apply, Docs, Alike
<1>4. CASE req[i].op \notin {"patch", "add", "remove"}
  BY <1>4 DEF Apply, Docs, Alike
<1> QED BY <1>1, <1>2, <1>3, <1>4

\* What a write leaves.
LEMMA LandedEffect ==
  ASSUME CollectionConstants, CallInv, NEW i \in Reqs, Landed(i)
  PROVE  /\ doc' \in Docs /\ doc'.rev = doc.rev + 1 /\ doc'.exists
         /\ Alike(doc', Apply(i, req[i].read)) /\ Alike(req[i].read, doc)
         /\ want' \in Docs /\ Alike(doc', want')
         /\ \E e \in Calls :
              /\ req' = [req EXCEPT ![i] = e]
              /\ e.at = "done" /\ e.c = req[i].c /\ e.op = req[i].op /\ e.n = req[i].n
              /\ e.force = req[i].force /\ e.cut = req[i].cut /\ e.patch = req[i].patch
              /\ e.edits = req[i].edits
<1>1. req[i] \in Calls /\ CallFits(req[i]) /\ req[i].at = "read"
  BY DEF CallInv, TypeInv, Landed
<1>2. PICK d \in Docs : d = req[i].read
  BY <1>1 DEF CallFits
<1>3. Alike(d, doc) /\ doc.exists /\ doc \in Docs /\ want \in Docs /\ Alike(doc, want)
  BY <1>1, <1>2 DEF CallFits, Landed, CallInv, TypeInv
<1>4. PICK p \in Docs : p = Apply(i, d) /\ p.exists = d.exists /\ p.rev = d.rev
  BY <1>1, Applied DEF CallFits, CallInv
<1>5. PICK w \in Docs : w = Apply(i, want) /\ w.exists = want.exists
  BY <1>1, <1>3, Applied DEF CallFits, CallInv
<1>6. Alike(d, want)
  BY <1>3 DEF Alike
<1>7. Alike(p, w)
  BY <1>3, <1>4, <1>5, <1>6, AppliedAlike DEF CallInv
<1>8. doc' = [p EXCEPT !.rev = doc.rev + 1] /\ want' = w
  BY <1>2, <1>4, <1>5 DEF Landed, Stored
<1>9. doc.rev + 1 \in Nat
  BY <1>3 DEF Docs
<1>10. doc' \in Docs /\ doc'.rev = doc.rev + 1 /\ Alike(doc', p) /\ doc'.exists = p.exists
  BY <1>8, <1>9 DEF Docs, Alike
<1> DEFINE e == [req[i] EXCEPT !.at = "done", !.ans = "200", !.wrote = TRUE, !.read = None]
<1>11. req' = [req EXCEPT ![i] = e]
  BY <1>1 DEF Landed, Stored, CallInv, TypeInv
<1>12. /\ e \in Calls /\ e.at = "done" /\ e.c = req[i].c /\ e.op = req[i].op /\ e.n = req[i].n
       /\ e.force = req[i].force /\ e.cut = req[i].cut /\ e.patch = req[i].patch
       /\ e.edits = req[i].edits
  BY <1>1, Storing
<1> HIDE DEF e
<1>13. Alike(doc', want')
  BY <1>7, <1>8, <1>10 DEF Alike
<1>14. doc'.exists
  BY <1>3, <1>4, <1>10 DEF Alike
<1> QED BY <1>2, <1>3, <1>4, <1>8, <1>10, <1>11, <1>12, <1>13, <1>14

\* What a deletion leaves.
LEMMA DestroyEffect ==
  ASSUME CollectionConstants, TypeInv, NEW i \in Reqs, Destroy(i)
  PROVE  /\ doc' \in Docs /\ doc'.rev = doc.rev /\ ~doc'.exists
         /\ doc'.val = doc.val /\ doc'.members = doc.members /\ doc'.lock = doc.lock
         /\ want' \in Docs /\ ~want'.exists
         /\ want'.val = want.val /\ want'.members = want.members /\ want'.lock = want.lock
         /\ \E e \in Calls :
              /\ req' = [req EXCEPT ![i] = e]
              /\ e.at = "done" /\ e.c = req[i].c /\ e.op = req[i].op /\ e.n = req[i].n
              /\ e.force = req[i].force /\ e.patch = req[i].patch /\ e.edits = req[i].edits
              /\ e.wrote = req[i].wrote
              /\ e.cut = IF doc.exists THEN [lock |-> doc.lock, n |-> Cardinality(doc.members)]
                         ELSE None
<1>1. req[i] \in Calls /\ doc \in Docs /\ want \in Docs
  BY DEF TypeInv, Destroy
<1>2. doc' = [doc EXCEPT !.exists = FALSE] /\ want' = [want EXCEPT !.exists = FALSE]
  BY DEF Destroy
<1>3. Cardinality(doc.members) \in Nat
  BY <1>1, FS_Subset, FS_CardinalityType DEF Docs, CollectionConstants
<1>4. PICK x \in [lock : BOOLEAN, n : Nat] \cup {None} :
        x = IF doc.exists THEN [lock |-> doc.lock, n |-> Cardinality(doc.members)] ELSE None
  BY <1>1, <1>3 DEF Docs
<1> DEFINE e == [req[i] EXCEPT !.at = "done", !.ans = "204", !.read = None, !.cut = x]
<1>5. req' = [req EXCEPT ![i] = e]
  BY <1>1, <1>4 DEF Destroy, Removed, TypeInv
<1>6. /\ e \in Calls /\ e.at = "done" /\ e.cut = x /\ e.c = req[i].c /\ e.op = req[i].op
      /\ e.n = req[i].n /\ e.force = req[i].force /\ e.patch = req[i].patch
      /\ e.edits = req[i].edits /\ e.wrote = req[i].wrote
  BY <1>1, Removing, ZenonT(30) DEF Calls, Answers
<1> HIDE DEF e
<1>7. /\ doc' \in Docs /\ doc'.rev = doc.rev /\ ~doc'.exists
      /\ doc'.val = doc.val /\ doc'.members = doc.members /\ doc'.lock = doc.lock
  BY <1>1, <1>2 DEF Docs
<1>8. /\ want' \in Docs /\ ~want'.exists
      /\ want'.val = want.val /\ want'.members = want.members /\ want'.lock = want.lock
  BY <1>1, <1>2 DEF Docs
<1> QED BY <1>4, <1>5, <1>6, <1>7, <1>8

LEMMA CallStays ==
  ASSUME CollectionConstants, CallInv, Effect
  PROVE  CallInv'
<1> USE DEF CallInv, TypeInv
<1>1. CASE UNCHANGED <<doc, want, req, audits>>
  BY <1>1 DEF Alike, CallFits
<1>2. ASSUME NEW i \in Reqs, NEW r \in Calls, Sent(i, r)
      PROVE  CallInv'
  BY <1>2 DEF Sent, Alike, CallFits
<1>3. ASSUME NEW i \in Reqs, NEW r \in Calls, Moved(i, r)
      PROVE  CallInv'
  BY <1>3 DEF Moved, SameCall, Alike, CallFits
<1>4. ASSUME NEW i \in Reqs, NEW r \in Calls, Checked(i, r)
      PROVE  CallInv'
  BY <1>4 DEF Checked, SameCall, Alike, CallFits
<1>5. ASSUME NEW i \in Reqs, NEW r \in Calls, Fetched(i, r)
      PROVE  CallInv'
  <2>1. doc.rev <= doc.rev
    BY DEF Docs
  <2> QED BY <1>5, <2>1 DEF Fetched, SameCall, Alike, CallFits
<1>6. ASSUME NEW i \in Reqs, Landed(i)
      PROVE  CallInv'
  <2>1. PICK e \in Calls :
          /\ req' = [req EXCEPT ![i] = e] /\ e.at = "done" /\ e.op = req[i].op
          /\ e.patch = req[i].patch /\ e.edits = req[i].edits
    BY <1>6, LandedEffect
  <2>2. doc' \in Docs /\ want' \in Docs /\ Alike(doc, want)' /\ doc'.rev = doc.rev + 1
        /\ UNCHANGED audits
    BY <1>6, LandedEffect DEF Landed, Alike
  <2>3. req[i] # None
    BY <1>6 DEF Landed
  <2>4. ASSUME NEW k \in Reqs, req'[k] # None
        PROVE  CallFits(req[k])'
    <3>1. CASE k = i
      BY <2>1, <2>3, <3>1 DEF CallFits
    <3>2. CASE k # i
      <4>1. req'[k] = req[k] /\ CallFits(req[k]) /\ doc \in Docs
        BY <2>1, <2>4, <3>2
      <4>2. req[k].read \in Docs => (req[k].read.rev <= doc.rev
              => req[k].read.rev <= doc'.rev /\ req[k].read.rev # doc'.rev)
        BY <2>2, <4>1 DEF Docs
      <4> QED BY <4>1, <4>2 DEF CallFits
    <3> QED BY <3>1, <3>2
  <2> QED BY <2>1, <2>2, <2>4
<1>7. ASSUME NEW i \in Reqs, Destroy(i)
      PROVE  CallInv'
  <2>1. PICK e \in Calls :
          /\ req' = [req EXCEPT ![i] = e] /\ e.at = "done" /\ e.op = req[i].op
          /\ e.patch = req[i].patch /\ e.edits = req[i].edits
    BY <1>7, DestroyEffect
  <2>2. doc' \in Docs /\ want' \in Docs /\ Alike(doc, want)' /\ doc'.rev = doc.rev
        /\ ~doc'.exists
    <3>1. /\ doc' \in Docs /\ doc'.rev = doc.rev /\ ~doc'.exists
          /\ doc'.val = doc.val /\ doc'.members = doc.members /\ doc'.lock = doc.lock
          /\ want' \in Docs /\ ~want'.exists
          /\ want'.val = want.val /\ want'.members = want.members /\ want'.lock = want.lock
      BY <1>7, DestroyEffect
    <3>2. doc'.exists = want'.exists
      BY <3>1 DEF Docs
    <3> QED BY <3>1, <3>2 DEF Alike
  <2>3. audits' \in Nat /\ req[i] # None
    BY <1>7 DEF Destroy, Removed
  <2>4. ASSUME NEW k \in Reqs, req'[k] # None
        PROVE  CallFits(req[k])'
    <3>1. CASE k = i
      BY <2>1, <2>3, <3>1 DEF CallFits
    <3>2. CASE k # i
      BY <2>1, <2>2, <2>4, <3>2 DEF CallFits
    <3> QED BY <3>1, <3>2
  <2> QED BY <2>1, <2>2, <2>3, <2>4
<1> QED BY <1>1, <1>2, <1>3, <1>4, <1>5, <1>6, <1>7 DEF Effect

LEMMA CallStarts ==
  ASSUME CollectionConstants, Init
  PROVE  CallInv
<1>1. New \in Docs
  BY DEF New, Docs, Texts, CollectionConstants
<1> QED BY <1>1 DEF Init, CallInv, TypeInv, Alike

(* The collection is what its writes make of it one after the other, whatever
   the number of consoles, callers and requests and however they interleave. *)
THEOREM UpdatesKept ==
  ASSUME CollectionConstants
  PROVE  Spec => []NoLostUpdate
<1>1. Init => CallInv
  BY CallStarts
<1>2. CallInv /\ [Next]_vars => CallInv'
  BY Effects, CallStays DEF CallInv
<1>3. CallInv => NoLostUpdate
  BY DEF CallInv, Alike, NoLostUpdate
<1> QED BY <1>1, <1>2, <1>3, PTL DEF Spec

(* A save changes only the fields its operator edited, whatever the others
   changed since its panel was read. *)
THEOREM EditsSpared ==
  ASSUME CollectionConstants
  PROVE  Spec => [][OthersKept]_vars
<1>1. Init => CallInv
  BY CallStarts
<1>2. CallInv /\ [Next]_vars => CallInv'
  BY Effects, CallStays DEF CallInv
<1>3. ASSUME CallInv, [Next]_vars
      PROVE  OthersKept
  <2> SUFFICES ASSUME NEW i \in Reqs, req[i] # None, ~req[i].wrote, req'[i].wrote,
                      req[i].op = "patch", NEW f \in Fields \ req[i].edits
               PROVE  doc'.val[f] = doc.val[f]
    BY DEF OthersKept
  <2>1. Effect /\ req[i] \in Calls
    BY <1>3, Effects DEF CallInv, TypeInv
  <2>2. CASE Landed(i)
    <3>1. /\ Alike(doc', Apply(i, req[i].read)) /\ Alike(req[i].read, doc)
      BY <1>3, <2>2, LandedEffect
    <3>2. req[i].patch \in [req[i].edits -> Reqs] /\ req[i].read \in Docs
      BY <1>3, <2>2 DEF CallInv, CallFits, Landed
    <3>3. Apply(i, req[i].read).val[f] = req[i].read.val[f]
      BY <3>2 DEF Apply, Docs
    <3> QED BY <3>1, <3>3 DEF Alike
  <2>3. CASE ~Landed(i)
    <3>1. UNCHANGED req[i] \/ req'[i].wrote = req[i].wrote
      <4>1. ASSUME NEW k \in Reqs, NEW r \in Calls,
                   Sent(k, r) \/ Moved(k, r) \/ Checked(k, r) \/ Fetched(k, r)
            PROVE  UNCHANGED req[i] \/ req'[i].wrote = req[i].wrote
        BY <1>3, <4>1 DEF Sent, Moved, Checked, Fetched, SameCall, CallInv, TypeInv
      <4>2. ASSUME NEW k \in Reqs, Destroy(k)
            PROVE  UNCHANGED req[i] \/ req'[i].wrote = req[i].wrote
        BY <1>3, <4>2, DestroyEffect DEF CallInv, TypeInv
      <4>3. ASSUME NEW k \in Reqs, Landed(k), k # i
            PROVE  UNCHANGED req[i]
        BY <1>3, <4>3, LandedEffect DEF CallInv, TypeInv
      <4> QED BY <2>1, <2>3, <4>1, <4>2, <4>3 DEF Effect
    <3> QED BY <3>1
  <2> QED BY <2>2, <2>3
<1> QED BY <1>1, <1>2, <1>3, PTL DEF Spec

-----------------------------------------------------------------------------
(* With one request at a time, what DELETE checked still holds when it      *)
(* removes.                                                                 *)

LEMMA DeleteStays ==
  ASSUME CollectionConstants, ~Overlap, CallInv, DeleteInv, Effect
  PROVE  DeleteInv'
<1> USE DEF CallInv, TypeInv
<1>1. CASE UNCHANGED <<doc, want, req, audits>>
  BY <1>1 DEF DeleteInv, Solo, Alike, Protected, MemberBlocked, LockedNotDeleted,
              CountConfirmed, Cut
<1>2. ASSUME NEW i \in Reqs, NEW r \in Calls, Sent(i, r)
      PROVE  DeleteInv'
  <2>1. \A k \in Reqs : req'[k] = req[k] \/ (req'[k].at = "sent" /\ req'[k].cut = None)
    BY <1>2 DEF Sent
  <2>2. Solo'
    BY <1>2 DEF Sent, Solo, Quiet
  <2> QED BY <1>2, <2>1, <2>2 DEF DeleteInv, Sent, Alike, Protected, MemberBlocked,
              LockedNotDeleted, CountConfirmed, Cut
<1>3. ASSUME NEW i \in Reqs, NEW r \in Calls, Moved(i, r)
      PROVE  DeleteInv'
  <2>1. Solo'
    BY <1>3 DEF Moved, Solo, DeleteInv
  <2>2. \A k \in Reqs :
          \/ req'[k] = req[k]
          \/ req'[k].at # "checked" /\ req[k] # None /\ req'[k].cut = req[k].cut
             /\ req'[k].n = req[k].n /\ req'[k].force = req[k].force
    BY <1>3 DEF Moved, SameCall
  <2> QED BY <1>3, <2>1, <2>2 DEF DeleteInv, Moved, Alike, Protected, MemberBlocked,
              LockedNotDeleted, CountConfirmed, Cut
<1>4. ASSUME NEW i \in Reqs, NEW r \in Calls, Checked(i, r)
      PROVE  DeleteInv'
  <2>1. Solo'
    BY <1>4 DEF Checked, Solo, DeleteInv
  <2>2. \A k \in Reqs :
          \/ req'[k] = req[k]
          \/ req'[k].read = doc /\ (doc.exists => ~Protected(k) /\ ~MemberBlocked(k))
             /\ req[k] # None /\ req'[k].cut = req[k].cut
             /\ req'[k].n = req[k].n /\ req'[k].force = req[k].force
    BY <1>4 DEF Checked, SameCall
  <2> QED BY <1>4, <2>1, <2>2 DEF DeleteInv, Checked, Alike, Protected, MemberBlocked,
              LockedNotDeleted, CountConfirmed, Cut
<1>5. ASSUME NEW i \in Reqs, NEW r \in Calls, Fetched(i, r)
      PROVE  DeleteInv'
  <2>1. Solo'
    BY <1>5 DEF Fetched, Solo, DeleteInv
  <2>2. \A k \in Reqs :
          \/ req'[k] = req[k]
          \/ req'[k].at # "checked" /\ req[k] # None /\ req'[k].cut = req[k].cut
             /\ req'[k].n = req[k].n /\ req'[k].force = req[k].force
    BY <1>5 DEF Fetched, SameCall
  <2> QED BY <1>5, <2>1, <2>2 DEF DeleteInv, Fetched, Alike, Protected, MemberBlocked,
              LockedNotDeleted, CountConfirmed, Cut
<1>6. ASSUME NEW i \in Reqs, Landed(i)
      PROVE  DeleteInv'
  <2>1. PICK e \in Calls :
          /\ req' = [req EXCEPT ![i] = e]
          /\ e.at = "done" /\ e.n = req[i].n /\ e.force = req[i].force /\ e.cut = req[i].cut
    BY <1>6, LandedEffect
  <2>2. doc.exists /\ doc'.exists /\ UNCHANGED audits /\ req[i] # None /\ req[i].at = "read"
    BY <1>6, LandedEffect DEF Landed
  <2>3. \A k \in Reqs : req'[k] # None => req'[k].at # "checked"
    BY <2>1, <2>2 DEF DeleteInv, Solo
  <2>4. Solo'
    BY <2>1, <2>2 DEF DeleteInv, Solo
  <2>5. LockedNotDeleted' /\ CountConfirmed'
    BY <2>1, <2>2 DEF DeleteInv, LockedNotDeleted, CountConfirmed, Cut
  <2> QED BY <2>2, <2>3, <2>4, <2>5 DEF DeleteInv
<1>7. ASSUME NEW i \in Reqs, Destroy(i)
      PROVE  DeleteInv'
  <2>1. PICK e \in Calls :
          /\ req' = [req EXCEPT ![i] = e]
          /\ e.at = "done" /\ e.n = req[i].n /\ e.force = req[i].force
          /\ e.cut = IF doc.exists THEN [lock |-> doc.lock, n |-> Cardinality(doc.members)]
                     ELSE None
    BY <1>7, DestroyEffect
  <2>2. ~doc'.exists /\ req[i] # None /\ req[i].at = "checked"
    BY <1>7, DestroyEffect DEF Destroy
  <2>3. Alike(req[i].read, doc) /\ (doc.exists => ~Protected(i) /\ ~MemberBlocked(i))
    BY <2>2 DEF DeleteInv
  <2>4. audits' = (IF doc'.exists THEN 0 ELSE 1)
    BY <1>7, <2>2, <2>3 DEF DeleteInv, Destroy, Removed, Alike
  <2>5. \A k \in Reqs : req'[k] # None => req'[k].at # "checked"
    BY <2>1, <2>2 DEF DeleteInv, Solo
  <2>6. Solo'
    BY <2>1, <2>2 DEF DeleteInv, Solo
  <2>7. LockedNotDeleted' /\ CountConfirmed'
    <3> SUFFICES ASSUME NEW k \in Reqs, Cut(k)'
                 PROVE  /\ ~req'[k].cut.lock
                        /\ \/ req'[k].n = req'[k].cut.n
                           \/ req'[k].n = None /\ (req'[k].force \/ req'[k].cut.n = 0)
      BY DEF LockedNotDeleted, CountConfirmed
    <3>1. CASE k # i
      BY <2>1, <3>1 DEF Cut, DeleteInv, LockedNotDeleted, CountConfirmed
    <3>2. CASE k = i
      <4>1. doc.exists /\ e.cut = [lock |-> doc.lock, n |-> Cardinality(doc.members)]
            /\ req'[i] = e
        BY <2>1, <3>2 DEF Cut
      <4>2. ~doc.lock /\ ~MemberBlocked(i)
        BY <2>3, <4>1 DEF Protected
      <4>3. doc.members = {} => Cardinality(doc.members) = 0
        BY FS_EmptySet
      <4> QED BY <2>1, <3>2, <4>1, <4>2, <4>3 DEF MemberBlocked
    <3> QED BY <3>1, <3>2
  <2> QED BY <2>4, <2>5, <2>6, <2>7 DEF DeleteInv
<1> QED BY <1>1, <1>2, <1>3, <1>4, <1>5, <1>6, <1>7 DEF Effect

(* A locked collection is not deleted, one with members only when forced or
   when the confirmed count is the number it has, and the one deletion leaves
   one audit entry: so long as no request is sent while another is under way. *)
THEOREM DeletionsChecked ==
  ASSUME CollectionConstants, ~Overlap
  PROVE  Spec => [](LockedNotDeleted /\ CountConfirmed /\ OneDeletionEntry)
<1>1. Init => CallInv /\ DeleteInv
  <2> SUFFICES ASSUME Init PROVE CallInv /\ DeleteInv
    OBVIOUS
  <2>1. CallInv
    BY CallStarts
  <2>2. (\A i \in Reqs : req[i] = None) /\ audits = 0 /\ doc.exists
    BY DEF Init, New
  <2> QED BY <2>1, <2>2 DEF DeleteInv, Solo, LockedNotDeleted, CountConfirmed, Cut
<1>2. CallInv /\ DeleteInv /\ [Next]_vars => (CallInv /\ DeleteInv)'
  BY Effects, CallStays, DeleteStays DEF CallInv
<1>3. DeleteInv => LockedNotDeleted /\ CountConfirmed /\ OneDeletionEntry
  BY DEF DeleteInv, OneDeletionEntry
<1> QED BY <1>1, <1>2, <1>3, PTL DEF Spec

-----------------------------------------------------------------------------
(* The dialogs.                                                             *)

LEMMA CallsKept ==
  ASSUME CollectionConstants, CallInv, Effect
  PROVE  \A k \in Reqs : req[k] # None => req'[k] # None /\ req'[k].c = req[k].c
<1> USE DEF CallInv, TypeInv
<1>1. CASE UNCHANGED <<doc, want, req, audits>>
  BY <1>1
<1>2. ASSUME NEW i \in Reqs, NEW r \in Calls,
             Sent(i, r) \/ Moved(i, r) \/ Checked(i, r) \/ Fetched(i, r)
      PROVE  \A k \in Reqs : req[k] # None => req'[k] # None /\ req'[k].c = req[k].c
  BY <1>2 DEF Sent, Moved, Checked, Fetched, SameCall, CollectionConstants
<1>3. ASSUME NEW i \in Reqs, Landed(i) \/ Destroy(i)
      PROVE  \A k \in Reqs : req[k] # None => req'[k] # None /\ req'[k].c = req[k].c
  <2>1. \E e \in Calls : req' = [req EXCEPT ![i] = e] /\ e.c = req[i].c
    BY <1>3, LandedEffect, DestroyEffect
  <2> QED BY <2>1 DEF CollectionConstants
<1> QED BY <1>1, <1>2, <1>3 DEF Effect

\* A panel whose dialog, if it waits, waits for a request of console c.
Waits(c, p) ==
  p.dlg # None /\ p.dlg.busy # None =>
    /\ req[p.dlg.busy] # None /\ req[p.dlg.busy].c = c
    /\ req[p.dlg.busy].at \notin {"redraw", "ended"}

LEMMA DialogStays ==
  ASSUME CollectionConstants, CallInv, DialogInv, [Next]_vars
  PROVE  DialogInv'
<1>1. \A k \in Reqs : req[k] # None => req'[k] # None /\ req'[k].c = req[k].c
  BY Effects, CallsKept DEF CallInv
<1>2. \A c \in Consoles : con[c] \in Panels /\ Waits(c, con[c])
  BY DEF DialogInv, Waits
<1>3. \A p \in Panels : p.dlg # None => p.dlg.busy \in Reqs \cup {None}
  BY DEF Panels, Dialogs
<1>4. ASSUME NEW c \in Consoles, lost' = lost, con' \in [Consoles -> Panels],
             \A d \in Consoles : d # c => con'[d] = con[d],
             con'[c].dlg # None /\ con'[c].dlg.busy # None =>
               /\ req'[con'[c].dlg.busy] # None /\ req'[con'[c].dlg.busy].c = c
               /\ req'[con'[c].dlg.busy].at \notin {"redraw", "ended"},
             \A k \in Reqs : req[k] # None /\ req[k].c # c => req'[k].at = req[k].at
      PROVE  DialogInv'
  <2>1. ASSUME NEW d \in Consoles
        PROVE  Waits(d, con[d])'
    <3>1. CASE d = c
      BY <1>4, <3>1 DEF Waits
    <3>2. CASE d # c
      BY <1>1, <1>2, <1>3, <1>4, <3>2 DEF DialogInv, Waits
    <3> QED BY <3>1, <3>2
  <2> QED BY <1>4, <2>1 DEF DialogInv, Waits
<1>5. ASSUME con' = con, lost' \in 0..MaxLost,
             \A k \in Reqs : req[k] # None =>
               \/ req'[k].at = req[k].at
               \/ req'[k].at \notin {"redraw", "ended"}
               \/ req[k].at = "redraw"
               \/ req[k].c = None
      PROVE  DialogInv'
  <2>1. con' \in [Consoles -> Panels]
    BY <1>5 DEF DialogInv
  <2>2. ASSUME NEW d \in Consoles
        PROVE  Waits(d, con[d])'
    <3> SUFFICES ASSUME con[d].dlg # None, con[d].dlg.busy # None
                 PROVE  /\ req'[con[d].dlg.busy] # None /\ req'[con[d].dlg.busy].c = d
                        /\ req'[con[d].dlg.busy].at \notin {"redraw", "ended"}
      BY <1>5 DEF Waits
    <3>1. PICK k \in Reqs : k = con[d].dlg.busy
      BY <1>2, <1>3
    <3>2. req[k] # None /\ req[k].c = d /\ req[k].at \notin {"redraw", "ended"}
      BY <1>2, <3>1 DEF Waits
    <3> QED BY <1>1, <1>5, <3>1, <3>2 DEF CollectionConstants
  <2> QED BY <1>5, <2>1, <2>2 DEF DialogInv, Waits
<1> USE DEF CallInv, TypeInv
<1>6. ASSUME NEW c \in Consoles, Mount(c)
      PROVE  DialogInv'
  <2> DEFINE p == Built(c, None)
  <2>1. con' = [con EXCEPT ![c] = p] /\ UNCHANGED <<req, lost>> /\ con[c].dlg = None
    BY <1>6 DEF Mount
  <2>2. p \in Panels /\ p.dlg = None
    BY <1>2, <2>1 DEF Built, Panels, Docs
  <2> HIDE DEF p
  <2> QED BY <1>4, <2>1, <2>2 DEF DialogInv
<1>7. ASSUME NEW c \in Consoles, Open(c)
      PROVE  DialogInv'
  <2> DEFINE x == [base |-> con[c].view, busy |-> None, err |-> None]
             p == [con[c] EXCEPT !.dlg = x]
  <2>1. con' = [con EXCEPT ![c] = p] /\ UNCHANGED <<req, lost>>
    BY <1>7 DEF Open, DialogInv
  <2>2. x \in Dialogs /\ x.busy = None
    BY <1>2 DEF Dialogs, Panels
  <2> HIDE DEF x
  <2>3. p \in Panels /\ p.dlg = x
    BY <1>2, <2>2 DEF Panels
  <2> HIDE DEF p
  <2> QED BY <1>4, <2>1, <2>2, <2>3 DEF DialogInv
<1>8. ASSUME NEW c \in Consoles, Close(c)
      PROVE  DialogInv'
  <2> DEFINE p == [con[c] EXCEPT !.dlg = None]
  <2>1. con' = [con EXCEPT ![c] = p] /\ UNCHANGED <<req, lost>>
    BY <1>8 DEF Close, DialogInv
  <2>2. p \in Panels /\ p.dlg = None
    BY <1>2 DEF Panels
  <2> HIDE DEF p
  <2> QED BY <1>4, <2>1, <2>2 DEF DialogInv
<1>9. ASSUME NEW c \in Consoles, Demote(c)
      PROVE  DialogInv'
  BY <1>5, <1>9 DEF Demote, DialogInv
<1>10. ASSUME NEW c \in Consoles, NEW i \in Reqs, NEW edits \in (SUBSET Fields) \ {{}},
              Submit(c, i, edits)
       PROVE  DialogInv'
  <2> DEFINE x == [con[c].dlg EXCEPT !.busy = i, !.err = None]
             p == [con[c] EXCEPT !.dlg = x]
  <2>1. UNCHANGED lost /\ con[c].dlg \in Dialogs
    BY <1>2, <1>10 DEF Submit, Panels
  <2>2. con' = [con EXCEPT ![c] = p]
    BY <1>2, <1>10, <2>1 DEF Submit, DialogInv, Panels, Dialogs
  <2>3. x \in Dialogs /\ x.busy = i
    BY <2>1 DEF Dialogs
  <2> HIDE DEF x
  <2>4. p \in Panels /\ p.dlg = x
    BY <1>2, <2>3 DEF Panels
  <2> HIDE DEF p
  <2>5. PICK r \in Calls : r.c = c /\ r.at = "sent" /\ req[i] = None /\ req' = [req EXCEPT ![i] = r]
    <3>1. PICK q \in Calls, b \in [edits -> Reqs] :
            /\ q.c = c /\ q.at = "sent" /\ req[i] = None
            /\ req' = [req EXCEPT ![i] = [q EXCEPT !.patch = b, !.edits = edits]]
      <4> DEFINE q == Request(c, "patch")
                 b == collectionEditPatchBody(i, con[c].dlg.base, edits)
      <4>1. q \in Calls /\ q.c = c /\ q.at = "sent"
        BY Asking DEF Operations
      <4>2. b \in [edits -> Reqs]
        BY DEF collectionEditPatchBody
      <4>3. req[i] = None /\ req' = [req EXCEPT ![i] = [q EXCEPT !.patch = b, !.edits = edits]]
        BY <1>10 DEF Submit, Send
      <4> HIDE DEF q, b
      <4> QED BY <4>1, <4>2, <4>3
    <3> DEFINE r == [q EXCEPT !.patch = b, !.edits = edits]
    <3>2. b \in Patches
      BY DEF Patches
    <3>3. r \in Calls /\ r.c = c /\ r.at = "sent"
      BY <3>1, <3>2, ZenonT(30) DEF Calls
    <3> QED BY <3>1, <3>3
  <2>6. /\ req'[i] # None /\ req'[i].c = c /\ req'[i].at = "sent"
        /\ \A k \in Reqs : req[k] # None => req'[k] = req[k]
    BY <2>5 DEF CollectionConstants
  <2> QED BY <1>4, <2>1, <2>2, <2>3, <2>4, <2>6 DEF DialogInv
<1>11. ASSUME NEW i \in Reqs, AskAny(i)
       PROVE  DialogInv'
  <2>1. UNCHANGED <<con, lost>> /\ \A k \in Reqs : req[k] # None => req'[k] = req[k]
    BY <1>11 DEF AskAny, Ask, Send
  <2> QED BY <1>5, <2>1 DEF DialogInv
<1>12. ASSUME NEW i \in Reqs, CheckDelete(i) \/ Destroy(i) \/ Read(i) \/ Write(i) \/ Lose(i)
       PROVE  DialogInv'
  <2>1. con' = con /\ lost' \in 0..MaxLost
    BY <1>12 DEF CheckDelete, Destroy, Read, Write, Lose, DialogInv, CollectionConstants
  <2>2. req[i] \in Calls
    BY <1>12 DEF CheckDelete, Destroy, Read, Write, Lose
  <2>3. \A k \in Reqs \ {i} : req'[k] = req[k]
    BY <1>12 DEF CheckDelete, Destroy, Read, Write, Lose, Answered, Removed, Stored
  <2>4. req'[i].at \in {"sent", "checked", "read", "done"}
    <3>1. CASE CheckDelete(i)
      BY <2>2, <3>1 DEF CheckDelete, Answered, Calls
    <3>2. CASE Destroy(i)
      BY <2>2, <3>2 DEF Destroy, Removed, Calls
    <3>3. CASE Read(i)
      BY <2>2, <3>3 DEF Read, Answered, Calls
    <3>4. CASE Write(i)
      BY <2>2, <3>4 DEF Write, Answered, Stored, Calls
    <3>5. CASE Lose(i)
      BY <2>2, <3>5 DEF Lose, Answered, Calls
    <3> QED BY <1>12, <3>1, <3>2, <3>3, <3>4, <3>5
  <2> QED BY <1>5, <2>1, <2>3, <2>4
<1>13. ASSUME NEW i \in Reqs, Done(i)
       PROVE  DialogInv'
  <2>1. PICK c \in Consoles : c = req[i].c
    BY <1>13 DEF Done, Calls
  <2>2. req[i] \in Calls /\ req[i].at = "done" /\ UNCHANGED lost
    BY <1>13 DEF Done
  <2>3. \A k \in Reqs : k # i => req'[k] = req[k]
    BY <1>13 DEF Done
  <2>4. CASE Kind(req[i].ans) \in {"ok", "not-found"}
    <3> DEFINE y == IF Mine(c, i) THEN None ELSE con[c].dlg
               p == [con[c] EXCEPT !.dlg = y]
    <3>1. con' = [con EXCEPT ![c] = p]
      BY <1>13, <2>1, <2>4 DEF Done, DialogInv
    <3>2. y \in Dialogs \cup {None} /\ (Mine(c, i) => y = None) /\ (~Mine(c, i) => y = con[c].dlg)
      BY <1>2 DEF Panels
    <3> HIDE DEF y
    <3>3. p \in Panels /\ p.dlg = y
      BY <1>2, <3>2 DEF Panels
    <3> HIDE DEF p
    <3>4. y # None /\ y.busy # None =>
            req'[y.busy] # None /\ req'[y.busy].c = c /\ req'[y.busy].at \notin {"redraw", "ended"}
      BY <1>2, <1>3, <2>3, <3>2 DEF Waits, Mine
    <3> QED BY <1>4, <2>1, <2>2, <2>3, <3>1, <3>3, <3>4 DEF DialogInv
  <2>5. CASE Kind(req[i].ans) \notin {"ok", "not-found"}
    <3> DEFINE o == [kind |-> Kind(req[i].ans), req |-> i]
               x == [con[c].dlg EXCEPT !.busy = None, !.err = o]
               y == IF Mine(c, i) THEN x ELSE con[c].dlg
               b == con[c].on /\ Kind(req[i].ans) # "forbidden"
               p == [con[c] EXCEPT !.on = b, !.dlg = y]
    <3>1. con' = [con EXCEPT ![c] = p]
      BY <1>13, <2>1, <2>5 DEF Done, DialogInv
    <3>2. o \in Outcomes
      BY DEF Outcomes, Kind
    <3> HIDE DEF o
    <3>3. Mine(c, i) => x \in Dialogs /\ x.busy = None
      BY <1>2, <3>2 DEF Mine, Panels, Dialogs
    <3> HIDE DEF x
    <3>4. /\ y \in Dialogs \cup {None} /\ (Mine(c, i) => y = x) /\ (~Mine(c, i) => y = con[c].dlg)
          /\ b \in BOOLEAN
      BY <1>2, <3>3 DEF Panels
    <3> HIDE DEF y, b
    <3>5. p \in Panels /\ p.dlg = y
      BY <1>2, <3>4 DEF Panels
    <3> HIDE DEF p
    <3>6. y # None /\ y.busy # None =>
            req'[y.busy] # None /\ req'[y.busy].c = c /\ req'[y.busy].at \notin {"redraw", "ended"}
      BY <1>2, <1>3, <2>3, <3>3, <3>4 DEF Waits, Mine
    <3> QED BY <1>4, <2>1, <2>2, <2>3, <3>1, <3>5, <3>6 DEF DialogInv
  <2> QED BY <2>4, <2>5
<1>14. ASSUME NEW i \in Reqs, Redraw(i)
       PROVE  DialogInv'
  <2>1. req[i] \in Calls /\ req[i].at = "redraw" /\ UNCHANGED lost
        /\ \A k \in Reqs : k # i => req'[k] = req[k]
    BY <1>14 DEF Redraw
  <2>2. CASE req[i].c = None
    <3>1. con' = con
      BY <1>14, <2>2 DEF Redraw, DialogInv, CollectionConstants
    <3> QED BY <1>5, <2>1, <2>2, <3>1 DEF DialogInv
  <2>3. CASE req[i].c # None
    <3>1. PICK c \in Consoles : c = req[i].c
      BY <2>1, <2>3 DEF Calls
    <3> DEFINE o == [kind |-> Kind(req[i].ans), req |-> i]
               p == Built(c, o)
    <3>2. con' = [con EXCEPT ![c] = p]
      BY <1>14, <3>1 DEF Redraw
    <3>3. o \in Outcomes
      BY DEF Outcomes, Kind
    <3> HIDE DEF o
    <3>4. p \in Panels /\ p.dlg = con[c].dlg
      BY <1>2, <3>3 DEF Built, Panels, Docs
    <3> HIDE DEF p
    <3>5. p.dlg # None /\ p.dlg.busy # None =>
            /\ req'[p.dlg.busy] # None /\ req'[p.dlg.busy].c = c
            /\ req'[p.dlg.busy].at \notin {"redraw", "ended"}
      BY <1>2, <1>3, <2>1, <3>4 DEF Waits
    <3> QED BY <1>4, <2>1, <3>1, <3>2, <3>4, <3>5, ZenonT(30) DEF DialogInv
  <2> QED BY <2>2, <2>3
<1>15. ASSUME NEW i \in Reqs, Told(i)
       PROVE  DialogInv'
  <2>1. UNCHANGED <<con, lost>> /\ req[i].c = None /\ \A k \in Reqs \ {i} : req'[k] = req[k]
    BY <1>15 DEF Told
  <2> QED BY <1>5, <2>1 DEF DialogInv
<1>16. CASE UNCHANGED vars
  BY <1>5, <1>16 DEF vars, DialogInv
<1> QED BY <1>6, <1>7, <1>8, <1>9, <1>10, <1>11, <1>12, <1>13, <1>14, <1>15, <1>16 DEF Next

(* Members exist, fields hold texts that were sent, and a dialog whose Save is
   disabled waits for a request of its own that is under way. *)
THEOREM DialogsOwn ==
  ASSUME CollectionConstants
  PROVE  Spec => []TypeOK
<1>1. Init => CallInv /\ DialogInv
  <2> SUFFICES ASSUME Init PROVE CallInv /\ DialogInv
    OBVIOUS
  <2>1. Blank \in Panels /\ Blank.dlg = None
    BY DEF Blank, Panels
  <2>2. con = [c \in Consoles |-> Blank] /\ lost \in 0..MaxLost
    BY DEF Init, CollectionConstants
  <2> HIDE DEF Blank
  <2> QED BY <2>1, <2>2, CallStarts DEF DialogInv
<1>2. CallInv /\ DialogInv /\ [Next]_vars => (CallInv /\ DialogInv)'
  BY Effects, CallStays, DialogStays DEF CallInv
<1>3. CallInv /\ DialogInv => TypeOK
  BY DEF CallInv, TypeInv, DialogInv, TypeOK, Docs, Texts
<1> QED BY <1>1, <1>2, <1>3, PTL DEF Spec

==============================================================================
