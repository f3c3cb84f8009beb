------------------------- MODULE AssetLifecycleProofs -------------------------
(***************************************************************************)
(* What holds of asset documents for every set of assets, requests and     *)
(* operations, proved with TLAPS.  Everything rests on one fact: a put     *)
(* lands only on the revision its request read, so what the request        *)
(* decided on is still what it replaces, whoever wrote in between.         *)
(***************************************************************************)
EXTENDS AssetLifecycle, FiniteSetTheorems, TLAPS

\* What the proofs ask of the constants.
AssetConstants ==
    /\ Parent \in [Assets -> Assets \cup {None}] /\ None \notin Assets
    /\ Sweeper \notin Requests
    /\ MaxRev \in Nat /\ MaxAttempts \in Nat \ {0}

Kinds == {"absent", "asset", "tombstone"}
Docs == [kind : Kinds, status : Statuses, from : Statuses, review : Reviews,
         locked : BOOLEAN, key : Assets \cup {None}, aged : BOOLEAN,
         rev : 0 .. MaxRev + 1]

Operations ==
    {"create", "delete", "purge", "patch", "review", "lock", "repoint", "restore"}
Args == Statuses \cup Reviews \cup BOOLEAN \cup Assets \cup {None}
Calls == [at : {"read", "objects", "put"}, op : Operations, a : Assets, arg : Args,
          tries : 1 .. MaxAttempts, seen : Docs]
Slots == Requests \cup {Sweeper}

\* The argument of a call is of the kind its operation takes.
ArgFits(q) ==
    /\ q.op \in {"patch", "delete"} => q.arg \in Statuses
    /\ q.op = "review" => q.arg \in Reviews
    /\ q.op = "lock" => q.arg \in BOOLEAN
    /\ q.op \in {"create", "repoint"} => q.arg \in Assets

\* d and e differ at most in their age, which no write of a client changes.
Same(d, e) ==
    /\ d.kind = e.kind /\ d.status = e.status /\ d.from = e.from
    /\ d.review = e.review /\ d.locked = e.locked /\ d.key = e.key

TypeInv ==
    /\ doc \in [Assets -> Docs]
    /\ bytes \in SUBSET Assets /\ active \in SUBSET Assets
    /\ req \in [Slots -> Calls \cup {Free}]
    /\ sweep \in [todo : SUBSET (Assets \X Docs), purged : SUBSET Assets]

\* A call about to be written was accepted on what it read; its document has
\* moved on to a higher revision or is what was read.
Holds(q, d) ==
    /\ Accepts(q, q.seen)
    /\ q.seen.rev <= d.rev
    /\ q.seen.rev = d.rev => Same(q.seen, d)

\* Only the tombstone of a purge goes beyond the bound on client writes.
RevInv == \A a \in Assets : doc[a].kind # "tombstone" => doc[a].rev <= MaxRev
ArgInv == \A r \in Slots : req[r].at # "idle" => ArgFits(req[r])
HoldInv == \A r \in Slots : req[r].at = "put" => Holds(req[r], doc[req[r].a])
SweeperInv == \A r \in Slots \ Requests : req[r].at # "idle" => req[r].op = "purge"
DocInv == TypeInv /\ RevInv /\ ArgInv /\ HoldInv /\ SweeperInv

\* A call as a client's request starts it.
Asked(q) ==
    /\ q.op \in Ops /\ ArgFits(q)
    /\ q.op = "purge" => q.at = "objects" /\ q.seen = doc[q.a] /\ PurgeAdmitted(q.a)
    /\ q.op # "purge" => q.at = "read"
    /\ q.op = "create" =>
         /\ doc[q.a].kind = "absent"
         /\ Parent[q.a] # None => Live(Parent[q.a])
         /\ "repoint" \notin Ops => q.arg = q.a

-----------------------------------------------------------------------------
(* Documents and calls.                                                    *)

LEMMA Documents ==
  ASSUME AssetConstants
  PROVE  /\ NoDoc \in Docs /\ NoDoc.kind = "absent" /\ NoDoc.rev = 0
         /\ Tombstone \in Docs
         /\ \A k \in Assets : NewDoc(k) \in Docs
         /\ Free.at = "idle"
<1>1. NoDoc \in Docs /\ NoDoc.kind = "absent" /\ NoDoc.rev = 0
  BY DEF AssetConstants, NoDoc, Docs, Kinds, Statuses, Reviews
<1>2. Tombstone \in Docs
  BY <1>1 DEF Tombstone, Docs, Kinds
<1>3. ASSUME NEW k \in Assets
      PROVE  NewDoc(k) \in Docs
  BY <1>1 DEF NewDoc, Docs, Kinds
<1> QED BY <1>1, <1>2, <1>3 DEF Free

LEMMA Asking ==
  ASSUME AssetConstants, NEW op \in Operations, NEW a \in Assets, NEW arg \in Args
  PROVE  /\ Asks(op, a, arg) \in Calls
         /\ Asks(op, a, arg).at = "read" /\ Asks(op, a, arg).op = op
         /\ Asks(op, a, arg).arg = arg /\ Asks(op, a, arg).a = a
  BY Documents DEF AssetConstants, Asks, Calls

\* A call that has read d; a call that goes straight to the objects of d.
LEMMA Reading ==
  ASSUME AssetConstants, NEW q \in Calls, NEW d \in Docs,
         NEW at \in {"read", "objects", "put"}
  PROVE  LET e == [q EXCEPT !.at = at, !.seen = d]
         IN  /\ e \in Calls /\ e.at = at /\ e.seen = d /\ e.op = q.op
             /\ e.arg = q.arg /\ e.a = q.a /\ e.tries = q.tries
  BY DEF Calls

LEMMA Moving ==
  ASSUME AssetConstants, NEW q \in Calls
  PROVE  LET e == [q EXCEPT !.at = "read"]
         IN  /\ e \in Calls /\ e.at = "read" /\ e.op = q.op /\ e.arg = q.arg
             /\ e.a = q.a /\ e.seen = q.seen
  BY DEF Calls

LEMMA Retrying ==
  ASSUME AssetConstants, NEW q \in Calls, q.tries < MaxAttempts
  PROVE  LET e == [q EXCEPT !.at = "read", !.tries = @ + 1]
         IN  /\ e \in Calls /\ e.at = "read" /\ e.op = q.op /\ e.arg = q.arg
             /\ e.a = q.a
<1>1. q.tries + 1 \in 1 .. MaxAttempts
  BY DEF Calls, AssetConstants
<1> QED BY <1>1 DEF Calls

LEMMA Calling ==
  ASSUME AssetConstants, NEW q \in Calls \cup {Free}
  PROVE  /\ q.at # "idle" => /\ q \in Calls /\ q.a \in Assets /\ q.op \in Operations
                             /\ q.seen \in Docs /\ q.tries \in 1 .. MaxAttempts
                             /\ q.arg \in Args
         /\ q.at \in {"idle", "read", "objects", "put"}
  BY DEF Calls, Free

(* What a write leaves of what was read is a document. *)
LEMMA Applying ==
  ASSUME AssetConstants, NEW q \in Calls, ArgFits(q), NEW n \in 0 .. MaxRev + 1
  PROVE  LET e == Apply(q.op, q.arg, q.seen)
         IN  /\ e \in Docs /\ [e EXCEPT !.rev = n] \in Docs
             /\ [e EXCEPT !.rev = n].rev = n
             /\ [e EXCEPT !.rev = n].kind = e.kind
             /\ [e EXCEPT !.rev = n].status = e.status
             /\ [e EXCEPT !.rev = n].review = e.review
             /\ [e EXCEPT !.rev = n].locked = e.locked
             /\ [e EXCEPT !.rev = n].key = e.key
             /\ (e.kind = "tombstone") <=> (q.op = "purge" \/ (q.op # "create" /\ q.seen.kind = "tombstone"))
<1> DEFINE d == q.seen
           e == Apply(q.op, q.arg, d)
<1>1. d \in Docs /\ q.op \in Operations
  BY DEF Calls
<1>2. d.kind \in Kinds /\ d.status \in Statuses /\ d.from \in Statuses
  BY <1>1 DEF Docs
<1>3. e \in Docs /\ ((e.kind = "tombstone") <=> (q.op = "purge" \/ (q.op # "create" /\ d.kind = "tombstone")))
  <2>1. CASE q.op \in {"patch", "delete"}
    <3>1. e = ApplyStatus(d, q.arg)
      BY <2>1 DEF Apply
    <3>2. q.arg \in Statuses
      BY <2>1 DEF ArgFits
    <3> QED BY <3>1, <3>2, <1>1, <1>2, <2>1 DEF ApplyStatus, Docs
  <2>2. CASE q.op = "review"
    BY <2>2, <1>1 DEF Apply, Docs, ArgFits
  <2>3. CASE q.op = "lock"
    BY <2>3, <1>1 DEF Apply, Docs, ArgFits
  <2>4. CASE q.op = "repoint"
    BY <2>4, <1>1 DEF Apply, Docs, ArgFits
  <2>5. CASE q.op = "restore"
    <3>1. e = ApplyRestore(d)
      BY <2>5 DEF Apply
    <3>2. PICK st \in Statuses : e = [d EXCEPT !.status = st, !.aged = FALSE]
      BY <3>1, <1>2 DEF ApplyRestore, Statuses
    <3> HIDE DEF e
    <3> QED BY <3>2, <1>1, <1>2, <2>5 DEF Docs
  <2>6. CASE q.op = "purge"
    BY <2>6, <1>1, Documents DEF Apply, Tombstone, NoDoc
  <2>7. CASE q.op = "create"
    BY <2>7, <1>1, Documents DEF Apply, NewDoc, NoDoc, ArgFits
  <2> QED BY <1>1, <2>1, <2>2, <2>3, <2>4, <2>5, <2>6, <2>7 DEF Operations
<1> HIDE DEF e
<1>4. /\ [e EXCEPT !.rev = n] \in Docs /\ [e EXCEPT !.rev = n].rev = n
      /\ [e EXCEPT !.rev = n].kind = e.kind
      /\ [e EXCEPT !.rev = n].status = e.status
      /\ [e EXCEPT !.rev = n].review = e.review
      /\ [e EXCEPT !.rev = n].locked = e.locked
      /\ [e EXCEPT !.rev = n].key = e.key
  BY <1>3 DEF Docs
<1> QED BY <1>3, <1>4 DEF e

-----------------------------------------------------------------------------
(* What each step does to the calls in flight.                             *)

LEMMA AskEffect ==
  ASSUME AssetConstants, DocInv, NEW r \in Requests, Ask(r)
  PROVE  /\ \E q \in Calls : Asked(q) /\ req' = [req EXCEPT ![r] = q]
         /\ req[r].at = "idle" /\ Quiet
         /\ UNCHANGED <<doc, bytes, active, sweep>>
<1> SUFFICES \E q \in Calls : Asked(q) /\ req' = [req EXCEPT ![r] = q]
  BY DEF Ask
<1>0. "archived" \in Args /\ "archived" \in Statuses /\ None \in Args
      /\ Statuses \subseteq Args /\ Reviews \subseteq Args /\ BOOLEAN \subseteq Args
      /\ Assets \subseteq Args
  BY DEF Args, Statuses
<1>1. PICK a \in Assets :
         \/ \E k \in IF "repoint" \in Ops THEN Assets ELSE {a} : "create" \in Ops /\ Create(r, a, k)
         \/ "delete" \in Ops /\ Delete(r, a)
         \/ "purge" \in Ops /\ Purge(r, a)
         \/ \E s \in Statuses : "patch" \in Ops /\ Simple(r, "patch", a, s)
         \/ \E s \in Reviews : "review" \in Ops /\ Simple(r, "review", a, s)
         \/ \E b \in BOOLEAN : "lock" \in Ops /\ Simple(r, "lock", a, b)
         \/ \E k \in Assets : "repoint" \in Ops /\ Simple(r, "repoint", a, k)
         \/ "restore" \in Ops /\ Simple(r, "restore", a, None)
  BY DEF Ask
<1>2. ASSUME NEW op \in Operations, op \in Ops, NEW arg \in Args,
             req' = [req EXCEPT ![r] = Asks(op, a, arg)],
             op # "purge", ArgFits(Asks(op, a, arg)),
             op = "create" =>
               /\ doc[a].kind = "absent" /\ (Parent[a] # None => Live(Parent[a]))
               /\ "repoint" \notin Ops => arg = a
      PROVE  \E q \in Calls : Asked(q) /\ req' = [req EXCEPT ![r] = q]
  <2> DEFINE q == Asks(op, a, arg)
  <2>1. q \in Calls /\ q.at = "read" /\ q.op = op /\ q.arg = arg /\ q.a = a
    BY Asking, <1>2
  <2>2. ArgFits(q) /\ req' = [req EXCEPT ![r] = q]
    BY <1>2
  <2> HIDE DEF q
  <2>3. Asked(q)
    BY <1>2, <2>1, <2>2 DEF Asked
  <2> QED BY <2>1, <2>2, <2>3
<1>3. CASE \E k \in IF "repoint" \in Ops THEN Assets ELSE {a} : "create" \in Ops /\ Create(r, a, k)
  <2>1. PICK k \in IF "repoint" \in Ops THEN Assets ELSE {a} : "create" \in Ops /\ Create(r, a, k)
    BY <1>3
  <2>2. k \in Assets /\ k \in Args /\ ("repoint" \notin Ops => k = a)
    BY <1>0
  <2>3. ArgFits(Asks("create", a, k))
    BY <2>2, Asking DEF ArgFits, Operations
  <2>4. req' = [req EXCEPT ![r] = Asks("create", a, k)] /\ doc[a].kind = "absent"
        /\ (Parent[a] # None => Live(Parent[a]))
    BY <2>1 DEF Create
  <2> QED BY <1>2, <2>1, <2>2, <2>3, <2>4 DEF Operations
<1>4. CASE "delete" \in Ops /\ Delete(r, a)
  <2>1. ArgFits(Asks("delete", a, "archived"))
    BY <1>0, Asking DEF ArgFits, Operations
  <2> QED BY <1>0, <1>2, <1>4, <2>1 DEF Delete, Operations
<1>5. CASE "purge" \in Ops /\ Purge(r, a)
  <2> DEFINE p == Asks("purge", a, None)
             q == [p EXCEPT !.at = "objects", !.seen = doc[a]]
  <2>1. p \in Calls /\ p.op = "purge" /\ p.a = a /\ doc[a] \in Docs
    BY <1>0, Asking DEF Operations, DocInv, TypeInv
  <2>2. PurgeAdmitted(a) /\ req' = [req EXCEPT ![r] = q]
    BY <1>5 DEF Purge
  <2> HIDE DEF p
  <2>3. q \in Calls /\ q.at = "objects" /\ q.op = "purge" /\ q.a = a /\ q.seen = doc[a]
    BY <2>1 DEF Calls
  <2> HIDE DEF q
  <2>4. Asked(q)
    BY <2>2, <2>3, <1>5 DEF Asked, ArgFits
  <2> QED BY <2>2, <2>3, <2>4
<1>6. CASE \E s \in Statuses : "patch" \in Ops /\ Simple(r, "patch", a, s)
  <2>1. PICK s \in Statuses : "patch" \in Ops /\ Simple(r, "patch", a, s)
    BY <1>6
  <2>2. ArgFits(Asks("patch", a, s))
    BY <1>0, Asking DEF ArgFits, Operations
  <2> QED BY <1>0, <1>2, <2>1, <2>2 DEF Simple, Operations
<1>7. CASE \E s \in Reviews : "review" \in Ops /\ Simple(r, "review", a, s)
  <2>1. PICK s \in Reviews : "review" \in Ops /\ Simple(r, "review", a, s)
    BY <1>7
  <2>2. ArgFits(Asks("review", a, s))
    BY <1>0, Asking DEF ArgFits, Operations
  <2> QED BY <1>0, <1>2, <2>1, <2>2 DEF Simple, Operations
<1>8. CASE \E b \in BOOLEAN : "lock" \in Ops /\ Simple(r, "lock", a, b)
  <2>1. PICK b \in BOOLEAN : "lock" \in Ops /\ Simple(r, "lock", a, b)
    BY <1>8
  <2>2. ArgFits(Asks("lock", a, b))
    BY <1>0, Asking DEF ArgFits, Operations
  <2> QED BY <1>0, <1>2, <2>1, <2>2 DEF Simple, Operations
<1>9. CASE \E k \in Assets : "repoint" \in Ops /\ Simple(r, "repoint", a, k)
  <2>1. PICK k \in Assets : "repoint" \in Ops /\ Simple(r, "repoint", a, k)
    BY <1>9
  <2>2. ArgFits(Asks("repoint", a, k))
    BY <1>0, Asking DEF ArgFits, Operations
  <2> QED BY <1>0, <1>2, <2>1, <2>2 DEF Simple, Operations
<1>10. CASE "restore" \in Ops /\ Simple(r, "restore", a, None)
  <2>1. ArgFits(Asks("restore", a, None))
    BY <1>0, Asking DEF ArgFits, Operations
  <2> QED BY <1>0, <1>2, <1>10, <2>1 DEF Simple, Operations
<1> QED BY <1>1, <1>3, <1>4, <1>5, <1>6, <1>7, <1>8, <1>9, <1>10

(* A step that only sets one slot keeps the invariant if the slot's new    *)
(* value does.                                                             *)
LEMMA SlotSet ==
  ASSUME AssetConstants, DocInv, NEW r \in Slots, NEW q \in Calls \cup {Free},
         req' = [req EXCEPT ![r] = q], doc' = doc,
         bytes' \in SUBSET Assets, active' \in SUBSET Assets,
         sweep' \in [todo : SUBSET (Assets \X Docs), purged : SUBSET Assets],
         q.at # "idle" => ArgFits(q),
         q.at = "put" => Holds(q, doc[q.a]),
         r \notin Requests /\ q.at # "idle" => q.op = "purge"
  PROVE  DocInv'
<1>1. \A s \in Slots : req'[s] = IF s = r THEN q ELSE req[s]
  BY DEF DocInv, TypeInv
<1>2. TypeInv' /\ RevInv'
  BY DEF DocInv, TypeInv, RevInv
<1>3. ArgInv'
  BY <1>1 DEF DocInv, ArgInv, ArgFits
<1>4. HoldInv'
  <2> SUFFICES ASSUME NEW s \in Slots, req'[s].at = "put"
               PROVE  Holds(req'[s], doc[req'[s].a])
    BY DEF HoldInv
  <2> QED BY <1>1 DEF DocInv, HoldInv
<1>5. SweeperInv'
  BY <1>1 DEF DocInv, SweeperInv
<1> QED BY <1>2, <1>3, <1>4, <1>5 DEF DocInv

LEMMA DocInvInit ==
  ASSUME AssetConstants, Init
  PROVE  DocInv
<1>1. TypeInv
  BY Documents DEF Init, TypeInv, Slots, Docs
<1>2. \A r \in Slots : req[r].at = "idle"
  BY Documents DEF Init, Slots
<1>3. RevInv
  BY Documents DEF Init, RevInv, AssetConstants
<1> QED BY <1>1, <1>2, <1>3 DEF DocInv, ArgInv, HoldInv, SweeperInv

LEMMA AskKeeps ==
  ASSUME AssetConstants, DocInv, NEW r \in Requests, Ask(r)
  PROVE  DocInv'
<1>1. PICK q \in Calls : Asked(q) /\ req' = [req EXCEPT ![r] = q]
  BY AskEffect
<1>2. UNCHANGED <<doc, bytes, active, sweep>>
  BY AskEffect
<1>3. q.at # "put" /\ ArgFits(q) /\ r \in Slots
  BY <1>1 DEF Asked, Slots
<1>4. /\ bytes' \in SUBSET Assets /\ active' \in SUBSET Assets
      /\ sweep' \in [todo : SUBSET (Assets \X Docs), purged : SUBSET Assets]
  BY <1>2 DEF DocInv, TypeInv
<1> QED BY <1>1, <1>2, <1>3, <1>4, SlotSet

LEMMA RemoveKeeps ==
  ASSUME AssetConstants, DocInv, NEW r \in Slots, RemoveObjects(r)
  PROVE  DocInv'
<1> DEFINE q == req[r]
           e == [q EXCEPT !.at = "read"]
<1>1. q \in Calls /\ ArgFits(q) /\ (r \notin Requests => q.op = "purge")
  BY Calling DEF RemoveObjects, DocInv, TypeInv, ArgInv, SweeperInv
<1>2. req' = [req EXCEPT ![r] = e]
  BY <1>1 DEF RemoveObjects
<1>3. /\ doc' = doc /\ bytes' \in SUBSET Assets /\ active' \in SUBSET Assets
      /\ sweep' \in [todo : SUBSET (Assets \X Docs), purged : SUBSET Assets]
  BY DEF RemoveObjects, DocInv, TypeInv
<1> HIDE DEF q
<1>4. e \in Calls /\ e.at = "read" /\ e.op = q.op /\ e.arg = q.arg
  BY <1>1, Moving
<1> HIDE DEF e
<1>5. ArgFits(e)
  BY <1>1, <1>4 DEF ArgFits
<1> QED BY <1>1, <1>2, <1>3, <1>4, <1>5, SlotSet

LEMMA ReadKeeps ==
  ASSUME AssetConstants, DocInv, NEW r \in Slots, Read(r)
  PROVE  DocInv'
<1> DEFINE q == req[r]
           d == doc[q.a]
           e == [q EXCEPT !.at = "put", !.seen = d]
<1>1. q \in Calls /\ ArgFits(q) /\ (r \notin Requests => q.op = "purge")
      /\ d \in Docs
  BY Calling DEF Read, DocInv, TypeInv, ArgInv, SweeperInv
<1>2. req' = [req EXCEPT ![r] = IF Accepts(q, d) THEN e ELSE Free]
  BY DEF Read
<1>3. /\ doc' = doc /\ bytes' \in SUBSET Assets /\ active' \in SUBSET Assets
      /\ sweep' \in [todo : SUBSET (Assets \X Docs), purged : SUBSET Assets]
  BY DEF Read, DocInv, TypeInv
<1>4. Free.at = "idle"
  BY DEF Free
<1>5. CASE ~Accepts(q, d)
  <2>1. req' = [req EXCEPT ![r] = Free]
    BY <1>2, <1>5
  <2> QED BY <1>3, <1>4, <2>1, SlotSet
<1>6. CASE Accepts(q, d)
  <2>1. req' = [req EXCEPT ![r] = e]
    BY <1>2, <1>6
  <2>2. d = doc[q.a]
    OBVIOUS
  <2> HIDE DEF q, d
  <2>3. e \in Calls /\ e.at = "put" /\ e.seen = d /\ e.op = q.op
        /\ e.arg = q.arg /\ e.a = q.a /\ e.tries = q.tries
    BY <1>1 DEF Calls
  <2> HIDE DEF e
  <2>4. ArgFits(e)
    BY <1>1, <2>3 DEF ArgFits
  <2>5. Accepts(e, d)
    BY <1>6, <2>3 DEF Accepts
  <2>6. Holds(e, doc[e.a])
    BY <1>1, <2>2, <2>3, <2>5 DEF Holds, Same, Docs, AssetConstants
  <2> QED BY <1>1, <1>3, <2>1, <2>3, <2>4, <2>6, SlotSet
<1> QED BY <1>5, <1>6

LEMMA ConflictKeeps ==
  ASSUME AssetConstants, DocInv, NEW r \in Slots, PutConflicts(r)
  PROVE  DocInv'
<1> DEFINE q == req[r]
           e == [q EXCEPT !.at = "read", !.tries = @ + 1]
<1>1. q \in Calls /\ ArgFits(q) /\ (r \notin Requests => q.op = "purge")
  BY Calling DEF PutConflicts, DocInv, TypeInv, ArgInv, SweeperInv
<1>2. req' = [req EXCEPT ![r] = IF Retries(q.op) /\ q.tries < MaxAttempts THEN e ELSE Free]
  BY DEF PutConflicts
<1>3. /\ doc' = doc /\ bytes' \in SUBSET Assets /\ active' \in SUBSET Assets
      /\ sweep' \in [todo : SUBSET (Assets \X Docs), purged : SUBSET Assets]
  BY DEF PutConflicts, DocInv, TypeInv
<1>4. Free.at = "idle"
  BY DEF Free
<1>5. CASE ~(Retries(q.op) /\ q.tries < MaxAttempts)
  <2>1. req' = [req EXCEPT ![r] = Free]
    BY <1>2, <1>5
  <2> QED BY <1>3, <1>4, <2>1, SlotSet
<1>6. CASE Retries(q.op) /\ q.tries < MaxAttempts
  <2>1. req' = [req EXCEPT ![r] = e]
    BY <1>2, <1>6
  <2> HIDE DEF q
  <2>2. e \in Calls /\ e.at = "read" /\ e.op = q.op /\ e.arg = q.arg
    BY <1>1, <1>6, Retrying
  <2> HIDE DEF e
  <2>3. ArgFits(e)
    BY <1>1, <2>2 DEF ArgFits
  <2> QED BY <1>1, <1>3, <2>1, <2>2, <2>3, SlotSet
<1> QED BY <1>5, <1>6

(* A put that lands replaces what was read, age aside.                     *)
LEMMA PutEffect ==
  ASSUME AssetConstants, DocInv, NEW r \in Slots, PutLands(r)
  PROVE  LET q == req[r]
             e == Apply(q.op, q.arg, q.seen)
         IN  /\ q \in Calls /\ q.at = "put" /\ ArgFits(q) /\ Accepts(q, q.seen)
             /\ r \notin Requests => q.op = "purge"
             /\ q.a \in Assets /\ q.seen \in Docs /\ Same(q.seen, doc[q.a])
             /\ q.seen.kind # "tombstone"
             /\ q.op # "purge" => e.kind # "tombstone"
             /\ req' = [req EXCEPT ![r] = Free]
             /\ \E f \in Docs :
                  /\ doc' = [doc EXCEPT ![q.a] = f]
                  /\ f.kind = e.kind /\ f.status = e.status /\ f.review = e.review
                  /\ f.locked = e.locked /\ f.key = e.key
                  /\ f.rev = doc[q.a].rev + 1
                  /\ f.kind # "tombstone" => f.rev <= MaxRev
<1> DEFINE q == req[r]
           e == Apply(q.op, q.arg, q.seen)
           f == [e EXCEPT !.rev = q.seen.rev + 1]
<1>1. q \in Calls /\ q.at = "put" /\ ArgFits(q) /\ (r \notin Requests => q.op = "purge")
      /\ q.a \in Assets /\ q.seen \in Docs /\ q.op \in Operations
  BY Calling DEF PutLands, DocInv, TypeInv, ArgInv, SweeperInv
<1>2. Holds(q, doc[q.a]) /\ q.seen.rev = doc[q.a].rev
  BY <1>1 DEF PutLands, Fresh, DocInv, HoldInv
<1>3. Accepts(q, q.seen) /\ Same(q.seen, doc[q.a])
  BY <1>2 DEF Holds
<1>4. q.seen.kind # "tombstone"
  BY <1>3 DEF Accepts
<1>5. doc[q.a].kind # "tombstone" /\ doc[q.a].rev <= MaxRev /\ doc[q.a].rev \in Nat
  <2>1. doc[q.a].kind # "tombstone" /\ doc[q.a] \in Docs
    BY <1>1, <1>3, <1>4 DEF Same, DocInv, TypeInv
  <2> QED BY <2>1, <1>1 DEF DocInv, RevInv, Docs, AssetConstants
<1>6. q.seen.rev + 1 \in 0 .. MaxRev + 1 /\ q.seen.rev + 1 = doc[q.a].rev + 1
      /\ (q.op # "purge" => q.seen.rev + 1 <= MaxRev)
  BY <1>2, <1>5 DEF PutLands, AssetConstants
<1>7. doc' = [doc EXCEPT ![q.a] = f] /\ req' = [req EXCEPT ![r] = Free]
  BY DEF PutLands
<1> HIDE DEF q
<1>8. /\ e \in Docs /\ f \in Docs
      /\ f.rev = q.seen.rev + 1 /\ f.kind = e.kind /\ f.status = e.status
      /\ f.review = e.review /\ f.locked = e.locked /\ f.key = e.key
      /\ (e.kind = "tombstone") <=> (q.op = "purge" \/ (q.op # "create" /\ q.seen.kind = "tombstone"))
  BY <1>1, <1>6, Applying
<1> HIDE DEF e, f
<1>9. \E g \in Docs :
        /\ doc' = [doc EXCEPT ![q.a] = g]
        /\ g.kind = e.kind /\ g.status = e.status /\ g.review = e.review
        /\ g.locked = e.locked /\ g.key = e.key
        /\ g.rev = doc[q.a].rev + 1
        /\ g.kind # "tombstone" => g.rev <= MaxRev
  BY <1>4, <1>6, <1>7, <1>8
<1> QED BY <1>1, <1>3, <1>4, <1>7, <1>8, <1>9 DEF q, e

LEMMA PutKeeps ==
  ASSUME AssetConstants, DocInv, NEW r \in Slots, PutLands(r)
  PROVE  DocInv'
<1> DEFINE q == req[r]
<1>1. q \in Calls /\ q.a \in Assets /\ req' = [req EXCEPT ![r] = Free]
  BY PutEffect
<1>2. PICK f \in Docs :
        /\ doc' = [doc EXCEPT ![q.a] = f] /\ f.rev = doc[q.a].rev + 1
        /\ f.kind # "tombstone" => f.rev <= MaxRev
  BY PutEffect
<1>3. \A s \in Slots : req'[s] = IF s = r THEN Free ELSE req[s]
  BY <1>1 DEF DocInv, TypeInv
<1>4. \A a \in Assets : doc'[a] = IF a = q.a THEN f ELSE doc[a]
  BY <1>2 DEF DocInv, TypeInv
<1>5. Free.at = "idle"
  BY DEF Free
<1>6. TypeInv'
  <2>1. bytes' \in SUBSET Assets /\ active' \in SUBSET Assets
    BY <1>1 DEF PutLands, DocInv, TypeInv
  <2>2. sweep' \in [todo : SUBSET (Assets \X Docs), purged : SUBSET Assets]
    BY <1>1 DEF PutLands, DocInv, TypeInv
  <2> QED BY <1>1, <1>2, <2>1, <2>2 DEF DocInv, TypeInv
<1>7. RevInv'
  BY <1>2, <1>4 DEF DocInv, RevInv
<1>8. ArgInv' /\ SweeperInv'
  BY <1>3, <1>5 DEF DocInv, ArgInv, ArgFits, SweeperInv
<1>9. HoldInv'
  <2> SUFFICES ASSUME NEW s \in Slots, req'[s].at = "put"
               PROVE  Holds(req'[s], doc'[req'[s].a])
    BY DEF HoldInv
  <2>1. s # r /\ req'[s] = req[s] /\ req[s].at = "put"
    BY <1>3, <1>5
  <2>2. Holds(req[s], doc[req[s].a]) /\ req[s].a \in Assets /\ req[s].seen \in Docs
    BY <2>1, Calling DEF DocInv, TypeInv, HoldInv
  <2>3. CASE req[s].a # q.a
    BY <1>4, <2>1, <2>2, <2>3
  <2>4. CASE req[s].a = q.a
    <3>1. doc'[req[s].a] = f /\ f.rev > req[s].seen.rev /\ req[s].seen.rev <= f.rev
      <4>1. req[s].seen.rev \in Int /\ doc[q.a].rev \in Int
        BY <1>1, <2>2 DEF DocInv, TypeInv, Docs
      <4>2. req[s].seen.rev <= doc[q.a].rev
        BY <2>2, <2>4 DEF Holds
      <4> QED BY <1>1, <1>2, <1>4, <2>4, <4>1, <4>2
    <3>2. f.rev \in Int /\ req[s].seen.rev \in Int
      BY <2>2 DEF Docs
    <3>3. req[s].seen.rev # f.rev
      BY <3>1, <3>2
    <3> QED BY <2>1, <2>2, <3>1, <3>3 DEF Holds
  <2> QED BY <2>3, <2>4
<1> QED BY <1>6, <1>7, <1>8, <1>9 DEF DocInv

LEMMA TickKeeps ==
  ASSUME AssetConstants, DocInv, SweepTick
  PROVE  DocInv'
<1>1. sweep' \in [todo : SUBSET (Assets \X Docs), purged : SUBSET Assets]
  <2> DEFINE listed == {a \in Assets : Live(a) /\ doc[a].status = "archived"}
  <2>1. sweep' = [todo |-> {<<a, doc[a]>> : a \in listed}, purged |-> {}]
    BY DEF SweepTick
  <2>2. {<<a, doc[a]>> : a \in listed} \in SUBSET (Assets \X Docs)
    BY DEF DocInv, TypeInv
  <2> QED BY <2>1, <2>2
<1>2. UNCHANGED <<doc, bytes, active, req>>
  BY DEF SweepTick
<1> QED BY <1>1, <1>2 DEF DocInv, TypeInv, RevInv, ArgInv, ArgFits, HoldInv, SweeperInv

(* A sweep that takes on an asset purges the copy it listed.               *)
LEMMA SweepEffect ==
  ASSUME AssetConstants, DocInv, NEW a, NEW d, SweepAsset(a, d)
  PROVE  /\ a \in Assets /\ d \in Docs /\ <<a, d>> \in sweep.todo
         /\ req[Sweeper].at = "idle" /\ Quiet /\ UNCHANGED <<doc, bytes, active>>
         /\ sweep'.todo \subseteq sweep.todo /\ sweep'.purged = sweep.purged
         /\ sweep' \in [todo : SUBSET (Assets \X Docs), purged : SUBSET Assets]
         /\ \/ UNCHANGED req
            \/ /\ d.aged /\ ~BlockedByChild(a)
               /\ \E q \in Calls :
                    /\ q.at = "objects" /\ q.op = "purge" /\ q.a = a /\ q.seen = d
                    /\ req' = [req EXCEPT ![Sweeper] = q]
<1>1. a \in Assets /\ d \in Docs /\ <<a, d>> \in sweep.todo /\ req[Sweeper].at = "idle"
      /\ Quiet /\ UNCHANGED <<doc, bytes, active>>
  BY DEF SweepAsset, DocInv, TypeInv
<1>2. /\ sweep' \in [todo : SUBSET (Assets \X Docs), purged : SUBSET Assets]
      /\ sweep'.todo \subseteq sweep.todo /\ sweep'.purged = sweep.purged
  BY DEF SweepAsset, DocInv, TypeInv
<1>3. CASE ~(d.aged /\ ~BlockedByChild(a))
  <2>1. UNCHANGED req
    BY <1>3 DEF SweepAsset
  <2> QED BY <1>1, <1>2, <2>1
<1>4. CASE d.aged /\ ~BlockedByChild(a)
  <2> DEFINE p == Asks("purge", a, None)
             q == [p EXCEPT !.at = "objects", !.seen = d]
  <2>1. p \in Calls /\ p.op = "purge" /\ p.a = a
    BY <1>1, Asking DEF Operations, Args
  <2>2. req' = [req EXCEPT ![Sweeper] = q]
    BY <1>4 DEF SweepAsset
  <2> HIDE DEF p
  <2>3. q \in Calls /\ q.at = "objects" /\ q.op = "purge" /\ q.a = a /\ q.seen = d
    BY <1>1, <2>1 DEF Calls
  <2> HIDE DEF q
  <2> QED BY <1>1, <1>2, <1>4, <2>2, <2>3
<1> QED BY <1>3, <1>4

LEMMA SweepCall ==
  ASSUME AssetConstants, DocInv, NEW a, NEW d, SweepAsset(a, d), ~UNCHANGED req
  PROVE  \E q \in Calls :
           /\ q.at = "objects" /\ q.op = "purge" /\ q.a = a /\ q.seen = d
           /\ \A s \in Slots : req'[s] = IF s = Sweeper THEN q ELSE req[s]
<1> DEFINE p == Asks("purge", a, None)
           q == [p EXCEPT !.at = "objects", !.seen = d]
<1>1. a \in Assets /\ d \in Docs
  BY DEF SweepAsset, DocInv, TypeInv
<1>2. p \in Calls /\ p.op = "purge" /\ p.a = a
  BY <1>1, Asking DEF Operations, Args
<1>3. req' = [req EXCEPT ![Sweeper] = q]
  BY DEF SweepAsset
<1> HIDE DEF p
<1>4. q \in Calls /\ q.at = "objects" /\ q.op = "purge" /\ q.a = a /\ q.seen = d
  BY <1>1, <1>2 DEF Calls
<1> HIDE DEF q
<1>5. \A s \in Slots : req'[s] = IF s = Sweeper THEN q ELSE req[s]
  BY <1>3 DEF DocInv, TypeInv
<1> QED BY <1>4, <1>5

LEMMA SweepKeeps ==
  ASSUME AssetConstants, DocInv, NEW a, NEW d, SweepAsset(a, d)
  PROVE  DocInv'
<1>1. /\ doc' = doc /\ bytes' \in SUBSET Assets /\ active' \in SUBSET Assets
      /\ sweep' \in [todo : SUBSET (Assets \X Docs), purged : SUBSET Assets]
  BY SweepEffect DEF DocInv, TypeInv
<1>2. CASE UNCHANGED req
  BY <1>1, <1>2 DEF DocInv, TypeInv, RevInv, ArgInv, ArgFits, HoldInv, SweeperInv
<1>3. CASE \E q \in Calls : q.at = "objects" /\ q.op = "purge" /\ req' = [req EXCEPT ![Sweeper] = q]
  <2>1. PICK q \in Calls : q.at = "objects" /\ q.op = "purge" /\ req' = [req EXCEPT ![Sweeper] = q]
    BY <1>3
  <2>2. ArgFits(q) /\ Sweeper \in Slots
    BY <2>1 DEF ArgFits, Slots
  <2> QED BY <1>1, <2>1, <2>2, SlotSet
<1> QED BY <1>2, <1>3, SweepEffect

LEMMA WorldKeeps ==
  ASSUME AssetConstants, DocInv, NEW a,
         \/ a \in Assets /\ (JobStarts(a) \/ JobEnds(a) \/ WindowPasses(a))
         \/ Stop \/ UNCHANGED vars
  PROVE  DocInv'
<1>1. CASE a \in Assets /\ JobStarts(a)
  BY <1>1 DEF JobStarts, DocInv, TypeInv, RevInv, ArgInv, ArgFits, HoldInv, SweeperInv
<1>2. CASE a \in Assets /\ JobEnds(a)
  BY <1>2 DEF JobEnds, DocInv, TypeInv, RevInv, ArgInv, ArgFits, HoldInv, SweeperInv
<1>3. CASE a \in Assets /\ WindowPasses(a)
  <2> DEFINE f == [doc[a] EXCEPT !.aged = TRUE]
  <2>1. doc' = [doc EXCEPT ![a] = f] /\ doc[a] \in Docs
    BY <1>3 DEF WindowPasses, DocInv, TypeInv
  <2>2. f \in Docs /\ f.rev = doc[a].rev /\ Same(f, doc[a]) /\ f.kind = doc[a].kind
    BY <2>1 DEF Docs, Same
  <2> HIDE DEF f
  <2>3. \A b \in Assets : doc'[b] = IF b = a THEN f ELSE doc[b]
    BY <2>1 DEF DocInv, TypeInv
  <2>4. UNCHANGED <<bytes, active, req, sweep>>
    BY <1>3 DEF WindowPasses
  <2>5. TypeInv' /\ RevInv' /\ ArgInv' /\ SweeperInv'
    BY <2>1, <2>2, <2>3, <2>4 DEF DocInv, TypeInv, RevInv, ArgInv, ArgFits, SweeperInv
  <2>6. HoldInv'
    <3> SUFFICES ASSUME NEW s \in Slots, req[s].at = "put"
                 PROVE  Holds(req[s], doc'[req[s].a])
      BY <2>4 DEF HoldInv
    <3>1. Holds(req[s], doc[req[s].a]) /\ req[s].a \in Assets
      BY Calling DEF DocInv, TypeInv, HoldInv
    <3> QED BY <2>2, <2>3, <3>1 DEF Holds, Same
  <2> QED BY <2>5, <2>6 DEF DocInv
<1>4. CASE Stop
  <2>1. UNCHANGED <<doc, bytes, active>> /\ req' = [r \in Slots |-> Free]
        /\ sweep' = [todo |-> {}, purged |-> {}]
    BY <1>4 DEF Stop, DocInv, TypeInv
  <2>2. TypeInv' /\ RevInv'
    BY <2>1 DEF DocInv, TypeInv, RevInv
  <2>3. \A s \in Slots : req'[s].at = "idle"
    BY <2>1 DEF Free
  <2> QED BY <2>2, <2>3 DEF DocInv, ArgInv, HoldInv, SweeperInv
<1>5. CASE UNCHANGED vars
  BY <1>5 DEF vars, DocInv, TypeInv, RevInv, ArgInv, ArgFits, HoldInv, SweeperInv
<1> QED BY <1>1, <1>2, <1>3, <1>4, <1>5

LEMMA DocInvNext ==
  ASSUME AssetConstants, DocInv, [Next]_vars
  PROVE  DocInv'
<1>1. CASE \E r \in Requests : Ask(r)
  BY <1>1, AskKeeps
<1>2. ASSUME NEW r \in DOMAIN req, Step(r)
      PROVE  DocInv'
  <2>1. r \in Slots
    BY <1>2 DEF DocInv, TypeInv
  <2> QED BY <1>2, <2>1, RemoveKeeps, ReadKeeps, PutKeeps, ConflictKeeps DEF Step
<1>3. CASE Sweeps
  BY <1>3, TickKeeps, SweepKeeps DEF Sweeps
<1>4. CASE \E a \in Assets : JobStarts(a) \/ JobEnds(a) \/ WindowPasses(a)
  BY <1>4, WorldKeeps
<1>5. CASE Stop \/ UNCHANGED vars
  BY <1>5, WorldKeeps
<1> QED BY <1>1, <1>2, <1>3, <1>4, <1>5 DEF Next

LEMMA DocInvType ==
  ASSUME AssetConstants, DocInv
  PROVE  TypeOK
<1>1. \A a \in Assets : doc[a] \in Docs
  BY DEF DocInv, TypeInv
<1>2. \A r \in Slots : /\ req[r].at \in {"idle", "read", "objects", "put"}
                       /\ req[r].at # "idle" => req[r].tries \in 1 .. MaxAttempts
  BY Calling DEF DocInv, TypeInv
<1>3. DOMAIN req = Slots /\ bytes \subseteq Assets /\ active \subseteq Assets
      /\ sweep.purged \subseteq Assets
  BY DEF DocInv, TypeInv
<1>4. \A a \in Assets :
         /\ doc[a].kind \in {"absent", "asset", "tombstone"}
         /\ doc[a].status \in Statuses /\ doc[a].from \in Statuses
         /\ doc[a].review \in Reviews /\ doc[a].rev \in 0 .. MaxRev + 1
         /\ doc[a].locked \in BOOLEAN /\ doc[a].aged \in BOOLEAN
  BY <1>1 DEF Docs, Kinds
<1> QED BY <1>2, <1>3, <1>4 DEF TypeOK

(* The documents keep their shape and no write goes beyond its bound, for  *)
(* every set of assets, requests and operations.                           *)
THEOREM DocumentsTyped ==
  ASSUME AssetConstants
  PROVE  Spec => []TypeOK
<1>1. Init => DocInv
  BY DocInvInit
<1>2. DocInv /\ [Next]_vars => DocInv'
  BY DocInvNext
<1>3. DocInv => TypeOK
  BY DocInvType
<1> QED BY <1>1, <1>2, <1>3, PTL DEF Spec

-----------------------------------------------------------------------------
(* Documents move along their state machines only.                         *)

\* Only a put and the passing of time write a document.
LEMMA Writers ==
  ASSUME AssetConstants, DocInv, [Next]_vars
  PROVE  \/ UNCHANGED doc
         \/ \E r \in Slots : PutLands(r)
         \/ \E a \in Assets : WindowPasses(a)
<1>1. CASE \E r \in Requests : Ask(r)
  BY <1>1 DEF Ask
<1>2. ASSUME NEW r \in DOMAIN req, Step(r)
      PROVE  UNCHANGED doc \/ PutLands(r)
  BY <1>2 DEF Step, RemoveObjects, Read, PutConflicts
<1>3. CASE Sweeps
  BY <1>3 DEF Sweeps, SweepTick, SweepAsset
<1>4. CASE Stop \/ UNCHANGED vars
  BY <1>4 DEF Stop, vars
<1>5. \A a : JobStarts(a) \/ JobEnds(a) => UNCHANGED doc
  BY DEF JobStarts, JobEnds
<1>6. DOMAIN req = Slots
  BY DEF DocInv, TypeInv
<1> QED BY <1>1, <1>2, <1>3, <1>4, <1>5, <1>6 DEF Next

\* A document whose status, review and lock stay as they were.
LEMMA StandsLawful ==
  ASSUME NEW a \in Assets, doc'[a].status = doc[a].status,
         doc'[a].review = doc[a].review, doc'[a].locked = doc[a].locked,
         doc[a].kind = "tombstone" => doc'[a] = doc[a]
  PROVE  Lawful(a)
  BY DEF Lawful, Allowed, ReviewAllowed

LEMMA PutLawful ==
  ASSUME AssetConstants, DocInv, NEW r \in Slots, PutLands(r)
  PROVE  DocumentsLawful
<1> DEFINE q == req[r]
           s == q.seen
           e == Apply(q.op, q.arg, s)
<1>1. /\ q.op \in Operations /\ q.at = "put" /\ Accepts(q, s)
      /\ r \notin Requests => q.op = "purge"
      /\ q.a \in Assets /\ Same(s, doc[q.a]) /\ s.kind # "tombstone" /\ s \in Docs
  BY PutEffect DEF Calls
<1>2. PICK f \in Docs :
        /\ doc' = [doc EXCEPT ![q.a] = f]
        /\ f.kind = e.kind /\ f.status = e.status /\ f.review = e.review
        /\ f.locked = e.locked
  BY PutEffect
<1>3. \A a \in Assets : doc'[a] = IF a = q.a THEN f ELSE doc[a]
  BY <1>2 DEF DocInv, TypeInv
<1> SUFFICES ASSUME NEW a \in Assets PROVE Lawful(a)
  BY DEF DocumentsLawful
<1>4. CASE a # q.a
  BY <1>3, <1>4, StandsLawful
<1>5. CASE a = q.a
  <2> DEFINE d == doc[a]
  <2>1. d.kind = s.kind /\ d.status = s.status /\ d.from = s.from
        /\ d.review = s.review /\ d.locked = s.locked /\ d.kind # "tombstone"
    BY <1>1, <1>5 DEF Same
  <2>2. doc'[a] = f
    BY <1>3, <1>5
  <2>3. q.op = "lock" => r \in Requests
    BY <1>1
  <2> SUFFICES ASSUME d.kind = "asset", f.kind = "asset"
               PROVE  /\ \/ Allowed(d.status, f.status)
                         \/ d.status = "archived"
                            /\ f.status = (IF d.from = "ready" THEN "ready" ELSE "failed")
                      /\ ReviewAllowed(d.review, f.review)
                      /\ (d.locked /\ ~f.locked) => q.op = "lock"
    BY <1>1, <2>1, <2>2, <2>3 DEF Lawful
  <2>4. Allowed(d.status, d.status) /\ ReviewAllowed(d.review, d.review)
    BY DEF Allowed, ReviewAllowed
  <2>5. s.kind = "asset" /\ q.op # "create"
    BY <1>1, <2>1 DEF Accepts
  <2>6. CASE q.op \in {"patch", "delete"}
    <3>1. e = ApplyStatus(s, q.arg) /\ Allowed(s.status, q.arg)
      BY <1>1, <2>5, <2>6 DEF Apply, Accepts
    <3>2. e.status = q.arg /\ e.review = s.review /\ e.locked = s.locked
      BY <1>1, <3>1 DEF ApplyStatus, Docs
    <3> QED BY <1>2, <2>1, <2>4, <3>1, <3>2
  <2>7. CASE q.op = "review"
    <3>1. e = [s EXCEPT !.review = q.arg] /\ ReviewAllowed(s.review, q.arg)
      BY <1>1, <2>5, <2>7 DEF Apply, Accepts
    <3>2. e.status = s.status /\ e.review = q.arg /\ e.locked = s.locked
      BY <1>1, <3>1 DEF Docs
    <3> QED BY <1>2, <2>1, <2>4, <3>1, <3>2
  <2>8. CASE q.op = "lock"
    <3>1. e = [s EXCEPT !.locked = q.arg]
      BY <2>8 DEF Apply
    <3>2. e.status = s.status /\ e.review = s.review
      BY <1>1, <3>1 DEF Docs
    <3> QED BY <1>2, <2>1, <2>4, <2>8, <3>2
  <2>9. CASE q.op = "repoint"
    <3>1. e = [s EXCEPT !.key = q.arg]
      BY <2>9 DEF Apply
    <3>2. e.status = s.status /\ e.review = s.review /\ e.locked = s.locked
      BY <1>1, <3>1 DEF Docs
    <3> QED BY <1>2, <2>1, <2>4, <3>2
  <2>10. CASE q.op = "restore"
    <3>1. e = ApplyRestore(s)
      BY <2>10 DEF Apply
    <3>2. /\ e.status = IF s.status # "archived" THEN s.status
                        ELSE IF s.from = "ready" THEN "ready" ELSE "failed"
          /\ e.review = s.review /\ e.locked = s.locked
      BY <1>1, <3>1 DEF ApplyRestore, Docs
    <3>3. CASE s.status = "archived"
      <4>1. e.status = (IF s.from = "ready" THEN "ready" ELSE "failed")
        BY <3>2, <3>3
      <4> HIDE DEF e, s, d
      <4> QED BY <1>2, <2>1, <2>4, <3>2, <3>3, <4>1
    <3>4. CASE s.status # "archived"
      <4>1. e.status = s.status
        BY <3>2, <3>4
      <4> QED BY <1>2, <2>1, <2>4, <3>2, <4>1
    <3> QED BY <3>3, <3>4
  <2>11. CASE q.op = "purge"
    BY <1>2, <2>11 DEF Apply, Tombstone, NoDoc
  <2> QED BY <1>1, <2>5, <2>6, <2>7, <2>8, <2>9, <2>10, <2>11 DEF Operations
<1> QED BY <1>4, <1>5

LEMMA StepLawful ==
  ASSUME AssetConstants, DocInv, [Next]_vars
  PROVE  DocumentsLawful
<1>1. CASE UNCHANGED doc
  BY <1>1, StandsLawful DEF DocumentsLawful
<1>2. ASSUME NEW b \in Assets, WindowPasses(b)
      PROVE  DocumentsLawful
  <2> DEFINE f == [doc[b] EXCEPT !.aged = TRUE]
  <2>1. doc' = [doc EXCEPT ![b] = f] /\ doc[b] \in Docs /\ doc[b].kind = "asset"
    BY <1>2 DEF WindowPasses, Live, DocInv, TypeInv
  <2>2. f.status = doc[b].status /\ f.review = doc[b].review /\ f.locked = doc[b].locked
    BY <2>1 DEF Docs
  <2> HIDE DEF f
  <2>3. \A a \in Assets : doc'[a] = IF a = b THEN f ELSE doc[a]
    BY <2>1 DEF DocInv, TypeInv
  <2> QED BY <2>1, <2>2, <2>3, StandsLawful DEF DocumentsLawful
<1> QED BY <1>1, <1>2, Writers, PutLawful

(* However requests interleave between their reads and their writes, a     *)
(* document moves only along its two state machines, a lock is lifted only *)
(* by a request to unlock, and a tombstone is final (updateWithRetry and   *)
(* the revision checks of couch-asset-repo.ts).                            *)
THEOREM WritesLawful ==
  ASSUME AssetConstants
  PROVE  Spec => [][DocumentsLawful]_vars
<1>1. Init => DocInv
  BY DocInvInit
<1>2. DocInv /\ [Next]_vars => DocInv'
  BY DocInvNext
<1>3. DocInv /\ [Next]_vars => DocumentsLawful
  BY StepLawful
<1> QED BY <1>1, <1>2, <1>3, PTL DEF Spec

-----------------------------------------------------------------------------
(* The steps again, as the guards of a removal see them.                   *)

LEMMA PutShapes ==
  ASSUME AssetConstants, DocInv, NEW r \in Slots, PutLands(r)
  PROVE  LET q == req[r]
             d == doc[q.a]
         IN  /\ q \in Calls /\ q.a \in Assets /\ q.at = "put" /\ q.op \in Operations
             /\ req' = [req EXCEPT ![r] = Free] /\ active' = active
             /\ bytes' = IF q.op = "create" THEN bytes \cup {q.a} ELSE bytes
             /\ sweep' = IF r = Sweeper THEN [sweep EXCEPT !.purged = @ \cup {q.a}] ELSE sweep
             /\ \E f \in Docs :
                  /\ doc' = [doc EXCEPT ![q.a] = f]
                  /\ q.op \notin {"purge", "create"} => d.kind = "asset" /\ f.kind = "asset"
                  /\ q.op = "purge" => d.kind = "asset" /\ f.kind = "tombstone"
                  /\ q.op = "create" =>
                       /\ d.kind = "absent" /\ f.kind = "asset"
                       /\ f.key = q.arg /\ f.status = "uploading"
                  /\ q.op \notin {"purge", "create", "repoint"} => f.key = d.key
                  /\ (q.op \notin {"purge", "create", "restore"} /\ d.status = "archived")
                        => f.status = "archived"
<1> DEFINE q == req[r]
           s == q.seen
           d == doc[q.a]
           e == Apply(q.op, q.arg, s)
<1>1. /\ q \in Calls /\ q.op \in Operations /\ q.at = "put" /\ Accepts(q, s)
      /\ q.a \in Assets /\ Same(s, d) /\ s.kind # "tombstone" /\ s \in Docs
      /\ req' = [req EXCEPT ![r] = Free]
  BY PutEffect DEF Calls
<1>2. PICK f \in Docs :
        /\ doc' = [doc EXCEPT ![q.a] = f]
        /\ f.kind = e.kind /\ f.status = e.status /\ f.key = e.key
  BY PutEffect
<1>3. /\ active' = active
      /\ bytes' = IF q.op = "create" THEN bytes \cup {q.a} ELSE bytes
      /\ sweep' = IF r = Sweeper THEN [sweep EXCEPT !.purged = @ \cup {q.a}] ELSE sweep
  BY DEF PutLands
<1>4. d.kind = s.kind /\ d.status = s.status /\ d.key = s.key
  BY <1>1 DEF Same
<1> HIDE DEF q, d, s
<1>5. /\ q.op \notin {"purge", "create"} => s.kind = "asset" /\ e.kind = "asset"
      /\ q.op = "purge" => s.kind = "asset" /\ e.kind = "tombstone"
      /\ q.op = "create" =>
           /\ s.kind = "absent" /\ e.kind = "asset"
           /\ e.key = q.arg /\ e.status = "uploading"
      /\ q.op \notin {"purge", "create", "repoint"} => e.key = s.key
      /\ (q.op \notin {"purge", "create", "restore"} /\ s.status = "archived")
            => e.status = "archived"
  <2>1. CASE q.op \in {"patch", "delete"}
    <3>1. e = ApplyStatus(s, q.arg) /\ Allowed(s.status, q.arg) /\ s.kind = "asset"
      BY <1>1, <2>1 DEF Apply, Accepts
    <3>2. e.status = q.arg /\ e.kind = s.kind /\ e.key = s.key
      BY <1>1, <3>1 DEF ApplyStatus, Docs
    <3>3. s.status = "archived" => q.arg = "archived"
      BY <3>1 DEF Allowed
    <3> HIDE DEF e
    <3> QED BY <2>1, <3>1, <3>2, <3>3
  <2>2. CASE q.op \in {"review", "lock", "repoint"}
    <3>1. s.kind = "asset"
      BY <1>1, <2>2 DEF Accepts
    <3>2. \/ e = [s EXCEPT !.review = q.arg] \/ e = [s EXCEPT !.locked = q.arg]
          \/ q.op = "repoint" /\ e = [s EXCEPT !.key = q.arg]
      BY <2>2 DEF Apply
    <3> HIDE DEF e
    <3> QED BY <1>1, <2>2, <3>1, <3>2 DEF Docs
  <2>3. CASE q.op = "restore"
    <3>1. e = ApplyRestore(s) /\ s.kind = "asset"
      BY <1>1, <2>3 DEF Apply, Accepts
    <3>2. e.kind = s.kind /\ e.key = s.key
      BY <1>1, <3>1 DEF ApplyRestore, Docs
    <3> HIDE DEF e
    <3> QED BY <2>3, <3>1, <3>2
  <2>4. CASE q.op = "purge"
    BY <1>1, <2>4 DEF Apply, Accepts, Tombstone, NoDoc
  <2>5. CASE q.op = "create"
    BY <1>1, <2>5 DEF Apply, Accepts, NewDoc, NoDoc
  <2> QED BY <1>1, <2>1, <2>2, <2>3, <2>4, <2>5 DEF Operations
<1> HIDE DEF e
<1>6. \E g \in Docs :
         /\ doc' = [doc EXCEPT ![q.a] = g]
         /\ q.op \notin {"purge", "create"} => d.kind = "asset" /\ g.kind = "asset"
         /\ q.op = "purge" => d.kind = "asset" /\ g.kind = "tombstone"
         /\ q.op = "create" =>
              /\ d.kind = "absent" /\ g.kind = "asset"
              /\ g.key = q.arg /\ g.status = "uploading"
         /\ q.op \notin {"purge", "create", "repoint"} => g.key = d.key
         /\ (q.op \notin {"purge", "create", "restore"} /\ d.status = "archived")
               => g.status = "archived"
  BY <1>2, <1>4, <1>5
<1> QED BY <1>1, <1>3, <1>6 DEF q, d

\* The other steps of a call change nothing but the call and, once, the store.
LEMMA MoveEffect ==
  ASSUME AssetConstants, DocInv, NEW r \in Slots,
         RemoveObjects(r) \/ Read(r) \/ PutConflicts(r)
  PROVE  LET q == req[r]
         IN  /\ q \in Calls /\ q.a \in Assets /\ UNCHANGED <<doc, active, sweep>>
             /\ \/ bytes' = bytes
                \/ q.at = "objects" /\ bytes' = bytes \ {q.seen.key}
             /\ \E e \in Calls \cup {Free} :
                  /\ req' = [req EXCEPT ![r] = e]
                  /\ e.at # "idle" => /\ e.at # "objects" /\ e.op = q.op
                                      /\ e.a = q.a /\ e.arg = q.arg
                                      /\ e.seen = q.seen \/ e.seen = doc[q.a]
<1> DEFINE q == req[r]
           d == doc[q.a]
<1>1. q \in Calls /\ q.a \in Assets /\ d \in Docs
  BY Calling DEF RemoveObjects, Read, PutConflicts, DocInv, TypeInv
<1>2. Free.at = "idle"
  BY DEF Free
<1>3. CASE RemoveObjects(r)
  <2> DEFINE e == [q EXCEPT !.at = "read"]
  <2>1. /\ UNCHANGED <<doc, active, sweep>> /\ q.at = "objects"
        /\ bytes' = bytes \/ bytes' = bytes \ {q.seen.key}
        /\ req' = [req EXCEPT ![r] = e]
    BY <1>1, <1>3 DEF RemoveObjects
  <2> HIDE DEF q
  <2>2. e \in Calls /\ e.at = "read" /\ e.op = q.op /\ e.a = q.a /\ e.arg = q.arg
        /\ e.seen = q.seen
    BY <1>1, Moving
  <2> HIDE DEF e
  <2> QED BY <1>1, <2>1, <2>2 DEF q
<1>4. CASE Read(r)
  <2> DEFINE e == [q EXCEPT !.at = "put", !.seen = d]
  <2>1. /\ UNCHANGED <<doc, active, sweep>> /\ bytes' = bytes
        /\ req' = [req EXCEPT ![r] = e] \/ req' = [req EXCEPT ![r] = Free]
    BY <1>4 DEF Read
  <2>2. d = doc[q.a]
    OBVIOUS
  <2> HIDE DEF q, d
  <2>3. e \in Calls /\ e.at = "put" /\ e.op = q.op /\ e.a = q.a /\ e.arg = q.arg
        /\ e.seen = d
    BY <1>1 DEF Calls
  <2> HIDE DEF e
  <2> QED BY <1>1, <1>2, <2>1, <2>2, <2>3 DEF q
<1>5. CASE PutConflicts(r)
  <2> DEFINE e == [q EXCEPT !.at = "read", !.tries = @ + 1]
  <2>1. /\ UNCHANGED <<doc, active, sweep>> /\ bytes' = bytes
        /\ \/ req' = [req EXCEPT ![r] = e] /\ q.tries < MaxAttempts
           \/ req' = [req EXCEPT ![r] = Free]
    BY <1>5 DEF PutConflicts
  <2> HIDE DEF q
  <2>3. q.tries < MaxAttempts =>
          e \in Calls /\ e.at = "read" /\ e.op = q.op /\ e.a = q.a /\ e.arg = q.arg
          /\ e.seen = q.seen
    <3> SUFFICES ASSUME q.tries < MaxAttempts
                 PROVE  e \in Calls /\ e.at = "read" /\ e.op = q.op /\ e.a = q.a
                        /\ e.arg = q.arg /\ e.seen = q.seen
      OBVIOUS
    <3>1. e \in Calls /\ e.at = "read" /\ e.op = q.op /\ e.a = q.a /\ e.arg = q.arg
      BY <1>1, Retrying
    <3> QED BY <1>1, <3>1 DEF Calls
  <2> HIDE DEF e
  <2> QED BY <1>1, <1>2, <2>1, <2>3 DEF q
<1> QED BY <1>3, <1>4, <1>5

\* Every step is one of these.
LEMMA Steps ==
  ASSUME AssetConstants, DocInv, [Next]_vars
  PROVE  \/ \E r \in Requests : Ask(r)
         \/ \E r \in Slots : RemoveObjects(r) \/ Read(r) \/ PutConflicts(r)
         \/ \E r \in Slots : PutLands(r)
         \/ SweepTick
         \/ \E t \in sweep.todo : SweepAsset(t[1], t[2])
         \/ \E a \in Assets : JobStarts(a) \/ JobEnds(a)
         \/ \E a \in Assets : WindowPasses(a)
         \/ Stop
         \/ UNCHANGED vars
<1>1. DOMAIN req = Slots
  BY DEF DocInv, TypeInv
<1> QED BY <1>1 DEF Next, Step, Sweeps

LEMMA WindowEffect ==
  ASSUME AssetConstants, DocInv, NEW a \in Assets, WindowPasses(a)
  PROVE  /\ UNCHANGED <<bytes, active, req, sweep>>
         /\ \A b \in Assets : /\ Same(doc'[b], doc[b])
                              /\ doc'[b].kind = doc[b].kind
                              /\ doc'[b].status = doc[b].status
                              /\ doc'[b].locked = doc[b].locked
                              /\ doc'[b].key = doc[b].key
<1> DEFINE f == [doc[a] EXCEPT !.aged = TRUE]
<1>1. doc' = [doc EXCEPT ![a] = f] /\ doc[a] \in Docs /\ UNCHANGED <<bytes, active, req, sweep>>
  BY DEF WindowPasses, DocInv, TypeInv
<1>2. Same(f, doc[a])
  BY <1>1 DEF Docs, Same
<1> HIDE DEF f
<1>3. \A b \in Assets : doc'[b] = IF b = a THEN f ELSE doc[b]
  BY <1>1 DEF DocInv, TypeInv
<1>4. \A b \in Assets : Same(doc'[b], doc[b])
  BY <1>2, <1>3 DEF Same
<1> QED BY <1>1, <1>4 DEF Same

LEMMA StopEffect ==
  ASSUME AssetConstants, DocInv, Stop
  PROVE  /\ UNCHANGED <<doc, bytes, active>>
         /\ \A r \in Slots : req'[r].at = "idle"
         /\ sweep'.todo = {} /\ sweep'.purged = {}
  BY DEF Stop, DocInv, TypeInv, Free

-----------------------------------------------------------------------------
(* With one call at a time and no retention sweep, what a purge was        *)
(* admitted on still holds when its tombstone is written.                  *)

Solo == \A r, s \in Slots : req[r].at # "idle" /\ req[s].at # "idle" => r = s
Admitted(q) ==
    /\ Live(q.a) /\ ~doc[q.a].locked /\ doc[q.a].status = "archived"
    /\ q.a \notin active /\ ~SharedObject(q.a) /\ Same(q.seen, doc[q.a])
GuardInv ==
    /\ Solo /\ sweep.todo = {}
    /\ \A r \in Slots : req[r].at = "objects" => req[r].op = "purge"
    /\ \A r \in Slots : req[r].at # "idle" /\ req[r].op = "purge" => Admitted(req[r])

\* Under the family's hypotheses: one call at a time, only the sweep purges.
FamilyInv ==
    /\ Solo
    /\ \A p \in sweep.purged : doc[p].kind = "tombstone"
    /\ \A c \in Assets : Live(c) /\ Parent[c] # None => doc[Parent[c]].kind # "tombstone"
    /\ \A r \in Slots : req[r].at # "idle" =>
         /\ req[r].op = "purge" => Children(req[r].a) = {}
         /\ req[r].op = "create" /\ Parent[req[r].a] # None => Live(Parent[req[r].a])
    /\ \A r \in Requests : req[r].at # "idle" => req[r].op # "purge"

\* No client restores: what was archived stays so until it is a tombstone.
Retired(a) == doc[a].kind = "tombstone" \/ (Live(a) /\ doc[a].status = "archived")
ArchiveInv ==
    /\ \A r \in Slots : req[r].at # "idle" =>
         /\ req[r].op # "restore"
         /\ req[r].op = "purge" => Retired(req[r].a)
    /\ \A t \in sweep.todo : Retired(t[1])

\* And no client points an asset at another's object.
SourceInv ==
    /\ ArchiveInv
    /\ \A a \in Assets : Live(a) => doc[a].key = a /\ (doc[a].status # "archived" => a \in bytes)
    /\ \A r \in Slots : req[r].at # "idle" =>
         /\ req[r].op # "repoint"
         /\ req[r].op = "create" => req[r].arg = req[r].a
         /\ req[r].at = "objects" => req[r].op = "purge" /\ req[r].seen.key = req[r].a
    /\ \A t \in sweep.todo : t[2].key = t[1]

LEMMA Idle ==
  ASSUME DocInv, OneAtATime, Quiet
  PROVE  \A r \in Slots : req[r].at = "idle"
  BY DEF DocInv, TypeInv, Quiet

\* Setting one slot, or emptying it, leaves the others as they are.
LEMMA Slot ==
  ASSUME DocInv, NEW r \in Slots, NEW e, req' = [req EXCEPT ![r] = e]
  PROVE  \A s \in Slots : req'[s] = IF s = r THEN e ELSE req[s]
  BY DEF DocInv, TypeInv

LEMMA SoloKept ==
  ASSUME AssetConstants, DocInv, OneAtATime, Solo, [Next]_vars
  PROVE  Solo'
<1>0. Sweeper \in Slots /\ Requests \subseteq Slots /\ Free.at = "idle"
  BY DEF Slots, Free
<1>1. ASSUME NEW r \in Requests, Ask(r)
      PROVE  Solo'
  <2>1. PICK q \in Calls : req' = [req EXCEPT ![r] = q]
    BY <1>1, AskEffect
  <2>2. \A s \in Slots : req[s].at = "idle"
    BY <1>1, AskEffect, Idle
  <2>3. \A s \in Slots : s # r => req'[s].at = "idle"
    BY <1>0, <2>1, <2>2, Slot
  <2> QED BY <2>3 DEF Solo
<1>2. ASSUME NEW r \in Slots, RemoveObjects(r) \/ Read(r) \/ PutConflicts(r)
      PROVE  Solo'
  <2>1. PICK e \in Calls \cup {Free} : req' = [req EXCEPT ![r] = e]
    BY <1>2, MoveEffect
  <2>2. req[r].at # "idle"
    BY <1>2 DEF RemoveObjects, Read, PutConflicts
  <2>3. \A s \in Slots : s # r => req'[s].at = "idle"
    BY <2>1, <2>2, Slot DEF Solo
  <2> QED BY <2>3 DEF Solo
<1>3. ASSUME NEW r \in Slots, PutLands(r)
      PROVE  Solo'
  <2>1. req' = [req EXCEPT ![r] = Free]
    BY <1>3, PutShapes
  <2>2. \A s \in Slots : req'[s].at # "idle" => req[s].at # "idle"
    BY <1>0, <2>1, Slot
  <2> QED BY <2>2 DEF Solo
<1>4. ASSUME NEW a, NEW d, SweepAsset(a, d)
      PROVE  Solo'
  <2>1. \A s \in Slots : req[s].at = "idle"
    BY <1>4, SweepEffect, Idle
  <2>2. CASE UNCHANGED req
    BY <2>2 DEF Solo
  <2>3. CASE \E q \in Calls : req' = [req EXCEPT ![Sweeper] = q]
    <3>1. \A s \in Slots : s # Sweeper => req'[s].at = "idle"
      BY <1>0, <2>1, <2>3, Slot
    <3> QED BY <3>1 DEF Solo
  <2> QED BY <1>4, <2>2, <2>3, SweepEffect
<1>5. CASE Stop
  BY <1>5, StopEffect DEF Solo
<1>6. ASSUME UNCHANGED req
      PROVE  Solo'
  BY <1>6 DEF Solo
<1>7. SweepTick \/ UNCHANGED vars => UNCHANGED req
  BY DEF SweepTick, vars
<1>8. ASSUME NEW a \in Assets, JobStarts(a) \/ JobEnds(a) \/ WindowPasses(a)
      PROVE  UNCHANGED req
  BY <1>8 DEF JobStarts, JobEnds, WindowPasses
<1> QED BY <1>1, <1>2, <1>3, <1>4, <1>5, <1>6, <1>7, <1>8, Steps

LEMMA GuardKept ==
  ASSUME AssetConstants, DocInv, OneAtATime, ~Sweeping, GuardInv, [Next]_vars
  PROVE  GuardInv'
<1> DEFINE Part(s) == /\ req[s].at = "objects" => req[s].op = "purge"
                      /\ req[s].at # "idle" /\ req[s].op = "purge" => Admitted(req[s])
<1>0. Sweeper \in Slots /\ Requests \subseteq Slots /\ Free.at = "idle"
  BY DEF Slots, Free
<1>a. Solo'
  BY SoloKept DEF GuardInv
<1>b. ~SweepTick /\ ~(\E t \in sweep.todo : SweepAsset(t[1], t[2]))
  BY DEF SweepTick, GuardInv
<1>c. (\A s \in Slots : Part(s)') /\ sweep'.todo = {} => GuardInv'
  BY <1>a DEF GuardInv
<1>d. \A s \in Slots : Part(s)
  BY DEF GuardInv
<1>1. ASSUME NEW r \in Requests, Ask(r)
      PROVE  GuardInv'
  <2>1. PICK q \in Calls : Asked(q) /\ req' = [req EXCEPT ![r] = q]
    BY <1>1, AskEffect
  <2>2. UNCHANGED <<doc, bytes, active, sweep>> /\ \A s \in Slots : req[s].at = "idle"
    BY <1>1, AskEffect, Idle
  <2>3. \A s \in Slots : req'[s] = IF s = r THEN q ELSE req[s]
    BY <1>0, <2>1, Slot
  <2>4. q.op = "purge" => Admitted(q)
    BY <2>1 DEF Asked, PurgeAdmitted, Admitted, Same
  <2>5. q.at = "objects" => q.op = "purge"
    BY <2>1 DEF Asked
  <2>6. Admitted(q) => Admitted(q)'
    BY <2>2 DEF Admitted, Live, SharedObject, Same
  <2>7. ASSUME NEW s \in Slots
        PROVE  Part(s)'
    BY <2>2, <2>3, <2>4, <2>5, <2>6 DEF Admitted, Live, SharedObject, Same
  <2> QED BY <1>c, <2>2, <2>7 DEF GuardInv
<1>2. ASSUME NEW r \in Slots, RemoveObjects(r) \/ Read(r) \/ PutConflicts(r)
      PROVE  GuardInv'
  <2> DEFINE q == req[r]
  <2>1. PICK e \in Calls \cup {Free} :
          /\ req' = [req EXCEPT ![r] = e]
          /\ e.at # "idle" => /\ e.at # "objects" /\ e.op = q.op
                              /\ e.a = q.a /\ e.arg = q.arg
                              /\ e.seen = q.seen \/ e.seen = doc[q.a]
    BY <1>2, MoveEffect
  <2>2. UNCHANGED <<doc, active, sweep>> /\ q.at # "idle"
    BY <1>2, MoveEffect DEF RemoveObjects, Read, PutConflicts
  <2>3. \A s \in Slots : req'[s] = IF s = r THEN e ELSE req[s]
    BY <2>1, Slot
  <2>4. ASSUME e.at # "idle", e.op = "purge"
        PROVE  Admitted(e)
    BY <1>d, <2>1, <2>2, <2>4 DEF Admitted, Live, SharedObject, Same
  <2>5. ASSUME NEW s \in Slots
        PROVE  Part(s)'
    BY <1>d, <2>1, <2>2, <2>3, <2>4 DEF Admitted, Live, SharedObject, Same
  <2> QED BY <1>c, <2>2, <2>5 DEF GuardInv
<1>3. ASSUME NEW r \in Slots, PutLands(r)
      PROVE  GuardInv'
  <2>1. req' = [req EXCEPT ![r] = Free] /\ req[r].at # "idle"
        /\ (sweep' = IF r = Sweeper THEN [sweep EXCEPT !.purged = @ \cup {req[r].a}] ELSE sweep)
    BY <1>3, PutShapes
  <2>a. \A s \in Slots : s # r => req[s].at = "idle"
    BY <2>1 DEF GuardInv, Solo
  <2>b. \A s \in Slots : req'[s] = IF s = r THEN Free ELSE req[s]
    BY <2>1, Slot
  <2>2. \A s \in Slots : req'[s].at = "idle"
    BY <1>0, <2>a, <2>b
  <2>3. sweep'.todo = {}
    BY <2>1 DEF GuardInv, DocInv, TypeInv
  <2> QED BY <1>c, <2>2, <2>3
<1>4. ASSUME NEW a \in Assets, JobStarts(a)
      PROVE  GuardInv'
  <2>1. UNCHANGED <<doc, req, sweep>> /\ \A s \in Slots : req[s].at = "idle"
    BY <1>4, Idle DEF JobStarts
  <2> QED BY <1>c, <2>1 DEF GuardInv
<1>5. ASSUME NEW a \in Assets, JobEnds(a)
      PROVE  GuardInv'
  <2>1. UNCHANGED <<doc, req, sweep>> /\ active' \subseteq active
    BY <1>5 DEF JobEnds
  <2>2. ASSUME NEW s \in Slots
        PROVE  Part(s)'
    BY <1>d, <2>1 DEF Admitted, Live, SharedObject, Same
  <2> QED BY <1>c, <2>1, <2>2 DEF GuardInv
<1>6. ASSUME NEW a \in Assets, WindowPasses(a)
      PROVE  GuardInv'
  <2>1. UNCHANGED <<bytes, active, req, sweep>>
    BY <1>6, WindowEffect
  <2>2. \A b \in Assets : /\ Same(doc'[b], doc[b]) /\ doc'[b].kind = doc[b].kind
                          /\ doc'[b].status = doc[b].status
                          /\ doc'[b].locked = doc[b].locked /\ doc'[b].key = doc[b].key
    BY <1>6, WindowEffect
  <2>3. ASSUME NEW s \in Slots
        PROVE  Part(s)'
    <3>1. CASE req[s].at # "idle"
      <4>1. req[s].a \in Assets
        BY <3>1, Calling DEF DocInv, TypeInv
      <4>2. Admitted(req[s]) => Admitted(req[s])'
        BY <2>1, <2>2, <4>1 DEF Admitted, Live, SharedObject, Same
      <4> QED BY <1>d, <2>1, <4>2
    <3>2. CASE req[s].at = "idle"
      BY <2>1, <3>2
    <3> QED BY <3>1, <3>2
  <2> QED BY <1>c, <2>1, <2>3 DEF GuardInv
<1>7. CASE Stop
  BY <1>7, <1>c, StopEffect
<1>8. CASE UNCHANGED vars
  <2>1. ASSUME NEW s \in Slots
        PROVE  Part(s)'
    BY <1>d, <1>8 DEF vars, Admitted, Live, SharedObject, Same
  <2> QED BY <1>c, <1>8, <2>1 DEF vars, GuardInv
<1> QED BY <1>b, <1>1, <1>2, <1>3, <1>4, <1>5, <1>6, <1>7, <1>8, Steps

LEMMA GuardHolds ==
  ASSUME AssetConstants, DocInv, GuardInv, [Next]_vars
  PROVE  PurgeGuarded /\ BytesUnreferenced
<1>1. PurgeGuarded
  <2> SUFFICES ASSUME NEW a \in Assets, Live(a), doc'[a].kind = "tombstone"
               PROVE  doc[a].status = "archived" /\ ~doc[a].locked /\ a \notin active
    BY DEF PurgeGuarded
  <2>1. ASSUME NEW b \in Assets, WindowPasses(b)
        PROVE  FALSE
    BY <2>1, WindowEffect DEF Live
  <2>2. PICK r \in Slots : PutLands(r)
    BY <2>1, Writers DEF Live
  <2>3. PICK f \in Docs :
          /\ doc' = [doc EXCEPT ![req[r].a] = f]
          /\ req[r].op \notin {"purge", "create"} => f.kind = "asset"
          /\ req[r].op = "create" => doc[req[r].a].kind = "absent" /\ f.kind = "asset"
    BY <2>2, PutShapes
  <2>4. a = req[r].a
    BY <2>3 DEF DocInv, TypeInv, Live
  <2>5. f.kind = "tombstone"
    BY <2>3, <2>4 DEF DocInv, TypeInv
  <2>6. req[r].op = "purge" /\ req[r].at # "idle"
    BY <2>2, <2>3, <2>5, PutShapes
  <2> QED BY <2>4, <2>6 DEF GuardInv, Admitted
<1>2. BytesUnreferenced
  <2> SUFFICES ASSUME NEW k \in bytes \ bytes'
               PROVE  Cardinality({b \in Assets : Live(b) /\ doc[b].key = k}) <= 1
    BY DEF BytesUnreferenced
  <2>1. PICK r \in Slots : RemoveObjects(r) \/ Read(r) \/ PutConflicts(r)
    <3>1. ASSUME NEW r \in Slots, PutLands(r)
          PROVE  bytes \subseteq bytes'
      BY <3>1 DEF PutLands
    <3>2. ASSUME NEW a, NEW d, SweepAsset(a, d)
          PROVE  bytes' = bytes
      BY <3>2 DEF SweepAsset
    <3>3. ASSUME \/ \E r \in Requests : Ask(r)
                 \/ SweepTick \/ Stop \/ UNCHANGED vars
                 \/ \E a \in Assets : JobStarts(a) \/ JobEnds(a)
                 \/ \E a \in Assets : WindowPasses(a)
          PROVE  bytes' = bytes
      BY <3>3 DEF Ask, SweepTick, Stop, vars, JobStarts, JobEnds, WindowPasses
    <3> QED BY <3>1, <3>2, <3>3, Steps
  <2> DEFINE q == req[r]
  <2>2. q.at = "objects" /\ k = q.seen.key
    BY <2>1, MoveEffect
  <2>3. Admitted(q) /\ q.a \in Assets
    BY <2>1, <2>2, MoveEffect DEF GuardInv
  <2>4. {b \in Assets : Live(b) /\ doc[b].key = k} \subseteq {q.a}
    BY <2>2, <2>3 DEF Admitted, SharedObject, Same
  <2>5. IsFiniteSet({q.a}) /\ Cardinality({q.a}) = 1
    BY FS_Singleton
  <2> HIDE DEF q
  <2>6. Cardinality({b \in Assets : Live(b) /\ doc[b].key = k}) <= Cardinality({q.a})
    BY <2>4, <2>5, FS_Subset
  <2> QED BY <2>5, <2>6
<1> QED BY <1>1, <1>2

(* Calls taken one after another, a tombstone replaces only an archived,   *)
(* unlocked document no active job names, and only objects that no other   *)
(* live document names are removed (the guards of DELETE /:id/purge, all   *)
(* evaluated before the first of its writes).                              *)
THEOREM PurgesGuarded ==
  ASSUME AssetConstants, OneAtATime, ~Sweeping
  PROVE  Spec => [][PurgeGuarded /\ BytesUnreferenced]_vars
<1>1. Init => DocInv /\ GuardInv
  <2> SUFFICES ASSUME Init PROVE DocInv /\ GuardInv
    OBVIOUS
  <2>1. \A r \in Slots : req[r].at = "idle"
    BY DEF Init, Slots, Free
  <2>2. sweep.todo = {}
    BY DEF Init
  <2> QED BY <2>1, <2>2, DocInvInit DEF GuardInv, Solo
<1>2. DocInv /\ GuardInv /\ [Next]_vars => (DocInv /\ GuardInv)'
  BY DocInvNext, GuardKept
<1>3. DocInv /\ GuardInv /\ [Next]_vars => PurgeGuarded /\ BytesUnreferenced
  BY GuardHolds
<1> QED BY <1>1, <1>2, <1>3, PTL DEF Spec

-----------------------------------------------------------------------------
(* No child outlives its parent.                                           *)

\* A put never gives a document back its life, nor a tombstone anything.
LEMMA PutLives ==
  ASSUME AssetConstants, DocInv, NEW r \in Slots, PutLands(r)
  PROVE  LET q == req[r]
         IN  /\ \A b \in Assets : b # q.a => doc'[b] = doc[b]
             /\ doc'[q.a].kind = IF q.op = "purge" THEN "tombstone" ELSE "asset"
             /\ doc[q.a].kind = IF q.op = "create" THEN "absent" ELSE "asset"
<1> DEFINE q == req[r]
<1>1. q.a \in Assets
  BY PutShapes
<1>2. PICK f \in Docs :
        /\ doc' = [doc EXCEPT ![q.a] = f]
        /\ q.op \notin {"purge", "create"} => doc[q.a].kind = "asset" /\ f.kind = "asset"
        /\ q.op = "purge" => doc[q.a].kind = "asset" /\ f.kind = "tombstone"
        /\ q.op = "create" => doc[q.a].kind = "absent" /\ f.kind = "asset"
  BY PutShapes
<1> QED BY <1>1, <1>2 DEF DocInv, TypeInv

LEMMA FamilyKept ==
  ASSUME AssetConstants, DocInv, OneAtATime, "purge" \notin Ops, FamilyInv, [Next]_vars
  PROVE  FamilyInv'
<1> DEFINE Part(s) ==
      req[s].at # "idle" =>
        /\ req[s].op = "purge" => Children(req[s].a) = {}
        /\ req[s].op = "create" /\ Parent[req[s].a] # None => Live(Parent[req[s].a])
        /\ s \in Requests => req[s].op # "purge"
<1>0. Sweeper \in Slots /\ Requests \subseteq Slots /\ Free.at = "idle" /\ Sweeper \notin Requests
  BY DEF Slots, Free, AssetConstants
<1>a. Solo'
  BY SoloKept DEF FamilyInv
<1> DEFINE Wholes == \A p \in sweep.purged : doc[p].kind = "tombstone"
           Families == \A c \in Assets :
                         Live(c) /\ Parent[c] # None => doc[Parent[c]].kind # "tombstone"
<1>b. (\A s \in Slots : Part(s)') /\ Wholes' /\ Families' => FamilyInv'
  BY <1>0, <1>a DEF FamilyInv
<1>c. (\A s \in Slots : Part(s)) /\ Wholes /\ Families
  BY <1>0 DEF FamilyInv
<1>d. UNCHANGED doc => Families'
  BY <1>c DEF Live
<1>e. UNCHANGED <<doc, sweep>> => Wholes'
  BY <1>c
<1>f. sweep.purged \subseteq Assets
  BY DEF DocInv, TypeInv
<1>1. ASSUME NEW r \in Requests, Ask(r)
      PROVE  FamilyInv'
  <2>1. PICK q \in Calls : Asked(q) /\ req' = [req EXCEPT ![r] = q]
    BY <1>1, AskEffect
  <2>2. UNCHANGED <<doc, bytes, active, sweep>> /\ \A s \in Slots : req[s].at = "idle"
    BY <1>1, AskEffect, Idle
  <2>3. \A s \in Slots : req'[s] = IF s = r THEN q ELSE req[s]
    BY <1>0, <2>1, Slot
  <2>4. q.op # "purge" /\ (q.op = "create" /\ Parent[q.a] # None => Live(Parent[q.a]))
    BY <2>1 DEF Asked
  <2>5. ASSUME NEW s \in Slots
        PROVE  Part(s)'
    BY <2>2, <2>3, <2>4 DEF Live
  <2> QED BY <1>b, <1>d, <1>e, <2>2, <2>5
<1>2. ASSUME NEW r \in Slots, RemoveObjects(r) \/ Read(r) \/ PutConflicts(r)
      PROVE  FamilyInv'
  <2> DEFINE q == req[r]
  <2>1. PICK e \in Calls \cup {Free} :
          /\ req' = [req EXCEPT ![r] = e]
          /\ e.at # "idle" => e.op = q.op /\ e.a = q.a
    BY <1>2, MoveEffect
  <2>2. UNCHANGED <<doc, active, sweep>> /\ q.at # "idle"
    BY <1>2, MoveEffect DEF RemoveObjects, Read, PutConflicts
  <2>3. \A s \in Slots : req'[s] = IF s = r THEN e ELSE req[s]
    BY <2>1, Slot
  <2>4. ASSUME NEW s \in Slots
        PROVE  Part(s)'
    BY <1>c, <2>1, <2>2, <2>3 DEF Live, Children
  <2> QED BY <1>b, <1>d, <1>e, <2>2, <2>4
<1>3. ASSUME NEW r \in Slots, PutLands(r)
      PROVE  FamilyInv'
  <2> DEFINE q == req[r]
  <2>1. q.a \in Assets /\ req' = [req EXCEPT ![r] = Free] /\ q.at # "idle"
        /\ (sweep' = IF r = Sweeper THEN [sweep EXCEPT !.purged = @ \cup {q.a}] ELSE sweep)
    BY <1>3, PutShapes
  <2>2. /\ \A b \in Assets : b # q.a => doc'[b] = doc[b]
        /\ doc'[q.a].kind = IF q.op = "purge" THEN "tombstone" ELSE "asset"
        /\ doc[q.a].kind = IF q.op = "create" THEN "absent" ELSE "asset"
    BY <1>3, PutLives
  <2>3. \A s \in Slots : s # r => req[s].at = "idle"
    BY <2>1 DEF FamilyInv, Solo
  <2>4. \A s \in Slots : req'[s] = IF s = r THEN Free ELSE req[s]
    BY <2>1, Slot
  <2>5. \A s \in Slots : req'[s].at = "idle"
    BY <1>0, <2>3, <2>4
  <2>6. r = Sweeper => q.op = "purge"
    BY <1>0, <2>1 DEF DocInv, SweeperInv
  <2>7. Wholes'
    <3>1. sweep'.purged \subseteq sweep.purged \cup IF r = Sweeper THEN {q.a} ELSE {}
      BY <2>1 DEF DocInv, TypeInv
    <3>2. ASSUME NEW p \in sweep'.purged
          PROVE  doc'[p].kind = "tombstone"
      <4>1. CASE p = q.a
        <5>1. p \in sweep.purged \/ r = Sweeper
          BY <3>1, <4>1
        <5>2. p \notin sweep.purged
          BY <1>c, <2>2, <4>1
        <5> QED BY <2>2, <2>6, <4>1, <5>1, <5>2
      <4>2. CASE p # q.a
        BY <1>c, <1>f, <2>2, <3>1, <4>2
      <4> QED BY <4>1, <4>2
    <3> QED BY <3>2
  <2>8. Families'
    <3> SUFFICES ASSUME NEW c \in Assets, Live(c)', Parent[c] # None
                 PROVE  doc'[Parent[c]].kind # "tombstone"
      OBVIOUS
    <3>1. Parent[c] \in Assets
      BY DEF AssetConstants
    <3>2. CASE Parent[c] = q.a /\ q.op = "purge"
      <4>1. Children(q.a) = {}
        BY <1>c, <2>1, <3>2
      <4>2. c # q.a
        BY <2>2, <3>2 DEF Live
      <4>3. Live(c)
        BY <2>2, <4>2 DEF Live
      <4> QED BY <3>2, <4>1, <4>3 DEF Children
    <3>3. CASE Parent[c] = q.a /\ q.op # "purge"
      BY <2>2, <3>3
    <3>4. CASE Parent[c] # q.a /\ c # q.a
      BY <1>c, <2>2, <3>1, <3>4 DEF Live
    <3>5. CASE Parent[c] # q.a /\ c = q.a
      <4>1. q.op # "purge"
        BY <2>2, <3>5 DEF Live
      <4>2. CASE q.op = "create"
        BY <1>c, <2>1, <2>2, <3>1, <3>5, <4>2 DEF Live
      <4>3. CASE q.op # "create"
        BY <1>c, <2>2, <3>1, <3>5, <4>3 DEF Live
      <4> QED BY <4>2, <4>3
    <3> QED BY <3>2, <3>3, <3>4, <3>5
  <2> QED BY <1>b, <2>5, <2>7, <2>8
<1>4. CASE SweepTick
  <2>1. UNCHANGED <<doc, req>> /\ sweep'.purged = {}
    BY <1>4 DEF SweepTick
  <2>2. ASSUME NEW s \in Slots
        PROVE  Part(s)'
    BY <1>c, <2>1 DEF Live, Children
  <2> QED BY <1>b, <1>d, <2>1, <2>2
<1>5. ASSUME NEW a, NEW d, SweepAsset(a, d)
      PROVE  FamilyInv'
  <2>1. UNCHANGED doc /\ sweep'.purged = sweep.purged /\ a \in Assets
    BY <1>5, SweepEffect
  <2>2. \A s \in Slots : req[s].at = "idle"
    BY <1>5, SweepEffect, Idle
  <2>3. CASE UNCHANGED req
    <3>1. ASSUME NEW s \in Slots
          PROVE  Part(s)'
      BY <2>2, <2>3
    <3> QED BY <1>b, <1>c, <1>d, <2>1, <3>1
  <2>4. CASE ~UNCHANGED req
    <3>1. ~BlockedByChild(a)
      BY <1>5, <2>4, SweepEffect
    <3>2. PICK q \in Calls :
            /\ q.op = "purge" /\ q.a = a
            /\ \A s \in Slots : req'[s] = IF s = Sweeper THEN q ELSE req[s]
      BY <1>5, <2>4, SweepCall
    <3>3. Children(a) = {}
      BY <1>c, <3>1 DEF BlockedByChild, Children, Live
    <3>4. Children(a)' = Children(a)
      BY <2>1 DEF Children, Live
    <3>5. ASSUME NEW s \in Slots
          PROVE  Part(s)'
      <4>1. CASE s = Sweeper
        <5>1. req'[s] = q
          BY <3>2, <4>1
        <5> QED BY <1>0, <3>2, <3>3, <3>4, <4>1, <5>1
      <4>2. CASE s # Sweeper
        <5>1. req'[s] = req[s]
          BY <3>2, <4>2
        <5> QED BY <2>2, <5>1
      <4> QED BY <4>1, <4>2
    <3> QED BY <1>b, <1>c, <1>d, <2>1, <3>5
  <2> QED BY <2>3, <2>4
<1>6. ASSUME NEW a \in Assets, JobStarts(a) \/ JobEnds(a)
      PROVE  FamilyInv'
  <2>1. UNCHANGED <<doc, req, sweep>>
    BY <1>6 DEF JobStarts, JobEnds
  <2>2. ASSUME NEW s \in Slots
        PROVE  Part(s)'
    BY <1>c, <2>1 DEF Live, Children
  <2> QED BY <1>b, <1>d, <1>e, <2>1, <2>2
<1>7. ASSUME NEW a \in Assets, WindowPasses(a)
      PROVE  FamilyInv'
  <2>1. UNCHANGED <<bytes, active, req, sweep>> /\ \A b \in Assets : doc'[b].kind = doc[b].kind
    BY <1>7, WindowEffect
  <2>2. Wholes'
    BY <1>c, <1>f, <2>1
  <2>3. Families'
    BY <1>c, <2>1 DEF Live, AssetConstants
  <2>4. ASSUME NEW s \in Slots
        PROVE  Part(s)'
    <3>1. CASE req[s].at = "idle"
      BY <2>1, <3>1
    <3>2. CASE req[s].at # "idle"
      <4>1. req[s].a \in Assets
        BY <3>2, Calling DEF DocInv, TypeInv
      <4>2. Parent[req[s].a] # None => (Live(Parent[req[s].a])' <=> Live(Parent[req[s].a]))
        BY <2>1, <4>1 DEF Live, AssetConstants
      <4>3. Children(req[s].a)' = Children(req[s].a)
        BY <2>1 DEF Children, Live
      <4> QED BY <1>c, <2>1, <4>2, <4>3
    <3> QED BY <3>1, <3>2
  <2> QED BY <1>b, <2>2, <2>3, <2>4
<1>8. CASE Stop
  <2>1. UNCHANGED doc /\ sweep'.purged = {} /\ \A s \in Slots : req'[s].at = "idle"
    BY <1>8, StopEffect
  <2> QED BY <1>b, <1>d, <2>1
<1>9. CASE UNCHANGED vars
  <2>1. UNCHANGED <<doc, req, sweep>>
    BY <1>9 DEF vars
  <2>2. ASSUME NEW s \in Slots
        PROVE  Part(s)'
    BY <1>c, <2>1 DEF Live, Children
  <2> QED BY <1>b, <1>d, <1>e, <2>1, <2>2
<1> QED BY <1>1, <1>2, <1>3, <1>4, <1>5, <1>6, <1>7, <1>8, <1>9, Steps

(* Calls and the sweep taken one after another, no live child points at a  *)
(* tombstone: the sweep spares a parent until every child is purged, and a *)
(* child is only made of a parent that lives (anyLiveChild, POST /).       *)
THEOREM FamiliesWhole ==
  ASSUME AssetConstants, OneAtATime, "purge" \notin Ops
  PROVE  Spec => []NoOrphanedChild
<1>1. Init => DocInv /\ FamilyInv
  <2> SUFFICES ASSUME Init PROVE DocInv /\ FamilyInv
    OBVIOUS
  <2>1. \A r \in Slots : req[r].at = "idle"
    BY DEF Init, Slots, Free
  <2>2. sweep.purged = {} /\ Requests \subseteq Slots
    BY DEF Init, Slots
  <2>3. \A c \in Assets : ~Live(c)
    BY Documents DEF Init, Live
  <2> QED BY <2>1, <2>2, <2>3, DocInvInit DEF FamilyInv, Solo
<1>2. DocInv /\ FamilyInv /\ [Next]_vars => (DocInv /\ FamilyInv)'
  BY DocInvNext, FamilyKept
<1>3. FamilyInv => NoOrphanedChild
  BY DEF FamilyInv, NoOrphanedChild
<1> QED BY <1>1, <1>2, <1>3, PTL DEF Spec

-----------------------------------------------------------------------------
(* Archived assets under retention, while no client restores.              *)

LEMMA RetiredStays ==
  ASSUME AssetConstants, DocInv, ArchiveInv, [Next]_vars, NEW a \in Assets, Retired(a)
  PROVE  Retired(a)'
<1>1. ASSUME NEW r \in Slots, PutLands(r)
      PROVE  Retired(a)'
  <2> DEFINE q == req[r]
  <2>1. q.a \in Assets /\ q.op # "restore" /\ q.op \in Operations
    BY <1>1, PutShapes DEF ArchiveInv
  <2>2. PICK f \in Docs :
          /\ doc' = [doc EXCEPT ![q.a] = f]
          /\ q.op \notin {"purge", "create"} => doc[q.a].kind = "asset" /\ f.kind = "asset"
          /\ q.op = "purge" => doc[q.a].kind = "asset" /\ f.kind = "tombstone"
          /\ q.op = "create" => doc[q.a].kind = "absent"
          /\ (q.op \notin {"purge", "create", "restore"} /\ doc[q.a].status = "archived")
                => f.status = "archived"
    BY <1>1, PutShapes
  <2>3. \A b \in Assets : doc'[b] = IF b = q.a THEN f ELSE doc[b]
    BY <2>2 DEF DocInv, TypeInv
  <2>4. CASE a # q.a
    BY <2>3, <2>4 DEF Retired, Live
  <2>5. CASE a = q.a
    <3>1. doc'[a] = f
      BY <2>3, <2>5
    <3> HIDE DEF q
    <3> QED BY <2>1, <2>2, <2>5, <3>1 DEF Retired, Live
  <2> QED BY <2>4, <2>5
<1>2. ASSUME NEW b \in Assets, WindowPasses(b)
      PROVE  Retired(a)'
  BY <1>2, WindowEffect DEF Retired, Live
<1>3. CASE UNCHANGED doc
  BY <1>3 DEF Retired, Live
<1> QED BY <1>1, <1>2, <1>3, Writers

LEMMA ArchiveKept ==
  ASSUME AssetConstants, DocInv, "restore" \notin Ops, ArchiveInv, [Next]_vars
  PROVE  ArchiveInv'
<1> DEFINE Part(s) == req[s].at # "idle" =>
                        /\ req[s].op # "restore"
                        /\ req[s].op = "purge" => Retired(req[s].a)
           Listed == \A t \in sweep.todo : Retired(t[1])
<1>0. Sweeper \in Slots /\ Requests \subseteq Slots /\ Free.at = "idle"
  BY DEF Slots, Free
<1>a. (\A s \in Slots : Part(s)') /\ Listed' => ArchiveInv'
  BY DEF ArchiveInv
<1>b. (\A s \in Slots : Part(s)) /\ Listed
  BY DEF ArchiveInv
<1>c. \A a \in Assets : Retired(a) => Retired(a)'
  BY RetiredStays
<1>d. \A s \in Slots : req[s].at # "idle" => req[s].a \in Assets
  BY Calling DEF DocInv, TypeInv
<1>e. \A t \in sweep.todo : t[1] \in Assets
  BY DEF DocInv, TypeInv
<1>f. ASSUME sweep'.todo \subseteq sweep.todo
      PROVE  Listed'
  BY <1>b, <1>c, <1>e, <1>f
<1>g. ASSUME NEW s \in Slots, req'[s] = req[s]
      PROVE  Part(s)'
  BY <1>b, <1>c, <1>d, <1>g
<1>1. ASSUME NEW r \in Requests, Ask(r)
      PROVE  ArchiveInv'
  <2>1. PICK q \in Calls : Asked(q) /\ req' = [req EXCEPT ![r] = q]
    BY <1>1, AskEffect
  <2>2. UNCHANGED <<doc, sweep>> /\ q.a \in Assets
    BY <1>1, AskEffect DEF Calls
  <2>3. \A s \in Slots : req'[s] = IF s = r THEN q ELSE req[s]
    BY <1>0, <2>1, Slot
  <2>4. q.op # "restore" /\ (q.op = "purge" => Retired(q.a)')
    BY <1>c, <2>1, <2>2 DEF Asked, PurgeAdmitted, Retired
  <2>5. ASSUME NEW s \in Slots
        PROVE  Part(s)'
    BY <1>g, <2>3, <2>4
  <2> QED BY <1>a, <1>f, <2>2, <2>5
<1>2. ASSUME NEW r \in Slots, RemoveObjects(r) \/ Read(r) \/ PutConflicts(r)
      PROVE  ArchiveInv'
  <2> DEFINE q == req[r]
  <2>1. PICK e \in Calls \cup {Free} :
          /\ req' = [req EXCEPT ![r] = e]
          /\ e.at # "idle" => e.op = q.op /\ e.a = q.a
    BY <1>2, MoveEffect
  <2>2. UNCHANGED <<doc, active, sweep>> /\ q.at # "idle"
    BY <1>2, MoveEffect DEF RemoveObjects, Read, PutConflicts
  <2>3. \A s \in Slots : req'[s] = IF s = r THEN e ELSE req[s]
    BY <2>1, Slot
  <2>a. Part(r) /\ q.a \in Assets
    BY <1>b, <1>d, <2>2
  <2>b. PICK b \in Assets : b = q.a
    BY <2>a
  <2>4. q.op # "restore" /\ (q.op = "purge" => Retired(b)')
    BY <1>c, <2>2, <2>a, <2>b
  <2>5. ASSUME NEW s \in Slots
        PROVE  Part(s)'
    <3>1. CASE s = r
      BY <2>1, <2>3, <2>4, <2>b, <3>1
    <3>2. CASE s # r
      BY <1>g, <2>3, <3>2
    <3> QED BY <3>1, <3>2
  <2> QED BY <1>a, <1>f, <2>2, <2>5
<1>3. ASSUME NEW r \in Slots, PutLands(r)
      PROVE  ArchiveInv'
  <2>1. req' = [req EXCEPT ![r] = Free]
        /\ (sweep' = IF r = Sweeper THEN [sweep EXCEPT !.purged = @ \cup {req[r].a}] ELSE sweep)
    BY <1>3, PutShapes
  <2>2. \A s \in Slots : req'[s] = IF s = r THEN Free ELSE req[s]
    BY <2>1, Slot
  <2>3. sweep'.todo = sweep.todo
    BY <2>1 DEF DocInv, TypeInv
  <2>4. ASSUME NEW s \in Slots
        PROVE  Part(s)'
    BY <1>0, <1>g, <2>2
  <2> QED BY <1>a, <1>f, <2>3, <2>4
<1>4. CASE SweepTick
  <2>1. UNCHANGED <<doc, req>>
    BY <1>4 DEF SweepTick
  <2>2. \A t \in sweep'.todo : t[1] \in Assets /\ Retired(t[1])
    BY <1>4 DEF SweepTick, Retired
  <2>3. Listed'
    BY <1>c, <2>2
  <2> QED BY <1>a, <1>g, <2>1, <2>3
<1>5. ASSUME NEW t \in sweep.todo, SweepAsset(t[1], t[2])
      PROVE  ArchiveInv'
  <2> DEFINE a == t[1]
  <2>1. sweep'.todo \subseteq sweep.todo /\ a \in Assets
    BY <1>5, SweepEffect
  <2>2. Retired(a)'
    BY <1>b, <1>c, <2>1
  <2>3. CASE UNCHANGED req
    BY <1>a, <1>f, <1>g, <2>1, <2>3
  <2>4. CASE ~UNCHANGED req
    <3>1. PICK q \in Calls :
            /\ q.op = "purge" /\ q.a = a
            /\ \A s \in Slots : req'[s] = IF s = Sweeper THEN q ELSE req[s]
      BY <1>5, <2>4, SweepCall
    <3>2. ASSUME NEW s \in Slots
          PROVE  Part(s)'
      <4>1. CASE s = Sweeper
        <5>1. req'[s] = q
          BY <3>1, <4>1
        <5> QED BY <2>2, <3>1, <5>1
      <4>2. CASE s # Sweeper
        BY <1>g, <3>1, <4>2
      <4> QED BY <4>1, <4>2
    <3> QED BY <1>a, <1>f, <2>1, <3>2
  <2> QED BY <2>3, <2>4
<1>6. ASSUME NEW a \in Assets, JobStarts(a) \/ JobEnds(a) \/ WindowPasses(a)
      PROVE  ArchiveInv'
  <2>1. UNCHANGED <<req, sweep>>
    BY <1>6 DEF JobStarts, JobEnds, WindowPasses
  <2> QED BY <1>a, <1>f, <1>g, <2>1
<1>7. CASE Stop
  BY <1>7, <1>a, StopEffect
<1>8. CASE UNCHANGED vars
  BY <1>8, <1>a, <1>f, <1>g DEF vars
<1> QED BY <1>1, <1>2, <1>3, <1>4, <1>5, <1>6, <1>7, <1>8, Steps

LEMMA ArchiveInit ==
  ASSUME AssetConstants, Init
  PROVE  ArchiveInv
<1>1. \A r \in Slots : req[r].at = "idle"
  BY DEF Init, Slots, Free
<1>2. sweep.todo = {}
  BY DEF Init
<1> QED BY <1>1, <1>2 DEF ArchiveInv

(* Whatever calls and sweeps interleave, stops included, and however old   *)
(* the listing a sweep works through: while no client restores, a          *)
(* tombstone replaces only an archived document.                           *)
THEOREM RetentionSpares ==
  ASSUME AssetConstants, "restore" \notin Ops
  PROVE  Spec => [][PurgedFromArchive]_vars
<1>1. Init => DocInv /\ ArchiveInv
  BY DocInvInit, ArchiveInit
<1>2. DocInv /\ ArchiveInv /\ [Next]_vars => (DocInv /\ ArchiveInv)'
  BY DocInvNext, ArchiveKept
<1>3. DocInv /\ ArchiveInv /\ [Next]_vars => PurgedFromArchive
  <2> SUFFICES ASSUME DocInv, ArchiveInv, [Next]_vars,
                      NEW a \in Assets, Live(a), doc'[a].kind = "tombstone"
               PROVE  doc[a].status = "archived"
    BY DEF PurgedFromArchive
  <2>1. ~(\E b \in Assets : WindowPasses(b)) /\ ~UNCHANGED doc
    BY WindowEffect DEF Live
  <2>2. PICK r \in Slots : PutLands(r)
    BY <2>1, Writers
  <2>3. /\ \A b \in Assets : b # req[r].a => doc'[b] = doc[b]
        /\ doc'[req[r].a].kind = IF req[r].op = "purge" THEN "tombstone" ELSE "asset"
        /\ req[r].at # "idle"
    BY <2>2, PutLives, PutShapes
  <2>4. a = req[r].a /\ req[r].op = "purge"
    BY <2>3 DEF Live
  <2> QED BY <2>3, <2>4 DEF ArchiveInv, Retired, Live
<1> QED BY <1>1, <1>2, <1>3, PTL DEF Spec

\* Nor points an asset at another's object.
LEMMA SourceKept ==
  ASSUME AssetConstants, DocInv, Ops \cap {"restore", "repoint"} = {}, SourceInv, [Next]_vars
  PROVE  SourceInv'
<1> DEFINE Part(s) == req[s].at # "idle" =>
                        /\ req[s].op # "repoint"
                        /\ req[s].op = "create" => req[s].arg = req[s].a
                        /\ req[s].at = "objects" => req[s].op = "purge" /\ req[s].seen.key = req[s].a
           Listed == \A t \in sweep.todo : t[2].key = t[1]
           Kept(b) == Live(b) => doc[b].key = b /\ (doc[b].status # "archived" => b \in bytes)
<1>0. Sweeper \in Slots /\ Requests \subseteq Slots /\ Free.at = "idle"
  BY DEF Slots, Free
<1>a. ASSUME \A s \in Slots : Part(s)', Listed', \A b \in Assets : Kept(b)'
      PROVE  SourceInv'
  <2>1. ArchiveInv'
    BY ArchiveKept DEF SourceInv
  <2> QED BY <1>a, <2>1 DEF SourceInv
<1>b. (\A s \in Slots : Part(s)) /\ Listed /\ (\A b \in Assets : Kept(b)) /\ ArchiveInv
  BY DEF SourceInv
<1>c. ASSUME NEW s \in Slots, req'[s] = req[s]
      PROVE  Part(s)'
  BY <1>b, <1>c
<1>d. ASSUME UNCHANGED <<doc, bytes>>
      PROVE  \A b \in Assets : Kept(b)'
  BY <1>b, <1>d DEF Live
<1>e. ASSUME sweep'.todo \subseteq sweep.todo
      PROVE  Listed'
  BY <1>b, <1>e
<1>1. ASSUME NEW r \in Requests, Ask(r)
      PROVE  SourceInv'
  <2>1. PICK q \in Calls : Asked(q) /\ req' = [req EXCEPT ![r] = q]
    BY <1>1, AskEffect
  <2>2. UNCHANGED <<doc, bytes, active, sweep>> /\ q.a \in Assets
    BY <1>1, AskEffect DEF Calls
  <2>3. \A s \in Slots : req'[s] = IF s = r THEN q ELSE req[s]
    BY <1>0, <2>1, Slot
  <2>4. /\ q.op # "repoint" /\ (q.op = "create" => q.arg = q.a)
        /\ q.at = "objects" => q.op = "purge" /\ q.seen.key = q.a
    BY <1>b, <2>1, <2>2 DEF Asked, PurgeAdmitted
  <2>5. ASSUME NEW s \in Slots
        PROVE  Part(s)'
    BY <1>c, <2>3, <2>4
  <2> QED BY <1>a, <1>d, <1>e, <2>2, <2>5
<1>2. ASSUME NEW r \in Slots, RemoveObjects(r) \/ Read(r) \/ PutConflicts(r)
      PROVE  SourceInv'
  <2>1. PICK q \in Calls : q = req[r] /\ q.a \in Assets /\ q.at # "idle"
    BY <1>2, MoveEffect DEF RemoveObjects, Read, PutConflicts
  <2>2. PICK e \in Calls \cup {Free} :
          /\ req' = [req EXCEPT ![r] = e]
          /\ e.at # "idle" => /\ e.at # "objects" /\ e.op = q.op /\ e.a = q.a /\ e.arg = q.arg
    BY <1>2, <2>1, MoveEffect
  <2>3. UNCHANGED <<doc, active, sweep>>
        /\ (bytes' = bytes \/ (q.at = "objects" /\ bytes' = bytes \ {q.seen.key}))
    BY <1>2, <2>1, MoveEffect
  <2>4. \A s \in Slots : req'[s] = IF s = r THEN e ELSE req[s]
    BY <2>2, Slot, ZenonT(30)
  <2>5. q.op # "repoint" /\ (q.op = "create" => q.arg = q.a)
    BY <1>b, <2>1
  <2>6. ASSUME NEW s \in Slots
        PROVE  Part(s)'
    <3>1. CASE s = r
      BY <2>2, <2>4, <2>5, <3>1
    <3>2. CASE s # r
      BY <1>c, <2>4, <3>2
    <3> QED BY <3>1, <3>2
  <2>7. \A b \in Assets : Kept(b)'
    <3>1. CASE bytes' = bytes
      BY <1>d, <2>3, <3>1
    <3>2. CASE q.at = "objects" /\ bytes' = bytes \ {q.seen.key}
      <4>1. q.seen.key = q.a /\ Retired(q.a)
        BY <1>b, <2>1, <3>2 DEF ArchiveInv
      <4>2. ASSUME NEW b \in Assets
            PROVE  Kept(b)'
        BY <1>b, <2>3, <3>2, <4>1 DEF Live, Retired
      <4> QED BY <4>2
    <3> QED BY <2>3, <3>1, <3>2
  <2> QED BY <1>a, <1>e, <2>3, <2>6, <2>7
<1>3. ASSUME NEW r \in Slots, PutLands(r)
      PROVE  SourceInv'
  <2>1. PICK q \in Calls : q = req[r] /\ q.a \in Assets /\ q.at # "idle" /\ q.op \in Operations
    BY <1>3, PutShapes
  <2>2. /\ req' = [req EXCEPT ![r] = Free]
        /\ bytes' = IF q.op = "create" THEN bytes \cup {q.a} ELSE bytes
    BY <1>3, <2>1, PutShapes
  <2>3. sweep' = IF r = Sweeper THEN [sweep EXCEPT !.purged = @ \cup {req[r].a}] ELSE sweep
    BY <1>3, PutShapes
  <2>4. PICK f \in Docs :
          /\ doc' = [doc EXCEPT ![q.a] = f]
          /\ q.op \notin {"purge", "create"} => doc[q.a].kind = "asset" /\ f.kind = "asset"
          /\ q.op = "purge" => f.kind = "tombstone"
          /\ q.op = "create" => f.key = q.arg
          /\ q.op \notin {"purge", "create", "repoint"} => f.key = doc[q.a].key
          /\ (q.op \notin {"purge", "create", "restore"} /\ doc[q.a].status = "archived")
                => f.status = "archived"
    BY <1>3, <2>1, PutShapes
  <2>5. \A s \in Slots : req'[s] = IF s = r THEN Free ELSE req[s]
    BY <2>2, Slot
  <2>6. sweep'.todo = sweep.todo
    BY <2>3 DEF DocInv, TypeInv
  <2>7. ASSUME NEW s \in Slots
        PROVE  Part(s)'
    BY <1>0, <1>c, <2>5
  <2>8. q.op \notin {"restore", "repoint"} /\ (q.op = "create" => q.arg = q.a)
    BY <1>b, <2>1 DEF ArchiveInv
  <2>9. ASSUME NEW b \in Assets
        PROVE  Kept(b)'
    <3>1. CASE b # q.a
      <4>1. doc'[b] = doc[b] /\ bytes \subseteq bytes'
        BY <2>2, <2>4, <3>1 DEF DocInv, TypeInv
      <4> QED BY <1>b, <4>1 DEF Live
    <3>2. CASE b = q.a
      <4>1. doc'[b] = f
        BY <2>4, <3>2 DEF DocInv, TypeInv
      <4>2. CASE q.op = "create"
        BY <2>2, <2>4, <2>8, <3>2, <4>1, <4>2
      <4>3. CASE q.op = "purge"
        BY <2>4, <4>1, <4>3 DEF Live
      <4>4. CASE q.op \notin {"create", "purge"}
        BY <1>b, <2>2, <2>4, <2>8, <3>2, <4>1, <4>4 DEF Live
      <4> QED BY <4>2, <4>3, <4>4
    <3> QED BY <3>1, <3>2
  <2> QED BY <1>a, <1>e, <2>6, <2>7, <2>9
<1>4. CASE SweepTick
  <2>1. UNCHANGED <<doc, bytes, req>>
    BY <1>4 DEF SweepTick
  <2>2. Listed'
    BY <1>4, <1>b DEF SweepTick
  <2> QED BY <1>a, <1>c, <1>d, <2>1, <2>2
<1>5. ASSUME NEW t \in sweep.todo, SweepAsset(t[1], t[2])
      PROVE  SourceInv'
  <2>1. UNCHANGED <<doc, bytes>> /\ sweep'.todo \subseteq sweep.todo
    BY <1>5, SweepEffect
  <2>2. t[2].key = t[1]
    BY <1>b
  <2>3. CASE UNCHANGED req
    BY <1>a, <1>c, <1>d, <1>e, <2>1, <2>3
  <2>4. CASE ~UNCHANGED req
    <3>1. PICK q \in Calls :
            /\ q.op = "purge" /\ q.a = t[1] /\ q.seen = t[2]
            /\ \A s \in Slots : req'[s] = IF s = Sweeper THEN q ELSE req[s]
      BY <1>5, <2>4, SweepCall
    <3>2. ASSUME NEW s \in Slots
          PROVE  Part(s)'
      <4>1. CASE s = Sweeper
        <5>1. req'[s] = q
          BY <3>1, <4>1
        <5> QED BY <2>2, <3>1, <5>1
      <4>2. CASE s # Sweeper
        BY <1>c, <3>1, <4>2
      <4> QED BY <4>1, <4>2
    <3> QED BY <1>a, <1>d, <1>e, <2>1, <3>2
  <2> QED BY <2>3, <2>4
<1>6. ASSUME NEW a \in Assets, JobStarts(a) \/ JobEnds(a)
      PROVE  SourceInv'
  <2>1. UNCHANGED <<doc, bytes, req, sweep>>
    BY <1>6 DEF JobStarts, JobEnds
  <2> QED BY <1>a, <1>c, <1>d, <1>e, <2>1
<1>7. ASSUME NEW a \in Assets, WindowPasses(a)
      PROVE  SourceInv'
  <2>1. UNCHANGED <<bytes, req, sweep>>
        /\ \A b \in Assets : /\ doc'[b].kind = doc[b].kind /\ doc'[b].key = doc[b].key
                             /\ doc'[b].status = doc[b].status
    BY <1>7, WindowEffect
  <2>2. \A b \in Assets : Kept(b)'
    BY <1>b, <2>1 DEF Live
  <2> QED BY <1>a, <1>c, <1>e, <2>1, <2>2
<1>8. CASE Stop
  <2>1. UNCHANGED <<doc, bytes>> /\ sweep'.todo = {} /\ \A s \in Slots : req'[s].at = "idle"
    BY <1>8, StopEffect
  <2> QED BY <1>a, <1>d, <2>1
<1>9. CASE UNCHANGED vars
  BY <1>9, <1>a, <1>c, <1>d, <1>e DEF vars
<1> QED BY <1>1, <1>2, <1>3, <1>4, <1>5, <1>6, <1>7, <1>8, <1>9, Steps

(* Under the same hypothesis, and with objects named by their own asset, a *)
(* ready asset has its source: a sweep that works through an old listing   *)
(* removes no object of an asset that is served.                           *)
THEOREM ReadyServed ==
  ASSUME AssetConstants, Ops \cap {"restore", "repoint"} = {}
  PROVE  Spec => []ReadyHasSource
<1>1. Init => DocInv /\ SourceInv
  <2> SUFFICES ASSUME Init PROVE DocInv /\ SourceInv
    OBVIOUS
  <2>1. \A r \in Slots : req[r].at = "idle"
    BY DEF Init, Slots, Free
  <2>2. sweep.todo = {} /\ \A a \in Assets : ~Live(a)
    BY Documents DEF Init, Live
  <2> QED BY <2>1, <2>2, DocInvInit, ArchiveInit DEF SourceInv
<1>2. DocInv /\ SourceInv /\ [Next]_vars => (DocInv /\ SourceInv)'
  BY DocInvNext, SourceKept
<1>3. SourceInv => ReadyHasSource
  BY DEF SourceInv, ReadyHasSource
<1> QED BY <1>1, <1>2, <1>3, PTL DEF Spec

===============================================================================
