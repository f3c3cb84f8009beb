------------------------ MODULE AssetIdentityProofs ------------------------
(***************************************************************************)
(* What holds of the assets' slugs, external ids, versions and lists,      *)
(* proved with TLAPS.  However requests interleave, no write touches a     *)
(* document's pairs or metadata but the one about them, and versions stay  *)
(* in one group.  With one request at a time slugs and pairs are unique    *)
(* and lists keep what was put on them: SerialInv is the invariant, over   *)
(* the types and the pairing of requests with documents of IdentityInv.    *)
(***************************************************************************)
EXTENDS AssetIdentity, TLAPS

---------------------------------------------------------------------------
(* Shapes.                                                                 *)

\* Slugs of an asset's own (made up, or with a random tail), and asked ones.
Own(a) == {a} \X (Stems \cup Clients \cup {0})
Asked == Stems \X Nat
Slugs == (Assets \X (Stems \cup Clients \cup {0})) \cup Asked

Docs ==
  [slug : Slugs, of : Assets \cup {None}, group : Assets \cup {None},
   status : {"uploading", "ready", "processing", "failed"}, rev : Nat,
   tags : SUBSET Labels, tracks : SUBSET Labels, meta : SUBSET Labels, ids : SUBSET Pairs]
Keeping ==
  [tags : SUBSET Labels, tracks : SUBSET Labels, meta : SUBSET Labels, ids : SUBSET Pairs]

\* Requests by what they are about.
Creating ==
  [kind : {"create"}, at : {"slug", "put"}, asset : {None}, arg : Stems, seen : {{}}, rev : {0},
   n : Nat, group : {None}]
Naming ==
  [kind : {"attach", "detach"}, at : {"get", "owner", "put"}, asset : Assets, arg : Pairs,
   seen : SUBSET Pairs, rev : Nat, n : Nat, group : {None}]
Listing ==
  [kind : {"add", "remove"}, at : Lists, asset : Assets, arg : Labels, seen : SUBSET Labels,
   rev : {0}, n : Nat, group : {None}]
Describing ==
  [kind : {"merge", "replace"}, at : {"meta"}, asset : Assets, arg : Labels,
   seen : SUBSET Labels, rev : {0}, n : Nat, group : {None}]
Versioning ==
  [kind : {"version"}, at : {"seed", "child", "encode"}, asset : Assets, arg : {None},
   seen : {{}}, rev : Nat, n : Nat, group : Assets]
Asking == Creating \cup Naming \cup Listing \cup Describing \cup Versioning

\* What the proofs ask of the constants: None is a value of its own, and what
\* callers ask for is no asset's id.
IdentityConstants ==
  /\ None \notin Assets /\ None \notin Docs /\ None # Tombstone
  /\ Old \subseteq Assets /\ Stems \cap Assets = {}

TypeInv ==
  /\ doc \in [Assets -> Docs \cup {None, Tombstone}]
  /\ req \in [Clients -> Asking \cup {Idle}]
  /\ kept \in [Assets -> Keeping]

---------------------------------------------------------------------------
(* The invariant of any interleaving.                                      *)

\* What a request under way has to go on: its asset was there; the pairs it read
\* are those of the revision it read; and the group it will give a version is
\* its source's.
Sound(r) ==
  /\ r.asset # None => doc[r.asset] # None
  /\ r \in Naming /\ r.at \in {"owner", "put"} /\ Live(r.asset) =>
       /\ r.rev <= doc[r.asset].rev
       /\ r.rev = doc[r.asset].rev => doc[r.asset].ids = r.seen
  /\ r.at = "seed" => r.group = r.asset
  /\ r.at = "seed" /\ Live(r.asset) => doc[r.asset].group \in {None, r.asset}
  /\ r.at = "child" /\ Live(r.asset) => doc[r.asset].group = r.group

\* A version has its source's group, and its source was there.
Family ==
  \A a \in Assets : Live(a) /\ doc[a].of # None =>
    /\ doc[doc[a].of] # None /\ doc[a].group # None
    /\ Live(doc[a].of) => doc[doc[a].of].group = doc[a].group

\* Nothing is kept for a document that is not there.
NoneKept == \A a \in Assets : Live(a) \/ kept[a] = Nothing

IdentityInv ==
  /\ TypeInv /\ NoneKept /\ Family /\ PairsKept /\ MetaKept
  /\ \A c \in Clients : Sound(req[c])

\* What a step may do to a document: create it, write it with a new revision,
\* or purge it.
Moves(a) ==
  \/ doc'[a] = doc[a]
  \/ /\ doc[a] = None /\ doc'[a] \in Docs
     /\ doc'[a].of # None =>
          /\ doc'[a].group # None /\ Live(doc'[a].of)
          /\ doc[doc'[a].of].group = doc'[a].group
  \/ /\ Live(a) /\ doc'[a] \in Docs /\ doc'[a].rev = doc[a].rev + 1
     /\ doc'[a].of = doc[a].of
     /\ doc'[a].group # doc[a].group => doc[a].group = None /\ doc'[a].group = a
  \/ Live(a) /\ doc'[a] = Tombstone

LEMMA LiveIs ==
  ASSUME IdentityConstants, TypeInv, NEW a \in Assets
  PROVE  (Live(a) <=> doc[a] \in Docs) /\ Tombstone \notin Docs /\ None \notin Docs
<1>1. Tombstone \notin Docs
  BY DEF Tombstone, Document, Docs
<1> QED BY <1>1 DEF Live, IdentityConstants, TypeInv

\* What was there stays there, and what is live after was live before, or is new.
LEMMA Lives ==
  ASSUME IdentityConstants, TypeInv, NEW a \in Assets, Moves(a)
  PROVE  /\ doc[a] # None => doc'[a] # None
         /\ Live(a)' /\ doc[a] # None =>
              /\ Live(a) /\ doc[a] \in Docs /\ doc'[a] \in Docs /\ doc'[a].of = doc[a].of
              /\ doc'[a] = doc[a] \/ doc'[a].rev = doc[a].rev + 1
              /\ doc'[a].group = doc[a].group \/ (doc[a].group = None /\ doc'[a].group = a)
<1>1. (Live(a) <=> doc[a] \in Docs) /\ Tombstone \notin Docs /\ None \notin Docs
  BY LiveIs
<1> QED BY <1>1 DEF Moves, Live, TypeInv, IdentityConstants

LEMMA SoundStays ==
  ASSUME IdentityConstants, TypeInv, NEW q \in Asking \cup {Idle}, Sound(q),
         \A a \in Assets : Moves(a)
  PROVE  Sound(q)'
<1>1. CASE q \notin Naming \cup Versioning
  <2>1. q.asset = None \/ q.asset \in Assets
    BY DEF Asking, Creating, Listing, Describing, Naming, Versioning, Idle
  <2>2. q.at \notin {"seed", "child"}
    BY <1>1 DEF Asking, Creating, Listing, Describing, Lists, Idle
  <2> QED BY <1>1, <2>1, <2>2, Lives DEF Sound
<1>2. CASE q \in Naming
  <2>1. q.asset \in Assets /\ q.asset # None /\ q.at \notin {"seed", "child"} /\ q.rev \in Nat
    BY <1>2 DEF Naming, IdentityConstants
  <2> DEFINE d == doc[q.asset]  e == doc'[q.asset]
  <2>2. e # None
    BY <2>1, Lives DEF Sound
  <2>3. ASSUME Live(q.asset)', q.at \in {"owner", "put"}
        PROVE  q.rev <= e.rev /\ (q.rev = e.rev => e.ids = q.seen)
    <3>1. /\ Live(q.asset) /\ d \in Docs /\ (e = d \/ e.rev = d.rev + 1)
      BY <2>1, <2>3, Lives DEF Sound
    <3>2. q.rev <= d.rev /\ (q.rev = d.rev => d.ids = q.seen) /\ d.rev \in Nat
      BY <1>2, <2>3, <3>1 DEF Sound, Docs
    <3> HIDE DEF d, e
    <3> QED BY <2>1, <3>1, <3>2
  <2> QED BY <2>1, <2>2, <2>3 DEF Sound
<1>3. CASE q \in Versioning
  <2>1. q.asset \in Assets /\ q.group \in Assets /\ q \notin Naming
    BY <1>3 DEF Versioning, Naming
  <2>2. doc[q.asset] # None /\ doc'[q.asset] # None
    BY <2>1, Lives DEF Sound, IdentityConstants
  <2>3. Live(q.asset)' =>
          /\ Live(q.asset)
          /\ \/ doc'[q.asset].group = doc[q.asset].group
             \/ doc[q.asset].group = None /\ doc'[q.asset].group = q.asset
    BY <2>1, <2>2, Lives
  <2> QED BY <2>1, <2>2, <2>3 DEF Sound, IdentityConstants
<1> QED BY <1>1, <1>2, <1>3

LEMMA FamilyStays ==
  ASSUME IdentityConstants, TypeInv, Family, \A a \in Assets : Moves(a)
  PROVE  Family'
<1>1. SUFFICES ASSUME NEW a \in Assets, Live(a)', doc'[a].of # None
               PROVE  /\ doc'[doc'[a].of] # None /\ doc'[a].group # None
                      /\ Live(doc[a].of)' => doc'[doc'[a].of].group = doc'[a].group
  BY DEF Family
<1>2. PICK b \in Assets : b = doc'[a].of
  <2>1. doc'[a] \in Docs
    BY <1>1, LiveIs, Lives DEF Moves, Live
  <2> QED BY <1>1, <2>1 DEF Docs
<1>3. Moves(a) /\ Moves(b)
  OBVIOUS
<1>4. CASE doc[a] = None
  <2>1. doc'[a].group # None /\ Live(b) /\ doc[b].group = doc'[a].group
    BY <1>1, <1>2, <1>4 DEF Moves, Live
  <2> QED BY <1>2, <2>1, Lives DEF Live
<1>5. CASE doc[a] # None
  <2>1. Live(a) /\ doc[a].of = b /\ (doc'[a].group = doc[a].group
               \/ (doc[a].group = None /\ doc'[a].group = a))
    BY <1>1, <1>2, <1>5, Lives
  <2>2. doc[b] # None /\ doc[a].group # None /\ (Live(b) => doc[b].group = doc[a].group)
    BY <1>1, <1>2, <2>1 DEF Family
  <2> QED BY <1>2, <2>1, <2>2, Lives
<1> QED BY <1>4, <1>5

\* A step of c that leaves its request as p keeps the invariant.
LEMMA StepKeeps ==
  ASSUME IdentityConstants, IdentityInv, NEW c \in Clients, NEW p \in Asking \cup {Idle},
         req' = [req EXCEPT ![c] = p], Sound(p)', \A a \in Assets : Moves(a),
         doc' \in [Assets -> Docs \cup {None, Tombstone}], kept' \in [Assets -> Keeping],
         NoneKept', PairsKept', MetaKept'
  PROVE  IdentityInv'
<1>1. TypeInv'
  BY DEF IdentityInv, TypeInv
<1>2. ASSUME NEW e \in Clients
      PROVE  Sound(req[e])'
  <2>1. CASE e = c
    BY <2>1 DEF IdentityInv, TypeInv
  <2>2. CASE e # c
    <3>1. PICK q \in Asking \cup {Idle} : q = req[e]
      BY DEF IdentityInv, TypeInv
    <3>2. Sound(q)'
      BY <3>1, SoundStays DEF IdentityInv
    <3>3. req'[e] = q
      BY <2>2, <3>1 DEF IdentityInv, TypeInv
    <3> QED BY <3>2, <3>3
  <2> QED BY <2>1, <2>2
<1>3. Family'
  BY FamilyStays DEF IdentityInv
<1> QED BY <1>1, <1>2, <1>3 DEF IdentityInv

\* One that writes no document.
LEMMA AskKeeps ==
  ASSUME IdentityConstants, IdentityInv, NEW c \in Clients, NEW p \in Asking \cup {Idle},
         req' = [req EXCEPT ![c] = p], Sound(p), UNCHANGED <<doc, kept>>
  PROVE  IdentityInv'
<1>1. /\ doc' \in [Assets -> Docs \cup {None, Tombstone}] /\ kept' \in [Assets -> Keeping]
      /\ \A a \in Assets : Moves(a)
  BY DEF IdentityInv, TypeInv, Moves
<1>2. NoneKept' /\ PairsKept' /\ MetaKept'
  BY DEF IdentityInv, NoneKept, PairsKept, MetaKept, Preserved, Live
<1>3. Sound(p)'
  BY DEF Sound, Live
<1> QED BY <1>1, <1>2, <1>3, StepKeeps

\* One that writes the document of a live asset and ends the request or goes on
\* with one that asks for no revision.
LEMMA WriteKeeps ==
  ASSUME IdentityConstants, IdentityInv, NEW c \in Clients, NEW p \in Asking \cup {Idle},
         req' = [req EXCEPT ![c] = p],
         NEW a \in Assets, Live(a), NEW d \in Docs, d.rev = doc[a].rev + 1, d.of = doc[a].of,
         d.group # doc[a].group => doc[a].group = None /\ d.group = a,
         doc' = [doc EXCEPT ![a] = d],
         NEW k \in Keeping, kept' = [kept EXCEPT ![a] = k], k.ids \subseteq d.ids,
         k.meta \subseteq d.meta,
         p = Idle \/ (p \in Versioning /\ p.at = "child" /\ p.asset = a /\ p.group = d.group)
  PROVE  IdentityInv'
<1>1. doc' \in [Assets -> Docs \cup {None, Tombstone}] /\ kept' \in [Assets -> Keeping]
  BY DEF IdentityInv, TypeInv
<1>2. doc'[a] = d /\ (\A b \in Assets \ {a} : doc'[b] = doc[b]) /\ \A b \in Assets : Moves(b)
  BY DEF IdentityInv, TypeInv, Moves
<1>3. kept'[a] = k /\ \A b \in Assets \ {a} : kept'[b] = kept[b]
  BY DEF IdentityInv, TypeInv
<1>4. NoneKept' /\ PairsKept' /\ MetaKept'
  <2>1. Live(a)' /\ \A b \in Assets \ {a} : Live(b)' = Live(b)
    BY <1>2, LiveIs DEF IdentityInv, Live
  <2> QED BY <1>2, <1>3, <2>1 DEF IdentityInv, NoneKept, PairsKept, MetaKept, Preserved
<1>5. Sound(p)'
  <2>1. d # None
    BY DEF IdentityConstants
  <2> QED BY <1>2, <2>1 DEF Sound, Idle, Versioning, Naming, IdentityConstants
<1> QED BY <1>1, <1>2, <1>4, <1>5, StepKeeps

\* One that puts a new document.
LEMMA NewKeeps ==
  ASSUME IdentityConstants, IdentityInv, NEW c \in Clients, NEW p \in Asking \cup {Idle},
         req' = [req EXCEPT ![c] = p],
         NEW a \in Assets, doc[a] = None, NEW d \in Docs, doc' = [doc EXCEPT ![a] = d],
         UNCHANGED kept,
         d.of # None => d.group # None /\ d.of \in Assets /\ Live(d.of) /\ doc[d.of].group = d.group,
         p = Idle \/ (p \in Versioning /\ p.at = "encode" /\ p.asset = a)
  PROVE  IdentityInv'
<1>1. doc' \in [Assets -> Docs \cup {None, Tombstone}] /\ kept' \in [Assets -> Keeping]
  BY DEF IdentityInv, TypeInv
<1>2. doc'[a] = d /\ (\A b \in Assets \ {a} : doc'[b] = doc[b]) /\ \A b \in Assets : Moves(b)
  BY DEF IdentityInv, TypeInv, Moves
<1>3. NoneKept' /\ PairsKept' /\ MetaKept'
  <2>1. ~Live(a) /\ Live(a)' /\ \A b \in Assets \ {a} : Live(b)' = Live(b)
    BY <1>2, LiveIs DEF IdentityInv, Live
  <2>2. kept[a] = Nothing
    BY <2>1 DEF IdentityInv, NoneKept
  <2> QED
    BY <1>2, <2>1, <2>2 DEF IdentityInv, NoneKept, PairsKept, MetaKept, Preserved, Nothing
<1>4. Sound(p)'
  <2>1. d # None
    BY DEF IdentityConstants
  <2> QED BY <1>2, <2>1 DEF Sound, Idle, Versioning, Naming
<1> QED BY <1>1, <1>2, <1>3, <1>4, StepKeeps

\* A purge, whose request is over at once.
LEMMA PurgeKeeps ==
  ASSUME IdentityConstants, IdentityInv, NEW c \in Clients, NEW a \in Assets, Purge(c, a)
  PROVE  IdentityInv'
<1>1. /\ Live(a) /\ req' = [req EXCEPT ![c] = req[c]]
      /\ doc' = [doc EXCEPT ![a] = Tombstone] /\ kept' = [kept EXCEPT ![a] = Nothing]
  BY DEF Purge, IdentityInv, TypeInv
<1>2. Nothing \in Keeping
  BY DEF Nothing, Keeping
<1>3. doc' \in [Assets -> Docs \cup {None, Tombstone}] /\ kept' \in [Assets -> Keeping]
  BY <1>1, <1>2 DEF IdentityInv, TypeInv
<1>4. /\ doc'[a] = Tombstone /\ (\A b \in Assets \ {a} : doc'[b] = doc[b])
      /\ \A b \in Assets : Moves(b)
  BY <1>1 DEF IdentityInv, TypeInv, Moves
<1>5. NoneKept' /\ PairsKept' /\ MetaKept'
  <2>1. ~Live(a)' /\ \A b \in Assets \ {a} : Live(b)' = Live(b)
    BY <1>4 DEF Live
  <2> QED BY <1>1, <1>4, <2>1 DEF IdentityInv, TypeInv, NoneKept, PairsKept, MetaKept, Preserved
<1>6. PICK q \in Asking \cup {Idle} : q = req[c]
  BY DEF IdentityInv, TypeInv
<1>7. Sound(q)'
  BY <1>4, <1>6, SoundStays DEF IdentityInv
<1> QED BY <1>1, <1>3, <1>4, <1>5, <1>6, <1>7, StepKeeps

---------------------------------------------------------------------------
(* The steps of a request.                                                 *)

\* A request that is made asks of a live asset, or of none.
LEMMA RequestsKeep ==
  ASSUME IdentityConstants, IdentityInv, NEW c \in Clients, Asks(c)
  PROVE  IdentityInv'
<1>1. CASE \E s \in Stems : CreateStart(c, s)
  <2>1. PICK s \in Stems : CreateStart(c, s)
    BY <1>1
  <2> DEFINE p == [Idle EXCEPT !.kind = "create", !.at = "slug", !.arg = s]
  <2>2. p \in Creating /\ p.asset = None /\ p.at = "slug"
    BY DEF Idle, Creating
  <2>3. req' = [req EXCEPT ![c] = p] /\ UNCHANGED <<doc, kept>>
    BY <2>1 DEF CreateStart
  <2> HIDE DEF p
  <2>4. Sound(p)
    BY <2>2 DEF Sound, Naming
  <2> QED BY <2>2, <2>3, <2>4, AskKeeps DEF Asking
<1>2. CASE \E k \in {"attach", "detach"}, a \in Assets, x \in Pairs : PairRequest(c, k, a, x)
  <2>1. PICK k \in {"attach", "detach"}, a \in Assets, x \in Pairs : PairRequest(c, k, a, x)
    BY <1>2
  <2> DEFINE p == [Idle EXCEPT !.kind = k, !.at = "get", !.asset = a, !.arg = x]
  <2>2. p \in Naming /\ p.asset = a /\ p.at = "get"
    BY DEF Idle, Naming
  <2>3. req' = [req EXCEPT ![c] = p] /\ UNCHANGED <<doc, kept>> /\ Live(a)
    BY <2>1 DEF PairRequest
  <2> HIDE DEF p
  <2>4. Sound(p)
    BY <2>2, <2>3 DEF Sound, Live
  <2> QED BY <2>2, <2>3, <2>4, AskKeeps DEF Asking
<1>3. CASE \E k \in {"add", "remove"}, a \in Assets, f \in Lists, x \in Labels :
             ListRequest(c, k, a, f, x)
  <2>1. PICK k \in {"add", "remove"}, a \in Assets, f \in Lists, x \in Labels :
               ListRequest(c, k, a, f, x)
    BY <1>3
  <2> DEFINE p == [Idle EXCEPT !.kind = k, !.at = f, !.asset = a, !.arg = x, !.seen = doc[a][f]]
  <2>2. doc[a][f] \in SUBSET Labels
    BY <2>1, LiveIs DEF ListRequest, IdentityInv, Docs, Lists
  <2>3. p \in Listing /\ p.asset = a /\ p.at \in Lists
    BY <2>2 DEF Idle, Listing
  <2>4. req' = [req EXCEPT ![c] = p] /\ UNCHANGED <<doc, kept>> /\ Live(a)
    BY <2>1 DEF ListRequest
  <2> HIDE DEF p
  <2>5. Sound(p)
    BY <2>3, <2>4 DEF Sound, Live, Lists
  <2> QED BY <2>3, <2>4, <2>5, AskKeeps DEF Asking
<1>4. CASE \E k \in {"merge", "replace"}, a \in Assets, x \in Labels : MetaRequest(c, k, a, x)
  <2>1. PICK k \in {"merge", "replace"}, a \in Assets, x \in Labels : MetaRequest(c, k, a, x)
    BY <1>4
  <2> DEFINE p == [Idle EXCEPT !.kind = k, !.at = "meta", !.asset = a, !.arg = x, !.seen = doc[a].meta]
  <2>2. doc[a].meta \in SUBSET Labels
    BY <2>1, LiveIs DEF MetaRequest, IdentityInv, Docs
  <2>3. p \in Describing /\ p.asset = a /\ p.at = "meta"
    BY <2>2 DEF Idle, Describing
  <2>4. req' = [req EXCEPT ![c] = p] /\ UNCHANGED <<doc, kept>> /\ Live(a)
    BY <2>1 DEF MetaRequest
  <2> HIDE DEF p
  <2>5. Sound(p)
    BY <2>3, <2>4 DEF Sound, Live
  <2> QED BY <2>3, <2>4, <2>5, AskKeeps DEF Asking
<1>5. CASE \E a \in Assets : VersionStart(c, a)
  <2>1. PICK a \in Assets : VersionStart(c, a)
    BY <1>5
  <2> DEFINE p == [Idle EXCEPT !.kind = "version", !.asset = a, !.rev = doc[a].rev,
                     !.group = GroupOf(a),
                     !.at = IF doc[a].group = None THEN "seed" ELSE "child"]
  <2>2. Live(a) /\ doc[a].rev \in Nat /\ doc[a].group \in Assets \cup {None}
    BY <2>1, LiveIs DEF VersionStart, IdentityInv, Docs
  <2>3. /\ p \in Versioning /\ p.asset = a /\ p.group = GroupOf(a)
        /\ p.at = IF doc[a].group = None THEN "seed" ELSE "child"
    BY <2>2 DEF Idle, Versioning, GroupOf
  <2>4. req' = [req EXCEPT ![c] = p] /\ UNCHANGED <<doc, kept>>
    BY <2>1 DEF VersionStart
  <2> HIDE DEF p
  <2>5. Sound(p)
    BY <2>2, <2>3 DEF Sound, Live, GroupOf
  <2> QED BY <2>3, <2>4, <2>5, AskKeeps DEF Asking
<1>6. CASE \E a \in Assets : Purge(c, a)
  BY <1>6, PurgeKeeps
<1> QED BY <1>1, <1>2, <1>3, <1>4, <1>5, <1>6 DEF Asks

\* A request that reads, waits or is given up.
LEMMA LooksKeep ==
  ASSUME IdentityConstants, IdentityInv, NEW c \in Clients,
         SlugProbe(c) \/ PairGet(c) \/ OwnerCheck(c)
  PROVE  IdentityInv'
<1> DEFINE q == req[c]
<1>1. /\ q \in Asking \cup {Idle} /\ Sound(q) /\ Idle \in Asking \cup {Idle} /\ Sound(Idle)
  BY DEF IdentityInv, TypeInv, Sound, Idle, Naming
<1>2. ASSUME SlugProbe(c)
      PROVE  IdentityInv'
  <2> DEFINE p == IF ~SlugTaken(Candidate(q)) THEN [q EXCEPT !.at = "put"]
                  ELSE IF q.n = SlugAttempts THEN [q EXCEPT !.at = "put", !.n = 0]
                  ELSE [q EXCEPT !.n = @ + 1]
  <2>1. q.at = "slug" /\ req' = [req EXCEPT ![c] = p] /\ UNCHANGED <<doc, kept>>
    BY <1>2 DEF SlugProbe
  <2>2. q \in Creating
    BY <1>1, <2>1 DEF Asking, Naming, Listing, Describing, Versioning, Lists, Idle
  <2> HIDE DEF q
  <2>3. [q EXCEPT !.at = "put"] \in Creating
    BY <2>2 DEF Creating
  <2>4. [q EXCEPT !.at = "put", !.n = 0] \in Creating /\ [q EXCEPT !.n = @ + 1] \in Creating
    <3>1. ASSUME NEW m \in Nat
          PROVE  [q EXCEPT !.n = m] \in Creating
      BY <2>2 DEF Creating
    <3>2. q.n + 1 \in Nat
      BY <2>2 DEF Creating
    <3>3. [q EXCEPT !.at = "put", !.n = 0] \in Creating
      BY <2>2 DEF Creating
    <3> QED BY <3>1, <3>2, <3>3
  <2>5. p \in Creating
    BY <2>3, <2>4
  <2> HIDE DEF p
  <2>6. Sound(p)
    BY <2>5 DEF Sound, Creating, Naming
  <2> QED BY <2>1, <2>5, <2>6, AskKeeps DEF Asking, q
<1>3. ASSUME PairGet(c)
      PROVE  IdentityInv'
  <2> DEFINE d == doc[q.asset]
             w == IF q.kind = "attach" /\ Enforced /\ q.arg \notin d.ids THEN "owner" ELSE "put"
             p == [q EXCEPT !.seen = d.ids, !.rev = d.rev, !.at = w]
  <2>1. /\ q.at = "get" /\ UNCHANGED <<doc, kept>>
        /\ IF Live(q.asset) THEN req' = [req EXCEPT ![c] = p] ELSE req' = [req EXCEPT ![c] = Idle]
    BY <1>3 DEF PairGet, End
  <2>2. q \in Naming
    BY <1>1, <2>1 DEF Asking, Creating, Listing, Describing, Versioning, Lists, Idle
  <2>3. q.asset \in Assets /\ (Live(q.asset) => d.ids \in SUBSET Pairs /\ d.rev \in Nat)
    BY <2>2, LiveIs DEF Naming, IdentityInv, Docs
  <2>4. CASE Live(q.asset)
    <3>1. w \in {"owner", "put"}
      OBVIOUS
    <3>2. p \in Naming /\ p.asset = q.asset /\ p.seen = d.ids /\ p.rev = d.rev /\ p.at = w
      <4> HIDE DEF d, w
      <4> QED BY <2>2, <2>3, <2>4, <3>1 DEF Naming
    <3> HIDE DEF p, q, w
    <3>3. Sound(p)
      BY <2>3, <2>4, <3>1, <3>2 DEF Sound, Live
    <3> QED BY <2>1, <2>4, <3>2, <3>3, AskKeeps DEF Asking
  <2>5. CASE ~Live(q.asset)
    BY <1>1, <2>1, <2>5, AskKeeps
  <2> QED BY <2>4, <2>5
<1>4. ASSUME OwnerCheck(c)
      PROVE  IdentityInv'
  <2> DEFINE p == [q EXCEPT !.at = "put"]
  <2>1. /\ q.at = "owner" /\ UNCHANGED <<doc, kept>>
        /\ req' = [req EXCEPT ![c] = p] \/ req' = [req EXCEPT ![c] = Idle]
    BY <1>1, <1>4 DEF OwnerCheck, End, IdentityInv, TypeInv
  <2>2. q \in Naming
    BY <1>1, <2>1 DEF Asking, Creating, Listing, Describing, Versioning, Lists, Idle
  <2>3. /\ p \in Naming /\ p.asset = q.asset /\ p.seen = q.seen /\ p.rev = q.rev
        /\ p.at = "put"
    BY <2>2 DEF Naming
  <2> HIDE DEF p, q
  <2>4. Sound(p)
    BY <1>1, <2>1, <2>2, <2>3 DEF Sound
  <2> QED BY <1>1, <2>1, <2>3, <2>4, AskKeeps DEF Asking
<1> QED BY <1>2, <1>3, <1>4

\* A put of the identifiers: on a document that has not changed since it was read
\* what was read is what is there.
LEMMA PairPutKeeps ==
  ASSUME IdentityConstants, IdentityInv, NEW c \in Clients, PairPut(c)
  PROVE  IdentityInv'
<1>1. PICK q \in Asking \cup {Idle} : q = req[c]
  BY DEF IdentityInv, TypeInv
<1>2. PICK a \in Assets : q \in Naming /\ q.at = "put" /\ a = q.asset
  <2>1. q.kind \in {"attach", "detach"} /\ q.at = "put"
    BY <1>1 DEF PairPut
  <2>2. q \in Naming
    BY <2>1 DEF Asking, Creating, Listing, Describing, Versioning, Lists, Idle
  <2> QED BY <2>1, <2>2 DEF Naming
<1>3. Idle \in Asking \cup {Idle} /\ Sound(Idle)
  BY DEF Sound, Idle, Naming
<1>4. CASE Conflict(c)
  <2>0. PICK m \in Nat : m = q.n + 1
    BY <1>2 DEF Naming
  <2> DEFINE p == [q EXCEPT !.at = "get", !.n = m]
  <2>1. /\ UNCHANGED <<doc, kept>>
        /\ req' = [req EXCEPT ![c] = p] \/ req' = [req EXCEPT ![c] = Idle]
    BY <1>1, <1>4, <2>0 DEF PairPut
  <2>2. p \in Naming /\ p.at = "get" /\ p.asset = a
    BY <1>2 DEF Naming
  <2> HIDE DEF p
  <2>3. Sound(p)
    <3>1. Sound(q) /\ a # None
      BY <1>1, <1>2 DEF IdentityInv, IdentityConstants
    <3> QED BY <1>2, <2>2, <3>1 DEF Sound
  <2> QED BY <1>3, <2>1, <2>2, <2>3, AskKeeps DEF Asking
<1>5. CASE ~Conflict(c)
  <2>1. PICK b \in Docs : b = doc[a]
    BY <1>1, <1>2, <1>5, LiveIs DEF Conflict, IdentityInv
  <2>2. Live(a) /\ b.ids = q.seen /\ q.arg \in Pairs
    <3>1. Live(a) /\ b.rev = q.rev
      BY <1>1, <1>2, <1>5, <2>1 DEF Conflict
    <3>2. Sound(q)
      BY <1>1 DEF IdentityInv
    <3> QED BY <1>2, <2>1, <3>1, <3>2 DEF Sound, Naming
  <2>3. PICK m \in Keeping : m = kept[a] /\ m.ids \subseteq b.ids /\ m.meta \subseteq b.meta
    BY <2>1, <2>2 DEF IdentityInv, TypeInv, PairsKept, MetaKept, Preserved
  <2>0. PICK v \in Nat : v = b.rev + 1
    BY <2>1 DEF Docs
  <2> DEFINE s == IF q.kind = "attach" THEN q.seen \cup {q.arg} ELSE q.seen \ {q.arg}
             l == IF q.kind = "attach" THEN m.ids \cup {q.arg} ELSE m.ids \ {q.arg}
             d == [b EXCEPT !.ids = s, !.rev = v]
             k == [m EXCEPT !.ids = l]
  <2>4. doc' = [doc EXCEPT ![a] = d] /\ req' = [req EXCEPT ![c] = Idle]
    BY <1>1, <1>2, <1>5, <2>0, <2>1 DEF PairPut, Write, End
  <2>5. kept' = [kept EXCEPT ![a] = k]
    <3>1. kept' = [kept EXCEPT ![a].ids = l]
      BY <1>1, <1>2, <1>5, <2>3 DEF PairPut, Keep, Drop, Naming
    <3> HIDE DEF l
    <3> QED BY <2>3, <3>1 DEF IdentityInv, TypeInv
  <2>6. s \subseteq Pairs /\ l \subseteq Pairs /\ l \subseteq s
    BY <2>1, <2>2, <2>3 DEF Docs, Keeping
  <2> HIDE DEF s, l
  <2>7. /\ d \in Docs /\ d.ids = s /\ d.rev = v /\ d.of = b.of /\ d.group = b.group
        /\ d.meta = b.meta
    BY <2>6 DEF Docs
  <2>8. k \in Keeping /\ k.ids = l /\ k.meta = m.meta
    BY <2>6 DEF Keeping
  <2> HIDE DEF d, k
  <2> QED BY <1>3, <2>0, <2>1, <2>2, <2>3, <2>4, <2>5, <2>6, <2>7, <2>8, WriteKeeps
<1> QED BY <1>4, <1>5

\* A list replaced by what the route made of it.
LEMMA ListUpdateKeeps ==
  ASSUME IdentityConstants, IdentityInv, NEW c \in Clients, NEW f \in Lists, ListUpdate(c, f)
  PROVE  IdentityInv'
<1>1. PICK q \in Asking \cup {Idle} : q = req[c]
  BY DEF IdentityInv, TypeInv
<1>2. PICK a \in Assets : q \in Listing /\ q.at = f /\ a = q.asset
  <2>1. q.kind \in {"add", "remove"} /\ q.at = f
    BY <1>1 DEF ListUpdate
  <2>2. q \in Listing
    BY <2>1 DEF Asking, Creating, Naming, Describing, Versioning, Idle
  <2> QED BY <2>1, <2>2 DEF Listing
<1>3. Idle \in Asking \cup {Idle} /\ Sound(Idle) /\ req' = [req EXCEPT ![c] = Idle]
  BY DEF ListUpdate, End, Sound, Idle, Naming
<1>4. PICK m \in Keeping : m = kept[a]
  BY DEF IdentityInv, TypeInv
<1> DEFINE l == IF Live(a) /\ q.kind = "add" THEN m[f] \cup {q.arg} ELSE m[f] \ {q.arg}
           k == [m EXCEPT ![f] = l]
<1>5. kept' = [kept EXCEPT ![a] = k]
  <2>1. kept' = [kept EXCEPT ![a][f] = l]
    BY <1>1, <1>2, <1>4 DEF ListUpdate, Keep, Drop
  <2> HIDE DEF l
  <2> QED BY <1>4, <2>1 DEF IdentityInv, TypeInv
<1>6. l \in SUBSET Labels
  BY <1>2, <1>4 DEF Keeping, Listing, Lists
<1>7. k \in Keeping /\ k.ids = m.ids /\ k.meta = m.meta
  <2> HIDE DEF l
  <2> QED BY <1>6 DEF Keeping, Lists
<1>8. CASE ~Live(a)
  <2>1. m = Nothing
    BY <1>4, <1>8 DEF IdentityInv, NoneKept
  <2>2. k = m
    BY <1>8, <2>1 DEF Nothing, Lists
  <2> HIDE DEF k
  <2>3. UNCHANGED <<doc, kept>>
    BY <1>1, <1>2, <1>4, <1>5, <1>8, <2>2 DEF ListUpdate, IdentityInv, TypeInv
  <2> QED BY <1>3, <2>3, AskKeeps
<1>9. CASE Live(a)
  <2>1. PICK b \in Docs : b = doc[a]
    BY <1>9, LiveIs DEF IdentityInv
  <2>0. PICK v \in Nat : v = b.rev + 1
    BY <2>1 DEF Docs
  <2> DEFINE s == IF q.kind = "add" THEN q.seen \cup {q.arg} ELSE q.seen \ {q.arg}
             d == [b EXCEPT ![f] = s, !.rev = v]
  <2>2. doc' = [doc EXCEPT ![a] = d]
    BY <1>1, <1>2, <1>9, <2>0, <2>1 DEF ListUpdate, Write, Lists
  <2>3. s \subseteq Labels
    BY <1>2 DEF Listing
  <2> HIDE DEF s, k
  <2>4. /\ d \in Docs /\ d.ids = b.ids /\ d.rev = v /\ d.of = b.of /\ d.group = b.group
        /\ d.meta = b.meta
    BY <2>3 DEF Docs, Lists
  <2>5. m.ids \subseteq b.ids /\ m.meta \subseteq b.meta
    BY <1>4, <1>9, <2>1 DEF IdentityInv, PairsKept, MetaKept, Preserved
  <2> HIDE DEF d
  <2> QED BY <1>3, <1>5, <1>7, <1>9, <2>0, <2>1, <2>2, <2>4, <2>5, WriteKeeps
<1> QED BY <1>8, <1>9

\* Metadata merged into what the update reads, or put in its place.
LEMMA MetaUpdateKeeps ==
  ASSUME IdentityConstants, IdentityInv, NEW c \in Clients, MetaUpdate(c)
  PROVE  IdentityInv'
<1>1. PICK q \in Asking \cup {Idle} : q = req[c]
  BY DEF IdentityInv, TypeInv
<1>2. PICK a \in Assets : q \in Describing /\ a = q.asset
  <2>1. q.at = "meta"
    BY <1>1 DEF MetaUpdate
  <2>2. q \in Describing
    BY <2>1 DEF Asking, Creating, Naming, Listing, Versioning, Lists, Idle
  <2> QED BY <2>2 DEF Describing
<1>3. Idle \in Asking \cup {Idle} /\ Sound(Idle) /\ req' = [req EXCEPT ![c] = Idle]
  BY DEF MetaUpdate, End, Sound, Idle, Naming
<1>4. CASE ~Live(a)
  <2>1. UNCHANGED <<doc, kept>>
    BY <1>1, <1>2, <1>4 DEF MetaUpdate
  <2> QED BY <1>3, <2>1, AskKeeps
<1>5. CASE Live(a)
  <2>1. PICK b \in Docs : b = doc[a]
    BY <1>5, LiveIs DEF IdentityInv
  <2>2. PICK m \in Keeping : m = kept[a] /\ m.ids \subseteq b.ids /\ m.meta \subseteq b.meta
    BY <1>5, <2>1 DEF IdentityInv, TypeInv, PairsKept, MetaKept, Preserved
  <2>3. PICK v \in Nat : v = b.rev + 1
    BY <2>1 DEF Docs
  <2> DEFINE s == IF q.kind = "merge" THEN b.meta \cup {q.arg} ELSE {q.arg}
             l == IF q.kind = "merge" THEN m.meta \cup {q.arg} ELSE {q.arg}
             d == [b EXCEPT !.meta = s, !.rev = v]
             k == [m EXCEPT !.meta = l]
  <2>4. doc' = [doc EXCEPT ![a] = d]
    BY <1>1, <1>2, <1>5, <2>1, <2>3 DEF MetaUpdate, Write, Merged
  <2>5. kept' = [kept EXCEPT ![a] = k]
    <3>1. kept' = [kept EXCEPT ![a].meta = l]
      BY <1>1, <1>2, <1>5, <2>2 DEF MetaUpdate
    <3> HIDE DEF l
    <3> QED BY <2>2, <3>1 DEF IdentityInv, TypeInv
  <2>6. s \subseteq Labels /\ l \subseteq Labels /\ l \subseteq s
    BY <1>2, <2>1, <2>2 DEF Docs, Keeping, Describing
  <2> HIDE DEF s, l
  <2>7. /\ d \in Docs /\ d.ids = b.ids /\ d.rev = v /\ d.of = b.of /\ d.group = b.group
        /\ d.meta = s
    BY <2>6 DEF Docs
  <2>8. k \in Keeping /\ k.ids = m.ids /\ k.meta = l
    BY <2>6 DEF Keeping
  <2> HIDE DEF d, k
  <2> QED BY <1>3, <1>5, <2>1, <2>2, <2>3, <2>4, <2>5, <2>6, <2>7, <2>8, WriteKeeps
<1> QED BY <1>4, <1>5

\* The first version gives its source the group it will be in itself.
LEMMA SeedKeeps ==
  ASSUME IdentityConstants, IdentityInv, NEW c \in Clients, Seed(c)
  PROVE  IdentityInv'
<1>1. PICK q \in Asking \cup {Idle} : q = req[c] /\ Sound(q)
  BY DEF IdentityInv, TypeInv
<1>2. PICK a \in Assets : q \in Versioning /\ q.at = "seed" /\ a = q.asset /\ q.group = a
  <2>1. q.at = "seed"
    BY <1>1 DEF Seed
  <2>2. q \in Versioning
    BY <2>1 DEF Asking, Creating, Naming, Listing, Describing, Lists, Idle
  <2> QED BY <1>1, <2>1, <2>2 DEF Versioning, Sound
<1> DEFINE p == [q EXCEPT !.at = "child"]
<1>3. p \in Versioning /\ p.at = "child" /\ p.asset = a /\ p.group = a
  BY <1>2 DEF Versioning
<1>4. req' = [req EXCEPT ![c] = p]
  BY <1>1 DEF Seed, IdentityInv, TypeInv
<1>0. UNCHANGED kept
  BY DEF Seed
<1> HIDE DEF p
<1>5. CASE ~Live(a)
  <2>1. UNCHANGED doc
    BY <1>0, <1>1, <1>2, <1>5 DEF Seed
  <2>2. Sound(p)
    <3>1. a # None
      BY DEF IdentityConstants
    <3> QED BY <1>1, <1>2, <1>3, <1>5, <3>1 DEF Sound, Versioning, Naming
  <2> QED BY <1>0, <1>3, <1>4, <2>1, <2>2, AskKeeps DEF Asking
<1>6. CASE Live(a)
  <2>1. PICK b \in Docs : b = doc[a] /\ b.group \in {None, a}
    BY <1>1, <1>2, <1>6, LiveIs DEF IdentityInv, Sound
  <2>2. PICK m \in Keeping : m = kept[a] /\ m.ids \subseteq b.ids /\ m.meta \subseteq b.meta
    BY <1>6, <2>1 DEF IdentityInv, TypeInv, PairsKept, MetaKept, Preserved
  <2>3. PICK v \in Nat : v = b.rev + 1
    BY <2>1 DEF Docs
  <2> DEFINE d == [b EXCEPT !.group = a, !.rev = v]
  <2>4. doc' = [doc EXCEPT ![a] = d] /\ kept' = [kept EXCEPT ![a] = m]
    BY <1>0, <1>1, <1>2, <1>6, <2>1, <2>2, <2>3 DEF Seed, Write, IdentityInv, TypeInv
  <2>5. /\ d \in Docs /\ d.ids = b.ids /\ d.rev = v /\ d.of = b.of /\ d.group = a
        /\ d.meta = b.meta
    BY <2>1, <2>3 DEF Docs
  <2> HIDE DEF d
  <2>7. /\ m \in Keeping /\ m.ids \subseteq d.ids /\ m.meta \subseteq d.meta
        /\ d.rev = doc[a].rev + 1 /\ d.of = doc[a].of
        /\ d.group # doc[a].group => doc[a].group = None /\ d.group = a
    BY <2>1, <2>2, <2>3, <2>5
  <2> QED BY <1>2, <1>3, <1>4, <1>6, <2>4, <2>5, <2>7, WriteKeeps DEF Asking
<1> QED BY <1>5, <1>6

\* The end of a version's job.
LEMMA EncodedKeeps ==
  ASSUME IdentityConstants, IdentityInv, NEW c \in Clients, Encoded(c)
  PROVE  IdentityInv'
<1>1. PICK q \in Asking \cup {Idle} : q = req[c]
  BY DEF IdentityInv, TypeInv
<1>2. PICK a \in Assets : a = q.asset
  <2>1. q.at = "encode"
    BY <1>1 DEF Encoded
  <2>2. q \in Versioning
    BY <2>1 DEF Asking, Creating, Naming, Listing, Describing, Lists, Idle
  <2> QED BY <2>2 DEF Versioning
<1>0. UNCHANGED kept
  BY DEF Encoded
<1>3. Idle \in Asking \cup {Idle} /\ Sound(Idle) /\ req' = [req EXCEPT ![c] = Idle]
  BY DEF Encoded, End, Sound, Idle, Naming
<1>4. CASE UNCHANGED doc
  BY <1>0, <1>3, <1>4, AskKeeps
<1>5. CASE ~UNCHANGED doc
  <2>1. PICK h \in {"ready", "failed"} : Live(a) /\ Write(a, [doc[a] EXCEPT !.status = h])
    BY <1>1, <1>2, <1>5 DEF Encoded
  <2>2. PICK b \in Docs : b = doc[a]
    BY <2>1, LiveIs DEF IdentityInv
  <2>3. PICK m \in Keeping : m = kept[a] /\ m.ids \subseteq b.ids /\ m.meta \subseteq b.meta
    BY <2>1, <2>2 DEF IdentityInv, TypeInv, PairsKept, MetaKept, Preserved
  <2>4. PICK v \in Nat : v = b.rev + 1
    BY <2>2 DEF Docs
  <2> DEFINE d == [b EXCEPT !.status = h, !.rev = v]
  <2>5. doc' = [doc EXCEPT ![a] = d] /\ kept' = [kept EXCEPT ![a] = m]
    BY <1>0, <2>1, <2>2, <2>3, <2>4 DEF Write, IdentityInv, TypeInv
  <2>6. /\ d \in Docs /\ d.ids = b.ids /\ d.rev = v /\ d.of = b.of /\ d.group = b.group
        /\ d.meta = b.meta
    BY <2>2, <2>4 DEF Docs
  <2> HIDE DEF d
  <2>7. /\ m \in Keeping /\ m.ids \subseteq d.ids /\ m.meta \subseteq d.meta
        /\ d.rev = doc[a].rev + 1 /\ d.of = doc[a].of /\ d.group = doc[a].group
    BY <2>2, <2>3, <2>4, <2>6
  <2> QED BY <1>2, <1>3, <2>1, <2>5, <2>6, <2>7, WriteKeeps
<1> QED BY <1>4, <1>5

\* A new asset, of no group.
LEMMA CreateKeeps ==
  ASSUME IdentityConstants, IdentityInv, NEW c \in Clients, NEW a \in Assets, CreatePut(c, a)
  PROVE  IdentityInv'
<1>1. PICK q \in Asking \cup {Idle} : q = req[c]
  BY DEF IdentityInv, TypeInv
<1>2. q \in Creating
  <2>1. q.kind = "create"
    BY <1>1 DEF CreatePut
  <2> QED BY <2>1 DEF Asking, Naming, Listing, Describing, Versioning, Idle
<1> DEFINE s == IF q.n = 0 THEN <<a, q.arg>> ELSE <<q.arg, q.n>>
           d == Document(s, None, None, "uploading")
<1>3. /\ doc[a] = None /\ doc' = [doc EXCEPT ![a] = d] /\ UNCHANGED kept
      /\ req' = [req EXCEPT ![c] = Idle] /\ Idle \in Asking \cup {Idle}
  BY <1>1 DEF CreatePut, Candidate, End
<1>4. s \in Slugs
  BY <1>2 DEF Slugs, Asked, Creating
<1> HIDE DEF s
<1>5. d \in Docs /\ d.of = None
  BY <1>4 DEF Docs, Document
<1> HIDE DEF d
<1> QED BY <1>3, <1>5, NewKeeps

\* A new version, of its source's group, or none when the source is gone.
LEMMA ChildKeeps ==
  ASSUME IdentityConstants, IdentityInv, NEW c \in Clients, NEW a \in Assets, Child(c, a)
  PROVE  IdentityInv'
<1>1. PICK q \in Asking \cup {Idle} : q = req[c] /\ Sound(q)
  BY DEF IdentityInv, TypeInv
<1>2. q \in Versioning /\ q.at = "child" /\ q.asset \in Assets /\ q.group \in Assets
  <2>1. q.at = "child"
    BY <1>1 DEF Child
  <2>2. q \in Versioning
    BY <2>1 DEF Asking, Creating, Naming, Listing, Describing, Lists, Idle
  <2> QED BY <2>1, <2>2 DEF Versioning
<1>3. doc[a] = None /\ UNCHANGED kept /\ q.asset # None
  BY <1>2 DEF Child, IdentityConstants
<1>4. CASE ~Live(q.asset)
  <2>1. /\ UNCHANGED <<doc, kept>> /\ req' = [req EXCEPT ![c] = Idle]
        /\ Idle \in Asking \cup {Idle} /\ Sound(Idle)
    BY <1>1, <1>4 DEF Child, End, Sound, Idle, Naming
  <2> QED BY <2>1, AskKeeps
<1>5. CASE Live(q.asset)
  <2> DEFINE d == Document(<<a, c>>, q.asset, q.group, "processing")
             p == [q EXCEPT !.at = "encode", !.asset = a]
  <2>1. doc' = [doc EXCEPT ![a] = d] /\ req' = [req EXCEPT ![c] = p]
    BY <1>1, <1>5 DEF Child, IdentityInv, TypeInv
  <2>2. <<a, c>> \in Slugs
    BY DEF Slugs
  <2>3. d \in Docs /\ d.of = q.asset /\ d.group = q.group
    BY <1>2, <2>2 DEF Docs, Document
  <2>4. p \in Versioning /\ p.at = "encode" /\ p.asset = a
    BY <1>2 DEF Versioning
  <2>5. q.group # None /\ doc[q.asset].group = q.group
    BY <1>1, <1>2, <1>5 DEF Sound, IdentityConstants
  <2> HIDE DEF d, p
  <2> QED BY <1>2, <1>3, <1>5, <2>1, <2>3, <2>4, <2>5, NewKeeps DEF Asking
<1> QED BY <1>4, <1>5

LEMMA IdentityInductive ==
  ASSUME IdentityConstants, IdentityInv, [Next]_vars
  PROVE  IdentityInv'
<1>1. CASE UNCHANGED vars
  BY <1>1 DEF vars, IdentityInv, TypeInv, NoneKept, Family, PairsKept, MetaKept, Preserved, Sound, Live
<1>2. ASSUME NEW c \in Clients, Asks(c) \/ Step(c)
      PROVE  IdentityInv'
  BY <1>2, RequestsKeep, LooksKeep, PairPutKeeps, ListUpdateKeeps, MetaUpdateKeeps, SeedKeeps,
     EncodedKeeps, CreateKeeps, ChildKeeps DEF Step
<1> QED BY <1>1, <1>2 DEF Next, Done

LEMMA IdentityStarts ==
  ASSUME IdentityConstants, Init
  PROVE  IdentityInv
<1>1. \A a \in Assets : Document(<<a, 0>>, None, None, "ready") \in Docs
  BY DEF Document, Docs, Slugs
<1>2. Nothing \in Keeping
  BY DEF Nothing, Keeping
<1>3. TypeInv /\ \A a \in Assets : kept[a] = Nothing
  BY <1>1, <1>2 DEF Init, TypeInv
<1>4. \A c \in Clients : Sound(req[c])
  BY DEF Init, Sound, Idle, Naming
<1>5. Family
  BY DEF Init, Family, Live, Document
<1>6. NoneKept /\ PairsKept /\ MetaKept
  BY <1>3 DEF NoneKept, PairsKept, MetaKept, Preserved, Nothing
<1> QED BY <1>3, <1>4, <1>5, <1>6 DEF IdentityInv

LEMMA IdentityHolds ==
  ASSUME IdentityConstants
  PROVE  Spec => []IdentityInv
<1>1. Init => IdentityInv
  BY IdentityStarts
<1>2. IdentityInv /\ [Next]_vars => IdentityInv'
  BY IdentityInductive
<1> QED BY <1>1, <1>2, PTL DEF Spec

\* A pair that was attached stays until somebody asks to detach it, whatever else
\* writes the document at the same time (updateWithRetry).
THEOREM PairsStay ==
  ASSUME IdentityConstants
  PROVE  Spec => []PairsKept
<1>1. IdentityInv => PairsKept
  BY DEF IdentityInv
<1> QED BY <1>1, IdentityHolds, PTL

\* A metadata key that was merged stays until the metadata is replaced.
THEOREM MetaStays ==
  ASSUME IdentityConstants
  PROVE  Spec => []MetaKept
<1>1. IdentityInv => MetaKept
  BY DEF IdentityInv
<1> QED BY <1>1, IdentityHolds, PTL

\* A version is in the group of what it is a version of (resolveVersionLinkage),
\* however the first versions of one source overlap.
THEOREM VersionsGrouped ==
  ASSUME IdentityConstants
  PROVE  Spec => []VersionsTogether
<1>1. IdentityInv => VersionsTogether
  BY DEF IdentityInv, Family, VersionsTogether
<1> QED BY <1>1, IdentityHolds, PTL

---------------------------------------------------------------------------
(* One request at a time.                                                  *)

Alone == \A c, d \in Clients : req[c] # Idle /\ req[d] # Idle => c = d

\* What a request has looked up still holds when it writes: its slug is free,
\* its pair is nobody else's, and the list it read is the list there is.
Ready(r) ==
  /\ r \in Creating /\ r.at = "put" /\ r.n # 0 => ~SlugTaken(<<r.arg, r.n>>)
  /\ Enforced /\ r \in Naming /\ r.kind = "attach" /\ r.at = "put" =>
       \A b \in Assets \ {r.asset} : Live(b) => r.arg \notin doc[b].ids
  /\ r \in Listing /\ Live(r.asset) => doc[r.asset][r.at] = r.seen

\* A slug is made of its asset's id, or was asked for.
SlugForms == \A a \in Assets : Live(a) => doc[a].slug \in Own(a) \cup Asked

SerialInv ==
  /\ Alone /\ SlugForms /\ SlugsUnique /\ PairsUnique /\ ListsKept
  /\ \A c \in Clients : Ready(req[c])

Others(c) == \A d \in Clients \ {c} : req[d] = Idle

LEMMA OthersIdle ==
  ASSUME IdentityInv, SerialInv, Serial, NEW c \in Clients,
         req[c] # Idle \/ \E k : Request(c, k)
  PROVE  Others(c)
<1>1. \A r \in Asking : r.at # "idle" /\ r # Idle
  BY DEF Asking, Creating, Naming, Listing, Describing, Versioning, Lists, Idle
<1>2. CASE req[c] # Idle
  BY <1>2 DEF SerialInv, Alone, Others
<1>3. CASE \E k : Request(c, k)
  BY <1>1, <1>3 DEF Request, Others, IdentityInv, TypeInv
<1> QED BY <1>2, <1>3

LEMMA IdleReady ==
  ASSUME NEW p \in Asking \cup {Idle}, p \in Versioning \cup Describing \cup {Idle}
  PROVE  Ready(p) /\ Ready(p)'
<1>1. p \notin Creating /\ p \notin Naming /\ p \notin Listing
  BY DEF Creating, Naming, Listing, Describing, Versioning, Idle
<1> QED BY <1>1 DEF Ready

LEMMA AloneStep ==
  ASSUME IdentityInv, NEW c \in Clients, Others(c), NEW p \in Asking \cup {Idle},
         req' = [req EXCEPT ![c] = p], Ready(p)'
  PROVE  Alone' /\ \A d \in Clients : Ready(req[d])'
<1>1. /\ req'[c] = p /\ \A d \in Clients \ {c} : req'[d] = Idle
  BY DEF IdentityInv, TypeInv, Others
<1>2. Alone'
  BY <1>1 DEF Alone
<1>3. ASSUME NEW d \in Clients
      PROVE  Ready(req[d])'
  <2>1. CASE d = c
    BY <1>1, <2>1
  <2>2. CASE d # c
    BY <1>1, <2>2, IdleReady
  <2> QED BY <2>1, <2>2
<1> QED BY <1>2, <1>3

\* A step of c that writes no document.
LEMMA SerialAsk ==
  ASSUME IdentityInv, SerialInv, NEW c \in Clients, Others(c), NEW p \in Asking \cup {Idle},
         req' = [req EXCEPT ![c] = p], Ready(p), UNCHANGED <<doc, kept>>
  PROVE  SerialInv'
<1>1. SlugForms' /\ SlugsUnique' /\ PairsUnique' /\ ListsKept'
  BY DEF SerialInv, SlugForms, SlugsUnique, PairsUnique, ListsKept, Preserved, Live
<1>2. Ready(p)'
  BY DEF Ready, SlugTaken, Live
<1> QED BY <1>1, <1>2, AloneStep DEF SerialInv

\* One that writes the document of a live asset.
LEMMA SerialWrite ==
  ASSUME IdentityConstants, IdentityInv, SerialInv, NEW c \in Clients, Others(c),
         NEW p \in Asking \cup {Idle}, p \in Versioning \cup {Idle},
         req' = [req EXCEPT ![c] = p],
         NEW a \in Assets, Live(a), NEW d \in Docs, d.slug = doc[a].slug,
         Enforced => \A b \in Assets \ {a} : Live(b) => d.ids \cap doc[b].ids = {},
         doc' = [doc EXCEPT ![a] = d],
         NEW k \in Keeping, kept' = [kept EXCEPT ![a] = k], k.tags \subseteq d.tags,
         k.tracks \subseteq d.tracks
  PROVE  SerialInv'
<1>1. doc'[a] = d /\ (\A b \in Assets \ {a} : doc'[b] = doc[b] /\ Live(b)' = Live(b))
  BY DEF IdentityInv, TypeInv, Live
<1>2. kept'[a] = k /\ \A b \in Assets \ {a} : kept'[b] = kept[b]
  BY DEF IdentityInv, TypeInv
<1>3. SlugForms' /\ SlugsUnique'
  BY <1>1 DEF SerialInv, SlugForms, SlugsUnique
<1>4. PairsUnique'
  BY <1>1 DEF SerialInv, PairsUnique
<1>5. ListsKept'
  BY <1>1, <1>2 DEF SerialInv, ListsKept, Preserved
<1>6. Ready(p)'
  BY IdleReady
<1> QED BY <1>3, <1>4, <1>5, <1>6, AloneStep DEF SerialInv

\* One that puts a new document, of a slug of its own or one nobody has.
LEMMA SerialNew ==
  ASSUME IdentityConstants, IdentityInv, SerialInv, NEW c \in Clients, Others(c),
         NEW p \in Asking \cup {Idle}, p \in Versioning \cup {Idle},
         req' = [req EXCEPT ![c] = p],
         NEW a \in Assets, doc[a] = None, NEW d \in Docs, doc' = [doc EXCEPT ![a] = d],
         UNCHANGED kept, d.ids = {},
         d.slug \in Own(a) \/ (d.slug \in Asked /\ ~SlugTaken(d.slug))
  PROVE  SerialInv'
<1>1. /\ doc'[a] = d /\ (\A b \in Assets \ {a} : doc'[b] = doc[b] /\ Live(b)' = Live(b))
      /\ ~Live(a)
  BY DEF IdentityInv, TypeInv, Live
<1>2. kept[a] = Nothing
  BY <1>1 DEF IdentityInv, NoneKept
<1>3. SlugForms'
  BY <1>1 DEF SerialInv, SlugForms
<1>4. ASSUME NEW b \in Assets \ {a}, Live(b)
      PROVE  doc[b].slug # d.slug
  <2>1. doc[b].slug \in Own(b) \cup Asked
    BY <1>4 DEF SerialInv, SlugForms
  <2>2. \A x \in Own(a) : x \notin Asked /\ x \notin Own(b)
    BY DEF Own, Asked, IdentityConstants
  <2> QED BY <1>4, <2>1, <2>2 DEF SlugTaken
<1>5. SlugsUnique'
  BY <1>1, <1>4 DEF SerialInv, SlugsUnique
<1>6. PairsUnique'
  BY <1>1 DEF SerialInv, PairsUnique
<1>7. ListsKept'
  BY <1>1, <1>2 DEF SerialInv, ListsKept, Preserved, Nothing
<1>8. Ready(p)'
  BY IdleReady
<1> QED BY <1>3, <1>5, <1>6, <1>7, <1>8, AloneStep DEF SerialInv

\* A purge only takes away.
LEMMA SerialPurge ==
  ASSUME IdentityConstants, IdentityInv, SerialInv, Serial, NEW c \in Clients, NEW a \in Assets,
         Purge(c, a)
  PROVE  SerialInv'
<1>1. /\ doc' = [doc EXCEPT ![a] = Tombstone] /\ kept' = [kept EXCEPT ![a] = Nothing]
      /\ UNCHANGED req /\ Request(c, "purge")
  BY DEF Purge
<1>2. /\ ~Live(a)' /\ \A b \in Assets \ {a} : doc'[b] = doc[b] /\ kept'[b] = kept[b]
                                         /\ Live(b)' = Live(b)
  BY <1>1 DEF IdentityInv, TypeInv, Live
<1>3. SlugForms' /\ SlugsUnique' /\ PairsUnique'
  BY <1>2 DEF SerialInv, SlugForms, SlugsUnique, PairsUnique
<1>4. ListsKept'
  BY <1>2 DEF SerialInv, ListsKept, Preserved
<1>5. \A d \in Clients : req[d] = Idle
  <2>1. \A r \in Asking : r.at # "idle"
    BY DEF Asking, Creating, Naming, Listing, Describing, Versioning, Lists
  <2> QED BY <1>1, <2>1 DEF Request, IdentityInv, TypeInv
<1>6. req' = [req EXCEPT ![c] = Idle] /\ Others(c) /\ Idle \in Asking \cup {Idle} /\ Ready(Idle)'
  BY <1>1, <1>5, IdleReady DEF Others, IdentityInv, TypeInv
<1> QED BY <1>3, <1>4, <1>6, AloneStep DEF SerialInv

LEMMA SerialRequests ==
  ASSUME IdentityConstants, IdentityInv, SerialInv, Serial, NEW c \in Clients, Asks(c)
  PROVE  SerialInv'
<1>1. CASE \E s \in Stems : CreateStart(c, s)
  <2>1. PICK s \in Stems : CreateStart(c, s)
    BY <1>1
  <2> DEFINE p == [Idle EXCEPT !.kind = "create", !.at = "slug", !.arg = s]
  <2>2. p \in Creating /\ p.at = "slug"
    BY DEF Idle, Creating
  <2>3. req' = [req EXCEPT ![c] = p] /\ UNCHANGED <<doc, kept>> /\ Others(c)
    BY <2>1, OthersIdle DEF CreateStart
  <2> HIDE DEF p
  <2>4. Ready(p)
    BY <2>2 DEF Ready, Creating, Naming, Listing
  <2> QED BY <2>2, <2>3, <2>4, SerialAsk DEF Asking
<1>2. CASE \E k \in {"attach", "detach"}, a \in Assets, x \in Pairs : PairRequest(c, k, a, x)
  <2>1. PICK k \in {"attach", "detach"}, a \in Assets, x \in Pairs : PairRequest(c, k, a, x)
    BY <1>2
  <2> DEFINE p == [Idle EXCEPT !.kind = k, !.at = "get", !.asset = a, !.arg = x]
  <2>2. p \in Naming /\ p.at = "get"
    BY DEF Idle, Naming
  <2>3. req' = [req EXCEPT ![c] = p] /\ UNCHANGED <<doc, kept>> /\ Others(c)
    BY <2>1, OthersIdle DEF PairRequest
  <2> HIDE DEF p
  <2>4. Ready(p)
    BY <2>2 DEF Ready, Creating, Listing, Lists
  <2> QED BY <2>2, <2>3, <2>4, SerialAsk DEF Asking
<1>3. CASE \E k \in {"add", "remove"}, a \in Assets, f \in Lists, x \in Labels :
             ListRequest(c, k, a, f, x)
  <2>1. PICK k \in {"add", "remove"}, a \in Assets, f \in Lists, x \in Labels :
               ListRequest(c, k, a, f, x)
    BY <1>3
  <2> DEFINE p == [Idle EXCEPT !.kind = k, !.at = f, !.asset = a, !.arg = x, !.seen = doc[a][f]]
  <2>2. doc[a][f] \in SUBSET Labels
    BY <2>1, LiveIs DEF ListRequest, IdentityInv, Docs, Lists
  <2>3. p \in Listing /\ p.asset = a /\ p.at = f /\ p.seen = doc[a][f]
    BY <2>2 DEF Idle, Listing
  <2>4. req' = [req EXCEPT ![c] = p] /\ UNCHANGED <<doc, kept>> /\ Others(c)
    BY <2>1, OthersIdle DEF ListRequest
  <2> HIDE DEF p
  <2>5. Ready(p)
    <3>1. p \notin Creating /\ p \notin Naming
      BY <2>3 DEF Creating, Naming, Listing
    <3> QED BY <2>3, <3>1 DEF Ready
  <2> QED BY <2>3, <2>4, <2>5, SerialAsk DEF Asking
<1>4. CASE \E k \in {"merge", "replace"}, a \in Assets, x \in Labels : MetaRequest(c, k, a, x)
  <2>1. PICK k \in {"merge", "replace"}, a \in Assets, x \in Labels : MetaRequest(c, k, a, x)
    BY <1>4
  <2> DEFINE p == [Idle EXCEPT !.kind = k, !.at = "meta", !.asset = a, !.arg = x, !.seen = doc[a].meta]
  <2>2. doc[a].meta \in SUBSET Labels
    BY <2>1, LiveIs DEF MetaRequest, IdentityInv, Docs
  <2>3. p \in Describing
    BY <2>2 DEF Idle, Describing
  <2>4. req' = [req EXCEPT ![c] = p] /\ UNCHANGED <<doc, kept>> /\ Others(c)
    BY <2>1, OthersIdle DEF MetaRequest
  <2> HIDE DEF p
  <2> QED BY <2>3, <2>4, IdleReady, SerialAsk DEF Asking
<1>5. CASE \E a \in Assets : VersionStart(c, a)
  <2>1. PICK a \in Assets : VersionStart(c, a)
    BY <1>5
  <2> DEFINE p == [Idle EXCEPT !.kind = "version", !.asset = a, !.rev = doc[a].rev,
                     !.group = GroupOf(a),
                     !.at = IF doc[a].group = None THEN "seed" ELSE "child"]
  <2>2. doc[a].rev \in Nat /\ doc[a].group \in Assets \cup {None}
    BY <2>1, LiveIs DEF VersionStart, IdentityInv, Docs
  <2>3. p \in Versioning
    BY <2>2 DEF Idle, Versioning, GroupOf
  <2>4. req' = [req EXCEPT ![c] = p] /\ UNCHANGED <<doc, kept>> /\ Others(c)
    BY <2>1, OthersIdle DEF VersionStart
  <2> HIDE DEF p
  <2> QED BY <2>3, <2>4, IdleReady, SerialAsk DEF Asking
<1>6. CASE \E a \in Assets : Purge(c, a)
  BY <1>6, SerialPurge
<1> QED BY <1>1, <1>2, <1>3, <1>4, <1>5, <1>6 DEF Asks

\* The look for a slug ends with one nobody has; that for a pair's owner with
\* nobody.
LEMMA SerialLooks ==
  ASSUME IdentityConstants, IdentityInv, SerialInv, Serial, NEW c \in Clients,
         SlugProbe(c) \/ PairGet(c) \/ OwnerCheck(c)
  PROVE  SerialInv'
<1>1. PICK q \in Asking \cup {Idle} : q = req[c] /\ Ready(q)
  BY DEF IdentityInv, TypeInv, SerialInv
<1>2. Idle \in Asking \cup {Idle} /\ Ready(Idle)
  BY IdleReady
<1>3. Others(c)
  <2>1. q.at \in {"slug", "get", "owner"}
    BY <1>1 DEF SlugProbe, PairGet, OwnerCheck
  <2>2. Idle.at = "idle"
    BY DEF Idle
  <2>3. req[c] # Idle
    BY <1>1, <2>1, <2>2
  <2> QED BY <2>3, OthersIdle
<1>4. ASSUME SlugProbe(c)
      PROVE  SerialInv'
  <2>1. q \in Creating /\ q.at = "slug"
    <3>1. q.at = "slug"
      BY <1>1, <1>4 DEF SlugProbe
    <3> QED BY <3>1 DEF Asking, Naming, Listing, Describing, Versioning, Lists, Idle
  <2>2. PICK m \in Nat : m = q.n + 1
    BY <2>1 DEF Creating
  <2> DEFINE p1 == [q EXCEPT !.at = "put"]  p2 == [q EXCEPT !.at = "put", !.n = 0]
             p3 == [q EXCEPT !.n = m]
  <2>3. /\ UNCHANGED <<doc, kept>>
        /\ \/ req' = [req EXCEPT ![c] = p1] /\ ~SlugTaken(<<q.arg, q.n>>)
           \/ req' = [req EXCEPT ![c] = p2]
           \/ req' = [req EXCEPT ![c] = p3]
    BY <1>1, <1>4, <2>2 DEF SlugProbe, Candidate
  <2>4. p1 \in Creating /\ p1.arg = q.arg /\ p1.n = q.n
    BY <2>1 DEF Creating
  <2>5. p2 \in Creating /\ p2.n = 0
    BY <2>1 DEF Creating
  <2>6. p3 \in Creating /\ p3.at = "slug"
    BY <2>1 DEF Creating
  <2> HIDE DEF p1, p2, p3
  <2>7. /\ ~SlugTaken(<<q.arg, q.n>>) => Ready(p1)
        /\ Ready(p2) /\ Ready(p3)
    <3>1. \A r \in Creating : r \notin Naming /\ r \notin Listing
      BY DEF Creating, Naming, Listing
    <3> QED BY <2>4, <2>5, <2>6, <3>1 DEF Ready
  <2> QED BY <1>3, <2>3, <2>4, <2>5, <2>6, <2>7, SerialAsk DEF Asking
<1>5. ASSUME PairGet(c)
      PROVE  SerialInv'
  <2>1. q \in Naming
    <3>1. q.at = "get"
      BY <1>1, <1>5 DEF PairGet
    <3> QED BY <3>1 DEF Asking, Creating, Listing, Describing, Versioning, Lists, Idle
  <2> DEFINE d == doc[q.asset]
             w == IF q.kind = "attach" /\ Enforced /\ q.arg \notin d.ids THEN "owner" ELSE "put"
             p == [q EXCEPT !.seen = d.ids, !.rev = d.rev, !.at = w]
  <2>2. /\ UNCHANGED <<doc, kept>>
        /\ IF Live(q.asset) THEN req' = [req EXCEPT ![c] = p] ELSE req' = [req EXCEPT ![c] = Idle]
    BY <1>1, <1>5 DEF PairGet, End
  <2>3. CASE ~Live(q.asset)
    BY <1>2, <1>3, <2>2, <2>3, SerialAsk
  <2>4. CASE Live(q.asset)
    <3>1. q.asset \in Assets /\ d.ids \in SUBSET Pairs /\ d.rev \in Nat
      BY <2>1, <2>4, LiveIs DEF Naming, IdentityInv, Docs
    <3>2. w \in {"owner", "put"}
      OBVIOUS
    <3>3. /\ p \in Naming /\ p.asset = q.asset /\ p.arg = q.arg /\ p.at = w
          /\ p.kind = q.kind
      <4> HIDE DEF d, w
      <4> QED BY <2>1, <3>1, <3>2 DEF Naming
    <3> HIDE DEF p
    <3>4. Enforced /\ p.kind = "attach" /\ p.at = "put" =>
            \A b \in Assets \ {q.asset} : Live(b) => q.arg \notin doc[b].ids
      BY <2>4, <3>1, <3>3 DEF SerialInv, PairsUnique
    <3>5. p \notin Creating /\ p \notin Listing
      BY <3>3 DEF Naming, Creating, Listing
    <3>6. Ready(p)
      BY <3>3, <3>4, <3>5 DEF Ready
    <3> HIDE DEF w
    <3> QED BY <1>3, <2>2, <2>4, <3>3, <3>6, SerialAsk DEF Asking
  <2> QED BY <2>3, <2>4
<1>6. ASSUME OwnerCheck(c)
      PROVE  SerialInv'
  <2>1. q \in Naming
    <3>1. q.at = "owner"
      BY <1>1, <1>6 DEF OwnerCheck
    <3> QED BY <3>1 DEF Asking, Creating, Listing, Describing, Versioning, Lists, Idle
  <2> DEFINE p == [q EXCEPT !.at = "put"]
  <2>2. /\ UNCHANGED <<doc, kept>>
        /\ \/ req' = [req EXCEPT ![c] = Idle]
           \/ /\ req' = [req EXCEPT ![c] = p]
              /\ \A b \in Assets \ {q.asset} : Live(b) => q.arg \notin doc[b].ids
    BY <1>1, <1>6 DEF OwnerCheck, End, IdentityInv, TypeInv
  <2>3. p \in Naming /\ p.asset = q.asset /\ p.arg = q.arg
    BY <2>1 DEF Naming
  <2> HIDE DEF p
  <2>4. p \notin Creating /\ p \notin Listing
    BY <2>3 DEF Naming, Creating, Listing
  <2>5. (\A b \in Assets \ {q.asset} : Live(b) => q.arg \notin doc[b].ids) => Ready(p)
    BY <2>3, <2>4 DEF Ready
  <2> QED BY <1>2, <1>3, <2>2, <2>3, <2>5, SerialAsk DEF Asking
<1> QED BY <1>4, <1>5, <1>6

LEMMA SerialPairPut ==
  ASSUME IdentityConstants, IdentityInv, SerialInv, Serial, NEW c \in Clients, PairPut(c)
  PROVE  SerialInv'
<1>1. PICK q \in Asking \cup {Idle} : q = req[c] /\ Ready(q) /\ Sound(q)
  BY DEF IdentityInv, TypeInv, SerialInv
<1>2. PICK a \in Assets : q \in Naming /\ q.at = "put" /\ a = q.asset
  <2>1. q.kind \in {"attach", "detach"} /\ q.at = "put"
    BY <1>1 DEF PairPut
  <2>2. q \in Naming
    BY <2>1 DEF Asking, Creating, Listing, Describing, Versioning, Lists, Idle
  <2> QED BY <2>1, <2>2 DEF Naming
<1>3. Idle \in Asking \cup {Idle} /\ Ready(Idle) /\ Others(c)
  <2>1. q # Idle
    BY <1>2 DEF Naming, Idle
  <2> QED BY <1>1, <2>1, IdleReady, OthersIdle
<1>4. CASE Conflict(c)
  <2>0. PICK m \in Nat : m = q.n + 1
    BY <1>2 DEF Naming
  <2> DEFINE p == [q EXCEPT !.at = "get", !.n = m]
  <2>1. /\ UNCHANGED <<doc, kept>>
        /\ req' = [req EXCEPT ![c] = p] \/ req' = [req EXCEPT ![c] = Idle]
    BY <1>1, <1>4, <2>0 DEF PairPut
  <2>2. p \in Naming /\ p.at = "get"
    BY <1>2 DEF Naming
  <2> HIDE DEF p
  <2>3. Ready(p)
    BY <2>2 DEF Ready, Naming, Creating, Listing
  <2> QED BY <1>3, <2>1, <2>2, <2>3, SerialAsk DEF Asking
<1>5. CASE ~Conflict(c)
  <2>1. PICK b \in Docs : b = doc[a]
    BY <1>1, <1>2, <1>5, LiveIs DEF Conflict, IdentityInv
  <2>2. Live(a) /\ b.ids = q.seen /\ q.arg \in Pairs
    <3>1. Live(a) /\ b.rev = q.rev
      BY <1>1, <1>2, <1>5, <2>1 DEF Conflict
    <3> QED BY <1>1, <1>2, <2>1, <3>1 DEF Sound, Naming
  <2>3. PICK m \in Keeping : m = kept[a] /\ m.tags \subseteq b.tags /\ m.tracks \subseteq b.tracks
    BY <2>1, <2>2 DEF IdentityInv, TypeInv, SerialInv, ListsKept, Preserved
  <2>0. PICK v \in Nat : v = b.rev + 1
    BY <2>1 DEF Docs
  <2> DEFINE s == IF q.kind = "attach" THEN q.seen \cup {q.arg} ELSE q.seen \ {q.arg}
             l == IF q.kind = "attach" THEN m.ids \cup {q.arg} ELSE m.ids \ {q.arg}
             d == [b EXCEPT !.ids = s, !.rev = v]
             k == [m EXCEPT !.ids = l]
  <2>4. doc' = [doc EXCEPT ![a] = d] /\ req' = [req EXCEPT ![c] = Idle]
    BY <1>1, <1>2, <1>5, <2>0, <2>1 DEF PairPut, Write, End
  <2>5. kept' = [kept EXCEPT ![a] = k]
    <3>1. kept' = [kept EXCEPT ![a].ids = l]
      BY <1>1, <1>2, <1>5, <2>3 DEF PairPut, Keep, Drop, Naming
    <3> HIDE DEF l
    <3> QED BY <2>3, <3>1 DEF IdentityInv, TypeInv
  <2>6. s \subseteq Pairs /\ l \subseteq Pairs
    BY <2>1, <2>2, <2>3 DEF Docs, Keeping
  <2>7. Enforced => \A e \in Assets \ {a} : Live(e) => s \cap doc[e].ids = {}
    <3>1. Enforced => \A e \in Assets \ {a} : Live(e) => q.seen \cap doc[e].ids = {}
      BY <2>1, <2>2 DEF SerialInv, PairsUnique
    <3>2. Enforced /\ q.kind = "attach" =>
            \A e \in Assets \ {a} : Live(e) => q.arg \notin doc[e].ids
      BY <1>1, <1>2 DEF Ready
    <3> QED BY <3>1, <3>2
  <2> HIDE DEF s, l
  <2>8. d \in Docs /\ d.ids = s /\ d.slug = b.slug /\ d.tags = b.tags /\ d.tracks = b.tracks
    BY <2>6 DEF Docs
  <2>9. k \in Keeping /\ k.tags = m.tags /\ k.tracks = m.tracks
    BY <2>6 DEF Keeping
  <2> HIDE DEF d, k
  <2> QED BY <1>3, <2>1, <2>2, <2>3, <2>4, <2>5, <2>7, <2>8, <2>9, SerialWrite
<1> QED BY <1>4, <1>5

\* The list that is replaced is the one the route read.
LEMMA SerialListUpdate ==
  ASSUME IdentityConstants, IdentityInv, SerialInv, Serial, NEW c \in Clients, NEW f \in Lists,
         ListUpdate(c, f)
  PROVE  SerialInv'
<1>1. PICK q \in Asking \cup {Idle} : q = req[c] /\ Ready(q)
  BY DEF IdentityInv, TypeInv, SerialInv
<1>2. PICK a \in Assets : q \in Listing /\ q.at = f /\ a = q.asset
  <2>1. q.kind \in {"add", "remove"} /\ q.at = f
    BY <1>1 DEF ListUpdate
  <2>2. q \in Listing
    BY <2>1 DEF Asking, Creating, Naming, Describing, Versioning, Idle
  <2> QED BY <2>1, <2>2 DEF Listing
<1>3. /\ Idle \in Asking \cup {Idle} /\ Ready(Idle) /\ req' = [req EXCEPT ![c] = Idle]
      /\ Others(c)
  <2>1. q # Idle
    BY <1>2 DEF Listing, Lists, Idle
  <2> QED BY <1>1, <2>1, IdleReady, OthersIdle DEF ListUpdate, End
<1>4. PICK m \in Keeping : m = kept[a]
  BY DEF IdentityInv, TypeInv
<1> DEFINE l == IF Live(a) /\ q.kind = "add" THEN m[f] \cup {q.arg} ELSE m[f] \ {q.arg}
           k == [m EXCEPT ![f] = l]
<1>5. kept' = [kept EXCEPT ![a] = k]
  <2>1. kept' = [kept EXCEPT ![a][f] = l]
    BY <1>1, <1>2, <1>4 DEF ListUpdate, Keep, Drop
  <2> HIDE DEF l
  <2> QED BY <1>4, <2>1 DEF IdentityInv, TypeInv
<1>6. l \in SUBSET Labels
  BY <1>2, <1>4 DEF Keeping, Listing, Lists
<1>7. k \in Keeping /\ k[f] = l /\ \A g \in Lists \ {f} : k[g] = m[g]
  <2> HIDE DEF l
  <2> QED BY <1>6 DEF Keeping, Lists
<1>8. CASE ~Live(a)
  <2>1. m = Nothing
    BY <1>4, <1>8 DEF IdentityInv, NoneKept
  <2>2. k = m
    BY <1>8, <2>1 DEF Nothing, Lists
  <2> HIDE DEF k
  <2>3. UNCHANGED <<doc, kept>>
    BY <1>1, <1>2, <1>4, <1>5, <1>8, <2>2 DEF ListUpdate, IdentityInv, TypeInv
  <2> QED BY <1>3, <2>3, SerialAsk
<1>9. CASE Live(a)
  <2>1. PICK b \in Docs : b = doc[a]
    BY <1>9, LiveIs DEF IdentityInv
  <2>0. PICK v \in Nat : v = b.rev + 1
    BY <2>1 DEF Docs
  <2> DEFINE s == IF q.kind = "add" THEN q.seen \cup {q.arg} ELSE q.seen \ {q.arg}
             d == [b EXCEPT ![f] = s, !.rev = v]
  <2>2. doc' = [doc EXCEPT ![a] = d]
    BY <1>1, <1>2, <1>9, <2>0, <2>1 DEF ListUpdate, Write, Lists
  <2>3. s \subseteq Labels /\ l \subseteq s
    <3>1. q.seen = b[f] /\ m[f] \subseteq b[f]
      BY <1>1, <1>2, <1>4, <1>9, <2>1 DEF Ready, SerialInv, ListsKept, Preserved, Lists
    <3> QED BY <1>2, <1>9, <3>1 DEF Listing
  <2> HIDE DEF s, k, l
  <2>4. /\ d \in Docs /\ d.ids = b.ids /\ d.slug = b.slug /\ d[f] = s
        /\ \A g \in Lists \ {f} : d[g] = b[g]
    BY <2>3 DEF Docs, Lists
  <2> HIDE DEF d
  <2>5. k.tags \subseteq d.tags /\ k.tracks \subseteq d.tracks
    <3>1. m.tags \subseteq b.tags /\ m.tracks \subseteq b.tracks
      BY <1>4, <1>9, <2>1 DEF SerialInv, ListsKept, Preserved
    <3> QED BY <1>7, <2>3, <2>4, <3>1 DEF Lists
  <2>6. Enforced => \A e \in Assets \ {a} : Live(e) => d.ids \cap doc[e].ids = {}
    BY <1>9, <2>1, <2>4 DEF SerialInv, PairsUnique
  <2> QED BY <1>3, <1>5, <1>7, <1>9, <2>1, <2>2, <2>4, <2>5, <2>6, SerialWrite
<1> QED BY <1>8, <1>9

\* Other writes leave slugs, identifiers and lists as they are.
LEMMA SerialLeave ==
  ASSUME IdentityConstants, IdentityInv, SerialInv, NEW c \in Clients, Others(c),
         NEW p \in Asking \cup {Idle}, p \in Versioning \cup {Idle},
         req' = [req EXCEPT ![c] = p],
         NEW a \in Assets, Live(a), NEW d \in Docs, doc' = [doc EXCEPT ![a] = d],
         d.slug = doc[a].slug, d.ids = doc[a].ids, d.tags = doc[a].tags, d.tracks = doc[a].tracks,
         NEW k \in Keeping, kept' = [kept EXCEPT ![a] = k], k.tags = kept[a].tags,
         k.tracks = kept[a].tracks
  PROVE  SerialInv'
<1>1. k.tags \subseteq d.tags /\ k.tracks \subseteq d.tracks
  BY DEF SerialInv, ListsKept, Preserved
<1>2. Enforced => \A b \in Assets \ {a} : Live(b) => d.ids \cap doc[b].ids = {}
  BY DEF SerialInv, PairsUnique
<1> QED BY <1>1, <1>2, SerialWrite

LEMMA SerialMetaUpdate ==
  ASSUME IdentityConstants, IdentityInv, SerialInv, Serial, NEW c \in Clients, MetaUpdate(c)
  PROVE  SerialInv'
<1>1. PICK q \in Asking \cup {Idle} : q = req[c]
  BY DEF IdentityInv, TypeInv
<1>2. PICK a \in Assets : q \in Describing /\ a = q.asset
  <2>1. q.at = "meta"
    BY <1>1 DEF MetaUpdate
  <2>2. q \in Describing
    BY <2>1 DEF Asking, Creating, Naming, Listing, Versioning, Lists, Idle
  <2> QED BY <2>2 DEF Describing
<1>3. /\ Idle \in Asking \cup {Idle} /\ Ready(Idle) /\ req' = [req EXCEPT ![c] = Idle]
      /\ Others(c)
  <2>1. q # Idle
    BY <1>2 DEF Describing, Idle
  <2> QED BY <1>1, <2>1, IdleReady, OthersIdle DEF MetaUpdate, End
<1>4. CASE ~Live(a)
  <2>1. UNCHANGED <<doc, kept>>
    BY <1>1, <1>2, <1>4 DEF MetaUpdate
  <2> QED BY <1>3, <2>1, SerialAsk
<1>5. CASE Live(a)
  <2>1. PICK b \in Docs : b = doc[a]
    BY <1>5, LiveIs DEF IdentityInv
  <2>2. PICK m \in Keeping : m = kept[a]
    BY DEF IdentityInv, TypeInv
  <2>3. PICK v \in Nat : v = b.rev + 1
    BY <2>1 DEF Docs
  <2> DEFINE s == IF q.kind = "merge" THEN b.meta \cup {q.arg} ELSE {q.arg}
             l == IF q.kind = "merge" THEN m.meta \cup {q.arg} ELSE {q.arg}
             d == [b EXCEPT !.meta = s, !.rev = v]
             k == [m EXCEPT !.meta = l]
  <2>4. doc' = [doc EXCEPT ![a] = d]
    BY <1>1, <1>2, <1>5, <2>1, <2>3 DEF MetaUpdate, Write, Merged
  <2>5. kept' = [kept EXCEPT ![a] = k]
    <3>1. kept' = [kept EXCEPT ![a].meta = l]
      BY <1>1, <1>2, <1>5, <2>2 DEF MetaUpdate
    <3> HIDE DEF l
    <3> QED BY <2>2, <3>1 DEF IdentityInv, TypeInv
  <2>6. s \subseteq Labels /\ l \subseteq Labels
    BY <1>2, <2>1, <2>2 DEF Docs, Keeping, Describing
  <2> HIDE DEF s, l
  <2>7. /\ d \in Docs /\ d.slug = doc[a].slug /\ d.ids = doc[a].ids
        /\ d.tags = doc[a].tags /\ d.tracks = doc[a].tracks
    BY <2>1, <2>6 DEF Docs
  <2>8. k \in Keeping /\ k.tags = kept[a].tags /\ k.tracks = kept[a].tracks
    BY <2>2, <2>6 DEF Keeping
  <2> HIDE DEF d, k
  <2> QED BY <1>3, <1>5, <2>4, <2>5, <2>7, <2>8, SerialLeave
<1> QED BY <1>4, <1>5

LEMMA SerialSeed ==
  ASSUME IdentityConstants, IdentityInv, SerialInv, Serial, NEW c \in Clients, Seed(c)
  PROVE  SerialInv'
<1>1. PICK q \in Asking \cup {Idle} : q = req[c]
  BY DEF IdentityInv, TypeInv
<1>2. PICK a \in Assets : q \in Versioning /\ a = q.asset /\ q.group \in Assets
  <2>1. q.at = "seed"
    BY <1>1 DEF Seed
  <2>2. q \in Versioning
    BY <2>1 DEF Asking, Creating, Naming, Listing, Describing, Lists, Idle
  <2> QED BY <2>2 DEF Versioning
<1> DEFINE p == [q EXCEPT !.at = "child"]
<1>3. p \in Versioning /\ q # Idle
  BY <1>2 DEF Versioning, Idle
<1>4. req' = [req EXCEPT ![c] = p] /\ UNCHANGED kept /\ Others(c)
  BY <1>1, <1>3, OthersIdle DEF Seed, IdentityInv, TypeInv
<1> HIDE DEF p
<1>5. CASE ~Live(a)
  <2>1. UNCHANGED doc
    BY <1>1, <1>2, <1>5 DEF Seed
  <2> QED BY <1>3, <1>4, <2>1, IdleReady, SerialAsk DEF Asking
<1>6. CASE Live(a)
  <2>1. PICK b \in Docs : b = doc[a]
    BY <1>6, LiveIs DEF IdentityInv
  <2>2. PICK m \in Keeping : m = kept[a]
    BY DEF IdentityInv, TypeInv
  <2>3. PICK v \in Nat : v = b.rev + 1
    BY <2>1 DEF Docs
  <2> DEFINE d == [b EXCEPT !.group = q.group, !.rev = v]
  <2>4. doc' = [doc EXCEPT ![a] = d] /\ kept' = [kept EXCEPT ![a] = m]
    BY <1>1, <1>2, <1>4, <1>6, <2>1, <2>2, <2>3 DEF Seed, Write, IdentityInv, TypeInv
  <2>5. /\ d \in Docs /\ d.slug = doc[a].slug /\ d.ids = doc[a].ids
        /\ d.tags = doc[a].tags /\ d.tracks = doc[a].tracks
    BY <1>2, <2>1, <2>3 DEF Docs
  <2> HIDE DEF d
  <2>6. Others(c) /\ p \in Asking \cup {Idle} /\ m.tags = kept[a].tags /\ m.tracks = kept[a].tracks
    BY <1>3, <1>4, <2>2 DEF Asking
  <2>7. req' = [req EXCEPT ![c] = p]
    BY <1>4
  <2> QED BY <1>2, <1>3, <1>6, <2>2, <2>4, <2>5, <2>6, <2>7, SerialLeave
<1> QED BY <1>5, <1>6

LEMMA SerialEncoded ==
  ASSUME IdentityConstants, IdentityInv, SerialInv, Serial, NEW c \in Clients, Encoded(c)
  PROVE  SerialInv'
<1>1. PICK q \in Asking \cup {Idle} : q = req[c]
  BY DEF IdentityInv, TypeInv
<1>2. PICK a \in Assets : a = q.asset /\ q # Idle
  <2>1. q.at = "encode"
    BY <1>1 DEF Encoded
  <2>2. q \in Versioning
    BY <2>1 DEF Asking, Creating, Naming, Listing, Describing, Lists, Idle
  <2> QED BY <2>2 DEF Versioning, Idle
<1>3. /\ Idle \in Asking \cup {Idle} /\ Ready(Idle) /\ req' = [req EXCEPT ![c] = Idle]
      /\ Others(c)
  BY <1>1, <1>2, IdleReady, OthersIdle DEF Encoded, End
<1>4. UNCHANGED kept
  BY DEF Encoded
<1>5. CASE UNCHANGED doc
  BY <1>3, <1>4, <1>5, SerialAsk
<1>6. CASE ~UNCHANGED doc
  <2>1. PICK h \in {"ready", "failed"} : Live(a) /\ Write(a, [doc[a] EXCEPT !.status = h])
    BY <1>1, <1>2, <1>6 DEF Encoded
  <2>2. PICK b \in Docs : b = doc[a]
    BY <2>1, LiveIs DEF IdentityInv
  <2>3. PICK m \in Keeping : m = kept[a]
    BY DEF IdentityInv, TypeInv
  <2>4. PICK v \in Nat : v = b.rev + 1
    BY <2>2 DEF Docs
  <2> DEFINE d == [b EXCEPT !.status = h, !.rev = v]
  <2>5. doc' = [doc EXCEPT ![a] = d] /\ kept' = [kept EXCEPT ![a] = m]
    BY <1>4, <2>1, <2>2, <2>3, <2>4 DEF Write, IdentityInv, TypeInv
  <2>6. /\ d \in Docs /\ d.slug = doc[a].slug /\ d.ids = doc[a].ids
        /\ d.tags = doc[a].tags /\ d.tracks = doc[a].tracks
    BY <2>1, <2>2, <2>4 DEF Docs
  <2> HIDE DEF d
  <2>7. m.tags = kept[a].tags /\ m.tracks = kept[a].tracks
    BY <2>3
  <2> QED BY <1>2, <1>3, <2>1, <2>3, <2>5, <2>6, <2>7, SerialLeave
<1> QED BY <1>5, <1>6

\* A slug that was asked for is still nobody's when the document is put.
LEMMA SerialCreate ==
  ASSUME IdentityConstants, IdentityInv, SerialInv, Serial, NEW c \in Clients, NEW a \in Assets,
         CreatePut(c, a)
  PROVE  SerialInv'
<1>1. PICK q \in Asking \cup {Idle} : q = req[c] /\ Ready(q)
  BY DEF IdentityInv, TypeInv, SerialInv
<1>2. q \in Creating /\ q.at = "put" /\ q # Idle
  <2>1. q.kind = "create" /\ q.at = "put"
    BY <1>1 DEF CreatePut
  <2> QED BY <2>1 DEF Asking, Naming, Listing, Describing, Versioning, Idle
<1> DEFINE s == IF q.n = 0 THEN <<a, q.arg>> ELSE <<q.arg, q.n>>
           d == Document(s, None, None, "uploading")
<1>3. /\ doc[a] = None /\ doc' = [doc EXCEPT ![a] = d] /\ UNCHANGED kept
      /\ req' = [req EXCEPT ![c] = Idle] /\ Idle \in Asking \cup {Idle} /\ Others(c)
  BY <1>1, <1>2, OthersIdle DEF CreatePut, Candidate, End
<1>4. s \in Own(a) \/ (s \in Asked /\ ~SlugTaken(s))
  BY <1>1, <1>2 DEF Own, Asked, Creating, Ready
<1>5. s \in Slugs
  BY <1>4 DEF Slugs, Own
<1> HIDE DEF s
<1>6. d \in Docs /\ d.ids = {} /\ d.slug = s
  BY <1>5 DEF Docs, Document
<1> HIDE DEF d
<1> QED BY <1>3, <1>4, <1>6, SerialNew

LEMMA SerialChild ==
  ASSUME IdentityConstants, IdentityInv, SerialInv, Serial, NEW c \in Clients, NEW a \in Assets,
         Child(c, a)
  PROVE  SerialInv'
<1>1. PICK q \in Asking \cup {Idle} : q = req[c]
  BY DEF IdentityInv, TypeInv
<1>2. q \in Versioning /\ q.asset \in Assets /\ q.group \in Assets /\ q # Idle
  <2>1. q.at = "child"
    BY <1>1 DEF Child
  <2>2. q \in Versioning
    BY <2>1 DEF Asking, Creating, Naming, Listing, Describing, Lists, Idle
  <2> QED BY <2>2 DEF Versioning, Idle
<1>3. doc[a] = None /\ UNCHANGED kept /\ Others(c)
  BY <1>1, <1>2, OthersIdle DEF Child
<1>4. CASE ~Live(q.asset)
  <2>1. /\ UNCHANGED <<doc, kept>> /\ req' = [req EXCEPT ![c] = Idle]
        /\ Idle \in Asking \cup {Idle} /\ Ready(Idle)
    BY <1>1, <1>4, IdleReady DEF Child, End
  <2> QED BY <1>3, <2>1, SerialAsk
<1>5. CASE Live(q.asset)
  <2> DEFINE d == Document(<<a, c>>, q.asset, q.group, "processing")
             p == [q EXCEPT !.at = "encode", !.asset = a]
  <2>1. doc' = [doc EXCEPT ![a] = d] /\ req' = [req EXCEPT ![c] = p]
    BY <1>1, <1>5 DEF Child, IdentityInv, TypeInv
  <2>2. <<a, c>> \in Slugs /\ <<a, c>> \in Own(a)
    BY DEF Slugs, Own
  <2>3. d \in Docs /\ d.ids = {} /\ d.slug = <<a, c>>
    BY <1>2, <2>2 DEF Docs, Document
  <2>4. p \in Versioning
    BY <1>2 DEF Versioning
  <2> HIDE DEF d, p
  <2> QED BY <1>3, <2>1, <2>2, <2>3, <2>4, SerialNew DEF Asking
<1> QED BY <1>4, <1>5

LEMMA SerialInductive ==
  ASSUME IdentityConstants, IdentityInv, SerialInv, Serial, [Next]_vars
  PROVE  SerialInv'
<1>1. CASE UNCHANGED vars
  BY <1>1 DEF vars, SerialInv, Alone, SlugForms, SlugsUnique, PairsUnique, ListsKept, Preserved,
              Ready, SlugTaken, Live
<1>2. ASSUME NEW c \in Clients, Asks(c) \/ Step(c)
      PROVE  SerialInv'
  BY <1>2, SerialRequests, SerialLooks, SerialPairPut, SerialListUpdate, SerialMetaUpdate,
     SerialSeed, SerialEncoded, SerialCreate, SerialChild DEF Step
<1> QED BY <1>1, <1>2 DEF Next, Done

LEMMA SerialStarts ==
  ASSUME IdentityConstants, Init
  PROVE  SerialInv
<1>1. \A a \in Assets : Live(a) => doc[a] = Document(<<a, 0>>, None, None, "ready")
  BY DEF Init, Live
<1>2. SlugForms /\ SlugsUnique /\ PairsUnique /\ ListsKept
  <2>1. ASSUME NEW a \in Assets, Live(a)
        PROVE  doc[a].slug = <<a, 0>> /\ doc[a].ids = {}
    <3>1. doc[a] = Document(<<a, 0>>, None, None, "ready")
      BY <1>1, <2>1
    <3>2. /\ Document(<<a, 0>>, None, None, "ready").slug = <<a, 0>>
          /\ Document(<<a, 0>>, None, None, "ready").ids = {}
      BY DEF Document
    <3> QED BY <3>1, <3>2
  <2>2. \A a \in Assets : kept[a].tags = {} /\ kept[a].tracks = {}
    BY DEF Init, Nothing
  <2>3. \A a \in Assets : <<a, 0>> \in Own(a)
    BY DEF Own
  <2>4. \A a, b \in Assets : a # b => <<a, 0>> # <<b, 0>>
    OBVIOUS
  <2>5. SlugForms /\ SlugsUnique
    BY <2>1, <2>3, <2>4 DEF SlugForms, SlugsUnique
  <2>6. PairsUnique
    BY <2>1 DEF PairsUnique
  <2> QED BY <2>2, <2>5, <2>6 DEF ListsKept, Preserved
<1>3. Alone /\ \A c \in Clients : Ready(req[c])
  BY IdleReady DEF Init, Alone
<1> QED BY <1>2, <1>3 DEF SerialInv

LEMMA SerialHolds ==
  ASSUME IdentityConstants, Serial
  PROVE  Spec => []SerialInv
<1>1. Init => SerialInv
  BY SerialStarts
<1>2. IdentityInv /\ SerialInv /\ [Next]_vars => SerialInv'
  BY SerialInductive
<1> QED BY <1>1, <1>2, IdentityHolds, PTL DEF Spec

\* One request at a time: no two assets share a slug (generateUniqueSlug).  Two
\* at once may, between the look-up and the write.
THEOREM SlugsDiffer ==
  ASSUME IdentityConstants, Serial
  PROVE  Spec => []SlugsUnique
<1>1. SerialInv => SlugsUnique
  BY DEF SerialInv
<1> QED BY <1>1, SerialHolds, PTL

\* One request at a time: with uniqueness enforced a pair names one asset
\* (addExternalId's getByExternalId).
THEOREM PairsDiffer ==
  ASSUME IdentityConstants, Serial
  PROVE  Spec => []PairsUnique
<1>1. SerialInv => PairsUnique
  BY DEF SerialInv
<1> QED BY <1>1, SerialHolds, PTL

\* One request at a time: a tag or a track that was added stays until somebody
\* asks to remove it, though the route writes the whole list back.
THEOREM ListsStay ==
  ASSUME IdentityConstants, Serial
  PROVE  Spec => []ListsKept
<1>1. SerialInv => ListsKept
  BY DEF SerialInv
<1> QED BY <1>1, SerialHolds, PTL
=============================================================================
