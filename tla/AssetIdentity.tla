---------------------------- MODULE AssetIdentity ----------------------------
(***************************************************************************)
(* How assets are named, correlated, labelled and versioned: slugs,        *)
(* external identifiers, tags, tracks, metadata and version groups         *)
(* (data/asset-repo.ts, data/couch-asset-repo.ts, routes/assets.ts,        *)
(* pipeline/clip.ts, pipeline/rewrap.ts).  Documents carry a revision: a   *)
(* put with an old one is refused and updateWithRetry reads again.  What a *)
(* route reads before it calls the repository is not covered by that.      *)
(***************************************************************************)
EXTENDS Naturals, FiniteSets

CONSTANTS
    Assets,       \* documents that may come to exist
    Old,          \* the ones there at the start, ready
    Clients,      \* requests under way at once
    Kinds,        \* requests that may be made
    Stems,        \* slugs callers ask for
    Pairs,        \* external identifiers (namespace, id)
    Labels,       \* tags, track ids and metadata keys
    Enforced,     \* EXTERNAL_ID_UNIQUENESS=enforced
    Serial,       \* is there one request at a time?
    SlugAttempts, \* SLUG_MAX_ATTEMPTS
    PutAttempts,  \* DEFAULT_MAX_ATTEMPTS of updateWithRetry
    MaxRequests,  \* bound: requests
    None

VARIABLES
    doc,       \* [Assets -> the document, a tombstone, or None]
    req,       \* [Clients -> the request under way]
    kept,      \* [Assets -> what acknowledged requests added and none asked to remove]
    made       \* requests made so far
vars == <<doc, req, kept, made>>

Lists == {"tags", "tracks"}
Idle == [kind |-> "none", at |-> "idle", asset |-> None, arg |-> None, seen |-> {}, rev |-> 0,
         n |-> 1, group |-> None]
Nothing == [tags |-> {}, tracks |-> {}, meta |-> {}, ids |-> {}]

Document(slug, of, group, status) ==
    [slug |-> slug, of |-> of, group |-> group, status |-> status, rev |-> 1,
     tags |-> {}, tracks |-> {}, meta |-> {}, ids |-> {}]

Init ==
    /\ doc = [a \in Assets |-> IF a \in Old THEN Document(<<a, 0>>, None, None, "ready") ELSE None]
    /\ req = [c \in Clients |-> Idle]
    /\ kept = [a \in Assets |-> Nothing]
    /\ made = 0

\* What a purge leaves of a document: its id is not given out again.
Tombstone == Document(None, None, None, "purged")
Live(a) == doc[a] \notin {None, Tombstone}
Write(a, d) == doc' = [doc EXCEPT ![a] = [d EXCEPT !.rev = doc[a].rev + 1]]
End(c) == req' = [req EXCEPT ![c] = Idle]
Keep(a, f, x) == kept' = [kept EXCEPT ![a][f] = @ \cup {x}]
Drop(a, f, x) == kept' = [kept EXCEPT ![a][f] = @ \ {x}]

Request(c, k) ==
    /\ req[c].at = "idle" /\ k \in Kinds /\ made < MaxRequests
    /\ Serial => \A d \in Clients : req[d].at = "idle"
    /\ made' = made + 1

---------------------------------------------------------------------------
(* POST /assets: a slug, then the document.                                *)

CreateStart(c, stem) ==
    /\ Request(c, "create")
    /\ req' = [req EXCEPT ![c] = [Idle EXCEPT !.kind = "create", !.at = "slug", !.arg = stem]]
    /\ UNCHANGED <<doc, kept>>

SlugTaken(s) == \E a \in Assets : Live(a) /\ doc[a].slug = s

\* The caller's slug, then the slug with -2, -3, ...
Candidate(r) == <<r.arg, r.n>>

\* One look of generateUniqueSlug; when they are used up a random tail is added,
\* taken to be like no other (0, and at the put the asset).
SlugProbe(c) ==
    LET r == req[c] IN
    /\ r.at = "slug"
    /\ req' = [req EXCEPT ![c] =
         IF ~SlugTaken(Candidate(r)) THEN [r EXCEPT !.at = "put"]
         ELSE IF r.n = SlugAttempts THEN [r EXCEPT !.at = "put", !.n = 0]
         ELSE [r EXCEPT !.n = @ + 1]]
    /\ UNCHANGED <<doc, kept, made>>

CreatePut(c, a) ==
    LET r == req[c] IN
    /\ r.kind = "create" /\ r.at = "put" /\ doc[a] = None
    /\ doc' = [doc EXCEPT ![a] =
         Document(IF r.n = 0 THEN <<a, r.arg>> ELSE Candidate(r), None, None, "uploading")]
    /\ End(c)
    /\ UNCHANGED <<kept, made>>

---------------------------------------------------------------------------
(* POST and DELETE /:id/external-ids.                                      *)

PairRequest(c, k, a, p) ==
    /\ Request(c, k) /\ Live(a)
    /\ req' = [req EXCEPT ![c] = [Idle EXCEPT !.kind = k, !.at = "get", !.asset = a, !.arg = p]]
    /\ UNCHANGED <<doc, kept>>

\* updateWithRetry reads the document.  An attach of a pair it has, and a detach
\* of one it has not, write it back unchanged.
PairGet(c) ==
    LET r == req[c] a == r.asset IN
    /\ r.at = "get"
    /\ IF ~Live(a)
       THEN End(c)
       ELSE req' = [req EXCEPT ![c] = [r EXCEPT !.seen = doc[a].ids, !.rev = doc[a].rev,
                      !.at = IF r.kind = "attach" /\ Enforced /\ r.arg \notin doc[a].ids
                             THEN "owner" ELSE "put"]]
    /\ UNCHANGED <<doc, kept, made>>

\* getByExternalId inside the retry: another owner is a 409.
OwnerCheck(c) ==
    LET r == req[c] IN
    /\ r.at = "owner"
    /\ IF \E b \in Assets \ {r.asset} : Live(b) /\ r.arg \in doc[b].ids
       THEN End(c)
       ELSE req' = [req EXCEPT ![c].at = "put"]
    /\ UNCHANGED <<doc, kept, made>>

NoConflict(c) == ~Live(req[c].asset)

\* The put: refused when the document has changed since, then read again.
Conflict(c) == ~Live(req[c].asset) \/ doc[req[c].asset].rev # req[c].rev

PairPut(c) ==
    LET r == req[c] a == r.asset IN
    /\ r.kind \in {"attach", "detach"} /\ r.at = "put"
    /\ IF Conflict(c)
       THEN /\ req' = [req EXCEPT ![c] =
                 IF r.n = PutAttempts THEN Idle ELSE [r EXCEPT !.at = "get", !.n = @ + 1]]
            /\ UNCHANGED <<doc, kept>>
       ELSE /\ Write(a, [doc[a] EXCEPT !.ids = IF r.kind = "attach" THEN r.seen \cup {r.arg}
                                               ELSE r.seen \ {r.arg}])
            /\ End(c)
            /\ IF r.kind = "attach" THEN Keep(a, "ids", r.arg) ELSE Drop(a, "ids", r.arg)
    /\ UNCHANGED made

---------------------------------------------------------------------------
(* Tags and tracks: the route reads the list, then has it replaced.        *)

ListRequest(c, k, a, f, x) ==
    /\ k \in {"add", "remove"} /\ f \in Lists
    /\ Request(c, k) /\ Live(a)
    /\ k = "remove" /\ f = "tracks" => x \in doc[a][f]
    /\ req' = [req EXCEPT ![c] = [Idle EXCEPT !.kind = k, !.at = f, !.asset = a, !.arg = x,
                                              !.seen = doc[a][f]]]
    /\ UNCHANGED <<doc, kept>>

\* repo.update with the whole list, merged with what the route read (normalizeTags).
ListUpdate(c, f) ==
    LET r == req[c] a == r.asset IN
    /\ r.kind \in {"add", "remove"} /\ r.at = f
    /\ IF Live(a)
       THEN Write(a, [doc[a] EXCEPT ![f] = IF r.kind = "add" THEN r.seen \cup {r.arg}
                                           ELSE r.seen \ {r.arg}])
       ELSE UNCHANGED doc
    /\ IF Live(a) /\ r.kind = "add" THEN Keep(a, f, r.arg) ELSE Drop(a, f, r.arg)
    /\ End(c)
    /\ UNCHANGED made

---------------------------------------------------------------------------
(* PATCH /:id and PUT /:id/metadata.                                       *)

MetaRequest(c, k, a, x) ==
    /\ k \in {"merge", "replace"}
    /\ Request(c, k) /\ Live(a)
    /\ req' = [req EXCEPT ![c] = [Idle EXCEPT !.kind = k, !.at = "meta", !.asset = a, !.arg = x,
                                              !.seen = doc[a].meta]]
    /\ UNCHANGED <<doc, kept>>

\* applyMetadata on the document as the update reads it.
Merged(c, a) == IF req[c].kind = "merge" THEN doc[a].meta \cup {req[c].arg} ELSE {req[c].arg}

\* A replace that is answered takes back what was merged until then.
MetaUpdate(c) ==
    LET r == req[c] a == r.asset IN
    /\ r.at = "meta"
    /\ IF Live(a) THEN Write(a, [doc[a] EXCEPT !.meta = Merged(c, a)]) ELSE UNCHANGED doc
    /\ kept' = IF ~Live(a) THEN kept
               ELSE [kept EXCEPT ![a].meta = IF r.kind = "merge" THEN @ \cup {r.arg} ELSE {r.arg}]
    /\ End(c)
    /\ UNCHANGED made

---------------------------------------------------------------------------
(* Clips and rewraps, as versions of their source.                         *)

\* resolveVersionLinkage: the group of the source, or a new one named after it.
GroupOf(a) == IF doc[a].group = None THEN a ELSE doc[a].group

VersionStart(c, a) ==
    /\ Request(c, "version") /\ Live(a) /\ doc[a].status = "ready"
    /\ req' = [req EXCEPT ![c] = [Idle EXCEPT !.kind = "version", !.asset = a, !.rev = doc[a].rev,
                 !.group = GroupOf(a),
                 !.at = IF doc[a].group = None THEN "seed" ELSE "child"]]
    /\ UNCHANGED <<doc, kept>>

\* resolveVersionLinkage: the first version gives its source a group.
Seed(c) ==
    LET r == req[c] a == r.asset IN
    /\ r.at = "seed"
    /\ IF Live(a) THEN Write(a, [doc[a] EXCEPT !.group = r.group]) ELSE UNCHANGED doc
    /\ req' = [req EXCEPT ![c].at = "child"]
    /\ UNCHANGED <<kept, made>>

\* The child document; without its parent it is refused.
Child(c, a) ==
    LET r == req[c] IN
    /\ r.at = "child" /\ doc[a] = None
    /\ IF ~Live(r.asset)
       THEN End(c) /\ UNCHANGED doc
       ELSE /\ doc' = [doc EXCEPT ![a] = Document(<<a, c>>, r.asset, r.group, "processing")]
            /\ req' = [req EXCEPT ![c].at = "encode", ![c].asset = a]
    /\ UNCHANGED <<kept, made>>

\* The job ran, or it failed.
Encoded(c) ==
    LET r == req[c] a == r.asset IN
    /\ r.at = "encode"
    /\ IF Live(a) /\ doc[a].status = "processing"
       THEN \E s \in {"ready", "failed"} : Write(a, [doc[a] EXCEPT !.status = s])
       ELSE UNCHANGED doc
    /\ End(c)
    /\ UNCHANGED <<kept, made>>

---------------------------------------------------------------------------
\* Purge to a tombstone: the slug and the identifiers are free again.
Purge(c, a) ==
    /\ Request(c, "purge") /\ Live(a)
    /\ \A b \in Assets : Live(b) => doc[b].of # a
    /\ doc' = [doc EXCEPT ![a] = Tombstone] /\ kept' = [kept EXCEPT ![a] = Nothing]
    /\ UNCHANGED req

Asks(c) ==
    \/ \E s \in Stems : CreateStart(c, s)
    \/ \E k \in {"attach", "detach"}, a \in Assets, p \in Pairs : PairRequest(c, k, a, p)
    \/ \E k \in {"add", "remove"}, a \in Assets, f \in Lists, x \in Labels : ListRequest(c, k, a, f, x)
    \/ \E k \in {"merge", "replace"}, a \in Assets, x \in Labels : MetaRequest(c, k, a, x)
    \/ \E a \in Assets : VersionStart(c, a) \/ Purge(c, a)

Step(c) ==
    \/ SlugProbe(c) \/ PairGet(c) \/ OwnerCheck(c) \/ PairPut(c) \/ MetaUpdate(c)
    \/ Seed(c) \/ Encoded(c)
    \/ \E f \in Lists : ListUpdate(c, f)
    \/ \E a \in Assets : CreatePut(c, a) \/ Child(c, a)

Done == (\A c \in Clients : req[c].at = "idle" \/ req[c].at \in {"put", "child"}) /\ UNCHANGED vars

Next == (\E c \in Clients : Asks(c) \/ Step(c)) \/ Done

Spec == Init /\ [][Next]_vars

---------------------------------------------------------------------------
\* Documents and requests have the shapes of asset-repo.ts.
TypeOK ==
    /\ \A a \in Assets : Live(a) =>
        /\ doc[a].ids \subseteq Pairs
        /\ doc[a].tags \cup doc[a].tracks \cup doc[a].meta \subseteq Labels
        /\ doc[a].group \in Assets \cup {None} /\ doc[a].of \in Assets \cup {None}
    /\ \A c \in Clients : req[c].n <= SlugAttempts \/ req[c].n <= PutAttempts

\* Two assets never share a slug ("Generate a slug that is unique within a
\* workspace", asset-repo.ts:1659).
SlugsUnique == \A a, b \in Assets : Live(a) /\ Live(b) /\ a # b => doc[a].slug # doc[b].slug

\* With uniqueness enforced a pair names one asset; a racing attach "is caught on
\* the refetched attempt rather than slipping through" (couch-asset-repo.ts:213).
PairsUnique ==
    Enforced => \A a, b \in Assets : Live(a) /\ Live(b) /\ a # b => doc[a].ids \cap doc[b].ids = {}

Preserved(f) == \A a \in Assets : Live(a) => kept[a][f] \subseteq doc[a][f]

\* A pair that was attached stays until somebody asks to detach it, whatever else
\* writes the document at the same time.
PairsKept == Preserved("ids")

\* A metadata key that was merged stays until the metadata is replaced.
MetaKept == Preserved("meta")

\* A tag or track that was added stays until somebody asks to remove it
\* ("Existing tags are kept", assets.ts:7832).
ListsKept == Preserved("tags") /\ Preserved("tracks")

\* A version is in the group of what it is a version of, so that the version list
\* of either shows both.
VersionsTogether ==
    \A a \in Assets : Live(a) /\ doc[a].of # None /\ Live(doc[a].of) => doc[doc[a].of].group = doc[a].group
=============================================================================
