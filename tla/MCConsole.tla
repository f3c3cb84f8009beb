----------------------------- MODULE MCConsole -----------------------------
(***************************************************************************)
(* The web console's tables, panels and editors with the routes they call,  *)
(* for TLC, side by side as in MCBackend: scene says which component moves  *)
(* and with which bounds, v1, v2, ... hold its variables.                   *)
(***************************************************************************)
EXTENDS Integers, Sequences, FiniteSets, TLC

CONSTANTS
    None, a0, a1, a2, a3, a4, b0, c0, c1, c2, w1, w2

VARIABLES
    scene,   \* which component moves, under which bounds
    \* its variables, in its order; None where it has fewer
    v1, v2, v3, v4, v5, v6, v7, v8, v9
vars == <<scene, v1, v2, v3, v4, v5, v6, v7, v8, v9>>

\* The columns of two releases, one of them only in the newer; two groups.
Sets == {{"a", "b", "c"}, {"b", "c", "d"}}
Rules == {{"a", "b"}, {"c", "d"}}

-----------------------------------------------------------------------------
AssetTable == INSTANCE ConsoleTables WITH
    Kind <- "assets", Filters <- {"all", "f", "g"}, Unfiltered <- "all",
    MaxMounts <- 1, MaxInputs <- 4, MaxChanges <- 2, MaxFlights <- 3, data <- v1,
    tables <- v2, cur <- v3, flights <- v4, poll <- v5, url <- v6, told <- v7,
    inputs <- v8
AuditTable == INSTANCE ConsoleTables WITH
    Kind <- "audit", Filters <- {"all", "f", "g"}, Unfiltered <- "all",
    MaxMounts <- 2, MaxInputs <- 3, MaxChanges <- 2, MaxFlights <- 3, data <- v1,
    tables <- v2, cur <- v3, flights <- v4, poll <- v5, url <- v6, told <- v7,
    inputs <- v8
JobTable == INSTANCE ConsoleTables WITH
    Kind <- "jobs", Filters <- {"all", "f"}, Unfiltered <- "all", MaxMounts <- 1,
    MaxInputs <- 1, MaxChanges <- 2, MaxFlights <- 3, data <- v1, tables <- v2,
    cur <- v3, flights <- v4, poll <- v5, url <- v6, told <- v7, inputs <- v8
Columns == INSTANCE ConsoleColumns WITH
    Columns <- {"a", "b", "c", "d"}, Releases <- Sets, Fixed <- {},
    Optional <- {"a"}, Groups <- Rules, Windows <- {w1, w2}, declared <- v1,
    view <- v2, stored <- v3
Panel == INSTANCE ConsoleDetail WITH
    Ids <- {a0, b0}, Kind <- "asset", Detached <- FALSE, Quick <- TRUE,
    MaxInFlight <- 2, MaxActs <- 1, id <- v1, content <- v2, renders <- v3,
    polling <- v4, notice <- v5, gone <- v6, over <- v7, acts <- v8
Window == INSTANCE ConsoleDetail WITH
    Ids <- {a0, b0}, Kind <- "asset", Detached <- TRUE, Quick <- TRUE,
    MaxInFlight <- 2, MaxActs <- 0, id <- v1, content <- v2, renders <- v3,
    polling <- v4, notice <- v5, gone <- v6, over <- v7, acts <- v8
Pipeline == INSTANCE ConsoleDetail WITH
    Ids <- {a0, b0}, Kind <- "pipeline", Detached <- TRUE, Quick <- FALSE,
    MaxInFlight <- 3, MaxActs <- 1, id <- v1, content <- v2, renders <- v3,
    polling <- v4, notice <- v5, gone <- v6, over <- v7, acts <- v8
Tags == INSTANCE ConsoleLists WITH
    Kind <- "tags", Items <- {a0, b0, c0}, Reserved <- {c0}, ListMax <- 2,
    MaxWrites <- 2, MaxOthers <- 2, MaxFaults <- 0, RoleChanges <- TRUE,
    Overlap <- TRUE, srv <- v1, gone <- v2, role <- v3, pan <- v4, tasks <- v5,
    said <- v6, refused <- v7, spent <- v8
Identifiers == INSTANCE ConsoleLists WITH
    Kind <- "ids", Items <- {a0, b0, c0}, Reserved <- {}, ListMax <- 0,
    MaxWrites <- 2, MaxOthers <- 1, MaxFaults <- 0, RoleChanges <- FALSE,
    Overlap <- FALSE, srv <- v1, gone <- v2, role <- v3, pan <- v4, tasks <- v5,
    said <- v6, refused <- v7, spent <- v8
Lost == INSTANCE ConsoleLists WITH
    Kind <- "ids", Items <- {a0, b0}, Reserved <- {}, ListMax <- 0,
    MaxWrites <- 2, MaxOthers <- 0, MaxFaults <- 2, RoleChanges <- FALSE,
    Overlap <- FALSE, srv <- v1, gone <- v2, role <- v3, pan <- v4, tasks <- v5,
    said <- v6, refused <- v7, spent <- v8
Drafts == INSTANCE ConsoleNotes WITH
    Assets <- {a0, b0}, DraftsMax <- 1, MaxTexts <- 3, MaxMounts <- 3,
    MaxFaults <- 1, Calm <- TRUE, srv <- v1, role <- v2, drafts <- v3,
    panes <- v4, tasks <- v5, wants <- v6, typed <- v7, lost <- v8, said <- v9
Tracks == INSTANCE ConsoleTracks WITH
    MaxIds <- 5, MaxWrites <- 3, MaxOthers <- 1, MaxFaults <- 1, Overlap <- FALSE,
    srv <- v1, role <- v2, pan <- v3, tasks <- v4, minted <- v5, spent <- v6
TracksAtOnce == INSTANCE ConsoleTracks WITH
    MaxIds <- 5, MaxWrites <- 3, MaxOthers <- 1, MaxFaults <- 1, Overlap <- TRUE,
    srv <- v1, role <- v2, pan <- v3, tasks <- v4, minted <- v5, spent <- v6
Review == INSTANCE ConsoleReview WITH
    Consoles <- {c1, c2}, MaxRev <- 3, MaxLost <- 0, Losses <- {"get", "post"},
    doc <- v1, may <- v2, con <- v3, req <- v4, lost <- v5
Lock == INSTANCE ConsoleLock WITH
    Consoles <- {c1, c2}, MaxReqs <- 2, MaxTouch <- 1, MaxLost <- 0,
    Attempts <- 2, doc <- v1, may <- v2, con <- v3, req <- v4, used <- v5
Collection == INSTANCE Collections WITH
    Consoles <- {c1}, Fields <- {"name"}, Assets <- {"a", "b"}, Live <- {"a"},
    Ops <- {"add", "lock", "delete"}, MaxReqs <- 3, MaxLost <- 0, Attempts <- 2,
    Overlap <- TRUE, doc <- v1, want <- v2, may <- v3, con <- v4, req <- v5,
    audits <- v6, lost <- v7
Dialogs == INSTANCE Collections WITH
    Consoles <- {c1, c2}, Fields <- {"name", "tags"}, Assets <- {"a", "b"},
    Live <- {"a", "b"}, Ops <- {}, MaxReqs <- 2, MaxLost <- 0, Attempts <- 2,
    Overlap <- TRUE, doc <- v1, want <- v2, may <- v3, con <- v4, req <- v5,
    audits <- v6, lost <- v7
Single == INSTANCE Collections WITH
    Consoles <- {}, Fields <- {"name", "tags"}, Assets <- {"a", "b"},
    Live <- {"a", "b"}, Ops <- {"add", "remove", "lock", "unlock", "delete"},
    MaxReqs <- 4, MaxLost <- 0, Attempts <- 2, Overlap <- FALSE, doc <- v1,
    want <- v2, may <- v3, con <- v4, req <- v5, audits <- v6, lost <- v7
Identity == INSTANCE AssetIdentity WITH
    Assets <- {a1}, Old <- {a1}, Clients <- {c1, c2},
    Kinds <- {"attach", "detach", "merge", "replace"}, Stems <- {"s"},
    Pairs <- {"p", "q"}, Labels <- {"x", "y"}, Enforced <- FALSE, Serial <- FALSE,
    SlugAttempts <- 2, PutAttempts <- 2, MaxRequests <- 4, doc <- v1, req <- v2,
    kept <- v3, made <- v4
Versions == INSTANCE AssetIdentity WITH
    Assets <- {a1, a2, a3, a4}, Old <- {a1}, Clients <- {c1, c2},
    Kinds <- {"version", "purge", "attach"}, Stems <- {"s"}, Pairs <- {"p"},
    Labels <- {"x"}, Enforced <- FALSE, Serial <- FALSE, SlugAttempts <- 2,
    PutAttempts <- 2, MaxRequests <- 4, doc <- v1, req <- v2, kept <- v3,
    made <- v4
Unique == INSTANCE AssetIdentity WITH
    Assets <- {a1, a2, a3}, Old <- {a1}, Clients <- {c1, c2},
    Kinds <- {"create", "attach", "detach", "add", "remove", "purge"},
    Stems <- {"s"}, Pairs <- {"p"}, Labels <- {"x", "y"}, Enforced <- TRUE,
    Serial <- TRUE, SlugAttempts <- 2, PutAttempts <- 2, MaxRequests <- 5,
    doc <- v1, req <- v2, kept <- v3, made <- v4

-----------------------------------------------------------------------------
\* The slots from the n-th on, which a scene with fewer variables leaves empty.
Rest4 == <<v4, v5, v6, v7, v8, v9>>
Rest5 == <<v5, v6, v7, v8, v9>>
Rest6 == <<v6, v7, v8, v9>>
Rest7 == <<v7, v8, v9>>
Rest8 == <<v8, v9>>
Rest9 == <<v9>>
Unused9 == v9 = None
Unused8 == v8 = None /\ Unused9
Unused7 == v7 = None /\ Unused8
Unused6 == v6 = None /\ Unused7
Unused5 == v5 = None /\ Unused6
Unused4 == v4 = None /\ Unused5

Init ==
    \/ scene = "asset table" /\ AssetTable!Init /\ Unused9
    \/ scene = "audit table" /\ AuditTable!Init /\ Unused9
    \/ scene = "job table" /\ JobTable!Init /\ Unused9
    \/ scene = "columns" /\ Columns!Init /\ Unused4
    \/ scene = "panel" /\ Panel!Init /\ Unused9
    \/ scene = "window" /\ Window!Init /\ Unused9
    \/ scene = "pipeline" /\ Pipeline!Init /\ Unused9
    \/ scene = "tags" /\ Tags!Init /\ Unused9
    \/ scene = "ids" /\ Identifiers!Init /\ Unused9
    \/ scene = "ids lost" /\ Lost!Init /\ Unused9
    \/ scene = "drafts" /\ Drafts!Init
    \/ scene = "tracks" /\ Tracks!Init /\ Unused7
    \/ scene = "tracks at once" /\ TracksAtOnce!Init /\ Unused7
    \/ scene = "review" /\ Review!Init /\ Unused6
    \/ scene = "lock" /\ Lock!Init /\ Unused6
    \/ scene = "collection" /\ Collection!Init /\ Unused8
    \/ scene = "dialogs" /\ Dialogs!Init /\ Unused8
    \/ scene = "one request" /\ Single!Init /\ Unused8
    \/ scene = "identity writes" /\ Identity!Init /\ Unused5
    \/ scene = "versions" /\ Versions!Init /\ Unused5
    \/ scene = "identity" /\ Unique!Init /\ Unused5
Next ==
    /\ UNCHANGED scene
    /\ \/ scene = "asset table" /\ AssetTable!Next /\ UNCHANGED Rest9
       \/ scene = "audit table" /\ AuditTable!Next /\ UNCHANGED Rest9
       \/ scene = "job table" /\ JobTable!Next /\ UNCHANGED Rest9
       \/ scene = "columns" /\ Columns!Next /\ UNCHANGED Rest4
       \/ scene = "panel" /\ Panel!Next /\ UNCHANGED Rest9
       \/ scene = "window" /\ Window!Next /\ UNCHANGED Rest9
       \/ scene = "pipeline" /\ Pipeline!Next /\ UNCHANGED Rest9
       \/ scene = "tags" /\ Tags!Next /\ UNCHANGED Rest9
       \/ scene = "ids" /\ Identifiers!Next /\ UNCHANGED Rest9
       \/ scene = "ids lost" /\ Lost!Next /\ UNCHANGED Rest9
       \/ scene = "drafts" /\ Drafts!Next
       \/ scene = "tracks" /\ Tracks!Next /\ UNCHANGED Rest7
       \/ scene = "tracks at once" /\ TracksAtOnce!Next /\ UNCHANGED Rest7
       \/ scene = "review" /\ Review!Next /\ UNCHANGED Rest6
       \/ scene = "lock" /\ Lock!Next /\ UNCHANGED Rest6
       \/ scene = "collection" /\ Collection!Next /\ UNCHANGED Rest8
       \/ scene = "dialogs" /\ Dialogs!Next /\ UNCHANGED Rest8
       \/ scene = "one request" /\ Single!Next /\ UNCHANGED Rest8
       \/ scene = "identity writes" /\ Identity!Next /\ UNCHANGED Rest5
       \/ scene = "versions" /\ Versions!Next /\ UNCHANGED Rest5
       \/ scene = "identity" /\ Unique!Next /\ UNCHANGED Rest5

Spec == Init /\ [][Next]_vars

-----------------------------------------------------------------------------
\* The rows on screen are those of the controls and the page's address reproduces
\* them, whatever pages, filters, refreshes and late or failed answers overlap;
\* the job table keeps its shape while it polls.  However column choices are
\* stored, shared by link and read by another release, a table shows a legal set
\* of columns, a click changes one column, and a link reproduces the view it was
\* made from (public/app.js and the table modules).
TablesTrue ==
    /\ [](scene = "asset table" =>
         /\ AssetTable!TypeOK /\ AssetTable!RowsMatchControls
         /\ AssetTable!UrlMatchesView)
    /\ [](scene = "audit table" => AuditTable!RowsMatchControls)
    /\ [](scene = "job table" => JobTable!TypeOK)
    /\ [](scene = "columns" => Columns!TypeOK /\ Columns!ViewsLegal)
    /\ [][scene = "columns" => Columns!TogglesOne /\ Columns!LinkReproduces]_vars

\* A detail body shows whole sections of one document, an error only for a failed
\* read, a detached window the document it was opened for, and what is gone stays
\* gone, with renders and actions overlapping.
DetailTrue ==
    /\ scene = "panel" => Panel!TypeOK /\ Panel!BodyWhole /\ Panel!FailsForCause
    /\ scene = "window" =>
         /\ Window!BodyWhole /\ Window!ShowsItsId /\ Window!GoneIsGone
    /\ scene = "pipeline" => Pipeline!TypeOK

\* Tag and identifier editors: one write at a time, what the user is told is what
\* became of the write, a forbidden write retires the editor, an edit changes one
\* entry, the list shown never goes back and a vanished identifier is not
\* claimed, with other users writing meanwhile and answers lost.
EditsTold ==
    /\ [](scene = "tags" =>
         /\ Tags!TypeOK /\ Tags!OneWrite /\ Tags!ForbiddenLatches /\ Tags!ToldTrue
         /\ Tags!Settled)
    /\ [](scene = "ids" =>
         /\ Identifiers!TypeOK /\ Identifiers!ForbiddenLatches
         /\ Identifiers!ToldTrue /\ Identifiers!Settled
         /\ Identifiers!GoneUnclaimed)
    /\ [][scene = "ids" => Identifiers!NeverOlder]_vars
    /\ [][scene = "ids lost" => Lost!EditKeepsOne]_vars

\* A comment being typed survives re-renders, is sent once, stays when it is
\* refused and goes when it is accepted.  The subtitle and audio lists shown are
\* the asset's when nothing is under way, with writes one after another; with
\* writes overlapping there is one audio write at a time and a refused editor is
\* retired.
DraftsKept ==
    /\ scene = "drafts" =>
         /\ Drafts!TypeOK /\ Drafts!TypedKept /\ Drafts!SentOnce
         /\ Drafts!RefusedStays /\ Drafts!AcceptedDropped
    /\ scene = "tracks" => Tracks!TypeOK /\ Tracks!SubtitlesTrue /\ Tracks!AudioTrue
    /\ scene = "tracks at once" =>
         /\ TracksAtOnce!OneAudioWrite /\ TracksAtOnce!RefusedRetires

\* Two consoles on one asset: after a move or a change of the lock the page shows
\* it, a review move is refused only when it is stale and follows the graph, and
\* every change of the lock is in the audit trail.
MovesFresh ==
    /\ [](scene = "review" =>
         /\ Review!TypeOK /\ Review!FreshAfterMove /\ Review!RefusedOnlyIfStale)
    /\ [](scene = "lock" =>
         /\ Lock!TypeOK /\ Lock!TrailComplete /\ Lock!FreshAfterChange)
    /\ [][scene = "review" => Review!GraphOnly]_vars

\* Concurrent requests lose no member and no lock of a collection, dialogs leave
\* the fields they do not edit alone; one after another, a locked collection is
\* not deleted, a deletion confirms the count it deletes and is recorded once
\* (routes/collections.ts).
CollectionsKept ==
    /\ [](scene = "collection" => Collection!TypeOK /\ Collection!NoLostUpdate)
    /\ [](scene = "one request" =>
         /\ Single!LockedNotDeleted /\ Single!CountConfirmed
         /\ Single!OneDeletionEntry)
    /\ [][scene = "dialogs" => Dialogs!OthersKept]_vars

\* Concurrent writers lose no identifier pair and no metadata, versions of an
\* asset stay one set with one latest, and with one writer at a time slugs and
\* pairs are unique and lists keep what was added (asset-repo.ts).
IdentityKept ==
    /\ scene = "identity writes" =>
         /\ Identity!TypeOK /\ Identity!PairsKept /\ Identity!MetaKept
    /\ scene = "versions" => Versions!VersionsTogether
    /\ scene = "identity" =>
         /\ Unique!SlugsUnique /\ Unique!PairsUnique /\ Unique!ListsKept
=============================================================================
