--------------------------- MODULE ConsoleColumns ---------------------------
(***************************************************************************)
(* Which columns a console table shows (public/table-columns.js,           *)
(* ops-ui-table.js, table-url-state.js).  A choice lives in the view, in   *)
(* the address bar and, as this browser's default, in local storage, which *)
(* every window shares.  A request of any origin is repaired into a legal  *)
(* set; a new release may declare other columns than the stored choice     *)
(* knows of.                                                               *)
(***************************************************************************)
EXTENDS Naturals

CONSTANTS
    Columns,      \* columns any release may declare
    Releases,     \* the sets of columns that releases declare
    Fixed,        \* hideable: false
    Optional,     \* defaultVisible: false
    Groups,       \* requireAtLeastOne
    Windows,      \* browser windows on the table
    None

\* The column sets of the code: releases declare something, and what a table
\* shows by default meets its own rules.

VARIABLES
    declared,  \* columns of the release that is served
    view,      \* [Windows -> what the window shows, or None]
    stored     \* this browser's default, or None
vars == <<declared, view, stored>>

---------------------------------------------------------------------------
\* defaultVisibleColumns
Default(D) == {k \in D : k \notin Optional \/ k \in Fixed}

\* The first declared member of a group.
First(S) == CHOOSE k \in S : TRUE

\* A group that would be empty gets a member back.
Repair(S, D) ==
    S \cup {First(G \cap D) : G \in {H \in Groups : H \cap S = {} /\ H \cap D # {}}}

\* normalizeVisibleColumns: a request becomes a legal set; no request, or an empty
\* one, is the default.
Normalize(asked, D) ==
    IF asked = None \/ asked = {} THEN Default(D)
    ELSE LET S == Repair({k \in D : k \in asked \/ k \in Fixed}, D)
         IN  IF S = {} THEN Default(D) ELSE S

\* lockedColumnKeys
Locked(S, D) == {k \in D : k \in Fixed \/ \E G \in Groups : G \cap S = {k}}

\* resolveInitialColumns: the link, else the stored default, else the declared one.
Initial(cols) ==
    IF cols # None /\ cols # {} THEN [keys |-> Normalize(cols, declared), explicit |-> TRUE, of |-> declared]
    ELSE IF stored # None THEN [keys |-> Normalize(stored, declared), explicit |-> TRUE, of |-> declared]
    ELSE [keys |-> Normalize(None, declared), explicit |-> FALSE, of |-> declared]

\* urlCols: the address bar names the columns once a choice was made.
UrlOf(v) == IF v.explicit THEN v.keys ELSE None

---------------------------------------------------------------------------
Init == declared \in Releases /\ view = [w \in Windows |-> None] /\ stored = None

\* A window opens the page, or a link, its own or another one's.
Open(w, cols) ==
    /\ view' = [view EXCEPT ![w] = Initial(cols)]
    /\ UNCHANGED <<declared, stored>>

Follow(w, v) == view[v] # None /\ Open(w, UrlOf(view[v]))

\* onChange of the chooser: the view, the address bar and the stored default.
Commit(w, S) ==
    LET keys == Normalize(S, view[w].of) IN
    /\ view' = [view EXCEPT ![w] = [@ EXCEPT !.keys = keys, !.explicit = TRUE]]
    /\ stored' = keys
    /\ UNCHANGED declared

\* A box of the chooser; the locked ones are disabled.
Toggle(w, k) ==
    /\ view[w] # None /\ k \in view[w].of \ Locked(view[w].keys, view[w].of)
    /\ Commit(w, IF k \in view[w].keys THEN view[w].keys \ {k} ELSE view[w].keys \cup {k})

ShowAll(w) == view[w] # None /\ Commit(w, view[w].of)

\* Reset to defaults: the stored choice and the link's columns are forgotten.
Reset(w) ==
    /\ view[w] # None
    /\ view' = [view EXCEPT ![w] = [@ EXCEPT !.keys = Normalize(None, view[w].of), !.explicit = FALSE]]
    /\ stored' = None
    /\ UNCHANGED declared

\* Another release is served; open windows keep the one they loaded.
Release(R) == declared' = R /\ UNCHANGED <<view, stored>>

Next ==
    \/ \E w \in Windows : \/ Open(w, None) \/ ShowAll(w) \/ Reset(w)
                          \/ \E k \in Columns : Toggle(w, k)
                          \/ \E v \in Windows : Follow(w, v)
    \/ \E R \in Releases : Release(R)

Spec == Init /\ [][Next]_vars

---------------------------------------------------------------------------
\* The shapes of the choice and of what is stored (createColumnVisibility).
TypeOK ==
    /\ declared \in Releases
    /\ stored # None => \E R \in Releases : stored \in (SUBSET R) \ {{}}
    /\ view \in [Windows -> {None} \cup [keys : SUBSET Columns, explicit : BOOLEAN, of : Releases]]

\* Whatever the link, the storage, the release and the operator ask for, a table
\* shows a column, only declared ones, the fixed ones, and one of every group
\* ("no input can produce a headerless table", table-columns.js:374).
Legal(v) ==
    /\ v.keys # {} /\ v.keys \subseteq v.of
    /\ Fixed \cap v.of \subseteq v.keys
    /\ \A G \in Groups : G \cap v.of # {} => G \cap v.keys # {}
ViewsLegal == \A w \in Windows : view[w] # None => Legal(view[w])

\* A box changes its own column and no other: the locked boxes are the ones whose
\* change would be repaired (table-columns.js:409).
TogglesOne == \A w \in Windows, k \in Columns : Toggle(w, k) =>
                   view'[w].keys = IF k \in view[w].keys THEN view[w].keys \ {k} ELSE view[w].keys \cup {k}

\* A link made from a chosen view shows that view, in a window with the same
\* release and whatever that browser has stored (table-url-state.js:493).
LinkReproduces == \A w, v \in Windows :
    Follow(w, v) /\ w # v /\ view[v].explicit /\ view[v].of = declared => view'[w].keys = view[v].keys
=============================================================================
