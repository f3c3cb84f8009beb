--------------------------- MODULE ConsoleTables ---------------------------
(***************************************************************************)
(* The list views of the operations console: assets, audit, logs and jobs  *)
(* (public/assets-table.js, audit-table.js, logs-table.js, jobs-table.js,  *)
(* on ops-ui-table.js), the tab switch that mounts them and the jobs poll  *)
(* (public/app.js).  Each table guards its load differently: assets        *)
(* compares the state a load is for, audit queues, logs drops, jobs has no *)
(* guard and filters what it holds.  A table that is no longer on screen   *)
(* goes on: its answers land and its timers fire.                          *)
(***************************************************************************)
EXTENDS Naturals, FiniteSets

CONSTANTS
    Kind,        \* the table this instance is about
    Filters,     \* what the controls may say
    Unfiltered,  \* what they say on a fresh page
    MaxMounts,   \* bound: times the tab is opened
    MaxInputs,   \* bound: changes of the controls
    MaxChanges,  \* bound: changes of the data at the server
    MaxFlights,  \* bound: requests under way
    None

VARIABLES
    data,      \* version of what the server holds
    tables,    \* [Mounts -> the table mounted then, or None]
    cur,       \* the one on screen
    flights,   \* requests under way
    poll,      \* the table jobsPollTimer refreshes, or None
    url,       \* filter the address bar describes
    told,      \* version after the operator's last answered action
    inputs     \* changes of the controls so far
vars == <<data, tables, cur, flights, poll, url, told, inputs>>

Mounts == 1..MaxMounts

\* box: what the text box says; due: its debounce is running; page: None for the
\* first page; next: what leads to the second one, a cursor given out for a filter
\* or, with offsets, the knowledge that there is more.
Fresh(f) == [box |-> f, due |-> FALSE, filter |-> f, page |-> None, next |-> None,
             loading |-> FALSE, sig |-> None, queued |-> FALSE, first |-> TRUE,
             shown |-> None, error |-> FALSE]

Sig(t) == <<t.filter, t.page>>
Token(q) == IF Kind = "logs" THEN q ELSE "more"

\* setFilter and resetPaging: the cursors go, a known total stays.
Refiltered(t, f) == [t EXCEPT !.filter = f, !.due = FALSE, !.page = None,
                              !.next = IF Kind = "logs" THEN None ELSE @]

\* What is asked, and the version the server answers with once it has.
Flight(i, t, silent) == [of |-> i, q |-> t.filter, page |-> t.page, ver |-> None,
                         silent |-> silent, first |-> t.first]

---------------------------------------------------------------------------
(* reload() of each table: the table after it, the requests it makes and the *)
(* address bar.                                                             *)

Begin(i, t) == [t |-> [t EXCEPT !.loading = TRUE, !.sig = Sig(t), !.queued = FALSE, !.error = FALSE],
                out |-> {Flight(i, t, FALSE)}, url |-> t.filter]
Idle(t) == [t |-> t, out |-> {}, url |-> url]

ReloadAssetsDropped(i, t) == IF ~t.loading THEN Begin(i, t) ELSE Idle(t)

\* assets: a load already under way for this state is enough.
ReloadAssets(i, t) ==
    IF ~t.loading THEN Begin(i, t)
    ELSE Idle([t EXCEPT !.queued = @ \/ Sig(t) # t.sig])

\* audit: remembered, and replayed once the load has settled.
ReloadAudit(i, t) == IF ~t.loading THEN Begin(i, t) ELSE Idle([t EXCEPT !.queued = TRUE])

ReloadLogs(i, t) == IF ~t.loading THEN Begin(i, t) ELSE Idle(t)

\* jobs: every refresh is a request of its own.
RefreshJobs(i, t, silent) ==
    [t |-> [t EXCEPT !.first = FALSE, !.error = @ /\ silent], out |-> {Flight(i, t, silent)}, url |-> url]

Reload(i, t) ==
    CASE Kind = "assets" -> ReloadAssets(i, t)
      [] Kind = "audit" -> ReloadAudit(i, t)
      [] Kind = "logs" -> ReloadLogs(i, t)
      [] Kind = "jobs" -> RefreshJobs(i, t, FALSE)

\* A change of the controls: jobs filters what it holds, the others ask.
React(i, t) == IF Kind = "jobs" THEN [t |-> t, out |-> {}, url |-> t.filter] ELSE Reload(i, t)

Apply(i, r) ==
    /\ Cardinality(flights) + Cardinality(r.out) <= MaxFlights
    /\ tables' = [tables EXCEPT ![i] = r.t]
    /\ flights' = flights \cup r.out
    /\ url' = r.url

---------------------------------------------------------------------------
Init ==
    LET r == Reload(1, Fresh(Unfiltered)) IN
    /\ data = 0 /\ cur = 1 /\ poll = None /\ told = 0 /\ inputs = 0 /\ url = Unfiltered
    /\ tables = [i \in Mounts |-> IF i = 1 THEN r.t ELSE None]
    /\ flights = r.out

\* switchTab, away and back: the poll is cleared and a new table takes its state
\* from the address bar.  Leaving the assets box flushes its debounce first.
SwitchTab ==
    /\ cur < MaxMounts /\ (Kind = "assets" => ~tables[cur].due)
    /\ cur' = cur + 1 /\ poll' = None
    /\ told' = data
    /\ Apply(cur + 1, Reload(cur + 1, Fresh(url)))
    /\ UNCHANGED <<data, inputs>>

\* The operator types.  An emptied box and a select take effect at once.
Type(f) ==
    LET t == tables[cur] IN
    /\ inputs < MaxInputs /\ f # t.box
    /\ inputs' = inputs + 1
    /\ IF Kind \in {"assets", "logs"} /\ f # Unfiltered
       THEN /\ tables' = [tables EXCEPT ![cur].box = f, ![cur].due = TRUE]
            /\ UNCHANGED <<flights, url>>
       ELSE Apply(cur, React(cur, Refiltered([t EXCEPT !.box = f], f)))
    /\ UNCHANGED <<data, cur, poll, told>>

\* The debounce is over: setFilter resets the paging and emits.
Dispatch(i) ==
    LET t == tables[i] IN
    /\ t # None /\ t.due
    /\ Apply(i, React(i, Refiltered(t, t.box)))
    /\ UNCHANGED <<data, cur, poll, told, inputs>>

\* nextPage, on the cursor the last answer gave.
NextPage ==
    LET t == tables[cur] IN
    /\ Kind # "jobs" /\ t.next # None /\ inputs < MaxInputs
    /\ inputs' = inputs + 1
    /\ Apply(cur, Reload(cur, [t EXCEPT !.page = t.next, !.next = None]))
    /\ UNCHANGED <<data, cur, poll, told>>

PrevPage ==
    LET t == tables[cur] IN
    /\ Kind # "jobs" /\ t.page # None /\ inputs < MaxInputs
    /\ inputs' = inputs + 1
    /\ Apply(cur, Reload(cur, [t EXCEPT !.page = None, !.next = IF Kind = "logs" THEN None ELSE t.page]))
    /\ UNCHANGED <<data, cur, poll, told>>

\* An archive, rename, restore or cancel from a row has been answered: reload().
RowAction ==
    /\ Kind \in {"assets", "jobs"} /\ data < MaxChanges
    /\ data' = data + 1 /\ told' = data'
    /\ Apply(cur, Reload(cur, tables[cur]))
    /\ UNCHANGED <<cur, poll, inputs>>

\* Somebody else's change.
Change == data < MaxChanges /\ data' = data + 1 /\ UNCHANGED <<tables, cur, flights, poll, url, told, inputs>>

Serve(f) ==
    /\ f.ver = None
    /\ flights' = (flights \ {f}) \cup {[f EXCEPT !.ver = data]}
    /\ UNCHANGED <<data, tables, cur, poll, url, told, inputs>>

\* The finally block: a queued reload runs on the state as it is now.
Settle(i, t, rest) ==
    LET s == [t EXCEPT !.loading = FALSE]
        r == IF t.queued THEN Begin(i, s) ELSE Idle(s)
    IN  /\ tables' = [tables EXCEPT ![i] = r.t] /\ flights' = rest \cup r.out /\ url' = r.url

\* setPageInfo emits on the store the table listens to; the guard swallows that.
Land(f) ==
    LET t == tables[f.of]
        s == [t EXCEPT !.shown = [q |-> f.q, page |-> f.page, ver |-> f.ver], !.error = FALSE]
    IN
    /\ f.ver # None /\ Kind # "jobs"
    /\ \E n \in {None} \cup {Token(f.q) : x \in {f.page} \cap {None}} :
         Settle(f.of, IF Kind = "assets" THEN ReloadAssets(f.of, [s EXCEPT !.next = n]).t
                      ELSE [s EXCEPT !.next = n], flights \ {f})
    /\ UNCHANGED <<data, cur, poll, told, inputs>>

LandFails(f) ==
    /\ f.ver # None /\ Kind # "jobs"
    /\ Settle(f.of, [tables[f.of] EXCEPT !.error = TRUE], flights \ {f})
    /\ UNCHANGED <<data, cur, poll, told, inputs>>

\* renderJobsTab after its first refresh: whatever timer there is is replaced.
StartPoll(f) == poll' = IF f.first THEN f.of ELSE poll

LandJobs(f) ==
    /\ f.ver # None /\ Kind = "jobs"
    /\ tables' = [tables EXCEPT ![f.of].shown = [q |-> f.q, page |-> None, ver |-> f.ver], ![f.of].error = FALSE]
    /\ flights' = flights \ {f}
    /\ StartPoll(f)
    /\ UNCHANGED <<data, cur, url, told, inputs>>

LandJobsFails(f) ==
    /\ f.ver # None /\ Kind = "jobs"
    /\ tables' = IF f.silent THEN tables ELSE [tables EXCEPT ![f.of].error = TRUE]
    /\ flights' = flights \ {f}
    /\ StartPoll(f)
    /\ UNCHANGED <<data, cur, url, told, inputs>>

\* jobsPollTimer: a table that left the page stops it.
PollTick ==
    /\ Kind = "jobs" /\ poll # None
    /\ IF poll = cur
       THEN Apply(cur, RefreshJobs(cur, tables[cur], TRUE)) /\ UNCHANGED poll
       ELSE poll' = None /\ UNCHANGED <<tables, flights, url>>
    /\ UNCHANGED <<data, cur, told, inputs>>

Answers == \E f \in flights : Serve(f) \/ Land(f) \/ LandJobs(f)
Fails == \E f \in flights : LandFails(f) \/ LandJobsFails(f)
Operates == SwitchTab \/ (\E f \in Filters : Type(f)) \/ NextPage \/ PrevPage \/ RowAction

Quiet == {f \in flights : f.of = cur} = {} /\ ~tables[cur].due

Next == Operates \/ Change \/ (\E i \in Mounts : Dispatch(i)) \/ Answers \/ Fails \/ PollTick
        \/ (flights = {} /\ UNCHANGED vars)

Spec == Init /\ [][Next]_vars

---------------------------------------------------------------------------
\* A table loads at most once at a time, except jobs; a queued reload waits for a
\* load (the loading and queued flags of the table modules).
TypeOK ==
    /\ data \in 0..MaxChanges /\ told <= data /\ poll \in Mounts \cup {None}
    /\ Kind # "jobs" => \A i \in Mounts : tables[i] # None =>
        /\ Cardinality({f \in flights : f.of = i}) = (IF tables[i].loading THEN 1 ELSE 0)
        /\ tables[i].queued => tables[i].loading

\* Once nothing is under way the rows on screen are the answer to what the
\* controls say ("The last state the user asked for is always the one that ends
\* up rendered", assets-table.js:1544).
RowsMatchControls ==
    LET t == tables[cur] IN
    Quiet /\ ~t.error =>
        /\ t.box = t.filter
        /\ Kind # "jobs" => t.shown.q = t.filter /\ t.shown.page = t.page

\* The address bar describes the view ("so a refresh/share reproduces it",
\* assets-table.js:1554).
UrlMatchesView == Quiet => url = tables[cur].filter

=============================================================================
