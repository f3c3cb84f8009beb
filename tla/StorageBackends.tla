------------------------- MODULE StorageBackends -------------------------
(***************************************************************************)
(* Registered storage backends: the non-secret record in the parameter    *)
(* store, the secret fanned out to the services of its role, the probe     *)
(* that validates a registration, and the jobs and deliveries that name a  *)
(* backend (storage-backend-registry.ts, external-backend-validation.ts,   *)
(* asset-delivery.ts, routes/storage.ts, routes/export-destinations.ts,    *)
(* routes/assets.ts).  Every await of a call is a step of its own.         *)
(***************************************************************************)
EXTENDS Naturals, Sequences, FiniteSets

CONSTANTS
    MaxIds,     \* bound: registrations
    MaxCalls,   \* bound: calls made
    Calls,      \* calls that may be under way together
    Names, Keys, Roles,
    Overlap,    \* calls may overlap
    SaveFails,  \* a save of a secret may fail
    RolePatch,  \* a role may be changed without rotating the credential
    Checker,    \* the in-use checker is wired
    Slow,       \* a probe or a copy may outlast its time limit
    None

VARIABLES
    rec,    \* [Ids -> StorageBackendRecord, or None]
    sec,    \* [Ids -> [Services -> what the service's secrets hold]]
    call,   \* [Calls -> the call under way, or None]
    jobs,   \* ids of the backends active jobs were resolved to
    stray,  \* calls' answers for probe objects left in an external bucket
    used,   \* ids given out
    gone,   \* ids removed (history)
    made    \* calls made
vars == <<rec, sec, call, jobs, stray, used, gone, made>>

---------------------------------------------------------------------------
Ids == 1..MaxIds
Services == {"encore", "ffmpeg", "packager"}
Ends == {"own", "foreign"}
Nothing == [key |-> None, tok |-> None]

\* The persisted, non-secret record.
Records == [name : Names, role : Roles, key : Keys, tok : BOOLEAN, end : Ends]

\* mappingsForRole: source and archive are read by encore and ffmpeg-s3, packaged is
\* written by the packager.
ServicesOf(role) ==
    (IF role \in {"source", "both", "archive"} THEN <<"encore", "ffmpeg">> ELSE <<>>)
    \o (IF role \in {"packaged", "both"} THEN <<"packager">> ELSE <<>>)
Serves(role) == {ServicesOf(role)[i] : i \in DOMAIN ServicesOf(role)}

\* The saves of one credential: per service the secret key, then the token if there is one.
FanOut(role, key, tok) ==
    LET of(s) == <<[s |-> s, f |-> "key", v |-> key]>>
                 \o (IF tok THEN <<[s |-> s, f |-> "tok", v |-> key]>> ELSE <<>>)
        ss == ServicesOf(role)
        from[i \in 0..Len(ss)] == IF i = 0 THEN <<>> ELSE from[i - 1] \o of(ss[i])
    IN  from[Len(ss)]

\* A patch names the fields it sets; a rotation sets key and token together.
NoPatch == [name |-> None, role |-> None, key |-> None, tok |-> FALSE, end |-> None]
Patches ==
    {[NoPatch EXCEPT !.name = n] : n \in Names}
    \cup {[NoPatch EXCEPT !.end = e] : e \in Ends}
    \cup {[NoPatch EXCEPT !.key = k, !.tok = t, !.role = r] :
            k \in Keys, t \in BOOLEAN, r \in Roles \cup {None}}
    \cup (IF RolePatch THEN {[NoPatch EXCEPT !.role = r] : r \in Roles} ELSE {})
Or(new, old) == IF new # None THEN new ELSE old
Patched(old, p) ==
    [name |-> Or(p.name, old.name), role |-> Or(p.role, old.role), key |-> Or(p.key, old.key),
     tok |-> IF p.key # None THEN p.tok ELSE old.tok, end |-> Or(p.end, old.end)]

\* resolveForOutput and findByRef by name: the first listed record of that name.
ByName(n) ==
    LET hits == {i \in Ids : rec[i] # None /\ rec[i].name = n}
    IN  IF hits = {} THEN None ELSE CHOOSE i \in hits : \A j \in hits : i <= j
IsDestination(role) == role \in {"packaged", "both"}

Quiet == \A c \in Calls : call[c] = None
Open(c) == call[c] = None /\ made < MaxCalls /\ (Overlap \/ Quiet) /\ made' = made + 1
At(c, op, pc) == call[c] # None /\ call[c].op = op /\ call[c].pc = pc
Goto(c, pc) == call' = [call EXCEPT ![c].pc = pc]
End(c) == call' = [call EXCEPT ![c] = None]
Begin(c, op, pc, id, next, todo) ==
    call' = [call EXCEPT ![c] = [op |-> op, pc |-> pc, id |-> id, next |-> next, todo |-> todo,
                                 patch |-> NoPatch, ref |-> None, to |-> None, told |-> "none"]]

Init ==
    /\ rec = [i \in Ids |-> None] /\ sec = [i \in Ids |-> [s \in Services |-> Nothing]]
    /\ call = [c \in Calls |-> None]
    /\ jobs = {} /\ stray = {} /\ used = 0 /\ gone = {} /\ made = 0

---------------------------------------------------------------------------
\* POST /backends and POST /export-destinations: validateExternalBackend probes first,
\* nothing is saved unless it answers ok.
Register(c) ==
    /\ Open(c) /\ used < MaxIds
    /\ used' = used + 1
    /\ \E n \in Names, r \in Roles, k \in Keys, t \in BOOLEAN, e \in Ends :
        Begin(c, "register", "probe", used + 1,
              [name |-> n, role |-> r, key |-> k, tok |-> t, end |-> e], FanOut(r, k, t))
    /\ UNCHANGED <<rec, sec, jobs, stray, gone>>

\* POST /backends/:id/test-connection: the same probe, raced against a time limit.
TestConnection(c) ==
    /\ Open(c) /\ \E i \in Ids : rec[i] # None /\ Begin(c, "test", "probe", i, rec[i], <<>>)
    /\ UNCHANGED <<rec, sec, jobs, stray, used, gone>>

\* The existence, list and write probes; a refusal of one of them ends the probe.
ProbeWrites(c) ==
    /\ \/ At(c, "register", "probe") \/ At(c, "test", "probe")
    /\ \/ Goto(c, "written")
       \/ End(c)
    /\ UNCHANGED <<rec, sec, jobs, stray, used, gone, made>>

\* testConnection's time limit: the caller is told the backend is unreachable, the probe
\* goes on.
ProbeTimesOut(c) ==
    /\ Slow /\ call[c] # None /\ call[c].op = "test" /\ call[c].told = "none"
    /\ call' = [call EXCEPT ![c].told = "timeout"]
    /\ UNCHANGED <<rec, sec, jobs, stray, used, gone, made>>

ProbeCleans(c) ==
    LET register == call[c].op = "register"
        told == IF call[c].told = "none" THEN "probe_cleanup_failed" ELSE call[c].told
    IN  /\ \/ At(c, "register", "written") \/ At(c, "test", "written")
        /\ \/ \* removed and read back
              /\ IF register THEN Goto(c, "save") ELSE End(c)
              /\ UNCHANGED stray
           \/ \* removed, but not readable
              End(c) /\ UNCHANGED stray
           \/ \* not removed
              End(c) /\ stray' = stray \cup {told}
        /\ UNCHANGED <<rec, sec, jobs, used, gone, made>>

Save(c) ==
    /\ call[c] # None /\ call[c].pc = "save" /\ call[c].todo # <<>>
    /\ LET s == Head(call[c].todo)
       IN  sec' = IF s.f = "tok" THEN [sec EXCEPT ![call[c].id][s.s].tok = s.v]
                  ELSE [sec EXCEPT ![call[c].id][s.s].key = s.v]
    /\ call' = [call EXCEPT ![c].todo = Tail(@)]
    /\ UNCHANGED <<rec, jobs, stray, used, gone, made>>

SaveFail(c) ==
    /\ SaveFails
    /\ call[c] # None /\ call[c].pc = "save" /\ call[c].todo # <<>>
    /\ End(c)
    /\ UNCHANGED <<rec, sec, jobs, stray, used, gone, made>>

\* ... and the record is put once every secret is saved.
Put(c) ==
    /\ call[c] # None /\ call[c].pc = "save" /\ call[c].todo = <<>>
    /\ rec' = [rec EXCEPT ![call[c].id] = call[c].next]
    /\ End(c)
    /\ UNCHANGED <<sec, jobs, stray, used, gone, made>>

UpdateWhole(c) ==
    /\ Open(c)
    /\ \E i \in Ids, p \in Patches :
        /\ rec[i] # None
        /\ LET next == [Patched(rec[i], p) EXCEPT !.end = IF p.end = None THEN "own" ELSE p.end]
           IN  call' = [call EXCEPT ![c] =
                 [op |-> "update", pc |-> "save", id |-> i, next |-> next, patch |-> p,
                  todo |-> IF p.key = None THEN <<>> ELSE FanOut(next.role, p.key, p.tok),
                  ref |-> None, to |-> None, told |-> "none"]]
    /\ UNCHANGED <<rec, sec, jobs, stray, used, gone>>

Update(c) ==
    /\ Open(c)
    /\ \E i \in Ids, p \in Patches :
        /\ rec[i] # None
        /\ LET next == Patched(rec[i], p)
           IN  call' = [call EXCEPT ![c] =
                 [op |-> "update", pc |-> "save", id |-> i, next |-> next, patch |-> p,
                  todo |-> IF p.key = None THEN <<>> ELSE FanOut(next.role, p.key, p.tok),
                  ref |-> None, to |-> None, told |-> "none"]]
    /\ UNCHANGED <<rec, sec, jobs, stray, used, gone>>

\* DELETE: the in-use check, if one is wired, then the delete.
Remove(c) ==
    /\ Open(c) /\ \E i \in Ids : rec[i] # None /\ Begin(c, "remove", "check", i, None, <<>>)
    /\ UNCHANGED <<rec, sec, jobs, stray, used, gone>>

RemoveChecked(c) ==
    /\ At(c, "remove", "check")
    /\ IF Checker /\ call[c].id \in jobs THEN End(c) ELSE Goto(c, "delete")
    /\ UNCHANGED <<rec, sec, jobs, stray, used, gone, made>>

Removed(c) ==
    /\ At(c, "remove", "delete")
    /\ rec' = [rec EXCEPT ![call[c].id] = None]
    /\ gone' = gone \cup {call[c].id}
    /\ End(c)
    /\ UNCHANGED <<sec, jobs, stray, used, made>>

---------------------------------------------------------------------------
\* A job or a delivery names a destination by its name.  The first read decides whether
\* its role and its endpoint can receive the output (resolveJobDestination and the deliver
\* route refuse otherwise) ...
Name(c) ==
    /\ Open(c)
    /\ \E n \in Names, op \in {"job", "deliver"} :
        LET i == ByName(n)
        IN  /\ i # None /\ IsDestination(rec[i].role) /\ rec[i].end = "own"
            /\ call' = [call EXCEPT ![c] =
                 [op |-> op, pc |-> "resolve", id |-> i, next |-> rec[i], patch |-> NoPatch,
                  todo |-> <<>>, ref |-> n, to |-> None, told |-> "none"]]
    /\ UNCHANGED <<rec, sec, jobs, stray, used, gone>>

\* ... and resolveDestinationBucket reads the record again for the bucket.
Resolve(c) ==
    /\ \/ At(c, "job", "resolve") \/ At(c, "deliver", "resolve")
    /\ LET i == ByName(call[c].ref)
       IN  IF i = None \/ ~IsDestination(rec[i].role) THEN End(c) /\ UNCHANGED jobs
           ELSE /\ call' = IF call[c].op = "job" THEN [call EXCEPT ![c] = None]
                           ELSE [call EXCEPT ![c].pc = "copy", ![c].to = [id |-> i, end |-> rec[i].end]]
                /\ jobs' = IF call[c].op = "job" THEN jobs \cup {i} ELSE jobs
    /\ UNCHANGED <<rec, sec, stray, used, gone, made>>

\* deliverAssetObject up to the copy: a probe, stat or copy that fails is answered; a copy
\* the store reports done may not be there or not be whole.
Copy(c) ==
    /\ At(c, "deliver", "copy")
    /\ \/ Goto(c, "landed") \/ Goto(c, "missing") \/ End(c)
    /\ UNCHANGED <<rec, sec, jobs, stray, used, gone, made>>

\* The destination is read back and its size compared; only then is it delivered.
Verify(c) ==
    /\ call[c] # None /\ call[c].op = "deliver" /\ call[c].pc \in {"landed", "missing"}
    /\ LET answer == IF call[c].pc = "landed" THEN "delivered" ELSE "not_landed"
       IN  call' = [call EXCEPT ![c].told = IF @ = "timeout" THEN @ ELSE answer,
                                ![c].todo = <<call[c].pc>>, ![c].pc = "told"]
    /\ UNCHANGED <<rec, sec, jobs, stray, used, gone, made>>

\* The bound on the whole delivery: the answer is timeout, the copy goes on.
DeliveryTimesOut(c) ==
    /\ Slow /\ call[c] # None /\ call[c].op = "deliver" /\ call[c].pc \in {"copy", "landed", "missing"}
    /\ call[c].told = "none"
    /\ call' = [call EXCEPT ![c].told = "timeout"]
    /\ UNCHANGED <<rec, sec, jobs, stray, used, gone, made>>

Answered(c) ==
    /\ At(c, "deliver", "told")
    /\ End(c)
    /\ UNCHANGED <<rec, sec, jobs, stray, used, gone, made>>

JobEnds ==
    /\ \E i \in jobs : jobs' = jobs \ {i}
    /\ UNCHANGED <<rec, sec, call, stray, used, gone, made>>

Next ==
    \/ \E c \in Calls :
        \/ Register(c) \/ TestConnection(c) \/ ProbeWrites(c) \/ ProbeTimesOut(c) \/ ProbeCleans(c)
        \/ Save(c) \/ SaveFail(c) \/ Put(c) \/ Update(c)
        \/ Remove(c) \/ RemoveChecked(c) \/ Removed(c)
        \/ Name(c) \/ Resolve(c) \/ Copy(c) \/ Verify(c) \/ DeliveryTimesOut(c) \/ Answered(c)
    \/ JobEnds

Spec == Init /\ [][Next]_vars

---------------------------------------------------------------------------
\* Records, secrets and calls have the shape the types of the source give them.
TypeOK ==
    /\ \A i \in Ids : rec[i] # None => rec[i] \in Records
    /\ \A i \in Ids, s \in Services : sec[i][s] \in [key : Keys \cup {None}, tok : Keys \cup {None}]
    /\ jobs \subseteq Ids /\ gone \subseteq Ids /\ used \in 0..MaxIds /\ made \in 0..MaxCalls
    /\ \A i \in Ids : rec[i] # None => i <= used

\* Every service of a record's role has a secret to use ("so a partial failure never leaves
\* a record without its secret", storage-backend-registry.ts:661).
SecretsPresent ==
    \A i \in Ids : rec[i] # None => \A s \in Serves(rec[i].role) :
        sec[i][s].key # None /\ (rec[i].tok => sec[i][s].tok # None)

\* With no call under way every service of a record's role holds the credential whose
\* access key id the record carries ("to re-fan a coherent credential",
\* storage-backend-registry.ts:725).
Coherent ==
    Quiet => \A i \in Ids : rec[i] # None => \A s \in Serves(rec[i].role) :
        sec[i][s].key = rec[i].key /\ (rec[i].tok => sec[i][s].tok = rec[i].key)

\* A removed backend stays removed ("204 - removed (or already absent)",
\* routes/storage.ts:556).
StaysRemoved == \A i \in gone : rec[i] = None

\* An update changes only the fields its patch names ("`undefined` leaves it unchanged",
\* storage-backend-registry.ts:192).
UnpatchedKept ==
    \A c \in Calls : At(c, "update", "save") /\ call'[c] = None =>
        LET i == call[c].id
        IN  rec[i] # None /\ rec'[i] # rec[i] => rec'[i] = Patched(rec[i], call[c].patch)

\* A backend an active job was resolved to is not removed ("409 - the backend is still
\* referenced by an asset or active job", routes/storage.ts:558).
InUseStays == \A i \in jobs \cap jobs' : rec[i] # None => rec'[i] # None

\* An object reported delivered went to the destination that was checked, which is on this
\* store (asset-delivery.ts:348).
DeliveredThere ==
    \A c \in Calls : call[c] # None /\ call[c].told = "delivered" =>
        call[c].to.id = call[c].id /\ call[c].to.end = "own"

\* An object reported delivered is there, whole (asset-delivery.ts:177).
DeliveredLanded ==
    \A c \in Calls : call[c] # None /\ call[c].told = "delivered" => call[c].todo = <<"landed">>

\* A probe object left behind was reported to the operator ("surface it so the operator can
\* remove the stray probe object", external-backend-validation.ts:369).
StrayTold == stray \subseteq {"probe_cleanup_failed"}
===========================================================================
