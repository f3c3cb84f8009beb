--------------------------- MODULE ScalerConfig ---------------------------
(***************************************************************************)
(* The runtime configuration of the Encore auto-scaler.  It lives in four  *)
(* places: the environment of the deployment, one record in the parameter  *)
(* store, the live copy of the route and the scaler loops.  A boot takes   *)
(* the record or, when it cannot be had in time, the environment; PATCH    *)
(* /config writes the whole record first and applies it second, with the   *)
(* store's answer in between.                                              *)
(*                                                                         *)
(* The three fields are "max", "min" and "idle"; one range of numbers      *)
(* stands for all of them, and a start value outside it for a record       *)
(* written under looser bounds or a mistyped environment variable.         *)
(***************************************************************************)
EXTENDS Naturals

CONSTANTS Lo, Hi,       \* SCALER_CONFIG_BOUNDS
          MaxRaw,       \* bound: the largest number met
          Reqs,         \* PATCH requests
          MaxFaults,    \* bound: failed store calls and restarts
          Overlap,      \* PATCHes may overlap
          Lost,         \* a write reported as failed may still reach the store
          Toggles,      \* stacks are provisioned and torn down
          None

VARIABLES env,     \* the deployment's values
          store,   \* the record in the parameter store, or None
          phase,   \* "boot" until the configuration is resolved, then "up"
          boot,    \* the values this process resolved at boot
          live,    \* the live copy of the route
          src,     \* what GET /config says of every field
          loops,   \* what the scaler loops enforce, None while the scaler is off
          req,     \* the PATCH requests
          said,    \* history: per field, the value of the last PATCH answered 200, None
                   \*   when none was or a later one ended with no answer
          named,   \* history: the fields some PATCH carried
          faults
vars == <<env, store, phase, boot, live, src, loops, req, said, named, faults>>

Fields == {"max", "min", "idle"}
Raw == 0..MaxRaw
Vals == Lo..Hi
Config == [Fields -> Raw]
Request == [step : {"free", "save", "apply", "adrift", "done"}, body : SUBSET Fields,
            next : {None} \cup Config, ans : {0, 200, 503}]

TypeOK ==
    /\ env \in Config /\ store \in {None} \cup Config /\ phase \in {"boot", "up"}
    /\ boot \in {None} \cup Config /\ live \in {None} \cup Config
    /\ src \in [Fields -> {"env", "runtime"}] /\ loops \in {None} \cup Config
    /\ req \in [Reqs -> Request] /\ said \in [Fields -> {None} \cup Raw]
    /\ named \subseteq Fields /\ faults \in 0..MaxFaults

Fault == faults < MaxFaults /\ faults' = faults + 1
Idle == \A r \in Reqs : req[r].step \notin {"save", "apply"}

-----------------------------------------------------------------------------
(* Boot. *)

\* clampField.
Clamp(n) == IF n < Lo THEN Lo ELSE IF n > Hi THEN Hi ELSE n

\* clampPersistedScalerConfig, applied to either source.
Clamped(c) == [f \in Fields |-> Clamp(c[f])]

\* The values resolved: they seed the route, and the loops of a scaler that is
\* active from the start.
Boot(c, source) ==
    /\ phase = "boot" /\ phase' = "up"
    /\ boot' = c /\ live' = c
    /\ src' = [f \in Fields |-> source]
    /\ loops' \in IF Toggles THEN {None, c} ELSE {c}
    /\ UNCHANGED <<env, store, req, named>>

\* The record is read in time; nothing stored, or an unusable record, gives
\* the environment.
BootLoaded ==
    /\ IF store # None
       THEN Boot(Clamped(store), "runtime") /\ UNCHANGED said
       ELSE Boot(Clamped(env), "env") /\ said' = [f \in Fields |-> None]
    /\ UNCHANGED faults

\* The read fails, or the boot budget runs out.
BootFallback ==
    /\ Boot(Clamped(env), "env") /\ said' = [f \in Fields |-> None]
    /\ faults' = IF faults < MaxFaults THEN faults + 1 ELSE faults

-----------------------------------------------------------------------------
(* PATCH /config. *)

\* A one-field PATCH completed with the boot values.
MergedOverBoot(body, v) == [f \in Fields |-> IF f \in body THEN v ELSE boot[f]]

\* The complete configuration the request would establish.
Merged(body, v) == [f \in Fields |-> IF f \in body THEN v ELSE live[f]]

Patch(r) ==
    /\ phase = "up" /\ req[r].step = "free" /\ (Overlap \/ Idle)
    /\ \E body \in (SUBSET Fields) \ {{}}, v \in Vals :
          /\ req' = [req EXCEPT ![r] = [step |-> "save", body |-> body, next |-> Merged(body, v), ans |-> 0]]
          /\ named' = named \cup body
    /\ UNCHANGED <<env, store, phase, boot, live, src, loops, said, faults>>

\* ScalerConfigStore.save lands.
Save(r) ==
    /\ phase = "up" /\ req[r].step = "save"
    /\ store' = req[r].next
    /\ req' = [req EXCEPT ![r].step = "apply"]
    /\ UNCHANGED <<env, phase, boot, live, src, loops, said, named, faults>>

\* It is refused, or does not answer in time: 503, nothing applied.
SaveFails(r) ==
    /\ phase = "up" /\ req[r].step = "save" /\ Fault
    /\ \E s \in IF Lost THEN {"done", "adrift"} ELSE {"done"} :
          req' = [req EXCEPT ![r].step = s, ![r].ans = 503]
    /\ UNCHANGED <<env, store, phase, boot, live, src, loops, said, named>>

\* A write given up on reaches the store.
Land(r) ==
    /\ req[r].step = "adrift"
    /\ store' = req[r].next
    /\ req' = [req EXCEPT ![r].step = "done"]
    /\ UNCHANGED <<env, phase, boot, live, src, loops, said, named, faults>>

Answer(r) ==
    /\ req' = [req EXCEPT ![r].step = "done", ![r].ans = 200]
    /\ said' = [f \in Fields |-> IF f \in req[r].body THEN req[r].next[f] ELSE said[f]]

\* onConfigChange: the cap and the idle timeout reach the registry and its
\* loops; the floor does not.
FanOut(c) == IF loops = None THEN None ELSE [loops EXCEPT !["max"] = c["max"], !["idle"] = c["idle"]]

\* The handler resumes after a successful write.
Apply(r) ==
    /\ phase = "up" /\ req[r].step = "apply"
    /\ src' = [f \in Fields |-> IF f \in req[r].body THEN "runtime" ELSE src[f]]
    /\ live' = req[r].next /\ loops' = FanOut(req[r].next)
    /\ Answer(r)
    /\ UNCHANGED <<env, store, phase, boot, named, faults>>

-----------------------------------------------------------------------------
(* The process. *)

\* activateScaler creates the registry from the values of the boot.
Activate ==
    /\ Toggles /\ phase = "up" /\ loops = None
    /\ loops' = boot
    /\ UNCHANGED <<env, store, phase, boot, live, src, req, said, named, faults>>

Deactivate ==
    /\ Toggles /\ phase = "up" /\ loops # None
    /\ loops' = None
    /\ UNCHANGED <<env, store, phase, boot, live, src, req, said, named, faults>>

\* A restart: requests under way end with no answer; a write already on its
\* way may still land.
Restart ==
    /\ phase = "up" /\ Fault /\ phase' = "boot"
    /\ boot' = None /\ live' = None /\ loops' = None
    /\ src' = [f \in Fields |-> "env"]
    /\ req' = [r \in Reqs |-> [req[r] EXCEPT !.step = CASE @ = "save" -> IF Lost THEN "adrift" ELSE "done"
                                                       [] @ = "apply" -> "done"
                                                       [] OTHER -> @]]
    /\ said' = [f \in Fields |-> IF \E r \in Reqs : req[r].step = "apply" /\ f \in req[r].body
                                 THEN None ELSE said[f]]
    /\ UNCHANGED <<env, store, named>>

Resolve == BootLoaded \/ BootFallback

Next ==
    \/ Resolve
    \/ \E r \in Reqs : Patch(r) \/ Save(r) \/ SaveFails(r) \/ Land(r) \/ Apply(r)
    \/ Activate \/ Deactivate \/ Restart

Init ==
    /\ \E n \in Raw : env = [f \in Fields |-> n]
    /\ store = None \/ \E n \in Raw : store = [f \in Fields |-> n]
    /\ phase = "boot" /\ boot = None /\ live = None /\ loops = None
    /\ src = [f \in Fields |-> "env"]
    /\ req = [r \in Reqs |-> [step |-> "free", body |-> {}, next |-> None, ans |-> 0]]
    /\ said = [f \in Fields |-> None]
    /\ named = IF store = None THEN {} ELSE Fields
    /\ faults = 0

Spec == Init /\ [][Next]_vars

-----------------------------------------------------------------------------

\* What a PATCH was told is in force stays in force until a later PATCH of the
\* same field, across restarts that can read the record.
AcceptedInForce ==
    phase = "up" => \A f \in Fields : said[f] # None => live[f] = said[f]

\* With no PATCH under way and nothing failed, the record is the live copy.
StoredIsLive == phase = "up" /\ faults = 0 /\ Idle /\ store # None => Clamped(store) = live

\* The cap and the timeout GET /config reports are the ones the loops enforce.
EnforcedReported ==
    loops # None => loops["max"] = live["max"] /\ loops["idle"] = live["idle"]

\* Whatever the environment and the record hold, the loops and the route are
\* within the documented bounds.
InBounds ==
    /\ live # None => \A f \in Fields : live[f] \in Vals
    /\ loops # None => \A f \in Fields : loops[f] \in Vals

\* A field reported as the environment's has the environment's value.
EnvHonest == phase = "up" => \A f \in Fields : src[f] = "env" => live[f] = Clamp(env[f])

\* A process always comes up, although the parameter store may never answer.
Unfinished == phase = "boot"
===========================================================================
