----------------------------- MODULE Webhooks -----------------------------
(***************************************************************************)
(* Webhook registrations and deliveries (services/webhook-dispatcher.ts,   *)
(* routes/webhooks.ts): an event lists the registrations, posts to each    *)
(* that wants its type side by side, and gives every post five seconds.    *)
(* A failed lookup or post is logged and swallowed; nothing is retried.    *)
(* A receiver may answer, refuse, or never answer.                         *)
(***************************************************************************)
EXTENDS Integers, FiniteSets
CONSTANTS
  None,
  Ids,        \* registrations that can be made
  Types,      \* event types
  MaxEvents   \* bound: events dispatched
Events == 1..MaxEvents

VARIABLES
  regs,    \* registrations: None, or the wanted types and whether still there
  ev,      \* events: None, or type, stage and (history) who was registered
  post,    \* per event and registration: None, "open", "ok", "failed"
  got      \* what receivers were sent: pairs of event and registration
vars == <<regs, ev, post, got>>

Registered(id) == IF regs[id] = None THEN FALSE ELSE regs[id].there
Wants(id, type) == IF regs[id] = None THEN FALSE ELSE type \in regs[id].types
(* POST /webhooks *)
Create(id, types) ==
  /\ regs[id] = None
  /\ regs' = [regs EXCEPT ![id] = [types |-> types, there |-> TRUE]]
  /\ UNCHANGED <<ev, post, got>>
(* DELETE /webhooks/:id; an unknown id is answered alike. *)
Delete(id) ==
  /\ Registered(id)
  /\ regs' = [regs EXCEPT ![id].there = FALSE]
  /\ ev' = [e \in Events |-> IF ev[e] = None THEN None ELSE [ev[e] EXCEPT !.fixed = @ \ {id}]]
  /\ UNCHANGED <<post, got>>

(* dispatch, detached from the request that caused it.  History: fixed, the
   registrations of that time that are still there; dead, those deleted before;
   all, the lookup succeeded. *)
Dispatch(e, type) ==
  /\ ev[e] = None /\ \A f \in 1..(e - 1) : ev[f] # None
  /\ LET now == {id \in Ids : Registered(id)} IN
     ev' = [ev EXCEPT ![e] = [type |-> type, at |-> "asked", fixed |-> now, all |-> FALSE,
                              dead |-> {id \in Ids : regs[id] # None} \ now]]
  /\ UNCHANGED <<regs, post, got>>

(* deliver: the registrations are read and a post opened to every match. *)
List(e) ==
  /\ ev[e] # None /\ ev[e].at = "asked"
  /\ ev' = [ev EXCEPT ![e].at = "posting", ![e].all = TRUE]
  /\ post' = [post EXCEPT ![e] = [id \in Ids |->
       IF Registered(id) /\ Wants(id, ev[e].type) THEN "open" ELSE None]]
  /\ UNCHANGED <<regs, got>>
(* The lookup fails: logged, and the event is dropped. *)
LookupFails(e) ==
  /\ ev[e] # None /\ ev[e].at = "asked"
  /\ ev' = [ev EXCEPT ![e].at = "ended"]
  /\ UNCHANGED <<regs, post, got>>

(* The receiver (external) has the body. *)
Arrive(e, id) ==
  /\ post[e][id] = "open" /\ <<e, id>> \notin got
  /\ got' = got \cup {<<e, id>>}
  /\ UNCHANGED <<regs, ev, post>>
(* ... and answers, 2xx or not. *)
Reply(e, id, ok) ==
  /\ post[e][id] = "open" /\ <<e, id>> \in got
  /\ post' = [post EXCEPT ![e][id] = IF ok THEN "ok" ELSE "failed"]
  /\ UNCHANGED <<regs, ev, got>>
(* The five second timer, or a network error. *)
GiveUp(e, id) ==
  /\ post[e][id] = "open"
  /\ post' = [post EXCEPT ![e][id] = "failed"]
  /\ UNCHANGED <<regs, ev, got>>

(* Promise.all: every post is settled, failed or not. *)
End(e) ==
  /\ ev[e] # None /\ ev[e].at = "posting"
  /\ \A id \in Ids : post[e][id] # "open"
  /\ ev' = [ev EXCEPT ![e].at = "ended"]
  /\ UNCHANGED <<regs, post, got>>

Init ==
  /\ regs = [id \in Ids |-> None]
  /\ ev = [e \in Events |-> None]
  /\ post = [e \in Events |-> [id \in Ids |-> None]]
  /\ got = {}
Next ==
  \/ \E id \in Ids : Delete(id) \/ \E types \in (SUBSET Types) \ {{}} : Create(id, types)
  \/ \E e \in Events :
       \/ List(e) \/ LookupFails(e) \/ End(e)
       \/ \E type \in Types : Dispatch(e, type)
       \/ \E id \in Ids : Arrive(e, id) \/ GiveUp(e, id) \/ \E ok \in BOOLEAN : Reply(e, id, ok)
Spec == Init /\ [][Next]_vars

(* Nothing is sent to a registration for a type it did not ask for, and no post
   outlives its dispatch (deliver). *)
TypeOK ==
  \A e \in Events, id \in Ids :
    /\ post[e][id] \in {None, "open", "ok", "failed"}
    /\ post[e][id] = "open" => ev[e].at = "posting"
    /\ <<e, id>> \in got => Wants(id, ev[e].type)

(* A registration that was there from before an event to its end is attempted,
   whatever the posts to the others did (deliver's Promise.all over caught posts). *)
RightReceivers ==
  \A e \in Events : ev[e] # None /\ ev[e].at = "ended" /\ ev[e].all =>
    \A id \in ev[e].fixed :
      Wants(id, ev[e].type) => post[e][id] \in {"ok", "failed"}

(* A registration that was deleted before an event is never sent it (DELETE
   /webhooks/:id, list). *)
NotAfterDelete == \A e \in Events, id \in Ids : <<e, id>> \in got => id \notin ev[e].dead

(* Every dispatch ends although a receiver may hang for ever
   (DELIVERY_TIMEOUT_MS). *)
Unfinished == \E e \in Events : ev[e] # None /\ ev[e].at # "ended"
===========================================================================
