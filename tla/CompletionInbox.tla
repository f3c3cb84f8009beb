-------------------------- MODULE CompletionInbox --------------------------
(***************************************************************************)
(* What the completion queue of a stack promises: a completion it has      *)
(* accepted stays pending until it is applied or given up, and applying    *)
(* it is final.  A pending completion is claimed for a moment when it is   *)
(* taken out to be handled; one that is claimed may be lost.               *)
(***************************************************************************)
CONSTANT Msgs
VARIABLE state

Init == state = [m \in Msgs |-> "absent"]

Accept(m) == /\ state[m] \in {"absent", "dead", "claimed"}
             /\ state' = [state EXCEPT ![m] = "pending"]

Claim(m) == /\ state[m] = "pending"
            /\ state' = [state EXCEPT ![m] = "claimed"]

Apply(m) == /\ state[m] = "pending"
            /\ state' = [state EXCEPT ![m] = "applied"]

GiveUp(m) == /\ state[m] \in {"pending", "claimed"}
             /\ state' = [state EXCEPT ![m] = "dead"]

Lose(m) == /\ state[m] = "claimed"
           /\ state' = [state EXCEPT ![m] = "absent"]

Next == \E m \in Msgs : Accept(m) \/ Claim(m) \/ Apply(m) \/ GiveUp(m) \/ Lose(m)

Spec == Init /\ [][Next]_state
=============================================================================
