---------------------------- MODULE Notification ----------------------------
(***************************************************************************)
(* What WebhookDispatcher promises of asynchronous delivery, without its   *)
(* queue and threads: every payload offered is refused at once or accepted *)
(* once; an accepted payload is settled, sent or given up, at most once    *)
(* for every target; when it is done no target is settled any more.        *)
(***************************************************************************)
CONSTANTS Payload, Target

VARIABLES
    fate,     \* [Payload -> {"new", "refused", "accepted", "done"}]
    outcome   \* [Payload \X Target -> {"none", "sent", "failed"}]

vars == <<fate, outcome>>

Init ==
    /\ fate = [p \in Payload |-> "new"]
    /\ outcome = [d \in Payload \X Target |-> "none"]

Offer(p) ==
    /\ fate[p] = "new"
    /\ \E f \in {"refused", "accepted"} : fate' = [fate EXCEPT ![p] = f]
    /\ UNCHANGED outcome

Settle(p, t) ==
    /\ fate[p] = "accepted"
    /\ outcome[<<p, t>>] = "none"
    /\ \E o \in {"sent", "failed"} : outcome' = [outcome EXCEPT ![<<p, t>>] = o]
    /\ UNCHANGED fate

Complete(p) ==
    /\ fate[p] = "accepted"
    /\ fate' = [fate EXCEPT ![p] = "done"]
    /\ UNCHANGED outcome

Next ==
    \E p \in Payload :
        \/ Offer(p)
        \/ \E t \in Target : Settle(p, t)
        \/ Complete(p)

Spec == Init /\ [][Next]_vars
=============================================================================
