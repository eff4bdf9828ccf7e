---------------------------- MODULE MCBackground ----------------------------
(***************************************************************************)
(* The threads the service runs beside its requests, those that deliver    *)
(* webhooks and those of the drift scheduler, checked side by side: a      *)
(* behaviour belongs to one of the two, in which only its variables move.  *)
(***************************************************************************)
EXTENDS Webhooks, DriftScheduler
CONSTANTS a, b, c
VARIABLE part

\* Target 2 wants every alert, target 1 filters the severity of b out.
MCWanted == (Payload \X Target) \ {<<b, 1>>}
-----------------------------------------------------------------------------
BackgroundInit == part \in {"webhooks", "scheduler"} /\ Init /\ SchedulerInit

BackgroundNext ==
    \/ part = "webhooks" /\ Next /\ UNCHANGED <<part, schedulerVars>>
    \/ part = "scheduler" /\ SchedulerNext /\ UNCHANGED <<part, vars>>

\* The threads of the part that does not move have nothing to do.
BackgroundSpec ==
    /\ BackgroundInit /\ [][BackgroundNext]_<<part, vars, schedulerVars>>
    /\ Fairness /\ SchedulerFairness
=============================================================================
