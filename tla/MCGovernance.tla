---------------------------- MODULE MCGovernance ----------------------------
(***************************************************************************)
(* The parts of the governance service that are modelled apart from the    *)
(* core, checked side by side, as in MCSimulation: a behaviour belongs to  *)
(* one part, in which only that part's variables move.                     *)
(***************************************************************************)
EXTENDS Integers, Feedback, Services, Migrations, Handlers, Auth, Replay,
        Forecast, Drift

VARIABLE part
-----------------------------------------------------------------------------
(***************************************************************************)
(* The values that a configuration file cannot write down.  The limits on  *)
(* rows read are a few times what is asked for, as in the code, and below  *)
(* what the table can hold, so that they bite.                             *)
(***************************************************************************)
TwoThresholds    == <<[category |-> "fraud", direction |-> "decrease", max |-> 20, samples |-> 2, window |-> 2],
                      [category |-> "*", direction |-> "either", max |-> 60, samples |-> 2, window |-> 2]>>
StatementsOfEach == <<3, 1, 1>>
CategoryOfEach   == [e1 |-> "fraud", e2 |-> "billing"]
RoleOfEach       == [a |-> "admin", r |-> "read"]
OneBatch         == {<<"e1", "e2">>}
ThreeConfigs     == {[risky |-> {"escalated", "resolved"}, max |-> 40, limit |-> 1],
                     [risky |-> {"resolved"}, max |-> 40, limit |-> 1],
                     [risky |-> {"escalated"}, max |-> 20, limit |-> 0]}
ForecastSetups   == {[rules |-> <<[wild |-> FALSE, direction |-> "increase", max |-> 2]>>, named |-> TRUE],
                     [rules |-> <<[wild |-> FALSE, direction |-> "either", max |-> 1],
                                  [wild |-> FALSE, direction |-> "decrease", max |-> 2]>>, named |-> TRUE],
                     [rules |-> <<[wild |-> TRUE, direction |-> "either", max |-> 2]>>, named |-> TRUE]}

ASSUME /\ ServicesAssumption /\ MigrationsAssumption /\ HandlersAssumption /\ AuthAssumption
       /\ ReplayAssumption /\ ForecastAssumption
       /\ DriftAssumption
-----------------------------------------------------------------------------
\* A part begins in its initial state, and the others stay in theirs (in one of them,
\* where there are several).
Init ==
    /\ part \in {"drift", "feedback", "forecast", "auth", "services", "migrations", "handlers",
                 "replay"}
    /\ DriftInit /\ FeedbackInit /\ ForecastInit /\ AuthInit /\ ServicesInit
    /\ MigrationsInit /\ HandlersInit /\ ReplayInit
    /\ part # "forecast"  => setup = (CHOOSE s \in Setups : TRUE)
    /\ part # "replay"    => config = (CHOOSE cfg \in Configs : TRUE)

Next ==
    \/ /\ part = "drift" /\ DriftNext
       /\ UNCHANGED <<part, feedbackVars, forecastVars, authVars, serviceVars, migrationVars, handlerVars, replayVars>>
    \/ /\ part = "feedback" /\ FeedbackNext
       /\ UNCHANGED <<part, driftVars, forecastVars, authVars, serviceVars, migrationVars, handlerVars, replayVars>>
    \/ /\ part = "forecast" /\ ForecastNext
       /\ UNCHANGED <<part, driftVars, feedbackVars, authVars, serviceVars, migrationVars, handlerVars, replayVars>>
    \/ /\ part = "auth" /\ AuthNext
       /\ UNCHANGED <<part, driftVars, feedbackVars, forecastVars, serviceVars, migrationVars, handlerVars, replayVars>>
    \/ /\ part = "services" /\ ServicesNext
       /\ UNCHANGED <<part, driftVars, feedbackVars, forecastVars, authVars, migrationVars, handlerVars, replayVars>>
    \/ /\ part = "migrations" /\ MigrationsNext
       /\ UNCHANGED <<part, driftVars, feedbackVars, forecastVars, authVars, serviceVars, handlerVars, replayVars>>
    \/ /\ part = "handlers" /\ HandlersNext
       /\ UNCHANGED <<part, driftVars, feedbackVars, forecastVars, authVars, serviceVars, migrationVars, replayVars>>
    \/ /\ part = "replay" /\ ReplayNext
       /\ UNCHANGED <<part, driftVars, feedbackVars, forecastVars, authVars, serviceVars, migrationVars, handlerVars>>
=============================================================================
