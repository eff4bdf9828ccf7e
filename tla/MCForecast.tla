----------------------------- MODULE MCForecast -----------------------------
(***************************************************************************)
(* Forecast under a configuration that watches the metric for all          *)
(* categories alone, and names none: what a threshold without a category   *)
(* means (ai_governance/config.py).                                        *)
(***************************************************************************)
EXTENDS Forecast

WatchedForAll == {[rules |-> <<[wild |-> TRUE, direction |-> "either", max |-> 2]>>, named |-> FALSE]}
=============================================================================
