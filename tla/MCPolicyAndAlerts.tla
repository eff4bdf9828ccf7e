-------------------------- MODULE MCPolicyAndAlerts --------------------------
(***************************************************************************)
(* The policy store and the alert engine, checked side by side: a          *)
(* behaviour belongs to one of the two, in which only its variables move.  *)
(***************************************************************************)
EXTENDS PolicyStore, AlertEngine, TLC
CONSTANTS drift, unsafe
VARIABLE part

MCSeverityOf == [t \in Threshold |-> "warn"]
\* A copy of a warning may climb once more before the time of a run is over.
MCEscalateAfter == [s \in {"info", "warn", "critical"} |-> IF s = "critical" THEN 0 ELSE 1]

\* Requests are interchangeable, and so are policy ids, which are random uuids, and
\* evaluations.
Symmetry == Permutations(Request) \cup Permutations(Policy) \cup Permutations(Evaluator)
-----------------------------------------------------------------------------
PolicyAndAlertsInit == part \in {"policies", "alerts"} /\ PolicyInit /\ Init

PolicyAndAlertsNext ==
    \/ part = "policies" /\ PolicyNext /\ UNCHANGED <<part, vars>>
    \/ part = "alerts" /\ Next /\ UNCHANGED <<part, policyVars>>
=============================================================================
