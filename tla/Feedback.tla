------------------------------ MODULE Feedback ------------------------------
(***************************************************************************)
(* Ground truth and the accuracy guard (ai_governance/feedback.py,         *)
(* accuracy_guard.py): labels arrive for decisions already stored, a check *)
(* computes how often the agent was right and, when that is too rarely,    *)
(* stores an alert and then a rollback for each breach.  Each insert is a  *)
(* transaction of its own and may fail; requests that ingest, label and    *)
(* resolve go on in between.                                               *)
(*                                                                         *)
(* The decisions are of one category.  A label says whether the decision   *)
(* was right.                                                              *)
(***************************************************************************)
EXTENDS Integers, FiniteSets, SequencesExt

CONSTANTS
    MaxEvents,      \* bound: events, in the order of their timestamps
    Limit,          \* how many decisions compute_accuracy reads, the oldest
    MinLabels,      \* thresholds, and the labels without which an accuracy is None
    MinHighRisk,
    OverallFloor,   \* min_overall_accuracy, in percent
    HighRiskFloor   \* min_high_risk_accuracy

EventId == 1 .. MaxEvents
Label == {"none", "right", "wrong"}
NoRow == [highRisk |-> FALSE, label |-> "absent"]

VARIABLES
    rows,       \* the decisions by event_id
    alerts,     \* the rules for which there is an alert
    open,       \* a rollback is unresolved: is_agent_safe says no
    check,      \* "idle", "alert", "rollback", "returned"
    breaches,   \* the violations the check has still to enforce
    stood,      \* history: high risk has been in breach since the check began
    resolved    \* history: somebody resolved the rollbacks since then

guard        == <<check, breaches>>
feedbackVars == <<rows, alerts, open, guard, stood, resolved>>

FeedbackInit ==
    /\ rows = [e \in EventId |-> NoRow] /\ alerts = {} /\ open = FALSE
    /\ check = "idle" /\ breaches = <<>> /\ stood = FALSE /\ resolved = FALSE
-----------------------------------------------------------------------------
\* The oldest Limit of the decisions that satisfy the query.
Read(table) ==
    LET stored == {e \in EventId : table[e] # NoRow}
    IN {e \in stored : Cardinality({d \in stored : d < e}) < Limit}

Labelled(table) == {e \in Read(table) : table[e].label \in {"right", "wrong"}}
Below(S, table, floor) ==
    100 * Cardinality({e \in S : table[e].label = "right"}) < floor * Cardinality(S)

HighRiskBreach(table) ==
    LET S == {e \in Labelled(table) : table[e].highRisk}
    IN /\ Cardinality(Labelled(table)) >= MinLabels
       /\ Cardinality(S) >= MinHighRisk /\ Below(S, table, HighRiskFloor)
OverallBreach(table) ==
    Cardinality(Labelled(table)) >= MinLabels /\ Below(Labelled(table), table, OverallFloor)

\* _find_violations, in its order.
Found(table) ==
    (IF OverallBreach(table) THEN <<"overall_accuracy">> ELSE <<>>)
    \o (IF HighRiskBreach(table) THEN <<"high_risk_accuracy">> ELSE <<>>)

Stands == stood' = (stood /\ HighRiskBreach(rows'))

\* Ingestion replaces the whole row of an event that is sent again, label included.
IngestLabelled ==
    /\ \E e \in EventId, risk \in BOOLEAN, label \in Label :
         /\ \A d \in EventId : d < e => rows[d] # NoRow
         /\ rows' = [rows EXCEPT ![e] = [highRisk |-> risk, label |-> label]]
    /\ Stands
    /\ UNCHANGED <<alerts, open, guard, resolved>>

\* One label of apply_labels; one for an event that is not stored is only counted.
ApplyLabel ==
    /\ \E e \in EventId, label \in Label \ {"none"} :
         rows[e] # NoRow /\ rows' = [rows EXCEPT ![e].label = label]
    /\ Stands
    /\ UNCHANGED <<alerts, open, guard, resolved>>

ResolveRollbacks ==
    /\ open /\ open' = FALSE /\ resolved' = TRUE
    /\ UNCHANGED <<rows, alerts, guard, stood>>

Check ==
    /\ check = "idle"
    /\ breaches' = Found(rows)
    /\ check' = IF breaches' = <<>> THEN "returned" ELSE "alert"
    /\ stood' = HighRiskBreach(rows)
    /\ resolved' = FALSE
    /\ UNCHANGED <<rows, alerts, open>>

Enforced ==
    /\ breaches' = Tail(breaches)
    /\ check' = IF breaches' = <<>> THEN "returned" ELSE "alert"

\* Wrong version: a rule that has its alert already is not enforced again.
InsertAlertOnce ==
    /\ check = "alert"
    /\ alerts' = alerts \union {Head(breaches)}
    /\ IF Head(breaches) = "high_risk_accuracy" /\ Head(breaches) \notin alerts
       THEN check' = "rollback" /\ UNCHANGED breaches
       ELSE Enforced
    /\ UNCHANGED <<rows, open, stood, resolved>>

\* Only a breach of the accuracy on high-risk decisions triggers a rollback.
InsertAlert ==
    /\ check = "alert"
    /\ alerts' = alerts \union {Head(breaches)}
    /\ IF Head(breaches) = "high_risk_accuracy"
       THEN check' = "rollback" /\ UNCHANGED breaches
       ELSE Enforced
    /\ UNCHANGED <<rows, open, stood, resolved>>

InsertRollback ==
    /\ check = "rollback"
    /\ open' = TRUE
    /\ Enforced
    /\ UNCHANGED <<rows, alerts, stood, resolved>>

EndCheck == check' = "idle" /\ breaches' = <<>> /\ stood' = FALSE /\ resolved' = FALSE

\* An insert raises and the request with it; what was stored before stays.
FailInsert ==
    /\ check \in {"alert", "rollback"} /\ EndCheck
    /\ UNCHANGED <<rows, alerts, open>>

Answer == check = "returned" /\ EndCheck /\ UNCHANGED <<rows, alerts, open>>

FeedbackNext == IngestLabelled \/ ApplyLabel \/ ResolveRollbacks \/ Check \/ InsertAlert
                \/ InsertRollback \/ FailInsert \/ Answer

FeedbackSpec == FeedbackInit /\ [][FeedbackNext]_feedbackVars
-----------------------------------------------------------------------------
\* A check that returns while high risk is in breach has closed the gate, unless
\* somebody resolved the rollback meanwhile: also when an earlier check stored the
\* alert, failed at the rollback and left the gate open.
BreachClosesGate ==
    check = "returned" /\ stood /\ ~resolved => open
=============================================================================
