----------------------------- MODULE AlertEngine -----------------------------
(***************************************************************************)
(* The alerts and rollbacks of one agent: AlertEngine.evaluate             *)
(* (ai_governance/alerts.py) as the drift scheduler's loops and the        *)
(* threads of GET /drift run it, AlertEscalator.run (escalation.py), and   *)
(* the requests that acknowledge, resolve and purge.  Each database call   *)
(* is a transaction of its own under GovernanceDB's lock, one action here; *)
(* between two calls of one thread any other thread may run.               *)
(*                                                                         *)
(* Which thresholds a drift report violates and which rollback conditions  *)
(* evaluate to True is chosen freely for every evaluation.                 *)
(***************************************************************************)
EXTENDS Integers, Sequences, FiniteSets

CONSTANTS
    Evaluator,      \* the threads that may be in evaluate at the same time
    Threshold,      \* names of the DriftThresholds
    Condition,      \* names of the RollbackConditions, whose action is "rollback"
    SeverityOf,     \* the severity of each threshold
    Cooldown,       \* cooldown_seconds of every condition, in units of time
    EscalateAfter,  \* escalate_after_seconds of each severity's EscalationRule
    MaxTime,        \* bound on the time a run lasts
    MaxAlerts       \* bound on the alerts ever inserted

Ladder   == <<"info", "warn", "critical", "rollback">>
Severity == {"info", "warn", "critical", "rollback"}

ASSUME AlertAssumption ==
    /\ Threshold \cap Condition = {}
    /\ SeverityOf \in [Threshold -> Severity]
    /\ Cooldown \in Nat \ {0}
    /\ EscalateAfter \in [{"info", "warn", "critical"} -> Nat]
    /\ MaxTime \in Nat
    /\ MaxAlerts \in Nat

CONSTANT NoRule
ASSUME NoRuleIsNone == NoRule \notin Threshold \cup Condition

VARIABLES
    now,
    alerts,     \* table alerts
    rollbacks,  \* table rollbacks
    drawn,      \* number of alert ids drawn
    stage,      \* where each evaluation is: idle, alerting, firing, recording
    todo,       \* the violations and the true conditions it has not come to yet
    rule,       \* the rule it is firing
    fired,      \* the ids of the alerts it has fired that trigger a rollback
    escalation, \* the escalation run: its rung of the ladder, its time, its rows
    log,        \* history: when each condition has fired
    overlapped, \* history: two evaluations have been under way at the same time
    forgot      \* history: a purge kept alerts for less than the cooldown

evaluation == <<stage, todo, rule, fired>>
history    == <<log, overlapped, forgot>>
vars       == <<now, alerts, rollbacks, drawn, evaluation, escalation, history>>

Rule  == Threshold \cup Condition
Id    == 1 .. MaxAlerts
Time  == 0 .. MaxTime

\* A row of alerts; an escalated one names its original and when that was raised.
Alert    == [id : Id, rule : Rule, severity : Severity, at : Time, acknowledged : BOOLEAN,
             original : 0 .. MaxAlerts, since : Time]
RollbackRow == [alert : Id, resolved : BOOLEAN]

NoEscalation == [rung |-> 0, began |-> 0, overdue |-> {}, quiet |-> {}]

Init ==
    /\ now = 0
    /\ alerts = {}
    /\ rollbacks = {}
    /\ drawn = 0
    /\ stage = [e \in Evaluator |-> "idle"]
    /\ todo = [e \in Evaluator |-> {}]
    /\ rule = [e \in Evaluator |-> NoRule]
    /\ fired = [e \in Evaluator |-> {}]
    /\ escalation = NoEscalation
    /\ log = {}
    /\ overlapped = FALSE
    /\ forgot = FALSE

Busy(e) == stage[e] # "idle"

\* The bound MaxAlerts: nothing that would raise alerts begins when it is reached.
Room == drawn < MaxAlerts
-----------------------------------------------------------------------------
\* detect returns a report, evaluate begins; one that finds nothing changes nothing.
Begin(e) ==
    /\ ~Busy(e) /\ Room
    /\ stage' = [stage EXCEPT ![e] = "alerting"]
    /\ \E found \in (SUBSET Rule) \ {{}} : todo' = [todo EXCEPT ![e] = found]
    /\ overlapped' = (overlapped \/ \E d \in Evaluator : Busy(d))
    /\ UNCHANGED <<now, alerts, rollbacks, drawn, rule, fired, escalation, log, forgot>>

\* insert_alert of a fresh alert of rule r, and the way on: to the rollback's record
\* if the alert triggers one.
Raise(e, r, severity) ==
    /\ Room
    /\ drawn' = drawn + 1
    /\ alerts' = alerts \cup
          {[id |-> drawn', rule |-> r, severity |-> severity, at |-> now,
            acknowledged |-> FALSE, original |-> 0, since |-> now]}
    /\ log' = IF r \in Condition THEN log \cup {[id |-> drawn', rule |-> r, at |-> now]}
              ELSE log
    /\ IF severity = "rollback"
       THEN /\ stage' = [stage EXCEPT ![e] = "recording"]
            /\ rule' = [rule EXCEPT ![e] = r]
            /\ fired' = [fired EXCEPT ![e] = @ \cup {drawn'}]
       ELSE UNCHANGED <<stage, rule, fired>>

\* _fire_threshold_alert, up to the rollback record of a "rollback" severity.
FireThresholdAlert(e) ==
    /\ stage[e] = "alerting"
    /\ \E r \in todo[e] \cap Threshold :
         /\ Raise(e, r, SeverityOf[r])
         /\ todo' = [todo EXCEPT ![e] = @ \ {r}]
    /\ UNCHANGED <<now, rollbacks, escalation, overlapped, forgot>>

\* get_last_alert_time: the alerts the table still holds; an escalated alert has
\* another rule name.
LastAlertTimes(c) == {a.at : a \in {b \in alerts : b.rule = c /\ b.original = 0}}

\* wrong version: rounded up
CooldownOkRounded(c) == \A t \in LastAlertTimes(c) : now - t + 1 >= Cooldown

CooldownOk(c) == \A t \in LastAlertTimes(c) : now - t >= Cooldown

\* One condition of evaluate whose expression is True: passed over in its cooldown.
CheckCondition(e) ==
    /\ stage[e] = "alerting" /\ todo[e] \cap Threshold = {}
    /\ \E c \in todo[e] :
         /\ todo' = [todo EXCEPT ![e] = @ \ {c}]
         /\ IF CooldownOk(c)
            THEN stage' = [stage EXCEPT ![e] = "firing"] /\ rule' = [rule EXCEPT ![e] = c]
            ELSE UNCHANGED <<stage, rule>>
    /\ UNCHANGED <<now, alerts, rollbacks, drawn, fired, escalation, history>>

\* _fire_rollback: its alert.
FireRollback(e) ==
    /\ stage[e] = "firing"
    /\ Raise(e, rule[e], "rollback")
    /\ UNCHANGED <<now, rollbacks, todo, escalation, overlapped, forgot>>

Recorded(e) ==
    /\ stage[e] = "recording"
    /\ stage' = [stage EXCEPT ![e] = "alerting"]
    /\ rule' = [rule EXCEPT ![e] = NoRule]
    /\ UNCHANGED <<now, alerts, drawn, todo, fired, escalation, history>>

\* wrong version: one rollback on record is enough
RecordOneRollback(e) ==
    /\ rollbacks' = IF rollbacks # {} THEN rollbacks
                    ELSE {[alert |-> drawn, resolved |-> FALSE]}
    /\ Recorded(e)

\* insert_rollback, for the alert inserted just before.
RecordRollback(e) ==
    /\ \E id \in fired[e] :
         /\ \A other \in fired[e] : other <= id
         /\ rollbacks' = rollbacks \cup {[alert |-> id, resolved |-> FALSE]}
    /\ Recorded(e)

Stop(e) ==
    /\ stage' = [stage EXCEPT ![e] = "idle"]
    /\ todo' = [todo EXCEPT ![e] = {}]
    /\ rule' = [rule EXCEPT ![e] = NoRule]
    /\ fired' = [fired EXCEPT ![e] = {}]

\* evaluate returns; the caller hands what was fired to webhooks and audit log.
Return(e) ==
    /\ stage[e] = "alerting" /\ todo[e] = {}
    /\ Stop(e)
    /\ UNCHANGED <<now, alerts, rollbacks, drawn, escalation, history>>

\* A database call raises: the cycle counts a failure, the request answers 500.
\* What is stored stays, what was fired is not told to anybody.
Fail(e) ==
    /\ Busy(e)
    /\ Stop(e)
    /\ UNCHANGED <<now, alerts, rollbacks, drawn, escalation, history>>

\* The process is killed and started again.
Restart ==
    /\ stage' = [e \in Evaluator |-> "idle"]
    /\ todo' = [e \in Evaluator |-> {}]
    /\ rule' = [e \in Evaluator |-> NoRule]
    /\ fired' = [e \in Evaluator |-> {}]
    /\ escalation' = NoEscalation
    /\ UNCHANGED <<now, alerts, rollbacks, drawn, history>>
-----------------------------------------------------------------------------
(***************************************************************************)
(* POST /admin/escalate: rule by rule up the ladder, read the alerts that  *)
(* are overdue, then insert one alert of the next severity for each.  All  *)
(* rules and new alerts use the time at which the run began.  What is      *)
(* overdue then can only become less: rules that find nothing are skipped. *)
(***************************************************************************)
\* Wrong version: the cutoff ignores the rule.
OverdueAtOnce(severity, began) ==
    {a \in alerts : ~a.acknowledged /\ a.severity = severity /\ a.at < began}

\* get_unacknowledged_alerts_older_than, of one severity.
Overdue(severity, began) ==
    {a \in alerts : /\ ~a.acknowledged
                    /\ a.severity = severity
                    /\ a.at < began - EscalateAfter[severity]}

\* Go on to the first rung from r on that has overdue alerts.
ReadFrom(r, began, quiet) ==
    \E next \in r .. Len(Ladder) - 1 :
        /\ Overdue(Ladder[next], began) # {}
        /\ \A skipped \in r .. next - 1 : Overdue(Ladder[skipped], began) = {}
        /\ escalation' = [rung |-> next, began |-> began, quiet |-> quiet,
                          overdue |-> Overdue(Ladder[next], began)]

BeginEscalation ==
    /\ escalation = NoEscalation /\ Room
    /\ ReadFrom(1, now, {a.id : a \in {b \in alerts : b.acknowledged}})
    /\ UNCHANGED <<now, alerts, rollbacks, drawn, evaluation, history>>

ReadOverdue ==
    /\ escalation.rung # 0 /\ escalation.overdue = {}
    /\ ReadFrom(escalation.rung + 1, escalation.began, escalation.quiet)
    /\ UNCHANGED <<now, alerts, rollbacks, drawn, evaluation, history>>

\* _escalate: the copy is a new alert of the next severity; the original stays as
\* it is, and no rollback is recorded for a copy at "rollback".
RaiseEscalated ==
    /\ Room
    /\ drawn' = drawn + 1
    /\ \E a \in escalation.overdue :
         /\ alerts' = alerts \cup
               {[id |-> drawn', rule |-> a.rule, severity |-> Ladder[escalation.rung + 1],
                 at |-> escalation.began, acknowledged |-> FALSE,
                 original |-> a.id, since |-> a.at]}
         /\ escalation' = [escalation EXCEPT !.overdue = @ \ {a}]
    /\ UNCHANGED <<now, rollbacks, evaluation, history>>

\* The run is through, or one of its database calls raised.
EndEscalation ==
    /\ escalation.rung # 0
    /\ escalation' = NoEscalation
    /\ UNCHANGED <<now, alerts, rollbacks, drawn, evaluation, history>>
-----------------------------------------------------------------------------
\* The requests, one UPDATE or DELETE each; one that matches no row changes nothing.
Acknowledge ==
    /\ \E a \in alerts :
         /\ ~a.acknowledged
         /\ alerts' = (alerts \ {a}) \cup {[a EXCEPT !.acknowledged = TRUE]}
    /\ UNCHANGED <<now, rollbacks, drawn, evaluation, escalation, history>>

\* resolve_rollback, resolve_all_rollbacks
Resolve ==
    /\ \E some \in SUBSET rollbacks :
         /\ some # {}
         /\ some = rollbacks \/ Cardinality(some) = 1
         /\ rollbacks' = (rollbacks \ some) \cup {[r EXCEPT !.resolved = TRUE] : r \in some}
    /\ UNCHANGED <<now, alerts, drawn, evaluation, escalation, history>>

\* purge_old_alerts, by POST /admin/purge and by RetentionManager.apply.
Purge ==
    /\ \E keep \in 0 .. MaxTime :
         LET gone == {a \in alerts : a.acknowledged /\ a.at < now - keep}
         IN  /\ gone # {}
             /\ alerts' = alerts \ gone
             /\ forgot' = (forgot \/ keep < Cooldown)
    /\ UNCHANGED <<now, rollbacks, drawn, evaluation, escalation, log, overlapped>>

Tick ==
    /\ now < MaxTime
    /\ now' = now + 1
    /\ UNCHANGED <<alerts, rollbacks, drawn, evaluation, escalation, history>>

EvaluationStep(e) ==
    \/ Begin(e)
    \/ FireThresholdAlert(e)
    \/ CheckCondition(e)
    \/ FireRollback(e)
    \/ RecordRollback(e)
    \/ Return(e)
    \/ Fail(e)

Next ==
    \/ \E e \in Evaluator : EvaluationStep(e)
    \/ BeginEscalation
    \/ ReadOverdue
    \/ RaiseEscalated
    \/ EndEscalation
    \/ Acknowledge
    \/ Resolve
    \/ Purge
    \/ Tick
    \/ Restart

Spec == Init /\ [][Next]_vars
-----------------------------------------------------------------------------
\* Type invariant; an evaluation that is firing or recording has a rule.
TypeOK ==
    /\ now \in Time
    /\ alerts \subseteq Alert
    /\ rollbacks \subseteq RollbackRow
    /\ drawn \in 0 .. MaxAlerts
    /\ stage \in [Evaluator -> {"idle", "alerting", "firing", "recording"}]
    /\ todo \in [Evaluator -> SUBSET Rule]
    /\ rule \in [Evaluator -> Rule \cup {NoRule}]
    /\ \A e \in Evaluator : (rule[e] = NoRule) = (stage[e] \in {"idle", "alerting"})
    /\ fired \in [Evaluator -> SUBSET Id]
    /\ escalation \in [rung : 0 .. Len(Ladder) - 1, began : Time, overdue : SUBSET Alert,
                       quiet : SUBSET Id]
    /\ log \subseteq [id : Id, rule : Condition, at : Time]
    /\ overlapped \in BOOLEAN
    /\ forgot \in BOOLEAN

\* RollbackCondition.cooldown_seconds: a condition fires again only after its
\* cooldown, whatever failed or crashed in between and however many alerts were
\* acknowledged, escalated or purged, as long as no two evaluations overlapped and no
\* purge reached into the cooldown (evaluate, _cooldown_ok).
CooldownBetweenFirings ==
    ~overlapped /\ ~forgot =>
        \A a, b \in log :
            b.rule = a.rule /\ a.id < b.id
                => b.at - a.at >= Cooldown

\* Whenever evaluate may return, and its caller tell of a rollback it triggered, that
\* rollback is on record, so that is_agent_safe says no until somebody resolves it:
\* however evaluations interleave, fail and crash between their transactions.
TriggeredIsRecorded ==
    \A e \in Evaluator : stage[e] = "alerting" =>
        \A id \in fired[e] : \E r \in rollbacks : r.alert = id

\* An alert is escalated only when its severity's own waiting time has passed since it
\* was raised, at each rung of the ladder anew; in particular no alert climbs two
\* rungs in one run.
EscalationPatience ==
    \A a \in alerts : a.original # 0 =>
        \E i \in 1 .. Len(Ladder) - 1 :
            Ladder[i+1] = a.severity /\ a.at - a.since > EscalateAfter[Ladder[i]]

\* An alert acknowledged before an escalation run began is not escalated by it.
AcknowledgedNotEscalated ==
    [][\A a \in alerts' : a.id > drawn => a.original \notin escalation.quiet]_vars

\* No alert vanishes before it was acknowledged.
OpenAlertsKept ==
    [][\A a \in alerts : ~a.acknowledged => \E b \in alerts' : b.id = a.id]_vars
=============================================================================
