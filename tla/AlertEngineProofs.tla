-------------------------- MODULE AlertEngineProofs --------------------------
(***************************************************************************)
(* Proofs about AlertEngine, for any number of evaluators, any rules,      *)
(* cooldown and ladder of waiting times: its type invariant; that a        *)
(* rollback which is told of is on record; that escalation waits as long   *)
(* as its rules say; that a condition's cooldown is kept; and that no      *)
(* alert vanishes, or is escalated, against its acknowledgement.           *)
(***************************************************************************)
EXTENDS AlertEngine, TLAPS

Escalation == [rung : 0 .. 3, began : Time, overdue : SUBSET Alert, quiet : SUBSET Id]

\* The type invariant in parts: the tables, the evaluations, the escalation run.
TablesOK ==
    /\ now \in Time
    /\ alerts \subseteq Alert
    /\ rollbacks \subseteq RollbackRow
    /\ drawn \in 0 .. MaxAlerts
    /\ log \subseteq [id : Id, rule : Condition, at : Time]
    /\ overlapped \in BOOLEAN
    /\ forgot \in BOOLEAN
EvaluationsOK ==
    /\ stage \in [Evaluator -> {"idle", "alerting", "firing", "recording"}]
    /\ todo \in [Evaluator -> SUBSET Rule]
    /\ rule \in [Evaluator -> Rule \cup {NoRule}]
    /\ \A e \in Evaluator : (rule[e] = NoRule) = (stage[e] \in {"idle", "alerting"})
    /\ fired \in [Evaluator -> SUBSET Id]
EscalationOK == escalation \in Escalation

LEMMA TypeParts == TypeOK <=> TablesOK /\ EvaluationsOK /\ EscalationOK
<1>1. Len(Ladder) - 1 = 3
  BY DEF Ladder
<1>2. QED
  BY <1>1 DEF TypeOK, TablesOK, EvaluationsOK, EscalationOK, Escalation

LEMMA LadderClimbs ==
    /\ \A i \in 1 .. 4 : Ladder[i] \in Severity
    /\ Ladder[1] = "info" /\ Ladder[2] = "warn" /\ Ladder[3] = "critical"
    /\ Len(Ladder) = 4
BY DEF Ladder, Severity

LEMMA RulesApart ==
    /\ NoRule \notin Rule
    /\ \A r \in Threshold : r \notin Condition /\ SeverityOf[r] \in Severity
    /\ Cooldown \in Nat \ {0} /\ MaxTime \in Nat /\ MaxAlerts \in Nat
BY AlertAssumption, NoRuleIsNone DEF Rule

\* A fresh alert of a rule.
Fresh(r, severity) ==
    [id |-> drawn + 1, rule |-> r, severity |-> severity, at |-> now,
     acknowledged |-> FALSE, original |-> 0, since |-> now]

LEMMA FreshTyped ==
    ASSUME TablesOK, Room, NEW r \in Rule, NEW severity \in Severity
    PROVE  Fresh(r, severity) \in Alert /\ drawn + 1 \in Id
<1>1. drawn + 1 \in Id /\ 0 \in 0 .. MaxAlerts /\ now \in Time
  BY RulesApart DEF TablesOK, Room, Id
<1>2. QED
  BY <1>1 DEF Fresh, Alert

LEMMA RaiseTyped ==
    ASSUME TablesOK, NEW e, NEW r \in Rule, NEW severity \in Severity,
           Raise(e, r, severity), UNCHANGED <<now, rollbacks, overlapped, forgot>>
    PROVE  TablesOK'
<1>1. alerts' = alerts \cup {Fresh(r, severity)} /\ drawn' = drawn + 1 /\ Room
  BY DEF Raise, Fresh
<1>2. alerts' \subseteq Alert /\ drawn' \in 0 .. MaxAlerts /\ drawn' \in Id
  BY <1>1, FreshTyped, RulesApart DEF TablesOK, Room
<1>3. log' \subseteq [id : Id, rule : Condition, at : Time]
  BY <1>2 DEF Raise, TablesOK
<1>4. QED
  BY <1>2, <1>3 DEF TablesOK

LEMMA RaiseStaged ==
    ASSUME TablesOK, EvaluationsOK, NEW e \in Evaluator, NEW r \in Rule, NEW severity \in Severity,
           Raise(e, r, severity)
    PROVE  /\ stage' \in [Evaluator -> {"idle", "alerting", "firing", "recording"}]
           /\ rule' \in [Evaluator -> Rule \cup {NoRule}]
           /\ fired' \in [Evaluator -> SUBSET Id]
           /\ \A d \in Evaluator : d # e => stage'[d] = stage[d] /\ rule'[d] = rule[d]
                                            /\ fired'[d] = fired[d]
           /\ IF severity = "rollback"
              THEN stage'[e] = "recording" /\ rule'[e] = r
                   /\ fired'[e] = fired[e] \cup {drawn + 1}
              ELSE stage' = stage /\ rule' = rule /\ fired' = fired
<1>1. drawn' = drawn + 1 /\ drawn + 1 \in Id
  BY FreshTyped DEF Raise
<1>2. CASE severity = "rollback"
  BY <1>1, <1>2 DEF Raise, EvaluationsOK
<1>3. CASE severity # "rollback"
  BY <1>3 DEF Raise, EvaluationsOK
<1>4. QED
  BY <1>2, <1>3

LEMMA InitTyped == Init => TypeOK
<1> SUFFICES ASSUME Init PROVE TablesOK /\ EvaluationsOK /\ EscalationOK
  BY TypeParts
<1> USE RulesApart
<1>1. TablesOK
  <2>1. now \in Time /\ drawn \in 0 .. MaxAlerts
    BY DEF Init, Time
  <2>2. alerts = {} /\ rollbacks = {} /\ log = {} /\ overlapped = FALSE /\ forgot = FALSE
    BY DEF Init
  <2>3. QED
    BY <2>1, <2>2 DEF TablesOK
<1>2. EvaluationsOK
  BY DEF Init, EvaluationsOK
<1>3. EscalationOK
  BY DEF Init, EscalationOK, Escalation, NoEscalation, Time
<1>4. QED
  BY <1>1, <1>2, <1>3

LEMMA EvaluationTyped ==
    ASSUME TypeOK, NEW e \in Evaluator, EvaluationStep(e)
    PROVE  TypeOK'
<1>t. TablesOK /\ EvaluationsOK /\ EscalationOK
  BY TypeParts
<1> SUFFICES TablesOK' /\ EvaluationsOK' /\ EscalationOK'
  <2>1. Len(Ladder) - 1 = 3
    BY DEF Ladder
  <2>2. QED
    BY <2>1 DEF TypeOK, TablesOK, EvaluationsOK, EscalationOK, Escalation
<1> USE RulesApart
<1>1. EscalationOK'
  BY <1>t DEF EscalationOK, EvaluationStep, Begin, FireThresholdAlert, CheckCondition,
              FireRollback, RecordRollback, Recorded, Return, Fail
<1>2. CASE Begin(e)
  <2>1. TablesOK'
    BY <1>2, <1>t DEF Begin, TablesOK
  <2>2. EvaluationsOK'
    BY <1>2, <1>t DEF Begin, EvaluationsOK, Busy
  <2>3. QED
    BY <1>1, <2>1, <2>2
<1>3. CASE FireThresholdAlert(e)
  <2>1. PICK r \in todo[e] \cap Threshold :
           Raise(e, r, SeverityOf[r]) /\ todo' = [todo EXCEPT ![e] = @ \ {r}]
    BY <1>3 DEF FireThresholdAlert
  <2>2. r \in Rule /\ SeverityOf[r] \in Severity /\ r # NoRule
    BY DEF Rule
  <2>3. TablesOK'
    BY <1>3, <1>t, <2>1, <2>2, RaiseTyped DEF FireThresholdAlert
  <2>4. EvaluationsOK'
    <3>1. todo' \in [Evaluator -> SUBSET Rule]
      BY <1>t, <2>1 DEF EvaluationsOK
    <3>2. QED
      BY <1>t, <2>1, <2>2, <3>1, RaiseStaged DEF EvaluationsOK
  <2>5. QED
    BY <1>1, <2>3, <2>4
<1>4. CASE CheckCondition(e)
  <2>1. TablesOK'
    BY <1>4, <1>t DEF CheckCondition, TablesOK, history
  <2>2. EvaluationsOK'
    <3>1. PICK c \in todo[e] :
            /\ todo' = [todo EXCEPT ![e] = @ \ {c}]
            /\ IF CooldownOk(c)
               THEN stage' = [stage EXCEPT ![e] = "firing"] /\ rule' = [rule EXCEPT ![e] = c]
               ELSE UNCHANGED <<stage, rule>>
      BY <1>4 DEF CheckCondition
    <3>2. c \in Rule /\ c # NoRule /\ fired' = fired
      BY <1>4, <1>t DEF CheckCondition, EvaluationsOK
    <3>3. QED
      BY <1>t, <3>1, <3>2 DEF EvaluationsOK
  <2>3. QED
    BY <1>1, <2>1, <2>2
<1>5. CASE FireRollback(e)
  <2>1. rule[e] \in Rule /\ rule[e] # NoRule
    BY <1>5, <1>t DEF FireRollback, EvaluationsOK
  <2>2. TablesOK'
    BY <1>5, <1>t, <2>1, RaiseTyped DEF FireRollback, Severity
  <2>3. EvaluationsOK'
    BY <1>5, <1>t, <2>1, RaiseStaged DEF FireRollback, EvaluationsOK, Severity
  <2>4. QED
    BY <1>1, <2>2, <2>3
<1>6. CASE RecordRollback(e)
  <2>1. TablesOK'
    <3>1. PICK id \in fired[e] : rollbacks' = rollbacks \cup {[alert |-> id, resolved |-> FALSE]}
      BY <1>6 DEF RecordRollback
    <3>2. id \in Id
      BY <1>t DEF EvaluationsOK
    <3>3. rollbacks' \subseteq RollbackRow
      <4>1. [alert |-> id, resolved |-> FALSE] \in RollbackRow
        BY <3>2 DEF RollbackRow
      <4>2. QED
        BY <1>t, <3>1, <4>1 DEF TablesOK
    <3>4. UNCHANGED <<now, alerts, drawn, history>>
      BY <1>6 DEF RecordRollback, Recorded
    <3>5. QED
      BY <1>t, <3>3, <3>4 DEF TablesOK, history
  <2>2. EvaluationsOK'
    BY <1>6, <1>t DEF RecordRollback, Recorded, EvaluationsOK
  <2>3. QED
    BY <1>1, <2>1, <2>2
<1>7. CASE Return(e) \/ Fail(e)
  <2>1. TablesOK'
    BY <1>7, <1>t DEF Return, Fail, TablesOK, history
  <2>2. EvaluationsOK'
    BY <1>7, <1>t DEF Return, Fail, Stop, EvaluationsOK
  <2>3. QED
    BY <1>1, <2>1, <2>2
<1>8. QED
  BY <1>2, <1>3, <1>4, <1>5, <1>6, <1>7 DEF EvaluationStep

\* What an escalation run reads are rows of the table, all of one severity, all overdue.
LEMMA ReadTyped ==
    ASSUME TablesOK, NEW r \in 1 .. 4, NEW began \in Time, NEW quiet \in SUBSET Id,
           ReadFrom(r, began, quiet)
    PROVE  /\ EscalationOK'
           /\ escalation'.rung \in 1 .. 3
           /\ escalation'.began = began /\ escalation'.quiet = quiet
           /\ escalation'.overdue = Overdue(Ladder[escalation'.rung], began)
           /\ escalation'.overdue \subseteq alerts
<1>1. PICK next \in r .. Len(Ladder) - 1 :
         escalation' = [rung |-> next, began |-> began, quiet |-> quiet,
                        overdue |-> Overdue(Ladder[next], began)]
  BY DEF ReadFrom
<1>2. next \in 1 .. 3
  BY LadderClimbs
<1>3. Overdue(Ladder[next], began) \subseteq alerts
  BY DEF Overdue
<1>4. Overdue(Ladder[next], began) \in SUBSET Alert
  BY <1>3 DEF TablesOK
<1>5. QED
  BY <1>1, <1>2, <1>3, <1>4 DEF EscalationOK, Escalation

LEMMA OtherTyped ==
    ASSUME TypeOK,
           \/ BeginEscalation \/ ReadOverdue \/ RaiseEscalated \/ EndEscalation
           \/ Acknowledge \/ Resolve \/ Purge \/ Tick \/ Restart \/ UNCHANGED vars
    PROVE  TypeOK'
<1>t. TablesOK /\ EvaluationsOK /\ EscalationOK
  BY TypeParts
<1> SUFFICES TablesOK' /\ EvaluationsOK' /\ EscalationOK'
  <2>1. Len(Ladder) - 1 = 3
    BY DEF Ladder
  <2>2. QED
    BY <2>1 DEF TypeOK, TablesOK, EvaluationsOK, EscalationOK, Escalation
<1>1. EvaluationsOK'
  <2>1. CASE Restart
    BY <2>1, RulesApart DEF Restart, EvaluationsOK
  <2>2. CASE UNCHANGED evaluation
    BY <1>t, <2>2 DEF EvaluationsOK, evaluation
  <2>3. QED
    BY <2>1, <2>2
    DEF BeginEscalation, ReadOverdue, RaiseEscalated, EndEscalation, Acknowledge, Resolve,
        Purge, Tick, vars
<1>2. CASE BeginEscalation
  <2>1. {a.id : a \in {b \in alerts : b.acknowledged}} \in SUBSET Id
    BY <1>t DEF TablesOK, Alert
  <2>2. now \in Time /\ UNCHANGED <<now, alerts, rollbacks, drawn, history>>
    BY <1>2, <1>t DEF BeginEscalation, TablesOK
  <2>3. TablesOK'
    BY <1>t, <2>2 DEF TablesOK, history
  <2>4. EscalationOK'
    BY <1>2, <1>t, <2>1, <2>2, ReadTyped DEF BeginEscalation
  <2>5. QED
    BY <1>1, <2>3, <2>4
<1>3. CASE ReadOverdue
  <2>1. UNCHANGED <<now, alerts, rollbacks, drawn, history>>
    BY <1>3 DEF ReadOverdue
  <2>2. TablesOK'
    BY <1>t, <2>1 DEF TablesOK, history
  <2>3. escalation.began \in Time /\ escalation.quiet \in SUBSET Id
        /\ escalation.rung + 1 \in 1 .. 4
    BY <1>t DEF EscalationOK, Escalation
  <2>4. EscalationOK'
    BY <1>3, <1>t, <2>3, ReadTyped DEF ReadOverdue
  <2>5. QED
    BY <1>1, <2>2, <2>4
<1>4. CASE RaiseEscalated
  <2>1. PICK a \in escalation.overdue :
          /\ alerts' = alerts \cup
                {[id |-> drawn + 1, rule |-> a.rule, severity |-> Ladder[escalation.rung + 1],
                  at |-> escalation.began, acknowledged |-> FALSE,
                  original |-> a.id, since |-> a.at]}
          /\ escalation' = [escalation EXCEPT !.overdue = @ \ {a}]
    BY <1>4 DEF RaiseEscalated
  <2>2. /\ a \in Alert /\ escalation.began \in Time
        /\ escalation.rung + 1 \in 1 .. 4
    BY <1>t DEF EscalationOK, Escalation
  <2>3. drawn + 1 \in Id /\ drawn' = drawn + 1 /\ a.id \in 0 .. MaxAlerts
    BY <1>4, <1>t, <2>2, RulesApart DEF RaiseEscalated, Room, TablesOK, Id, Alert
  <2>4. Ladder[escalation.rung + 1] \in Severity
    BY <2>2, LadderClimbs
  <2>5. [id |-> drawn + 1, rule |-> a.rule, severity |-> Ladder[escalation.rung + 1],
         at |-> escalation.began, acknowledged |-> FALSE,
         original |-> a.id, since |-> a.at] \in Alert
    BY <2>2, <2>3, <2>4 DEF Alert
  <2>6. alerts' \subseteq Alert /\ drawn' \in 0 .. MaxAlerts
    <3>1. alerts' \subseteq Alert
      BY <1>t, <2>1, <2>5 DEF TablesOK
    <3>2. drawn' \in 0 .. MaxAlerts
      BY <2>3 DEF Id
    <3>3. QED
      BY <3>1, <3>2
  <2>7. UNCHANGED <<now, rollbacks, history>>
    BY <1>4 DEF RaiseEscalated
  <2>8. TablesOK'
    BY <1>t, <2>6, <2>7 DEF TablesOK, history
  <2>9. EscalationOK'
    BY <1>t, <2>1 DEF EscalationOK, Escalation
  <2>10. QED
    BY <1>1, <2>8, <2>9
<1>5. CASE EndEscalation
  <2>1. TablesOK'
    BY <1>5, <1>t DEF EndEscalation, TablesOK, history
  <2>2. EscalationOK'
    BY <1>5, RulesApart DEF EndEscalation, EscalationOK, Escalation, NoEscalation, Time
  <2>3. QED
    BY <1>1, <2>1, <2>2
<1>6. CASE Acknowledge
  <2>1. PICK a \in alerts : alerts' = (alerts \ {a}) \cup {[a EXCEPT !.acknowledged = TRUE]}
    BY <1>6 DEF Acknowledge
  <2>2. [a EXCEPT !.acknowledged = TRUE] \in Alert
    BY <1>t DEF TablesOK, Alert
  <2>3. alerts' \subseteq Alert
    BY <1>t, <2>1, <2>2 DEF TablesOK
  <2>4. UNCHANGED <<now, rollbacks, drawn, history, escalation>>
    BY <1>6 DEF Acknowledge
  <2>5. QED
    BY <1>1, <1>t, <2>3, <2>4 DEF TablesOK, EscalationOK, history
<1>7. CASE Resolve
  <2>1. PICK some \in SUBSET rollbacks :
          rollbacks' = (rollbacks \ some) \cup {[r EXCEPT !.resolved = TRUE] : r \in some}
    BY <1>7 DEF Resolve
  <2>2. \A r \in some : [r EXCEPT !.resolved = TRUE] \in RollbackRow
    BY <1>t DEF TablesOK, RollbackRow
  <2>3. rollbacks' \subseteq RollbackRow
    BY <1>t, <2>1, <2>2 DEF TablesOK
  <2>4. UNCHANGED <<now, alerts, drawn, history, escalation>>
    BY <1>7 DEF Resolve
  <2>5. QED
    BY <1>1, <1>t, <2>3, <2>4 DEF TablesOK, EscalationOK, history
<1>8. CASE Purge
  <2>1. alerts' \subseteq alerts /\ forgot' \in BOOLEAN
    BY <1>8 DEF Purge
  <2>2. UNCHANGED <<now, rollbacks, drawn, log, overlapped, escalation>>
    BY <1>8 DEF Purge
  <2>3. QED
    BY <1>1, <1>t, <2>1, <2>2 DEF TablesOK, EscalationOK
<1>9. CASE Tick
  <2>1. now' \in Time
    BY <1>9, <1>t, RulesApart DEF Tick, TablesOK, Time
  <2>2. QED
    BY <1>1, <1>9, <1>t, <2>1 DEF Tick, TablesOK, EscalationOK, history
<1>10. CASE Restart
  <2>1. EscalationOK'
    BY <1>10, RulesApart DEF Restart, EscalationOK, Escalation, NoEscalation, Time
  <2>2. QED
    BY <1>1, <1>10, <1>t, <2>1 DEF Restart, TablesOK, history
<1>11. CASE UNCHANGED vars
  BY <1>1, <1>11, <1>t DEF vars, TablesOK, EscalationOK, history
<1>12. QED
  BY <1>2, <1>3, <1>4, <1>5, <1>6, <1>7, <1>8, <1>9, <1>10, <1>11

LEMMA StepTyped == TypeOK /\ [Next]_vars => TypeOK'
BY EvaluationTyped, OtherTyped DEF Next

\* The tables, the evaluations and the escalation run keep their types; an evaluation that
\* fires or records has a rule, whatever fails, is purged or crashes in between.
THEOREM AlertTyping == Spec => []TypeOK
<1>1. QED
  BY InitTyped, StepTyped, PTL DEF Spec
-----------------------------------------------------------------------------
\* No alert vanishes before it was acknowledged: only a purge deletes, and only what is
\* acknowledged; every other statement keeps the row or its successor of the same id.
THEOREM OpenAlertsStay == Spec => OpenAlertsKept
<1>1. [Next]_vars => \A a \in alerts : ~a.acknowledged => \E b \in alerts' : b.id = a.id
  <2> SUFFICES ASSUME [Next]_vars, NEW a \in alerts, ~a.acknowledged
               PROVE  \E b \in alerts' : b.id = a.id
    OBVIOUS
  <2>1. CASE Acknowledge
    <3>1. PICK c \in alerts : alerts' = (alerts \ {c}) \cup {[c EXCEPT !.acknowledged = TRUE]}
      BY <2>1 DEF Acknowledge
    <3>2. [c EXCEPT !.acknowledged = TRUE].id = c.id
      OBVIOUS
    <3>3. QED
      BY <3>1, <3>2
  <2>2. CASE Purge
    BY <2>2 DEF Purge
  <2>3. CASE alerts \subseteq alerts'
    BY <2>3
  <2>4. alerts \subseteq alerts' \/ Acknowledge \/ Purge
    BY DEF Next, EvaluationStep, Begin, FireThresholdAlert, Raise, CheckCondition, FireRollback,
           RecordRollback, Recorded, Return, Fail, BeginEscalation, ReadOverdue, RaiseEscalated,
           EndEscalation, Resolve, Tick, Restart, vars
  <2>5. QED
    BY <2>1, <2>2, <2>3, <2>4
<1>2. QED
  BY <1>1, PTL DEF Spec, OpenAlertsKept
-----------------------------------------------------------------------------
(***************************************************************************)
(* Escalation waits.  What an escalation run has read and not yet copied   *)
(* was overdue when it began.                                              *)
(***************************************************************************)
RunOverdue ==
    \A a \in escalation.overdue :
        /\ escalation.rung \in 1 .. 3
        /\ escalation.began - a.at > EscalateAfter[Ladder[escalation.rung]]

\* A row of alerts is an original or waited as long as one rung asks for.
Patient(a) ==
    a.original # 0 =>
        \E i \in 1 .. 3 : Ladder[i+1] = a.severity /\ a.at - a.since > EscalateAfter[Ladder[i]]

LEMMA PatienceParts == EscalationPatience <=> \A a \in alerts : Patient(a)
<1>1. Len(Ladder) - 1 = 3
  BY DEF Ladder
<1>2. QED
  BY <1>1 DEF EscalationPatience, Patient

\* Steps after which every row is an old one, a fresh one or an acknowledged one.
LEMMA PatienceKept ==
    ASSUME EscalationPatience, TypeOK,
           \A b \in alerts' :
               \/ b.original = 0
               \/ \E a \in alerts : /\ b.original = a.original /\ b.severity = a.severity
                                    /\ b.at = a.at /\ b.since = a.since
    PROVE  EscalationPatience'
<1>1. Len(Ladder) - 1 = 3
  BY DEF Ladder
<1>2. ASSUME NEW b \in alerts' PROVE Patient(b)
  BY <1>2, PatienceParts DEF Patient
<1>3. QED
  BY <1>1, <1>2 DEF EscalationPatience, Patient

LEMMA WaitingTimes ==
    ASSUME NEW i \in 1 .. 3
    PROVE  EscalateAfter[Ladder[i]] \in Nat
BY AlertAssumption DEF Ladder

LEMMA RunOverdueStep == TypeOK /\ RunOverdue /\ [Next]_vars => RunOverdue'
<1> SUFFICES ASSUME TypeOK, RunOverdue, [Next]_vars PROVE RunOverdue'
  OBVIOUS
<1>t. TablesOK /\ EscalationOK
  BY TypeParts
<1>1. ASSUME NEW r \in 1 .. 4, NEW began \in Time, NEW quiet \in SUBSET Id,
             ReadFrom(r, began, quiet)
      PROVE  RunOverdue'
  <2>1. /\ escalation'.rung \in 1 .. 3 /\ escalation'.began = began
        /\ escalation'.overdue = Overdue(Ladder[escalation'.rung], began)
        /\ escalation'.overdue \subseteq alerts
    BY <1>1, <1>t, ReadTyped
  <2>2. ASSUME NEW a \in escalation'.overdue
        PROVE  began - a.at > EscalateAfter[Ladder[escalation'.rung]]
    <3>1. a \in Overdue(Ladder[escalation'.rung], began) /\ a \in Alert
      BY <2>1, <2>2, <1>t DEF TablesOK
    <3>2. a.at < began - EscalateAfter[Ladder[escalation'.rung]]
      BY <3>1 DEF Overdue
    <3>3. a.at \in Int /\ began \in Int /\ EscalateAfter[Ladder[escalation'.rung]] \in Int
      BY <2>1, <3>1, WaitingTimes, RulesApart DEF Alert, Time
    <3>4. QED
      BY <3>2, <3>3
  <2>3. QED
    BY <2>1, <2>2 DEF RunOverdue
<1>2. CASE BeginEscalation
  <2>1. {a.id : a \in {b \in alerts : b.acknowledged}} \in SUBSET Id /\ now \in Time
    BY <1>t DEF TablesOK, Alert
  <2>2. QED
    BY <1>1, <1>2, <2>1 DEF BeginEscalation
<1>3. CASE ReadOverdue
  <2>1. escalation.began \in Time /\ escalation.quiet \in SUBSET Id
        /\ escalation.rung + 1 \in 1 .. 4
    BY <1>t DEF EscalationOK, Escalation
  <2>2. QED
    BY <1>1, <1>3, <2>1 DEF ReadOverdue
<1>4. CASE RaiseEscalated
  <2>1. /\ escalation'.overdue \subseteq escalation.overdue
        /\ escalation'.rung = escalation.rung /\ escalation'.began = escalation.began
    BY <1>4, <1>t DEF RaiseEscalated, EscalationOK, Escalation
  <2>2. QED
    BY <2>1 DEF RunOverdue
<1>5. CASE escalation' = NoEscalation
  BY <1>5 DEF RunOverdue, NoEscalation
<1>6. CASE UNCHANGED escalation
  BY <1>6 DEF RunOverdue
<1>7. \/ BeginEscalation \/ ReadOverdue \/ RaiseEscalated
      \/ escalation' = NoEscalation \/ UNCHANGED escalation
  BY DEF Next, EvaluationStep, Begin, FireThresholdAlert, CheckCondition, FireRollback,
         RecordRollback, Recorded, Return, Fail, EndEscalation, Acknowledge, Purge,
         Resolve, Tick, Restart, vars
<1>8. QED
  BY <1>2, <1>3, <1>4, <1>5, <1>6, <1>7

LEMMA PatienceStep == TypeOK /\ RunOverdue /\ EscalationPatience /\ [Next]_vars
                          => EscalationPatience'
<1> SUFFICES ASSUME TypeOK, RunOverdue, EscalationPatience, [Next]_vars
             PROVE  EscalationPatience'
  OBVIOUS
<1>t. TablesOK /\ EscalationOK
  BY TypeParts
<1>1. CASE RaiseEscalated
  <2>1. PICK a \in escalation.overdue :
          alerts' = alerts \cup
                {[id |-> drawn + 1, rule |-> a.rule, severity |-> Ladder[escalation.rung + 1],
                  at |-> escalation.began, acknowledged |-> FALSE,
                  original |-> a.id, since |-> a.at]}
    BY <1>1 DEF RaiseEscalated
  <2> DEFINE copy == [id |-> drawn + 1, rule |-> a.rule,
                      severity |-> Ladder[escalation.rung + 1],
                      at |-> escalation.began, acknowledged |-> FALSE,
                      original |-> a.id, since |-> a.at]
  <2>2. /\ escalation.rung \in 1 .. 3
        /\ escalation.began - a.at > EscalateAfter[Ladder[escalation.rung]]
    BY DEF RunOverdue
  <2>3. Patient(copy)
    BY <2>2 DEF Patient
  <2>4. \A b \in alerts' : Patient(b)
    BY <2>1, <2>3, PatienceParts
  <2>5. Len(Ladder) - 1 = 3
    BY DEF Ladder
  <2>6. QED
    BY <2>4, <2>5 DEF EscalationPatience, Patient
<1>2. CASE Acknowledge
  <2>1. PICK a \in alerts : alerts' = (alerts \ {a}) \cup {[a EXCEPT !.acknowledged = TRUE]}
    BY <1>2 DEF Acknowledge
  <2>2. a \in Alert
    BY <1>t DEF TablesOK
  <2> DEFINE b == [a EXCEPT !.acknowledged = TRUE]
  <2>3. b.original = a.original /\ b.severity = a.severity /\ b.at = a.at /\ b.since = a.since
    BY <2>2 DEF Alert
  <2> HIDE DEF b
  <2>4. \A c \in alerts' : c \in alerts \/ c = b
    BY <2>1 DEF b
  <2>5. QED
    BY <2>3, <2>4, PatienceKept
<1>3. ASSUME NEW e, NEW r, NEW severity, Raise(e, r, severity) PROVE EscalationPatience'
  <2>1. \A b \in alerts' : b \in alerts \/ b.original = 0
    BY <1>3 DEF Raise
  <2>2. QED
    BY <2>1, PatienceKept
<1>4. CASE alerts' \subseteq alerts
  BY <1>4, PatienceKept
<1>5. \/ RaiseEscalated \/ Acknowledge \/ alerts' \subseteq alerts
      \/ \E e \in Evaluator, r \in Rule \cup {NoRule}, severity \in Severity :
            Raise(e, r, severity)
  <2>1. ASSUME NEW e \in Evaluator, FireThresholdAlert(e)
        PROVE  \E r \in Rule \cup {NoRule}, severity \in Severity : Raise(e, r, severity)
    BY <2>1, RulesApart DEF FireThresholdAlert, Rule
  <2>2. ASSUME NEW e \in Evaluator, FireRollback(e)
        PROVE  \E r \in Rule \cup {NoRule}, severity \in Severity : Raise(e, r, severity)
    <3>1. rule[e] \in Rule \cup {NoRule}
      BY DEF TypeOK
    <3>2. QED
      BY <2>2, <3>1 DEF FireRollback, Severity
  <2>3. QED
    BY <2>1, <2>2
    DEF Next, EvaluationStep, Begin, CheckCondition, RecordRollback, Recorded, Return, Fail,
        BeginEscalation, ReadOverdue, EndEscalation, Purge, Resolve, Tick, Restart, vars
<1>6. QED
  BY <1>1, <1>2, <1>3, <1>4, <1>5

\* No alert is escalated before its severity's own waiting time is over, and a copy waits
\* anew at every rung, however evaluations, acknowledgements and purges change the table
\* while the run works through what it read.
THEOREM EscalationWaits == Spec => []EscalationPatience
<1>1. Init => RunOverdue /\ EscalationPatience
  BY DEF Init, RunOverdue, EscalationPatience, NoEscalation
<1>2. QED
  BY <1>1, RunOverdueStep, PatienceStep, AlertTyping, PTL DEF Spec
-----------------------------------------------------------------------------
(***************************************************************************)
(* What has been fired is on record, except for the one alert whose        *)
(* rollback is about to be inserted: the last one drawn by the evaluation. *)
(***************************************************************************)
OnRecord(id) == \E r \in rollbacks : r.alert = id

Traced(e) ==
    /\ \A id \in fired[e] : id <= drawn
    /\ stage[e] = "idle" => fired[e] = {}
    /\ stage[e] \in {"alerting", "firing"} => \A id \in fired[e] : OnRecord(id)
    /\ stage[e] = "recording" =>
          \A id \in fired[e] : OnRecord(id) \/ \A other \in fired[e] : other <= id

AllTraced == \A e \in Evaluator : Traced(e)

\* What is on record stays on record: a rollback is resolved, never deleted.
LEMMA RecordsStay ==
    ASSUME TypeOK, [Next]_vars, NEW id, OnRecord(id)
    PROVE  OnRecord(id)'
<1>1. CASE Resolve
  <2>1. PICK some \in SUBSET rollbacks :
          rollbacks' = (rollbacks \ some) \cup {[r EXCEPT !.resolved = TRUE] : r \in some}
    BY <1>1 DEF Resolve
  <2>2. PICK r \in rollbacks : r.alert = id
    BY DEF OnRecord
  <2>3. [r EXCEPT !.resolved = TRUE].alert = id
    BY <2>2 DEF TypeOK, RollbackRow
  <2>4. r \in rollbacks' \/ [r EXCEPT !.resolved = TRUE] \in rollbacks'
    BY <2>1
  <2>5. QED
    BY <2>2, <2>3, <2>4 DEF OnRecord
<1>2. CASE rollbacks \subseteq rollbacks'
  BY <1>2 DEF OnRecord
<1>3. Resolve \/ rollbacks \subseteq rollbacks'
  BY DEF Next, EvaluationStep, Begin, FireThresholdAlert, CheckCondition, FireRollback,
         RecordRollback, Recorded, Return, Fail, BeginEscalation, ReadOverdue, RaiseEscalated,
         EndEscalation, Acknowledge, Purge, Tick, Restart, vars
<1>4. QED
  BY <1>1, <1>2, <1>3

\* Ids are drawn upwards.
LEMMA DrawnGrows ==
    ASSUME TypeOK, [Next]_vars
    PROVE  drawn \in Nat /\ drawn' \in {drawn, drawn + 1} /\ drawn <= drawn'
<1>1. drawn \in Nat
  BY RulesApart DEF TypeOK
<1>2. drawn' \in {drawn, drawn + 1}
  BY DEF Next, EvaluationStep, Begin, FireThresholdAlert, Raise, CheckCondition, FireRollback,
         RecordRollback, Recorded, Return, Fail, BeginEscalation, ReadOverdue, RaiseEscalated,
         EndEscalation, Acknowledge, Resolve, Purge, Tick, Restart, vars
<1>3. QED
  BY <1>1, <1>2

\* An evaluation that a step does not touch stays traced.
LEMMA TracedKept ==
    ASSUME TypeOK, [Next]_vars, NEW e \in Evaluator, Traced(e),
           stage'[e] = stage[e], fired'[e] = fired[e]
    PROVE  Traced(e)'
<1>1. \A id \in fired[e] : id \in Nat /\ id <= drawn'
  <2>1. fired[e] \subseteq Id
    BY DEF TypeOK
  <2>2. QED
    BY <2>1, DrawnGrows DEF Traced, Id
<1>2. QED
  BY <1>1, RecordsStay DEF Traced

LEMMA TracedRaise ==
    ASSUME TypeOK, [Next]_vars, AllTraced, NEW e \in Evaluator, NEW r \in Rule,
           NEW severity \in Severity, Raise(e, r, severity), stage[e] \in {"alerting", "firing"}
    PROVE  AllTraced'
<1>t. TablesOK /\ EvaluationsOK
  BY TypeParts
<1>1. /\ \A d \in Evaluator : d # e => stage'[d] = stage[d] /\ fired'[d] = fired[d]
      /\ IF severity = "rollback"
         THEN stage'[e] = "recording" /\ fired'[e] = fired[e] \cup {drawn + 1}
         ELSE stage' = stage /\ fired' = fired
  BY <1>t, RaiseStaged
<1>2. CASE severity = "rollback"
  <2>1. \A id \in fired[e] : OnRecord(id)' /\ id <= drawn /\ id \in Nat
    <3>1. fired[e] \subseteq Id
      BY DEF TypeOK
    <3>2. QED
      BY <3>1, RecordsStay DEF AllTraced, Traced, Id
  <2>2. drawn' = drawn + 1 /\ drawn \in Nat
    BY DrawnGrows DEF Raise
  <2>3. \A id \in fired'[e] : id <= drawn'
    BY <1>1, <1>2, <2>1, <2>2
  <2>4. \A id \in fired'[e] : OnRecord(id)' \/ \A other \in fired'[e] : other <= id
    BY <1>1, <1>2, <2>1, <2>2
  <2>5. Traced(e)'
    BY <1>1, <1>2, <2>3, <2>4 DEF Traced
  <2>6. QED
    BY <1>1, <2>5, TracedKept DEF AllTraced
<1>3. CASE severity # "rollback"
  BY <1>1, <1>3, TracedKept DEF AllTraced
<1>4. QED
  BY <1>2, <1>3

LEMMA TracedStep == TypeOK /\ AllTraced /\ [Next]_vars => AllTraced'
<1> SUFFICES ASSUME TypeOK, AllTraced, [Next]_vars PROVE AllTraced'
  OBVIOUS
<1>t. EvaluationsOK
  BY TypeParts
<1>1. CASE UNCHANGED <<stage, fired>>
  BY <1>1, TracedKept DEF AllTraced
<1>2. ASSUME NEW e \in Evaluator, FireThresholdAlert(e) PROVE AllTraced'
  BY <1>2, TracedRaise, RulesApart DEF FireThresholdAlert, Rule
<1>3. ASSUME NEW e \in Evaluator, FireRollback(e) PROVE AllTraced'
  <2>1. rule[e] \in Rule
    BY <1>3, <1>t, RulesApart DEF FireRollback, EvaluationsOK
  <2>2. QED
    BY <1>3, <2>1, TracedRaise DEF FireRollback, Severity
<1>4. ASSUME NEW e \in Evaluator, Begin(e) \/ CheckCondition(e) PROVE AllTraced'
  <2>1. /\ fired' = fired
        /\ \A d \in Evaluator : d # e => stage'[d] = stage[d]
        /\ \/ stage[e] = "idle" /\ stage'[e] = "alerting"
           \/ stage[e] = "alerting" /\ stage'[e] \in {"alerting", "firing"}
    BY <1>4, <1>t DEF Begin, CheckCondition, Busy, EvaluationsOK
  <2>2. Traced(e)'
    <3>1. \A id \in fired[e] : OnRecord(id)' /\ id <= drawn'
      <4>1. fired[e] \subseteq Id
        BY DEF TypeOK
      <4>2. \A id \in fired[e] : OnRecord(id) /\ id <= drawn
        BY <2>1 DEF AllTraced, Traced
      <4>3. QED
        BY <4>1, <4>2, RecordsStay, DrawnGrows DEF Id
    <3>2. QED
      BY <2>1, <3>1 DEF Traced
  <2>3. QED
    BY <2>1, <2>2, TracedKept DEF AllTraced
<1>5. ASSUME NEW e \in Evaluator, RecordRollback(e) PROVE AllTraced'
  <2>1. PICK last \in fired[e] :
          /\ \A other \in fired[e] : other <= last
          /\ rollbacks' = rollbacks \cup {[alert |-> last, resolved |-> FALSE]}
    BY <1>5 DEF RecordRollback
  <2>2. /\ stage[e] = "recording" /\ stage'[e] = "alerting"
        /\ fired' = fired /\ drawn' = drawn
        /\ \A d \in Evaluator : d # e => stage'[d] = stage[d]
    BY <1>5, <1>t DEF RecordRollback, Recorded, EvaluationsOK
  <2>3. OnRecord(last)'
    <3>1. [alert |-> last, resolved |-> FALSE].alert = last
      OBVIOUS
    <3>2. QED
      BY <2>1, <3>1 DEF OnRecord
  <2>4. ASSUME NEW id \in fired[e] PROVE OnRecord(id)'
    <3>1. CASE OnRecord(id)
      BY <3>1, RecordsStay
    <3>2. CASE \A other \in fired[e] : other <= id
      <4>1. id \in Int /\ last \in Int /\ id <= last /\ last <= id
        BY <1>t, <2>1, <3>2 DEF EvaluationsOK, Id
      <4>2. id = last
        BY <4>1
      <4>3. QED
        BY <2>3, <4>2
    <3>3. QED
      BY <2>2, <3>1, <3>2 DEF AllTraced, Traced
  <2>5. Traced(e)'
    BY <2>2, <2>4 DEF AllTraced, Traced
  <2>6. QED
    BY <2>2, <2>5, TracedKept DEF AllTraced
<1>6. ASSUME NEW e \in Evaluator, Stop(e) PROVE AllTraced'
  <2>1. /\ stage'[e] = "idle" /\ fired'[e] = {}
        /\ \A d \in Evaluator : d # e => stage'[d] = stage[d] /\ fired'[d] = fired[d]
    BY <1>6, <1>t DEF Stop, EvaluationsOK
  <2>2. Traced(e)'
    BY <2>1 DEF Traced
  <2>3. QED
    BY <2>1, <2>2, TracedKept DEF AllTraced
<1>7. CASE Restart
  BY <1>7 DEF Restart, AllTraced, Traced
<1>8. \/ UNCHANGED <<stage, fired>> \/ Restart
      \/ \E e \in Evaluator :
            \/ FireThresholdAlert(e) \/ FireRollback(e) \/ Begin(e) \/ CheckCondition(e)
            \/ RecordRollback(e) \/ Stop(e)
  BY DEF Next, EvaluationStep, Return, Fail, BeginEscalation, ReadOverdue, RaiseEscalated,
         EndEscalation, Acknowledge, Resolve, Purge, Tick, vars, evaluation
<1>9. QED
  BY <1>1, <1>2, <1>3, <1>4, <1>5, <1>6, <1>7, <1>8

\* When evaluate may return, and its caller tell of a rollback, that rollback is on record:
\* however the transactions of other evaluations and requests fall between its own.
THEOREM RollbacksRecorded == Spec => []TriggeredIsRecorded
<1>1. Init => AllTraced
  BY DEF Init, AllTraced, Traced
<1>2. Spec => []AllTraced
  BY <1>1, TracedStep, AlertTyping, PTL DEF Spec
<1>3. AllTraced => TriggeredIsRecorded
  BY DEF AllTraced, Traced, OnRecord, TriggeredIsRecorded
<1>4. QED
  BY <1>2, <1>3, PTL
-----------------------------------------------------------------------------
(***************************************************************************)
(* The cooldown.  One evaluation at a time, and no purge that reaches into *)
(* the cooldown: then every firing is either still in the table or longer  *)
(* ago than the cooldown, and what the check found holds until it fires.   *)
(***************************************************************************)
Firing(e, id) == [id |-> id, rule |-> rule[e], at |-> now]

LogOld     == \A l \in log : l.id <= drawn
Alone      == ~overlapped => \A d, e \in Evaluator : Busy(d) /\ Busy(e) => d = e
Remembered ==
    ~forgot => \A l \in log : \/ now - l.at >= Cooldown
                              \/ \E a \in alerts : a.rule = l.rule /\ a.at = l.at /\ a.original = 0
Cooled ==
    ~overlapped /\ ~forgot =>
        \A e \in Evaluator, l \in log : stage[e] = "firing" /\ l.rule = rule[e]
                                            => now - l.at >= Cooldown

LEMMA LogTyped ==
    ASSUME TypeOK
    PROVE  /\ now \in Nat /\ drawn \in Nat
           /\ \A l \in log : l.at \in Nat /\ l.id \in Nat
           /\ \A a \in alerts : a.at \in Nat
<1>t. TablesOK
  BY TypeParts
<1>1. \A l \in log : l.id \in Id /\ l.at \in Time
  BY <1>t DEF TablesOK
<1>2. \A a \in alerts : a.at \in Time
  BY <1>t DEF TablesOK, Alert
<1>3. QED
  BY <1>t, <1>1, <1>2, RulesApart DEF TablesOK, Id, Time

\* A condition is logged by the evaluation that fires it, and by nothing else.
LEMMA LogStep ==
    ASSUME TypeOK, [Next]_vars
    PROVE  \/ log' = log
           \/ \E e \in Evaluator :
                 /\ stage[e] = "firing"
                 /\ log' = log \cup {Firing(e, drawn + 1)}
                 /\ alerts' = alerts \cup {Fresh(rule[e], "rollback")}
                 /\ stage' = [stage EXCEPT ![e] = "recording"]
                 /\ drawn' = drawn + 1
                 /\ UNCHANGED <<now, overlapped, forgot>>
<1>t. EvaluationsOK
  BY TypeParts
<1>1. ASSUME NEW e \in Evaluator, FireThresholdAlert(e) PROVE log' = log
  BY <1>1, RulesApart DEF FireThresholdAlert, Raise
<1>2. ASSUME NEW e \in Evaluator, FireRollback(e)
      PROVE  \/ log' = log
             \/ /\ stage[e] = "firing"
                /\ log' = log \cup {Firing(e, drawn + 1)}
                /\ alerts' = alerts \cup {Fresh(rule[e], "rollback")}
                /\ stage' = [stage EXCEPT ![e] = "recording"]
                /\ drawn' = drawn + 1
                /\ UNCHANGED <<now, overlapped, forgot>>
  <2>1. stage[e] = "firing" /\ Raise(e, rule[e], "rollback")
        /\ UNCHANGED <<now, overlapped, forgot>>
    BY <1>2 DEF FireRollback
  <2>2. QED
    BY <2>1 DEF Raise, Firing, Fresh
<1>3. \/ log' = log
      \/ \E e \in Evaluator : FireThresholdAlert(e) \/ FireRollback(e)
  BY DEF Next, EvaluationStep, Begin, CheckCondition, RecordRollback, Recorded, Return, Fail,
         BeginEscalation, ReadOverdue, RaiseEscalated, EndEscalation, Acknowledge, Resolve,
         Purge, Tick, Restart, vars, history
<1>4. QED
  BY <1>1, <1>2, <1>3

LEMMA LogOldStep == TypeOK /\ LogOld /\ [Next]_vars => LogOld'
<1> SUFFICES ASSUME TypeOK, LogOld, [Next]_vars, NEW l \in log' PROVE l.id <= drawn'
  BY DEF LogOld
<1>1. CASE l \in log
  BY <1>1, LogTyped, DrawnGrows DEF LogOld
<1>2. CASE l \notin log
  <2>1. l.id = drawn + 1 /\ drawn' = drawn + 1
    BY <1>2, LogStep DEF Firing
  <2>2. QED
    BY <2>1, LogTyped
<1>3. QED
  BY <1>1, <1>2

LEMMA AloneStep == TypeOK /\ Alone /\ [Next]_vars => Alone'
<1> SUFFICES ASSUME TypeOK, Alone, [Next]_vars PROVE Alone'
  OBVIOUS
<1>t. EvaluationsOK
  BY TypeParts
<1>1. ASSUME NEW e \in Evaluator, Begin(e) PROVE Alone'
  <2>1. \A d \in Evaluator : d # e => stage'[d] = stage[d]
    BY <1>1, <1>t DEF Begin, EvaluationsOK
  <2>2. ~overlapped' => \A d \in Evaluator : d # e => ~Busy(d)
    BY <1>1 DEF Begin
  <2>3. QED
    BY <2>1, <2>2 DEF Alone, Busy
<1>2. CASE /\ overlapped' = overlapped
           /\ \A e \in Evaluator : Busy(e)' => Busy(e)
  BY <1>2 DEF Alone
<1>3. ASSUME NEW e \in Evaluator, Raise(e, rule[e], "rollback") \/ FireThresholdAlert(e),
             stage[e] # "idle"
      PROVE  \A d \in Evaluator : stage'[d] # "idle" => stage[d] # "idle"
  BY <1>3, <1>t DEF Raise, FireThresholdAlert, EvaluationsOK
<1>4. (\E e \in Evaluator : Begin(e)) \/
      /\ overlapped' = overlapped
      /\ \A e \in Evaluator : Busy(e)' => Busy(e)
  <2>1. ASSUME NEW e \in Evaluator, EvaluationStep(e), ~Begin(e)
        PROVE  overlapped' = overlapped /\ \A d \in Evaluator : Busy(d)' => Busy(d)
    <3>1. CASE FireThresholdAlert(e) \/ FireRollback(e)
      BY <1>3, <3>1 DEF FireThresholdAlert, FireRollback, Busy
    <3>2. CASE CheckCondition(e) \/ RecordRollback(e)
      BY <1>t, <3>2 DEF CheckCondition, RecordRollback, Recorded, EvaluationsOK, Busy, history
    <3>3. CASE Return(e) \/ Fail(e)
      BY <1>t, <3>3 DEF Return, Fail, Stop, EvaluationsOK, Busy, history
    <3>4. QED
      BY <2>1, <3>1, <3>2, <3>3 DEF EvaluationStep
  <2>2. CASE Restart
    BY <2>2 DEF Restart, Busy, history
  <2>3. CASE UNCHANGED <<stage, overlapped>>
    BY <2>3 DEF Busy
  <2>4. QED
    BY <2>1, <2>2, <2>3
    DEF Next, BeginEscalation, ReadOverdue, RaiseEscalated, EndEscalation, Acknowledge,
        Resolve, Purge, Tick, vars, evaluation, history
<1>5. QED
  BY <1>1, <1>2, <1>4

\* An original alert stays in the table, unless a purge takes what is older than it keeps.
LEMMA OriginalKept ==
    ASSUME TypeOK, [Next]_vars, NEW a \in alerts, a.original = 0
    PROVE  \/ \E b \in alerts' : b.rule = a.rule /\ b.at = a.at /\ b.original = 0
           \/ forgot'
           \/ now - a.at >= Cooldown /\ now' = now
<1>1. CASE Acknowledge
  <2>1. PICK c \in alerts : alerts' = (alerts \ {c}) \cup {[c EXCEPT !.acknowledged = TRUE]}
    BY <1>1 DEF Acknowledge
  <2>2. c \in Alert
    BY DEF TypeOK
  <2> DEFINE b == [c EXCEPT !.acknowledged = TRUE]
  <2>3. b.rule = c.rule /\ b.at = c.at /\ b.original = c.original
    BY <2>2 DEF Alert
  <2>4. a \in alerts' \/ (a = c /\ b \in alerts')
    BY <2>1
  <2>5. QED
    BY <2>3, <2>4
<1>2. CASE Purge
  <2>1. PICK keep \in 0 .. MaxTime :
          /\ alerts' = alerts \ {b \in alerts : b.acknowledged /\ b.at < now - keep}
          /\ forgot' = (forgot \/ keep < Cooldown)
    BY <1>2 DEF Purge
  <2>2. now' = now
    BY <1>2 DEF Purge
  <2>3. CASE a \in alerts'
    BY <2>3
  <2>4. CASE a \notin alerts'
    <3>1. a.at < now - keep
      BY <2>1, <2>4
    <3>2. keep \in Nat /\ now \in Nat /\ a.at \in Nat /\ Cooldown \in Nat
      BY LogTyped, RulesApart
    <3>3. keep < Cooldown \/ now - a.at >= Cooldown
      BY <3>1, <3>2
    <3>4. QED
      BY <2>1, <2>2, <3>3
  <2>5. QED
    BY <2>3, <2>4
<1>3. CASE alerts \subseteq alerts'
  BY <1>3
<1>4. Acknowledge \/ Purge \/ alerts \subseteq alerts'
  BY DEF Next, EvaluationStep, Begin, FireThresholdAlert, Raise, CheckCondition, FireRollback,
         RecordRollback, Recorded, Return, Fail, BeginEscalation, ReadOverdue, RaiseEscalated,
         EndEscalation, Resolve, Tick, Restart, vars
<1>5. QED
  BY <1>1, <1>2, <1>3, <1>4

LEMMA TimeGoesOn ==
    ASSUME TypeOK, [Next]_vars
    PROVE  now \in Nat /\ now' \in {now, now + 1} /\ (forgot => forgot') /\ (overlapped => overlapped')
<1>1. now \in Nat /\ forgot \in BOOLEAN /\ overlapped \in BOOLEAN
  BY LogTyped DEF TypeOK
<1>2. now' \in {now, now + 1}
  BY DEF Next, EvaluationStep, Begin, FireThresholdAlert, CheckCondition, FireRollback,
         RecordRollback, Recorded, Return, Fail, BeginEscalation, ReadOverdue, RaiseEscalated,
         EndEscalation, Acknowledge, Resolve, Purge, Tick, Restart, vars
<1>3. forgot => forgot'
  <2>1. CASE Purge
    BY <2>1, Zenon DEF Purge
  <2>2. CASE forgot' = forgot
    BY <2>2
  <2>3. forgot' = forgot \/ Purge
    BY DEF Next, EvaluationStep, Begin, FireThresholdAlert, CheckCondition, FireRollback,
           RecordRollback, Recorded, Return, Fail, BeginEscalation, ReadOverdue, RaiseEscalated,
           EndEscalation, Acknowledge, Resolve, Tick, Restart, vars, history
  <2>4. QED
    BY <2>1, <2>2, <2>3
<1>4. overlapped => overlapped'
  <2>1. ASSUME NEW e \in Evaluator, Begin(e) PROVE overlapped => overlapped'
    BY <2>1, Zenon DEF Begin
  <2>2. CASE overlapped' = overlapped
    BY <2>2
  <2>3. overlapped' = overlapped \/ \E e \in Evaluator : Begin(e)
    BY DEF Next, EvaluationStep, FireThresholdAlert, CheckCondition, FireRollback,
           RecordRollback, Recorded, Return, Fail, BeginEscalation, ReadOverdue, RaiseEscalated,
           EndEscalation, Acknowledge, Resolve, Purge, Tick, Restart, vars, history
  <2>4. QED
    BY <2>1, <2>2, <2>3
<1>5. QED
  BY <1>1, <1>2, <1>3, <1>4

LEMMA RememberedStep == TypeOK /\ Remembered /\ [Next]_vars => Remembered'
<1> SUFFICES ASSUME TypeOK, Remembered, [Next]_vars, ~forgot', NEW l \in log'
             PROVE  \/ now' - l.at >= Cooldown
                    \/ \E a \in alerts' : a.rule = l.rule /\ a.at = l.at /\ a.original = 0
  BY DEF Remembered
<1>1. CASE l \in log
  <2>1. CASE now - l.at >= Cooldown
    BY <1>1, <2>1, LogTyped, TimeGoesOn, RulesApart
  <2>2. ASSUME NEW a \in alerts, a.rule = l.rule, a.at = l.at, a.original = 0
        PROVE  \/ now' - l.at >= Cooldown
               \/ \E b \in alerts' : b.rule = l.rule /\ b.at = l.at /\ b.original = 0
    BY <2>2, OriginalKept
  <2>3. QED
    BY <1>1, <2>1, <2>2, TimeGoesOn DEF Remembered
<1>2. CASE l \notin log
  <2>1. PICK e \in Evaluator : l = Firing(e, drawn + 1)
                               /\ Fresh(rule[e], "rollback") \in alerts'
    BY <1>2, LogStep
  <2>2. QED
    BY <2>1 DEF Firing, Fresh
<1>3. QED
  BY <1>1, <1>2

LEMMA CooledStep ==
    TypeOK /\ Alone /\ Remembered /\ Cooled /\ [Next]_vars => Cooled'
<1> SUFFICES ASSUME TypeOK, Alone, Remembered, Cooled, [Next]_vars, ~overlapped', ~forgot',
                    NEW e \in Evaluator, NEW l \in log', stage'[e] = "firing",
                    l.rule = rule'[e]
             PROVE  now' - l.at >= Cooldown
  BY DEF Cooled
<1>t. EvaluationsOK
  BY TypeParts
<1>0. ~overlapped /\ ~forgot
  BY TimeGoesOn
<1>1. CASE log' # log
  <2>1. PICK d \in Evaluator : stage[d] = "firing" /\ stage' = [stage EXCEPT ![d] = "recording"]
    BY <1>1, LogStep
  <2>2. e # d /\ stage[e] = "firing"
    BY <1>t, <2>1 DEF EvaluationsOK
  <2>3. QED
    BY <1>0, <2>1, <2>2 DEF Alone, Busy
<1>2. CASE log' = log /\ stage[e] = "firing" /\ rule'[e] = rule[e]
  <2>1. now - l.at >= Cooldown
    BY <1>0, <1>2 DEF Cooled
  <2>2. QED
    BY <1>2, <2>1, LogTyped, TimeGoesOn, RulesApart
<1>3. CASE log' = log /\ CheckCondition(e) /\ now' = now
  <2>1. PICK c \in todo[e] :
           IF CooldownOk(c)
           THEN stage' = [stage EXCEPT ![e] = "firing"] /\ rule' = [rule EXCEPT ![e] = c]
           ELSE UNCHANGED <<stage, rule>>
    BY <1>3 DEF CheckCondition
  <2>2. CooldownOk(c) /\ rule'[e] = c
    BY <1>3, <1>t, <2>1 DEF CheckCondition, EvaluationsOK
  <2>3. ASSUME NEW a \in alerts, a.rule = l.rule, a.at = l.at, a.original = 0
        PROVE  now - l.at >= Cooldown
    BY <2>2, <2>3 DEF CooldownOk, LastAlertTimes
  <2>4. QED
    BY <1>0, <1>3, <2>3 DEF Remembered
<1>4. log' # log \/ (stage[e] = "firing" /\ rule'[e] = rule[e]) \/ (CheckCondition(e) /\ now' = now)
  <2>1. ASSUME NEW d \in Evaluator, EvaluationStep(d), d = e
        PROVE  CheckCondition(e) /\ now' = now
    BY <2>1, <1>t
    DEF EvaluationStep, Begin, FireThresholdAlert, Raise, CheckCondition, FireRollback,
        RecordRollback, Recorded, Return, Fail, Stop, EvaluationsOK
  <2>2. ASSUME NEW d \in Evaluator, EvaluationStep(d), d # e
        PROVE  stage'[e] = stage[e] /\ rule'[e] = rule[e]
    BY <2>2, <1>t
    DEF EvaluationStep, Begin, FireThresholdAlert, Raise, CheckCondition, FireRollback,
        RecordRollback, Recorded, Return, Fail, Stop, EvaluationsOK
  <2>3. CASE Restart
    BY <2>3 DEF Restart
  <2>4. CASE UNCHANGED evaluation
    BY <2>4 DEF evaluation
  <2>5. QED
    BY <2>1, <2>2, <2>3, <2>4
    DEF Next, BeginEscalation, ReadOverdue, RaiseEscalated, EndEscalation, Acknowledge,
        Resolve, Purge, Tick, vars
<1>5. QED
  BY <1>1, <1>2, <1>3, <1>4

LEMMA CooldownStep ==
    TypeOK /\ LogOld /\ Cooled /\ CooldownBetweenFirings /\ [Next]_vars
        => CooldownBetweenFirings'
<1> SUFFICES ASSUME TypeOK, LogOld, Cooled, CooldownBetweenFirings, [Next]_vars,
                    ~overlapped', ~forgot',
                    NEW a \in log', NEW b \in log', b.rule = a.rule, a.id < b.id
             PROVE  b.at - a.at >= Cooldown
  BY DEF CooldownBetweenFirings
<1>0. ~overlapped /\ ~forgot
  BY TimeGoesOn
<1>1. CASE a \in log /\ b \in log
  BY <1>0, <1>1 DEF CooldownBetweenFirings
<1>2. CASE a \in log /\ b \notin log
  <2>1. PICK e \in Evaluator : stage[e] = "firing" /\ b = Firing(e, drawn + 1)
    BY <1>2, LogStep
  <2>2. b.rule = rule[e] /\ b.at = now
    BY <2>1 DEF Firing
  <2>3. QED
    BY <1>0, <1>2, <2>1, <2>2 DEF Cooled
<1>3. CASE a \notin log
  <2>1. a.id = drawn + 1 /\ (b \in log \/ b.id = drawn + 1)
    BY <1>3, LogStep DEF Firing
  <2>2. b.id <= drawn \/ b.id = drawn + 1
    BY <2>1 DEF LogOld
  <2>3. QED
    BY <2>1, <2>2, LogTyped DEF LogOld
<1>4. QED
  BY <1>1, <1>2, <1>3

\* A rollback condition fires again only after its cooldown, whatever fails, crashes or is
\* acknowledged, escalated and purged in between, as long as evaluations do not overlap and
\* no purge keeps alerts for less than the cooldown.
THEOREM CooldownKept == Spec => []CooldownBetweenFirings
<1>1. Init => LogOld /\ Alone /\ Remembered /\ Cooled /\ CooldownBetweenFirings
  BY DEF Init, LogOld, Alone, Busy, Remembered, Cooled, CooldownBetweenFirings
<1>2. QED
  BY <1>1, LogOldStep, AloneStep, RememberedStep, CooledStep, CooldownStep, AlertTyping, PTL
  DEF Spec
-----------------------------------------------------------------------------
(***************************************************************************)
(* Acknowledged before an escalation run.  Ids are unique, so an alert the *)
(* run found acknowledged when it began stays acknowledged in the table;   *)
(* the run reads only what is not.                                         *)
(***************************************************************************)
Numbered == \A a, b \in alerts : a.id <= drawn /\ (a.id = b.id => a = b)
Quiet ==
    /\ \A id \in escalation.quiet : id <= drawn
    /\ \A a \in alerts : a.id \in escalation.quiet => a.acknowledged
    /\ \A a \in escalation.overdue : a.id \notin escalation.quiet

\* What a step does to the table: one new row, one acknowledgement, or fewer rows.
LEMMA TableStep ==
    ASSUME TypeOK, [Next]_vars
    PROVE  \/ alerts' \subseteq alerts
           \/ \E b \in Alert : /\ b.id = drawn + 1 /\ drawn' = drawn + 1
                               /\ alerts' = alerts \cup {b}
                               /\ \/ b.original = 0
                                  \/ \E a \in escalation.overdue : b.original = a.id
           \/ \E a \in alerts, b \in Alert :
                 /\ alerts' = (alerts \ {a}) \cup {b}
                 /\ b.id = a.id /\ b.acknowledged
<1>t. TablesOK /\ EvaluationsOK /\ EscalationOK
  BY TypeParts
<1>1. ASSUME NEW e \in Evaluator, NEW r \in Rule, NEW severity \in Severity,
             Raise(e, r, severity)
      PROVE  \E b \in Alert : /\ b.id = drawn + 1 /\ drawn' = drawn + 1
                              /\ alerts' = alerts \cup {b} /\ b.original = 0
  <2>1. Fresh(r, severity) \in Alert
    BY <1>1, <1>t, FreshTyped DEF Raise
  <2>2. Fresh(r, severity).id = drawn + 1 /\ Fresh(r, severity).original = 0
    BY DEF Fresh
  <2>3. drawn' = drawn + 1 /\ alerts' = alerts \cup {Fresh(r, severity)}
    BY <1>1 DEF Raise, Fresh
  <2>4. QED
    BY <2>1, <2>2, <2>3
<1>2. ASSUME NEW e \in Evaluator, FireThresholdAlert(e) \/ FireRollback(e)
      PROVE  \E r \in Rule, severity \in Severity : Raise(e, r, severity)
  <2>1. CASE FireThresholdAlert(e)
    BY <2>1, RulesApart DEF FireThresholdAlert, Rule
  <2>2. CASE FireRollback(e)
    <3>1. rule[e] \in Rule
      BY <2>2, <1>t DEF FireRollback, EvaluationsOK
    <3>2. QED
      BY <2>2, <3>1 DEF FireRollback, Severity
  <2>3. QED
    BY <1>2, <2>1, <2>2
<1>3. CASE RaiseEscalated
  <2>1. PICK a \in escalation.overdue :
          alerts' = alerts \cup
             {[id |-> drawn + 1, rule |-> a.rule, severity |-> Ladder[escalation.rung + 1],
               at |-> escalation.began, acknowledged |-> FALSE,
               original |-> a.id, since |-> a.at]}
    BY <1>3 DEF RaiseEscalated
  <2> DEFINE copy == [id |-> drawn + 1, rule |-> a.rule,
                      severity |-> Ladder[escalation.rung + 1],
                      at |-> escalation.began, acknowledged |-> FALSE,
                      original |-> a.id, since |-> a.at]
  <2>2. TablesOK'
    BY <1>3, OtherTyped DEF TypeOK, TablesOK
  <2>3. copy \in Alert
    BY <2>1, <2>2 DEF TablesOK
  <2>4. copy.id = drawn + 1 /\ copy.original = a.id /\ alerts' = alerts \cup {copy}
    BY <2>1
  <2>5. drawn' = drawn + 1
    BY <1>3 DEF RaiseEscalated
  <2> HIDE DEF copy
  <2>6. QED
    BY <2>3, <2>4, <2>5
<1>4. CASE Acknowledge
  <2>1. PICK a \in alerts : alerts' = (alerts \ {a}) \cup {[a EXCEPT !.acknowledged = TRUE]}
    BY <1>4 DEF Acknowledge
  <2> DEFINE b == [a EXCEPT !.acknowledged = TRUE]
  <2>2. b \in Alert /\ b.id = a.id /\ b.acknowledged
    BY <1>t DEF TablesOK, Alert
  <2>3. alerts' = (alerts \ {a}) \cup {b}
    BY <2>1
  <2> HIDE DEF b
  <2>4. QED
    BY <2>2, <2>3
<1>5. CASE alerts' \subseteq alerts
  BY <1>5
<1>6. \/ alerts' \subseteq alerts \/ Acknowledge \/ RaiseEscalated
      \/ \E e \in Evaluator : FireThresholdAlert(e) \/ FireRollback(e)
  BY DEF Next, EvaluationStep, Begin, CheckCondition, RecordRollback, Recorded, Return, Fail,
         BeginEscalation, ReadOverdue, EndEscalation, Resolve, Purge, Tick, Restart, vars
<1>7. QED
  BY <1>1, <1>2, <1>3, <1>4, <1>5, <1>6

LEMMA NumberedStep == TypeOK /\ Numbered /\ [Next]_vars => Numbered'
<1> SUFFICES ASSUME TypeOK, Numbered, [Next]_vars PROVE Numbered'
  OBVIOUS
<1>0. drawn \in Nat /\ drawn' \in Nat /\ drawn <= drawn'
      /\ \A a \in alerts : a.id \in Nat
  BY DrawnGrows DEF TypeOK, Alert, Id
<1>1. CASE alerts' \subseteq alerts
  BY <1>0, <1>1 DEF Numbered
<1>2. ASSUME NEW b \in Alert, b.id = drawn + 1, drawn' = drawn + 1, alerts' = alerts \cup {b}
      PROVE  Numbered'
  <2>1. \A a \in alerts : a.id # b.id
    BY <1>0, <1>2 DEF Numbered
  <2>2. QED
    BY <1>0, <1>2, <2>1 DEF Numbered
<1>3. ASSUME NEW a \in alerts, NEW b \in Alert, b.id = a.id,
             alerts' = (alerts \ {a}) \cup {b}
      PROVE  Numbered'
  <2>1. \A c \in alerts \ {a} : c.id # b.id
    BY <1>3 DEF Numbered
  <2>2. QED
    BY <1>0, <1>3, <2>1 DEF Numbered
<1>4. QED
  BY <1>1, <1>2, <1>3, TableStep

LEMMA QuietStep == TypeOK /\ Numbered /\ Quiet /\ [Next]_vars => Quiet'
<1> SUFFICES ASSUME TypeOK, Numbered, Quiet, [Next]_vars PROVE Quiet'
  OBVIOUS
<1>t. TablesOK /\ EscalationOK
  BY TypeParts
<1>0. drawn \in Nat /\ drawn <= drawn'
  BY DrawnGrows
<1>1. ASSUME NEW r \in 1 .. 4, NEW began \in Time, NEW quiet \in SUBSET Id,
             ReadFrom(r, began, quiet), UNCHANGED <<alerts, drawn>>,
             \A id \in quiet : id <= drawn,
             \A a \in alerts : a.id \in quiet => a.acknowledged
      PROVE  Quiet'
  <2>1. /\ escalation'.quiet = quiet
        /\ escalation'.overdue = Overdue(Ladder[escalation'.rung], began)
    BY <1>1, <1>t, ReadTyped
  <2>2. \A a \in escalation'.overdue : a \in alerts /\ ~a.acknowledged
    BY <2>1 DEF Overdue
  <2>3. QED
    BY <1>1, <2>1, <2>2 DEF Quiet
<1>2. CASE BeginEscalation
  <2> DEFINE quiet == {a.id : a \in {b \in alerts : b.acknowledged}}
  <2>1. quiet \in SUBSET Id /\ now \in Time
    BY <1>t DEF TablesOK, Alert
  <2>2. \A id \in quiet : id <= drawn
    BY DEF Numbered
  <2>3. \A a \in alerts : a.id \in quiet => a.acknowledged
    BY DEF Numbered
  <2>4. ReadFrom(1, now, quiet) /\ UNCHANGED <<alerts, drawn>>
    BY <1>2 DEF BeginEscalation
  <2> HIDE DEF quiet
  <2>5. QED
    BY <1>1, <2>1, <2>2, <2>3, <2>4
<1>3. CASE ReadOverdue
  <2>1. escalation.began \in Time /\ escalation.quiet \in SUBSET Id
        /\ escalation.rung + 1 \in 1 .. 4
    BY <1>t DEF EscalationOK, Escalation
  <2>2. ReadFrom(escalation.rung + 1, escalation.began, escalation.quiet)
        /\ UNCHANGED <<alerts, drawn>>
    BY <1>3 DEF ReadOverdue
  <2>3. QED
    BY <1>1, <2>1, <2>2 DEF Quiet
<1>4. CASE escalation' = NoEscalation
  BY <1>4 DEF NoEscalation, Quiet
<1>5. CASE /\ escalation'.quiet = escalation.quiet
           /\ escalation'.overdue \subseteq escalation.overdue
  <2>1. \A id \in escalation'.quiet : id <= drawn'
    <3>1. escalation.quiet \subseteq Id
      BY <1>t DEF EscalationOK, Escalation
    <3>2. QED
      BY <1>0, <1>5, <3>1, DrawnGrows DEF Quiet, Id
  <2>2. \A a \in alerts' : a.id \in escalation.quiet => a.acknowledged
    <3>1. ASSUME NEW b \in Alert, b.id = drawn + 1 PROVE b.id \notin escalation.quiet
      <4>1. ~(drawn + 1 <= drawn)
        BY <1>0
      <4>2. QED
        BY <3>1, <4>1 DEF Quiet
    <3>2. QED
      BY <3>1, TableStep DEF Quiet
  <2>3. QED
    BY <1>5, <2>1, <2>2 DEF Quiet
<1>6. \/ BeginEscalation \/ ReadOverdue \/ escalation' = NoEscalation
      \/ /\ escalation'.quiet = escalation.quiet
         /\ escalation'.overdue \subseteq escalation.overdue
  <2>1. CASE RaiseEscalated
    BY <1>t, <2>1 DEF RaiseEscalated, EscalationOK, Escalation
  <2>2. CASE UNCHANGED escalation
    BY <2>2
  <2>3. QED
    BY <2>1, <2>2
    DEF Next, EvaluationStep, Begin, FireThresholdAlert, CheckCondition, FireRollback,
        RecordRollback, Recorded, Return, Fail, EndEscalation, Acknowledge, Purge,
        Resolve, Tick, Restart, vars
<1>7. QED
  BY <1>2, <1>3, <1>4, <1>5, <1>6

\* An alert acknowledged before an escalation run began is not escalated by that run, though
\* the run reads each rung anew while alerts are raised, acknowledged and purged.
THEOREM QuietNotEscalated == Spec => AcknowledgedNotEscalated
<1>1. Init => Numbered /\ Quiet
  BY DEF Init, Numbered, Quiet, NoEscalation
<1>2. TypeOK /\ Numbered /\ Quiet /\ [Next]_vars
         => \A a \in alerts' : a.id > drawn => a.original \notin escalation.quiet
  <2> SUFFICES ASSUME TypeOK, Numbered, Quiet, [Next]_vars, NEW a \in alerts', a.id > drawn
               PROVE  a.original \notin escalation.quiet
    OBVIOUS
  <2>1. drawn \in Nat /\ escalation.quiet \subseteq Id /\ \A b \in alerts : b.id \in Nat
    <3>1. TablesOK /\ EscalationOK
      BY TypeParts
    <3>2. QED
      BY <3>1, RulesApart DEF TablesOK, EscalationOK, Escalation, Alert, Id
  <2>2. \A b \in alerts : ~(b.id > drawn)
    BY <2>1 DEF Numbered
  <2>3. a.original = 0 \/ \E b \in escalation.overdue : a.original = b.id
    BY <2>2, TableStep
  <2>4. 0 \notin escalation.quiet
    BY <2>1 DEF Id
  <2>5. QED
    BY <2>3, <2>4 DEF Quiet
<1>3. Spec => [](TypeOK /\ Numbered /\ Quiet)
  BY <1>1, NumberedStep, QuietStep, AlertTyping, PTL DEF Spec
<1>4. QED
  BY <1>2, <1>3, PTL DEF Spec, AcknowledgedNotEscalated
=============================================================================
