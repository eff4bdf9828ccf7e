------------------------------- MODULE Replay -------------------------------
(***************************************************************************)
(* The replay of the stored decisions under a candidate configuration      *)
(* (ai_governance/replay.py) beside the live detector and engine (drift.py,*)
(* alerts.py): the replay ingests the decisions into fresh databases of    *)
(* its own, takes a baseline there, detects and evaluates; the live side   *)
(* keeps its table, the baseline it once froze and the cooldown of what    *)
(* it fired.                                                               *)
(*                                                                         *)
(* One category, one metric, one rollback condition.                       *)
(***************************************************************************)
EXTENDS Integers, FiniteSets, SequencesExt

CONSTANTS
    Kind,         \* kinds of decisions: what the patterns and the metrics look at
    Escalated,    \* the kinds that were escalated
    Configs,      \* [risky: the kinds a pattern matches, max: the threshold in percent,
                  \*  limit: the rollback condition, recent high-risk decisions above it]
    SandboxBaseline, SandboxWindow,   \* min_baseline_events, recent_window_size
    ReplayLimit,  \* the decisions a replay reads, from the oldest on
    MaxReplayed   \* bound: decisions in the table

ReplayAssumption == SandboxBaseline \in Nat /\ SandboxWindow \in Nat /\ ReplayLimit \in Nat

VARIABLES
    classified,   \* the decisions by timestamp, [kind, risky]: as they were classified
    config,       \* the live configuration
    frozen,       \* the stored baseline, or NoBaseline
    cooling,      \* the rollback condition has fired within its cooldown
    result,       \* the last replay, until anything changes: [live, candidate], a report each
    pure,         \* history: no configuration but this one classified a decision
    untouched     \* history: no decision the baseline was taken from was touched since,
                  \* and none came before them

replayVars == <<classified, config, frozen, cooling, result, pure, untouched>>

NoResult   == <<>>
NoBaseline == <<>>

ReplayInit ==
    /\ classified = <<>> /\ config \in Configs /\ frozen = NoBaseline /\ cooling = FALSE
    /\ result = NoResult /\ pure = TRUE /\ untouched = FALSE
-----------------------------------------------------------------------------
\* high_risk_escalation_rate of some rows, as a fraction; without high-risk ones 0.
Risky(rows) == Cardinality({i \in DOMAIN rows : rows[i].risky})
EscalationRate(rows) ==
    [part |-> Cardinality({i \in DOMAIN rows : rows[i].risky /\ rows[i].kind \in Escalated}),
     of   |-> IF Risky(rows) = 0 THEN 1 ELSE Risky(rows)]

\* Wrong version: the baseline is taken from the newest rows.
BaselineOfNewest(rows) ==
    IF Len(rows) < SandboxBaseline THEN NoBaseline
    ELSE EscalationRate(SubSeq(rows, Len(rows) - SandboxBaseline + 1, Len(rows)))

\* compute_baseline: of the oldest rows, if there are enough.
BaselineOf(rows) ==
    IF Len(rows) < SandboxBaseline THEN NoBaseline ELSE EscalationRate(SubSeq(rows, 1, SandboxBaseline))

\* detect: the newest rows against a baseline.
RecentRows(rows) ==
    SubSeq(rows, IF Len(rows) > SandboxWindow THEN Len(rows) - SandboxWindow + 1 ELSE 1, Len(rows))
Drifted(rows, b, cfg) ==
    /\ b # NoBaseline /\ Len(rows) >= SandboxWindow
    /\ LET r == EscalationRate(RecentRows(rows))
       IN 100 * (r.part * b.of - b.part * r.of) > cfg.max * b.of * r.of

\* evaluate: each violation is an alert, and so is the condition, unless it cools down.
TooRisky(rows, cfg) == Risky(RecentRows(rows)) > cfg.limit
ReportOf(rows, b, cooldown, cfg) ==
    LET violations == IF Drifted(rows, b, cfg) THEN 1 ELSE 0
    IN [violations |-> violations,
        alerts     |-> violations + IF TooRisky(rows, cfg) /\ ~cooldown THEN 1 ELSE 0]

\* What the live detector and engine would report now.
LiveReport == ReportOf(classified, frozen, cooling, config)

\* A sandbox: the decisions as the ingestion under cfg classifies them, a baseline of
\* their own, and an engine that has fired nothing yet.
Sandbox(rows, cfg) == [i \in DOMAIN rows |-> [kind |-> rows[i].kind, risky |-> rows[i].kind \in cfg.risky]]
SandboxReport(rows, cfg) ==
    ReportOf(Sandbox(rows, cfg), BaselineOf(Sandbox(rows, cfg)), FALSE, cfg)
-----------------------------------------------------------------------------
\* ingest: decisions bring a timestamp and need not come in its order.
Stored(k) == [kind |-> k, risky |-> k \in config.risky]
Classify(k, place) ==
    /\ Len(classified) < MaxReplayed
    /\ classified' = InsertAt(classified, place, Stored(k))
    /\ untouched' = (untouched /\ place > SandboxBaseline)
    /\ result' = NoResult
    /\ UNCHANGED <<config, frozen, cooling, pure>>

\* ingest of an event id that is there: the row is replaced, with the new timestamp.
ClassifyAgain(i, k, place) ==
    /\ classified' = InsertAt(RemoveAt(classified, i), place, Stored(k))
    /\ untouched' = (untouched /\ i > SandboxBaseline /\ place > SandboxBaseline)
    /\ result' = NoResult
    /\ UNCHANGED <<config, frozen, cooling, pure>>

\* purge_old_data: the baseline stays.
PurgeOldest(n) ==
    /\ classified' = SubSeq(classified, n + 1, Len(classified))
    /\ pure' = (pure \/ classified' = <<>>) /\ untouched' = FALSE
    /\ result' = NoResult
    /\ UNCHANGED <<config, frozen, cooling>>

\* A rollback of the policy or a reload: what is stored stays as it was classified.
ChangeConfig(cfg) ==
    /\ cfg # config /\ config' = cfg
    /\ pure' = (classified = <<>>)
    /\ result' = NoResult
    /\ UNCHANGED <<classified, frozen, cooling, untouched>>

\* POST /baseline/compute; with too few decisions the old one stays.
FreezeBaseline ==
    /\ IF BaselineOf(classified) = NoBaseline THEN UNCHANGED <<frozen, untouched>>
       ELSE frozen' = BaselineOf(classified) /\ untouched' = TRUE
    /\ result' = NoResult
    /\ UNCHANGED <<classified, config, cooling, pure>>

\* A live detection with its evaluation, and the end of the cooldown.
Evaluate ==
    /\ cooling' = (cooling \/ TooRisky(classified, config))
    /\ result' = NoResult
    /\ UNCHANGED <<classified, config, frozen, pure, untouched>>

CooledDown ==
    /\ cooling /\ cooling' = FALSE
    /\ result' = NoResult
    /\ UNCHANGED <<classified, config, frozen, pure, untouched>>

ReadBack == SubSeq(classified, 1, IF Len(classified) < ReplayLimit THEN Len(classified) ELSE ReplayLimit)

ReplayWith(candidate) ==
    /\ result' = [live |-> SandboxReport(ReadBack, config),
                  candidate |-> SandboxReport(ReadBack, candidate)]
    /\ UNCHANGED <<classified, config, frozen, cooling, pure, untouched>>

ReplayNext ==
    \/ \E k \in Kind, place \in 1 .. Len(classified) + 1 : Classify(k, place)
    \/ \E i \in 1 .. Len(classified), k \in Kind, place \in 1 .. Len(classified) : ClassifyAgain(i, k, place)
    \/ \E n \in 1 .. Len(classified) : PurgeOldest(n)
    \/ \E cfg \in Configs : ChangeConfig(cfg) \/ ReplayWith(cfg)
    \/ FreezeBaseline \/ Evaluate \/ CooledDown

ReplaySpec == ReplayInit /\ [][ReplayNext]_replayVars
-----------------------------------------------------------------------------
\* The live column of a replay is what the live detector and engine would report now,
\* although the one works on the stored rows and the stored baseline and the other
\* computes both anew, if the replay reads all rows, the live configuration classified
\* them, and those of the baseline are still the oldest; an alert that cools down is in
\* the column all the same.
LiveColumnIsLive ==
    result # NoResult /\ Len(classified) <= ReplayLimit /\ pure /\ untouched =>
        /\ result.live.violations = LiveReport.violations
        /\ result.live.alerts >= LiveReport.alerts
        /\ result.live.alerts > LiveReport.alerts => cooling
=============================================================================
