-------------------------------- MODULE Drift --------------------------------
(***************************************************************************)
(* Drift detection (ai_governance/drift.py) over the table of decisions:   *)
(* compute_baseline freezes the rate of the oldest decisions, detect       *)
(* compares that of the newest ones with it.  Every query and every upsert *)
(* is a transaction of its own, so requests that ingest, compute and       *)
(* detect interleave between them.                                         *)
(*                                                                         *)
(* The metrics are one, resolution_rate: a decision resolves its case or   *)
(* not.  What the snapshots of a detection are for is in Forecast.         *)
(***************************************************************************)
EXTENDS Integers, FiniteSets, SequencesExt

CONSTANTS
    CaseCategory,
    DriftThresholds,    \* sequence of [category, direction, max in percent,
                        \*              samples: min_baseline_samples, window: recent_window]
    MinBaseline,        \* min_baseline_events
    RecentWindow,       \* recent_window_size
    BaselineFetch,      \* 20 times MinBaseline: the decisions compute_baseline looks at
    RecentFetch,        \* 6 times RecentWindow: the decisions detect looks at
    MaxDecisions        \* bound: decisions in the table

Wildcard == "*"
DriftThreshold == [category : CaseCategory \union {Wildcard}, direction : {"increase", "decrease", "either"},
                   max : Nat \ {0}, samples : Nat \ {0}, window : Nat \ {0}]

\* The configuration asks for a change greater than zero, five samples, ten decisions in a
\* window.
DriftAssumption ==
    /\ Wildcard \notin CaseCategory /\ DriftThresholds \in Seq(DriftThreshold)
    /\ {MinBaseline, RecentWindow} \subseteq Nat \ {0} /\ {BaselineFetch, RecentFetch} \subseteq Nat

NoRate == [good |-> 0, of |-> 0]      \* no baseline, or no decisions

VARIABLES
    decisions,  \* the table in the order of the timestamps: [category, good]
    baselines,  \* [good, of]: the rate as a fraction
    computing,  \* the upserts compute_baseline has still to do: [category, rate, place]
    detecting,  \* "idle", "judging", "reported"
    windows,    \* what detect has read: the rate of the newest decisions of each category
    pending,    \* the pairs <<threshold, category>> detect has still to judge
    violations, \* the categories found to have drifted
    tidy,       \* history: decisions came in order, once each, and none was purged
    steady,     \* history: every decision ever ingested was good
    expected    \* history: the categories a detection under way must find

ingested  == <<decisions, tidy, steady>>
detection == <<detecting, windows, pending, violations, expected>>
driftVars == <<ingested, baselines, computing, detection>>

DriftInit ==
    /\ decisions = <<>> /\ tidy = TRUE /\ steady = TRUE
    /\ baselines = [c \in CaseCategory \union {Wildcard} |-> NoRate]
    /\ computing = {}
    /\ detecting = "idle" /\ windows = [c \in CaseCategory |-> NoRate]
    /\ pending = {} /\ violations = {} /\ expected = {}
-----------------------------------------------------------------------------
\* Sets of decisions, by their places in the table.
EarliestOf(S, n) == {i \in S : Cardinality({j \in S : j <= i}) <= n}
LatestOf(S, n)   == {i \in S : Cardinality({j \in S : j >= i}) <= n}
Of(S, c)         == {i \in S : decisions[i].category = c}
Rate(S)          == [good |-> Cardinality({i \in S : decisions[i].good}), of |-> Cardinality(S)]

Oldest == EarliestOf(DOMAIN decisions, BaselineFetch)
Newest == LatestOf(DOMAIN decisions, RecentFetch)

\* INSERT OR REPLACE: a decision that is sent again replaces the row it had.  Its
\* timestamp, the sender's, puts it anywhere in the order.  (Bound: of an agent that
\* has gone bad, only decisions in order; nothing is claimed about the others.)
Ingest ==
    \E row \in [category : CaseCategory, good : BOOLEAN] :
    \E rest \in {decisions} \union {RemoveAt(decisions, i) : i \in DOMAIN decisions} :
    \E place \in 1 .. Len(rest) + 1 :
        /\ Len(rest) < MaxDecisions
        /\ decisions' = InsertAt(rest, place, row)
        /\ tidy' = (tidy /\ rest = decisions /\ place = Len(rest) + 1)
        /\ steady' = (steady /\ row.good)
        /\ tidy' \/ steady'
        /\ UNCHANGED <<baselines, computing, detection>>

\* purge_old_decisions
Purge ==
    /\ \E n \in DOMAIN decisions : decisions' = SubSeq(decisions, n + 1, Len(decisions))
    /\ tidy' = FALSE /\ steady
    /\ UNCHANGED <<steady, baselines, computing, detection>>

\* Wrong version: the baseline taken from the newest decisions.
BaselineWindowNewest(c) == LatestOf(Of(DOMAIN decisions, c), MinBaseline)

BaselineWindow(c) == EarliestOf(Of(Oldest, c), MinBaseline)

(***************************************************************************)
(* compute_baseline for the categories asked for: one query, then an       *)
(* upsert for each category with enough decisions, in the order in which   *)
(* they appear, and one for all those decisions together.                  *)
(***************************************************************************)
Upserts(asked) ==
    LET enough == {c \in asked : Cardinality(BaselineWindow(c)) >= MinBaseline}
        used   == UNION {BaselineWindow(c) : c \in enough}
    IN {[category |-> c, rate |-> Rate(BaselineWindow(c)), place |-> Min(BaselineWindow(c))] : c \in enough}
       \union (IF used = {} THEN {}
               ELSE {[category |-> Wildcard, rate |-> Rate(used), place |-> Len(decisions) + 1]})

ComputeBaseline ==
    /\ computing = {}
    /\ \E asked \in (SUBSET CaseCategory) \ {{}} : computing' = Upserts(asked)
    /\ UNCHANGED <<ingested, baselines, detection>>

UpsertBaseline ==
    /\ \E u \in computing :
         /\ \A other \in computing : u.place <= other.place
         /\ baselines' = [baselines EXCEPT ![u.category] = u.rate]
         /\ computing' = computing \ {u}
    /\ UNCHANGED <<ingested, detection>>

\* A threshold on "*" is judged for every category that has decisions.
Judgements(w) ==
    {j \in (DOMAIN DriftThresholds) \X CaseCategory :
        w[j[2]] # NoRate /\ DriftThresholds[j[1]].category \in {Wildcard, j[2]}}

\* All bad lately, all good at first, and there is a baseline to compare with.
AllGoodAtFirst(c) == \A i \in EarliestOf(Of(DOMAIN decisions, c), MinBaseline) : decisions[i].good
Sharp(t, c) == t.category = c /\ t.direction # "increase" /\ t.max < 100
Turned(w) ==
    {c \in CaseCategory :
        /\ tidy /\ w[c].good = 0 /\ AllGoodAtFirst(c)
        /\ \E t \in DOMAIN DriftThresholds :
              /\ Sharp(DriftThresholds[t], c)
              /\ baselines[c].of >= DriftThresholds[t].samples /\ w[c].of >= DriftThresholds[t].window}

BeginDetect ==
    /\ detecting = "idle"
    /\ windows' = [c \in CaseCategory |-> Rate(LatestOf(Of(Newest, c), RecentWindow))]
    /\ pending' = Judgements(windows')
    /\ expected' = Turned(windows')
    /\ detecting' = IF pending' = {} THEN "reported" ELSE "judging"
    /\ UNCHANGED <<ingested, baselines, computing, violations>>

\* delta in units of 1 / (recent.of * base.of)
Delta(recent, base) == recent.good * base.of - base.good * recent.of
Exceeds(amount, t, recent, base) == 100 * amount > t.max * (recent.of * base.of)

Violated(t, recent, base) ==
    /\ recent.of >= t.window
    /\ base # NoRate /\ base.of >= t.samples
    /\ LET d == Delta(recent, base)
       IN \/ t.direction # "decrease" /\ Exceeds(d, t, recent, base)
          \/ t.direction # "increase" /\ Exceeds(-d, t, recent, base)

\* One threshold, in their order, for one category; the baseline is the one stored by now.
Judge ==
    /\ detecting = "judging"
    /\ \E t \in DOMAIN DriftThresholds, c \in CaseCategory :
         /\ <<t, c>> \in pending /\ \A other \in pending : t <= other[1]
         /\ pending' = pending \ {<<t, c>>}
         /\ violations' = IF Violated(DriftThresholds[t], windows[c], baselines[DriftThresholds[t].category])
                          THEN violations \union {c} ELSE violations
    /\ detecting' = IF pending' = {} THEN "reported" ELSE "judging"
    /\ UNCHANGED <<ingested, baselines, computing, windows, expected>>

\* The report goes to the caller.
Report ==
    /\ detecting = "reported"
    /\ detecting' = "idle" /\ windows' = [c \in CaseCategory |-> NoRate]
    /\ violations' = {} /\ expected' = {}
    /\ UNCHANGED <<ingested, baselines, computing, pending>>

DriftNext == Ingest \/ Purge \/ ComputeBaseline \/ UpsertBaseline \/ BeginDetect \/ Judge \/ Report

DriftSpec == DriftInit /\ [][DriftNext]_driftVars
-----------------------------------------------------------------------------
\* A detection finds a category that has turned from all good to all bad, however
\* often the baseline was computed and is being computed meanwhile, provided the
\* decisions came in order and stayed; and it finds nothing in an agent that never
\* made a bad decision, whatever was resent, reordered or purged.
DetectionIsRight ==
    detecting = "reported" =>
        /\ expected \subseteq violations
        /\ steady => violations = {}
=============================================================================
