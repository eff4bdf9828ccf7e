------------------------------ MODULE Forecast ------------------------------
(***************************************************************************)
(* The forecasts of the drift scheduler.  Detections, of requests and of   *)
(* the scheduler's cycles, store snapshots of a metric and judge it by the *)
(* rules that watch it (drift.py); a cycle goes on to fit a line to the    *)
(* snapshots (trend.py), extrapolates it to the threshold (forecast.py)    *)
(* and announces a breach to come, unless it did so lately (scheduler.py). *)
(*                                                                         *)
(* One metric of one category.  A rule is the category's own or one for    *)
(* all categories ("*").  A detection judges by every rule, an own one     *)
(* against the category's baseline and one for all against theirs; a       *)
(* forecast is for the last own rule, or the last for all where there is   *)
(* none, always against the category's baseline, and only if some rule, of *)
(* this metric or another, names the category.                             *)
(*                                                                         *)
(* Values are integers, in hundredths, time is in hours, fractions are     *)
(* pairs of integers.                                                      *)
(***************************************************************************)
EXTENDS Integers, SequencesExt

CONSTANTS
    Values,         \* the values the metric takes
    Baselines,      \* the values a baseline takes
    Missing,        \* no baseline is stored
    Setups,         \* the configurations to try: [rules : Seq(Rule), named : BOOLEAN]
    Gaps,           \* the hours between two snapshots
    Horizon, Realert,   \* in hours
    HistoryLimit,       \* the snapshots the trend looks at
    LastHour            \* bound: the hours of a behaviour

Rule == [wild : BOOLEAN, direction : {"increase", "decrease", "either"}, max : Nat \ {0}]

\* The limit is 30 in the code.  An own rule names its category.
ForecastAssumption ==
    /\ Values \subseteq Int /\ Baselines \subseteq Int /\ Missing \notin Int
    /\ \A s \in Setups : /\ s.rules \in Seq(Rule) /\ s.named \in BOOLEAN
                         /\ s.named \/ \A i \in DOMAIN s.rules : s.rules[i].wild
    /\ Gaps \subseteq Nat \ {0} /\ Horizon \in Nat /\ Realert \in Nat
    /\ HistoryLimit \in Nat /\ HistoryLimit >= 4 /\ LastHour \in Nat

VARIABLES
    setup,
    ownBaseline, starBaseline,  \* of the category and of all of them, or Missing
    hour,
    history,    \* the snapshots, oldest first: [at, value]
    violated,   \* the rules in whose violations the metric was at the last detection
    stage,      \* of the scheduler's cycle: "idle" or "judged"
    forecast,   \* of the last forecast step: [slope, hours], or NoForecast
    trend,      \* of the last forecast step, "none" if the metric is left out
    notified,   \* when the scheduler announced a forecast last, or NotNotified
    announced,  \* history: the same, that no restart forgets
    looked      \* history: how many of the snapshots the last forecast step saw, 0 when
                \* it saw others or another baseline

forecastVars == <<setup, ownBaseline, starBaseline, hour, history, violated, stage,
                  forecast, trend, notified, announced, looked>>

NotNotified == -1
NoForecast == [slope |-> <<0, 1>>, hours |-> <<0, 0>>]

ForecastInit ==
    /\ setup \in Setups /\ ownBaseline = Missing /\ starBaseline = Missing
    /\ hour = 0 /\ history = <<>> /\ violated = {} /\ stage = "idle"
    /\ forecast = NoForecast /\ trend = "none"
    /\ notified = NotNotified /\ announced = NotNotified /\ looked = 0
-----------------------------------------------------------------------------
Magnitude(n) == IF n < 0 THEN -n ELSE n

SumOf(s) ==
    LET upTo[i \in 0 .. Len(s)] == IF i = 0 THEN 0 ELSE upTo[i - 1] + s[i]
    IN upTo[Len(s)]

\* _linreg: the slope of the least squares line as <<numerator, denominator>>.
Slope(h) ==
    LET x  == SumOf([i \in DOMAIN h |-> h[i].at])
        y  == SumOf([i \in DOMAIN h |-> h[i].value])
        xx == SumOf([i \in DOMAIN h |-> h[i].at * h[i].at])
        xy == SumOf([i \in DOMAIN h |-> h[i].at * h[i].value])
        below == Len(h) * xx - x * x
    IN IF Len(h) < 2 \/ below = 0 THEN <<0, 1>> ELSE <<Len(h) * xy - x * y, below>>

\* The snapshots the trend looks at.
TrendWindow(h) == SubSeq(h, IF Len(h) > HistoryLimit THEN Len(h) - HistoryLimit + 1 ELSE 1, Len(h))

\* By how much the second half of the snapshots is steeper than the first.
Acceleration(h) ==
    LET a == Slope(SubSeq(h, 1, Len(h) \div 2))
        b == Slope(SubSeq(h, Len(h) \div 2 + 1, Len(h)))
    IN <<b[1] * a[2] - a[1] * b[2], a[2] * b[2]>>

\* _SLOPE_RISING_THRESHOLD and _ACCEL_THRESHOLD, 0.005 and 0.0005, for values in hundredths.
Classified(slope, accel) ==
    LET steep(sign) == 2 * sign * slope[1] > slope[2]
        grows(sign) == 20 * sign * accel[1] > accel[2]
    IN IF steep(1) THEN IF grows(1) THEN "accelerating" ELSE "rising"
       ELSE IF steep(-1) /\ grows(-1) THEN "recovering" ELSE "stable"

TrendOf(h) ==
    IF ~setup.named \/ Len(TrendWindow(h)) < 3 THEN "none"
    ELSE Classified(Slope(TrendWindow(h)), Acceleration(TrendWindow(h)))

\* Whether detect reports a violation of a rule.
Breached(rule, delta) ==
    \/ rule.direction # "decrease" /\ delta > rule.max
    \/ rule.direction # "increase" /\ -delta > rule.max

\* Wrong version: the direction is judged by where the metric is, not where it goes.
WillBreachAnyhow(rule, slope, delta) ==
    CASE rule.direction = "increase" -> slope # 0 /\ delta > 0
      [] rule.direction = "decrease" -> slope # 0 /\ delta < 0
      [] OTHER -> slope # 0

WillBreach(rule, slope, delta) ==
    CASE rule.direction = "increase" -> slope > 0 /\ delta > 0
      [] rule.direction = "decrease" -> slope < 0 /\ delta < 0
      [] OTHER -> slope # 0

\* The rule a forecast is for: the maps of thresholds keep the last of each category.
OwnRules == {i \in DOMAIN setup.rules : ~setup.rules[i].wild}
Foreseen == IF OwnRules # {} THEN Max(OwnRules) ELSE Max(DOMAIN setup.rules)
ForeseenRule == setup.rules[Foreseen]

\* forecast, for the trend over the snapshots h.  The hours are remaining / |slope|.
ForecastOf(h) ==
    LET line  == Slope(TrendWindow(h))
        delta == Last(h).value - ownBaseline
        left  == ForeseenRule.max - Magnitude(delta)
        hours == <<left * line[2], Magnitude(line[1])>>
    IN IF /\ setup.named /\ Len(TrendWindow(h)) >= 3
          /\ ownBaseline # Missing /\ setup.rules # <<>>
          /\ left > 0 /\ WillBreach(ForeseenRule, line[1], delta)
          /\ hours[1] <= Horizon * hours[2]
       THEN [slope |-> line, hours |-> hours] ELSE NoForecast
-----------------------------------------------------------------------------
\* compute_baseline, one row at a time.
StoreBaseline ==
    /\ \/ ownBaseline' \in Baselines /\ looked' = 0 /\ UNCHANGED starBaseline
       \/ starBaseline' \in Baselines /\ UNCHANGED <<ownBaseline, looked>>
    /\ UNCHANGED <<setup, hour, history, violated, stage, forecast, trend, notified, announced>>

\* detect: a snapshot is stored if there are recent events to measure.  A rule is passed
\* over without its baseline, or if it asks for more events or more samples than there are.
JudgedAgainst(i) == IF setup.rules[i].wild THEN starBaseline ELSE ownBaseline
Detection ==
    /\ \/ \E v \in Values, gap \in Gaps :
            /\ hour + gap <= LastHour /\ hour' = hour + gap
            /\ history' = Append(history, [at |-> hour', value |-> v])
            /\ \E passed \in SUBSET DOMAIN setup.rules :
                 violated' = {i \in DOMAIN setup.rules \ passed :
                                 /\ JudgedAgainst(i) # Missing
                                 /\ Breached(setup.rules[i], v - JudgedAgainst(i))}
       \/ violated' = {} /\ UNCHANGED <<hour, history>>
    /\ UNCHANGED <<setup, ownBaseline, starBaseline, forecast, trend, notified, announced, looked>>

\* GET /drift and the dashboards detect; only the scheduler looks ahead.
RequestDetects == Detection /\ UNCHANGED stage
CycleDetects   == stage = "idle" /\ stage' = "judged" /\ Detection

\* _run_forecast_step, over the snapshots that are there by then.
ForecastStep ==
    /\ stage = "judged" /\ stage' = "idle"
    /\ forecast' = ForecastOf(history) /\ trend' = TrendOf(history) /\ looked' = Len(history)
    /\ IF forecast' # NoForecast /\ (notified = NotNotified \/ hour - notified >= Realert)
       THEN notified' = hour /\ announced' = hour
       ELSE UNCHANGED <<notified, announced>>
    /\ UNCHANGED <<setup, ownBaseline, starBaseline, hour, history, violated>>

\* The cycle fails after the detection, or the step does and is passed over.
ForecastFails ==
    /\ stage = "judged" /\ stage' = "idle"
    /\ UNCHANGED <<setup, ownBaseline, starBaseline, hour, history, violated,
                   forecast, trend, notified, announced, looked>>

\* purge_old_snapshots.
PurgeSnapshots ==
    /\ history # <<>> /\ history' = Tail(history) /\ looked' = 0
    /\ UNCHANGED <<setup, ownBaseline, starBaseline, hour, violated, stage,
                   forecast, trend, notified, announced>>

\* What has been announced is remembered in memory alone.
ForecasterRestarts ==
    /\ stage' = "idle" /\ notified' = NotNotified
    /\ UNCHANGED <<setup, ownBaseline, starBaseline, hour, history, violated,
                   forecast, trend, announced, looked>>

ForecastNext ==
    \/ StoreBaseline \/ RequestDetects \/ CycleDetects \/ ForecastStep \/ ForecastFails
    \/ PurgeSnapshots \/ ForecasterRestarts

ForecastSpec == ForecastInit /\ [][ForecastNext]_forecastVars
-----------------------------------------------------------------------------
\* The last forecast step saw the snapshots that are there.
UpToDate == history # <<>> /\ looked = Len(history)

\* A forecast for a directed threshold is where the line arrives: after its hours, and
\* within the horizon, the value is at the edge the threshold watches.
LandsOnThreshold ==
    UpToDate /\ forecast # NoForecast /\ ForeseenRule.direction # "either" =>
        LET delta == Last(history).value - ownBaseline
            edge  == IF ForeseenRule.direction = "increase" THEN ForeseenRule.max ELSE -ForeseenRule.max
        IN /\ delta * forecast.slope[2] * forecast.hours[2] + forecast.slope[1] * forecast.hours[1]
                = edge * forecast.slope[2] * forecast.hours[2]
           /\ forecast.hours[1] <= Horizon * forecast.hours[2]

\* A metric that has moved on a straight line since its first snapshot does not break its
\* category's own rule unannounced: if a forecast step saw all snapshots but the last,
\* three or more of them, the metric was off the baseline by then and the edge was within
\* the horizon, the breach was announced, no longer before the last of the snapshots seen
\* than forecasts are repeated.
Straight(h) ==
    \A i \in 2 .. Len(h) - 1 :
        (h[i].value - h[1].value) * (h[Len(h)].at - h[1].at)
            = (h[Len(h)].value - h[1].value) * (h[i].at - h[1].at)
BreachAnnounced ==
    LET before == Front(history)
        delta  == Last(before).value - ownBaseline
        step   == Last(history).value - Last(before).value
        gap    == Last(history).at - Last(before).at
        rest   == ForeseenRule.max - Magnitude(delta)
    IN /\ violated # {} /\ Foreseen \in violated \cap OwnRules
       /\ Len(history) >= 4 /\ looked = Len(history) - 1 /\ Straight(history)
       /\ delta * step > 0 /\ rest > 0 /\ rest * gap <= Horizon * Magnitude(step)
       => announced # NotNotified /\ Last(before).at - announced <= Realert

\* A metric on a straight line is not said to speed up, and one that is forecast to rise
\* beyond its threshold is not said to recover.  Of three snapshots the first half is
\* one, without a slope: there every rise is called accelerating.
TrendFits ==
    UpToDate =>
        /\ setup.named /\ Len(history) >= 4 /\ Straight(TrendWindow(history))
           => trend \in {"rising", "stable"}
        /\ forecast # NoForecast /\ ForeseenRule.direction = "increase" => trend # "recovering"

ForecastIsSound == LandsOnThreshold /\ BreachAnnounced /\ TrendFits

\* "Uses the linear regression slopes from TrendAnalyzer to extrapolate when each metric
\* will cross its configured max_delta." (forecast.py:3-4): a metric that breaks a rule on
\* a straight line, whichever rule it is, was announced, if all baselines are stored, a
\* forecast step saw all snapshots but the last and the breach was within the horizon.
EveryBreachAnnounced ==
    LET before == Front(history)
        step   == Last(history).value - Last(before).value
        gap    == Last(history).at - Last(before).at
    IN /\ ownBaseline # Missing
       /\ Len(history) >= 4 /\ looked = Len(history) - 1 /\ Straight(history)
       => \A i \in violated :
            LET delta == Last(before).value - JudgedAgainst(i)
                rest  == setup.rules[i].max - Magnitude(delta)
            IN delta * step > 0 /\ rest > 0 /\ rest * gap <= Horizon * Magnitude(step)
               => announced # NotNotified
=============================================================================
