------------------------------ MODULE Jamming ------------------------------
(***************************************************************************)
(* Finding a jammer together: SimRunner._ew_tick and the bearing reports   *)
(* of _process_messages (sim/runner.py), ThreatDetector (ew/detection.py)  *)
(* and what ECMState keeps (ew/ecm.py).                                    *)
(*                                                                         *)
(* Who is in reach of a jammer and where, which reports get lost or late   *)
(* and whether bearings intersect are inputs.                              *)
(***************************************************************************)
EXTENDS Integers, FiniteSets

CONSTANTS
    Scouts,     \* the vehicles, all with a detector
    Places,     \* where they may be when they sense a jammer
    Lifetime,   \* estimate_ttl, in steps
    MaxLag,     \* steps a report may be under way
    Announced,  \* the step in which the scenario places its jammers, if not at once
    LastStep    \* bound: the steps of a behaviour

JammingAssumption == Lifetime \in Nat

VARIABLES
    tick,       \* "ew", "messages", "time"
    elapsed,    \* steps so far
    jammers,    \* whether there are any: _jammers
    driving,    \* operational vehicles
    readings,   \* bearing_estimates of each vehicle: [from, place, at]
    reports,    \* bearing reports under way, [to, about, sent]
    hopping,    \* the vehicles with frequency hopping and power boost
    located,    \* NotLocated, or who found the jammer, when, and the readings used
    sensed      \* history: who has sensed a jammer, where and when

jamming == <<tick, elapsed, jammers, driving, readings, reports, hopping, located, sensed>>

NotLocated == [used |-> {}]

JammingInit ==
    /\ tick = "ew" /\ elapsed = 0 /\ jammers = FALSE /\ driving = Scouts
    /\ readings = [v \in Scouts |-> {}] /\ reports = {}
    /\ hopping = {} /\ located = NotLocated /\ sensed = {}

\* _handle_scenario_events: once, at the start or later on.
PlaceJammers ==
    /\ tick = "ew" /\ ~jammers /\ elapsed \in {0, Announced}
    /\ jammers' = TRUE
    /\ UNCHANGED <<tick, elapsed, driving, readings, reports, hopping, located, sensed>>

\* try_triangulate: what is too old goes first, two of the others are enough.
Fresh(known) == {r \in known : r.at >= elapsed - Lifetime}

(***************************************************************************)
(* _ew_tick: each vehicle that senses a jammer records a bearing, reports  *)
(* it to those it reaches and tries to triangulate, which prunes what it   *)
(* keeps.  The others do nothing, and what they were told stays, old or    *)
(* not.  The first location anybody finds is the only one.                 *)
(***************************************************************************)
EwTick ==
    /\ tick = "ew"
    /\ \E sensing \in IF jammers THEN SUBSET driving ELSE {{}} :
       \E where \in [sensing -> Places], heard \in SUBSET (sensing \X driving),
          clear \in BOOLEAN :
         LET own(v) == [from |-> v, place |-> where[v], at |-> elapsed]
             kept(v) == Fresh(readings[v] \union {own(v)})
             finders == {v \in sensing : clear /\ Cardinality(kept(v)) >= 2}
         IN /\ \A v, w \in sensing : v # w => where[v] # where[w]
            /\ \A p \in heard : p[1] # p[2]
            /\ readings' = [v \in Scouts |-> IF v \in sensing THEN kept(v) ELSE readings[v]]
            /\ reports' = reports \union
                   {[to |-> p[2], about |-> own(p[1]), sent |-> elapsed] : p \in heard}
            /\ hopping' = hopping \union sensing
            /\ sensed' = sensed \union {own(v) : v \in sensing}
            /\ IF located # NotLocated \/ finders = {} THEN UNCHANGED located
               ELSE \E v \in finders : located' = [by |-> v, at |-> elapsed, used |-> kept(v)]
    /\ tick' = "messages"
    /\ UNCHANGED <<elapsed, jammers, driving>>

\* Wrong version: a reading is taken to be as recent as the report about it.
TakenOnArrival(m) == [m.about EXCEPT !.at = elapsed]

\* _process_messages: the reading keeps the time and the place of the bearing.
Taken(m) == m.about

\* CommsNetwork.tick and _process_messages.  The mail of a vehicle that stopped is
\* never read.
Messages ==
    /\ tick = "messages"
    /\ \E arriving \in SUBSET reports :
         /\ \A m \in reports \ arriving : elapsed - m.sent < MaxLag
         /\ readings' = [v \in Scouts |-> readings[v] \union
                {Taken(m) : m \in {n \in arriving : n.to = v /\ v \in driving}}]
         /\ reports' = reports \ arriving
    /\ tick' = "time"
    /\ UNCHANGED <<elapsed, jammers, driving, hopping, located, sensed>>

\* The rest of the step: vehicles move on, wait, or stop for good.
TimeStep ==
    /\ tick = "time" /\ elapsed < LastStep
    /\ elapsed' = elapsed + 1
    /\ \E stopped \in SUBSET driving : driving' = driving \ stopped
    /\ tick' = "ew"
    /\ UNCHANGED <<jammers, readings, reports, hopping, located, sensed>>

JammingNext == PlaceJammers \/ EwTick \/ Messages \/ TimeStep

JammingSpec == JammingInit /\ [][JammingNext]_jamming
-----------------------------------------------------------------------------
\* A jammer is located from what vehicles have really sensed, where and when they did,
\* and within the lifetime, although reports are late, arrive out of order and pile up
\* with vehicles that sense nothing themselves; the vehicle that locates it adds a
\* bearing of its own to at least one more.
EvidenceWasSensed ==
    located # NotLocated =>
        /\ located.used \subseteq sensed
        /\ \A r \in located.used : located.at - r.at <= Lifetime
        /\ \E own, other \in located.used :
              own # other /\ own.from = located.by /\ own.at = located.at

\* "Requires at least 2 estimates from distinct positions." (ew/detection.py:103)
LocatedFromDistinctPositions ==
    located # NotLocated => \E r, s \in located.used : r.place # s.place
=============================================================================
