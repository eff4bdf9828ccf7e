----------------------------- MODULE Collisions -----------------------------
(***************************************************************************)
(* Who gives way after repeated collisions: SimRunner._detect_collisions   *)
(* and _check_collision_replan (sim/runner.py), the same in                *)
(* MultiConvoyRunner.  A first pass over the vehicles chooses what each    *)
(* does, a second carries it out one vehicle after the other.              *)
(*                                                                         *)
(* A step of the model is one collision cooldown (0.5 s), in which a pair  *)
(* counts once.  Which pairs collide, who is near its goal and who stops   *)
(* are inputs.  The routes that replanning sets are in module Routes.      *)
(***************************************************************************)
EXTENDS Integers, FiniteSetsExt, Functions

CONSTANTS
    Parties,        \* how many vehicles, numbered from 0 in the order of self.vehicles
    Window,         \* _collision_window_duration, all in steps of the model
    Threshold,      \* _collision_replan_threshold
    PairThreshold,  \* the 3 collisions with one partner
    ReplanCooldown, \* _replan_cooldown
    HoldTime,       \* 8 s
    BrakeTime,      \* 3 s
    Halting         \* bound: the vehicles that may stop

Party     == 0 .. Parties - 1
NoPartner == -1
Never     == ReplanCooldown + 1      \* last_replan_time -999, or as long ago

CollisionsAssumption ==
    /\ Parties \in Nat \ {0} /\ Threshold \in Nat \ {0} /\ PairThreshold \in Nat \ {0}
    /\ Window \in Nat \ {0} /\ ReplanCooldown \in Nat
    /\ HoldTime \in Nat \ {0} /\ BrakeTime \in Nat \ {0}
    /\ Halting \subseteq Party

VARIABLES
    round,       \* "detect", "replan", "pass"
    operational, \* the vehicles that are
    window,      \* _collision_window: how many collisions of each age, the recent ones
    partners,    \* _collision_partners: counts, up to PairThreshold
    replanned,   \* t - _last_replan_time, up to Never
    hold,        \* what is left of _hold_position_until
    reverse,     \* the vehicles with a _hold_reverse_target
    waitsFor     \* history: the partner for whom the vehicle holds, or NoPartner

collisionVars == <<round, operational, window, partners, replanned, hold, reverse, waitsFor>>

None0 == [u \in Party |-> 0]
Clear == [a \in 0 .. Window - 1 |-> 0]

CollisionsInit ==
    /\ round = "detect" /\ operational = Party
    /\ window = [v \in Party |-> Clear]
    /\ partners = [v \in Party |-> None0]
    /\ replanned = [v \in Party |-> Never]
    /\ hold = [v \in Party |-> 0]
    /\ reverse = {}
    /\ waitsFor = [v \in Party |-> NoPartner]
-----------------------------------------------------------------------------
\* The counts never expire.  They are kept up to the threshold, and which of several
\* partners that have reached it counts most is left open.
Counted(n) == IF n = PairThreshold THEN n ELSE n + 1

\* Every pair that collides counts once for both; one of the two is operational.
DetectCollisions ==
    /\ round = "detect"
    /\ \E hits \in SUBSET {p \in Party \X Party :
                             p[1] < p[2] /\ {p[1], p[2]} \cap operational # {}} :
         LET hit(v, u) == <<v, u>> \in hits \/ <<u, v>> \in hits
         IN /\ window' = [v \in Party |->
                   [window[v] EXCEPT ![0] = Cardinality({u \in Party : hit(v, u)})]]
            /\ partners' = [v \in Party |-> [u \in Party |->
                   IF hit(v, u) THEN Counted(partners[v][u]) ELSE partners[v][u]]]
    /\ round' = "replan"
    /\ UNCHANGED <<operational, replanned, hold, reverse, waitsFor>>

\* The first pass looks at the vehicles that do not hold.  It prunes their windows;
\* those of the others are pruned before they are looked at again.
Acts(v) == /\ v \in operational /\ hold[v] = 0
           /\ FoldFunction(+, 0, window[v]) >= Threshold
           /\ replanned[v] > ReplanCooldown

Acting == {v \in Party : Acts(v)}

\* max(partners, key=partners.get): any of the partners counted most often.
TopPartners(v) == {u \in Party : partners[v][u] = Max({partners[v][w] : w \in Party})}

\* Wrong version: both of a pair hold.
ChoiceUnordered(v, top, near) ==
    IF partners[v][top] < PairThreshold THEN "normal_replan"
    ELSE IF near THEN "brake_hold" ELSE "hold"

Choice(v, top, near) ==
    IF partners[v][top] < PairThreshold THEN "normal_replan"
    ELSE IF v < top THEN "pair_replan"
    ELSE IF near THEN "brake_hold" ELSE "hold"

\* Wrong version: the later vehicle is visited first.
VisitedBackwards(u, v) == u > v

\* The order in which the second pass visits the vehicles that act.
VisitedBefore(u, v) == u < v

\* Whom the vehicles that brake let replan at once, unless its own turn comes later.
Freed(braking, top) ==
    {u \in {top[v] : v \in braking} :
        \E v \in braking : top[v] = u /\ (u \in DOMAIN top => VisitedBefore(u, v))}

\* The second pass.  But for a brake hold a vehicle writes only what is its own.  A normal
\* replan keeps the counts.
CarryOut(does, top) ==
    LET acting  == DOMAIN does
        holding == {v \in acting : does[v] = "hold"}
        braking == {v \in acting : does[v] = "brake_hold"}
        recount == {v \in acting : does[v] # "normal_replan"}
        freed   == Freed(braking, top)
    IN /\ replanned' = [v \in Party |-> IF v \in freed THEN Never
                                        ELSE IF v \in acting THEN 0 ELSE replanned[v]]
       /\ hold' = [v \in Party |-> IF v \in holding THEN HoldTime
                                   ELSE IF v \in braking THEN BrakeTime ELSE hold[v]]
       /\ reverse' = (reverse \union holding) \ braking
       /\ waitsFor' = [v \in Party |-> IF v \in holding \union braking THEN top[v]
                                       ELSE waitsFor[v]]
       /\ window' = [v \in Party |-> IF v \in acting THEN Clear ELSE window[v]]
       /\ partners' = [v \in Party |-> IF v \in recount THEN None0 ELSE partners[v]]

CheckCollisionReplan ==
    /\ round = "replan"
    /\ \E top \in [Acting -> Party] :
         /\ \A v \in Acting : top[v] \in TopPartners(v)
         /\ \E near \in SUBSET Acting :
              CarryOut([v \in Acting |-> Choice(v, top[v], v \in near)], top)
    /\ round' = "pass"
    /\ UNCHANGED operational

\* The rest of the step: vehicles stop, time passes.
Least(a, b) == IF a < b THEN a ELSE b
Pass ==
    /\ round = "pass"
    /\ \E halted \in SUBSET (operational \intersect Halting) : operational' = operational \ halted
    /\ window' = [v \in Party |->
                     [a \in 0 .. Window - 1 |-> IF a = 0 THEN 0 ELSE window[v][a - 1]]]
    /\ replanned' = [v \in Party |-> Least(replanned[v] + 1, Never)]
    /\ hold' = [v \in Party |-> IF hold[v] = 0 THEN 0 ELSE hold[v] - 1]
    /\ waitsFor' = [v \in Party |-> IF hold'[v] = 0 THEN NoPartner ELSE waitsFor[v]]
    /\ round' = "detect"
    /\ UNCHANGED <<partners, reverse>>

CollisionsNext == DetectCollisions \/ CheckCollisionReplan \/ Pass

CollisionsSpec == CollisionsInit /\ [][CollisionsNext]_collisionVars
-----------------------------------------------------------------------------
CollisionsTypeOK ==
    /\ round \in {"detect", "replan", "pass"} /\ operational \subseteq Party
    /\ window \in [Party -> [0 .. Window - 1 -> 0 .. Parties]]
    /\ partners \in [Party -> [Party -> 0 .. PairThreshold]]
    /\ replanned \in [Party -> 0 .. Never]
    /\ hold \in [Party -> 0 .. HoldTime + BrakeTime] /\ reverse \subseteq Party
    /\ waitsFor \in [Party -> Party \union {NoPartner}]

\* Vehicles on hold never wait for one another in a circle, however their partners
\* are chosen and however long ago they were counted: a vehicle waits for one with a
\* lower id, so the first in such a row drives.
NoCircleOfHolds ==
    \A S \in (SUBSET Party) \ {{}} : \E v \in S : hold[v] = 0 \/ waitsFor[v] \notin S

\* A vehicle that brakes near its goal for a partner leaves the partner free to
\* replan in the next step, although both act in the same pass.
BrakeGivesWay ==
    round = "pass" => \A v \in Party :
        hold[v] = BrakeTime /\ v \notin reverse /\ replanned[v] = 0
            => replanned[waitsFor[v]] = Never
=============================================================================
