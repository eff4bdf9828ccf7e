------------------------------- MODULE Routes -------------------------------
(***************************************************************************)
(* The route of one vehicle and who changes it: the driving loop of        *)
(* SimRunner.run with _advance_waypoint and the stuck timer, the replans   *)
(* (plan_route), and CentralSupervisor.observe, which sees the vehicle     *)
(* once in every step (supervisor/supervisor.py).  MultiConvoyRunner has   *)
(* the same loop without the supervisor.                                   *)
(*                                                                         *)
(* Where the vehicle gets to, how fast it is, whether a message reaches it *)
(* and when it is ordered to hold or to replan are inputs.                 *)
(***************************************************************************)
EXTENDS Integers

CONSTANTS
    RouteLengths,   \* how many waypoints plan_route may return
    StuckTime,      \* _stuck_threshold, all times in steps
    StuckSteps,     \* STUCK_STEPS_THRESHOLD
    AdviceCooldown, \* _replan_cooldown_time of the supervisor
    IsolationTime   \* ISOLATION_TIMEOUT

RoutesAssumption ==
    /\ RouteLengths \subseteq Nat \ {0}
    /\ StuckSteps \in Nat \ {0} /\ AdviceCooldown \in Nat

Smaller(a, b) == IF a < b THEN a ELSE b

VARIABLES
    stage,      \* what the step does next: "messages", "advise", "drive"
    state,      \* the vehicle's status: "active", "safe", "arrived", "broken"
    length,     \* len(waypoints); the last one is the destination
    waypoint,   \* current_waypoint_idx
    speed,      \* "still" < 0.3, "slow" < 0.5, "moving"
    timer,      \* _stuck_timers, up to StuckTime
    still,      \* _stuck_steps of the supervisor, up to StuckSteps
    cooldown,   \* what is left of the supervisor's _replan_cooldown
    silence,    \* t - last_comms_time, up to IsolationTime + 1
    clock,      \* t, up to IsolationTime + 1
    goalSeen,   \* history: the vehicle has been near the destination on this route
    unhelped    \* history: how many steps it has stood still since its last new route

route  == <<length, waypoint, goalSeen>>
advice == <<still, cooldown>>
vars == <<stage, state, route, speed, timer, advice, silence, clock, unhelped>>

RoutesInit ==
    /\ stage = "messages" /\ state = "active"
    /\ length \in RouteLengths /\ waypoint = 0 /\ goalSeen = FALSE
    /\ speed = "still" /\ timer = 0 /\ still = 0 /\ cooldown = 0
    /\ silence = 0 /\ clock = 0 /\ unhelped = 0

Operational == state \in {"active", "safe"}
-----------------------------------------------------------------------------
\* plan_route: the start and the goal alone when the road graph is empty, has one node
\* near both or no path, the nodes of the path in between otherwise.
PlanRoute == length' \in RouteLengths /\ waypoint' = 0 /\ goalSeen' = FALSE

(***************************************************************************)
(* The beginning of a step: an obstacle that pops up or a jammer that was  *)
(* found replans every route, a message may arrive, and safe mode is       *)
(* entered or left (ConvoyStep has the reasons).                           *)
(***************************************************************************)
BeforeAdvice ==
    /\ stage = "messages" /\ Operational
    /\ \/ PlanRoute
       \/ UNCHANGED route
    /\ silence' \in {0, silence}
    /\ state' \in {"active", "safe"}
    /\ stage' = "advise"
    /\ UNCHANGED <<speed, timer, advice, clock, unhelped>>

\* CentralSupervisor.observe and SimRunner._run_supervisor.  Both kinds of advice share
\* the cooldown, a vehicle stuck is looked at first, and only "replan" changes anything.
StillNow   == IF speed = "still" THEN Smaller(still + 1, StuckSteps) ELSE 0
IsStuck    == StillNow >= StuckSteps /\ cooldown = 0
IsIsolated == silence > IsolationTime /\ clock > IsolationTime /\ cooldown = 0
\* Wrong version: isolation is looked at first.
AdviceIsolatedFirst == IF IsIsolated THEN "rescue" ELSE IF IsStuck THEN "replan" ELSE "none"

Advice     == IF IsStuck THEN "replan" ELSE IF IsIsolated THEN "rescue" ELSE "none"

Advise ==
    /\ stage = "advise"
    /\ still' = IF Advice = "replan" THEN 0 ELSE StillNow
    /\ cooldown' = IF Advice = "none" THEN cooldown ELSE AdviceCooldown
    /\ IF Advice = "replan" THEN PlanRoute ELSE UNCHANGED route
    /\ unhelped' = IF Advice = "replan" \/ speed # "still" THEN 0 ELSE unhelped + 1
    /\ stage' = "drive"
    /\ UNCHANGED <<state, speed, timer, silence, clock>>
-----------------------------------------------------------------------------
\* _advance_waypoint: at most one waypoint in a step.
Advanced(near) == IF waypoint < length /\ near THEN waypoint + 1 ELSE waypoint

\* Wrong version: one waypoint too many is skipped.
SkipCountBeyond(i) == Smaller(3, length - i)

\* Skipping waypoints stops at the last one.
SkipCount(i) == Smaller(3, length - 1 - i)

TimePasses ==
    /\ cooldown' = IF cooldown = 0 THEN 0 ELSE cooldown - 1
    /\ silence' = Smaller(silence + 1, IsolationTime + 1)
    /\ clock' = Smaller(clock + 1, IsolationTime + 1)
    /\ stage' = "messages"
    /\ UNCHANGED still

\* has_reached_destination: near the goal is near its waypoint, for which the
\* distance grows with the speed.
Moves(near, there) ==
    /\ speed' \in {"still", "slow", "moving"}
    /\ waypoint = length - 1 /\ there => near
    /\ state' = IF there THEN "arrived" ELSE state
    /\ goalSeen' = (goalSeen \/ (waypoint = length - 1 /\ near))
    /\ UNCHANGED length

\* On hold a vehicle backs away; its timer stays as it is.
DriveOnHold ==
    /\ stage = "drive"
    /\ \E near, there \in BOOLEAN : Moves(near, there) /\ waypoint' = Advanced(near)
    /\ TimePasses
    /\ UNCHANGED <<timer, unhelped>>

Drive ==
    /\ stage = "drive"
    /\ \E near, there \in BOOLEAN :
         /\ Moves(near, there)
         /\ LET slow == speed' \in {"still", "slow"} /\ state = "active"
                due  == Smaller(timer + 1, StuckTime)
                skip == slow /\ due = StuckTime /\ Advanced(near) < length - 1
            IN /\ waypoint' = IF skip THEN Advanced(near) + SkipCount(Advanced(near)) ELSE Advanced(near)
               /\ timer' = IF slow /\ ~skip THEN due ELSE 0
    /\ TimePasses
    /\ UNCHANGED unhelped

\* After driving: the collision pass may replan (Collisions), and the tank may be empty.
AfterDriving ==
    /\ stage = "messages" /\ Operational
    /\ \/ PlanRoute /\ UNCHANGED state
       \/ state' = "broken" /\ UNCHANGED route
    /\ UNCHANGED <<stage, speed, timer, advice, silence, clock, unhelped>>

RoutesNext == BeforeAdvice \/ Advise \/ DriveOnHold \/ Drive \/ AfterDriving

RoutesSpec == RoutesInit /\ [][RoutesNext]_vars
-----------------------------------------------------------------------------
\* The destination is never skipped: a vehicle that is past its last waypoint has been
\* near it on this route.  (run skips up to three waypoints of a vehicle that is stuck,
\* _advance_waypoint moves on, and replans start again.)
GoalIsVisited == waypoint >= length => goalSeen

\* A vehicle that stands still gets a new route from the supervisor after the threshold
\* and one cooldown at the latest, however isolated it is: the advice on its isolation,
\* which takes the same cooldown, cannot keep the help away.
StuckIsHelped == unhelped < StuckSteps + AdviceCooldown
=============================================================================
