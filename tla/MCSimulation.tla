---------------------------- MODULE MCSimulation ----------------------------
(***************************************************************************)
(* The parts of the simulation that are modelled apart from the core,      *)
(* checked side by side: a behaviour belongs to one part, in which only    *)
(* that part's variables move.  Nothing is shared between the parts: what  *)
(* one does to another, such as a collision that replans a route, is an    *)
(* input of the other.  The properties of a part hold in its initial       *)
(* states too, in which it waits while another part runs: they are         *)
(* invariants as they stand.                                               *)
(***************************************************************************)
EXTENDS Integers, MultiConvoy, Collisions, Routes, Driving, Estimate, Jamming, Radio,
        Formation

VARIABLE part

routes == <<stage, state, length, waypoint, speed, timer, still, cooldown, silence, clock,
            goalSeen, unhelped>>
-----------------------------------------------------------------------------
(***************************************************************************)
(* MultiConvoy: the scenarios of sim/scenarios.py at the size of the       *)
(* model, convoys that cross, of distinct and of equal rank, that merge,   *)
(* and one that splits.                                                    *)
(***************************************************************************)
Scenarios ==
    {[scenario |-> "crossing", members |-> <<<<0>>, <<1>>, <<2>>>>, priority |-> p] :
        p \in {<<2, 1, 0>>, <<0, 0, 1>>}}
    \union {[scenario |-> "convoy_merge", members |-> <<<<0, 1>>, <<2>>>>, priority |-> <<0, 1>>]}
    \union {[scenario |-> "convoy_split_reroute", members |-> <<<<0, 1, 2>>>>, priority |-> <<0>>]}

\* Driving: the planner speeds up or brakes as hard as it can.
Accelerations == {10, -20}

\* Radio: the convoy strung out, and closed up behind its first vehicle.
BothWays(pairs) == pairs \union {<<p[2], p[1]>> : p \in pairs}
Reach == {BothWays({<<0, 1>>, <<1, 2>>, <<2, 3>>}), BothWays({<<0, 2>>, <<1, 2>>, <<2, 3>>})}

ASSUME MultiAssumption /\ CollisionsAssumption /\ RoutesAssumption /\ DrivingAssumption
       /\ EstimateAssumption /\ JammingAssumption /\ RadioAssumption /\ FormationAssumption
-----------------------------------------------------------------------------
IdleMulti == MultiInit /\ scenario = "convoy_merge"
IdleRoutes == RoutesInit /\ length = 2
IdleRadio == RadioInit /\ muted = {}
IdleEstimate == EstimateInit /\ driftRate = (CHOOSE r \in DriftRates : TRUE)

\* A part begins in an initial state of its own, and the others wait in one of theirs.
Init ==
    /\ CollisionsInit /\ DrivingInit /\ JammingInit /\ FormationInit
    /\ \/ /\ part \in {"collisions", "driving", "jamming", "formation"}
          /\ IdleMulti /\ IdleRoutes /\ IdleRadio /\ IdleEstimate
       \/ part = "multi" /\ MultiInit /\ IdleRoutes /\ IdleRadio /\ IdleEstimate
       \/ part = "routes" /\ RoutesInit /\ IdleMulti /\ IdleRadio /\ IdleEstimate
       \/ part = "radio" /\ RadioInit /\ IdleMulti /\ IdleRoutes /\ IdleEstimate
       \/ part = "estimate" /\ EstimateInit /\ IdleMulti /\ IdleRoutes /\ IdleRadio

Next ==
    \/ /\ part = "multi" /\ MultiNext
       /\ UNCHANGED <<part, radioVars, collisionVars, routes, formation, estimate, jamming, drivingVars>>
    \/ /\ part = "radio" /\ RadioNext
       /\ UNCHANGED <<part, multiVars, collisionVars, routes, formation, estimate, jamming, drivingVars>>
    \/ /\ part = "collisions" /\ CollisionsNext
       /\ UNCHANGED <<part, multiVars, radioVars, routes, formation, estimate, jamming, drivingVars>>
    \/ /\ part = "routes" /\ RoutesNext
       /\ UNCHANGED <<part, multiVars, radioVars, collisionVars, formation, estimate, jamming, drivingVars>>
    \/ /\ part = "formation" /\ FormationNext
       /\ UNCHANGED <<part, multiVars, radioVars, collisionVars, routes, estimate, jamming, drivingVars>>
    \/ /\ part = "estimate" /\ EstimateNext
       /\ UNCHANGED <<part, multiVars, radioVars, collisionVars, routes, formation, jamming, drivingVars>>
    \/ /\ part = "jamming" /\ JammingNext
       /\ UNCHANGED <<part, multiVars, radioVars, collisionVars, routes, formation, estimate, drivingVars>>
    \/ /\ part = "driving" /\ DrivingNext
       /\ UNCHANGED <<part, multiVars, radioVars, collisionVars, routes, formation, estimate, jamming>>
=============================================================================
