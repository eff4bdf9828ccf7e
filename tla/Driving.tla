------------------------------ MODULE Driving ------------------------------
(***************************************************************************)
(* From the command of a vehicle to its wheels: the overlays that          *)
(* SimRunner.run lays over the planned command (sim/runner.py), the buffer *)
(* that delays it by the actuator lag and the kinematic step               *)
(* (Vehicle.step, vehicles/vehicle.py).                                    *)
(*                                                                         *)
(* One vehicle, among others whose positions are inputs.  Accelerations    *)
(* are in twentieths of max_decel.  The buffer holds a command of each of  *)
(* the last steps of the vehicle, so the age of a command is its place     *)
(* counted from the end; whether an age that equals the lag is enough is   *)
(* up to the rounding of the clock, and so open.                           *)
(***************************************************************************)
EXTENDS Integers, Sequences, FiniteSetsExt

CONSTANTS
    Lag,        \* actuator_lag, in steps
    Keep,       \* actuator_lag + 0.5 s, in steps
    Commands    \* the accelerations the planner is taken to choose from

DrivingAssumption == Lag \in Nat \ {0} /\ Keep \in Nat /\ Keep > Lag /\ Commands \subseteq -20 .. 20

VARIABLES
    half,       \* "conditions", "drive"
    mode,       \* status: "active", "safe", "stopped" for all the others
    perturbed,  \* _platooning_brake_active and _done: "not_yet", "now", "over"
    pace,       \* speed: 0 none, 1 within effective_max_speed, 2 above it
    buffer,     \* _command_buffer, the oldest first
    actuated,   \* _last_applied_cmd
    demands     \* history: what the neighbours asked for in the last Lag + 2 steps, the oldest first

drivingVars == <<half, mode, perturbed, pace, buffer, actuated, demands>>

CanDrive == mode \in {"active", "safe"}
NoDemand == 20

DrivingInit ==
    /\ half = "conditions" /\ mode = "active" /\ perturbed = "not_yet" /\ pace = 0
    /\ buffer = <<>> /\ actuated = 0
    /\ demands = [i \in 1 .. Lag + 2 |-> NoDemand]
-----------------------------------------------------------------------------
\* The leader of the platooning scenario brakes once, for five seconds.
Perturbed == CASE perturbed = "not_yet" -> {"not_yet", "now"}
               [] perturbed = "now" -> {"now", "over"}
               [] OTHER -> {"over"}

\* The weather sets the friction, which lowers the speed limit or raises it again.
Friction == {"as_before", "worse"}

\* effective_max_speed is lower in safe mode and with less friction, also under a
\* vehicle that moves.
Limited(friction) ==
    IF pace > 0 /\ (friction = "worse" \/ (mode = "active" /\ mode' = "safe")) THEN {1, 2} ELSE {pace}

Conditions ==
    /\ half = "conditions" /\ CanDrive
    /\ perturbed' \in Perturbed
    /\ mode' \in {"active", "safe"}
    /\ \E friction \in Friction : pace' \in Limited(friction)
    /\ half' = "drive"
    /\ UNCHANGED <<buffer, actuated, demands>>
-----------------------------------------------------------------------------
\* What each neighbour asks for: near and closing in gently, closer and closing in,
\* or within the critical radius, whatever its speed.
Gentle == -3
Moderate == -8
Critical == -16

\* The loop over the neighbours ends at the first in the critical radius.
Overlaid(planned, asked) ==
    IF Critical \in asked THEN Critical ELSE Min({planned} \union asked)

\* The planner stops with half the deceleration at its target.
Planned == Commands \union {-10}

\* The brake of the perturbed leader, then the clamp in safe mode.
Command(planned, leads) ==
    LET kept == IF perturbed = "now" /\ leads /\ pace > 0 THEN -10 ELSE planned
    IN IF mode = "safe" /\ pace = 2 /\ kept > 0 THEN -6 ELSE kept

\* Wrong version: the margin is left out.
TrimmedAtLag(b) == IF Len(b) > Lag + 1 THEN SubSeq(b, Len(b) - Lag, Len(b)) ELSE b

\* Commands older than the lag and half a second are thrown away.
Trimmed(b) == IF Len(b) > Keep + 1 THEN SubSeq(b, Len(b) - Keep, Len(b)) ELSE b

\* How many commands have matured: all those older than the lag, and maybe the one as old.
Matured(b) == {Max({0, Len(b) - Lag - 1}), Max({0, Len(b) - Lag})}

\* The speed after the applied command: never above the limit.
Integrated ==
    IF actuated' > 0 THEN {1}
    ELSE IF pace = 0 THEN {0}
    ELSE IF actuated' = 0 THEN {1} ELSE {0, 1}

\* The safety envelope stops a vehicle that left the world or ran into an obstacle.
Enveloped(speeds) == speeds \union {0}

Step(command) ==
    LET queue == Trimmed(Append(buffer, command))
    IN \/ /\ \E n \in Matured(queue) :
               /\ actuated' = IF n = 0 THEN actuated ELSE queue[n]
               /\ buffer' = SubSeq(queue, n + 1, Len(queue))
          /\ \/ pace' \in Enveloped(Integrated) /\ UNCHANGED mode
             \/ pace' = 0 /\ mode' = "stopped"       \* it has arrived
       \/ /\ mode' = "stopped" /\ pace' = 0          \* the tank is empty
          /\ UNCHANGED <<buffer, actuated>>

Remembered(demand) ==
    [i \in 1 .. Lag + 2 |-> IF i = Lag + 2 THEN demand ELSE demands[i + 1]]

DriveWithOverlays ==
    /\ half = "drive"
    /\ \E asked \in SUBSET {Gentle, Moderate, Critical} :
         /\ \E command \in {Overlaid(Command(p, leads), asked) : p \in Planned, leads \in BOOLEAN} :
              Step(command)
         /\ demands' = Remembered(Min(asked \union {NoDemand}))
    /\ half' = "conditions"
    /\ UNCHANGED perturbed

\* A vehicle on hold backs off to where it came from, or brakes: nothing is laid over.
BackOff ==
    /\ half = "drive"
    /\ \E command \in Planned : Step(command)
    /\ demands' = Remembered(NoDemand)
    /\ half' = "conditions"
    /\ UNCHANGED perturbed

\* Without a waypoint there is no step at all, and the clock of the buffer stands still.
NoTarget ==
    /\ half = "drive" /\ half' = "conditions"
    /\ UNCHANGED <<mode, perturbed, pace, buffer, actuated, demands>>

DrivingNext == Conditions \/ DriveWithOverlays \/ BackOff \/ NoTarget

DrivingSpec == DrivingInit /\ [][DrivingNext]_drivingVars
-----------------------------------------------------------------------------
\* What the neighbours ask for reaches the wheels: whatever overlays changed the command,
\* whenever the clock says that it has matured, and although commands wait and are thrown
\* away, the command applied brakes as hard as one of the two steps that may have matured
\* last asked for.  The steps on hold ask for nothing.
BrakingReachesWheels ==
    actuated <= Max({demands[1], demands[2]}) \/ mode = "stopped"
=============================================================================
