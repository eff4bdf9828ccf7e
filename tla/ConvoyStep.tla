----------------------------- MODULE ConvoyStep -----------------------------
(***************************************************************************)
(* One convoy through the steps of SimRunner.run (sim/runner.py): the      *)
(* status of every vehicle, its fuel, the silence it has sat through, and  *)
(* the spatial grid the comms and collision lookups use.  A step runs its  *)
(* phases in order, each over all the vehicles; what the phases hand on to *)
(* each other within a step, and to the next step, is the point here.      *)
(*                                                                         *)
(* Positions, estimates, weather and radio are inputs: who hears a         *)
(* message, whose position is uncertain, who reaches its destination and   *)
(* who is near whom are chosen freely in every step.                       *)
(***************************************************************************)
EXTENDS Integers, FiniteSets

CONSTANTS
    Vehicle,
    Tank,       \* fuel capacity, in units of the model
    Timeout,    \* comms_lost_timeout, in steps
    WarmUp,     \* the steps in which a silence does not count (t > 5.0)
    LeaderFails \* scenario "leader_failure"

ASSUME ConvoyAssumption ==
    /\ Tank \in Nat \ {0}
    /\ Timeout \in Nat \ {0}
    /\ WarmUp \in Nat
    /\ LeaderFails \in BOOLEAN

VARIABLES
    ew,        \* config.ew.enabled, and jammers are placed: fixed for a run
    phase,     \* where run() is in the step, "done" when it left the loop,
               \* "raised" when a lookup raised KeyError
    clock,     \* steps since the start, up to WarmUp + 1
    status,    \* VehicleStatus
    fuel,
    gap,       \* t - last_comms_time in steps, up to Timeout + 1
    lost,      \* the vehicles whose _comms_lost_flags is set
    grid,      \* the ids in _comms_grid and _collision_grid
    failed,    \* _leader_failed
    arrivals   \* history: calls of record_arrival for each vehicle

fleet == <<status, fuel, arrivals>>
radio == <<gap, lost>>
vars  == <<ew, phase, clock, fleet, radio, grid, failed>>

Status == {"ACTIVE", "SAFE_MODE", "BREAKDOWN", "ARRIVED"}
Phase  == {"events", "ew", "grids", "messages", "send", "safe", "drive", "fuel",
           "collisions", "end", "done", "raised"}

Least(a, b) == IF a < b THEN a ELSE b

is_operational(v) == status[v] \in {"ACTIVE", "SAFE_MODE"}
Operational == {v \in Vehicle : is_operational(v)}

Init ==
    /\ ew \in BOOLEAN
    /\ phase = "events"
    /\ clock = 0
    /\ status = [v \in Vehicle |-> "ACTIVE"]
    /\ fuel = [v \in Vehicle |-> Tank]
    /\ gap = [v \in Vehicle |-> 0]
    /\ lost = {}
    /\ grid = {}
    /\ failed = FALSE
    /\ arrivals = [v \in Vehicle |-> 0]
-----------------------------------------------------------------------------
(***************************************************************************)
(* SpatialHash.query_radius looks up the position of every id in the cells *)
(* around the query, some subset of the grid, and raises for an id that    *)
(* has none.  Moves on to phase next, or ends the run.                     *)
(***************************************************************************)
Lookup(positions, next) ==
    \E nearby \in SUBSET grid :
        phase' = IF nearby \subseteq positions THEN next ELSE "raised"

\* _handle_scenario_events: the leader, if an operational one is left, breaks down.
HandleScenarioEvents ==
    /\ phase = "events"
    /\ phase' = "ew"
    /\ \/ UNCHANGED <<status, failed>>
       \/ /\ LeaderFails /\ ~failed
          /\ failed' = TRUE
          /\ \/ UNCHANGED status
             \/ \E v \in Operational : status' = [status EXCEPT ![v] = "BREAKDOWN"]
    /\ UNCHANGED <<ew, clock, fuel, arrivals, radio, grid>>

\* _ew_tick: operational vehicles that sense a jammer broadcast a bearing report.
EwTick ==
    /\ phase = "ew"
    /\ \/ phase' = "grids"
       \/ ew /\ Operational # {} /\ Lookup(Operational, "grids")
    /\ UNCHANGED <<ew, clock, fleet, radio, grid, failed>>

RebuildSpatialGrids ==
    /\ phase = "grids"
    /\ grid' = Operational
    /\ phase' = "messages"
    /\ UNCHANGED <<ew, clock, fleet, radio, failed>>

\* comms.tick and _process_messages: any message ends a silence.
ProcessMessages ==
    /\ phase = "messages"
    /\ \E hearing \in SUBSET Operational :
         /\ gap'  = [v \in Vehicle |-> IF v \in hearing THEN 0 ELSE gap[v]]
         /\ lost' = lost \ hearing
    /\ phase' = "send"
    /\ UNCHANGED <<ew, clock, fleet, grid, failed>>

\* _run_elections and _broadcast_states, with the same positions and grid.
Send ==
    /\ phase = "send"
    /\ \/ phase' = "safe"
       \/ Operational # {} /\ Lookup(Operational, "safe")
    /\ UNCHANGED <<ew, clock, fleet, radio, grid, failed>>

Silent == {v \in Operational : gap[v] > Timeout /\ clock > WarmUp}

\* wrong version: any condition that clears ends safe mode
CheckSafeModeLeavingEarly ==
    /\ phase = "safe"
    /\ \E uncertain \in SUBSET Operational :
         status' = [v \in Vehicle |->
            CASE status[v] = "ACTIVE" /\ v \in uncertain \cup Silent    -> "SAFE_MODE"
              [] status[v] = "SAFE_MODE" /\ v \notin uncertain \cap Silent -> "ACTIVE"
              [] OTHER -> status[v]]
    /\ lost' = lost \cup Silent
    /\ phase' = "drive"
    /\ UNCHANGED <<ew, clock, fuel, arrivals, gap, grid, failed>>

\* _check_safe_mode: enter on any reason, exit when there is none.  The position
\* estimate and the weather choose who is uncertain.
CheckSafeMode ==
    /\ phase = "safe"
    /\ \E uncertain \in SUBSET Operational :
         status' = [v \in Vehicle |->
            IF ~is_operational(v) THEN status[v]
            ELSE IF v \in uncertain \cup Silent THEN "SAFE_MODE" ELSE "ACTIVE"]
    /\ lost' = lost \cup Silent
    /\ phase' = "drive"
    /\ UNCHANGED <<ew, clock, fuel, arrivals, gap, grid, failed>>

Usage == 0 .. 2   \* what a vehicle may use up in a step; bounds the model

\* FuelState.consume: "Cannot consume more than remaining."
consume(v, usage) == fuel[v] - Least(usage, fuel[v])

(***************************************************************************)
(* Vehicle.step and the arrival check that follows it, the same on the     *)
(* hold and on the normal path.  step refuses to move on an empty tank and *)
(* breaks the vehicle down; the arrival check looks at the position only.  *)
(***************************************************************************)
Drive ==
    /\ phase = "drive"
    /\ \E reached \in SUBSET Operational, usage \in [Operational -> Usage] :
         /\ fuel' = [v \in Vehicle |->
                       IF v \in Operational THEN consume(v, usage[v]) ELSE fuel[v]]
         /\ status' = [v \in Vehicle |->
                         CASE v \in reached -> "ARRIVED"
                           [] v \in Operational \ reached /\ fuel[v] = 0 -> "BREAKDOWN"
                           [] OTHER -> status[v]]
         /\ arrivals' = [v \in Vehicle |-> arrivals[v] + IF v \in reached THEN 1 ELSE 0]
    /\ phase' = "fuel"
    /\ UNCHANGED <<ew, clock, radio, grid, failed>>

CheckFuel ==
    /\ phase = "fuel"
    /\ status' = [v \in Vehicle |->
                    IF is_operational(v) /\ fuel[v] = 0 THEN "BREAKDOWN" ELSE status[v]]
    /\ phase' = "collisions"
    /\ UNCHANGED <<ew, clock, fuel, arrivals, radio, grid, failed>>

\* wrong version: only operational vehicles have a position
DetectCollisionsOfOperational ==
    /\ phase = "collisions"
    /\ \/ phase' = "end"
       \/ Operational # {} /\ Lookup(Operational, "end")
    /\ UNCHANGED <<ew, clock, fleet, radio, grid, failed>>

\* _detect_collisions looks vehicles up that broke down or arrived in this step:
\* it gives query_radius the positions of all of them.
DetectCollisions ==
    /\ phase = "collisions"
    /\ \/ phase' = "end"
       \/ Operational # {} /\ Lookup(Vehicle, "end")
    /\ UNCHANGED <<ew, clock, fleet, radio, grid, failed>>

\* The loop ends when nobody is under way any more, else the next step starts.
EndStep ==
    /\ phase = "end"
    /\ IF Operational = {}
       THEN phase' = "done" /\ UNCHANGED <<clock, gap>>
       ELSE /\ phase' = "events"
            /\ clock' = Least(clock + 1, WarmUp + 1)
            /\ gap' = [v \in Vehicle |-> Least(gap[v] + 1, Timeout + 1)]
    /\ UNCHANGED <<ew, fleet, lost, grid, failed>>

Stopped == phase \in {"done", "raised"} /\ UNCHANGED vars

Next ==
    \/ HandleScenarioEvents
    \/ EwTick
    \/ RebuildSpatialGrids
    \/ ProcessMessages
    \/ Send
    \/ CheckSafeMode
    \/ Drive
    \/ CheckFuel
    \/ DetectCollisions
    \/ EndStep
    \/ Stopped

Spec == Init /\ [][Next]_vars
-----------------------------------------------------------------------------
TypeOK ==
    /\ ew \in BOOLEAN
    /\ phase \in Phase
    /\ clock \in 0 .. WarmUp + 1
    /\ status \in [Vehicle -> Status]
    /\ fuel \in [Vehicle -> 0 .. Tank]
    /\ gap \in [Vehicle -> 0 .. Timeout + 1]
    /\ lost \subseteq Vehicle
    /\ grid \subseteq Vehicle
    /\ failed \in BOOLEAN
    /\ arrivals \in [Vehicle -> 0 .. 2]

\* _check_safe_mode: "enter on *any* trigger, exit only when *all* conditions clear."
\* A vehicle reported to have lost its comms is still out of contact and in safe mode
\* in every phase until the message that ends its silence clears the report.
CommsLossIsSafe ==
    \A v \in lost \cap Operational : gap[v] > Timeout /\ status[v] = "SAFE_MODE"

\* Every vehicle that arrives is recorded exactly once, whichever path of the drive
\* loop sees it, and no other vehicle is.
ArrivalsCounted ==
    \A v \in Vehicle : arrivals[v] = IF status[v] = "ARRIVED" THEN 1 ELSE 0

\* No vehicle is given a command on an empty tank: Vehicle.step never breaks one down
\* that the arrival check would then declare ARRIVED.
NobodyDrivesDry ==
    phase = "drive" => \A v \in Operational : fuel[v] > 0

\* Vehicle.set_breakdown: "Irreversible."  What stopped, by a failure, an empty tank
\* or its arrival, stays what it is.
StoppedForGood ==
    [][\A v \in Vehicle : ~is_operational(v) => status'[v] = status[v]]_vars

\* _detect_collisions: "the grid was built at step start and vehicles may have changed
\* status mid-step".  Without jammers every id a lookup meets in a grid has a position;
\* else KeyError would end the run.
LookupsResolve == ~ew => phase # "raised"

\* The same, with jammers: not even then does a lookup end the run.
JammedLookupsResolve == phase # "raised"
=============================================================================
