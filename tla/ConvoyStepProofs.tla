-------------------------- MODULE ConvoyStepProofs --------------------------
(***************************************************************************)
(* Proofs about ConvoyStep, for any fleet, tank, timeout and warm-up: its  *)
(* type invariant; that a reported loss of comms means safe mode; that an  *)
(* arrival is recorded once; that nobody drives dry; that what stopped     *)
(* stays stopped; and that without jammers every lookup in a grid finds    *)
(* the positions it needs.                                                 *)
(***************************************************************************)
EXTENDS ConvoyStep, TLAPS

\* The conjuncts support each other: Drive meets no empty tank because CheckFuel ran
\* in the step before, so an arrival is never a vehicle broken down by Vehicle.step;
\* and once the warm-up is over a silence reported earlier still counts.
Inv ==
    /\ phase \in Phase
    /\ clock \in 0 .. WarmUp + 1
    /\ status \in [Vehicle -> Status]
    /\ fuel \in [Vehicle -> 0 .. Tank]
    /\ gap \in [Vehicle -> 0 .. Timeout + 1]
    /\ lost \subseteq Vehicle
    /\ grid \subseteq Vehicle
    /\ failed \in BOOLEAN
    /\ arrivals \in [Vehicle -> 0 .. 1]
    /\ lost # {} => clock > WarmUp
    /\ CommsLossIsSafe
    /\ ArrivalsCounted
    /\ phase # "fuel" => \A v \in Operational : fuel[v] > 0

LEMMA InitInv == Init => Inv
<1> SUFFICES ASSUME Init PROVE Inv
  OBVIOUS
<1>1. /\ phase \in Phase /\ clock \in 0 .. WarmUp + 1 /\ status \in [Vehicle -> Status]
      /\ fuel \in [Vehicle -> 0 .. Tank] /\ gap \in [Vehicle -> 0 .. Timeout + 1]
      /\ arrivals \in [Vehicle -> 0 .. 1]
  BY ConvoyAssumption DEF Init, Phase, Status
<1>2. CommsLossIsSafe /\ ArrivalsCounted
  BY DEF Init, CommsLossIsSafe, ArrivalsCounted
<1>3. \A v \in Operational : fuel[v] > 0
  BY ConvoyAssumption DEF Init, Operational
<1>4. lost = {} /\ grid = {} /\ failed = FALSE
  BY DEF Init
<1>5. QED
  BY <1>1, <1>2, <1>3, <1>4 DEF Inv

LEMMA LeastTyped ==
    ASSUME NEW a \in Nat, NEW b \in Nat
    PROVE  Least(a, b) \in 0 .. b /\ Least(a, b) <= a /\ (a <= b => Least(a, b) = a)
           /\ (b < a => Least(a, b) = b)
BY DEF Least

\* A lookup only moves the phase on.
LEMMA LookupTyped ==
    ASSUME NEW positions, NEW next \in Phase, Lookup(positions, next)
    PROVE  phase' \in {next, "raised"}
BY DEF Lookup

\* A phase that moves on and touches neither the fleet nor the radio.
LEMMA PhaseOnly ==
    ASSUME Inv, phase # "fuel", phase' \in Phase, grid' \subseteq Vehicle,
           UNCHANGED <<clock, fleet, radio, failed>>
    PROVE  Inv'
BY DEF Inv, CommsLossIsSafe, ArrivalsCounted, Operational, is_operational, fleet, radio

LEMMA EventsInv == Inv /\ HandleScenarioEvents => Inv'
<1> SUFFICES ASSUME Inv, HandleScenarioEvents PROVE Inv'
  OBVIOUS
<1>1. /\ phase' = "ew" /\ phase = "events" /\ failed' \in BOOLEAN
      /\ UNCHANGED <<clock, fuel, arrivals, gap, lost, grid>>
  BY DEF HandleScenarioEvents, radio, Inv
<1>2. CASE UNCHANGED status
  BY <1>1, <1>2
  DEF Inv, Phase, CommsLossIsSafe, ArrivalsCounted, Operational, is_operational
<1>3. ASSUME NEW v \in Operational, status' = [status EXCEPT ![v] = "BREAKDOWN"]
      PROVE  Inv'
  BY <1>1, <1>3
  DEF Inv, Phase, Status, CommsLossIsSafe, ArrivalsCounted, Operational, is_operational
<1>4. QED
  BY <1>2, <1>3 DEF HandleScenarioEvents

LEMMA MessagesInv == Inv /\ ProcessMessages => Inv'
<1> SUFFICES ASSUME Inv, ProcessMessages PROVE Inv'
  OBVIOUS
<1>1. PICK hearing \in SUBSET Operational :
        /\ gap'  = [v \in Vehicle |-> IF v \in hearing THEN 0 ELSE gap[v]]
        /\ lost' = lost \ hearing
  BY DEF ProcessMessages
<1>2. /\ phase = "messages" /\ phase' = "send"
      /\ UNCHANGED <<clock, status, fuel, arrivals, grid, failed>>
  BY DEF ProcessMessages, fleet
<1>3. gap' \in [Vehicle -> 0 .. Timeout + 1] /\ lost' \subseteq Vehicle
  BY <1>1, ConvoyAssumption DEF Inv
<1>4. CommsLossIsSafe'
  BY <1>1, <1>2 DEF Inv, CommsLossIsSafe, Operational, is_operational
<1>5. ArrivalsCounted' /\ \A v \in Operational' : fuel'[v] > 0
  BY <1>2 DEF Inv, ArrivalsCounted, Operational, is_operational
<1>6. lost' # {} => clock' > WarmUp
  BY <1>1, <1>2 DEF Inv
<1>7. QED
  BY <1>2, <1>3, <1>4, <1>5, <1>6 DEF Inv, Phase

LEMMA SafeInv == Inv /\ CheckSafeMode => Inv'
<1> SUFFICES ASSUME Inv, CheckSafeMode PROVE Inv'
  OBVIOUS
<1>1. PICK uncertain \in SUBSET Operational :
        status' = [v \in Vehicle |->
            IF ~is_operational(v) THEN status[v]
            ELSE IF v \in uncertain \cup Silent THEN "SAFE_MODE" ELSE "ACTIVE"]
  BY DEF CheckSafeMode
<1>2. /\ phase = "safe" /\ phase' = "drive" /\ lost' = lost \cup Silent
      /\ UNCHANGED <<clock, fuel, arrivals, gap, grid, failed>>
  BY DEF CheckSafeMode
<1>3. status' \in [Vehicle -> Status] /\ Operational' = Operational
      /\ \A v \in Vehicle : (status'[v] = "ARRIVED") = (status[v] = "ARRIVED")
  BY <1>1 DEF Inv, Status, Operational, is_operational
<1>4. lost' \subseteq Vehicle /\ (lost' # {} => clock' > WarmUp)
  BY <1>2 DEF Inv, Silent, Operational
<1>5. CommsLossIsSafe'
  <2> SUFFICES ASSUME NEW v \in lost' \cap Operational
               PROVE  gap[v] > Timeout /\ status'[v] = "SAFE_MODE"
    BY <1>2, <1>3 DEF CommsLossIsSafe
  <2>1. CASE v \in Silent
    BY <1>1, <2>1 DEF Silent, Operational
  <2>2. CASE v \in lost
    <3>1. gap[v] > Timeout /\ is_operational(v) /\ v \in Vehicle
      BY <2>2 DEF Inv, CommsLossIsSafe, Operational
    <3>2. v \in Silent
      BY <2>2, <3>1 DEF Inv, Silent, Operational
    <3>3. QED
      BY <1>1, <3>1, <3>2, <2>2 DEF Inv
  <2>3. QED
    BY <1>2, <2>1, <2>2
<1>6. ArrivalsCounted' /\ \A v \in Operational' : fuel'[v] > 0
  BY <1>2, <1>3 DEF Inv, ArrivalsCounted
<1>7. QED
  BY <1>2, <1>3, <1>4, <1>5, <1>6 DEF Inv, Phase

LEMMA ConsumeTyped ==
    ASSUME Inv, NEW v \in Vehicle, NEW usage \in Usage
    PROVE  consume(v, usage) \in 0 .. Tank
<1>1. fuel[v] \in 0 .. Tank /\ usage \in Nat
  BY DEF Inv, Usage
<1>2. Least(usage, fuel[v]) \in 0 .. fuel[v]
  BY <1>1 DEF Least
<1>3. QED
  BY <1>1, <1>2, ConvoyAssumption DEF consume

LEMMA DriveInv == Inv /\ Drive => Inv' /\ \A v \in Vehicle \ Operational : status'[v] = status[v]
<1> SUFFICES ASSUME Inv, Drive
             PROVE  Inv' /\ \A v \in Vehicle \ Operational : status'[v] = status[v]
  OBVIOUS
<1>1. PICK reached \in SUBSET Operational, usage \in [Operational -> Usage] :
         /\ fuel' = [v \in Vehicle |->
                       IF v \in Operational THEN consume(v, usage[v]) ELSE fuel[v]]
         /\ status' = [v \in Vehicle |->
                         CASE v \in reached -> "ARRIVED"
                           [] v \in Operational \ reached /\ fuel[v] = 0 -> "BREAKDOWN"
                           [] OTHER -> status[v]]
         /\ arrivals' = [v \in Vehicle |-> arrivals[v] + IF v \in reached THEN 1 ELSE 0]
  BY DEF Drive
<1>2. /\ phase = "drive" /\ phase' = "fuel"
      /\ UNCHANGED <<clock, gap, lost, grid, failed>>
  BY DEF Drive, radio
<1>3. \A v \in Operational : fuel[v] > 0 /\ status[v] # "ARRIVED" /\ v \in Vehicle
  BY <1>2 DEF Inv, Operational, is_operational
<1>4. \A v \in Vehicle : status'[v] = IF v \in reached THEN "ARRIVED" ELSE status[v]
  BY <1>1, <1>3 DEF Inv
<1>5. status' \in [Vehicle -> Status]
  BY <1>1 DEF Inv, Status
<1>6. fuel' \in [Vehicle -> 0 .. Tank]
  <2>1. \A v \in Operational : consume(v, usage[v]) \in 0 .. Tank
    BY ConsumeTyped, <1>3
  <2>2. QED
    BY <1>1, <2>1 DEF Inv
<1>7. ArrivalsCounted' /\ arrivals' \in [Vehicle -> 0 .. 1]
  <2> SUFFICES ASSUME NEW v \in Vehicle
               PROVE  arrivals'[v] = (IF status'[v] = "ARRIVED" THEN 1 ELSE 0)
    BY <1>1 DEF ArrivalsCounted
  <2>1. arrivals[v] = IF status[v] = "ARRIVED" THEN 1 ELSE 0
    BY DEF Inv, ArrivalsCounted
  <2>2. CASE v \in reached
    BY <1>1, <1>3, <1>4, <2>1, <2>2
  <2>3. CASE v \notin reached
    BY <1>1, <1>4, <2>1, <2>3
  <2>4. QED
    BY <2>2, <2>3
<1>8. CommsLossIsSafe'
  BY <1>2, <1>4 DEF Inv, CommsLossIsSafe, Operational, is_operational
<1>9. \A v \in Vehicle \ Operational : status'[v] = status[v]
  BY <1>4
<1>10. QED
  BY <1>2, <1>5, <1>6, <1>7, <1>8, <1>9 DEF Inv, Phase

LEMMA FuelInv == Inv /\ CheckFuel => Inv'
<1> SUFFICES ASSUME Inv, CheckFuel PROVE Inv'
  OBVIOUS
<1>1. /\ phase' = "collisions"
      /\ status' = [v \in Vehicle |->
             IF is_operational(v) /\ fuel[v] = 0 THEN "BREAKDOWN" ELSE status[v]]
      /\ UNCHANGED <<clock, fuel, arrivals, gap, lost, grid, failed>>
  BY DEF CheckFuel, radio
<1>2. status' \in [Vehicle -> Status] /\ Operational' \subseteq Operational
  BY <1>1 DEF Inv, Status, Operational, is_operational
<1>3. \A v \in Operational' : fuel'[v] > 0 /\ status'[v] = status[v]
  <2> SUFFICES ASSUME NEW v \in Operational' PROVE fuel[v] > 0 /\ status'[v] = status[v]
    BY <1>1
  <2>1. v \in Vehicle /\ is_operational(v) /\ status'[v] # "BREAKDOWN"
    BY <1>2 DEF Operational, is_operational
  <2>2. fuel[v] # 0 /\ fuel[v] \in 0 .. Tank
    BY <1>1, <2>1 DEF Inv
  <2>3. QED
    BY <1>1, <2>1, <2>2
<1>4. ArrivalsCounted'
  BY <1>1 DEF Inv, ArrivalsCounted, is_operational
<1>5. CommsLossIsSafe'
  BY <1>1, <1>2, <1>3 DEF Inv, CommsLossIsSafe
<1>6. QED
  BY <1>1, <1>2, <1>3, <1>4, <1>5 DEF Inv, Phase

LEMMA EndInv == Inv /\ EndStep => Inv'
<1> SUFFICES ASSUME Inv, EndStep PROVE Inv'
  OBVIOUS
<1>1. phase = "end" /\ UNCHANGED <<status, fuel, arrivals, lost, grid, failed>>
  BY DEF EndStep, fleet
<1>2. phase' \in Phase
  BY DEF EndStep, Phase
<1>3. CASE UNCHANGED <<clock, gap>>
  BY <1>1, <1>2, <1>3
  DEF Inv, CommsLossIsSafe, ArrivalsCounted, Operational, is_operational
<1>4. CASE /\ clock' = Least(clock + 1, WarmUp + 1)
           /\ gap' = [v \in Vehicle |-> Least(gap[v] + 1, Timeout + 1)]
  <2>1. clock' \in 0 .. WarmUp + 1 /\ (clock > WarmUp => clock' > WarmUp)
    BY <1>4, ConvoyAssumption DEF Inv, Least
  <2>2. ASSUME NEW v \in Vehicle
        PROVE  gap'[v] \in 0 .. Timeout + 1 /\ (gap[v] > Timeout => gap'[v] > Timeout)
    BY <1>4, ConvoyAssumption DEF Inv, Least
  <2>3. gap' \in [Vehicle -> 0 .. Timeout + 1]
    BY <1>4, <2>2
  <2>4. CommsLossIsSafe'
    BY <1>1, <2>2 DEF Inv, CommsLossIsSafe, Operational, is_operational
  <2>5. ArrivalsCounted' /\ \A v \in Operational' : fuel'[v] > 0
    BY <1>1 DEF Inv, ArrivalsCounted, Operational, is_operational
  <2>6. QED
    BY <1>1, <1>2, <2>1, <2>3, <2>4, <2>5 DEF Inv
<1>5. QED
  BY <1>3, <1>4 DEF EndStep

LEMMA StepInv == Inv /\ [Next]_vars => Inv'
<1> SUFFICES ASSUME Inv, [Next]_vars PROVE Inv'
  OBVIOUS
<1>1. CASE EwTick
  BY <1>1, LookupTyped, PhaseOnly DEF EwTick, Phase, Inv
<1>2. CASE RebuildSpatialGrids
  BY <1>2, PhaseOnly DEF RebuildSpatialGrids, Phase, Operational
<1>3. CASE Send
  BY <1>3, LookupTyped, PhaseOnly DEF Send, Phase, Inv
<1>4. CASE DetectCollisions
  BY <1>4, LookupTyped, PhaseOnly DEF DetectCollisions, Phase, Inv
<1>5. CASE Stopped \/ UNCHANGED vars
  BY <1>5
  DEF Stopped, vars, fleet, radio, Inv, CommsLossIsSafe, ArrivalsCounted, Operational,
      is_operational
<1>6. QED
  BY <1>1, <1>2, <1>3, <1>4, <1>5, EventsInv, MessagesInv, SafeInv, DriveInv, FuelInv,
     EndInv DEF Next

LEMMA Invariant == Spec => []Inv
<1>1. QED
  BY InitInv, StepInv, PTL DEF Spec

\* Whether there are jammers does not change within a run.
LEMMA JammersStay == [Next]_vars => ew' = ew
BY DEF Next, HandleScenarioEvents, EwTick, RebuildSpatialGrids, ProcessMessages, Send,
       CheckSafeMode, Drive, CheckFuel, DetectCollisions, EndStep, Stopped, vars

LEMMA JammersTyped == Spec => [](ew \in BOOLEAN)
<1>1. Init => ew \in BOOLEAN
  BY DEF Init
<1>2. ew \in BOOLEAN /\ [Next]_vars => (ew \in BOOLEAN)'
  BY JammersStay
<1>3. QED
  BY <1>1, <1>2, PTL DEF Spec

\* Statuses, tanks, silences, grids and the record of arrivals keep their types.
THEOREM ConvoyTyping == Spec => []TypeOK
<1>1. Inv /\ ew \in BOOLEAN => TypeOK
  BY DEF Inv, TypeOK
<1>2. QED
  BY <1>1, Invariant, JammersTyped, PTL

\* A vehicle reported out of contact is, and drives in safe mode until it is heard.
THEOREM LossMeansSafeMode == Spec => []CommsLossIsSafe
<1>1. Inv => CommsLossIsSafe
  BY DEF Inv
<1>2. QED
  BY <1>1, Invariant, PTL

\* Each arrival is recorded once, and nothing else is.
THEOREM EachArrivalOnce == Spec => []ArrivalsCounted
<1>1. Inv => ArrivalsCounted
  BY DEF Inv
<1>2. QED
  BY <1>1, Invariant, PTL

\* Whoever is given a command has fuel.
THEOREM FuelToDrive == Spec => []NobodyDrivesDry
<1>1. Inv => NobodyDrivesDry
  BY DEF Inv, NobodyDrivesDry
<1>2. QED
  BY <1>1, Invariant, PTL

\* A vehicle that broke down or arrived never changes its status again.
THEOREM Irreversible == Spec => StoppedForGood
<1>1. Inv /\ [Next]_vars =>
        [\A v \in Vehicle : ~is_operational(v) => status'[v] = status[v]]_vars
  <2> SUFFICES ASSUME Inv, Next, NEW v \in Vehicle, ~is_operational(v)
               PROVE  status'[v] = status[v]
    OBVIOUS
  <2>1. CASE UNCHANGED status
    BY <2>1
  <2>2. CASE HandleScenarioEvents
    BY <2>2 DEF HandleScenarioEvents, Operational, Inv
  <2>3. CASE CheckSafeMode
    BY <2>3 DEF CheckSafeMode
  <2>4. CASE Drive
    BY <2>4, DriveInv DEF Operational
  <2>5. CASE CheckFuel
    BY <2>5 DEF CheckFuel
  <2>6. QED
    BY <2>1, <2>2, <2>3, <2>4, <2>5
    DEF Next, EwTick, RebuildSpatialGrids, ProcessMessages, Send, DetectCollisions,
        EndStep, Stopped, fleet, vars
<1>2. QED
  BY <1>1, Invariant, PTL DEF Spec, StoppedForGood
-----------------------------------------------------------------------------
(***************************************************************************)
(* Without jammers nobody sends before the grids are rebuilt, and between  *)
(* their rebuilding and the sends no vehicle changes its status.           *)
(***************************************************************************)
GridInv ==
    /\ phase # "raised"
    /\ phase \in {"messages", "send"} => grid = Operational

LEMMA GridStep == ~ew /\ Inv /\ GridInv /\ [Next]_vars => GridInv'
<1> SUFFICES ASSUME ~ew, Inv, GridInv, [Next]_vars PROVE GridInv'
  OBVIOUS
<1>1. CASE HandleScenarioEvents \/ CheckSafeMode \/ Drive \/ CheckFuel \/ EndStep
  BY <1>1 DEF HandleScenarioEvents, CheckSafeMode, Drive, CheckFuel, EndStep, GridInv
<1>2. CASE EwTick
  BY <1>2 DEF EwTick, GridInv
<1>3. CASE RebuildSpatialGrids
  BY <1>3
  DEF RebuildSpatialGrids, GridInv, fleet, Operational, is_operational
<1>4. CASE ProcessMessages
  BY <1>4 DEF ProcessMessages, GridInv, fleet, Operational, is_operational
<1>5. CASE Send
  BY <1>5 DEF Send, GridInv, Lookup
<1>6. CASE DetectCollisions
  BY <1>6 DEF DetectCollisions, GridInv, Lookup, Inv
<1>7. CASE Stopped \/ UNCHANGED vars
  BY <1>7
  DEF Stopped, vars, fleet, GridInv, Operational, is_operational
<1>8. QED
  BY <1>1, <1>2, <1>3, <1>4, <1>5, <1>6, <1>7 DEF Next

\* Without electronic warfare no lookup in a spatial grid ever raises KeyError.
THEOREM EveryLookupResolves == Spec => []LookupsResolve
<1>1. Init => (~ew => GridInv)
  BY DEF Init, GridInv
<1>2. Inv /\ (~ew => GridInv) /\ [Next]_vars => (~ew => GridInv)'
  BY GridStep, JammersStay
<1>3. (~ew => GridInv) => LookupsResolve
  BY DEF GridInv, LookupsResolve
<1>4. QED
  BY <1>1, <1>2, <1>3, Invariant, PTL DEF Spec
=============================================================================
