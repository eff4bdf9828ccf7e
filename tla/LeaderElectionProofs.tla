------------------------ MODULE LeaderElectionProofs ------------------------
(***************************************************************************)
(* Theorems about LeaderElection for any number of vehicles, timeout, fuel *)
(* capacity, fuel weight and network.                                      *)
(***************************************************************************)
EXTENDS LeaderElection, TLAPS

LEMMA InitTyped == Init => TypeOK
<1> SUFFICES ASSUME Init PROVE TypeOK
  OBVIOUS
<1> USE ConstantsAssumption DEF Init
<1>1. 0 \in Vehicle
  BY DEF Vehicle
<1>2. isLeader \in [Vehicle -> BOOLEAN] /\ inProgress \in [Vehicle -> BOOLEAN]
  BY Zenon
<1>3. seen \in [Vehicle -> [priority : Int, candidate : Vehicle \cup {NoVehicle}]]
  BY DEF Nothing, NoVehicle
<1>4. fuel \in [Vehicle -> 0 .. MaxFuel] /\ silence \in [Vehicle -> 0 .. Timeout + 1]
  OBVIOUS
<1>5. status \in [Vehicle -> Status] /\ leaderId \in [Vehicle -> Vehicle \cup {NoVehicle}]
  BY <1>1 DEF Status
<1>6. heard \in [Vehicle -> SUBSET Vehicle] /\ clock \in 0 .. Timeout + 1
  OBVIOUS
<1>7. QED
  BY <1>2, <1>3, <1>4, <1>5, <1>6 DEF TypeOK

\* A reset leaves every field of the election state in its type.
LEMMA ResetTyped ==
    ASSUME TypeOK, NEW R \in SUBSET Vehicle, Reset(R)
    PROVE  /\ inProgress' \in [Vehicle -> BOOLEAN]
           /\ seen' \in [Vehicle -> [priority : Int, candidate : Vehicle \cup {NoVehicle}]]
           /\ leaderId' \in [Vehicle -> Vehicle \cup {NoVehicle}]
           /\ silence' \in [Vehicle -> 0 .. Timeout + 1]
           /\ heard' \in [Vehicle -> SUBSET Vehicle]
<1> USE DEF TypeOK, Reset
<1>1. inProgress' \in [Vehicle -> BOOLEAN]
  BY Zenon
<1>2. seen' \in [Vehicle -> [priority : Int, candidate : Vehicle \cup {NoVehicle}]]
  BY DEF Nothing, NoVehicle
<1>3. leaderId' \in [Vehicle -> Vehicle \cup {NoVehicle}]
  OBVIOUS
<1>4. silence' \in [Vehicle -> 0 .. Timeout + 1]
  OBVIOUS
<1>5. heard' \in [Vehicle -> SUBSET Vehicle]
  OBVIOUS
<1>6. QED
  BY <1>1, <1>2, <1>3, <1>4, <1>5

LEMMA ProductTyped == \A a, b \in Nat : a * b \in Nat
OBVIOUS

\* The present bid of a vehicle is a natural number.
LEMMA PriorityTyped ==
    ASSUME TypeOK, NEW v \in Vehicle
    PROVE  Priority(v) \in Nat
<1>1. fuel[v] \in Nat
  BY ConstantsAssumption DEF TypeOK
<1>2. fuel[v] * FuelWeight \in Nat
  BY <1>1, ProductTyped, ConstantsAssumption
<1>3. N - v \in Nat
  BY ConstantsAssumption DEF Vehicle
<1>4. QED
  BY <1>2, <1>3 DEF Priority

LEMMA FailureTyped == TypeOK /\ LeaderFailure => TypeOK'
<1> SUFFICES ASSUME TypeOK, LeaderFailure PROVE TypeOK'
  OBVIOUS
<1>1. CASE CurrentLeaders = {} /\ UNCHANGED <<status, electionVars>>
  BY <1>1 DEF TypeOK, LeaderFailure, electionVars, commsVars
<1>2. ASSUME NEW l \in Convoy,
             status' = [status EXCEPT ![l] = "BREAKDOWN"],
             isLeader' = [v \in Vehicle |-> isLeader[v] /\ ~Operational(v)],
             Reset(Convoy \ {l})
      PROVE  TypeOK'
  <2>1. Convoy \ {l} \in SUBSET Vehicle
    BY DEF Convoy
  <2>2. isLeader' \in [Vehicle -> BOOLEAN]
    BY <1>2, Zenon DEF TypeOK
  <2>3. status' \in [Vehicle -> Status]
    BY <1>2 DEF TypeOK, Status
  <2>4. QED
    BY <1>2, <2>1, <2>2, <2>3, ResetTyped DEF TypeOK, LeaderFailure, commsVars
<1>3. QED
  BY <1>1, <1>2 DEF LeaderFailure

LEMMA HandlersTyped ==
    ASSUME TypeOK, NEW m \in inFlight,
           OnHeartbeat(m) \/ OnElectionMessage(m) \/ Lose(m) \/ Straggle(m)
    PROVE  TypeOK'
<1> USE DEF TypeOK, Handling
<1>0. m \in Message /\ m.from \in Vehicle /\ m.to \in Vehicle /\ m.priority \in Nat
  BY DEF Message
<1>1. CASE OnHeartbeat(m)
  <2>1. /\ silence' = [silence EXCEPT ![m.to] = 0]
        /\ leaderId' = [leaderId EXCEPT ![m.to] = m.from]
        /\ inProgress' = [inProgress EXCEPT ![m.to] = FALSE]
        /\ inFlight' \subseteq inFlight
        /\ UNCHANGED <<isLeader, seen, heard, overdue, status, fuel, clock, failed, phase>>
    BY <1>1 DEF OnHeartbeat, vehicleVars
  <2>2. silence' \in [Vehicle -> 0 .. Timeout + 1]
    BY <1>0, <2>1, ConstantsAssumption
  <2>3. leaderId' \in [Vehicle -> Vehicle \cup {NoVehicle}]
    BY <1>0, <2>1
  <2>4. inProgress' \in [Vehicle -> BOOLEAN]
    BY <1>0, <2>1
  <2>5. QED
    BY <2>1, <2>2, <2>3, <2>4
<1>2. CASE OnElectionMessage(m)
  <2> DEFINE bid == [priority |-> m.priority, candidate |-> m.from]
  <2>1. bid \in [priority : Int, candidate : Vehicle \cup {NoVehicle}]
    BY <1>0
  <2>2. seen' = [seen EXCEPT ![m.to] = Kept(bid, seen[m.to])]
    BY <1>2, Zenon DEF OnElectionMessage
  <2>6. Kept(bid, seen[m.to]) = bid \/ Kept(bid, seen[m.to]) = seen[m.to]
    BY Zenon DEF Kept
  <2>3. heard' \in [Vehicle -> SUBSET Vehicle]
    BY <1>0, <1>2 DEF OnElectionMessage, Kept
  <2>4. seen' \in [Vehicle -> [priority : Int, candidate : Vehicle \cup {NoVehicle}]]
    BY <1>0, <2>1, <2>2, <2>6 DEF TypeOK, Message
  <2>5. QED
    BY <1>2, <2>3, <2>4 DEF OnElectionMessage, vehicleVars
<1>3. CASE Lose(m)
  BY <1>3 DEF Lose, electionVars, vehicleVars
<1>4. CASE Straggle(m)
  <2>1. [m EXCEPT !.late = TRUE] \in Message
    BY <1>0 DEF Message
  <2>2. QED
    BY <1>4, <2>1 DEF Straggle, electionVars, vehicleVars
<1>5. QED
  BY <1>1, <1>2, <1>3, <1>4

LEMMA ElectionsTyped == TypeOK /\ RunElections => TypeOK'
<1> SUFFICES ASSUME TypeOK, RunElections PROVE TypeOK'
  OBVIOUS
<1>1. isLeader' \in [Vehicle -> BOOLEAN]
  BY Zenon DEF RunElections, TypeOK
<1>2. inProgress' \in [Vehicle -> BOOLEAN]
  BY Zenon DEF RunElections, TypeOK
<1>3. leaderId' \in [Vehicle -> Vehicle \cup {NoVehicle}]
  BY DEF RunElections, TypeOK
<1>4. seen' \in [Vehicle -> [priority : Int, candidate : Vehicle \cup {NoVehicle}]]
  BY PriorityTyped DEF RunElections, TypeOK
<1>5. Sent \subseteq Message
  <2>1. ASSUME NEW v \in Vehicle, NEW w \in Vehicle
        PROVE  Heartbeat(v, w) \in Message /\ Candidacy(v, w, Priority(v)) \in Message
    BY PriorityTyped DEF Heartbeat, Candidacy, Message
  <2>2. QED
    BY <2>1 DEF Sent, Convoy
<1>6. QED
  BY <1>1, <1>2, <1>3, <1>4, <1>5 DEF RunElections, TypeOK, vehicleVars

LEMMA CapTyped ==
    ASSUME NEW t \in 0 .. Timeout + 1
    PROVE  /\ Cap(t + 1) \in 0 .. Timeout + 1
           /\ t > Timeout => Cap(t + 1) > Timeout
BY ConstantsAssumption DEF Cap, Older

\* _check_fuel runs in the step in which a tank runs dry, so a vehicle in
\* operation has fuel left.
Fuelled == \A v \in Vehicle : Operational(v) => fuel[v] > 0

LEMMA MoveTyped == TypeOK /\ Fuelled /\ Move => TypeOK' /\ Fuelled'
<1> SUFFICES ASSUME TypeOK, Fuelled, Move PROVE TypeOK' /\ Fuelled'
  OBVIOUS
<1>1. clock' \in 0 .. Timeout + 1 /\ silence' \in [Vehicle -> 0 .. Timeout + 1]
  BY CapTyped DEF Move, TypeOK
<1>2. PICK burning \in SUBSET Convoy, arriving \in SUBSET (Convoy \cap Departing) :
         /\ fuel' = [v \in Vehicle |-> IF v \in burning THEN fuel[v] - 1 ELSE fuel[v]]
         /\ status' = [v \in Vehicle |->
                         IF v \in arriving THEN "ARRIVED"
                         ELSE IF v \in Convoy /\ fuel'[v] = 0 THEN "BREAKDOWN"
                         ELSE status[v]]
  BY DEF Move, StatusAfter, Convoy
<1>3. fuel' \in [Vehicle -> 0 .. MaxFuel]
  BY <1>2, ConstantsAssumption DEF TypeOK, Fuelled, Convoy
<1>4. status' \in [Vehicle -> Status]
  BY <1>2 DEF TypeOK, Status
<1>5. Fuelled'
  BY <1>2, <1>3, <1>4, ConstantsAssumption DEF Fuelled, Operational, Convoy, TypeOK
<1>6. QED
  BY <1>1, <1>3, <1>4, <1>5 DEF Move, StatusAfter, TypeOK, commsVars

\* Type correctness, for every value of the constants.
THEOREM Typing == Spec => [](TypeOK /\ Fuelled)
<1>1. Init => TypeOK /\ Fuelled
  BY InitTyped, ConstantsAssumption DEF Init, Fuelled, Operational
<1>2. TypeOK /\ Fuelled /\ [Next]_vars => TypeOK' /\ Fuelled'
  <2> SUFFICES ASSUME TypeOK, Fuelled, [Next]_vars PROVE TypeOK' /\ Fuelled'
    OBVIOUS
  <2>1. CASE LeaderFailure
    <3>1. \A v \in Vehicle : fuel'[v] = fuel[v] /\ (Operational(v)' => Operational(v))
      BY <2>1 DEF LeaderFailure, Operational, TypeOK, Convoy, electionVars
    <3>2. QED
      BY <2>1, <3>1, FailureTyped DEF Fuelled
  <2>2. ASSUME NEW m \in inFlight,
               OnHeartbeat(m) \/ OnElectionMessage(m) \/ Lose(m) \/ Straggle(m)
        PROVE  TypeOK' /\ Fuelled'
    BY <2>2, HandlersTyped DEF Fuelled, Operational, OnHeartbeat, OnElectionMessage,
                               Lose, Straggle, vehicleVars
  <2>3. CASE RunElections
    BY <2>3, ElectionsTyped DEF Fuelled, Operational, RunElections, vehicleVars
  <2>4. CASE Move
    BY <2>4, MoveTyped
  <2>5. CASE UNCHANGED vars
    BY <2>5 DEF TypeOK, Fuelled, Operational, vars, electionVars,
                commsVars, vehicleVars
  <2>6. QED
    BY <2>1, <2>2, <2>3, <2>4, <2>5 DEF Next
<1>3. QED
  BY <1>1, <1>2, PTL DEF Spec
-----------------------------------------------------------------------------
(***************************************************************************)
(* The order of bids.                                                      *)
(***************************************************************************)
Bid == [priority : Int, candidate : Int]

LEMMA LowerBidStaysBeaten ==
    ASSUME NEW a \in Bid, NEW b \in Bid, NEW d \in Bid,
           d.candidate = a.candidate, d.priority <= a.priority, ~Beats(a, b)
    PROVE  ~Beats(d, b)
BY DEF Bid, Beats

LEMMA BetterBidKeepsBeating ==
    ASSUME NEW a \in Bid, NEW b \in Bid, NEW d \in Bid,
           d.priority > b.priority
             \/ (d.priority = b.priority /\ d.candidate <= b.candidate),
           ~Beats(a, b)
    PROVE  ~Beats(a, d)
BY DEF Bid, Beats

LEMMA ProductMonotone ==
    \A a, b, w \in Nat : a <= b => a * w <= b * w
OBVIOUS

LEMMA NextPriorityTyped ==
    ASSUME TypeOK', NEW v \in Vehicle
    PROVE  Priority(v)' \in Nat
<1>1. fuel'[v] \in Nat
  BY ConstantsAssumption DEF TypeOK
<1>2. fuel'[v] * FuelWeight \in Nat
  BY <1>1, ProductTyped, ConstantsAssumption
<1>3. QED
  BY <1>2, ConstantsAssumption DEF Priority, Vehicle

\* The bid a vehicle could make never improves: fuel only falls.
LEMMA BidsOnlyFall ==
    ASSUME TypeOK, TypeOK', NEW v \in Vehicle, fuel'[v] <= fuel[v]
    PROVE  Priority(v)' <= Priority(v)
<1>1. fuel[v] \in Nat /\ fuel'[v] \in Nat
  BY ConstantsAssumption DEF TypeOK
<1>2. fuel'[v] * FuelWeight <= fuel[v] * FuelWeight
  BY <1>1, ProductMonotone, ConstantsAssumption
<1>3. fuel[v] * FuelWeight \in Nat /\ fuel'[v] * FuelWeight \in Nat
  BY <1>1, ProductTyped, ConstantsAssumption
<1>4. QED
  BY <1>2, <1>3, ConstantsAssumption DEF Priority, Vehicle
-----------------------------------------------------------------------------
(***************************************************************************)
(* The inductive invariant.  A bid in flight or remembered is at least     *)
(* what its candidate could bid now; an election is under way only for     *)
(* want of a leader or after more than Timeout steps of silence.           *)
(***************************************************************************)
BidsInFlightNeverUnderestimate ==
    \A m \in inFlight \cup overdue : m.kind = "ELECTION" => Priority(m.from) <= m.priority

ElectionOnlyAfterSilence ==
    \A v \in Vehicle : inProgress[v] => leaderId[v] = NoVehicle \/ silence[v] > Timeout

IInv ==
    /\ BidsInFlightNeverUnderestimate
    /\ MemoryNeverUnderestimates
    /\ ElectionOnlyAfterSilence
    /\ LeaderlessElects

LEMMA InitInv == Init => IInv
<1> SUFFICES ASSUME Init PROVE IInv
  OBVIOUS
<1>1. \A v \in Vehicle : ~inProgress[v] /\ leaderId[v] = 0 /\ heard[v] = {}
  BY DEF Init
<1>2. inFlight \cup overdue = {}
  BY DEF Init
<1>3. QED
  BY <1>1, <1>2 DEF IInv, BidsInFlightNeverUnderestimate, MemoryNeverUnderestimates,
                    ElectionOnlyAfterSilence, LeaderlessElects, NoVehicle

LEMMA BidTyped ==
    ASSUME TypeOK
    PROVE  /\ \A v \in Vehicle : BidOf(v) \in Bid /\ seen[v] \in Bid
           /\ \A m \in inFlight \cup overdue :
                 m.from \in Vehicle /\ m.to \in Vehicle /\ m.priority \in Nat
<1>1. \A v \in Vehicle : BidOf(v) \in Bid
  BY PriorityTyped DEF BidOf, Bid, Vehicle
<1>2. \A v \in Vehicle : seen[v] \in Bid
  BY DEF TypeOK, Bid, Vehicle, NoVehicle
<1>3. QED
  BY <1>1, <1>2 DEF TypeOK, Message

LEMMA FailureInv == TypeOK /\ TypeOK' /\ IInv /\ LeaderFailure => IInv'
<1> SUFFICES ASSUME TypeOK, TypeOK', IInv, LeaderFailure PROVE IInv'
  OBVIOUS
<1> USE DEF IInv
<1>1. UNCHANGED <<fuel, inFlight, overdue>>
  BY DEF LeaderFailure, commsVars
<1>2. \A v \in Vehicle : Priority(v)' = Priority(v) /\ BidOf(v)' = BidOf(v)
  BY <1>1 DEF Priority, BidOf
<1>3. BidsInFlightNeverUnderestimate'
  BY <1>1, <1>2, BidTyped DEF BidsInFlightNeverUnderestimate
<1>4. CASE UNCHANGED electionVars
  BY <1>2, <1>3, <1>4 DEF MemoryNeverUnderestimates, ElectionOnlyAfterSilence,
                          LeaderlessElects, electionVars, TypeOK, Beats
<1>5. ASSUME NEW R \in SUBSET Vehicle, Reset(R) PROVE IInv'
  <2>1. \A v \in R : /\ inProgress'[v] /\ leaderId'[v] = NoVehicle /\ heard'[v] = {}
    BY <1>5 DEF Reset
  <2>2. \A v \in Vehicle \ R :
           /\ inProgress'[v] = inProgress[v] /\ leaderId'[v] = leaderId[v]
           /\ heard'[v] = heard[v] /\ seen'[v] = seen[v] /\ silence'[v] = silence[v]
    BY <1>5 DEF Reset, TypeOK
  <2>3. MemoryNeverUnderestimates'
    BY <2>1, <2>2, <1>2 DEF MemoryNeverUnderestimates, TypeOK, Beats
  <2>4. ElectionOnlyAfterSilence'
    BY <2>1, <2>2 DEF ElectionOnlyAfterSilence
  <2>5. LeaderlessElects'
    BY <2>1, <2>2 DEF LeaderlessElects
  <2>6. QED
    BY <1>3, <2>3, <2>4, <2>5
<1>6. QED
  BY <1>4, <1>5 DEF LeaderFailure, Convoy

LEMMA HeartbeatInv ==
    ASSUME TypeOK, TypeOK', IInv, NEW m \in inFlight, OnHeartbeat(m)
    PROVE  IInv'
<1> USE DEF IInv
<1>1. m.to \in Vehicle /\ m.from \in Vehicle
  BY BidTyped
<1>2. /\ leaderId' = [leaderId EXCEPT ![m.to] = m.from]
      /\ inProgress' = [inProgress EXCEPT ![m.to] = FALSE]
      /\ silence' = [silence EXCEPT ![m.to] = 0]
      /\ inFlight' \subseteq inFlight
      /\ UNCHANGED <<seen, heard, overdue, fuel>>
  BY DEF OnHeartbeat, Handling, vehicleVars
<1>3. \A v \in Vehicle : Priority(v)' = Priority(v) /\ BidOf(v)' = BidOf(v)
  BY <1>2 DEF Priority, BidOf
<1>4. BidsInFlightNeverUnderestimate'
  BY <1>2, <1>3, BidTyped DEF BidsInFlightNeverUnderestimate
<1>5. MemoryNeverUnderestimates'
  BY <1>2, <1>3 DEF MemoryNeverUnderestimates, TypeOK, Beats
<1>6. ElectionOnlyAfterSilence'
  BY <1>1, <1>2 DEF ElectionOnlyAfterSilence, TypeOK
<1>7. LeaderlessElects'
  BY <1>1, <1>2 DEF LeaderlessElects, TypeOK, Vehicle, NoVehicle
<1>8. QED
  BY <1>4, <1>5, <1>6, <1>7

LEMMA ElectionMessageInv ==
    ASSUME TypeOK, TypeOK', IInv, NEW m \in inFlight, OnElectionMessage(m)
    PROVE  IInv'
<1> USE DEF IInv
<1> DEFINE bid == [priority |-> m.priority, candidate |-> m.from]
<1>1. m.to \in Vehicle /\ m.from \in Vehicle /\ bid \in Bid
  BY BidTyped DEF Bid, Vehicle
<1>2. /\ UNCHANGED <<inProgress, leaderId, silence, overdue, fuel>>
      /\ inFlight' \subseteq inFlight
      /\ heard' = [heard EXCEPT ![m.to] = @ \cup {m.from}]
  BY DEF OnElectionMessage, Handling, vehicleVars
<1>3. \A v \in Vehicle : Priority(v)' = Priority(v) /\ BidOf(v)' = BidOf(v)
  BY <1>2 DEF Priority, BidOf
<1>4. BidsInFlightNeverUnderestimate'
  BY <1>2, <1>3, BidTyped DEF BidsInFlightNeverUnderestimate
<1>5. MemoryNeverUnderestimates'
  <2> SUFFICES ASSUME NEW v \in Vehicle, NEW c \in heard'[v]
               PROVE  ~Beats(BidOf(c), seen'[v])
    BY <1>3 DEF MemoryNeverUnderestimates, TypeOK
  <2>1. c \in Vehicle /\ BidOf(c) \in Bid /\ seen[v] \in Bid
    BY BidTyped DEF TypeOK
  <2>2. ~Beats(BidOf(m.from), bid)
    <3>1. Priority(m.from) <= m.priority
      BY DEF BidsInFlightNeverUnderestimate, OnElectionMessage
    <3>2. QED
      BY <3>1, <1>1, BidTyped DEF Beats, BidOf, Bid
  <2>3. CASE v # m.to
    BY <1>1, <1>2, <2>3, Zenon DEF OnElectionMessage, Kept, MemoryNeverUnderestimates, TypeOK
  <2>4. CASE v = m.to /\ Beats(bid, seen[m.to])
    <3>1. seen'[v] = bid
      BY <1>1, <2>4 DEF OnElectionMessage, Kept, TypeOK
    <3>2. CASE c = m.from
      BY <3>1, <3>2, <2>2
    <3>3. CASE c \in heard[v]
      <4>1. ~Beats(BidOf(c), seen[v])
        BY <3>3 DEF MemoryNeverUnderestimates
      <4>2. \/ bid.priority > seen[v].priority
            \/ bid.priority = seen[v].priority /\ bid.candidate <= seen[v].candidate
        BY <2>1, <2>4, <1>1 DEF Beats, Bid
      <4>3. ~Beats(BidOf(c), bid)
        BY <4>1, <4>2, <2>1, <1>1, BetterBidKeepsBeating
      <4>4. QED
        BY <4>3, <3>1
    <3>4. QED
      BY <3>2, <3>3, <1>1, <1>2, <2>4 DEF TypeOK
  <2>5. CASE v = m.to /\ ~Beats(bid, seen[m.to])
    <3>1. seen'[v] = seen[v]
      BY <1>1, <2>5 DEF OnElectionMessage, Kept, TypeOK
    <3>2. CASE c = m.from
      <4>1. Priority(c) <= m.priority /\ ~Beats(bid, seen[v])
        BY <3>2, <2>5 DEF BidsInFlightNeverUnderestimate, OnElectionMessage
      <4>2. BidOf(c).priority <= bid.priority /\ BidOf(c).candidate = bid.candidate
        BY <4>1, <3>2 DEF BidOf
      <4>3. ~Beats(BidOf(c), seen[v])
        BY <4>1, <4>2, <2>1, <1>1, LowerBidStaysBeaten
      <4>4. QED
        BY <4>3, <3>1
    <3>3. CASE c \in heard[v]
      BY <3>1, <3>3 DEF MemoryNeverUnderestimates
    <3>4. QED
      BY <3>2, <3>3, <1>1, <1>2, <2>5 DEF TypeOK
  <2>6. QED
    BY <2>3, <2>4, <2>5
<1>6. ElectionOnlyAfterSilence' /\ LeaderlessElects'
  BY <1>2 DEF ElectionOnlyAfterSilence, LeaderlessElects
<1>7. QED
  BY <1>4, <1>5, <1>6

LEMMA NetworkInv ==
    ASSUME TypeOK, TypeOK', IInv, NEW m \in inFlight, Lose(m) \/ Straggle(m)
    PROVE  IInv'
<1> USE DEF IInv
<1>1. UNCHANGED <<fuel, electionVars>> /\ inFlight' \subseteq inFlight
  BY DEF Lose, Straggle, Handling, vehicleVars
<1>2. \A v \in Vehicle : Priority(v)' = Priority(v) /\ BidOf(v)' = BidOf(v)
  BY <1>1 DEF Priority, BidOf
<1>3. BidsInFlightNeverUnderestimate'
  <2>1. CASE Lose(m)
    BY <1>1, <1>2, <2>1, BidTyped DEF BidsInFlightNeverUnderestimate, Lose
  <2>2. CASE Straggle(m)
    <3>1. \A o \in overdue' : /\ o.kind = m.kind /\ o.from = m.from
                               /\ o.priority = m.priority
      BY <2>2 DEF Straggle, TypeOK, Message
    <3>2. QED
      BY <1>1, <1>2, <3>1, BidTyped DEF BidsInFlightNeverUnderestimate
  <2>3. QED
    BY <2>1, <2>2
<1>4. MemoryNeverUnderestimates'
  BY <1>1, <1>2 DEF MemoryNeverUnderestimates, electionVars, TypeOK, Beats
<1>5. ElectionOnlyAfterSilence' /\ LeaderlessElects'
  BY <1>1 DEF ElectionOnlyAfterSilence, LeaderlessElects, electionVars
<1>6. QED
  BY <1>3, <1>4, <1>5

LEMMA ElectionsInv == TypeOK /\ TypeOK' /\ IInv /\ RunElections => IInv'
<1> SUFFICES ASSUME TypeOK, TypeOK', IInv, RunElections PROVE IInv'
  OBVIOUS
<1> USE DEF IInv
<1>1. UNCHANGED <<fuel, silence, heard>> /\ overdue' = {}
  BY DEF RunElections, vehicleVars
<1>2. \A v \in Vehicle : Priority(v)' = Priority(v) /\ BidOf(v)' = BidOf(v)
  BY <1>1 DEF Priority, BidOf
<1>3. BidsInFlightNeverUnderestimate'
  <2>1. inFlight' \subseteq overdue \cup Sent
    BY DEF RunElections
  <2>2. \A m \in Sent : m.kind = "ELECTION" =>
           m.from \in Vehicle /\ m.priority = Priority(m.from)
    BY DEF Sent, Heartbeat, Candidacy, Convoy
  <2>3. \A m \in inFlight' : m.kind = "ELECTION" => Priority(m.from)' <= m.priority
    BY <2>1, <2>2, <1>2, BidTyped, PriorityTyped DEF BidsInFlightNeverUnderestimate
  <2>4. QED
    BY <2>3, <1>1 DEF BidsInFlightNeverUnderestimate
<1>4. MemoryNeverUnderestimates'
  <2> SUFFICES ASSUME NEW v \in Vehicle, NEW c \in heard[v]
               PROVE  ~Beats(BidOf(c), seen'[v])
    BY <1>1, <1>2 DEF MemoryNeverUnderestimates, TypeOK
  <2>1. c \in Vehicle /\ BidOf(c) \in Bid /\ seen[v] \in Bid /\ BidOf(v) \in Bid
    BY BidTyped DEF TypeOK
  <2>2. ~Beats(BidOf(c), seen[v])
    BY DEF MemoryNeverUnderestimates
  <2>3. CASE ~Declares(v)
    BY <2>2, <2>3 DEF RunElections
  <2>4. CASE Declares(v)
    <3>1. seen'[v] = BidOf(v)
      BY <2>4 DEF RunElections, BidOf
    <3>2. \/ BidOf(v).priority > seen[v].priority
          \/ /\ BidOf(v).priority = seen[v].priority
             /\ BidOf(v).candidate <= seen[v].candidate
      BY <2>4 DEF Declares, BidOf
    <3>3. ~Beats(BidOf(c), BidOf(v))
      BY <3>2, <2>1, <2>2, BetterBidKeepsBeating
    <3>4. QED
      BY <3>1, <3>3
  <2>5. QED
    BY <2>3, <2>4
<1>5. \A v \in Vehicle :
        /\ inProgress'[v] = IF Electing(v) THEN ~Declares(v) ELSE inProgress[v]
        /\ leaderId'[v] = IF Declares(v) THEN v ELSE leaderId[v]
  BY DEF RunElections
<1>6. ElectionOnlyAfterSilence'
  BY <1>1, <1>5 DEF ElectionOnlyAfterSilence, Electing, Declares, TypeOK
<1>7. LeaderlessElects'
  <2> SUFFICES ASSUME NEW v \in Vehicle, leaderId'[v] = NoVehicle
               PROVE  inProgress'[v]
    BY DEF LeaderlessElects
  <2>1. ~Declares(v)
    BY <1>5 DEF Vehicle, NoVehicle
  <2>2. leaderId[v] = NoVehicle
    BY <2>1, <1>5
  <2>3. QED
    BY <2>1, <2>2, <1>5, Zenon DEF LeaderlessElects
<1>8. QED
  BY <1>3, <1>4, <1>6, <1>7

LEMMA MoveInv == TypeOK /\ TypeOK' /\ Fuelled /\ IInv /\ Move => IInv'
<1> SUFFICES ASSUME TypeOK, TypeOK', Fuelled, IInv, Move PROVE IInv'
  OBVIOUS
<1> USE DEF IInv
<1>1. /\ UNCHANGED <<leaderId, inProgress, seen, heard, inFlight, overdue>>
      /\ silence' = [v \in Vehicle |-> Cap(silence[v] + 1)]
  BY DEF Move, commsVars
<1>2. \A v \in Vehicle : fuel'[v] <= fuel[v]
  <2>1. PICK burning \in SUBSET Convoy :
           fuel' = [v \in Vehicle |-> IF v \in burning THEN fuel[v] - 1 ELSE fuel[v]]
    BY DEF Move, StatusAfter
  <2>2. \A v \in Vehicle : fuel[v] \in Int
    BY ConstantsAssumption DEF TypeOK
  <2>3. QED
    BY <2>1, <2>2
<1>3. \A v \in Vehicle : Priority(v)' <= Priority(v)
  BY <1>2, BidsOnlyFall
<1>4. BidsInFlightNeverUnderestimate'
  <2>1. \A v \in Vehicle : Priority(v) \in Nat /\ Priority(v)' \in Nat
    BY PriorityTyped, NextPriorityTyped
  <2>2. QED
    BY <1>1, <1>3, <2>1, BidTyped DEF BidsInFlightNeverUnderestimate
<1>5. MemoryNeverUnderestimates'
  <2> SUFFICES ASSUME NEW v \in Vehicle, NEW c \in heard[v]
               PROVE  ~Beats(BidOf(c)', seen[v])
    BY <1>1 DEF MemoryNeverUnderestimates, TypeOK, Beats
  <2>1. c \in Vehicle /\ BidOf(c) \in Bid /\ BidOf(c)' \in Bid /\ seen[v] \in Bid
    <3>1. c \in Vehicle
      BY DEF TypeOK
    <3>2. Priority(c)' \in Int
      BY <3>1, NextPriorityTyped
    <3>3. BidOf(c)' \in Bid
      BY <3>1, <3>2 DEF BidOf, Bid, Vehicle
    <3>4. QED
      BY <3>1, <3>3, BidTyped
  <2>2. BidOf(c)'.priority <= BidOf(c).priority /\ BidOf(c)'.candidate = BidOf(c).candidate
    BY <1>3, <2>1 DEF BidOf
  <2>3. QED
    BY <2>1, <2>2, LowerBidStaysBeaten DEF MemoryNeverUnderestimates
<1>6. \A v \in Vehicle : silence[v] > Timeout => silence'[v] > Timeout
  BY <1>1, CapTyped DEF TypeOK
<1>7. ElectionOnlyAfterSilence' /\ LeaderlessElects'
  BY <1>1, <1>6 DEF ElectionOnlyAfterSilence, LeaderlessElects
<1>8. QED
  BY <1>4, <1>5, <1>7

LEMMA NextInv == TypeOK /\ TypeOK' /\ Fuelled /\ IInv /\ [Next]_vars => IInv'
<1> SUFFICES ASSUME TypeOK, TypeOK', Fuelled, IInv, [Next]_vars PROVE IInv'
  OBVIOUS
<1>1. CASE UNCHANGED vars
  BY <1>1 DEF vars, electionVars, commsVars, vehicleVars, IInv, BidOf, Beats,
              BidsInFlightNeverUnderestimate, MemoryNeverUnderestimates, Priority,
              ElectionOnlyAfterSilence, LeaderlessElects
<1>2. QED
  BY <1>1, FailureInv, HeartbeatInv, ElectionMessageInv, NetworkInv, ElectionsInv, MoveInv
     DEF Next

LEMMA Invariance == Spec => []IInv
<1>1. Spec => []TypeOK /\ []Fuelled
  BY Typing, PTL
<1>2. QED
  BY <1>1, InitInv, NextInv, PTL DEF Spec

\* No vehicle forgets, or undervalues, a candidacy it has heard since its reset.
THEOREM MemorySound == Spec => []MemoryNeverUnderestimates
<1>1. IInv => MemoryNeverUnderestimates
  BY DEF IInv
<1>2. QED
  BY <1>1, Invariance, PTL

\* No vehicle waits for a leader it does not know.
THEOREM NoIdleWait == Spec => []LeaderlessElects
<1>1. IInv => LeaderlessElects
  BY DEF IInv
<1>2. QED
  BY <1>1, Invariance, PTL

\* Only check_and_elect makes leaders, and it asks Declares first.
LEMMA OnlyElectionsMakeLeaders ==
    ASSUME TypeOK, [Next]_vars, NEW v \in Vehicle, ~isLeader[v], isLeader'[v]
    PROVE  RunElections /\ Declares(v)
<1>1. CASE LeaderFailure
  BY <1>1 DEF LeaderFailure, electionVars
<1>2. ASSUME NEW m \in inFlight,
             OnHeartbeat(m) \/ OnElectionMessage(m) \/ Lose(m) \/ Straggle(m)
      PROVE  FALSE
  BY <1>2 DEF OnHeartbeat, OnElectionMessage, Lose, Straggle, electionVars
<1>3. CASE RunElections
  BY <1>3 DEF RunElections
<1>4. CASE Move \/ UNCHANGED vars
  BY <1>4 DEF Move, vars, electionVars
<1>5. QED
  BY <1>1, <1>2, <1>3, <1>4 DEF Next

\* Whoever declares victory is beaten by nobody it has heard: the guard
\* compares with the remembered bid, which never underestimates.
THEOREM JustVictory == Spec => VictoryIsJustified
<1>1. TypeOK /\ IInv /\ [Next]_vars =>
        [\A v \in Vehicle : ~isLeader[v] /\ isLeader'[v] =>
            \A c \in heard[v] : ~Beats(BidOf(c), BidOf(v))]_vars
  <2> SUFFICES ASSUME TypeOK, IInv, [Next]_vars, NEW v \in Vehicle,
                      ~isLeader[v], isLeader'[v], NEW c \in heard[v]
               PROVE  ~Beats(BidOf(c), BidOf(v))
    OBVIOUS
  <2>1. c \in Vehicle /\ BidOf(c) \in Bid /\ BidOf(v) \in Bid /\ seen[v] \in Bid
    BY BidTyped DEF TypeOK
  <2>2. \/ BidOf(v).priority > seen[v].priority
        \/ /\ BidOf(v).priority = seen[v].priority
           /\ BidOf(v).candidate <= seen[v].candidate
    BY OnlyElectionsMakeLeaders DEF Declares, BidOf
  <2>3. ~Beats(BidOf(c), seen[v])
    BY DEF IInv, MemoryNeverUnderestimates
  <2>4. QED
    BY <2>1, <2>2, <2>3, BetterBidKeepsBeating
<1>2. QED
  BY <1>1, Typing, Invariance, PTL DEF Spec, VictoryIsJustified

\* A known leader is replaced only after more than Timeout steps of silence.
THEOREM PatientTakeover == Spec => NoEarlyTakeover
<1>1. TypeOK /\ IInv /\ [Next]_vars =>
        [\A v \in Vehicle : ~isLeader[v] /\ isLeader'[v] =>
            leaderId[v] = NoVehicle \/ silence[v] > Timeout]_vars
  <2> SUFFICES ASSUME TypeOK, IInv, [Next]_vars, NEW v \in Vehicle,
                      ~isLeader[v], isLeader'[v]
               PROVE  leaderId[v] = NoVehicle \/ silence[v] > Timeout
    OBVIOUS
  <2>1. Electing(v)
    BY OnlyElectionsMakeLeaders DEF Declares
  <2>2. QED
    BY <2>1 DEF Electing, IInv, ElectionOnlyAfterSilence
<1>2. QED
  BY <1>1, Typing, Invariance, PTL DEF Spec, NoEarlyTakeover
=============================================================================
