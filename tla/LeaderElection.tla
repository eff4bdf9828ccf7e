--------------------------- MODULE LeaderElection ---------------------------
(***************************************************************************)
(* Bully-style leader election of one convoy                               *)
(* (convoy_commander/coordination/leader_election.py) as the simulation    *)
(* loop drives it (convoy_commander/sim/runner.py): in every step of the   *)
(* loop the messages that have arrived are handled, then every operational *)
(* vehicle runs check_and_elect, then the vehicles move, burn fuel, arrive *)
(* or stop, and the clock advances.                                        *)
(*                                                                         *)
(* Priorities are floats in the code, 100 * fuel fraction + (1000 - id) /  *)
(* 100.  Here fuel is a whole number of levels and one level weighs        *)
(* FuelWeight identifier steps, so close fuel levels can be outweighed by  *)
(* the identifier and two candidates can tie, as in the code.              *)
(***************************************************************************)
EXTENDS Integers, FiniteSets

CONSTANTS
    N,            \* number of vehicles; their ids are 0 .. N-1
    Timeout,      \* leader_heartbeat_timeout, in steps of the loop
    MaxFuel,      \* fuel levels of a full tank
    FuelWeight,   \* identifier steps one fuel level is worth
    Departing,    \* the vehicles that may arrive or run dry
    Lossy,        \* the vehicles whose messages may be lost on the way
    Stragglers    \* whether a message may take longer than one step

ASSUME ConstantsAssumption ==
    /\ N \in Nat \ {0}
    /\ Timeout \in Nat
    /\ MaxFuel \in Nat \ {0}
    /\ FuelWeight \in Nat
    /\ Departing \subseteq 0 .. N-1
    /\ Lossy \subseteq 0 .. N-1
    /\ Stragglers \in BOOLEAN

Vehicle   == 0 .. N-1
NoVehicle == -1            \* Python's None, and the -1 of highest_seen_candidate
Status    == {"OPERATIONAL", "BREAKDOWN", "ARRIVED"}

VARIABLES
    status,      \* [Vehicle -> Status]; ACTIVE and SAFE_MODE are OPERATIONAL
    fuel,        \* [Vehicle -> 0 .. MaxFuel]
    isLeader,    \* vehicle.is_leader
    leaderId,    \* vehicle.leader_id
    inProgress,  \* election_in_progress
    seen,        \* highest_seen_priority and highest_seen_candidate
    silence,     \* current_time - last_heartbeat_time, at most Timeout + 1
    clock,       \* current_time, at most Timeout + 1
    inFlight,    \* CommsNetwork._in_flight, what is still to be handled
    overdue,     \* messages whose latency exceeds one step
    failed,      \* _leader_failed of the leader_failure scenario
    phase,       \* the part of the loop body that runs next, or "done"
    heard        \* history: the candidates each vehicle heard since its reset

electionVars == <<isLeader, leaderId, inProgress, seen, silence, heard>>
commsVars    == <<inFlight, overdue>>
vehicleVars  == <<status, fuel>>
vars == <<electionVars, commsVars, vehicleVars, clock, failed, phase>>

Heartbeat(from, to) ==
    [kind |-> "HEARTBEAT", from |-> from, to |-> to, priority |-> 0, late |-> FALSE]
Candidacy(from, to, p) ==
    [kind |-> "ELECTION", from |-> from, to |-> to, priority |-> p, late |-> FALSE]

Message == [kind : {"HEARTBEAT", "ELECTION"}, from : Vehicle, to : Vehicle,
            priority : Nat, late : BOOLEAN]

Nothing == [priority |-> -1, candidate |-> NoVehicle]

Operational(v) == status[v] = "OPERATIONAL"
Convoy         == {v \in Vehicle : Operational(v)}

\* compute_priority, for an operational vehicle.
Priority(v) == fuel[v] * FuelWeight + (N - v)

\* The order by which on_election_message keeps the best candidate.
Beats(a, b) ==
    \/ a.priority > b.priority
    \/ a.priority = b.priority /\ a.candidate < b.candidate

\* What on_election_message keeps of a bid and the best one before it.
LatestBid(bid, best) == bid        \* wrong version: the last bid wins
Kept(bid, best) == IF Beats(bid, best) THEN bid ELSE best

Older(a, b) == IF a < b THEN a ELSE b
Cap(t)      == Older(t, Timeout + 1)
-----------------------------------------------------------------------------
(***************************************************************************)
(* The runner starts with vehicle 0 as everybody's leader and full tanks.  *)
(***************************************************************************)
Init ==
    /\ status     = [v \in Vehicle |-> "OPERATIONAL"]
    /\ fuel       = [v \in Vehicle |-> MaxFuel]
    /\ isLeader   = [v \in Vehicle |-> v = 0]
    /\ leaderId   = [v \in Vehicle |-> 0]
    /\ inProgress = [v \in Vehicle |-> FALSE]
    /\ seen       = [v \in Vehicle |-> Nothing]
    /\ silence    = [v \in Vehicle |-> 0]
    /\ heard      = [v \in Vehicle |-> {}]
    /\ clock      = 0
    /\ inFlight   = {}
    /\ overdue    = {}
    /\ failed     = FALSE
    /\ phase      = "deliver"

(***************************************************************************)
(* The leader_failure event: the first operational leader breaks down and  *)
(* the election of every vehicle left is reset.  Without an operational    *)
(* leader the event is spent and nothing else happens.                     *)
(***************************************************************************)
CurrentLeaders == {v \in Convoy : isLeader[v]}
IsCurrentLeader(v) == v \in CurrentLeaders /\ \A w \in CurrentLeaders : v <= w

\* Wrong version: the reset does not put the vehicle into an election.
ResetWithoutElection(R) ==
    /\ inProgress' = inProgress
    /\ seen'       = [v \in Vehicle |-> IF v \in R THEN Nothing ELSE seen[v]]
    /\ leaderId'   = [v \in Vehicle |-> IF v \in R THEN NoVehicle ELSE leaderId[v]]
    /\ silence'    = [v \in Vehicle |-> IF v \in R THEN clock ELSE silence[v]]
    /\ heard'      = [v \in Vehicle |-> IF v \in R THEN {} ELSE heard[v]]

Reset(R) ==
    /\ inProgress' = [v \in Vehicle |-> inProgress[v] \/ v \in R]
    /\ seen'       = [v \in Vehicle |-> IF v \in R THEN Nothing ELSE seen[v]]
    /\ leaderId'   = [v \in Vehicle |-> IF v \in R THEN NoVehicle ELSE leaderId[v]]
    /\ silence'    = [v \in Vehicle |-> IF v \in R THEN clock ELSE silence[v]]
    /\ heard'      = [v \in Vehicle |-> IF v \in R THEN {} ELSE heard[v]]

LeaderFailure ==
    /\ phase = "deliver" /\ ~failed
    /\ failed' = TRUE
    /\ \/ \E l \in Convoy :
            /\ IsCurrentLeader(l)
            /\ status'   = [status EXCEPT ![l] = "BREAKDOWN"]
            /\ isLeader' = [v \in Vehicle |-> isLeader[v] /\ ~Operational(v)]
            /\ Reset(Convoy \ {l})
       \/ /\ CurrentLeaders = {}
          /\ UNCHANGED <<status, electionVars>>
    /\ UNCHANGED <<commsVars, fuel, clock, phase>>
-----------------------------------------------------------------------------
(***************************************************************************)
(* Messages are handled in the order of CommsNetwork._in_flight: what was  *)
(* delayed first, then in sending order, which is by sender (the loop over *)
(* the vehicles), by message, by recipient.  A message of a Lossy vehicle *)
(* may be lost (packet loss, range, jamming), with Stragglers it may       *)
(* outlast the step; inboxes of vehicles out of operation are never read.  *)
(***************************************************************************)
Rank(m) ==
    (((IF m.late THEN 0 ELSE N) + m.from) * 2
        + (IF m.kind = "ELECTION" THEN 0 ELSE 1)) * N + m.to

Handling(m) ==
    /\ phase = "deliver"
    /\ m \in inFlight
    /\ \A o \in inFlight : Rank(m) <= Rank(o)
    /\ inFlight' = inFlight \ {m}

\* Wrong version: the heartbeat does not change whom the vehicle follows.
DeafToNewLeader(m) ==
    /\ Handling(m)
    /\ m.kind = "HEARTBEAT" /\ Operational(m.to)
    /\ silence'    = [silence EXCEPT ![m.to] = 0]
    /\ inProgress' = [inProgress EXCEPT ![m.to] = FALSE]
    /\ UNCHANGED <<isLeader, leaderId, seen, heard, overdue, vehicleVars, clock, failed,
                   phase>>

OnHeartbeat(m) ==
    /\ Handling(m)
    /\ m.kind = "HEARTBEAT" /\ Operational(m.to)
    /\ silence'    = [silence EXCEPT ![m.to] = 0]
    /\ leaderId'   = [leaderId EXCEPT ![m.to] = m.from]
    /\ inProgress' = [inProgress EXCEPT ![m.to] = FALSE]
    /\ UNCHANGED <<isLeader, seen, heard, overdue, vehicleVars, clock, failed, phase>>

OnElectionMessage(m) ==
    /\ Handling(m)
    /\ m.kind = "ELECTION" /\ Operational(m.to)
    /\ seen'  = [seen EXCEPT ![m.to] =
                     Kept([priority |-> m.priority, candidate |-> m.from], @)]
    /\ heard' = [heard EXCEPT ![m.to] = @ \cup {m.from}]
    /\ UNCHANGED <<isLeader, leaderId, inProgress, silence, overdue, vehicleVars,
                   clock, failed, phase>>

Lose(m) ==
    /\ Handling(m)
    /\ m.from \in Lossy \/ ~Operational(m.to)
    /\ UNCHANGED <<electionVars, overdue, vehicleVars, clock, failed, phase>>

Straggle(m) ==
    /\ Handling(m)
    /\ Stragglers /\ overdue = {}          \* bound: one straggler at a time
    /\ overdue' = {[m EXCEPT !.late = TRUE]}
    /\ UNCHANGED <<electionVars, vehicleVars, clock, failed, phase>>
-----------------------------------------------------------------------------
(***************************************************************************)
(* _run_elections: check_and_elect of every operational vehicle.  A leader *)
(* sends a heartbeat; a follower whose leader has been silent for longer   *)
(* than the timeout, or whose election is under way, sends its candidacy   *)
(* and declares victory when it has seen nobody better.  Everything sent   *)
(* takes at least 1 ms, so it is handled in a later step.                  *)
(***************************************************************************)

Electing(v) ==
    /\ Operational(v) /\ ~isLeader[v]
    /\ inProgress[v] \/ silence[v] > Timeout

\* Wrong versions: every tie is a victory; nobody declares unopposed.
DeclaresOnTie(v) == Electing(v) /\ Priority(v) >= seen[v].priority
DeclaresOpposed(v) ==
    /\ Electing(v) /\ seen[v].candidate # NoVehicle
    /\ Priority(v) >= seen[v].priority

Declares(v) ==
    /\ Electing(v)
    /\ \/ Priority(v) > seen[v].priority
       \/ Priority(v) = seen[v].priority /\ v <= seen[v].candidate

Sent ==
    {Heartbeat(v, w) : v \in {u \in Convoy : isLeader[u] \/ Declares(u)}, w \in Convoy}
    \cup UNION {{Candidacy(v, w, Priority(v)) : w \in Convoy} :
                    v \in {u \in Vehicle : Electing(u)}}

RunElections ==
    /\ phase = "deliver" /\ inFlight = {}
    /\ phase' = "move"
    /\ isLeader'   = [v \in Vehicle |-> isLeader[v] \/ Declares(v)]
    /\ leaderId'   = [v \in Vehicle |-> IF Declares(v) THEN v ELSE leaderId[v]]
    /\ inProgress' = [v \in Vehicle |->
                        IF Electing(v) THEN ~Declares(v) ELSE inProgress[v]]
    /\ seen' = [v \in Vehicle |->
                  IF Declares(v) THEN [priority |-> Priority(v), candidate |-> v]
                  ELSE seen[v]]
    /\ inFlight' = overdue \cup {m \in Sent : m.from # m.to}
    /\ overdue'  = {}
    /\ UNCHANGED <<silence, heard, vehicleVars, clock, failed>>

(***************************************************************************)
(* The rest of the loop body: operational vehicles burn fuel, may reach    *)
(* their destination (ARRIVED) or run dry (BREAKDOWN, by _check_fuel); in  *)
(* neither case is is_leader cleared.  Then the clock advances, and the    *)
(* loop goes on while a vehicle is operational.                            *)
(***************************************************************************)

StatusAfter(v, arrives, left) ==
    IF arrives THEN "ARRIVED"
    ELSE IF Operational(v) /\ left = 0 THEN "BREAKDOWN"
    ELSE status[v]

Move ==
    /\ phase = "move"
    /\ \E burning \in SUBSET Convoy, arriving \in SUBSET (Convoy \cap Departing) :
         /\ \A v \in burning \ Departing : fuel[v] > 1
         /\ fuel' = [v \in Vehicle |-> IF v \in burning THEN fuel[v] - 1 ELSE fuel[v]]
         /\ status' = [v \in Vehicle |->
                         StatusAfter(v, v \in arriving, fuel'[v])]
    /\ clock'   = Cap(clock + 1)
    /\ silence' = [v \in Vehicle |-> Cap(silence[v] + 1)]
    /\ phase'   = IF \E v \in Vehicle : status'[v] = "OPERATIONAL"
                  THEN "deliver" ELSE "done"
    /\ UNCHANGED <<isLeader, leaderId, inProgress, seen, heard, commsVars, failed>>

Next ==
    \/ LeaderFailure
    \/ \E m \in inFlight : OnHeartbeat(m) \/ OnElectionMessage(m) \/ Lose(m) \/ Straggle(m)
    \/ RunElections
    \/ Move

Spec == Init /\ [][Next]_vars

(***************************************************************************)
(* Fairness.  The loop runs step after step, so some step is always taken; *)
(* and heartbeats are lost with a probability below 1, so of infinitely    *)
(* many heartbeats sent from v to w some arrive.                           *)
(***************************************************************************)
HeartbeatsGetThrough ==
    \A v \in Vehicle : \A w \in Vehicle \ {v} : SF_vars(OnHeartbeat(Heartbeat(v, w)))

FairSpec     == Spec /\ WF_vars(Next)
ReliableSpec == FairSpec /\ HeartbeatsGetThrough
-----------------------------------------------------------------------------
\* Type invariant: what every field of the vehicles, elections and network may hold.
TypeOK ==
    /\ status \in [Vehicle -> Status]
    /\ fuel \in [Vehicle -> 0 .. MaxFuel]
    /\ isLeader \in [Vehicle -> BOOLEAN]
    /\ leaderId \in [Vehicle -> Vehicle \cup {NoVehicle}]
    /\ inProgress \in [Vehicle -> BOOLEAN]
    /\ seen \in [Vehicle -> [priority : Int, candidate : Vehicle \cup {NoVehicle}]]
    /\ silence \in [Vehicle -> 0 .. Timeout + 1]
    /\ clock \in 0 .. Timeout + 1
    /\ inFlight \subseteq Message
    /\ overdue \subseteq Message
    /\ failed \in BOOLEAN
    /\ phase \in {"deliver", "move", "done"}
    /\ heard \in [Vehicle -> SUBSET Vehicle]

BidOf(c) == [priority |-> Priority(c), candidate |-> c]

\* What a vehicle remembers of the best candidate is never worse than what any
\* candidate it heard since its reset could bid now: bids are never forgotten and,
\* fuel only falling, are outdated only upwards (on_election_message, reset).
MemoryNeverUnderestimates ==
    \A v \in Vehicle : \A c \in heard[v] : ~Beats(BidOf(c), seen[v])

\* A vehicle that declares victory is not beaten, tie-break included, by the
\* present bid of any vehicle whose candidacy it has heard since its reset, however
\* old that message is (check_and_elect).
VictoryIsJustified ==
    [][\A v \in Vehicle : ~isLeader[v] /\ isLeader'[v] =>
          \A c \in heard[v] : ~Beats(BidOf(c), BidOf(v))]_vars

\* A vehicle takes over from a leader it knows only after that leader, or any
\* other, has been silent for longer than the heartbeat timeout: an election in
\* progress that a heartbeat interrupts does not resume early (on_heartbeat).
NoEarlyTakeover ==
    [][\A v \in Vehicle : ~isLeader[v] /\ isLeader'[v] =>
          leaderId[v] = NoVehicle \/ silence[v] > Timeout]_vars

\* A vehicle that knows no leader is electing one: reset leaves no vehicle
\* waiting for a heartbeat nobody sends.
LeaderlessElects ==
    \A v \in Vehicle : leaderId[v] = NoVehicle => inProgress[v]

\* A convoy without an operational leader gets one again, or has nobody left.
LeaderEventually ==
    (Convoy # {} /\ CurrentLeaders = {}) ~> (Convoy = {} \/ CurrentLeaders # {})

\* In the end every vehicle follows a leader that is operational: no vehicle
\* keeps following one that broke down, whatever stale heartbeats were in flight.
FollowersSettle ==
    <>[](\A v \in Convoy : leaderId[v] \in CurrentLeaders)

\* tests/test_leader_election.py: "After election, exactly one leader should exist."
\* Once no vehicle is electing there are not two operational leaders.
ElectedLeaderIsUnique ==
    phase = "move" /\ (\A v \in Convoy : ~inProgress[v]) => Cardinality(CurrentLeaders) <= 1
=============================================================================
