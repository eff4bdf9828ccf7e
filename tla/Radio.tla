------------------------------- MODULE Radio -------------------------------
(***************************************************************************)
(* State broadcasts and their relays: CommsNetwork (comms/network.py),     *)
(* SimRunner._broadcast_states and _relay_messages, and the neighbour      *)
(* tables of the vehicles.  Each table is indexed by sender, and what      *)
(* happens to the states of one sender does not depend on another's: the   *)
(* module follows the states of one vehicle, Subject.                      *)
(*                                                                         *)
(* Time is counted in simulation steps and kept as ages.  The distances    *)
(* behind range and loss are inputs: who is in range, what is lost and how *)
(* long the rest takes are chosen freely.  _in_flight is a set, in which   *)
(* each copy tells its place: who put it in flight, and when.              *)
(***************************************************************************)
EXTENDS Integers

CONSTANTS
    Nodes,      \* vehicles, 0 .. Nodes - 1
    Subject,
    Interval,   \* broadcast_interval, in steps
    Period,     \* steps between broadcasts: the timer adds dt until it reaches the interval
    MaxDelay,   \* the longest latency, in steps
    MaxHops,    \* max_relay_hops
    InRange     \* the possible sets of pairs of vehicles in range of each other

Node == 0 .. Nodes - 1

RadioAssumption ==
    /\ Nodes \in Nat \ {0} /\ Subject \in Node
    /\ Interval \in Nat \ {0} /\ Period \in Nat /\ Period >= Interval
    /\ MaxDelay \in Nat \ {0} /\ MaxHops \in 0 .. 4
    /\ \A links \in InRange : links \subseteq Node \X Node

VARIABLES
    moment,     \* "tick", "transmit", "move"
    quiet,      \* steps since the last broadcast
    working,    \* operational vehicles
    muted,      \* the vehicles in CommsMode.SILENT, for the whole run
    flight,     \* _in_flight: copies [by, to, since, left, age, hops]
    table       \* the entry of Subject in each neighbor_states, or NoEntry

radioVars == <<moment, quiet, working, muted, flight, table>>

NoEntry == [age |-> -1, hops |-> -1]
Known(v) == table[v] # NoEntry

RadioInit ==
    /\ moment = "tick" /\ quiet = 1     \* the timer counts the first step too
    /\ working = Node /\ muted \in SUBSET (Node \ {Subject})
    /\ flight = {}
    /\ table = [v \in Node |-> NoEntry]
-----------------------------------------------------------------------------
Due(m) == m.left <= 0

\* The order of _in_flight: broadcast after broadcast, in each the originals first and
\* then the relays, vehicle after vehicle.
Precedes(m, n) ==
    \/ m.since > n.since
    \/ m.since = n.since /\ n.by # Subject /\ (m.by = Subject \/ m.by < n.by)

Arrived(v) == {m \in flight : m.to = v /\ Due(m)}
LastOf(S)  == CHOOSE m \in S : \A n \in S : ~Precedes(m, n)

\* update_neighbor for all v receives in one step: the last to arrive stays.
Heard(v) ==
    IF v \in working /\ Arrived(v) # {}
    THEN [age |-> LastOf(Arrived(v)).age, hops |-> LastOf(Arrived(v)).hops]
    ELSE table[v]

\* comms.tick and _process_messages.  A vehicle that has stopped leaves its inbox alone.
Deliver ==
    /\ moment = "tick"
    /\ table' = [v \in Node |-> Heard(v)]
    /\ flight' = {m \in flight : ~Due(m)}
    /\ moment' = "transmit"
    /\ UNCHANGED <<quiet, working, muted>>

(***************************************************************************)
(* _try_send to everyone in range: each copy is sent, and dropped or put   *)
(* in flight.                                                              *)
(***************************************************************************)
Speaks(v) == v \in working /\ v \notin muted

Hearers(links) ==
    IF Speaks(Subject) THEN {v \in working \ {Subject} : <<Subject, v>> \in links} ELSE {}

Recent(v) == Known(v) /\ table[v].age <= 2 * Interval

\* _relay_messages: the pairs of a vehicle and one to which it relays the state that it
\* holds.  The message is made anew, so relay_broadcast finds no path in it and its hop
\* count is always 0.
Relays(links) ==
    {p \in links : /\ MaxHops > 0 /\ Speaks(p[1]) /\ Recent(p[1])
                   /\ p[2] \in working \ {p[1], Subject} /\ ~Known(p[2])}

Lost == 0
Original(v, delay) ==
    [by |-> Subject, to |-> v, since |-> 0, left |-> delay, age |-> 0, hops |-> 0]
\* make_state_broadcast with the sender and the timestamp of the entry.
Relayed(p, delay) ==
    [by |-> p[1], to |-> p[2], since |-> 0, left |-> delay,
     age |-> table[p[1]].age, hops |-> table[p[1]].hops + 1]

\* Wrong version: nothing is pruned.
PrunedNever(entry) == entry

\* prune_stale_neighbors, for the vehicles that have stopped as well.
Pruned(entry) == IF entry.age > 3 * Interval THEN NoEntry ELSE entry

Transmit ==
    /\ moment = "transmit" /\ quiet >= Period
    /\ \E links \in InRange :
       \E sent \in [Hearers(links) -> Lost .. MaxDelay],
          passed \in [Relays(links) -> Lost .. MaxDelay] :
         flight' = flight
             \union {Original(v, sent[v]) : v \in {u \in Hearers(links) : sent[u] # Lost}}
             \union {Relayed(p, passed[p]) : p \in {q \in Relays(links) : passed[q] # Lost}}
    /\ table' = IF MaxHops > 0 THEN [v \in Node |-> Pruned(table[v])] ELSE table
    /\ quiet' = 0
    /\ moment' = "move"
    /\ UNCHANGED <<working, muted>>

KeepQuiet ==
    /\ moment = "transmit" /\ quiet < Period
    /\ moment' = "move"
    /\ UNCHANGED <<quiet, working, muted, flight, table>>

\* The rest of the step: vehicles stop, time passes.
Older(entry) == IF entry = NoEntry THEN entry ELSE [entry EXCEPT !.age = @ + 1]
OneStepOn(m) == [by |-> m.by, to |-> m.to, since |-> m.since + 1, left |-> m.left - 1,
                 age |-> m.age + 1, hops |-> m.hops]
RestOfStep ==
    /\ moment = "move"
    /\ \E halted \in SUBSET working : working' = working \ halted
    /\ quiet' = quiet + 1
    /\ table' = [v \in Node |-> Older(table[v])]
    /\ flight' = {OneStepOn(m) : m \in flight}
    /\ moment' = "tick"
    /\ UNCHANGED muted

RadioNext == Deliver \/ Transmit \/ KeepQuiet \/ RestOfStep

RadioSpec == RadioInit /\ [][RadioNext]_radioVars
-----------------------------------------------------------------------------
RadioTypeOK ==
    /\ moment \in {"tick", "transmit", "move"} /\ quiet \in 0 .. Period
    /\ working \subseteq Node /\ muted \subseteq Node
    /\ flight \subseteq [by : Node, to : Node, since : Nat, left : 0 .. MaxDelay,
                         age : Nat, hops : Nat]
    /\ table \in [Node -> [age : Nat, hops : Nat] \union {NoEntry}]

\* For how long a state is held at most, or relayed and on its way.
Longest == IF MaxDelay > Interval THEN 2 * Interval + MaxDelay ELSE 3 * Interval

\* The relays of one state die out, and none comes back to its vehicle: nothing in the air
\* is older than the two intervals for which it is relayed and the latency, no table holds a
\* state longer than three intervals, or as long as it may be on its way, and the broadcasts
\* it takes to notice, so a vehicle that stopped vanishes from all of them.  And what bounds
\* the length of a relay chain is the age of the state, not max_relay_hops: each hop waits
\* for the next broadcast.
RelaysDieOut ==
    /\ ~Known(Subject)
    /\ \A m \in flight : m.to # Subject /\ m.age <= 2 * Interval + MaxDelay
    /\ MaxHops > 0 => \A v \in Node : table[v].age <= Longest + Period
    /\ \A v \in Node : table[v].hops <= (2 * Interval) \div Period
=============================================================================
