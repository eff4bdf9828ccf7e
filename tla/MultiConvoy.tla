---------------------------- MODULE MultiConvoy ----------------------------
(***************************************************************************)
(* Several convoys in one simulation: MultiConvoyRunner (sim/              *)
(* multi_runner.py), ConvoyGroup, merge and split, right of way.  A step   *)
(* runs its phases in order; merging and right of way visit the pairs of   *)
(* convoys one after the other, and what one pair changes the next sees.   *)
(*                                                                         *)
(* Which leaders are near each other, who hears whom, who declares itself  *)
(* leader (module LeaderElection has the rule) and who stops are inputs.   *)
(* A heartbeat is in the air for one step.                                 *)
(***************************************************************************)
EXTENDS Integers, FiniteSets, Sequences, Functions

CONSTANTS
    Fleet,      \* vehicles, 0 .. Fleet - 1
    Starts,     \* the configurations: [scenario, members, priority]
    Duration,   \* yield_duration, in steps
    SplitAt,    \* the step of t = 60 s
    SplitMin,   \* split_min_vehicles
    MaxTime     \* bound: the steps of the run

Vehicle == 0 .. Fleet - 1
Group   == 0 .. 2
None    == -1

MultiAssumption ==
    /\ Fleet \in Nat \ {0} /\ SplitMin \in Nat \ {0} /\ Duration \in Nat \ {0}
    /\ SplitAt \in Nat /\ MaxTime \in Nat
    /\ \A s \in Starts :
         /\ s.members \in Seq(Seq(Vehicle) \ {<<>>}) /\ Len(s.members) \in 1 .. 3
         /\ s.priority \in [DOMAIN s.members -> Nat]
         /\ s.scenario = "convoy_split_reroute" => Len(s.members) = 1
         \* The vehicles are numbered convoy after convoy.
         /\ \A v \in Vehicle : \E i \in DOMAIN s.members : v \in Range(s.members[i])
         /\ \A i, j \in DOMAIN s.members :
              \A k \in DOMAIN s.members[i], l \in DOMAIN s.members[j] :
                i < j \/ (i = j /\ k < l) => s.members[i][k] < s.members[j][l]

VARIABLES
    scenario, phase, now,
    groups,     \* the keys of self.groups
    members,    \* ConvoyGroup.vehicles, in list order
    elections,  \* the keys of ConvoyGroup.elections
    priority, yielding,
    until,      \* ConvoyGroup.yield_until
    convoy,     \* Vehicle.convoy_id
    leaders,    \* the vehicles with is_leader
    follows,    \* Vehicle.leader_id
    stopped,    \* the vehicles that are not operational
    air,        \* the senders of heartbeats on their way
    divided,    \* _split_triggered
    todo,       \* pairs of convoys the running loop has still to visit
    crossing,   \* history: the pairs that crossed in this step
    cleared     \* history: the convoys whose yield ended in this step

convoys   == <<groups, members, elections, convoy, divided>>
yields    == <<yielding, until, crossing, cleared>>
ranks     == <<leaders, follows>>
multiVars == <<scenario, phase, now, convoys, priority, yields, ranks, stopped, air, todo>>

Members(g)   == Range(members[g])
Moving       == Vehicle \ stopped
\* ConvoyGroup.get_leader is not None.
HasLeader(g) == \E v \in Members(g) : v \in leaders \ stopped

NonEmpty == {g \in groups : members[g] # <<>>}

\* The pairs i < j of the convoys in S, and the one the two nested loops visit first.
Pairs(S) == {p \in S \X S : p[1] < p[2]}
Earlier(p, q) == p[1] < q[1] \/ (p[1] = q[1] /\ p[2] < q[2])
Foremost(p) == p \in todo /\ \A q \in todo \ {p} : Earlier(p, q)

MultiInit ==
    \E s \in Starts :
      LET ids == 0 .. Len(s.members) - 1
          listOf(g) == IF g \in ids THEN s.members[g + 1] ELSE <<>>
          home(v) == CHOOSE g \in ids : v \in Range(s.members[g + 1])
      IN /\ scenario = s.scenario
         /\ groups = ids
         /\ members = [g \in Group |-> listOf(g)]
         /\ elections = [g \in Group |-> Range(listOf(g))]
         /\ priority = [g \in Group |-> IF g \in ids THEN s.priority[g + 1] ELSE 0]
         /\ convoy = [v \in Vehicle |-> home(v)]
         /\ leaders = {Head(listOf(g)) : g \in ids}
         /\ follows = [v \in Vehicle |-> Head(listOf(home(v)))]
         /\ phase = "events" /\ now = 0 /\ todo = {}
         /\ yielding = [g \in Group |-> FALSE] /\ until = [g \in Group |-> 0]
         /\ stopped = {} /\ air = {} /\ divided = FALSE
         /\ crossing = {} /\ cleared = {}
-----------------------------------------------------------------------------
\* LeaderElection.reset for the vehicles in S.
ResetAll(S) ==
    /\ leaders' = leaders \ S
    /\ follows' = [v \in Vehicle |-> IF v \in S THEN None ELSE follows[v]]

\* What split_convoy does to the ranks: all are reset, then the first of the new
\* convoy is designated, operational or not.
Regroup(S, first, follower) ==
    /\ leaders' = (leaders \ S) \union {first}
    /\ follows' = [v \in Vehicle |-> IF v \in follower THEN first
                                     ELSE IF v \in S THEN None ELSE follows[v]]

(***************************************************************************)
(* convoy_split_reroute, once: the second half of convoy 0 becomes convoy  *)
(* 1, unless either part would be too small.  The halves go by id, which   *)
(* is the order of the list, as nothing is merged in this scenario.        *)
(***************************************************************************)
SplitDue == scenario = "convoy_split_reroute" /\ ~divided /\ now >= SplitAt

Split ==
    LET mid   == Len(members[0]) \div 2
        stay  == SubSeq(members[0], 1, mid)
        leave == SubSeq(members[0], mid + 1, Len(members[0]))
        gone  == Range(leave)
    IN /\ phase = "events" /\ SplitDue
       /\ divided' = TRUE
       /\ IF Len(stay) < SplitMin \/ Len(leave) < SplitMin
          THEN UNCHANGED <<groups, members, elections, convoy, priority, ranks>>
          ELSE /\ groups' = groups \union {1}
               /\ members' = [members EXCEPT ![0] = stay, ![1] = leave]
               /\ elections' = [elections EXCEPT ![0] = @ \ gone, ![1] = gone]
               /\ convoy' = [v \in Vehicle |-> IF v \in gone THEN 1 ELSE convoy[v]]
               /\ priority' = [priority EXCEPT ![1] = 0]
               /\ Regroup(Members(0), Head(leave), gone)
       /\ phase' = "coordinate"
       /\ UNCHANGED <<scenario, now, yields, stopped, air, todo>>

NoSplit ==
    /\ phase = "events" /\ ~SplitDue
    /\ IF scenario = "convoy_merge"
       THEN phase' = "merge" /\ todo' = Pairs(groups)
       ELSE phase' = "coordinate" /\ UNCHANGED todo
    /\ UNCHANGED <<scenario, now, convoys, priority, yields, ranks, stopped, air>>

CanMerge(a, b) == ~yielding[a] /\ ~yielding[b] /\ HasLeader(a) /\ HasLeader(b)

Absorber(a, b) ==
    IF priority[a] > priority[b] \/ (priority[a] = priority[b] /\ a < b) THEN a ELSE b

\* Wrong version: the vehicles move without their elections.
AbsorbWithoutElections(keep, lose) ==
    /\ members' = [members EXCEPT ![keep] = @ \o members[lose], ![lose] = <<>>]
    /\ convoy' = [v \in Vehicle |-> IF v \in Members(lose) THEN keep ELSE convoy[v]]
    /\ priority' = [priority EXCEPT ![keep] = IF priority[lose] > @ THEN priority[lose] ELSE @]
    /\ ResetAll(Members(keep) \union Members(lose))
    /\ UNCHANGED elections

\* merge_convoys: the other one's vehicles move over, with elections of their own.
Absorb(keep, lose) ==
    /\ members' = [members EXCEPT ![keep] = @ \o members[lose], ![lose] = <<>>]
    /\ convoy' = [v \in Vehicle |-> IF v \in Members(lose) THEN keep ELSE convoy[v]]
    /\ elections' = [elections EXCEPT ![keep] = @ \union Members(lose)]
    /\ priority' = [priority EXCEPT ![keep] = IF priority[lose] > @ THEN priority[lose] ELSE @]
    /\ ResetAll(Members(keep) \union Members(lose))

\* One pair of _check_merge: its leaders are near each other, or not.
CheckMerge ==
    /\ phase = "merge"
    /\ \E p \in todo :
         /\ Foremost(p) /\ todo' = todo \ {p}
         /\ LET keep == Absorber(p[1], p[2])
            IN \/ UNCHANGED <<members, elections, convoy, priority, ranks>>
               \/ CanMerge(p[1], p[2]) /\ Absorb(keep, IF keep = p[1] THEN p[2] ELSE p[1])
    /\ UNCHANGED <<scenario, phase, now, groups, divided, yields, stopped, air>>

MergesChecked ==
    /\ phase = "merge" /\ todo = {}
    /\ phase' = "coordinate"
    /\ UNCHANGED <<scenario, now, convoys, priority, yields, ranks, stopped, air, todo>>
-----------------------------------------------------------------------------
\* The heartbeats v may act on: those of its own convoy.
Heeded(v) == air \intersect Members(convoy[v])

(***************************************************************************)
(* _process_messages_for_group and _run_elections_for_group over all the   *)
(* convoys.  One that leads sends a heartbeat and remains leader.          *)
(***************************************************************************)
Coordinate ==
    /\ phase = "coordinate"
    /\ \E elected \in SUBSET (Moving \ leaders) :
       \E hear \in [Moving -> air \union {None}] :
         /\ leaders' = leaders \union elected
         /\ follows' = [v \in Vehicle |->
                IF v \in elected THEN v
                ELSE IF v \in Moving /\ hear[v] \in Heeded(v) THEN hear[v]
                ELSE follows[v]]
    /\ air' = leaders' \ stopped
    /\ phase' = "right_of_way"
    /\ todo' = Pairs(NonEmpty)
    /\ crossing' = {} /\ cleared' = {}
    /\ UNCHANGED <<scenario, now, convoys, priority, yielding, until, stopped>>

\* Wrong version: of two equals both yield.
YieldersBoth(a, b) ==
    IF yielding[a] \/ yielding[b] THEN {}
    ELSE {g \in {a, b} : \A h \in {a, b} : priority[g] <= priority[h]}

\* resolve_right_of_way: nobody if one of them yields already, else the lower
\* priority, and the higher id of two equal ones.
Yielders(a, b) ==
    IF yielding[a] \/ yielding[b] THEN {}
    ELSE IF priority[a] < priority[b] THEN {a}
    ELSE IF priority[b] < priority[a] THEN {b}
    ELSE IF a > b THEN {a} ELSE {b}

CheckRightOfWay ==
    /\ phase = "right_of_way"
    /\ \E p \in todo :
         /\ Foremost(p) /\ todo' = todo \ {p}
         /\ \/ UNCHANGED <<yielding, until, crossing>>
            \/ LET yielders == Yielders(p[1], p[2])
               IN /\ HasLeader(p[1]) /\ HasLeader(p[2])
                  /\ yielding' = [g \in Group |-> yielding[g] \/ g \in yielders]
                  /\ until' = [g \in Group |-> IF g \in yielders THEN now + Duration ELSE until[g]]
                  /\ crossing' = crossing \union {p}
    /\ UNCHANGED <<scenario, phase, now, convoys, priority, cleared, ranks, stopped, air>>

Expired(g) == yielding[g] /\ now >= until[g]

ClearYields ==
    /\ phase = "right_of_way" /\ todo = {}
    /\ cleared' = {g \in groups : Expired(g)}
    /\ yielding' = [g \in Group |-> yielding[g] /\ g \notin cleared']
    /\ until' = [g \in Group |-> IF g \in cleared' THEN 0 ELSE until[g]]
    /\ phase' = "drive"
    /\ UNCHANGED <<scenario, now, convoys, priority, crossing, ranks, stopped, air, todo>>

\* _step_vehicles_for_group and _check_fuel: some arrive, some run dry.  A broken
\* leader keeps is_leader.  The run ends when no vehicle is left, or its time is up.
StepVehicles ==
    /\ phase = "drive"
    /\ \E halted \in SUBSET Moving : stopped' = stopped \union halted
    /\ IF stopped' = Vehicle \/ now = MaxTime
       THEN phase' = "done" /\ UNCHANGED now
       ELSE phase' = "events" /\ now' = now + 1
    /\ UNCHANGED <<scenario, convoys, priority, yields, ranks, air, todo>>

MultiNext == \/ Split \/ NoSplit \/ CheckMerge \/ MergesChecked \/ Coordinate
             \/ CheckRightOfWay \/ ClearYields \/ StepVehicles

MultiSpec == MultiInit /\ [][MultiNext]_multiVars
-----------------------------------------------------------------------------
MultiTypeOK ==
    /\ phase \in {"events", "merge", "coordinate", "right_of_way", "drive", "done"}
    /\ now \in 0 .. MaxTime
    /\ groups \subseteq Group /\ members \in [Group -> Seq(Vehicle)]
    /\ elections \in [Group -> SUBSET Vehicle] /\ priority \in [Group -> Nat]
    /\ yielding \in [Group -> BOOLEAN] /\ until \in [Group -> Nat]
    /\ convoy \in [Vehicle -> Group] /\ follows \in [Vehicle -> Vehicle \union {None}]
    /\ leaders \subseteq Vehicle /\ stopped \subseteq Vehicle /\ air \subseteq Vehicle
    /\ divided \in BOOLEAN /\ todo \subseteq Group \X Group
    /\ crossing \subseteq Group \X Group /\ cleared \subseteq Group

\* Whatever was merged or split, every vehicle is in the list of the convoy its
\* convoy_id names, once, in no other, and has an entry in the elections of that convoy:
\* collisions are told apart as inside a convoy or between convoys by convoy_id,
\* everything else goes by the lists, and the message and election phases index the
\* elections without asking.  And a vehicle follows a member of its own convoy or nobody,
\* although heartbeats of the convoy it left, or was left by, are still in the air.
ConvoysPartition ==
    /\ \A g \in Group : IsInjective(members[g]) /\ Members(g) = {v \in Vehicle : convoy[v] = g}
    /\ \A g \in groups : Members(g) \subseteq elections[g]
    /\ \A v \in Vehicle : follows[v] \in Members(convoy[v]) \union {None}

\* Right of way starves nobody and settles every crossing: of the convoys with vehicles one
\* does not yield, so no two wait for each other; while vehicles move, every yield in force
\* began at most Duration ago, and of two convoys that cross one holds back, unless the
\* yield of one of them ended in this very step.
RightOfWay ==
    /\ \E g \in NonEmpty : ~yielding[g]
    /\ phase = "drive" =>
         /\ \A g \in Group : yielding[g] => until[g] \in now + 1 .. now + Duration
         /\ \A p \in crossing :
              \E g \in {p[1], p[2]} : yielding[g] \/ g \in cleared
=============================================================================
