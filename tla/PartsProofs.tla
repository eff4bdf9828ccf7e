---------------------------- MODULE PartsProofs ----------------------------
(***************************************************************************)
(* What the parts of the simulation and of the governance service that are *)
(* modelled apart from the core promise, for every value of their          *)
(* constants.  The parts have no name in common, so that they are proved   *)
(* in one module, one after the other: several convoys, collisions,        *)
(* routes, driving, the position estimate, jamming, the accuracy guard,    *)
(* migrations, the shared services, the request handlers, the verdict, the *)
(* rate limit, the radio, the formation and replays.                       *)
(***************************************************************************)
EXTENDS MultiConvoy, Collisions, Routes, Driving, Estimate, Jamming, Radio, Formation,
        Migrations, Feedback, Services, Handlers, Auth, Replay,
        FiniteSetTheorems, SequenceTheorems, TLAPS

-----------------------------------------------------------------------------
\* A set of natural numbers has a least one: the sets 1 .. n are well founded under
\* inclusion.
LEMMA LeastNatural ==
    ASSUME NEW T \in SUBSET Nat, T # {}
    PROVE  \E x \in T : \A y \in T : x <= y
<1> DEFINE U == {1 .. n : n \in T}
<1>1. U \subseteq FiniteSubsetsOf(Nat)
  BY FS_Interval DEF FiniteSubsetsOf
<1>2. U # {}
  OBVIOUS
<1>3. IsWellFoundedOn(StrictSubsetOrdering(Nat), FiniteSubsetsOf(Nat))
  BY FS_StrictSubsetOrderingWellFounded
<1>4. PICK u \in U : \A w \in U : ~(<<w, u>> \in StrictSubsetOrdering(Nat))
  <2> HIDE DEF U
  <2> QED BY <1>1, <1>2, <1>3, WFMin
<1>5. PICK x \in T : u = 1 .. x
  OBVIOUS
<1>6. ASSUME NEW y \in T, y < x
      PROVE  FALSE
  <2>1. <<1 .. y, 1 .. x>> \in StrictSubsetOrdering(Nat)
    BY <1>6 DEF StrictSubsetOrdering
  <2> QED BY <2>1, <1>4, <1>5
<1> QED BY <1>6

-----------------------------------------------------------------------------
(***************************************************************************)
(* MultiConvoy.  Lists that are joined, or cut in two, hold everybody as   *)
(* often as before.                                                        *)
(***************************************************************************)
LEMMA JoinedLists ==
    ASSUME NEW S, NEW s \in Seq(S), NEW t \in Seq(S)
    PROVE  /\ s \o t \in Seq(S) /\ Range(s \o t) = Range(s) \union Range(t)
           /\ IsInjective(s) /\ IsInjective(t) /\ Range(s) \intersect Range(t) = {}
                => IsInjective(s \o t)
<1>1. /\ s \o t \in Seq(S) /\ Len(s) \in Nat /\ Len(t) \in Nat
      /\ Len(s \o t) = Len(s) + Len(t)
      /\ \A i \in 1 .. Len(s) + Len(t) :
           (s \o t)[i] = IF i <= Len(s) THEN s[i] ELSE t[i - Len(s)]
  OBVIOUS
<1>2. DOMAIN s = 1 .. Len(s) /\ DOMAIN t = 1 .. Len(t) /\ DOMAIN (s \o t) = 1 .. Len(s) + Len(t)
  BY <1>1
<1> DEFINE u == s \o t
<1> HIDE DEF u
<1>3. \A i \in DOMAIN u : \/ i \in DOMAIN s /\ u[i] = s[i]
                          \/ i > Len(s) /\ i - Len(s) \in DOMAIN t /\ u[i] = t[i - Len(s)]
  BY <1>1, <1>2 DEF u
<1>4. \A i \in DOMAIN s : i \in DOMAIN u /\ u[i] = s[i]
  BY <1>1, <1>2 DEF u
<1>5. \A i \in DOMAIN t : i + Len(s) \in DOMAIN u /\ u[i + Len(s)] = t[i]
  BY <1>1, <1>2 DEF u
<1>6. Range(u) = Range(s) \union Range(t)
  <2>1. Range(u) \subseteq Range(s) \union Range(t)
    BY <1>3 DEF Range
  <2>2. Range(s) \subseteq Range(u)
    BY <1>4 DEF Range
  <2>3. Range(t) \subseteq Range(u)
    BY <1>5 DEF Range
  <2> QED BY <2>1, <2>2, <2>3
<1>7. ASSUME IsInjective(s), IsInjective(t), Range(s) \intersect Range(t) = {},
             NEW i \in DOMAIN u, NEW j \in DOMAIN u, u[i] = u[j]
      PROVE  i = j
  <2>1. CASE i \in DOMAIN s /\ j \in DOMAIN s
    BY <2>1, <1>4, <1>7 DEF IsInjective
  <2>2. CASE i \notin DOMAIN s /\ j \notin DOMAIN s
    <3>1. i - Len(s) \in DOMAIN t /\ j - Len(s) \in DOMAIN t /\ t[i - Len(s)] = t[j - Len(s)]
      BY <2>2, <1>3, <1>7
    <3>2. i - Len(s) = j - Len(s)
      BY <3>1, <1>7 DEF IsInjective
    <3> QED BY <3>2, <1>1, <1>2 DEF u
  <2>3. CASE (i \in DOMAIN s) # (j \in DOMAIN s)
    <3>1. u[i] \in Range(s) /\ u[i] \in Range(t)
      BY <2>3, <1>3, <1>4, <1>7 DEF Range
    <3> QED BY <3>1, <1>7
  <2> QED BY <2>1, <2>2, <2>3
<1> QED BY <1>1, <1>6, <1>7 DEF u, IsInjective

LEMMA CutLists ==
    ASSUME NEW S, NEW s \in Seq(S), NEW m \in 0 .. Len(s), IsInjective(s)
    PROVE  LET a == SubSeq(s, 1, m)
               b == SubSeq(s, m + 1, Len(s))
           IN /\ a \in Seq(S) /\ b \in Seq(S) /\ Len(a) = m /\ Len(b) = Len(s) - m
              /\ IsInjective(a) /\ IsInjective(b)
              /\ Range(a) \intersect Range(b) = {} /\ Range(a) \union Range(b) = Range(s)
<1> DEFINE a == SubSeq(s, 1, m)
           b == SubSeq(s, m + 1, Len(s))
<1>1. /\ Len(s) \in Nat /\ DOMAIN s = 1 .. Len(s)
      /\ a \in Seq(S) /\ Len(a) = m /\ DOMAIN a = 1 .. m /\ \A i \in 1 .. m : a[i] = s[i]
  OBVIOUS
<1>2. /\ b \in Seq(S) /\ Len(b) = Len(s) - m /\ DOMAIN b = 1 .. Len(s) - m
      /\ \A i \in 1 .. Len(s) - m : b[i] = s[m + i]
  OBVIOUS
<1> HIDE DEF a, b
<1>3. IsInjective(a)
  BY <1>1 DEF IsInjective
<1>4. IsInjective(b)
  <2> SUFFICES ASSUME NEW i \in 1 .. Len(s) - m, NEW j \in 1 .. Len(s) - m, b[i] = b[j]
               PROVE  i = j
    BY <1>2 DEF IsInjective
  <2>1. m + i \in DOMAIN s /\ m + j \in DOMAIN s /\ s[m + i] = s[m + j]
    BY <1>1, <1>2
  <2>2. m + i = m + j
    BY <2>1 DEF IsInjective
  <2> QED BY <2>2, <1>1
<1>5. Range(a) \intersect Range(b) = {}
  <2> SUFFICES ASSUME NEW i \in 1 .. m, NEW j \in 1 .. Len(s) - m, a[i] = b[j]
               PROVE  FALSE
    BY <1>1, <1>2 DEF Range
  <2>1. i \in DOMAIN s /\ m + j \in DOMAIN s /\ s[i] = s[m + j]
    BY <1>1, <1>2
  <2>2. i = m + j
    BY <2>1 DEF IsInjective
  <2> QED BY <2>2, <1>1
<1>6. Range(a) \union Range(b) = Range(s)
  <2>1. \A i \in DOMAIN s : s[i] \in Range(a) \union Range(b)
    <3> SUFFICES ASSUME NEW i \in 1 .. Len(s)
                 PROVE  s[i] \in Range(a) \union Range(b)
      BY <1>1
    <3>1. CASE i <= m
      <4>1. i \in DOMAIN a /\ s[i] = a[i]
        BY <1>1, <3>1
      <4> QED BY <4>1 DEF Range
    <3>2. CASE i > m
      <4>1. i - m \in DOMAIN b /\ s[i] = b[i - m]
        BY <1>1, <1>2, <3>2
      <4> QED BY <4>1 DEF Range
    <3> QED BY <3>1, <3>2, <1>1
  <2>2. \A i \in DOMAIN a : i \in DOMAIN s /\ a[i] = s[i]
    BY <1>1
  <2>3. \A i \in DOMAIN b : m + i \in DOMAIN s /\ b[i] = s[m + i]
    BY <1>1, <1>2
  <2> QED BY <2>1, <2>2, <2>3 DEF Range
<1> QED BY <1>1, <1>2, <1>3, <1>4, <1>5, <1>6 DEF a, b

(***************************************************************************)
(* What holds between the steps of a run: the lists, the names and the     *)
(* elections agree; the running loop visits pairs of convoys with          *)
(* vehicles; and whoever yields is outranked, has begun to in time, and    *)
(* settled the crossings visited so far.                                   *)
(***************************************************************************)
Grouped ==
    /\ members \in [Group -> Seq(Vehicle)] /\ convoy \in [Vehicle -> Group]
    /\ groups \subseteq Group /\ elections \in [Group -> SUBSET Vehicle]
    /\ follows \in [Vehicle -> Vehicle \union {None}]
    /\ \A v \in Vehicle : convoy[v] \in groups
    /\ ConvoysPartition

Ranked ==
    /\ priority \in [Group -> Nat] /\ yielding \in [Group -> BOOLEAN]
    /\ until \in [Group -> Nat] /\ now \in Nat
    /\ todo \subseteq Pairs(groups) /\ crossing \subseteq Pairs(Group)
    /\ phase = "right_of_way" => todo \subseteq Pairs(NonEmpty)
    /\ scenario = "convoy_split_reroute" /\ ~divided
         => groups = {0} /\ \A g \in Group : ~yielding[g]

Outranks(g, h) == priority[g] > priority[h] \/ (priority[g] = priority[h] /\ g < h)

Outranked ==
    \A g \in Group : yielding[g] => g \in NonEmpty /\ \E h \in NonEmpty : Outranks(h, g)

Settled ==
    /\ \A g \in Group : yielding[g] => until[g] \in now .. now + Duration
    /\ phase = "right_of_way" => \A p \in crossing : yielding[p[1]] \/ yielding[p[2]]
    /\ phase = "drive" =>
         /\ \A g \in Group : yielding[g] => until[g] \in now + 1 .. now + Duration
         /\ \A p \in crossing : \E g \in {p[1], p[2]} : yielding[g] \/ g \in cleared

LEMMA EmptyLists ==
    ASSUME NEW S, NEW s \in Seq(S)
    PROVE  Range(s) = {} <=> s = <<>>
<1>1. DOMAIN s = 1 .. Len(s) /\ Len(s) \in Nat /\ (s = <<>> <=> Len(s) = 0)
  BY EmptySeq
<1>2. s # <<>> => s[1] \in Range(s)
  BY <1>1 DEF Range
<1>3. s = <<>> => DOMAIN s = {}
  BY <1>1
<1> QED BY <1>2, <1>3 DEF Range

LEMMA ListsHoldSomebody ==
    ASSUME Grouped
    PROVE  /\ \A g \in Group : Members(g) # {} <=> members[g] # <<>>
           /\ \A v \in Vehicle : v \in Members(convoy[v]) /\ convoy[v] \in NonEmpty
           /\ NonEmpty \subseteq Group
<1>1. \A g \in Group : Members(g) # {} <=> members[g] # <<>>
  BY EmptyLists DEF Grouped, Members
<1>2. \A v \in Vehicle : v \in Members(convoy[v])
  BY DEF Grouped, ConvoysPartition
<1> QED BY <1>1, <1>2 DEF Grouped, NonEmpty

LEMMA MultiInitGrouped ==
    ASSUME MultiAssumption, MultiInit
    PROVE  Grouped /\ Ranked /\ Outranked /\ Settled
<1>1. PICK s \in Starts :
        LET ids == 0 .. Len(s.members) - 1
            listOf(g) == IF g \in ids THEN s.members[g + 1] ELSE <<>>
            home(v) == CHOOSE g \in ids : v \in Range(s.members[g + 1])
        IN /\ scenario = s.scenario
           /\ groups = ids
           /\ members = [g \in Group |-> listOf(g)]
           /\ elections = [g \in Group |-> Range(listOf(g))]
           /\ priority = [g \in Group |-> IF g \in ids THEN s.priority[g + 1] ELSE 0]
           /\ convoy = [v \in Vehicle |-> home(v)]
           /\ leaders = {Head(listOf(g)) : g \in ids}
           /\ follows = [v \in Vehicle |-> Head(listOf(home(v)))]
           /\ phase = "events" /\ now = 0 /\ todo = {}
           /\ yielding = [g \in Group |-> FALSE] /\ until = [g \in Group |-> 0]
           /\ stopped = {} /\ air = {} /\ divided = FALSE
           /\ crossing = {} /\ cleared = {}
  BY DEF MultiInit
<1> DEFINE lists == s.members
           ids == 0 .. Len(lists) - 1
           listOf(g) == IF g \in ids THEN lists[g + 1] ELSE <<>>
           home(v) == CHOOSE g \in ids : v \in Range(lists[g + 1])
<1>2. /\ lists \in Seq(Seq(Vehicle) \ {<<>>}) /\ Len(lists) \in 1 .. 3
      /\ s.priority \in [DOMAIN lists -> Nat]
      /\ s.scenario = "convoy_split_reroute" => Len(lists) = 1
      /\ \A v \in Vehicle : \E i \in DOMAIN lists : v \in Range(lists[i])
      /\ \A i, j \in DOMAIN lists :
           \A k \in DOMAIN lists[i], l \in DOMAIN lists[j] :
             i < j \/ (i = j /\ k < l) => lists[i][k] < lists[j][l]
  BY DEF MultiAssumption
<1> HIDE DEF lists
<1>0. DOMAIN lists = 1 .. Len(lists) /\ Len(lists) \in {1, 2, 3}
  BY <1>2
<1>3. ids \subseteq Group /\ \A g \in ids : g + 1 \in DOMAIN lists
  BY <1>0 DEF Group
<1>4. \A i \in DOMAIN lists : lists[i] \in Seq(Vehicle) /\ lists[i] # <<>> /\ i - 1 \in ids
  <2> SUFFICES ASSUME NEW i \in DOMAIN lists
               PROVE  lists[i] \in Seq(Vehicle) /\ lists[i] # <<>> /\ i - 1 \in ids
    OBVIOUS
  <2>1. i \in 1 .. Len(lists) /\ i - 1 \in ids
    BY <1>0
  <2>2. lists[i] \in Seq(Vehicle) \ {<<>>}
    BY <2>1, <1>2, ElementOfSeq, Zenon
  <2> QED BY <2>1, <2>2
<1>5. ASSUME NEW i \in DOMAIN lists, NEW j \in DOMAIN lists,
             NEW k \in DOMAIN lists[i], NEW l \in DOMAIN lists[j], lists[i][k] = lists[j][l]
      PROVE  i = j /\ k = l
  <2>1. /\ i \in Nat /\ j \in Nat /\ k \in Nat /\ l \in Nat
        /\ lists[i][k] \in Int /\ lists[j][l] \in Int
    <3>1. /\ i \in Nat /\ j \in Nat /\ lists[i] \in Seq(Vehicle) /\ lists[j] \in Seq(Vehicle)
      BY <1>0, <1>4
    <3>2. /\ DOMAIN lists[i] = 1 .. Len(lists[i]) /\ DOMAIN lists[j] = 1 .. Len(lists[j])
          /\ lists[i][k] \in Vehicle /\ lists[j][l] \in Vehicle
      BY <3>1
    <3> QED BY <3>1, <3>2 DEF Vehicle
  <2>2. ~(lists[i][k] < lists[j][l]) /\ ~(lists[j][l] < lists[i][k])
    BY <1>5, <2>1
  <2> QED BY <2>1, <2>2, <1>2
<1>6. \A v \in Vehicle : home(v) \in ids /\ v \in Range(lists[home(v) + 1])
  <2> SUFFICES ASSUME NEW v \in Vehicle
               PROVE  home(v) \in ids /\ v \in Range(lists[home(v) + 1])
    OBVIOUS
  <2>1. PICK i \in DOMAIN lists : v \in Range(lists[i])
    BY <1>2
  <2>2. i - 1 \in ids /\ (i - 1) + 1 = i
    BY <1>0
  <2>3. \E g \in ids : v \in Range(lists[g + 1])
    BY <2>1, <2>2
  <2> QED BY <2>3
<1>7. /\ scenario = s.scenario /\ groups = ids
      /\ members = [g \in Group |-> listOf(g)]
      /\ elections = [g \in Group |-> Range(listOf(g))]
      /\ priority = [g \in Group |-> IF g \in ids THEN s.priority[g + 1] ELSE 0]
      /\ convoy = [v \in Vehicle |-> home(v)]
      /\ follows = [v \in Vehicle |-> Head(listOf(home(v)))]
      /\ phase = "events" /\ now = 0 /\ todo = {} /\ crossing = {}
      /\ yielding = [g \in Group |-> FALSE] /\ until = [g \in Group |-> 0]
  BY <1>1 DEF lists
<1> HIDE DEF ids, listOf, home
<1>8. \A g \in Group : listOf(g) \in Seq(Vehicle) /\ Range(listOf(g)) \subseteq Vehicle /\ IsInjective(listOf(g))
  <2> SUFFICES ASSUME NEW g \in Group
               PROVE  /\ listOf(g) \in Seq(Vehicle) /\ Range(listOf(g)) \subseteq Vehicle
                      /\ IsInjective(listOf(g))
    OBVIOUS
  <2>1. CASE g \in ids
    <3>1. listOf(g) = lists[g + 1] /\ g + 1 \in DOMAIN lists
      BY <2>1, <1>3 DEF listOf
    <3>2. IsInjective(lists[g + 1])
      BY <3>1, <1>5 DEF IsInjective
    <3>3. \A q \in Seq(Vehicle) : Range(q) \subseteq Vehicle
      BY DEF Range
    <3> QED BY <3>1, <3>2, <3>3, <1>4
  <2>2. CASE g \notin ids
    <3>1. listOf(g) = <<>>
      BY <2>2 DEF listOf
    <3>2. DOMAIN <<>> = {} /\ <<>> \in Seq(Vehicle)
      OBVIOUS
    <3> QED BY <3>1, <3>2 DEF Range, IsInjective
  <2> QED BY <2>1, <2>2
<1>9. \A g \in Group, v \in Vehicle : v \in Range(listOf(g)) <=> home(v) = g
  <2> SUFFICES ASSUME NEW g \in Group, NEW v \in Vehicle
               PROVE  v \in Range(listOf(g)) <=> home(v) = g
    OBVIOUS
  <2>1. home(v) \in ids /\ v \in Range(lists[home(v) + 1])
    BY <1>6
  <2>2. listOf(home(v)) = lists[home(v) + 1] /\ home(v) + 1 \in DOMAIN lists
    BY <2>1, <1>3 DEF listOf
  <2>3. ASSUME v \in Range(listOf(g))
        PROVE  home(v) = g
    <3>1. g \in ids
      BY <2>3 DEF listOf, Range
    <3>2. g + 1 \in DOMAIN lists /\ listOf(g) = lists[g + 1]
      BY <3>1, <1>3 DEF listOf
    <3>3. PICK k \in DOMAIN lists[g + 1] : lists[g + 1][k] = v
      BY <2>3, <3>2 DEF Range
    <3>4. PICK l \in DOMAIN lists[home(v) + 1] : lists[home(v) + 1][l] = v
      BY <2>1 DEF Range
    <3>5. g + 1 = home(v) + 1
      BY <3>2, <3>3, <3>4, <2>2, <1>5
    <3> QED BY <3>1, <3>5, <2>1 DEF ids
  <2> QED BY <2>1, <2>2, <2>3
<1>10. \A v \in Vehicle : Head(listOf(home(v))) \in Range(listOf(home(v)))
  <2> SUFFICES ASSUME NEW v \in Vehicle
               PROVE  Head(listOf(home(v))) \in Range(listOf(home(v)))
    OBVIOUS
  <2> DEFINE list == listOf(home(v))
  <2>1. list \in Seq(Vehicle) /\ list # <<>>
    BY <1>3, <1>4, <1>6 DEF listOf
  <2> HIDE DEF list
  <2>2. Head(list) = list[1] /\ 1 \in DOMAIN list
    BY <2>1, EmptySeq
  <2>3. Head(list) \in Range(list)
    BY <2>2 DEF Range
  <2> QED BY <2>3 DEF list
<1>11. Grouped
  BY <1>3, <1>6, <1>7, <1>8, <1>9, <1>10 DEF Grouped, ConvoysPartition, Members
<1>12. priority \in [Group -> Nat]
  BY <1>2, <1>3, <1>7
<1>13. Ranked
  <2>1. scenario = "convoy_split_reroute" => groups = {0}
    <3>1. Len(lists) = 1 => ids = {0}
      BY DEF ids
    <3> QED BY <3>1, <1>2, <1>7
  <2> QED BY <2>1, <1>7, <1>12 DEF Ranked
<1> QED BY <1>7, <1>11, <1>13 DEF Outranked, Settled

LEMMA StillGrouped ==
    ASSUME Grouped, UNCHANGED <<groups, members, elections, convoy, follows>>
    PROVE  Grouped'
BY DEF Grouped, ConvoysPartition, Members

LEMMA PairsAreRanked ==
    ASSUME NEW S \in SUBSET Group, NEW p \in Pairs(S)
    PROVE  /\ p[1] \in S /\ p[2] \in S /\ p[1] \in Group /\ p[2] \in Group
           /\ p[1] < p[2] /\ p \in Pairs(Group) /\ p[1] # p[2]
<1>1. p \in S \X S /\ p[1] < p[2]
  BY DEF Pairs
<1>2. p[1] \in S /\ p[2] \in S /\ p[1] \in Group /\ p[2] \in Group /\ p \in Group \X Group
  BY <1>1
<1>3. p[1] # p[2]
  BY <1>1, <1>2 DEF Group
<1> QED BY <1>1, <1>2, <1>3 DEF Pairs

\* Of two convoys the one that yields is outranked by the other.
LEMMA YieldersAreOutranked ==
    ASSUME Ranked, NEW a \in Group, NEW b \in Group, a < b
    PROVE  /\ Yielders(a, b) \subseteq {a, b}
           /\ \A g \in Yielders(a, b) : \E h \in {a, b} : Outranks(h, g)
           /\ ~yielding[a] /\ ~yielding[b] => Yielders(a, b) # {}
<1>1. priority[a] \in Nat /\ priority[b] \in Nat /\ a \in Int /\ b \in Int
  BY DEF Ranked, Group
<1> QED BY <1>1 DEF Yielders, Outranks

LEMMA CoordinateKept ==
    ASSUME Grouped, Ranked, Outranked, Settled, Coordinate
    PROVE  Grouped' /\ Ranked' /\ Outranked' /\ Settled'
<1>1. PICK elected \in SUBSET (Moving \ leaders), hear \in [Moving -> air \union {None}] :
        follows' = [v \in Vehicle |->
            IF v \in elected THEN v
            ELSE IF v \in Moving /\ hear[v] \in Heeded(v) THEN hear[v]
            ELSE follows[v]]
  BY DEF Coordinate
<1>2. /\ UNCHANGED <<groups, members, elections, convoy, divided, priority, yielding, until, now, scenario>>
      /\ phase' = "right_of_way" /\ todo' = Pairs(NonEmpty) /\ crossing' = {}
  BY DEF Coordinate, convoys
<1>3. \A v \in Vehicle : v \in Members(convoy[v])
  BY ListsHoldSomebody
<1>4. \A v \in Vehicle : follows'[v] \in Members(convoy[v]) \union {None}
  <2>1. \A v \in Vehicle : follows[v] \in Members(convoy[v]) \union {None}
    BY DEF Grouped, ConvoysPartition
  <2>2. \A v \in Vehicle : Heeded(v) \subseteq Members(convoy[v])
    BY DEF Heeded
  <2> QED BY <1>1, <1>3, <2>1, <2>2
<1>5. \A v \in Vehicle : Members(convoy[v]) \subseteq Vehicle
  BY DEF Grouped, Members, Range
<1>6. follows' \in [Vehicle -> Vehicle \union {None}]
  BY <1>1, <1>4, <1>5
<1>7. Grouped'
  BY <1>2, <1>4, <1>6 DEF Grouped, ConvoysPartition, Members
<1>8. NonEmpty' = NonEmpty /\ NonEmpty \subseteq groups /\ groups \subseteq Group
  BY <1>2 DEF NonEmpty, Grouped
<1>9. Ranked'
  BY <1>2, <1>8 DEF Ranked, Pairs
<1>10. Outranked'
  BY <1>2, <1>8 DEF Outranked, Outranks
<1>11. Settled'
  BY <1>2 DEF Settled
<1> QED BY <1>7, <1>9, <1>10, <1>11

LEMMA RightOfWayKept ==
    ASSUME MultiAssumption, Grouped, Ranked, Outranked, Settled, CheckRightOfWay
    PROVE  Grouped' /\ Ranked' /\ Outranked' /\ Settled'
<1>1. PICK p \in todo :
        /\ todo' = todo \ {p}
        /\ \/ UNCHANGED <<yielding, until, crossing>>
           \/ /\ yielding' = [g \in Group |-> yielding[g] \/ g \in Yielders(p[1], p[2])]
              /\ until' = [g \in Group |-> IF g \in Yielders(p[1], p[2]) THEN now + Duration
                                           ELSE until[g]]
              /\ crossing' = crossing \union {p}
  BY Zenon DEF CheckRightOfWay
<1>2. /\ UNCHANGED <<groups, members, elections, convoy, divided, follows, priority, now, scenario, phase>>
      /\ phase = "right_of_way"
  BY DEF CheckRightOfWay, convoys, ranks
<1>3. Grouped'
  BY <1>2, StillGrouped
<1>4. NonEmpty' = NonEmpty /\ NonEmpty \subseteq groups /\ groups \subseteq Group
  BY <1>2 DEF NonEmpty, Grouped
<1>5. p \in Pairs(NonEmpty) /\ p \in Pairs(groups)
  BY <1>1, <1>2 DEF Ranked
<1>6. /\ p[1] \in NonEmpty /\ p[2] \in NonEmpty /\ p[1] \in Group /\ p[2] \in Group
      /\ p[1] < p[2] /\ p \in Pairs(Group) /\ p[1] # p[2]
  BY <1>4, <1>5, PairsAreRanked
<1> DEFINE yielders == Yielders(p[1], p[2])
<1>7. /\ yielders \subseteq {p[1], p[2]}
      /\ \A g \in yielders : \E h \in {p[1], p[2]} : Outranks(h, g)
      /\ ~yielding[p[1]] /\ ~yielding[p[2]] => yielders # {}
  BY <1>6, YieldersAreOutranked
<1> HIDE DEF yielders
<1>8. CASE UNCHANGED <<yielding, until, crossing>>
  <2>1. Ranked'
    BY <1>1, <1>2, <1>4, <1>8 DEF Ranked
  <2>2. Outranked'
    BY <1>2, <1>4, <1>8 DEF Outranked, Outranks
  <2>3. Settled'
    BY <1>2, <1>8 DEF Settled
  <2> QED BY <1>3, <2>1, <2>2, <2>3
<1>9. CASE /\ yielding' = [g \in Group |-> yielding[g] \/ g \in yielders]
           /\ until' = [g \in Group |-> IF g \in yielders THEN now + Duration ELSE until[g]]
           /\ crossing' = crossing \union {p}
  <2>1. now + Duration \in Nat /\ now + Duration \in now .. now + Duration /\ now \in Nat
    BY DEF Ranked, MultiAssumption
  <2>2. yielding' \in [Group -> BOOLEAN] /\ until' \in [Group -> Nat]
    BY <1>9, <2>1 DEF Ranked
  <2>3. groups = {0} => FALSE
    BY <1>4, <1>6 DEF NonEmpty
  <2>4. Ranked'
    BY <1>1, <1>2, <1>4, <1>6, <1>9, <2>2, <2>3 DEF Ranked
  <2>5. Outranked'
    <3> SUFFICES ASSUME NEW g \in Group, yielding'[g]
                 PROVE  g \in NonEmpty /\ \E h \in NonEmpty : Outranks(h, g)
      BY <1>2, <1>4 DEF Outranked, Outranks
    <3>1. CASE g \in yielders
      BY <3>1, <1>6, <1>7
    <3>2. CASE g \notin yielders
      <4>1. yielding[g]
        BY <3>2, <1>9
      <4> QED BY <4>1 DEF Outranked
    <3> QED BY <3>1, <3>2
  <2>6. \A g \in Group : yielding'[g] => until'[g] \in now .. now + Duration
    <3> SUFFICES ASSUME NEW g \in Group, yielding'[g]
                 PROVE  until'[g] \in now .. now + Duration
      OBVIOUS
    <3>1. CASE g \in yielders
      BY <3>1, <1>9, <2>1
    <3>2. CASE g \notin yielders
      <4>1. yielding[g] /\ until'[g] = until[g]
        BY <3>2, <1>9
      <4> QED BY <4>1 DEF Settled
    <3> QED BY <3>1, <3>2
  <2>7. \A q \in crossing' : yielding'[q[1]] \/ yielding'[q[2]]
    <3>1. \A q \in crossing : q[1] \in Group /\ q[2] \in Group
      BY DEF Ranked, Pairs
    <3>2. \A q \in crossing : yielding[q[1]] \/ yielding[q[2]]
      BY <1>2 DEF Settled
    <3>3. yielding'[p[1]] \/ yielding'[p[2]]
      BY <1>6, <1>7, <1>9
    <3> QED BY <3>1, <3>2, <3>3, <1>9
  <2>8. Settled'
    BY <1>2, <2>6, <2>7 DEF Settled
  <2> QED BY <1>3, <2>4, <2>5, <2>8
<1> QED BY <1>1, <1>8, <1>9 DEF yielders

LEMMA YieldsCleared ==
    ASSUME MultiAssumption, Grouped, Ranked, Outranked, Settled, ClearYields
    PROVE  Grouped' /\ Ranked' /\ Outranked' /\ Settled'
<1>1. /\ UNCHANGED <<groups, members, elections, convoy, divided, follows, priority, now, scenario, todo, crossing>>
      /\ phase = "right_of_way" /\ phase' = "drive"
      /\ cleared' = {g \in groups : Expired(g)}
      /\ yielding' = [g \in Group |-> yielding[g] /\ g \notin cleared']
      /\ until' = [g \in Group |-> IF g \in cleared' THEN 0 ELSE until[g]]
  BY DEF ClearYields, convoys, ranks
<1>2. Grouped'
  BY <1>1, StillGrouped
<1>3. NonEmpty' = NonEmpty /\ NonEmpty \subseteq groups /\ groups \subseteq Group
  BY <1>1 DEF NonEmpty, Grouped
<1>4. \A g \in Group : yielding'[g] => yielding[g] /\ g \notin cleared'
  BY <1>1
<1>5. yielding' \in [Group -> BOOLEAN] /\ until' \in [Group -> Nat]
  BY <1>1 DEF Ranked
<1>6. Ranked'
  BY <1>1, <1>4, <1>5 DEF Ranked
<1>7. Outranked'
  BY <1>1, <1>3, <1>4 DEF Outranked, Outranks
<1>8. \A g \in Group : yielding'[g] => until'[g] \in now + 1 .. now + Duration
  <2> SUFFICES ASSUME NEW g \in Group, yielding'[g]
               PROVE  until'[g] \in now + 1 .. now + Duration
    OBVIOUS
  <2>1. g \in NonEmpty /\ yielding[g] /\ g \notin cleared'
    BY <1>4 DEF Outranked
  <2>2. ~(now >= until[g]) /\ until'[g] = until[g]
    BY <2>1, <1>1, <1>3 DEF Expired
  <2>3. until[g] \in now .. now + Duration /\ now \in Nat /\ until[g] \in Nat /\ Duration \in Nat
    BY <2>1 DEF Settled, Ranked, MultiAssumption
  <2> QED BY <2>2, <2>3
<1>9. \A g \in Group : yielding'[g] => until'[g] \in now .. now + Duration
  BY <1>8 DEF Ranked, MultiAssumption
<1>10. \A p \in crossing : \E g \in {p[1], p[2]} : yielding'[g] \/ g \in cleared'
  <2> SUFFICES ASSUME NEW p \in crossing
               PROVE  \E g \in {p[1], p[2]} : yielding'[g] \/ g \in cleared'
    OBVIOUS
  <2>1. p[1] \in Group /\ p[2] \in Group
    BY DEF Ranked, Pairs
  <2>2. yielding[p[1]] \/ yielding[p[2]]
    BY <1>1 DEF Settled
  <2> QED BY <2>1, <2>2, <1>1
<1> QED BY <1>1, <1>2, <1>6, <1>7, <1>8, <1>9, <1>10 DEF Settled

\* Who joins a convoy that outranks it loses no claim for the convoys it outranked itself.
LEMMA MergeKept ==
    ASSUME MultiAssumption, Grouped, Ranked, Outranked, Settled, CheckMerge
    PROVE  Grouped' /\ Ranked' /\ Outranked' /\ Settled'
<1>1. PICK p \in todo :
        /\ todo' = todo \ {p}
        /\ LET keep == Absorber(p[1], p[2])
           IN \/ UNCHANGED <<members, elections, convoy, priority, ranks>>
              \/ CanMerge(p[1], p[2]) /\ Absorb(keep, IF keep = p[1] THEN p[2] ELSE p[1])
  BY Zenon DEF CheckMerge
<1>2. /\ UNCHANGED <<groups, divided, yielding, until, now, scenario, phase, crossing, cleared>>
      /\ phase = "merge"
  BY DEF CheckMerge, yields
<1>3. p \in Pairs(groups) /\ groups \subseteq Group
  BY <1>1 DEF Ranked, Grouped
<1>4. /\ p[1] \in groups /\ p[2] \in groups /\ p[1] \in Group /\ p[2] \in Group
      /\ p[1] < p[2] /\ p[1] # p[2]
  BY <1>3, PairsAreRanked
<1>5. todo' \subseteq Pairs(groups)
  BY <1>1 DEF Ranked
<1>6. Settled'
  BY <1>2 DEF Settled
<1>7. CASE UNCHANGED <<members, elections, convoy, priority, ranks>>
  <2>1. Grouped'
    BY <1>2, <1>7, StillGrouped DEF ranks
  <2>2. NonEmpty' = NonEmpty
    BY <1>2, <1>7 DEF NonEmpty
  <2>3. Ranked'
    BY <1>2, <1>5, <1>7 DEF Ranked
  <2>4. Outranked'
    BY <1>2, <1>7, <2>2 DEF Outranked, Outranks
  <2> QED BY <1>6, <2>1, <2>3, <2>4
<1> DEFINE keep == Absorber(p[1], p[2])
           lose == IF keep = p[1] THEN p[2] ELSE p[1]
<1>8. CASE CanMerge(p[1], p[2]) /\ Absorb(keep, lose)
  <2>1. priority[p[1]] \in Nat /\ priority[p[2]] \in Nat
    BY <1>4 DEF Ranked
  <2>2. /\ keep \in Group /\ lose \in Group /\ keep \in groups /\ lose \in groups /\ keep # lose
        /\ Outranks(keep, lose)
    BY <1>4, <2>1 DEF Absorber, Outranks, Group
  <2>3. ~yielding[keep] /\ ~yielding[lose] /\ Members(keep) # {} /\ Members(lose) # {}
    BY <1>8, <1>4, <2>2 DEF CanMerge, HasLeader, Absorber
  <2> HIDE DEF keep, lose
  <2>4. /\ members' = [members EXCEPT ![keep] = members[keep] \o members[lose], ![lose] = <<>>]
        /\ convoy' = [v \in Vehicle |-> IF v \in Members(lose) THEN keep ELSE convoy[v]]
        /\ elections' = [elections EXCEPT ![keep] = elections[keep] \union Members(lose)]
        /\ priority' = [priority EXCEPT ![keep] = IF priority[lose] > priority[keep] THEN priority[lose]
                                                  ELSE priority[keep]]
        /\ follows' = [v \in Vehicle |-> IF v \in Members(keep) \union Members(lose) THEN None
                                         ELSE follows[v]]
    BY <1>8, <2>2 DEF Absorb, ResetAll
  <2>5. /\ \A g \in Group : members[g] \in Seq(Vehicle) /\ IsInjective(members[g])
        /\ \A g \in Group : Members(g) = {v \in Vehicle : convoy[v] = g}
        /\ \A g \in groups : Members(g) \subseteq elections[g]
        /\ \A v \in Vehicle : follows[v] \in Members(convoy[v]) \union {None}
    BY DEF Grouped, ConvoysPartition
  <2>6. /\ members[keep] \o members[lose] \in Seq(Vehicle)
        /\ Range(members[keep] \o members[lose]) = Members(keep) \union Members(lose)
        /\ IsInjective(members[keep] \o members[lose])
    BY <2>2, <2>5, JoinedLists DEF Members
  <2>7. /\ members' \in [Group -> Seq(Vehicle)]
        /\ members'[keep] = members[keep] \o members[lose] /\ members'[lose] = <<>>
        /\ \A g \in Group \ {keep, lose} : members'[g] = members[g]
    <3> DEFINE list == members[keep] \o members[lose]
    <3> HIDE DEF list
    <3>1. members \in [Group -> Seq(Vehicle)] /\ list \in Seq(Vehicle) /\ <<>> \in Seq(Vehicle)
      BY <2>6 DEF Grouped, list
    <3>2. members' = [members EXCEPT ![keep] = list, ![lose] = <<>>]
      BY <2>4 DEF list
    <3>3. /\ members' \in [Group -> Seq(Vehicle)]
          /\ members'[keep] = list /\ members'[lose] = <<>>
          /\ \A g \in Group \ {keep, lose} : members'[g] = members[g]
      BY <3>1, <3>2, <2>2
    <3> QED BY <3>3 DEF list
  <2>8. /\ \A g \in Group : IsInjective(members'[g])
        /\ Range(members'[keep]) = Members(keep) \union Members(lose) /\ Range(members'[lose]) = {}
        /\ \A g \in Group \ {keep, lose} : Range(members'[g]) = Members(g)
    <3>1. IsInjective(<<>>) /\ Range(<<>>) = {}
      BY DEF IsInjective, Range
    <3>2. \A g \in Group : IsInjective(members'[g])
      BY <3>1, <2>5, <2>6, <2>7
    <3> QED BY <3>1, <3>2, <2>6, <2>7 DEF Members
  <2>9. convoy' \in [Vehicle -> Group] /\ \A v \in Vehicle : convoy'[v] \in groups
    BY <2>2, <2>4 DEF Grouped
  <2>10. \A g \in Group : Range(members'[g]) = {v \in Vehicle : convoy'[v] = g}
    <3> SUFFICES ASSUME NEW g \in Group
                 PROVE  Range(members'[g]) = {v \in Vehicle : convoy'[v] = g}
      OBVIOUS
    <3>1. \A v \in Vehicle : v \in Members(lose) <=> convoy[v] = lose
      BY <2>2, <2>5
    <3>2. CASE g = keep
      <4>1. {v \in Vehicle : convoy'[v] = keep} = Members(keep) \union Members(lose)
        BY <2>2, <2>4, <2>5, <3>1
      <4> QED BY <4>1, <2>8, <3>2
    <3>3. CASE g = lose
      <4>1. {v \in Vehicle : convoy'[v] = lose} = {}
        BY <2>2, <2>4, <3>1
      <4> QED BY <4>1, <2>8, <3>3
    <3>4. CASE g \notin {keep, lose}
      <4>1. {v \in Vehicle : convoy'[v] = g} = Members(g)
        BY <2>2, <2>4, <2>5, <3>1, <3>4
      <4> QED BY <4>1, <2>8, <3>4
    <3> QED BY <3>2, <3>3, <3>4
  <2>11. elections' \in [Group -> SUBSET Vehicle] /\ \A g \in groups : Range(members'[g]) \subseteq elections'[g]
    <3>1. Members(lose) \subseteq Vehicle
      BY <2>2, <2>5
    <3>2. elections' \in [Group -> SUBSET Vehicle]
      BY <2>2, <2>4, <3>1 DEF Grouped
    <3>3. \A g \in groups : Range(members'[g]) \subseteq elections'[g]
      <4> SUFFICES ASSUME NEW g \in groups
                   PROVE  Range(members'[g]) \subseteq elections'[g]
        OBVIOUS
      <4>1. /\ g \in Group /\ elections \in [Group -> SUBSET Vehicle]
            /\ Members(g) \subseteq elections[g]
        BY <1>3, <2>5 DEF Grouped
      <4>2. CASE g = keep
        BY <4>1, <4>2, <2>2, <2>4, <2>8
      <4>3. CASE g = lose
        BY <4>3, <2>8
      <4>4. CASE g \notin {keep, lose}
        BY <4>1, <4>4, <2>4, <2>8
      <4> QED BY <4>2, <4>3, <4>4
    <3> QED BY <3>2, <3>3
  <2>12. /\ follows' \in [Vehicle -> Vehicle \union {None}]
         /\ \A v \in Vehicle : follows'[v] \in Range(members'[convoy'[v]]) \union {None}
    <3>1. follows' \in [Vehicle -> Vehicle \union {None}]
      BY <2>4 DEF Grouped
    <3>2. ASSUME NEW v \in Vehicle, v \notin Members(keep) \union Members(lose)
          PROVE  follows'[v] \in Range(members'[convoy'[v]]) \union {None}
      <4>1. convoy'[v] = convoy[v] /\ convoy[v] \in Group \ {keep, lose} /\ follows'[v] = follows[v]
        BY <3>2, <2>2, <2>4, <2>5 DEF Grouped
      <4>2. Range(members'[convoy'[v]]) = Members(convoy[v])
        BY <4>1, <2>7, Zenon DEF Members
      <4> QED BY <4>1, <4>2, <2>5 DEF Members
    <3>3. \A v \in Members(keep) \union Members(lose) : follows'[v] = None
      BY <2>2, <2>4, <2>5
    <3> QED BY <3>1, <3>2, <3>3
  <2>13. Grouped'
    BY <1>2, <2>7, <2>8, <2>9, <2>10, <2>11, <2>12 DEF Grouped, ConvoysPartition, Members
  <2>14. \A g \in Group : members[g] = <<>> <=> Members(g) = {}
    BY ListsHoldSomebody
  <2>15. \A g \in Group : members'[g] = <<>> <=> Range(members'[g]) = {}
    BY <2>7, EmptyLists
  <2>16. NonEmpty' = NonEmpty \ {lose} /\ keep \in NonEmpty /\ lose \in NonEmpty /\ NonEmpty \subseteq Group
    <3>1. \A g \in Group : members'[g] # <<>> <=> members[g] # <<>> /\ g # lose
      BY <2>2, <2>3, <2>8, <2>14, <2>15
    <3> QED BY <3>1, <1>2, <1>3, <2>2, <2>3, <2>14 DEF NonEmpty
  <2>17. priority' \in [Group -> Nat] /\ \A g \in Group : priority'[g] = priority[g]
    BY <2>2, <2>4 DEF Ranked, Outranks
  <2>18. Ranked'
    BY <1>2, <1>5, <2>17 DEF Ranked
  <2>19. Outranked'
    <3> SUFFICES ASSUME NEW g \in Group, yielding[g]
                 PROVE  g \in NonEmpty' /\ \E h \in NonEmpty' : Outranks(h, g)
      BY <1>2, <2>16, <2>17 DEF Outranked, Outranks
    <3>1. PICK h \in NonEmpty : Outranks(h, g)
      BY DEF Outranked
    <3>2. g \in NonEmpty /\ g # lose
      BY <2>3 DEF Outranked
    <3>3. CASE h = lose
      <4>1. Outranks(keep, g)
        BY <3>1, <3>3, <2>2 DEF Outranks, Ranked, Group
      <4> QED BY <4>1, <3>2, <2>2, <2>16
    <3>4. CASE h # lose
      BY <3>1, <3>2, <3>4, <2>16
    <3> QED BY <3>3, <3>4
  <2> QED BY <1>6, <2>13, <2>18, <2>19
<1> QED BY <1>1, <1>7, <1>8

\* The halves of convoy 0, while it is the only one.
LEMMA SplitKept ==
    ASSUME MultiAssumption, Grouped, Ranked, Outranked, Settled, Split
    PROVE  Grouped' /\ Ranked' /\ Outranked' /\ Settled'
<1> DEFINE list  == members[0]
           mid   == Len(list) \div 2
           stay  == SubSeq(list, 1, mid)
           leave == SubSeq(list, mid + 1, Len(list))
           gone  == Range(leave)
<1>1. /\ phase = "events" /\ phase' = "coordinate" /\ divided'
      /\ scenario = "convoy_split_reroute" /\ ~divided
      /\ UNCHANGED <<scenario, now, yielding, until, crossing, todo>>
  BY DEF Split, SplitDue, yields
<1>2. groups = {0} /\ (\A g \in Group : ~yielding[g]) /\ 0 \in Group /\ 1 \in Group
  BY <1>1 DEF Ranked, Group
<1>3. \/ UNCHANGED <<groups, members, elections, convoy, priority, ranks>>
      \/ /\ ~(Len(stay) < SplitMin) /\ ~(Len(leave) < SplitMin)
         /\ groups' = groups \union {1}
         /\ members' = [members EXCEPT ![0] = stay, ![1] = leave]
         /\ elections' = [elections EXCEPT ![0] = elections[0] \ gone, ![1] = gone]
         /\ convoy' = [v \in Vehicle |-> IF v \in gone THEN 1 ELSE convoy[v]]
         /\ priority' = [priority EXCEPT ![1] = 0]
         /\ follows' = [v \in Vehicle |-> IF v \in gone THEN Head(leave)
                                          ELSE IF v \in Members(0) THEN None ELSE follows[v]]
  BY DEF Split, Regroup
<1>4. Settled' /\ Outranked'
  BY <1>1, <1>2 DEF Settled, Outranked
<1>5. todo \subseteq Pairs(groups)
  BY DEF Ranked
<1>6. CASE UNCHANGED <<groups, members, elections, convoy, priority, ranks>>
  <2>1. Grouped'
    BY <1>6, StillGrouped DEF ranks
  <2>2. Ranked'
    BY <1>1, <1>5, <1>6 DEF Ranked
  <2> QED BY <1>4, <2>1, <2>2
<1>7. CASE /\ ~(Len(stay) < SplitMin) /\ ~(Len(leave) < SplitMin)
           /\ groups' = groups \union {1}
           /\ members' = [members EXCEPT ![0] = stay, ![1] = leave]
           /\ elections' = [elections EXCEPT ![0] = elections[0] \ gone, ![1] = gone]
           /\ convoy' = [v \in Vehicle |-> IF v \in gone THEN 1 ELSE convoy[v]]
           /\ priority' = [priority EXCEPT ![1] = 0]
           /\ follows' = [v \in Vehicle |-> IF v \in gone THEN Head(leave)
                                            ELSE IF v \in Members(0) THEN None ELSE follows[v]]
  <2>1. list \in Seq(Vehicle) /\ IsInjective(list)
    BY <1>2 DEF Grouped, ConvoysPartition
  <2>2. mid \in 0 .. Len(list)
    <3> HIDE DEF list
    <3> QED BY <2>1
  <2>3. /\ stay \in Seq(Vehicle) /\ leave \in Seq(Vehicle) /\ Len(leave) = Len(list) - mid
        /\ IsInjective(stay) /\ IsInjective(leave)
        /\ Range(stay) \intersect gone = {} /\ Range(stay) \union gone = Range(list)
    <3> HIDE DEF list, mid
    <3> QED BY <2>1, <2>2, CutLists
  <2>4. leave # <<>> /\ Head(leave) \in gone
    <3>1. SplitMin \in Nat \ {0} /\ ~(Len(leave) < SplitMin)
      BY <1>7, Zenon DEF MultiAssumption
    <3> HIDE DEF list, mid, stay, leave, gone
    <3>2. leave # <<>> /\ Len(leave) \in Nat
      BY <2>3, <3>1, EmptySeq
    <3>3. Head(leave) = leave[1] /\ 1 \in DOMAIN leave
      BY <3>2, <2>3, EmptySeq
    <3> QED BY <3>2, <3>3 DEF Range, gone
  <2>5. /\ \A v \in Vehicle : convoy[v] = 0
        /\ \A g \in Group : Members(g) = {v \in Vehicle : convoy[v] = g}
        /\ \A g \in Group : members[g] \in Seq(Vehicle) /\ IsInjective(members[g])
        /\ Members(0) \subseteq elections[0]
    BY <1>2 DEF Grouped, ConvoysPartition
  <2>6. Range(list) = Vehicle /\ Members(0) = Vehicle /\ Members(2) = {}
    <3>1. Members(0) = {v \in Vehicle : convoy[v] = 0} /\ Members(2) = {v \in Vehicle : convoy[v] = 2}
      BY <2>5 DEF Group
    <3>2. {v \in Vehicle : convoy[v] = 0} = Vehicle /\ {v \in Vehicle : convoy[v] = 2} = {}
      BY <2>5
    <3> QED BY <3>1, <3>2 DEF Members
  <2> HIDE DEF list, mid, stay, leave, gone
  <2>7. /\ members' \in [Group -> Seq(Vehicle)]
        /\ members'[0] = stay /\ members'[1] = leave /\ members'[2] = members[2]
    BY <1>2, <1>7, <2>3 DEF Grouped, Group
  <2>8. Range(stay) = Vehicle \ gone /\ gone \subseteq Vehicle /\ gone = Range(leave)
    BY <2>3, <2>6 DEF gone
  <2>9. convoy' = [v \in Vehicle |-> IF v \in gone THEN 1 ELSE 0] /\ groups' = {0, 1}
    BY <1>2, <1>7, <2>5
  <2>10. \A g \in Group : IsInjective(members'[g]) /\ Range(members'[g]) = {v \in Vehicle : convoy'[v] = g}
    <3>1. Group = {0, 1, 2}
      BY DEF Group
    <3>2. IsInjective(members'[0]) /\ Range(members'[0]) = {v \in Vehicle : convoy'[v] = 0}
      BY <2>3, <2>7, <2>8, <2>9
    <3>3. IsInjective(members'[1]) /\ Range(members'[1]) = {v \in Vehicle : convoy'[v] = 1}
      BY <2>3, <2>7, <2>8, <2>9
    <3>4. IsInjective(members'[2]) /\ Range(members'[2]) = {v \in Vehicle : convoy'[v] = 2}
      <4>1. IsInjective(members[2]) /\ Range(members[2]) = {}
        BY <3>1, <2>5, <2>6 DEF Members
      <4> QED BY <4>1, <2>7, <2>9
    <3> QED BY <3>1, <3>2, <3>3, <3>4
  <2>11. /\ elections' \in [Group -> SUBSET Vehicle]
         /\ \A g \in groups' : Range(members'[g]) \subseteq elections'[g]
    <3>1. elections \in [Group -> SUBSET Vehicle] /\ Vehicle \subseteq elections[0]
      BY <2>5, <2>6 DEF Grouped
    <3>2. /\ elections' \in [Group -> SUBSET Vehicle]
          /\ elections'[0] = elections[0] \ gone /\ elections'[1] = gone
      BY <1>2, <1>7, <2>8, <3>1
    <3> QED BY <2>7, <2>8, <2>9, <3>1, <3>2
  <2>12. /\ follows' \in [Vehicle -> Vehicle \union {None}]
         /\ \A v \in Vehicle : follows'[v] \in Range(members'[convoy'[v]]) \union {None}
    <3>1. follows' = [v \in Vehicle |-> IF v \in gone THEN Head(leave) ELSE None]
      BY <1>7, <2>6
    <3> QED BY <3>1, <2>4, <2>7, <2>8, <2>9
  <2>13. Grouped'
    BY <1>2, <2>7, <2>9, <2>10, <2>11, <2>12 DEF Grouped, ConvoysPartition, Members
  <2>14. priority' \in [Group -> Nat]
    BY <1>2, <1>7 DEF Ranked
  <2>15. todo \subseteq Pairs(groups')
    BY <1>5, <1>7 DEF Pairs
  <2>16. Ranked'
    BY <1>1, <2>14, <2>15 DEF Ranked
  <2> QED BY <1>4, <2>13, <2>16
<1> QED BY <1>3, <1>6, <1>7

LEMMA OtherPhasesKept ==
    ASSUME MultiAssumption, Grouped, Ranked, Outranked, Settled,
           NoSplit \/ MergesChecked \/ StepVehicles
    PROVE  Grouped' /\ Ranked' /\ Outranked' /\ Settled'
<1>1. /\ UNCHANGED <<groups, members, elections, convoy, divided, follows, priority,
                     yielding, until, crossing, cleared, scenario>>
      /\ phase' \notin {"right_of_way", "drive"}
  BY DEF NoSplit, MergesChecked, StepVehicles, convoys, ranks, yields
<1>2. Grouped'
  BY <1>1, StillGrouped
<1>3. NonEmpty' = NonEmpty
  BY <1>1 DEF NonEmpty
<1>4. Outranked'
  BY <1>1, <1>3 DEF Outranked, Outranks
<1>5. todo' \subseteq Pairs(groups)
  BY DEF NoSplit, MergesChecked, StepVehicles, Ranked
<1>6. now' = now \/ (phase = "drive" /\ now' = now + 1)
  BY DEF NoSplit, MergesChecked, StepVehicles
<1>7. now \in Nat /\ Duration \in Nat /\ until \in [Group -> Nat]
  BY DEF Ranked, MultiAssumption
<1>8. Ranked'
  BY <1>1, <1>5, <1>6, <1>7 DEF Ranked
<1>9. \A g \in Group : yielding[g] => until[g] \in now' .. now' + Duration
  <2>1. CASE now' = now
    BY <2>1 DEF Settled
  <2>2. CASE phase = "drive" /\ now' = now + 1
    <3> SUFFICES ASSUME NEW g \in Group, yielding[g]
                 PROVE  until[g] \in now + 1 .. now + 1 + Duration
      BY <2>2
    <3>1. until[g] \in now + 1 .. now + Duration
      BY <2>2 DEF Settled
    <3> QED BY <3>1, <1>7
  <2> QED BY <2>1, <2>2, <1>6
<1>10. Settled'
  BY <1>1, <1>9 DEF Settled
<1> QED BY <1>2, <1>4, <1>8, <1>10

MultiInv == Grouped /\ Ranked /\ Outranked /\ Settled

LEMMA MultiStep ==
    ASSUME MultiAssumption, MultiInv, [MultiNext]_multiVars
    PROVE  MultiInv'
<1>1. CASE UNCHANGED multiVars
  <2>1. Grouped'
    BY <1>1, StillGrouped DEF MultiInv, multiVars, convoys, ranks
  <2>2. NonEmpty' = NonEmpty
    BY <1>1 DEF NonEmpty, multiVars, convoys
  <2>3. Ranked'
    BY <1>1, <2>2 DEF MultiInv, Ranked, multiVars, convoys, yields
  <2>4. Outranked'
    BY <1>1, <2>2 DEF MultiInv, Outranked, Outranks, multiVars, convoys, yields
  <2>5. Settled'
    BY <1>1 DEF MultiInv, Settled, multiVars, convoys, yields
  <2> QED BY <2>1, <2>3, <2>4, <2>5 DEF MultiInv
<1>2. CASE Split
  BY <1>2, SplitKept DEF MultiInv
<1>3. CASE NoSplit \/ MergesChecked \/ StepVehicles
  BY <1>3, OtherPhasesKept DEF MultiInv
<1>4. CASE CheckMerge
  BY <1>4, MergeKept DEF MultiInv
<1>5. CASE Coordinate
  BY <1>5, CoordinateKept DEF MultiInv
<1>6. CASE CheckRightOfWay
  BY <1>6, RightOfWayKept DEF MultiInv
<1>7. CASE ClearYields
  BY <1>7, YieldsCleared DEF MultiInv
<1> QED BY <1>1, <1>2, <1>3, <1>4, <1>5, <1>6, <1>7 DEF MultiNext

\* Ranks are in order, so that of the convoys with vehicles one is outranked by none.
LEMMA SomebodyDrives ==
    ASSUME MultiAssumption, MultiInv
    PROVE  \E g \in NonEmpty : ~yielding[g]
<1>1. NonEmpty \subseteq {0, 1, 2} /\ NonEmpty # {}
  <2>1. 0 \in Vehicle
    BY DEF Vehicle, MultiAssumption
  <2> QED BY <2>1, ListsHoldSomebody DEF MultiInv, Group
<1>2. \A g \in NonEmpty : priority[g] \in Nat
  BY <1>1 DEF MultiInv, Ranked, Group
<1>3. /\ \A g \in NonEmpty : ~Outranks(g, g)
      /\ \A g, h, k \in NonEmpty : Outranks(g, h) /\ Outranks(h, k) => Outranks(g, k)
  BY <1>1, <1>2 DEF Outranks
<1>4. \E g \in NonEmpty : \A h \in NonEmpty : ~Outranks(h, g)
  <2> SUFFICES ASSUME \A g \in NonEmpty : \E h \in NonEmpty : Outranks(h, g)
               PROVE  FALSE
    OBVIOUS
  <2>1. PICK a \in NonEmpty : TRUE
    BY <1>1
  <2>2. PICK b \in NonEmpty : Outranks(b, a)
    OBVIOUS
  <2>3. PICK c \in NonEmpty : Outranks(c, b)
    OBVIOUS
  <2>4. PICK d \in NonEmpty : Outranks(d, c)
    OBVIOUS
  <2>5. a # b /\ b # c /\ c # a /\ d # c /\ d # b /\ d # a
    <3>1. Outranks(c, a) /\ Outranks(d, b)
      BY <2>2, <2>3, <2>4, <1>3, Zenon
    <3>2. Outranks(d, a)
      BY <3>1, <2>4, <1>3, Zenon
    <3>3. \A g, h \in NonEmpty : Outranks(g, h) => g # h
      BY <1>3, Zenon
    <3> QED BY <2>2, <2>3, <2>4, <3>1, <3>2, <3>3, Zenon
  <2> QED BY <2>5, <1>1
<1> QED BY <1>1, <1>4 DEF MultiInv, Outranked, Group

(***************************************************************************)
(* MultiConvoyRunner, merge_convoys, split_convoy: every vehicle is in the *)
(* convoy it names, once, with an election there, and follows one of its   *)
(* members or nobody, for every fleet and every configuration of it.       *)
(***************************************************************************)
THEOREM ConvoysArePartition ==
    ASSUME MultiAssumption
    PROVE  MultiSpec => []ConvoysPartition
<1>1. MultiInit => MultiInv
  BY MultiInitGrouped DEF MultiInv
<1>2. MultiInv /\ [MultiNext]_multiVars => MultiInv'
  BY MultiStep
<1>3. MultiInv => ConvoysPartition
  BY DEF MultiInv, Grouped
<1> QED BY <1>1, <1>2, <1>3, PTL DEF MultiSpec

(***************************************************************************)
(* resolve_right_of_way: of the convoys with vehicles one drives, yields   *)
(* end in time, and of two convoys that cross one holds back, whatever is  *)
(* merged or split in between.                                             *)
(***************************************************************************)
THEOREM RightOfWayIsFair ==
    ASSUME MultiAssumption
    PROVE  MultiSpec => []RightOfWay
<1>1. MultiInit => MultiInv
  BY MultiInitGrouped DEF MultiInv
<1>2. MultiInv /\ [MultiNext]_multiVars => MultiInv'
  BY MultiStep
<1>3. MultiInv => RightOfWay
  BY SomebodyDrives DEF MultiInv, Settled, RightOfWay
<1> QED BY <1>1, <1>2, <1>3, PTL DEF MultiSpec

-----------------------------------------------------------------------------
(***************************************************************************)
(* Collisions.  Who holds waits for a vehicle with a lower id, and nobody  *)
(* has replanned before the second pass begins.                            *)
(***************************************************************************)
WaitsDownwards ==
    /\ round \in {"detect", "replan", "pass"}
    /\ partners \in [Party -> [Party -> 0 .. PairThreshold]]
    /\ \A v \in Party : partners[v][v] = 0
    /\ replanned \in [Party -> 0 .. Never] /\ hold \in [Party -> Nat]
    /\ waitsFor \in [Party -> Party \union {NoPartner}]
    /\ \A v \in Party : hold[v] > 0 => waitsFor[v] \in Party /\ waitsFor[v] < v
    /\ round # "pass" => \A v \in Party : replanned[v] >= 1

LEMMA WaitsDownwardsInit ==
    ASSUME CollisionsAssumption, CollisionsInit
    PROVE  WaitsDownwards
BY DEF CollisionsAssumption, CollisionsInit, WaitsDownwards, Party, NoPartner, Never, None0

LEMMA DetectionKept ==
    ASSUME CollisionsAssumption, WaitsDownwards, DetectCollisions
    PROVE  WaitsDownwards'
<1>1. PICK hits \in SUBSET {p \in Party \X Party : p[1] < p[2] /\ {p[1], p[2]} \cap operational # {}} :
          partners' = [v \in Party |-> [u \in Party |->
              IF <<v, u>> \in hits \/ <<u, v>> \in hits THEN Counted(partners[v][u])
              ELSE partners[v][u]]]
  BY DEF DetectCollisions
<1>2. \A n \in 0 .. PairThreshold : Counted(n) \in 0 .. PairThreshold
  BY DEF Counted, CollisionsAssumption
<1>3. partners' \in [Party -> [Party -> 0 .. PairThreshold]]
  BY <1>1, <1>2 DEF WaitsDownwards
<1>4. \A v \in Party : <<v, v>> \notin hits
  BY <1>1 DEF Party
<1>5. \A v \in Party : partners'[v][v] = 0
  BY <1>1, <1>4 DEF WaitsDownwards
<1>6. round' = "replan" /\ round = "detect" /\ UNCHANGED <<replanned, hold, waitsFor>>
  BY DEF DetectCollisions
<1> QED BY <1>3, <1>5, <1>6 DEF WaitsDownwards

\* A vehicle acts only when it does not hold, and waits only for one with a lower id.
LEMMA ActsWhenFree ==
    ASSUME NEW v \in Party, Acts(v)
    PROVE  hold[v] = 0
BY Zenon DEF Acts

LEMMA ChosenDownwards ==
    ASSUME CollisionsAssumption, WaitsDownwards, NEW v \in Party, NEW top \in Party, NEW near,
           Choice(v, top, near) \in {"hold", "brake_hold"}
    PROVE  top < v
<1>1. partners[v][top] >= PairThreshold /\ ~(v < top)
  <2>1. partners[v][top] \in Int /\ PairThreshold \in Int
    BY DEF WaitsDownwards, CollisionsAssumption
  <2>2. ~(partners[v][top] < PairThreshold) /\ ~(v < top)
    BY Zenon DEF Choice
  <2> QED BY <2>1, <2>2
<1>2. top # v
  BY <1>1 DEF WaitsDownwards, CollisionsAssumption
<1> QED BY <1>1, <1>2 DEF Party, CollisionsAssumption

LEMMA PassCarriedOut ==
    ASSUME CollisionsAssumption, WaitsDownwards, CheckCollisionReplan
    PROVE  WaitsDownwards' /\ BrakeGivesWay'
<1>1. PICK top \in [Acting -> Party], near \in SUBSET Acting :
          CarryOut([v \in Acting |-> Choice(v, top[v], v \in near)], top)
  BY Zenon DEF CheckCollisionReplan
<1> DEFINE does    == [v \in Acting |-> Choice(v, top[v], v \in near)]
           holding == {v \in Acting : does[v] = "hold"}
           braking == {v \in Acting : does[v] = "brake_hold"}
           recount == {v \in Acting : does[v] # "normal_replan"}
           freed   == Freed(braking, top)
<1>2. DOMAIN does = Acting /\ DOMAIN top = Acting /\ Acting \subseteq Party
  BY DEF Acting
<1>3. /\ replanned' = [v \in Party |-> IF v \in freed THEN Never
                                       ELSE IF v \in Acting THEN 0 ELSE replanned[v]]
      /\ hold' = [v \in Party |-> IF v \in holding THEN HoldTime
                                  ELSE IF v \in braking THEN BrakeTime ELSE hold[v]]
      /\ reverse' = (reverse \union holding) \ braking
      /\ waitsFor' = [v \in Party |-> IF v \in holding \union braking THEN top[v]
                                      ELSE waitsFor[v]]
      /\ partners' = [v \in Party |-> IF v \in recount THEN None0 ELSE partners[v]]
  BY <1>1, <1>2, Zenon DEF CarryOut
<1>4. \A v \in Acting : hold[v] = 0
  BY ActsWhenFree DEF Acting
<1>5. \A v \in holding \union braking : top[v] \in Party /\ top[v] < v
  <2> SUFFICES ASSUME NEW v \in holding \union braking
               PROVE  top[v] \in Party /\ top[v] < v
    OBVIOUS
  <2>1. /\ v \in Party /\ top[v] \in Party
        /\ Choice(v, top[v], v \in near) \in {"hold", "brake_hold"}
    BY <1>2
  <2> QED BY <2>1, ChosenDownwards
<1>6. \A v \in braking : top[v] \in freed
  BY <1>2, <1>5 DEF Freed, VisitedBefore
<1>7. holding \subseteq Acting /\ braking \subseteq Acting /\ holding \intersect braking = {}
  OBVIOUS
<1>8. round = "replan" /\ round' = "pass"
  BY Zenon DEF CheckCollisionReplan
<1> HIDE DEF does, holding, braking, recount, freed
<1>9. WaitsDownwards'
  <2>1. partners' \in [Party -> [Party -> 0 .. PairThreshold]] /\ \A v \in Party : partners'[v][v] = 0
    BY <1>3 DEF WaitsDownwards, None0, CollisionsAssumption
  <2>2. replanned' \in [Party -> 0 .. Never]
    BY <1>3 DEF WaitsDownwards, Never, CollisionsAssumption
  <2>3. hold' \in [Party -> Nat]
    BY <1>3 DEF WaitsDownwards, CollisionsAssumption
  <2>4. waitsFor' \in [Party -> Party \union {NoPartner}]
    BY <1>3, <1>5 DEF WaitsDownwards
  <2>5. \A v \in Party : hold'[v] > 0 => waitsFor'[v] \in Party /\ waitsFor'[v] < v
    BY <1>3, <1>5 DEF WaitsDownwards
  <2> QED BY <2>1, <2>2, <2>3, <2>4, <2>5, <1>8 DEF WaitsDownwards
<1>10. BrakeGivesWay'
  <2> SUFFICES ASSUME NEW v \in Party, hold'[v] = BrakeTime, v \notin reverse', replanned'[v] = 0
               PROVE  replanned'[waitsFor'[v]] = Never
    BY DEF BrakeGivesWay
  <2>1. replanned[v] >= 1 /\ Never >= 1 /\ BrakeTime > 0
    BY <1>8 DEF WaitsDownwards, Never, CollisionsAssumption
  <2>2. v \in Acting
    BY <2>1, <1>3
  <2>3. v \in braking
    BY <2>1, <2>2, <1>3, <1>4
  <2> QED BY <2>3, <1>3, <1>5, <1>6
<1> QED BY <1>9, <1>10

LEMMA PassKept ==
    ASSUME CollisionsAssumption, WaitsDownwards, Pass
    PROVE  WaitsDownwards'
<1>1. /\ replanned' = [v \in Party |-> Least(replanned[v] + 1, Never)]
      /\ hold' = [v \in Party |-> IF hold[v] = 0 THEN 0 ELSE hold[v] - 1]
      /\ waitsFor' = [v \in Party |-> IF hold'[v] = 0 THEN NoPartner ELSE waitsFor[v]]
      /\ round' = "detect" /\ UNCHANGED partners
  BY DEF Pass
<1>2. replanned' \in [Party -> 0 .. Never] /\ \A v \in Party : replanned'[v] >= 1
  BY <1>1 DEF WaitsDownwards, Least, Never, CollisionsAssumption
<1>3. hold' \in [Party -> Nat] /\ \A v \in Party : hold'[v] > 0 => hold[v] > 0
  BY <1>1 DEF WaitsDownwards
<1>4. waitsFor' \in [Party -> Party \union {NoPartner}]
  BY <1>1 DEF WaitsDownwards
<1>5. \A v \in Party : hold'[v] > 0 => waitsFor'[v] \in Party /\ waitsFor'[v] < v
  BY <1>1, <1>3 DEF WaitsDownwards
<1> QED BY <1>1, <1>2, <1>3, <1>4, <1>5 DEF WaitsDownwards

LEMMA WaitsDownwardsStep ==
    ASSUME CollisionsAssumption, WaitsDownwards, BrakeGivesWay, [CollisionsNext]_collisionVars
    PROVE  WaitsDownwards' /\ BrakeGivesWay'
<1>1. CASE UNCHANGED collisionVars
  BY <1>1 DEF collisionVars, WaitsDownwards, BrakeGivesWay
<1>2. CASE DetectCollisions
  <2>1. round' = "replan"
    BY <1>2 DEF DetectCollisions
  <2> QED BY <1>2, <2>1, DetectionKept DEF BrakeGivesWay
<1>3. CASE CheckCollisionReplan
  BY <1>3, PassCarriedOut
<1>4. CASE Pass
  <2>1. round' = "detect"
    BY <1>4 DEF Pass
  <2> QED BY <1>4, <2>1, PassKept DEF BrakeGivesWay
<1> QED BY <1>1, <1>2, <1>3, <1>4 DEF CollisionsNext

LEMMA NoCircle ==
    ASSUME CollisionsAssumption, WaitsDownwards
    PROVE  NoCircleOfHolds
<1> SUFFICES ASSUME NEW S \in (SUBSET Party) \ {{}}
             PROVE  \E v \in S : hold[v] = 0 \/ waitsFor[v] \notin S
  BY DEF NoCircleOfHolds
<1>1. S \in SUBSET Nat /\ S # {}
  <2>1. Party \subseteq Nat
    BY DEF Party, CollisionsAssumption
  <2> QED BY <2>1
<1>2. PICK v \in S : \A u \in S : v <= u
  BY <1>1, LeastNatural, Zenon
<1>3. v \in Party /\ hold[v] \in Nat
  BY DEF WaitsDownwards
<1>4. hold[v] = 0 \/ (waitsFor[v] \in Party /\ waitsFor[v] < v)
  BY <1>3 DEF WaitsDownwards
<1> QED BY <1>2, <1>3, <1>4 DEF Party, CollisionsAssumption

(***************************************************************************)
(* SimRunner._check_collision_replan: vehicles on hold never wait for one  *)
(* another in a circle, however many there are and however long they hold. *)
(***************************************************************************)
THEOREM HoldsAreAcyclic == CollisionsAssumption => (CollisionsSpec => []NoCircleOfHolds)
<1> SUFFICES ASSUME CollisionsAssumption PROVE CollisionsSpec => []NoCircleOfHolds
  OBVIOUS
<1>1. CollisionsInit => WaitsDownwards /\ BrakeGivesWay
  BY WaitsDownwardsInit DEF CollisionsInit, BrakeGivesWay
<1>2. WaitsDownwards /\ BrakeGivesWay /\ [CollisionsNext]_collisionVars
        => (WaitsDownwards /\ BrakeGivesWay)'
  BY WaitsDownwardsStep
<1>3. WaitsDownwards => NoCircleOfHolds
  BY NoCircle
<1> QED BY <1>1, <1>2, <1>3, PTL DEF CollisionsSpec

(***************************************************************************)
(* ..., and a partner somebody brakes for may replan in the next step,     *)
(* although the two may act in the same pass.                              *)
(***************************************************************************)
THEOREM BrakesGiveWay == CollisionsAssumption => (CollisionsSpec => []BrakeGivesWay)
<1> SUFFICES ASSUME CollisionsAssumption PROVE CollisionsSpec => []BrakeGivesWay
  OBVIOUS
<1>1. CollisionsInit => WaitsDownwards /\ BrakeGivesWay
  BY WaitsDownwardsInit DEF CollisionsInit, BrakeGivesWay
<1>2. WaitsDownwards /\ BrakeGivesWay /\ [CollisionsNext]_collisionVars
        => (WaitsDownwards /\ BrakeGivesWay)'
  BY WaitsDownwardsStep
<1> QED BY <1>1, <1>2, PTL DEF CollisionsSpec

-----------------------------------------------------------------------------
(***************************************************************************)
(* Routes.  The index stays on the route, and off its end only after the   *)
(* vehicle has been near the goal.                                         *)
(***************************************************************************)
OnRoute ==
    /\ length \in Nat \ {0} /\ waypoint \in 0 .. length
    /\ waypoint = length => goalSeen

LEMMA OnRouteInit ==
    ASSUME RoutesAssumption, RoutesInit
    PROVE  OnRoute
BY DEF RoutesAssumption, RoutesInit, OnRoute

LEMMA PlannedOnRoute ==
    ASSUME RoutesAssumption, PlanRoute
    PROVE  OnRoute'
BY DEF RoutesAssumption, PlanRoute, OnRoute

\* One waypoint at most is advanced, and the last only by a vehicle that is near it.
LEMMA MovedOnRoute ==
    ASSUME OnRoute, NEW near \in BOOLEAN, NEW there \in BOOLEAN, Moves(near, there)
    PROVE  /\ Advanced(near) \in 0 .. length /\ length' = length
           /\ Advanced(near) = length => goalSeen'
<1>1. /\ Advanced(near) \in 0 .. length /\ length' = length
      /\ Advanced(near) = length => waypoint = length \/ (waypoint = length - 1 /\ near)
  BY DEF OnRoute, Moves, Advanced
<1>2. waypoint = length \/ (waypoint = length - 1 /\ near) => goalSeen'
  <2>1. waypoint = length => goalSeen
    BY DEF OnRoute
  <2> QED BY <2>1, Zenon DEF Moves
<1> QED BY <1>1, <1>2

LEMMA OnRouteStep ==
    ASSUME RoutesAssumption, OnRoute, [RoutesNext]_vars
    PROVE  OnRoute'
<1>1. CASE UNCHANGED route
  BY <1>1 DEF OnRoute, route
<1>2. CASE PlanRoute
  BY <1>2, PlannedOnRoute
<1>3. CASE DriveOnHold
  <2>1. PICK near \in BOOLEAN, there \in BOOLEAN : Moves(near, there) /\ waypoint' = Advanced(near)
    BY <1>3 DEF DriveOnHold
  <2> QED BY <2>1, MovedOnRoute DEF OnRoute
<1>4. CASE Drive
  <2>1. PICK near \in BOOLEAN, there \in BOOLEAN :
            /\ Moves(near, there)
            /\ \/ waypoint' = Advanced(near)
               \/ /\ Advanced(near) < length - 1
                  /\ waypoint' = Advanced(near) + SkipCount(Advanced(near))
    BY <1>4, Zenon DEF Drive
  <2>2. CASE waypoint' = Advanced(near)
    BY <2>1, <2>2, MovedOnRoute DEF OnRoute
  <2>3. CASE /\ Advanced(near) < length - 1
             /\ waypoint' = Advanced(near) + SkipCount(Advanced(near))
    <3>1. Advanced(near) \in 0 .. length /\ length' = length
      BY <2>1, MovedOnRoute
    <3>2. waypoint' \in 0 .. length - 1
      BY <2>3, <3>1 DEF SkipCount, Smaller, OnRoute
    <3> QED BY <3>1, <3>2 DEF OnRoute
  <2> QED BY <2>1, <2>2, <2>3
<1> QED
  BY <1>1, <1>2, <1>3, <1>4
  DEF RoutesNext, BeforeAdvice, Advise, AfterDriving, vars, route

\* No replan, skip or advance takes a vehicle past a destination it has not been near
\* (SimRunner.run, _advance_waypoint, the replans of sim/runner.py), whatever routes
\* plan_route returns.
THEOREM DestinationNotSkipped ==
    ASSUME RoutesAssumption
    PROVE  RoutesSpec => []GoalIsVisited
<1>1. RoutesInit => OnRoute
  BY OnRouteInit
<1>2. OnRoute /\ [RoutesNext]_vars => OnRoute'
  BY OnRouteStep
<1>3. OnRoute => GoalIsVisited
  BY DEF OnRoute, GoalIsVisited
<1> QED BY <1>1, <1>2, <1>3, PTL DEF RoutesSpec

(***************************************************************************)
(* The supervisor.  still counts the steps without help as far as the      *)
(* threshold.  From one step before the threshold on, advice on the        *)
(* isolation can come no more, so that the cooldown runs out while the     *)
(* steps without help grow: a step is left for what the next drive takes.  *)
(***************************************************************************)
Waiting ==
    /\ unhelped \in Nat /\ still = Smaller(unhelped, StuckSteps)
    /\ cooldown \in 0 .. AdviceCooldown
    /\ unhelped >= StuckSteps - 1 =>
           unhelped + cooldown
               + (IF stage # "drive" /\ cooldown > 0 THEN 1 ELSE 0) < StuckSteps + AdviceCooldown

LEMMA WaitingInit ==
    ASSUME RoutesAssumption, RoutesInit
    PROVE  Waiting
BY DEF RoutesAssumption, RoutesInit, Waiting, Smaller

LEMMA AdviseWaits ==
    ASSUME RoutesAssumption, Waiting, Advise
    PROVE  Waiting'
<1> USE DEF RoutesAssumption
<1>1. /\ unhelped \in Nat /\ still = Smaller(unhelped, StuckSteps)
      /\ cooldown \in 0 .. AdviceCooldown /\ stage = "advise" /\ stage' = "drive"
  BY DEF Waiting, Advise
<1>2. CASE Advice = "replan"
  <2>1. unhelped' = 0 /\ still' = 0 /\ cooldown' = AdviceCooldown
    BY <1>2 DEF Advise
  <2> QED BY <1>1, <2>1 DEF Waiting, Smaller
<1>3. CASE Advice # "replan"
  <2>1. /\ still' = StillNow
        /\ cooldown' = IF Advice = "none" THEN cooldown ELSE AdviceCooldown
        /\ unhelped' = IF speed # "still" THEN 0 ELSE unhelped + 1
    BY <1>3 DEF Advise
  <2>2. ~IsStuck /\ (Advice # "none" => cooldown = 0)
    BY <1>3 DEF Advice, IsIsolated
  <2>3. PICK n \in Nat, left \in 0 .. AdviceCooldown : unhelped' = n /\ cooldown' = left
    BY <1>1, <2>1
  <2>4. still' = Smaller(n, StuckSteps)
    BY <1>1, <2>1, <2>3 DEF StillNow, Smaller
  <2>5. ASSUME n >= StuckSteps
        PROVE  cooldown > 0 /\ left = cooldown /\ n = unhelped + 1
    <3>1. StillNow >= StuckSteps
      BY <2>1, <2>4, <2>5 DEF Smaller
    <3>2. cooldown # 0
      BY <2>2, <3>1 DEF IsStuck
    <3> QED BY <1>1, <2>1, <2>2, <2>3, <2>5, <3>2
  <2>6. n >= StuckSteps - 1 => n + left < StuckSteps + AdviceCooldown
    <3>1. CASE n >= StuckSteps
      BY <1>1, <2>5, <3>1 DEF Waiting
    <3>2. CASE ~(n >= StuckSteps)
      BY <3>2
    <3> QED BY <3>1, <3>2
  <2> QED BY <1>1, <2>3, <2>4, <2>6 DEF Waiting
<1> QED BY <1>2, <1>3

LEMMA WaitingStep ==
    ASSUME RoutesAssumption, Waiting, [RoutesNext]_vars
    PROVE  Waiting'
<1>1. CASE Advise
  BY <1>1, AdviseWaits
<1>2. CASE TimePasses /\ stage = "drive" /\ UNCHANGED unhelped
  BY <1>2 DEF RoutesAssumption, Waiting, TimePasses, Smaller
<1>3. CASE UNCHANGED <<still, cooldown, unhelped>> /\ (stage' # "drive" <=> stage # "drive")
  BY <1>3 DEF Waiting, Smaller
<1> QED
  BY <1>1, <1>2, <1>3
  DEF RoutesNext, BeforeAdvice, DriveOnHold, Drive, AfterDriving, vars, advice

\* A vehicle that stands still is given a new route within the threshold and one cooldown
\* (CentralSupervisor.observe), whatever those two are.
THEOREM StuckVehicleHelped ==
    ASSUME RoutesAssumption
    PROVE  RoutesSpec => []StuckIsHelped
<1>1. RoutesInit => Waiting
  BY WaitingInit
<1>2. Waiting /\ [RoutesNext]_vars => Waiting'
  BY WaitingStep
<1>3. Waiting => StuckIsHelped
  BY DEF RoutesAssumption, Waiting, StuckIsHelped
<1> QED BY <1>1, <1>2, <1>3, PTL DEF RoutesSpec
-----------------------------------------------------------------------------
(***************************************************************************)
(* Driving.  A command in the buffer brakes as hard as the step it is from *)
(* asked for, and so does the one at the wheels, once commands mature.     *)
(***************************************************************************)
Deceleration == -20 .. 20

Braking(b, d, a) ==
    /\ b \in Seq(Deceleration) /\ Len(b) <= Lag + 1
    /\ d \in [1 .. Lag + 2 -> Deceleration] /\ a \in Deceleration
    /\ \A i \in 1 .. Len(b) : b[i] <= d[Lag + 2 - Len(b) + i]
    /\ Len(b) = Lag + 1 => a <= d[1]
    /\ Len(b) = Lag => a <= d[2]
    /\ Len(b) < Lag => \A i \in 1 .. Lag + 2 - Len(b) : d[i] = NoDemand

BrakingKept == mode = "stopped" \/ Braking(buffer, demands, actuated)

LEMMA LeastOfRange ==
    ASSUME NEW S \in (SUBSET Deceleration) \ {{}}
    PROVE  Min(S) \in S /\ \A x \in S : Min(S) <= x
<1> DEFINE T == {x + 20 : x \in S}
<1>1. T \in SUBSET Nat /\ T # {}
  <2>1. \A x \in S : x + 20 \in Nat
    BY DEF Deceleration
  <2>2. S # {}
    OBVIOUS
  <2> QED BY <2>1, <2>2
<1>2. PICK n \in T : \A m \in T : n <= m
  <2> HIDE DEF T
  <2> QED BY <1>1, LeastNatural, Zenon
<1>3. PICK x \in S : n = x + 20
  BY <1>2
<1>4. \A y \in S : x <= y
  <2> SUFFICES ASSUME NEW y \in S
               PROVE  x <= y
    OBVIOUS
  <2>1. x + 20 <= y + 20
    BY <1>2, <1>3
  <2> QED BY <2>1 DEF Deceleration
<1> QED BY <1>4, Zenon DEF Min

LEMMA GreaterOfTwo ==
    ASSUME NEW x \in Int, NEW y \in Int
    PROVE  Max({x, y}) = IF x >= y THEN x ELSE y
<1> DEFINE m == IF x >= y THEN x ELSE y
<1>1. m \in {x, y} /\ \A z \in {x, y} : m >= z
  OBVIOUS
<1>2. \A n \in {x, y} : (\A z \in {x, y} : n >= z) => n = m
  OBVIOUS
<1> HIDE DEF m
<1> QED BY <1>1, <1>2 DEF Max, m

\* How many commands mature: all but those of the last Lag steps, or of one step more.
LEMMA MaturedCount ==
    ASSUME DrivingAssumption, NEW b \in Seq(Deceleration), NEW n \in Matured(b)
    PROVE  /\ n \in 0 .. Len(b)
           /\ \/ n = 0 /\ Len(b) <= Lag + 1
              \/ n > 0 /\ n = Len(b) - Lag - 1
              \/ n > 0 /\ n = Len(b) - Lag
<1>1. Len(b) \in Nat /\ Lag \in Nat \ {0}
  BY DEF DrivingAssumption
<1>2. /\ Max({0, Len(b) - Lag - 1}) = IF 0 >= Len(b) - Lag - 1 THEN 0 ELSE Len(b) - Lag - 1
      /\ Max({0, Len(b) - Lag}) = IF 0 >= Len(b) - Lag THEN 0 ELSE Len(b) - Lag
  BY <1>1, GreaterOfTwo
<1>3. n = Max({0, Len(b) - Lag - 1}) \/ n = Max({0, Len(b) - Lag})
  BY DEF Matured
<1> QED BY <1>1, <1>2, <1>3

\* A step of the vehicle with a command as hard as was asked for.
LEMMA StepBrakes ==
    ASSUME DrivingAssumption, Braking(buffer, demands, actuated),
           NEW command \in Deceleration, NEW demand \in Deceleration, command <= demand,
           Step(command), demands' = Remembered(demand)
    PROVE  mode' = "stopped" \/ Braking(buffer', demands', actuated')
<1> DEFINE queue == Append(buffer, command)
<1>1. /\ Lag \in Nat \ {0} /\ Keep \in Nat /\ Keep > Lag /\ Len(buffer) \in Nat
      /\ Len(buffer) <= Lag + 1
  BY DEF DrivingAssumption, Braking
<1>2. /\ queue \in Seq(Deceleration) /\ Len(queue) = Len(buffer) + 1
      /\ \A i \in 1 .. Len(buffer) : queue[i] = buffer[i]
      /\ queue[Len(queue)] = command
  BY DEF Braking
<1>3. Trimmed(queue) = queue
  BY <1>1, <1>2 DEF Trimmed
<1>4. CASE mode' = "stopped"
  BY <1>4
<1>5. CASE mode' # "stopped"
  <2>1. PICK n \in Matured(queue) :
            /\ actuated' = IF n = 0 THEN actuated ELSE queue[n]
            /\ buffer' = SubSeq(queue, n + 1, Len(queue))
    BY <1>3, <1>5, Zenon DEF Step
  <2>2. /\ n \in 0 .. Len(queue)
        /\ \/ n = 0 /\ Len(queue) <= Lag + 1
           \/ n > 0 /\ n = Len(queue) - Lag - 1
           \/ n > 0 /\ n = Len(queue) - Lag
    BY <1>2, MaturedCount
  <2>3. /\ demands' = [i \in 1 .. Lag + 2 |-> IF i = Lag + 2 THEN demand ELSE demands[i + 1]]
        /\ demands' \in [1 .. Lag + 2 -> Deceleration]
    BY <1>1 DEF Remembered, Braking
  <2>4. \A i \in 1 .. Len(queue) : queue[i] <= demands'[Lag + 2 - Len(queue) + i]
    <3> SUFFICES ASSUME NEW i \in 1 .. Len(queue)
                 PROVE  queue[i] <= demands'[Lag + 2 - Len(queue) + i]
      OBVIOUS
    <3> DEFINE j == Lag + 2 - Len(queue) + i
    <3>1. j \in 1 .. Lag + 2 /\ (j = Lag + 2 <=> i = Len(queue))
      BY <1>1, <1>2
    <3>2. CASE i = Len(queue)
      BY <3>1, <3>2, <2>3, <1>2
    <3>3. CASE i # Len(queue)
      <4>1. i \in 1 .. Len(buffer) /\ j + 1 = Lag + 2 - Len(buffer) + i
        BY <1>1, <1>2, <3>3
      <4>2. buffer[i] <= demands[j + 1]
        BY <4>1 DEF Braking
      <4>3. demands'[j] = demands[j + 1] /\ queue[i] = buffer[i]
        BY <3>1, <3>3, <4>1, <2>3, <1>2
      <4> QED BY <4>2, <4>3
    <3> QED BY <3>2, <3>3
  <2>5. /\ buffer' \in Seq(Deceleration) /\ Len(buffer') = Len(queue) - n
        /\ \A i \in 1 .. Len(buffer') : buffer'[i] = queue[n + i]
    <3> HIDE DEF queue
    <3> QED BY <2>1, <2>2, <1>2
  <2> HIDE DEF queue
  <2>6. Len(buffer') <= Lag + 1
    BY <2>2, <2>5, <1>1, <1>2
  <2>7. \A i \in 1 .. Len(buffer') : buffer'[i] <= demands'[Lag + 2 - Len(buffer') + i]
    <3> SUFFICES ASSUME NEW i \in 1 .. Len(buffer')
                 PROVE  buffer'[i] <= demands'[Lag + 2 - Len(buffer') + i]
      OBVIOUS
    <3>1. n + i \in 1 .. Len(queue) /\ Lag + 2 - Len(queue) + (n + i) = Lag + 2 - Len(buffer') + i
      BY <2>2, <2>5, <1>1, <1>2
    <3> QED BY <3>1, <2>4, <2>5
  <2>8. actuated' \in Deceleration
    BY <2>1, <2>2, <1>2 DEF Braking
  <2>9. Len(buffer') = Lag + 1 => actuated' <= demands'[1]
    <3> SUFFICES ASSUME Len(buffer') = Lag + 1
                 PROVE  actuated' <= demands'[1]
      OBVIOUS
    <3>1. CASE n = 0
      <4>1. Len(buffer) = Lag /\ actuated' = actuated
        BY <3>1, <2>1, <2>5, <1>1, <1>2
      <4>2. actuated <= demands[2] /\ demands'[1] = demands[2]
        BY <4>1, <2>3, <1>1 DEF Braking
      <4> QED BY <4>1, <4>2
    <3>2. CASE n > 0
      <4>1. n \in 1 .. Len(queue) /\ Lag + 2 - Len(queue) + n = 1
        BY <3>2, <2>2, <2>5, <1>1, <1>2
      <4> QED BY <4>1, <2>1, <2>4
    <3> QED BY <3>1, <3>2, <2>2
  <2>10. Len(buffer') = Lag => actuated' <= demands'[2]
    <3> SUFFICES ASSUME Len(buffer') = Lag
                 PROVE  actuated' <= demands'[2]
      OBVIOUS
    <3>1. CASE n = 0
      <4>1. Len(buffer) = Lag - 1 /\ actuated' = actuated
        BY <3>1, <2>1, <2>5, <1>1, <1>2
      <4>2. 3 \in 1 .. Lag + 2 - Len(buffer) /\ demands'[2] = demands[3]
        BY <4>1, <2>3, <1>1
      <4>3. demands'[2] = NoDemand
        BY <4>1, <4>2, <1>1 DEF Braking
      <4> QED BY <4>3, <2>8 DEF NoDemand, Deceleration
    <3>2. CASE n > 0
      <4>1. n \in 1 .. Len(queue) /\ Lag + 2 - Len(queue) + n = 2
        BY <3>2, <2>2, <2>5, <1>1, <1>2
      <4> QED BY <4>1, <2>1, <2>4
    <3> QED BY <3>1, <3>2, <2>2
  <2>11. Len(buffer') < Lag => \A i \in 1 .. Lag + 2 - Len(buffer') : demands'[i] = NoDemand
    <3> SUFFICES ASSUME Len(buffer') < Lag, NEW i \in 1 .. Lag + 2 - Len(buffer')
                 PROVE  demands'[i] = NoDemand
      OBVIOUS
    <3>1. n = 0 /\ Len(buffer) = Len(buffer') - 1
      BY <2>2, <2>5, <1>1, <1>2
    <3>2. i \in 1 .. Lag + 1 /\ i + 1 \in 1 .. Lag + 2 - Len(buffer)
      BY <3>1, <2>2, <2>5, <1>1, <1>2
    <3> QED BY <3>1, <3>2, <2>3, <1>1 DEF Braking
  <2> QED BY <2>3, <2>5, <2>6, <2>7, <2>8, <2>9, <2>10, <2>11 DEF Braking
<1> QED BY <1>4, <1>5

\* Whatever is planned, the overlays brake as hard as the neighbours ask for.
LEMMA OverlaysBrake ==
    ASSUME NEW planned \in Deceleration, NEW asked \in SUBSET {Gentle, Moderate, Critical}
    PROVE  /\ Overlaid(planned, asked) \in Deceleration
           /\ Min(asked \union {NoDemand}) \in Deceleration
           /\ Overlaid(planned, asked) <= Min(asked \union {NoDemand})
<1> DEFINE demand == Min(asked \union {NoDemand})
           least  == Min({planned} \union asked)
<1>1. /\ asked \union {NoDemand} \in (SUBSET Deceleration) \ {{}}
      /\ {planned} \union asked \in (SUBSET Deceleration) \ {{}}
  BY DEF Gentle, Moderate, Critical, NoDemand, Deceleration
<1>2. /\ demand \in asked \union {NoDemand} /\ \A x \in asked \union {NoDemand} : demand <= x
      /\ least \in {planned} \union asked /\ \A x \in {planned} \union asked : least <= x
  BY <1>1, LeastOfRange, Zenon
<1>3. Overlaid(planned, asked) = IF Critical \in asked THEN Critical ELSE least
  BY Zenon DEF Overlaid
<1> HIDE DEF demand, least
<1>4. CASE Critical \in asked
  <2>1. Critical \in Deceleration /\ \A x \in asked \union {NoDemand} : Critical <= x
    BY DEF Gentle, Moderate, Critical, NoDemand, Deceleration
  <2> QED BY <2>1, <1>1, <1>2, <1>3, <1>4 DEF demand
<1>5. CASE Critical \notin asked
  <2>1. least \in Deceleration /\ demand \in Deceleration
    BY <1>1, <1>2
  <2>2. demand = NoDemand => least <= demand
    BY <2>1 DEF NoDemand, Deceleration
  <2> QED BY <2>1, <2>2, <1>2, <1>3, <1>5 DEF demand
<1> QED BY <1>4, <1>5

LEMMA PlansInRange ==
    ASSUME DrivingAssumption
    PROVE  /\ Planned \subseteq Deceleration
           /\ \A p \in Planned, leads \in BOOLEAN : Command(p, leads) \in Deceleration
BY DEF DrivingAssumption, Planned, Command, Deceleration

LEMMA BrakingStep ==
    ASSUME DrivingAssumption, BrakingKept, [DrivingNext]_drivingVars
    PROVE  BrakingKept'
<1>1. CASE UNCHANGED drivingVars
  BY <1>1 DEF drivingVars, BrakingKept, Braking
<1>2. CASE Conditions
  <2>1. mode # "stopped" /\ UNCHANGED <<buffer, actuated, demands>>
    BY <1>2, Zenon DEF Conditions, CanDrive
  <2> QED BY <2>1 DEF BrakingKept, Braking
<1>3. ASSUME NEW command \in Deceleration, NEW demand \in Deceleration, command <= demand,
             Step(command), demands' = Remembered(demand)
      PROVE  BrakingKept'
  <2>1. CASE mode = "stopped"
    <3>1. mode' = "stopped"
      BY <1>3, <2>1, Zenon DEF Step
    <3> QED BY <3>1 DEF BrakingKept
  <2>2. CASE mode # "stopped"
    BY <1>3, <2>2, StepBrakes DEF BrakingKept
  <2> QED BY <2>1, <2>2
<1>4. CASE DriveWithOverlays
  <2>1. PICK asked \in SUBSET {Gentle, Moderate, Critical} :
            /\ \E command \in {Overlaid(Command(p, leads), asked) : p \in Planned, leads \in BOOLEAN} :
                 Step(command)
            /\ demands' = Remembered(Min(asked \union {NoDemand}))
    BY <1>4 DEF DriveWithOverlays
  <2>2. PICK p \in Planned, leads \in BOOLEAN : Step(Overlaid(Command(p, leads), asked))
    BY <2>1
  <2>3. Command(p, leads) \in Deceleration
    BY PlansInRange, Zenon
  <2> QED BY <2>1, <2>2, <2>3, OverlaysBrake, <1>3
<1>5. CASE BackOff
  <2>1. PICK command \in Planned : Step(command)
    BY <1>5, Zenon DEF BackOff
  <2>2. demands' = Remembered(NoDemand)
    BY <1>5, Zenon DEF BackOff
  <2>3. command \in Deceleration /\ NoDemand \in Deceleration /\ command <= NoDemand
    BY PlansInRange DEF NoDemand, Deceleration
  <2> QED BY <2>1, <2>2, <2>3, <1>3
<1>6. CASE NoTarget
  BY <1>6 DEF NoTarget, BrakingKept, Braking
<1> QED BY <1>1, <1>2, <1>4, <1>5, <1>6 DEF DrivingNext

(***************************************************************************)
(* Vehicle.step: the brake that the neighbours ask for reaches the wheels  *)
(* when the lag is over, whatever the lag, the plan and the other overlays *)
(* are, as long as the buffer keeps more than the lag.                     *)
(***************************************************************************)
THEOREM BrakesArrive ==
    ASSUME DrivingAssumption
    PROVE  DrivingSpec => []BrakingReachesWheels
<1>1. DrivingInit => BrakingKept
  <2> SUFFICES ASSUME DrivingInit
               PROVE  Braking(buffer, demands, actuated)
    BY DEF BrakingKept
  <2>1. Len(buffer) = 0 /\ buffer \in Seq(Deceleration)
    BY DEF DrivingInit
  <2> QED BY <2>1 DEF DrivingInit, Braking, NoDemand, Deceleration, DrivingAssumption
<1>2. BrakingKept /\ [DrivingNext]_drivingVars => BrakingKept'
  BY BrakingStep
<1>3. BrakingKept => BrakingReachesWheels
  <2> SUFFICES ASSUME Braking(buffer, demands, actuated)
               PROVE  actuated <= Max({demands[1], demands[2]})
    BY DEF BrakingKept, BrakingReachesWheels
  <2>1. Lag \in Nat \ {0} /\ Len(buffer) \in Nat
    BY DEF DrivingAssumption, Braking
  <2>2. demands[1] \in Deceleration /\ demands[2] \in Deceleration /\ actuated \in Deceleration
    BY <2>1 DEF Braking
  <2>3. Max({demands[1], demands[2]}) = IF demands[1] >= demands[2] THEN demands[1] ELSE demands[2]
    <3>1. demands[1] \in Int /\ demands[2] \in Int
      BY <2>2 DEF Deceleration
    <3> QED BY <3>1, GreaterOfTwo, Zenon
  <2>4. actuated <= demands[1] \/ actuated <= demands[2]
    <3>1. CASE Len(buffer) < Lag
      <4>1. demands[1] = NoDemand
        BY <3>1, <2>1 DEF Braking
      <4> QED BY <4>1, <2>2 DEF NoDemand, Deceleration
    <3> QED BY <3>1, <2>1 DEF Braking
  <2> QED BY <2>2, <2>3, <2>4 DEF Deceleration
<1> QED BY <1>1, <1>2, <1>3, PTL DEF DrivingSpec

-----------------------------------------------------------------------------
(***************************************************************************)
(* The innovation gate.  A refused fix is followed by a move, in which the *)
(* gate widens by more than the estimate drifts: what the error and the    *)
(* refusals are beyond the gate never exceeds the error of the beginning.  *)
(***************************************************************************)
\* How much more the vehicle is off and refuses than when the lock-out began, against
\* what its uncertainty lets through; a fix refused in this step is made up for when
\* it moves.
OneMore == IF turn \in {"landmark", "move"} THEN 1 ELSE 0

Unsure ==
    /\ turn \in {"events", "gps", "landmark", "move"}
    /\ driftRate \in Nat /\ error \in Int /\ sigma \in Nat /\ bias \in Int /\ headingBias \in Int
    /\ refused \in Nat /\ reach \in Nat
    /\ Abs(error) + refused <= reach + Gate * sigma + OneMore
    /\ refused <= reach + FixStd

LEMMA AbsIsNatural ==
    ASSUME NEW e \in Int
    PROVE  Abs(e) \in Nat /\ (e = 0 => Abs(e) = 0)
BY DEF Abs, Higher

LEMMA AbsOfSum ==
    ASSUME NEW a \in Int, NEW b \in Int
    PROVE  Abs(a + b) <= Abs(a) + Abs(b)
BY DEF Abs, Higher

\* When a lock-out is over, nothing is owed.
LEMMA AnewUnsure ==
    ASSUME EstimateAssumption, Anew, error' \in Int, sigma' \in Nat, turn' \in {"events", "gps", "landmark", "move"}
    PROVE  /\ refused' \in Nat /\ reach' \in Nat
           /\ Abs(error') + refused' <= reach' + Gate * sigma' + OneMore'
           /\ refused' <= reach' + FixStd
<1>1. Abs(error') \in Nat /\ Gate * sigma' \in Nat
  <2>1. \A x, y \in Nat : x * y \in Nat
    OBVIOUS
  <2>2. Gate * sigma' \in Nat
    BY <2>1, Zenon DEF EstimateAssumption
  <2> QED BY <2>2, AbsIsNatural
<1>2. OneMore' \in {0, 1}
  BY DEF OneMore
<1> QED BY <1>1, <1>2 DEF Anew, EstimateAssumption

\* Refusing a true fix takes a gate narrower than the error.
LEMMA NarrowGate ==
    ASSUME EstimateAssumption, Unsure, NEW noise \in Noise, ~Accepted(noise)
    PROVE  Gate * sigma <= Abs(error) + FixStd - 1
<1> USE DEF EstimateAssumption
<1>1. noise \in Int /\ Abs(noise - error) \in Nat /\ Abs(noise - error) <= Abs(error) + FixStd
  BY DEF Unsure, Noise, Abs, Higher
<1>2. ~(Abs(noise - error) <= Gate * Higher(sigma, FixStd))
  BY DEF Accepted
<1>3. PICK s \in Nat : s = Higher(sigma, FixStd)
  BY DEF Unsure, Higher
<1>4. sigma <= s /\ sigma \in Nat
  BY <1>3 DEF Higher, Unsure
<1>5. Gate * sigma <= Gate * s /\ Gate * s \in Nat /\ Gate * sigma \in Nat
  <2>1. \A g, x, y \in Nat : x <= y => g * x <= g * y /\ g * x \in Nat /\ g * y \in Nat
    OBVIOUS
  <2> QED BY <1>4, <2>1
<1>6. Gate * s < Abs(noise - error)
  BY <1>1, <1>2, <1>3, <1>5
<1>7. Abs(error) \in Nat
  BY AbsIsNatural DEF Unsure
<1> QED BY <1>1, <1>5, <1>6, <1>7

\* A fix moves the estimate towards what was measured, or is refused.
LEMMA FixKeeps ==
    ASSUME EstimateAssumption, Unsure, NEW measured \in Int, NEW most \in Nat \ {0}, Fix(measured, most)
    PROVE  /\ error' \in Int /\ bias' \in Int /\ sigma' \in Nat
           /\ ~Accepted(measured) => error' = error /\ sigma' = sigma
<1> USE DEF EstimateAssumption
<1>1. CASE Accepted(measured)
  <2>1. error' \in Within(error, measured)
    BY <1>1 DEF Fix, Update
  <2>2. error' \in Int
    BY <2>1 DEF Within, Lower, Higher, Unsure
  <2>3. PICK m \in Nat : m = Lower(sigma, FixStd)
    BY DEF Lower, Unsure
  <2>4. sigma' \in m \div 2 .. m
    BY <1>1, <2>3 DEF Fix, Update
  <2>5. m \div 2 \in Nat
    OBVIOUS
  <2>6. sigma' \in Nat
    BY <2>4, <2>5
  <2>7. bias' \in Within(0, bias)
    BY <1>1 DEF Fix, Update, Shrunk
  <2>8. bias' \in Int
    BY <2>7 DEF Within, Lower, Higher, Unsure
  <2> QED BY <1>1, <2>2, <2>6, <2>8
<1>2. CASE ~Accepted(measured)
  BY <1>2 DEF Fix, Unsure
<1> QED BY <1>1, <1>2

LEMMA GpsFixUnsure ==
    ASSUME EstimateAssumption, Unsure, GpsFix
    PROVE  Unsure'
<1> USE DEF EstimateAssumption
<1>1. PICK shift \in {0, Offset}, noise \in Noise :
          /\ Fix(shift + noise, 5)
          /\ IF Accepted(shift + noise) THEN Anew
             ELSE refused' = (IF shift = 0 THEN refused + 1 ELSE refused) /\ UNCHANGED reach
  BY DEF GpsFix
<1>2. PICK measured \in Int : measured = shift + noise
  BY DEF Noise
<1>3. shift = 0 => measured = noise
  BY <1>2 DEF Noise
<1>4. /\ Fix(measured, 5)
      /\ IF Accepted(measured) THEN Anew
         ELSE refused' = (IF shift = 0 THEN refused + 1 ELSE refused) /\ UNCHANGED reach
  BY <1>1, <1>2
<1>5. /\ error' \in Int /\ bias' \in Int /\ sigma' \in Nat
      /\ ~Accepted(measured) => error' = error /\ sigma' = sigma
  BY <1>4, FixKeeps
<1>6. turn = "gps" /\ turn' = "landmark" /\ UNCHANGED <<driftRate, headingBias>>
  BY DEF GpsFix
<1>7. OneMore = 0 /\ OneMore' = 1
  BY <1>6 DEF OneMore
<1>8. CASE Accepted(measured)
  BY <1>4, <1>5, <1>6, <1>8, AnewUnsure DEF Unsure
<1>9. CASE ~Accepted(measured)
  <2>1. error' = error /\ sigma' = sigma /\ reach' = reach /\ Gate * sigma \in Nat /\ Abs(error) \in Nat
    BY <1>4, <1>5, <1>9, AbsIsNatural DEF Unsure
  <2>2. CASE shift = 0
    <3>1. Gate * sigma <= Abs(error) + FixStd - 1
      BY <1>3, <1>9, <2>2, NarrowGate
    <3>2. refused' = refused + 1
      BY <1>4, <1>9, <2>2
    <3>3. refused' <= reach + FixStd
      BY <1>7, <2>1, <3>1, <3>2 DEF Unsure
    <3> QED BY <1>5, <1>6, <1>7, <2>1, <3>2, <3>3 DEF Unsure
  <2>3. CASE shift # 0
    <3>1. refused' = refused
      BY <1>4, <1>9, <2>3
    <3> QED BY <1>5, <1>6, <1>7, <2>1, <3>1 DEF Unsure
  <2> QED BY <2>2, <2>3
<1> QED BY <1>8, <1>9

LEMMA LandmarkFixUnsure ==
    ASSUME EstimateAssumption, Unsure, LandmarkFix
    PROVE  Unsure'
<1> USE DEF EstimateAssumption
<1>1. PICK noise \in Noise : Fix(noise, 2) /\ IF Accepted(noise) THEN Anew ELSE UNCHANGED <<refused, reach>>
  BY DEF LandmarkFix
<1>2. noise \in Int
  BY DEF Noise
<1>3. /\ error' \in Int /\ bias' \in Int /\ sigma' \in Nat
      /\ ~Accepted(noise) => error' = error /\ sigma' = sigma
  BY <1>1, <1>2, FixKeeps
<1>4. UNCHANGED <<turn, driftRate, headingBias>>
  BY DEF LandmarkFix
<1>5. CASE Accepted(noise)
  BY <1>1, <1>3, <1>4, <1>5, AnewUnsure DEF Unsure
<1>6. CASE ~Accepted(noise)
  BY <1>1, <1>3, <1>4, <1>6 DEF Unsure, OneMore
<1> QED BY <1>5, <1>6

LEMMA MoveUnsure ==
    ASSUME EstimateAssumption, Unsure, Move
    PROVE  Unsure'
<1> USE DEF EstimateAssumption
<1>1. bias' \in Int /\ headingBias' \in Int
  <2>1. PICK decayed \in Within(0, bias), push \in {-1, 0, 1} : bias' = decayed + push
    BY DEF Move, Biases
  <2>2. decayed \in Int
    BY <2>1 DEF Within, Lower, Higher, Unsure
  <2>3. headingBias' \in Int
    BY DEF Move, Unsure
  <2> QED BY <2>1, <2>2, <2>3
<1>2. PICK moving \in BOOLEAN : \E drift \in IF moving THEN DriftsDriving ELSE DriftsAtRest :
         /\ error' = error + drift
         /\ \E growth \in Grown(moving) : sigma' = Lower(sigma + growth, Cap)
         /\ IF Covered(drift) THEN UNCHANGED <<refused, reach>> ELSE Anew
  BY DEF Move
<1>3. PICK drift \in Int :
         /\ error' = error + drift
         /\ \E growth \in Grown(moving) : sigma' = Lower(sigma + growth, Cap)
         /\ IF Covered(drift) THEN UNCHANGED <<refused, reach>> ELSE Anew
  <2>1. DriftsAtRest \subseteq Int
    BY <1>1 DEF DriftsAtRest, Unsure
  <2>2. DriftsDriving \subseteq Int
    BY <1>1, <2>1 DEF DriftsDriving
  <2>3. (IF moving THEN DriftsDriving ELSE DriftsAtRest) \subseteq Int
    BY <2>1, <2>2
  <2> QED BY <1>2, <2>3, Zenon
<1>4. /\ error' = error + drift
      /\ IF Covered(drift) THEN UNCHANGED <<refused, reach>> ELSE Anew
  BY <1>3
<1>5. PICK growth \in Grown(moving) : sigma' = Lower(sigma + growth, Cap)
  BY <1>3
<1>6. growth \in Nat /\ growth >= driftRate /\ driftRate \in Nat
  BY <1>1, AbsIsNatural DEF Grown, Unsure
<1>7. error' \in Int /\ sigma' \in Nat
  BY <1>4, <1>5, <1>6 DEF Lower, Unsure
<1>8. turn = "move" /\ turn' = "events" /\ driftRate' = driftRate /\ OneMore = 1 /\ OneMore' = 0
  BY DEF Move, OneMore
<1>9. CASE ~Covered(drift)
  BY <1>1, <1>4, <1>7, <1>8, <1>9, AnewUnsure DEF Unsure
<1>10. CASE Covered(drift)
  <2>1. sigma' >= sigma + driftRate
    BY <1>5, <1>6, <1>10 DEF Covered, Lower, Unsure
  <2>2. Gate * sigma' >= Gate * sigma + Gate * driftRate
        /\ Gate * sigma \in Nat /\ Gate * driftRate \in Nat /\ Gate * sigma' \in Nat
    <3>1. \A g, x, y, z \in Nat : z >= x + y => g * z >= g * x + g * y
                                    /\ g * x \in Nat /\ g * y \in Nat /\ g * z \in Nat
      <4>1. \A g, x, y, z \in Nat : z >= x + y => g * z >= g * (x + y)
        OBVIOUS
      <4>2. \A g, x, y \in Nat : g * (x + y) = g * x + g * y /\ g * x \in Nat
        OBVIOUS
      <4> QED BY <4>1, <4>2
    <3> QED BY <1>6, <1>7, <2>1, <3>1 DEF Unsure
  <2>3. Abs(drift) + 1 <= Gate * driftRate /\ Abs(drift) \in Nat
    BY <1>10, <2>2, AbsIsNatural DEF Covered
  <2>4. Abs(error') <= Abs(error) + Abs(drift) /\ Abs(error) \in Nat /\ Abs(error') \in Nat
    BY <1>4, <1>7, AbsOfSum, AbsIsNatural DEF Unsure
  <2>5. refused' = refused /\ reach' = reach
    BY <1>4, <1>10
  <2>6. Abs(error') + refused <= reach + Gate * sigma'
    BY <1>8, <2>2, <2>3, <2>4 DEF Unsure
  <2>7. refused <= reach + FixStd /\ reach \in Nat /\ refused \in Nat
    BY DEF Unsure
  <2>8. Abs(error') + refused' <= reach' + Gate * sigma' + OneMore'
    BY <1>8, <2>2, <2>4, <2>5, <2>6, <2>7
  <2> QED BY <1>1, <1>6, <1>7, <1>8, <2>5, <2>7, <2>8 DEF Unsure
<1> QED BY <1>9, <1>10

LEMMA UnsureStep ==
    ASSUME EstimateAssumption, Unsure, [EstimateNext]_estimate
    PROVE  Unsure'
<1> USE DEF EstimateAssumption
<1>1. CASE Events
  <2>1. turn = "events" /\ turn' = "gps" /\ error' = error /\ UNCHANGED <<driftRate, headingBias>>
    BY <1>1 DEF Events
  <2>2. CASE UNCHANGED <<error, spiked, bias, sigma, refused, reach>>
    BY <2>1, <2>2 DEF Unsure, OneMore
  <2>3. CASE ~UNCHANGED <<error, spiked, bias, sigma, refused, reach>>
    <3>1. PICK kick \in -Spike .. Spike, s \in Spread : sigma' = Lower(s, Cap) /\ bias' = bias + kick /\ Anew
      BY <1>1, <2>3 DEF Events
    <3>2. sigma' \in Nat /\ bias' \in Int /\ error' \in Int
      BY <2>1, <3>1 DEF Spread, Lower, Higher, Unsure
    <3> QED BY <2>1, <3>1, <3>2, AnewUnsure DEF Unsure
  <2> QED BY <2>2, <2>3
<1>2. CASE GpsFix
  BY <1>2, GpsFixUnsure
<1>3. CASE NoGpsFix
  <2>1. /\ turn' = "landmark"
        /\ UNCHANGED <<driftRate, error, sigma, bias, headingBias, spiked, refused, reach>>
        /\ OneMore = 0 /\ OneMore' = 1
    BY <1>3 DEF NoGpsFix, OneMore
  <2>2. Gate * sigma \in Nat /\ Abs(error) \in Nat
    <3>1. \A x, y \in Nat : x * y \in Nat
      OBVIOUS
    <3>2. Gate * sigma \in Nat
      BY <3>1, Zenon DEF Unsure
    <3> QED BY <3>2, AbsIsNatural DEF Unsure
  <2> QED BY <2>1, <2>2 DEF Unsure
<1>4. CASE LandmarkFix
  BY <1>4, LandmarkFixUnsure
<1>5. CASE NoMoreLandmarks
  BY <1>5 DEF NoMoreLandmarks, Unsure, OneMore
<1>6. CASE Move
  BY <1>6, MoveUnsure
<1>7. CASE UNCHANGED estimate
  BY <1>7 DEF estimate, Unsure, OneMore
<1> QED BY <1>1, <1>2, <1>3, <1>4, <1>5, <1>6, <1>7 DEF EstimateNext

\* PositionEstimator.apply_gps_fix: whatever the gate, the drift rate, the spike and the
\* offset of a spoofer are, a vehicle that drifts more slowly than its gate widens is let
\* in again after as many refused fixes as it was units off, and the noise of one.
THEOREM GateLetsIn ==
    ASSUME EstimateAssumption
    PROVE  EstimateSpec => []LockoutEnds
<1>1. EstimateInit => Unsure
  <2> SUFFICES ASSUME EstimateInit PROVE Unsure
    OBVIOUS
  <2>1. Abs(error) = 0
    BY AbsIsNatural DEF EstimateInit
  <2>4. OneMore = 0
    BY DEF EstimateInit, OneMore
  <2>3. driftRate \in Nat
    BY DEF EstimateAssumption, EstimateInit
  <2>2. Gate * sigma = Gate
    BY DEF EstimateAssumption, EstimateInit
  <2> QED BY <2>1, <2>2, <2>3, <2>4 DEF EstimateAssumption, EstimateInit, Unsure
<1>2. Unsure /\ [EstimateNext]_estimate => Unsure'
  BY UnsureStep
<1>3. Unsure => LockoutEnds
  BY DEF Unsure, LockoutEnds
<1> QED BY <1>1, <1>2, <1>3, PTL DEF EstimateSpec

-----------------------------------------------------------------------------
(***************************************************************************)
(* Finding a jammer.  Readings are told on and pile up, so the invariant   *)
(* follows them: whatever a vehicle knows, or a report under way is about, *)
(* somebody has sensed.                                                    *)
(***************************************************************************)
\* What vehicles know, what is told and what the location was computed from has been
\* sensed.
SensedOnly ==
    /\ elapsed \in Nat /\ driving \subseteq Scouts
    /\ \A r \in sensed : r.at \in Nat
    /\ readings \in [Scouts -> SUBSET sensed]
    /\ \A m \in reports : m.about \in sensed
    /\ EvidenceWasSensed

LEMMA AnotherThan ==
    ASSUME NEW S, NEW x \in S, Cardinality(S) >= 2
    PROVE  \E y \in S : x # y
<1> SUFFICES ASSUME \A y \in S : x = y
             PROVE  FALSE
  OBVIOUS
<1>1. S = {x}
  OBVIOUS
<1>2. Cardinality({x}) = 1
  BY FS_Singleton
<1> QED BY <1>1, <1>2

LEMMA EwTickSensedOnly ==
    ASSUME JammingAssumption, SensedOnly, EwTick
    PROVE  SensedOnly'
<1>1. PICK sensing \in (IF jammers THEN SUBSET driving ELSE {{}}) :
         \E where \in [sensing -> Places], heard \in SUBSET (sensing \X driving),
          clear \in BOOLEAN :
         LET own(v) == [from |-> v, place |-> where[v], at |-> elapsed]
             kept(v) == Fresh(readings[v] \union {own(v)})
             finders == {v \in sensing : clear /\ Cardinality(kept(v)) >= 2}
         IN /\ \A v, w \in sensing : v # w => where[v] # where[w]
            /\ \A p \in heard : p[1] # p[2]
            /\ readings' = [v \in Scouts |-> IF v \in sensing THEN kept(v) ELSE readings[v]]
            /\ reports' = reports \union
                   {[to |-> p[2], about |-> own(p[1]), sent |-> elapsed] : p \in heard}
            /\ hopping' = hopping \union sensing
            /\ sensed' = sensed \union {own(v) : v \in sensing}
            /\ IF located # NotLocated \/ finders = {} THEN UNCHANGED located
               ELSE \E v \in finders : located' = [by |-> v, at |-> elapsed, used |-> kept(v)]
  BY Zenon DEF EwTick
<1>2. PICK where \in [sensing -> Places], heard \in SUBSET (sensing \X driving),
          clear \in BOOLEAN :
         LET own(v) == [from |-> v, place |-> where[v], at |-> elapsed]
             kept(v) == Fresh(readings[v] \union {own(v)})
             finders == {v \in sensing : clear /\ Cardinality(kept(v)) >= 2}
         IN /\ \A v, w \in sensing : v # w => where[v] # where[w]
            /\ \A p \in heard : p[1] # p[2]
            /\ readings' = [v \in Scouts |-> IF v \in sensing THEN kept(v) ELSE readings[v]]
            /\ reports' = reports \union
                   {[to |-> p[2], about |-> own(p[1]), sent |-> elapsed] : p \in heard}
            /\ hopping' = hopping \union sensing
            /\ sensed' = sensed \union {own(v) : v \in sensing}
            /\ IF located # NotLocated \/ finders = {} THEN UNCHANGED located
               ELSE \E v \in finders : located' = [by |-> v, at |-> elapsed, used |-> kept(v)]
  BY <1>1, Zenon
<1> DEFINE own(v) == [from |-> v, place |-> where[v], at |-> elapsed]
           kept(v) == Fresh(readings[v] \union {own(v)})
<1>3. sensing \subseteq driving /\ driving \subseteq Scouts
  BY DEF SensedOnly
<1>4. /\ readings' = [v \in Scouts |-> IF v \in sensing THEN kept(v) ELSE readings[v]]
      /\ reports' = reports \union {[to |-> p[2], about |-> own(p[1]), sent |-> elapsed] : p \in heard}
      /\ sensed' = sensed \union {own(v) : v \in sensing}
      /\ IF located # NotLocated \/ {v \in sensing : clear /\ Cardinality(kept(v)) >= 2} = {}
         THEN UNCHANGED located
         ELSE \E v \in {w \in sensing : clear /\ Cardinality(kept(w)) >= 2} :
                  located' = [by |-> v, at |-> elapsed, used |-> kept(v)]
  BY <1>2, Zenon
<1>5. elapsed' = elapsed /\ driving' = driving
  BY DEF EwTick
<1>6. \A v \in sensing : own(v).at = elapsed /\ own(v).from = v
  OBVIOUS
<1> HIDE DEF own
<1>7. \A v \in sensing : kept(v) \subseteq sensed'
  BY <1>3, <1>4 DEF Fresh, SensedOnly
<1>8. readings' \in [Scouts -> SUBSET sensed']
  BY <1>4, <1>7 DEF SensedOnly
<1>9. \A r \in sensed' : r.at \in Nat
  BY <1>4, <1>6 DEF SensedOnly
<1>10. \A m \in reports' : m.about \in sensed'
  <2> SUFFICES ASSUME NEW m \in reports'
               PROVE  m.about \in sensed'
    OBVIOUS
  <2>1. CASE m \in reports
    BY <2>1, <1>4 DEF SensedOnly
  <2>2. CASE \E p \in heard : m = [to |-> p[2], about |-> own(p[1]), sent |-> elapsed]
    BY <2>2, <1>4
  <2> QED BY <2>1, <2>2, <1>4
<1>11. EvidenceWasSensed'
  <2>1. CASE UNCHANGED located
    BY <2>1, <1>4 DEF SensedOnly, EvidenceWasSensed
  <2>2. CASE \E v \in sensing : /\ Cardinality(kept(v)) >= 2
                                /\ located' = [by |-> v, at |-> elapsed, used |-> kept(v)]
    <3>1. PICK v \in sensing : /\ Cardinality(kept(v)) >= 2
                               /\ located' = [by |-> v, at |-> elapsed, used |-> kept(v)]
      BY <2>2
    <3>2. own(v) \in kept(v)
      BY <1>6 DEF Fresh, SensedOnly, JammingAssumption
    <3>3. \E other \in kept(v) : own(v) # other
      BY <3>1, <3>2, AnotherThan
    <3>4. \A r \in kept(v) : r.at >= elapsed - Lifetime
      BY DEF Fresh
    <3>5. \A r \in kept(v) : elapsed - r.at <= Lifetime
      BY <3>4, <1>7, <1>9 DEF JammingAssumption, SensedOnly
    <3>6. located'.used = kept(v) /\ located'.at = elapsed /\ located'.by = v
      BY <3>1
    <3> QED BY <3>2, <3>3, <3>5, <3>6, <1>6, <1>7 DEF EvidenceWasSensed
  <2> QED BY <1>4, <2>1, <2>2
<1> QED BY <1>3, <1>5, <1>8, <1>9, <1>10, <1>11 DEF SensedOnly

LEMMA SensedOnlyStep ==
    ASSUME JammingAssumption, SensedOnly, [JammingNext]_jamming
    PROVE  SensedOnly'
<1>1. CASE PlaceJammers
  BY <1>1 DEF PlaceJammers, SensedOnly, EvidenceWasSensed
<1>2. CASE EwTick
  BY <1>2, EwTickSensedOnly
<1>3. CASE Messages
  <2>1. PICK arriving \in SUBSET reports :
            /\ readings' = [v \in Scouts |-> readings[v] \union
                   {Taken(m) : m \in {n \in arriving : n.to = v /\ v \in driving}}]
            /\ reports' = reports \ arriving
    BY <1>3 DEF Messages
  <2>2. UNCHANGED <<elapsed, driving, located, sensed>>
    BY <1>3 DEF Messages
  <2> QED BY <2>1, <2>2 DEF SensedOnly, EvidenceWasSensed, Taken
<1>4. CASE TimeStep
  BY <1>4 DEF TimeStep, SensedOnly, EvidenceWasSensed
<1>5. CASE UNCHANGED jamming
  BY <1>5 DEF jamming, SensedOnly, EvidenceWasSensed
<1> QED BY <1>1, <1>2, <1>3, <1>4, <1>5 DEF JammingNext

\* SimRunner._ew_tick, _process_messages: whatever reports arrive and however late, a
\* jammer is located from bearings that were really taken, where and when their
\* reports say, within the lifetime, by the vehicle that locates it and once more.
THEOREM JammerLocatedFromWhatWasSensed ==
    ASSUME JammingAssumption
    PROVE  JammingSpec => []EvidenceWasSensed
<1>1. JammingInit => SensedOnly
  BY DEF JammingInit, SensedOnly, EvidenceWasSensed
<1>2. SensedOnly /\ [JammingNext]_jamming => SensedOnly'
  BY SensedOnlyStep
<1>3. SensedOnly => EvidenceWasSensed
  BY DEF SensedOnly
<1> QED BY <1>1, <1>2, <1>3, PTL DEF JammingSpec
-----------------------------------------------------------------------------
(***************************************************************************)
(* The accuracy guard.  A breach on high-risk decisions that the check has *)
(* found is still to be enforced or has closed the gate; nothing is left   *)
(* to enforce when the check returns.                                      *)
(***************************************************************************)
HighRisk == "high_risk_accuracy"
Overall  == "overall_accuracy"

Enforcing ==
    /\ breaches \in {<<>>, <<Overall>>, <<HighRisk>>, <<Overall, HighRisk>>}
    /\ check \in {"idle", "alert", "rollback", "returned"}
    /\ check = "idle" => ~stood
    /\ check \in {"alert", "rollback"} <=> breaches # <<>>
    /\ check = "rollback" => Head(breaches) = HighRisk
    /\ stood /\ ~resolved => open \/ breaches \in {<<HighRisk>>, <<Overall, HighRisk>>}

LEMMA PairConcat ==
    ASSUME NEW a, NEW b
    PROVE  <<a>> \o <<b>> = <<a, b>>
<1> DEFINE S == {a, b}
           s == <<a>> \o <<b>>
<1>1. <<a>> \in Seq(S) /\ <<b>> \in Seq(S) /\ <<a, b>> \in Seq(S)
  OBVIOUS
<1>2. s \in Seq(S) /\ Len(s) = 2 /\ s[1] = a /\ s[2] = b
  BY <1>1, ConcatProperties
<1> HIDE DEF S, s
<1>3. Len(s) = Len(<<a, b>>) /\ \A i \in 1 .. Len(s) : s[i] = <<a, b>>[i]
  BY <1>2
<1>4. s = <<a, b>>
  BY <1>1, <1>2, <1>3, SeqEqual
<1> QED BY <1>4 DEF s

LEMMA FoundBreaches ==
    ASSUME NEW counted
    PROVE  /\ Found(counted) \in {<<>>, <<Overall>>, <<HighRisk>>, <<Overall, HighRisk>>}
           /\ HighRiskBreach(counted) => Found(counted) \in {<<HighRisk>>, <<Overall, HighRisk>>}
<1>1. /\ <<>> \o <<>> = <<>> /\ <<Overall>> \o <<>> = <<Overall>>
      /\ <<>> \o <<HighRisk>> = <<HighRisk>>
      /\ <<Overall>> \o <<HighRisk>> = <<Overall, HighRisk>>
  <2>1. <<Overall>> \in Seq({Overall}) /\ <<HighRisk>> \in Seq({HighRisk}) /\ <<>> \in Seq({Overall})
    OBVIOUS
  <2> QED BY <2>1, ConcatEmptySeq, PairConcat
<1>2. Found(counted) = (IF OverallBreach(counted) THEN <<Overall>> ELSE <<>>)
                     \o (IF HighRiskBreach(counted) THEN <<HighRisk>> ELSE <<>>)
  BY DEF Found, Overall, HighRisk
<1> QED BY <1>1, <1>2

\* A breach that is enforced is taken off the front.
LEMMA TailBreaches ==
    ASSUME Enforcing, breaches # <<>>
    PROVE  /\ Tail(breaches) \in {<<>>, <<HighRisk>>}
           /\ Head(breaches) # HighRisk /\ breaches \in {<<HighRisk>>, <<Overall, HighRisk>>}
                  => Tail(breaches) = <<HighRisk>>
<1>1. /\ Tail(<<Overall>>) = <<>> /\ Tail(<<HighRisk>>) = <<>>
      /\ Tail(<<Overall, HighRisk>>) = <<HighRisk>>
      /\ Head(<<HighRisk>>) = HighRisk
  OBVIOUS
<1> QED BY <1>1 DEF Enforcing

LEMMA EnforcingStep ==
    ASSUME Enforcing, [FeedbackNext]_feedbackVars
    PROVE  Enforcing'
<1>1. CASE UNCHANGED <<open, guard, resolved>> /\ (Stands \/ UNCHANGED stood)
  <2>1. stood' => stood
    BY <1>1, Zenon DEF Stands
  <2> QED BY <1>1, <2>1 DEF Enforcing, guard
<1>2. CASE ResolveRollbacks
  BY <1>2 DEF Enforcing, ResolveRollbacks, guard
<1>3. CASE Check
  <2>1. /\ breaches' = Found(rows)
        /\ check' = IF breaches' = <<>> THEN "returned" ELSE "alert"
        /\ stood' = HighRiskBreach(rows)
    BY <1>3 DEF Check
  <2>2. stood' => breaches' \in {<<HighRisk>>, <<Overall, HighRisk>>}
    BY <2>1, FoundBreaches
  <2>3. breaches' \in {<<>>, <<Overall>>, <<HighRisk>>, <<Overall, HighRisk>>}
    BY <2>1, FoundBreaches
  <2> HIDE <2>1
  <2>4. check' = IF breaches' = <<>> THEN "returned" ELSE "alert"
    BY <2>1
  <2> QED BY <2>2, <2>3, <2>4 DEF Enforcing
<1>4. CASE /\ Enforced /\ UNCHANGED <<stood, resolved>> /\ breaches # <<>>
           /\ (open' = open /\ Head(breaches) # HighRisk) \/ open' = TRUE
  <2>1. /\ breaches' = Tail(breaches) /\ UNCHANGED <<stood, resolved>>
        /\ check' = IF breaches' = <<>> THEN "returned" ELSE "alert"
    BY <1>4 DEF Enforced
  <2>2. breaches' \in {<<>>, <<HighRisk>>}
    BY <1>4, <2>1, TailBreaches
  <2>3. stood' /\ ~resolved' => open' \/ breaches' = <<HighRisk>>
    BY <1>4, <2>1, TailBreaches DEF Enforcing
  <2>4. stood' => stood
    BY <2>1
  <2> QED BY <2>1, <2>2, <2>3 DEF Enforcing
<1>5. CASE InsertAlert
  <2>1. CASE Head(breaches) = HighRisk
    BY <1>5, <2>1 DEF InsertAlert, Enforcing, HighRisk
  <2>2. CASE Head(breaches) # HighRisk
    <3>1. Enforced /\ UNCHANGED <<open, stood, resolved>> /\ check = "alert"
      BY <1>5, <2>2 DEF InsertAlert, HighRisk
    <3> QED BY <1>4, <2>2, <3>1 DEF Enforcing
  <2> QED BY <2>1, <2>2
<1>6. CASE InsertRollback
  <2>1. Enforced /\ UNCHANGED <<stood, resolved>> /\ open' = TRUE /\ check = "rollback"
    BY <1>6 DEF InsertRollback
  <2> QED BY <1>4, <2>1 DEF Enforcing
<1>7. CASE EndCheck
  BY <1>7 DEF EndCheck, Enforcing
<1> QED
  BY <1>1, <1>2, <1>3, <1>5, <1>6, <1>7
  DEF FeedbackNext, IngestLabelled, ApplyLabel, FailInsert, Answer, feedbackVars, guard

\* enforce of accuracy_guard.py: a check that returns with high risk in breach has closed
\* the gate, whatever inserts failed before, for every limit and threshold.
THEOREM HighRiskBreachClosesGate == FeedbackSpec => []BreachClosesGate
<1>1. FeedbackInit => Enforcing
  BY DEF FeedbackInit, Enforcing
<1>2. Enforcing /\ [FeedbackNext]_feedbackVars => Enforcing'
  BY EnforcingStep
<1>3. Enforcing => BreachClosesGate
  BY DEF Enforcing, BreachClosesGate
<1> QED BY <1>1, <1>2, <1>3, PTL DEF FeedbackSpec
-----------------------------------------------------------------------------
(***************************************************************************)
(* Migrations.  Whole(v): every table and index of version v is on disk.   *)
(* A version is recorded by a process that has run it to its end, and what *)
(* a process counts as applied is recorded.                                *)
(***************************************************************************)
Whole(v) == \A i \in 1 .. Statements[v] : <<v, i>> \in created

MigratesInOrder(p) ==
    /\ applied[p] \subseteq recorded
    /\ place[p] \in {"up", "record", "commit"} => current[p] \in Version
    /\ place[p] = "up" =>
           /\ statement[p] \in 1 .. Statements[current[p]]
           /\ \A i \in 1 .. statement[p] - 1 : <<current[p], i>> \in created
    /\ place[p] \in {"record", "commit"} => Whole(current[p])
    /\ place[p] = "open" => Version \subseteq applied[p]

MigrationRows ==
    /\ place \in [Process -> {"closed", "choose", "up", "record", "commit", "open"}]
    /\ applied \in [Process -> SUBSET Version]
    /\ current \in [Process -> Nat] /\ statement \in [Process -> Nat]

Migrating ==
    /\ MigrationRows
    /\ recorded \subseteq Version
    /\ \A v \in recorded : Whole(v)
    /\ \A p \in Process : MigratesInOrder(p)

\* The least of the pending versions is one.
LEMMA NextVersionIsPending ==
    ASSUME MigrationsAssumption, NEW p, Pending(p) # {}
    PROVE  (CHOOSE v \in Pending(p) : \A w \in Pending(p) : v <= w) \in Pending(p)
<1>1. Pending(p) \in SUBSET Nat
  BY DEF MigrationsAssumption, Pending, Version
<1>2. \E v \in Pending(p) : \A w \in Pending(p) : v <= w
  BY <1>1, LeastNatural
<1> QED BY <1>2

LEMMA MigratingInit ==
    ASSUME MigrationsInit
    PROVE  Migrating
BY DEF MigrationsInit, Migrating, MigrationRows, MigratesInOrder

\* What is on disk and what is recorded only grow, so that a step of one process leaves
\* what holds of another as it is.
LEMMA OthersMigrateOn ==
    ASSUME created \subseteq created', recorded \subseteq recorded',
           NEW q, MigratesInOrder(q),
           UNCHANGED <<place[q], applied[q], current[q], statement[q]>>
    PROVE  MigratesInOrder(q)'
BY DEF MigratesInOrder, Whole

\* It is enough to look at the process that takes the step.
LEMMA MigratingByProcess ==
    ASSUME Migrating, NEW p \in Process, MigrationRows',
           created \subseteq created', recorded \subseteq recorded', recorded' \subseteq Version,
           \A v \in recorded' \ recorded : Whole(v)',
           \A q \in Process \ {p} : UNCHANGED <<place[q], applied[q], current[q], statement[q]>>,
           MigratesInOrder(p)'
    PROVE  Migrating'
<1>1. \A v \in recorded : Whole(v)'
  BY DEF Migrating, Whole
<1>2. \A q \in Process \ {p} : MigratesInOrder(q)'
  BY OthersMigrateOn DEF Migrating
<1> QED BY <1>1, <1>2 DEF Migrating

LEMMA ReadAppliedMigrates ==
    ASSUME Migrating, NEW p \in Process, ReadApplied(p)
    PROVE  Migrating'
<1> USE DEF ReadApplied, Goto
<1>1. MigrationRows' /\ recorded' = recorded /\ created' = created
  BY DEF Migrating, MigrationRows
<1>2. \A q \in Process \ {p} : UNCHANGED <<place[q], applied[q], current[q], statement[q]>>
  BY DEF Migrating, MigrationRows
<1>3. MigratesInOrder(p)'
  BY DEF Migrating, MigrationRows, MigratesInOrder
<1> QED BY <1>1, <1>2, <1>3, MigratingByProcess DEF Migrating

LEMMA ChooseMigrates ==
    ASSUME MigrationsAssumption, Migrating, NEW p \in Process, Choose(p)
    PROVE  Migrating'
<1>1. recorded' = recorded /\ created' = created /\ applied' = applied
  BY DEF Choose
<1>2. CASE Pending(p) = {}
  <2>1. Goto(p, "open") /\ UNCHANGED <<current, statement>>
    BY <1>2 DEF Choose
  <2>2. MigrationRows' /\ place'[p] = "open"
    BY <1>1, <2>1 DEF Goto, Migrating, MigrationRows
  <2>3. \A q \in Process \ {p} : UNCHANGED <<place[q], applied[q], current[q], statement[q]>>
    BY <1>1, <2>1 DEF Goto, Migrating, MigrationRows
  <2>4. MigratesInOrder(p)'
    BY <1>1, <1>2, <2>2 DEF Migrating, MigratesInOrder, Pending
  <2> QED BY <1>1, <2>2, <2>3, <2>4, MigratingByProcess DEF Migrating
<1>3. CASE Pending(p) # {}
  <2>1. PICK v \in Pending(p) : current' = [current EXCEPT ![p] = v]
    BY <1>3, NextVersionIsPending DEF Choose
  <2>2. Goto(p, "up") /\ statement' = [statement EXCEPT ![p] = 1]
    BY <1>3 DEF Choose
  <2>3. v \in Version /\ v \in Nat /\ Statements[v] \in Nat \ {0}
    BY <2>1 DEF MigrationsAssumption, Pending, Version
  <2>4. MigrationRows'
    BY <1>1, <2>1, <2>2, <2>3 DEF Goto, Migrating, MigrationRows
  <2>5. \A q \in Process \ {p} : UNCHANGED <<place[q], applied[q], current[q], statement[q]>>
    BY <1>1, <2>1, <2>2 DEF Goto, Migrating, MigrationRows
  <2>6. place'[p] = "up" /\ current'[p] = v /\ statement'[p] = 1
    BY <2>1, <2>2 DEF Goto, Migrating, MigrationRows
  <2>7. MigratesInOrder(p)'
    BY <1>1, <2>3, <2>6 DEF Migrating, MigratesInOrder
  <2> QED BY <1>1, <2>4, <2>5, <2>7, MigratingByProcess DEF Migrating
<1> QED BY <1>2, <1>3

LEMMA UpMigrates ==
    ASSUME MigrationsAssumption, Migrating, NEW p \in Process, Up(p)
    PROVE  Migrating'
<1> DEFINE v == current[p]
           n == statement[p]
<1>1. /\ recorded' = recorded /\ created' = created \union {<<v, n>>} /\ UNCHANGED <<applied, current>>
      /\ place[p] = "up"
  BY DEF Up
<1>2. /\ v \in Version /\ v \in Nat /\ Statements[v] \in Nat \ {0} /\ n \in 1 .. Statements[v]
      /\ \A i \in 1 .. n - 1 : <<v, i>> \in created
      /\ applied[p] \subseteq recorded
  <2>1. /\ v \in Version /\ n \in 1 .. Statements[v]
        /\ \A i \in 1 .. n - 1 : <<v, i>> \in created
        /\ applied[p] \subseteq recorded
    BY <1>1 DEF Migrating, MigratesInOrder
  <2>2. v \in Nat /\ Statements[v] \in Nat \ {0}
    BY <2>1 DEF MigrationsAssumption, Version
  <2> QED BY <2>1, <2>2
<1>3. \A i \in 1 .. n : <<v, i>> \in created'
  BY <1>1, <1>2
<1>4. CASE n < Statements[v]
  <2>1. statement' = [statement EXCEPT ![p] = n + 1] /\ UNCHANGED place
    BY <1>4 DEF Up
  <2>2. MigrationRows'
    BY <1>1, <1>2, <2>1 DEF Migrating, MigrationRows
  <2>3. \A q \in Process \ {p} : UNCHANGED <<place[q], applied[q], current[q], statement[q]>>
    BY <1>1, <2>1 DEF Migrating, MigrationRows
  <2>4. place'[p] = "up" /\ current'[p] = v /\ statement'[p] = n + 1 /\ applied'[p] = applied[p]
    BY <1>1, <2>1 DEF Migrating, MigrationRows
  <2>5. n + 1 \in 1 .. Statements[v] /\ 1 .. (n + 1) - 1 = 1 .. n
    BY <1>2, <1>4
  <2>6. MigratesInOrder(p)'
    BY <1>1, <1>2, <1>3, <2>4, <2>5 DEF MigratesInOrder
  <2> QED BY <1>1, <2>2, <2>3, <2>6, MigratingByProcess DEF Migrating
<1>5. CASE ~(n < Statements[v])
  <2>1. Goto(p, "record") /\ UNCHANGED statement
    BY <1>5 DEF Up
  <2>2. MigrationRows'
    BY <1>1, <2>1 DEF Goto, Migrating, MigrationRows
  <2>3. \A q \in Process \ {p} : UNCHANGED <<place[q], applied[q], current[q], statement[q]>>
    BY <1>1, <2>1 DEF Goto, Migrating, MigrationRows
  <2>4. place'[p] = "record" /\ current'[p] = v /\ applied'[p] = applied[p]
    BY <1>1, <2>1 DEF Goto, Migrating, MigrationRows
  <2>5. n = Statements[v]
    BY <1>2, <1>5
  <2>6. Whole(v)'
    BY <1>3, <2>4, <2>5 DEF Whole
  <2>7. Whole(current[p])'
    BY <2>4, <2>6 DEF Whole
  <2>8. MigratesInOrder(p)'
    BY <1>1, <1>2, <2>4, <2>7 DEF MigratesInOrder
  <2> QED BY <1>1, <2>2, <2>3, <2>8, MigratingByProcess DEF Migrating
<1> QED BY <1>4, <1>5

LEMMA RecordMigrates ==
    ASSUME Migrating, NEW p \in Process, RecordVersion(p)
    PROVE  Migrating'
<1>1. /\ UNCHANGED <<created, recorded, applied, current, statement>>
      /\ place[p] = "record" /\ Goto(p, "commit")
  BY DEF RecordVersion
<1>2. MigrationRows'
  BY <1>1 DEF Goto, Migrating, MigrationRows
<1>3. \A q \in Process \ {p} : UNCHANGED <<place[q], applied[q], current[q], statement[q]>>
  BY <1>1 DEF Goto, Migrating, MigrationRows
<1>4. place'[p] = "commit"
  BY <1>1 DEF Goto, Migrating, MigrationRows
<1>5. MigratesInOrder(p)'
  BY <1>1, <1>4 DEF Migrating, MigratesInOrder, Whole
<1> QED BY <1>1, <1>2, <1>3, <1>5, MigratingByProcess DEF Migrating

LEMMA CommitMigrates ==
    ASSUME Migrating, NEW p \in Process, Commit(p)
    PROVE  Migrating'
<1> DEFINE v == current[p]
<1>1. /\ UNCHANGED <<created, current, statement>> /\ recorded' = recorded \union {v}
      /\ applied' = [applied EXCEPT ![p] = @ \union {v}]
      /\ place[p] = "commit" /\ Goto(p, "choose")
  BY DEF Commit
<1>2. v \in Version /\ Whole(v) /\ applied[p] \subseteq recorded
  BY <1>1 DEF Migrating, MigratesInOrder
<1>3. MigrationRows'
  BY <1>1, <1>2 DEF Goto, Migrating, MigrationRows
<1>4. \A q \in Process \ {p} : UNCHANGED <<place[q], applied[q], current[q], statement[q]>>
  BY <1>1 DEF Goto, Migrating, MigrationRows
<1>5. place'[p] = "choose" /\ applied'[p] = applied[p] \union {v}
  BY <1>1 DEF Goto, Migrating, MigrationRows
<1>6. MigratesInOrder(p)'
  BY <1>1, <1>2, <1>5 DEF MigratesInOrder
<1>7. \A w \in recorded' \ recorded : Whole(w)'
  BY <1>1, <1>2 DEF Whole
<1>8. created \subseteq created' /\ recorded \subseteq recorded' /\ recorded' \subseteq Version
  BY <1>1, <1>2 DEF Migrating
<1> QED BY <1>3, <1>4, <1>6, <1>7, <1>8, MigratingByProcess

LEMMA LeaveMigrates ==
    ASSUME Migrating, NEW p \in Process, Raise(p) \/ Kill(p)
    PROVE  Migrating'
<1>1. UNCHANGED <<created, recorded, applied, current, statement>> /\ Goto(p, "closed")
  BY DEF Raise, Kill
<1>2. MigrationRows'
  BY <1>1 DEF Goto, Migrating, MigrationRows
<1>3. \A q \in Process \ {p} : UNCHANGED <<place[q], applied[q], current[q], statement[q]>>
  BY <1>1 DEF Goto, Migrating, MigrationRows
<1>4. place'[p] = "closed"
  BY <1>1 DEF Goto, Migrating, MigrationRows
<1>5. MigratesInOrder(p)'
  BY <1>1, <1>4 DEF Migrating, MigratesInOrder
<1> QED BY <1>1, <1>2, <1>3, <1>5, MigratingByProcess DEF Migrating

LEMMA MigratingStep ==
    ASSUME MigrationsAssumption, Migrating, [MigrationsNext]_migrationVars
    PROVE  Migrating'
<1>1. CASE MigrationsNext
  BY <1>1, ReadAppliedMigrates, ChooseMigrates, UpMigrates, RecordMigrates, CommitMigrates,
     LeaveMigrates DEF MigrationsNext
<1>2. CASE UNCHANGED migrationVars
  BY <1>2 DEF migrationVars, Migrating, MigrationRows, MigratesInOrder, Whole
<1> QED BY <1>1, <1>2

LEMMA MigratedWhole ==
    ASSUME MigrationsAssumption, Migrating
    PROVE  RecordedIsApplied
<1>1. ASSUME NEW o \in SchemaObject
      PROVE  \E v \in Version : \E i \in 1 .. Statements[v] : o = <<v, i>>
  BY DEF SchemaObject
<1>2. \A o \in SchemaObject : o[1] \in recorded => o \in created
  BY <1>1 DEF Migrating, Whole
<1>3. ASSUME NEW p \in Process, place[p] = "open"
      PROVE  recorded = Version
  BY <1>3 DEF Migrating, MigratesInOrder
<1>4. recorded = Version => SchemaObject \subseteq created
  BY <1>1 DEF Migrating, Whole
<1> QED BY <1>2, <1>3, <1>4 DEF RecordedIsApplied

\* _run_migrations of migrations.py: whoever is killed, fails or migrates beside it, a
\* version that is recorded has all its tables and indexes, and a database that opens has
\* every version, for any number of processes, versions and statements.
THEOREM MigrationsAreComplete ==
    ASSUME MigrationsAssumption
    PROVE  MigrationsSpec => []RecordedIsApplied
<1>1. MigrationsInit => Migrating
  BY MigratingInit
<1>2. Migrating /\ [MigrationsNext]_migrationVars => Migrating'
  BY MigratingStep
<1>3. Migrating => RecordedIsApplied
  BY MigratedWhole
<1> QED BY <1>1, <1>2, <1>3, PTL DEF MigrationsSpec
-----------------------------------------------------------------------------
(***************************************************************************)
(* The services behind the API.                                            *)
(***************************************************************************)
\* What a component of the object is made with.
Parts(object) == [config |-> object["config"].config, db |-> object["db"].db]

ServiceRows ==
    /\ svc \in Object \union {0} /\ built \in Nat
    /\ attr \in [Object -> [Attribute -> [config : Int, db : Int]]]
    /\ at \in [Handler -> {"idle", "build", "rollback", "evaluate"}]
    /\ step \in [Handler -> Nat] /\ target \in [Handler -> Object \union {0}]
    /\ version \in [Handler -> Nat] /\ used \in [Handler -> Int]
    /\ disturbed \in [Handler -> BOOLEAN]

\* How far a build has come: the components before its step hold what the object holds.
PartlyBuilt(object, k) ==
    /\ k \in 1 .. 7
    /\ k > 3 => object["ingestion"] = Parts(object)
    /\ k > 4 => object["detector"] = Parts(object)
    /\ k > 5 => object["engine"] = Parts(object)
    /\ k > 6 => object["dashboard"] = Parts(object)

\* The same of a rollback or reload to configuration v.
PartlyReplaced(object, k, v) ==
    /\ k \in 1 .. 5
    /\ k > 1 => object["config"].config = v
    /\ k > 2 => object["ingestion"] = Parts(object)
    /\ k > 3 => object["detector"] = Parts(object)
    /\ k > 4 => object["engine"] = Parts(object)
    /\ object["audit"].db = object["db"].db

Complete(object) ==
    /\ object["ingestion"] = Parts(object) /\ object["detector"] = Parts(object)
    /\ object["engine"] = Parts(object) /\ object["dashboard"] = Parts(object)
    /\ object["audit"].db = object["db"].db

\* Of each handler: what it writes is the published object, which is as far as it says.
Works(h) ==
    /\ at[h] = "build" =>
           IF target[h] = 0 THEN svc = 0 /\ step[h] = 1
           ELSE target[h] = svc /\ PartlyBuilt(attr[svc], step[h])
    /\ at[h] = "rollback" => svc # 0 /\ target[h] = svc
                             /\ PartlyReplaced(attr[svc], step[h], version[h])
    /\ at[h] = "evaluate" => svc # 0 /\ target[h] = svc

Quietly ==
    Writing = {} =>
        /\ svc # 0 => Complete(attr[svc])
        /\ \A h \in Handler : at[h] = "evaluate" /\ ~disturbed[h] =>
               used[h] = attr[svc]["detector"].config

Serving ==
    serial =>
        /\ ServiceRows
        /\ \A h, k \in Writing : h = k
        /\ \A h \in Handler : Works(h)
        /\ Quietly

LEMMA AttributeRows ==
    /\ Len(Building) = 7 /\ Len(Replacing) = 5
    /\ Building[1] = "config" /\ Building[2] = "db" /\ Building[3] = "ingestion"
    /\ Building[4] = "detector" /\ Building[5] = "engine" /\ Building[6] = "dashboard"
    /\ Building[7] = "audit"
    /\ Replacing[1] = "config" /\ Replacing[2] = "ingestion" /\ Replacing[3] = "detector"
    /\ Replacing[4] = "engine" /\ Replacing[5] = "dashboard"
    /\ Attribute = {"config", "db", "ingestion", "detector", "engine", "dashboard", "audit"}
<1>1. Len(Building) = 7 /\ Len(Replacing) = 5
  BY DEF Building, Replacing
<1>2. /\ Building[1] = "config" /\ Building[2] = "db" /\ Building[3] = "ingestion"
      /\ Building[4] = "detector" /\ Building[5] = "engine" /\ Building[6] = "dashboard"
      /\ Building[7] = "audit"
  BY DEF Building
<1>3. /\ Replacing[1] = "config" /\ Replacing[2] = "ingestion" /\ Replacing[3] = "detector"
      /\ Replacing[4] = "engine" /\ Replacing[5] = "dashboard"
  BY DEF Replacing
<1>4. DOMAIN Building = 1 .. 7
  BY DEF Building
<1>5. Attribute = {"config", "db", "ingestion", "detector", "engine", "dashboard", "audit"}
  BY <1>2, <1>4 DEF Attribute
<1> QED BY <1>1, <1>2, <1>3, <1>5

\* One assignment to the published object, and the object after it.
LEMMA Assigned ==
    ASSUME ServiceRows, svc # 0, NEW a \in Attribute, NEW row \in [config : Int, db : Int],
           attr' = [attr EXCEPT ![svc][a] = row]
    PROVE  /\ attr' \in [Object -> [Attribute -> [config : Int, db : Int]]]
           /\ attr'[svc] = [attr[svc] EXCEPT ![a] = row]
           /\ attr[svc] \in [Attribute -> [config : Int, db : Int]]
BY DEF ServiceRows

LEMMA BuiltFurther ==
    ASSUME NEW object \in [Attribute -> [config : Int, db : Int]], NEW k, PartlyBuilt(object, k),
           NEW row \in [config : Int, db : Int], k > 2 => row = Parts(object)
    PROVE  LET next == [object EXCEPT ![Building[k]] = row]
           IN  /\ k < 7 => PartlyBuilt(next, k + 1)
               /\ k = 7 => Complete(next)
<1> DEFINE next == [object EXCEPT ![Building[k]] = row]
<1>1. k \in {1, 2, 3, 4, 5, 6, 7}
  BY DEF PartlyBuilt
<1>2. CASE k \in {1, 2}
  BY <1>2 DEF PartlyBuilt
<1>3. ASSUME k \in {3, 4, 5, 6, 7}
      PROVE  (k < 7 => PartlyBuilt(next, k + 1)) /\ (k = 7 => Complete(next))
  <2>1. Building[k] \in Attribute \ {"config", "db"}
    BY <1>3, AttributeRows
  <2>2. row = Parts(object) /\ Parts(next) = Parts(object)
    BY <1>3, <2>1, AttributeRows DEF Parts
  <2>3. next[Building[k]] = row /\ \A a \in Attribute \ {Building[k]} : next[a] = object[a]
    BY <2>1
  <2> HIDE DEF next
  <2>4. CASE k = 3
    BY <2>2, <2>3, <2>4, AttributeRows DEF PartlyBuilt
  <2>5. CASE k = 4
    BY <2>2, <2>3, <2>5, AttributeRows DEF PartlyBuilt
  <2>6. CASE k = 5
    BY <2>2, <2>3, <2>6, AttributeRows DEF PartlyBuilt
  <2>7. CASE k = 6
    BY <2>2, <2>3, <2>7, AttributeRows DEF PartlyBuilt
  <2>8. CASE k = 7
    BY <2>2, <2>3, <2>8, AttributeRows DEF PartlyBuilt, Complete, Parts
  <2> QED BY <1>3, <2>4, <2>5, <2>6, <2>7, <2>8
<1> QED BY <1>1, <1>2, <1>3

LEMMA ReplacedFurther ==
    ASSUME NEW object \in [Attribute -> [config : Int, db : Int]], NEW k, NEW v \in Nat,
           PartlyReplaced(object, k, v), NEW row \in [config : Int, db : Int],
           row.config = v, k > 1 => row.db = object["db"].db
    PROVE  LET next == [object EXCEPT ![Replacing[k]] = row]
           IN  /\ k < 5 => PartlyReplaced(next, k + 1, v)
               /\ k = 5 => Complete(next)
<1> DEFINE next == [object EXCEPT ![Replacing[k]] = row]
<1>1. k \in {1, 2, 3, 4, 5}
  BY DEF PartlyReplaced
<1>2. CASE k = 1
  BY <1>2, AttributeRows DEF PartlyReplaced
<1>3. ASSUME k \in {2, 3, 4, 5}
      PROVE  (k < 5 => PartlyReplaced(next, k + 1, v)) /\ (k = 5 => Complete(next))
  <2>1. Replacing[k] \in Attribute \ {"config", "db", "audit"}
    BY <1>3, AttributeRows
  <2>2. row = Parts(object) /\ Parts(next) = Parts(object)
    <3>1. object["config"].config = v
      BY <1>3 DEF PartlyReplaced
    <3>2. row = Parts(object)
      BY <1>3, <3>1 DEF Parts
    <3>3. Parts(next) = Parts(object)
      BY <2>1, AttributeRows DEF Parts
    <3> QED BY <3>2, <3>3
  <2>3. next[Replacing[k]] = row /\ \A a \in Attribute \ {Replacing[k]} : next[a] = object[a]
    BY <2>1
  <2> HIDE DEF next
  <2>4. CASE k = 2
    BY <2>2, <2>3, <2>4, AttributeRows DEF PartlyReplaced
  <2>5. CASE k = 3
    BY <2>2, <2>3, <2>5, AttributeRows DEF PartlyReplaced
  <2>6. CASE k = 4
    BY <2>2, <2>3, <2>6, AttributeRows DEF PartlyReplaced
  <2>7. CASE k = 5
    BY <2>2, <2>3, <2>7, AttributeRows DEF PartlyReplaced, Complete
  <2> QED BY <1>3, <2>4, <2>5, <2>6, <2>7
<1> QED BY <1>1, <1>2, <1>3

LEMMA ServingInit ==
    ASSUME ServicesInit
    PROVE  Serving
<1> USE DEF ServicesInit
<1>1. ServiceRows
  BY DEF ServiceRows, Unset, Default
<1>2. svc = 0 /\ \A h \in Handler : at[h] = "idle"
  OBVIOUS
<1>3. Writing = {}
  BY <1>2 DEF Writing
<1> QED BY <1>1, <1>2, <1>3 DEF Serving, Works, Quietly

\* A handler that begins or ends something; the rows of the others stay.
LEMMA Gone ==
    ASSUME ServiceRows, NEW h \in Handler, NEW v \in Nat, NEW o \in Object \union {0},
           NEW where \in {"idle", "build", "rollback", "evaluate"}, Go(h, where, o, v)
    PROVE  /\ at'[h] = where /\ step'[h] = 1 /\ target'[h] = o /\ version'[h] = v
           /\ at' \in [Handler -> {"idle", "build", "rollback", "evaluate"}]
           /\ step' \in [Handler -> Nat] /\ target' \in [Handler -> Object \union {0}]
           /\ version' \in [Handler -> Nat]
           /\ \A g \in Handler \ {h} : UNCHANGED <<at[g], step[g], target[g], version[g]>>
BY DEF ServiceRows, Go

LEMMA WritingAfter ==
    ASSUME NEW h \in Handler, \A g \in Handler \ {h} : UNCHANGED at[g],
           \A g \in Writing : g = h
    PROVE  \/ at'[h] \in {"build", "rollback"} /\ Writing' = {h}
           \/ at'[h] \notin {"build", "rollback"} /\ Writing' = {}
BY DEF Writing

\* Who does not write is not disturbed by what is written.
LEMMA OthersServe ==
    ASSUME NEW g \in Handler, g \notin Writing, Works(g),
           UNCHANGED <<at[g], target[g]>>, svc # 0 => svc' = svc
    PROVE  Works(g)'
BY DEF Writing, Works

LEMMA BeginBuildServes ==
    ASSUME Serving, NEW h \in Handler, BeginBuild(h), serial'
    PROVE  Serving'
<1>1. /\ serial /\ Writing = {} /\ svc = 0 /\ Go(h, "build", 0, 0)
      /\ UNCHANGED <<svc, built, attr, used, disturbed>>
  BY Zenon DEF BeginBuild, Default
<1>2. ServiceRows /\ \A g \in Handler : Works(g)
  BY <1>1 DEF Serving
<1>3. /\ at'[h] = "build" /\ step'[h] = 1 /\ target'[h] = 0
      /\ \A g \in Handler \ {h} : UNCHANGED <<at[g], step[g], target[g], version[g]>>
      /\ ServiceRows'
  BY <1>1, <1>2, Gone DEF ServiceRows
<1>4. Works(h)'
  BY <1>1, <1>3 DEF Works
<1>5. \A g \in Handler : Works(g)'
  BY <1>1, <1>2, <1>3, <1>4, OthersServe
<1>6. Writing' = {h}
  BY <1>1, <1>3, WritingAfter
<1> QED BY <1>3, <1>5, <1>6 DEF Serving, Quietly

LEMMA PublishServes ==
    ASSUME ServicesAssumption, Serving, NEW h \in Handler, Publish(h), serial'
    PROVE  Serving'
<1>1. /\ serial /\ at[h] = "build" /\ target[h] = 0 /\ built < MaxBuilt
      /\ built' = built + 1 /\ svc' = built' /\ target' = [target EXCEPT ![h] = built']
      /\ step[h] = 1 /\ UNCHANGED <<attr, at, step, version, used, disturbed>>
  BY DEF Publish
<1>2. ServiceRows /\ (\A g \in Handler : Works(g)) /\ \A g, k \in Writing : g = k
  BY <1>1 DEF Serving
<1>3. svc = 0 /\ h \in Writing
  BY <1>1, <1>2 DEF Works, Writing
<1>4. svc' \in Object /\ svc' \in Nat \ {0}
  BY <1>1, <1>2 DEF ServiceRows, Object, ServicesAssumption
<1>5. ServiceRows' /\ target'[h] = svc' /\ \A g \in Handler \ {h} : target'[g] = target[g]
  BY <1>1, <1>2, <1>4 DEF ServiceRows
<1>6. Works(h)'
  BY <1>1, <1>4, <1>5 DEF Works, PartlyBuilt
<1>7. \A g \in Handler : Works(g)'
  BY <1>1, <1>2, <1>3, <1>5, <1>6, OthersServe
<1>8. Writing' = {h}
  BY <1>1, <1>2, <1>3, WritingAfter
<1> QED BY <1>5, <1>7, <1>8 DEF Serving, Quietly

\* What a build and a rollback have in common: the step of the only writer, which either
\* goes on or leaves the object complete and every request that is under way disturbed.
LEMMA WriterServes ==
    ASSUME Serving, serial, NEW h \in Writing, svc # 0, svc' = svc, ServiceRows',
           \A g \in Handler \ {h} : UNCHANGED <<at[g], step[g], target[g], version[g]>>,
           Disturb, Works(h)',
           at'[h] \in {"build", "rollback"} \/ (at'[h] = "idle" /\ Complete(attr'[svc]))
    PROVE  Serving'
<1>1. h \in Handler /\ ServiceRows
  BY DEF Writing, Serving
<1>2. \A g \in Writing : g = h
  BY DEF Serving
<1>3. \A g \in Handler : Works(g)'
  BY <1>2, OthersServe DEF Serving
<1>4. CASE at'[h] \in {"build", "rollback"}
  <2>1. Writing' = {h}
    BY <1>1, <1>2, <1>4, WritingAfter
  <2> QED BY <1>3, <2>1 DEF Serving, Quietly
<1>5. CASE at'[h] = "idle" /\ Complete(attr'[svc])
  <2>1. Writing' = {}
    BY <1>1, <1>2, <1>5, WritingAfter
  <2>2. \A g \in Handler : at'[g] = "evaluate" => disturbed'[g]
    BY <1>5, Zenon DEF Disturb
  <2>3. Quietly'
    BY <1>5, <2>2 DEF Quietly
  <2> QED BY <1>3, <2>1, <2>3 DEF Serving
<1> QED BY <1>4, <1>5

LEMMA BuildServes ==
    ASSUME ServicesAssumption, Serving, NEW h \in Handler, Build(h), serial'
    PROVE  Serving'
<1> DEFINE k == step[h]
           row == Built(svc, Building[k], h)
<1>1. /\ serial /\ at[h] = "build" /\ target[h] # 0 /\ UNCHANGED <<svc, built, used>>
      /\ attr' = [attr EXCEPT ![svc][Building[k]] = row] /\ Disturb
  BY DEF Build
<1>2. ServiceRows /\ h \in Writing /\ target[h] = svc /\ svc # 0 /\ PartlyBuilt(attr[svc], k)
  BY <1>1 DEF Serving, Works, Writing
<1>3. k \in {1, 2, 3, 4, 5, 6, 7} /\ Building[k] \in Attribute
  BY <1>2, AttributeRows DEF PartlyBuilt
<1>4. attr[svc] \in [Attribute -> [config : Int, db : Int]] /\ svc \in Int
  BY <1>2 DEF ServiceRows, Object, ServicesAssumption
<1>5. row \in [config : Int, db : Int] /\ (k > 2 => row = Parts(attr[svc]))
  <2>1. attr[svc]["config"].config \in Int /\ attr[svc]["db"].db \in Int
    BY <1>4, AttributeRows
  <2>2. row \in {[config |-> 0, db |-> 0], [config |-> 0, db |-> svc], Parts(attr[svc])}
    BY DEF Built, Default, Parts
  <2>3. k > 2 => Building[k] \notin {"config", "db"}
    BY <1>3, AttributeRows
  <2> QED BY <1>4, <2>1, <2>2, <2>3 DEF Built, Parts
<1> HIDE DEF row
<1>6. attr' \in [Object -> [Attribute -> [config : Int, db : Int]]]
      /\ attr'[svc] = [attr[svc] EXCEPT ![Building[k]] = row]
  BY <1>1, <1>2, <1>3, <1>5, Assigned
<1>7. (k < 7 => PartlyBuilt(attr'[svc], k + 1)) /\ (k = 7 => Complete(attr'[svc]))
  <2> DEFINE object == attr[svc]
  <2>1. /\ object \in [Attribute -> [config : Int, db : Int]] /\ PartlyBuilt(object, k)
        /\ k > 2 => row = Parts(object)
    BY <1>2, <1>4, <1>5
  <2>2. attr'[svc] = [object EXCEPT ![Building[k]] = row]
    BY <1>6
  <2> HIDE DEF object, k
  <2>3. LET next == [object EXCEPT ![Building[k]] = row]
        IN  (k < 7 => PartlyBuilt(next, k + 1)) /\ (k = 7 => Complete(next))
    BY <1>5, <2>1, BuiltFurther
  <2> QED BY <2>2, <2>3
<1>8. disturbed' \in [Handler -> BOOLEAN]
  BY <1>1 DEF Disturb
<1>9. CASE k < 7
  <2>1. step' = [step EXCEPT ![h] = k + 1] /\ UNCHANGED <<at, target, version>>
    BY <1>9, AttributeRows DEF Build
  <2>2. ServiceRows' /\ step'[h] = k + 1
    BY <1>1, <1>2, <1>3, <1>6, <1>8, <2>1 DEF ServiceRows
  <2>3. Works(h)'
    BY <1>1, <1>2, <1>7, <1>9, <2>1, <2>2 DEF Works
  <2>4. \A g \in Handler \ {h} : UNCHANGED <<at[g], step[g], target[g], version[g]>>
    BY <1>2, <2>1 DEF ServiceRows
  <2> QED BY <1>1, <1>2, <2>1, <2>2, <2>3, <2>4, WriterServes
<1>10. CASE k = 7
  <2>1. Go(h, "idle", 0, 0)
    BY <1>10, AttributeRows DEF Build, Default
  <2>2. /\ at'[h] = "idle"
        /\ \A g \in Handler \ {h} : UNCHANGED <<at[g], step[g], target[g], version[g]>>
        /\ ServiceRows'
    BY <1>1, <1>2, <1>6, <1>8, <2>1, Gone DEF ServiceRows
  <2>3. Works(h)'
    BY <2>2 DEF Works
  <2> QED BY <1>1, <1>2, <1>7, <1>10, <2>2, <2>3, WriterServes
<1> QED BY <1>3, <1>9, <1>10

LEMMA BeginReplacingServes ==
    ASSUME ServicesAssumption, Serving, NEW h \in Handler, serial',
           BeginRollback(h) \/ BeginReload(h)
    PROVE  Serving'
<1>1. /\ serial /\ Writing = {} /\ svc # 0
      /\ UNCHANGED <<svc, built, attr, used, disturbed>>
  BY Zenon DEF BeginRollback, BeginReload
<1>2. PICK v \in Versions : Go(h, "rollback", svc, v)
  BY DEF BeginRollback, BeginReload
<1>3. ServiceRows /\ (\A g \in Handler : Works(g)) /\ Complete(attr[svc]) /\ v \in Nat
  BY <1>1 DEF Serving, Quietly, ServicesAssumption
<1>4. /\ at'[h] = "rollback" /\ step'[h] = 1 /\ target'[h] = svc /\ version'[h] = v
      /\ \A g \in Handler \ {h} : UNCHANGED <<at[g], step[g], target[g], version[g]>>
      /\ ServiceRows'
  <2>1. svc \in Object \union {0}
    BY <1>3 DEF ServiceRows
  <2> QED BY <1>1, <1>2, <1>3, <2>1, Gone DEF ServiceRows
<1>5. Works(h)'
  BY <1>1, <1>3, <1>4 DEF Works, PartlyReplaced, Complete
<1>6. \A g \in Handler : Works(g)'
  BY <1>1, <1>3, <1>4, <1>5, OthersServe
<1>7. Writing' = {h}
  BY <1>1, <1>4, WritingAfter
<1> QED BY <1>4, <1>6, <1>7 DEF Serving, Quietly

LEMMA ReplaceServes ==
    ASSUME ServicesAssumption, Serving, NEW h \in Handler, Replace(h), serial'
    PROVE  Serving'
<1> DEFINE k == step[h]
           row == [config |-> version[h],
                   db |-> IF Replacing[k] = "config" THEN 0 ELSE attr[svc]["db"].db]
<1>1. at[h] = "rollback" /\ UNCHANGED <<svc, built, used, serial>> /\ Disturb
  BY DEF Replace
<1>2. /\ ServiceRows /\ h \in Writing /\ target[h] = svc /\ svc # 0 /\ serial
      /\ PartlyReplaced(attr[svc], k, version[h])
  BY <1>1 DEF Serving, Works, Writing
<1>3. k \in {1, 2, 3, 4, 5} /\ Replacing[k] \in Attribute
  BY <1>2, AttributeRows DEF PartlyReplaced
<1>4. attr[svc] \in [Attribute -> [config : Int, db : Int]] /\ version[h] \in Nat
  BY <1>2 DEF ServiceRows
<1>5. attr' = [attr EXCEPT ![svc][Replacing[k]] = row]
  BY <1>2 DEF Replace
<1>6. /\ row \in [config : Int, db : Int] /\ row.config = version[h]
      /\ k > 1 => row.db = attr[svc]["db"].db
  <2>1. attr[svc]["db"].db \in Int
    BY <1>4, AttributeRows
  <2>2. k > 1 => Replacing[k] # "config"
    BY <1>3, AttributeRows
  <2> QED BY <1>4, <2>1, <2>2
<1> HIDE DEF row
<1>7. attr' \in [Object -> [Attribute -> [config : Int, db : Int]]]
      /\ attr'[svc] = [attr[svc] EXCEPT ![Replacing[k]] = row]
  BY <1>2, <1>3, <1>5, <1>6, Assigned
<1>8. (k < 5 => PartlyReplaced(attr'[svc], k + 1, version[h])) /\ (k = 5 => Complete(attr'[svc]))
  <2> DEFINE object == attr[svc]
             v == version[h]
  <2>1. /\ object \in [Attribute -> [config : Int, db : Int]] /\ PartlyReplaced(object, k, v)
        /\ row.config = v /\ (k > 1 => row.db = object["db"].db) /\ v \in Nat
    BY <1>2, <1>4, <1>6
  <2>2. attr'[svc] = [object EXCEPT ![Replacing[k]] = row]
    BY <1>7
  <2> HIDE DEF object, k, v
  <2>3. LET next == [object EXCEPT ![Replacing[k]] = row]
        IN  (k < 5 => PartlyReplaced(next, k + 1, v)) /\ (k = 5 => Complete(next))
    BY <1>6, <2>1, ReplacedFurther
  <2>4. (k < 5 => PartlyReplaced(attr'[svc], k + 1, v)) /\ (k = 5 => Complete(attr'[svc]))
    BY <2>2, <2>3
  <2> QED BY <2>4 DEF v
<1>9. disturbed' \in [Handler -> BOOLEAN]
  BY <1>1 DEF Disturb
<1>10. CASE k < 5
  <2>1. step' = [step EXCEPT ![h] = k + 1] /\ UNCHANGED <<at, target, version>>
    BY <1>10, AttributeRows DEF Replace
  <2>2. ServiceRows' /\ step'[h] = k + 1
    BY <1>1, <1>2, <1>3, <1>7, <1>9, <2>1 DEF ServiceRows
  <2>3. Works(h)'
    BY <1>1, <1>2, <1>8, <1>10, <2>1, <2>2 DEF Works
  <2>4. \A g \in Handler \ {h} : UNCHANGED <<at[g], step[g], target[g], version[g]>>
    BY <1>2, <2>1 DEF ServiceRows
  <2> QED BY <1>1, <1>2, <2>1, <2>2, <2>3, <2>4, WriterServes
<1>11. CASE k = 5
  <2>1. Go(h, "idle", 0, 0)
    BY <1>11, AttributeRows DEF Replace, Default
  <2>2. /\ at'[h] = "idle"
        /\ \A g \in Handler \ {h} : UNCHANGED <<at[g], step[g], target[g], version[g]>>
        /\ ServiceRows'
    BY <1>1, <1>2, <1>7, <1>9, <2>1, Gone DEF ServiceRows
  <2>3. Works(h)'
    BY <2>2 DEF Works
  <2> QED BY <1>1, <1>2, <1>8, <1>11, <2>2, <2>3, WriterServes
<1> QED BY <1>3, <1>10, <1>11

\* A drift request that begins or ends: nobody writes more or less than before.
LEMMA RequestServes ==
    ASSUME Serving, NEW h \in Handler, Detect(h) \/ Answered(h), serial'
    PROVE  Serving'
<1>1. serial /\ UNCHANGED <<svc, built, attr>> /\ at[h] \in {"idle", "evaluate"}
  BY DEF Detect, Answered
<1>2. /\ ServiceRows /\ (\A g \in Handler : Works(g)) /\ Quietly
      /\ \A g, k \in Writing : g = k
  BY <1>1 DEF Serving
<1>3. \/ /\ Go(h, "evaluate", svc, 0) /\ svc # 0
         /\ used' = [used EXCEPT ![h] = attr[svc]["detector"].config]
      \/ Go(h, "idle", 0, 0) /\ used' = [used EXCEPT ![h] = -1]
  BY DEF Detect, Answered, Default
<1>4. disturbed' = [disturbed EXCEPT ![h] = FALSE]
  BY DEF Detect, Answered
<1>5. svc \in Object \union {0} /\ (svc # 0 => attr[svc]["detector"].config \in Int)
  BY <1>2, AttributeRows DEF ServiceRows
<1>6. /\ \/ /\ at'[h] = "evaluate" /\ target'[h] = svc /\ svc # 0
            /\ used'[h] = attr[svc]["detector"].config
         \/ at'[h] = "idle"
      /\ \A g \in Handler \ {h} : /\ UNCHANGED <<at[g], step[g], target[g], version[g]>>
                                  /\ UNCHANGED <<used[g], disturbed[g]>>
      /\ ServiceRows'
  <2>1. CASE /\ Go(h, "evaluate", svc, 0) /\ svc # 0
             /\ used' = [used EXCEPT ![h] = attr[svc]["detector"].config]
    BY <1>1, <1>2, <1>4, <1>5, <2>1, Gone DEF ServiceRows
  <2>2. CASE Go(h, "idle", 0, 0) /\ used' = [used EXCEPT ![h] = -1]
    BY <1>1, <1>2, <1>4, <2>2, Gone DEF ServiceRows
  <2> QED BY <1>3, <2>1, <2>2
<1>7. Writing' = Writing
  BY <1>1, <1>6 DEF Writing
<1>8. Works(h)'
  BY <1>1, <1>6 DEF Works
<1>9. ASSUME NEW g \in Handler \ {h}
      PROVE  Works(g)'
  BY <1>1, <1>2, <1>6 DEF Works
<1>10. Quietly'
  BY <1>1, <1>2, <1>6, <1>7 DEF Quietly
<1> QED BY <1>2, <1>6, <1>7, <1>8, <1>9, <1>10 DEF Serving

LEMMA ServingStep ==
    ASSUME ServicesAssumption, Serving, [ServicesNext]_(serviceVars)
    PROVE  Serving'
<1>1. CASE ~serial'
  BY <1>1 DEF Serving
<1>2. CASE serial' /\ ServicesNext
  <2>1. PICK h \in Handler :
            \/ BeginBuild(h) \/ Publish(h) \/ Build(h) \/ FailBuild(h)
            \/ BeginRollback(h) \/ BeginReload(h) \/ Replace(h) \/ FailReload(h)
            \/ Detect(h) \/ Answered(h)
    BY <1>2 DEF ServicesNext
  <2>2. ~FailBuild(h) /\ ~FailReload(h)
    BY <1>2 DEF FailBuild, FailReload
  <2> QED
    BY <1>2, <2>1, <2>2, BeginBuildServes, PublishServes, BuildServes, BeginReplacingServes,
       ReplaceServes, RequestServes
<1>3. CASE UNCHANGED serviceVars
  <2>1. UNCHANGED <<svc, built, attr, at, step, target, version, used, disturbed, serial>>
    BY <1>3 DEF serviceVars, handlers
  <2> QED BY <2>1 DEF Serving, ServiceRows, Works, Quietly, Writing
<1> QED BY <1>1, <1>2, <1>3

\* _get_svc, reload_config and rollback_policy of api.py: as long as nobody builds or
\* replaces the services at the same time as another and nothing fails, the components
\* agree, and so do the two halves of a drift request, for any number of request threads.
THEOREM ServicesAreCoherent ==
    ASSUME ServicesAssumption
    PROVE  ServicesSpec => []ServicesAgree
<1>1. ServicesInit => Serving
  BY ServingInit
<1>2. Serving /\ [ServicesNext]_(serviceVars) => Serving'
  BY ServingStep
<1>3. Serving => ServicesAgree
  <2> SUFFICES ASSUME Serving, serial, svc # 0
               PROVE  /\ Writing = {} => \A a \in Attribute \ {"config", "db", "audit"} :
                             attr[svc][a] = Parts(attr[svc])
                      /\ Writing = {} => attr[svc]["audit"].db = attr[svc]["db"].db
                      /\ \A h \in Handler :
                             at[h] = "evaluate" /\ ~disturbed[h] /\ Writing = {} =>
                                 attr[target[h]]["engine"].config = used[h]
    BY DEF ServicesAgree, Evaluated, Parts
  <2>1. Writing = {} => Complete(attr[svc])
    BY DEF Serving, Quietly
  <2>2. \A h \in Handler : at[h] = "evaluate" => target[h] = svc
    BY DEF Serving, Works
  <2>3. \A h \in Handler : at[h] = "evaluate" /\ ~disturbed[h] /\ Writing = {} =>
                               used[h] = attr[svc]["detector"].config
    BY DEF Serving, Quietly
  <2> QED BY <2>1, <2>2, <2>3, AttributeRows DEF Complete
<1> QED BY <1>1, <1>2, <1>3, PTL DEF ServicesSpec
-----------------------------------------------------------------------------
(***************************************************************************)
(* The request handlers and the audit trail.  An effect is what a handler  *)
(* did to one item; it is recorded when the trail tells of it, a request   *)
(* under way is about to, or a batch or a failed request kept silent.      *)
(***************************************************************************)
Item       == Event \union Alert \union Snapshot
Effects    == {"stored", "deleted", "acknowledged", "resolved"} \X (Item \union Rollback)
Tables     == {"decisions", "snapshots", "alerts"}
RequestSet == [does : {"nothing", "batch", "delete", "check", "report", "audit"},
               todo : Seq(Event) \union Seq(Tables) \union Seq(Condition),
               done : SUBSET Effects, blockers : SUBSET Condition]

TableRows ==
    /\ stored \subseteq Item /\ acknowledged \subseteq Alert /\ deleted \subseteq Item
    /\ fired \subseteq Rollback /\ settled \subseteq Rollback

\* What a request has still to do fits what it does; a batch and a check have no effect
\* that waits for the trail.
Orderly(r) ==
    /\ r.does = "batch"  => r.todo \in Seq(Event) \ {<<>>} /\ r.done = {}
    /\ r.does = "delete" => r.todo \in Seq(Tables) \ {<<>>}
    /\ r.does = "check"  => r.todo \in Seq(Condition) \ {<<>>} /\ r.done = {}

Recorded(x) == x \in trail \/ x \in silent \/ \E c \in Client : x \in request[c].done

HandlerRows ==
    /\ TableRows /\ trail \subseteq Effects
    /\ request \in [Client -> RequestSet]
    /\ \A c \in Client : Orderly(request[c])

NothingInvented ==
    /\ \A x \in trail : Happened(x)
    /\ \A c \in Client : \A x \in request[c].done : Happened(x)

NothingLost ==
    /\ \A e \in stored \cap Event : Recorded(<<"stored", e>>)
    /\ \A y \in deleted : Recorded(<<"deleted", y>>)
    /\ \A a \in acknowledged : Recorded(<<"acknowledged", a>>)
    /\ \A r \in settled : Recorded(<<"resolved", r>>)
    /\ \A a \in Alert \cap deleted : Recorded(<<"acknowledged", a>>)

Truthful == HandlerRows /\ NothingInvented /\ NothingLost

LEMMA TruthfulInit ==
    ASSUME HandlersAssumption, HandlersInit
    PROVE  Truthful
<1> USE DEF HandlersInit
<1>1. Idle \in RequestSet /\ Orderly(Idle) /\ Idle.done = {}
  BY DEF Idle, RequestSet, Orderly
<1>2. TableRows
  BY DEF TableRows, Item
<1>3. HandlerRows
  BY <1>1, <1>2 DEF HandlerRows
<1>4. NothingInvented
  BY <1>1 DEF NothingInvented
<1>5. stored \cap Event = {} /\ deleted = {} /\ acknowledged = {} /\ settled = {}
  BY DEF HandlersAssumption
<1> QED BY <1>3, <1>4, <1>5 DEF Truthful, NothingLost

\* Rows go nowhere but to what is deleted: what has happened has happened.
Growing ==
    /\ stored \subseteq stored' \union deleted' /\ deleted \subseteq deleted'
    /\ acknowledged \subseteq acknowledged' \union deleted' /\ settled \subseteq settled'

LEMMA StillHappened ==
    ASSUME Growing, NEW x \in Effects, Happened(x)
    PROVE  Happened(x)'
<1>1. x[1] \in {"stored", "deleted", "acknowledged", "resolved"}
  BY DEF Effects
<1>2. CASE x[1] = "stored"
  BY <1>2 DEF Growing, Happened
<1>3. CASE x[1] = "deleted"
  BY <1>3 DEF Growing, Happened
<1>4. CASE x[1] = "acknowledged"
  BY <1>4 DEF Growing, Happened
<1>5. CASE x[1] = "resolved"
  BY <1>5 DEF Growing, Happened
<1> QED BY <1>1, <1>2, <1>3, <1>4, <1>5

LEMMA EffectHappened ==
    /\ \A e : Happened(<<"stored", e>>) <=> e \in stored \union deleted
    /\ \A y : Happened(<<"deleted", y>>) <=> y \in deleted
    /\ \A a : Happened(<<"acknowledged", a>>) <=> a \in acknowledged \union deleted
    /\ \A r : Happened(<<"resolved", r>>) <=> r \in settled
BY DEF Happened

(***************************************************************************)
(* One step of the request of client c, which becomes r.  caused is what   *)
(* the step does to the tables: the request keeps it for the trail, or it  *)
(* is silent about it.  What the request kept is kept or handed over.      *)
(***************************************************************************)
Hands(c, r, caused) ==
    /\ trail \subseteq trail' /\ trail' \subseteq trail \union request[c].done
    /\ silent \subseteq silent'
    /\ request[c].done \subseteq r.done \union trail' \union silent'
    /\ r.done \subseteq request[c].done \union caused
    /\ caused \subseteq r.done \union silent'

Causes(caused) ==
    /\ \A x \in caused : Happened(x)'
    /\ \A e \in stored' \cap Event : e \in stored \/ <<"stored", e>> \in caused
    /\ \A y \in deleted' : y \in deleted \/ (/\ <<"deleted", y>> \in caused
                                             /\ y \in Alert => y \in acknowledged)
    /\ \A a \in acknowledged' : a \in acknowledged \/ <<"acknowledged", a>> \in caused
    /\ \A q \in settled' : q \in settled \/ <<"resolved", q>> \in caused

LEMMA Transacted ==
    ASSUME Truthful, NEW c \in Client, NEW r \in RequestSet, Orderly(r), NEW caused,
           request' = [request EXCEPT ![c] = r], TableRows', Growing,
           Hands(c, r, caused), Causes(caused)
    PROVE  Truthful'
<1>1. HandlerRows'
  BY DEF Truthful, HandlerRows, RequestSet, Hands
<1>2. request'[c] = r /\ \A d \in Client \ {c} : request'[d] = request[d]
  BY DEF Truthful, HandlerRows
<1>3. \A x \in trail \union request[c].done : Happened(x)'
  BY StillHappened DEF Truthful, HandlerRows, NothingInvented, RequestSet
<1>4. \A d \in Client \ {c} : \A x \in request[d].done : Happened(x)'
  BY StillHappened DEF Truthful, HandlerRows, NothingInvented, RequestSet
<1>5. NothingInvented'
  BY <1>2, <1>3, <1>4 DEF NothingInvented, Hands, Causes
<1>6. ASSUME NEW x, Recorded(x)
      PROVE  Recorded(x)'
  BY <1>2, <1>6 DEF Recorded, Hands
<1>7. \A x \in caused : Recorded(x)'
  BY <1>2 DEF Recorded, Hands
<1>8. NothingLost'
  <2>1. \A e \in stored' \cap Event : Recorded(<<"stored", e>>)'
    BY <1>6, <1>7 DEF Causes, Truthful, NothingLost
  <2>2. \A y \in deleted' : Recorded(<<"deleted", y>>)'
    BY <1>6, <1>7 DEF Causes, Truthful, NothingLost
  <2>3. \A a \in acknowledged' : Recorded(<<"acknowledged", a>>)'
    BY <1>6, <1>7 DEF Causes, Truthful, NothingLost
  <2>4. \A q \in settled' : Recorded(<<"resolved", q>>)'
    BY <1>6, <1>7 DEF Causes, Truthful, NothingLost
  <2>5. \A a \in Alert \cap deleted' : Recorded(<<"acknowledged", a>>)'
    BY <1>6, <1>7 DEF Causes, Truthful, NothingLost
  <2> QED BY <2>1, <2>2, <2>3, <2>4, <2>5 DEF NothingLost
<1> QED BY <1>1, <1>5, <1>8 DEF Truthful

\* Requests that begin or end without an effect.
LEMMA NoEffect ==
    ASSUME Truthful, NEW c \in Client, NEW r \in RequestSet, Orderly(r), r.done = {},
           request' = [request EXCEPT ![c] = r],
           UNCHANGED <<stored, acknowledged, fired, settled, deleted>>,
           trail \subseteq trail', trail' \subseteq trail \union request[c].done,
           silent \subseteq silent', request[c].done \subseteq trail' \union silent'
    PROVE  Truthful'
<1>1. Hands(c, r, {}) /\ Causes({}) /\ Growing
  BY DEF Hands, Causes, Growing
<1>2. TableRows'
  BY DEF Truthful, HandlerRows, TableRows
<1> QED BY <1>1, <1>2, Transacted

LEMMA RequestBegins ==
    ASSUME Truthful, NEW c \in Client, Arrives(c)
    PROVE  request[c] = Idle /\ request[c].done = {}
BY DEF Arrives, Free, Idle

LEMMA IdleRequest ==
    /\ Idle \in RequestSet /\ Orderly(Idle) /\ Idle.done = {}
    /\ \A effects \in SUBSET Effects :
           LET r == [Idle EXCEPT !.does = "audit", !.done = effects]
           IN  r \in RequestSet /\ Orderly(r) /\ r.done = effects
<1>1. Idle \in RequestSet /\ Orderly(Idle) /\ Idle.done = {}
  BY DEF Idle, RequestSet, Orderly
<1>2. ASSUME NEW effects \in SUBSET Effects
      PROVE  LET r == [Idle EXCEPT !.does = "audit", !.done = effects]
             IN  r \in RequestSet /\ Orderly(r) /\ r.done = effects
  <2> DEFINE r == [Idle EXCEPT !.does = "audit", !.done = effects]
  <2>1. r.done = effects /\ r.does = "audit"
    BY DEF Idle
  <2>2. r \in RequestSet
    <3> DEFINE auditing == [Idle EXCEPT !.does = "audit"]
    <3>1. auditing \in RequestSet
      BY <1>1 DEF RequestSet
    <3> HIDE DEF auditing
    <3>2. [auditing EXCEPT !.done = effects] \in RequestSet
      BY <3>1 DEF RequestSet
    <3> QED BY <3>2 DEF auditing
  <2> HIDE DEF r
  <2>3. Orderly(r)
    BY <2>1 DEF Orderly
  <2> QED BY <2>1, <2>2, <2>3 DEF r
<1> QED BY <1>1, <1>2

\* A request of one transaction, whose effects wait for the trail.
LEMMA AuditKept ==
    ASSUME Truthful, NEW c \in Client, NEW effects \in SUBSET Effects,
           Arrives(c), Audit(c, effects), TableRows', Growing, Causes(effects),
           UNCHANGED <<trail, silent>>
    PROVE  Truthful'
<1> DEFINE r == [Idle EXCEPT !.does = "audit", !.done = effects]
<1>1. r \in RequestSet /\ Orderly(r) /\ r.done = effects
  BY IdleRequest
<1>2. request' = [request EXCEPT ![c] = r]
  BY DEF Audit, Becomes
<1>3. request[c].done = {}
  BY RequestBegins
<1> HIDE DEF r
<1>4. Hands(c, r, effects)
  BY <1>1, <1>3 DEF Hands
<1> QED BY <1>1, <1>2, <1>4, Transacted

LEMMA StoreKept ==
    ASSUME Truthful, NEW c \in Client, NEW e \in Event,
           IngestEvent(c, e) \/ IngestStructured(c, e)
    PROVE  Truthful'
<1>1. /\ Arrives(c) /\ stored' = stored \union {e} /\ Audit(c, {<<"stored", e>>})
      /\ UNCHANGED <<acknowledged, fired, settled, intact, trail, deleted, silent>>
  BY DEF IngestEvent, IngestStructured
<1>2. {<<"stored", e>>} \in SUBSET Effects
  BY DEF Effects, Item
<1>3. TableRows' /\ Growing
  BY <1>1 DEF Truthful, HandlerRows, TableRows, Growing, Item
<1>4. Causes({<<"stored", e>>})
  BY <1>1, EffectHappened DEF Causes, Happened
<1> QED BY <1>1, <1>2, <1>3, <1>4, AuditKept

LEMMA AcknowledgeKept ==
    ASSUME Truthful, NEW c \in Client, NEW a \in Alert, AcknowledgeAlert(c, a)
    PROVE  Truthful'
<1>1. /\ Arrives(c) /\ acknowledged' = acknowledged \union {a}
      /\ Audit(c, {<<"acknowledged", a>>})
      /\ UNCHANGED <<stored, fired, settled, intact, trail, deleted, silent>>
  BY DEF AcknowledgeAlert
<1>2. {<<"acknowledged", a>>} \in SUBSET Effects
  BY DEF Effects, Item
<1>3. TableRows' /\ Growing
  BY <1>1 DEF Truthful, HandlerRows, TableRows, Growing
<1>4. Causes({<<"acknowledged", a>>})
  BY <1>1 DEF Causes, Happened
<1> QED BY <1>1, <1>2, <1>3, <1>4, AuditKept

LEMMA ResolveKept ==
    ASSUME Truthful, NEW c \in Client, NEW gone \in SUBSET Open,
           Arrives(c), settled' = settled \union gone,
           Audit(c, {<<"resolved", q>> : q \in gone}),
           UNCHANGED <<stored, acknowledged, fired, intact, trail, deleted, silent>>
    PROVE  Truthful'
<1> DEFINE effects == {<<"resolved", q>> : q \in gone}
<1>1. gone \subseteq Rollback
  BY DEF Open, Truthful, HandlerRows, TableRows
<1>2. effects \in SUBSET Effects
  BY <1>1 DEF Effects
<1>3. TableRows' /\ Growing
  BY <1>1 DEF Truthful, HandlerRows, TableRows, Growing
<1>4. Causes(effects)
  <2>1. \A q \in gone : Happened(<<"resolved", q>>)'
    BY DEF Happened
  <2>2. \A x \in effects : Happened(x)'
    BY <2>1
  <2>3. \A q \in settled' : q \in settled \/ <<"resolved", q>> \in effects
    OBVIOUS
  <2> QED BY <2>2, <2>3 DEF Causes
<1> QED BY <1>2, <1>3, <1>4, AuditKept

LEMMA BatchKept ==
    ASSUME HandlersAssumption, Truthful, NEW c \in Client,
           \/ \E events \in Batches : BeginBatch(c, events)
           \/ IngestNext(c) \/ RefuseBatch(c)
    PROVE  Truthful'
<1>1. ASSUME NEW events \in Batches, BeginBatch(c, events)
      PROVE  Truthful'
  <2> DEFINE r == [Idle EXCEPT !.does = "batch", !.todo = events]
  <2>1. events \in Seq(Event) \ {<<>>}
    BY DEF HandlersAssumption
  <2>2. r \in RequestSet /\ Orderly(r) /\ r.done = {}
    BY <2>1 DEF Idle, RequestSet, Orderly
  <2>3. request' = [request EXCEPT ![c] = r]
    BY <1>1 DEF BeginBatch, Becomes
  <2>4. Arrives(c) /\ UNCHANGED <<stored, acknowledged, fired, settled, deleted, trail, silent>>
    BY <1>1 DEF BeginBatch, tables
  <2>5. request[c].done = {}
    BY <2>4, RequestBegins
  <2> HIDE DEF r
  <2> QED BY <2>2, <2>3, <2>4, <2>5, NoEffect
<1>2. CASE RefuseBatch(c)
  <2>1. /\ request' = [request EXCEPT ![c] = Idle] /\ request[c].does = "batch"
        /\ UNCHANGED <<stored, acknowledged, fired, settled, deleted, trail, silent>>
    BY <1>2 DEF RefuseBatch, Becomes, tables
  <2>2. request[c].done = {}
    BY <2>1 DEF Truthful, HandlerRows, Orderly
  <2> QED BY <2>1, <2>2, IdleRequest, NoEffect
<1>3. CASE IngestNext(c)
  <2> DEFINE e == Head(request[c].todo)
             rest == Tail(request[c].todo)
             r == IF rest = <<>> THEN Idle ELSE [request[c] EXCEPT !.todo = rest]
  <2>1. /\ request' = [request EXCEPT ![c] = r] /\ request[c].does = "batch"
        /\ stored' = stored \union {e} /\ silent' = silent \union {<<"stored", e>>}
        /\ UNCHANGED <<acknowledged, fired, settled, trail, deleted>>
    BY <1>3 DEF IngestNext, Becomes
  <2>2. /\ request[c] \in RequestSet /\ request[c].done = {}
        /\ request[c].todo \in Seq(Event) /\ request[c].todo # <<>>
    BY <2>1 DEF Truthful, HandlerRows, Orderly
  <2>3. e \in Event /\ rest \in Seq(Event)
    BY <2>2, HeadTailProperties
  <2>4. r \in RequestSet /\ Orderly(r) /\ r.done = {}
    <3>1. CASE rest = <<>>
      BY <3>1, IdleRequest
    <3>2. CASE rest # <<>>
      <4> DEFINE next == [request[c] EXCEPT !.todo = rest]
      <4>1. next \in RequestSet
        BY <2>2, <2>3 DEF RequestSet
      <4>2. next.does = "batch" /\ next.todo = rest /\ next.done = {}
        BY <2>1, <2>2 DEF RequestSet
      <4> HIDE DEF next
      <4>3. Orderly(next)
        BY <2>3, <3>2, <4>2 DEF Orderly
      <4> QED BY <3>2, <4>1, <4>2, <4>3 DEF next
    <3> QED BY <3>1, <3>2
  <2> HIDE DEF r, e
  <2>5. Hands(c, r, {<<"stored", e>>})
    BY <2>1, <2>2, <2>4 DEF Hands
  <2>6. TableRows' /\ Growing
    BY <2>1, <2>3 DEF Truthful, HandlerRows, TableRows, Growing, Item
  <2>7. Causes({<<"stored", e>>})
    BY <2>1 DEF Causes, Happened
  <2> QED BY <2>1, <2>4, <2>5, <2>6, <2>7, Transacted
<1> QED BY <1>1, <1>2, <1>3

LEMMA RemovableRows ==
    ASSUME HandlersAssumption, TableRows, NEW kind \in Tables
    PROVE  /\ Removable(kind) \subseteq stored
           /\ Removable(kind) \cap Alert \subseteq acknowledged
<1>1. CASE kind = "decisions"
  BY <1>1 DEF Removable, HandlersAssumption
<1>2. CASE kind = "snapshots"
  BY <1>2 DEF Removable, HandlersAssumption
<1>3. CASE kind = "alerts"
  BY <1>3 DEF Removable
<1> QED BY <1>1, <1>2, <1>3 DEF Tables

LEMMA DeletionKept ==
    ASSUME HandlersAssumption, Truthful, NEW c \in Client,
           BeginPurge(c) \/ BeginRetention(c) \/ DeleteNext(c)
    PROVE  Truthful'
<1>1. ASSUME NEW order \in {PurgeOrder, RetentionOrder}, Arrives(c),
             Becomes(c, [Idle EXCEPT !.does = "delete", !.todo = order]),
             UNCHANGED <<tables, intact, trail, deleted, silent>>
      PROVE  Truthful'
  <2> DEFINE r == [Idle EXCEPT !.does = "delete", !.todo = order]
  <2>1. order \in Seq(Tables) \ {<<>>}
    <3>1. PurgeOrder \in Seq(Tables) \ {<<>>}
      BY DEF PurgeOrder, Tables
    <3>2. RetentionOrder \in Seq(Tables) \ {<<>>}
      BY DEF RetentionOrder, Tables
    <3> QED BY <3>1, <3>2
  <2>2. r \in RequestSet /\ Orderly(r) /\ r.done = {}
    BY <2>1 DEF Idle, RequestSet, Orderly
  <2>3. request' = [request EXCEPT ![c] = r]
    BY <1>1 DEF Becomes
  <2>4. UNCHANGED <<stored, acknowledged, fired, settled, deleted, trail, silent>>
    BY <1>1 DEF tables
  <2>5. request[c].done = {}
    BY <1>1, RequestBegins
  <2> HIDE DEF r
  <2> QED BY <2>2, <2>3, <2>4, <2>5, NoEffect
<1>2. CASE DeleteNext(c)
  <2> DEFINE gone   == Removable(Head(request[c].todo))
             rest   == Tail(request[c].todo)
             caused == {<<"deleted", x>> : x \in gone}
             done   == request[c].done \union caused
  <2>1. /\ request[c].does = "delete"
        /\ stored' = stored \ gone /\ acknowledged' = acknowledged \ gone
        /\ deleted' = deleted \union gone /\ UNCHANGED <<fired, settled, trail, silent>>
    BY <1>2 DEF DeleteNext
  <2>2. request[c] \in RequestSet /\ request[c].todo \in Seq(Tables) /\ request[c].todo # <<>>
    BY <2>1 DEF Truthful, HandlerRows, Orderly
  <2>3. Head(request[c].todo) \in Tables /\ rest \in Seq(Tables)
    BY <2>2, HeadTailProperties
  <2>4. gone \subseteq stored /\ gone \cap Alert \subseteq acknowledged
    BY <2>3, RemovableRows DEF Truthful, HandlerRows
  <2>5. caused \subseteq Effects /\ done \in SUBSET Effects
    <3>1. \A x \in gone : <<"deleted", x>> \in Effects
      BY <2>4 DEF Effects, Truthful, HandlerRows, TableRows
    <3> QED BY <2>2, <3>1 DEF RequestSet
  <2>6. PICK r : /\ request' = [request EXCEPT ![c] = r]
                 /\ r = IF rest # <<>> THEN [request[c] EXCEPT !.todo = rest, !.done = done]
                        ELSE IF done = {} THEN Idle
                        ELSE [Idle EXCEPT !.does = "audit", !.done = done]
    BY <1>2, Zenon DEF DeleteNext, Becomes, Audit
  <2> HIDE DEF gone, rest, done
  <2>7. r \in RequestSet /\ Orderly(r) /\ r.done = done
    <3>1. CASE rest # <<>>
      <4>1. r \in RequestSet /\ r.does = "delete" /\ r.todo = rest /\ r.done = done
        <5> DEFINE q == [request[c] EXCEPT !.todo = rest]
        <5>1. q \in RequestSet /\ q.does = "delete" /\ q.todo = rest
          BY <2>1, <2>2, <2>3 DEF RequestSet
        <5>2. r = [q EXCEPT !.done = done]
          BY <2>6, <3>1
        <5> HIDE DEF q
        <5> QED BY <2>5, <5>1, <5>2 DEF RequestSet
      <4> QED BY <2>3, <3>1, <4>1 DEF Orderly
    <3>2. CASE rest = <<>> /\ done = {}
      BY <2>6, <3>2, IdleRequest
    <3>3. CASE rest = <<>> /\ done # {}
      BY <2>5, <2>6, <3>3, IdleRequest
    <3> QED BY <3>1, <3>2, <3>3
  <2>8. Hands(c, r, caused)
    BY <2>1, <2>7 DEF Hands, done
  <2>9. TableRows' /\ Growing
    BY <2>1, <2>4 DEF Truthful, HandlerRows, TableRows, Growing
  <2>10. Causes(caused)
    <3>1. \A x \in gone : Happened(<<"deleted", x>>)'
      BY <2>1 DEF Happened
    <3>2. \A x \in caused : Happened(x)'
      BY <3>1
    <3>3. \A y \in deleted' : y \in deleted \/ (/\ <<"deleted", y>> \in caused
                                                /\ y \in Alert => y \in acknowledged)
      BY <2>1, <2>4
    <3> HIDE DEF caused
    <3> QED BY <2>1, <3>2, <3>3 DEF Causes
  <2> QED BY <2>6, <2>7, <2>8, <2>9, <2>10, Transacted
<1> QED BY <1>1, <1>2 DEF BeginPurge, BeginRetention

(***************************************************************************)
(* The readiness check reads every condition.                              *)
(***************************************************************************)
Left(s) == {s[i] : i \in DOMAIN s}

Listed(T) == CHOOSE s \in [1 .. Cardinality(T) -> T] : \A i, j \in DOMAIN s : i # j => s[i] # s[j]

LEMMA ListedAll ==
    ASSUME NEW T, IsFiniteSet(T)
    PROVE  Listed(T) \in Seq(T) /\ T \subseteq Left(Listed(T))
<1> DEFINE n == Cardinality(T)
<1>1. n \in Nat /\ ExistsBijection(1 .. n, T)
  BY FS_CardinalityType
<1>2. PICK f : f \in Bijection(1 .. n, T)
  BY <1>1 DEF ExistsBijection
<1>3. f \in [1 .. n -> T] /\ \A i, j \in DOMAIN f : i # j => f[i] # f[j]
  BY <1>2 DEF Bijection, Injection, IsInjective
<1>4. /\ Listed(T) \in [1 .. n -> T]
      /\ \A i, j \in DOMAIN Listed(T) : i # j => Listed(T)[i] # Listed(T)[j]
  BY <1>3 DEF Listed
<1> DEFINE l == Listed(T)
<1>5. l \in Injection(1 .. n, T)
  BY <1>4 DEF Injection, IsInjective
<1>6. IsFiniteSet(1 .. n) /\ Cardinality(1 .. n) = n
  BY <1>1, FS_Interval
<1>7. l \in Surjection(1 .. n, T)
  <2> HIDE DEF l
  <2> QED BY <1>5, <1>6, FS_Injection
<1>8. l \in Seq(T)
  BY <1>1, <1>4
<1> QED BY <1>4, <1>7, <1>8 DEF Surjection, Left

LEMMA LeftConcat ==
    ASSUME NEW T, NEW s \in Seq(T), NEW t \in Seq(T)
    PROVE  s \o t \in Seq(T) /\ Left(s) \union Left(t) \subseteq Left(s \o t)
<1> DEFINE u == s \o t
<1>1. /\ u \in Seq(T) /\ Len(u) = Len(s) + Len(t)
      /\ \A i \in 1 .. Len(s) + Len(t) : u[i] = IF i <= Len(s) THEN s[i] ELSE t[i - Len(s)]
  BY ConcatProperties
<1> HIDE DEF u
<1>2. Len(s) \in Nat /\ Len(t) \in Nat
  OBVIOUS
<1>3. ASSUME NEW i \in 1 .. Len(s)
      PROVE  i \in 1 .. Len(u) /\ u[i] = s[i]
  BY <1>1, <1>2
<1>4. ASSUME NEW i \in 1 .. Len(t)
      PROVE  Len(s) + i \in 1 .. Len(u) /\ u[Len(s) + i] = t[i]
  <2>1. /\ Len(s) + i \in 1 .. Len(s) + Len(t) /\ ~(Len(s) + i <= Len(s))
        /\ (Len(s) + i) - Len(s) = i
    BY <1>2
  <2>2. u[Len(s) + i] = t[(Len(s) + i) - Len(s)]
    BY <1>1, <2>1
  <2> QED BY <1>1, <2>1, <2>2
<1>5. DOMAIN s = 1 .. Len(s) /\ DOMAIN t = 1 .. Len(t) /\ DOMAIN u = 1 .. Len(u)
  BY <1>1
<1>6. \A x \in Left(s) : x \in Left(u)
  BY <1>3, <1>5 DEF Left
<1>7. \A x \in Left(t) : x \in Left(u)
  BY <1>4, <1>5 DEF Left
<1> QED BY <1>1, <1>6, <1>7 DEF u

LEMMA EveryConditionRead ==
    ASSUME HandlersAssumption
    PROVE  /\ ReadOrder \in Seq(Condition) \ {<<>>}
           /\ Condition \subseteq Left(ReadOrder)
<1> DEFINE A == {<<"enough", k>> : k \in Thresholds}
           B == {<<"present", k>> : k \in Required}
           both == <<<<"safe">>, <<"chain">>>>
<1>1. IsFiniteSet(A) /\ IsFiniteSet(B)
  <2>1. [k \in Thresholds |-> <<"enough", k>>] \in Surjection(Thresholds, A)
    BY DEF Surjection
  <2>2. [k \in Required |-> <<"present", k>>] \in Surjection(Required, B)
    BY DEF Surjection
  <2>3. IsFiniteSet(Thresholds) /\ IsFiniteSet(Required)
    BY DEF HandlersAssumption
  <2> HIDE DEF A, B
  <2>4. IsFiniteSet(A)
    BY <2>1, <2>3, FS_Surjection
  <2>5. IsFiniteSet(B)
    BY <2>2, <2>3, FS_Surjection
  <2> QED BY <2>4, <2>5
<1>2. Condition = A \union B \union {<<"safe">>, <<"chain">>}
  BY DEF Condition
<1>3. ReadOrder = Listed(A) \o both \o Listed(B)
  BY Zenon DEF ReadOrder, Listed
<1> HIDE DEF A, B
<1>4. Listed(A) \in Seq(Condition) /\ A \subseteq Left(Listed(A))
  BY <1>1, <1>2, ListedAll
<1>5. Listed(B) \in Seq(Condition) /\ B \subseteq Left(Listed(B))
  BY <1>1, <1>2, ListedAll
<1>6. both \in Seq(Condition) /\ <<"safe">> \in Left(both) /\ <<"chain">> \in Left(both)
  <2>1. both \in Seq(Condition)
    BY <1>2
  <2>2. DOMAIN both = 1 .. 2 /\ both[1] = <<"safe">> /\ both[2] = <<"chain">>
    OBVIOUS
  <2> QED BY <2>1, <2>2 DEF Left
<1> HIDE DEF both
<1>7. /\ Listed(A) \o both \in Seq(Condition)
      /\ Left(Listed(A)) \union Left(both) \subseteq Left(Listed(A) \o both)
  BY <1>4, <1>6, LeftConcat
<1>8. /\ ReadOrder \in Seq(Condition)
      /\ Left(Listed(A) \o both) \union Left(Listed(B)) \subseteq Left(ReadOrder)
  BY <1>3, <1>5, <1>7, LeftConcat
<1>9. Condition \subseteq Left(ReadOrder)
  BY <1>2, <1>4, <1>5, <1>6, <1>7, <1>8
<1>10. ReadOrder # <<>>
  <2>1. Left(<<>>) = {}
    BY DEF Left
  <2>2. <<"safe">> \in Left(ReadOrder)
    BY <1>2, <1>9
  <2> QED BY <2>1, <2>2
<1> QED BY <1>8, <1>9, <1>10

LEMMA CheckKept ==
    ASSUME HandlersAssumption, Truthful, NEW c \in Client, BeginCheck(c) \/ CheckNext(c)
    PROVE  Truthful'
<1>1. CASE BeginCheck(c)
  <2> DEFINE r == [Idle EXCEPT !.does = "check", !.todo = ReadOrder]
  <2>1. r \in RequestSet /\ Orderly(r) /\ r.done = {}
    BY EveryConditionRead DEF Idle, RequestSet, Orderly
  <2>2. request' = [request EXCEPT ![c] = r]
    BY <1>1 DEF BeginCheck, Becomes
  <2>3. Arrives(c) /\ UNCHANGED <<stored, acknowledged, fired, settled, deleted, trail, silent>>
    BY <1>1 DEF BeginCheck, tables
  <2>4. request[c].done = {}
    BY <2>3, RequestBegins
  <2> HIDE DEF r
  <2> QED BY <2>1, <2>2, <2>3, <2>4, NoEffect
<1>2. CASE CheckNext(c)
  <2> DEFINE rest     == Tail(request[c].todo)
             does     == IF rest = <<>> THEN "report" ELSE "check"
             blockers == IF Blocks(Head(request[c].todo))
                         THEN request[c].blockers \union {Head(request[c].todo)}
                         ELSE request[c].blockers
             r        == [request[c] EXCEPT !.does = does, !.todo = rest, !.blockers = blockers]
  <2>1. request' = [request EXCEPT ![c] = r] /\ request[c].does = "check"
    BY <1>2 DEF CheckNext, Becomes
  <2>2. UNCHANGED <<stored, acknowledged, fired, settled, deleted, trail, silent>>
    BY <1>2 DEF CheckNext, tables
  <2>3. /\ request[c] \in RequestSet /\ request[c].done = {}
        /\ request[c].todo \in Seq(Condition) /\ request[c].todo # <<>>
    BY <2>1 DEF Truthful, HandlerRows, Orderly
  <2>4. Head(request[c].todo) \in Condition /\ rest \in Seq(Condition)
    BY <2>3, HeadTailProperties
  <2>5. blockers \in SUBSET Condition
    BY <2>3, <2>4 DEF RequestSet
  <2> HIDE DEF rest, blockers
  <2>6. r \in RequestSet /\ r.does = does /\ r.todo = rest /\ r.done = {}
    <3> DEFINE p == [request[c] EXCEPT !.does = does]
               q == [p EXCEPT !.todo = rest]
    <3>1. does \in {"check", "report"}
      OBVIOUS
    <3> HIDE DEF does
    <3>2. p \in RequestSet /\ p.does = does /\ p.done = {}
      BY <2>3, <3>1 DEF RequestSet
    <3> HIDE DEF p
    <3>3. q \in RequestSet /\ q.does = does /\ q.todo = rest /\ q.done = {}
      BY <2>4, <3>2 DEF RequestSet
    <3> HIDE DEF q
    <3>4. LET next == [q EXCEPT !.blockers = blockers]
          IN  /\ next \in RequestSet /\ next.does = does /\ next.todo = rest /\ next.done = {}
      BY <2>5, <3>3 DEF RequestSet
    <3> QED BY <3>4 DEF p, q
  <2> HIDE DEF r
  <2>7. Orderly(r)
    BY <2>4, <2>6 DEF Orderly
  <2> QED BY <2>1, <2>2, <2>3, <2>6, <2>7, NoEffect
<1> QED BY <1>1, <1>2

LEMMA EndKept ==
    ASSUME Truthful, NEW c \in Client, Record(c) \/ Fail(c)
    PROVE  Truthful'
<1>1. /\ request' = [request EXCEPT ![c] = Idle]
      /\ UNCHANGED <<stored, acknowledged, fired, settled, deleted>>
  BY DEF Record, Fail, Becomes, tables
<1>2. /\ trail \subseteq trail' /\ trail' \subseteq trail \union request[c].done
      /\ silent \subseteq silent' /\ request[c].done \subseteq trail' \union silent'
  BY DEF Record, Fail
<1> QED BY <1>1, <1>2, IdleRequest, NoEffect

LEMMA OthersKept ==
    ASSUME HandlersAssumption, Truthful, OtherStep
    PROVE  Truthful'
<1>1. /\ UNCHANGED <<acknowledged, settled, deleted, request, trail, silent>>
      /\ \/ \E x \in Alert : stored' = stored \union {x}
         \/ stored' = stored
      /\ fired' \subseteq fired \union Rollback
  BY DEF OtherStep, Write, FireRollback, ForkChain, tables
<1>2. TableRows' /\ Growing /\ stored' \cap Event = stored \cap Event
  BY <1>1 DEF Truthful, HandlerRows, TableRows, Growing, Item, HandlersAssumption
<1>3. HandlerRows'
  BY <1>1, <1>2 DEF Truthful, HandlerRows
<1>4. NothingInvented'
  BY <1>1, <1>2, StillHappened DEF Truthful, HandlerRows, NothingInvented, RequestSet
<1>5. NothingLost'
  BY <1>1, <1>2 DEF Truthful, NothingLost, Recorded
<1> QED BY <1>3, <1>4, <1>5 DEF Truthful

LEMMA TruthfulStep ==
    ASSUME HandlersAssumption, Truthful, [HandlersNext]_(handlerVars)
    PROVE  Truthful'
<1>1. ASSUME NEW c \in Client, HandlerStep(c)
      PROVE  Truthful'
  <2>1. CASE \E e \in Event : IngestEvent(c, e) \/ IngestStructured(c, e)
    BY <2>1, StoreKept
  <2>2. CASE \/ \E events \in Batches : BeginBatch(c, events)
             \/ IngestNext(c) \/ RefuseBatch(c)
    BY <2>2, BatchKept
  <2>3. CASE \E a \in Alert : AcknowledgeAlert(c, a)
    BY <2>3, AcknowledgeKept
  <2>4. ASSUME NEW r \in Rollback, ResolveRollback(c, r)
        PROVE  Truthful'
    <3>1. {<<"resolved", q>> : q \in {r}} = {<<"resolved", r>>}
      OBVIOUS
    <3>2. /\ Arrives(c) /\ {r} \in SUBSET Open /\ settled' = settled \union {r}
          /\ Audit(c, {<<"resolved", r>>})
          /\ UNCHANGED <<stored, acknowledged, fired, intact, trail, deleted, silent>>
      BY <2>4 DEF ResolveRollback
    <3> QED BY <3>1, <3>2, ResolveKept
  <2>5. CASE ResolveAllRollbacks(c)
    <3>1. /\ Arrives(c) /\ Open \in SUBSET Open /\ settled' = settled \union Open
          /\ Audit(c, {<<"resolved", q>> : q \in Open})
          /\ UNCHANGED <<stored, acknowledged, fired, intact, trail, deleted, silent>>
      BY <2>5 DEF ResolveAllRollbacks
    <3> QED BY <3>1, ResolveKept
  <2>6. CASE BeginPurge(c) \/ BeginRetention(c) \/ DeleteNext(c)
    BY <2>6, DeletionKept
  <2>7. CASE BeginCheck(c) \/ CheckNext(c)
    BY <2>7, CheckKept
  <2>8. CASE Record(c) \/ Fail(c)
    BY <2>8, EndKept
  <2> QED
    BY <1>1, <2>1, <2>2, <2>3, <2>4, <2>5, <2>6, <2>7, <2>8 DEF HandlerStep
<1>2. CASE UNCHANGED handlerVars
  <2>1. UNCHANGED <<stored, acknowledged, fired, settled, request, trail, deleted, silent>>
    BY <1>2 DEF handlerVars, tables
  <2>2. HandlerRows'
    BY <2>1 DEF Truthful, HandlerRows, TableRows
  <2>3. Growing
    BY <2>1 DEF Growing
  <2>4. NothingInvented'
    BY <2>1, <2>3, StillHappened DEF Truthful, HandlerRows, NothingInvented, RequestSet
  <2> QED BY <2>1, <2>2, <2>4 DEF Truthful, NothingLost, Recorded
<1> QED BY <1>1, <1>2, OthersKept DEF HandlersNext

LEMMA TruthfulTrail ==
    ASSUME Truthful
    PROVE  TrailIsTrue
<1> DEFINE told == trail \union silent \union UNION {request[c].done : c \in Client}
<1>1. \A x : Recorded(x) => x \in told
  BY DEF Recorded
<1> HIDE DEF told
<1>2. \A x \in trail : Happened(x)
  BY DEF Truthful, NothingInvented
<1>3. \A x \in ({"stored"} \X (stored \cap Event)) \union ({"deleted"} \X deleted)
             \union ({"acknowledged"} \X acknowledged) \union ({"resolved"} \X settled) :
          x \in told
  <2>1. \A x \in {"stored"} \X (stored \cap Event) : x \in told
    BY <1>1 DEF Truthful, NothingLost
  <2>2. \A x \in {"deleted"} \X deleted : x \in told
    BY <1>1 DEF Truthful, NothingLost
  <2>3. \A x \in {"acknowledged"} \X acknowledged : x \in told
    BY <1>1 DEF Truthful, NothingLost
  <2>4. \A x \in {"resolved"} \X settled : x \in told
    BY <1>1 DEF Truthful, NothingLost
  <2> QED BY <2>1, <2>2, <2>3, <2>4
<1>4. \A a \in Alert \cap deleted : <<"acknowledged", a>> \in told
  BY <1>1 DEF Truthful, NothingLost
<1> QED BY <1>2, <1>3, <1>4 DEF TrailIsTrue, told

\* The handlers of api.py, ingestion.py and retention.py: the trail and the tables agree
\* however many requests run beside each other and whichever of them fail, for any events,
\* alerts, rollbacks, snapshots and batches.
THEOREM TrailMatchesTables ==
    ASSUME HandlersAssumption
    PROVE  HandlersSpec => []TrailIsTrue
<1>1. HandlersInit => Truthful
  BY TruthfulInit
<1>2. Truthful /\ [HandlersNext]_(handlerVars) => Truthful'
  BY TruthfulStep
<1>3. Truthful => TrailIsTrue
  BY TruthfulTrail
<1> QED BY <1>1, <1>2, <1>3, PTL DEF HandlersSpec
-----------------------------------------------------------------------------
(***************************************************************************)
(* The verdict of a readiness check.  While it runs, what holds now and    *)
(* what does not has been seen; each condition is still to be read, or     *)
(* blocks, or has held.                                                    *)
(***************************************************************************)
Observing(c) ==
    \A q \in Condition : /\ Holds(q)  => q \in held[c]
                         /\ ~Holds(q) => q \in missed[c]

Examined(c) == \A q \in Condition : \/ q \in Left(request[c].todo)
                                    \/ q \in request[c].blockers
                                    \/ q \in held[c]

Founded(c) ==
    /\ request[c].does = "check" => Observing(c) /\ Examined(c)
    /\ request[c].does = "report" => Condition \ request[c].blockers \subseteq held[c]
    /\ request[c].does \in {"check", "report"} => request[c].blockers \subseteq missed[c]

AllFounded ==
    /\ Truthful
    /\ held \in [Client -> SUBSET Condition] /\ missed \in [Client -> SUBSET Condition]
    /\ \A c \in Client : Founded(c)

LEMMA LeftHeadTail ==
    ASSUME NEW T, NEW s \in Seq(T), s # <<>>
    PROVE  \A x \in Left(s) : x = Head(s) \/ x \in Left(Tail(s))
<1> DEFINE n == Len(s)
           t == Tail(s)
<1>1. n \in Nat /\ Head(s) = s[1] /\ DOMAIN s = 1 .. n
  BY HeadTailProperties, LenProperties
<1>2. t \in Seq(T) /\ Len(t) = n - 1 /\ \A i \in 1 .. n - 1 : t[i] = s[i + 1]
  BY HeadTailProperties
<1>3. DOMAIN t = 1 .. n - 1
  BY <1>2, LenProperties
<1> HIDE DEF n, t
<1>4. ASSUME NEW i \in 1 .. n, i # 1
      PROVE  i - 1 \in 1 .. n - 1 /\ t[i - 1] = s[i]
  <2>1. i - 1 \in 1 .. n - 1 /\ (i - 1) + 1 = i
    BY <1>1, <1>4
  <2> QED BY <1>2, <2>1
<1>5. ASSUME NEW i \in DOMAIN s, i # 1
      PROVE  s[i] \in Left(t)
  BY <1>1, <1>3, <1>4, <1>5 DEF Left
<1> QED BY <1>1, <1>5 DEF Left, t

\* What a step makes of the request of one client, as far as a check is concerned.
LEMMA CheckMoves ==
    ASSUME Truthful, HandlersNext, NEW c \in Client
    PROVE  \/ request'[c] = request[c]
           \/ request'[c].does \notin {"check", "report"}
           \/ BeginCheck(c)
           \/ CheckNext(c)
<1> DEFINE Goal == \/ request'[c] = request[c]
                   \/ request'[c].does \notin {"check", "report"}
                   \/ BeginCheck(c)
                   \/ CheckNext(c)
<1>1. CASE OtherStep
  BY <1>1 DEF OtherStep, Write, FireRollback, ForkChain
<1>2. ASSUME NEW d \in Client, HandlerStep(d), d # c
      PROVE  Goal
  <2>1. \E r : request' = [request EXCEPT ![d] = r]
    <3>1. CASE \/ IngestNext(d) \/ RefuseBatch(d) \/ DeleteNext(d) \/ CheckNext(d)
               \/ Record(d) \/ Fail(d)
      BY <3>1, Zenon DEF IngestNext, RefuseBatch, DeleteNext, CheckNext, Record, Fail,
                  Becomes, Audit
    <3>2. CASE ~ \/ IngestNext(d) \/ RefuseBatch(d) \/ DeleteNext(d) \/ CheckNext(d)
                 \/ Record(d) \/ Fail(d)
      BY <1>2, <3>2, Zenon DEF HandlerStep, IngestEvent, IngestStructured, BeginBatch,
                  AcknowledgeAlert, ResolveRollback, ResolveAllRollbacks, BeginPurge,
                  BeginRetention, BeginCheck, Becomes, Audit
    <3> QED BY <3>1, <3>2
  <2> QED BY <2>1, <1>2 DEF Truthful, HandlerRows
<1>3. ASSUME HandlerStep(c)
      PROVE  Goal
  <2>1. DOMAIN request = Client /\ request[c] \in RequestSet
    BY DEF Truthful, HandlerRows
  <2>2. ASSUME NEW r, Becomes(c, r)
        PROVE  request'[c] = r
    BY <2>1, <2>2 DEF Becomes
  <2>3. DOMAIN Idle = {"does", "todo", "done", "blockers"} /\ Idle.does = "nothing"
    BY DEF Idle
  <2>4. ASSUME NEW effects, Audit(c, effects)
        PROVE  request'[c].does = "audit"
    BY <2>2, <2>3, <2>4 DEF Audit, Idle
  <2>5. CASE \/ \E e \in Event : IngestEvent(c, e) \/ IngestStructured(c, e)
             \/ \E a \in Alert : AcknowledgeAlert(c, a)
             \/ \E r \in Rollback : ResolveRollback(c, r)
             \/ ResolveAllRollbacks(c)
    BY <2>4, <2>5 DEF IngestEvent, IngestStructured, AcknowledgeAlert, ResolveRollback,
                      ResolveAllRollbacks
  <2>6. CASE \E events \in Batches : BeginBatch(c, events)
    BY <2>2, <2>6 DEF BeginBatch, Idle
  <2>7. CASE IngestNext(c)
    BY <2>2, <2>3, <2>7, <2>1 DEF IngestNext, RequestSet
  <2>8. CASE RefuseBatch(c) \/ Record(c) \/ Fail(c)
    BY <2>2, <2>3, <2>8 DEF RefuseBatch, Record, Fail
  <2>9. CASE BeginPurge(c) \/ BeginRetention(c)
    BY <2>2, <2>9 DEF BeginPurge, BeginRetention, Idle
  <2>10. CASE DeleteNext(c)
    <3>1. request[c].does = "delete"
      BY <2>10 DEF DeleteNext
    <3>2. PICK rest, done : Becomes(c, [request[c] EXCEPT !.todo = rest, !.done = done])
                            \/ Becomes(c, Idle) \/ Audit(c, done)
      BY <2>10, Zenon DEF DeleteNext
    <3>3. CASE Becomes(c, [request[c] EXCEPT !.todo = rest, !.done = done])
      <4> DEFINE r == [request[c] EXCEPT !.todo = rest, !.done = done]
      <4>1. r.does = "delete"
        BY <2>1, <3>1 DEF RequestSet
      <4> HIDE DEF r
      <4> QED BY <2>2, <3>3, <4>1 DEF r
    <3> QED BY <2>2, <2>3, <2>4, <3>2, <3>3
  <2> QED
    BY <1>3, <2>5, <2>6, <2>7, <2>8, <2>9, <2>10 DEF HandlerStep
<1> QED BY <1>1, <1>2, <1>3 DEF HandlersNext

LEMMA FoundedStep ==
    ASSUME HandlersAssumption, AllFounded, HandlersNext, NEW c \in Client
    PROVE  Founded(c)'
<1> DEFINE doing == request'[c].does
<1>1. Condition' = Condition
  BY DEF Condition
<1>2. /\ doing = "check" => /\ held'[c] = held[c] \union {q \in Condition : Holds(q)'}
                            /\ missed'[c] = missed[c] \union {q \in Condition : ~Holds(q)'}
      /\ doing = "report" => held'[c] = held[c] /\ missed'[c] = missed[c]
  BY DEF HandlersNext, Watch, Watching
<1>3. doing = "check" => Observing(c)'
  BY <1>1, <1>2 DEF Observing
<1>4. doing \in {"check", "report"} => held[c] \subseteq held'[c] /\ missed[c] \subseteq missed'[c]
  BY <1>2
<1>5. CASE request'[c] = request[c]
  BY <1>1, <1>3, <1>4, <1>5 DEF AllFounded, Founded, Examined
<1>6. CASE doing \notin {"check", "report"}
  BY <1>6 DEF Founded
<1>7. CASE BeginCheck(c)
  <2> DEFINE r == [Idle EXCEPT !.does = "check", !.todo = ReadOrder]
  <2>1. r.does = "check" /\ r.todo = ReadOrder /\ r.blockers = {}
    BY DEF Idle
  <2>2. request'[c] = r
    BY <1>7 DEF BeginCheck, Becomes, AllFounded, Truthful, HandlerRows
  <2> HIDE DEF r
  <2>3. Examined(c)'
    BY <1>1, <2>1, <2>2, EveryConditionRead DEF Examined
  <2> QED BY <1>3, <2>1, <2>2, <2>3 DEF Founded
<1>8. CASE CheckNext(c)
  <2> DEFINE q        == Head(request[c].todo)
             rest     == Tail(request[c].todo)
             does     == IF rest = <<>> THEN "report" ELSE "check"
             blockers == IF Blocks(q) THEN request[c].blockers \union {q}
                         ELSE request[c].blockers
             r        == [request[c] EXCEPT !.does = does, !.todo = rest, !.blockers = blockers]
  <2>1. request[c].does = "check" /\ request'[c] = r
    BY <1>8 DEF CheckNext, Becomes, AllFounded, Truthful, HandlerRows
  <2>2. /\ request[c] \in RequestSet /\ request[c].todo \in Seq(Condition)
        /\ request[c].todo # <<>>
    BY <2>1 DEF AllFounded, Truthful, HandlerRows, Orderly
  <2>3. q \in Condition
    BY <2>2, HeadTailProperties
  <2>4. Observing(c) /\ Examined(c) /\ request[c].blockers \subseteq missed[c]
    BY <2>1 DEF AllFounded, Founded
  <2>5. blockers \subseteq missed[c] /\ request[c].blockers \subseteq blockers
    <3>1. Blocks(q) => q \in missed[c]
      BY <2>3, <2>4, Zenon DEF Observing, Blocks
    <3> HIDE DEF q
    <3> QED BY <2>4, <3>1
  <2>6. q \in blockers \/ q \in held[c]
    <3>1. ~Blocks(q) => q \in held[c]
      BY <2>3, <2>4, Zenon DEF Observing, Blocks
    <3> HIDE DEF q
    <3> QED BY <3>1
  <2>7. \A p \in Condition : p \in Left(rest) \/ p \in blockers \/ p \in held[c]
    BY <2>2, <2>4, <2>5, <2>6, LeftHeadTail DEF Examined
  <2> HIDE DEF blockers, rest, q
  <2>8. r.does = does /\ r.todo = rest /\ r.blockers = blockers
    BY <2>2 DEF RequestSet
  <2> HIDE DEF r
  <2>9. doing \in {"check", "report"} /\ (doing = "report" => rest = <<>>)
    BY <2>1, <2>8
  <2>10. Left(<<>>) = {}
    BY DEF Left
  <2>11. doing = "check" => Examined(c)'
    BY <1>1, <1>4, <2>1, <2>7, <2>8 DEF Examined
  <2>12. doing = "report" => Condition' \ request'[c].blockers \subseteq held'[c]
    BY <1>1, <1>4, <2>1, <2>7, <2>8, <2>9, <2>10
  <2>13. request'[c].blockers \subseteq missed'[c]
    BY <1>4, <2>1, <2>5, <2>8, <2>9
  <2> QED BY <1>3, <2>11, <2>12, <2>13 DEF Founded
<1> QED BY <1>5, <1>6, <1>7, <1>8, CheckMoves DEF AllFounded

\* The readiness check of readiness.py: an agent is called ready only if every condition
\* held at some moment of the check, and what is named as a blocker failed at some moment
\* of it, whatever requests, detection and purges write between two reads, for any
\* thresholds, required categories and number of events needed.
THEOREM VerdictFollowsTables ==
    ASSUME HandlersAssumption
    PROVE  HandlersSpec => []VerdictIsFounded
<1>1. HandlersInit => AllFounded
  <2> SUFFICES ASSUME HandlersInit
               PROVE  AllFounded
    OBVIOUS
  <2>1. \A c \in Client : request[c].does = "nothing"
    BY DEF HandlersInit, Idle
  <2>2. \A c \in Client : Founded(c)
    BY <2>1 DEF Founded
  <2> QED BY <2>2, TruthfulInit DEF AllFounded, HandlersInit
<1>2. AllFounded /\ [HandlersNext]_(handlerVars) => AllFounded'
  <2> SUFFICES ASSUME AllFounded, [HandlersNext]_(handlerVars)
               PROVE  AllFounded'
    OBVIOUS
  <2>1. Truthful'
    BY TruthfulStep DEF AllFounded
  <2>2. Condition' = Condition
    BY DEF Condition
  <2>3. CASE HandlersNext
    <3>1. /\ held' \in [Client -> SUBSET Condition]
          /\ missed' \in [Client -> SUBSET Condition]
      BY <2>3 DEF AllFounded, HandlersNext, Watch
    <3>2. \A c \in Client : Founded(c)'
      BY <2>3, FoundedStep
    <3> QED BY <2>1, <2>2, <3>1, <3>2 DEF AllFounded
  <2>4. CASE UNCHANGED handlerVars
    <3>1. UNCHANGED <<stored, fired, settled, intact, request, held, missed>>
      BY <2>4 DEF handlerVars, tables
    <3>2. Open' = Open /\ \A k : Count(k)' = Count(k)
      BY <3>1 DEF Open, Count
    <3>3. \A q : Holds(q)' <=> Holds(q)
      BY <3>1, <3>2 DEF Holds
    <3>4. \A c \in Client : Founded(c)'
      BY <2>2, <3>1, <3>3 DEF AllFounded, Founded, Observing, Examined
    <3> QED BY <2>1, <2>2, <3>1, <3>4 DEF AllFounded
  <2> QED BY <2>3, <2>4
<1>3. AllFounded => VerdictIsFounded
  BY DEF AllFounded, Founded, VerdictIsFounded
<1> QED BY <1>1, <1>2, <1>3, PTL DEF HandlersSpec

-----------------------------------------------------------------------------
(***************************************************************************)
(* The rate limit.  What a key got through in the last ticks and what it   *)
(* could get through now is together at most the burst and what those      *)
(* ticks refill.                                                           *)
(***************************************************************************)
WithinRate(k) ==
    \A w \in Stretch : Unit * admitted[k][w] + Refilled(k) <= Burst * Unit + (w - 1) * Refill

RateKept ==
    /\ tokens \in [Key -> Nat] /\ idle \in [Key -> Nat]
    /\ admitted \in [Key -> [Stretch -> Nat]]
    /\ \A k \in Key : WithinRate(k)

LEMMA RefilledRange ==
    ASSUME AuthAssumption, RateKept, NEW k \in Key
    PROVE  /\ Refilled(k) \in Nat /\ Refilled(k) <= Burst * Unit
           /\ tokens[k] + idle[k] * Refill \in Nat
<1>1. idle[k] * Refill \in Nat /\ Burst * Unit \in Nat /\ tokens[k] \in Nat
  BY DEF AuthAssumption, RateKept
<1> QED BY <1>1 DEF Refilled, AtMost

LEMMA RateKeptInit ==
    ASSUME AuthAssumption, AuthInit
    PROVE  RateKept
<1>1. Burst * Unit \in Nat
  BY DEF AuthAssumption
<1>2. ASSUME NEW k \in Key, NEW w \in Stretch
      PROVE  Unit * admitted[k][w] + Refilled(k) <= Burst * Unit + (w - 1) * Refill
  <2>1. Refilled(k) = Burst * Unit
    BY <1>1 DEF AuthInit, Refilled, AtMost, AuthAssumption
  <2>2. Unit * admitted[k][w] = 0 /\ (w - 1) * Refill \in Nat
    BY DEF AuthAssumption, AuthInit, Stretch
  <2> QED BY <1>1, <2>1, <2>2
<1> QED BY <1>1, <1>2 DEF AuthInit, RateKept, WithinRate

LEMMA ConsumeKept ==
    ASSUME AuthAssumption, RateKept, NEW k \in Key, Consume(k)
    PROVE  RateKept'
<1> DEFINE full == Burst * Unit
           got  == IF Refilled(k) >= Unit THEN 1 ELSE 0
<1>1. Refilled(k) \in Nat /\ Refilled(k) <= full /\ full \in Nat /\ Unit \in Nat
  BY RefilledRange DEF AuthAssumption
<1>2. /\ idle' = [idle EXCEPT ![k] = 0]
      /\ tokens' = [tokens EXCEPT ![k] = Refilled(k) - got * Unit]
      /\ \A j \in Key, w \in Stretch :
             admitted'[j][w] = IF j = k THEN admitted[k][w] + got ELSE admitted[j][w]
      /\ admitted' \in [Key -> [Stretch -> Nat]]
  BY <1>1 DEF Consume, RateKept
<1>3. got \in {0, 1} /\ Refilled(k) - got * Unit \in Nat
  BY <1>1
<1> HIDE DEF got, full
<1>4. tokens' \in [Key -> Nat] /\ idle' \in [Key -> Nat]
  BY <1>2, <1>3 DEF RateKept
<1>5. ASSUME NEW j \in Key
      PROVE  WithinRate(j)'
  <2>1. CASE j # k
    <3>1. tokens'[j] = tokens[j] /\ idle'[j] = idle[j]
      BY <1>2, <2>1 DEF RateKept
    <3>2. Refilled(j)' = Refilled(j)
      BY <3>1 DEF Refilled
    <3> QED BY <1>2, <2>1, <3>2 DEF RateKept, WithinRate
  <2>2. CASE j = k
    <3>1. tokens'[k] = Refilled(k) - got * Unit /\ idle'[k] = 0
      BY <1>2 DEF RateKept
    <3>2. Refilled(k)' = Refilled(k) - got * Unit
      BY <1>1, <1>3, <3>1 DEF Refilled, AtMost, AuthAssumption, full
    <3>3. ASSUME NEW w \in Stretch
          PROVE  Unit * admitted'[k][w] + Refilled(k)' <= Burst * Unit + (w - 1) * Refill
      <4>1. admitted'[k][w] = admitted[k][w] + got /\ admitted[k][w] \in Nat
        BY <1>2 DEF RateKept
      <4>2. Unit * (admitted[k][w] + got) = Unit * admitted[k][w] + got * Unit
        <5>1. CASE got = 0
          BY <1>1, <4>1, <5>1
        <5>2. CASE got = 1
          BY <1>1, <4>1, <5>2
        <5> QED BY <1>3, <5>1, <5>2
      <4>3. Unit * admitted[k][w] \in Nat /\ got * Unit \in Nat
        <5>1. \A m, n \in Nat : m * n \in Nat
          OBVIOUS
        <5>2. got \in Nat
          BY <1>3
        <5> QED BY <1>1, <4>1, <5>1, <5>2
      <4>4. Unit * admitted[k][w] + Refilled(k) <= Burst * Unit + (w - 1) * Refill
        BY DEF RateKept, WithinRate
      <4>5. Burst * Unit + (w - 1) * Refill \in Int
        BY DEF AuthAssumption, Stretch
      <4> QED BY <1>1, <3>2, <4>1, <4>2, <4>3, <4>4, <4>5
    <3> QED BY <2>2, <3>3 DEF WithinRate
  <2> QED BY <2>1, <2>2
<1> QED BY <1>2, <1>4, <1>5 DEF RateKept

LEMMA TickKept ==
    ASSUME AuthAssumption, RateKept, Tick
    PROVE  RateKept'
<1> USE DEF AuthAssumption
<1>1. /\ tokens' \in [Key -> Nat] /\ idle' \in [Key -> Nat]
      /\ admitted' \in [Key -> [Stretch -> Nat]]
  <2>1. \A k \in Key, w \in Stretch : (IF w = 1 THEN 0 ELSE admitted[k][w - 1]) \in Nat
    BY DEF RateKept, Stretch
  <2>2. \A k \in Key : AtMost(Span, idle[k] + 1) \in Nat
    BY DEF RateKept, AtMost
  <2> QED BY <2>1, <2>2 DEF Tick, RateKept
<1>2. ASSUME NEW k \in Key
      PROVE  WithinRate(k)'
  <2>1. Refilled(k) \in Nat /\ Burst * Unit \in Nat /\ tokens[k] + idle[k] * Refill \in Nat
    BY RefilledRange
  <2>2. Refilled(k)' \in Nat /\ Refilled(k)' <= Burst * Unit /\ Refilled(k)' <= Refilled(k) + Refill
    <3>1. PICK n \in Nat : n = idle[k]
      BY DEF RateKept
    <3>2. idle'[k] \in Nat /\ idle'[k] <= n + 1 /\ tokens'[k] = tokens[k] /\ tokens[k] \in Nat
      BY <3>1 DEF Tick, AtMost, RateKept
    <3>3. PICK m \in Nat : m = idle'[k]
      BY <3>2
    <3>4. m * Refill <= n * Refill + Refill /\ m * Refill \in Nat /\ n * Refill \in Nat
      <4>1. (n + 1) * Refill = n * Refill + Refill
        OBVIOUS
      <4>2. m <= n + 1 => m * Refill <= (n + 1) * Refill
        OBVIOUS
      <4> QED BY <3>2, <3>3, <4>1, <4>2
    <3>5. Refilled(k)' = AtMost(Burst * Unit, tokens[k] + m * Refill)
      BY <3>2, <3>3 DEF Refilled
    <3>6. Refilled(k) = AtMost(Burst * Unit, tokens[k] + n * Refill)
      BY <3>1 DEF Refilled
    <3> QED BY <2>1, <3>2, <3>4, <3>5, <3>6 DEF AtMost
  <2>3. ASSUME NEW w \in Stretch
        PROVE  Unit * admitted'[k][w] + Refilled(k)' <= Burst * Unit + (w - 1) * Refill
    <3>1. CASE w = 1
      <4>1. admitted'[k][w] = 0 /\ (w - 1) * Refill = 0
        BY <3>1 DEF Tick
      <4> QED BY <2>1, <2>2, <4>1
    <3>2. CASE w # 1
      <4> DEFINE n == Unit * admitted[k][w - 1]
                 b == (w - 2) * Refill
      <4>1. admitted'[k][w] = admitted[k][w - 1] /\ w - 1 \in Stretch
        BY <3>2 DEF Tick, Stretch
      <4>2. n \in Nat /\ n + Refilled(k) <= Burst * Unit + ((w - 1) - 1) * Refill
        BY <4>1 DEF RateKept, WithinRate
      <4>3. (w - 1) * Refill = b + Refill /\ b \in Int /\ (w - 1) - 1 = w - 2
        BY DEF Stretch
      <4>4. n + Refilled(k) <= Burst * Unit + b
        BY <4>2, <4>3
      <4>5. Unit * admitted'[k][w] = n
        BY <4>1
      <4> HIDE DEF n, b
      <4> QED BY <2>1, <2>2, <4>2, <4>3, <4>4, <4>5
    <3> QED BY <3>1, <3>2
  <2> QED BY <2>3 DEF WithinRate
<1> QED BY <1>1, <1>2 DEF RateKept

\* TokenBucket.consume: whatever the burst and the refill, over every stretch of time a key
\* gets through no more than the two allow, however its requests are spread.
THEOREM RateIsLimited ==
    ASSUME AuthAssumption
    PROVE  AuthSpec => []BurstIsBounded
<1>1. AuthInit => RateKept
  BY RateKeptInit
<1>2. RateKept /\ [AuthNext]_authVars => RateKept'
  <2> SUFFICES ASSUME RateKept, [AuthNext]_authVars
               PROVE  RateKept'
    OBVIOUS
  <2>1. CASE Request
    BY <2>1, ConsumeKept DEF Request
  <2>2. CASE Tick
    BY <2>2, TickKept
  <2>3. CASE UNCHANGED authVars
    BY <2>3 DEF authVars, RateKept, WithinRate, Refilled
  <2> QED BY <2>1, <2>2, <2>3 DEF AuthNext
<1>3. RateKept => BurstIsBounded
  <2> SUFFICES ASSUME RateKept, NEW k \in Key, NEW w \in Stretch
               PROVE  Unit * admitted[k][w] <= Burst * Unit + (w - 1) * Refill
    BY DEF BurstIsBounded
  <2>1. Refilled(k) \in Nat /\ Unit * admitted[k][w] \in Nat
    BY RefilledRange DEF RateKept, AuthAssumption
  <2>2. Burst * Unit + (w - 1) * Refill \in Int
    BY DEF AuthAssumption, Stretch
  <2> QED BY <2>1, <2>2 DEF RateKept, WithinRate
<1> QED BY <1>1, <1>2, <1>3, PTL DEF AuthSpec

-----------------------------------------------------------------------------
(***************************************************************************)
(* Radio.  A copy that has made h hops is at least h broadcasts old, and   *)
(* however long it is still on its way, it will not be older than two      *)
(* intervals and the latency; a table's entry is older than what is in the *)
(* air only by the time since the last broadcast.                          *)
(***************************************************************************)
Copy  == [by : Node, to : Node, since : Nat, left : 0 .. MaxDelay, age : Nat, hops : Nat]
Entry == [age : Nat, hops : Nat]

\* Each hop has waited for a broadcast, and begun while the state was recent.
Hopped(x, wait) == x.hops * Period + wait <= x.age /\ x.hops * Period <= 2 * Interval

CopiesAgeing ==
    \A m \in flight : /\ m.to # Subject /\ Hopped(m, quiet)
                      /\ m.age + m.left <= 2 * Interval + MaxDelay
                      /\ moment # "tick" => m.left > 0
TableAgeing ==
    /\ ~Known(Subject)
    /\ \A v \in Node : Known(v) => /\ Hopped(table[v], quiet)
                                   /\ MaxHops > 0 => table[v].age <= Longest + quiet
RadioInv ==
    /\ RadioTypeOK /\ (moment = "move" => quiet < Period)
    /\ CopiesAgeing /\ TableAgeing

LEMMA RadioNumbers ==
    ASSUME RadioAssumption
    PROVE  /\ Nodes \in Nat /\ Interval \in Nat \ {0} /\ Period \in Nat \ {0}
           /\ MaxDelay \in Nat \ {0} /\ Longest \in Nat
           /\ 3 * Interval <= Longest /\ 2 * Interval + MaxDelay <= Longest
           /\ Subject \in Node /\ MaxHops \in Nat
BY DEF RadioAssumption, Longest

LEMMA KnownEntries ==
    ASSUME RadioTypeOK, NEW v \in Node
    PROVE  /\ table[v] \in Entry \union {NoEntry}
           /\ Known(v) => table[v] \in Entry
           /\ table[v] \in Entry => Known(v)
BY DEF RadioTypeOK, Known, Entry, NoEntry

\* Among copies that have arrived there is a last one.
LEMMA LastIsOne ==
    ASSUME RadioAssumption, NEW S \in SUBSET Copy, S # {}
    PROVE  LastOf(S) \in S
<1> DEFINE Sinces == {m.since : m \in S}
           Latest(s) == {m \in S : m.since = s}
           Senders(s) == {m.by : m \in Latest(s)}
<1> USE RadioNumbers
<1>1. PICK s \in Sinces : \A t \in Sinces : s <= t
  <2>1. Sinces \in SUBSET Nat /\ Sinces # {}
    BY DEF Copy
  <2> QED BY <2>1, LeastNatural
<1>2. Senders(s) \subseteq Node /\ Senders(s) # {}
  BY <1>1 DEF Copy
<1>3. PICK b \in Senders(s) :
          \A c \in Senders(s) : c # b => b # Subject /\ (c = Subject \/ c < b)
  <2> HIDE DEF Senders
  <2>1. CASE Senders(s) \subseteq {Subject}
    <3>1. PICK b \in Senders(s) : TRUE
      BY <1>2
    <3> QED BY <3>1, <2>1
  <2>2. CASE ~(Senders(s) \subseteq {Subject})
    <3> DEFINE R == {Nodes - 1 - c : c \in Senders(s) \ {Subject}}
    <3>1. R \in SUBSET Nat /\ R # {}
      <4>1. PICK c \in Senders(s) : c # Subject
        BY <2>2
      <4>2. ASSUME NEW d \in Senders(s) PROVE Nodes - 1 - d \in Nat
        <5>1. d \in 0 .. Nodes - 1
          BY <1>2 DEF Node
        <5> QED BY <5>1
      <4> QED BY <4>1, <4>2
    <3>2. PICK r \in R : \A q \in R : r <= q
      BY <3>1, LeastNatural
    <3>3. PICK b \in Senders(s) \ {Subject} : r = Nodes - 1 - b
      BY <3>2
    <3>4. ASSUME NEW c \in Senders(s), c # b, c # Subject
          PROVE  c < b
      <4>1. r <= Nodes - 1 - c
        BY <3>2, <3>4
      <4>2. b \in Int /\ c \in Int
        BY <1>2 DEF Node
      <4> QED BY <4>1, <4>2, <3>3, <3>4
    <3> QED BY <3>3, <3>4
  <2> QED BY <2>1, <2>2
<1>4. PICK m \in S : m.since = s /\ m.by = b
  OBVIOUS
<1>5. ASSUME NEW n \in S, Precedes(m, n)
      PROVE  FALSE
  <2>1. n.since \in Nat /\ s \in Nat /\ s <= n.since /\ b \in Int
    BY <1>1, <1>2 DEF Copy, Node
  <2>2. n.since = s /\ n.by # Subject /\ (b = Subject \/ b < n.by)
    BY <2>1, <1>4, <1>5 DEF Precedes
  <2>3. n.by \in Senders(s) /\ n.by \in Int
    BY <1>2, <2>2 DEF Node
  <2> QED BY <2>1, <2>2, <2>3, <1>3
<1> QED BY <1>4, <1>5 DEF LastOf

LEMMA HeardEntry ==
    ASSUME RadioAssumption, RadioTypeOK, NEW v \in Node
    PROVE  \/ Heard(v) = table[v]
           \/ \E m \in flight : /\ m.to = v /\ Due(m)
                                /\ Heard(v) = [age |-> m.age, hops |-> m.hops]
<1>1. CASE v \in working /\ Arrived(v) # {}
  <2>1. Arrived(v) \in SUBSET Copy
    BY DEF Arrived, RadioTypeOK, Copy
  <2>2. LastOf(Arrived(v)) \in Arrived(v)
    BY <1>1, <2>1, LastIsOne
  <2> QED BY <1>1, <2>2 DEF Heard, Arrived
<1>2. CASE ~(v \in working /\ Arrived(v) # {})
  BY <1>2 DEF Heard
<1> QED BY <1>1, <1>2

LEMMA RadioInvInit == RadioAssumption /\ RadioInit => RadioInv
BY RadioNumbers DEF RadioInit, RadioInv, RadioTypeOK, CopiesAgeing, TableAgeing, Known

LEMMA DeliverAges ==
    ASSUME RadioAssumption, RadioInv, Deliver
    PROVE  RadioInv'
<1> USE RadioNumbers
<1>1. /\ moment = "tick" /\ moment' = "transmit" /\ quiet' = quiet
      /\ flight' = {m \in flight : ~Due(m)} /\ flight' \subseteq flight
      /\ table' = [v \in Node |-> Heard(v)]
      /\ working' = working /\ muted' = muted
  BY DEF Deliver
<1>2. quiet \in 0 .. Period /\ flight \subseteq Copy /\ working \subseteq Node /\ muted \subseteq Node
  BY DEF RadioInv, RadioTypeOK, Copy
<1>3. ASSUME NEW v \in Node
      PROVE  /\ table'[v] \in Entry \union {NoEntry}
             /\ v = Subject => table'[v] = NoEntry
             /\ table'[v] # NoEntry => Hopped(table'[v], quiet) /\ (MaxHops > 0 => table'[v].age <= Longest + quiet)
  <2>1. table'[v] = Heard(v)
    BY <1>1
  <2>2. CASE Heard(v) = table[v]
    BY <2>1, <2>2, KnownEntries DEF RadioInv, TableAgeing, Known
  <2>3. ASSUME NEW m \in flight, m.to = v, Due(m), Heard(v) = [age |-> m.age, hops |-> m.hops]
        PROVE  /\ table'[v] \in Entry /\ v # Subject
               /\ Hopped(table'[v], quiet) /\ table'[v].age <= Longest + quiet
    <3>1. m \in Copy /\ m.to # Subject /\ Hopped(m, quiet) /\ m.age + m.left <= 2 * Interval + MaxDelay
      BY <1>2 DEF RadioInv, CopiesAgeing
    <3>2. table'[v].age = m.age /\ table'[v].hops = m.hops /\ table'[v] \in Entry
      BY <2>1, <2>3, <3>1 DEF Copy, Entry
    <3>3. Hopped(table'[v], quiet)
      BY <3>1, <3>2 DEF Hopped
    <3>4. m.age \in Nat /\ m.left \in Nat
      BY <3>1 DEF Copy
    <3> QED BY <2>3, <3>1, <3>2, <3>3, <3>4, <1>2
  <2> QED BY <2>2, <2>3, HeardEntry DEF RadioInv
<1>4. RadioTypeOK'
  BY <1>1, <1>2, <1>3 DEF RadioTypeOK, Copy, Entry
<1>5. CopiesAgeing'
  <2> SUFFICES ASSUME NEW m \in flight'
               PROVE  /\ m.to # Subject /\ Hopped(m, quiet')
                      /\ m.age + m.left <= 2 * Interval + MaxDelay
                      /\ m.left > 0
    BY DEF CopiesAgeing
  <2>1. m \in Copy /\ ~Due(m) /\ m.to # Subject /\ Hopped(m, quiet) /\ m.age + m.left <= 2 * Interval + MaxDelay
    BY <1>1, <1>2 DEF RadioInv, CopiesAgeing
  <2>2. m.left \in Nat
    BY <2>1 DEF Copy
  <2> QED BY <2>1, <2>2, <1>1 DEF Due, Hopped
<1>6. TableAgeing'
  <2>1. ~Known(Subject)'
    BY <1>3 DEF Known
  <2> QED BY <1>1, <1>3, <2>1 DEF TableAgeing, Known, Hopped
<1> QED BY <1>1, <1>4, <1>5, <1>6 DEF RadioInv

\* What a broadcast puts in flight.
LEMMA OriginalAges ==
    ASSUME RadioAssumption, NEW v \in Node, v # Subject, NEW delay \in 0 .. MaxDelay, delay # 0
    PROVE  LET m == Original(v, delay)
           IN /\ m \in Copy /\ m.to # Subject /\ m.left > 0
              /\ m.age + m.left <= 2 * Interval + MaxDelay
              /\ m.hops * Period <= m.age /\ m.hops * Period <= 2 * Interval
BY RadioNumbers DEF Original, Copy

LEMMA RelayedAges ==
    ASSUME RadioAssumption, RadioInv, quiet >= Period, NEW links \in InRange,
           NEW p \in Relays(links), NEW delay \in 0 .. MaxDelay, delay # 0
    PROVE  LET m == Relayed(p, delay)
           IN /\ m \in Copy /\ m.to # Subject /\ m.left > 0
              /\ m.age + m.left <= 2 * Interval + MaxDelay
              /\ m.hops * Period <= m.age /\ m.hops * Period <= 2 * Interval
<1> USE RadioNumbers
<1>1. p[1] \in Node /\ p[2] \in Node /\ p[2] # Subject /\ Known(p[1]) /\ table[p[1]].age <= 2 * Interval
  BY DEF Relays, Recent, RadioAssumption
<1>2. table[p[1]] \in Entry /\ Hopped(table[p[1]], quiet)
  BY <1>1, KnownEntries DEF RadioInv, TableAgeing
<1>3. PICK age \in Nat, hops \in Nat : table[p[1]] = [age |-> age, hops |-> hops]
  BY <1>2 DEF Entry
<1>4. hops * Period + Period <= age /\ age <= 2 * Interval
  BY <1>1, <1>2, <1>3 DEF Hopped, RadioInv, RadioTypeOK
<1>5. (hops + 1) * Period = hops * Period + Period
  OBVIOUS
<1>6. Relayed(p, delay) = [by |-> p[1], to |-> p[2], since |-> 0, left |-> delay,
                           age |-> age, hops |-> hops + 1]
  BY <1>3 DEF Relayed
<1> QED BY <1>1, <1>4, <1>5, <1>6 DEF Copy

LEMMA TransmitAges ==
    ASSUME RadioAssumption, RadioInv, Transmit
    PROVE  RadioInv'
<1> USE RadioNumbers
<1> DEFINE Young(m) == /\ m \in Copy /\ m.to # Subject /\ m.left > 0
                       /\ m.age + m.left <= 2 * Interval + MaxDelay
                       /\ m.hops * Period <= m.age /\ m.hops * Period <= 2 * Interval
<1>1. /\ moment = "transmit" /\ moment' = "move" /\ quiet' = 0 /\ quiet >= Period
      /\ table' = IF MaxHops > 0 THEN [v \in Node |-> Pruned(table[v])] ELSE table
      /\ working' = working /\ muted' = muted
  BY DEF Transmit
<1>2. /\ quiet \in Nat /\ flight \subseteq Copy /\ working \subseteq Node /\ muted \subseteq Node
      /\ quiet = Period
  BY <1>1 DEF RadioInv, RadioTypeOK, Copy
<1>3. \A m \in flight' : Young(m)
  <2>1. ASSUME NEW m \in flight PROVE Young(m)
    <3>1. m.age \in Nat /\ m.left \in Nat /\ m.hops \in Nat /\ m.hops * Period \in Nat
      BY <1>2 DEF Copy
    <3> QED BY <1>1, <1>2, <3>1 DEF RadioInv, CopiesAgeing, Hopped
  <2>2. ASSUME NEW links \in InRange, NEW sent \in [Hearers(links) -> Lost .. MaxDelay],
               NEW v \in Hearers(links), sent[v] # Lost
        PROVE  Young(Original(v, sent[v]))
    <3>1. v \in Node /\ v # Subject
      BY <1>2 DEF Hearers
    <3> HIDE DEF Young
    <3> QED BY <2>2, <3>1, OriginalAges DEF Lost, Young
  <2>3. ASSUME NEW links \in InRange, NEW passed \in [Relays(links) -> Lost .. MaxDelay],
               NEW p \in Relays(links), passed[p] # Lost
        PROVE  Young(Relayed(p, passed[p]))
    BY <1>1, <2>3, RelayedAges DEF Lost, Young
  <2> HIDE DEF Young
  <2> QED BY <2>1, <2>2, <2>3 DEF Transmit
<1>4. ASSUME NEW v \in Node
      PROVE  /\ table'[v] \in Entry \union {NoEntry}
             /\ table[v] = NoEntry => table'[v] = NoEntry
             /\ table'[v] # NoEntry =>
                  /\ Hopped(table'[v], quiet')
                  /\ MaxHops > 0 => table'[v].age <= Longest
  <2>1. table[v] \in Entry \union {NoEntry} /\ (table[v] # NoEntry => Hopped(table[v], quiet))
    BY KnownEntries DEF RadioInv, TableAgeing, Known
  <2>2. table'[v] = table[v] \/ table'[v] = NoEntry
    BY <1>1 DEF Pruned
  <2>3. MaxHops > 0 /\ table'[v] # NoEntry => table[v].age <= 3 * Interval
    <3> SUFFICES ASSUME MaxHops > 0, table'[v] # NoEntry PROVE table[v].age <= 3 * Interval
      OBVIOUS
    <3>1. ~(table[v].age > 3 * Interval) /\ table'[v] = table[v]
      BY <1>1 DEF Pruned
    <3>2. table[v].age \in Nat
      BY <2>1, <3>1 DEF Entry
    <3> QED BY <3>1, <3>2
  <2>4. table'[v] # NoEntry => Hopped(table'[v], quiet')
    <3> SUFFICES ASSUME table'[v] # NoEntry PROVE Hopped(table'[v], quiet')
      OBVIOUS
    <3>1. table'[v] = table[v] /\ table[v] \in Entry /\ Hopped(table[v], quiet)
      BY <2>1, <2>2
    <3>2. table[v].age \in Nat /\ table[v].hops * Period \in Nat
      BY <3>1 DEF Entry
    <3>3. table'[v].hops * Period + quiet' <= table'[v].age /\ table'[v].hops * Period <= 2 * Interval
      BY <3>1, <3>2, <1>1, <1>2 DEF Hopped
    <3> QED BY <3>3 DEF Hopped
  <2>5. MaxHops > 0 /\ table'[v] # NoEntry => table'[v].age <= Longest
    <3> SUFFICES ASSUME MaxHops > 0, table'[v] # NoEntry PROVE table'[v].age <= Longest
      OBVIOUS
    <3>1. table'[v] = table[v] /\ table[v].age \in Nat /\ table[v].age <= 3 * Interval
      BY <2>1, <2>2, <2>3 DEF Entry
    <3> QED BY <3>1
  <2>6. table[v] = NoEntry => table'[v] = NoEntry
    BY <2>2
  <2>7. table'[v] \in Entry \union {NoEntry}
    BY <2>1, <2>2
  <2> QED BY <2>4, <2>5, <2>6, <2>7
<1>5. RadioTypeOK'
  <2>1. flight' \subseteq Copy
    BY <1>3
  <2>2. table' \in [Node -> Entry \union {NoEntry}]
    BY <1>1, <1>4 DEF RadioInv, RadioTypeOK, Entry
  <2> QED BY <1>1, <1>2, <2>1, <2>2 DEF RadioTypeOK, Copy, Entry
<1>6. CopiesAgeing'
  <2> SUFFICES ASSUME NEW m \in flight'
               PROVE  /\ m.to # Subject /\ Hopped(m, quiet')
                      /\ m.age + m.left <= 2 * Interval + MaxDelay
                      /\ m.left > 0
    BY DEF CopiesAgeing
  <2>1. Young(m)
    BY <1>3
  <2>2. m.hops * Period + 0 = m.hops * Period
    BY <2>1 DEF Copy
  <2> QED BY <2>1, <2>2, <1>1 DEF Hopped
<1>7. TableAgeing'
  <2>1. ~Known(Subject)'
    BY <1>4 DEF Known, RadioInv, TableAgeing
  <2>2. Longest + quiet' = Longest
    BY <1>1
  <2> QED BY <1>4, <2>1, <2>2 DEF TableAgeing, Known
<1> QED BY <1>1, <1>5, <1>6, <1>7 DEF RadioInv

LEMMA RestOfStepAges ==
    ASSUME RadioAssumption, RadioInv, RestOfStep
    PROVE  RadioInv'
<1> USE RadioNumbers
<1>1. /\ moment = "move" /\ moment' = "tick" /\ quiet' = quiet + 1
      /\ table' = [v \in Node |-> Older(table[v])]
      /\ flight' = {OneStepOn(m) : m \in flight}
      /\ working' \subseteq working /\ muted' = muted
  BY DEF RestOfStep
<1>2. /\ quiet \in Nat /\ quiet < Period
      /\ flight \subseteq Copy /\ working \subseteq Node /\ muted \subseteq Node
  BY <1>1 DEF RadioInv, RadioTypeOK, Copy
<1>3. ASSUME NEW m \in flight
      PROVE  LET n == OneStepOn(m)
             IN /\ n \in Copy /\ n.to # Subject /\ Hopped(n, quiet')
                /\ n.age + n.left <= 2 * Interval + MaxDelay
  <2>1. m \in Copy /\ m.to # Subject /\ Hopped(m, quiet) /\ m.left > 0
        /\ m.age + m.left <= 2 * Interval + MaxDelay
    BY <1>1, <1>2 DEF RadioInv, CopiesAgeing
  <2>2. m.age \in Nat /\ m.left \in 1 .. MaxDelay /\ m.since \in Nat /\ m.hops * Period \in Nat
    BY <2>1 DEF Copy
  <2>3. m.by \in Node /\ m.to \in Node /\ m.hops \in Nat
    BY <2>1 DEF Copy
  <2> QED BY <1>1, <1>2, <2>1, <2>2, <2>3 DEF OneStepOn, Copy, Hopped
<1>4. ASSUME NEW v \in Node
      PROVE  /\ table'[v] \in Entry \union {NoEntry}
             /\ table[v] = NoEntry => table'[v] = NoEntry
             /\ table'[v] # NoEntry =>
                  /\ Hopped(table'[v], quiet')
                  /\ MaxHops > 0 => table'[v].age <= Longest + quiet'
  <2>1. table'[v] = Older(table[v])
    BY <1>1
  <2>2. CASE table[v] = NoEntry
    BY <2>1, <2>2 DEF Older
  <2>3. CASE table[v] # NoEntry
    <3>1. table[v] \in Entry /\ Hopped(table[v], quiet)
          /\ (MaxHops > 0 => table[v].age <= Longest + quiet)
      BY <2>3, KnownEntries DEF RadioInv, TableAgeing, Known
    <3>2. table'[v] = [age |-> table[v].age + 1, hops |-> table[v].hops]
      BY <2>1, <2>3, <3>1 DEF Older, Entry
    <3>3. table[v].age \in Nat /\ table[v].hops \in Nat /\ table[v].hops * Period \in Nat
      BY <3>1 DEF Entry
    <3>4. Hopped(table'[v], quiet')
      BY <1>1, <1>2, <3>1, <3>2, <3>3 DEF Hopped
    <3>5. table'[v] \in Entry /\ (MaxHops > 0 => table'[v].age <= Longest + quiet')
      BY <1>1, <1>2, <3>1, <3>2, <3>3 DEF Entry
    <3> QED BY <2>3, <3>4, <3>5
  <2> QED BY <2>2, <2>3
<1>5. RadioTypeOK'
  <2>1. flight' \subseteq Copy
    BY <1>1, <1>3
  <2>2. table' \in [Node -> Entry \union {NoEntry}]
    BY <1>1, <1>4
  <2> QED BY <1>1, <1>2, <2>1, <2>2 DEF RadioTypeOK, Copy, Entry
<1>6. CopiesAgeing'
  BY <1>1, <1>3 DEF CopiesAgeing
<1>7. TableAgeing'
  <2>1. ~Known(Subject)'
    BY <1>4 DEF Known, RadioInv, TableAgeing
  <2> QED BY <1>4, <2>1 DEF TableAgeing, Known
<1> QED BY <1>1, <1>5, <1>6, <1>7 DEF RadioInv

LEMMA RadioStep ==
    ASSUME RadioAssumption, RadioInv, [RadioNext]_radioVars
    PROVE  RadioInv'
<1>1. CASE KeepQuiet
  BY <1>1 DEF KeepQuiet, RadioInv, RadioTypeOK, CopiesAgeing, TableAgeing, Known, Hopped
<1>2. CASE UNCHANGED radioVars
  BY <1>2 DEF radioVars, RadioInv, RadioTypeOK, CopiesAgeing, TableAgeing, Known, Hopped
<1> QED BY <1>1, <1>2, DeliverAges, TransmitAges, RestOfStepAges DEF RadioNext

LEMMA AgeingBounds == RadioAssumption /\ RadioInv => RelaysDieOut
<1> SUFFICES ASSUME RadioAssumption, RadioInv PROVE RelaysDieOut
  OBVIOUS
<1> USE RadioNumbers
<1>1. ~Known(Subject)
  BY DEF RadioInv, TableAgeing
<1>2. ASSUME NEW m \in flight
      PROVE  m.to # Subject /\ m.age <= 2 * Interval + MaxDelay
  <2>1. m.age \in Nat /\ m.left \in Nat
    BY DEF RadioInv, RadioTypeOK
  <2> QED BY <2>1 DEF RadioInv, CopiesAgeing
<1>3. ASSUME NEW v \in Node
      PROVE  /\ MaxHops > 0 => table[v].age <= Longest + Period
             /\ table[v].hops <= (2 * Interval) \div Period
  <2>1. quiet \in 0 .. Period
    BY DEF RadioInv, RadioTypeOK
  <2>2. (2 * Interval) \div Period \in Nat
    OBVIOUS
  <2>3. CASE table[v] = NoEntry
    BY <2>2, <2>3 DEF NoEntry
  <2>4. CASE table[v] # NoEntry
    <3>1. table[v] \in Entry /\ Hopped(table[v], quiet)
          /\ (MaxHops > 0 => table[v].age <= Longest + quiet)
      BY <2>4, KnownEntries DEF RadioInv, TableAgeing, Known
    <3>2. table[v].hops \in Nat /\ table[v].age \in Nat /\ table[v].hops * Period <= 2 * Interval
      BY <3>1 DEF Entry, Hopped
    <3>3. table[v].hops <= (2 * Interval) \div Period
      BY <3>2
    <3> QED BY <2>1, <3>1, <3>2, <3>3
  <2> QED BY <2>3, <2>4
<1> QED BY <1>1, <1>2, <1>3 DEF RelaysDieOut

\* Relays die out, whatever is lost, delayed or out of range, for any number of vehicles,
\* intervals and latencies (network.py, runner.py).
THEOREM RelayedStatesDieOut == RadioAssumption => (RadioSpec => []RelaysDieOut)
<1> SUFFICES ASSUME RadioAssumption PROVE RadioSpec => []RelaysDieOut
  OBVIOUS
<1>1. RadioInit => RadioInv
  BY RadioInvInit
<1>2. RadioInv /\ [RadioNext]_radioVars => RadioInv'
  BY RadioStep
<1>3. RadioInv => RelaysDieOut
  BY AgeingBounds
<1> QED BY <1>1, <1>2, <1>3, PTL DEF RadioSpec

-----------------------------------------------------------------------------
(***************************************************************************)
(* Formation.  While an auction runs no two vehicles hold the same slot: a *)
(* vehicle keeps one only if the consensus makes it the winner, and who is *)
(* left over takes a free one.  When it closes everybody has a slot, as    *)
(* there are as many as vehicles.                                          *)
(***************************************************************************)
Slot == Tasks \union {Unknown}

Auctioning ==
    /\ DOMAIN auction = {"round", "bid", "highest", "winner", "bundle"}
    /\ auction.round \in 0 .. MaxIterations
    /\ auction.bid \in [running -> [Tasks -> Nat]]
    /\ auction.bundle \in [running -> Slot]
    /\ \A u, v \in running :
         auction.bundle[u] = auction.bundle[v] /\ auction.bundle[u] # Unknown => u = v
    /\ auction.round < MaxIterations =>
         \A v \in running : auction.bundle[v] # Unknown => auction.winner[auction.bundle[v]] = v

SlotsInUse ==
    /\ DOMAIN slots = {} \/ running \subseteq DOMAIN slots
    /\ \A u, v \in DOMAIN slots : slots[u] = slots[v] => u = v
    /\ \A v \in DOMAIN slots : slots[v] \in Nat

FormationInv ==
    /\ running \subseteq Vehicles /\ SlotsInUse
    /\ auction = Closed \/ Auctioning

LEMMA RunningCounted ==
    ASSUME FormationAssumption, running \subseteq Vehicles
    PROVE  /\ IsFiniteSet(running) /\ Cardinality(running) \in Nat
           /\ Tasks \subseteq Nat /\ Unknown \notin Tasks
           /\ IsFiniteSet(Tasks) /\ Cardinality(Tasks) = Cardinality(running)
<1>1. IsFiniteSet(Vehicles)
  BY FS_Interval DEF Vehicles, FormationAssumption
<1>2. IsFiniteSet(running) /\ Cardinality(running) \in Nat
  BY <1>1, FS_Subset, FS_CardinalityType
<1>3. IsFiniteSet(Tasks) /\ Cardinality(Tasks) = Cardinality(running)
  <2>1. /\ IsFiniteSet(0 .. Cardinality(running) - 1)
        /\ Cardinality(0 .. Cardinality(running) - 1) =
             IF 0 > Cardinality(running) - 1 THEN 0 ELSE Cardinality(running) - 1 - 0 + 1
    BY <1>2, FS_Interval
  <2> QED BY <1>2, <2>1 DEF Tasks
<1> QED BY <1>2, <1>3 DEF Tasks, Unknown

\* Of finitely many bids one is the highest.
LEMMA SomeHighest ==
    ASSUME NEW S, S # {}, IsFiniteSet(S), NEW b \in [S -> Nat]
    PROVE  \E t \in S : \A u \in S : b[u] <= b[t]
<1> DEFINE Above(t) == {u \in S : b[u] > b[t]}
           Counts == {Cardinality(Above(t)) : t \in S}
<1>1. \A t \in S : IsFiniteSet(Above(t)) /\ Cardinality(Above(t)) \in Nat
  <2> TAKE t \in S
  <2>1. Above(t) \in SUBSET S
    OBVIOUS
  <2> HIDE DEF Above
  <2> QED BY <2>1, FS_Subset, FS_CardinalityType
<1>2. PICK t \in S : \A u \in S : Cardinality(Above(t)) <= Cardinality(Above(u))
  <2>1. Counts \in SUBSET Nat /\ Counts # {}
    BY <1>1
  <2>2. PICK n \in Counts : \A m \in Counts : n <= m
    <3> HIDE DEF Counts
    <3> QED BY <2>1, LeastNatural, Zenon
  <2>3. PICK t \in S : n = Cardinality(Above(t))
    <3> HIDE DEF Above
    <3> QED BY <2>2
  <2>4. \A u \in S : Cardinality(Above(u)) \in Counts
    OBVIOUS
  <2> QED BY <2>2, <2>3, <2>4
<1>3. ASSUME NEW u \in S, b[u] > b[t]
      PROVE  FALSE
  <2>1. b[u] \in Nat /\ b[t] \in Nat
    OBVIOUS
  <2>2. \A x \in S : b[x] \in Nat /\ (b[x] > b[u] => b[x] > b[t])
    BY <1>3, <2>1
  <2>3. Above(u) \in SUBSET Above(t)
    BY <2>2
  <2>4. u \in Above(t) /\ u \notin Above(u)
    BY <1>3, <2>1
  <2> HIDE DEF Above
  <2>5. Cardinality(Above(u)) <= Cardinality(Above(t)) /\ Cardinality(Above(u)) # Cardinality(Above(t))
    BY <1>1, <2>3, <2>4, FS_Subset
  <2> QED BY <1>1, <1>2, <2>5
<1>4. \A u \in S : b[u] <= b[t]
  <2> TAKE u \in S
  <2>1. b[u] \in Nat /\ b[t] \in Nat /\ ~(b[u] > b[t])
    BY <1>3
  <2> QED BY <2>1
<1> QED BY <1>4

\* The favourite is the first slot with the highest bid.
LEMMA FavouriteIsOne ==
    ASSUME NEW v, NEW S \in SUBSET Nat, S # {}, IsFiniteSet(S),
           \A t \in S : auction.bid[v][t] \in Nat
    PROVE  Favourite(v, S) \in S
<1> DEFINE b == [t \in S |-> auction.bid[v][t]]
           Top == {t \in S : \A u \in S : auction.bid[v][u] <= auction.bid[v][t]}
<1>1. PICK t \in S : \A u \in S : b[u] <= b[t]
  <2>1. b \in [S -> Nat]
    OBVIOUS
  <2> HIDE DEF b
  <2> QED BY <2>1, SomeHighest
<1>2. Top \in SUBSET Nat /\ Top # {}
  BY <1>1
<1>3. PICK m \in Top : \A n \in Top : m <= n
  <2> HIDE DEF Top
  <2> QED BY <1>2, LeastNatural, Zenon
<1>4. Min(Top) \in Top
  <2> HIDE DEF Top
  <2> QED BY <1>3, Zenon DEF Min
<1> QED BY <1>4 DEF Favourite

LEMMA SlotsTaken ==
    ASSUME FormationAssumption, running \subseteq Vehicles, Auctioning
    PROVE  LeftOver # {} => FreeSlots # {}
<1> SUFFICES ASSUME LeftOver # {}, FreeSlots = {}
             PROVE  FALSE
  OBVIOUS
<1> DEFINE holders == running \ LeftOver
           f == [v \in holders |-> auction.bundle[v]]
<1>1. /\ IsFiniteSet(running) /\ Cardinality(running) \in Nat
      /\ Unknown \notin Tasks /\ Cardinality(Tasks) = Cardinality(running)
  BY RunningCounted
<1>2. IsFiniteSet(holders) /\ Cardinality(holders) < Cardinality(running)
  <2>1. holders \in SUBSET running /\ holders # running
    BY DEF LeftOver
  <2> HIDE DEF holders
  <2>2. IsFiniteSet(holders) /\ Cardinality(holders) <= Cardinality(running)
        /\ Cardinality(holders) # Cardinality(running)
    BY <1>1, <2>1, FS_Subset
  <2>3. Cardinality(holders) \in Nat
    BY <2>2, FS_CardinalityType
  <2> QED BY <1>1, <2>2, <2>3
<1>3. \A t \in Tasks : \E v \in holders : auction.bundle[v] = t
  <2> SUFFICES ASSUME NEW t \in Tasks PROVE \E v \in holders : auction.bundle[v] = t
    OBVIOUS
  <2>1. t \in Range(auction.bundle)
    BY DEF FreeSlots
  <2>2. PICK v \in running : auction.bundle[v] = t
    BY <2>1 DEF Range, Auctioning
  <2> QED BY <1>1, <2>2 DEF LeftOver
<1>4. f \in Surjection(holders, Tasks)
  <2>1. \A v \in holders : auction.bundle[v] \in Tasks
    BY DEF LeftOver, Auctioning, Slot
  <2> QED BY <1>3, <2>1 DEF Surjection
<1>5. Cardinality(Tasks) <= Cardinality(holders)
  <2> HIDE DEF f, holders
  <2> QED BY <1>2, <1>4, FS_Surjection
<1>6. Cardinality(holders) \in Nat
  BY <1>2, FS_CardinalityType
<1> QED BY <1>1, <1>2, <1>5, <1>6

LEMMA FormationInvInit == FormationInit => FormationInv
BY DEF FormationInit, FormationInv, SlotsInUse

LEMMA BeginAuctionKept ==
    ASSUME FormationAssumption, FormationInv, BeginAuction
    PROVE  FormationInv'
<1>1. PICK offers \in [running -> [Tasks -> Bids]] :
          auction' = [round |-> 0, bid |-> offers,
                      highest |-> [t \in Tasks |-> NoBid], winner |-> [t \in Tasks |-> Unknown],
                      bundle |-> [v \in running |-> Unknown]]
  BY DEF BeginAuction
<1>2. running' = running /\ Tasks' = Tasks /\ slots' = [v \in {} |-> 0]
  BY DEF BeginAuction, Tasks
<1>3. /\ DOMAIN auction' = {"round", "bid", "highest", "winner", "bundle"}
      /\ auction'.round = 0 /\ auction'.bid = offers
      /\ auction'.bundle = [v \in running |-> Unknown]
  BY <1>1
<1>4. offers \in [running -> [Tasks -> Nat]]
  BY DEF FormationAssumption
<1>5. Auctioning'
  BY <1>2, <1>3, <1>4 DEF Auctioning, Slot, FormationAssumption
<1> QED BY <1>2, <1>5 DEF FormationInv, SlotsInUse

LEMMA RoundKept ==
    ASSUME FormationAssumption, FormationInv, AuctionRound
    PROVE  FormationInv'
<1>1. running' = running /\ slots' = slots /\ Tasks' = Tasks
  BY DEF AuctionRound, Tasks
<1>2. auction # Closed /\ auction.round \in 0 .. MaxIterations - 1
  BY DEF AuctionRound, InAuction, Closed, FormationAssumption
<1>3. Auctioning /\ running \subseteq Vehicles
  BY <1>2 DEF FormationInv
<1>4. /\ DOMAIN auction' = {"round", "bid", "highest", "winner", "bundle"}
      /\ auction'.round \in 0 .. MaxIterations
      /\ auction'.bid = auction.bid
      /\ auction'.winner = [t \in Tasks |-> First(t)]
      /\ auction'.bundle = [v \in running |-> Kept(v)]
  BY <1>2 DEF AuctionRound, FormationAssumption
<1>5. ASSUME NEW v \in running
      PROVE  /\ Kept(v) \in Slot
             /\ Kept(v) # Unknown => First(Kept(v)) = v
  <2>1. Tasks \subseteq Nat /\ IsFiniteSet(Tasks) /\ Unknown \notin Tasks
    BY <1>3, RunningCounted
  <2>2. Bundled(v) \in Slot
    <3>1. CASE auction.bundle[v] # Unknown \/ Worthwhile(v) = {}
      BY <1>3, <3>1 DEF Bundled, Auctioning
    <3>2. CASE ~(auction.bundle[v] # Unknown \/ Worthwhile(v) = {})
      <4>1. Worthwhile(v) \in SUBSET Tasks /\ Worthwhile(v) # {}
        BY <3>2 DEF Worthwhile
      <4>2. IsFiniteSet(Worthwhile(v))
        BY <2>1, <4>1, FS_Subset
      <4>3. \A t \in Worthwhile(v) : auction.bid[v][t] \in Nat
        BY <1>3, <4>1 DEF Auctioning
      <4>4. Favourite(v, Worthwhile(v)) \in Worthwhile(v)
        BY <2>1, <4>1, <4>2, <4>3, FavouriteIsOne
      <4> QED BY <3>2, <4>1, <4>4 DEF Bundled, Slot
    <3> QED BY <3>1, <3>2
  <2>3. Kept(v) # Unknown => First(Kept(v)) = v
    <3> SUFFICES ASSUME Kept(v) # Unknown PROVE First(Kept(v)) = v
      OBVIOUS
    <3>1. Kept(v) = Bundled(v) /\ ~Dropped(v)
      BY DEF Kept
    <3>2. First(Kept(v)) = Holder(v, Kept(v)) \/ First(Kept(v)) = v
      BY <3>1 DEF Dropped
    <3>3. Holder(v, Kept(v)) = v
      <4>1. CASE auction.bundle[v] = Unknown
        BY <3>1, <4>1 DEF Holder, Bidding
      <4>2. CASE auction.bundle[v] # Unknown
        <5>1. Kept(v) = auction.bundle[v]
          BY <3>1, <4>2 DEF Bundled
        <5>2. auction.winner[auction.bundle[v]] = v
          BY <1>2, <1>3, <4>2 DEF Auctioning, FormationAssumption
        <5> QED BY <4>2, <5>1, <5>2 DEF Holder, Bidding
      <4> QED BY <4>1, <4>2
    <3> QED BY <3>2, <3>3
  <2>4. Kept(v) \in Slot
    BY <2>2 DEF Kept, Slot
  <2> QED BY <2>3, <2>4
<1>6. Auctioning'
  <2>1. \A u, v \in running : Kept(u) = Kept(v) /\ Kept(u) # Unknown => u = v
    BY <1>5
  <2>2. \A v \in running : Kept(v) # Unknown => auction'.winner[Kept(v)] = v
    BY <1>4, <1>5 DEF Slot
  <2>3. Slot' = Slot
    BY <1>1 DEF Slot
  <2>4. auction.bid \in [running -> [Tasks -> Nat]]
    BY <1>3 DEF Auctioning
  <2>5. auction'.bundle \in [running -> Slot] /\ \A v \in running : auction'.bundle[v] = Kept(v)
    BY <1>4, <1>5
  <2> QED BY <1>1, <1>4, <2>1, <2>2, <2>3, <2>4, <2>5 DEF Auctioning
<1> QED BY <1>1, <1>6 DEF FormationInv, SlotsInUse

LEMMA AwardKept ==
    ASSUME FormationAssumption, FormationInv, AwardLeftOver
    PROVE  FormationInv'
<1> DEFINE w == Min(LeftOver)
           t == Favourite(w, FreeSlots)
<1>1. running' = running /\ slots' = slots /\ Tasks' = Tasks
  BY DEF AwardLeftOver, Tasks
<1>2. /\ auction.round = MaxIterations /\ auction # Closed
      /\ auction' = [auction EXCEPT !.bundle = [auction.bundle EXCEPT ![w] = t]]
      /\ LeftOver # {} /\ FreeSlots # {}
  BY DEF AwardLeftOver, Closed, FormationAssumption
<1>3. Auctioning /\ running \subseteq Vehicles
  BY <1>2 DEF FormationInv
<1>4. w \in LeftOver
  <2>1. LeftOver \in SUBSET Nat
    <3>1. \A v \in running : v \in 0 .. Size - 1 /\ Size \in Nat
      BY <1>3 DEF Vehicles, FormationAssumption
    <3>2. \A v \in running : v \in Nat
      BY <3>1
    <3> QED BY <3>2 DEF LeftOver
  <2>2. PICK x \in LeftOver : \A y \in LeftOver : x <= y
    BY <1>2, <2>1, LeastNatural
  <2> QED BY <2>2, Zenon DEF Min
<1>5. w \in running /\ auction.bundle[w] = Unknown
  BY <1>4 DEF LeftOver
<1>6. t \in FreeSlots
  <2>1. Tasks \subseteq Nat /\ IsFiniteSet(Tasks)
    BY <1>3, RunningCounted
  <2>2. FreeSlots \in SUBSET Tasks
    BY DEF FreeSlots
  <2>3. IsFiniteSet(FreeSlots)
    BY <2>1, <2>2, FS_Subset
  <2>4. \A u \in FreeSlots : auction.bid[w][u] \in Nat
    BY <1>3, <1>5, <2>2 DEF Auctioning
  <2> HIDE DEF w
  <2> QED BY <1>2, <2>1, <2>2, <2>3, <2>4, FavouriteIsOne
<1>7. t \in Tasks /\ \A v \in running : auction.bundle[v] # t
  BY <1>3, <1>6 DEF FreeSlots, Range, Auctioning
<1> HIDE DEF w, t
<1>8. /\ DOMAIN auction' = DOMAIN auction
      /\ auction'.round = auction.round /\ auction'.bid = auction.bid
      /\ auction'.bundle = [auction.bundle EXCEPT ![w] = t]
  BY <1>2, <1>3 DEF Auctioning
<1>9. Auctioning'
  <2>1. auction'.bundle \in [running -> Slot]
    BY <1>3, <1>7, <1>8 DEF Auctioning, Slot
  <2>2. \A v \in running : auction'.bundle[v] = IF v = w THEN t ELSE auction.bundle[v]
    BY <1>3, <1>8 DEF Auctioning
  <2>3. Slot' = Slot
    BY <1>1 DEF Slot
  <2>4. \A u, v \in running :
          auction'.bundle[u] = auction'.bundle[v] /\ auction'.bundle[u] # Unknown => u = v
    BY <1>3, <1>5, <1>7, <2>2 DEF Auctioning
  <2> QED BY <1>1, <1>2, <1>3, <1>8, <2>1, <2>3, <2>4 DEF Auctioning, FormationAssumption
<1> QED BY <1>1, <1>9 DEF FormationInv, SlotsInUse

LEMMA CloseKept ==
    ASSUME FormationAssumption, FormationInv, CloseAuction
    PROVE  FormationInv'
<1>1. running' = running /\ auction' = Closed
  BY DEF CloseAuction
<1>2. auction # Closed
  BY DEF CloseAuction, Closed, FormationAssumption
<1>3. Auctioning /\ running \subseteq Vehicles
  BY <1>2 DEF FormationInv
<1>4. LeftOver = {}
  BY <1>3, SlotsTaken DEF CloseAuction
<1>5. slots' = [v \in running |-> auction.bundle[v]]
  BY <1>4 DEF CloseAuction
<1>6. \A v \in running : auction.bundle[v] \in Tasks
  BY <1>3, <1>4 DEF LeftOver, Auctioning, Slot
<1>7. Tasks \subseteq Nat /\ Unknown \notin Tasks
  BY <1>3, RunningCounted
<1>8. SlotsInUse'
  BY <1>1, <1>3, <1>5, <1>6, <1>7 DEF SlotsInUse, Auctioning
<1> QED BY <1>1, <1>3, <1>8 DEF FormationInv

LEMMA FormationStep ==
    ASSUME FormationAssumption, FormationInv, [FormationNext]_formation
    PROVE  FormationInv'
<1>1. CASE BetweenAuctions
  BY <1>1 DEF BetweenAuctions, FormationInv, SlotsInUse, Closed
<1>2. CASE UNCHANGED formation
  BY <1>2 DEF formation, FormationInv, SlotsInUse, Auctioning, Slot, Tasks
<1> QED BY <1>1, <1>2, BeginAuctionKept, RoundKept, AwardKept, CloseKept DEF FormationNext

LEMMA PlacesApart ==
    ASSUME FormationAssumption, FormationInv, NEW u \in running, NEW v \in running, u < v
    PROVE  FormationIndex(u) # FormationIndex(v)
<1>1. CASE running \subseteq DOMAIN slots
  BY <1>1 DEF FormationIndex, FormationInv, SlotsInUse, Vehicles
<1>2. CASE DOMAIN slots = {}
  <2> DEFINE Before(w) == {x \in running \ {leading} : x < w}
  <2>1. \A w \in running : IsFiniteSet(Before(w)) /\ Cardinality(Before(w)) \in Nat
    <3> TAKE w \in running
    <3>1. IsFiniteSet(running) /\ Before(w) \in SUBSET running
      BY RunningCounted DEF FormationInv
    <3> HIDE DEF Before
    <3> QED BY <3>1, FS_Subset, FS_CardinalityType
  <2>2. \A w \in running : FormationIndex(w) = IF w = leading THEN 0 ELSE 1 + Cardinality(Before(w))
    BY <1>2 DEF FormationIndex
  <2>3. u \in Nat /\ v \in Nat /\ running \subseteq Nat
    BY DEF FormationInv, Vehicles
  <2>4. CASE u # leading /\ v # leading
    <3>1. Before(u) \in SUBSET Before(v) /\ u \in Before(v) /\ u \notin Before(u)
      <4>1. ASSUME NEW x \in running, x < u PROVE x < v
        BY <4>1, <2>3
      <4>2. ~(u < u)
        BY <2>3
      <4> QED BY <2>4, <4>1, <4>2
    <3> HIDE DEF Before
    <3>2. Cardinality(Before(u)) # Cardinality(Before(v))
      BY <2>1, <3>1, FS_Subset
    <3> QED BY <2>1, <2>2, <2>4, <3>2
  <2>5. CASE u = leading \/ v = leading
    <3> HIDE DEF Before
    <3> QED BY <2>1, <2>2, <2>3, <2>5
  <2> QED BY <2>4, <2>5
<1> QED BY <1>1, <1>2 DEF FormationInv, SlotsInUse

\* The places in the formation are distinct, for any number of vehicles, any bids and any
\* number of rounds (cbba.py, formation.py).
THEOREM FormationPlacesDistinct ==
    FormationAssumption => (FormationSpec => []PlacesAreDistinct)
<1> SUFFICES ASSUME FormationAssumption PROVE FormationSpec => []PlacesAreDistinct
  OBVIOUS
<1>1. FormationInit => FormationInv
  BY FormationInvInit
<1>2. FormationInv /\ [FormationNext]_formation => FormationInv'
  BY FormationStep
<1>3. FormationInv => PlacesAreDistinct
  <2> SUFFICES ASSUME FormationInv, NEW u \in running, NEW v \in running, u # v
               PROVE  FormationIndex(u) # FormationIndex(v)
    BY DEF PlacesAreDistinct
  <2>1. u < v \/ v < u
    BY DEF FormationInv, Vehicles
  <2> QED BY <2>1, PlacesApart
<1> QED BY <1>1, <1>2, <1>3, PTL DEF FormationSpec
-----------------------------------------------------------------------------
(***************************************************************************)
(* Replays: first what insertion and removal do to a sequence, then the    *)
(* table, the stored baseline and the sandboxes.                           *)
(***************************************************************************)
LEMMA InsertedAt ==
    ASSUME NEW S, NEW s \in Seq(S), NEW j \in 1 .. Len(s) + 1, NEW e \in S
    PROVE  /\ InsertAt(s, j, e) \in Seq(S) /\ Len(InsertAt(s, j, e)) = Len(s) + 1
           /\ \A i \in 1 .. j - 1 : InsertAt(s, j, e)[i] = s[i]
           /\ \A i \in 1 .. Len(s) + 1 : InsertAt(s, j, e)[i] = e \/ \E m \in 1 .. Len(s) : InsertAt(s, j, e)[i] = s[m]
<1> DEFINE a == SubSeq(s, 1, j - 1)
           b == SubSeq(s, j, Len(s))
<1>1. Len(s) \in Nat /\ \A i \in 1 .. Len(s) : s[i] \in S
  BY ElementOfSeq
<1>2. /\ a \in Seq(S) /\ Len(a) = j - 1 /\ \A i \in 1 .. j - 1 : a[i] = s[i]
  BY <1>1, SubSeqProperties
<1>3. b \in Seq(S) /\ Len(b) = Len(s) - j + 1 /\ \A i \in 1 .. Len(s) - j + 1 : b[i] = s[j + i - 1]
  BY <1>1, SubSeqProperties
<1>4. <<e>> \in Seq(S) /\ Len(<<e>>) = 1 /\ <<e>>[1] = e
  OBVIOUS
<1> HIDE DEF a, b
<1> DEFINE c == a \o <<e>>
<1>5. /\ c \in Seq(S) /\ Len(c) = j
      /\ \A i \in 1 .. j : c[i] = IF i <= j - 1 THEN a[i] ELSE <<e>>[i - (j - 1)]
  BY <1>2, <1>4, ConcatProperties
<1>6. (\A i \in 1 .. j - 1 : c[i] = s[i]) /\ c[j] = e
  <2> HIDE DEF c
  <2>1. j \in Int /\ j \in 1 .. j /\ ~(j <= j - 1) /\ j - (j - 1) = 1
    BY <1>1
  <2>2. c[j] = <<e>>[1]
    BY <1>5, <2>1
  <2>3. ASSUME NEW i \in 1 .. j - 1
        PROVE  c[i] = s[i]
    <3>1. i \in 1 .. j /\ i <= j - 1
      BY <2>1
    <3>2. c[i] = a[i]
      BY <1>5, <3>1
    <3> QED BY <1>2, <3>2
  <2> QED BY <1>4, <2>2, <2>3
<1> HIDE DEF c
<1>7. /\ c \o b \in Seq(S) /\ Len(c \o b) = Len(s) + 1
      /\ \A i \in 1 .. Len(s) + 1 : (c \o b)[i] = IF i <= j THEN c[i] ELSE b[i - j]
  BY <1>1, <1>3, <1>5, ConcatProperties
<1>8. InsertAt(s, j, e) = c \o b
  BY DEF InsertAt, a, b, c
<1>9. ASSUME NEW i \in 1 .. j - 1
      PROVE  (c \o b)[i] = s[i]
  <2>1. i \in 1 .. Len(s) + 1 /\ i <= j
    BY <1>1
  <2>2. (c \o b)[i] = c[i]
    BY <1>7, <2>1
  <2> QED BY <1>6, <2>2
<1>10. \A i \in 1 .. Len(s) + 1 : (c \o b)[i] = e \/ \E m \in 1 .. Len(s) : (c \o b)[i] = s[m]
  <2> SUFFICES ASSUME NEW i \in 1 .. Len(s) + 1
               PROVE  (c \o b)[i] = e \/ \E m \in 1 .. Len(s) : (c \o b)[i] = s[m]
    OBVIOUS
  <2>1. CASE i <= j
    BY <1>1, <1>6, <1>7, <2>1
  <2>2. CASE i > j
    <3>1. (c \o b)[i] = b[i - j] /\ i - j \in 1 .. Len(s) - j + 1
      BY <1>1, <1>7, <2>2
    <3>2. b[i - j] = s[i - 1] /\ i - 1 \in 1 .. Len(s)
      BY <1>1, <1>3, <3>1, <2>2
    <3> QED BY <3>1, <3>2
  <2>3. i <= j \/ i > j
    BY <1>1
  <2> QED BY <2>1, <2>2, <2>3
<1> QED BY <1>7, <1>8, <1>9, <1>10

LEMMA RemovedAt ==
    ASSUME NEW S, NEW s \in Seq(S), NEW j \in 1 .. Len(s)
    PROVE  /\ RemoveAt(s, j) \in Seq(S) /\ Len(RemoveAt(s, j)) = Len(s) - 1
           /\ \A i \in 1 .. j - 1 : RemoveAt(s, j)[i] = s[i]
           /\ \A i \in 1 .. Len(s) - 1 : \E m \in 1 .. Len(s) : RemoveAt(s, j)[i] = s[m]
<1> DEFINE a == SubSeq(s, 1, j - 1)
           b == SubSeq(s, j + 1, Len(s))
<1>1. Len(s) \in Nat /\ \A i \in 1 .. Len(s) : s[i] \in S
  BY ElementOfSeq
<1>2. a \in Seq(S) /\ Len(a) = j - 1 /\ \A i \in 1 .. j - 1 : a[i] = s[i]
  BY <1>1, SubSeqProperties
<1>3. b \in Seq(S) /\ Len(b) = Len(s) - j /\ \A i \in 1 .. Len(s) - j : b[i] = s[j + i]
  BY <1>1, SubSeqProperties
<1> HIDE DEF a, b
<1>4. /\ a \o b \in Seq(S) /\ Len(a \o b) = Len(s) - 1
      /\ \A i \in 1 .. Len(s) - 1 : (a \o b)[i] = IF i <= j - 1 THEN a[i] ELSE b[i - (j - 1)]
  BY <1>1, <1>2, <1>3, ConcatProperties
<1>5. RemoveAt(s, j) = a \o b
  BY DEF RemoveAt, a, b
<1>6. \A i \in 1 .. Len(s) - 1 : \E m \in 1 .. Len(s) : (a \o b)[i] = s[m]
  <2> SUFFICES ASSUME NEW i \in 1 .. Len(s) - 1
               PROVE  \E m \in 1 .. Len(s) : (a \o b)[i] = s[m]
    OBVIOUS
  <2>1. CASE i <= j - 1
    BY <1>1, <1>2, <1>4, <2>1
  <2>2. CASE i > j - 1
    <3>1. (a \o b)[i] = b[i - (j - 1)] /\ i - (j - 1) \in 1 .. Len(s) - j
      BY <1>1, <1>4, <2>2
    <3>2. b[i - (j - 1)] = s[i + 1] /\ i + 1 \in 1 .. Len(s)
      BY <1>1, <1>3, <3>1, <2>2
    <3> QED BY <3>1, <3>2
  <2>3. i <= j - 1 \/ i > j - 1
    BY <1>1
  <2> QED BY <2>1, <2>2, <2>3
<1>7. \A i \in 1 .. j - 1 : (a \o b)[i] = s[i]
  BY <1>1, <1>2, <1>4
<1> QED BY <1>4, <1>5, <1>6, <1>7

\* The rows as they are stored.
Row == [kind : Kind, risky : BOOLEAN]

\* As long as one configuration classified all rows they are what a sandbox holds, and as
\* long as the oldest were not touched the stored baseline is what a sandbox computes.
Replayable ==
    /\ classified \in Seq(Row)
    /\ pure => \A i \in 1 .. Len(classified) : classified[i].risky = (classified[i].kind \in config.risky)
    /\ untouched => /\ Len(classified) >= SandboxBaseline
                    /\ frozen = EscalationRate(SubSeq(classified, 1, SandboxBaseline))
    /\ result # NoResult => result.live = SandboxReport(ReadBack, config)

LEMMA OldestKept ==
    ASSUME NEW s \in Seq(Row), NEW t \in Seq(Row), NEW n \in Nat, n <= Len(s), n <= Len(t),
           \A i \in 1 .. n : t[i] = s[i]
    PROVE  SubSeq(t, 1, n) = SubSeq(s, 1, n)
<1>1. Len(s) \in Nat /\ Len(t) \in Nat
  OBVIOUS
<1>2. \A i \in 1 .. n : s[i] \in Row /\ t[i] \in Row
  BY <1>1, ElementOfSeq
<1>3. /\ SubSeq(s, 1, n) \in Seq(Row) /\ Len(SubSeq(s, 1, n)) = n
      /\ \A i \in 1 .. n : SubSeq(s, 1, n)[i] = s[i]
  BY <1>2, SubSeqProperties
<1>4. /\ SubSeq(t, 1, n) \in Seq(Row) /\ Len(SubSeq(t, 1, n)) = n
      /\ \A i \in 1 .. n : SubSeq(t, 1, n)[i] = t[i]
  BY <1>2, SubSeqProperties
<1> QED BY <1>3, <1>4, SeqEqual

LEMMA RowInserted ==
    ASSUME NEW s \in Seq(Row), NEW j \in 1 .. Len(s) + 1, NEW e \in Row
    PROVE  /\ InsertAt(s, j, e) \in Seq(Row) /\ Len(InsertAt(s, j, e)) = Len(s) + 1
           /\ \A i \in 1 .. j - 1 : InsertAt(s, j, e)[i] = s[i]
           /\ \A i \in 1 .. Len(s) + 1 : InsertAt(s, j, e)[i] = e \/ \E m \in 1 .. Len(s) : InsertAt(s, j, e)[i] = s[m]
BY InsertedAt

LEMMA StoredIsRow ==
    ASSUME NEW k \in Kind
    PROVE  Stored(k) \in Row /\ Stored(k).risky = (Stored(k).kind \in config.risky)
BY DEF Stored, Row

\* Rows that come, go or are replaced behind the oldest leave the invariant alone.
LEMMA RowsReplaced ==
    ASSUME ReplayAssumption, Replayable, NEW t, classified' = t, t \in Seq(Row),
           UNCHANGED <<config, frozen, pure>>, result' = NoResult,
           \A i \in 1 .. Len(t) :
               \/ t[i].risky = (t[i].kind \in config.risky)
               \/ \E m \in 1 .. Len(classified) : t[i] = classified[m],
           untouched' => /\ untouched /\ Len(t) >= SandboxBaseline
                         /\ \A i \in 1 .. SandboxBaseline : t[i] = classified[i]
    PROVE  Replayable'
<1>1. pure => \A i \in 1 .. Len(t) : t[i].risky = (t[i].kind \in config.risky)
  BY DEF Replayable
<1>2. untouched' => frozen = EscalationRate(SubSeq(t, 1, SandboxBaseline))
  <2> SUFFICES ASSUME untouched' PROVE frozen = EscalationRate(SubSeq(t, 1, SandboxBaseline))
    OBVIOUS
  <2>1. SubSeq(t, 1, SandboxBaseline) = SubSeq(classified, 1, SandboxBaseline)
    BY OldestKept DEF Replayable, ReplayAssumption
  <2> QED BY <2>1 DEF Replayable
<1> QED BY <1>1, <1>2 DEF Replayable

LEMMA ReplayableStep ==
    ASSUME ReplayAssumption, Replayable, [ReplayNext]_replayVars
    PROVE  Replayable'
<1>0. classified \in Seq(Row) /\ Len(classified) \in Nat /\ SandboxBaseline \in Nat
  BY DEF Replayable, ReplayAssumption
<1>1. ASSUME NEW k \in Kind, NEW spot \in 1 .. Len(classified) + 1, Classify(k, spot)
      PROVE  Replayable'
  <2> DEFINE t == InsertAt(classified, spot, Stored(k))
  <2>1. /\ classified' = t /\ UNCHANGED <<config, frozen, pure>> /\ result' = NoResult
        /\ untouched' = (untouched /\ spot > SandboxBaseline)
    BY <1>1 DEF Classify
  <2>2. /\ t \in Seq(Row) /\ Len(t) = Len(classified) + 1
        /\ \A i \in 1 .. spot - 1 : t[i] = classified[i]
        /\ \A i \in 1 .. Len(classified) + 1 : t[i] = Stored(k) \/ \E m \in 1 .. Len(classified) : t[i] = classified[m]
    BY <1>0, StoredIsRow, InsertedAt
  <2> HIDE DEF t
  <2>3. \A i \in 1 .. Len(t) : \/ t[i].risky = (t[i].kind \in config.risky)
                               \/ \E m \in 1 .. Len(classified) : t[i] = classified[m]
    BY <2>2, StoredIsRow
  <2>4. untouched' => /\ untouched /\ Len(t) >= SandboxBaseline
                      /\ \A i \in 1 .. SandboxBaseline : t[i] = classified[i]
    <3> SUFFICES ASSUME untouched'
                 PROVE  /\ untouched /\ Len(t) >= SandboxBaseline
                        /\ \A i \in 1 .. SandboxBaseline : t[i] = classified[i]
      OBVIOUS
    <3>1. untouched /\ spot > SandboxBaseline
      BY <2>1
    <3>2. \A i \in 1 .. SandboxBaseline : i \in 1 .. spot - 1
      BY <1>0, <3>1
    <3>3. Len(classified) >= SandboxBaseline
      BY <3>1 DEF Replayable
    <3>4. Len(t) >= SandboxBaseline
      BY <1>0, <2>2, <3>3
    <3> QED BY <2>2, <3>1, <3>2, <3>4
  <2> QED BY <2>1, <2>2, <2>3, <2>4, RowsReplaced
<1>2. ASSUME NEW j \in 1 .. Len(classified), NEW k \in Kind, NEW spot \in 1 .. Len(classified),
             ClassifyAgain(j, k, spot)
      PROVE  Replayable'
  <2> DEFINE s == RemoveAt(classified, j)
             t == InsertAt(s, spot, Stored(k))
  <2>1. /\ classified' = t /\ UNCHANGED <<config, frozen, pure>> /\ result' = NoResult
        /\ untouched' = (untouched /\ j > SandboxBaseline /\ spot > SandboxBaseline)
    BY <1>2 DEF ClassifyAgain
  <2>2. /\ s \in Seq(Row) /\ Len(s) = Len(classified) - 1
        /\ \A i \in 1 .. j - 1 : s[i] = classified[i]
        /\ \A i \in 1 .. Len(classified) - 1 : \E m \in 1 .. Len(classified) : s[i] = classified[m]
    BY <1>0, RemovedAt
  <2> HIDE DEF s
  <2>3. spot \in 1 .. Len(s) + 1
    BY <1>0, <2>2
  <2>4. /\ t \in Seq(Row) /\ Len(t) = Len(s) + 1
        /\ \A i \in 1 .. spot - 1 : t[i] = s[i]
        /\ \A i \in 1 .. Len(s) + 1 : t[i] = Stored(k) \/ \E m \in 1 .. Len(s) : t[i] = s[m]
    <3>1. Stored(k) \in Row
      BY StoredIsRow
    <3>2. s \in Seq(Row)
      BY <2>2
    <3> QED BY <2>3, <3>1, <3>2, RowInserted
  <2> HIDE DEF t
  <2>5. \A i \in 1 .. Len(t) : \/ t[i].risky = (t[i].kind \in config.risky)
                               \/ \E m \in 1 .. Len(classified) : t[i] = classified[m]
    <3> SUFFICES ASSUME NEW i \in 1 .. Len(t)
                 PROVE  \/ t[i].risky = (t[i].kind \in config.risky)
                        \/ \E m \in 1 .. Len(classified) : t[i] = classified[m]
      OBVIOUS
    <3>1. CASE t[i] = Stored(k)
      BY <3>1, StoredIsRow
    <3>2. CASE \E m \in 1 .. Len(s) : t[i] = s[m]
      BY <2>2, <3>2
    <3> QED BY <2>4, <3>1, <3>2
  <2>6. untouched' => /\ untouched /\ Len(t) >= SandboxBaseline
                      /\ \A i \in 1 .. SandboxBaseline : t[i] = classified[i]
    <3> SUFFICES ASSUME untouched'
                 PROVE  /\ untouched /\ Len(t) >= SandboxBaseline
                        /\ \A i \in 1 .. SandboxBaseline : t[i] = classified[i]
      OBVIOUS
    <3>1. untouched /\ j > SandboxBaseline /\ spot > SandboxBaseline
      BY <2>1
    <3>2. \A i \in 1 .. SandboxBaseline : i \in 1 .. j - 1 /\ i \in 1 .. spot - 1
      BY <1>0, <3>1
    <3>3. Len(classified) >= SandboxBaseline
      BY <3>1 DEF Replayable
    <3>4. Len(t) >= SandboxBaseline
      BY <1>0, <2>2, <2>4, <3>3
    <3>5. \A i \in 1 .. SandboxBaseline : t[i] = s[i] /\ s[i] = classified[i]
      BY <2>2, <2>4, <3>2
    <3> QED BY <3>1, <3>4, <3>5
  <2> QED BY <2>1, <2>4, <2>5, <2>6, RowsReplaced
<1>3. ASSUME NEW n \in 1 .. Len(classified), PurgeOldest(n)
      PROVE  Replayable'
  <2> DEFINE t == SubSeq(classified, n + 1, Len(classified))
  <2>1. /\ classified' = t /\ config' = config /\ result' = NoResult /\ untouched' = FALSE
        /\ pure' = (pure \/ t = <<>>)
    BY <1>3 DEF PurgeOldest
  <2>2. \A i \in n + 1 .. Len(classified) : classified[i] \in Row
    BY <1>0, ElementOfSeq
  <2>3. /\ t \in Seq(Row) /\ Len(t) = Len(classified) - n
        /\ \A i \in 1 .. Len(classified) - n : t[i] = classified[n + i]
    BY <1>0, <2>2, SubSeqProperties
  <2> HIDE DEF t
  <2>4. t = <<>> => 1 .. Len(t) = {}
    OBVIOUS
  <2>5. pure' => \A i \in 1 .. Len(t) : t[i].risky = (t[i].kind \in config.risky)
    <3>1. CASE t = <<>>
      BY <2>4, <3>1
    <3>2. CASE t # <<>> /\ pure'
      <4>1. \A i \in 1 .. Len(t) : n + i \in 1 .. Len(classified)
        BY <1>0, <2>3
      <4> QED BY <2>1, <2>3, <3>2, <4>1 DEF Replayable
    <3> QED BY <3>1, <3>2
  <2> QED BY <2>1, <2>3, <2>5 DEF Replayable
<1>4. ASSUME NEW cfg \in Configs, ChangeConfig(cfg)
      PROVE  Replayable'
  <2>1. classified' = classified /\ result' = NoResult /\ pure' = (classified = <<>>)
        /\ frozen' = frozen /\ untouched' = untouched
    BY <1>4 DEF ChangeConfig
  <2>2. classified = <<>> => 1 .. Len(classified) = {}
    OBVIOUS
  <2> QED BY <2>1, <2>2 DEF Replayable
<1>5. ASSUME NEW candidate \in Configs, ReplayWith(candidate)
      PROVE  Replayable'
  <2>1. UNCHANGED <<classified, config, frozen, pure, untouched>> /\ result'.live = SandboxReport(ReadBack, config)
    BY <1>5 DEF ReplayWith
  <2> QED BY <2>1 DEF Replayable, ReadBack
<1>6. CASE FreezeBaseline
  <2>1. UNCHANGED <<classified, config, pure>> /\ result' = NoResult
    BY <1>6 DEF FreezeBaseline
  <2>2. CASE BaselineOf(classified) = NoBaseline
    BY <1>6, <2>1, <2>2 DEF FreezeBaseline, Replayable
  <2>3. CASE BaselineOf(classified) # NoBaseline
    <3>1. ~(Len(classified) < SandboxBaseline) /\ BaselineOf(classified) = EscalationRate(SubSeq(classified, 1, SandboxBaseline))
      BY <2>3 DEF BaselineOf
    <3>2. frozen' = BaselineOf(classified)
      BY <1>6, <2>3 DEF FreezeBaseline
    <3> QED BY <1>0, <2>1, <3>1, <3>2 DEF Replayable
  <2> QED BY <2>2, <2>3
<1>7. CASE Evaluate \/ CooledDown
  BY <1>7 DEF Evaluate, CooledDown, Replayable
<1>8. CASE UNCHANGED replayVars
  BY <1>8 DEF replayVars, Replayable, ReadBack
<1> QED BY <1>1, <1>2, <1>3, <1>4, <1>5, <1>6, <1>7, <1>8 DEF ReplayNext

LEMMA SandboxIsTable ==
    ASSUME ReplayAssumption, Replayable, pure, Len(classified) <= ReplayLimit
    PROVE  Sandbox(ReadBack, config) = classified
<1>1. /\ classified \in Seq(Row) /\ Len(classified) \in Nat
      /\ DOMAIN classified = 1 .. Len(classified)
      /\ classified = [i \in 1 .. Len(classified) |-> classified[i]]
  BY LenProperties DEF Replayable
<1>2. ReadBack = SubSeq(classified, 1, Len(classified))
  BY <1>1 DEF ReadBack, ReplayAssumption
<1>3. ReadBack = classified
  BY <1>1, <1>2
<1>4. \A i \in 1 .. Len(classified) :
        classified[i] = [kind |-> classified[i].kind, risky |-> classified[i].kind \in config.risky]
  <2> TAKE i \in 1 .. Len(classified)
  <2>1. classified[i] \in Row /\ classified[i].risky = (classified[i].kind \in config.risky)
    BY <1>1 DEF Replayable
  <2> QED BY <2>1 DEF Row
<1> QED BY <1>1, <1>3, <1>4 DEF Sandbox

LEMMA ColumnIsLive ==
    ASSUME ReplayAssumption, Replayable
    PROVE  LiveColumnIsLive
<1> SUFFICES ASSUME result # NoResult, Len(classified) <= ReplayLimit, pure, untouched
             PROVE  /\ result.live.violations = LiveReport.violations
                    /\ result.live.alerts >= LiveReport.alerts
                    /\ result.live.alerts > LiveReport.alerts => cooling
  BY DEF LiveColumnIsLive
<1>1. Sandbox(ReadBack, config) = classified
  BY SandboxIsTable
<1>2. BaselineOf(classified) = frozen
  <2>1. Len(classified) \in Nat /\ SandboxBaseline \in Nat /\ Len(classified) >= SandboxBaseline
    BY DEF Replayable, ReplayAssumption
  <2> QED BY <2>1 DEF BaselineOf, Replayable
<1>3. result.live = ReportOf(classified, frozen, FALSE, config)
  BY <1>1, <1>2 DEF Replayable, SandboxReport
<1>4. PICK v \in {0, 1} : v = IF Drifted(classified, frozen, config) THEN 1 ELSE 0
  OBVIOUS
<1>5. PICK d \in {0, 1} : d = IF TooRisky(classified, config) THEN 1 ELSE 0
  OBVIOUS
<1>6. /\ result.live.violations = v /\ result.live.alerts = v + d
      /\ LiveReport.violations = v
  BY <1>3, <1>4, <1>5 DEF ReportOf, LiveReport
<1>7. LiveReport.alerts = v + IF TooRisky(classified, config) /\ ~cooling THEN 1 ELSE 0
  BY <1>4 DEF ReportOf, LiveReport
<1>8. CASE cooling
  <2>1. LiveReport.alerts = v
    BY <1>7, <1>8
  <2> QED BY <1>6, <1>8, <2>1
<1>9. CASE ~cooling
  <2>1. LiveReport.alerts = v + d
    BY <1>5, <1>7, <1>9
  <2> QED BY <1>6, <2>1
<1> QED BY <1>8, <1>9

\* EventReplayer.replay: whatever is ingested, resent, purged, reconfigured and evaluated
\* in between, the live column is what the live side would report, for any
\* configurations, kinds of decisions, windows and limits.
THEOREM ReplayShowsLive ==
    ASSUME ReplayAssumption
    PROVE  ReplaySpec => []LiveColumnIsLive
<1>1. ReplayInit => Replayable
  <2>1. <<>> \in Seq(Row) /\ 1 .. Len(<<>>) = {}
    OBVIOUS
  <2> QED BY <2>1 DEF ReplayInit, Replayable
<1>2. Replayable /\ [ReplayNext]_replayVars => Replayable'
  BY ReplayableStep
<1>3. Replayable => LiveColumnIsLive
  BY ColumnIsLive
<1> QED BY <1>1, <1>2, <1>3, PTL DEF ReplaySpec
=============================================================================
