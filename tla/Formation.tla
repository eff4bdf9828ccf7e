----------------------------- MODULE Formation -----------------------------
(***************************************************************************)
(* Formation slots: cbba_allocate (coordination/cbba.py) as SimRunner      *)
(* calls it every ten seconds, and the use run makes of the slots while    *)
(* vehicles stop (_cbba_slots, get_formation_index).                       *)
(*                                                                         *)
(* Distances and fuel are in the bids, which are inputs, whole numbers     *)
(* that may be equal.  NoBid stands for minus infinity.  A round of the    *)
(* auction is a step, and so is the slot of each vehicle left over, though *)
(* nothing else runs between two of them.                                  *)
(***************************************************************************)
EXTENDS Integers, FiniteSetsExt, Functions

CONSTANTS
    Size,           \* vehicles, 0 .. Size - 1, in the order of self.vehicles
    Bids,           \* the values of a bid
    MaxIterations   \* max_iterations

Vehicles == 0 .. Size - 1
NoBid    == -1
Unknown  == -1

FormationAssumption == Size \in Nat \ {0} /\ Bids \subseteq Nat /\ MaxIterations \in Nat

VARIABLES
    running,    \* the operational vehicles
    leading,    \* the leader _get_leader finds, or Unknown
    slots,      \* _cbba_slots: vehicle -> slot, of the vehicles that have one
    auction     \* the auction under way, or Closed

formation == <<running, leading, slots, auction>>

Closed == [round |-> -1]

FormationInit ==
    /\ running = Vehicles /\ leading = 0
    /\ slots = [v \in {} |-> 0] /\ auction = Closed
-----------------------------------------------------------------------------
\* Every table of the agents is the same after a consensus, so that one is kept:
\* winning_bids and winners of each slot, and each agent's bundle of one or none.
Tasks == 0 .. Cardinality(running) - 1

BeginAuction ==
    /\ auction = Closed /\ leading # Unknown /\ running # {}
    /\ \E offers \in [running -> [Tasks -> Bids]] :
         auction' = [round |-> 0, bid |-> offers,
                     highest |-> [t \in Tasks |-> NoBid], winner |-> [t \in Tasks |-> Unknown],
                     bundle |-> [v \in running |-> Unknown]]
    /\ slots' = [v \in {} |-> 0]      \* nobody looks at the old ones before they are replaced
    /\ UNCHANGED <<running, leading>>

\* Phase 1: who has no slot takes the one it bids most for among those where it bids
\* more than the best bid known; the first of several.
Worthwhile(v) == {t \in Tasks : auction.bid[v][t] > auction.highest[t]}
Favourite(v, tasks) ==
    Min({t \in tasks : \A u \in tasks : auction.bid[v][u] <= auction.bid[v][t]})
Bundled(v) == IF auction.bundle[v] # Unknown \/ Worthwhile(v) = {} THEN auction.bundle[v]
              ELSE Favourite(v, Worthwhile(v))

\* What the agent believes of a slot after it has bid.
Bidding(v, t)  == auction.bundle[v] = Unknown /\ Bundled(v) = t
Believed(v, t) == IF Bidding(v, t) THEN auction.bid[v][t] ELSE auction.highest[t]
Holder(v, t)   == IF Bidding(v, t) THEN v ELSE auction.winner[t]

\* Phase 2: the best bid any agent believes in, and the first agent that believes in it,
\* which need not be the one that made it.
Best(t)  == Max({Believed(v, t) : v \in running})
First(t) == IF Best(t) = NoBid THEN Unknown
            ELSE Min({v \in running : Believed(v, t) = Best(t)})

Dropped(v) == LET t == Bundled(v) IN t # Unknown /\ First(t) # Holder(v, t) /\ First(t) # v
Kept(v)    == IF Dropped(v) THEN Unknown ELSE Bundled(v)

Changed == \E v \in running : Bundled(v) # auction.bundle[v] \/ Dropped(v)

InAuction == auction.round \in 0 .. MaxIterations - 1

AuctionRound ==
    /\ InAuction
    /\ auction' = [round |-> IF Changed THEN auction.round + 1 ELSE MaxIterations,
                   bid |-> auction.bid,
                   highest |-> [t \in Tasks |-> Best(t)],
                   winner |-> [t \in Tasks |-> First(t)],
                   bundle |-> [v \in running |-> Kept(v)]]
    /\ UNCHANGED <<running, leading, slots>>

\* The vehicles left over take the nearest free slot, in their order.
LeftOver == {v \in running : auction.bundle[v] = Unknown}

\* Wrong version: a slot awarded to a vehicle left over stays free.
FreeOfWinners == {t \in Tasks : \A v \in running : auction.bundle[v] = t => auction.winner[t] # v}

FreeSlots == Tasks \ Range(auction.bundle)

AwardLeftOver ==
    /\ auction.round = MaxIterations /\ LeftOver # {} /\ FreeSlots # {}
    /\ auction' = [auction EXCEPT !.bundle[Min(LeftOver)] = Favourite(Min(LeftOver), FreeSlots)]
    /\ UNCHANGED <<running, leading, slots>>

CloseAuction ==
    /\ auction.round = MaxIterations /\ (LeftOver = {} \/ FreeSlots = {})
    /\ slots' = [v \in running \ LeftOver |-> auction.bundle[v]]
    /\ auction' = Closed
    /\ UNCHANGED <<running, leading>>

\* Between two auctions vehicles stop for good and leaders change or are lost; a convoy
\* without a leader keeps the slots it has.
BetweenAuctions ==
    /\ auction = Closed
    /\ \E gone \in SUBSET running : running' = running \ gone
    /\ leading' \in running' \union {Unknown}
    /\ UNCHANGED <<slots, auction>>

FormationNext ==
    BeginAuction \/ AuctionRound \/ AwardLeftOver \/ CloseAuction \/ BetweenAuctions

FormationSpec == FormationInit /\ [][FormationNext]_formation
-----------------------------------------------------------------------------
\* get_formation_index: without a slot, the place among the followers by id.
FormationIndex(v) ==
    IF v \in DOMAIN slots THEN slots[v]
    ELSE IF v = leading THEN 0
    ELSE 1 + Cardinality({u \in running \ {leading} : u < v})

\* Whatever the bids and however often the auction runs, the vehicles still driving
\* have places of their own in the formation, also those of an auction before some of
\* them stopped: two of them would steer for the same point.
PlacesAreDistinct ==
    auction = Closed /\ leading # Unknown =>
        \A u, v \in running : u # v => FormationIndex(u) # FormationIndex(v)
=============================================================================
