------------------------------- MODULE Planner -------------------------------
(* The placement planner (internal/placement: PlanColocated) inside the         *)
(* coordinator's loop (cmd/telos-director: runPlacementCoordinator), which      *)
(* turns its moves into directives that shards take up (world/rebalance.go).    *)
(* Shards and zones are numbered in the order the code sorts them.              *)
EXTENDS Integers, FiniteSets

CONSTANTS PnShards,     \* 1..PnShards are live; any other owner is 0
          PnZones,      \* 1..PnZones is the pool
          PnMaxWeight,  \* bound: players in a zone
          PnRegions     \* region names; 0 is no region

ASSUME PnAssumption == PnShards \in Nat \ {0} /\ PnZones \in Nat /\ PnMaxWeight \in Nat

VARIABLES
  pnLive,    \* shards Observe lists
  pnOwner,   \* the planner's assignment; 0 is orphaned
  pnSeen,    \* ZoneOccupancies; 0 where none is published
  pnRegion,  \* zoneRegion
  pnMoves,   \* the plan, zone -> <<from, to>> of its latest move, and how many it has
  pnPhase,   \* "placing", "levelling", "done"
  pnSent     \* directives issued, zone -> shard or 0

pnVars == <<pnLive, pnOwner, pnSeen, pnRegion, pnMoves, pnPhase, pnSent>>

Zones == 1..PnZones
PnTypeOK ==
  /\ pnLive \subseteq 1..PnShards /\ pnOwner \in [Zones -> 0..PnShards]
  /\ pnSeen \in [Zones -> 0..PnMaxWeight] /\ pnRegion \in [Zones -> PnRegions \cup {0}]
  /\ pnMoves \in [Zones -> [from : 0..PnShards, to : 0..PnShards, n : Nat]]
  /\ pnPhase \in {"placing", "levelling", "done"} /\ pnSent \in [Zones -> 0..PnShards]

\* Observe, with an owner that is not live read as none.
Observe(assigned, live) == [z \in Zones |-> IF assigned[z] \in live THEN assigned[z] ELSE 0]

PnInit ==
  /\ pnLive = 1..PnShards
  /\ \E a \in [Zones -> 0..PnShards] : pnOwner = Observe(a, pnLive)
  /\ pnSeen \in [Zones -> 0..PnMaxWeight] /\ pnRegion \in [Zones -> PnRegions \cup {0}]
  /\ pnMoves = [z \in Zones |-> [from |-> 0, to |-> 0, n |-> 0]]
  /\ pnPhase = "placing" /\ pnSent = [z \in Zones |-> 0]

\* An unweighted or empty zone counts for one.
weight(z) == IF pnSeen[z] > 0 THEN pnSeen[z] ELSE 1
SumWeights(zs) ==
  LET upTo[n \in 0..PnZones] == IF n = 0 THEN 0 ELSE upTo[n - 1] + (IF n \in zs THEN weight(n) ELSE 0)
  IN upTo[PnZones]
Owned(owner, s) == {z \in Zones : owner[z] = s}
loads == [s \in pnLive |-> SumWeights(Owned(pnOwner, s))]
leastLoaded(ld) == CHOOSE s \in pnLive : \A t \in pnLive : ld[s] < ld[t] \/ (ld[s] = ld[t] /\ s <= t)
mostLoaded(ld) == CHOOSE s \in pnLive : \A t \in pnLive : ld[s] > ld[t] \/ (ld[s] = ld[t] /\ s <= t)

\* RebalanceThreshold, or 15% of the mean load.
threshold ==
  LET prop == (15 * SumWeights(Zones)) \div (100 * Cardinality(pnLive))
  IN IF prop > 1 THEN prop ELSE 1

\* How many zones of z's region the target lo has.
mates(z, lo) == IF pnRegion[z] = 0 THEN 0
                ELSE Cardinality({y \in Owned(pnOwner, lo) : pnRegion[y] = pnRegion[z]})

\* Mutant: a zone that weighs the whole gap may move.
movableAny(hi, gap) == {z \in Owned(pnOwner, hi) : weight(z) <= gap}

\* Only what leaves the pair closer than it was.
movable(hi, gap) == {z \in Owned(pnOwner, hi) : weight(z) < gap}

\* pickColocatingZone: most mates, then heaviest, then first in the pool.
pickColocatingZone(zs, lo) ==
  CHOOSE z \in zs : \A y \in zs :
    \/ mates(z, lo) > mates(y, lo)
    \/ mates(z, lo) = mates(y, lo) /\ weight(z) > weight(y)
    \/ mates(z, lo) = mates(y, lo) /\ weight(z) = weight(y) /\ z <= y

Moved(z, to) ==
  /\ pnOwner' = [pnOwner EXCEPT ![z] = to]
  /\ pnMoves' = [pnMoves EXCEPT ![z] = [from |-> pnOwner[z], to |-> to, n |-> @.n + 1]]

\* The first loop: orphans go to the least loaded shard, in pool order.
PlaceOrphan ==
  /\ pnPhase = "placing"
  /\ LET orphans == Owned(pnOwner, 0)
     IN IF orphans = {} THEN pnPhase' = "levelling" /\ UNCHANGED <<pnOwner, pnMoves>>
        ELSE /\ Moved(CHOOSE z \in orphans : \A y \in orphans : z <= y, leastLoaded(loads))
             /\ UNCHANGED pnPhase
  /\ UNCHANGED <<pnLive, pnSeen, pnRegion, pnSent>>

\* The second: from the most to the least loaded, while the gap is over the threshold.
Level ==
  /\ pnPhase = "levelling"
  /\ LET ld == loads
         hi == mostLoaded(ld)
         lo == leastLoaded(ld)
         zs == movable(hi, ld[hi] - ld[lo])
     IN IF ld[hi] - ld[lo] <= threshold \/ zs = {}
        THEN pnPhase' = "done" /\ UNCHANGED <<pnOwner, pnMoves>>
        ELSE Moved(pickColocatingZone(zs, lo), lo) /\ UNCHANGED pnPhase
  /\ UNCHANGED <<pnLive, pnSeen, pnRegion, pnSent>>

\* issueRebalance: a live zone's move, when the zone has no directive, is not cooling
\* down and its target does not drain.  Orphans are for the shards' own claims.
issueRebalance(z, refused) ==
  /\ pnPhase = "done" /\ pnMoves[z].n > 0 /\ pnMoves[z].from # 0 /\ ~refused /\ pnSent[z] = 0
  /\ pnSent' = [pnSent EXCEPT ![z] = pnMoves[z].to]
  /\ UNCHANGED <<pnLive, pnOwner, pnSeen, pnRegion, pnMoves, pnPhase>>

PnNext == PlaceOrphan \/ Level \/ \E z \in Zones, r \in BOOLEAN : issueRebalance(z, r)

PnSpec == PnInit /\ [][PnNext]_pnVars

------------------------------------------------------------------------------
(* Properties.                                                                 *)

spread == LET upTo[n \in 0..PnShards] == IF n = 0 THEN 0 ELSE upTo[n - 1] + loads[n] * loads[n]
          IN upTo[PnShards]

\* PlanColocated ends, on every assignment, weighting and grouping of the pool: each move
\* of the second loop brings the loads strictly closer, whatever co-location prefers, so no
\* zone swings back and forth; and it ends with each zone on a live shard and no single zone
\* left whose move would even out the two extremes.
PlanConverges ==
  []PnTypeOK /\
  [][ /\ pnPhase = "levelling" /\ pnPhase' = "levelling" => spread' < spread
      /\ pnPhase = "levelling" /\ pnPhase' = "done" =>
           LET ld == loads IN
           /\ \A z \in Zones : pnOwner[z] \in pnLive
           /\ \A s, t \in pnLive : ld[s] - ld[t] > threshold =>
                \A z \in Owned(pnOwner, mostLoaded(ld)) :
                  weight(z) >= ld[mostLoaded(ld)] - ld[leastLoaded(ld)] ]_pnVars

==============================================================================
