---------------------------- MODULE ScopeReplica -----------------------------
(* How one zone comes by its copy of world and region state                     *)
(* (internal/world/scope.go): a snapshot of the rows is seeded through the      *)
(* zone's inbox, and the director's versioned deltas follow over the transient  *)
(* bus.  One key per scope; row version n is the scope's n-th write.            *)
EXTENDS Naturals, Sequences

CONSTANTS ScMaxVer,     \* bound: writes of a scope's key
          ScMaxInbox,   \* bound: messages waiting in the zone's inbox
          ScLives       \* bound: times the zone is hosted

ASSUME ScAssumption == ScMaxVer \in Nat /\ ScMaxInbox \in Nat /\ ScLives \in Nat

VARIABLES
  scHist,    \* scHist[k]: the values the director has persisted, in order
  scBus,     \* deltas on the bus, <<scope, version>>; two directors' may overtake
  scPhase,   \* where the zone is on its way into the shard
  scRead,    \* snapshots read and not yet posted
  scInbox,   \* the zone's inbox
  scRep,     \* the zone's replica: value and version it applied
  scHeard,   \* history: highest version posted to this zone
  scLife

scVars == <<scHist, scBus, scPhase, scRead, scInbox, scRep, scHeard, scLife>>

ScScopes == {"world", "region"}
\* "null" is the JSON null a deletion writes: the version stays, the value goes.
ScValues == {"v", "null"}
ScVersion == 0..ScMaxVer
ScEmpty == [k \in ScScopes |-> [val |-> "null", ver |-> 0]]
ScMsg == [kind : {"seed", "delta"}, scope : ScScopes, ver : ScVersion]
ScPhases == {"absent", "built", "regionRead", "seeded", "exposed", "registered"}

ScTypeOK ==
  /\ scHist \in [ScScopes -> Seq(ScValues)] /\ scBus \subseteq ScScopes \X ScVersion
  /\ scPhase \in ScPhases /\ scRead \in 0..ScMaxVer + 1 /\ scInbox \in Seq(ScMsg)
  /\ scRep \in [ScScopes -> [val : ScValues, ver : ScVersion]]
  /\ scHeard \in [ScScopes -> ScVersion] /\ scLife \in 0..ScLives

ScInit ==
  /\ scHist = [k \in ScScopes |-> <<>>] /\ scBus = {} /\ scPhase = "absent" /\ scRead = 0
  /\ scInbox = <<>> /\ scRep = ScEmpty /\ scHeard = [k \in ScScopes |-> 0] /\ scLife = 0

\* A row's value at version n; an unset key reads as null.
ScAt(k, n) == IF n = 0 THEN "null" ELSE scHist[k][n]
ScPost(ms) ==
  /\ Len(scInbox) + Len(ms) <= ScMaxInbox /\ scInbox' = scInbox \o ms
  /\ scHeard' = [k \in ScScopes |->
       LET vs == {ms[i].ver : i \in {j \in 1..Len(ms) : ms[j].scope = k}} \cup {scHeard[k]}
       IN CHOOSE v \in vs : \A w \in vs : w <= v]

------------------------------------------------------------------------------
(* The director and the bus.                                                   *)

\* API.Set: the row, then the broadcast stamped with the version it was given.
ScWrite(k, v) ==
  /\ Len(scHist[k]) < ScMaxVer
  /\ scHist' = [scHist EXCEPT ![k] = Append(@, v)]
  /\ scBus' = scBus \cup {<<k, Len(scHist[k]) + 1>>}
  /\ UNCHANGED <<scPhase, scRead, scInbox, scRep, scHeard, scLife>>

\* Mutant: a zone hears deltas from the moment it is built.
hearsEarly(k) == scPhase # "absent"

\* postToScopeZones: world deltas reach the zones of zonesList, region deltas the ones
\* registered in zoneRegion.
hears(k) == IF k = "world" THEN scPhase \in {"exposed", "registered"} ELSE scPhase = "registered"

\* onScopeEvent; a delta for a zone that does not hear it yet is missed for good.
ScDeliver(k, n) ==
  /\ <<k, n>> \in scBus /\ scBus' = scBus \ {<<k, n>>}
  /\ IF hears(k) THEN ScPost(<<[kind |-> "delta", scope |-> k, ver |-> n]>>)
     ELSE UNCHANGED <<scInbox, scHeard>>
  /\ UNCHANGED <<scHist, scPhase, scRead, scRep, scLife>>

------------------------------------------------------------------------------
(* The zone enters the shard: at boot seedFromSnapshot, then start; at an        *)
(* adoption seedZone, adoptLocked, registerZone.                               *)

ScBuild ==
  /\ scPhase = "absent" /\ scLife < ScLives /\ scLife' = scLife + 1 /\ scPhase' = "built"
  /\ scRep' = ScEmpty /\ scInbox' = <<>> /\ scHeard' = [k \in ScScopes |-> 0]
  /\ UNCHANGED <<scHist, scBus, scRead>>

\* seedZone reads the region's rows first; scRead is one more than the version read.
ScReadRegion(err) ==
  /\ scPhase = "built" /\ scPhase' = "regionRead"
  /\ scRead' = IF err THEN 0 ELSE Len(scHist["region"]) + 1
  /\ UNCHANGED <<scHist, scBus, scInbox, scRep, scHeard, scLife>>

\* It reads and posts the world's, then posts the region's.
ScSeed(err) ==
  LET world == IF err THEN <<>>
               ELSE <<[kind |-> "seed", scope |-> "world", ver |-> Len(scHist["world"])]>>
      region == IF scRead = 0 THEN <<>>
                ELSE <<[kind |-> "seed", scope |-> "region", ver |-> scRead - 1]>>
  IN /\ scPhase = "regionRead" /\ scPhase' = "seeded" /\ ScPost(world \o region)
     /\ UNCHANGED <<scHist, scBus, scRead, scRep, scLife>>

\* At boot both scopes' rows are read in one pass and the subscriptions start after it.
SeedFromSnapshot ==
  /\ scPhase = "built" /\ scLife = 1 /\ scPhase' = "seeded"
  /\ ScPost(<<[kind |-> "seed", scope |-> "world", ver |-> Len(scHist["world"])],
              [kind |-> "seed", scope |-> "region", ver |-> Len(scHist["region"])]>>)
  /\ UNCHANGED <<scHist, scBus, scRead, scRep, scLife>>

ScExpose ==
  /\ scPhase = "seeded" /\ scPhase' = "exposed"
  /\ UNCHANGED <<scHist, scBus, scRead, scInbox, scRep, scHeard, scLife>>

RegisterZone ==
  /\ scPhase = "exposed" /\ scPhase' = "registered"
  /\ UNCHANGED <<scHist, scBus, scRead, scInbox, scRep, scHeard, scLife>>

\* UnhostZone: unregistered and gone, inbox and replica with it.
UnregisterZone ==
  /\ scPhase = "registered" /\ scPhase' = "absent"
  /\ UNCHANGED <<scHist, scBus, scRead, scInbox, scRep, scHeard, scLife>>

------------------------------------------------------------------------------
(* The zone's goroutine.                                                       *)

\* applyScopeSeed replaces the whole replica of the scope; versions of 0 are dropped.
applyScopeSeed(k, n) == [val |-> ScAt(k, n), ver |-> n]

\* Mutant: a delta is applied whatever its version.
applyUnfenced(k, n) == [val |-> ScAt(k, n), ver |-> n]

\* applyScopeDelta drops a version the key has seen.
applyScopeDelta(k, n) ==
  IF n <= scRep[k].ver THEN scRep[k] ELSE [val |-> ScAt(k, n), ver |-> n]

ScApply ==
  LET m == Head(scInbox)
  IN /\ scInbox # <<>> /\ scPhase \in ScPhases \ {"absent"} /\ scInbox' = Tail(scInbox)
     /\ scRep' = [scRep EXCEPT ![m.scope] = IF m.kind = "seed" THEN applyScopeSeed(m.scope, m.ver)
                                            ELSE applyScopeDelta(m.scope, m.ver)]
     /\ UNCHANGED <<scHist, scBus, scPhase, scRead, scHeard, scLife>>

ScNext ==
  \/ ScBuild \/ SeedFromSnapshot \/ ScExpose \/ RegisterZone \/ UnregisterZone \/ ScApply
  \/ \E e \in BOOLEAN : ScReadRegion(e) \/ ScSeed(e)
  \/ \E k \in ScScopes : \/ \E v \in ScValues : ScWrite(k, v)
                         \/ \E n \in 1..ScMaxVer : ScDeliver(k, n)

ScSpec == ScInit /\ [][ScNext]_scVars

------------------------------------------------------------------------------
(* Properties.                                                                 *)

\* seedFromSnapshot, seedZone ("ahead of any subscription delivery, it is applied first
\* and later deltas build on it") and the version fence of applyScopeDelta:
\* once the zone has worked off its inbox its copy of each scope is the newest state that
\* was ever handed to it, snapshot or delta, deletions included; a seed that lands behind a
\* newer delta, or deltas of two directors out of order, would roll it back.
ReplicaNewest ==
  scPhase # "absent" /\ scInbox = <<>> =>
    \A k \in ScScopes : scRep[k] = [val |-> ScAt(k, scHeard[k]), ver |-> scHeard[k]]

\* The safety invariant: the types, and the properties above that hold of every state.
\* A zone's copy of a scope is the newest state that reached it (scope.go).
ReplicaSafe == ScTypeOK /\ ReplicaNewest
=============================================================================
