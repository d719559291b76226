------------------------------ MODULE Instances ------------------------------
(* Private instances of one shard (internal/world/instance.go) and the way in   *)
(* and out of them (instance_entry.go): a request on a zone's goroutine, a mint *)
(* worker that reserves a slot, builds and publishes, the reply on the origin   *)
(* zone, the walk in, the eviction to the anchor, and the reaper.  All players  *)
(* start in one authored zone, the origin, and may walk to another.             *)
EXTENDS Naturals, FiniteSets, Sequences

CONSTANTS InPlayers,
          InShared,      \* the players of one account; the others have one each
          InSerials,     \* bound: instance ids, in mint order 1..n
          InPerShard, InPerAccount, InBurst,   \* instanceLimits
          InQueue,       \* instanceMintQueueDepth
          InWorkers,     \* instanceMintWorkers
          InIdleTicks,   \* instanceIdleTicks
          InMaxAsked     \* bound: requests whose reply is outstanding

\* SetInstanceLimits: what it accepts once 0 has been replaced by the default;
\* window is the mint window in seconds.
setInstanceLimits(perAccount, perShard, mintBurst, window) ==
  /\ perAccount \in 1..64 /\ perShard \in 1..1024 /\ perAccount <= perShard
  /\ mintBurst \in 1..60 /\ window \in 1..3600
  /\ mintBurst * 60 <= 120 * window

ASSUME InAssumption ==
  /\ InShared \subseteq InPlayers /\ InSerials \in Nat
  /\ setInstanceLimits(InPerAccount, InPerShard, InBurst, 60)
  /\ InQueue \in Nat /\ InWorkers \in Nat /\ InIdleTicks \in Nat \ {0}
  /\ InMaxAsked \in Nat

VARIABLES
  inRec,     \* inRec[k]: the instanceRecord and its zone; st "free": never minted
  inAt,      \* inAt[p]: the zone whose map holds p; inNowhere: in none
  inFly,     \* inFly[p]: the transfer p is in, its destination
  inPend,    \* inPend[p]: instanceMintPending
  inQ,       \* the mint queue
  inWork,    \* inWork[i]: the request worker i serves, [who, id]; id 0: not reserved
  inReply,   \* instanceReady messages in the origin zone's inbox; id 0: an error
  inRate,    \* inRate[p]: mintRate of p's account, kept at one player of it
  inDrain    \* Shard.draining

inVars == <<inRec, inAt, inFly, inPend, inQ, inWork, inReply, inRate, inDrain>>

InIds == 1..InSerials
inNowhere == 0                 \* no zone
inOrigin == InSerials + 1      \* two authored zones
inOther == InSerials + 2
InPlaces == {inOrigin, inOther} \cup InIds
SameAccount(p, q) == p = q \/ {p, q} \subseteq InShared
InPayer(p) == IF p \in InShared THEN CHOOSE q \in InShared : TRUE ELSE p
inIdle == [who |-> "nobody", id |-> 0]
InReq == [who : InPlayers \cup {"nobody"}, id : 0..InSerials]
inFree == [st |-> "free", who |-> "nobody", abandoned |-> FALSE, idle |-> 0, grace |-> TRUE]
Held == {k \in InIds : inRec[k].st \in {"reserved", "live"}}   \* Shard.instances
Ours(p) == {k \in Held : ~inRec[k].abandoned /\ SameAccount(inRec[k].who, p)}

InTypeOK ==
  /\ inRec \in [InIds -> [st : {"free", "reserved", "live", "released"}, who : InPlayers \cup {"nobody"},
                          abandoned : BOOLEAN, idle : 0..InIdleTicks, grace : BOOLEAN]]
  /\ inAt \in [InPlayers -> InPlaces \cup {inNowhere}] /\ inFly \in [InPlayers -> InPlaces \cup {inNowhere}]
  /\ inPend \in [InPlayers -> BOOLEAN]
  /\ inQ \in Seq(InPlayers) /\ Len(inQ) <= InQueue
  /\ inWork \in [1..InWorkers -> InReq] /\ inReply \in Seq(InReq)
  /\ inRate \in [InPlayers -> 0..InBurst] /\ inDrain \in BOOLEAN

InInit ==
  /\ inRec = [k \in InIds |-> inFree]
  /\ inAt = [p \in InPlayers |-> inOrigin] /\ inFly = [p \in InPlayers |-> inNowhere]
  /\ inPend = [p \in InPlayers |-> FALSE]
  /\ inQ = <<>> /\ inWork = [i \in 1..InWorkers |-> inIdle] /\ inReply = <<>>
  /\ inRate = [p \in InPlayers |-> 0] /\ inDrain = FALSE

Present(p, x) == inAt[p] = x /\ inFly[p] = inNowhere
\* transferOut: out of the map, and counted as an arrival at x.
InWalks(p, x) == inFly' = [inFly EXCEPT ![p] = x] /\ inAt' = [inAt EXCEPT ![p] = inNowhere]
quiescentInstance(k) == \A p \in InPlayers : inAt[p] # k /\ inFly[p] # k

------------------------------------------------------------------------------
(* Into an instance.                                                           *)

Asked == Len(inQ) + Len(inReply) + Cardinality({i \in 1..InWorkers : inWork[i] # inIdle})

\* requestInstanceEntry: the guards, then a send that never blocks.
RequestEntry(p) ==
  /\ Present(p, inOrigin) /\ ~inPend[p]
  /\ Len(inQ) < InQueue /\ Asked < InMaxAsked
  /\ inQ' = Append(inQ, p)
  /\ inPend' = [inPend EXCEPT ![p] = TRUE]
  /\ UNCHANGED <<inRec, inAt, inFly, inWork, inReply, inRate, inDrain>>

MintTake(i) ==
  /\ inQ # <<>> /\ inWork[i] = inIdle
  /\ inQ' = Tail(inQ)
  /\ inWork' = [inWork EXCEPT ![i].who = Head(inQ)]
  /\ UNCHANGED <<inRec, inAt, inFly, inPend, inReply, inRate, inDrain>>

\* Mutant: only published instances count against the caps.
mayReservePublished(p, rate) ==
  /\ ~inDrain
  /\ Cardinality({k \in Held : inRec[k].st = "live"}) < InPerShard
  /\ Cardinality({k \in Ours(p) : inRec[k].st = "live"}) < InPerAccount
  /\ rate < InBurst

\* reserveInstanceSlot: every cap read under the lock the record is written under.
mayReserve(p, rate) ==
  /\ ~inDrain
  /\ Cardinality(Held) < InPerShard
  /\ Cardinality(Ours(p)) < InPerAccount
  /\ rate < InBurst

Fresh == {k \in InIds : inRec[k].st = "free"}

\* MintInstance up to the reservation; the mint rate is charged and not refunded;
\* its window may have rolled since.
\* (When the bound on ids is reached, mintInstanceID fails.)
Reserve(i, rolled) ==
  LET p == inWork[i].who
      rate == IF rolled THEN 0 ELSE inRate[InPayer(p)] IN
  /\ p # "nobody" /\ inWork[i].id = 0
  /\ IF mayReserve(p, rate) /\ Fresh # {}
     THEN LET k == CHOOSE j \in Fresh : \A l \in Fresh : j <= l IN
          /\ inRec' = [inRec EXCEPT ![k] = [inFree EXCEPT !.st = "reserved", !.who = p]]
          /\ inRate' = [inRate EXCEPT ![InPayer(p)] = rate + 1]
          /\ inWork' = [inWork EXCEPT ![i].id = k]
          /\ UNCHANGED inReply
     ELSE /\ inWork' = [inWork EXCEPT ![i] = inIdle]
          /\ inReply' = Append(inReply, inWork[i])
          /\ UNCHANGED <<inRec, inRate>>
  /\ UNCHANGED <<inAt, inFly, inPend, inQ, inDrain>>

\* Mutant: a build that fails keeps its slot.
slotKept(r) == r

\* releaseInstanceSlot, the deferred give-back of MintInstance.
releaseInstanceSlot(r) == [r EXCEPT !.st = "released"]

\* The build, then under the lock again: a drain that began meanwhile refuses, else
\* the zone is adopted; serveMintRequest replies to the origin either way.
MintFinish(i, built) ==
  LET k == inWork[i].id IN
  /\ k # 0
  /\ inWork' = [inWork EXCEPT ![i] = inIdle]
  /\ IF built /\ ~inDrain
     THEN /\ inRec' = [inRec EXCEPT ![k].st = "live"]
          /\ inReply' = Append(inReply, inWork[i])
     ELSE /\ inRec' = [inRec EXCEPT ![k] = releaseInstanceSlot(@)]
          /\ inReply' = Append(inReply, [inWork[i] EXCEPT !.id = 0])
  /\ UNCHANGED <<inAt, inFly, inPend, inQ, inRate, inDrain>>

\* abandonInstance: the account's cap is given back at once.
abandonInstance(k) ==
  inRec' = IF k \in Held THEN [inRec EXCEPT ![k].abandoned = TRUE] ELSE inRec

\* instanceReady on the origin zone: abandon unless the requester is still there and
\* free to go (busy: fighting, detached or quitting by now) and the instance can be claimed; then anchor and transferOut.
InstanceReady(busy) ==
  LET m == Head(inReply)
      p == m.who
      here == Present(p, inOrigin)
      goes == here /\ m.id # 0 /\ ~busy /\ inRec[m.id].st = "live" /\ ~inDrain IN
  /\ inReply # <<>> /\ inReply' = Tail(inReply)
  /\ inPend' = IF here THEN [inPend EXCEPT ![p] = FALSE] ELSE inPend
  /\ IF goes THEN InWalks(p, m.id) ELSE UNCHANGED <<inFly, inAt>>
  /\ IF goes \/ m.id = 0 THEN UNCHANGED inRec ELSE abandonInstance(m.id)
  /\ UNCHANGED <<inQ, inWork, inRate, inDrain>>

\* transferIn at the instance; it clears instanceMintPending.
InArrive(p) ==
  /\ inFly[p] # inNowhere
  /\ inAt' = [inAt EXCEPT ![p] = inFly[p]]
  /\ inFly' = [inFly EXCEPT ![p] = inNowhere]
  /\ inPend' = [inPend EXCEPT ![p] = FALSE]
  /\ UNCHANGED <<inRec, inQ, inWork, inReply, inRate, inDrain>>

------------------------------------------------------------------------------
(* Out of it, and the rest of the player's life.                               *)

\* Mutant: the arrival leaves a pending request pending.
movedKeepsPending(p, x) == inAt' = [inAt EXCEPT ![p] = x] /\ UNCHANGED inPend

\* A transfer to an authored zone, out and in; transferIn clears instanceMintPending,
\* for the reply will miss the walker.
movedTo(p, x) ==
  inAt' = [inAt EXCEPT ![p] = x] /\ inPend' = [inPend EXCEPT ![p] = FALSE]

\* evictToAnchor and ejectAllToAnchors: back to the origin, recorded as the anchor.
\* (A drain's eject window admits the arrival that draining would refuse.)
evictToAnchor(p) ==
  /\ inAt[p] \in InIds
  /\ movedTo(p, inOrigin)
  /\ UNCHANGED <<inRec, inFly, inQ, inWork, inReply, inRate, inDrain>>

WalkAway(p) ==
  /\ ~inDrain /\ inAt[p] \in {inOrigin, inOther}
  /\ movedTo(p, IF inAt[p] = inOrigin THEN inOther ELSE inOrigin)
  /\ UNCHANGED <<inRec, inFly, inQ, inWork, inReply, inRate, inDrain>>

------------------------------------------------------------------------------
(* The reaper.                                                                 *)

\* instanceMintGrace passes.
GraceOver(k) ==
  /\ inRec[k].st = "live" /\ inRec[k].grace
  /\ inRec' = [inRec EXCEPT ![k].grace = FALSE]
  /\ UNCHANGED <<inAt, inFly, inPend, inQ, inWork, inReply, inRate, inDrain>>

\* reapIdleInstances: one sweep over the published instances.
sweptIdle(k) ==
  IF (inRec[k].grace /\ ~inRec[k].abandoned) \/ ~quiescentInstance(k) THEN 0
  ELSE IF inRec[k].idle < InIdleTicks THEN inRec[k].idle + 1 ELSE InIdleTicks

ReapSweep ==
  /\ inRec' = [k \in InIds |-> IF inRec[k].st = "live"
                               THEN [inRec[k] EXCEPT !.idle = sweptIdle(k)] ELSE inRec[k]]
  /\ inRec' # inRec
  /\ UNCHANGED <<inAt, inFly, inPend, inQ, inWork, inReply, inRate, inDrain>>

\* Mutant: what the sweep found is not checked again.
unhostDue(k) == [inRec EXCEPT ![k].st = "released"]

\* UnhostZone of a due instance: quiescence again, or resetInstanceIdle.
unhostInstance(k) ==
  IF quiescentInstance(k) THEN [inRec EXCEPT ![k].st = "released"]
  ELSE [inRec EXCEPT ![k].idle = 0]

ReapDue(k) ==
  /\ inRec[k].st = "live" /\ inRec[k].idle = InIdleTicks
  /\ inRec' = unhostInstance(k)
  /\ UNCHANGED <<inAt, inFly, inPend, inQ, inWork, inReply, inRate, inDrain>>

InBeginDrain ==
  /\ ~inDrain /\ inDrain' = TRUE
  /\ UNCHANGED <<inRec, inAt, inFly, inPend, inQ, inWork, inReply, inRate>>

MintWork(i) == MintTake(i) \/ \E b \in BOOLEAN : Reserve(i, b) \/ MintFinish(i, b)
OriginReply == \E busy \in BOOLEAN : InstanceReady(busy)

InNext ==
  \/ \E p \in InPlayers : \/ RequestEntry(p) \/ InArrive(p) \/ evictToAnchor(p)
                          \/ WalkAway(p)
  \/ \E i \in 1..InWorkers : MintWork(i)
  \/ OriginReply \/ ReapSweep \/ InBeginDrain
  \/ \E k \in InIds : GraceOver(k) \/ ReapDue(k)

\* Workers, actors and the reaper's ticker run; time passes.
InFair ==
  /\ \A i \in 1..InWorkers : WF_inVars(MintWork(i))
  /\ WF_inVars(OriginReply) /\ WF_inVars(ReapSweep)
  /\ \A p \in InPlayers : WF_inVars(InArrive(p))
  /\ \A k \in InIds : WF_inVars(GraceOver(k)) /\ WF_inVars(ReapDue(k))

InSpec == InInit /\ [][InNext]_inVars /\ InFair

------------------------------------------------------------------------------
(* Properties.                                                                 *)

\* However mints, failures and abandoned entries interleave, the shard never holds
\* more instances than its cap, nor an account more than its own
\* (reserveInstanceSlot: checked and recorded under one lock).
CapsHold ==
  /\ Cardinality(Held) <= InPerShard
  /\ \A p \in InPlayers : Cardinality(Ours(p)) <= InPerAccount

\* Nobody is in, or on the way into, an instance the reaper has torn down.
OccupantHasInstance ==
  \A p \in InPlayers : \A k \in InIds :
    (inAt[p] = k \/ inFly[p] = k) => inRec[k].st = "live"

\* A slot is never leaked: an instance nobody reaches, or one everybody has left,
\* is given back, whatever step of the mint or of the entry failed (releaseInstanceSlot
\* and abandonInstance of instance.go).
SlotReturned ==
  \A k \in InIds : k \in Held ~> (k \notin Held \/ ~quiescentInstance(k))

\* A player whose request was dropped on any path can ask again.
PendingClears == \A p \in InPlayers : inPend[p] ~> ~inPend[p]

\* The safety invariant: the types, and the properties above that hold of every state.
\* The instance caps hold while mints fail and entries are abandoned, and nobody is in an instance torn down (instance.go).
InstancesSafe == InTypeOK /\ CapsHold /\ OccupantHasInstance
=============================================================================
