-------------------------- MODULE PlayerPlacement --------------------------
(* The directory's placement record of one player and the two ways it is      *)
(* written: a shard's background writer (internal/world/placement.go), which  *)
(* coalesces what the zones offer, and the compare-and-set of a handoff.      *)
(* The record is the Redis hash of internal/directory/redis.go; each of its   *)
(* scripts is one step.  A session's epoch comes from the row's counter.      *)
EXTENDS Naturals, Sequences

CONSTANTS PlShards, PlZones,
          PlNowhere,      \* the absent shard field, the zone of no record
          PlMaxEpoch,     \* bound: ownership claims
          PlMaxSessions   \* bound: sessions, each with its own nonce

ASSUME PlAssumption ==
  /\ PlNowhere \notin PlShards \cup PlZones
  /\ PlMaxEpoch \in Nat /\ PlMaxSessions \in Nat

VARIABLES
  plRec,     \* the placement hash; epoch 0: no record, nonce 0: no nonce field
  plSess,    \* plSess[s]: the player's session on shard s; own is history, was its
             \* epoch minted for it?
  plPend,    \* plPend[s]: pending[player] of shard s's writer, <<>> or one op
  plWork,    \* plWork[s]: the ops the writer took and has not written
  plBar,     \* plBar[s]: the shutdown barrier of FlushPlacement
  plRun,     \* plRun[s]: is the shard's run context alive?
  plMint,    \* characters.owner_epoch
  plNonce,   \* the last nonce drawn
  plFault    \* history: did a write fail or get dropped?

plVars == <<plRec, plSess, plPend, plWork, plBar, plRun, plMint, plNonce,
            plFault>>

PlSession == [live : BOOLEAN, own : BOOLEAN, epoch : 0..PlMaxEpoch, nonce : 0..PlMaxSessions,
              zone : PlZones \cup {PlNowhere}]
PlOp == [clear : BOOLEAN, zone : PlZones \cup {PlNowhere}, epoch : 0..PlMaxEpoch,
         nonce : 0..PlMaxSessions, pre : BOOLEAN]
PlNoSession == [live |-> FALSE, own |-> FALSE, epoch |-> 0, nonce |-> 0, zone |-> PlNowhere]

PlTypeOK ==
  /\ plRec \in [shard : PlShards \cup {PlNowhere}, zone : PlZones \cup {PlNowhere},
                epoch : 0..PlMaxEpoch, nonce : 0..PlMaxSessions]
  /\ plSess \in [PlShards -> PlSession]
  /\ \A s \in PlShards : /\ plPend[s] \in Seq(PlOp) /\ Len(plPend[s]) <= 1
                         /\ plWork[s] \in Seq(PlOp) /\ Len(plWork[s]) <= 1
  /\ plBar \in [PlShards -> {"none", "queued", "taken", "closed", "failed"}]
  /\ plRun \in [PlShards -> BOOLEAN]
  /\ plMint \in 0..PlMaxEpoch /\ plNonce \in 0..PlMaxSessions
  /\ plFault \in BOOLEAN

PlInit ==
  /\ plRec = [shard |-> PlNowhere, zone |-> PlNowhere, epoch |-> 0, nonce |-> 0]
  /\ plSess = [s \in PlShards |-> PlNoSession]
  /\ plPend = [s \in PlShards |-> <<>>] /\ plWork = [s \in PlShards |-> <<>>]
  /\ plBar = [s \in PlShards |-> "none"]
  /\ plRun = [s \in PlShards |-> TRUE]
  /\ plMint = 0 /\ plNonce = 0
  /\ plFault = FALSE

------------------------------------------------------------------------------
(* The directory's scripts.                                                   *)

\* Mutant: the nonce of the source's session survives the handoff.
SetPlayerShardKeepsNonce(r, s, z, e) ==
  IF r.epoch >= e THEN r ELSE [r EXCEPT !.shard = s, !.zone = z, !.epoch = e]

\* casPlacement: strictly newer epochs only; the nonce goes with the old session.
SetPlayerShard(r, s, z, e) ==
  IF r.epoch >= e THEN r ELSE [shard |-> s, zone |-> z, epoch |-> e, nonce |-> 0]

\* Mutant: a register that demands a strictly greater epoch, as the handoff's does.
RegisterStrict(r, s, op) ==
  IF r.epoch >= op.epoch THEN r
  ELSE [shard |-> s, zone |-> op.zone, epoch |-> op.epoch, nonce |-> op.nonce]

\* registerPlacement: an equal epoch is accepted and the nonce stamped.
RegisterPlacement(r, s, op) ==
  IF r.epoch > op.epoch THEN r
  ELSE [shard |-> s, zone |-> op.zone, epoch |-> op.epoch, nonce |-> op.nonce]

\* clearPlayerShard: fenced on shard, epoch and (when there is one) nonce; the
\* zone is written unless empty, and epoch and nonce survive.
ClearFence(r, s, op) ==
  /\ r.shard = s /\ r.epoch = op.epoch /\ r.epoch > 0
  /\ r.nonce \in {0, op.nonce}

ClearPlayerShard(r, s, op) ==
  IF ~ClearFence(r, s, op) THEN r
  ELSE [r EXCEPT !.shard = PlNowhere,
                 !.zone = IF op.zone # PlNowhere THEN op.zone ELSE @]

------------------------------------------------------------------------------
(* What the zones of a shard offer.                                           *)

\* offer: last write wins; the doorbell is level-triggered, so "pending" is it.
\* pre is history: the op, or one it replaced, was there when FlushPlacement began.
Offer(s, x, clear) ==
  plPend' = [plPend EXCEPT ![s] =
    <<[clear |-> clear, zone |-> x.zone, epoch |-> x.epoch, nonce |-> x.nonce,
       pre |-> \E i \in DOMAIN @ : @[i].pre]>>]

\* A login becomes resident: it claimed an epoch, or (routed to a session that
\* was gone at delivery) it resumes the recorded one on the shard that had it.
PlLogin(s, z, e) ==
  LET x == [live |-> TRUE, own |-> e > plMint, epoch |-> e, nonce |-> plNonce + 1, zone |-> z] IN
  /\ plRun[s] /\ ~plSess[s].live /\ plNonce < PlMaxSessions
  /\ plSess' = [plSess EXCEPT ![s] = x]
  /\ plNonce' = plNonce + 1
  /\ Offer(s, x, FALSE)
  /\ UNCHANGED <<plRec, plWork, plBar, plRun, plFault>>

LoginClaimed(s, z) ==
  /\ plMint < PlMaxEpoch
  /\ plMint' = plMint + 1
  /\ PlLogin(s, z, plMint + 1)

LoginResumed(s, z) ==
  /\ plRec.epoch = plSess[s].epoch /\ plRec.epoch = plMint /\ plMint > 0
  /\ PlLogin(s, z, plRec.epoch)
  /\ UNCHANGED plMint

\* transferIn, or a walk inside an instance: the anchor is the zone recorded.
ChangeZone(s, z) ==
  /\ plRun[s] /\ plSess[s].live /\ z # plSess[s].zone
  /\ plSess' = [plSess EXCEPT ![s].zone = z]
  /\ Offer(s, plSess'[s], FALSE)
  /\ UNCHANGED <<plRec, plWork, plBar, plRun, plMint, plNonce, plFault>>

\* detach of a quitting session: the tombstone is offered, then the session goes.
QuitClean(s) ==
  /\ plRun[s] /\ plSess[s].live
  /\ plSess' = [plSess EXCEPT ![s].live = FALSE]
  /\ Offer(s, plSess[s], TRUE)
  /\ UNCHANGED <<plRec, plWork, plBar, plRun, plMint, plNonce, plFault>>

\* A reaped or superseded session leaves without a tombstone.
LeaveSilently(s) ==
  /\ plRun[s] /\ plSess[s].live /\ plSess[s].epoch < plMint
  /\ plSess' = [plSess EXCEPT ![s].live = FALSE]
  /\ UNCHANGED <<plRec, plPend, plWork, plBar, plRun, plMint, plNonce, plFault>>

\* A handoff from s to d commits: the epoch is minted, the compare-and-set moves
\* the record, the source copy is discarded and the destination binds.
CommitHandoff(s, d, z) ==
  /\ s # d /\ plRun[s] /\ plRun[d] /\ plSess[s].live /\ plSess[s].epoch = plMint
  /\ ~plSess[d].live /\ plMint < PlMaxEpoch /\ plNonce < PlMaxSessions
  /\ plMint' = plMint + 1
  /\ plRec' = SetPlayerShard(plRec, d, z, plMint + 1)
  /\ LET x == [live |-> TRUE, own |-> TRUE, epoch |-> plMint + 1,
                nonce |-> plNonce + 1, zone |-> z] IN
       /\ plSess' = [plSess EXCEPT ![s].live = FALSE, ![d] = x]
       /\ Offer(d, x, FALSE)
  /\ plNonce' = plNonce + 1
  /\ UNCHANGED <<plWork, plBar, plRun, plFault>>

\* handoffFailed: the thawed session adopts the minted epoch and re-registers.
ThawAtMinted(s) ==
  /\ plRun[s] /\ plSess[s].live /\ plSess[s].epoch = plMint /\ plMint < PlMaxEpoch
  /\ plMint' = plMint + 1
  /\ plSess' = [plSess EXCEPT ![s].epoch = plMint + 1]
  /\ Offer(s, plSess'[s], FALSE)
  /\ UNCHANGED <<plRec, plWork, plBar, plRun, plNonce, plFault>>

------------------------------------------------------------------------------
(* The writer of a shard and its shutdown.                                    *)

\* FlushPlacement: addBarrier.
FlushStart(s) ==
  LET Mark(q) == [i \in DOMAIN q |-> [q[i] EXCEPT !.pre = TRUE]] IN
  /\ plRun[s] /\ plBar[s] = "none"
  /\ plBar' = [plBar EXCEPT ![s] = "queued"]
  /\ plPend' = [plPend EXCEPT ![s] = Mark(@)]
  /\ plWork' = [plWork EXCEPT ![s] = Mark(@)]
  /\ UNCHANGED <<plRec, plSess, plRun, plMint, plNonce, plFault>>

\* Mutant: barriers are closed when they are taken.
WriterTakeClosing(s) ==
  /\ plRun[s] /\ plWork[s] = <<>>
  /\ plPend[s] # <<>> \/ plBar[s] = "queued"
  /\ plWork' = [plWork EXCEPT ![s] = plPend[s]]
  /\ plPend' = [plPend EXCEPT ![s] = <<>>]
  /\ plBar' = IF plBar[s] = "queued" THEN [plBar EXCEPT ![s] = "closed"] ELSE plBar
  /\ UNCHANGED <<plRec, plSess, plRun, plMint, plNonce, plFault>>

\* take: ops and barriers leave the queue under one lock.
WriterTake(s) ==
  /\ plRun[s] /\ plWork[s] = <<>> /\ plBar[s] # "taken"
  /\ plPend[s] # <<>> \/ plBar[s] = "queued"
  /\ plWork' = [plWork EXCEPT ![s] = plPend[s]]
  /\ plPend' = [plPend EXCEPT ![s] = <<>>]
  /\ plBar' = IF plBar[s] = "queued" THEN [plBar EXCEPT ![s] = "taken"] ELSE plBar
  /\ UNCHANGED <<plRec, plSess, plRun, plMint, plNonce, plFault>>

\* writePlacement: one attempt; an error is logged and not retried.
WritePlacement(s, ok) ==
  /\ plRun[s] /\ plWork[s] # <<>>
  /\ LET op == Head(plWork[s]) IN
       plRec' = IF ~ok THEN plRec
                ELSE IF op.clear THEN ClearPlayerShard(plRec, s, op)
                ELSE RegisterPlacement(plRec, s, op)
  /\ plWork' = [plWork EXCEPT ![s] = <<>>]
  /\ plFault' = (plFault \/ ~ok)
  /\ UNCHANGED <<plSess, plPend, plBar, plRun, plMint, plNonce>>

\* The barrier closes only after every op taken with it was attempted.
WriterClose(s) ==
  /\ plRun[s] /\ plBar[s] = "taken" /\ plWork[s] = <<>>
  /\ plBar' = [plBar EXCEPT ![s] = "closed"]
  /\ UNCHANGED <<plRec, plSess, plPend, plWork, plRun, plMint, plNonce, plFault>>

\* The run context ends: the writer returns with what it holds, a waiting
\* FlushPlacement reports the failure.
WriterStop(s) ==
  /\ plRun[s]
  /\ plRun' = [plRun EXCEPT ![s] = FALSE]
  /\ plSess' = [plSess EXCEPT ![s] = PlNoSession]
  /\ plFault' = (plFault \/ plSess[s].live \/ plPend[s] # <<>> \/ plWork[s] # <<>>)
  /\ plPend' = [plPend EXCEPT ![s] = <<>>] /\ plWork' = [plWork EXCEPT ![s] = <<>>]
  /\ plBar' = IF plBar[s] \in {"queued", "taken"}
              THEN [plBar EXCEPT ![s] = "failed"] ELSE plBar
  /\ UNCHANGED <<plRec, plMint, plNonce>>

PlNext ==
  \E s \in PlShards :
    \/ \E z \in PlZones : LoginClaimed(s, z) \/ LoginResumed(s, z) \/ ChangeZone(s, z)
    \/ \E d \in PlShards, z \in PlZones : CommitHandoff(s, d, z)
    \/ QuitClean(s) \/ LeaveSilently(s) \/ ThawAtMinted(s)
    \/ FlushStart(s) \/ WriterTake(s) \/ WriterClose(s) \/ WriterStop(s)
    \/ \E ok \in BOOLEAN : WritePlacement(s, ok)

PlSpec == PlInit /\ [][PlNext]_plVars

------------------------------------------------------------------------------
(* Properties.                                                                *)

PlQuiet == ~plFault /\ \A s \in PlShards : plPend[s] = <<>> /\ plWork[s] = <<>>

\* Once the writers are idle and no write failed, the record names the shard and
\* the zone of the newest session, however its writes were coalesced, reordered
\* across shards or overtaken by a handoff (placement.go: "last write wins, and
\* the last write is the truth").
PlacementTruth ==
  \A s \in PlShards :
    (PlQuiet /\ plSess[s].live /\ plSess[s].epoch = plMint)
      => plRec.shard = s /\ plRec.zone = plSess[s].zone

\* A clean quit whose epoch the record already carries is tombstoned, with the zone
\* left from: no stale nonce fences it out, neither the source's after a handoff nor
\* that of a registration coalesced away (casPlacement, clearPlayerShard).
TombstoneLands ==
  \A s \in PlShards :
    (/\ PlQuiet /\ ~plSess[s].live /\ plSess[s].own
     /\ plSess[s].epoch = plMint /\ plRec.epoch = plMint)
      => plRec.shard = PlNowhere /\ plRec.zone = plSess[s].zone

\* When FlushPlacement returns nil, every op offered before it was attempted or
\* coalesced into one that was (the barrier of runPlacementWriter).
BarrierCovers ==
  \A s \in PlShards : plBar[s] = "closed" =>
    \A q \in {plPend[s], plWork[s]} : \A i \in DOMAIN q : ~q[i].pre

\* What the tombstone is said to carry: after a clean quit the record has no
\* shard and names the zone the player left from ("Passing the quitting zone here
\* makes the tombstone carry the same information the superseded registration
\* would have", directory/redis.go).
QuitRecorded ==
  \A s \in PlShards :
    (PlQuiet /\ ~plSess[s].live /\ plSess[s].epoch = plMint /\ plMint > 0)
      => plRec.shard = PlNowhere /\ plRec.zone = plSess[s].zone

\* The safety invariant: the types, and the properties above that hold of every state.
\* The record follows the newest session, its clean quit and the flush barrier (placement.go, directory/redis.go).
PlacementSafe == PlTypeOK /\ PlacementTruth /\ TombstoneLands /\ BarrierCovers
=============================================================================
