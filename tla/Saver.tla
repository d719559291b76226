------------------------------- MODULE Saver -------------------------------
(* The write path of one character's durability ladder: the zone dumps a live *)
(* session, the shard's saver drains its queue into the Redis checkpoint and  *)
(* the Postgres row (internal/world/saver.go, internal/checkpoint/redis.go,   *)
(* internal/store/character.go), and a login reads the fresher of the two.    *)
(* Content is the number of the last action it includes.  A verdict the saver *)
(* posts to the zone is handled in the step that posts it.  At most one store *)
(* call fails, or one shard dies, in a behaviour.                             *)
EXTENDS Naturals, Sequences, FiniteSets

CONSTANTS SvShards,
          SvMaxEpoch,    \* bound: ownership claims
          SvMaxAct,      \* bound: actions of the player
          SvMaxVer,      \* bound: the row version above which the cadence stops
          SvDepth        \* saveQueueDepth

ASSUME SvAssumption ==
  SvMaxEpoch \in Nat /\ SvMaxAct \in Nat /\ SvMaxVer \in Nat /\ SvDepth \in Nat \ {0}

VARIABLES
  svRow,    \* the characters row; by is history, the claim its content is from
  svCkpt,   \* the checkpoint hash
  svSess,   \* svSess[s]: the session a zone of shard s holds
  svQueue,  \* svQueue[s]: saver.reqs
  svFinal,  \* svFinal[s]: the logout flush being reconciled, <<>> or one snapshot
  svReread, \* svReread[s]: is a reconcile read (saveConflict) in flight?
  svLoad,   \* svLoad[s]: a login between its load and its claim, <<>> or one snapshot
  svMake,   \* svMake[s]: createCharacter's goroutine is running
  svStash,  \* svStash[s]: pendingFinalFlush, <<>> or one snapshot
  svAct,    \* actions taken
  svQuit,   \* history: content and claim of the last clean quit
  svFault   \* history: a store call failed, a request was dropped, a shard died

svVars == <<svRow, svCkpt, svSess, svQueue, svFinal, svReread, svLoad, svMake,
            svStash, svAct, svQuit, svFault>>

\* CharSnapshot: the version it rebases on, the claim it was dumped under.
SvSnap == [ver : Nat, epoch : 0..SvMaxEpoch, data : 0..SvMaxAct]
SvRequest == [reason : {"checkpoint", "flush", "final"}, snap : SvSnap]

SvTypeOK ==
  /\ svRow \in [exists : BOOLEAN, ver : Nat, epoch : 0..SvMaxEpoch,
                data : 0..SvMaxAct, by : 0..SvMaxEpoch]
  /\ svCkpt \in [exists : BOOLEAN, ver : Nat, epoch : 0..SvMaxEpoch, data : 0..SvMaxAct]
  /\ svSess \in [SvShards -> [live : BOOLEAN, pid : BOOLEAN, ver : Nat,
                              epoch : 0..SvMaxEpoch, data : 0..SvMaxAct]]
  /\ \A s \in SvShards : /\ svQueue[s] \in Seq(SvRequest) /\ Len(svQueue[s]) <= SvDepth
                         /\ \A q \in {svFinal[s], svLoad[s], svStash[s]} :
                              q \in Seq(SvSnap) /\ Len(q) <= 1
  /\ svReread \in [SvShards -> BOOLEAN] /\ svMake \in [SvShards -> BOOLEAN]
  /\ svAct \in 0..SvMaxAct /\ svFault \in BOOLEAN

SvNobody == [live |-> FALSE, pid |-> FALSE, ver |-> 0, epoch |-> 0, data |-> 0]

SvInit ==
  /\ \E old \in BOOLEAN :
       svRow = [exists |-> old, ver |-> 0, epoch |-> 0, data |-> 0, by |-> 0]
  /\ svCkpt = [exists |-> FALSE, ver |-> 0, epoch |-> 0, data |-> 0]
  /\ svSess = [s \in SvShards |-> SvNobody]
  /\ svQueue = [s \in SvShards |-> <<>>] /\ svFinal = [s \in SvShards |-> <<>>]
  /\ svReread = [s \in SvShards |-> FALSE]
  /\ svLoad = [s \in SvShards |-> <<>>]
  /\ svMake = [s \in SvShards |-> FALSE] /\ svStash = [s \in SvShards |-> <<>>]
  /\ svAct = 0 /\ svQuit = [data |-> 0, epoch |-> 0] /\ svFault = FALSE

------------------------------------------------------------------------------
(* The two stores.                                                            *)

\* Mutant: a save without the ownership conjunct.
SaveVerdictUnfenced(r, snap) ==
  IF ~r.exists THEN "no row" ELSE IF r.ver # snap.ver THEN "stale" ELSE "applied"

\* SaveCharacter: one locked statement, two conjuncts, the verdict decoded from it.
SaveVerdict(r, snap) ==
  IF ~r.exists THEN "no row"
  ELSE IF r.epoch > snap.epoch THEN "not owner"
  ELSE IF r.ver # snap.ver THEN "stale" ELSE "applied"

\* Mutant: a save that does not bump the version.
SaveCharacterKeepsVersion(r, snap) ==
  IF SaveVerdict(r, snap) # "applied" THEN r
  ELSE [r EXCEPT !.epoch = snap.epoch, !.data = snap.data, !.by = snap.epoch]

SaveCharacter(r, snap) ==
  IF SaveVerdict(r, snap) # "applied" THEN r
  ELSE [r EXCEPT !.ver = @ + 1, !.epoch = snap.epoch, !.data = snap.data, !.by = snap.epoch]

\* checkpointGuard: refused when a newer claim holds the slot.
CheckpointRefused(snap) == svCkpt.exists /\ svCkpt.epoch > snap.epoch

\* fresherThan: lexicographic on claim and version, the tie to the checkpoint.
FresherThan(c, b) == \/ c.epoch > b.epoch
                     \/ c.epoch = b.epoch /\ c.ver >= b.ver

\* loadCharacterSnapshot: the fresher of row and checkpoint.
LoadSnapshot ==
  LET best == IF svCkpt.exists /\ (~svRow.exists \/ FresherThan(svCkpt, svRow))
              THEN svCkpt ELSE svRow
  IN [ver |-> best.ver, epoch |-> best.epoch, data |-> best.data]

------------------------------------------------------------------------------
(* The zone's side.                                                           *)

\* dumpCharacter.
Dump(x) == [ver |-> x.ver, epoch |-> x.epoch, data |-> x.data]

\* enqueue: never blocks, drops when the queue is full.
Enqueue(s, reason, snap) ==
  IF Len(svQueue[s]) < SvDepth
  THEN /\ svQueue' = [svQueue EXCEPT ![s] = Append(@, [reason |-> reason, snap |-> snap])]
       /\ UNCHANGED svFault
  ELSE UNCHANGED svQueue /\ svFault' = TRUE

\* Connect: the durable read, off the zone goroutine.
SvLoadStart(s) ==
  /\ ~svSess[s].live /\ svLoad[s] = <<>> /\ svRow.exists /\ svRow.epoch < SvMaxEpoch
  /\ svLoad' = [svLoad EXCEPT ![s] = <<LoadSnapshot>>]
  /\ UNCHANGED <<svRow, svCkpt, svSess, svQueue, svFinal, svReread, svMake, svStash,
                 svAct, svQuit, svFault>>

\* Connect: the claim, then attach binds a session to what was loaded.
SvClaim(s) ==
  /\ svLoad[s] # <<>> /\ ~svSess[s].live /\ svRow.epoch < SvMaxEpoch
  /\ svRow' = [svRow EXCEPT !.epoch = @ + 1]
  /\ LET snap == Head(svLoad[s]) IN
       svSess' = [svSess EXCEPT ![s] = [live |-> TRUE, pid |-> TRUE, ver |-> snap.ver,
                                        epoch |-> svRow.epoch + 1, data |-> snap.data]]
  /\ svLoad' = [svLoad EXCEPT ![s] = <<>>]
  /\ UNCHANGED <<svCkpt, svQueue, svFinal, svReread, svMake, svStash, svAct, svQuit, svFault>>

\* A brand-new name: the session plays while its row is being created.
SvLoginNew(s) ==
  /\ ~svRow.exists /\ \A t \in SvShards : ~svMake[t] /\ ~svSess[t].live /\ svStash[t] = <<>>
  /\ svSess' = [svSess EXCEPT ![s] = [SvNobody EXCEPT !.live = TRUE]]
  /\ svMake' = [svMake EXCEPT ![s] = TRUE]
  /\ UNCHANGED <<svRow, svCkpt, svQueue, svFinal, svReread, svLoad, svStash, svAct,
                 svQuit, svFault>>

\* createCharacter returned: characterCreated adopts the id and flushes, or
\* replays the logout stashed in the create window.
SvCreated(s) ==
  /\ svMake[s]
  /\ svMake' = [svMake EXCEPT ![s] = FALSE]
  /\ svRow' = [svRow EXCEPT !.exists = TRUE]
  /\ svStash' = [svStash EXCEPT ![s] = <<>>]
  /\ IF svSess[s].live
     THEN /\ svSess' = [svSess EXCEPT ![s].pid = TRUE]
          /\ Enqueue(s, "flush", Dump(svSess[s]))
     ELSE /\ UNCHANGED svSess
          /\ IF svStash[s] # <<>> THEN Enqueue(s, "final", Head(svStash[s]))
             ELSE UNCHANGED <<svQueue, svFault>>
  /\ UNCHANGED <<svCkpt, svFinal, svReread, svLoad, svAct, svQuit>>

\* createFailedMsg: characterCreateFailed evicts the stash.
SvCreateFailed(s) ==
  /\ svMake[s] /\ ~svFault
  /\ svMake' = [svMake EXCEPT ![s] = FALSE]
  /\ svStash' = [svStash EXCEPT ![s] = <<>>]
  /\ svFault' = TRUE
  /\ UNCHANGED <<svRow, svCkpt, svSess, svQueue, svFinal, svReread, svLoad, svAct, svQuit>>

\* The player does something that must be saved.
SvPlay(s) ==
  /\ svSess[s].live /\ svAct < SvMaxAct
  /\ svAct' = svAct + 1
  /\ svSess' = [svSess EXCEPT ![s].data = svAct + 1]
  /\ UNCHANGED <<svRow, svCkpt, svQueue, svFinal, svReread, svLoad, svMake, svStash,
                 svQuit, svFault>>

\* saveAll (the cadence) and enterLinkDeath: a live, created session is dumped.
SvCadence(s, reason) ==
  /\ svSess[s].live /\ svSess[s].pid
  /\ Len(svQueue[s]) < SvDepth /\ svRow.ver < SvMaxVer
  /\ Enqueue(s, reason, Dump(svSess[s]))
  /\ UNCHANGED <<svRow, svCkpt, svSess, svFinal, svReread, svLoad, svMake, svStash,
                 svAct, svQuit>>

\* Mutant: a logout flush whose conflict goes back to the zone, as a cadence flush's does.
SvLeaveAsFlush(s) ==
  /\ svSess[s].live
  /\ svSess' = [svSess EXCEPT ![s] = SvNobody]
  /\ svQuit' = [data |-> svSess[s].data, epoch |-> svSess[s].epoch]
  /\ IF svSess[s].pid
     THEN Enqueue(s, "flush", Dump(svSess[s])) /\ UNCHANGED svStash
     ELSE /\ svStash' = [svStash EXCEPT ![s] = <<Dump(svSess[s])>>]
          /\ svFault' = (svFault \/ ~svMake[s])
          /\ UNCHANGED svQueue
  /\ UNCHANGED <<svRow, svCkpt, svFinal, svReread, svLoad, svMake, svAct>>

\* leave: the final flush, or its stash while the row is not there yet.
SvLeave(s) ==
  /\ svSess[s].live
  /\ svSess' = [svSess EXCEPT ![s] = SvNobody]
  /\ svQuit' = [data |-> svSess[s].data, epoch |-> svSess[s].epoch]
  /\ IF svSess[s].pid
     THEN Enqueue(s, "final", Dump(svSess[s])) /\ UNCHANGED svStash
     ELSE /\ svStash' = [svStash EXCEPT ![s] = <<Dump(svSess[s])>>]
          /\ svFault' = (svFault \/ ~svMake[s])
          /\ UNCHANGED svQueue
  /\ UNCHANGED <<svRow, svCkpt, svFinal, svReread, svLoad, svMake, svAct>>

\* saveConflict's goroutine re-read the row: saveReconcile adopts the version and
\* re-dumps what the session is now.
SvReconcile(s) ==
  /\ svReread[s]
  /\ svReread' = [svReread EXCEPT ![s] = FALSE]
  /\ IF svSess[s].live
     THEN LET v == IF svRow.ver > svSess[s].ver THEN svRow.ver ELSE svSess[s].ver IN
          /\ svSess' = [svSess EXCEPT ![s].ver = v]
          /\ Enqueue(s, "flush", [Dump(svSess[s]) EXCEPT !.ver = v])
     ELSE UNCHANGED <<svSess, svQueue, svFault>>
  /\ UNCHANGED <<svRow, svCkpt, svFinal, svLoad, svMake, svStash, svAct, svQuit>>

\* ownershipLost: a session that has not caught up with the winner is removed.
AfterNotOwner(s, winner) ==
  IF svSess[s].live /\ svSess[s].epoch < winner
  THEN [svSess EXCEPT ![s] = SvNobody] ELSE svSess

\* saveOk: the version only ever rises.
AfterOk(s, v) ==
  IF svSess[s].live /\ svSess[s].ver < v THEN [svSess EXCEPT ![s].ver = v] ELSE svSess

------------------------------------------------------------------------------
(* The drainer.                                                               *)

SvBusy(s) == svFinal[s] # <<>>

\* handle: checkpoint first (a refusal is terminal), then the row for a flush.
\* ckptOk and rowOk are the fates of the two calls.
SvHandle(s, ckptOk, rowOk) ==
  LET req == Head(svQueue[s])
      snap == req.snap
      verdict == SaveVerdict(svRow, snap)
  IN
  /\ ~SvBusy(s) /\ svQueue[s] # <<>>
  /\ (ckptOk /\ rowOk) \/ ~svFault
  /\ svQueue' = [svQueue EXCEPT ![s] = Tail(@)]
  /\ IF ckptOk /\ CheckpointRefused(snap)
     THEN /\ svSess' = AfterNotOwner(s, snap.epoch + 1)
          /\ UNCHANGED <<svRow, svCkpt, svFinal, svReread, svFault>>
     ELSE
       /\ svCkpt' = IF ckptOk THEN [exists |-> TRUE, ver |-> snap.ver, epoch |-> snap.epoch,
                                    data |-> snap.data] ELSE svCkpt
       /\ IF req.reason = "checkpoint" \/ ~rowOk
          THEN /\ svFault' = (svFault \/ ~ckptOk \/ ~rowOk)
               /\ UNCHANGED <<svRow, svSess, svFinal, svReread>>
          ELSE
            /\ svRow' = SaveCharacter(svRow, snap)
            /\ svSess' = CASE verdict = "applied" -> AfterOk(s, svRow.ver + 1)
                           [] verdict = "not owner" -> AfterNotOwner(s, svRow.epoch)
                           [] OTHER -> svSess
            /\ svFinal' = IF verdict = "stale" /\ req.reason = "final"
                          THEN [svFinal EXCEPT ![s] = <<[snap EXCEPT !.ver = svRow.ver]>>]
                          ELSE svFinal
            /\ svReread' = IF verdict = "stale" /\ req.reason = "flush" /\ svSess[s].live
                           THEN [svReread EXCEPT ![s] = TRUE] ELSE svReread
            /\ svFault' = (svFault \/ ~ckptOk)
  /\ UNCHANGED <<svLoad, svMake, svStash, svAct, svQuit>>

\* finalizeFlush, one pass: yield to a session that is back in the zone, else
\* retry on the version last observed; only the version is ever rebased.
FinalizeFlush(s, snap) ==
  LET verdict == SaveVerdict(svRow, snap) IN
  IF svSess[s].live
  THEN /\ svFinal' = [svFinal EXCEPT ![s] = <<>>]
       /\ svReread' = [svReread EXCEPT ![s] = TRUE]
       /\ UNCHANGED <<svRow, svSess, svFault>>
  ELSE /\ svRow' = SaveCharacter(svRow, snap)
       /\ svFinal' = [svFinal EXCEPT ![s] =
            IF verdict = "stale" THEN <<[snap EXCEPT !.ver = svRow.ver]>> ELSE <<>>]
       /\ UNCHANGED <<svSess, svReread, svFault>>

SvFinalize(s) ==
  /\ SvBusy(s)
  /\ FinalizeFlush(s, Head(svFinal[s]))
  /\ UNCHANGED <<svCkpt, svQueue, svLoad, svMake, svStash, svAct, svQuit>>

\* The budget or the retries are exhausted, or a call failed.
SvFinalizeGivesUp(s) ==
  /\ SvBusy(s) /\ ~svFault
  /\ svFinal' = [svFinal EXCEPT ![s] = <<>>] /\ svFault' = TRUE
  /\ UNCHANGED <<svRow, svCkpt, svSess, svQueue, svReread, svLoad, svMake, svStash,
                 svAct, svQuit>>

\* The shard dies; its queue dies with it.
SvCrash(s) ==
  /\ ~svFault /\ (svSess[s].live \/ svQueue[s] # <<>>)
  /\ svSess' = [svSess EXCEPT ![s] = SvNobody]
  /\ svQueue' = [svQueue EXCEPT ![s] = <<>>] /\ svFinal' = [svFinal EXCEPT ![s] = <<>>]
  /\ svReread' = [svReread EXCEPT ![s] = FALSE] /\ svLoad' = [svLoad EXCEPT ![s] = <<>>]
  /\ svMake' = [svMake EXCEPT ![s] = FALSE] /\ svStash' = [svStash EXCEPT ![s] = <<>>]
  /\ svFault' = TRUE
  /\ UNCHANGED <<svRow, svCkpt, svAct, svQuit>>

SvNext ==
  \E s \in SvShards :
    \/ SvLoadStart(s) \/ SvClaim(s) \/ SvLoginNew(s) \/ SvCreated(s) \/ SvCreateFailed(s)
    \/ SvPlay(s) \/ SvLeave(s) \/ SvReconcile(s)
    \/ SvCadence(s, "checkpoint") \/ SvCadence(s, "flush")
    \/ \E c \in BOOLEAN, r \in BOOLEAN : SvHandle(s, c, r)
    \/ SvFinalize(s) \/ SvFinalizeGivesUp(s) \/ SvCrash(s)

SvSpec == SvInit /\ [][SvNext]_svVars

------------------------------------------------------------------------------
(* Properties.                                                                *)

\* Content written under a claim is never overwritten by an older claim's, however
\* often a logout flush rebases its version (the fence of SaveCharacter, #432).
OwnerContentStands == [][svRow'.by >= svRow.by]_svVars

\* Once the savers are idle and nothing failed, the last clean quit is in the row
\* unless somebody claimed the character since: the final flush survives a lost
\* compare-and-set and the create window (leave, characterCreated, finalizeFlush).
LogoutIsDurable ==
  (/\ ~svFault /\ svRow.exists /\ svRow.epoch <= svQuit.epoch
   /\ \A s \in SvShards : /\ ~svSess[s].live /\ svQueue[s] = <<>> /\ ~SvBusy(s)
                          /\ svStash[s] = <<>> /\ svLoad[s] = <<>>)
    => svRow.data >= svQuit.data

\* The two facts the login read rests on: a checkpoint is never ahead of the row,
\* and at equal version under the claim that wrote the row it is at least as
\* recent (loadCharacterSnapshot's argument for preferring it on a tie, #322).
CheckpointTieFresh ==
  (svCkpt.exists /\ svRow.exists) =>
    /\ svCkpt.ver <= svRow.ver
    /\ (svCkpt.ver = svRow.ver /\ svCkpt.epoch = svRow.by) => svCkpt.data >= svRow.data

\* "logout is a flush point, never silently lost" (saver.go): what the row holds is
\* not rolled back by a login that read the row before the flush landed.
NoDurableRollback == [][svRow'.data >= svRow.data]_svVars

\* The safety invariant: the types, and the properties above that hold of every state.
\* A clean quit reaches the row, and a checkpoint is never ahead of it nor staler at a tie (saver.go, character.go).
SaverSafe == SvTypeOK /\ LogoutIsDurable /\ CheckpointTieFresh
=============================================================================
