--------------------------- MODULE PlayerHandoff ---------------------------
(* Who owns one character, across the shards of a fleet: login and reconnect  *)
(* (internal/world/server.go), the session a zone keeps (zone.go), the        *)
(* cross-shard handoff (world.go beginHandoff, handoff_server.go), the saver  *)
(* that writes the row (saver.go) and the writer of the placement record      *)
(* (placement.go).  The row exists already; each shard hosts one zone.        *)
(*                                                                            *)
(* A zone handles its inbox one message at a time, so a handler is one step.  *)
(* A message a goroutine posts as its last act is handled in the same step:   *)
(* what can happen before it is handled can also happen before it is posted.  *)
(* A registration of the placement is written at once or lost.                *)
EXTENDS CharacterRow, FiniteSets

CONSTANTS Shards,
          Events,        \* the environment events an instance includes
          SlowHandoffs,  \* may a handoff outlive freezeTTL (a queue for handoffSem)?
          MaxEpoch,      \* bound: ownership claims
          MaxGen,        \* bound: attaches of one session
          MaxHandoffs,   \* bound: beginHandoff goroutines at once
          MaxLogins      \* bound: login streams being set up at once

ASSUME PlayerHandoffAssumption ==
  /\ Events \subseteq {"crash", "save", "lost placement", "lost reply"}
  /\ SlowHandoffs \in BOOLEAN
  /\ MaxEpoch \in Nat /\ MaxGen \in Nat /\ MaxHandoffs \in Nat /\ MaxLogins \in Nat

VARIABLES
  row,        \* characters.owner_epoch
  place,      \* the epoch of the directory's placement record, 0: no record
  sess,       \* sess[s]: the character's session in the zone of shard s
  timers,     \* timers[s]: freeze timers armed there by earlier handoffs, by attachGen
  saver,      \* saver[s]: the save being written, or the verdict on its way back
  hand,       \* the beginHandoff goroutines
  prepares,   \* Prepare requests not yet handled
  logins,     \* Connect calls between reading the directory and their attach
  played      \* history: the highest epoch under which a session went live

zoneVars == <<sess, timers, saver>>
netVars  == <<hand, prepares, logins>>
vars     == <<row, place, zoneVars, netVars, played>>

(* linked: the session's Play stream is open.  streamGone: the stream closed  *)
(* while the session was frozen.  token: the epoch a pending bind must show;  *)
(* told: a Redirect frame with that token has reached the gate.               *)
Session == [mode : {"absent", "live", "frozen", "pending"},
            epoch : Nat, token : Nat, gen : Nat,
            linked : BOOLEAN, detached : BOOLEAN,
            streamGone : BOOLEAN, handedOff : BOOLEAN, told : BOOLEAN]

NoSession == [mode |-> "absent", epoch |-> 0, token |-> 0, gen |-> 0,
              linked |-> FALSE, detached |-> FALSE,
              streamGone |-> FALSE, handedOff |-> FALSE, told |-> FALSE]

\* epoch: the one of the queued snapshot, or the one a verdict names as owner.
Save == [pc : {"idle", "queued", "refused"}, epoch : Nat]

NoSave == [pc |-> "idle", epoch |-> 0]

(* armed: the freeze timer this goroutine's handoff started has not fired.    *)
Handoff == [pc : {"start", "sent", "prepared", "aborting",
                  "failing", "committed", "marked"},
            src : Shards, dst : Shards, base : Nat, epoch : Nat,
            gen : Nat, armed : BOOLEAN]

Target == [dst : Shards, epoch : Nat]
Login  == [shard : Shards, epoch : Nat, pc : {"claiming", "attaching"}]

TypeOK ==
  /\ row \in Nat /\ place \in Nat
  /\ sess \in [Shards -> Session]
  /\ timers \in [Shards -> SUBSET Nat]
  /\ saver \in [Shards -> Save]
  /\ hand \in SUBSET Handoff
  /\ prepares \in SUBSET Target
  /\ logins \in SUBSET Login
  /\ played \in Nat

Init ==
  /\ row = 0 /\ place = 0
  /\ sess = [s \in Shards |-> NoSession]
  /\ timers = [s \in Shards |-> {}]
  /\ saver = [s \in Shards |-> NoSave]
  /\ hand = {}
  /\ prepares = {} /\ logins = {} /\ played = 0

Present(s) == sess[s].mode # "absent"
Live(s) == sess[s].mode = "live"

-----------------------------------------------------------------------------
(* What zone handlers share.                                                  *)

SetSession(s, x) == sess' = [sess EXCEPT ![s] = x]

\* enqueueSave: a full queue drops the request.  The queue holds one request, or
\* none in an instance without saves.
EnqueueSave(s, epoch) ==
  saver' = [saver EXCEPT ![s] = IF @.pc = "idle" /\ "save" \in Events
                                THEN [pc |-> "queued", epoch |-> epoch] ELSE @]

\* enterLinkDeath when `dead`, else x as it is.
MaybeLinkDeath(s, x, dead) ==
  IF dead /\ ~x.detached
  THEN SetSession(s, [x EXCEPT !.detached = TRUE]) /\ EnqueueSave(s, x.epoch)
  ELSE SetSession(s, x) /\ UNCHANGED saver

\* registerPlacement and its writer: the record takes the epoch, or the write is
\* lost (a directory error, a crash).
Register(epoch) == place' \in {place, RegisterPlacement(place, epoch)}

\* leave: the final flush, then the session is gone.
Leave(s) == EnqueueSave(s, sess[s].epoch) /\ SetSession(s, NoSession)

\* ClaimCharacter returned an error, but its UPDATE committed.
LostClaim(floor) ==
  {e \in {ClaimCharacter(row, floor)} : "lost reply" \in Events /\ e <= MaxEpoch}

-----------------------------------------------------------------------------
(* Login and reconnect.  The gate may dial any shard: zones move, and routing *)
(* falls back to the home zone when a directory read fails.                   *)

\* Connect reads the placement epoch (0 when the read fails) and the residency
\* index; a session still held here skips the ownership claim.
LoginStart(s) ==
  /\ Cardinality(logins) < MaxLogins
  /\ \E resume \in {place, 0} :
       logins' = logins \cup {[shard |-> s, epoch |-> resume,
                               pc |-> IF Present(s) THEN "attaching" ELSE "claiming"]}
  /\ UNCHANGED <<row, place, zoneVars, hand, prepares, played>>

LoginClaim(l) ==
  /\ l.pc = "claiming"
  /\ row < MaxEpoch
  /\ row' = ClaimCharacter(row, l.epoch)
  /\ logins' = (logins \ {l}) \cup {[l EXCEPT !.pc = "attaching", !.epoch = row']}
  /\ UNCHANGED <<place, zoneVars, hand, prepares, played>>

\* The claim errs (its UPDATE may have committed) or the stream ends.
LoginRefused(l) ==
  /\ row' \in {row} \cup (IF l.pc = "claiming" THEN LostClaim(l.epoch) ELSE {})
  /\ logins' = logins \ {l}
  /\ UNCHANGED <<place, zoneVars, hand, prepares, played>>

\* A fresh login: no session here, or only the orphan of a committed handoff.
AttachFresh(l) ==
  LET s == l.shard
      e == Larger(1, l.epoch)
  IN /\ l.pc = "attaching"
     /\ ~Present(s) \/ (sess[s].mode = "frozen" /\ sess[s].handedOff)
     /\ SetSession(s, [NoSession EXCEPT !.mode = "live", !.epoch = e, !.gen = 1,
                                        !.linked = TRUE])
     /\ Register(e)
     /\ played' = Larger(played, e)
     /\ logins' = logins \ {l}
     /\ UNCHANGED <<row, timers, saver, hand, prepares>>

\* A re-attach binds the new stream to the session, and only raises its epoch.
AttachResume(l) ==
  LET s == l.shard
      e == Larger(sess[s].epoch, l.epoch)
  IN /\ l.pc = "attaching"
     /\ Live(s) /\ sess[s].gen < MaxGen
     /\ SetSession(s, [sess[s] EXCEPT !.linked = TRUE, !.detached = FALSE,
                                      !.epoch = e, !.gen = @ + 1])
     /\ played' = Larger(played, e)
     /\ logins' = logins \ {l}
     /\ UNCHANGED <<row, place, timers, saver, hand, prepares>>

\* Pending without its token, or frozen mid-handoff: refused.
AttachRejected(l) ==
  LET x == sess[l.shard]
  IN /\ l.pc = "attaching"
     /\ x.mode = "pending" \/ (x.mode = "frozen" /\ ~x.handedOff)
     /\ logins' = logins \ {l}
     /\ UNCHANGED <<row, place, zoneVars, hand, prepares, played>>

\* The gate re-dials with the handoff token: the pending session goes live.  A
\* token that matches no pending session is refused and changes nothing.
Bind(s) ==
  /\ sess[s].mode = "pending" /\ sess[s].told
  /\ SetSession(s, [sess[s] EXCEPT !.mode = "live", !.linked = TRUE, !.told = FALSE,
                                   !.token = 0, !.gen = @ + 1])
  /\ Register(sess[s].epoch)
  /\ played' = Larger(played, sess[s].epoch)
  /\ UNCHANGED <<row, timers, saver, hand, prepares, logins>>

-----------------------------------------------------------------------------
(* The end of a stream, and of a session.                                     *)

\* detach: a frozen session only records the loss, a live one is link-dead.
Detach(s) ==
  LET x == [sess[s] EXCEPT !.linked = FALSE]
  IN /\ sess[s].linked
     /\ IF x.mode = "frozen"
        THEN SetSession(s, [x EXCEPT !.streamGone = TRUE]) /\ UNCHANGED saver
        ELSE MaybeLinkDeath(s, x, TRUE)
     /\ UNCHANGED <<row, place, timers, netVars, played>>

\* A clean leave: detach after `quit` (whose tombstone keeps the placement's
\* epoch), or the client's own Detach frame, which finds the session frozen or not.
CleanLeave(s) ==
  /\ sess[s].linked
  /\ Leave(s)
  /\ UNCHANGED <<row, place, timers, netVars, played>>

\* The reap timer of a link-dead session: linkDeadGrace is over.  Only the timer
\* armed under the current attachGen reaps, and it is armed as long as `detached`.
Reap(s) ==
  /\ sess[s].detached
  /\ Leave(s)
  /\ UNCHANGED <<row, place, timers, netVars, played>>

\* The process dies: sessions, timers, queues and goroutines go with it.
Crash(s) ==
  /\ "crash" \in Events
  /\ SetSession(s, NoSession)
  /\ timers' = [timers EXCEPT ![s] = {}]
  /\ saver' = [saver EXCEPT ![s] = NoSave]
  /\ hand' = {h \in hand : h.src # s}
  /\ prepares' = {p \in prepares : p.dst # s}
  /\ logins' = {l \in logins : l.shard # s}
  /\ UNCHANGED <<row, place, played>>

-----------------------------------------------------------------------------
(* The cross-shard move at its source: beginHandoff.                          *)

\* initiateHandoff freezes the player, arms the freeze timer, starts the move.
StartHandoff(s, t) ==
  /\ s # t
  /\ Live(s) /\ ~sess[s].detached
  /\ Cardinality(hand) < MaxHandoffs
  /\ SetSession(s, [sess[s] EXCEPT !.mode = "frozen", !.handedOff = FALSE])
  /\ hand' = hand \cup {[pc |-> "start", src |-> s, dst |-> t, base |-> sess[s].epoch,
                         epoch |-> 0, gen |-> sess[s].gen, armed |-> TRUE]}
  /\ UNCHANGED <<row, place, timers, saver, prepares, logins, played>>

Advance(h, pc) == hand' = (hand \ {h}) \cup {[h EXCEPT !.pc = pc]}

\* The destination resolves; ClaimCharacter mints its epoch; Prepare is sent.
Mint(h) ==
  LET e == ClaimCharacter(row, h.base)
  IN /\ h.pc = "start" /\ e <= MaxEpoch
     /\ row' = e
     /\ hand' = (hand \ {h}) \cup {[h EXCEPT !.pc = "sent", !.epoch = e]}
     /\ prepares' = prepares \cup {[dst |-> h.dst, epoch |-> e]}
     /\ UNCHANGED <<place, zoneVars, logins, played>>

\* No destination, or the claim errs: its UPDATE may have committed all the same.
MintFails(h) ==
  /\ h.pc = "start"
  /\ row' \in {row} \cup LostClaim(h.base)
  /\ Advance(h, "failing")
  /\ UNCHANGED <<place, zoneVars, prepares, logins, played>>

\* The RPC deadline passes; the request may still be handled later.
PrepareTimeout(h) ==
  /\ h.pc = "sent"
  /\ Advance(h, "failing")
  /\ UNCHANGED <<row, place, zoneVars, prepares, logins, played>>

\* SetPlayerShard: the placement record moves to the destination ...
ClaimPlacement(h) ==
  /\ h.pc = "prepared"
  /\ CasGranted(place, h.epoch)
  /\ place' = h.epoch
  /\ Advance(h, "committed")
  /\ UNCHANGED <<row, zoneVars, prepares, logins, played>>

\* ... or is refused, or errs with the write perhaps applied.
ClaimPlacementFails(h) ==
  /\ h.pc = "prepared"
  /\ place' \in {place} \cup {e \in {h.epoch} : "lost reply" \in Events /\ CasGranted(place, e)}
  /\ Advance(h, "aborting")
  /\ UNCHANGED <<row, zoneVars, prepares, logins, played>>

\* Abort discards the pending copy by its token; the call may be lost.
Abort(h) ==
  /\ h.pc = "aborting"
  /\ Advance(h, "failing")
  /\ IF sess[h.dst].mode = "pending" /\ sess[h.dst].token = h.epoch
     THEN sess' \in {sess, [sess EXCEPT ![h.dst] = NoSession]}
     ELSE UNCHANGED sess
  /\ UNCHANGED <<row, place, timers, saver, prepares, logins, played>>

\* The goroutine is over; the freeze timer it armed outlives it.
Outlive(h) ==
  timers' = [timers EXCEPT ![h.src] = @ \cup {g \in {h.gen} : h.armed}]

\* handoffFailed thaws whatever session is there and adopts the minted epoch.
HandoffFailed(h) ==
  LET s == h.src
      adopt == Present(s) /\ h.epoch > sess[s].epoch
      x == [sess[s] EXCEPT !.mode = IF @ = "frozen" THEN "live" ELSE @,
                           !.epoch = IF adopt THEN h.epoch ELSE @]
  IN /\ h.pc = "failing"
     /\ hand' = hand \ {h}
     /\ IF adopt THEN Register(h.epoch) ELSE UNCHANGED place
     /\ played' = IF adopt THEN Larger(played, h.epoch) ELSE played
     /\ MaybeLinkDeath(s, x, x.streamGone)
     /\ Outlive(h)
     /\ UNCHANGED <<row, prepares, logins>>

\* markHandedOff, posted as soon as the placement claim committed.
MarkHandedOff(h) ==
  /\ h.pc = "committed"
  /\ Advance(h, "marked")
  /\ IF Present(h.src) THEN SetSession(h.src, [sess[h.src] EXCEPT !.handedOff = TRUE])
                       ELSE UNCHANGED sess
  /\ UNCHANGED <<row, place, timers, saver, prepares, logins, played>>

\* The Redirect frame reaches the gate if the source stream is still open; it
\* is of use while the pending copy it names is there.
Told(h) ==
  /\ sess[h.src].linked
  /\ sess[h.dst].mode = "pending" /\ sess[h.dst].token = h.epoch

\* redirect: take the new epoch, send the gate away; a draining zone reaps at once.
Redirect(h) ==
  LET s == h.src
      x == [sess[s] EXCEPT !.epoch = h.epoch]
  IN /\ h.pc = "marked"
     /\ hand' = hand \ {h}
     /\ Outlive(h)
     /\ IF Present(s)
        THEN \E y \in {x} \cup {z \in {NoSession} : x.handedOff} :
               sess' = [t \in Shards |->
                          IF t = s THEN y
                          ELSE IF t = h.dst THEN [sess[t] EXCEPT !.told = @ \/ Told(h)]
                          ELSE sess[t]]
        ELSE UNCHANGED sess
     /\ UNCHANGED <<row, place, saver, prepares, logins, played>>

-----------------------------------------------------------------------------
(* The destination, and the timers of both sides.                             *)

\* The reply reaches the goroutine if it is still waiting for it.
Reply(p, pc) ==
  hand' = {IF h.pc = "sent" /\ h.dst = p.dst /\ h.epoch = p.epoch
           THEN [h EXCEPT !.pc = pc] ELSE h : h \in hand}

\* prepare rehydrates the player as a pending session, replacing a stale frozen
\* copy of a lower epoch.
PrepareAccepted(p) ==
  /\ prepares' = prepares \ {p}
  /\ ~Present(p.dst) \/ (sess[p.dst].mode = "frozen" /\ p.epoch > sess[p.dst].epoch)
  /\ SetSession(p.dst, [NoSession EXCEPT !.mode = "pending", !.epoch = p.epoch,
                                         !.token = p.epoch])
  /\ Reply(p, "prepared")
  /\ UNCHANGED <<row, place, timers, saver, logins, played>>

\* A stale epoch, a live or another pending session, or content that does not
\* fit (the stale frozen copy is gone by then): refused.  Prepare's idempotent
\* retry needs two requests of one epoch, which no caller sends.
PrepareRefused(p) ==
  LET x == sess[p.dst]
  IN /\ prepares' = prepares \ {p}
     /\ Reply(p, "failing")
     /\ IF x.mode = "frozen" /\ p.epoch > x.epoch
        THEN SetSession(p.dst, NoSession) ELSE UNCHANGED sess
     /\ UNCHANGED <<row, place, timers, saver, logins, played>>

\* Mutant: the expiry waits for an attach that may never come.
PendingExpireBound(s) ==
  /\ sess[s].mode = "pending" /\ sess[s].gen > 0
  /\ SetSession(s, NoSession)
  /\ UNCHANGED <<row, place, timers, saver, netVars, played>>

\* pendingExpire: the gate never bound the pending session within pendingTTL.
PendingExpire(s) ==
  /\ sess[s].mode = "pending"
  /\ SetSession(s, NoSession)
  /\ UNCHANGED <<row, place, timers, saver, netVars, played>>

\* Mutant: freezeExpire leaves a handed-off copy alone.
ThawOnly(s, gen) ==
  LET x == sess[s]
  IN IF x.mode # "frozen" \/ x.gen # gen \/ x.handedOff
     THEN UNCHANGED <<sess, saver>>
     ELSE MaybeLinkDeath(s, [x EXCEPT !.mode = "live"], x.streamGone)

\* freezeExpire: nothing if the session was rebound or is not frozen; else reap a
\* handed-off copy, thaw any other.
ReapOrThaw(s, gen) ==
  LET x == sess[s]
  IN IF x.mode # "frozen" \/ x.gen # gen
     THEN UNCHANGED <<sess, saver>>
     ELSE IF x.handedOff
     THEN SetSession(s, NoSession) /\ UNCHANGED saver
     ELSE MaybeLinkDeath(s, [x EXCEPT !.mode = "live"], x.streamGone)

FreezeExpire(s, gen) ==
  /\ ReapOrThaw(s, gen)
  /\ timers' = [timers EXCEPT ![s] = @ \ {gen}]
  /\ UNCHANGED <<row, place, netVars, played>>

\* The same timer, with its handoff still waiting for a handoffSem slot.
FreezeExpireEarly(h) ==
  /\ SlowHandoffs /\ h.armed
  /\ ReapOrThaw(h.src, h.gen)
  /\ hand' = (hand \ {h}) \cup {[h EXCEPT !.armed = FALSE]}
  /\ UNCHANGED <<row, place, timers, prepares, logins, played>>

-----------------------------------------------------------------------------
(* The saver, and the placement writer.                                       *)

SetSave(s, x) == saver' = [saver EXCEPT ![s] = x]

\* saveAll skips frozen and pending sessions.
SaveTick(s) ==
  /\ "save" \in Events
  /\ Live(s) /\ saver[s].pc = "idle"
  /\ EnqueueSave(s, sess[s].epoch)
  /\ UNCHANGED <<row, place, sess, timers, netVars, played>>

SaveApplied(s) ==
  /\ saver[s].pc = "queued"
  /\ SaveOwned(row, saver[s].epoch)
  /\ row' = SaveCharacter(row, saver[s].epoch)
  /\ SetSave(s, NoSave)
  /\ UNCHANGED <<place, sess, timers, netVars, played>>

\* Another writer of the same epoch was first: a zone that holds the session
\* dumps it again (saveConflict, saveReconcile).  With no session a final save
\* rebases and stays queued, any other is dropped as in SaveFails.
SaveStale(s) ==
  /\ saver[s].pc = "queued" /\ Present(s)
  /\ SaveOwned(row, saver[s].epoch)
  /\ SetSave(s, [pc |-> "queued", epoch |-> sess[s].epoch])
  /\ UNCHANGED <<row, place, sess, timers, netVars, played>>

\* SaveNotOwner names the row's epoch; a refused checkpoint only our own plus one.
SaveNotOwner(s) ==
  /\ saver[s].pc = "queued"
  /\ ~SaveOwned(row, saver[s].epoch)
  /\ \E owner \in {row, saver[s].epoch + 1} :
       SetSave(s, [pc |-> "refused", epoch |-> owner])
  /\ UNCHANGED <<row, place, sess, timers, netVars, played>>

\* The write errs, or the final flush runs out of its budget.
SaveFails(s) ==
  /\ saver[s].pc = "queued"
  /\ SetSave(s, NoSave)
  /\ UNCHANGED <<row, place, sess, timers, netVars, played>>

\* Mutant: the verdict is acted on without asking whether it is an echo.
OwnershipLostAlways(s) ==
  /\ saver[s].pc = "refused"
  /\ SetSave(s, NoSave)
  /\ IF Live(s) THEN SetSession(s, NoSession) ELSE UNCHANGED sess
  /\ UNCHANGED <<row, place, timers, netVars, played>>

\* Mutant: the evicted session is marked, not removed.
OwnershipLostMarks(s) ==
  /\ saver[s].pc = "refused"
  /\ SetSave(s, NoSave)
  /\ IF Live(s) /\ saver[s].epoch > sess[s].epoch
     THEN sess' = [sess EXCEPT ![s].mode = "evicted"] ELSE UNCHANGED sess
  /\ UNCHANGED <<row, place, timers, netVars, played>>

\* ownershipLost evicts a live session below the epoch that beat its save.
OwnershipLost(s) ==
  /\ saver[s].pc = "refused"
  /\ SetSave(s, NoSave)
  /\ IF Live(s) /\ saver[s].epoch > sess[s].epoch
     THEN SetSession(s, NoSession) ELSE UNCHANGED sess
  /\ UNCHANGED <<row, place, timers, netVars, played>>

\* The record expires or the directory loses it.
LosePlacement ==
  /\ "lost placement" \in Events
  /\ place # 0
  /\ place' = 0
  /\ UNCHANGED <<row, zoneVars, netVars, played>>

-----------------------------------------------------------------------------
LoginNext(l) == \/ LoginClaim(l) \/ LoginRefused(l)
                \/ AttachFresh(l) \/ AttachResume(l) \/ AttachRejected(l)
SessionNext(s) == Detach(s) \/ CleanLeave(s) \/ Crash(s)
HandoffNext(h) == \/ Mint(h) \/ MintFails(h) \/ PrepareTimeout(h)
                  \/ ClaimPlacement(h) \/ ClaimPlacementFails(h) \/ Abort(h)
                  \/ HandoffFailed(h) \/ MarkHandedOff(h) \/ Redirect(h)
TimerNext(s) == \/ Reap(s) \/ PendingExpire(s)
                \/ \E gen \in timers[s] : FreezeExpire(s, gen)
SaverNext(s) == \/ SaveApplied(s) \/ SaveStale(s) \/ SaveNotOwner(s)
                \/ SaveFails(s) \/ OwnershipLost(s)

Next ==
  \/ LosePlacement
  \/ \E s \in Shards : \/ LoginStart(s) \/ Bind(s) \/ SessionNext(s) \/ TimerNext(s)
                       \/ SaveTick(s) \/ SaverNext(s)
  \/ \E s, t \in Shards : StartHandoff(s, t)
  \/ \E l \in logins : LoginNext(l)
  \/ \E p \in prepares : PrepareAccepted(p) \/ PrepareRefused(p)
  \/ \E h \in hand : HandoffNext(h) \/ FreezeExpireEarly(h)

Spec == Init /\ [][Next]_vars

\* beginHandoff runs under deadlines, and armed timers fire.
FairSpec ==
  /\ Spec
  /\ WF_vars(\E h \in hand : HandoffNext(h))
  /\ \A s \in Shards : WF_vars(TimerNext(s))

-----------------------------------------------------------------------------
(* Properties.                                                                *)

\* No epoch is held, promised or remembered anywhere that the row did not mint:
\* sessions, handoffs, queued saves and logins all stay at or below owner_epoch.
EpochsMinted ==
  /\ place <= row
  /\ \A s \in Shards : sess[s].epoch <= row /\ saver[s].epoch <= row
  /\ \A h \in hand : h.epoch <= row
  /\ \A p \in prepares : p.epoch <= row
  /\ \A l \in logins : l.epoch <= row
  /\ played <= row

\* The ownership fence (#432): once a session has gone live under an epoch, no
\* save of an older epoch lands, wherever it was queued and however late.
SaveFence ==
  [][\A s \in Shards : SaveApplied(s) => played <= saver[s].epoch]_vars

\* A login's claim is above every session there is, so it fences them all.
ClaimSupersedes ==
  [][\A l \in logins : LoginClaim(l) =>
       \A s \in Shards : Present(s) => sess[s].epoch < row']_vars

\* A not-owner verdict, however late, never evicts the session that owns the row:
\* ownershipLost tells an echo of the past from a real loss.
OwnerNeverEvicted ==
  [][\A s \in Shards : OwnershipLost(s) /\ Live(s) /\ sess'[s] # sess[s] => sess[s].epoch < row]_vars

\* A player never stays frozen: the move fails, commits, or the backstop fires.
FrozenResolves ==
  \A s \in Shards : sess[s].mode = "frozen" ~> sess[s].mode # "frozen"

\* A pending copy the gate never binds is discarded (pendingTTL).
PendingResolves ==
  \A s \in Shards : sess[s].mode = "pending" ~> sess[s].mode # "pending"

\* server.go: "an epoch names exactly one live copy".
EpochExclusive ==
  \A s, t \in Shards : s # t /\ Live(s) /\ Live(t) => sess[s].epoch # sess[t].epoch

\* freezeTTL: the backstop "only catches the leftover", as a handoff that keeps
\* its deadlines is resolved "well before": no thaw under a move in progress.
BackstopOnlyLeftovers ==
  [][\A s \in Shards : \A gen \in timers[s] :
       FreezeExpire(s, gen) /\ sess[s].mode = "frozen" /\ sess'[s].mode = "live"
         => \A h \in hand : h.src # s]_vars

\* session.streamGone "records that this session's Play stream is already CLOSED":
\* no session is link-dead while its stream is open.
LinkDeadIsUnlinked == \A s \in Shards : sess[s].detached => ~sess[s].linked

\* ownershipLost: a superseded session "cannot persist anything, ever again,
\* because only a fresh claim mints an epoch and this one will never get another".
ZombieNeverMints ==
  [][\A h \in hand : Mint(h) => \A s \in Shards : Live(s) => sess[s].epoch <= h.base]_vars
=============================================================================
