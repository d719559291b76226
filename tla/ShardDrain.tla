----------------------------- MODULE ShardDrain ------------------------------
(* A graceful drain of one shard (internal/world/drain.go) beside the players   *)
(* it is moving.  The shard hosts a leased zone, a local bootstrap zone, and an *)
(* instance anchored in the leased zone.  The drain is one goroutine; the zones *)
(* handle what it posts on theirs, in the order it was posted.                  *)
EXTENDS Naturals

CONSTANTS DpPlayers,
          DpMaxMoves      \* bound: walks a player takes of its own accord

ASSUME DpAssumption == DpMaxMoves \in Nat

VARIABLES
  dpP,       \* dpP[p]: the session, see DpPlayer
  dpPhase,   \* where BeginDrain is
  dpWindow,  \* instanceEjectWindow
  dpPost,    \* messages of the drain not yet handled, <<kind, zone>>
  dpOff,     \* the leased zone's lease is a peer's, and it drains
  dpTarget,  \* the reservation on the chosen target
  dpCut      \* did a deadline or a dead context end a wait?

dpVars == <<dpP, dpPhase, dpWindow, dpPost, dpOff, dpTarget, dpCut>>

DpZones == {"leased", "local", "inst"}
DpAccount == {"leased", "inst"}         \* zones: what is flushed and reclaimed
DpPhases == {"serving", "draining", "ejecting", "ejected", "waiting", "waited",
             "flushing", "flushed", "reclaiming", "done"}
\* st: "live", "frozen" (handoff under way), "stuck" (detached or gate wedged),
\* "gone" (handed off); saved, told: flushed, and sent the disconnect, by the drain.
DpPlayer == [at : DpZones \cup {"none"}, fly : DpZones \cup {"none"},
             st : {"live", "frozen", "stuck", "gone"}, saved : BOOLEAN, told : BOOLEAN,
             moves : 0..DpMaxMoves]
DpMsgs == {"eject", "drainZone", "flush", "reclaim"} \X DpZones

DpTypeOK ==
  /\ dpP \in [DpPlayers -> DpPlayer] /\ dpPhase \in DpPhases
  /\ dpWindow \in BOOLEAN /\ dpPost \subseteq DpMsgs /\ dpOff \in BOOLEAN
  /\ dpTarget \in {"none", "reserved", "sent", "expiring", "released"}
  /\ dpCut \in BOOLEAN

DpInit ==
  /\ dpP \in [DpPlayers -> {[at |-> z, fly |-> "none", st |-> "live", saved |-> FALSE,
                             told |-> FALSE, moves |-> 0] : z \in DpZones}]
  /\ dpPhase = "serving" /\ dpWindow = FALSE /\ dpPost = {} /\ dpOff = FALSE
  /\ dpTarget = "none" /\ dpCut = FALSE

Draining == dpPhase # "serving"
In(p, z) == dpP[p].at = z
DpUpdate(f) == dpP' = [p \in DpPlayers |-> f[p]]

------------------------------------------------------------------------------
(* The players.                                                                *)

\* A walk: claimTransferTarget refuses a drain and a zone handed off.
DpWalk(p, z) ==
  /\ ~Draining /\ dpP[p].at \notin {"none", z} /\ dpP[p].st = "live" /\ dpP[p].moves < DpMaxMoves
  /\ dpP' = [dpP EXCEPT ![p].at = "none", ![p].fly = z, ![p].moves = @ + 1]
  /\ UNCHANGED <<dpPhase, dpWindow, dpPost, dpOff, dpTarget, dpCut>>

DpArrive(p) ==
  /\ dpP[p].fly # "none"
  /\ dpP' = [dpP EXCEPT ![p].at = dpP[p].fly, ![p].fly = "none"]
  /\ UNCHANGED <<dpPhase, dpWindow, dpPost, dpOff, dpTarget, dpCut>>

\* The stream drops, or the gate stops reading (isGateWedged).
DpDetach(p) ==
  /\ dpP[p].st = "live" /\ dpP[p].fly = "none"
  /\ dpP' = [dpP EXCEPT ![p].st = "stuck"]
  /\ UNCHANGED <<dpPhase, dpWindow, dpPost, dpOff, dpTarget, dpCut>>

\* The handoff initiateHandoff started ends: redirected and, in a draining zone,
\* reaped from the map; or failed and thawed.
DpHandoffEnds(p, ok) ==
  /\ dpP[p].st = "frozen"
  /\ dpP' = [dpP EXCEPT ![p].st = IF ok THEN "gone" ELSE "live",
                        ![p].at = IF ok THEN "none" ELSE @]
  /\ UNCHANGED <<dpPhase, dpWindow, dpPost, dpOff, dpTarget, dpCut>>

------------------------------------------------------------------------------
(* What the zones do for the drain.                                            *)

\* ejectAllToAnchors, evictToAnchor: through claimEjectTarget while the window is
\* open, by a handoff when it is not.
DpEject ==
  /\ <<"eject", "inst">> \in dpPost /\ dpPost' = dpPost \ {<<"eject", "inst">>}
  /\ DpUpdate([p \in DpPlayers |->
       IF ~In(p, "inst") \/ dpP[p].st = "frozen" THEN dpP[p]
       ELSE IF dpWindow /\ ~dpOff THEN [dpP[p] EXCEPT !.at = "none", !.fly = "leased"]
       ELSE [dpP[p] EXCEPT !.st = "frozen"]])
  /\ UNCHANGED <<dpPhase, dpWindow, dpOff, dpTarget, dpCut>>

\* drainZone: every player drainPlayer does not skip is handed off.
DpDrainZone ==
  /\ <<"drainZone", "leased">> \in dpPost /\ dpPost' = dpPost \ {<<"drainZone", "leased">>}
  /\ DpUpdate([p \in DpPlayers |->
       IF In(p, "leased") /\ dpP[p].st = "live" THEN [dpP[p] EXCEPT !.st = "frozen"] ELSE dpP[p]])
  /\ UNCHANGED <<dpPhase, dpWindow, dpOff, dpTarget, dpCut>>

\* drainFlushMsg: saveAllBlocking over the zone's map.
DpFlushZone(z) ==
  /\ <<"flush", z>> \in dpPost /\ dpPost' = dpPost \ {<<"flush", z>>}
  /\ DpUpdate([p \in DpPlayers |-> IF In(p, z) THEN [dpP[p] EXCEPT !.saved = TRUE] ELSE dpP[p]])
  /\ UNCHANGED <<dpPhase, dpWindow, dpOff, dpTarget, dpCut>>

\* reclaimStragglers: a frozen session is left to its handoff, a detached one has no
\* stream to tell.
DpReclaim(z) ==
  /\ <<"reclaim", z>> \in dpPost /\ <<"flush", z>> \notin dpPost
  /\ dpPost' = dpPost \ {<<"reclaim", z>>}
  /\ DpUpdate([p \in DpPlayers |-> IF In(p, z) /\ dpP[p].st = "live"
                                   THEN [dpP[p] EXCEPT !.told = TRUE] ELSE dpP[p]])
  /\ UNCHANGED <<dpPhase, dpWindow, dpOff, dpTarget, dpCut>>

------------------------------------------------------------------------------
(* BeginDrain.                                                                 *)

DpStep(from, to) == dpPhase = from /\ dpPhase' = to

\* draining is set, and the accounting, handover and instance sets are taken.
DpBegin ==
  /\ DpStep("serving", "draining")
  /\ UNCHANGED <<dpP, dpWindow, dpPost, dpOff, dpTarget, dpCut>>

\* ejectInstanceOccupants opens the window and waits for the instance's answer,
EjectOpen ==
  /\ DpStep("draining", "ejecting")
  /\ dpWindow' = TRUE /\ dpPost' = dpPost \cup {<<"eject", "inst">>}
  /\ UNCHANGED <<dpP, dpOff, dpTarget, dpCut>>

\* or for drainEjectBarrier; the message stays in the inbox then.
EjectClose(cut) ==
  /\ DpStep("ejecting", "ejected") /\ (cut \/ <<"eject", "inst">> \notin dpPost)
  /\ dpWindow' = FALSE /\ dpCut' = (dpCut \/ cut)
  /\ UNCHANGED <<dpP, dpPost, dpOff, dpTarget>>

\* The target is chosen and the lease handed over; a zone that has no target, or
\* whose handover fails, keeps its players for the reclaim.
DpHandover(chosen, flipped) ==
  /\ DpStep("ejected", "waiting")
  /\ dpTarget' = IF ~chosen THEN "none" ELSE IF flipped THEN "sent" ELSE "reserved"
  /\ dpOff' = (chosen /\ flipped)
  /\ dpPost' = IF chosen /\ flipped THEN dpPost \cup {<<"drainZone", "leased">>} ELSE dpPost
  /\ UNCHANGED <<dpP, dpWindow, dpCut>>

allZonesQuiescent == \A p \in DpPlayers : dpP[p].at # "leased" /\ dpP[p].fly # "leased"

\* Mutant: the arrivals of the handover set are enough.
noArrivalsHandover == \A p \in DpPlayers : dpP[p].fly # "leased"

noArrivalsInFlight == \A p \in DpPlayers : dpP[p].fly \notin DpAccount

DpWaited(cut) ==
  /\ DpStep("waiting", "waited")
  /\ cut \/ (allZonesQuiescent /\ noArrivalsInFlight)
  /\ dpCut' = (dpCut \/ cut)
  /\ UNCHANGED <<dpP, dpWindow, dpPost, dpOff, dpTarget>>

\* Mutant: the reclaim is posted first.
ReclaimFirst == <<"reclaim", "flush">>

\* Shard.Drain posts a flush to every zone and waits; then the reclaims are posted.
LastOrders == <<"flush", "reclaim">>

DpPostOrders(i) ==
  /\ IF i = 1 THEN DpStep("waited", "flushing") ELSE DpStep("flushed", "reclaiming")
  /\ dpPost' = dpPost \cup {<<LastOrders[i], z>> :
                              z \in IF LastOrders[i] = "flush" THEN DpZones ELSE DpAccount}
  /\ UNCHANGED <<dpP, dpWindow, dpOff, dpTarget, dpCut>>

DpCollect(cut) ==
  /\ DpStep("flushing", "flushed") /\ (cut \/ dpPost = {})
  /\ dpCut' = (dpCut \/ cut)
  /\ UNCHANGED <<dpP, dpWindow, dpPost, dpOff, dpTarget>>

\* retireDrainTargets: a target that was sent players keeps its reservation until
\* presence reflects them, one that was only reserved is released.
retireDrainTarget(t) ==
  CASE t = "sent" -> "expiring" [] t = "reserved" -> "released" [] OTHER -> t

DpEnd(cut) ==
  /\ DpStep("reclaiming", "done") /\ (cut \/ dpPost = {})
  /\ dpCut' = (dpCut \/ cut)
  /\ dpTarget' = retireDrainTarget(dpTarget)
  /\ UNCHANGED <<dpP, dpWindow, dpPost, dpOff>>

DpDrain ==
  \/ DpBegin \/ EjectOpen
  \/ \E cut \in BOOLEAN : EjectClose(cut) \/ DpWaited(cut) \/ DpCollect(cut) \/ DpEnd(cut)
  \/ \E chosen, flipped \in BOOLEAN : DpHandover(chosen, flipped)
  \/ \E i \in {1, 2} : DpPostOrders(i)
DpActors ==
  \/ DpEject \/ DpDrainZone
  \/ \E z \in DpZones : DpFlushZone(z) \/ DpReclaim(z)

DpNext ==
  \/ DpDrain \/ DpActors
  \/ \E p \in DpPlayers :
       \/ DpArrive(p) \/ DpDetach(p)
       \/ \E z \in DpZones : DpWalk(p, z)
       \/ \E ok \in BOOLEAN : DpHandoffEnds(p, ok)

DpSpec == DpInit /\ [][DpNext]_dpVars

------------------------------------------------------------------------------
(* Properties.                                                                 *)

\* When no wait was cut short, nobody is lost: whoever the drain found, walking at
\* the time included, is handed off, or was flushed and then told to reconnect ("the
\* durable flush handler is ordered ahead of the disconnect"), or had no stream to be
\* told on.  Local zones are outside what the drain accounts for.
NobodyLost ==
  ~dpCut => \A p \in DpPlayers :
    /\ dpP[p].told => dpP[p].saved
    /\ dpPhase = "done" =>
         \/ dpP[p].st \in {"gone", "frozen"} \/ "local" \in {dpP[p].at, dpP[p].fly}
         \/ dpP[p].saved /\ (dpP[p].told \/ dpP[p].st = "stuck")

\* The safety invariant: the types, and the properties above that hold of every state.
\* A drain loses nobody it was given time for (world.go, drain.go).
DrainSafe == DpTypeOK /\ NobodyLost
=============================================================================
