------------------------------ MODULE Residency ------------------------------
(* One character on one shard: which zone holds the session, while it walks    *)
(* between zones (transferOut / transferIn), logs in and reconnects (Connect,   *)
(* attach), drops its stream, and while zones are torn down (UnhostZone).       *)
(* Zones are actors with a FIFO inbox; the residency index and the "incoming"   *)
(* counters are shared with the stream goroutines.  Handoffs to other shards    *)
(* are PlayerHandoff's.                                                         *)
EXTENDS Integers, Sequences

CONSTANTS RsZones, RsHome, RsNone,
          RsMaxStreams,   \* bound: logins
          RsMaxMoves      \* bound: transfers

ASSUME RsAssumption ==
  /\ RsHome \in RsZones /\ RsNone \notin RsZones
  /\ RsMaxStreams \in Nat /\ RsMaxMoves \in Nat

VARIABLES
  rsHosted,   \* the zones in Shard.zones
  rsInc,      \* rsInc[z]: Zone.incoming
  rsPlay,     \* rsPlay[z]: players[character] of zone z, rsNobody when absent
  rsIdx,      \* residentZone[character]; no entry: zone RsNone and not in flight
  rsFwd,      \* rsFwd[z]: forwarding[character]
  rsBox,      \* rsBox[z]: the inbox
  rsStr,      \* rsStr[n]: the stream of login n and its currentZone
  rsTimer,    \* armed link-death timers, [zone, gen]
  rsMoves,    \* transfers so far
  rsDrain,    \* Shard.draining
  rsRaced     \* history: did a sweep clear the mark of a transfer it did not see?

rsVars == <<rsHosted, rsInc, rsPlay, rsIdx, rsFwd, rsBox, rsStr, rsTimer, rsMoves, rsDrain,
            rsRaced>>

RsStreams == 1..RsMaxStreams
rsNobody == [out |-> 0, gen |-> 0, det |-> FALSE, quit |-> FALSE]
RsSession == [out : 0..RsMaxStreams, gen : Nat, det : BOOLEAN, quit : BOOLEAN]
rsNoEntry == [zone |-> RsNone, fly |-> FALSE]
RsMsg == [kind : {"attach", "transferIn", "detach", "leave"}, n : 0..RsMaxStreams, s : RsSession]

RsTypeOK ==
  /\ rsHosted \subseteq RsZones
  /\ rsInc \in [RsZones -> Int]
  /\ rsPlay \in [RsZones -> RsSession]
  /\ rsIdx \in [zone : RsZones \cup {RsNone}, fly : BOOLEAN]
  /\ rsFwd \in [RsZones -> RsZones \cup {RsNone}]
  /\ rsBox \in [RsZones -> Seq(RsMsg)]
  /\ rsStr \in [RsStreams -> [at : {"new", "aged", "sweep", "load", "routed", "open", "refused", "ended"},
                              cur : RsZones \cup {RsNone}]]
  /\ rsTimer \subseteq [zone : RsZones, gen : Nat]
  /\ rsMoves \in 0..RsMaxMoves /\ rsDrain \in BOOLEAN /\ rsRaced \in BOOLEAN

RsInit ==
  /\ rsHosted = RsZones /\ rsInc = [z \in RsZones |-> 0]
  /\ rsPlay = [z \in RsZones |-> rsNobody] /\ rsIdx = rsNoEntry
  /\ rsFwd = [z \in RsZones |-> RsNone] /\ rsBox = [z \in RsZones |-> <<>>]
  /\ rsStr = [n \in RsStreams |-> [at |-> "new", cur |-> RsNone]]
  /\ rsTimer = {} /\ rsMoves = 0 /\ rsDrain = FALSE /\ rsRaced = FALSE

------------------------------------------------------------------------------
(* The residency index, its lock held for each operator.                       *)

\* Mutant: the mark survives the arrival.
indexResidentMarked(z) == [zone |-> z, fly |-> rsIdx.fly]

indexResident(z) == [zone |-> z, fly |-> FALSE]

\* forgetResidencyLocked: an in-flight mark outlives the zone it named.
forgetResidency(r) == IF r.fly THEN [r EXCEPT !.zone = RsNone] ELSE rsNoEntry

\* Mutant: the entry goes whoever it names.
unindexAny(r, z) == forgetResidency(r)

unindexResident(r, z) == IF r.zone = z THEN forgetResidency(r) ELSE r

markTransferInFlight(r, z) == IF r.zone = z THEN [r EXCEPT !.fly = TRUE] ELSE r

clearTransferInFlight(r) == [r EXCEPT !.fly = FALSE]

anyInboundArrivalOutstanding == \E z \in rsHosted : rsInc[z] > 0

------------------------------------------------------------------------------
(* The stream goroutine of login n.                                            *)

\* Connect up to expireStaleTransferMark: a draining shard refuses; an in-flight
\* mark may be found older than transferMarkTTL (time is not modelled).
LoginStart(n, aged) ==
  /\ rsStr[n].at = "new" /\ ~rsDrain
  /\ \A k \in 1..(n - 1) : rsStr[k].at # "new"
  /\ aged => rsIdx.fly
  /\ rsStr' = [rsStr EXCEPT ![n].at = IF aged THEN "aged" ELSE "load"]
  /\ UNCHANGED <<rsHosted, rsInc, rsPlay, rsIdx, rsFwd, rsBox, rsTimer, rsMoves, rsDrain, rsRaced>>

\* The two later steps of expireStaleTransferMark, each under its own locks.
SweepCheck(n) ==
  /\ rsStr[n].at = "aged"
  /\ rsStr' = [rsStr EXCEPT ![n].at = IF anyInboundArrivalOutstanding THEN "load" ELSE "sweep"]
  /\ UNCHANGED <<rsHosted, rsInc, rsPlay, rsIdx, rsFwd, rsBox, rsTimer, rsMoves, rsDrain, rsRaced>>

SweepClear(n) ==
  /\ rsStr[n].at = "sweep"
  /\ rsStr' = [rsStr EXCEPT ![n].at = "load"]
  /\ rsIdx' = clearTransferInFlight(rsIdx)
  /\ rsRaced' = (rsRaced \/ (rsIdx.fly /\ anyInboundArrivalOutstanding))
  /\ UNCHANGED <<rsHosted, rsInc, rsPlay, rsFwd, rsBox, rsTimer, rsMoves, rsDrain>>

\* Mutant: the arrival is not counted when the target is chosen.
claimUncounted(n, z) == rsInc' = rsInc

\* claimAttachTarget: the choice and the claim of the arrival under one lock.
claimAttachTarget(n, z) == rsInc' = [rsInc EXCEPT ![z] = @ + 1]

\* resolveAttachZoneLocked: mid-transfer refuses; a resident session wins; then
\* the durable zone d if it is hosted here; else home.
AttachRoute(n, d) ==
  LET z == IF rsIdx.zone # RsNone THEN rsIdx.zone
           ELSE IF d \in rsHosted THEN d ELSE RsHome IN
  /\ rsStr[n].at = "load"
  /\ IF rsIdx.fly
     THEN rsStr' = [rsStr EXCEPT ![n].at = "refused"] /\ UNCHANGED rsInc
     ELSE rsStr' = [rsStr EXCEPT ![n] = [at |-> "routed", cur |-> z]] /\ claimAttachTarget(n, z)
  /\ UNCHANGED <<rsHosted, rsPlay, rsIdx, rsFwd, rsBox, rsTimer, rsMoves, rsDrain, rsRaced>>

\* The ownership claim succeeded and the attach is posted, or it failed and the
\* deferred release gives the arrival back.
AttachPost(n, ok) ==
  LET z == rsStr[n].cur IN
  /\ rsStr[n].at = "routed"
  /\ IF ok
     THEN /\ rsStr' = [rsStr EXCEPT ![n].at = "open"]
          /\ rsBox' = [rsBox EXCEPT ![z] = Append(@, [kind |-> "attach", n |-> n, s |-> rsNobody])]
          /\ UNCHANGED rsInc
     ELSE /\ rsStr' = [rsStr EXCEPT ![n].at = "refused"]
          /\ rsInc' = [rsInc EXCEPT ![z] = @ - 1]
          /\ UNCHANGED rsBox
  /\ UNCHANGED <<rsHosted, rsPlay, rsIdx, rsFwd, rsTimer, rsMoves, rsDrain, rsRaced>>

\* The stream ends: a Detach frame posts leave, anything else detach, to the zone
\* the stream last knew; a post to a torn-down zone is dropped (Zone.post, dead).
StreamEnd(n, kind) ==
  LET z == rsStr[n].cur IN
  /\ rsStr[n].at = "open" /\ kind \in {"detach", "leave"}
  /\ rsStr' = [rsStr EXCEPT ![n].at = "ended"]
  /\ rsBox' = IF z \in rsHosted
              THEN [rsBox EXCEPT ![z] = Append(@, [kind |-> kind, n |-> n, s |-> rsNobody])]
              ELSE rsBox
  /\ UNCHANGED <<rsHosted, rsInc, rsPlay, rsIdx, rsFwd, rsTimer, rsMoves, rsDrain, rsRaced>>

------------------------------------------------------------------------------
(* The zone actors.                                                            *)

\* The session leaves zone z's map (leave: delPlayer, unindexResident).
LeavesZone(z) ==
  /\ rsPlay' = [rsPlay EXCEPT ![z] = rsNobody]
  /\ rsIdx' = unindexResident(rsIdx, z)

SetPlayer(z, s) ==
  /\ rsPlay' = [rsPlay EXCEPT ![z] = s]
  /\ rsIdx' = indexResident(z)

\* A walk through an exit of z into zone d: claimTransferTarget, then transferOut
\* in the same handler; the entry keeps only its in-flight mark.
TransferOut(z, d) ==
  /\ z \in rsHosted /\ rsPlay[z] # rsNobody /\ ~rsPlay[z].det /\ rsMoves < RsMaxMoves
  /\ d \in rsHosted \ {z} /\ ~rsDrain
  /\ rsMoves' = rsMoves + 1
  /\ rsInc' = [rsInc EXCEPT ![d] = @ + 1]
  /\ rsPlay' = [rsPlay EXCEPT ![z] = rsNobody]
  /\ rsIdx' = unindexResident(markTransferInFlight(rsIdx, z), z)
  /\ rsFwd' = [rsFwd EXCEPT ![z] = d]
  /\ rsBox' = [rsBox EXCEPT ![d] = Append(@, [kind |-> "transferIn", n |-> 0, s |-> rsPlay[z]])]
  /\ UNCHANGED <<rsHosted, rsStr, rsTimer, rsDrain, rsRaced>>

\* The quit command marks the session; the gate then drops the stream.
QuitCommand(z) ==
  /\ z \in rsHosted /\ rsPlay[z] # rsNobody /\ ~rsPlay[z].quit
  /\ rsPlay' = [rsPlay EXCEPT ![z].quit = TRUE]
  /\ UNCHANGED <<rsHosted, rsInc, rsIdx, rsFwd, rsBox, rsStr, rsTimer, rsMoves, rsDrain, rsRaced>>

Dequeue(z) == rsBox' = [rsBox EXCEPT ![z] = Tail(@)]
HeadIs(z, kind) == z \in rsHosted /\ rsBox[z] # <<>> /\ Head(rsBox[z]).kind = kind
ReleaseArrival(z) == rsInc' = [rsInc EXCEPT ![z] = @ - 1]

\* transferIn: released and unmarked on every path; the stream's zone moves with it.
TransferIn(z) ==
  LET s == Head(rsBox[z]).s IN
  /\ HeadIs(z, "transferIn")
  /\ Dequeue(z) /\ ReleaseArrival(z) /\ SetPlayer(z, s)
  /\ rsFwd' = [rsFwd EXCEPT ![z] = RsNone]
  /\ rsStr' = [rsStr EXCEPT ![s.out].cur = z]
  /\ UNCHANGED <<rsHosted, rsTimer, rsMoves, rsDrain, rsRaced>>

\* Mutant: attach trusts the routing decision.
AttachRaced(z) == FALSE

\* The re-check of attach: the session is in flight or resident elsewhere by now.
AttachRaces(z) ==
  rsPlay[z] = rsNobody /\ (rsIdx.fly \/ rsIdx.zone \notin {RsNone, z})

\* attach: refuse, rebind the held session to the new stream, or log in.
Attach(z) ==
  LET n == Head(rsBox[z]).n IN
  /\ HeadIs(z, "attach") /\ Dequeue(z) /\ ReleaseArrival(z)
  /\ IF AttachRaces(z)
     THEN rsStr' = [rsStr EXCEPT ![n].at = IF @ = "open" THEN "refused" ELSE @]
          /\ UNCHANGED <<rsPlay, rsIdx>>
     ELSE /\ rsStr' = [rsStr EXCEPT ![n].cur = z]
          /\ IF rsPlay[z] # rsNobody
             THEN /\ rsPlay' = [rsPlay EXCEPT ![z] = [out |-> n, gen |-> @.gen + 1, det |-> FALSE, quit |-> @.quit]]
                  /\ UNCHANGED rsIdx
             ELSE SetPlayer(z, [rsNobody EXCEPT !.out = n, !.gen = 1])
  /\ UNCHANGED <<rsHosted, rsFwd, rsTimer, rsMoves, rsDrain, rsRaced>>

\* A message for a session that walked on follows it (z.forwarding).
Forward(z, kind) ==
  /\ HeadIs(z, kind) /\ rsPlay[z] = rsNobody
  /\ LET d == rsFwd[z] IN
       rsBox' = [y \in RsZones |->
                   IF y = z THEN Tail(rsBox[z])
                   ELSE IF y = d /\ d \in rsHosted THEN Append(rsBox[y], Head(rsBox[z]))
                   ELSE rsBox[y]]
  /\ UNCHANGED <<rsHosted, rsInc, rsPlay, rsIdx, rsFwd, rsStr, rsTimer, rsMoves, rsDrain, rsRaced>>

Leave(z) ==
  /\ HeadIs(z, "leave") /\ rsPlay[z] # rsNobody
  /\ Dequeue(z) /\ LeavesZone(z)
  /\ UNCHANGED <<rsHosted, rsInc, rsFwd, rsStr, rsTimer, rsMoves, rsDrain, rsRaced>>

\* detach: stale streams are ignored, a quitting session leaves, the rest go
\* link-dead and arm the reap timer of this attachment.
Detach(z) ==
  LET s == rsPlay[z] IN
  /\ HeadIs(z, "detach") /\ s # rsNobody /\ Dequeue(z)
  /\ \/ s.out # Head(rsBox[z]).n /\ UNCHANGED <<rsPlay, rsIdx, rsTimer>>
     \/ s.out = Head(rsBox[z]).n /\ s.quit /\ LeavesZone(z) /\ UNCHANGED rsTimer
     \/ /\ s.out = Head(rsBox[z]).n /\ ~s.quit
        /\ rsPlay' = [rsPlay EXCEPT ![z].det = TRUE] /\ UNCHANGED rsIdx
        /\ rsTimer' = rsTimer \cup {[zone |-> z, gen |-> s.gen]}
  /\ UNCHANGED <<rsHosted, rsInc, rsFwd, rsStr, rsMoves, rsDrain, rsRaced>>

\* reap: only the attachment that armed the timer.
Reap(t) ==
  /\ t.zone \in rsHosted
  /\ rsTimer' = rsTimer \ {t}
  /\ IF rsPlay[t.zone].det /\ rsPlay[t.zone].gen = t.gen
     THEN LeavesZone(t.zone) ELSE UNCHANGED <<rsPlay, rsIdx>>
  /\ UNCHANGED <<rsHosted, rsInc, rsFwd, rsBox, rsStr, rsMoves, rsDrain, rsRaced>>

\* Mutant: an empty players map is taken for quiescence.
populationZero(z) == rsPlay[z] = rsNobody

quiescent(z) == rsPlay[z] = rsNobody /\ rsInc[z] = 0

\* UnhostZone: never the home zone, quiescence re-checked under the lock that
\* claims take; what is left in the inbox is never handled.
Unhost(z) ==
  /\ z \in rsHosted \ {RsHome} /\ quiescent(z)
  /\ rsHosted' = rsHosted \ {z}
  /\ rsIdx' = unindexResident(rsIdx, z)
  /\ rsBox' = [rsBox EXCEPT ![z] = <<>>]
  /\ UNCHANGED <<rsInc, rsPlay, rsFwd, rsStr, rsTimer, rsMoves, rsDrain, rsRaced>>

DrainFlag == /\ ~rsDrain /\ rsDrain' = TRUE
             /\ UNCHANGED <<rsHosted, rsInc, rsPlay, rsIdx, rsFwd, rsBox, rsStr, rsTimer, rsMoves, rsRaced>>

RsActor(z) ==
  \/ TransferIn(z) \/ Attach(z) \/ Leave(z) \/ Detach(z)
  \/ \E k \in {"leave", "detach"} : Forward(z, k)

RsNext ==
  \/ \E n \in RsStreams :
       \/ \E b \in BOOLEAN : LoginStart(n, b) \/ AttachPost(n, b)
       \/ SweepCheck(n) \/ SweepClear(n)
       \/ \E d \in RsZones : AttachRoute(n, d)
       \/ \E k \in {"detach", "leave"} : StreamEnd(n, k)
  \/ \E z \in RsZones :
       \/ RsActor(z) \/ QuitCommand(z) \/ Unhost(z)
       \/ \E d \in RsZones : TransferOut(z, d)
  \/ \E t \in rsTimer : Reap(t)
  \/ DrainFlag

\* The actors keep handling their inboxes (Zone.Run), and a routed login posts.
RsFair ==
  /\ \A z \in RsZones : WF_rsVars(RsActor(z))
  /\ \A n \in RsStreams : WF_rsVars(\E b \in BOOLEAN : AttachPost(n, b))

RsSpec == RsInit /\ [][RsNext]_rsVars /\ RsFair

------------------------------------------------------------------------------
(* Properties.                                                                 *)

RsArrivals(z) == {i \in DOMAIN rsBox[z] : rsBox[z][i].kind \in {"attach", "transferIn"}}
RsWalking(z) == {i \in DOMAIN rsBox[z] : rsBox[z][i].kind = "transferIn"}
RsHeld == {z \in RsZones : rsPlay[z] # rsNobody}

\* However logins race transfers, the character has one live copy: in one zone's
\* map, or in one transferIn (attach's re-check, the in-flight mark).
OneCopy ==
  /\ \A y, z \in RsHeld : y = z
  /\ \A z \in RsZones : RsWalking(z) # {} => RsHeld = {} /\ \A y \in RsZones \ {z} : RsWalking(y) = {}
  /\ \A z \in RsZones : \A i, j \in RsWalking(z) : i = j

\* As long as no sweep raced a transfer (expireStaleTransferMark is not atomic).
SingleCopy == ~rsRaced => OneCopy

\* No arrival is ever addressed to a zone that was torn down, and a zone holding
\* no claim is one nobody is on the way to (quiescent's incoming counter).
ArrivalsSafe ==
  \A z \in RsZones :
    /\ z \notin rsHosted => RsArrivals(z) = {} /\ rsPlay[z] = rsNobody
    /\ \A n \in RsStreams : rsStr[n].at = "routed" => rsStr[n].cur \in rsHosted
    /\ rsInc[z] = 0 => RsArrivals(z) = {}
    /\ rsInc[z] >= 0

\* The index leads a reconnect to the live session: it names the zone that holds
\* it, or says in flight while it walks (residencyFor).
IndexLeads ==
  ~rsRaced => /\ \A z \in RsHeld : rsIdx = indexResident(z)
              /\ \A z \in RsZones : RsWalking(z) # {} => rsIdx.fly

\* A character refused as mid-transfer is refused only for a while.
MarkResolves == rsIdx.fly ~> ~rsIdx.fly

\* "A late message posted to a torn-down zone is harmless ONCE the zone is
\* quiescent" (unhost.go): when the inboxes are empty, a session whose stream has
\* ended was told so.
LateMessageHarmless ==
  (\A z \in RsZones : rsBox[z] = <<>>) =>
    \A z \in RsHeld : rsStr[rsPlay[z].out].at = "ended" => rsPlay[z].det

\* The safety invariant: the types, and the properties above that hold of every state.
\* One live copy of a character, led to by the index, and no arrival in a zone torn down (world.go, zone.go, unhost.go).
ResidencySafe == RsTypeOK /\ SingleCopy /\ ArrivalsSafe /\ IndexLeads
=============================================================================
