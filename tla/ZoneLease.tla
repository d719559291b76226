----------------------------- MODULE ZoneLease -----------------------------
(* Ownership of one zone across the shards of a fleet: the directory lease,   *)
(* each shard's renewal loop (internal/world/lease.go), runtime hosting and   *)
(* unhosting (world.go, unhost.go), the signed AdoptZone RPC                  *)
(* (handoff_server.go, handoffsig.go) and the handover a drain or a rebalance *)
(* runs (handoverZoneTo).                                                     *)
(*                                                                            *)
(* Zones share no lease state, so one zone is the whole story; what another   *)
(* zone can do to this one (fence the process) is Shutdown.                   *)
EXTENDS ZoneDirectory, FiniteSets

CONSTANTS Home,          \* shards whose login-fallback zone this zone is
          MaxClock,      \* bound: ownership changes of the zone
          MaxHandovers,  \* bound: handovers a shard runs at once
          MaxAdoptions   \* bound: AdoptZone handlers running at once

ASSUME ZoneLeaseAssumption ==
  Home \subseteq Shards /\ MaxClock \in Nat
  /\ MaxHandovers \in Nat /\ MaxAdoptions \in Nat

VARIABLES
  zone,       \* the directory's record of the zone
  clock,      \* the Redis clock; no two ownership changes share a millisecond
  status,     \* status[s]: the process is "down", "booting" or "up"
  hosted,     \* hosted[s]: the zone is in s.zones
  handedOff,  \* handedOff[s]: s.handedOff[zone]
  renew,      \* renew[s]: the renewal registered in s.leaseStop[zone]
  unhost,     \* unhost[s]: progress of an UnhostZone call
  handovers,  \* handoverZoneTo calls in progress
  adoptions,  \* AdoptZone handlers in progress at their destination
  signed,     \* every AdoptZone request ever signed; a signature never expires
  flipped,    \* history: the requests whose handover landed
  issued      \* history: every <<generation, owner>> the directory granted

shardVars == <<status, hosted, handedOff, renew, unhost>>
rpcVars   == <<handovers, adoptions, signed, flipped>>
dirVars   == <<zone, clock, issued>>
vars      == <<shardVars, rpcVars, dirVars>>

Request  == [from : Shards, to : Shards, gen : Nat]
Handover == [req : Request, pc : {"signed", "hosted", "marked", "flipped"}]

\* An adoption that is "built" still owes the zone a renewal of kind `start`.
Adoption == [req : Request, pc : {"verified", "built"},
             start : {"none", "boot", "adopting"}]

(* renew[s] = "none"      no renewal registered                               *)
(*            "boot"      unconfirmed, started by Run or by a re-adoption     *)
(*            "adopting"  unconfirmed, started by a runtime adoption          *)
(*            "confirmed" has held the lease at least once                    *)
(*            "stopped"   still registered, but its goroutine has returned    *)
RenewState == {"none", "boot", "adopting", "confirmed", "stopped"}

Unconfirmed == {"boot", "adopting"}

TypeOK ==
  /\ zone \in ZoneRecord
  /\ clock \in Nat
  /\ status \in [Shards -> {"down", "booting", "up"}]
  /\ hosted \in [Shards -> BOOLEAN]
  /\ handedOff \in [Shards -> BOOLEAN]
  /\ renew \in [Shards -> RenewState]
  /\ unhost \in [Shards -> {"idle", "called", "checked"}]
  /\ handovers \in SUBSET Handover
  /\ adoptions \in SUBSET Adoption
  /\ signed \in SUBSET Request
  /\ flipped \in SUBSET Request
  /\ issued \in SUBSET (Nat \X Shards)

Init ==
  /\ zone = AbsentZone
  /\ clock = 1
  /\ status = [s \in Shards |-> "down"]
  /\ hosted = [s \in Shards |-> FALSE]
  /\ handedOff = [s \in Shards |-> FALSE]
  /\ renew = [s \in Shards |-> "none"]
  /\ unhost = [s \in Shards |-> "idle"]
  /\ handovers = {} /\ adoptions = {} /\ signed = {} /\ flipped = {}
  /\ issued = {}

-----------------------------------------------------------------------------
(* The directory.                                                             *)

\* The record is overwritten; a new <<gen, owner>> is an ownership change.
Write(rec) ==
  /\ zone' = rec
  /\ issued' = issued \cup {<<rec.gen, rec.owner>>}
  /\ IF rec.gen = zone.gen
     THEN clock' = clock
     ELSE clock < MaxClock /\ clock' = clock + 1

\* ClaimZone by s succeeds: a renewal, a fresh claim or a takeover.
Claim(s) == ClaimGranted(zone, s) /\ Write(ClaimZone(zone, s, clock))

\* The holder stopped renewing for a whole TTL: crash, partition, long pause.
Lapse ==
  /\ zone.live
  /\ zone' = [zone EXCEPT !.live = FALSE]
  /\ UNCHANGED <<clock, issued, shardVars, rpcVars>>

\* FLUSHDB, an eviction, a failover that lost writes: the key is gone.
LoseKey ==
  /\ zone # AbsentZone
  /\ zone' = AbsentZone
  /\ UNCHANGED <<clock, issued, shardVars, rpcVars>>

-----------------------------------------------------------------------------
(* Process lifetime.                                                          *)

\* ClaimFromPool: the shard hosts the zone only if it wins the claim.
BootClaim(s) ==
  /\ status[s] = "down"
  /\ Claim(s)
  /\ status' = [status EXCEPT ![s] = "booting"]
  /\ hosted' = [hosted EXCEPT ![s] = TRUE]
  /\ UNCHANGED <<handedOff, renew, unhost, rpcVars>>

\* The claim is refused or errs: a standby.
BootStandby(s) ==
  /\ status[s] = "down"
  /\ status' = [status EXCEPT ![s] = "booting"]
  /\ UNCHANGED <<hosted, handedOff, renew, unhost, rpcVars, dirVars>>

\* Shard.Run publishes runCtx and starts the renewal of every boot zone.
Run(s) ==
  /\ status[s] = "booting"
  /\ status' = [status EXCEPT ![s] = "up"]
  /\ renew' = [renew EXCEPT ![s] = IF hosted[s] THEN "boot" ELSE "none"]
  /\ UNCHANGED <<hosted, handedOff, unhost, rpcVars, dirVars>>

\* The process is gone, and with it every goroutine and in-memory map.
Stop(s) ==
  /\ status' = [status EXCEPT ![s] = "down"]
  /\ hosted' = [hosted EXCEPT ![s] = FALSE]
  /\ handedOff' = [handedOff EXCEPT ![s] = FALSE]
  /\ renew' = [renew EXCEPT ![s] = "none"]
  /\ unhost' = [unhost EXCEPT ![s] = "idle"]
  /\ handovers' = {h \in handovers : h.req.from # s}
  /\ adoptions' = {a \in adoptions : a.req.to # s}
  /\ UNCHANGED <<signed, flipped>>

Crash(s) ==
  /\ status[s] # "down"
  /\ Stop(s)
  /\ UNCHANGED dirVars

\* ctx.Done in renewZoneLease: a renewal that is cancelled releases the lease,
\* unless the zone reads as handed off.
Cancelled(s, handed) ==
  /\ zone' = IF renew[s] \in {"boot", "adopting", "confirmed"} /\ ~handed
             THEN ReleaseZone(zone, s) ELSE zone
  /\ UNCHANGED <<clock, issued>>

Shutdown(s) ==
  /\ status[s] = "up"
  /\ Stop(s)
  /\ Cancelled(s, handedOff[s])

-----------------------------------------------------------------------------
(* renewZoneLease: one tick of the renewal loop.                              *)

Running(s) == status[s] = "up" /\ renew[s] \in {"boot", "adopting", "confirmed"}

\* ClaimZone returns ok: the renewal has held the lease.
RenewOk(s) ==
  /\ Running(s) /\ ~handedOff[s]
  /\ Claim(s)
  /\ renew' = [renew EXCEPT ![s] = "confirmed"]
  /\ UNCHANGED <<status, hosted, handedOff, unhost, rpcVars>>

\* The zone was handed off between ticks: return, neither renew nor fence.
RenewHandedOff(s) ==
  /\ Running(s) /\ handedOff[s]
  /\ renew' = [renew EXCEPT ![s] = "stopped"]
  /\ UNCHANGED <<status, hosted, handedOff, unhost, rpcVars, dirVars>>

\* A confirmed renewal is refused: the lease is lost, onFence stops the shard.
Fence(s) ==
  /\ Running(s) /\ ~handedOff[s]
  /\ renew[s] = "confirmed" /\ ~ClaimGranted(zone, s)
  /\ Stop(s)
  /\ UNCHANGED dirVars

\* Mutant: no adoptConfirmDeadline, the renewal polls for ever.
AbandonNever(s) ==
  /\ Running(s) /\ renew[s] \in Unconfirmed /\ ~ClaimGranted(zone, s)
  /\ UNCHANGED vars

\* An unconfirmed renewal is refused past adoptConfirmDeadline: it gives up,
\* and a runtime adoption retires its registration and calls UnhostZone.
Abandon(s) ==
  /\ Running(s) /\ ~handedOff[s]
  /\ renew[s] \in Unconfirmed /\ ~ClaimGranted(zone, s)
  /\ IF renew[s] = "adopting"
     THEN /\ renew' = [renew EXCEPT ![s] = "none"]
          /\ unhost' = [unhost EXCEPT ![s] = "called"]
     ELSE /\ renew' = [renew EXCEPT ![s] = "stopped"]
          /\ UNCHANGED unhost
  /\ UNCHANGED <<status, hosted, handedOff, rpcVars, dirVars>>

-----------------------------------------------------------------------------
(* UnhostZone: the lease is read off mu, the zone removed under mu.           *)

\* renewingLocked: registered and not handed away.
Renewing(s) == renew[s] # "none" /\ ~handedOff[s]

\* What the checks before the second lock hold let through.
UnhostAllowed(s) ==
  /\ hosted[s] /\ s \notin Home
  /\ ZoneOwner(zone) # s
  /\ ~(ZoneOwner(zone) = None /\ Renewing(s))

\* Mutant: a refused call is never closed.
UnhostCheckStuck(s) ==
  /\ unhost[s] = "called"
  /\ unhost' = [unhost EXCEPT ![s] = IF UnhostAllowed(s) THEN "checked" ELSE "refused"]
  /\ UNCHANGED <<status, hosted, handedOff, renew, rpcVars, dirVars>>

UnhostCheck(s) ==
  /\ unhost[s] = "called"
  /\ unhost' = [unhost EXCEPT ![s] = IF UnhostAllowed(s) THEN "checked" ELSE "idle"]
  /\ UNCHANGED <<status, hosted, handedOff, renew, rpcVars, dirVars>>

\* Quiescent: the zone, its handed-off flag and its renewal go in one hold; the
\* renewal is cancelled with the flag already clear.
UnhostCommit(s) ==
  /\ unhost[s] = "checked"
  /\ Cancelled(s, FALSE)
  /\ hosted' = [hosted EXCEPT ![s] = FALSE]
  /\ handedOff' = [handedOff EXCEPT ![s] = FALSE]
  /\ renew' = [renew EXCEPT ![s] = "none"]
  /\ unhost' = [unhost EXCEPT ![s] = "idle"]
  /\ UNCHANGED <<status, rpcVars>>

\* Not quiescent: refused.
UnhostRefused(s) ==
  /\ unhost[s] = "checked"
  /\ unhost' = [unhost EXCEPT ![s] = "idle"]
  /\ UNCHANGED <<status, hosted, handedOff, renew, rpcVars, dirVars>>

-----------------------------------------------------------------------------
(* AdoptZone at the destination.                                              *)

\* verifyAdoptZoneSig and verifyAdoptZoneLease: the request is addressed here,
\* its generation is current and its source is the live owner.
AdoptAccepted(r) ==
  /\ zone.gen # 0 /\ r.gen = zone.gen
  /\ ZoneOwner(zone) = r.from

\* Any request ever signed may arrive, once, twice or long after the fact.
AdoptVerify(r) ==
  /\ r \in signed /\ status[r.to] = "up"
  /\ AdoptAccepted(r)
  /\ Cardinality(adoptions) < MaxAdoptions
  /\ adoptions' = adoptions \cup {[req |-> r, pc |-> "verified", start |-> "none"]}
  /\ UNCHANGED <<shardVars, handovers, signed, flipped, dirVars>>

\* HostZone's lock hold: build and publish the zone, or find it already hosted
\* (clearing the flag of one that was handed away).  An UnhostZone that checked
\* an earlier build finds another zone object at its commit and does nothing.
AdoptHost(a) ==
  LET s == a.req.to
      start == IF ~hosted[s] THEN "adopting"
               ELSE IF handedOff[s] THEN "boot" ELSE "none"
  IN /\ a.pc = "verified"
     /\ hosted' = [hosted EXCEPT ![s] = TRUE]
     /\ handedOff' = [handedOff EXCEPT ![s] = handedOff[s] /\ ~hosted[s]]
     /\ unhost' = [unhost EXCEPT ![s] =
                     IF ~hosted[s] /\ unhost[s] = "checked" THEN "idle" ELSE unhost[s]]
     /\ adoptions' = (adoptions \ {a}) \cup {[a EXCEPT !.pc = "built", !.start = start]}
     /\ UNCHANGED <<status, renew, handovers, signed, flipped, dirVars>>

\* The content cannot build the zone, or the caller's context died.
AdoptFail(a) ==
  /\ a.pc = "verified"
  /\ adoptions' = adoptions \ {a}
  /\ UNCHANGED <<shardVars, handovers, signed, flipped, dirVars>>

\* startZoneRenewalAdopting keeps a registered renewal; then the RPC replies.
AdoptReply(a) ==
  LET s == a.req.to
  IN /\ a.pc = "built"
     /\ renew' = [renew EXCEPT ![s] = IF renew[s] = "none" THEN a.start ELSE renew[s]]
     /\ adoptions' = adoptions \ {a}
     /\ handovers' = {IF h.req = a.req /\ h.pc = "signed"
                      THEN [h EXCEPT !.pc = "hosted"] ELSE h : h \in handovers}
     /\ UNCHANGED <<status, hosted, handedOff, unhost, signed, flipped, dirVars>>

-----------------------------------------------------------------------------
(* handoverZoneTo at the source.                                              *)

\* Read the lease, refuse unless the live owner, sign and send AdoptZone.
HandoverStart(s, t) ==
  LET r == [from |-> s, to |-> t, gen |-> zone.gen]
  IN /\ status[s] = "up" /\ hosted[s] /\ s # t
     /\ ZoneOwner(zone) = s
     /\ Cardinality({h \in handovers : h.req.from = s}) < MaxHandovers
     /\ handovers' = handovers \cup {[req |-> r, pc |-> "signed"]}
     /\ signed' = signed \cup {r}
     /\ UNCHANGED <<shardVars, adoptions, flipped, dirVars>>

\* The peer refuses, or the reply never comes.
HandoverFail(h) ==
  /\ h.pc \in {"signed", "hosted"}
  /\ handovers' = handovers \ {h}
  /\ UNCHANGED <<shardVars, adoptions, signed, flipped, dirVars>>

Advance(h, pc) == handovers' = (handovers \ {h}) \cup {[h EXCEPT !.pc = pc]}

\* markZoneHandedOff: set the flag and stop the renewal, BEFORE the flip.
HandoverMark(h) ==
  /\ h.pc = "hosted"
  /\ Advance(h, "marked")
  /\ handedOff' = [handedOff EXCEPT ![h.req.from] = TRUE]
  /\ renew' = [renew EXCEPT ![h.req.from] = "none"]
  /\ UNCHANGED <<status, hosted, unhost, adoptions, signed, flipped, dirVars>>

\* HandoverZone: the fenced flip.
HandoverFlip(h) ==
  /\ h.pc = "marked"
  /\ HandoverGranted(zone, h.req.from, h.req.to)
  /\ Write(HandoverZone(zone, h.req.to))
  /\ flipped' = flipped \cup {h.req}
  /\ Advance(h, "flipped")
  /\ UNCHANGED <<shardVars, adoptions, signed>>

\* The flip is refused (no longer the live owner) or the directory is
\* unreachable: the call returns an error.
HandoverFlipFails(h) ==
  /\ h.pc = "marked"
  /\ handovers' = handovers \ {h}
  /\ UNCHANGED <<shardVars, adoptions, signed, flipped, dirVars>>

\* RebalanceZone ends by unhosting the zone it gave away; a drain only exits.
HandoverDone(h) ==
  /\ h.pc = "flipped"
  /\ handovers' = handovers \ {h}
  /\ unhost' \in {unhost, [unhost EXCEPT ![h.req.from] = "called"]}
  /\ UNCHANGED <<status, hosted, handedOff, renew, adoptions, signed, flipped, dirVars>>

-----------------------------------------------------------------------------
RenewNext(s) == RenewOk(s) \/ RenewHandedOff(s) \/ Fence(s) \/ Abandon(s)
UnhostNext(s) == UnhostCheck(s) \/ UnhostCommit(s) \/ UnhostRefused(s)
LifeNext(s) == BootClaim(s) \/ BootStandby(s) \/ Run(s) \/ Crash(s) \/ Shutdown(s)
AdoptNext(a) == AdoptHost(a) \/ AdoptFail(a) \/ AdoptReply(a)
HandoverNext(h) == \/ HandoverFail(h) \/ HandoverMark(h) \/ HandoverFlip(h)
                   \/ HandoverFlipFails(h) \/ HandoverDone(h)

Next ==
  \/ Lapse
  \/ LoseKey
  \/ \E s \in Shards : LifeNext(s) \/ RenewNext(s) \/ UnhostNext(s)
  \/ \E r \in signed : AdoptVerify(r)
  \/ \E a \in adoptions : AdoptNext(a)
  \/ \E s, t \in Shards : HandoverStart(s, t)
  \/ \E h \in handovers : HandoverNext(h)

Spec == Init /\ [][Next]_vars

\* The renewal ticker of a running shard fires, and an UnhostZone call returns.
FairSpec == Spec /\ \A s \in Shards : WF_vars(RenewNext(s)) /\ WF_vars(UnhostNext(s))

-----------------------------------------------------------------------------
(* Properties.                                                                *)

\* A generation never names two owners, across lapses, releases, handovers and
\* even the loss of the directory key (claimZone's clock seed).
GenNamesOneOwner == \A p, q \in issued : p[1] = q[1] => p[2] = q[2]

\* Once the handover an AdoptZone authorised has landed, no copy of that request
\* passes verifyAdoptZoneLease again, however late it is delivered.
ConsumedNeverAccepted == \A r \in flipped : ~AdoptAccepted(r)

\* verifyAdoptZoneLease's argument: "req.LeaseGen == curGen transitively proves
\* the owner has not changed since the source read it".
GenProvesOwner ==
  \A r \in signed : zone.gen = r.gen => zone.owner \in {r.from, None}

\* A live lease is never stolen: its holder loses it only by its own handover,
\* by releasing it on shutdown, by letting it lapse, or with the whole key.
NoSteal ==
  [][\A s \in Shards : ZoneOwner(zone) = s /\ ZoneOwner(zone') # s =>
       \/ ~zone'.live
       \/ \E h \in handovers : h.req.from = s /\ h.pc = "marked" /\ h.req.to = zone'.owner]_vars

\* The directory implements the fenced lease.
Lease == INSTANCE FencedLease WITH holder <- ZoneOwner(zone), grants <- issued
ImplementsFencedLease == Lease!Spec

\* An unconfirmed renewal does not poll for the zone for ever (lease.go, #288):
\* it confirms, is stopped, or gives up.
AdoptionResolves ==
  \A s \in Shards : renew[s] \in Unconfirmed ~> (renew[s] \notin Unconfirmed \/ clock = MaxClock)

\* handoverZoneTo: a handover that returns an error leaves "the zone owned by
\* us"; so an owner outside a handover still renews what it owns.
OwnerNotHandedOff ==
  \A s \in Shards :
    handedOff[s] /\ ZoneOwner(zone) = s => \E h \in handovers : h.req.from = s

\* UnhostZone: "This shard must NOT be the zone's live owner in the directory".
UnhostNeverOwner ==
  [][\A s \in Shards : UnhostCommit(s) => ZoneOwner(zone) # s]_vars
=============================================================================
