-------------------------- MODULE ZoneLeaseProofs --------------------------
(* Machine-checked proofs about ZoneLease, for any set of shards and any      *)
(* bounds: the generation fence and the refinement of FencedLease.            *)
EXTENDS ZoneLease, TLAPS

-----------------------------------------------------------------------------
(* The inductive invariant.  Its heart is that the record's generation is the *)
(* newest one granted, and that a lost key is re-seeded from a clock that has *)
(* passed every generation granted before it.                                 *)

Newest ==
  /\ zone.gen <= clock /\ clock # 0
  /\ \A p \in issued : p[1] # 0 /\ p[1] <= clock
  /\ zone.gen # 0 => \A p \in issued : p[1] <= zone.gen

OwnerGranted ==
  /\ zone.live => zone.owner # None
  /\ zone.owner # None => <<zone.gen, zone.owner>> \in issued
  /\ \A p \in issued : p[1] = zone.gen => zone.owner \in {None, p[2]}

RequestsGranted ==
  /\ \A r \in signed : <<r.gen, r.from>> \in issued
  /\ \A h \in handovers : h.req \in signed
  /\ \A r \in flipped : r \in signed /\ (zone.gen # 0 => r.gen < zone.gen)

FenceInv == TypeOK /\ Newest /\ OwnerGranted /\ GenNamesOneOwner /\ RequestsGranted

-----------------------------------------------------------------------------
(* Type correctness.                                                          *)

\* The scripts keep the record well formed.
LEMMA ScriptTypes ==
  ASSUME NEW rec \in ZoneRecord, NEW s \in Shards, NEW now \in Nat
  PROVE  /\ AbsentZone \in ZoneRecord
         /\ ClaimZone(rec, s, now) \in ZoneRecord
         /\ ReleaseZone(rec, s) \in ZoneRecord
         /\ HandoverZone(rec, s) \in ZoneRecord
  <1>1. AbsentZone \in ZoneRecord
    BY DEF ZoneRecord, AbsentZone
  <1>2. ClaimZone(rec, s, now) \in ZoneRecord
    BY DEF ZoneRecord, ClaimZone, NextGen
  <1>3. ReleaseZone(rec, s) \in ZoneRecord
    BY DEF ZoneRecord, ReleaseZone
  <1>4. HandoverZone(rec, s) \in ZoneRecord
    BY DEF ZoneRecord, HandoverZone
  <1>. QED
    BY <1>1, <1>2, <1>3, <1>4

\* A directory write is a claim or a flip, by a shard; it keeps the types of the
\* directory's state.
LEMMA WriteTypes ==
  ASSUME TypeOK, NEW rec \in ZoneRecord, rec.owner \in Shards, Write(rec)
  PROVE  zone' \in ZoneRecord /\ clock' \in Nat /\ issued' \in SUBSET (Nat \X Shards)
  BY DEF TypeOK, ZoneRecord, Write

\* A granted ClaimZone keeps the types of the directory state.
LEMMA ClaimTypes ==
  ASSUME TypeOK, NEW s \in Shards, Claim(s)
  PROVE  zone' \in ZoneRecord /\ clock' \in Nat /\ issued' \in SUBSET (Nat \X Shards)
  <1>1. zone \in ZoneRecord /\ clock \in Nat
    BY DEF TypeOK
  <1>2. ClaimZone(zone, s, clock) \in ZoneRecord
    BY <1>1, ScriptTypes
  <1>3. ClaimZone(zone, s, clock).owner = s
    BY DEF ClaimZone
  <1>4. Write(ClaimZone(zone, s, clock))
    BY DEF Claim
  <1>. QED
    BY <1>2, <1>3, <1>4, WriteTypes

\* A process that stops keeps every type.
LEMMA StopTypes ==
  ASSUME TypeOK, NEW s \in Shards, Stop(s)
  PROVE  /\ status' \in [Shards -> {"down", "booting", "up"}]
         /\ hosted' \in [Shards -> BOOLEAN]
         /\ handedOff' \in [Shards -> BOOLEAN]
         /\ renew' \in [Shards -> RenewState]
         /\ unhost' \in [Shards -> {"idle", "called", "checked"}]
         /\ handovers' \in SUBSET Handover
         /\ adoptions' \in SUBSET Adoption
         /\ signed' \in SUBSET Request
         /\ flipped' \in SUBSET Request
  BY DEF TypeOK, Stop, RenewState

\* Every step keeps TypeOK: one case per action.
LEMMA TypeStep == TypeOK /\ [Next]_vars => TypeOK'
<1>. SUFFICES ASSUME TypeOK, [Next]_vars PROVE TypeOK'
  OBVIOUS
<1>. USE DEF shardVars, rpcVars, dirVars
<1>1. CASE Lapse
  BY <1>1 DEF TypeOK, Lapse, ZoneRecord
<1>2. CASE LoseKey
  BY <1>2 DEF TypeOK, LoseKey, AbsentZone, ZoneRecord
<1>3. ASSUME NEW s \in Shards, LifeNext(s) PROVE TypeOK'
  <2>1. CASE BootClaim(s)
    BY <2>1, ClaimTypes DEF TypeOK, BootClaim
  <2>2. CASE BootStandby(s)
    BY <2>2 DEF TypeOK, BootStandby
  <2>3. CASE Run(s)
    BY <2>3 DEF TypeOK, Run, RenewState
  <2>4. CASE Crash(s)
    BY <2>4, StopTypes DEF TypeOK, Crash
  <2>5. CASE Shutdown(s)
    <3>1. zone' \in ZoneRecord
      BY <2>5, ScriptTypes DEF TypeOK, Shutdown, Cancelled
    <3>. QED
      BY <2>5, <3>1, StopTypes DEF TypeOK, Shutdown, Cancelled
  <2>. QED
    BY <1>3, <2>1, <2>2, <2>3, <2>4, <2>5 DEF LifeNext
<1>4. ASSUME NEW s \in Shards, RenewNext(s) PROVE TypeOK'
  <2>1. CASE RenewOk(s)
    BY <2>1, ClaimTypes DEF TypeOK, RenewOk, RenewState
  <2>2. CASE RenewHandedOff(s)
    BY <2>2 DEF TypeOK, RenewHandedOff, RenewState
  <2>3. CASE Fence(s)
    BY <2>3, StopTypes DEF TypeOK, Fence
  <2>4. CASE Abandon(s)
    BY <2>4 DEF TypeOK, Abandon, RenewState
  <2>. QED
    BY <1>4, <2>1, <2>2, <2>3, <2>4 DEF RenewNext
<1>5. ASSUME NEW s \in Shards, UnhostNext(s) PROVE TypeOK'
  <2>1. CASE UnhostCommit(s)
    <3>1. zone' \in ZoneRecord
      BY <2>1, ScriptTypes DEF TypeOK, UnhostCommit, Cancelled
    <3>. QED
      BY <2>1, <3>1 DEF TypeOK, UnhostCommit, Cancelled, RenewState
  <2>2. CASE UnhostCheck(s) \/ UnhostRefused(s)
    BY <2>2 DEF TypeOK, UnhostCheck, UnhostRefused
  <2>. QED
    BY <1>5, <2>1, <2>2 DEF UnhostNext
<1>6. ASSUME NEW r \in signed, AdoptVerify(r) PROVE TypeOK'
  BY <1>6 DEF TypeOK, AdoptVerify, Adoption
<1>7. ASSUME NEW a \in adoptions, AdoptNext(a) PROVE TypeOK'
  <2>0. a \in Adoption /\ a.req.to \in Shards
    BY DEF TypeOK, Adoption, Request
  <2>1. CASE AdoptHost(a)
    BY <2>0, <2>1 DEF TypeOK, AdoptHost, Adoption
  <2>2. CASE AdoptFail(a)
    BY <2>2 DEF TypeOK, AdoptFail
  <2>3. CASE AdoptReply(a)
    <3>1. handovers' \in SUBSET Handover
      BY <2>3 DEF TypeOK, AdoptReply, Handover
    <3>2. renew' \in [Shards -> RenewState]
      BY <2>0, <2>3 DEF TypeOK, AdoptReply, Adoption, RenewState
    <3>. QED
      BY <2>3, <3>1, <3>2 DEF TypeOK, AdoptReply
  <2>. QED
    BY <1>7, <2>1, <2>2, <2>3 DEF AdoptNext
<1>8. ASSUME NEW s \in Shards, NEW t \in Shards, HandoverStart(s, t) PROVE TypeOK'
  BY <1>8 DEF TypeOK, HandoverStart, Handover, Request, ZoneRecord
<1>9. ASSUME NEW h \in handovers, HandoverNext(h) PROVE TypeOK'
  <2>0. h \in Handover /\ h.req \in Request /\ h.req.from \in Shards /\ h.req.to \in Shards
    BY DEF TypeOK, Handover, Request
  <2>1. CASE HandoverFail(h)
    BY <2>1 DEF TypeOK, HandoverFail
  <2>2. CASE HandoverMark(h)
    BY <2>0, <2>2 DEF TypeOK, HandoverMark, Advance, Handover, RenewState
  <2>3. CASE HandoverFlip(h)
    <3>1. HandoverZone(zone, h.req.to) \in ZoneRecord
      BY <2>0, ScriptTypes DEF TypeOK
    <3>2. zone' \in ZoneRecord /\ clock' \in Nat /\ issued' \in SUBSET (Nat \X Shards)
      BY <2>0, <2>3, <3>1, WriteTypes DEF HandoverFlip, HandoverZone
    <3>. QED
      BY <2>0, <2>3, <3>2 DEF TypeOK, HandoverFlip, Advance, Handover
  <2>4. CASE HandoverFlipFails(h)
    BY <2>4 DEF TypeOK, HandoverFlipFails
  <2>5. CASE HandoverDone(h)
    BY <2>0, <2>5 DEF TypeOK, HandoverDone
  <2>. QED
    BY <1>9, <2>1, <2>2, <2>3, <2>4, <2>5 DEF HandoverNext
<1>10. CASE UNCHANGED vars
  BY <1>10 DEF TypeOK, vars
<1>. QED
  BY <1>1, <1>2, <1>3, <1>4, <1>5, <1>6, <1>7, <1>8, <1>9, <1>10 DEF Next

\* The initial state is well formed.
LEMMA TypeInit == Init => TypeOK
  BY NoneAssumption DEF Init, TypeOK, AbsentZone, ZoneRecord, RenewState

\* Every variable of the lease keeps its type in every reachable state.
THEOREM TypeCorrect == Spec => []TypeOK
  BY TypeInit, TypeStep, PTL DEF Spec

-----------------------------------------------------------------------------
(* The generation fence.  Only three kinds of step touch the directory: a     *)
(* claim, a flip, and a step that drops the owner or the key.                 *)

\* The directory half of the invariant.
DirInv == Newest /\ OwnerGranted /\ GenNamesOneOwner

\* A step that takes the lease away and grants nothing: lapse, release, lost key.
Drop ==
  /\ zone'.gen = zone.gen \/ (zone'.gen = 0 /\ zone'.owner = None)
  /\ zone'.owner \in {None, zone.owner}
  /\ zone'.live => zone.live /\ zone'.owner = zone.owner
  /\ UNCHANGED <<clock, issued>>

\* A write keeps the directory half when the new record is a renewal by the
\* stored owner or carries a generation above all granted before.
LEMMA WriteFresh ==
  ASSUME TypeOK, DirInv, NEW rec \in ZoneRecord, rec.owner \in Shards, Write(rec),
         rec.gen <= clock + 1, rec.gen # zone.gen, rec.gen # 0,
         \A p \in issued : p[1] < rec.gen
  PROVE  DirInv'
  <1>1. /\ zone' = rec /\ clock' = clock + 1
        /\ issued' = issued \cup {<<rec.gen, rec.owner>>}
    BY DEF Write
  <1>2. clock \in Nat /\ rec.gen \in Nat /\ issued \in SUBSET (Nat \X Shards)
    BY DEF TypeOK, ZoneRecord
  <1>4. Newest'
    BY <1>1, <1>2 DEF DirInv, Newest
  <1>5. OwnerGranted'
    BY <1>1, <1>2, NoneAssumption DEF DirInv, OwnerGranted
  <1>6. GenNamesOneOwner'
    BY <1>1, <1>2 DEF DirInv, GenNamesOneOwner
  <1>. QED
    BY <1>4, <1>5, <1>6 DEF DirInv

\* A claim by the stored owner is a renewal: the generation stays, and the pair
\* was granted before.
LEMMA ClaimRenews ==
  ASSUME TypeOK, DirInv, NEW s \in Shards, Claim(s), zone.owner = s
  PROVE  /\ DirInv' /\ issued' = issued /\ clock' = clock
         /\ zone' = [owner |-> s, live |-> TRUE, gen |-> zone.gen]
         /\ <<zone.gen, s>> \in issued
  <1>1. zone' = [owner |-> s, live |-> TRUE, gen |-> zone.gen]
    BY DEF Claim, Write, ClaimZone
  <1>2. <<zone.gen, s>> \in issued
    BY NoneAssumption DEF DirInv, OwnerGranted
  <1>3. issued' = issued /\ clock' = clock
    BY <1>2 DEF Claim, Write, ClaimZone
  <1>4. zone'.gen = zone.gen /\ zone'.owner = zone.owner
    BY <1>1
  <1>5. Newest'
    BY <1>3, <1>4 DEF DirInv, Newest
  <1>6. OwnerGranted'
    BY <1>2, <1>3, <1>4, NoneAssumption DEF DirInv, OwnerGranted
  <1>7. GenNamesOneOwner'
    BY <1>3 DEF DirInv, GenNamesOneOwner
  <1>. QED
    BY <1>1, <1>2, <1>3, <1>5, <1>6, <1>7 DEF DirInv

\* A claim by anyone else is granted only when no live owner exists, under a
\* generation above every one granted before: the stored one plus one, or, when
\* the key was lost, the clock plus one.
LEMMA ClaimTakes ==
  ASSUME TypeOK, DirInv, NEW s \in Shards, Claim(s), zone.owner # s
  PROVE  /\ DirInv' /\ ZoneOwner(zone) = None /\ ZoneOwner(zone') = s
         /\ issued' = issued \cup {<<zone'.gen, s>>}
         /\ zone'.gen \in Nat /\ zone'.gen # 0 /\ zone.gen < zone'.gen
         /\ \A p \in issued : p[1] < zone'.gen
  <1> DEFINE rec == ClaimZone(zone, s, clock)
  <1>1. /\ clock \in Nat /\ clock # 0 /\ zone \in ZoneRecord /\ zone.gen \in Nat
        /\ zone.gen <= clock /\ issued \in SUBSET (Nat \X Shards)
    BY DEF TypeOK, ZoneRecord, DirInv, Newest
  <1>2. rec \in ZoneRecord /\ rec.owner = s /\ rec.live /\ rec.gen = NextGen(zone, clock)
    BY <1>1, ScriptTypes DEF ClaimZone
  <1>3. /\ rec.gen \in Nat /\ rec.gen # 0 /\ zone.gen < rec.gen /\ rec.gen <= clock + 1
        /\ \A p \in issued : p[1] < rec.gen
    BY <1>1, <1>2 DEF NextGen, DirInv, Newest
  <1>4. Write(rec) /\ ClaimGranted(zone, s)
    BY DEF Claim
  <1>5. DirInv'
    BY <1>1, <1>2, <1>3, <1>4, WriteFresh
  <1>6. ZoneOwner(zone) = None
    BY <1>1, <1>4 DEF ClaimGranted, ZoneOwner, ZoneRecord
  <1>7. zone' = rec /\ issued' = issued \cup {<<rec.gen, s>>}
    BY <1>2, <1>4 DEF Write
  <1>. QED
    BY <1>2, <1>3, <1>5, <1>6, <1>7 DEF ZoneOwner

\* A flip moves a live lease from its owner to another shard, one generation up.
LEMMA FlipMoves ==
  ASSUME TypeOK, DirInv, NEW s \in Shards, NEW t \in Shards,
         HandoverGranted(zone, s, t), Write(HandoverZone(zone, t))
  PROVE  /\ DirInv' /\ ZoneOwner(zone) = s /\ ZoneOwner(zone') = t
         /\ issued' = issued \cup {<<zone'.gen, t>>}
         /\ zone.gen # 0 /\ zone'.gen = zone.gen + 1
         /\ \A p \in issued : p[1] < zone'.gen
  <1> DEFINE rec == HandoverZone(zone, t)
  <1>1. /\ clock \in Nat /\ zone \in ZoneRecord /\ zone.gen \in Nat
        /\ zone.gen <= clock /\ issued \in SUBSET (Nat \X Shards)
    BY DEF TypeOK, ZoneRecord, DirInv, Newest
  <1>2. zone.owner = s /\ zone.live /\ <<zone.gen, s>> \in issued /\ s # t
    BY NoneAssumption DEF HandoverGranted, DirInv, OwnerGranted
  <1>3. zone.gen # 0
    BY <1>2 DEF DirInv, Newest
  <1>4. rec \in ZoneRecord /\ rec.owner = t /\ rec.live /\ rec.gen = zone.gen + 1
    BY <1>1, ScriptTypes DEF HandoverZone
  <1>5. \A p \in issued : p[1] < rec.gen
    BY <1>1, <1>3, <1>4 DEF DirInv, Newest
  <1>6. DirInv'
    BY <1>1, <1>4, <1>5, WriteFresh
  <1>7. zone' = rec /\ issued' = issued \cup {<<rec.gen, t>>}
    BY <1>4 DEF Write
  <1>. QED
    BY <1>2, <1>3, <1>4, <1>5, <1>6, <1>7 DEF ZoneOwner

\* Dropping the owner or the key grants nothing.
LEMMA DropKeeps ==
  ASSUME TypeOK, DirInv, Drop
  PROVE  /\ DirInv' /\ ZoneOwner(zone') \in {ZoneOwner(zone), None}
         /\ zone'.gen \in {0, zone.gen}
  <1>1. zone \in ZoneRecord /\ clock \in Nat /\ issued \in SUBSET (Nat \X Shards)
    BY DEF TypeOK
  <1>2. zone'.gen \in {0, zone.gen} /\ ZoneOwner(zone') \in {ZoneOwner(zone), None}
    BY DEF Drop, ZoneOwner
  <1>3. Newest'
    BY <1>1, <1>2 DEF Drop, DirInv, Newest, ZoneRecord
  <1>4. OwnerGranted'
    BY <1>1 DEF Drop, DirInv, OwnerGranted, Newest, ZoneRecord
  <1>5. GenNamesOneOwner'
    BY DEF Drop, DirInv, GenNamesOneOwner
  <1>. QED
    BY <1>2, <1>3, <1>4, <1>5 DEF DirInv

\* The step neither signs nor completes a handover; calls may end or advance.
KeepsRequests ==
  /\ signed' = signed /\ flipped' = flipped
  /\ \A h \in handovers' : \E g \in handovers : g.req = h.req

\* What a step may do to the directory.
LEMMA StepKinds ==
  ASSUME TypeOK, [Next]_vars
  PROVE  \/ KeepsRequests /\ Drop
         \/ KeepsRequests /\ \E s \in Shards : Claim(s)
         \/ \E s, t \in Shards : HandoverStart(s, t)
         \/ \E h \in handovers : HandoverFlip(h)
<1>. DEFINE Goal == \/ KeepsRequests /\ Drop
                    \/ KeepsRequests /\ \E s \in Shards : Claim(s)
<1>. USE DEF shardVars, rpcVars, dirVars
<1>0. zone \in ZoneRecord
  BY DEF TypeOK
<1>1. CASE Lapse
  BY <1>0, <1>1 DEF Lapse, KeepsRequests, Drop, ZoneRecord
<1>2. CASE LoseKey
  BY <1>0, <1>2 DEF LoseKey, KeepsRequests, Drop, AbsentZone
<1>3. ASSUME NEW s \in Shards, LifeNext(s) PROVE Goal
  <2>1. CASE BootClaim(s)
    BY <2>1 DEF BootClaim, KeepsRequests
  <2>2. CASE BootStandby(s) \/ Run(s)
    BY <2>2 DEF BootStandby, Run, KeepsRequests, Drop
  <2>3. CASE Crash(s)
    BY <2>3 DEF Crash, Stop, KeepsRequests, Drop
  <2>4. CASE Shutdown(s)
    <3>1. KeepsRequests
      BY <2>4 DEF Shutdown, Stop, KeepsRequests
    <3>2. Drop
      BY <1>0, <2>4 DEF Shutdown, Cancelled, ReleaseZone, Drop, ZoneRecord
    <3>. QED
      BY <3>1, <3>2
  <2>. QED
    BY <1>3, <2>1, <2>2, <2>3, <2>4 DEF LifeNext
<1>4. ASSUME NEW s \in Shards, RenewNext(s) PROVE Goal
  <2>1. CASE RenewOk(s)
    BY <2>1 DEF RenewOk, KeepsRequests
  <2>2. CASE RenewHandedOff(s) \/ Abandon(s)
    BY <2>2 DEF RenewHandedOff, Abandon, KeepsRequests, Drop
  <2>3. CASE Fence(s)
    BY <2>3 DEF Fence, Stop, KeepsRequests, Drop
  <2>. QED
    BY <1>4, <2>1, <2>2, <2>3 DEF RenewNext
<1>5. ASSUME NEW s \in Shards, UnhostNext(s) PROVE Goal
  <2>1. CASE UnhostCommit(s)
    <3>1. KeepsRequests
      BY <2>1 DEF UnhostCommit, Cancelled, KeepsRequests
    <3>2. Drop
      BY <1>0, <2>1 DEF UnhostCommit, Cancelled, ReleaseZone, Drop, ZoneRecord
    <3>. QED
      BY <3>1, <3>2
  <2>2. CASE UnhostCheck(s) \/ UnhostRefused(s)
    BY <2>2 DEF UnhostCheck, UnhostRefused, KeepsRequests, Drop
  <2>. QED
    BY <1>5, <2>1, <2>2 DEF UnhostNext
<1>6. ASSUME NEW r \in signed, AdoptVerify(r) PROVE Goal
  BY <1>6 DEF AdoptVerify, KeepsRequests, Drop
<1>7. ASSUME NEW a \in adoptions, AdoptNext(a) PROVE Goal
  <2>1. CASE AdoptHost(a) \/ AdoptFail(a)
    BY <2>1 DEF AdoptHost, AdoptFail, KeepsRequests, Drop
  <2>2. CASE AdoptReply(a)
    <3>1. \A h \in handovers : [h EXCEPT !.pc = "hosted"].req = h.req
      BY DEF TypeOK, Handover
    <3>. QED
      BY <2>2, <3>1 DEF AdoptReply, KeepsRequests, Drop
  <2>. QED
    BY <1>7, <2>1, <2>2 DEF AdoptNext
<1>8. ASSUME NEW h \in handovers, HandoverNext(h), ~HandoverFlip(h) PROVE Goal
  <2>1. CASE HandoverFail(h) \/ HandoverFlipFails(h) \/ HandoverDone(h)
    BY <2>1 DEF HandoverFail, HandoverFlipFails, HandoverDone, KeepsRequests, Drop
  <2>2. CASE HandoverMark(h)
    <3>1. [h EXCEPT !.pc = "marked"].req = h.req
      BY DEF TypeOK, Handover
    <3>. QED
      BY <2>2, <3>1 DEF HandoverMark, Advance, KeepsRequests, Drop
  <2>. QED
    BY <1>8, <2>1, <2>2 DEF HandoverNext
<1>9. CASE UNCHANGED vars
  BY <1>9 DEF vars, KeepsRequests, Drop
<1>. QED
  BY <1>1, <1>2, <1>3, <1>4, <1>5, <1>6, <1>7, <1>8, <1>9 DEF Next

\* Steps that keep the requests keep what is known of them, if the generation
\* only grows or the key is lost.
LEMMA RequestsKept ==
  ASSUME TypeOK, RequestsGranted, KeepsRequests, issued \subseteq issued',
         zone'.gen \in Nat,
         \/ zone'.gen = 0
         \/ zone'.gen = zone.gen
         \/ \A p \in issued : p[1] < zone'.gen
  PROVE  RequestsGranted'
  <1>1. \A r \in signed : r.gen \in Nat /\ <<r.gen, r.from>> \in issued
    BY DEF TypeOK, Request, RequestsGranted
  <1>2. \A r \in signed : (\A p \in issued : p[1] < zone'.gen) => r.gen < zone'.gen
    BY <1>1
  <1>3. \A r \in flipped' : r \in signed /\ (zone'.gen # 0 => r.gen < zone'.gen)
    BY <1>2 DEF RequestsGranted, KeepsRequests
  <1>. QED
    BY <1>1, <1>3 DEF RequestsGranted, KeepsRequests

\* FenceInv is inductive: one case per kind of step StepKinds tells apart.
LEMMA FenceStep == FenceInv /\ [Next]_vars => FenceInv'
<1>. SUFFICES ASSUME FenceInv, [Next]_vars PROVE FenceInv'
  OBVIOUS
<1>1. TypeOK /\ DirInv /\ RequestsGranted
  BY DEF FenceInv, DirInv
<1>2. TypeOK'
  BY <1>1, TypeStep
<1>3. zone'.gen \in Nat
  BY <1>2 DEF TypeOK, ZoneRecord
<1>4. CASE KeepsRequests /\ Drop
  <2>1. DirInv' /\ zone'.gen \in {0, zone.gen} /\ issued' = issued
    BY <1>1, <1>4, DropKeeps DEF Drop
  <2>2. RequestsGranted'
    BY <1>1, <1>3, <1>4, <2>1, RequestsKept
  <2>. QED
    BY <1>2, <2>1, <2>2 DEF FenceInv, DirInv
<1>5. ASSUME KeepsRequests, NEW s \in Shards, Claim(s) PROVE FenceInv'
  <2>1. CASE zone.owner = s
    <3>0. DirInv' /\ issued' = issued /\ zone' = [owner |-> s, live |-> TRUE, gen |-> zone.gen]
      BY <1>1, <1>5, <2>1, ClaimRenews
    <3>1. DirInv' /\ issued' = issued /\ zone'.gen = zone.gen
      BY <3>0
    <3>2. RequestsGranted'
      BY <1>1, <1>3, <1>5, <3>1, RequestsKept
    <3>. QED
      BY <1>2, <3>1, <3>2 DEF FenceInv, DirInv
  <2>2. CASE zone.owner # s
    <3>1. DirInv' /\ issued \subseteq issued' /\ \A p \in issued : p[1] < zone'.gen
      BY <1>1, <1>5, <2>2, ClaimTakes
    <3>2. RequestsGranted'
      BY <1>1, <1>3, <1>5, <3>1, RequestsKept
    <3>. QED
      BY <1>2, <3>1, <3>2 DEF FenceInv, DirInv
  <2>. QED
    BY <2>1, <2>2
<1>6. ASSUME NEW s \in Shards, NEW t \in Shards, HandoverStart(s, t) PROVE FenceInv'
  <2> DEFINE r == [from |-> s, to |-> t, gen |-> zone.gen]
  <2>1. /\ zone' = zone /\ clock' = clock /\ issued' = issued /\ flipped' = flipped
        /\ signed' = signed \cup {r} /\ ZoneOwner(zone) = s
        /\ handovers' = handovers \cup {[req |-> r, pc |-> "signed"]}
    BY <1>6 DEF HandoverStart, dirVars
  <2>2. <<zone.gen, s>> \in issued
    BY <1>1, <2>1, NoneAssumption DEF ZoneOwner, DirInv, OwnerGranted
  <2>3. RequestsGranted'
    BY <1>1, <2>1, <2>2 DEF RequestsGranted
  <2>4. DirInv'
    BY <1>1, <2>1 DEF DirInv, Newest, OwnerGranted, GenNamesOneOwner
  <2>. QED
    BY <1>2, <2>3, <2>4 DEF FenceInv, DirInv
<1>7. ASSUME NEW h \in handovers, HandoverFlip(h) PROVE FenceInv'
  <2>1. /\ h.req \in signed /\ h.req.from \in Shards /\ h.req.to \in Shards
        /\ \A r \in signed : r.gen \in Nat
        /\ [h EXCEPT !.pc = "flipped"].req = h.req
    BY <1>1 DEF RequestsGranted, TypeOK, Handover, Request
  <2>2. /\ DirInv' /\ issued \subseteq issued' /\ zone'.gen = zone.gen + 1
        /\ \A p \in issued : p[1] < zone'.gen
    BY <1>1, <1>7, <2>1, FlipMoves DEF HandoverFlip
  <2>3. /\ signed' = signed /\ flipped' = flipped \cup {h.req}
        /\ handovers' = (handovers \ {h}) \cup {[h EXCEPT !.pc = "flipped"]}
    BY <1>7 DEF HandoverFlip, Advance
  <2>4. \A r \in signed : <<r.gen, r.from>> \in issued' /\ r.gen < zone'.gen
    BY <1>1, <2>1, <2>2 DEF RequestsGranted
  <2>5. RequestsGranted'
    BY <1>1, <2>1, <2>3, <2>4 DEF RequestsGranted
  <2>. QED
    BY <1>2, <2>2, <2>5 DEF FenceInv, DirInv
<1>. QED
  BY <1>1, <1>4, <1>5, <1>6, <1>7, StepKinds

\* An unclaimed zone satisfies the fence invariant.
LEMMA FenceInit == Init => FenceInv
  BY TypeInit DEF Init, FenceInv, Newest, OwnerGranted, GenNamesOneOwner,
                  RequestsGranted, AbsentZone

\* The fence invariant holds in every reachable state.
THEOREM FenceInvariant == Spec => []FenceInv
  BY FenceInit, FenceStep, PTL DEF Spec

\* A lease generation never names two owners (claimZone, handoverZone), through
\* any number of lapses, releases, handovers and losses of the directory key.
THEOREM GenerationsAreUnique == Spec => []GenNamesOneOwner
  <1>1. FenceInv => GenNamesOneOwner
    BY DEF FenceInv
  <1>. QED
    BY <1>1, FenceInvariant, PTL

\* A request whose handover landed is refused for ever (verifyAdoptZoneLease).
THEOREM ReplayRefused == Spec => []ConsumedNeverAccepted
  <1>1. FenceInv => ConsumedNeverAccepted
    BY DEF FenceInv, TypeOK, Request, ZoneRecord, RequestsGranted,
           ConsumedNeverAccepted, AdoptAccepted
  <1>. QED
    BY <1>1, FenceInvariant, PTL

\* A matching generation proves that the signer is still the recorded owner.
THEOREM GenerationProvesOwner == Spec => []GenProvesOwner
  <1>1. FenceInv => GenProvesOwner
    BY DEF FenceInv, OwnerGranted, RequestsGranted, GenProvesOwner
  <1>. QED
    BY <1>1, FenceInvariant, PTL

-----------------------------------------------------------------------------
(* The refinement, and the single-writer guarantee it rests on.               *)

\* Every step of the lease is a step of FencedLease or leaves it unchanged.
LEMMA RefinementStep == FenceInv /\ [Next]_vars => [Lease!Next]_(Lease!vars)
<1>. SUFFICES ASSUME FenceInv, [Next]_vars PROVE [Lease!Next]_(Lease!vars)
  OBVIOUS
<1>1. TypeOK /\ DirInv /\ zone \in ZoneRecord /\ issued \in SUBSET (Nat \X Shards)
  BY DEF FenceInv, DirInv, TypeOK
<1>2. CASE KeepsRequests /\ Drop
  <2>1. ZoneOwner(zone') \in {ZoneOwner(zone), None} /\ issued' = issued
    BY <1>1, <1>2, DropKeeps DEF Drop
  <2>. QED
    BY <2>1 DEF Lease!Next, Lease!Lose, Lease!vars
<1>3. ASSUME NEW s \in Shards, Claim(s) PROVE [Lease!Next]_(Lease!vars)
  <2>1. CASE zone.owner = s
    <3>1. /\ issued' = issued /\ <<zone.gen, s>> \in issued
          /\ zone' = [owner |-> s, live |-> TRUE, gen |-> zone.gen]
      BY <1>1, <1>3, <2>1, ClaimRenews
    <3>2. ZoneOwner(zone') = s /\ ZoneOwner(zone) \in {s, None}
      BY <2>1, <3>1 DEF ZoneOwner
    <3>3. zone.gen # 0 /\ \A q \in issued : q[1] <= zone.gen
      BY <1>1, <3>1 DEF DirInv, Newest
    <3>4. CASE ZoneOwner(zone) = s
      BY <3>1, <3>2, <3>4 DEF Lease!vars
    <3>5. CASE ZoneOwner(zone) = None
      BY <3>1, <3>2, <3>3, <3>5 DEF Lease!Next, Lease!Resume
    <3>. QED
      BY <3>2, <3>4, <3>5
  <2>2. CASE zone.owner # s
    <3>1. /\ ZoneOwner(zone) = None /\ ZoneOwner(zone') = s
          /\ issued' = issued \cup {<<zone'.gen, s>>}
          /\ \A p \in issued : p[1] < zone'.gen
      BY <1>1, <1>3, <2>2, ClaimTakes
    <3>. QED
      BY <3>1 DEF Lease!Next, Lease!Acquire, Lease!Grant
  <2>. QED
    BY <2>1, <2>2
<1>4. ASSUME NEW s \in Shards, NEW t \in Shards, HandoverStart(s, t)
      PROVE [Lease!Next]_(Lease!vars)
  BY <1>4 DEF HandoverStart, dirVars, Lease!vars
<1>5. ASSUME NEW h \in handovers, HandoverFlip(h) PROVE [Lease!Next]_(Lease!vars)
  <2>1. h.req.from \in Shards /\ h.req.to \in Shards
    BY <1>1 DEF TypeOK, Handover, Request
  <2>2. h.req.from # h.req.to
    BY <1>5 DEF HandoverFlip, HandoverGranted
  <2>3. /\ ZoneOwner(zone) = h.req.from /\ ZoneOwner(zone') = h.req.to
        /\ issued' = issued \cup {<<zone'.gen, h.req.to>>}
        /\ \A p \in issued : p[1] < zone'.gen
    BY <1>1, <1>5, <2>1, FlipMoves DEF HandoverFlip
  <2>. QED
    BY <2>1, <2>2, <2>3 DEF Lease!Next, Lease!HandOver, Lease!Grant
<1>. QED
  BY <1>1, <1>2, <1>3, <1>4, <1>5, StepKinds

\* An unclaimed zone maps to a free lease that was never granted.
LEMMA RefinementInit == Init => Lease!Init
  BY DEF Init, Lease!Init, ZoneOwner, AbsentZone

\* The lease protocol implements the fenced lease: one holder at a time, moved
\* only by its holder, every change of owner under a fresh token.
THEOREM LeaseRefinement == Spec => ImplementsFencedLease
  <1>1. Spec => Lease!Init /\ [][Lease!Next]_(Lease!vars)
    BY FenceInvariant, RefinementInit, RefinementStep, PTL DEF Spec
  <1>. QED
    BY <1>1 DEF ImplementsFencedLease, Lease!Spec

\* A live lease leaves its holder only through its own handover, or lapses, is
\* released or is lost with the key: nobody steals it.
THEOREM LeaseNotStolen == Spec => NoSteal
  <1> DEFINE Kept == \A s \in Shards : ZoneOwner(zone) = s /\ ZoneOwner(zone') # s =>
           \/ ~zone'.live
           \/ \E h \in handovers : h.req.from = s /\ h.pc = "marked" /\ h.req.to = zone'.owner
  <1>1. FenceInv /\ [Next]_vars => [Kept]_vars
    <2>. SUFFICES ASSUME FenceInv, [Next]_vars PROVE Kept
      OBVIOUS
    <2>1. TypeOK /\ DirInv /\ zone \in ZoneRecord
      BY DEF FenceInv, DirInv, TypeOK
    <2>2. CASE KeepsRequests /\ Drop
      BY <2>2 DEF Drop, ZoneOwner
    <2>3. ASSUME NEW t \in Shards, Claim(t) PROVE Kept
      <3>1. CASE zone.owner = t
        <4>1. zone' = [owner |-> t, live |-> TRUE, gen |-> zone.gen]
          BY <2>1, <2>3, <3>1, ClaimRenews
        <4>. QED
          BY <3>1, <4>1, NoneAssumption DEF ZoneOwner
      <3>2. CASE zone.owner # t
        BY <2>1, <2>3, <3>2, ClaimTakes, NoneAssumption
      <3>. QED
        BY <3>1, <3>2
    <2>4. ASSUME NEW t \in Shards, NEW u \in Shards, HandoverStart(t, u) PROVE Kept
      BY <2>4 DEF HandoverStart, dirVars
    <2>5. ASSUME NEW h \in handovers, HandoverFlip(h) PROVE Kept
      BY <2>5, NoneAssumption
      DEF HandoverFlip, HandoverGranted, Write, HandoverZone, ZoneOwner
    <2>. QED
      BY <2>1, <2>2, <2>3, <2>4, <2>5, StepKinds
  <1>. QED
    BY <1>1, FenceInvariant, PTL DEF Spec, NoSteal
=============================================================================
