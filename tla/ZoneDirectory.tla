--------------------------- MODULE ZoneDirectory ---------------------------
(* The zone-lease record of the Redis directory (internal/directory/redis.go) *)
(* and the Lua scripts that read and write it.  Redis runs a script           *)
(* atomically, so each one is an operator on the record: a guard that says    *)
(* when the script returns 1, and the record it leaves behind.                *)
(*                                                                            *)
(* The record keeps the three hash fields.  `expires` is abstracted to `live` *)
(* (does the lease still outlast redis.call('TIME')?); the holder's lease     *)
(* lapses in a step of its own.  gen = 0 stands for "the field is absent".    *)
EXTENDS Naturals

CONSTANTS Shards, None

ASSUME NoneAssumption == None \notin Shards

ZoneRecord == [owner : Shards \cup {None}, live : BOOLEAN, gen : Nat]

\* A key that was never claimed, or that a FLUSHDB / eviction / failover lost.
AbsentZone == [owner |-> None, live |-> FALSE, gen |-> 0]

\* Mutant: the expiry is not consulted, so anyone's claim is granted.
ClaimGrantedAlways(rec, s) == s \in Shards

\* claimZone returns 0 only when a DIFFERENT shard holds a still-live lease.
ClaimGranted(rec, s) == rec.owner \in {None, s} \/ ~rec.live

\* Mutant: the generation restarts from zero when the key is created.
NextGenUnseeded(rec, now) == rec.gen + 1

\* The generation after an ownership change: seeded from the clock on creation.
NextGen(rec, now) == (IF rec.gen = 0 THEN now ELSE rec.gen) + 1

\* Mutant: a takeover of a lapsed lease keeps its generation.
ClaimZoneKeepsGen(rec, s, now) ==
  [owner |-> s, live |-> TRUE, gen |-> IF rec.gen = 0 THEN now + 1 ELSE rec.gen]

\* claimZone's write: the stored owner renews, anyone else changes ownership.
ClaimZone(rec, s, now) ==
  [owner |-> s,
   live  |-> TRUE,
   gen   |-> IF rec.owner = s THEN rec.gen ELSE NextGen(rec, now)]

\* releaseZone: owner-fenced, drops owner and expires, keeps gen.
ReleaseZone(rec, s) ==
  IF rec.owner = s THEN [rec EXCEPT !.owner = None, !.live = FALSE] ELSE rec

\* Mutant: the flip is not fenced on the stored owner.
HandoverUnfenced(rec, from, to) == from # to /\ rec.live

\* handoverZone flips only from the current LIVE owner, never to itself.
HandoverGranted(rec, from, to) == from # to /\ rec.owner = from /\ rec.live

\* Mutant: the flip does not advance the generation.
HandoverKeepsGen(rec, to) == [rec EXCEPT !.owner = to]

HandoverZone(rec, to) == [owner |-> to, live |-> TRUE, gen |-> rec.gen + 1]

\* zoneOwner / zoneLease: a lapsed owner reads as "".
ZoneOwner(rec) == IF rec.live THEN rec.owner ELSE None
=============================================================================
