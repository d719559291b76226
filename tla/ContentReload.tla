--------------------------- MODULE ContentReload ---------------------------
(* Hot reload of content: imports and staff reloads publish invalidations on the *)
(* content bus (internal/contentpull, internal/contentbus, world/reloadcmd.go),  *)
(* and a shard re-reads rows into its prototype cache, its content snapshot and  *)
(* its live zone (world/reload.go, world/world.go).  A row is the stamp of the   *)
(* edit that wrote it, 0 when there is none.                                     *)
EXTENDS Naturals, Sequences, FiniteSets

CONSTANTS CrRooms,     \* rooms of the zone besides its start room
          CrMaxVer,    \* bound: content versions minted
          CrFaults     \* bound: disconnections, errors and full inboxes

ASSUME CrAssumption == IsFiniteSet(CrRooms) /\ CrMaxVer \in Nat /\ CrFaults \in Nat

VARIABLES
  crPg,      \* Postgres: content version, rows, the last stamp, and the stamp the version was minted at
  crJob,     \* crJob["pull" | "reload"]: rows in hand and messages still to publish
  crBus,     \* the shard's connection, and the faults so far
  crDo,      \* crDo["bus" | "join"]: an applier's messages, and the row it read and not yet swapped
  crShard,   \* prototype cache, applied version, newest version heard of
  crZone,    \* the live zone: rooms, version guard, inbox, reconciles being retried
  crSnap     \* content snapshot, its version, stale mark, refresher, and whether a read failed

crVars == <<crPg, crJob, crBus, crDo, crShard, crZone, crSnap>>

CrRows == [CrRooms -> 0..CrMaxVer]
CrTypeOK ==
  /\ crPg.ver \in 0..CrMaxVer /\ crPg.rows \in CrRows
  /\ crShard.cache \in CrRows /\ crShard.applied \in 0..CrMaxVer
  /\ crZone.live \in CrRows /\ crZone.ver \in 0..CrMaxVer
  /\ crSnap.rows \in CrRows /\ crSnap.at \in {"idle", "loop", "exit", "read", "store"}

Present(rows) == {r \in CrRooms : rows[r] # 0}

CrInit ==
  LET none == [r \in CrRooms |-> 0]
  IN /\ crPg = [ver |-> 0, rows |-> none, at |-> 0, stamp |-> 0]
     /\ crJob = [j \in {"pull", "reload"} |-> [rows |-> none, todo |-> <<>>, open |-> FALSE]]
     /\ crBus = [up |-> TRUE, faults |-> 0]
     /\ crDo = [a \in {"bus", "join"} |-> [todo |-> <<>>, held |-> <<>>, ver |-> 0]]
     /\ crShard = [cache |-> none, applied |-> 0, heard |-> 0]
     /\ crZone = [live |-> none, ver |-> 0, inbox |-> <<>>, retry |-> {}]
     /\ crSnap = [rows |-> none, ver |-> 0, before |-> 0, stale |-> FALSE, at |-> "idle", failed |-> FALSE]

\* The faults of a step are charged to the bound.
Faulty(b) == b => crBus.faults < CrFaults
Faulted(b) == IF b THEN [crBus EXCEPT !.faults = @ + 1] ELSE crBus

max(a, b) == IF a > b THEN a ELSE b

------------------------------------------------------------------------------
(* Publishers.                                                                 *)

InOrder(S) == CHOOSE q \in [1..Cardinality(S) -> S] : {q[i] : i \in DOMAIN q} = S

\* PublishPack: the refs present, then the zone's shape.
PublishPack(rows, v) ==
  LET refs == InOrder(Present(rows))
  IN [i \in DOMAIN refs |-> [k |-> "room", ref |-> refs[i], ver |-> v, rooms |-> {}]]
       \o <<[k |-> "zone", ref |-> "", ver |-> v, rooms |-> Present(rows)]>>
PublishVersionComplete(v) == <<[k |-> "done", ref |-> "", ver |-> v, rooms |-> {}]>>

written(keep) == [r \in CrRooms |-> IF r \in keep THEN crPg.stamp + 1 ELSE 0]

\* ImportVersion: one transaction replaces the rows and bumps the version; Pull broadcasts.
CrImport(keep) ==
  LET v == crPg.ver + 1
  IN /\ crJob["pull"].todo = <<>> /\ v <= CrMaxVer /\ crPg.stamp < CrMaxVer
     /\ crPg' = [ver |-> v, rows |-> written(keep), at |-> crPg.stamp + 1, stamp |-> crPg.stamp + 1]
     /\ crJob' = [crJob EXCEPT !["pull"].todo = PublishPack(written(keep), v) \o PublishVersionComplete(v)]
     /\ UNCHANGED <<crBus, crDo, crShard, crZone, crSnap>>

\* A builder edits rows in place and types reload: republish re-reads and validates them,
republish(keep) ==
  /\ ~crJob["reload"].open /\ crJob["reload"].todo = <<>> /\ crPg.stamp < CrMaxVer
  /\ crPg' = [crPg EXCEPT !.rows = written(keep), !.stamp = @ + 1]
  /\ crJob' = [crJob EXCEPT !["reload"] = [rows |-> written(keep), todo |-> <<>>, open |-> TRUE]]
  /\ UNCHANGED <<crBus, crDo, crShard, crZone, crSnap>>
\* ... then mints a version and publishes, or fails and publishes nothing.
mintReloadVersion(err) ==
  LET v == crPg.ver + 1
  IN /\ crJob["reload"].open /\ (err \/ v <= CrMaxVer) /\ Faulty(err) /\ crBus' = Faulted(err)
     /\ crPg' = IF err THEN crPg ELSE [crPg EXCEPT !.ver = v, !.at = crPg.stamp]
     /\ crJob' = [crJob EXCEPT !["reload"] = [rows |-> crJob["pull"].rows, open |-> FALSE,
                     todo |-> IF err THEN <<>> ELSE PublishPack(crJob["reload"].rows, v)]]
     /\ UNCHANGED <<crDo, crShard, crZone, crSnap>>

\* One Publish.  An error abandons the pack but not the sentinel, which comes last; a message
\* sent while the shard is disconnected is lost to it.
sentinel(todo) ==
  IF todo # <<>> /\ todo[Len(todo)].k = "done" THEN <<todo[Len(todo)]>> ELSE <<>>
Publish(j, err) ==
  LET todo == crJob[j].todo
      rest == IF err THEN sentinel(Tail(todo)) ELSE Tail(todo)
  IN /\ todo # <<>> /\ Faulty(err) /\ crBus' = Faulted(err)
     /\ crJob' = [crJob EXCEPT ![j].todo = rest]
     /\ crDo' = IF crBus.up /\ ~err THEN [crDo EXCEPT !["bus"].todo = Append(@, Head(todo))] ELSE crDo
     /\ UNCHANGED <<crPg, crShard, crZone, crSnap>>

CrDisconnect ==
  /\ crBus.up /\ Faulty(TRUE) /\ crBus' = [Faulted(TRUE) EXCEPT !.up = FALSE]
  /\ UNCHANGED <<crPg, crJob, crDo, crShard, crZone, crSnap>>

------------------------------------------------------------------------------
(* The shard.                                                                  *)

\* markContentStale: the mark first, then the refresher unless one runs.
markContentStale(S) == [S EXCEPT !.stale = TRUE, !.at = IF @ = "idle" THEN "loop" ELSE @]

\* reconcileOnJoin after a reconnect: behind the authority, it re-applies every row locally.
reconcileOnJoin(err) ==
  LET behind == crPg.ver > crShard.applied /\ ~err
  IN /\ ~crBus.up /\ crDo["join"] = [todo |-> <<>>, held |-> <<>>, ver |-> 0]
     /\ Faulty(err) /\ crBus' = [Faulted(err) EXCEPT !.up = TRUE]
     /\ crDo' = IF behind THEN [crDo EXCEPT !["join"].todo = PublishPack(crPg.rows, crPg.ver), !["join"].ver = crPg.ver]
                ELSE crDo
     /\ UNCHANGED <<crPg, crJob, crShard, crZone, crSnap>>
joined ==
  LET J == crDo["join"]
  IN /\ J.ver # 0 /\ J.todo = <<>> /\ J.held = <<>>
     /\ crShard' = [crShard EXCEPT !.applied = max(@, J.ver), !.heard = max(@, J.ver)]
     /\ crSnap' = markContentStale(crSnap)
     /\ crDo' = [crDo EXCEPT !["join"].ver = 0] /\ UNCHANGED <<crPg, crJob, crBus, crZone>>

\* postOrDrop, and retryReconcile when the inbox is full.
post(m, full) == IF full THEN [crZone EXCEPT !.retry = @ \cup {m}] ELSE [crZone EXCEPT !.inbox = Append(@, m)]

\* onInvalidation: the sentinel advances applied, a zone shape is posted, a row is re-read.
onInvalidation(a, full, err) ==
  LET m == Head(crDo[a].todo)
      next == [crDo EXCEPT ![a].todo = Tail(@)]
  IN /\ crDo[a].todo # <<>> /\ crDo[a].held = <<>>
     /\ Faulty(full \/ err) /\ crBus' = Faulted(full \/ err)
     /\ \/ /\ m.k = "done" /\ ~full /\ ~err
           /\ crShard' = [crShard EXCEPT !.applied = max(@, m.ver), !.heard = max(@, m.ver)]
           /\ crSnap' = markContentStale(crSnap) /\ crDo' = next /\ UNCHANGED crZone
        \/ /\ m.k = "zone" /\ ~err
           /\ crShard' = [crShard EXCEPT !.heard = max(@, m.ver)]
           /\ crSnap' = markContentStale(crSnap) /\ crZone' = post(m, full) /\ crDo' = next
        \/ /\ m.k = "room" /\ ~full
           /\ crDo' = IF err THEN next ELSE [next EXCEPT ![a].held = <<m.ref, crPg.rows[m.ref]>>]
           /\ UNCHANGED <<crShard, crSnap, crZone>>
     /\ UNCHANGED <<crPg, crJob>>
\* protoCache.reload swaps what was read.
swap(a) ==
  LET h == crDo[a].held
  IN /\ h # <<>> /\ crDo' = [crDo EXCEPT ![a].held = <<>>]
     /\ crShard' = [crShard EXCEPT !.cache[h[1]] = h[2]]
     /\ UNCHANGED <<crPg, crJob, crBus, crZone, crSnap>>

retryReconcile(m, lost) ==
  /\ m \in crZone.retry
  /\ crZone' = [crZone EXCEPT !.retry = @ \ {m}, !.inbox = IF lost THEN @ ELSE Append(@, m)]
  /\ UNCHANGED <<crPg, crJob, crBus, crDo, crShard, crSnap>>

\* The version guard: a racing reload's older shape is dropped.
supersedes(m) == m.ver > crZone.ver

\* Zone.reconcileZone: desired rooms follow the cache, stragglers go with their prototype.
reconcileZone ==
  LET m == Head(crZone.inbox)
      popped == [crZone EXCEPT !.inbox = Tail(@)]
  IN /\ crZone.inbox # <<>>
     /\ crZone' = IF ~supersedes(m) THEN popped
                  ELSE [popped EXCEPT !.ver = m.ver,
                          !.live = [r \in CrRooms |-> IF r \notin m.rooms THEN 0
                                                      ELSE IF crShard.cache[r] # 0 THEN crShard.cache[r] ELSE @[r]]]
     /\ crShard' = IF ~supersedes(m) THEN crShard
                   ELSE [crShard EXCEPT !.cache = [r \in CrRooms |->
                           IF r \notin m.rooms /\ crZone.live[r] # 0 THEN 0 ELSE @[r]]]
     /\ UNCHANGED <<crPg, crJob, crBus, crDo, crSnap>>

------------------------------------------------------------------------------
(* The snapshot refresher.                                                     *)

\* Mutant: the refresher leaves without looking back.
resumeNever(S) == "idle"

\* The deferred re-check: a mark set while the refresher was leaving is picked up.
resume(S) == IF S.stale THEN "loop" ELSE "idle"

\* The loop clears the mark before each pass.
CrLoop ==
  /\ \/ /\ crSnap.at = "loop"
        /\ crSnap' = [crSnap EXCEPT !.at = IF crSnap.stale THEN "read" ELSE "exit", !.stale = FALSE]
     \/ /\ crSnap.at = "exit" /\ crSnap' = [crSnap EXCEPT !.at = resume(crSnap)]
  /\ UNCHANGED <<crPg, crJob, crBus, crDo, crShard, crZone>>

\* refreshContentSnapshot: the version gate; a failed read or a rejected pack set keeps the old one;
refreshContentSnapshot(fails) ==
  /\ crSnap.at = "read" /\ Faulty(fails) /\ crBus' = Faulted(fails)
  /\ crSnap' = [crSnap EXCEPT !.failed = fails,
                              !.before = IF crPg.ver <= crSnap.ver \/ fails THEN 0 ELSE crPg.ver,
                              !.at = IF crPg.ver <= crSnap.ver \/ fails THEN "loop" ELSE "store"]
  /\ UNCHANGED <<crPg, crJob, crDo, crShard, crZone>>
\* ... the read, published under the version seen before it, and again when that has moved.
setContent ==
  /\ crSnap.at = "store"
  /\ crSnap' = [crSnap EXCEPT !.rows = crPg.rows, !.ver = crSnap.before, !.before = 0, !.at = "loop",
                              !.stale = @ \/ crPg.ver # crSnap.before]
  /\ UNCHANGED <<crPg, crJob, crBus, crDo, crShard, crZone>>

CrNext ==
  \/ \E keep \in SUBSET CrRooms : CrImport(keep) \/ republish(keep)
  \/ CrDisconnect \/ joined \/ reconcileZone \/ CrLoop \/ setContent
  \/ \E m \in crZone.retry, lost \in BOOLEAN : retryReconcile(m, lost)
  \/ \E a \in {"bus", "join"} : swap(a) \/ \E full, err \in BOOLEAN : onInvalidation(a, full, err)
  \/ \E err \in BOOLEAN : \/ mintReloadVersion(err) \/ reconcileOnJoin(err) \/ refreshContentSnapshot(err)
                          \/ \E j \in {"pull", "reload"} : Publish(j, err)
CrSpec == CrInit /\ [][CrNext]_crVars

------------------------------------------------------------------------------
(* Properties.                                                                 *)

CrQuiet ==
  /\ \A j \in {"pull", "reload"} : crJob[j].todo = <<>> /\ ~crJob[j].open
  /\ \A a \in {"bus", "join"} : crDo[a] = [todo |-> <<>>, held |-> <<>>, ver |-> 0]
  /\ crSnap.at = "idle" /\ crZone.inbox = <<>> /\ crZone.retry = {}

\* markContentStale and refreshContentSnapshot: once everything is quiet, a shard that has
\* heard of the current version builds new zones from the rows of that version, unless its last
\* read failed or rows were edited since and their reload failed: whatever raced its refresher,
\* no mark is lost and no mixed read stays.
SnapshotSettles ==
  CrQuiet /\ crShard.heard = crPg.ver /\ crPg.at = crPg.stamp /\ ~crSnap.failed => crSnap.rows = crPg.rows

\* reload.go: advancing only on the sentinel "is what makes a PARTIALLY-delivered pull safe".
SentinelMeansApplied == CrQuiet /\ crShard.applied = crPg.ver => crShard.cache = crPg.rows

\* The safety invariant: the types, and the properties above that hold of every state.
\* A shard settles on the content version it heard of (reload.go).
ReloadSafe == CrTypeOK /\ SnapshotSettles
=============================================================================
