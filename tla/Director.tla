------------------------------ MODULE Director -------------------------------
(* The director instances of one scope (internal/director) on its lease, its    *)
(* row of state and its shared durable consumer (commbus, scopebus).  Signals   *)
(* come up from one shard, numbered in order; signal s is a script event that   *)
(* writes the derived value s, or the report that the scheduled boss died.      *)
EXTENDS Naturals, Sequences

CONSTANTS DrDirs,         \* director instances
          DrNone,
          DrSignals,      \* bound: signals published
          DrMaxDeliver,   \* DefaultMaxDeliver
          DrMaxVer,       \* bound: version of a row
          DrMaxInbox,     \* bound: signals waiting in an actor's inbox
          DrFaults        \* bound: restarts and lapses of the lease

ASSUME DrAssumption ==
  /\ DrNone \notin DrDirs /\ DrMaxDeliver \in Nat \ {0}
  /\ DrSignals \in Nat /\ DrMaxVer \in Nat /\ DrMaxInbox \in Nat /\ DrFaults \in Nat

VARIABLES
  drDir,     \* drDir[d]: the actor's fields, see DrActor
  drLease,   \* the scope lease's holder
  drRow,     \* drRow[k]: the persisted value and version
  drStream,  \* kinds of the signals published
  drCons,    \* the durable consumer: cursor, and the delivery that is not settled
  drParked,  \* signals that exhausted their deliveries
  drDone,    \* history: signals whose handler's writes all landed
  drBoss,    \* bosses alive in the world
  drLeft     \* restarts and lapses left

drVars == <<drDir, drLease, drRow, drStream, drCons, drParked, drDone, drBoss, drLeft>>

\* "script" holds what the world script wrote, "schedule" the boss's ScheduleState: 1
\* for Active.  Version 0 is no row.
DrKeys == {"script", "schedule"}
DrVal == 0..DrSignals + 1
DrRow == [val : DrVal, ver : 0..DrMaxVer]
DrUncached == [val |-> 0, ver |-> 0]
\* cache: state and versions, an entry of version 0 is absent; sub: consumer # nil.
DrActor == [leader : BOOLEAN, sub : BOOLEAN, cache : [DrKeys -> DrRow],
            applied : 0..DrSignals, inbox : Seq(1..DrSignals)]
DrFresh == [leader |-> FALSE, sub |-> FALSE, cache |-> [k \in DrKeys |-> DrUncached],
            applied |-> 0, inbox |-> <<>>]
\* at: the director the delivery is with, DrNone while it waits out its backoff.
DrConsumer == [next : 1..DrSignals + 1, try : 0..DrMaxDeliver, at : DrDirs \cup {DrNone}]

DrTypeOK ==
  /\ drDir \in [DrDirs -> DrActor] /\ drLease \in DrDirs \cup {DrNone}
  /\ drRow \in [DrKeys -> DrRow] /\ drStream \in Seq(DrKeys) /\ drCons \in DrConsumer
  /\ drParked \subseteq 1..DrSignals /\ drDone \subseteq 1..DrSignals
  /\ drBoss \in Nat /\ drLeft \in 0..DrFaults

DrInit ==
  /\ drDir = [d \in DrDirs |-> DrFresh] /\ drLease = DrNone
  /\ drRow = [k \in DrKeys |-> DrUncached] /\ drStream = <<>>
  /\ drCons = [next |-> 1, try |-> 0, at |-> DrNone]
  /\ drParked = {} /\ drDone = {} /\ drBoss = 0 /\ drLeft = DrFaults

------------------------------------------------------------------------------
(* Election.                                                                   *)

\* A claim renews or takes a free lease; an error steps down without giving it up.
ClaimLease(d) == drLease \in {d, DrNone}

\* campaign and syncScopeSubscription: consuming only while leading.
Campaign(d, err, subscribes) ==
  LET held == ~err /\ ClaimLease(d)
  IN /\ drLease' = IF held THEN d ELSE drLease
     /\ drDir' = [drDir EXCEPT ![d].leader = held,
                               ![d].sub = held /\ (drDir[d].sub \/ subscribes)]
     /\ UNCHANGED <<drRow, drStream, drCons, drParked, drDone, drBoss, drLeft>>

\* The TTL passes unrenewed; its holder does not know.
LeaseLapses ==
  /\ drLease # DrNone /\ drLease' = DrNone
  /\ drLeft > 0 /\ drLeft' = drLeft - 1
  /\ UNCHANGED <<drDir, drRow, drStream, drCons, drParked, drDone, drBoss>>

\* A restart forgets cache, high-waters and inbox; a graceful one resigns first.
DrRestart(d, graceful) ==
  /\ drLeft > 0 /\ drLeft' = drLeft - 1
  /\ drLease' = IF graceful /\ drDir[d].leader /\ drLease = d THEN DrNone ELSE drLease
  /\ drDir' = [drDir EXCEPT ![d] = DrFresh]
  /\ UNCHANGED <<drRow, drStream, drCons, drParked, drDone, drBoss>>

------------------------------------------------------------------------------
(* Scope state.                                                                *)

\* get: the cache, else the row; a failed load is an unset key to the scheduler.
DrGet(d, k, err) ==
  LET c == drDir[d].cache[k]
  IN IF c.ver > 0 THEN c ELSE IF err THEN DrUncached ELSE drRow[k]

\* set seeds an uncached key's version before the CAS.
expected(d, k) == DrGet(d, k, FALSE).ver

\* SaveWorldState: the optimistic CAS.
SaveOK(k, ver) == drRow[k].ver = ver

\* What set leaves: the row, the cache entry, and whether it landed.
DrSet(d, k, v, err) ==
  LET landed == drDir[d].leader /\ ~err /\ SaveOK(k, expected(d, k))
      new == [val |-> v, ver |-> drRow[k].ver + 1]
  IN [ok |-> landed,
      row |-> IF landed THEN [drRow EXCEPT ![k] = new] ELSE drRow,
      entry |-> IF landed THEN new
                ELSE IF drDir[d].leader /\ ~err THEN drRow[k] ELSE drDir[d].cache[k]]

------------------------------------------------------------------------------
(* Signals up.                                                                 *)

\* SignalDurable from the shard: from its script, or because the boss died.
DrPublish(k) ==
  /\ Len(drStream) < DrSignals /\ drStream' = Append(drStream, k)
  /\ k = "schedule" => drBoss > 0
  /\ drBoss' = IF k = "schedule" THEN drBoss - 1 ELSE drBoss
  /\ UNCHANGED <<drDir, drLease, drRow, drCons, drParked, drDone, drLeft>>

\* Mutant: a successor is delivered while a delayed NAK is waiting.
notPendingEager(s) == drCons.at = DrNone /\ s \in {drCons.next, drCons.next + 1}

\* MaxAckPending = 1: the head, and only when nothing is unsettled.
notPending(s) == drCons.at = DrNone /\ s = drCons.next

\* The subscription's callback posts to the actor and waits for its answer.
DrDeliver(d, s) ==
  /\ drDir[d].sub /\ s \in 1..Len(drStream) /\ notPending(s)
  /\ Len(drDir[d].inbox) < DrMaxInbox
  /\ drCons' = [drCons EXCEPT !.at = d, !.try = @ + 1, !.next = s]
  /\ drDir' = [drDir EXCEPT ![d].inbox = Append(@, s)]
  /\ UNCHANGED <<drLease, drRow, drStream, drParked, drDone, drBoss, drLeft>>

\* The consumer after an ack or a NAK of s by d.  A NAK at the last try parks.  An answer
\* nobody waits for any more changes nothing.
Settled(d, s, ack) ==
  IF drCons.at # d \/ drCons.next # s THEN drCons
  ELSE IF ack \/ drCons.try = DrMaxDeliver
       THEN [next |-> s + 1, try |-> 0, at |-> DrNone]
       ELSE [drCons EXCEPT !.at = DrNone]
ParkedBy(d, s, ack) ==
  IF drCons.at = d /\ drCons.next = s /\ ~ack /\ drCons.try = DrMaxDeliver THEN {s} ELSE {}

\* signalAckTimeout, a consumer stopped, or a process gone: the signal stays in the inbox
\* of an actor that lives.
DrNak ==
  LET d == drCons.at
  IN /\ d # DrNone
     /\ drCons' = Settled(d, drCons.next, FALSE)
     /\ drParked' = drParked \cup ParkedBy(d, drCons.next, FALSE)
     /\ UNCHANGED <<drDir, drLease, drRow, drStream, drDone, drBoss, drLeft>>

\* Mutant: a signal is consumed whatever became of its writes.
verdictAcks(dup, wrote) == TRUE

\* Ack what was applied already, or what has landed.
verdict(dup, wrote) == dup \/ wrote

\* handleSignal: dedup, leader gate, handler, and the NAK of a write that did not land.
\* A script write carries the signal; a boss's death clears Active.
\* Only what reaches the store can fail.
HandleSignal(d, err) ==
  LET s == Head(drDir[d].inbox)
      k == drStream[s]
      dup == s <= drDir[d].applied
      r == DrSet(d, k, IF k = "script" THEN s ELSE 0, err)
      ack == verdict(dup, r.ok)
  IN /\ drDir[d].inbox # <<>> /\ (err => ~dup /\ drDir[d].leader)
     /\ ~dup /\ drDir[d].leader => drRow[k].ver < DrMaxVer
     /\ drDir' = [drDir EXCEPT
          ![d].inbox = Tail(@),
          ![d].cache[k] = IF dup THEN @ ELSE r.entry,
          ![d].applied = IF ~dup /\ ack THEN s ELSE @]
     /\ drRow' = IF dup THEN drRow ELSE r.row
     /\ drDone' = IF ~dup /\ r.ok THEN drDone \cup {s} ELSE drDone
     /\ drCons' = Settled(d, s, ack) /\ drParked' = drParked \cup ParkedBy(d, s, ack)
     /\ UNCHANGED <<drLease, drStream, drBoss, drLeft>>

\* runSchedules on a leader's tick: a due boss is broadcast, and then recorded.
RunSchedules(d, readErr, writeErr) ==
  LET st == DrGet(d, "schedule", readErr)
      r == DrSet(d, "schedule", 1, writeErr)
  IN /\ readErr => drDir[d].cache["schedule"].ver = 0
     /\ drDir[d].leader /\ st.val = 0 /\ drRow["schedule"].ver < DrMaxVer
     /\ drBoss < 2 /\ drBoss' = drBoss + 1
     /\ drRow' = r.row /\ drDir' = [drDir EXCEPT ![d].cache["schedule"] = r.entry]
     /\ UNCHANGED <<drLease, drStream, drCons, drParked, drDone, drLeft>>

DrNext ==
  \/ LeaseLapses \/ DrNak
  \/ \E k \in DrKeys : DrPublish(k)
  \/ \E d \in DrDirs :
       \/ drDir[d].leader /\ Campaign(d, TRUE, FALSE)
       \/ \E s \in BOOLEAN : Campaign(d, FALSE, s)
       \/ \E r, w \in BOOLEAN : RunSchedules(d, r, w)
       \/ \E e \in BOOLEAN : HandleSignal(d, e) \/ DrRestart(d, e)
       \/ \E s \in 1..DrSignals : DrDeliver(d, s)

DrSpec == DrInit /\ [][DrNext]_drVars

------------------------------------------------------------------------------
(* Properties.                                                                 *)

\* handleSignal: a signal is consumed off the shared consumer only when some director has
\* landed the writes it caused, or with its redelivery budget spent; a lapse of the lease
\* in a handler, a store error, a lost CAS or a late answer loses none.
SignalsLand == 1..drCons.next - 1 \subseteq drDone \cup drParked

\* The wedge saveScheduleState warns of: a schedule persisted as active has a boss alive or
\* the report of its death still to come (or parked), whichever directors led in between.
NoWedge ==
  drRow["schedule"].val = 1 =>
    \/ drBoss > 0
    \/ \E s \in 1..Len(drStream) :
         drStream[s] = "schedule" /\ (s >= drCons.next \/ s \in drParked)

\* state.go: "the in-memory copy and the durable row never drift".  For the instance that
\* holds the lease and knows it.
CacheNeverDrifts ==
  \A d \in DrDirs : drDir[d].leader /\ drLease = d =>
    \A k \in DrKeys : drDir[d].cache[k].ver > 0 => drDir[d].cache[k] = drRow[k]

\* The safety invariant: the types, and the properties above that hold of every state.
\* No signal is consumed before its writes landed, and no schedule waits for a boss nobody spawned (director/signals.go, state.go).
DirectorSafe == DrTypeOK /\ SignalsLand /\ NoWedge
=============================================================================
