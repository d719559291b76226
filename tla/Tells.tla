------------------------------- MODULE Tells -------------------------------
(* Durable tells from one author to one player: the publishing shard's queue and *)
(* per-author counter (world/comm.go), the JetStream stream with its dedup window *)
(* and its redelivering consumer (commbus/jetstream*.go), and the recipient's     *)
(* zone with the delivered-cursor of its session (world/tell.go).                 *)
EXTENDS Naturals, Sequences, FiniteSets

CONSTANTS TlShards,      \* shards the author can speak from
          TlSent,        \* bound: tells typed
          TlQueue,       \* tellPublishQueue
          TlMaxDeliver,  \* DefaultMaxDeliver
          TlFaults       \* bound: restarts, crashes, lost answers and errors

ASSUME TlAssumption ==
  /\ IsFiniteSet(TlShards) /\ TlShards # {}
  /\ TlSent \in Nat /\ TlFaults \in Nat /\ TlQueue \in Nat \ {0} /\ TlMaxDeliver \in Nat \ {0}

VARIABLES
  tlAuthor,  \* the author's shard, tells typed, and whether another counter has been used
  tlPub,     \* tlPub[s]: the counter seq[author] and the publish queue of shard s
  tlStream,  \* the recipient's messages not yet acknowledged
  tlKeys,    \* idempotency keys inside the dedup window
  tlCons,    \* the durable consumer: attempts at the head, and the handler's state
  tlInbox,   \* tellDeliverMsgs in the recipient's zone mailbox
  tlMe,      \* the recipient: where its session is, its cursor and the saved one
  tlLog      \* history: tells confirmed, emitted (how often), parked; faults; recipient crashes

tlVars == <<tlAuthor, tlPub, tlStream, tlKeys, tlCons, tlInbox, tlMe, tlLog>>

Ids == 1..TlSent
TlTypeOK ==
  /\ tlAuthor \in [at : TlShards, sent : 0..TlSent, moved : BOOLEAN]
  /\ tlPub \in [TlShards -> [seq : 0..TlSent, jobs : Seq(Ids)]]
  /\ tlKeys \subseteq Ids
  /\ tlCons.try \in 0..TlMaxDeliver /\ tlCons.at \in {"idle", "wait", "ok", "retry"}
  /\ tlMe.at \in {"zone", "transit", "gone"} /\ tlMe.cursor \in 0..TlSent /\ tlMe.saved \in 0..TlSent
  /\ tlLog.told \subseteq Ids /\ tlLog.shown \in [Ids -> Nat] /\ tlLog.parked \subseteq Ids

TlInit ==
  /\ tlAuthor \in [at : TlShards, sent : {0}, moved : {FALSE}]
  /\ tlPub = [s \in TlShards |-> [seq |-> 0, jobs |-> <<>>]]
  /\ tlStream = <<>> /\ tlKeys = {} /\ tlInbox = <<>>
  /\ tlCons = [try |-> 0, at |-> "idle"]
  /\ tlMe \in [at : {"zone", "gone"}, cursor : {0}, saved : {0}]
  /\ tlLog = [told |-> {}, shown |-> [i \in Ids |-> 0], parked |-> {}, faults |-> 0, crashed |-> FALSE]

Blame == tlLog.faults < TlFaults
Blamed(b) == [tlLog EXCEPT !.faults = IF b THEN @ + 1 ELSE @]

------------------------------------------------------------------------------
(* The author's side.                                                          *)

\* sendTell hands the sanitized line to the publisher, or tells the author it is busy.
sendTell ==
  LET s == tlAuthor.at
      i == tlAuthor.sent + 1
  IN /\ i <= TlSent
     /\ tlAuthor' = [tlAuthor EXCEPT !.sent = i]
     /\ tlPub' = IF Len(tlPub[s].jobs) < TlQueue
                 THEN [tlPub EXCEPT ![s].jobs = Append(@, i)] ELSE tlPub
     /\ UNCHANGED <<tlStream, tlKeys, tlCons, tlInbox, tlMe, tlLog>>

\* PublishDurable: JetStream drops, without an error, a key it saw inside the window.
PublishDurable(i, seq) ==
  /\ tlStream' = IF seq \in tlKeys THEN tlStream ELSE Append(tlStream, [id |-> i, seq |-> seq])
  /\ tlKeys' = tlKeys \cup {seq}

\* publishOne: mint the sequence number, publish, confirm.  The answer may be an error whether
\* or not the stream took the message.
publishOne(s, stored, err) ==
  LET i == Head(tlPub[s].jobs)
      seq == tlPub[s].seq + 1
  IN /\ tlPub[s].jobs # <<>>
     /\ err => Blame
     /\ tlPub' = [tlPub EXCEPT ![s] = [seq |-> seq, jobs |-> Tail(@.jobs)]]
     /\ IF stored THEN PublishDurable(i, seq) ELSE UNCHANGED <<tlStream, tlKeys>>
     /\ tlLog' = [Blamed(err) EXCEPT !.told = IF err THEN @ ELSE @ \cup {i}]
     /\ UNCHANGED <<tlAuthor, tlCons, tlInbox, tlMe>>

\* jsDedupWindow passes since the last publish.
DedupWindowPasses ==
  /\ tlKeys # {} /\ tlKeys' = {}
  /\ UNCHANGED <<tlAuthor, tlPub, tlStream, tlCons, tlInbox, tlMe, tlLog>>

\* newCommSource: the author speaks from another process, whose counter starts at zero: the
\* player crossed to another shard, or its shard restarted.
newCommSource(s) ==
  /\ Blame /\ tlLog' = Blamed(TRUE)
  /\ tlAuthor' = [tlAuthor EXCEPT !.at = s, !.moved = TRUE]
  /\ tlPub' = IF s = tlAuthor.at THEN [tlPub EXCEPT ![s] = [seq |-> 0, jobs |-> <<>>]] ELSE tlPub
  /\ UNCHANGED <<tlStream, tlKeys, tlCons, tlInbox, tlMe>>

------------------------------------------------------------------------------
(* The durable consumer.                                                       *)

\* The consumer runs while the recipient's session is on the shard (startConsumer, stopConsumer);
\* MaxAckPending = 1 offers the head only.  routeTellDeliver posts it and waits for the answer.
routeTellDeliver ==
  /\ tlMe.at # "gone" /\ tlStream # <<>> /\ tlCons.at = "idle" /\ tlCons.try < TlMaxDeliver
  /\ tlCons' = [try |-> tlCons.try + 1, at |-> "wait"]
  /\ tlInbox' = Append(tlInbox, [msg |-> Head(tlStream), live |-> TRUE])
  /\ UNCHANGED <<tlAuthor, tlPub, tlStream, tlKeys, tlMe, tlLog>>

\* tellAckTimeout: the zone has not answered; its late answer goes nowhere.
tellAckTimeout ==
  /\ tlCons.at = "wait" /\ Blame /\ tlLog' = Blamed(TRUE)
  /\ tlCons' = [tlCons EXCEPT !.at = "retry"]
  /\ tlInbox' = [i \in DOMAIN tlInbox |-> [tlInbox[i] EXCEPT !.live = FALSE]]
  /\ UNCHANGED <<tlAuthor, tlPub, tlStream, tlKeys, tlMe>>

\* Consume's verdict: AckDelivered removes the message (the acknowledgement may be lost, and the
\* message is offered again after AckWait); RetryTransient naks it, and the last nak parks it.
Consume(lost) ==
  /\ tlCons.at \in {"ok", "retry"} /\ (lost => Blame)
  /\ LET park == tlCons.at = "retry" /\ tlCons.try = TlMaxDeliver
         gone == (tlCons.at = "ok" /\ ~lost) \/ park \/ (lost /\ tlCons.try = TlMaxDeliver)
     IN /\ tlCons' = [try |-> IF gone THEN 0 ELSE tlCons.try, at |-> "idle"]
        /\ tlStream' = IF gone THEN Tail(tlStream) ELSE tlStream
        /\ tlLog' = [Blamed(lost) EXCEPT !.parked = IF park THEN @ \cup {Head(tlStream).id} ELSE @]
  /\ UNCHANGED <<tlAuthor, tlPub, tlKeys, tlInbox, tlMe>>

------------------------------------------------------------------------------
(* The recipient's zone.                                                       *)

\* A copy at or below the cursor was delivered before: answer yes and emit nothing.
suppressed(m) == m.seq <= tlMe.cursor
\* Mutant: the cursor advances before the emit, so a failed emit is suppressed when redelivered.
advancesEarly(emitted) == TRUE
advances(emitted) == emitted

\* deliverDrainedTell: absent session or failed emit answers no; else emit to the gate, advance
\* the cursor, answer yes.
deliverDrainedTell(err) ==
  LET c == Head(tlInbox)
      here == tlMe.at = "zone"
      fresh == here /\ ~suppressed(c.msg)
      emitted == fresh /\ ~err
      yes == here /\ (fresh => emitted)
  IN /\ tlInbox # <<>> /\ (err => fresh /\ Blame)
     /\ tlInbox' = Tail(tlInbox)
     /\ tlMe' = IF fresh /\ advances(emitted) THEN [tlMe EXCEPT !.cursor = c.msg.seq] ELSE tlMe
     /\ tlLog' = [Blamed(err) EXCEPT !.shown[c.msg.id] = IF emitted THEN @ + 1 ELSE @]
     /\ tlCons' = IF c.live THEN [tlCons EXCEPT !.at = IF yes THEN "ok" ELSE "retry"] ELSE tlCons
     /\ UNCHANGED <<tlAuthor, tlPub, tlStream, tlKeys>>

\* The session walks between two zones of the shard: for a moment it is in neither map.
TlWalk ==
  /\ tlMe.at \in {"zone", "transit"}
  /\ tlMe' = [tlMe EXCEPT !.at = IF @ = "zone" THEN "transit" ELSE "zone"]
  /\ UNCHANGED <<tlAuthor, tlPub, tlStream, tlKeys, tlCons, tlInbox, tlLog>>

\* dumpTellCursor rides a checkpoint or the logout flush; loadTellCursor reads it back at login.
dumpTellCursor(leave) ==
  /\ tlMe.at = "zone" /\ (leave \/ tlMe.saved # tlMe.cursor)
  /\ tlMe' = [tlMe EXCEPT !.saved = tlMe.cursor, !.at = IF leave THEN "gone" ELSE @]
  /\ UNCHANGED <<tlAuthor, tlPub, tlStream, tlKeys, tlCons, tlInbox, tlLog>>
loadTellCursor ==
  /\ tlMe.at = "gone" /\ tlMe' = [tlMe EXCEPT !.cursor = tlMe.saved, !.at = "zone"]
  /\ UNCHANGED <<tlAuthor, tlPub, tlStream, tlKeys, tlCons, tlInbox, tlLog>>

\* The recipient's shard dies: mailbox and cursor are lost, the message is offered again.
TlCrash ==
  /\ Blame /\ tlMe' = [tlMe EXCEPT !.at = "gone"] /\ tlInbox' = <<>>
  /\ tlCons' = [tlCons EXCEPT !.at = IF @ = "idle" \/ tlStream = <<>> THEN "idle" ELSE "retry"]
  /\ tlLog' = [Blamed(TRUE) EXCEPT !.crashed = TRUE]
  /\ UNCHANGED <<tlAuthor, tlPub, tlStream, tlKeys>>

TlNext ==
  \/ sendTell
  \/ \E s \in TlShards, out \in {<<TRUE, FALSE>>, <<TRUE, TRUE>>, <<FALSE, TRUE>>} : publishOne(s, out[1], out[2])
  \/ DedupWindowPasses \/ \E s \in TlShards : newCommSource(s)
  \/ routeTellDeliver \/ tellAckTimeout \/ Consume(FALSE) \/ (tlCons.at = "ok" /\ Consume(TRUE))
  \/ \E err \in BOOLEAN : deliverDrainedTell(err)
  \/ TlWalk \/ dumpTellCursor(TRUE) \/ dumpTellCursor(FALSE) \/ loadTellCursor \/ TlCrash
TlSpec == TlInit /\ [][TlNext]_tlVars

------------------------------------------------------------------------------

Waiting == {tlStream[i].id : i \in DOMAIN tlStream}

\* A tell the author was told about is waiting in the stream, was emitted to the recipient's
\* gate, or exhausted its deliveries, as long as one counter numbered the author's tells; and
\* without a crash of the recipient's shard no tell is emitted twice, however often it is
\* redelivered after a late answer, a failed emit or a lost acknowledgement
\* (world/tell.go deliverDrainedTell, commbus/jetstream_nats.go Consume).
TellLands ==
  /\ ~tlAuthor.moved => \A i \in tlLog.told : i \in Waiting \cup tlLog.parked \/ tlLog.shown[i] > 0
  /\ ~tlLog.crashed /\ ~tlAuthor.moved => \A i \in Ids : tlLog.shown[i] <= 1

\* tell.go's durability guarantee: a durable tell is never lost, whichever shard it is sent from.
TellNeverLost ==
  \A i \in tlLog.told : i \in Waiting \cup tlLog.parked \/ tlLog.shown[i] > 0

\* The safety invariant: the types, and the properties above that hold of every state.
\* A tell its author was told about waits, is shown or is parked, and is shown once (tell.go).
TellsSafe == TlTypeOK /\ TellLands
=============================================================================
