------------------------------ MODULE Mailbox ------------------------------
(* One player's mail: the capped insert with its retention sweep, the positional *)
(* read and delete, and the director's reaper (store/mail.go), driven by the mail *)
(* command's goroutines (world/mailcmds.go).  A statement sees the rows committed *)
(* when it starts (READ COMMITTED), so a guarded insert counts first and writes   *)
(* later.                                                                         *)
EXTENDS Naturals, Sequences, SequencesExt, FiniteSets

CONSTANTS MbSenders,   \* goroutines sending to this player
          MbCap,       \* MailInboxCap
          MbMails      \* bound: messages sent

ASSUME MbAssumption == IsFiniteSet(MbSenders) /\ MbSenders # {} /\ MbCap \in Nat \ {0} /\ MbMails \in Nat

VARIABLES
  mbRows,   \* the player's rows, oldest first: id, read_at IS NOT NULL
  mbSend,   \* mbSend[w]: the message in hand and the statement it is at
  mbSent,   \* messages minted
  mbOut     \* history: messages confirmed to their sender, and removed by the owner or the reaper

mbVars == <<mbRows, mbSend, mbSent, mbOut>>

MbStages == {"idle", "resolve", "count", "insert", "evict", "recount", "reinsert"}
MbTypeOK ==
  /\ mbRows \in Seq([id : 1..MbMails, read : BOOLEAN])
  /\ mbSend \in [MbSenders -> [id : 0..MbMails, at : MbStages]]
  /\ mbSent \in 0..MbMails
  /\ mbOut.sent \subseteq 1..MbMails /\ mbOut.removed \subseteq 1..MbMails

MbInit ==
  /\ mbRows = <<>> /\ mbSent = 0
  /\ mbSend = [w \in MbSenders |-> [id |-> 0, at |-> "idle"]]
  /\ mbOut = [sent |-> {}, removed |-> {}]

\* The rows in the order the inbox shows them: position 1 is the newest.
newestFirst(pos) == Len(mbRows) + 1 - pos

At(w, from) == mbSend[w].at = from
Goto(w, to) == mbSend' = [mbSend EXCEPT ![w] = [id |-> IF to = "idle" THEN 0 ELSE @.id, at |-> to]]

\* mailSendCmd: rate limit and sanitizing on the zone goroutine, the rest on a goroutine of its own.
mailSendCmd(w) ==
  /\ At(w, "idle") /\ mbSent < MbMails /\ mbSent' = mbSent + 1
  /\ mbSend' = [mbSend EXCEPT ![w] = [id |-> mbSent + 1, at |-> "resolve"]]
  /\ UNCHANGED <<mbRows, mbOut>>
\* The directory knows the recipient, or cannot answer; a known absence refuses the mail.
resolve(w, found) ==
  /\ At(w, "resolve") /\ Goto(w, IF found THEN "count" ELSE "idle") /\ UNCHANGED <<mbRows, mbSent, mbOut>>

\* SendMail: INSERT ... WHERE count < cap; at the cap sweep one read message and try once more.
count(w) ==
  /\ At(w, "count") \/ At(w, "recount")
  /\ Goto(w, IF Len(mbRows) < MbCap THEN (IF At(w, "count") THEN "insert" ELSE "reinsert")
             ELSE (IF At(w, "count") THEN "evict" ELSE "idle"))
  /\ UNCHANGED <<mbRows, mbSent, mbOut>>
SendMail(w) ==
  /\ At(w, "insert") \/ At(w, "reinsert")
  /\ mbRows' = Append(mbRows, [id |-> mbSend[w].id, read |-> FALSE])
  /\ mbOut' = [mbOut EXCEPT !.sent = @ \cup {mbSend[w].id}]
  /\ Goto(w, "idle") /\ UNCHANGED mbSent

\* Mutant: the sweep takes the oldest message, read or not.
evictableAny(row) == TRUE
evictable(row) == row.read
evictOldestRead(w) ==
  LET reads == {i \in DOMAIN mbRows : evictable(mbRows[i])}
  IN /\ At(w, "evict")
     /\ IF reads = {} THEN Goto(w, "idle") /\ UNCHANGED mbRows
        ELSE Goto(w, "recount") /\ mbRows' = RemoveAt(mbRows, CHOOSE i \in reads : \A j \in reads : i <= j)
     /\ UNCHANGED <<mbSent, mbOut>>

\* ReadMail, DeleteMail: the position is resolved against the inbox as it is when the statement runs.
ReadMail(pos) ==
  /\ pos <= Len(mbRows) /\ mbRows' = [mbRows EXCEPT ![newestFirst(pos)].read = TRUE]
  /\ UNCHANGED <<mbSend, mbSent, mbOut>>
DeleteMail(pos) ==
  /\ pos <= Len(mbRows) /\ mbRows' = RemoveAt(mbRows, newestFirst(pos))
  /\ mbOut' = [mbOut EXCEPT !.removed = @ \cup {mbRows[newestFirst(pos)].id}]
  /\ UNCHANGED <<mbSend, mbSent>>

\* The leader's reaper: one DELETE of the rows sent before the cutoff that applies to this
\* recipient, which are the oldest n.
ReapDeadLetterMail(n) ==
  /\ n <= Len(mbRows) /\ mbRows' = SubSeq(mbRows, n + 1, Len(mbRows))
  /\ mbOut' = [mbOut EXCEPT !.removed = @ \cup {mbRows[i].id : i \in 1..n}]
  /\ UNCHANGED <<mbSend, mbSent>>

MbNext ==
  \/ \E w \in MbSenders : mailSendCmd(w) \/ count(w) \/ SendMail(w) \/ evictOldestRead(w)
                          \/ \E found \in BOOLEAN : resolve(w, found)
  \/ \E pos \in 1..(MbCap + Cardinality(MbSenders)) : ReadMail(pos) \/ DeleteMail(pos)
                                                        \/ ReapDeadLetterMail(pos)
MbSpec == MbInit /\ [][MbNext]_mbVars

\* A message confirmed to its sender is still in the inbox, or was read before the sweep took
\* it, or was removed by its owner or by age: the sweep racing reads and other senders drops no
\* unread mail (store/mail.go SendMail, evictOldestRead).  And concurrent senders overshoot the
\* cap by at most one row each.
MailKept ==
  /\ []MbTypeOK /\ [](Len(mbRows) <= MbCap + Cardinality(MbSenders) - 1)
  /\ [][\A i \in DOMAIN mbRows :
          mbRows[i].read \/ mbRows[i].id \in mbOut'.removed \/ \E j \in DOMAIN mbRows' : mbRows'[j].id = mbRows[i].id]_mbVars
=============================================================================
