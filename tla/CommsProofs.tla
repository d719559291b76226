---------------------------- MODULE CommsProofs -----------------------------
(* Machine-checked proofs about the components that carry a player's messages *)
(* and the world's state, for any senders, directors, shards and bounds: mail *)
(* is kept (Mailbox), a zone's replica is the newest state that reached it    *)
(* (ScopeReplica), no signal is consumed unlanded (Director), the gate's      *)
(* subscriptions follow the edits (ChannelComms), and a tell is shown once    *)
(* and not lost (Tells).                                                      *)
EXTENDS Mailbox, ScopeReplica, Director, Tells, ChannelComms,
        FiniteSetTheorems, WellFoundedInduction, TLAPS

-----------------------------------------------------------------------------
(* Mailbox: an insert that has counted below the cap stands for a row.         *)

MbRow == [id : 1..MbMails, read : BOOLEAN]
MbWriter == [id : 0..MbMails, at : MbStages]
Inserters == {w \in MbSenders : At(w, "insert") \/ At(w, "reinsert")}

MbInv ==
  /\ MbTypeOK /\ mbOut \in [sent : SUBSET (1..MbMails), removed : SUBSET (1..MbMails)]
  /\ \A w \in MbSenders : mbSend[w].at # "idle" => mbSend[w].id \in 1..MbMails
  /\ Len(mbRows) + Cardinality(Inserters) <= MbCap + Cardinality(MbSenders) - 1

\* A row survives in another inbox when its id does.
Survives(row) == \E j \in DOMAIN mbRows' : mbRows'[j].id = row.id

LEMMA SendersFinite ==
  /\ Cardinality(MbSenders) \in Nat /\ Cardinality(MbSenders) >= 1
  /\ \A S \in SUBSET MbSenders : IsFiniteSet(S) /\ Cardinality(S) \in Nat /\ Cardinality(S) <= Cardinality(MbSenders)
  /\ \A S \in SUBSET MbSenders : \A w \in MbSenders \ S :
       Cardinality(S \cup {w}) = Cardinality(S) + 1 /\ Cardinality(S) + 1 <= Cardinality(MbSenders)
  /\ \A S \in SUBSET MbSenders : \A w \in S : Cardinality(S \ {w}) = Cardinality(S) - 1
  <1>1. \A S \in SUBSET MbSenders : IsFiniteSet(S) /\ Cardinality(S) \in Nat /\ Cardinality(S) <= Cardinality(MbSenders)
    BY MbAssumption, FS_Subset, FS_CardinalityType
  <1>2. Cardinality(MbSenders) \in Nat /\ Cardinality(MbSenders) # 0
    BY MbAssumption, FS_CardinalityType, FS_EmptySet
  <1>3. ASSUME NEW S \in SUBSET MbSenders, NEW w \in MbSenders \ S
        PROVE  Cardinality(S \cup {w}) = Cardinality(S) + 1 /\ Cardinality(S) + 1 <= Cardinality(MbSenders)
    <2>1. Cardinality(S \cup {w}) = Cardinality(S) + 1
      BY <1>1, FS_AddElement
    <2>2. S \cup {w} \in SUBSET MbSenders
      OBVIOUS
    <2>. QED
      BY <1>1, <2>1, <2>2
  <1>4. ASSUME NEW S \in SUBSET MbSenders, NEW w \in S
        PROVE  Cardinality(S \ {w}) = Cardinality(S) - 1
    BY <1>1, FS_RemoveElement
  <1>. QED
    BY <1>1, <1>2, <1>3, <1>4

\* A writer's step from one stage to another, and who inserts then.
LEMMA GotoStage ==
  ASSUME MbInv, NEW w \in MbSenders, NEW to \in MbStages, Goto(w, to)
  PROVE  /\ mbSend' \in [MbSenders -> MbWriter]
         /\ mbSend'[w].at = to /\ mbSend'[w].id = (IF to = "idle" THEN 0 ELSE mbSend[w].id)
         /\ \A u \in MbSenders \ {w} : mbSend'[u] = mbSend[u]
         /\ Inserters' = IF to \in {"insert", "reinsert"} THEN Inserters \cup {w} ELSE Inserters \ {w}
  <1>. DEFINE x == [id |-> IF to = "idle" THEN 0 ELSE mbSend[w].id, at |-> to]
  <1>1. mbSend \in [MbSenders -> MbWriter] /\ mbSend' = [mbSend EXCEPT ![w] = x]
    BY DEF MbInv, MbTypeOK, MbWriter, Goto
  <1>2. mbSend[w] \in MbWriter
    BY <1>1
  <1>3. x \in MbWriter /\ x.at = to /\ x.id = IF to = "idle" THEN 0 ELSE mbSend[w].id
    BY <1>2, MbAssumption DEF MbWriter
  <1>. HIDE DEF x
  <1>4. mbSend'[w] = x /\ \A u \in MbSenders \ {w} : mbSend'[u] = mbSend[u]
    BY <1>1
  <1>5. mbSend' \in [MbSenders -> MbWriter]
    BY <1>1, <1>3
  <1>6. Inserters' = IF to \in {"insert", "reinsert"} THEN Inserters \cup {w} ELSE Inserters \ {w}
    BY <1>3, <1>4 DEF Inserters, At
  <1>. QED
    BY <1>3, <1>4, <1>5, <1>6

LEMMA LeastOfSet ==
  ASSUME NEW S \in SUBSET Nat, S # {}
  PROVE  \E i \in S : \A j \in S : i <= j
  <1>. DEFINE R == OpToRel(<, Nat)
  <1>1. IsWellFoundedOn(R, Nat)
    BY NatLessThanWellFounded
  <1>2. \A i, j \in Nat : i < j => <<i, j>> \in R
    BY DEF OpToRel
  <1>. HIDE DEF R
  <1>3. \E i \in S : \A j \in S : ~(<<j, i>> \in R)
    BY <1>1, WFMin
  <1>4. PICK i \in S : \A j \in S : ~(<<j, i>> \in R)
    BY <1>3
  <1>5. \A j \in S : i <= j
    <2>. SUFFICES ASSUME NEW j \in S PROVE i <= j
      OBVIOUS
    <2>1. i \in Nat /\ j \in Nat /\ ~(j < i)
      BY <1>2, <1>4
    <2>. QED
      BY <2>1
  <1>. QED
    BY <1>5

LEMMA MbInitInv ==
  MbInit => MbInv
  <1>. SUFFICES ASSUME MbInit PROVE MbInv
    OBVIOUS
  <1>1. /\ mbSend \in [MbSenders -> MbWriter] /\ \A w \in MbSenders : mbSend[w].at = "idle"
        /\ mbRows = <<>> /\ mbSent \in 0..MbMails
        /\ mbOut \in [sent : SUBSET (1..MbMails), removed : SUBSET (1..MbMails)]
        /\ mbOut.sent = {} /\ mbOut.removed = {}
    BY MbAssumption DEF MbInit, MbWriter, MbStages
  <1>2. Inserters = {}
    BY <1>1 DEF Inserters, At
  <1>3. Len(mbRows) + Cardinality(Inserters) <= MbCap + Cardinality(MbSenders) - 1
    BY <1>1, <1>2, FS_EmptySet, SendersFinite, MbAssumption
  <1>4. MbTypeOK
    BY <1>1 DEF MbTypeOK, MbWriter
  <1>. QED
    BY <1>1, <1>3, <1>4 DEF MbInv

LEMMA ConcatFacts ==
  ASSUME NEW S, NEW a \in Seq(S), NEW b \in Seq(S)
  PROVE  /\ a \o b \in Seq(S) /\ Len(a) \in Nat /\ Len(b) \in Nat /\ Len(a \o b) = Len(a) + Len(b)
         /\ \A k \in 1..Len(a) : (a \o b)[k] = a[k]
         /\ \A k \in 1..Len(b) : (a \o b)[Len(a) + k] = b[k]
  <1>1. a \o b \in Seq(S) /\ Len(a) \in Nat /\ Len(b) \in Nat /\ Len(a \o b) = Len(a) + Len(b)
    OBVIOUS
  <1>2. \A k \in 1..Len(a) : (a \o b)[k] = a[k]
    BY <1>1
  <1>3. ASSUME NEW k \in 1..Len(b)
        PROVE  (a \o b)[Len(a) + k] = b[k]
    BY <1>1
  <1>. QED
    BY <1>1, <1>2, <1>3

\* Rows without the i-th: the others survive.
LEMMA RemoveRow ==
  ASSUME NEW rows \in Seq(MbRow), NEW i \in 1..Len(rows)
  PROVE  /\ RemoveAt(rows, i) \in Seq(MbRow) /\ Len(RemoveAt(rows, i)) = Len(rows) - 1
         /\ \A k \in 1..Len(rows) : k # i =>
              \E j \in 1..Len(RemoveAt(rows, i)) : RemoveAt(rows, i)[j] = rows[k]
  <1>. DEFINE a == SubSeq(rows, 1, i - 1)
              b == SubSeq(rows, i + 1, Len(rows))
  <1>1. /\ a \in Seq(MbRow) /\ Len(a) = i - 1 /\ \A k \in 1..(i - 1) : a[k] = rows[k]
    OBVIOUS
  <1>2. /\ b \in Seq(MbRow) /\ Len(b) = Len(rows) - i /\ \A k \in 1..(Len(rows) - i) : b[k] = rows[i + k]
    OBVIOUS
  <1>3. RemoveAt(rows, i) = a \o b
    BY DEF RemoveAt
  <1>. HIDE DEF a, b
  <1>4. /\ a \o b \in Seq(MbRow) /\ Len(a \o b) = Len(rows) - 1
        /\ \A k \in 1..(i - 1) : (a \o b)[k] = rows[k]
        /\ \A k \in 1..(Len(rows) - i) : (a \o b)[(i - 1) + k] = rows[i + k]
    <2>1. /\ a \o b \in Seq(MbRow) /\ Len(a \o b) = Len(a) + Len(b)
          /\ \A k \in 1..Len(a) : (a \o b)[k] = a[k]
          /\ \A k \in 1..Len(b) : (a \o b)[Len(a) + k] = b[k]
      <3>1. a \in Seq(MbRow) /\ b \in Seq(MbRow)
        BY <1>1, <1>2
      <3>. QED
        BY <3>1, ConcatFacts
    <2>2. Len(a \o b) = Len(rows) - 1
      BY <1>1, <1>2, <2>1
    <2>. QED
      BY <1>1, <1>2, <2>1, <2>2
  <1>5. ASSUME NEW k \in 1..Len(rows), k # i
        PROVE  \E j \in 1..Len(a \o b) : (a \o b)[j] = rows[k]
    <2>1. CASE k < i
      <3>1. k \in 1..(i - 1) /\ k \in 1..Len(a \o b)
        BY <1>4, <2>1
      <3>. QED
        BY <1>4, <3>1
    <2>2. CASE k > i
      <3>1. k - i \in 1..(Len(rows) - i) /\ (i - 1) + (k - i) = k - 1 /\ i + (k - i) = k
        BY <2>2
      <3>2. (a \o b)[k - 1] = rows[k]
        BY <1>4, <3>1
      <3>3. k - 1 \in 1..Len(a \o b)
        BY <1>4, <2>2
      <3>. QED
        BY <3>2, <3>3
    <2>. QED
      BY <1>5, <2>1, <2>2
  <1>. QED
    BY <1>3, <1>4, <1>5

\* What a step does to the rows it finds.
MbKeeps ==
  \A i \in DOMAIN mbRows : mbRows[i].read \/ mbRows[i].id \in mbOut'.removed \/ Survives(mbRows[i])

\* A step that only moves a writer on.
LEMMA MoveKeeps ==
  ASSUME MbInv, NEW w \in MbSenders, NEW to \in MbStages, Goto(w, to),
         mbRows' = mbRows, mbSent' = mbSent, mbOut' = mbOut, mbSend[w].at # "idle",
         to \in {"insert", "reinsert"} => Len(mbRows) < MbCap
  PROVE  MbInv' /\ MbKeeps
  <1>1. /\ mbSend' \in [MbSenders -> MbWriter] /\ mbSend'[w].at = to
        /\ mbSend'[w].id = (IF to = "idle" THEN 0 ELSE mbSend[w].id)
        /\ \A u \in MbSenders \ {w} : mbSend'[u] = mbSend[u]
        /\ Inserters' = IF to \in {"insert", "reinsert"} THEN Inserters \cup {w} ELSE Inserters \ {w}
    BY GotoStage
  <1>2. /\ Inserters \in SUBSET MbSenders /\ Inserters' \in SUBSET MbSenders
        /\ Cardinality(Inserters) \in Nat /\ Cardinality(Inserters') \in Nat
        /\ Cardinality(Inserters') <= Cardinality(MbSenders) /\ Cardinality(MbSenders) \in Nat
    BY SendersFinite DEF Inserters
  <1>3. Len(mbRows) \in Nat /\ MbCap \in Nat /\ Len(mbRows) + Cardinality(Inserters) <= MbCap + Cardinality(MbSenders) - 1
    BY MbAssumption DEF MbInv, MbTypeOK
  <1>4. Len(mbRows') + Cardinality(Inserters') <= MbCap + Cardinality(MbSenders) - 1
    <2>1. CASE to \in {"insert", "reinsert"}
      BY <1>2, <1>3, <2>1
    <2>2. CASE to \notin {"insert", "reinsert"}
      <3>1. Inserters' \in SUBSET Inserters /\ IsFiniteSet(Inserters)
        BY <1>1, <1>2, <2>2, SendersFinite
      <3>2. Cardinality(Inserters') <= Cardinality(Inserters)
        BY <3>1, FS_Subset
      <3>. QED
        BY <1>2, <1>3, <3>2
    <2>. QED
      BY <2>1, <2>2
  <1>5. MbTypeOK' /\ mbOut' \in [sent : SUBSET (1..MbMails), removed : SUBSET (1..MbMails)]
    BY <1>1 DEF MbInv, MbTypeOK, MbWriter
  <1>6. \A u \in MbSenders : mbSend'[u].at # "idle" => mbSend'[u].id \in 1..MbMails
    BY <1>1 DEF MbInv
  <1>7. MbKeeps
    BY DEF MbKeeps, Survives
  <1>. QED
    BY <1>4, <1>5, <1>6, <1>7 DEF MbInv

\* A step that changes the rows, not adding one unless a writer stops inserting.
LEMMA RowsKeep ==
  ASSUME MbInv, mbRows' \in Seq(MbRow), mbSent' = mbSent, mbOut' \in [sent : SUBSET (1..MbMails), removed : SUBSET (1..MbMails)],
         mbSend' \in [MbSenders -> MbWriter],
         \A w \in MbSenders : mbSend'[w].at # "idle" => mbSend'[w].id \in 1..MbMails,
         Len(mbRows') + Cardinality(Inserters)' <= Len(mbRows) + Cardinality(Inserters)
  PROVE  MbInv'
  <1>1. Inserters \in SUBSET MbSenders /\ Inserters' \in SUBSET MbSenders
    BY DEF Inserters
  <1>2. /\ Cardinality(Inserters) \in Nat /\ Cardinality(Inserters') \in Nat
        /\ Cardinality(MbSenders) \in Nat /\ Len(mbRows) \in Nat /\ Len(mbRows') \in Nat /\ MbCap \in Nat
    BY <1>1, SendersFinite, MbAssumption DEF MbInv, MbTypeOK
  <1>3. MbTypeOK'
    BY DEF MbInv, MbTypeOK, MbRow, MbWriter
  <1>. QED
    BY <1>2, <1>3 DEF MbInv

LEMMA SendCmdKeeps ==
  ASSUME MbInv, NEW w \in MbSenders, mailSendCmd(w)
  PROVE  MbInv' /\ MbKeeps
  <1>. DEFINE x == [id |-> mbSent + 1, at |-> "resolve"]
  <1>1. /\ mbSend[w].at = "idle" /\ mbSent < MbMails /\ mbSent' = mbSent + 1
        /\ mbSend' = [mbSend EXCEPT ![w] = x] /\ mbRows' = mbRows /\ mbOut' = mbOut
    BY DEF mailSendCmd, At
  <1>2. mbSent + 1 \in 0..MbMails /\ mbSent + 1 \in 1..MbMails
    BY <1>1, MbAssumption DEF MbInv, MbTypeOK
  <1>3. x \in MbWriter /\ x.at = "resolve" /\ x.id \in 1..MbMails
    BY <1>2 DEF MbWriter, MbStages
  <1>. HIDE DEF x
  <1>4. mbSend'[w] = x /\ \A u \in MbSenders \ {w} : mbSend'[u] = mbSend[u]
    BY <1>1 DEF MbInv, MbTypeOK
  <1>5. Inserters' = Inserters
    BY <1>1, <1>3, <1>4 DEF Inserters, At
  <1>6. MbTypeOK'
    BY <1>1, <1>2, <1>3 DEF MbInv, MbTypeOK, MbWriter
  <1>7. \A u \in MbSenders : mbSend'[u].at # "idle" => mbSend'[u].id \in 1..MbMails
    BY <1>3, <1>4 DEF MbInv
  <1>8. MbKeeps
    BY <1>1 DEF MbKeeps, Survives
  <1>. QED
    BY <1>1, <1>5, <1>6, <1>7, <1>8 DEF MbInv

LEMMA SendMailKeeps ==
  ASSUME MbInv, NEW w \in MbSenders, SendMail(w)
  PROVE  MbInv' /\ MbKeeps
  <1>. DEFINE row == [id |-> mbSend[w].id, read |-> FALSE]
  <1>1. /\ w \in Inserters /\ mbRows' = Append(mbRows, row) /\ mbSent' = mbSent
        /\ mbOut' = [mbOut EXCEPT !.sent = @ \cup {mbSend[w].id}] /\ Goto(w, "idle")
    BY DEF SendMail, Inserters
  <1>2. mbSend[w].id \in 1..MbMails
    BY <1>1 DEF MbInv, Inserters, At
  <1>3. row \in MbRow
    BY <1>2 DEF MbRow
  <1>. HIDE DEF row
  <1>4. /\ mbRows \in Seq(MbRow) /\ mbRows' \in Seq(MbRow) /\ Len(mbRows) \in Nat
        /\ Len(mbRows') = Len(mbRows) + 1 /\ \A k \in 1..Len(mbRows) : mbRows'[k] = mbRows[k]
    BY <1>1, <1>3 DEF MbInv, MbTypeOK, MbRow
  <1>5. mbOut' \in [sent : SUBSET (1..MbMails), removed : SUBSET (1..MbMails)]
    BY <1>1, <1>2 DEF MbInv
  <1>6. /\ mbSend' \in [MbSenders -> MbWriter] /\ mbSend'[w].at = "idle"
        /\ \A u \in MbSenders \ {w} : mbSend'[u] = mbSend[u] /\ Inserters' = Inserters \ {w}
    BY <1>1, GotoStage DEF MbStages
  <1>7. Inserters' = Inserters \ {w}
    BY <1>1, GotoStage DEF MbStages
  <1>8. Cardinality(Inserters') = Cardinality(Inserters) - 1 /\ Cardinality(Inserters) \in Nat
    BY <1>1, <1>7, SendersFinite DEF Inserters
  <1>9. Len(mbRows') + Cardinality(Inserters') <= Len(mbRows) + Cardinality(Inserters)
    BY <1>4, <1>8
  <1>10. \A u \in MbSenders : mbSend'[u].at # "idle" => mbSend'[u].id \in 1..MbMails
    BY <1>6 DEF MbInv
  <1>11. MbInv'
    BY <1>1, <1>4, <1>5, <1>6, <1>9, <1>10, RowsKeep
  <1>12. MbKeeps
    BY <1>4 DEF MbKeeps, Survives
  <1>. QED
    BY <1>11, <1>12

LEMMA EvictKeeps ==
  ASSUME MbInv, NEW w \in MbSenders, evictOldestRead(w)
  PROVE  MbInv' /\ MbKeeps
  <1>. DEFINE reads == {i \in DOMAIN mbRows : evictable(mbRows[i])}
              n == CHOOSE i \in reads : \A j \in reads : i <= j
  <1>1. At(w, "evict") /\ mbSent' = mbSent /\ mbOut' = mbOut
    BY DEF evictOldestRead
  <1>2. CASE reads = {}
    BY <1>1, <1>2, MoveKeeps DEF evictOldestRead, MbStages, At
  <1>3. CASE reads # {}
    <2>1. Goto(w, "recount") /\ mbRows' = RemoveAt(mbRows, n)
      BY <1>3 DEF evictOldestRead
    <2>2. /\ mbRows \in Seq(MbRow) /\ DOMAIN mbRows = 1..Len(mbRows) /\ Len(mbRows) \in Nat
      BY DEF MbInv, MbTypeOK, MbRow
    <2>3. n \in 1..Len(mbRows) /\ mbRows[n].read
      <3>1. reads \in SUBSET Nat /\ reads # {}
        BY <1>3, <2>2
      <3>2. \E i \in reads : \A j \in reads : i <= j
        BY <3>1, LeastOfSet
      <3>3. n \in reads
        BY <3>2
      <3>. QED
        BY <3>3, <2>2 DEF evictable
    <2>. HIDE DEF n, reads
    <2>4. /\ mbRows' \in Seq(MbRow) /\ Len(mbRows') = Len(mbRows) - 1
          /\ \A k \in 1..Len(mbRows) : k # n => \E j \in 1..Len(mbRows') : mbRows'[j] = mbRows[k]
      BY <2>1, <2>2, <2>3, RemoveRow
    <2>5. /\ mbSend' \in [MbSenders -> MbWriter] /\ mbSend'[w].id = mbSend[w].id
          /\ \A u \in MbSenders \ {w} : mbSend'[u] = mbSend[u]
          /\ Inserters' = Inserters \ {w}
      BY <2>1, GotoStage DEF MbStages
    <2>6. Inserters' = Inserters
      BY <1>1, <2>5 DEF Inserters, At
    <2>7. \A u \in MbSenders : mbSend'[u].at # "idle" => mbSend'[u].id \in 1..MbMails
      BY <1>1, <2>5 DEF MbInv, At
    <2>8. Cardinality(Inserters) \in Nat
      BY SendersFinite DEF Inserters
    <2>9. MbInv'
      <3>1. Len(mbRows') + Cardinality(Inserters)' <= Len(mbRows) + Cardinality(Inserters)
        BY <2>2, <2>4, <2>6, <2>8
      <3>. QED
        BY <3>1, <1>1, <2>4, <2>5, <2>7, RowsKeep DEF MbInv
    <2>10. MbKeeps
      BY <2>2, <2>3, <2>4 DEF MbKeeps, Survives
    <2>. QED
      BY <2>9, <2>10
  <1>. QED
    BY <1>2, <1>3

\* The owner's and the reaper's steps leave the writers alone.
LEMMA OwnerKeeps ==
  ASSUME MbInv, mbRows' \in Seq(MbRow), Len(mbRows') <= Len(mbRows), mbSend' = mbSend, mbSent' = mbSent,
         mbOut' \in [sent : SUBSET (1..MbMails), removed : SUBSET (1..MbMails)]
  PROVE  MbInv'
  <1>1. Inserters' = Inserters
    BY DEF Inserters, At
  <1>2. Cardinality(Inserters) \in Nat
    BY SendersFinite DEF Inserters
  <1>3. Len(mbRows) \in Nat /\ Len(mbRows') \in Nat
    BY DEF MbInv, MbTypeOK
  <1>4. Len(mbRows') + Cardinality(Inserters)' <= Len(mbRows) + Cardinality(Inserters)
    BY <1>1, <1>2, <1>3
  <1>5. mbSend' \in [MbSenders -> MbWriter] /\ \A w \in MbSenders : mbSend'[w].at # "idle" => mbSend'[w].id \in 1..MbMails
    BY DEF MbInv, MbTypeOK, MbWriter
  <1>. QED
    BY <1>4, <1>5, RowsKeep

LEMMA ReadKeeps ==
  ASSUME MbInv, NEW pos \in 1..(MbCap + Cardinality(MbSenders)), ReadMail(pos)
  PROVE  MbInv' /\ MbKeeps
  <1>. DEFINE n == newestFirst(pos)
  <1>1. pos <= Len(mbRows) /\ mbRows' = [mbRows EXCEPT ![n].read = TRUE] /\ UNCHANGED <<mbSend, mbSent, mbOut>>
    BY DEF ReadMail
  <1>2. mbRows \in Seq(MbRow) /\ Len(mbRows) \in Nat /\ DOMAIN mbRows = 1..Len(mbRows)
    BY DEF MbInv, MbTypeOK, MbRow
  <1>3. n \in 1..Len(mbRows)
    BY <1>1, <1>2, SendersFinite, MbAssumption DEF newestFirst
  <1>. HIDE DEF n
  <1>. DEFINE row == [mbRows[n] EXCEPT !.read = TRUE]
  <1>4. row \in MbRow /\ row.id = mbRows[n].id
    <2>1. mbRows[n] \in MbRow
      BY <1>2, <1>3
    <2>. QED
      BY <2>1 DEF MbRow
  <1>5. mbRows' = [mbRows EXCEPT ![n] = row]
    BY <1>1
  <1>. HIDE DEF row
  <1>6. /\ mbRows' \in Seq(MbRow) /\ Len(mbRows') = Len(mbRows) /\ DOMAIN mbRows' = DOMAIN mbRows
        /\ mbRows'[n] = row /\ \A k \in 1..Len(mbRows) : k # n => mbRows'[k] = mbRows[k]
    BY <1>2, <1>3, <1>4, <1>5
  <1>7. MbInv'
    <2>1. Len(mbRows') <= Len(mbRows)
      BY <1>2, <1>6
    <2>. QED
      BY <2>1, <1>1, <1>6, OwnerKeeps DEF MbInv
  <1>8. MbKeeps
    BY <1>2, <1>3, <1>4, <1>6 DEF MbKeeps, Survives
  <1>. QED
    BY <1>7, <1>8

LEMMA DeleteKeeps ==
  ASSUME MbInv, NEW pos \in 1..(MbCap + Cardinality(MbSenders)), DeleteMail(pos)
  PROVE  MbInv' /\ MbKeeps
  <1>. DEFINE n == newestFirst(pos)
  <1>1. /\ pos <= Len(mbRows) /\ mbRows' = RemoveAt(mbRows, n)
        /\ mbOut' = [mbOut EXCEPT !.removed = @ \cup {mbRows[n].id}] /\ UNCHANGED <<mbSend, mbSent>>
    BY DEF DeleteMail
  <1>2. mbRows \in Seq(MbRow) /\ Len(mbRows) \in Nat /\ DOMAIN mbRows = 1..Len(mbRows)
    BY DEF MbInv, MbTypeOK, MbRow
  <1>3. n \in 1..Len(mbRows)
    BY <1>1, <1>2, SendersFinite, MbAssumption DEF newestFirst
  <1>. HIDE DEF n
  <1>4. mbRows[n].id \in 1..MbMails
    <2>1. mbRows[n] \in MbRow
      BY <1>2, <1>3
    <2>. QED
      BY <2>1 DEF MbRow
  <1>5. /\ mbOut' \in [sent : SUBSET (1..MbMails), removed : SUBSET (1..MbMails)]
        /\ mbRows[n].id \in mbOut'.removed
    BY <1>1, <1>4 DEF MbInv
  <1>6. /\ mbRows' \in Seq(MbRow) /\ Len(mbRows') = Len(mbRows) - 1
        /\ \A k \in 1..Len(mbRows) : k # n => \E j \in 1..Len(mbRows') : mbRows'[j] = mbRows[k]
    BY <1>1, <1>2, <1>3, RemoveRow
  <1>7. MbInv'
    <2>1. Len(mbRows') <= Len(mbRows)
      BY <1>2, <1>6
    <2>. QED
      BY <2>1, <1>1, <1>5, <1>6, OwnerKeeps
  <1>8. MbKeeps
    <2>1. DOMAIN mbRows' = 1..Len(mbRows')
      BY <1>6
    <2>. QED
      BY <2>1, <1>2, <1>5, <1>6 DEF MbKeeps, Survives
  <1>. QED
    BY <1>7, <1>8

LEMMA ReapKeeps ==
  ASSUME MbInv, NEW n \in 1..(MbCap + Cardinality(MbSenders)), ReapDeadLetterMail(n)
  PROVE  MbInv' /\ MbKeeps
  <1>1. /\ n <= Len(mbRows) /\ mbRows' = SubSeq(mbRows, n + 1, Len(mbRows))
        /\ mbOut' = [mbOut EXCEPT !.removed = @ \cup {mbRows[i].id : i \in 1..n}]
        /\ UNCHANGED <<mbSend, mbSent>>
    BY DEF ReapDeadLetterMail
  <1>2. mbRows \in Seq(MbRow) /\ Len(mbRows) \in Nat /\ DOMAIN mbRows = 1..Len(mbRows) /\ n \in Nat
    BY SendersFinite, MbAssumption DEF MbInv, MbTypeOK, MbRow
  <1>3. /\ mbRows' \in Seq(MbRow) /\ Len(mbRows') = Len(mbRows) - n
        /\ \A j \in 1..(Len(mbRows) - n) : mbRows'[j] = mbRows[n + j]
    BY <1>1, <1>2
  <1>4. \A i \in 1..n : mbRows[i].id \in 1..MbMails
    <2>1. \A i \in 1..n : mbRows[i] \in MbRow
      BY <1>1, <1>2
    <2>. QED
      BY <2>1 DEF MbRow
  <1>5. /\ mbOut' \in [sent : SUBSET (1..MbMails), removed : SUBSET (1..MbMails)]
        /\ \A i \in 1..n : mbRows[i].id \in mbOut'.removed
    BY <1>1, <1>4 DEF MbInv
  <1>6. MbInv'
    <2>1. Len(mbRows') <= Len(mbRows)
      BY <1>2, <1>3
    <2>. QED
      BY <2>1, <1>1, <1>3, <1>5, OwnerKeeps
  <1>7. ASSUME NEW k \in 1..Len(mbRows), k > n
        PROVE  \E j \in 1..Len(mbRows') : mbRows'[j] = mbRows[k]
    <2>1. k - n \in 1..(Len(mbRows) - n) /\ n + (k - n) = k /\ k - n \in 1..Len(mbRows')
      BY <1>2, <1>3, <1>7
    <2>2. mbRows'[k - n] = mbRows[k]
      BY <1>3, <2>1
    <2>. QED
      BY <2>1, <2>2
  <1>8. MbKeeps
    <2>. SUFFICES ASSUME NEW k \in 1..Len(mbRows)
                  PROVE  mbRows[k].id \in mbOut'.removed \/ Survives(mbRows[k])
      BY <1>2 DEF MbKeeps
    <2>1. CASE k > n
      <3>1. DOMAIN mbRows' = 1..Len(mbRows')
        BY <1>3
      <3>. QED
        BY <2>1, <3>1, <1>7 DEF Survives
    <2>2. CASE ~(k > n)
      BY <2>2, <1>2, <1>5
    <2>. QED
      BY <2>1, <2>2
  <1>. QED
    BY <1>6, <1>8

LEMMA CountKeeps ==
  ASSUME MbInv, NEW w \in MbSenders, count(w)
  PROVE  MbInv' /\ MbKeeps
  <1>. DEFINE to == IF Len(mbRows) < MbCap THEN (IF At(w, "count") THEN "insert" ELSE "reinsert")
                    ELSE (IF At(w, "count") THEN "evict" ELSE "idle")
  <1>1. /\ mbSend[w].at # "idle" /\ Goto(w, to) /\ mbRows' = mbRows /\ mbSent' = mbSent /\ mbOut' = mbOut
    BY DEF count, At
  <1>2. to \in MbStages /\ (to \in {"insert", "reinsert"} => Len(mbRows) < MbCap)
    BY DEF MbStages
  <1>. HIDE DEF to
  <1>. QED
    BY <1>1, <1>2, MoveKeeps

LEMMA MbStepInv ==
  MbInv /\ [MbNext]_mbVars => MbInv' /\ (MbKeeps \/ mbVars' = mbVars)
  <1>. SUFFICES ASSUME MbInv, [MbNext]_mbVars PROVE MbInv' /\ (MbKeeps \/ mbVars' = mbVars)
    OBVIOUS
  <1>1. ASSUME NEW w \in MbSenders, mailSendCmd(w) PROVE MbInv' /\ MbKeeps
    BY <1>1, SendCmdKeeps
  <1>2. ASSUME NEW w \in MbSenders, count(w) PROVE MbInv' /\ MbKeeps
    BY <1>2, CountKeeps
  <1>3. ASSUME NEW w \in MbSenders, SendMail(w) PROVE MbInv' /\ MbKeeps
    BY <1>3, SendMailKeeps
  <1>4. ASSUME NEW w \in MbSenders, evictOldestRead(w) PROVE MbInv' /\ MbKeeps
    BY <1>4, EvictKeeps
  <1>5. ASSUME NEW w \in MbSenders, NEW found \in BOOLEAN, resolve(w, found) PROVE MbInv' /\ MbKeeps
    <2>. DEFINE to == IF found THEN "count" ELSE "idle"
    <2>1. /\ mbSend[w].at # "idle" /\ Goto(w, to) /\ mbRows' = mbRows /\ mbSent' = mbSent /\ mbOut' = mbOut
      BY <1>5 DEF resolve, At
    <2>2. to \in MbStages /\ to \notin {"insert", "reinsert"}
      BY DEF MbStages
    <2>. HIDE DEF to
    <2>. QED
      BY <2>1, <2>2, MoveKeeps
  <1>6. ASSUME NEW pos \in 1..(MbCap + Cardinality(MbSenders)), ReadMail(pos) PROVE MbInv' /\ MbKeeps
    BY <1>6, ReadKeeps
  <1>7. ASSUME NEW pos \in 1..(MbCap + Cardinality(MbSenders)), DeleteMail(pos) PROVE MbInv' /\ MbKeeps
    BY <1>7, DeleteKeeps
  <1>8. ASSUME NEW n \in 1..(MbCap + Cardinality(MbSenders)), ReapDeadLetterMail(n) PROVE MbInv' /\ MbKeeps
    BY <1>8, ReapKeeps
  <1>9. CASE UNCHANGED mbVars
    BY <1>9 DEF mbVars, MbInv, MbTypeOK, Inserters, At
  <1>. QED
    BY <1>1, <1>2, <1>3, <1>4, <1>5, <1>6, <1>7, <1>8, <1>9 DEF MbNext

\* No unread mail is dropped by the sweep, whatever the senders, the owner and the reaper do, and the
\* inbox overshoots its cap by at most one row per concurrent sender but one (store/mail.go SendMail).
THEOREM MailIsKept == MbSpec => MailKept
  <1>1. MbInv => MbTypeOK /\ Len(mbRows) <= MbCap + Cardinality(MbSenders) - 1
    <2>. SUFFICES ASSUME MbInv PROVE MbTypeOK /\ Len(mbRows) <= MbCap + Cardinality(MbSenders) - 1
      OBVIOUS
    <2>1. Cardinality(Inserters) \in Nat /\ Cardinality(MbSenders) \in Nat /\ MbCap \in Nat /\ Len(mbRows) \in Nat
      BY SendersFinite, MbAssumption DEF Inserters, MbInv, MbTypeOK
    <2>. QED
      BY <2>1 DEF MbInv
  <1>2. MbInv /\ [MbNext]_mbVars =>
          [\A i \in DOMAIN mbRows :
             mbRows[i].read \/ mbRows[i].id \in mbOut'.removed
             \/ \E j \in DOMAIN mbRows' : mbRows'[j].id = mbRows[i].id]_mbVars
    BY MbStepInv DEF MbKeeps, Survives
  <1>. QED
    BY <1>1, <1>2, MbInitInv, MbStepInv, PTL DEF MbSpec, MailKept

-----------------------------------------------------------------------------
(* Director: the deduplication high-water of an actor is a landed signal not   *)
(* past the consumer's cursor, so what is acknowledged as a duplicate landed.  *)

DrBounds ==
  /\ Len(drStream) <= DrSignals /\ drCons.next <= Len(drStream) + 1
  /\ drDone \subseteq 1..Len(drStream) /\ drParked \subseteq 1..Len(drStream)
  /\ drCons.at # DrNone => drCons.next <= Len(drStream)
  /\ drCons.at = DrNone => drCons.try < DrMaxDeliver

DrApplied ==
  \A d \in DrDirs :
    /\ \A i \in DOMAIN drDir[d].inbox : drDir[d].inbox[i] <= Len(drStream) /\ drDir[d].inbox[i] <= drCons.next
    /\ drDir[d].applied <= drCons.next
    /\ drDir[d].applied > 0 => drDir[d].applied \in drDone

\* A report that can still clear the schedule: not handled yet, or parked.
DrOpen(s) == (s >= drCons.next /\ s \notin drDone) \/ s \in drParked
DrWedge ==
  drRow["schedule"].val = 1 =>
    drBoss > 0 \/ \E s \in 1..Len(drStream) : drStream[s] = "schedule" /\ DrOpen(s)

DrInv == DrTypeOK /\ DrBounds /\ DrApplied /\ SignalsLand /\ DrWedge

LEMMA SeqElement ==
  ASSUME NEW S, NEW q \in Seq(S), NEW j \in 1..Len(q)
  PROVE  q[j] \in S
  OBVIOUS

LEMMA QueueTail ==
  ASSUME NEW S, NEW q \in Seq(S), q # <<>>
  PROVE  /\ Len(q) \in Nat /\ Len(q) > 0 /\ Head(q) = q[1] /\ Head(q) \in S
         /\ Tail(q) \in Seq(S) /\ Len(Tail(q)) = Len(q) - 1
         /\ \A i \in 1..Len(Tail(q)) : i + 1 \in 1..Len(q) /\ Tail(q)[i] = q[i + 1]
  <1>1. Len(q) \in Nat /\ Len(q) > 0 /\ Head(q) = q[1] /\ Head(q) \in S
    OBVIOUS
  <1>2. Tail(q) \in Seq(S) /\ Len(Tail(q)) = Len(q) - 1
    OBVIOUS
  <1>3. \A i \in 1..Len(Tail(q)) : i + 1 \in 1..Len(q) /\ Tail(q)[i] = q[i + 1]
    BY <1>1, <1>2
  <1>. QED
    BY <1>1, <1>2, <1>3

LEMMA DrNats ==
  ASSUME DrInv
  PROVE  /\ Len(drStream) \in Nat /\ drCons.next \in Nat /\ drCons.next >= 1 /\ drCons.try \in Nat /\ DrSignals \in Nat
         /\ DrMaxDeliver \in Nat /\ DrMaxDeliver > 0 /\ drBoss \in Nat
         /\ drCons \in DrConsumer /\ drCons.next \in 1..DrSignals + 1 /\ drCons.try \in 0..DrMaxDeliver
         /\ \A s \in 1..Len(drStream) : s \in 1..DrSignals /\ drStream[s] \in DrKeys
         /\ \A d \in DrDirs : /\ drDir[d] \in DrActor /\ drDir[d].applied \in Nat
                              /\ drDir[d].inbox \in Seq(1..DrSignals) /\ Len(drDir[d].inbox) \in Nat
                              /\ DOMAIN drDir[d].inbox = 1..Len(drDir[d].inbox)
  <1>1. /\ drStream \in Seq(DrKeys) /\ drCons \in DrConsumer /\ drBoss \in Nat /\ drDir \in [DrDirs -> DrActor]
        /\ DrSignals \in Nat /\ DrMaxDeliver \in Nat \ {0} /\ Len(drStream) <= DrSignals
    BY DrAssumption DEF DrInv, DrTypeOK, DrBounds
  <1>2. drCons.next \in 1..DrSignals + 1 /\ drCons.try \in 0..DrMaxDeliver
    BY <1>1 DEF DrConsumer
  <1>3. \A s \in 1..Len(drStream) : s \in 1..DrSignals /\ drStream[s] \in DrKeys
    BY <1>1
  <1>4. ASSUME NEW d \in DrDirs
        PROVE  /\ drDir[d] \in DrActor /\ drDir[d].applied \in Nat
               /\ drDir[d].inbox \in Seq(1..DrSignals) /\ Len(drDir[d].inbox) \in Nat
               /\ DOMAIN drDir[d].inbox = 1..Len(drDir[d].inbox)
    <2>1. drDir[d].applied \in 0..DrSignals /\ drDir[d].inbox \in Seq(1..DrSignals)
      BY <1>1 DEF DrActor
    <2>. QED
      BY <1>1, <2>1
  <1>. QED
    BY <1>1, <1>2, <1>3, <1>4

\* What an acknowledgement or a NAK leaves of the consumer.
LEMMA SettledFacts ==
  ASSUME DrInv, NEW d \in DrDirs, NEW s \in 1..Len(drStream), NEW ack \in BOOLEAN,
         drCons' = Settled(d, s, ack), drParked' = drParked \cup ParkedBy(d, s, ack)
  PROVE  /\ drCons' \in DrConsumer /\ drCons'.next \in {drCons.next, drCons.next + 1}
         /\ drCons'.next <= Len(drStream) + 1
         /\ drCons'.at # DrNone => drCons'.next <= Len(drStream)
         /\ drCons'.at = DrNone => drCons'.try < DrMaxDeliver
         /\ drParked \subseteq drParked' /\ drParked' \subseteq drParked \cup {s}
         /\ drCons'.next # drCons.next => s = drCons.next /\ (ack \/ s \in drParked')
  <1>1. drParked \subseteq drParked' /\ drParked' \subseteq drParked \cup {s}
    BY DEF ParkedBy
  <1>2. CASE drCons.at # d \/ drCons.next # s
    BY <1>1, <1>2, DrNats DEF Settled, DrInv, DrBounds
  <1>3. CASE ~(drCons.at # d \/ drCons.next # s) /\ (ack \/ drCons.try = DrMaxDeliver)
    <2>. DEFINE x == [next |-> s + 1, try |-> 0, at |-> DrNone]
    <2>1. drCons' = x
      BY <1>3 DEF Settled
    <2>2. s + 1 \in 1..DrSignals + 1 /\ 0 \in 0..DrMaxDeliver
      <3>1. s \in 1..DrSignals /\ DrSignals \in Nat /\ DrMaxDeliver \in Nat
        BY DrNats
      <3>. QED
        BY <3>1
    <2>3. x \in DrConsumer /\ x.next = s + 1 /\ x.try = 0 /\ x.at = DrNone
      BY <2>2 DEF DrConsumer
    <2>4. ack \/ s \in drParked'
      BY <1>3 DEF ParkedBy
    <2>. HIDE DEF x
    <2>. QED
      BY <1>1, <1>3, <2>1, <2>3, <2>4, DrNats
  <1>4. CASE ~(drCons.at # d \/ drCons.next # s) /\ ~(ack \/ drCons.try = DrMaxDeliver)
    <2>. DEFINE x == [drCons EXCEPT !.at = DrNone]
    <2>1. drCons' = x
      BY <1>4 DEF Settled
    <2>2. x \in DrConsumer /\ x.next = drCons.next /\ x.try = drCons.try /\ x.at = DrNone
      BY DrNats DEF DrConsumer
    <2>3. drCons.try < DrMaxDeliver
      BY <1>4, DrNats
    <2>. HIDE DEF x
    <2>. QED
      BY <1>1, <1>4, <2>1, <2>2, <2>3, DrNats DEF DrInv, DrBounds
  <1>. QED
    BY <1>2, <1>3, <1>4

\* A signal settled, with what its handler landed.
LEMMA SettledKeeps ==
  ASSUME DrInv, NEW d \in DrDirs, NEW s \in 1..Len(drStream), NEW ack \in BOOLEAN,
         drCons' = Settled(d, s, ack), drParked' = drParked \cup ParkedBy(d, s, ack),
         UNCHANGED <<drStream, drBoss, drLeft, drLease>>,
         drDone' \in {drDone, drDone \cup {s}}, ack => s \in drDone' \/ s # drCons.next,
         drRow' \in [DrKeys -> DrRow],
         \/ drRow'["schedule"].val # 1
         \/ drRow'["schedule"].val = drRow["schedule"].val /\ (s \in drDone' \ drDone => drStream[s] # "schedule"),
         drDir' \in [DrDirs -> DrActor],
         \A e \in DrDirs : /\ \A i \in DOMAIN drDir'[e].inbox : \E j \in DOMAIN drDir[e].inbox : drDir'[e].inbox[i] = drDir[e].inbox[j]
                           /\ drDir'[e].applied # drDir[e].applied =>
                                drDir'[e].applied = s /\ s \in drDone' /\ s <= drCons.next
  PROVE  DrInv'
  <1>1. /\ drCons' \in DrConsumer /\ drCons'.next \in {drCons.next, drCons.next + 1}
        /\ drCons'.next <= Len(drStream) + 1
        /\ drCons'.at # DrNone => drCons'.next <= Len(drStream)
        /\ drCons'.at = DrNone => drCons'.try < DrMaxDeliver
        /\ drParked \subseteq drParked' /\ drParked' \subseteq drParked \cup {s}
        /\ drCons'.next # drCons.next => s = drCons.next /\ (ack \/ s \in drParked')
    BY SettledFacts
  <1>2. /\ drCons.next \in Nat /\ drCons'.next \in Nat /\ Len(drStream) \in Nat /\ drCons.next <= drCons'.next
    BY <1>1, DrNats
  <1>3. DrTypeOK'
    <2>1. drDone' \subseteq 1..DrSignals /\ drParked' \subseteq 1..DrSignals
      BY <1>1, DrNats DEF DrInv, DrTypeOK
    <2>. QED
      BY <1>1, <2>1 DEF DrInv, DrTypeOK
  <1>4. DrBounds'
    BY <1>1 DEF DrInv, DrBounds
  <1>5. DrApplied'
    <2>. SUFFICES ASSUME NEW e \in DrDirs
                  PROVE  /\ \A i \in DOMAIN drDir'[e].inbox :
                              drDir'[e].inbox[i] <= Len(drStream) /\ drDir'[e].inbox[i] <= drCons'.next
                         /\ drDir'[e].applied <= drCons'.next
                         /\ drDir'[e].applied > 0 => drDir'[e].applied \in drDone'
      BY DEF DrApplied
    <2>1. ASSUME NEW i \in DOMAIN drDir'[e].inbox
          PROVE  drDir'[e].inbox[i] <= Len(drStream) /\ drDir'[e].inbox[i] <= drCons'.next
      <3>1. PICK j \in DOMAIN drDir[e].inbox : drDir'[e].inbox[i] = drDir[e].inbox[j]
        BY <2>1
      <3>2. drDir[e].inbox[j] \in Nat /\ drDir[e].inbox[j] <= Len(drStream) /\ drDir[e].inbox[j] <= drCons.next
        <4>1. drDir[e].inbox[j] \in 1..DrSignals
          <5>1. drDir[e].inbox \in Seq(1..DrSignals) /\ j \in 1..Len(drDir[e].inbox)
            BY <3>1, DrNats
          <5>. QED
            BY <5>1, SeqElement
        <4>. QED
          BY <3>1, <4>1 DEF DrInv, DrApplied
      <3>. QED
        BY <1>2, <3>1, <3>2
    <2>2. CASE drDir'[e].applied = drDir[e].applied
      <3>1. drDir[e].applied \in Nat /\ drDir[e].applied <= drCons.next
        BY DrNats DEF DrInv, DrApplied
      <3>. QED
        BY <1>2, <2>1, <2>2, <3>1 DEF DrInv, DrApplied
    <2>3. CASE drDir'[e].applied = s /\ s \in drDone' /\ s <= drCons.next
      BY <1>2, <2>1, <2>3
    <2>. QED
      BY <2>2, <2>3
  <1>6. SignalsLand'
    <2>. SUFFICES ASSUME NEW r \in 1..drCons'.next - 1 PROVE r \in drDone' \cup drParked'
      BY DEF SignalsLand
    <2>1. CASE r < drCons.next
      <3>1. r \in drDone \cup drParked
        BY <1>2, <2>1 DEF DrInv, SignalsLand
      <3>. QED
        BY <1>1, <3>1
    <2>2. CASE ~(r < drCons.next)
      <3>1. r = s /\ drCons'.next # drCons.next
        BY <1>1, <1>2, <2>2
      <3>. QED
        BY <1>1, <3>1
    <2>. QED
      BY <2>1, <2>2
  <1>7. DrWedge'
    <2>. SUFFICES ASSUME drRow'["schedule"].val = 1
                  PROVE  drBoss > 0 \/ \E r \in 1..Len(drStream) : drStream[r] = "schedule" /\ DrOpen(r)'
      BY DEF DrWedge
    <2>1. drRow["schedule"].val = 1 /\ (s \in drDone' \ drDone => drStream[s] # "schedule")
      OBVIOUS
    <2>2. CASE drBoss > 0
      BY <2>2
    <2>3. ASSUME NEW r \in 1..Len(drStream), drStream[r] = "schedule", DrOpen(r)
          PROVE  DrOpen(r)'
      <3>1. CASE r \in drParked
        BY <1>1, <3>1 DEF DrOpen
      <3>2. CASE r >= drCons.next /\ r \notin drDone
        <4>1. r \notin drDone'
          BY <2>1, <2>3, <3>2
        <4>2. CASE r >= drCons'.next
          BY <4>1, <4>2 DEF DrOpen
        <4>3. CASE ~(r >= drCons'.next)
          <5>1. r = s /\ drCons'.next # drCons.next
            BY <1>1, <1>2, <3>2, <4>3
          <5>. QED
            BY <1>1, <4>1, <5>1 DEF DrOpen
        <4>. QED
          BY <4>2, <4>3
      <3>. QED
        BY <2>3, <3>1, <3>2 DEF DrOpen
    <2>. QED
      BY <2>1, <2>2, <2>3 DEF DrInv, DrWedge
  <1>. QED
    BY <1>3, <1>4, <1>5, <1>6, <1>7 DEF DrInv

\* What a compare-and-set of a director leaves of its row and its cache.
LEMMA DrSetFacts ==
  ASSUME DrInv, NEW d \in DrDirs, NEW k \in DrKeys, NEW v \in DrVal, NEW err \in BOOLEAN,
         drDir[d].leader => drRow[k].ver < DrMaxVer
  PROVE  LET r == DrSet(d, k, v, err) IN
         /\ r.ok \in BOOLEAN /\ r.row \in [DrKeys -> DrRow] /\ r.entry \in DrRow
         /\ r.ok => r.row[k].val = v
         /\ \A j \in DrKeys \ {k} : r.row[j] = drRow[j]
         /\ ~r.ok => r.row = drRow
  <1>. DEFINE landed == drDir[d].leader /\ ~err /\ SaveOK(k, expected(d, k))
              new == [val |-> v, ver |-> drRow[k].ver + 1]
              r == DrSet(d, k, v, err)
  <1>1. /\ r.ok = landed /\ r.row = (IF landed THEN [drRow EXCEPT ![k] = new] ELSE drRow)
        /\ r.entry = (IF landed THEN new
                      ELSE IF drDir[d].leader /\ ~err THEN drRow[k] ELSE drDir[d].cache[k])
    BY DEF DrSet
  <1>2. /\ drRow \in [DrKeys -> DrRow] /\ drDir[d].leader \in BOOLEAN /\ drDir[d].cache[k] \in DrRow
        /\ drRow[k] \in DrRow
    BY DEF DrInv, DrTypeOK, DrActor
  <1>3. drDir[d].leader => new \in DrRow /\ new.val = v
    BY <1>2, DrAssumption DEF DrRow
  <1>4. landed \in BOOLEAN /\ (landed => drDir[d].leader)
    BY <1>2 DEF SaveOK
  <1>. HIDE DEF landed, new, r
  <1>5. r.row \in [DrKeys -> DrRow] /\ r.entry \in DrRow
    BY <1>1, <1>2, <1>3, <1>4
  <1>6. (r.ok => r.row[k].val = v) /\ \A j \in DrKeys \ {k} : r.row[j] = drRow[j]
    BY <1>1, <1>2, <1>3, <1>4
  <1>. QED
    BY <1>1, <1>4, <1>5, <1>6 DEF r

LEMMA HandleSignalKeeps ==
  ASSUME DrInv, NEW d \in DrDirs, NEW err \in BOOLEAN, HandleSignal(d, err)
  PROVE  DrInv'
  <1>. DEFINE s == Head(drDir[d].inbox)
              k == drStream[s]
              dup == s <= drDir[d].applied
              v == IF k = "script" THEN s ELSE 0
              r == DrSet(d, k, v, err)
              ack == verdict(dup, r.ok)
              e == IF dup THEN drDir[d].cache[k] ELSE r.entry
              n == IF ~dup /\ ack THEN s ELSE drDir[d].applied
              q == Tail(drDir[d].inbox)
  <1>1. /\ drDir[d].inbox # <<>> /\ (err => ~dup /\ drDir[d].leader)
        /\ ~dup /\ drDir[d].leader => drRow[k].ver < DrMaxVer
        /\ drDir' = [drDir EXCEPT ![d].inbox = q, ![d].cache[k] = e, ![d].applied = n]
        /\ drRow' = IF dup THEN drRow ELSE r.row
        /\ drDone' = IF ~dup /\ r.ok THEN drDone \cup {s} ELSE drDone
        /\ drCons' = Settled(d, s, ack) /\ drParked' = drParked \cup ParkedBy(d, s, ack)
        /\ UNCHANGED <<drLease, drStream, drBoss, drLeft>>
    BY DEF HandleSignal
  <1>2. drDir[d] \in DrActor /\ drDir[d].inbox \in Seq(1..DrSignals) /\ drDir[d].applied \in Nat /\ drDir[d].cache \in [DrKeys -> DrRow]
    BY DrNats DEF DrActor
  <1>3. /\ Len(drDir[d].inbox) \in Nat /\ Len(drDir[d].inbox) > 0 /\ s = drDir[d].inbox[1] /\ s \in 1..DrSignals
        /\ q \in Seq(1..DrSignals) /\ Len(q) = Len(drDir[d].inbox) - 1
        /\ \A i \in 1..Len(q) : i + 1 \in 1..Len(drDir[d].inbox) /\ q[i] = drDir[d].inbox[i + 1]
    <2>. DEFINE w == drDir[d].inbox
    <2>1. w \in Seq(1..DrSignals) /\ w # <<>>
      BY <1>1, <1>2
    <2>. HIDE DEF w
    <2>2. /\ Len(w) \in Nat /\ Len(w) > 0 /\ Head(w) = w[1] /\ Head(w) \in 1..DrSignals
          /\ Tail(w) \in Seq(1..DrSignals) /\ Len(Tail(w)) = Len(w) - 1
          /\ \A i \in 1..Len(Tail(w)) : i + 1 \in 1..Len(w) /\ Tail(w)[i] = w[i + 1]
      BY <2>1, QueueTail
    <2>. QED
      BY <2>2 DEF w
  <1>4. s \in 1..Len(drStream) /\ s <= drCons.next /\ s \in Nat
    <2>1. 1 \in DOMAIN drDir[d].inbox
      BY <1>3, DrNats
    <2>. QED
      <3>1. s = drDir[d].inbox[1] /\ s \in 1..DrSignals /\ s > 0
        BY <1>3
      <3>2. drDir[d].inbox[1] <= Len(drStream) /\ drDir[d].inbox[1] <= drCons.next
        BY <2>1 DEF DrInv, DrApplied
      <3>3. Len(drStream) \in Nat
        BY DrNats
      <3>. HIDE DEF s
      <3>. QED
        BY <3>1, <3>2, <3>3
  <1>5. k \in DrKeys /\ v \in DrVal
    <2>1. drStream[s] \in DrKeys
      BY <1>4, DrNats
    <2>2. s \in 1..DrSignals
      BY <1>4, DrNats
    <2>3. k \in DrKeys
      BY <2>1
    <2>4. \A i \in 1..DrSignals : i \in DrVal /\ 0 \in DrVal
      BY DrNats DEF DrVal
    <2>5. v = s \/ v = 0
      OBVIOUS
    <2>. HIDE DEF s, v, k
    <2>. QED
      BY <2>2, <2>3, <2>4, <2>5
  <1>6. ~dup => /\ r.ok \in BOOLEAN /\ r.row \in [DrKeys -> DrRow] /\ r.entry \in DrRow
                /\ r.ok => r.row[k].val = v
                /\ \A j \in DrKeys \ {k} : r.row[j] = drRow[j]
                /\ ~r.ok => r.row = drRow
    <2>. HIDE DEF s, k, dup, v, ack, e, n, q
    <2>1. ~dup => (drDir[d].leader => drRow[k].ver < DrMaxVer)
      BY <1>1
    <2>. QED
      BY <2>1, <1>5, DrSetFacts
  <1>7. ack = (dup \/ r.ok)
    BY DEF verdict
  <1>8. e \in DrRow /\ n \in 0..DrSignals
    <2>1. drDir[d].applied \in 0..DrSignals
      BY <1>2 DEF DrActor
    <2>. QED
      <3>1. e \in DrRow
        BY <1>2, <1>5, <1>6
      <3>2. n \in 0..DrSignals
        BY <2>1, <1>3
      <3>. QED
        BY <3>1, <3>2
  <1>9. n # drDir[d].applied => n = s /\ ~dup /\ r.ok
    BY <1>7
  <1>10. v = 0 \/ k = "script"
    OBVIOUS
  <1>11. dup => ((s = drDir[d].applied /\ s \in drDone) \/ s # drCons.next)
    <2>1. /\ drDir[d].applied \in Nat /\ drDir[d].applied <= drCons.next /\ s > 0 /\ drCons.next \in Nat
          /\ drDir[d].applied > 0 => drDir[d].applied \in drDone
      <3>1. drDir[d].applied \in Nat /\ s > 0
        BY <1>2, <1>3
      <3>2. drCons.next \in Nat
        BY DrNats
      <3>3. drDir[d].applied <= drCons.next /\ (drDir[d].applied > 0 => drDir[d].applied \in drDone)
        BY DEF DrInv, DrApplied
      <3>. QED
        BY <3>1, <3>2, <3>3
    <2>2. dup => s <= drDir[d].applied
      OBVIOUS
    <2>. HIDE DEF s, dup
    <2>. QED
      BY <2>1, <2>2, <1>4
  <1>12. dup \in BOOLEAN /\ k = drStream[s] /\ ack \in BOOLEAN
    <2>1. dup \in BOOLEAN
      OBVIOUS
    <2>. QED
      BY <2>1, <1>6, <1>7
  <1>. HIDE DEF s, k, dup, v, r, ack, e, n, q
  <1>13. /\ drDir' \in [DrDirs -> DrActor] /\ \A f \in DrDirs \ {d} : drDir'[f] = drDir[f]
         /\ drDir'[d].inbox = q /\ drDir'[d].applied = n
    <2>. DEFINE b == [drDir[d] EXCEPT !.inbox = q, !.cache[k] = e, !.applied = n]
    <2>1. b \in DrActor /\ b.inbox = q /\ b.applied = n
      <3>1. \A a \in DrActor : LET x == [a EXCEPT !.inbox = q, !.cache[k] = e, !.applied = n] IN
                               x \in DrActor /\ x.inbox = q /\ x.applied = n
        BY <1>3, <1>5, <1>8 DEF DrActor
      <3>. QED
        BY <3>1, <1>2
    <2>2. drDir' = [drDir EXCEPT ![d] = b]
      BY <1>1
    <2>3. drDir \in [DrDirs -> DrActor]
      BY DEF DrInv, DrTypeOK
    <2>. HIDE DEF b
    <2>. QED
      BY <2>1, <2>2, <2>3
  <1>14. \A f \in DrDirs : /\ \A i \in DOMAIN drDir'[f].inbox : \E j \in DOMAIN drDir[f].inbox : drDir'[f].inbox[i] = drDir[f].inbox[j]
                           /\ drDir'[f].applied # drDir[f].applied =>
                                drDir'[f].applied = s /\ s \in drDone' /\ s <= drCons.next
    <2>1. \A i \in DOMAIN q : \E j \in DOMAIN drDir[d].inbox : q[i] = drDir[d].inbox[j]
      <3>1. DOMAIN q = 1..Len(q) /\ DOMAIN drDir[d].inbox = 1..Len(drDir[d].inbox)
        BY <1>2, <1>3
      <3>. QED
        BY <3>1, <1>3
    <2>2. n # drDir[d].applied => n = s /\ s \in drDone' /\ s <= drCons.next
      BY <1>1, <1>4, <1>9
    <2>. QED
      BY <2>1, <2>2, <1>13
  <1>15. drRow' \in [DrKeys -> DrRow]
    BY <1>1, <1>6, <1>12 DEF DrInv, DrTypeOK
  <1>16. \/ drRow'["schedule"].val # 1
         \/ drRow'["schedule"].val = drRow["schedule"].val /\ (s \in drDone' \ drDone => drStream[s] # "schedule")
    <2>1. CASE dup
      BY <2>1, <1>1
    <2>2. CASE ~dup /\ ~r.ok
      BY <2>2, <1>1, <1>6
    <2>3. CASE ~dup /\ r.ok /\ k = "schedule"
      BY <2>3, <1>1, <1>6, <1>10
    <2>4. CASE ~dup /\ r.ok /\ k # "schedule"
      <3>1. "schedule" \in DrKeys \ {k}
        BY <2>4 DEF DrKeys
      <3>. QED
        BY <2>4, <3>1, <1>1, <1>6, <1>12
    <2>. QED
      BY <2>1, <2>2, <2>3, <2>4, <1>6, <1>12
  <1>17. /\ drDone' \in {drDone, drDone \cup {s}} /\ (ack => s \in drDone' \/ s # drCons.next)
    <2>1. ack => dup \/ (~dup /\ r.ok)
      BY <1>7, <1>12
    <2>. QED
      BY <2>1, <1>1, <1>11
  <1>. QED
    BY <1>1, <1>4, <1>12, <1>13, <1>14, <1>15, <1>16, <1>17, SettledKeeps

\* A step that moves no signal: elections, restarts, a lapse, a schedule run.
LEMMA QuietKeeps ==
  ASSUME DrInv, UNCHANGED <<drStream, drCons, drParked, drDone>>,
         drDir' \in [DrDirs -> DrActor], drLease' \in DrDirs \cup {DrNone}, drLeft' \in 0..DrFaults,
         drRow' \in [DrKeys -> DrRow], drBoss' \in Nat,
         \A e \in DrDirs : \/ drDir'[e].inbox = drDir[e].inbox /\ drDir'[e].applied = drDir[e].applied
                           \/ drDir'[e].inbox = <<>> /\ drDir'[e].applied = 0,
         drBoss' > 0 \/ (drBoss' = drBoss /\ drRow' = drRow)
  PROVE  DrInv'
  <1>1. DrTypeOK'
    BY DEF DrInv, DrTypeOK
  <1>2. DrBounds'
    BY DEF DrInv, DrBounds
  <1>3. DrApplied'
    <2>. SUFFICES ASSUME NEW e \in DrDirs
                  PROVE  /\ \A i \in DOMAIN drDir'[e].inbox :
                              drDir'[e].inbox[i] <= Len(drStream) /\ drDir'[e].inbox[i] <= drCons.next
                         /\ drDir'[e].applied <= drCons.next
                         /\ drDir'[e].applied > 0 => drDir'[e].applied \in drDone
      BY DEF DrApplied
    <2>1. CASE drDir'[e].inbox = drDir[e].inbox /\ drDir'[e].applied = drDir[e].applied
      BY <2>1 DEF DrInv, DrApplied
    <2>2. CASE drDir'[e].inbox = <<>> /\ drDir'[e].applied = 0
      BY <2>2, DrNats
    <2>. QED
      BY <2>1, <2>2
  <1>4. SignalsLand'
    BY DEF DrInv, SignalsLand
  <1>5. DrWedge'
    BY DEF DrInv, DrWedge, DrOpen
  <1>. QED
    BY <1>1, <1>2, <1>3, <1>4, <1>5 DEF DrInv

LEMMA CampaignKeeps ==
  ASSUME DrInv, NEW d \in DrDirs, NEW err \in BOOLEAN, NEW subscribes \in BOOLEAN, Campaign(d, err, subscribes)
  PROVE  DrInv'
  <1>. DEFINE held == ~err /\ ClaimLease(d)
              sub == held /\ (drDir[d].sub \/ subscribes)
  <1>1. /\ drLease' = (IF held THEN d ELSE drLease)
        /\ drDir' = [drDir EXCEPT ![d].leader = held, ![d].sub = sub]
        /\ UNCHANGED <<drRow, drStream, drCons, drParked, drDone, drBoss, drLeft>>
    BY DEF Campaign
  <1>2. held \in BOOLEAN /\ sub \in BOOLEAN
    BY DrNats DEF ClaimLease, DrActor
  <1>. HIDE DEF held, sub
  <1>. DEFINE b == [drDir[d] EXCEPT !.leader = held, !.sub = sub]
  <1>3. b \in DrActor /\ b.inbox = drDir[d].inbox /\ b.applied = drDir[d].applied
    BY <1>2, DrNats DEF DrActor
  <1>4. drDir' = [drDir EXCEPT ![d] = b] /\ drDir \in [DrDirs -> DrActor]
    BY <1>1 DEF DrInv, DrTypeOK
  <1>. HIDE DEF b
  <1>5. drDir' \in [DrDirs -> DrActor] /\ \A e \in DrDirs : /\ drDir'[e].inbox = drDir[e].inbox
                                                            /\ drDir'[e].applied = drDir[e].applied
    BY <1>3, <1>4
  <1>6. drLease' \in DrDirs \cup {DrNone}
    BY <1>1 DEF DrInv, DrTypeOK
  <1>. QED
    BY <1>1, <1>5, <1>6, QuietKeeps DEF DrInv, DrTypeOK

LEMMA RestartKeeps ==
  ASSUME DrInv, NEW d \in DrDirs, NEW graceful \in BOOLEAN, DrRestart(d, graceful)
  PROVE  DrInv'
  <1>1. /\ drLeft > 0 /\ drLeft' = drLeft - 1 /\ drLease' \in {DrNone, drLease}
        /\ drDir' = [drDir EXCEPT ![d] = DrFresh]
        /\ UNCHANGED <<drRow, drStream, drCons, drParked, drDone, drBoss>>
    BY DEF DrRestart
  <1>2. DrFresh \in DrActor /\ DrFresh.inbox = <<>> /\ DrFresh.applied = 0
    <2>1. /\ 0 \in 0..DrSignals /\ 0 \in 0..DrMaxVer /\ 0 \in DrVal /\ <<>> \in Seq(1..DrSignals)
      BY DrAssumption DEF DrVal
    <2>2. DrUncached \in DrRow
      BY <2>1 DEF DrUncached, DrRow
    <2>3. [k \in DrKeys |-> DrUncached] \in [DrKeys -> DrRow]
      BY <2>2
    <2>. QED
      BY <2>1, <2>3 DEF DrFresh, DrActor
  <1>. HIDE DEF DrFresh
  <1>3. /\ drDir' \in [DrDirs -> DrActor]
        /\ \A e \in DrDirs : \/ drDir'[e].inbox = drDir[e].inbox /\ drDir'[e].applied = drDir[e].applied
                             \/ drDir'[e].inbox = <<>> /\ drDir'[e].applied = 0
    BY <1>1, <1>2 DEF DrInv, DrTypeOK
  <1>4. drLease' \in DrDirs \cup {DrNone} /\ drLeft' \in 0..DrFaults
    BY <1>1, DrAssumption DEF DrInv, DrTypeOK
  <1>. QED
    BY <1>1, <1>3, <1>4, QuietKeeps DEF DrInv, DrTypeOK

LEMMA SchedulesKeep ==
  ASSUME DrInv, NEW d \in DrDirs, NEW readErr \in BOOLEAN, NEW writeErr \in BOOLEAN, RunSchedules(d, readErr, writeErr)
  PROVE  DrInv'
  <1>. DEFINE r == DrSet(d, "schedule", 1, writeErr)
  <1>1. /\ drRow["schedule"].ver < DrMaxVer /\ drBoss' = drBoss + 1 /\ drRow' = r.row
        /\ drDir' = [drDir EXCEPT ![d].cache["schedule"] = r.entry]
        /\ UNCHANGED <<drLease, drStream, drCons, drParked, drDone, drLeft>>
    BY DEF RunSchedules
  <1>2. r.row \in [DrKeys -> DrRow] /\ r.entry \in DrRow
    <2>1. "schedule" \in DrKeys /\ 1 \in DrVal
      BY DrAssumption DEF DrKeys, DrVal
    <2>. QED
      BY <2>1, <1>1, DrSetFacts
  <1>. HIDE DEF r
  <1>. DEFINE b == [drDir[d] EXCEPT !.cache["schedule"] = r.entry]
  <1>3. b \in DrActor /\ b.inbox = drDir[d].inbox /\ b.applied = drDir[d].applied
    BY <1>2, DrNats DEF DrActor, DrKeys
  <1>4. drDir' = [drDir EXCEPT ![d] = b] /\ drDir \in [DrDirs -> DrActor]
    BY <1>1 DEF DrInv, DrTypeOK
  <1>. HIDE DEF b
  <1>5. drDir' \in [DrDirs -> DrActor] /\ \A e \in DrDirs : /\ drDir'[e].inbox = drDir[e].inbox
                                                            /\ drDir'[e].applied = drDir[e].applied
    BY <1>3, <1>4
  <1>6. drBoss' \in Nat /\ drBoss' > 0
    BY <1>1, DrNats
  <1>. QED
    BY <1>1, <1>2, <1>5, <1>6, QuietKeeps DEF DrInv, DrTypeOK

LEMMA NakKeeps ==
  ASSUME DrInv, DrNak
  PROVE  DrInv'
  <1>. DEFINE d == drCons.at
              s == drCons.next
  <1>1. /\ d # DrNone /\ drCons' = Settled(d, s, FALSE) /\ drParked' = drParked \cup ParkedBy(d, s, FALSE)
        /\ UNCHANGED <<drDir, drLease, drRow, drStream, drDone, drBoss, drLeft>>
    BY DEF DrNak
  <1>2. d \in DrDirs /\ s \in 1..Len(drStream)
    <2>1. d \in DrDirs \cup {DrNone}
      BY DrNats DEF DrConsumer
    <2>. QED
      BY <2>1, <1>1, DrNats DEF DrInv, DrBounds
  <1>. HIDE DEF d, s
  <1>. QED
    BY <1>1, <1>2, SettledKeeps DEF DrInv, DrTypeOK

LEMMA PublishKeeps ==
  ASSUME DrInv, NEW k \in DrKeys, DrPublish(k)
  PROVE  DrInv'
  <1>1. /\ Len(drStream) < DrSignals /\ drStream' = Append(drStream, k)
        /\ k = "schedule" => drBoss > 0
        /\ drBoss' = IF k = "schedule" THEN drBoss - 1 ELSE drBoss
        /\ UNCHANGED <<drDir, drLease, drRow, drCons, drParked, drDone, drLeft>>
    BY DEF DrPublish
  <1>. DEFINE n == Len(drStream) + 1
  <1>2. /\ drStream' \in Seq(DrKeys) /\ Len(drStream') = n /\ drStream'[n] = k
        /\ \A i \in 1..Len(drStream) : drStream'[i] = drStream[i]
    BY <1>1 DEF DrInv, DrTypeOK
  <1>3. Len(drStream) \in Nat /\ drBoss' \in Nat /\ drCons.next \in Nat
    BY <1>1, DrNats
  <1>4. DrTypeOK'
    BY <1>1, <1>2, <1>3 DEF DrInv, DrTypeOK
  <1>5. DrBounds'
    <2>1. \A S : S \subseteq 1..Len(drStream) => S \subseteq 1..n
      BY <1>3
    <2>2. n <= DrSignals /\ drCons.next <= n + 1 /\ (drCons.next <= Len(drStream) => drCons.next <= n)
      BY <1>1, <1>3, DrNats DEF DrInv, DrBounds
    <2>. QED
      BY <1>1, <1>2, <2>1, <2>2 DEF DrInv, DrBounds
  <1>6. DrApplied'
    <2>1. ASSUME NEW d \in DrDirs, NEW i \in DOMAIN drDir[d].inbox
          PROVE  drDir[d].inbox[i] <= n
      <3>1. drDir[d].inbox[i] \in 1..DrSignals
        <4>1. drDir[d].inbox \in Seq(1..DrSignals) /\ i \in 1..Len(drDir[d].inbox)
          BY <2>1, DrNats
        <4>. QED
          BY <4>1, SeqElement
      <3>. QED
        BY <3>1, <1>3, <2>1 DEF DrInv, DrApplied
    <2>. QED
      BY <2>1, <1>1, <1>2 DEF DrInv, DrApplied
  <1>7. SignalsLand'
    BY <1>1 DEF DrInv, SignalsLand
  <1>8. DrWedge'
    <2>. SUFFICES ASSUME drRow["schedule"].val = 1
                  PROVE  drBoss' > 0 \/ \E r \in 1..n : drStream'[r] = "schedule" /\ DrOpen(r)'
      BY <1>1, <1>2 DEF DrWedge
    <2>1. CASE k = "schedule"
      <3>1. n \in 1..n /\ n >= drCons.next /\ n \notin drDone
        BY <1>3, DrNats DEF DrInv, DrBounds
      <3>. QED
        BY <2>1, <3>1, <1>1, <1>2 DEF DrOpen
    <2>2. CASE k # "schedule" /\ drBoss > 0
      BY <2>2, <1>1
    <2>3. ASSUME NEW r \in 1..Len(drStream), drStream[r] = "schedule", DrOpen(r)
          PROVE  r \in 1..n /\ drStream'[r] = "schedule" /\ DrOpen(r)'
      BY <2>3, <1>1, <1>2, <1>3 DEF DrOpen
    <2>. QED
      BY <2>1, <2>2, <2>3 DEF DrInv, DrWedge
  <1>. QED
    BY <1>4, <1>5, <1>6, <1>7, <1>8 DEF DrInv

LEMMA DeliverKeeps ==
  ASSUME DrInv, NEW d \in DrDirs, NEW s \in 1..DrSignals, DrDeliver(d, s)
  PROVE  DrInv'
  <1>. DEFINE q == Append(drDir[d].inbox, s)
              b == [drDir[d] EXCEPT !.inbox = q]
              c == [drCons EXCEPT !.at = d, !.try = drCons.try + 1, !.next = s]
  <1>1. /\ s \in 1..Len(drStream) /\ drCons.at = DrNone /\ s = drCons.next
        /\ drCons' = c /\ drDir' = [drDir EXCEPT ![d] = b]
        /\ UNCHANGED <<drLease, drRow, drStream, drParked, drDone, drBoss, drLeft>>
    BY DEF DrDeliver, notPending
  <1>2. /\ c \in DrConsumer /\ c.at = d /\ c.next = drCons.next
    <2>1. drCons.try + 1 \in 0..DrMaxDeliver
      BY <1>1, DrNats DEF DrInv, DrBounds
    <2>2. drCons \in DrConsumer
      BY DrNats
    <2>. QED
      BY <2>1, <2>2, <1>1 DEF DrConsumer
  <1>3. drDir[d].inbox \in Seq(1..DrSignals)
    BY DrNats
  <1>4. /\ q \in Seq(1..DrSignals) /\ Len(q) = Len(drDir[d].inbox) + 1 /\ q[Len(drDir[d].inbox) + 1] = s
        /\ \A i \in 1..Len(drDir[d].inbox) : q[i] = drDir[d].inbox[i]
        /\ DOMAIN q = 1..(Len(drDir[d].inbox) + 1) /\ Len(drDir[d].inbox) \in Nat
    BY <1>3
  <1>. HIDE DEF q, c
  <1>5. b \in DrActor /\ b.inbox = q /\ b.applied = drDir[d].applied
    BY <1>4, DrNats DEF DrActor
  <1>. HIDE DEF b
  <1>6. /\ drDir' \in [DrDirs -> DrActor] /\ drDir'[d] = b /\ \A e \in DrDirs \ {d} : drDir'[e] = drDir[e]
    BY <1>1, <1>5 DEF DrInv, DrTypeOK
  <1>7. DrTypeOK'
    BY <1>1, <1>2, <1>6 DEF DrInv, DrTypeOK
  <1>8. DrBounds'
    <2>1. s <= Len(drStream) /\ d # DrNone
      BY <1>1, DrNats, DrAssumption
    <2>. QED
      BY <2>1, <1>1, <1>2 DEF DrInv, DrBounds
  <1>9. DrApplied'
    <2>1. \A i \in DOMAIN q : q[i] <= Len(drStream) /\ q[i] <= drCons.next
      <3>. SUFFICES ASSUME NEW i \in DOMAIN q PROVE q[i] <= Len(drStream) /\ q[i] <= drCons.next
        OBVIOUS
      <3>1. CASE i \in 1..Len(drDir[d].inbox)
        BY <3>1, <1>4, DrNats DEF DrInv, DrApplied
      <3>2. CASE i = Len(drDir[d].inbox) + 1
        BY <3>2, <1>1, <1>4, DrNats
      <3>. QED
        BY <3>1, <3>2, <1>4
    <2>. QED
      BY <2>1, <1>1, <1>2, <1>5, <1>6 DEF DrInv, DrApplied
  <1>10. SignalsLand' /\ DrWedge'
    BY <1>1, <1>2 DEF DrInv, SignalsLand, DrWedge, DrOpen
  <1>. QED
    BY <1>7, <1>8, <1>9, <1>10 DEF DrInv

LEMMA DrInitInv ==
  DrInit => DrInv
  <1>. SUFFICES ASSUME DrInit PROVE DrInv
    OBVIOUS
  <1>1. /\ 0 \in 0..DrSignals /\ 0 \in 0..DrMaxVer /\ 0 \in DrVal /\ <<>> \in Seq(1..DrSignals) /\ Len(<<>>) = 0
        /\ <<>> \in Seq(DrKeys) /\ DrFaults \in 0..DrFaults /\ DrSignals \in Nat
    BY DrAssumption DEF DrVal
  <1>2. DrUncached \in DrRow
    BY <1>1 DEF DrUncached, DrRow
  <1>3. [k \in DrKeys |-> DrUncached] \in [DrKeys -> DrRow]
    BY <1>2
  <1>4. DrFresh \in DrActor /\ DrFresh.inbox = <<>> /\ DrFresh.applied = 0
    BY <1>1, <1>3 DEF DrFresh, DrActor
  <1>5. /\ drRow["schedule"].val = 0
    BY DEF DrInit, DrUncached, DrKeys
  <1>6. drCons \in DrConsumer /\ drCons.next = 1 /\ drCons.try = 0 /\ drCons.at = DrNone
    BY DrAssumption DEF DrInit, DrConsumer
  <1>. HIDE DEF DrFresh
  <1>7. DrTypeOK
    BY <1>1, <1>3, <1>4, <1>6 DEF DrInit, DrTypeOK
  <1>8. DrBounds
    BY <1>1, <1>6, DrAssumption DEF DrInit, DrBounds
  <1>9. DrApplied
    BY <1>4, <1>6 DEF DrInit, DrApplied
  <1>10. SignalsLand /\ DrWedge
    BY <1>5, <1>6 DEF DrInit, SignalsLand, DrWedge
  <1>. QED
    BY <1>7, <1>8, <1>9, <1>10 DEF DrInv

LEMMA DrStepInv ==
  DrInv /\ [DrNext]_drVars => DrInv'
  <1>. SUFFICES ASSUME DrInv, [DrNext]_drVars PROVE DrInv'
    OBVIOUS
  <1>1. CASE LeaseLapses
    <2>1. drLease' = DrNone /\ drLeft' \in 0..DrFaults
      BY <1>1, DrAssumption DEF LeaseLapses, DrInv, DrTypeOK
    <2>. QED
      BY <2>1, <1>1, QuietKeeps DEF LeaseLapses, DrInv, DrTypeOK
  <1>2. CASE DrNak
    BY <1>2, NakKeeps
  <1>3. ASSUME NEW k \in DrKeys, DrPublish(k) PROVE DrInv'
    BY <1>3, PublishKeeps
  <1>4. ASSUME NEW d \in DrDirs, NEW e \in BOOLEAN, NEW s \in BOOLEAN, Campaign(d, e, s) PROVE DrInv'
    BY <1>4, CampaignKeeps
  <1>5. ASSUME NEW d \in DrDirs, NEW r \in BOOLEAN, NEW w \in BOOLEAN, RunSchedules(d, r, w) PROVE DrInv'
    BY <1>5, SchedulesKeep
  <1>6. ASSUME NEW d \in DrDirs, NEW e \in BOOLEAN, HandleSignal(d, e) PROVE DrInv'
    BY <1>6, HandleSignalKeeps
  <1>7. ASSUME NEW d \in DrDirs, NEW e \in BOOLEAN, DrRestart(d, e) PROVE DrInv'
    BY <1>7, RestartKeeps
  <1>8. ASSUME NEW d \in DrDirs, NEW s \in 1..DrSignals, DrDeliver(d, s) PROVE DrInv'
    BY <1>8, DeliverKeeps
  <1>9. CASE UNCHANGED drVars
    BY <1>9 DEF drVars, DrInv, DrTypeOK, DrBounds, DrApplied, SignalsLand, DrWedge, DrOpen
  <1>. QED
    BY <1>1, <1>2, <1>3, <1>4, <1>5, <1>6, <1>7, <1>8, <1>9 DEF DrNext

\* No signal is consumed before some director has landed its writes, unless its redelivery budget is
\* spent, and no schedule stays active for a boss that is neither alive nor reported: for any directors,
\* lapses and redeliveries (director/signals.go, state.go, schedule.go).
THEOREM DirectorIsSafe == DrSpec => []DirectorSafe
  <1>1. DrInv => DirectorSafe
    <2>. SUFFICES ASSUME DrInv, drRow["schedule"].val = 1, ~(drBoss > 0)
                  PROVE  \E s \in 1..Len(drStream) :
                           drStream[s] = "schedule" /\ (s >= drCons.next \/ s \in drParked)
      BY DEF DirectorSafe, DrInv, NoWedge
    <2>. QED
      BY DEF DrInv, DrWedge, DrOpen
  <1>. QED
    BY <1>1, DrInitInv, DrStepInv, PTL DEF DrSpec

-----------------------------------------------------------------------------
(* ScopeReplica: whatever is the newest message for a scope has been applied    *)
(* or still waits, and a seed waits ahead of every delta of its scope.          *)

\* Every version anywhere is that of a row that was written.
ScRecorded ==
  /\ \A k \in ScScopes : /\ Len(scHist[k]) <= ScMaxVer
                         /\ scRep[k].ver <= Len(scHist[k]) /\ scHeard[k] <= Len(scHist[k])
  /\ \A k \in ScScopes, n \in ScVersion : <<k, n>> \in scBus => n <= Len(scHist[k])
  /\ \A i \in 1..Len(scInbox) : scInbox[i].ver <= Len(scHist[scInbox[i].scope])
  /\ scRead <= Len(scHist["region"]) + 1
ScCopied == \A k \in ScScopes : scRep[k].val = ScAt(k, scRep[k].ver)
Pending(k, n) == \E i \in 1..Len(scInbox) : scInbox[i].scope = k /\ scInbox[i].ver = n
ScReached ==
  /\ \A k \in ScScopes : /\ scRep[k].ver <= scHeard[k]
                         /\ scRep[k].ver = scHeard[k] \/ Pending(k, scHeard[k])
  /\ \A i \in 1..Len(scInbox) : scInbox[i].ver <= scHeard[scInbox[i].scope]
SeedsLead ==
  \A i \in 1..Len(scInbox) : scInbox[i].kind = "seed" =>
    /\ scRep[scInbox[i].scope].ver = 0
    /\ \A j \in 1..Len(scInbox) : scInbox[j].scope = scInbox[i].scope => i <= j
SeedAwaited ==
  scPhase \in {"built", "regionRead"} => scInbox = <<>> /\ \A k \in ScScopes : scRep[k].ver = 0

ScInv == ScTypeOK /\ ScRecorded /\ ScCopied /\ ScReached /\ SeedsLead /\ SeedAwaited

LEMMA GreatestOfSet ==
  ASSUME NEW n \in Nat, NEW S \in SUBSET (0..n), S # {}
  PROVE  \E v \in S : \A w \in S : w <= v
  <1>. DEFINE T == {n - v : v \in S}
  <1>0. \A v \in S : n - v \in Nat
    OBVIOUS
  <1>1. T \in SUBSET Nat /\ T # {}
    <2>1. PICK v \in S : TRUE
      OBVIOUS
    <2>2. n - v \in T
      OBVIOUS
    <2>. QED
      BY <1>0, <2>2
  <1>. HIDE DEF T
  <1>2. PICK t \in T : \A u \in T : t <= u
    BY <1>1, LeastOfSet
  <1>3. PICK v \in S : t = n - v
    BY <1>2 DEF T
  <1>4. \A w \in S : w <= v
    <2>. SUFFICES ASSUME NEW w \in S PROVE w <= v
      OBVIOUS
    <2>1. n - w \in T
      BY DEF T
    <2>2. n - v <= n - w /\ v \in 0..n /\ w \in 0..n
      BY <1>2, <1>3, <2>1
    <2>. QED
      BY <2>2
  <1>. QED
    BY <1>4

\* A posted batch raises what a scope has heard to its newest message, if that is newer.
LEMMA PostFacts ==
  ASSUME scInbox \in Seq(ScMsg), scHeard \in [ScScopes -> ScVersion],
         NEW ms \in Seq(ScMsg), ScPost(ms)
  PROVE  /\ scInbox' = scInbox \o ms /\ scHeard' \in [ScScopes -> ScVersion]
         /\ \A k \in ScScopes :
              /\ scHeard[k] <= scHeard'[k]
              /\ \/ scHeard'[k] = scHeard[k]
                 \/ \E j \in 1..Len(ms) : ms[j].scope = k /\ ms[j].ver = scHeard'[k]
         /\ \A j \in 1..Len(ms) : ms[j].ver <= scHeard'[ms[j].scope]
  <1>. DEFINE of(k) == {j \in 1..Len(ms) : ms[j].scope = k}
              vs(k) == {ms[i].ver : i \in of(k)} \cup {scHeard[k]}
  <1>1. scInbox' = scInbox \o ms /\ scHeard' = [k \in ScScopes |-> CHOOSE v \in vs(k) : \A w \in vs(k) : w <= v]
    BY DEF ScPost
  <1>2. \A j \in 1..Len(ms) : ms[j] \in ScMsg /\ ms[j].scope \in ScScopes /\ ms[j].ver \in ScVersion
    <2>1. \A j \in 1..Len(ms) : ms[j] \in ScMsg
      BY SeqElement
    <2>. QED
      BY <2>1 DEF ScMsg
  <1>3. ASSUME NEW k \in ScScopes
        PROVE  /\ scHeard'[k] \in vs(k) /\ vs(k) \in SUBSET ScVersion
               /\ \A w \in vs(k) : w <= scHeard'[k]
    <2>1. vs(k) \in SUBSET ScVersion /\ vs(k) # {}
      BY <1>2
    <2>. HIDE DEF vs, of
    <2>2. \E v \in vs(k) : \A w \in vs(k) : w <= v
      BY <2>1, GreatestOfSet, ScAssumption DEF ScVersion
    <2>3. scHeard'[k] = CHOOSE v \in vs(k) : \A w \in vs(k) : w <= v
      BY <1>1
    <2>. QED
      BY <2>1, <2>2, <2>3
  <1>4. ASSUME NEW k \in ScScopes
        PROVE  /\ scHeard[k] <= scHeard'[k]
               /\ \/ scHeard'[k] = scHeard[k]
                  \/ \E j \in 1..Len(ms) : ms[j].scope = k /\ ms[j].ver = scHeard'[k]
    <2>1. scHeard[k] \in vs(k)
      OBVIOUS
    <2>. QED
      BY <1>3, <2>1
  <1>5. ASSUME NEW j \in 1..Len(ms) PROVE ms[j].ver <= scHeard'[ms[j].scope]
    <2>1. ms[j].ver \in vs(ms[j].scope)
      OBVIOUS
    <2>. QED
      BY <1>2, <1>3, <2>1
  <1>6. scHeard' \in [ScScopes -> ScVersion]
    <2>1. \A k \in ScScopes : scHeard'[k] \in ScVersion
      BY <1>3
    <2>. HIDE DEF vs, of
    <2>. QED
      BY <1>1, <2>1
  <1>. QED
    BY <1>1, <1>4, <1>5, <1>6

\* Posting a batch of written versions keeps the replica's accounts, when each of its seeds
\* leads its scope and the scope has nothing applied.
LEMMA PostKeeps ==
  ASSUME ScInv, NEW ms \in Seq(ScMsg), ScPost(ms), UNCHANGED <<scHist, scRep, scRead>>, scBus' \subseteq scBus,
         \A j \in 1..Len(ms) : ms[j].ver <= Len(scHist[ms[j].scope]),
         \A j \in 1..Len(ms) : ms[j].kind = "seed" =>
           /\ scRep[ms[j].scope].ver = 0
           /\ \A i \in 1..Len(scInbox) : scInbox[i].scope # ms[j].scope
           /\ \A i \in 1..Len(ms) : ms[i].scope = ms[j].scope => j <= i
  PROVE  /\ scInbox' \in Seq(ScMsg) /\ scHeard' \in [ScScopes -> ScVersion]
         /\ ScRecorded' /\ ScCopied' /\ ScReached' /\ SeedsLead'
  <1>. DEFINE n == Len(scInbox)
  <1>1. /\ scInbox \in Seq(ScMsg) /\ scHeard \in [ScScopes -> ScVersion] /\ scHist \in [ScScopes -> Seq(ScValues)]
        /\ scRep \in [ScScopes -> [val : ScValues, ver : ScVersion]] /\ ScVersion \in SUBSET Nat
    BY ScAssumption DEF ScInv, ScTypeOK, ScVersion
  <1>2. /\ scInbox' = scInbox \o ms /\ scHeard' \in [ScScopes -> ScVersion]
        /\ \A k \in ScScopes :
             /\ scHeard[k] <= scHeard'[k]
             /\ \/ scHeard'[k] = scHeard[k]
                \/ \E j \in 1..Len(ms) : ms[j].scope = k /\ ms[j].ver = scHeard'[k]
        /\ \A j \in 1..Len(ms) : ms[j].ver <= scHeard'[ms[j].scope]
    BY <1>1, PostFacts
  <1>3. /\ scInbox' \in Seq(ScMsg) /\ n \in Nat /\ Len(ms) \in Nat /\ Len(scInbox') = n + Len(ms)
        /\ \A i \in 1..n : scInbox'[i] = scInbox[i]
        /\ \A j \in 1..Len(ms) : scInbox'[n + j] = ms[j]
    BY <1>1, <1>2, ConcatFacts
  <1>. HIDE DEF n
  <1>4. /\ \A i \in 1..Len(scInbox') : \/ i \in 1..n
                                       \/ i - n \in 1..Len(ms) /\ i = n + (i - n)
        /\ \A i \in 1..n : i \in 1..Len(scInbox')
        /\ \A j \in 1..Len(ms) : n + j \in 1..Len(scInbox') /\ n + j > n
    BY <1>3
  <1>5. /\ \A i \in 1..n : scInbox[i] \in ScMsg
        /\ \A j \in 1..Len(ms) : ms[j] \in ScMsg
    BY <1>1, SeqElement DEF n
  <1>6. /\ \A i \in 1..n : scInbox[i].scope \in ScScopes /\ scInbox[i].ver \in Nat
        /\ \A j \in 1..Len(ms) : ms[j].scope \in ScScopes /\ ms[j].ver \in Nat
    BY <1>1, <1>5 DEF ScMsg
  <1>7. /\ \A k \in ScScopes : Len(scHist[k]) <= ScMaxVer /\ scHeard[k] <= Len(scHist[k]) /\ Len(scHist[k]) \in Nat
        /\ \A i \in 1..n : scInbox[i].ver <= Len(scHist[scInbox[i].scope])
    <2>1. ScRecorded  BY DEF ScInv
    <2>2. \A k \in ScScopes : Len(scHist[k]) <= ScMaxVer /\ scHeard[k] <= Len(scHist[k])
      BY <2>1 DEF ScRecorded
    <2>3. \A k \in ScScopes : Len(scHist[k]) \in Nat
      BY <1>1
    <2>4. \A i \in 1..n : scInbox[i].ver <= Len(scHist[scInbox[i].scope])
      BY <2>1 DEF ScRecorded, n
    <2>. QED
      BY <2>2, <2>3, <2>4
  <1>8. \A i \in 1..Len(scInbox') : scInbox'[i].ver <= Len(scHist[scInbox'[i].scope])
    <2>. SUFFICES ASSUME NEW i \in 1..Len(scInbox')
                  PROVE  scInbox'[i].ver <= Len(scHist[scInbox'[i].scope])
      OBVIOUS
    <2>1. CASE i \in 1..n
      BY <1>3, <1>7, <2>1
    <2>2. ASSUME NEW j \in 1..Len(ms), i = n + j
          PROVE  scInbox'[i].ver <= Len(scHist[scInbox'[i].scope])
      BY <1>3, <2>2
    <2>. QED
      BY <1>4, <2>1, <2>2
  <1>9. \A k \in ScScopes : scHeard'[k] <= Len(scHist[k])
    BY <1>2, <1>7
  <1>10. ScRecorded'
    BY <1>8, <1>9, <1>3 DEF ScInv, ScRecorded
  <1>11. \A k \in ScScopes : scRep[k].ver <= scHeard'[k]
    <2>1. \A k \in ScScopes : scRep[k].ver \in Nat /\ scRep[k].ver <= scHeard[k] /\ scHeard[k] \in Nat /\ scHeard'[k] \in Nat
      BY <1>1, <1>2 DEF ScInv, ScReached
    <2>. QED
      BY <1>2, <2>1
  <1>12. ASSUME NEW k \in ScScopes
         PROVE  scRep[k].ver = scHeard'[k] \/ Pending(k, scHeard[k])'
    <2>1. CASE scHeard'[k] = scHeard[k]
      <3>1. CASE scRep[k].ver = scHeard[k]
        BY <2>1, <3>1
      <3>2. CASE Pending(k, scHeard[k])
        <4>1. PICK i \in 1..n : scInbox[i].scope = k /\ scInbox[i].ver = scHeard[k]
          BY <3>2 DEF Pending, n
        <4>2. i \in 1..Len(scInbox') /\ scInbox'[i].scope = k /\ scInbox'[i].ver = scHeard'[k]
          BY <1>3, <1>4, <2>1, <4>1
        <4>. QED
          BY <4>2 DEF Pending
      <3>. QED
        BY <3>1, <3>2 DEF ScInv, ScReached
    <2>2. ASSUME NEW j \in 1..Len(ms), ms[j].scope = k, ms[j].ver = scHeard'[k]
          PROVE  Pending(k, scHeard[k])'
      <3>1. n + j \in 1..Len(scInbox') /\ scInbox'[n + j].scope = k /\ scInbox'[n + j].ver = scHeard'[k]
        BY <1>3, <1>4, <2>2
      <3>. QED
        BY <3>1 DEF Pending
    <2>. QED
      BY <1>2, <2>1, <2>2
  <1>13. \A i \in 1..Len(scInbox') : scInbox'[i].ver <= scHeard'[scInbox'[i].scope]
    <2>1. \A i \in 1..n : /\ scInbox[i].ver <= scHeard[scInbox[i].scope]
                          /\ scHeard[scInbox[i].scope] \in Nat /\ scHeard'[scInbox[i].scope] \in Nat
      BY <1>1, <1>2, <1>6 DEF ScInv, ScReached, n
    <2>2. \A i \in 1..n : scInbox[i].ver <= scHeard'[scInbox[i].scope]
      BY <1>2, <1>6, <2>1
    <2>. SUFFICES ASSUME NEW i \in 1..Len(scInbox')
                  PROVE  scInbox'[i].ver <= scHeard'[scInbox'[i].scope]
      OBVIOUS
    <2>3. CASE i \in 1..n
      BY <1>3, <2>2, <2>3
    <2>4. ASSUME NEW j \in 1..Len(ms), i = n + j
          PROVE  scInbox'[i].ver <= scHeard'[scInbox'[i].scope]
      BY <1>2, <1>3, <2>4
    <2>. QED
      BY <1>4, <2>3, <2>4
  <1>14. ScReached'
    BY <1>11, <1>12, <1>13 DEF ScReached
  <1>15. SeedsLead'
    <2>. SUFFICES ASSUME NEW i \in 1..Len(scInbox'), scInbox'[i].kind = "seed"
                  PROVE  /\ scRep[scInbox'[i].scope].ver = 0
                         /\ \A j \in 1..Len(scInbox') : scInbox'[j].scope = scInbox'[i].scope => i <= j
      BY DEF SeedsLead
    <2>1. CASE i \in 1..n
      <3>1. scInbox[i].kind = "seed" /\ scInbox'[i].scope = scInbox[i].scope
        BY <1>3, <2>1
      <3>2. /\ scRep[scInbox[i].scope].ver = 0
            /\ \A j \in 1..n : scInbox[j].scope = scInbox[i].scope => i <= j
        BY <2>1, <3>1 DEF ScInv, SeedsLead, n
      <3>. QED
        BY <1>3, <1>4, <2>1, <3>1, <3>2
    <2>2. ASSUME NEW m \in 1..Len(ms), i = n + m
          PROVE  /\ scRep[scInbox'[i].scope].ver = 0
                 /\ \A j \in 1..Len(scInbox') : scInbox'[j].scope = scInbox'[i].scope => i <= j
      <3>1. ms[m].kind = "seed" /\ scInbox'[i].scope = ms[m].scope
        BY <1>3, <2>2
      <3>2. /\ scRep[ms[m].scope].ver = 0
            /\ \A j \in 1..n : scInbox[j].scope # ms[m].scope
            /\ \A j \in 1..Len(ms) : ms[j].scope = ms[m].scope => m <= j
        BY <3>1 DEF n
      <3>3. ASSUME NEW j \in 1..Len(scInbox'), scInbox'[j].scope = ms[m].scope PROVE i <= j
        <4>1. j \notin 1..n
          BY <1>3, <3>2, <3>3
        <4>2. j - n \in 1..Len(ms) /\ j = n + (j - n)
          BY <1>4, <4>1
        <4>3. ms[j - n].scope = ms[m].scope
          BY <1>3, <3>3, <4>2
        <4>. QED
          BY <1>3, <2>2, <3>2, <4>2, <4>3
      <3>. QED
        BY <3>1, <3>2, <3>3
    <2>. QED
      BY <1>4, <2>1, <2>2
  <1>16. ScCopied'
    BY DEF ScInv, ScCopied, ScAt
  <1>. QED
    BY <1>2, <1>3, <1>10, <1>14, <1>15, <1>16

LEMMA ScWriteKeeps ==
  ASSUME ScInv, NEW k \in ScScopes, NEW v \in ScValues, ScWrite(k, v)
  PROVE  ScInv'
  <1>1. /\ scHist \in [ScScopes -> Seq(ScValues)] /\ scBus \subseteq ScScopes \X ScVersion
        /\ scRep \in [ScScopes -> [val : ScValues, ver : ScVersion]] /\ scHeard \in [ScScopes -> ScVersion]
        /\ scInbox \in Seq(ScMsg) /\ scRead \in 0..ScMaxVer + 1 /\ ScMaxVer \in Nat /\ ScVersion = 0..ScMaxVer
    BY ScAssumption DEF ScInv, ScTypeOK, ScVersion
  <1>. DEFINE h == scHist[k]
  <1>2. /\ h \in Seq(ScValues) /\ Len(h) < ScMaxVer /\ scHist' = [scHist EXCEPT ![k] = Append(h, v)]
        /\ scBus' = scBus \cup {<<k, Len(h) + 1>>}
        /\ UNCHANGED <<scPhase, scRead, scInbox, scRep, scHeard, scLife>>
    BY <1>1 DEF ScWrite
  <1>. HIDE DEF h
  <1>3. /\ Append(h, v) \in Seq(ScValues) /\ Len(Append(h, v)) = Len(h) + 1 /\ Len(h) \in Nat
        /\ \A i \in 1..Len(h) : Append(h, v)[i] = h[i]
    BY <1>2
  <1>4. scHist' \in [ScScopes -> Seq(ScValues)] /\ scBus' \subseteq ScScopes \X ScVersion
    BY <1>1, <1>2, <1>3
  <1>5. \A j \in ScScopes : /\ Len(scHist'[j]) <= ScMaxVer /\ Len(scHist[j]) <= Len(scHist'[j])
                            /\ Len(scHist[j]) \in Nat /\ Len(scHist'[j]) \in Nat
                            /\ \A i \in 1..Len(scHist[j]) : scHist'[j][i] = scHist[j][i]
    <2>. SUFFICES ASSUME NEW j \in ScScopes
                  PROVE  /\ Len(scHist'[j]) <= ScMaxVer /\ Len(scHist[j]) <= Len(scHist'[j])
                         /\ Len(scHist[j]) \in Nat /\ Len(scHist'[j]) \in Nat
                         /\ \A i \in 1..Len(scHist[j]) : scHist'[j][i] = scHist[j][i]
      OBVIOUS
    <2>1. CASE j = k
      BY <1>1, <1>2, <1>3, <2>1 DEF h
    <2>2. CASE j # k
      BY <1>1, <1>2, <2>2 DEF ScInv, ScRecorded
    <2>. QED
      BY <2>1, <2>2
  <1>6. ScTypeOK'
    BY <1>2, <1>4 DEF ScInv, ScTypeOK
  <1>7. "region" \in ScScopes
    BY DEF ScScopes
  <1>8. \A j \in ScScopes : scRep[j].ver \in Nat /\ scHeard[j] \in Nat
    BY <1>1
  <1>9. ASSUME NEW j \in ScScopes, NEW n \in ScVersion, <<j, n>> \in scBus' PROVE n <= Len(scHist'[j])
    <2>1. CASE <<j, n>> \in scBus
      BY <1>1, <1>5, <2>1 DEF ScInv, ScRecorded
    <2>2. CASE j = k /\ n = Len(h) + 1
      BY <1>1, <1>2, <1>3, <2>2
    <2>. QED
      BY <1>2, <1>9, <2>1, <2>2
  <1>10. ASSUME NEW i \in 1..Len(scInbox) PROVE scInbox[i].ver <= Len(scHist'[scInbox[i].scope])
    <2>1. scInbox[i] \in ScMsg
      BY <1>1, SeqElement
    <2>2. scInbox[i].scope \in ScScopes /\ scInbox[i].ver \in 0..ScMaxVer
      BY <1>1, <2>1 DEF ScMsg
    <2>3. scInbox[i].ver <= Len(scHist[scInbox[i].scope])
      BY DEF ScInv, ScRecorded
    <2>. QED
      BY <1>5, <2>2, <2>3
  <1>11. \A j \in ScScopes : scRep[j].ver <= Len(scHist'[j]) /\ scHeard[j] <= Len(scHist'[j])
    BY <1>5, <1>8 DEF ScInv, ScRecorded
  <1>12. scRead <= Len(scHist'["region"]) + 1
    BY <1>1, <1>5, <1>7 DEF ScInv, ScRecorded
  <1>13. ScRecorded'
    BY <1>2, <1>5, <1>9, <1>10, <1>11, <1>12 DEF ScRecorded
  <1>14. ScCopied'
    <2>. SUFFICES ASSUME NEW j \in ScScopes PROVE scRep[j].val = ScAt(j, scRep[j].ver)'
      BY <1>2 DEF ScCopied
    <2>1. scRep[j].val = ScAt(j, scRep[j].ver) /\ scRep[j].ver <= Len(scHist[j])
      BY DEF ScInv, ScCopied, ScRecorded
    <2>. QED
      BY <1>2, <1>5, <1>8, <2>1 DEF ScAt
  <1>15. ScReached' /\ SeedsLead' /\ SeedAwaited'
    BY <1>2 DEF ScInv, ScReached, Pending, SeedsLead, SeedAwaited
  <1>. QED
    BY <1>6, <1>13, <1>14, <1>15 DEF ScInv

LEMMA ScDeliverKeeps ==
  ASSUME ScInv, NEW k \in ScScopes, NEW n \in 1..ScMaxVer, ScDeliver(k, n)
  PROVE  ScInv'
  <1>. DEFINE m == [kind |-> "delta", scope |-> k, ver |-> n]
  <1>1. /\ scBus' = scBus \ {<<k, n>>} /\ UNCHANGED <<scHist, scPhase, scRead, scRep, scLife>>
        /\ <<k, n>> \in scBus /\ n \in ScVersion /\ scBus \subseteq ScScopes \X ScVersion
    BY ScAssumption DEF ScDeliver, ScInv, ScTypeOK, ScVersion
  <1>2. n <= Len(scHist[k])
    BY <1>1 DEF ScInv, ScRecorded
  <1>3. CASE ~hears(k)
    <2>1. UNCHANGED <<scInbox, scHeard>>
      BY <1>3 DEF ScDeliver
    <2>2. ScTypeOK'
      BY <1>1, <2>1 DEF ScInv, ScTypeOK
    <2>3. ScRecorded'
      BY <1>1, <2>1 DEF ScInv, ScRecorded
    <2>4. ScCopied' /\ ScReached' /\ SeedsLead' /\ SeedAwaited'
      BY <1>1, <2>1 DEF ScInv, ScCopied, ScAt, ScReached, Pending, SeedsLead, SeedAwaited
    <2>. QED
      BY <2>2, <2>3, <2>4 DEF ScInv
  <1>4. CASE hears(k)
    <2>1. ScPost(<<m>>) /\ scPhase \notin {"built", "regionRead"}
      BY <1>4 DEF ScDeliver, hears
    <2>2. m \in ScMsg /\ m.kind = "delta" /\ m.scope = k /\ m.ver = n
      BY <1>1 DEF ScMsg
    <2>. HIDE DEF m
    <2>3. <<m>> \in Seq(ScMsg) /\ Len(<<m>>) = 1 /\ <<m>>[1] = m
      BY <2>2
    <2>4. \A j \in 1..Len(<<m>>) : j = 1
      BY <2>3
    <2>. DEFINE ms == <<m>>
    <2>5. /\ ms \in Seq(ScMsg) /\ ScPost(ms)
          /\ \A j \in 1..Len(ms) : ms[j].ver <= Len(scHist[ms[j].scope]) /\ ms[j].kind # "seed"
      BY <1>2, <2>1, <2>2, <2>3, <2>4
    <2>. HIDE DEF ms
    <2>6. scBus' \subseteq scBus
      BY <1>1
    <2>7. /\ scInbox' \in Seq(ScMsg) /\ scHeard' \in [ScScopes -> ScVersion]
          /\ ScRecorded' /\ ScCopied' /\ ScReached' /\ SeedsLead'
      BY <1>1, <2>5, <2>6, PostKeeps
    <2>8. ScTypeOK'
      BY <1>1, <2>7 DEF ScInv, ScTypeOK
    <2>9. SeedAwaited'
      BY <1>1, <2>1 DEF SeedAwaited
    <2>. QED
      BY <2>7, <2>8, <2>9 DEF ScInv
  <1>. QED
    BY <1>3, <1>4

LEMMA ScSeedKeeps ==
  ASSUME ScInv, NEW e \in BOOLEAN, ScSeed(e) \/ SeedFromSnapshot
  PROVE  ScInv'
  <1>1. /\ scHist \in [ScScopes -> Seq(ScValues)] /\ scRead \in 0..ScMaxVer + 1 /\ ScMaxVer \in Nat
        /\ ScVersion = 0..ScMaxVer /\ "world" \in ScScopes /\ "region" \in ScScopes
    BY ScAssumption DEF ScInv, ScTypeOK, ScVersion, ScScopes
  <1>2. /\ Len(scHist["world"]) \in ScVersion /\ Len(scHist["region"]) \in ScVersion
        /\ scRead <= Len(scHist["region"]) + 1
    BY <1>1 DEF ScInv, ScRecorded
  <1>. DEFINE w == [kind |-> "seed", scope |-> "world", ver |-> Len(scHist["world"])]
              g == [kind |-> "seed", scope |-> "region", ver |-> scRead - 1]
              s == [kind |-> "seed", scope |-> "region", ver |-> Len(scHist["region"])]
              Good(ms) ==
                /\ ms \in Seq(ScMsg)
                /\ \A j \in 1..Len(ms) : ms[j].ver <= Len(scHist[ms[j].scope])
                /\ \A i, j \in 1..Len(ms) : ms[i].scope = ms[j].scope => i = j
                /\ \A j \in 1..Len(ms) : ms[j].scope \in ScScopes
  <1>3. /\ w \in ScMsg /\ w.scope = "world" /\ w.ver = Len(scHist["world"])
        /\ s \in ScMsg /\ s.scope = "region" /\ s.ver = Len(scHist["region"])
    BY <1>1, <1>2 DEF ScMsg
  <1>4. scRead # 0 => g \in ScMsg /\ g.scope = "region" /\ g.ver <= Len(scHist["region"])
    <2>. SUFFICES ASSUME scRead # 0 PROVE g \in ScMsg /\ g.scope = "region" /\ g.ver <= Len(scHist["region"])
      OBVIOUS
    <2>1. scRead - 1 \in ScVersion /\ scRead - 1 <= Len(scHist["region"])
      BY <1>1, <1>2
    <2>. QED
      BY <1>1, <2>1 DEF ScMsg
  <1>. HIDE DEF w, g, s
  <1>5. Good(<<>>) /\ Good(<<w>>)
    BY <1>1, <1>2, <1>3
  <1>6. Good(<<w, s>>)
    <2>1. <<w, s>> \in Seq(ScMsg) /\ Len(<<w, s>>) = 2 /\ <<w, s>>[1] = w /\ <<w, s>>[2] = s
      BY <1>3
    <2>. QED
      BY <1>1, <1>2, <1>3, <2>1
  <1>7. scRead # 0 => Good(<<g>>) /\ Good(<<w>> \o <<g>>)
    <2>. SUFFICES ASSUME scRead # 0 PROVE Good(<<g>>) /\ Good(<<w>> \o <<g>>)
      OBVIOUS
    <2>1. g \in ScMsg /\ g.scope = "region" /\ g.ver <= Len(scHist["region"])
      BY <1>4
    <2>2. <<g>> \in Seq(ScMsg) /\ Len(<<g>>) = 1 /\ <<g>>[1] = g
      BY <2>1
    <2>. DEFINE q == <<w>> \o <<g>>
    <2>3. q \in Seq(ScMsg) /\ Len(q) = 2 /\ q[1] = w /\ q[2] = g
      BY <1>3, <2>1
    <2>. HIDE DEF q
    <2>4. Good(<<g>>)
      BY <1>1, <2>1, <2>2
    <2>5. Good(q)
      BY <1>1, <1>2, <1>3, <2>1, <2>3
    <2>. QED
      BY <2>4, <2>5 DEF q
  <1>. HIDE DEF Good
  <1>8. \E ms : ScPost(ms) /\ Good(ms)
    <2>1. CASE SeedFromSnapshot
      BY <1>6, <2>1 DEF SeedFromSnapshot, w, s
    <2>2. CASE ScSeed(e)
      <3>. DEFINE a == IF e THEN <<>> ELSE <<w>>
                  b == IF scRead = 0 THEN <<>> ELSE <<g>>
      <3>1. ScPost(a \o b)
        BY <2>2 DEF ScSeed, w, g
      <3>2. ASSUME NEW q \in Seq(ScMsg) PROVE <<>> \o q = q /\ q \o <<>> = q
        OBVIOUS
      <3>3. <<>> \in Seq(ScMsg) /\ <<w>> \in Seq(ScMsg)
        BY <1>3
      <3>4. CASE scRead = 0
        <4>1. a \o b \in {<<>>, <<w>>}
          BY <3>2, <3>3, <3>4
        <4>. HIDE DEF a, b
        <4>. QED
          BY <1>5, <3>1, <4>1
      <3>5. CASE scRead # 0
        <4>1. g \in ScMsg /\ Good(<<g>>) /\ Good(<<w>> \o <<g>>)
          BY <1>4, <1>7, <3>5
        <4>2. <<g>> \in Seq(ScMsg)
          BY <4>1
        <4>3. a \o b \in {<<g>>, <<w>> \o <<g>>}
          BY <3>2, <3>5, <4>2
        <4>. HIDE DEF a, b
        <4>. QED
          BY <3>1, <4>1, <4>3
      <3>. QED
        BY <3>4, <3>5
    <2>. QED
      BY <2>1, <2>2
  <1>9. PICK ms : ScPost(ms) /\ Good(ms)
    BY <1>8
  <1>10. /\ ms \in Seq(ScMsg)
         /\ \A j \in 1..Len(ms) : ms[j].ver <= Len(scHist[ms[j].scope]) /\ ms[j].scope \in ScScopes
         /\ \A i, j \in 1..Len(ms) : ms[i].scope = ms[j].scope => i = j
    BY <1>9 DEF Good
  <1>11. /\ scPhase \in {"built", "regionRead"} /\ scPhase' = "seeded"
         /\ UNCHANGED <<scHist, scBus, scRead, scRep, scLife>>
    BY DEF ScSeed, SeedFromSnapshot
  <1>12. Len(scInbox) = 0 /\ \A k \in ScScopes : scRep[k].ver = 0
    BY <1>11 DEF ScInv, SeedAwaited
  <1>13. \A j \in 1..Len(ms) : ms[j].kind = "seed" =>
           /\ scRep[ms[j].scope].ver = 0
           /\ \A i \in 1..Len(scInbox) : scInbox[i].scope # ms[j].scope
           /\ \A i \in 1..Len(ms) : ms[i].scope = ms[j].scope => j <= i
    BY <1>10, <1>12
  <1>14. scBus' \subseteq scBus
    BY <1>11
  <1>15. /\ scInbox' \in Seq(ScMsg) /\ scHeard' \in [ScScopes -> ScVersion]
         /\ ScRecorded' /\ ScCopied' /\ ScReached' /\ SeedsLead'
    BY <1>9, <1>10, <1>11, <1>13, <1>14, PostKeeps
  <1>16. ScTypeOK' /\ SeedAwaited'
    BY <1>11, <1>15 DEF ScInv, ScTypeOK, ScPhases, SeedAwaited
  <1>. QED
    BY <1>15, <1>16 DEF ScInv

LEMMA ScApplyKeeps ==
  ASSUME ScInv, ScApply
  PROVE  ScInv'
  <1>. DEFINE m == Head(scInbox)
              new == IF m.kind = "seed" THEN applyScopeSeed(m.scope, m.ver) ELSE applyScopeDelta(m.scope, m.ver)
  <1>1. /\ scHist \in [ScScopes -> Seq(ScValues)] /\ scInbox \in Seq(ScMsg) /\ scHeard \in [ScScopes -> ScVersion]
        /\ scRep \in [ScScopes -> [val : ScValues, ver : ScVersion]] /\ ScVersion = 0..ScMaxVer /\ ScMaxVer \in Nat
    BY ScAssumption DEF ScInv, ScTypeOK, ScVersion
  <1>2. /\ scInbox # <<>> /\ scInbox' = Tail(scInbox) /\ scPhase # "absent"
        /\ scRep' = [scRep EXCEPT ![m.scope] = new]
        /\ UNCHANGED <<scHist, scBus, scPhase, scRead, scHeard, scLife>>
    BY DEF ScApply
  <1>3. /\ Len(scInbox) \in Nat /\ Len(scInbox) > 0 /\ m = scInbox[1] /\ m \in ScMsg
        /\ scInbox' \in Seq(ScMsg) /\ Len(scInbox') = Len(scInbox) - 1
        /\ \A i \in 1..Len(scInbox') : i + 1 \in 1..Len(scInbox) /\ scInbox'[i] = scInbox[i + 1]
    BY <1>1, <1>2, QueueTail
  <1>. HIDE DEF m
  <1>4. m.scope \in ScScopes /\ m.ver \in ScVersion /\ m.kind \in {"seed", "delta"}
    BY <1>3 DEF ScMsg
  <1>. DEFINE k == m.scope
  <1>5. /\ 1 \in 1..Len(scInbox) /\ m.ver <= Len(scHist[k]) /\ m.ver <= scHeard[k]
        /\ scRep[k].ver <= scHeard[k] /\ scHeard[k] <= Len(scHist[k])
        /\ m.kind = "seed" => scRep[k].ver = 0
    BY <1>3, <1>4 DEF ScInv, ScRecorded, ScReached, SeedsLead
  <1>6. /\ new \in {scRep[k], [val |-> ScAt(k, m.ver), ver |-> m.ver]}
        /\ new = scRep[k] => m.ver <= scRep[k].ver
        /\ new # scRep[k] => scRep[k].ver <= m.ver
    <2>1. scRep[k] \in [val : ScValues, ver : ScVersion]
      BY <1>1, <1>4
    <2>2. CASE m.kind = "seed"
      <3>1. new = [val |-> ScAt(k, m.ver), ver |-> m.ver]
        BY <2>2 DEF applyScopeSeed
      <3>2. new.ver = m.ver
        BY <3>1
      <3>. HIDE DEF new
      <3>. QED
        BY <1>1, <1>4, <1>5, <2>2, <3>1, <3>2
    <2>3. CASE m.kind # "seed"
      <3>1. \/ m.ver <= scRep[k].ver /\ new = scRep[k]
            \/ ~(m.ver <= scRep[k].ver) /\ new = [val |-> ScAt(k, m.ver), ver |-> m.ver]
        BY <2>3 DEF applyScopeDelta
      <3>2. new = [val |-> ScAt(k, m.ver), ver |-> m.ver] => new.ver = m.ver
        OBVIOUS
      <3>. HIDE DEF new
      <3>. QED
        BY <1>1, <1>4, <2>1, <3>1, <3>2
    <2>. QED
      BY <2>2, <2>3
  <1>7. ScAt(k, m.ver) \in ScValues
    <2>1. CASE m.ver = 0
      BY <2>1 DEF ScAt, ScValues
    <2>2. CASE m.ver # 0
      <3>1. m.ver \in 1..Len(scHist[k]) /\ scHist[k] \in Seq(ScValues)
        BY <1>1, <1>4, <1>5, <2>2
      <3>. QED
        BY <2>2, <3>1, SeqElement DEF ScAt
    <2>. QED
      BY <2>1, <2>2
  <1>8. scRep[k] \in [val : ScValues, ver : ScVersion] /\ scRep[k].val = ScAt(k, scRep[k].ver)
    BY <1>1, <1>4 DEF ScInv, ScCopied
  <1>9. /\ new \in [val : ScValues, ver : ScVersion] /\ new.val = ScAt(k, new.ver)
        /\ scRep[k].ver <= new.ver /\ m.ver <= new.ver /\ new.ver \in {scRep[k].ver, m.ver}
    <2>1. CASE new = scRep[k]
      <3>. HIDE DEF new
      <3>. QED
        BY <1>1, <1>4, <1>6, <1>8, <2>1
    <2>2. CASE new # scRep[k] /\ new = [val |-> ScAt(k, m.ver), ver |-> m.ver]
      <3>1. new.val = ScAt(k, m.ver) /\ new.ver = m.ver /\ new \in [val : ScValues, ver : ScVersion]
        BY <1>4, <1>7, <2>2
      <3>. HIDE DEF new
      <3>. QED
        BY <1>1, <1>4, <1>6, <3>1, <2>2
    <2>. QED
      BY <1>6, <2>1, <2>2
  <1>. HIDE DEF new
  <1>10. /\ scRep' \in [ScScopes -> [val : ScValues, ver : ScVersion]] /\ scRep'[k] = new
         /\ \A j \in ScScopes \ {k} : scRep'[j] = scRep[j]
    BY <1>1, <1>2, <1>4, <1>9
  <1>11. new.ver <= scHeard[k] /\ new.ver <= Len(scHist[k])
    BY <1>1, <1>4, <1>5, <1>8, <1>9
  <1>12. \A i \in 1..Len(scInbox) : /\ scInbox[i].scope \in ScScopes
                                    /\ scInbox[i].ver <= Len(scHist[scInbox[i].scope])
                                    /\ scInbox[i].ver <= scHeard[scInbox[i].scope]
    <2>1. \A i \in 1..Len(scInbox) : scInbox[i] \in ScMsg
      BY <1>1, SeqElement
    <2>. QED
      BY <2>1 DEF ScMsg, ScInv, ScRecorded, ScReached
  <1>13. ScTypeOK'
    BY <1>2, <1>3, <1>10 DEF ScInv, ScTypeOK
  <1>14. ScRecorded'
    <2>1. \A j \in ScScopes : scRep'[j].ver <= Len(scHist[j])
      BY <1>10, <1>11 DEF ScInv, ScRecorded
    <2>2. \A i \in 1..Len(scInbox') : scInbox'[i].ver <= Len(scHist[scInbox'[i].scope])
      BY <1>3, <1>12
    <2>. QED
      BY <1>2, <2>1, <2>2 DEF ScInv, ScRecorded
  <1>15. ScCopied'
    BY <1>2, <1>9, <1>10 DEF ScInv, ScCopied, ScAt
  <1>16. ASSUME NEW j \in ScScopes PROVE scRep'[j].ver = scHeard[j] \/ Pending(j, scHeard[j])'
    <2>1. CASE scRep[j].ver = scHeard[j]
      <3>1. CASE j = k
        BY <1>1, <1>4, <1>5, <1>8, <1>9, <1>10, <1>11, <2>1, <3>1
      <3>. QED
        BY <1>10, <2>1, <3>1
    <2>2. ASSUME NEW i \in 1..Len(scInbox), scInbox[i].scope = j, scInbox[i].ver = scHeard[j]
          PROVE  scRep'[j].ver = scHeard[j] \/ Pending(j, scHeard[j])'
      <3>1. CASE i = 1
        <4>1. j = k /\ m.ver = scHeard[k]
          BY <1>3, <2>2, <3>1
        <4>. QED
          BY <1>1, <1>4, <1>9, <1>10, <1>11, <4>1
      <3>2. CASE i # 1
        <4>1. i - 1 \in 1..Len(scInbox') /\ i = (i - 1) + 1
          BY <1>3, <3>2
        <4>2. scInbox'[i - 1] = scInbox[i]
          BY <1>3, <4>1
        <4>. QED
          BY <1>2, <2>2, <4>1, <4>2 DEF Pending
      <3>. QED
        BY <3>1, <3>2
    <2>. QED
      BY <2>1, <2>2 DEF ScInv, ScReached, Pending
  <1>17. ScReached'
    <2>1. \A j \in ScScopes : scRep'[j].ver <= scHeard[j]
      BY <1>10, <1>11 DEF ScInv, ScReached
    <2>2. \A i \in 1..Len(scInbox') : scInbox'[i].ver <= scHeard[scInbox'[i].scope]
      BY <1>3, <1>12
    <2>. QED
      BY <1>2, <1>16, <2>1, <2>2 DEF ScReached
  <1>18. SeedsLead'
    <2>. SUFFICES ASSUME NEW i \in 1..Len(scInbox'), scInbox'[i].kind = "seed"
                  PROVE  /\ scRep'[scInbox'[i].scope].ver = 0
                         /\ \A j \in 1..Len(scInbox') : scInbox'[j].scope = scInbox'[i].scope => i <= j
      BY DEF SeedsLead
    <2>1. i + 1 \in 1..Len(scInbox) /\ scInbox'[i] = scInbox[i + 1] /\ scInbox[i + 1].scope \in ScScopes
      BY <1>3, <1>12
    <2>2. /\ scRep[scInbox[i + 1].scope].ver = 0
          /\ \A j \in 1..Len(scInbox) : scInbox[j].scope = scInbox[i + 1].scope => i + 1 <= j
      BY <2>1 DEF ScInv, SeedsLead
    <2>3. scInbox[i + 1].scope # k
      BY <1>3, <1>5, <2>1, <2>2
    <2>4. scRep'[scInbox'[i].scope].ver = 0
      BY <1>10, <2>1, <2>2, <2>3
    <2>5. ASSUME NEW j \in 1..Len(scInbox'), scInbox'[j].scope = scInbox'[i].scope PROVE i <= j
      <3>1. j + 1 \in 1..Len(scInbox) /\ scInbox'[j] = scInbox[j + 1]
        BY <1>3
      <3>2. i + 1 <= j + 1
        BY <2>1, <2>2, <2>5, <3>1
      <3>. QED
        BY <1>3, <3>2
    <2>. QED
      BY <2>4, <2>5
  <1>19. SeedAwaited'
    <2>1. scPhase \notin {"built", "regionRead"}
      BY <1>2 DEF ScInv, SeedAwaited
    <2>. QED
      BY <1>2, <2>1 DEF SeedAwaited
  <1>. QED
    BY <1>13, <1>14, <1>15, <1>17, <1>18, <1>19 DEF ScInv

LEMMA ScInitInv ==
  ScInit => ScInv
  <1>. SUFFICES ASSUME ScInit PROVE ScInv
    OBVIOUS
  <1>1. /\ <<>> \in Seq(ScValues) /\ Len(<<>>) = 0 /\ <<>> \in Seq(ScMsg) /\ 0 \in ScVersion
        /\ 0 \in 0..ScMaxVer + 1 /\ 0 \in 0..ScLives /\ ScMaxVer \in Nat
    BY ScAssumption DEF ScVersion
  <1>2. ScEmpty \in [ScScopes -> [val : ScValues, ver : ScVersion]]
    BY <1>1 DEF ScEmpty, ScValues
  <1>3. \A k \in ScScopes : scHist[k] = <<>> /\ scHeard[k] = 0 /\ scRep[k].ver = 0 /\ scRep[k].val = "null"
    BY DEF ScInit, ScEmpty
  <1>4. ScTypeOK
    BY <1>1, <1>2 DEF ScInit, ScTypeOK, ScPhases
  <1>5. ScRecorded
    BY <1>1, <1>3 DEF ScInit, ScRecorded, ScScopes
  <1>6. ScCopied /\ ScReached /\ SeedsLead /\ SeedAwaited
    BY <1>1, <1>3 DEF ScInit, ScCopied, ScAt, ScReached, SeedsLead, SeedAwaited
  <1>. QED
    BY <1>4, <1>5, <1>6 DEF ScInv

\* The steps that only move the zone along, and a fresh build.
LEMMA ScPhaseKeeps ==
  ASSUME ScInv,
         \/ ScBuild \/ ScExpose \/ RegisterZone \/ UnregisterZone \/ UNCHANGED scVars
         \/ \E e \in BOOLEAN : ScReadRegion(e)
  PROVE  ScInv'
  <1>1. CASE ScBuild
    <2>1. /\ scRep' = ScEmpty /\ scInbox' = <<>> /\ scHeard' = [k \in ScScopes |-> 0] /\ scPhase' = "built"
          /\ scLife' \in 0..ScLives /\ UNCHANGED <<scHist, scBus, scRead>>
      BY <1>1, ScAssumption DEF ScBuild, ScInv, ScTypeOK
    <2>2. /\ 0 \in ScVersion /\ Len(<<>>) = 0 /\ <<>> \in Seq(ScMsg) /\ ScMaxVer \in Nat
      BY ScAssumption DEF ScVersion
    <2>3. ScEmpty \in [ScScopes -> [val : ScValues, ver : ScVersion]]
      BY <2>2 DEF ScEmpty, ScValues
    <2>4. \A k \in ScScopes : /\ scHeard'[k] = 0 /\ scRep'[k].ver = 0 /\ scRep'[k].val = "null"
                              /\ Len(scHist[k]) \in Nat
      BY <2>1 DEF ScEmpty, ScInv, ScTypeOK
    <2>5. ScTypeOK'
      BY <2>1, <2>2, <2>3 DEF ScInv, ScTypeOK, ScPhases
    <2>6. ScRecorded'
      BY <2>1, <2>2, <2>4 DEF ScInv, ScRecorded
    <2>7. ScCopied' /\ ScReached' /\ SeedsLead' /\ SeedAwaited'
      BY <2>1, <2>2, <2>4 DEF ScCopied, ScAt, ScReached, SeedsLead, SeedAwaited
    <2>. QED
      BY <2>5, <2>6, <2>7 DEF ScInv
  <1>2. ASSUME NEW e \in BOOLEAN, ScReadRegion(e) PROVE ScInv'
    <2>1. /\ scPhase = "built" /\ scPhase' = "regionRead" /\ UNCHANGED <<scHist, scBus, scInbox, scRep, scHeard, scLife>>
          /\ scRead' \in {0, Len(scHist["region"]) + 1}
      BY <1>2 DEF ScReadRegion
    <2>2. Len(scHist["region"]) \in Nat /\ Len(scHist["region"]) <= ScMaxVer /\ ScMaxVer \in Nat
      BY ScAssumption DEF ScInv, ScTypeOK, ScRecorded, ScScopes
    <2>3. scRead' \in 0..ScMaxVer + 1 /\ scRead' <= Len(scHist["region"]) + 1
      BY <2>1, <2>2
    <2>4. ScTypeOK' /\ ScRecorded'
      BY <2>1, <2>3 DEF ScInv, ScTypeOK, ScRecorded, ScPhases
    <2>5. ScCopied' /\ ScReached' /\ SeedsLead' /\ SeedAwaited'
      BY <2>1 DEF ScInv, ScCopied, ScAt, ScReached, Pending, SeedsLead, SeedAwaited
    <2>. QED
      BY <2>4, <2>5 DEF ScInv
  <1>3. CASE ScExpose \/ RegisterZone \/ UnregisterZone \/ UNCHANGED scVars
    <2>1. /\ UNCHANGED <<scHist, scBus, scRead, scInbox, scRep, scHeard, scLife>>
          /\ scPhase' = scPhase \/ scPhase' \in {"exposed", "registered", "absent"}
      BY <1>3 DEF ScExpose, RegisterZone, UnregisterZone, scVars
    <2>2. ScTypeOK' /\ ScRecorded' /\ SeedAwaited'
      BY <2>1 DEF ScInv, ScTypeOK, ScRecorded, SeedAwaited, ScPhases
    <2>3. ScCopied' /\ ScReached' /\ SeedsLead'
      BY <2>1 DEF ScInv, ScCopied, ScAt, ScReached, Pending, SeedsLead
    <2>. QED
      BY <2>2, <2>3 DEF ScInv
  <1>. QED
    BY <1>1, <1>2, <1>3

\* A zone that has worked off its inbox holds the newest state of each scope that was ever handed
\* to it, for any history of writes, any order of the deltas and any number of lives (world/scope.go).
THEOREM ReplicaIsNewest == ScSpec => []ReplicaSafe
  <1>1. ScInv => ReplicaSafe
    <2>. SUFFICES ASSUME ScInv, scInbox = <<>>, NEW k \in ScScopes
                  PROVE  scRep[k] = [val |-> ScAt(k, scHeard[k]), ver |-> scHeard[k]]
      BY DEF ReplicaSafe, ReplicaNewest, ScInv
    <2>1. scRep[k] \in [val : ScValues, ver : ScVersion]
      BY DEF ScInv, ScTypeOK
    <2>2. scRep[k].ver = scHeard[k] /\ scRep[k].val = ScAt(k, scRep[k].ver)
      BY DEF ScInv, ScReached, Pending, ScCopied
    <2>. QED
      BY <2>1, <2>2
  <1>2. ScInv /\ [ScNext]_scVars => ScInv'
    <2>. SUFFICES ASSUME ScInv, [ScNext]_scVars PROVE ScInv'
      OBVIOUS
    <2>1. ASSUME NEW e \in BOOLEAN, ScSeed(e) PROVE ScInv'
      BY <2>1, ScSeedKeeps
    <2>2. CASE SeedFromSnapshot
      BY <2>2, ScSeedKeeps
    <2>3. ASSUME NEW k \in ScScopes, NEW v \in ScValues, ScWrite(k, v) PROVE ScInv'
      BY <2>3, ScWriteKeeps
    <2>4. ASSUME NEW k \in ScScopes, NEW n \in 1..ScMaxVer, ScDeliver(k, n) PROVE ScInv'
      BY <2>4, ScDeliverKeeps
    <2>5. CASE ScApply
      BY <2>5, ScApplyKeeps
    <2>. QED
      BY <2>1, <2>2, <2>3, <2>4, <2>5, ScPhaseKeeps DEF ScNext
  <1>. QED
    BY <1>1, <1>2, ScInitInv, PTL DEF ScSpec

-----------------------------------------------------------------------------
(* ChannelComms: where the gate will end when it has applied what is on its way, *)
(* and what still has to come when that is not where the player is.              *)

ChMe == [at : ChZones \cup {ChNone}, frozen : BOOLEAN, pass : BOOLEAN,
         over : [ChRefs -> {"on", "off", "default"}], ignore : BOOLEAN]
ChGate == [subs : SUBSET ChRefs, ignore : BOOLEAN, todo : SUBSET ChRefs, closed : BOOLEAN]
ChRing == [len : [ChRefs -> 0..ChHistory], saying : ChRefs \cup {ChNone}]
ChRun == [edits : Nat, acts : Nat, faults : Nat, missed : BOOLEAN]
ChTyped ==
  /\ ChTypeOK /\ chMe \in ChMe /\ chGate \in ChGate /\ chRing \in ChRing /\ chRun \in ChRun

\* The config the gate has, or will have, when what is on the bus is applied.
Landing == IF chBus = <<>> THEN [hear |-> chGate.subs \cup chGate.todo, ignore |-> chGate.ignore]
           ELSE chBus[Len(chBus)]
\* A notification of the zone that is still to be handled.
DueAt(z) == z \in chLoad \/ chZone[z].armed
\* The flag stands for one message, queued or being retried; only the player's zone has
\* computed a config for it, and one that is out of date has a notification behind it.
ChArmed ==
  \A z \in ChZones :
    /\ chZone[z].armed <=> chZone[z].queued \/ chZone[z].retry
    /\ ~(chZone[z].queued /\ chZone[z].retry)
ChReached == Unpushed => ~Unreached(chMe)
ChRead ==
  \A z \in ChZones : chZone[z].at = "read" =>
    /\ z # chMe.at => chZone[z].cfg = <<>>
    /\ z = chMe.at => Len(chZone[z].cfg) = 1 /\ (DueAt(z) \/ chZone[z].cfg[1] = Config(chMe))
ChLands ==
  \/ Landing = Config(chMe)
  \/ chMe.at \in ChZones /\ (DueAt(chMe.at) \/ chZone[chMe.at].at # "idle")
ChInv == ChTyped /\ ChArmed /\ (~chRun.missed /\ ~chGate.closed => ChReached /\ ChRead /\ ChLands)

LEMMA ConfigTyped == ASSUME NEW me \in ChMe PROVE Config(me) \in ChConfig
  <1>1. effectiveHearSet(me) \in SUBSET ChRefs  BY DEF effectiveHearSet
  <1>2. me.ignore \in BOOLEAN  BY DEF ChMe
  <1> QED  BY <1>1, <1>2 DEF Config, ChConfig

\* The config follows the definitions and the player.
LEMMA ConfigKept ==
  ASSUME UNCHANGED <<chDef, chMe>>
  PROVE  /\ Config(chMe)' = Config(chMe) /\ Unreached(chMe)' = Unreached(chMe)
         /\ effectiveHearSet(chMe)' = effectiveHearSet(chMe)
  BY DEF Config, effectiveHearSet, canHear, channelEnabled, Unreached

\* A bus and a gate that are left alone.
LEMMA LandingKept ==
  ASSUME UNCHANGED <<chBus, chGate>> PROVE Landing' = Landing
  BY DEF Landing

LEMMA ChTyping == ChInit => ChInv
  <1> SUFFICES ASSUME ChInit PROVE ChInv  OBVIOUS
  <1>1. PICK z \in ChZones, pass \in BOOLEAN :
          chMe = [at |-> z, frozen |-> FALSE, pass |-> pass,
                  over |-> [c \in ChRefs |-> "default"], ignore |-> FALSE]
        BY DEF ChInit
  <1>2. chMe \in ChMe  BY <1>1 DEF ChMe
  <1>3. 0 \in 0..ChHistory  BY ChAssumption
  <1>4. chRing \in ChRing  BY <1>3 DEF ChInit, ChRing
  <1>5. chGate \in ChGate /\ chRun \in ChRun  BY DEF ChInit, ChGate, ChRun
  <1>6. <<>> \in Seq(ChConfig)  OBVIOUS
  <1>7. chZone \in [ChZones -> [armed : BOOLEAN, queued : BOOLEAN, retry : BOOLEAN,
                                at : {"idle", "took", "read"}, cfg : Seq(ChConfig)]]
        BY <1>6 DEF ChInit
  <1>8. ChTypeOK
    <2>1. chDef \in [ChRefs -> {"open", "gated", "gone"}] /\ chLoad \subseteq ChZones
          BY DEF ChInit
    <2>2. chMe.at \in ChZones \cup {ChNone} /\ chMe.over \in [ChRefs -> {"on", "off", "default"}]
          BY <1>2 DEF ChMe
    <2>3. chBus \in Seq(ChConfig)  BY <1>6 DEF ChInit
    <2>4. chGate.subs \subseteq ChRefs /\ chGate.todo \subseteq ChRefs  BY <1>5 DEF ChGate
    <2>5. chRing.len \in [ChRefs -> 0..ChHistory] /\ chRing.saying \in ChRefs \cup {ChNone}
          BY <1>4 DEF ChRing
    <2> QED  BY <1>7, <2>1, <2>2, <2>3, <2>4, <2>5 DEF ChTypeOK
  <1>9. \A z2 \in ChZones : /\ ~chZone[z2].armed /\ ~chZone[z2].queued /\ ~chZone[z2].retry
                            /\ chZone[z2].at = "idle"
        BY DEF ChInit
  <1>10. ChArmed /\ ChRead  BY <1>9 DEF ChArmed, ChRead
  <1>11. ChReached  BY <1>9 DEF ChReached, Unpushed, ChInit
  <1>12. Landing = Config(chMe)
    <2>1. \A c \in ChRefs : chDef[c] = "open" /\ chMe.over[c] = "default"  BY <1>1 DEF ChInit
    <2>2. effectiveHearSet(chMe) = ChRefs
          BY <2>1 DEF effectiveHearSet, canHear, channelEnabled
    <2>3. chMe.ignore = FALSE  BY <1>1
    <2>4. chGate.subs = ChRefs /\ chGate.todo = {} /\ chGate.ignore = FALSE /\ chBus = <<>>
          BY DEF ChInit
    <2> QED  BY <2>2, <2>3, <2>4 DEF Landing, Config
  <1> QED  BY <1>2, <1>4, <1>5, <1>8, <1>10, <1>11, <1>12 DEF ChInv, ChTyped, ChLands

\* A zone that holds the player, and the player's own words.
LEMMA ChTypedStep ==
  ASSUME ChInv, NEW me \in ChMe, me.at = chMe.at, me.frozen = chMe.frozen, Typed(me)
  PROVE  ChInv'
  <1>1. /\ chMe' = me /\ chBus' = Append(chBus, Config(me)) /\ Free /\ ~chMe.frozen
        /\ chRun' = [chRun EXCEPT !.acts = @ + 1]
        /\ UNCHANGED <<chDef, chLoad, chZone, chGate, chRing>>
        BY DEF Typed, Acted, publishCommsConfig
  <1>2. Config(me) \in ChConfig  BY ConfigTyped
  <1>3. chBus \in Seq(ChConfig)  BY DEF ChInv, ChTyped, ChTypeOK
  <1>4. chBus' \in Seq(ChConfig) /\ chBus' # <<>> /\ chBus'[Len(chBus')] = Config(me)
        BY <1>1, <1>2, <1>3
  <1>5. ChTyped'
    <2>1. chRun' \in ChRun /\ chRun'.missed = chRun.missed
          BY <1>1 DEF ChInv, ChTyped, ChRun
    <2> QED  BY <1>1, <1>4, <2>1 DEF ChInv, ChTyped, ChTypeOK, ChMe
  <1>6. chRun'.missed = chRun.missed  BY <1>1 DEF ChInv, ChTyped, ChRun
  <1>7. ChArmed'  BY <1>1 DEF ChInv, ChArmed
  <1>8. Config(chMe)' = Config(me)
        BY <1>1 DEF Config, effectiveHearSet, canHear, channelEnabled
  <1>9. Landing' = Config(chMe)'  BY <1>4, <1>8 DEF Landing
  <1>10. ASSUME ~chRun.missed, ~chGate.closed PROVE (ChReached /\ ChRead)'
    <2>1. ChReached /\ ChRead  BY <1>10 DEF ChInv
    <2>2. ChReached'  BY <1>1, <2>1 DEF ChReached, Unpushed, Unreached
    <2>3. ChRead'
      <3>1. SUFFICES ASSUME NEW z \in ChZones, chZone[z].at = "read"
                     PROVE  z # me.at /\ (z # chMe.at => chZone[z].cfg = <<>>)
            BY <1>1 DEF ChRead, DueAt
      <3> QED  BY <1>1, <2>1, <3>1 DEF ChRead, Free
    <2> QED  BY <2>2, <2>3
  <1> QED  BY <1>1, <1>5, <1>6, <1>7, <1>9, <1>10 DEF ChInv, ChLands

LEMMA ChChannelsStep ==
  ASSUME ChInv, NEW c \in ChRefs, NEW on \in BOOLEAN, cmdChannels(c, on) PROVE ChInv'
  <1> DEFINE v == IF on THEN "on" ELSE "off"
             me == [chMe EXCEPT !.over[c] = v]
  <1>1. chMe \in ChMe  BY DEF ChInv, ChTyped
  <1>2. me \in ChMe /\ me.at = chMe.at /\ me.frozen = chMe.frozen
    <2>1. [chMe.over EXCEPT ![c] = v] \in [ChRefs -> {"on", "off", "default"}]
          BY <1>1 DEF ChMe
    <2> QED  BY <1>1, <2>1 DEF ChMe
  <1>3. Typed(me)  BY DEF cmdChannels
  <1> HIDE DEF me
  <1> QED  BY <1>2, <1>3, ChTypedStep

LEMMA ChIgnoreStep == ASSUME ChInv, cmdIgnore PROVE ChInv'
  <1> DEFINE me == [chMe EXCEPT !.ignore = ~@]
  <1>1. chMe \in ChMe  BY DEF ChInv, ChTyped
  <1>2. me \in ChMe /\ me.at = chMe.at /\ me.frozen = chMe.frozen  BY <1>1 DEF ChMe
  <1>3. Typed(me)  BY DEF cmdIgnore
  <1> HIDE DEF me
  <1> QED  BY <1>2, <1>3, ChTypedStep

\* The flag changes: without a gated channel the config is the same.
LEMMA ChAccessStep == ASSUME ChInv, republishCommsOnAccessChange PROVE ChInv'
  <1> DEFINE me == [chMe EXCEPT !.pass = ~@]
  <1>1. chMe \in ChMe  BY DEF ChInv, ChTyped
  <1>2. /\ me \in ChMe /\ me.at = chMe.at /\ me.frozen = chMe.frozen
        /\ me.over = chMe.over /\ me.ignore = chMe.ignore
        BY <1>1 DEF ChMe
  <1>3. /\ Free /\ chMe' = me
        /\ chBus' = IF \E c \in ChRefs : chDef[c] = "gated" THEN Append(chBus, Config(me)) ELSE chBus
        /\ chRun' = [chRun EXCEPT !.acts = @ + 1]
        /\ UNCHANGED <<chDef, chLoad, chZone, chGate, chRing>>
        BY DEF republishCommsOnAccessChange, Acted, publishCommsConfig
  <1> HIDE DEF me
  <1>4. chBus \in Seq(ChConfig) /\ Config(me) \in ChConfig
        BY <1>2, ConfigTyped DEF ChInv, ChTyped, ChTypeOK
  <1>5. chBus' \in Seq(ChConfig)  BY <1>3, <1>4
  <1>6. chRun' \in ChRun /\ chRun'.missed = chRun.missed  BY <1>3 DEF ChInv, ChTyped, ChRun
  <1>7. ChTyped'  BY <1>2, <1>3, <1>5, <1>6 DEF ChInv, ChTyped, ChTypeOK, ChMe
  <1>8. ChArmed'  BY <1>3 DEF ChInv, ChArmed
  <1>9. Config(chMe)' = Config(me)
        BY <1>3 DEF Config, effectiveHearSet, canHear, channelEnabled
  <1>10. ASSUME ~chRun.missed, ~chGate.closed PROVE (ChReached /\ ChRead)'
    <2>1. ChReached /\ ChRead  BY <1>10 DEF ChInv
    <2>2. ChReached'  BY <1>2, <1>3, <2>1 DEF ChReached, Unpushed, Unreached
    <2>3. ChRead'
      <3>1. SUFFICES ASSUME NEW z \in ChZones, chZone[z].at = "read"
                     PROVE  z # me.at /\ (z # chMe.at => chZone[z].cfg = <<>>)
            BY <1>2, <1>3 DEF ChRead, DueAt
      <3> QED  BY <1>2, <1>3, <2>1, <3>1 DEF ChRead, Free
    <2> QED  BY <2>2, <2>3
  <1>11. CASE \E c \in ChRefs : chDef[c] = "gated"
    <2>1. chBus' # <<>> /\ chBus'[Len(chBus')] = Config(me)  BY <1>3, <1>4, <1>11
    <2>2. Landing' = Config(chMe)'  BY <1>9, <2>1 DEF Landing
    <2> QED  BY <1>3, <1>6, <1>7, <1>8, <1>10, <2>2 DEF ChInv, ChLands
  <1>12. CASE ~\E c \in ChRefs : chDef[c] = "gated"
    <2>1. effectiveHearSet(me) = effectiveHearSet(chMe)
          BY <1>2, <1>12 DEF effectiveHearSet, canHear, channelEnabled
    <2>2. Config(chMe)' = Config(chMe)  BY <1>2, <1>9, <2>1 DEF Config
    <2>3. Landing' = Landing  BY <1>3, <1>12 DEF Landing
    <2>4. ChLands => ChLands'  BY <1>2, <1>3, <2>2, <2>3 DEF ChLands, DueAt
    <2> QED  BY <1>3, <1>6, <1>7, <1>8, <1>10, <2>4 DEF ChInv
  <1> QED  BY <1>11, <1>12

\* The player moves while nothing is being pushed, or the history says that it missed an update.
LEMMA ChMovesStep ==
  ASSUME ChInv, NEW me \in ChMe, NEW act \in BOOLEAN, Moves(me, act),
         me.pass = chMe.pass, me.over = chMe.over, me.ignore = chMe.ignore
  PROVE  ChInv'
  <1>1. /\ chMe' = me
        /\ chRun' = [chRun EXCEPT !.acts = IF act THEN @ + 1 ELSE @, !.missed = @ \/ Unpushed]
        /\ UNCHANGED <<chDef, chLoad, chZone, chBus, chGate, chRing>>
        BY DEF Moves
  <1>2. chRun \in ChRun  BY DEF ChInv, ChTyped
  <1>3. chRun' \in ChRun /\ (~chRun'.missed => ~chRun.missed /\ ~Unpushed)
    <2> DEFINE n == IF act THEN chRun.acts + 1 ELSE chRun.acts
    <2>0. Unpushed \in BOOLEAN  BY DEF Unpushed
    <2>1. n \in Nat  BY <1>2 DEF ChRun
    <2>2. chRun' = [chRun EXCEPT !.acts = n, !.missed = chRun.missed \/ Unpushed]  BY <1>1
    <2> HIDE DEF n
    <2> QED  BY <1>2, <2>0, <2>1, <2>2 DEF ChRun
  <1>4. ChTyped'  BY <1>1, <1>3 DEF ChInv, ChTyped, ChTypeOK, ChMe
  <1>5. ChArmed'  BY <1>1 DEF ChInv, ChArmed
  <1>6. Config(chMe)' = Config(chMe)
        BY <1>1 DEF Config, effectiveHearSet, canHear, channelEnabled
  <1>7. ASSUME ~chRun'.missed, ~chGate'.closed PROVE (ChReached /\ ChRead /\ ChLands)'
    <2>1. ~chRun.missed /\ ~chGate.closed /\ ~Unpushed  BY <1>1, <1>3, <1>7
    <2>2. ~Unpushed'  BY <1>1, <2>1 DEF Unpushed
    <2>3. \A z \in ChZones : chZone[z].at = "idle" /\ ~chZone[z].armed /\ z \notin chLoad
          BY <2>1 DEF Unpushed
    <2>4. Landing = Config(chMe)  BY <2>1, <2>3 DEF ChInv, ChLands, DueAt
    <2>5. Landing' = Landing  BY <1>1 DEF Landing
    <2> QED  BY <1>1, <1>6, <2>2, <2>3, <2>4, <2>5 DEF ChReached, ChRead, ChLands
  <1> QED  BY <1>4, <1>5, <1>7 DEF ChInv

LEMMA ChTransferStep ==
  ASSUME ChInv, NEW z \in ChZones \cup {ChNone}, transferIn(z) PROVE ChInv'
  <1> DEFINE me == [chMe EXCEPT !.at = z]
  <1>1. chMe \in ChMe  BY DEF ChInv, ChTyped
  <1>2. me \in ChMe /\ me.pass = chMe.pass /\ me.over = chMe.over /\ me.ignore = chMe.ignore
        BY <1>1 DEF ChMe
  <1>3. Moves(me, z = ChNone)  BY DEF transferIn
  <1> HIDE DEF me
  <1> QED  BY <1>2, <1>3, ChMovesStep

LEMMA ChFreezeStep == ASSUME ChInv, ChFreeze PROVE ChInv'
  <1> DEFINE me == [chMe EXCEPT !.frozen = ~@]
  <1>1. chMe \in ChMe  BY DEF ChInv, ChTyped
  <1>2. /\ me \in ChMe /\ me.pass = chMe.pass /\ me.over = chMe.over /\ me.ignore = chMe.ignore
        /\ (~chMe.frozen) \in BOOLEAN
        BY <1>1 DEF ChMe
  <1>3. Moves(me, ~chMe.frozen)  BY DEF ChFreeze
  <1> HIDE DEF me
  <1> QED  BY <1>2, <1>3, ChMovesStep

\* An edit: every zone has to be notified again, and a player out of reach has missed it.
LEMMA ReloadChannelStep ==
  ASSUME ChInv, NEW c \in ChRefs, NEW def \in {"open", "gated", "gone"}, reloadChannel(c, def)
  PROVE  ChInv'
  <1>1. /\ chDef' = [chDef EXCEPT ![c] = def] /\ chLoad' = ChZones
        /\ chRing' = IF def = "gone" THEN [chRing EXCEPT !.len[c] = 0] ELSE chRing
        /\ chRun' = [chRun EXCEPT !.edits = @ + 1, !.missed = @ \/ Unreached(chMe)]
        /\ UNCHANGED <<chZone, chMe, chBus, chGate>>
        BY DEF reloadChannel
  <1>2. chRun \in ChRun /\ chRing \in ChRing /\ chMe \in ChMe  BY DEF ChInv, ChTyped
  <1>3. chRun' \in ChRun /\ (~chRun'.missed => ~chRun.missed /\ ~Unreached(chMe))
    <2> DEFINE n == chRun.edits + 1
               u == Unreached(chMe)
    <2>1. u \in BOOLEAN /\ n \in Nat  BY <1>2 DEF Unreached, ChMe, ChRun
    <2>2. chRun' = [chRun EXCEPT !.edits = n, !.missed = chRun.missed \/ u]  BY <1>1
    <2>3. u <=> Unreached(chMe)  OBVIOUS
    <2> HIDE DEF n, u
    <2>4. chRun' \in ChRun /\ (~chRun'.missed => ~chRun.missed /\ ~u)
          BY <1>2, <2>1, <2>2 DEF ChRun
    <2> QED  BY <2>3, <2>4
  <1>4. chRing' \in ChRing
    <2>1. [chRing.len EXCEPT ![c] = 0] \in [ChRefs -> 0..ChHistory]
          BY <1>2, ChAssumption DEF ChRing
    <2> QED  BY <1>1, <1>2, <2>1 DEF ChRing
  <1>5. ChTyped'
    <2>1. chDef' \in [ChRefs -> {"open", "gated", "gone"}]
          BY <1>1 DEF ChInv, ChTyped, ChTypeOK
    <2>2. chRing'.len \in [ChRefs -> 0..ChHistory] /\ chRing'.saying \in ChRefs \cup {ChNone}
          BY <1>4 DEF ChRing
    <2> QED  BY <1>1, <1>3, <1>4, <2>1, <2>2 DEF ChInv, ChTyped, ChTypeOK
  <1>6. ChArmed'  BY <1>1 DEF ChInv, ChArmed
  <1>7. ASSUME ~chRun'.missed, ~chGate'.closed PROVE (ChReached /\ ChRead /\ ChLands)'
    <2>1. ~chRun.missed /\ ~chGate.closed /\ ~Unreached(chMe)  BY <1>1, <1>3, <1>7
    <2>2. chMe.at \in ChZones  BY <1>2, <2>1 DEF Unreached, ChMe
    <2>3. \A z \in ChZones : DueAt(z)'  BY <1>1 DEF DueAt
    <2>4. ChRead  BY <2>1 DEF ChInv
    <2>5. ChRead'  BY <1>1, <2>3, <2>4 DEF ChRead
    <2>6. ChReached'  BY <1>1, <2>1 DEF ChReached, Unreached
    <2>7. ChLands'  BY <1>1, <2>2, <2>3 DEF ChLands
    <2> QED  BY <2>5, <2>6, <2>7
  <1> QED  BY <1>5, <1>6, <1>7 DEF ChInv

\* The steps of a zone keep the definitions, the player and the gate.  What they have to show:
\* the zone's record is one, the flag stands for a message, and the player's zone still owes
\* the config, has it in hand, or has sent it.
LEMMA ChZoneStep ==
  ASSUME ChInv, NEW z \in ChZones, NEW r,
         r \in [armed : BOOLEAN, queued : BOOLEAN, retry : BOOLEAN,
                at : {"idle", "took", "read"}, cfg : Seq(ChConfig)],
         chZone' = [chZone EXCEPT ![z] = r],
         r.armed <=> r.queued \/ r.retry, ~(r.queued /\ r.retry),
         chLoad' \subseteq chLoad, chLoad \subseteq chLoad' \cup {z},
         chRun' \in ChRun, ~chRun'.missed => ~chRun.missed,
         chBus' \in Seq(ChConfig),
         UNCHANGED <<chDef, chMe, chGate, chRing>>,
         \* nothing new is pushed when nothing was
         ~chRun'.missed /\ (r.armed \/ r.at # "idle") =>
            z \in chLoad \/ chZone[z].armed \/ chZone[z].at # "idle",
         ~chRun'.missed /\ ~chGate.closed /\ z # chMe.at /\ r.at = "read" => r.cfg = <<>>,
         ~chRun'.missed /\ ~chGate.closed /\ z = chMe.at /\ r.at = "read" =>
            Len(r.cfg) = 1 /\ (DueAt(z)' \/ r.cfg[1] = Config(chMe)),
         ~chRun'.missed /\ ~chGate.closed /\ z = chMe.at =>
            Landing' = Config(chMe) \/ DueAt(z)' \/ r.at # "idle",
         z # chMe.at /\ ~chRun'.missed /\ ~chGate.closed => Landing' = Landing
  PROVE  ChInv'
  <1>1. chZone'[z] = r /\ \A y \in ChZones \ {z} : chZone'[y] = chZone[y]
        BY DEF ChInv, ChTyped, ChTypeOK
  <1>2. ChTyped'
    <2>1. chZone' \in [ChZones -> [armed : BOOLEAN, queued : BOOLEAN, retry : BOOLEAN,
                                   at : {"idle", "took", "read"}, cfg : Seq(ChConfig)]]
          BY DEF ChInv, ChTyped, ChTypeOK
    <2> QED  BY <2>1 DEF ChInv, ChTyped, ChTypeOK
  <1>3. ChArmed'
    <2>1. \A y \in ChZones : /\ chZone[y].armed <=> chZone[y].queued \/ chZone[y].retry
                             /\ ~(chZone[y].queued /\ chZone[y].retry)
          BY DEF ChInv, ChArmed
    <2>2. ASSUME NEW y \in ChZones
          PROVE  /\ chZone'[y].armed <=> chZone'[y].queued \/ chZone'[y].retry
                 /\ ~(chZone'[y].queued /\ chZone'[y].retry)
          BY <1>1, <2>1
    <2> QED  BY <2>2 DEF ChArmed
  <1>4. Config(chMe)' = Config(chMe) /\ Unreached(chMe)' = Unreached(chMe)  BY ConfigKept
  <1>5. ASSUME NEW y \in ChZones, y # z PROVE DueAt(y)' <=> DueAt(y)
        BY <1>1, <1>5 DEF DueAt
  <1>6. ASSUME ~chRun'.missed, ~chGate'.closed PROVE (ChReached /\ ChRead /\ ChLands)'
    <2>1. ChReached /\ ChRead /\ ChLands /\ ~chRun.missed /\ ~chGate.closed  BY <1>6 DEF ChInv
    <2>2. Unpushed' => Unpushed
      <3>1. SUFFICES ASSUME Unpushed' PROVE Unpushed  OBVIOUS
      <3>2. CASE chLoad' # {}  BY <3>2 DEF Unpushed
      <3>3. CASE \E y \in ChZones : chZone'[y].armed \/ chZone'[y].at # "idle"
        <4>1. PICK y \in ChZones : chZone'[y].armed \/ chZone'[y].at # "idle"  BY <3>3
        <4>2. CASE y = z  BY <1>1, <1>6, <4>1, <4>2 DEF Unpushed
        <4>3. CASE y # z  BY <1>1, <4>1, <4>3 DEF Unpushed
        <4> QED  BY <4>2, <4>3
      <3> QED  BY <3>1, <3>2, <3>3 DEF Unpushed
    <2>3. ChReached'  BY <1>4, <2>1, <2>2 DEF ChReached
    <2>4. ASSUME NEW y \in ChZones, chZone'[y].at = "read"
          PROVE  /\ y # chMe'.at => chZone'[y].cfg = <<>>
                 /\ y = chMe'.at => /\ Len(chZone'[y].cfg) = 1
                                    /\ DueAt(y)' \/ chZone'[y].cfg[1] = Config(chMe)'
      <3>1. CASE y = z  BY <1>1, <1>4, <1>6, <2>1, <2>4, <3>1
      <3>2. CASE y # z
        <4>1. chZone'[y] = chZone[y] /\ (DueAt(y)' <=> DueAt(y))  BY <1>1, <1>5, <3>2
        <4> QED  BY <1>4, <2>1, <2>4, <4>1 DEF ChRead
      <3> QED  BY <3>1, <3>2
    <2>5. ChRead'  BY <2>4 DEF ChRead
    <2>6. ChLands'
      <3>1. CASE chMe.at = z  BY <1>1, <1>4, <1>6, <3>1 DEF ChLands
      <3>2. CASE chMe.at # z
        <4>1. Landing' = Landing  BY <1>6, <3>2
        <4>2. chMe.at \in ChZones => /\ chZone'[chMe.at] = chZone[chMe.at]
                                     /\ DueAt(chMe.at)' <=> DueAt(chMe.at)
          <5>1. SUFFICES ASSUME chMe.at \in ChZones
                         PROVE  /\ chZone'[chMe.at] = chZone[chMe.at]
                                /\ (chMe.at \in chLoad' \/ chZone'[chMe.at].armed) <=> DueAt(chMe.at)
                BY DEF DueAt
          <5> QED  BY <1>1, <3>2, <5>1 DEF DueAt
        <4> QED  BY <1>4, <2>1, <4>1, <4>2 DEF ChLands, DueAt
      <3> QED  BY <3>1, <3>2
    <2> QED  BY <2>3, <2>5, <2>6
  <1> QED  BY <1>2, <1>3, <1>6 DEF ChInv

LEMMA ChZoneRecord ==
  ASSUME ChInv, NEW z \in ChZones
  PROVE  /\ chZone[z] \in [armed : BOOLEAN, queued : BOOLEAN, retry : BOOLEAN,
                           at : {"idle", "took", "read"}, cfg : Seq(ChConfig)]
         /\ chRun \in ChRun /\ chBus \in Seq(ChConfig) /\ chMe \in ChMe
         /\ chZone[z].armed <=> chZone[z].queued \/ chZone[z].retry
         /\ ~(chZone[z].queued /\ chZone[z].retry)
  BY DEF ChInv, ChTyped, ChTypeOK, ChArmed

\* What the invariant says of a run that missed nothing.
LEMMA ChFollows ==
  ASSUME ChInv, ~chRun.missed, ~chGate.closed
  PROVE  /\ ChReached /\ ChRead /\ ChLands
         /\ \A z \in ChZones : chZone[z].at = "read" =>
              /\ z # chMe.at => chZone[z].cfg = <<>>
              /\ z = chMe.at => Len(chZone[z].cfg) = 1 /\ (DueAt(z) \/ chZone[z].cfg[1] = Config(chMe))
  BY DEF ChInv, ChRead

\* An armed zone is skipped; the flag is set with the message or with its retry.
LEMMA RepublishStep ==
  ASSUME ChInv, NEW z \in ChZones, NEW full \in BOOLEAN, republishCommsToZones(z, full)
  PROVE  ChInv'
  <1> DEFINE r == IF chZone[z].armed THEN chZone[z]
                  ELSE [chZone[z] EXCEPT !.armed = TRUE, !.queued = ~full, !.retry = full]
  <1>1. /\ z \in chLoad /\ chLoad' = chLoad \ {z}
        /\ chZone' = [chZone EXCEPT ![z] = r]
        /\ chRun' = [chRun EXCEPT !.faults = IF full THEN @ + 1 ELSE @]
        /\ UNCHANGED <<chDef, chMe, chBus, chGate, chRing>>
        BY DEF republishCommsToZones, ChInv, ChTyped, ChTypeOK
  <1>2. /\ r \in [armed : BOOLEAN, queued : BOOLEAN, retry : BOOLEAN,
                  at : {"idle", "took", "read"}, cfg : Seq(ChConfig)]
        /\ r.armed /\ (r.queued \/ r.retry) /\ ~(r.queued /\ r.retry)
        /\ r.at = chZone[z].at /\ r.cfg = chZone[z].cfg
    <2>1. (~full) \in BOOLEAN  OBVIOUS
    <2> QED  BY <2>1, ChZoneRecord
  <1>3. chRun' \in ChRun /\ chRun'.missed = chRun.missed
    <2>1. chRun \in ChRun  BY DEF ChInv, ChTyped
    <2> QED  BY <1>1, <2>1 DEF ChRun
  <1> HIDE DEF r
  <1>4. chZone'[z] = r /\ DueAt(z)'
    <2>1. chZone'[z] = r  BY <1>1 DEF ChInv, ChTyped, ChTypeOK
    <2> QED  BY <1>2, <2>1 DEF DueAt
  <1>5. Landing' = Landing  BY <1>1, LandingKept
  <1>6. chBus' \in Seq(ChConfig) /\ chLoad' \subseteq chLoad /\ chLoad \subseteq chLoad' \cup {z}
        BY <1>1, ChZoneRecord
  <1>7. ~chRun.missed /\ ~chGate.closed /\ r.at = "read" =>
          /\ z # chMe.at => r.cfg = <<>>
          /\ z = chMe.at => Len(r.cfg) = 1
        BY <1>2, ChFollows
  <1> QED  BY <1>1, <1>2, <1>3, <1>4, <1>5, <1>6, <1>7, ChZoneStep

\* The retry delivers, or gives up and releases the flag: the history says so.
LEMMA RetryRepublishStep ==
  ASSUME ChInv, NEW z \in ChZones, NEW ex \in BOOLEAN, retryRepublishComms(z, ex)
  PROVE  ChInv'
  <1> DEFINE r == [chZone[z] EXCEPT !.armed = ~ex, !.queued = ~ex, !.retry = FALSE]
  <1>1. /\ chZone[z].retry /\ chZone' = [chZone EXCEPT ![z] = r]
        /\ UNCHANGED <<chDef, chLoad, chMe, chBus, chGate, chRing>>
        BY DEF retryRepublishComms, ChInv, ChTyped, ChTypeOK
  <1>2. /\ r \in [armed : BOOLEAN, queued : BOOLEAN, retry : BOOLEAN,
                  at : {"idle", "took", "read"}, cfg : Seq(ChConfig)]
        /\ (r.armed <=> r.queued \/ r.retry) /\ ~(r.queued /\ r.retry)
        /\ r.at = chZone[z].at /\ r.cfg = chZone[z].cfg /\ (~ex => r.armed)
    <2>1. (~ex) \in BOOLEAN  OBVIOUS
    <2> QED  BY <2>1, ChZoneRecord
  <1>3. chRun' \in ChRun /\ (~chRun'.missed => ~chRun.missed /\ ~ex)
    <2> DEFINE n == IF ex THEN chRun.faults + 1 ELSE chRun.faults
    <2>1. chRun \in ChRun  BY DEF ChInv, ChTyped
    <2>2. n \in Nat  BY <2>1 DEF ChRun
    <2>3. chRun' = [chRun EXCEPT !.faults = n, !.missed = chRun.missed \/ ex]
          BY DEF retryRepublishComms
    <2> HIDE DEF n
    <2> QED  BY <2>1, <2>2, <2>3 DEF ChRun
  <1> HIDE DEF r
  <1>4. chZone'[z] = r /\ (~ex => DueAt(z)')
    <2>1. chZone'[z] = r  BY <1>1 DEF ChInv, ChTyped, ChTypeOK
    <2> QED  BY <1>2, <2>1 DEF DueAt
  <1>5. Landing' = Landing  BY <1>1, LandingKept
  <1>6. chBus' \in Seq(ChConfig) /\ chLoad' \subseteq chLoad /\ chLoad \subseteq chLoad' \cup {z}
        BY <1>1, ChZoneRecord
  <1>7. ~chRun.missed /\ ~chGate.closed /\ r.at = "read" =>
          /\ z # chMe.at => r.cfg = <<>>
          /\ z = chMe.at => Len(r.cfg) = 1
        BY <1>2, ChFollows
  <1>8. chZone[z].armed  BY <1>1, ChZoneRecord
  <1> QED  BY <1>1, <1>2, <1>3, <1>4, <1>5, <1>6, <1>7, <1>8, ChZoneStep

\* The flag is released before the configs are computed, so an edit from here on is due again.
LEMMA TakeRepublishStep ==
  ASSUME ChInv, NEW z \in ChZones, takeRepublish(z) PROVE ChInv'
  <1> DEFINE r == [chZone[z] EXCEPT !.queued = FALSE, !.at = "took", !.armed = FALSE]
  <1>1. /\ chZone[z].queued /\ chZone' = [chZone EXCEPT ![z] = r]
        /\ UNCHANGED <<chDef, chLoad, chMe, chBus, chGate, chRing, chRun>>
        BY DEF takeRepublish, disarmsFirst, ChInv, ChTyped, ChTypeOK
  <1>2. /\ r \in [armed : BOOLEAN, queued : BOOLEAN, retry : BOOLEAN,
                  at : {"idle", "took", "read"}, cfg : Seq(ChConfig)]
        /\ (r.armed <=> r.queued \/ r.retry) /\ ~(r.queued /\ r.retry) /\ r.at = "took"
        BY <1>1, ChZoneRecord
  <1> HIDE DEF r
  <1>3. chRun' \in ChRun /\ chBus' \in Seq(ChConfig) /\ chZone[z].armed
        BY <1>1, ChZoneRecord
  <1>4. Landing' = Landing  BY <1>1, LandingKept
  <1> QED  BY <1>1, <1>2, <1>3, <1>4, ChZoneStep

\* A zone being pushed holds the player, if it has one.
LEMMA RepublishAllStep ==
  ASSUME ChInv, NEW z \in ChZones, republishAllComms(z) PROVE ChInv'
  <1> DEFINE cfg == IF chMe.at = z /\ ~chMe.frozen THEN <<Config(chMe)>> ELSE <<>>
             r == [chZone[z] EXCEPT !.at = "read", !.cfg = cfg]
  <1>1. /\ chZone[z].at = "took" /\ chZone' = [chZone EXCEPT ![z] = r]
        /\ UNCHANGED <<chDef, chLoad, chMe, chBus, chGate, chRing, chRun>>
        BY DEF republishAllComms, ChInv, ChTyped, ChTypeOK
  <1>2. Config(chMe) \in ChConfig /\ cfg \in Seq(ChConfig)
    <2>1. Config(chMe) \in ChConfig  BY ChZoneRecord, ConfigTyped
    <2> QED  BY <2>1
  <1> HIDE DEF cfg
  <1>3. /\ r \in [armed : BOOLEAN, queued : BOOLEAN, retry : BOOLEAN,
                  at : {"idle", "took", "read"}, cfg : Seq(ChConfig)]
        /\ (r.armed <=> r.queued \/ r.retry) /\ ~(r.queued /\ r.retry)
        /\ r.at = "read" /\ r.cfg = cfg
        BY <1>1, <1>2, ChZoneRecord
  <1> HIDE DEF r
  <1>4. chRun' \in ChRun /\ chBus' \in Seq(ChConfig)  BY <1>1, ChZoneRecord
  <1>5. Landing' = Landing  BY <1>1, LandingKept
  <1>6. z # chMe.at => cfg = <<>>  BY DEF cfg
  <1>7. ~chRun.missed /\ ~chGate.closed /\ z = chMe.at => Len(cfg) = 1 /\ cfg[1] = Config(chMe)
    <2>1. SUFFICES ASSUME ~chRun.missed, ~chGate.closed, z = chMe.at
                   PROVE  Len(cfg) = 1 /\ cfg[1] = Config(chMe)
          OBVIOUS
    <2>2. Unpushed  BY <1>1 DEF Unpushed
    <2>3. ~chMe.frozen  BY <2>1, <2>2, ChFollows DEF ChReached, Unreached
    <2>4. cfg = <<Config(chMe)>>  BY <2>1, <2>3 DEF cfg
    <2> HIDE DEF cfg
    <2> QED  BY <2>4
  <1> QED  BY <1>1, <1>3, <1>4, <1>5, <1>6, <1>7, ChZoneStep

\* What the player's zone had in hand is the last thing on the bus.
LEMMA PushRepublishStep ==
  ASSUME ChInv, NEW z \in ChZones, pushRepublish(z) PROVE ChInv'
  <1> DEFINE r == [chZone[z] EXCEPT !.at = "idle", !.cfg = <<>>,
                                    !.armed = chZone[z].armed /\ disarmsFirst]
  <1>1. /\ chZone[z].at = "read" /\ chBus' = chBus \o chZone[z].cfg
        /\ chZone' = [chZone EXCEPT ![z] = r]
        /\ UNCHANGED <<chDef, chLoad, chMe, chGate, chRing, chRun>>
        BY DEF pushRepublish, ChInv, ChTyped, ChTypeOK
  <1>2. <<>> \in Seq(ChConfig)  OBVIOUS
  <1>3. /\ r \in [armed : BOOLEAN, queued : BOOLEAN, retry : BOOLEAN,
                  at : {"idle", "took", "read"}, cfg : Seq(ChConfig)]
        /\ (r.armed <=> r.queued \/ r.retry) /\ ~(r.queued /\ r.retry)
        /\ r.at = "idle" /\ (r.armed <=> chZone[z].armed)
    <2>1. (chZone[z].armed /\ disarmsFirst) \in BOOLEAN
          /\ ((chZone[z].armed /\ disarmsFirst) <=> chZone[z].armed)
          BY ChZoneRecord DEF disarmsFirst
    <2> QED  BY <1>1, <1>2, <2>1, ChZoneRecord
  <1> HIDE DEF r
  <1>4. chRun' \in ChRun /\ chBus \in Seq(ChConfig) /\ chZone[z].cfg \in Seq(ChConfig)
        BY <1>1, ChZoneRecord
  <1>5. chBus' \in Seq(ChConfig)  BY <1>1, <1>4
  <1>6. chZone'[z] = r  BY <1>1 DEF ChInv, ChTyped, ChTypeOK
  <1>7. DueAt(z)' <=> DueAt(z)  BY <1>1, <1>3, <1>6 DEF DueAt
  <1>8. ASSUME ~chRun.missed, ~chGate.closed, z = chMe.at
        PROVE  Landing' = Config(chMe) \/ DueAt(z)
    <2>1. Len(chZone[z].cfg) = 1 /\ (DueAt(z) \/ chZone[z].cfg[1] = Config(chMe))
          BY <1>1, <1>8, ChFollows
    <2>2. chBus' # <<>> /\ chBus'[Len(chBus')] = chZone[z].cfg[1]
      <3>1. \A S : \A a, b \in Seq(S) :
              /\ Len(a \o b) = Len(a) + Len(b) /\ Len(a) \in Nat
              /\ \A k \in 1..Len(b) : (a \o b)[Len(a) + k] = b[k]
            BY ConcatFacts
      <3>2. /\ Len(chBus') = Len(chBus) + 1 /\ Len(chBus) \in Nat
            /\ chBus'[Len(chBus) + 1] = chZone[z].cfg[1]
        <4> DEFINE b == chZone[z].cfg
        <4>1. b \in Seq(ChConfig) /\ Len(b) = 1 /\ chBus' = chBus \o b  BY <1>1, <1>4, <2>1
        <4> HIDE DEF b
        <4>2. /\ Len(chBus \o b) = Len(chBus) + Len(b) /\ Len(chBus) \in Nat
              /\ \A k \in 1..Len(b) : (chBus \o b)[Len(chBus) + k] = b[k]
              BY <1>4, <3>1, <4>1
        <4>3. 1 \in 1..Len(b)  BY <4>1
        <4>4. (chBus \o b)[Len(chBus) + 1] = b[1]  BY <4>2, <4>3
        <4> QED  BY <4>1, <4>2, <4>4 DEF b
      <3> QED  BY <1>5, <3>2
    <2>3. Landing' = chZone[z].cfg[1]  BY <2>2 DEF Landing
    <2> QED  BY <2>1, <2>3
  <1>9. ASSUME ~chRun.missed, ~chGate.closed, z # chMe.at PROVE Landing' = Landing
    <2>1. chZone[z].cfg = <<>>  BY <1>1, <1>9, ChFollows
    <2>2. chBus' = chBus  BY <1>1, <1>4, <2>1
    <2> QED  BY <1>1, <2>2, LandingKept
  <1> QED  BY <1>1, <1>3, <1>4, <1>5, <1>7, <1>8, <1>9, ChZoneStep

(* The gate. *)
\* The config at the head of the bus is applied; the last one still decides.
LEMMA ApplyConfigStep == ASSUME ChInv, applyConfig PROVE ChInv'
  <1> DEFINE m == Head(chBus)
  <1>1. /\ chBus # <<>> /\ chGate.todo = {} /\ chBus' = Tail(chBus)
        /\ chGate' = IF chGate.closed THEN chGate
                     ELSE [chGate EXCEPT !.ignore = m.ignore, !.subs = @ \cap m.hear,
                                         !.todo = m.hear \ chGate.subs]
        /\ UNCHANGED <<chDef, chLoad, chZone, chMe, chRing, chRun>>
        BY DEF applyConfig
  <1>2. chBus \in Seq(ChConfig) /\ chGate \in ChGate  BY DEF ChInv, ChTyped, ChTypeOK
  <1>3. m \in ChConfig /\ m = chBus[1] /\ chBus' \in Seq(ChConfig) /\ Len(chBus') = Len(chBus) - 1
        BY <1>1, <1>2
  <1>4. m.hear \subseteq ChRefs /\ m.ignore \in BOOLEAN /\ m = [hear |-> m.hear, ignore |-> m.ignore]
        BY <1>3 DEF ChConfig
  <1> HIDE DEF m
  <1>5. /\ chGate' \in ChGate /\ chGate'.closed = chGate.closed
        /\ ~chGate.closed => /\ chGate'.subs \cup chGate'.todo = m.hear
                             /\ chGate'.ignore = m.ignore
    <2>1. CASE chGate.closed  BY <1>1, <1>2, <2>1
    <2>2. CASE ~chGate.closed
      <3> DEFINE subs == chGate.subs \cap m.hear
                 todo == m.hear \ chGate.subs
      <3>1. subs \in SUBSET ChRefs /\ todo \in SUBSET ChRefs /\ subs \cup todo = m.hear
            BY <1>2, <1>4 DEF ChGate
      <3>2. chGate' = [chGate EXCEPT !.ignore = m.ignore, !.subs = subs, !.todo = todo]
            BY <1>1, <2>2
      <3> HIDE DEF subs, todo
      <3>3. /\ chGate' \in ChGate /\ chGate'.closed = chGate.closed
            /\ chGate'.subs = subs /\ chGate'.todo = todo /\ chGate'.ignore = m.ignore
            BY <1>2, <1>4, <3>1, <3>2 DEF ChGate
      <3> QED  BY <3>1, <3>3
    <2> QED  BY <2>1, <2>2
  <1>6. ASSUME ~chGate.closed PROVE Landing' = Landing
    <2>1. CASE chBus' = <<>>
      <3>1. Len(chBus) = 1  BY <1>2, <1>3, <2>1
      <3>2. Landing = m  BY <1>1, <1>3, <3>1 DEF Landing
      <3> QED  BY <1>4, <1>5, <1>6, <2>1, <3>2 DEF Landing
    <2>2. CASE chBus' # <<>>
      <3>1. Len(chBus') \in 1..Len(chBus')  BY <1>2, <1>3, <2>2
      <3>2. chBus'[Len(chBus')] = chBus[Len(chBus') + 1]  BY <1>1, <1>2, <3>1
      <3>3. Len(chBus') + 1 = Len(chBus)  BY <1>2, <1>3
      <3> QED  BY <1>1, <2>2, <3>2, <3>3 DEF Landing
    <2> QED  BY <2>1, <2>2
  <1>7. ChTyped'
    <2>1. chGate'.subs \subseteq ChRefs /\ chGate'.todo \subseteq ChRefs  BY <1>5 DEF ChGate
    <2> QED  BY <1>1, <1>3, <1>5, <2>1 DEF ChInv, ChTyped, ChTypeOK
  <1>8. ChArmed'  BY <1>1 DEF ChInv, ChArmed
  <1>9. Config(chMe)' = Config(chMe) /\ Unreached(chMe)' = Unreached(chMe)  BY <1>1, ConfigKept
  <1>10. ASSUME ~chRun'.missed, ~chGate'.closed PROVE (ChReached /\ ChRead /\ ChLands)'
    <2>1. ChReached /\ ChRead /\ ChLands /\ Landing' = Landing  BY <1>1, <1>5, <1>6, <1>10, ChFollows
    <2>2. ChReached'  BY <1>1, <1>9, <2>1 DEF ChReached, Unpushed
    <2>3. ChRead'  BY <1>1, <1>9, <2>1 DEF ChRead, DueAt
    <2>4. ChLands'  BY <1>1, <1>9, <2>1 DEF ChLands, DueAt
    <2> QED  BY <2>2, <2>3, <2>4
  <1> QED  BY <1>7, <1>8, <1>10 DEF ChInv

\* The gate and the speaker's ring: a step that leaves the rest alone.
LEMMA ChGateStep ==
  ASSUME ChInv, chGate' \in ChGate, chRing' \in ChRing, chRun' \in ChRun,
         UNCHANGED <<chDef, chLoad, chZone, chMe, chBus>>,
         ~chRun'.missed /\ ~chGate'.closed => ~chRun.missed /\ ~chGate.closed /\ Landing' = Landing
  PROVE  ChInv'
  <1>1. ChTyped'
    <2>1. chGate'.subs \subseteq ChRefs /\ chGate'.todo \subseteq ChRefs  BY DEF ChGate
    <2>2. chRing'.len \in [ChRefs -> 0..ChHistory] /\ chRing'.saying \in ChRefs \cup {ChNone}
          BY DEF ChRing
    <2> QED  BY <2>1, <2>2 DEF ChInv, ChTyped, ChTypeOK
  <1>2. ChArmed'  BY DEF ChInv, ChArmed
  <1>3. Config(chMe)' = Config(chMe) /\ Unreached(chMe)' = Unreached(chMe)  BY ConfigKept
  <1>4. ASSUME ~chRun'.missed, ~chGate'.closed PROVE (ChReached /\ ChRead /\ ChLands)'
    <2>1. ChReached /\ ChRead /\ ChLands /\ Landing' = Landing  BY <1>4, ChFollows
    <2>2. ChReached'  BY <1>3, <2>1 DEF ChReached, Unpushed
    <2>3. ChRead'  BY <1>3, <2>1 DEF ChRead, DueAt
    <2>4. ChLands'  BY <1>3, <2>1 DEF ChLands, DueAt
    <2> QED  BY <2>2, <2>3, <2>4
  <1> QED  BY <1>1, <1>2, <1>4 DEF ChInv

LEMMA SubscribeStep ==
  ASSUME ChInv, NEW c \in ChRefs, NEW err \in BOOLEAN, subscribe(c, err) PROVE ChInv'
  <1>1. /\ c \in chGate.todo
        /\ chGate' = IF chGate.closed THEN [chGate EXCEPT !.todo = {}]
                     ELSE [chGate EXCEPT !.todo = @ \ {c}, !.subs = IF err THEN @ ELSE @ \cup {c}]
        /\ UNCHANGED <<chDef, chLoad, chZone, chMe, chBus, chRing>>
        BY DEF subscribe
  <1>2. chGate \in ChGate /\ chRing \in ChRing /\ chRun \in ChRun  BY DEF ChInv, ChTyped
  <1>3. chRun' \in ChRun /\ (~chRun'.missed => ~chRun.missed /\ ~err)
    <2> DEFINE n == IF err THEN chRun.faults + 1 ELSE chRun.faults
    <2>1. n \in Nat  BY <1>2 DEF ChRun
    <2>2. chRun' = [chRun EXCEPT !.faults = n, !.missed = chRun.missed \/ err]
          BY DEF subscribe
    <2> HIDE DEF n
    <2> QED  BY <1>2, <2>1, <2>2 DEF ChRun
  <1>4. CASE chGate.closed
    <2>1. chGate' \in ChGate /\ chGate'.closed  BY <1>1, <1>2, <1>4 DEF ChGate
    <2> QED  BY <1>1, <1>2, <1>3, <2>1, ChGateStep
  <1>5. CASE ~chGate.closed
    <2> DEFINE todo == chGate.todo \ {c}
               subs == IF err THEN chGate.subs ELSE chGate.subs \cup {c}
    <2>1. /\ todo \in SUBSET ChRefs /\ subs \in SUBSET ChRefs
          /\ ~err => subs \cup todo = chGate.subs \cup chGate.todo
          BY <1>1, <1>2 DEF ChGate
    <2>2. chGate' = [chGate EXCEPT !.todo = todo, !.subs = subs]  BY <1>1, <1>5
    <2> HIDE DEF todo, subs
    <2>3. /\ chGate' \in ChGate /\ chGate'.subs = subs /\ chGate'.todo = todo
          /\ chGate'.ignore = chGate.ignore /\ chGate'.closed = chGate.closed
          BY <1>2, <2>1, <2>2 DEF ChGate
    <2>4. ~err => Landing' = Landing  BY <1>1, <2>1, <2>3 DEF Landing
    <2> QED  BY <1>1, <1>2, <1>3, <1>5, <2>3, <2>4, ChGateStep
  <1> QED  BY <1>4, <1>5

LEMMA ChCloseStep == ASSUME ChInv, ChClose PROVE ChInv'
  <1>1. chGate \in ChGate /\ chRing \in ChRing /\ chRun \in ChRun  BY DEF ChInv, ChTyped
  <1>2. chGate' \in ChGate /\ chGate'.closed  BY <1>1 DEF ChClose, ChGate
  <1>3. chRun' \in ChRun  BY <1>1 DEF ChClose, Acted, ChRun
  <1> QED  BY <1>1, <1>2, <1>3, ChGateStep DEF ChClose

LEMMA CmdChannelStep == ASSUME ChInv, NEW c \in ChRefs, cmdChannel(c) PROVE ChInv'
  <1>1. chGate \in ChGate /\ chRing \in ChRing /\ chRun \in ChRun  BY DEF ChInv, ChTyped
  <1>2. chRing' \in ChRing  BY <1>1 DEF cmdChannel, ChRing
  <1>3. chRun' \in ChRun /\ chRun'.missed = chRun.missed  BY <1>1 DEF cmdChannel, Acted, ChRun
  <1>4. UNCHANGED <<chDef, chLoad, chZone, chMe, chBus, chGate>>  BY DEF cmdChannel
  <1> QED  BY <1>1, <1>2, <1>3, <1>4, LandingKept, ChGateStep

LEMMA AppendHistoryStep == ASSUME ChInv, appendHistory PROVE ChInv'
  <1>1. chGate \in ChGate /\ chRing \in ChRing /\ chRun \in ChRun  BY DEF ChInv, ChTyped
  <1> DEFINE c == chRing.saying
             len == [chRing.len EXCEPT ![c] = IF @ < ChHistory THEN @ + 1 ELSE @]
  <1>2. c \in ChRefs /\ chRing.len \in [ChRefs -> 0..ChHistory]
        BY <1>1 DEF appendHistory, ChRing
  <1>3. len \in [ChRefs -> 0..ChHistory]  BY <1>2, ChAssumption
  <1>4. chRing' = [saying |-> ChNone, len |-> len]  BY <1>2 DEF appendHistory
  <1> HIDE DEF len
  <1>5. chRing' \in ChRing  BY <1>3, <1>4 DEF ChRing
  <1>6. UNCHANGED <<chDef, chLoad, chZone, chMe, chBus, chGate, chRun>>  BY DEF appendHistory
  <1> QED  BY <1>1, <1>5, <1>6, LandingKept, ChGateStep

LEMMA ChNextStep == ChInv /\ [ChNext]_chVars => ChInv'
  <1> SUFFICES ASSUME ChInv, [ChNext]_chVars PROVE ChInv'  OBVIOUS
  <1>1. CASE \E c \in ChRefs, on \in BOOLEAN : cmdChannels(c, on)  BY <1>1, ChChannelsStep
  <1>2. CASE cmdIgnore \/ republishCommsOnAccessChange \/ ChFreeze
        BY <1>2, ChIgnoreStep, ChAccessStep, ChFreezeStep
  <1>3. CASE ChClose \/ applyConfig \/ appendHistory
        BY <1>3, ChCloseStep, ApplyConfigStep, AppendHistoryStep
  <1>4. CASE \E z \in ChZones \cup {ChNone} : transferIn(z)  BY <1>4, ChTransferStep
  <1>5. CASE \E c \in ChRefs, def \in {"open", "gated", "gone"} : reloadChannel(c, def)
        BY <1>5, ReloadChannelStep
  <1>6. CASE \E z \in ChZones, b \in BOOLEAN : republishCommsToZones(z, b) \/ retryRepublishComms(z, b)
        BY <1>6, RepublishStep, RetryRepublishStep
  <1>7. CASE \E z \in ChZones : takeRepublish(z) \/ republishAllComms(z) \/ pushRepublish(z)
        BY <1>7, TakeRepublishStep, RepublishAllStep, PushRepublishStep
  <1>8. CASE \E c \in ChRefs, err \in BOOLEAN : subscribe(c, err)  BY <1>8, SubscribeStep
  <1>9. CASE \E c \in ChRefs : cmdChannel(c)  BY <1>9, CmdChannelStep
  <1>10. CASE UNCHANGED chVars
    <2>1. UNCHANGED <<chDef, chLoad, chZone, chMe, chBus, chGate, chRing, chRun>>
          BY <1>10 DEF chVars
    <2>2. chGate \in ChGate /\ chRing \in ChRing /\ chRun \in ChRun  BY DEF ChInv, ChTyped
    <2> QED  BY <2>1, <2>2, LandingKept, ChGateStep
  <1> QED  BY <1>1, <1>2, <1>3, <1>4, <1>5, <1>6, <1>7, <1>8, <1>9, <1>10 DEF ChNext

\* When nothing is on its way the gate is where the player is.
LEMMA ChInvSafe == ChInv => ChannelsSafe
  <1> SUFFICES ASSUME ChInv PROVE ChannelsSafe  OBVIOUS
  <1>1. ASSUME Pushed, ~chGate.closed, ~chRun.missed PROVE InStep
    <2>1. /\ ~Unpushed /\ chBus = <<>> /\ chGate.todo = {}  BY <1>1 DEF Pushed
    <2>2. \A z \in ChZones : chZone[z].at = "idle" /\ ~DueAt(z)  BY <2>1 DEF Unpushed, DueAt
    <2>3. Landing = Config(chMe)  BY <1>1, <2>2, ChFollows DEF ChLands
    <2>4. Landing = [hear |-> chGate.subs, ignore |-> chGate.ignore]
      <3>1. chGate.subs \cup {} = chGate.subs  OBVIOUS
      <3> QED  BY <2>1, <3>1 DEF Landing
    <2> QED  BY <2>3, <2>4 DEF Config, InStep
  <1> QED  BY <1>1 DEF ChannelsSafe, HearSetFollows, ChInv, ChTyped

\* Whatever the channels, zones and edits: a gate that has applied what it was sent is subscribed
\* to what the player may hear and enabled.
THEOREM ChannelsAreSafe == ChSpec => []ChannelsSafe
  <1>1. ChSpec => []ChInv  BY ChTyping, ChNextStep, PTL DEF ChSpec
  <1> QED  BY <1>1, ChInvSafe, PTL

-----------------------------------------------------------------------------
(* Tells: while one counter numbers the author's tells, a number is one message, *)
(* the stream is in the order of the numbers, and the recipient's cursor is      *)
(* behind every message but the first.                                           *)

TlMsg == [id : Ids, seq : Ids]
TlCopy == [msg : TlMsg, live : BOOLEAN]
TlPubs == [seq : 0..TlSent, jobs : Seq(Ids)]
TlCons == [try : 0..TlMaxDeliver, at : {"idle", "wait", "ok", "retry"}]
TlMe == [at : {"zone", "transit", "gone"}, cursor : 0..TlSent, saved : 0..TlSent]
TlLog == [told : SUBSET Ids, shown : [Ids -> Nat], parked : SUBSET Ids,
          faults : Nat, crashed : BOOLEAN]
TlTyped ==
  /\ tlAuthor \in [at : TlShards, sent : 0..TlSent, moved : BOOLEAN]
  /\ tlPub \in [TlShards -> TlPubs] /\ tlKeys \subseteq Ids
  /\ tlStream \in Seq(TlMsg) /\ tlInbox \in Seq(TlCopy)
  /\ tlCons \in TlCons /\ tlMe \in TlMe /\ tlLog \in TlLog
\* A publisher has minted a number or holds a job for what was typed, no more; the saved
\* cursor is behind the cursor.
TlCounts ==
  /\ \A s \in TlShards : tlPub[s].seq + Len(tlPub[s].jobs) <= tlAuthor.sent
  /\ tlMe.saved <= tlMe.cursor

\* An attempt under way is one for the message at the head, and has one live copy at most.
TlWaits ==
  /\ tlCons.at # "idle" => tlStream # <<>>
  /\ \A k \in DOMAIN tlInbox : tlInbox[k].live => tlCons.at = "wait"
  /\ \A k, l \in DOMAIN tlInbox : tlInbox[k].live /\ tlInbox[l].live => k = l

TlMinted == tlPub[tlAuthor.at].seq
TlJobs == tlPub[tlAuthor.at].jobs
TlCarried == {tlStream[i] : i \in DOMAIN tlStream} \cup {tlInbox[i].msg : i \in DOMAIN tlInbox}
\* One publisher.
TlOneCounter ==
  /\ \A s \in TlShards : s # tlAuthor.at => tlPub[s].jobs = <<>>
  /\ tlKeys \subseteq 1..TlMinted
\* The order of the numbers.
TlOrder ==
  /\ \A m \in TlCarried : m.seq <= TlMinted
  /\ \A i, j \in DOMAIN tlStream : i < j => tlStream[i].seq < tlStream[j].seq
  /\ \A k \in DOMAIN tlInbox, j \in DOMAIN tlStream : tlInbox[k].msg.seq <= tlStream[j].seq
  /\ tlMe.cursor <= TlMinted
  /\ \A j \in DOMAIN tlStream : j > 1 => tlMe.cursor < tlStream[j].seq
\* A number is one tell, and what is not yet published is neither carried nor shown.
TlOneTell ==
  /\ \A m, n \in TlCarried : m.seq = n.seq <=> m.id = n.id
  /\ \A i, j \in DOMAIN TlJobs : TlJobs[i] = TlJobs[j] => i = j
  /\ \A i \in DOMAIN TlJobs : TlJobs[i] <= tlAuthor.sent
  /\ \A i \in Ids : i > tlAuthor.sent \/ (\E j \in DOMAIN TlJobs : TlJobs[j] = i) =>
       tlLog.shown[i] = 0 /\ \A m \in TlCarried : m.id # i
\* What the consumer knows of the message at the head.
TlHead ==
  /\ tlStream # <<>> /\ tlStream[1].seq <= tlMe.cursor => tlLog.shown[tlStream[1].id] > 0
  /\ tlCons.at = "ok" => tlLog.shown[tlStream[1].id] > 0
  /\ \A k \in DOMAIN tlInbox : tlInbox[k].live => tlInbox[k].msg = tlStream[1]
TlKept == \A i \in tlLog.told : i \in Waiting \cup tlLog.parked \/ tlLog.shown[i] > 0
TlOnce ==
  /\ \A m \in TlCarried : m.seq > tlMe.cursor => tlLog.shown[m.id] = 0
  /\ tlMe.at = "gone" => tlMe.saved = tlMe.cursor
  /\ \A i \in Ids : tlLog.shown[i] <= 1
TlFollows ==
  /\ TlOneCounter /\ TlOrder /\ TlOneTell /\ TlHead /\ TlKept
  /\ ~tlLog.crashed => TlOnce
TlInv == TlTyped /\ TlCounts /\ TlWaits /\ (~tlAuthor.moved => TlFollows)

LEMMA TlTypesHold == TlTyped => TlTypeOK
  <1> SUFFICES ASSUME TlTyped PROVE TlTypeOK  OBVIOUS
  <1>1. tlPub \in [TlShards -> [seq : 0..TlSent, jobs : Seq(Ids)]]  BY DEF TlTyped, TlPubs
  <1> QED  BY <1>1 DEF TlTyped, TlTypeOK, TlCons, TlMe, TlLog

LEMMA TlRecords ==
  ASSUME TlTyped
  PROVE  /\ tlAuthor \in [at : TlShards, sent : 0..TlSent, moved : BOOLEAN]
         /\ tlAuthor.at \in TlShards /\ tlAuthor.sent \in 0..TlSent /\ tlAuthor.sent \in Nat
         /\ tlPub \in [TlShards -> TlPubs] /\ tlKeys \subseteq Ids
         /\ \A s \in TlShards : /\ tlPub[s] \in TlPubs /\ tlPub[s].seq \in 0..TlSent
                                /\ tlPub[s].seq \in Nat /\ tlPub[s].jobs \in Seq(Ids)
                                /\ Len(tlPub[s].jobs) \in Nat
         /\ tlStream \in Seq(TlMsg) /\ tlInbox \in Seq(TlCopy)
         /\ tlCons \in TlCons /\ tlMe \in TlMe /\ tlLog \in TlLog
         /\ tlMe.cursor \in Nat /\ tlMe.saved \in Nat
  BY TlAssumption DEF TlTyped, TlPubs, TlMe

LEMMA TlCarriedTyped == ASSUME TlTyped PROVE TlCarried \subseteq TlMsg
  <1>1. \A i \in DOMAIN tlStream : tlStream[i] \in TlMsg  BY TlRecords
  <1>2. \A i \in DOMAIN tlInbox : tlInbox[i] \in TlCopy  BY TlRecords
  <1> QED  BY <1>1, <1>2 DEF TlCarried, TlCopy

LEMMA TlBlamed ==
  ASSUME TlTyped, NEW b \in BOOLEAN
  PROVE  /\ Blamed(b) \in TlLog /\ Blamed(b).told = tlLog.told /\ Blamed(b).shown = tlLog.shown
         /\ Blamed(b).parked = tlLog.parked /\ Blamed(b).crashed = tlLog.crashed
  <1> DEFINE n == IF b THEN tlLog.faults + 1 ELSE tlLog.faults
  <1>1. tlLog \in TlLog  BY TlRecords
  <1>2. n \in Nat  BY <1>1 DEF TlLog
  <1>3. Blamed(b) = [tlLog EXCEPT !.faults = n]  BY DEF Blamed
  <1> HIDE DEF n
  <1> QED  BY <1>1, <1>2, <1>3 DEF TlLog

LEMMA TlStart == TlInit => TlInv
  <1> SUFFICES ASSUME TlInit PROVE TlInv  OBVIOUS
  <1>0. 0 \in 0..TlSent /\ 0 \in 0..TlMaxDeliver  BY TlAssumption
  <1>1. tlAuthor \in [at : TlShards, sent : 0..TlSent, moved : BOOLEAN] /\ tlAuthor.sent = 0
        BY <1>0 DEF TlInit
  <1>2. /\ tlPub \in [TlShards -> TlPubs]
        /\ \A s \in TlShards : tlPub[s].seq = 0 /\ tlPub[s].jobs = <<>>
    <2>1. [seq |-> 0, jobs |-> <<>>] \in TlPubs  BY <1>0 DEF TlPubs
    <2> QED  BY <2>1 DEF TlInit
  <1>3. /\ tlMe \in TlMe /\ tlMe.cursor = 0 /\ tlMe.saved = 0  BY <1>0 DEF TlInit, TlMe
  <1>4. tlLog \in TlLog /\ tlLog.told = {} /\ \A i \in Ids : tlLog.shown[i] = 0
        BY DEF TlInit, TlLog
  <1>5. tlCons \in TlCons /\ tlCons.at = "idle"  BY <1>0 DEF TlInit, TlCons
  <1>6. tlStream = <<>> /\ tlInbox = <<>> /\ tlKeys = {}  BY DEF TlInit
  <1>7. tlStream \in Seq(TlMsg) /\ tlInbox \in Seq(TlCopy)  BY <1>6
  <1>8. TlTyped  BY <1>1, <1>2, <1>3, <1>4, <1>5, <1>6, <1>7 DEF TlTyped
  <1>9. TlCounts /\ TlWaits  BY <1>1, <1>2, <1>3, <1>5, <1>6 DEF TlCounts, TlWaits
  <1>10. TlCarried = {}  BY <1>6 DEF TlCarried
  <1>11. TlMinted = 0 /\ TlJobs = <<>>  BY <1>1, <1>2 DEF TlMinted, TlJobs
  <1>12. TlOneCounter /\ TlOrder  BY <1>2, <1>3, <1>6, <1>10, <1>11 DEF TlOneCounter, TlOrder
  <1>13. TlOneTell  BY <1>4, <1>10, <1>11 DEF TlOneTell
  <1>14. TlHead /\ TlKept /\ TlOnce  BY <1>3, <1>4, <1>5, <1>6, <1>10 DEF TlHead, TlKept, TlOnce
  <1> QED  BY <1>8, <1>9, <1>12, <1>13, <1>14 DEF TlInv, TlFollows

(* The author's side. *)
LEMMA SendTellStep == ASSUME TlInv, sendTell PROVE TlInv'
  <1> DEFINE s == tlAuthor.at
             i == tlAuthor.sent + 1
  <1>1. /\ i <= TlSent /\ tlAuthor' = [tlAuthor EXCEPT !.sent = i]
        /\ tlPub' = IF Len(tlPub[s].jobs) < TlQueue
                    THEN [tlPub EXCEPT ![s].jobs = Append(@, i)] ELSE tlPub
        /\ UNCHANGED <<tlStream, tlKeys, tlCons, tlInbox, tlMe, tlLog>>
        BY DEF sendTell
  <1>2. TlTyped  BY DEF TlInv
  <1>3. /\ i \in Ids /\ i \in 0..TlSent /\ s \in TlShards /\ tlAuthor'.at = s
        /\ tlAuthor'.moved = tlAuthor.moved /\ tlAuthor'.sent = i
        /\ tlAuthor' \in [at : TlShards, sent : 0..TlSent, moved : BOOLEAN]
    <2>1. i \in Ids /\ i \in 0..TlSent /\ s \in TlShards
      <3>1. tlAuthor.sent \in Nat /\ tlAuthor.at \in TlShards  BY <1>2, TlRecords
      <3> QED  BY <1>1, <3>1, TlAssumption DEF Ids
    <2>2. tlAuthor \in [at : TlShards, sent : 0..TlSent, moved : BOOLEAN]
          /\ tlAuthor' = [tlAuthor EXCEPT !.sent = i]
          BY <1>1, <1>2, TlRecords
    <2>3. s = tlAuthor.at  OBVIOUS
    <2> HIDE DEF i, s
    <2> QED  BY <2>1, <2>2, <2>3
  <1>4. \/ tlPub' = tlPub
        \/ /\ \A t \in TlShards \ {s} : tlPub'[t] = tlPub[t]
           /\ tlPub'[s] = [tlPub[s] EXCEPT !.jobs = Append(tlPub[s].jobs, i)]
           /\ DOMAIN tlPub' = TlShards
        BY <1>1, <1>2, <1>3, TlRecords
  <1>5. tlPub' \in [TlShards -> TlPubs]
    <2>1. Append(tlPub[s].jobs, i) \in Seq(Ids)  BY <1>2, <1>3, TlRecords
    <2>2. [tlPub[s] EXCEPT !.jobs = Append(tlPub[s].jobs, i)] \in TlPubs
          BY <1>2, <1>3, <2>1, TlRecords DEF TlPubs
    <2> QED  BY <1>1, <1>2, <2>2, TlRecords
  <1>6. /\ \A t \in TlShards : tlPub'[t].seq = tlPub[t].seq
        /\ \A t \in TlShards \ {s} : tlPub'[t].jobs = tlPub[t].jobs
        /\ tlPub'[s].jobs \in {tlPub[s].jobs, Append(tlPub[s].jobs, i)}
        BY <1>2, <1>3, <1>4, TlRecords DEF TlPubs
  <1> HIDE DEF s, i
  <1>7. i = tlAuthor.sent + 1 /\ s = tlAuthor.at  BY DEF s, i
  <1>8. TlTyped'  BY <1>1, <1>2, <1>3, <1>5 DEF TlTyped
  <1>9. TlCounts'
    <2>1. ASSUME NEW t \in TlShards
          PROVE  tlPub'[t].seq + Len(tlPub'[t].jobs) <= tlAuthor'.sent
      <3>1. tlPub[t].seq + Len(tlPub[t].jobs) <= tlAuthor.sent  BY DEF TlInv, TlCounts
      <3>2. tlPub[t].seq \in Nat /\ tlPub[t].jobs \in Seq(Ids) /\ tlAuthor.sent \in Nat
            BY <1>2, TlRecords
      <3>3. /\ Len(tlPub[t].jobs) \in Nat
            /\ \/ Len(tlPub'[t].jobs) = Len(tlPub[t].jobs)
               \/ Len(tlPub'[t].jobs) = Len(tlPub[t].jobs) + 1
        <4>1. CASE t = s  BY <1>3, <1>6, <3>2, <4>1
        <4>2. CASE t # s  BY <1>6, <3>2, <4>2
        <4> QED  BY <4>1, <4>2
      <3>4. tlPub'[t].seq = tlPub[t].seq /\ tlAuthor'.sent = tlAuthor.sent + 1
            BY <1>3, <1>6, <1>7
      <3>5. \A a, b, c \in Nat : a + b <= c => a + b <= c + 1 /\ a + (b + 1) <= c + 1
            OBVIOUS
      <3> QED  BY <3>1, <3>2, <3>3, <3>4, <3>5
    <2> QED  BY <1>1, <2>1 DEF TlInv, TlCounts
  <1>10. ASSUME ~tlAuthor'.moved PROVE TlFollows'
    <2>1. TlFollows  BY <1>3, <1>10 DEF TlInv
    <2>2. TlMinted' = TlMinted  BY <1>3, <1>6, <1>7 DEF TlMinted
    <2>3. TlCarried' = TlCarried  BY <1>1 DEF TlCarried
    <2>4. TlOneCounter'  BY <1>1, <1>3, <1>6, <1>7, <2>1, <2>2 DEF TlFollows, TlOneCounter
    <2>5. TlOrder'  BY <1>1, <2>1, <2>2, <2>3 DEF TlFollows, TlOrder
    <2>6. TlHead' /\ TlKept'  BY <1>1, <2>1 DEF TlFollows, TlHead, TlKept, Waiting
    <2>7. ~tlLog'.crashed => TlOnce'  BY <1>1, <2>1, <2>3 DEF TlFollows, TlOnce
    <2>8. TlOneTell'
      <3> DEFINE jobs == tlPub[s].jobs
                 jobs2 == tlPub'[s].jobs
      <3>1. TlJobs = jobs /\ TlJobs' = jobs2  BY <1>3, <1>7 DEF TlJobs
      <3>2. /\ jobs \in Seq(Ids) /\ (jobs2 = jobs \/ jobs2 = Append(jobs, i))
            /\ tlAuthor.sent \in Nat
            BY <1>2, <1>3, <1>6, TlRecords
      <3>3. /\ \A k, l \in DOMAIN jobs : jobs[k] = jobs[l] => k = l
            /\ \A k \in DOMAIN jobs : jobs[k] <= tlAuthor.sent
            /\ \A j \in Ids : j > tlAuthor.sent \/ (\E k \in DOMAIN jobs : jobs[k] = j) =>
                 tlLog.shown[j] = 0 /\ \A m \in TlCarried : m.id # j
            /\ \A m, n \in TlCarried : m.seq = n.seq <=> m.id = n.id
            BY <2>1, <3>1 DEF TlFollows, TlOneTell
      <3> HIDE DEF jobs, jobs2
      <3>a. /\ DOMAIN jobs = 1..Len(jobs) /\ Len(jobs) \in Nat
            /\ \A k \in 1..Len(jobs) : jobs[k] \in Ids
            BY <3>2
      <3>b. \A k \in DOMAIN jobs : jobs[k] \in Nat /\ jobs[k] \in Ids /\ k # Len(jobs) + 1
        <4>1. \A j \in Ids : j \in Nat  BY DEF Ids
        <4>2. \A k \in 1..Len(jobs) : k # Len(jobs) + 1  BY <3>a
        <4> QED  BY <3>a, <4>1, <4>2
      <3>4. ASSUME NEW k \in DOMAIN jobs2
            PROVE  \/ k \in DOMAIN jobs /\ jobs2[k] = jobs[k]
                   \/ k = Len(jobs) + 1 /\ jobs2[k] = i
        <4>1. CASE jobs2 = jobs  BY <3>4, <4>1
        <4>2. CASE jobs2 = Append(jobs, i)
          <5>1. Len(jobs2) = Len(jobs) + 1 /\ DOMAIN jobs2 = 1..(Len(jobs) + 1)
                BY <1>3, <3>2, <4>2
          <5>2. CASE k = Len(jobs) + 1  BY <1>3, <3>2, <4>2, <5>2
          <5>3. CASE k # Len(jobs) + 1
            <6>1. k \in 1..Len(jobs)  BY <3>a, <3>4, <5>1, <5>3
            <6> QED  BY <1>3, <3>2, <3>a, <4>2, <6>1
          <5> QED  BY <5>2, <5>3
        <4> QED  BY <3>2, <4>1, <4>2
      <3>5. /\ \A k, l \in DOMAIN jobs2 : jobs2[k] = jobs2[l] => k = l
            /\ \A k \in DOMAIN jobs2 : jobs2[k] <= i
        <4>1. \A k \in DOMAIN jobs : jobs[k] # i /\ jobs[k] <= i  BY <1>7, <3>2, <3>3, <3>b
        <4>2. i <= i  BY <1>7, <3>2
        <4> QED  BY <3>3, <3>4, <4>1, <4>2
      <3>6. ASSUME NEW j \in Ids, j > i \/ \E k \in DOMAIN jobs2 : jobs2[k] = j
            PROVE  tlLog.shown[j] = 0 /\ \A m \in TlCarried : m.id # j
        <4>1. j > tlAuthor.sent \/ \E k \in DOMAIN jobs : jobs[k] = j
          <5>1. i > tlAuthor.sent  BY <1>7, <3>2
          <5>2. CASE j > i  BY <1>7, <3>2, <5>2 DEF Ids
          <5>3. CASE \E k \in DOMAIN jobs2 : jobs2[k] = j  BY <1>7, <3>4, <5>1, <5>3
          <5> QED  BY <3>6, <5>2, <5>3
        <4> QED  BY <3>3, <4>1
      <3> QED  BY <1>1, <1>3, <2>3, <3>1, <3>3, <3>5, <3>6 DEF TlOneTell
    <2> QED  BY <2>4, <2>5, <2>6, <2>7, <2>8 DEF TlFollows
  <1>11. TlWaits'  BY <1>1 DEF TlInv, TlWaits
  <1> QED  BY <1>8, <1>9, <1>10, <1>11 DEF TlInv

\* Publishing takes the job at the head of the only queue under a number never used before.
LEMMA PublishOneStep ==
  ASSUME TlInv, NEW s \in TlShards, NEW stored \in BOOLEAN, NEW err \in BOOLEAN,
         stored \/ err, publishOne(s, stored, err)
  PROVE  TlInv'
  <1> DEFINE i == Head(tlPub[s].jobs)
             seq == tlPub[s].seq + 1
             jobs == tlPub[s].jobs
             told == IF err THEN tlLog.told ELSE tlLog.told \cup {i}
             m == [id |-> i, seq |-> seq]
  <1>1. /\ jobs # <<>> /\ tlPub' = [tlPub EXCEPT ![s] = [seq |-> seq, jobs |-> Tail(jobs)]]
        /\ tlLog' = [Blamed(err) EXCEPT !.told = told]
        /\ \/ /\ stored /\ tlKeys' = tlKeys \cup {seq}
              /\ tlStream' = IF seq \in tlKeys THEN tlStream ELSE Append(tlStream, m)
           \/ ~stored /\ UNCHANGED <<tlStream, tlKeys>>
        /\ UNCHANGED <<tlAuthor, tlCons, tlInbox, tlMe>>
    <2>1. TlTyped  BY DEF TlInv
    <2>2. Blamed(err).told = tlLog.told /\ tlPub[s].jobs = jobs /\ tlPub \in [TlShards -> TlPubs]
          BY <2>1, TlBlamed, TlRecords
    <2>3. tlPub' = [tlPub EXCEPT ![s] = [seq |-> seq, jobs |-> Tail(jobs)]]
          BY <2>2 DEF publishOne
    <2>4. tlLog' = [Blamed(err) EXCEPT !.told = told]
          BY <2>2 DEF publishOne
    <2> QED  BY <2>3, <2>4 DEF publishOne, PublishDurable
  <1>2. TlTyped /\ tlPub[s].seq + Len(jobs) <= tlAuthor.sent  BY DEF TlInv, TlCounts
  <1>3. /\ jobs \in Seq(Ids) /\ tlPub[s].seq \in Nat /\ tlAuthor.sent \in Nat
        /\ tlAuthor.sent <= TlSent /\ tlPub \in [TlShards -> TlPubs]
        BY <1>2, TlRecords, TlAssumption
  <1>4. /\ i \in Ids /\ Tail(jobs) \in Seq(Ids) /\ Len(Tail(jobs)) = Len(jobs) - 1
        /\ Len(jobs) \in Nat /\ Len(jobs) >= 1 /\ i = jobs[1]
        BY <1>1, <1>3
  <1>5. seq \in Ids /\ seq \in 0..TlSent /\ seq = tlPub[s].seq + 1 /\ seq \in Nat
    <2>1. seq = tlPub[s].seq + 1 /\ seq \in Nat  BY <1>3
    <2>2. seq <= tlAuthor.sent
      <3> HIDE DEF seq
      <3> QED  BY <1>2, <1>3, <1>4, <2>1
    <2>3. 1 <= seq /\ seq <= TlSent
      <3> HIDE DEF seq
      <3> QED  BY <1>3, <2>1, <2>2, TlAssumption
    <2> HIDE DEF seq
    <2> QED  BY <2>1, <2>3, TlAssumption DEF Ids
  <1>6. m \in TlMsg /\ m.id = i /\ m.seq = seq  BY <1>4, <1>5 DEF TlMsg
  <1>7. [seq |-> seq, jobs |-> Tail(jobs)] \in TlPubs  BY <1>4, <1>5 DEF TlPubs
  <1>8. /\ tlPub' \in [TlShards -> TlPubs] /\ tlPub'[s].seq = seq /\ tlPub'[s].jobs = Tail(jobs)
        /\ \A t \in TlShards \ {s} : tlPub'[t] = tlPub[t]
        BY <1>1, <1>3, <1>7
  <1>9. /\ told \in SUBSET Ids /\ tlLog.told \subseteq told
        /\ told \subseteq tlLog.told \cup {i} /\ (~stored => told = tlLog.told)
    <2>1. tlLog.told \in SUBSET Ids  BY <1>2, TlRecords DEF TlLog
    <2> QED  BY <1>4, <2>1
  <1> HIDE DEF told, m, i, seq, jobs
  <1>10. /\ tlLog' \in TlLog /\ tlLog'.told = told /\ tlLog'.shown = tlLog.shown
         /\ tlLog'.parked = tlLog.parked /\ tlLog'.crashed = tlLog.crashed
         BY <1>1, <1>2, <1>9, TlBlamed DEF TlLog
  <1>11. tlStream \in Seq(TlMsg) /\ tlKeys \subseteq Ids  BY <1>2, TlRecords
  <1>12. TlTyped'
    <2>1. tlStream' \in Seq(TlMsg)  BY <1>1, <1>6, <1>11
    <2>2. tlKeys' \subseteq Ids  BY <1>1, <1>5, <1>11
    <2> QED  BY <1>1, <1>2, <1>8, <1>10, <2>1, <2>2 DEF TlTyped
  <1>13. TlCounts'
    <2>1. ASSUME NEW t \in TlShards
          PROVE  tlPub'[t].seq + Len(tlPub'[t].jobs) <= tlAuthor'.sent
      <3>1. CASE t = s
        <4>1. \A a, b, c \in Nat : b >= 1 /\ a + b <= c => (a + 1) + (b - 1) <= c  OBVIOUS
        <4>2. seq + Len(Tail(jobs)) <= tlAuthor.sent  BY <1>2, <1>3, <1>4, <1>5, <4>1
        <4> QED  BY <1>1, <1>8, <3>1, <4>2
      <3>2. CASE t # s  BY <1>1, <1>8, <3>2 DEF TlInv, TlCounts
      <3> QED  BY <3>1, <3>2
    <2> QED  BY <1>1, <2>1 DEF TlInv, TlCounts
  <1>14. ASSUME ~tlAuthor'.moved PROVE TlFollows'
    <2>1. TlFollows  BY <1>1, <1>14 DEF TlInv
    <2>2. s = tlAuthor.at /\ jobs = tlPub[s].jobs
          BY <1>1, <2>1 DEF TlFollows, TlOneCounter, jobs
    <2>3. TlMinted' = seq /\ TlMinted = tlPub[s].seq /\ TlJobs = jobs /\ TlJobs' = Tail(jobs)
          BY <1>1, <1>8, <2>2 DEF TlMinted, TlJobs
    <2>4. seq \notin tlKeys
          BY <1>3, <1>5, <2>1, <2>3 DEF TlFollows, TlOneCounter
    <2>5. \/ tlStream' = Append(tlStream, m)
          \/ tlStream' = tlStream /\ told = tlLog.told
          BY <1>1, <1>9, <2>4
    <2>6. \A i1 \in DOMAIN tlStream' :
            \/ i1 \in DOMAIN tlStream /\ tlStream'[i1] = tlStream[i1]
            \/ i1 = Len(tlStream) + 1 /\ tlStream'[i1] = m
      <3>1. CASE tlStream' = tlStream  BY <3>1
      <3>2. CASE tlStream' = Append(tlStream, m)  BY <1>6, <1>11, <3>2
      <3> QED  BY <2>5, <3>1, <3>2
    <2>7. /\ DOMAIN tlStream \subseteq DOMAIN tlStream' /\ \A j \in DOMAIN tlStream : tlStream'[j] = tlStream[j]
          /\ DOMAIN tlStream \subseteq Nat /\ \A j \in DOMAIN tlStream : j <= Len(tlStream)
          /\ Len(tlStream) \in Nat
      <3>1. DOMAIN tlStream = 1..Len(tlStream) /\ Len(tlStream) \in Nat  BY <1>11
      <3>2. CASE tlStream' = tlStream  BY <3>1, <3>2
      <3>3. CASE tlStream' = Append(tlStream, m)  BY <1>6, <1>11, <3>1, <3>3
      <3> QED  BY <2>5, <3>1, <3>2, <3>3
    <2>8. TlCarried' \subseteq TlCarried \cup {m} /\ TlCarried \subseteq TlMsg
          BY <1>1, <1>2, <2>6, TlCarriedTyped DEF TlCarried
    <2>9. \A n \in TlCarried : n.seq \in Nat /\ n.seq < seq /\ n.id # i
      <3>1. \A n \in TlCarried : n.seq \in Nat /\ n.seq <= TlMinted
            BY <2>1, <2>8 DEF TlFollows, TlOrder, TlMsg, Ids
      <3>2. 1 \in DOMAIN jobs /\ jobs[1] = i  BY <1>1, <1>3, <1>4 DEF jobs
      <3>3. \A n \in TlCarried : n.id # i
            BY <1>4, <2>1, <2>3, <3>2 DEF TlFollows, TlOneTell
      <3> QED  BY <1>3, <1>5, <2>3, <3>1, <3>3
    <2>10. TlOneCounter'
      <3>1. tlKeys' \subseteq tlKeys \cup {seq}  BY <1>1
      <3>2. \A x \in 1..tlPub[s].seq : x \in 1..seq  BY <1>3, <1>5
      <3>3. seq \in 1..seq  BY <1>5 DEF Ids
      <3>4. tlKeys' \subseteq 1..seq
            BY <2>1, <2>3, <3>1, <3>2, <3>3 DEF TlFollows, TlOneCounter
      <3>5. \A t \in TlShards : t # tlAuthor'.at => tlPub'[t].jobs = <<>>
            BY <1>1, <1>8, <2>1, <2>2 DEF TlFollows, TlOneCounter
      <3> QED  BY <2>3, <3>4, <3>5 DEF TlOneCounter
    <2>11. TlOrder'
      <3>1. /\ \A j, k \in DOMAIN tlStream : j < k => tlStream[j].seq < tlStream[k].seq
            /\ \A k \in DOMAIN tlInbox, j \in DOMAIN tlStream : tlInbox[k].msg.seq <= tlStream[j].seq
            /\ tlMe.cursor <= TlMinted
            /\ \A j \in DOMAIN tlStream : j > 1 => tlMe.cursor < tlStream[j].seq
            BY <2>1 DEF TlFollows, TlOrder
      <3>2. /\ \A j \in DOMAIN tlStream : tlStream[j] \in TlCarried
            /\ \A k \in DOMAIN tlInbox : tlInbox[k].msg \in TlCarried
            BY DEF TlCarried
      <3>3. \A n \in TlCarried' : n.seq <= seq  BY <1>5, <1>6, <2>8, <2>9
      <3>4. tlMe.cursor \in Nat /\ tlMe.cursor < seq
            BY <1>2, <1>3, <1>5, <2>3, <3>1, TlRecords
      <3>5. ASSUME NEW j \in DOMAIN tlStream', NEW k \in DOMAIN tlStream', j < k
            PROVE  tlStream'[j].seq < tlStream'[k].seq
        <4>1. CASE k \in DOMAIN tlStream /\ tlStream'[k] = tlStream[k]
          <5>1. j \in DOMAIN tlStream /\ tlStream'[j] = tlStream[j]
                BY <2>6, <2>7, <3>5, <4>1
          <5> QED  BY <3>1, <3>5, <4>1, <5>1
        <4>2. CASE k = Len(tlStream) + 1 /\ tlStream'[k] = m
          <5>1. j \in DOMAIN tlStream /\ tlStream'[j] = tlStream[j]
                BY <2>6, <2>7, <3>5, <4>2
          <5> QED  BY <1>6, <2>9, <3>2, <4>2, <5>1
        <4> QED  BY <2>6, <4>1, <4>2
      <3>6. ASSUME NEW k \in DOMAIN tlInbox', NEW j \in DOMAIN tlStream'
            PROVE  tlInbox'[k].msg.seq <= tlStream'[j].seq
        <4>1. CASE j \in DOMAIN tlStream /\ tlStream'[j] = tlStream[j]
              BY <1>1, <3>1, <3>6, <4>1
        <4>2. CASE tlStream'[j] = m
          <5>1. tlInbox[k].msg.seq < seq /\ tlInbox[k].msg.seq \in Nat /\ tlInbox' = tlInbox
                BY <1>1, <2>9, <3>2, <3>6
          <5> QED  BY <1>5, <1>6, <4>2, <5>1
        <4> QED  BY <2>6, <4>1, <4>2
      <3>7. ASSUME NEW j \in DOMAIN tlStream', j > 1 PROVE tlMe'.cursor < tlStream'[j].seq
        <4>1. CASE j \in DOMAIN tlStream /\ tlStream'[j] = tlStream[j]
              BY <1>1, <3>1, <3>7, <4>1
        <4>2. CASE tlStream'[j] = m  BY <1>1, <1>6, <3>4, <4>2
        <4> QED  BY <2>6, <4>1, <4>2
      <3> QED  BY <1>1, <1>5, <2>3, <3>3, <3>4, <3>5, <3>6, <3>7 DEF TlOrder
    <2>12. TlOneTell'
      <3>1. /\ \A n, o \in TlCarried : n.seq = o.seq <=> n.id = o.id
            /\ \A j, k \in DOMAIN jobs : jobs[j] = jobs[k] => j = k
            /\ \A j \in DOMAIN jobs : jobs[j] <= tlAuthor.sent
            /\ \A x \in Ids : x > tlAuthor.sent \/ (\E j \in DOMAIN jobs : jobs[j] = x) =>
                 tlLog.shown[x] = 0 /\ \A n \in TlCarried : n.id # x
            BY <2>1, <2>3 DEF TlFollows, TlOneTell
      <3>2. \A n, o \in TlCarried' : n.seq = o.seq <=> n.id = o.id
        <4>1. \A n \in TlCarried : n.seq # m.seq /\ n.id # m.id  BY <1>5, <1>6, <2>9
        <4> QED  BY <2>8, <3>1, <4>1
      <3>3. \A j \in DOMAIN Tail(jobs) : /\ j \in Nat /\ j + 1 \in DOMAIN jobs
                                         /\ Tail(jobs)[j] = jobs[j + 1] /\ j + 1 # 1
            BY <1>3, <1>4
      <3>4. 1 \in DOMAIN jobs  BY <1>3, <1>4
      <3>5. \A j, k \in DOMAIN Tail(jobs) : Tail(jobs)[j] = Tail(jobs)[k] => j = k
        <4>1. \A j, k \in Nat : j + 1 = k + 1 => j = k  OBVIOUS
        <4> QED  BY <3>1, <3>3, <4>1
      <3>6. \A j \in DOMAIN Tail(jobs) : Tail(jobs)[j] <= tlAuthor.sent /\ Tail(jobs)[j] # i
            BY <1>4, <3>1, <3>3, <3>4
      <3>7. ASSUME NEW x \in Ids, x > tlAuthor.sent \/ \E j \in DOMAIN Tail(jobs) : Tail(jobs)[j] = x
            PROVE  tlLog.shown[x] = 0 /\ \A n \in TlCarried' : n.id # x
        <4>1. x > tlAuthor.sent \/ \E j \in DOMAIN jobs : jobs[j] = x  BY <3>3, <3>7
        <4>2. x # i
          <5>1. i <= tlAuthor.sent /\ i \in Nat  BY <1>4, <3>1, <3>4 DEF Ids
          <5> QED  BY <1>3, <3>6, <3>7, <5>1 DEF Ids
        <4> QED  BY <1>6, <2>8, <3>1, <4>1, <4>2
      <3> QED  BY <1>1, <1>10, <2>3, <3>2, <3>5, <3>6, <3>7 DEF TlOneTell
    <2>13. TlHead'
      <3>1. tlStream # <<>> => tlStream' # <<>> /\ tlStream'[1] = tlStream[1]
        <4>1. tlStream # <<>> => 1 \in DOMAIN tlStream  BY <1>11
        <4> QED  BY <2>7, <4>1
      <3>2. tlStream = <<>> /\ tlStream' # <<>> => tlStream'[1].seq > tlMe.cursor
        <4>1. SUFFICES ASSUME tlStream = <<>>, tlStream' # <<>> PROVE tlStream'[1].seq > tlMe.cursor
              OBVIOUS
        <4>2. tlStream' = <<m>>  BY <2>5, <4>1
        <4>3. tlMe.cursor <= TlMinted /\ tlMe.cursor \in Nat
              BY <1>2, <2>1, TlRecords DEF TlFollows, TlOrder
        <4> QED  BY <1>3, <1>5, <1>6, <2>3, <4>2, <4>3
      <3>3. TlHead  BY <2>1 DEF TlFollows
      <3>4. tlMe.cursor \in Nat  BY <1>2, TlRecords
      <3>5. tlStream' # <<>> /\ tlStream'[1].seq <= tlMe'.cursor => tlLog'.shown[tlStream'[1].id] > 0
        <4>1. CASE tlStream = <<>>
          <5>1. tlStream' # <<>> => tlStream'[1] = m  BY <2>5, <4>1
          <5> QED  BY <1>1, <1>5, <1>6, <3>2, <3>4, <4>1, <5>1
        <4>2. CASE tlStream # <<>>  BY <1>1, <1>10, <3>1, <3>3, <4>2 DEF TlHead
        <4> QED  BY <4>1, <4>2
      <3>6. /\ tlCons.at # "idle" => tlStream # <<>>
            /\ \A k \in DOMAIN tlInbox : tlInbox[k].live => tlStream # <<>>
            BY DEF TlInv, TlWaits
      <3> QED  BY <1>1, <1>10, <3>1, <3>3, <3>5, <3>6 DEF TlHead
    <2>14. TlKept'
      <3>1. Waiting \subseteq Waiting'  BY <2>7 DEF Waiting
      <3>2. tlStream' = Append(tlStream, m) => i \in Waiting'
        <4>1. ASSUME tlStream' = Append(tlStream, m)
              PROVE  Len(tlStream) + 1 \in DOMAIN tlStream' /\ tlStream'[Len(tlStream) + 1] = m
              BY <1>6, <1>11, <4>1
        <4> QED  BY <1>6, <4>1 DEF Waiting
      <3>3. \A x \in told : x \in tlLog.told \/ x \in Waiting'  BY <1>9, <2>5, <3>2
      <3> QED  BY <1>10, <2>1, <3>1, <3>3 DEF TlFollows, TlKept
    <2>15. ~tlLog'.crashed => TlOnce'
      <3>1. SUFFICES ASSUME ~tlLog.crashed PROVE TlOnce'  BY <1>10
      <3>2. TlOnce  BY <2>1, <3>1 DEF TlFollows
      <3>3. tlLog.shown[i] = 0
        <4>1. 1 \in DOMAIN jobs /\ jobs[1] = i  BY <1>1, <1>3, <1>4
        <4> QED  BY <1>4, <2>1, <2>3, <4>1 DEF TlFollows, TlOneTell
      <3> QED  BY <1>1, <1>6, <1>10, <2>8, <3>2, <3>3 DEF TlOnce
    <2> QED  BY <2>10, <2>11, <2>12, <2>13, <2>14, <2>15 DEF TlFollows
  <1>15. TlWaits'
    <2>1. tlStream # <<>> => tlStream' # <<>>  BY <1>1, <1>6, <1>11
    <2> QED  BY <1>1, <2>1 DEF TlInv, TlWaits
  <1> QED  BY <1>12, <1>13, <1>14, <1>15 DEF TlInv

LEMMA DedupWindowStep == ASSUME TlInv, DedupWindowPasses PROVE TlInv'
  <1>1. tlKeys' = {} /\ UNCHANGED <<tlAuthor, tlPub, tlStream, tlCons, tlInbox, tlMe, tlLog>>
        BY DEF DedupWindowPasses
  <1>2. TlTyped' /\ TlCounts' /\ TlWaits'  BY <1>1 DEF TlInv, TlTyped, TlCounts, TlWaits
  <1>3. ASSUME ~tlAuthor'.moved PROVE TlFollows'
    <2>1. TlFollows  BY <1>1, <1>3 DEF TlInv
    <2>2. TlMinted' = TlMinted /\ TlJobs' = TlJobs /\ TlCarried' = TlCarried
          BY <1>1 DEF TlMinted, TlJobs, TlCarried
    <2>3. TlOneCounter' /\ TlOrder' /\ TlOneTell'
          BY <1>1, <2>1, <2>2 DEF TlFollows, TlOneCounter, TlOrder, TlOneTell
    <2>4. TlHead' /\ TlKept' /\ (~tlLog'.crashed => TlOnce')
          BY <1>1, <2>1, <2>2 DEF TlFollows, TlHead, TlKept, TlOnce, Waiting
    <2> QED  BY <2>3, <2>4 DEF TlFollows
  <1> QED  BY <1>2, <1>3 DEF TlInv

\* From here on another counter has been used.
LEMMA NewCommSourceStep ==
  ASSUME TlInv, NEW s \in TlShards, newCommSource(s) PROVE TlInv'
  <1>1. /\ tlLog' = Blamed(TRUE) /\ tlAuthor' = [tlAuthor EXCEPT !.at = s, !.moved = TRUE]
        /\ tlPub' = IF s = tlAuthor.at THEN [tlPub EXCEPT ![s] = [seq |-> 0, jobs |-> <<>>]] ELSE tlPub
        /\ UNCHANGED <<tlStream, tlKeys, tlCons, tlInbox, tlMe>>
        BY DEF newCommSource
  <1>2. TlTyped  BY DEF TlInv
  <1>3. tlLog' \in TlLog  BY <1>1, <1>2, TlBlamed
  <1>4. /\ tlAuthor' \in [at : TlShards, sent : 0..TlSent, moved : BOOLEAN]
        /\ tlAuthor'.moved /\ tlAuthor'.sent = tlAuthor.sent
        BY <1>1, <1>2, TlRecords
  <1>5. [seq |-> 0, jobs |-> <<>>] \in TlPubs
    <2>1. 0 \in 0..TlSent /\ <<>> \in Seq(Ids)  BY TlAssumption
    <2> QED  BY <2>1 DEF TlPubs
  <1>6. tlPub' \in [TlShards -> TlPubs]  BY <1>1, <1>2, <1>5, TlRecords
  <1>7. TlTyped'  BY <1>1, <1>2, <1>3, <1>4, <1>6 DEF TlTyped
  <1>8. ASSUME NEW t \in TlShards
        PROVE  tlPub'[t].seq + Len(tlPub'[t].jobs) <= tlAuthor'.sent
    <2>1. tlPub[t].seq + Len(tlPub[t].jobs) <= tlAuthor.sent  BY DEF TlInv, TlCounts
    <2>2. CASE tlPub'[t] = tlPub[t]  BY <1>4, <2>1, <2>2
    <2>3. CASE tlPub'[t] = [seq |-> 0, jobs |-> <<>>]
      <3>1. 0 + Len(<<>>) = 0 /\ tlAuthor.sent \in Nat  BY <1>2, TlRecords
      <3>2. tlPub'[t].seq = 0 /\ tlPub'[t].jobs = <<>>  BY <2>3
      <3> QED  BY <1>4, <3>1, <3>2
    <2> QED  BY <1>1, <1>2, <2>2, <2>3, TlRecords
  <1>9. TlCounts'  BY <1>1, <1>8 DEF TlInv, TlCounts
  <1>10. TlWaits'  BY <1>1 DEF TlInv, TlWaits
  <1> QED  BY <1>4, <1>7, <1>9, <1>10 DEF TlInv

(* The consumer's side and the recipient's leave the author's alone. *)
LEMMA TlReader ==
  ASSUME TlInv, TlTyped', TlWaits', UNCHANGED <<tlAuthor, tlPub, tlKeys>>,
         tlMe'.saved <= tlMe'.cursor, TlCarried' \subseteq TlCarried,
         ~tlAuthor.moved => /\ TlOrder' /\ TlHead' /\ TlKept' /\ (~tlLog'.crashed => TlOnce')
                            /\ \A i \in Ids : tlLog'.shown[i] = tlLog.shown[i]
                                  \/ \E m \in TlCarried : m.id = i
  PROVE  TlInv'
  <1>1. TlCounts'  BY DEF TlInv, TlCounts
  <1>2. ASSUME ~tlAuthor'.moved PROVE TlFollows'
    <2>1. TlFollows  BY <1>2 DEF TlInv
    <2>2. TlMinted' = TlMinted /\ TlJobs' = TlJobs  BY DEF TlMinted, TlJobs
    <2>3. TlOneCounter'  BY <2>1, <2>2 DEF TlFollows, TlOneCounter
    <2>4. TlOneTell'
      <3>1. /\ \A m, n \in TlCarried : m.seq = n.seq <=> m.id = n.id
            /\ \A i \in Ids : i > tlAuthor.sent \/ (\E j \in DOMAIN TlJobs : TlJobs[j] = i) =>
                 tlLog.shown[i] = 0 /\ \A m \in TlCarried : m.id # i
            BY <2>1 DEF TlFollows, TlOneTell
      <3>2. ASSUME NEW i \in Ids, i > tlAuthor.sent \/ \E j \in DOMAIN TlJobs : TlJobs[j] = i
            PROVE  tlLog'.shown[i] = 0 /\ \A m \in TlCarried' : m.id # i
            BY <1>2, <3>1, <3>2
      <3> QED  BY <2>1, <2>2, <3>1, <3>2 DEF TlFollows, TlOneTell
    <2> QED  BY <1>2, <2>3, <2>4 DEF TlFollows
  <1> QED  BY <1>1, <1>2 DEF TlInv

LEMMA RouteTellStep == ASSUME TlInv, routeTellDeliver PROVE TlInv'
  <1> DEFINE c == [msg |-> Head(tlStream), live |-> TRUE]
  <1>1. /\ tlStream # <<>> /\ tlCons.at = "idle" /\ tlCons.try < TlMaxDeliver
        /\ tlCons' = [try |-> tlCons.try + 1, at |-> "wait"]
        /\ tlInbox' = Append(tlInbox, c)
        /\ UNCHANGED <<tlAuthor, tlPub, tlStream, tlKeys, tlMe, tlLog>>
        BY DEF routeTellDeliver
  <1>2. TlTyped  BY DEF TlInv
  <1>3. /\ tlStream \in Seq(TlMsg) /\ tlInbox \in Seq(TlCopy) /\ tlCons \in TlCons
        BY <1>2, TlRecords
  <1>4. /\ tlStream[1] = Head(tlStream) /\ 1 \in DOMAIN tlStream /\ Head(tlStream) \in TlMsg
        /\ c \in TlCopy /\ c.msg = tlStream[1]
        BY <1>1, <1>3 DEF TlCopy
  <1>5. tlCons' \in TlCons /\ tlCons'.at = "wait"  BY <1>1, <1>3, TlAssumption DEF TlCons
  <1> HIDE DEF c
  <1>6. TlTyped'
    <2>1. tlInbox' \in Seq(TlCopy)  BY <1>1, <1>3, <1>4
    <2> QED  BY <1>1, <1>2, <1>5, <2>1 DEF TlTyped
  <1>7. \A k \in DOMAIN tlInbox' : \/ k \in DOMAIN tlInbox /\ tlInbox'[k] = tlInbox[k]
                                   \/ k = Len(tlInbox) + 1 /\ tlInbox'[k] = c
        BY <1>1, <1>3, <1>4
  <1>8. TlCarried' \subseteq TlCarried
    <2>1. \A k \in DOMAIN tlInbox' : tlInbox'[k].msg \in TlCarried
          BY <1>4, <1>7 DEF TlCarried
    <2> QED  BY <1>1, <2>1 DEF TlCarried
  <1>9. ASSUME ~tlAuthor.moved
        PROVE  TlOrder' /\ TlHead' /\ TlKept' /\ (~tlLog'.crashed => TlOnce')
    <2>1. TlFollows  BY <1>9 DEF TlInv
    <2>2. TlMinted' = TlMinted  BY <1>1 DEF TlMinted
    <2>3. TlOrder'
      <3>1. ASSUME NEW k \in DOMAIN tlInbox', NEW j \in DOMAIN tlStream
            PROVE  tlInbox'[k].msg.seq <= tlStream[j].seq
        <4>1. CASE k \in DOMAIN tlInbox /\ tlInbox'[k] = tlInbox[k]
              BY <2>1, <4>1 DEF TlFollows, TlOrder
        <4>2. CASE tlInbox'[k] = c
          <5>1. \A x, y \in DOMAIN tlStream : x < y => tlStream[x].seq < tlStream[y].seq
                BY <2>1 DEF TlFollows, TlOrder
          <5>2. tlStream[1] \in TlMsg /\ tlStream[j] \in TlMsg /\ j \in Nat /\ (j = 1 \/ 1 < j)
                BY <1>3, <1>4
          <5>3. tlStream[1].seq \in Nat /\ tlStream[j].seq \in Nat  BY <5>2 DEF TlMsg, Ids
          <5>4. tlStream[1].seq <= tlStream[j].seq  BY <1>4, <5>1, <5>2, <5>3
          <5> QED  BY <1>4, <4>2, <5>4
        <4> QED  BY <1>7, <4>1, <4>2
      <3> QED  BY <1>1, <1>8, <2>1, <2>2, <3>1 DEF TlFollows, TlOrder
    <2>4. TlHead'
      <3>1. TlHead /\ \A k \in DOMAIN tlInbox : ~tlInbox[k].live
            BY <1>1, <2>1 DEF TlFollows, TlInv, TlWaits
      <3>2. \A k \in DOMAIN tlInbox' : tlInbox'[k].live => tlInbox'[k].msg = tlStream'[1]
            BY <1>1, <1>4, <1>7, <3>1
      <3> QED  BY <1>1, <1>5, <3>1, <3>2 DEF TlHead
    <2>5. TlKept' /\ (~tlLog'.crashed => TlOnce')
          BY <1>1, <1>8, <2>1 DEF TlFollows, TlKept, TlOnce, Waiting
    <2> QED  BY <2>3, <2>4, <2>5
  <1>10. TlWaits'
    <2>1. \A k \in DOMAIN tlInbox : ~tlInbox[k].live  BY <1>1 DEF TlInv, TlWaits
    <2> QED  BY <1>1, <1>5, <1>7, <2>1 DEF TlWaits
  <1> QED  BY <1>1, <1>6, <1>8, <1>9, <1>10, TlReader DEF TlInv, TlCounts

\* The copies that wait are answered in vain.
LEMMA TellAckTimeoutStep == ASSUME TlInv, tellAckTimeout PROVE TlInv'
  <1>1. /\ tlCons.at = "wait" /\ tlLog' = Blamed(TRUE) /\ tlCons' = [tlCons EXCEPT !.at = "retry"]
        /\ tlInbox' = [i \in DOMAIN tlInbox |-> [tlInbox[i] EXCEPT !.live = FALSE]]
        /\ UNCHANGED <<tlAuthor, tlPub, tlStream, tlKeys, tlMe>>
        BY DEF tellAckTimeout
  <1>2. TlTyped  BY DEF TlInv
  <1>3. /\ tlInbox \in Seq(TlCopy) /\ tlCons \in TlCons /\ tlStream \in Seq(TlMsg)
        BY <1>2, TlRecords
  <1>4. /\ DOMAIN tlInbox' = DOMAIN tlInbox
        /\ \A k \in DOMAIN tlInbox : /\ tlInbox'[k] \in TlCopy /\ tlInbox'[k].msg = tlInbox[k].msg
                                     /\ ~tlInbox'[k].live
    <2>1. ASSUME NEW k \in DOMAIN tlInbox
          PROVE  /\ tlInbox'[k] \in TlCopy /\ tlInbox'[k].msg = tlInbox[k].msg
                 /\ ~tlInbox'[k].live
      <3>1. tlInbox[k] \in TlCopy /\ tlInbox'[k] = [tlInbox[k] EXCEPT !.live = FALSE]
            BY <1>1, <1>3
      <3> QED  BY <3>1 DEF TlCopy
    <2> QED  BY <1>1, <2>1
  <1>5. tlInbox' \in Seq(TlCopy)
    <2>1. DOMAIN tlInbox = 1..Len(tlInbox) /\ Len(tlInbox) \in Nat  BY <1>3
    <2>2. tlInbox' \in [1..Len(tlInbox) -> TlCopy]  BY <1>1, <1>4, <2>1
    <2> QED  BY <2>1, <2>2
  <1>6. /\ tlLog' \in TlLog /\ tlLog'.told = tlLog.told /\ tlLog'.shown = tlLog.shown
        /\ tlLog'.parked = tlLog.parked /\ tlLog'.crashed = tlLog.crashed
        BY <1>1, <1>2, TlBlamed
  <1>7. tlCons' \in TlCons /\ tlCons'.at = "retry"  BY <1>1, <1>3 DEF TlCons
  <1>8. TlTyped'  BY <1>1, <1>2, <1>5, <1>6, <1>7 DEF TlTyped
  <1>9. TlCarried' = TlCarried  BY <1>1, <1>4 DEF TlCarried
  <1>10. ASSUME ~tlAuthor.moved
        PROVE  TlOrder' /\ TlHead' /\ TlKept' /\ (~tlLog'.crashed => TlOnce')
    <2>1. TlFollows  BY <1>10 DEF TlInv
    <2>2. TlMinted' = TlMinted  BY <1>1 DEF TlMinted
    <2>3. TlOrder'  BY <1>1, <1>4, <1>9, <2>1, <2>2 DEF TlFollows, TlOrder
    <2>4. TlHead'  BY <1>1, <1>4, <1>6, <1>7, <2>1 DEF TlFollows, TlHead
    <2>5. TlKept' /\ (~tlLog'.crashed => TlOnce')
          BY <1>1, <1>6, <1>9, <2>1 DEF TlFollows, TlKept, TlOnce, Waiting
    <2> QED  BY <2>3, <2>4, <2>5
  <1>11. TlWaits'  BY <1>1, <1>4 DEF TlInv, TlWaits
  <1> QED  BY <1>1, <1>6, <1>8, <1>9, <1>10, <1>11, TlReader DEF TlInv, TlCounts

\* The head leaves the stream when it was shown, or is parked.
LEMMA TlConsumeStep ==
  ASSUME TlInv, NEW lost \in BOOLEAN, lost => tlCons.at = "ok", Consume(lost) PROVE TlInv'
  <1> DEFINE park == tlCons.at = "retry" /\ tlCons.try = TlMaxDeliver
             gone == (tlCons.at = "ok" /\ ~lost) \/ park \/ (lost /\ tlCons.try = TlMaxDeliver)
             parked == IF park THEN tlLog.parked \cup {Head(tlStream).id} ELSE tlLog.parked
             try == IF gone THEN 0 ELSE tlCons.try
  <1>1. TlTyped  BY DEF TlInv
  <1>2. /\ tlCons.at \in {"ok", "retry"}
        /\ tlCons' = [try |-> try, at |-> "idle"]
        /\ tlStream' = IF gone THEN Tail(tlStream) ELSE tlStream
        /\ tlLog' = [Blamed(lost) EXCEPT !.parked = parked]
        /\ UNCHANGED <<tlAuthor, tlPub, tlKeys, tlInbox, tlMe>>
    <2>1. Blamed(lost).parked = tlLog.parked  BY <1>1, TlBlamed
    <2> QED  BY <2>1 DEF Consume
  <1>3. /\ tlStream \in Seq(TlMsg) /\ tlInbox \in Seq(TlCopy) /\ tlCons \in TlCons
        /\ tlLog \in TlLog
        BY <1>1, TlRecords
  <1>4. /\ tlStream # <<>> /\ 1 \in DOMAIN tlStream /\ Head(tlStream) = tlStream[1]
        /\ tlStream[1] \in TlMsg /\ tlStream[1].id \in Ids
    <2>1. tlStream # <<>>  BY <1>2 DEF TlInv, TlWaits
    <2>2. 1 \in DOMAIN tlStream /\ Head(tlStream) = tlStream[1] /\ tlStream[1] \in TlMsg
          BY <1>3, <2>1
    <2> QED  BY <2>1, <2>2 DEF TlMsg
  <1>5. (~gone => tlStream' = tlStream) /\ (gone => tlStream' = Tail(tlStream))  BY <1>2
  <1>6. try \in 0..TlMaxDeliver  BY <1>3, TlAssumption DEF TlCons
  <1>7. parked \subseteq Ids /\ tlLog.parked \subseteq parked  BY <1>3, <1>4 DEF TlLog
  <1>8. gone => tlCons.at = "ok" \/ tlStream[1].id \in parked  BY <1>2, <1>4
  <1> HIDE DEF park, gone, parked, try
  <1>9. /\ tlLog' \in TlLog /\ tlLog'.told = tlLog.told /\ tlLog'.shown = tlLog.shown
        /\ tlLog'.parked = parked /\ tlLog'.crashed = tlLog.crashed
    <2>1. /\ Blamed(lost) \in TlLog /\ Blamed(lost).told = tlLog.told
          /\ Blamed(lost).shown = tlLog.shown /\ Blamed(lost).crashed = tlLog.crashed
          BY <1>1, TlBlamed
    <2> QED  BY <1>2, <1>7, <2>1 DEF TlLog
  <1>10. tlCons' \in TlCons /\ tlCons'.at = "idle"  BY <1>2, <1>6 DEF TlCons
  <1>11. /\ tlStream' \in Seq(TlMsg)
         /\ gone => \A j \in DOMAIN tlStream' : /\ j \in Nat /\ j > 0 /\ j + 1 \in DOMAIN tlStream
                                                /\ tlStream'[j] = tlStream[j + 1]
         /\ gone => \A j \in DOMAIN tlStream :
             j = 1 \/ (j - 1 \in DOMAIN tlStream' /\ tlStream'[j - 1] = tlStream[j])
    <2>1. CASE ~gone  BY <1>3, <1>5, <2>1
    <2>2. CASE gone
      <3>1. /\ tlStream' \in Seq(TlMsg) /\ Len(tlStream') = Len(tlStream) - 1
            /\ Len(tlStream) \in Nat
            /\ \A j \in 1..Len(tlStream') : tlStream'[j] = tlStream[j + 1]
            BY <1>3, <1>4, <1>5, <2>2
      <3>2. \A j \in 1..Len(tlStream') : j + 1 \in 1..Len(tlStream)  BY <3>1
      <3>3. \A j \in 1..Len(tlStream) : j = 1 \/ (j - 1 \in 1..Len(tlStream') /\ (j - 1) + 1 = j)
            BY <3>1
      <3>4. DOMAIN tlStream = 1..Len(tlStream) /\ DOMAIN tlStream' = 1..Len(tlStream')
            BY <1>3, <3>1
      <3>5. \A j \in DOMAIN tlStream' : /\ j \in Nat /\ j > 0 /\ j + 1 \in DOMAIN tlStream
                                         /\ tlStream'[j] = tlStream[j + 1]
            BY <3>1, <3>2, <3>4
      <3>6. \A j \in DOMAIN tlStream :
            j = 1 \/ (j - 1 \in DOMAIN tlStream' /\ tlStream'[j - 1] = tlStream[j])
        <4>1. ASSUME NEW j \in DOMAIN tlStream, j # 1
              PROVE  j - 1 \in DOMAIN tlStream' /\ tlStream'[j - 1] = tlStream[j]
          <5>1. j \in 1..Len(tlStream)  BY <3>4
          <5>2. j - 1 \in 1..Len(tlStream') /\ (j - 1) + 1 = j  BY <3>3, <4>1, <5>1
          <5>3. tlStream'[j - 1] = tlStream[(j - 1) + 1]  BY <3>1, <5>2
          <5> QED  BY <3>4, <5>2, <5>3
        <4> QED  BY <4>1
      <3> QED  BY <2>2, <3>1, <3>5, <3>6
    <2> QED  BY <2>1, <2>2
  <1>12. TlTyped'  BY <1>1, <1>2, <1>9, <1>10, <1>11 DEF TlTyped
  <1>13. TlWaits'
    <2>1. \A k \in DOMAIN tlInbox : ~tlInbox[k].live  BY <1>2 DEF TlInv, TlWaits
    <2> QED  BY <1>2, <1>10, <2>1 DEF TlWaits
  <1>14. TlCarried' \subseteq TlCarried
    <2>1. \A j \in DOMAIN tlStream' : tlStream'[j] \in TlCarried
          BY <1>5, <1>11 DEF TlCarried
    <2> QED  BY <1>2, <2>1 DEF TlCarried
  <1>15. ASSUME ~tlAuthor.moved
         PROVE  TlOrder' /\ TlHead' /\ TlKept' /\ (~tlLog'.crashed => TlOnce')
    <2>1. TlFollows  BY <1>15 DEF TlInv
    <2>2. TlMinted' = TlMinted  BY <1>2 DEF TlMinted
    <2>3. gone => tlLog.shown[tlStream[1].id] > 0 \/ tlStream[1].id \in parked
          BY <1>8, <2>1 DEF TlFollows, TlHead
    <2>4. TlOrder'
      <3>1. TlOrder  BY <2>1 DEF TlFollows
      <3>2. CASE ~gone  BY <1>2, <1>5, <1>14, <2>2, <3>1, <3>2 DEF TlOrder
      <3>3. CASE gone
        <4>1. \A i, j \in DOMAIN tlStream' : i < j => tlStream'[i].seq < tlStream'[j].seq
          <5>1. \A i, j \in Nat : i < j => i + 1 < j + 1  OBVIOUS
          <5> QED  BY <1>11, <3>1, <3>3, <5>1 DEF TlOrder
        <4>2. \A k \in DOMAIN tlInbox, j \in DOMAIN tlStream' : tlInbox[k].msg.seq <= tlStream'[j].seq
              BY <1>11, <3>1, <3>3 DEF TlOrder
        <4>3. \A j \in DOMAIN tlStream' : tlMe.cursor < tlStream'[j].seq
          <5>1. \A j \in Nat : j > 0 => j + 1 > 1  OBVIOUS
          <5> QED  BY <1>11, <3>1, <3>3, <5>1 DEF TlOrder
        <4> QED  BY <1>2, <1>14, <2>2, <3>1, <4>1, <4>2, <4>3 DEF TlOrder
      <3> QED  BY <3>2, <3>3
    <2>5. TlHead'
      <3>1. \A k \in DOMAIN tlInbox' : ~tlInbox'[k].live  BY <1>2 DEF TlInv, TlWaits
      <3>2. tlStream' # <<>> /\ tlStream'[1].seq <= tlMe.cursor => tlLog.shown[tlStream'[1].id] > 0
        <4>1. CASE ~gone  BY <1>5, <2>1, <4>1 DEF TlFollows, TlHead
        <4>2. CASE gone
          <5>1. SUFFICES ASSUME tlStream' # <<>> PROVE ~(tlStream'[1].seq <= tlMe.cursor)  OBVIOUS
          <5>2. 1 \in DOMAIN tlStream' /\ 1 + 1 \in DOMAIN tlStream /\ tlStream'[1] = tlStream[1 + 1]
                /\ tlStream[1 + 1] \in TlMsg
                BY <1>3, <1>11, <4>2, <5>1
          <5>3. tlMe.cursor < tlStream[1 + 1].seq  BY <2>1, <5>2 DEF TlFollows, TlOrder
          <5>4. tlMe.cursor \in Nat /\ tlStream[1 + 1].seq \in Nat
                BY <1>1, <5>2, TlRecords DEF TlMsg, Ids
          <5> QED  BY <5>2, <5>3, <5>4
        <4> QED  BY <4>1, <4>2
      <3> QED  BY <1>2, <1>9, <1>10, <3>1, <3>2 DEF TlHead
    <2>6. TlKept'
      <3>1. ASSUME NEW i \in tlLog.told PROVE i \in Waiting' \cup parked \/ tlLog.shown[i] > 0
        <4>1. CASE i \in tlLog.parked \/ tlLog.shown[i] > 0  BY <1>7, <4>1
        <4>2. CASE i \in Waiting
          <5>1. PICK j \in DOMAIN tlStream : i = tlStream[j].id  BY <4>2 DEF Waiting
          <5>2. CASE ~gone  BY <1>5, <5>1, <5>2 DEF Waiting
          <5>3. CASE gone  BY <1>11, <2>3, <5>1, <5>3 DEF Waiting
          <5> QED  BY <5>2, <5>3
        <4> QED  BY <2>1, <4>1, <4>2 DEF TlFollows, TlKept
      <3> QED  BY <1>9, <3>1 DEF TlKept
    <2>7. ~tlLog'.crashed => TlOnce'  BY <1>2, <1>9, <1>14, <2>1 DEF TlFollows, TlOnce
    <2> QED  BY <2>4, <2>5, <2>6, <2>7
  <1> QED  BY <1>2, <1>9, <1>12, <1>13, <1>14, <1>15, TlReader DEF TlInv, TlCounts

\* A copy that was not delivered before carries a tell the zone never showed.
LEMMA DeliverDrainedTellStep ==
  ASSUME TlInv, NEW err \in BOOLEAN, deliverDrainedTell(err) PROVE TlInv'
  <1> DEFINE c == Head(tlInbox)
             fresh == tlMe.at = "zone" /\ ~(c.msg.seq <= tlMe.cursor)
             emitted == fresh /\ ~err
             yes == tlMe.at = "zone" /\ (fresh => emitted)
             n == IF emitted THEN tlLog.shown[c.msg.id] + 1 ELSE tlLog.shown[c.msg.id]
             answer == IF c.live THEN IF yes THEN "ok" ELSE "retry" ELSE tlCons.at
  <1>1. TlTyped  BY DEF TlInv
  <1>2. /\ tlStream \in Seq(TlMsg) /\ tlInbox \in Seq(TlCopy) /\ tlCons \in TlCons
        /\ tlLog \in TlLog /\ tlMe \in TlMe
        BY <1>1, TlRecords
  <1>3. /\ tlInbox # <<>> /\ tlInbox' = Tail(tlInbox)
        /\ tlMe' = IF emitted THEN [tlMe EXCEPT !.cursor = c.msg.seq] ELSE tlMe
        /\ tlLog' = [Blamed(err) EXCEPT !.shown[c.msg.id] = n]
        /\ tlCons' = [tlCons EXCEPT !.at = answer]
        /\ UNCHANGED <<tlAuthor, tlPub, tlStream, tlKeys>>
    <2>1. Blamed(err).shown = tlLog.shown  BY <1>1, TlBlamed
    <2>2. tlCons = [tlCons EXCEPT !.at = tlCons.at]  BY <1>2 DEF TlCons
    <2> QED  BY <2>1, <2>2 DEF deliverDrainedTell, suppressed, advances
  <1>4. /\ 1 \in DOMAIN tlInbox /\ c = tlInbox[1] /\ c \in TlCopy /\ c.msg \in TlMsg
        /\ c.msg \in TlCarried
    <2>1. 1 \in DOMAIN tlInbox /\ c = tlInbox[1] /\ c \in TlCopy  BY <1>2, <1>3
    <2> QED  BY <2>1 DEF TlCopy, TlCarried
  <1>5. /\ c.msg.id \in Ids /\ c.msg.seq \in 0..TlSent /\ c.msg.seq \in Nat
        /\ tlMe.cursor \in Nat /\ tlMe.saved \in Nat
        BY <1>1, <1>4, TlRecords, TlAssumption DEF TlMsg, Ids
  <1>6. n \in Nat  BY <1>2, <1>5 DEF TlLog
  <1>7. tlCons' \in TlCons /\ tlCons'.try = tlCons.try /\ tlCons'.at = answer
        BY <1>2, <1>3 DEF TlCons
  <1>8. c.live => tlCons.at = "wait" /\ tlStream # <<>>  BY <1>4 DEF TlInv, TlWaits
  <1>9. /\ emitted => c.msg.seq > tlMe.cursor /\ tlMe.at = "zone"
        /\ ~emitted => n = tlLog.shown[c.msg.id]
        /\ emitted => n = tlLog.shown[c.msg.id] + 1
        /\ ~c.live => answer = tlCons.at
        /\ c.live /\ answer = "ok" => emitted \/ c.msg.seq <= tlMe.cursor
        /\ c.live => answer # "wait" /\ answer # "idle"
        BY <1>5
  <1> HIDE DEF c, fresh, emitted, yes, n, answer
  <1>10. /\ tlLog' \in TlLog /\ tlLog'.told = tlLog.told /\ tlLog'.parked = tlLog.parked
         /\ tlLog'.crashed = tlLog.crashed /\ tlLog'.shown = [tlLog.shown EXCEPT ![c.msg.id] = n]
    <2>1. /\ Blamed(err) \in TlLog /\ Blamed(err).told = tlLog.told
          /\ Blamed(err).shown = tlLog.shown /\ Blamed(err).crashed = tlLog.crashed
          /\ Blamed(err).parked = tlLog.parked
          BY <1>1, TlBlamed
    <2> QED  BY <1>3, <1>5, <1>6, <2>1 DEF TlLog
  <1>11. /\ tlLog'.shown[c.msg.id] = n
         /\ \A i \in Ids : i # c.msg.id => tlLog'.shown[i] = tlLog.shown[i]
         /\ \A i \in Ids : tlLog.shown[i] > 0 => tlLog'.shown[i] > 0
    <2>1. tlLog.shown \in [Ids -> Nat]  BY <1>2 DEF TlLog
    <2>2. tlLog.shown[c.msg.id] > 0 => n > 0  BY <1>5, <1>9, <2>1
    <2> QED  BY <1>5, <1>10, <2>1, <2>2
  <1>12. /\ tlMe' \in TlMe /\ tlMe'.at = tlMe.at /\ tlMe'.saved = tlMe.saved
         /\ emitted => tlMe'.cursor = c.msg.seq
         /\ ~emitted => tlMe'.cursor = tlMe.cursor
         BY <1>2, <1>3, <1>5 DEF TlMe
  <1>13. tlMe'.saved <= tlMe'.cursor /\ tlMe.cursor <= tlMe'.cursor
    <2>1. tlMe.saved <= tlMe.cursor  BY DEF TlInv, TlCounts
    <2> QED  BY <1>5, <1>9, <1>12, <2>1
  <1>14. /\ tlInbox' \in Seq(TlCopy)
         /\ \A k \in DOMAIN tlInbox' : /\ k \in Nat /\ k + 1 \in DOMAIN tlInbox /\ k + 1 # 1
                                       /\ tlInbox'[k] = tlInbox[k + 1]
         BY <1>2, <1>3
  <1>15. TlTyped'  BY <1>1, <1>3, <1>7, <1>10, <1>12, <1>14 DEF TlTyped
  <1>16. TlCarried' \subseteq TlCarried  BY <1>3, <1>14 DEF TlCarried
  <1>17. TlWaits'
    <2>1. /\ \A k \in DOMAIN tlInbox : tlInbox[k].live => tlCons.at = "wait"
          /\ \A k, l \in DOMAIN tlInbox : tlInbox[k].live /\ tlInbox[l].live => k = l
          /\ tlCons.at # "idle" => tlStream # <<>>
          BY DEF TlInv, TlWaits
    <2>2. \A k \in DOMAIN tlInbox' : tlInbox'[k].live => ~c.live /\ tlCons.at = "wait"
          BY <1>4, <1>14, <2>1
    <2>3. \A k, l \in DOMAIN tlInbox' : tlInbox'[k].live /\ tlInbox'[l].live => k = l
      <3>1. \A k, l \in Nat : k + 1 = l + 1 => k = l  OBVIOUS
      <3> QED  BY <1>14, <2>1, <3>1
    <2>4. tlCons'.at # "idle" => tlStream' # <<>>  BY <1>3, <1>7, <1>8, <1>9, <2>1
    <2> QED  BY <1>7, <1>9, <2>2, <2>3, <2>4 DEF TlWaits
  <1>18. ASSUME ~tlAuthor.moved
         PROVE  TlOrder' /\ TlHead' /\ TlKept' /\ (~tlLog'.crashed => TlOnce')
    <2>1. TlFollows  BY <1>18 DEF TlInv
    <2>2. TlMinted' = TlMinted  BY <1>3 DEF TlMinted
    <2>3. \A m \in TlCarried : m \in TlMsg /\ m.seq \in Nat /\ m.id \in Ids
          BY <1>1, TlCarriedTyped DEF TlMsg, Ids
    <2>4. c.msg.seq <= TlMinted /\ \A j \in DOMAIN tlStream : c.msg.seq <= tlStream[j].seq
          BY <1>4, <2>1 DEF TlFollows, TlOrder
    <2>5. \A j \in DOMAIN tlStream : tlStream[j] \in TlCarried  BY DEF TlCarried
    <2>6. TlOrder'
      <3>1. TlOrder  BY <2>1 DEF TlFollows
      <3>2. \A k \in DOMAIN tlInbox', j \in DOMAIN tlStream : tlInbox'[k].msg.seq <= tlStream[j].seq
            BY <1>14, <3>1 DEF TlOrder
      <3>3. tlMe'.cursor <= TlMinted  BY <1>12, <2>4, <3>1 DEF TlOrder
      <3>4. \A j \in DOMAIN tlStream : j > 1 => tlMe'.cursor < tlStream[j].seq
        <4>1. SUFFICES ASSUME NEW j \in DOMAIN tlStream, j > 1, emitted
                       PROVE  c.msg.seq < tlStream[j].seq
              BY <1>12, <3>1 DEF TlOrder
        <4>2. 1 \in DOMAIN tlStream /\ 1 < j  BY <1>2, <4>1
        <4>3. tlStream[1].seq < tlStream[j].seq  BY <3>1, <4>2 DEF TlOrder
        <4>4. tlStream[1].seq \in Nat /\ tlStream[j].seq \in Nat  BY <2>3, <2>5, <4>2
        <4> QED  BY <1>5, <2>4, <4>2, <4>3, <4>4
      <3> QED  BY <1>3, <1>16, <2>2, <3>1, <3>2, <3>3, <3>4 DEF TlOrder
    <2>7. TlHead'
      <3>1. TlHead /\ TlOneTell  BY <2>1 DEF TlFollows
      <3>2. ASSUME tlStream # <<>>, tlStream[1].seq <= tlMe'.cursor
            PROVE  tlLog'.shown[tlStream[1].id] > 0
        <4>1. 1 \in DOMAIN tlStream  BY <1>2, <3>2
        <4>2. tlStream[1] \in TlCarried /\ tlStream[1].id \in Ids /\ tlStream[1].seq \in Nat
              BY <2>3, <2>5, <4>1
        <4>3. CASE emitted
          <5>1. tlStream[1].seq = c.msg.seq  BY <1>5, <1>12, <2>4, <3>2, <4>1, <4>2, <4>3
          <5>2. tlStream[1].id = c.msg.id  BY <1>4, <3>1, <4>2, <5>1 DEF TlOneTell
          <5>3. tlLog.shown[c.msg.id] \in Nat  BY <1>2, <1>5 DEF TlLog
          <5> QED  BY <1>9, <1>11, <4>3, <5>2, <5>3
        <4>4. CASE ~emitted  BY <1>11, <1>12, <3>1, <3>2, <4>2, <4>4 DEF TlHead
        <4> QED  BY <4>3, <4>4
      <3>3. tlCons'.at = "ok" => tlLog'.shown[tlStream[1].id] > 0
        <4>1. CASE ~c.live
          <5>1. SUFFICES ASSUME tlCons.at = "ok" PROVE tlLog'.shown[tlStream[1].id] > 0
                BY <1>7, <1>9, <4>1
          <5>2. tlStream # <<>>  BY <5>1 DEF TlInv, TlWaits
          <5>3. 1 \in DOMAIN tlStream  BY <1>2, <5>2
          <5> QED  BY <1>11, <2>3, <2>5, <3>1, <5>1, <5>3 DEF TlHead
        <4>2. CASE c.live
          <5>1. SUFFICES ASSUME tlCons'.at = "ok" PROVE tlStream[1].seq <= tlMe'.cursor
                BY <1>8, <3>2, <4>2
          <5>2. c.msg = tlStream[1]  BY <1>4, <3>1, <4>2 DEF TlHead
          <5> QED  BY <1>5, <1>7, <1>9, <1>12, <1>13, <4>2, <5>1, <5>2
        <4> QED  BY <4>1, <4>2
      <3>4. \A k \in DOMAIN tlInbox' : tlInbox'[k].live => tlInbox'[k].msg = tlStream[1]
            BY <1>14, <3>1 DEF TlHead
      <3> QED  BY <1>3, <3>2, <3>3, <3>4 DEF TlHead
    <2>8. TlKept'
      <3>1. tlLog.told \subseteq Ids  BY <1>2 DEF TlLog
      <3> QED  BY <1>3, <1>10, <1>11, <2>1, <3>1 DEF TlFollows, TlKept, Waiting
    <2>9. ~tlLog'.crashed => TlOnce'
      <3>1. SUFFICES ASSUME ~tlLog.crashed PROVE TlOnce'  BY <1>10
      <3>2. TlOnce /\ TlOneTell  BY <2>1, <3>1 DEF TlFollows
      <3>3. emitted => tlLog.shown[c.msg.id] = 0  BY <1>4, <1>9, <3>2 DEF TlOnce
      <3>4. ASSUME NEW m \in TlCarried', m.seq > tlMe'.cursor PROVE tlLog'.shown[m.id] = 0
        <4>1. m \in TlCarried /\ m.seq \in Nat /\ m.id \in Ids  BY <1>16, <2>3
        <4>2. tlLog.shown[m.id] = 0
          <5>1. m.seq > tlMe.cursor
            <6>1. tlMe'.cursor \in Nat  BY <1>5, <1>12
            <6> QED  BY <1>5, <1>13, <3>4, <4>1, <6>1
          <5> QED  BY <3>2, <4>1, <5>1 DEF TlOnce
        <4>3. CASE emitted
          <5>1. m.seq # c.msg.seq  BY <1>5, <1>12, <3>4, <4>1, <4>3
          <5>2. m.id # c.msg.id  BY <1>4, <3>2, <4>1, <5>1 DEF TlOneTell
          <5> QED  BY <1>11, <4>1, <4>2, <5>2
        <4>4. CASE ~emitted  BY <1>9, <1>11, <4>1, <4>2, <4>4
        <4> QED  BY <4>3, <4>4
      <3>5. \A i \in Ids : tlLog'.shown[i] <= 1
        <4>1. \A i \in Ids : tlLog.shown[i] <= 1  BY <3>2 DEF TlOnce
        <4>2. n <= 1  BY <1>5, <1>9, <3>3, <4>1
        <4> QED  BY <1>11, <4>1, <4>2
      <3>6. tlMe'.at = "gone" => tlMe'.saved = tlMe'.cursor
            BY <1>9, <1>12, <3>2 DEF TlOnce
      <3> QED  BY <3>4, <3>5, <3>6 DEF TlOnce
    <2> QED  BY <2>6, <2>7, <2>8, <2>9
  <1>19. \A i \in Ids : tlLog'.shown[i] = tlLog.shown[i] \/ \E m \in TlCarried : m.id = i
         BY <1>4, <1>11
  <1> QED  BY <1>3, <1>13, <1>15, <1>16, <1>17, <1>18, <1>19, TlReader

\* Where the session is and what cursor is saved says nothing of a tell, while the two cursors
\* agree whenever the session is gone.
LEMMA TlSessionStep ==
  ASSUME TlInv, tlMe' \in TlMe, tlMe'.saved <= tlMe'.cursor,
         UNCHANGED <<tlAuthor, tlPub, tlStream, tlKeys, tlCons, tlInbox, tlLog>>,
         tlMe'.cursor = tlMe.cursor \/ (tlMe.at = "gone" /\ tlMe'.cursor = tlMe.saved),
         tlMe'.at = "gone" => tlMe'.saved = tlMe'.cursor
  PROVE  TlInv'
  <1>1. TlTyped  BY DEF TlInv
  <1>2. TlTyped'  BY <1>1 DEF TlTyped
  <1>3. TlWaits'  BY DEF TlInv, TlWaits
  <1>4. TlCarried' = TlCarried  BY DEF TlCarried
  <1>5. /\ tlMe.cursor \in Nat /\ tlMe.saved \in Nat /\ tlMe'.cursor \in Nat
        /\ tlMe.saved <= tlMe.cursor
        BY <1>1, TlRecords, TlAssumption DEF TlMe, TlInv, TlCounts
  <1>6. tlMe'.cursor <= tlMe.cursor  BY <1>5
  <1>7. \A m \in TlCarried : m.seq \in Nat  BY <1>1, TlCarriedTyped DEF TlMsg, Ids
  <1>8. ASSUME ~tlAuthor.moved
        PROVE  TlOrder' /\ TlHead' /\ TlKept' /\ (~tlLog'.crashed => TlOnce')
    <2>1. TlFollows  BY <1>8 DEF TlInv
    <2>2. TlMinted' = TlMinted /\ TlMinted \in Nat  BY <1>1, TlRecords DEF TlMinted
    <2>3. \A j \in DOMAIN tlStream : tlStream[j].seq \in Nat  BY <1>7 DEF TlCarried
    <2>4. TlOrder'
      <3>1. tlMe.cursor <= TlMinted /\ \A j \in DOMAIN tlStream : j > 1 => tlMe.cursor < tlStream[j].seq
            BY <2>1 DEF TlFollows, TlOrder
      <3>2. tlMe'.cursor <= TlMinted  BY <1>5, <1>6, <2>2, <3>1
      <3>3. \A j \in DOMAIN tlStream : j > 1 => tlMe'.cursor < tlStream[j].seq
            BY <1>5, <1>6, <2>3, <3>1
      <3> QED  BY <1>4, <2>1, <2>2, <3>2, <3>3 DEF TlFollows, TlOrder
    <2>5. TlHead'
      <3>1. tlStream # <<>> => tlStream[1].seq \in Nat
        <4>1. tlStream # <<>> => 1 \in DOMAIN tlStream  BY <1>1, TlRecords
        <4> QED  BY <2>3, <4>1
      <3> QED  BY <1>5, <1>6, <2>1, <3>1 DEF TlFollows, TlHead
    <2>6. TlKept'  BY <2>1 DEF TlFollows, TlKept, Waiting
    <2>7. ~tlLog'.crashed => TlOnce'
      <3>1. SUFFICES ASSUME ~tlLog.crashed PROVE TlOnce'  OBVIOUS
      <3>2. TlOnce  BY <2>1, <3>1 DEF TlFollows
      <3>3. tlMe'.cursor = tlMe.cursor  BY <3>2 DEF TlOnce
      <3> QED  BY <1>4, <3>2, <3>3 DEF TlOnce
    <2> QED  BY <2>4, <2>5, <2>6, <2>7
  <1> QED  BY <1>2, <1>3, <1>4, <1>8, TlReader

LEMMA TlWalkStep == ASSUME TlInv, TlWalk PROVE TlInv'
  <1>1. tlMe \in TlMe /\ tlMe.saved <= tlMe.cursor  BY TlRecords DEF TlInv, TlCounts
  <1>2. /\ tlMe' \in TlMe /\ tlMe'.at # "gone" /\ tlMe'.saved = tlMe.saved
        /\ tlMe'.cursor = tlMe.cursor
        BY <1>1 DEF TlWalk, TlMe
  <1> QED  BY <1>1, <1>2, TlSessionStep DEF TlWalk

LEMMA DumpTellCursorStep ==
  ASSUME TlInv, NEW leave \in BOOLEAN, dumpTellCursor(leave) PROVE TlInv'
  <1>1. tlMe \in TlMe /\ tlMe.cursor \in Nat  BY TlRecords DEF TlInv
  <1>2. /\ tlMe' \in TlMe /\ tlMe'.saved = tlMe.cursor /\ tlMe'.cursor = tlMe.cursor
        BY <1>1 DEF dumpTellCursor, TlMe
  <1> QED  BY <1>1, <1>2, TlSessionStep DEF dumpTellCursor

LEMMA LoadTellCursorStep == ASSUME TlInv, loadTellCursor PROVE TlInv'
  <1>1. tlMe \in TlMe /\ tlMe.saved \in Nat  BY TlRecords DEF TlInv
  <1>2. /\ tlMe' \in TlMe /\ tlMe'.saved = tlMe.saved /\ tlMe'.cursor = tlMe.saved
        /\ tlMe'.at # "gone"
        BY <1>1 DEF loadTellCursor, TlMe
  <1> QED  BY <1>1, <1>2, TlSessionStep DEF loadTellCursor

\* The copies die with the shard, and the message at the head is offered again.
LEMMA TlCrashStep == ASSUME TlInv, TlCrash PROVE TlInv'
  <1> DEFINE at == IF tlCons.at = "idle" \/ tlStream = <<>> THEN "idle" ELSE "retry"
  <1>1. /\ tlMe' = [tlMe EXCEPT !.at = "gone"] /\ tlInbox' = <<>>
        /\ tlCons' = [tlCons EXCEPT !.at = at]
        /\ tlLog' = [Blamed(TRUE) EXCEPT !.crashed = TRUE]
        /\ UNCHANGED <<tlAuthor, tlPub, tlStream, tlKeys>>
        BY DEF TlCrash
  <1>2. TlTyped  BY DEF TlInv
  <1>3. tlMe \in TlMe /\ tlCons \in TlCons  BY <1>2, TlRecords
  <1>4. at \in {"idle", "retry"} /\ (at # "idle" => tlStream # <<>>)  OBVIOUS
  <1> HIDE DEF at
  <1>5. tlMe' \in TlMe /\ tlMe'.cursor = tlMe.cursor /\ tlMe'.saved = tlMe.saved
        BY <1>1, <1>3 DEF TlMe
  <1>6. tlCons' \in TlCons /\ tlCons'.at = at  BY <1>1, <1>3, <1>4 DEF TlCons
  <1>7. /\ tlLog' \in TlLog /\ tlLog'.told = tlLog.told /\ tlLog'.shown = tlLog.shown
        /\ tlLog'.parked = tlLog.parked /\ tlLog'.crashed
    <2>1. /\ Blamed(TRUE) \in TlLog /\ Blamed(TRUE).told = tlLog.told
          /\ Blamed(TRUE).shown = tlLog.shown /\ Blamed(TRUE).parked = tlLog.parked
          BY <1>2, TlBlamed
    <2> QED  BY <1>1, <2>1 DEF TlLog
  <1>8. TlTyped'
    <2>1. tlInbox' \in Seq(TlCopy)  BY <1>1
    <2> QED  BY <1>1, <1>2, <1>5, <1>6, <1>7, <2>1 DEF TlTyped
  <1>9. TlWaits'  BY <1>1, <1>4, <1>6 DEF TlWaits
  <1>10. TlCarried' \subseteq TlCarried  BY <1>1 DEF TlCarried
  <1>11. ASSUME ~tlAuthor.moved PROVE TlOrder' /\ TlHead' /\ TlKept'
    <2>1. TlFollows  BY <1>11 DEF TlInv
    <2>2. TlMinted' = TlMinted  BY <1>1 DEF TlMinted
    <2>3. TlOrder'  BY <1>1, <1>5, <1>10, <2>1, <2>2 DEF TlFollows, TlOrder
    <2>4. TlHead'
      <3>1. TlHead  BY <2>1 DEF TlFollows
      <3>2. tlCons'.at # "ok" /\ DOMAIN tlInbox' = {}  BY <1>1, <1>4, <1>6
      <3> QED  BY <1>1, <1>5, <1>7, <3>1, <3>2 DEF TlHead
    <2>5. TlKept'  BY <1>1, <1>7, <2>1 DEF TlFollows, TlKept, Waiting
    <2> QED  BY <2>3, <2>4, <2>5
  <1>12. tlMe'.saved <= tlMe'.cursor  BY <1>5 DEF TlInv, TlCounts
  <1> QED  BY <1>1, <1>7, <1>8, <1>9, <1>10, <1>11, <1>12, TlReader

LEMMA TlNextStep == TlInv /\ [TlNext]_tlVars => TlInv'
  <1> SUFFICES ASSUME TlInv, [TlNext]_tlVars PROVE TlInv'  OBVIOUS
  <1>1. CASE UNCHANGED tlVars
    <2>1. UNCHANGED <<tlAuthor, tlPub, tlStream, tlKeys, tlCons, tlInbox, tlMe, tlLog>>
          BY <1>1 DEF tlVars
    <2>2. TlCarried' = TlCarried /\ TlMinted' = TlMinted /\ TlJobs' = TlJobs /\ Waiting' = Waiting
          BY <2>1 DEF TlCarried, TlMinted, TlJobs, Waiting
    <2>3. TlTyped'  BY <2>1 DEF TlInv, TlTyped
    <2>4. TlCounts' /\ TlWaits'  BY <2>1 DEF TlInv, TlCounts, TlWaits
    <2>5. ASSUME ~tlAuthor.moved PROVE TlFollows'
      <3>1. TlFollows  BY <2>5 DEF TlInv
      <3>2. TlOneCounter'  BY <2>1, <2>2, <3>1 DEF TlFollows, TlOneCounter
      <3>3. TlOrder'  BY <2>1, <2>2, <3>1 DEF TlFollows, TlOrder
      <3>4. TlOneTell'  BY <2>1, <2>2, <3>1 DEF TlFollows, TlOneTell
      <3>5. TlHead'  BY <2>1, <3>1 DEF TlFollows, TlHead
      <3>6. TlKept'  BY <2>1, <2>2, <3>1 DEF TlFollows, TlKept
      <3>7. TlOnce => TlOnce'  BY <2>1, <2>2 DEF TlOnce
      <3> QED  BY <2>1, <3>1, <3>2, <3>3, <3>4, <3>5, <3>6, <3>7 DEF TlFollows
    <2> QED  BY <2>1, <2>3, <2>4, <2>5 DEF TlInv
  <1>2. CASE sendTell  BY <1>2, SendTellStep
  <1>3. CASE \E s \in TlShards, out \in {<<TRUE, FALSE>>, <<TRUE, TRUE>>, <<FALSE, TRUE>>} :
               publishOne(s, out[1], out[2])
    <2>1. PICK s \in TlShards, out \in {<<TRUE, FALSE>>, <<TRUE, TRUE>>, <<FALSE, TRUE>>} :
            publishOne(s, out[1], out[2])
          BY <1>3
    <2>2. CASE out = <<TRUE, FALSE>>
      <3>1. publishOne(s, TRUE, FALSE)  BY <2>1, <2>2
      <3> QED  BY <3>1, PublishOneStep
    <2>3. CASE out = <<TRUE, TRUE>>
      <3>1. publishOne(s, TRUE, TRUE)  BY <2>1, <2>3
      <3> QED  BY <3>1, PublishOneStep
    <2>4. CASE out = <<FALSE, TRUE>>
      <3>1. publishOne(s, FALSE, TRUE)  BY <2>1, <2>4
      <3> QED  BY <3>1, PublishOneStep
    <2> QED  BY <2>1, <2>2, <2>3, <2>4
  <1>4. CASE DedupWindowPasses  BY <1>4, DedupWindowStep
  <1>5. CASE \E s \in TlShards : newCommSource(s)  BY <1>5, NewCommSourceStep
  <1>6. CASE routeTellDeliver  BY <1>6, RouteTellStep
  <1>7. CASE tellAckTimeout  BY <1>7, TellAckTimeoutStep
  <1>8. CASE Consume(FALSE)  BY <1>8, TlConsumeStep
  <1>9. CASE tlCons.at = "ok" /\ Consume(TRUE)  BY <1>9, TlConsumeStep
  <1>10. CASE \E err \in BOOLEAN : deliverDrainedTell(err)  BY <1>10, DeliverDrainedTellStep
  <1>11. CASE TlWalk  BY <1>11, TlWalkStep
  <1>12. CASE dumpTellCursor(TRUE)  BY <1>12, DumpTellCursorStep
  <1>13. CASE dumpTellCursor(FALSE)  BY <1>13, DumpTellCursorStep
  <1>14. CASE loadTellCursor  BY <1>14, LoadTellCursorStep
  <1>15. CASE TlCrash  BY <1>15, TlCrashStep
  <1> QED  BY <1>1, <1>2, <1>3, <1>4, <1>5, <1>6, <1>7, <1>8, <1>9, <1>10, <1>11, <1>12, <1>13,
           <1>14, <1>15 DEF TlNext

LEMMA TlInvSafe == TlInv => TellsSafe
  <1> SUFFICES ASSUME TlInv PROVE TellsSafe  OBVIOUS
  <1>1. TlTypeOK  BY TlTypesHold DEF TlInv
  <1>2. TellLands  BY DEF TlInv, TlFollows, TlKept, TlOnce, TellLands
  <1> QED  BY <1>1, <1>2 DEF TellsSafe

\* A tell its author was told about waits in the stream, was shown or is parked, and without a
\* crash is shown once, for every number of tells, shards, attempts and faults, while one
\* counter numbers the author's tells (world/comm.go publishOne, world/tell.go
\* deliverDrainedTell, commbus Consume).
THEOREM TellsAreSafe == TlSpec => []TellsSafe
  <1>1. TlInit => TlInv  BY TlStart
  <1>2. TlInv /\ [TlNext]_tlVars => TlInv'  BY TlNextStep
  <1>3. TlInv => TellsSafe  BY TlInvSafe
  <1> QED  BY <1>1, <1>2, <1>3, PTL DEF TlSpec
=============================================================================
