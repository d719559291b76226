------------------------ MODULE PlayerHandoffProofs ------------------------
(* Machine-checked proofs about PlayerHandoff, for any set of shards, any     *)
(* events and any bounds: the ownership fence of the characters row.          *)
EXTENDS PlayerHandoff, TLAPS

-----------------------------------------------------------------------------
(* The inductive invariant: every epoch anywhere was minted by the row, and   *)
(* whoever can still come to hold the epoch 1 a fresh attach starts from does *)
(* so only after a first claim.                                               *)

FirstClaim ==
  (\/ \E s \in Shards : Present(s)
   \/ \E l \in logins : l.pc = "attaching"
   \/ prepares # {}) => row >= 1

OwnInv == TypeOK /\ EpochsMinted /\ FirstClaim

-----------------------------------------------------------------------------
(* The statements on the row and the placement record.                        *)

\* A claim is above the row and its floor; a save and a registration keep the
\* larger epoch; none of them lowers what it writes to.
LEMMA RowTypes ==
  ASSUME NEW row_ \in Nat, NEW e \in Nat
  PROVE  /\ ClaimCharacter(row_, e) \in Nat /\ ClaimCharacter(row_, e) > row_
         /\ ClaimCharacter(row_, e) > e
         /\ SaveCharacter(row_, e) \in Nat /\ SaveCharacter(row_, e) >= row_
         /\ Larger(row_, e) \in {row_, e}
         /\ RegisterPlacement(row_, e) \in {row_, e}
  BY DEF ClaimCharacter, SaveCharacter, RegisterPlacement, Larger

\* A lost reply leaves the row as it was or at a freshly minted epoch.
LEMMA LostClaimTypes ==
  ASSUME row \in Nat, NEW e \in Nat,
         NEW r, r = row \/ r \in LostClaim(e)
  PROVE  r \in Nat /\ r >= row
  <1>1. r = row \/ r = ClaimCharacter(row, e)
    BY DEF LostClaim
  <1>2. ClaimCharacter(row, e) \in Nat /\ ClaimCharacter(row, e) > row
    BY RowTypes
  <1>. QED
    BY <1>1, <1>2

\* The empty session and the empty save slot are well formed.
LEMMA EmptyTypes == NoSession \in Session /\ NoSave \in Save
  BY DEF NoSession, Session, NoSave, Save

\* The fields of a session the proofs compute with.
LEMMA SessionTypes ==
  ASSUME NEW x \in Session
  PROVE  x.epoch \in Nat /\ x.gen \in Nat /\ x.gen + 1 \in Nat /\ x.streamGone \in BOOLEAN
  BY DEF Session

\* A re-attach keeps the session well formed.
LEMMA ResumedTypes ==
  ASSUME NEW x \in Session, NEW e \in Nat
  PROVE  LET y == [x EXCEPT !.linked = TRUE, !.detached = FALSE, !.epoch = e, !.gen = @ + 1]
         IN  y \in Session /\ y.epoch = e
  BY SessionTypes DEF Session

\* A bind keeps the session well formed.
LEMMA BoundTypes ==
  ASSUME NEW x \in Session
  PROVE  LET y == [x EXCEPT !.mode = "live", !.linked = TRUE, !.told = FALSE, !.token = 0, !.gen = @ + 1]
         IN  y \in Session /\ y.epoch = x.epoch
  BY SessionTypes DEF Session

\* The end of the stream keeps the session well formed.
LEMMA CutTypes ==
  ASSUME NEW x \in Session
  PROVE  LET y == [x EXCEPT !.linked = FALSE]
         IN  y \in Session /\ y.epoch = x.epoch /\ y.mode = x.mode
  BY SessionTypes DEF Session

\* The loss a frozen session records keeps the session well formed.
LEMMA StreamGoneTypes ==
  ASSUME NEW x \in Session
  PROVE  LET y == [x EXCEPT !.streamGone = TRUE]
         IN  y \in Session /\ y.epoch = x.epoch /\ y.mode = x.mode
  BY SessionTypes DEF Session

\* A freeze keeps the session well formed.
LEMMA FrozenTypes ==
  ASSUME NEW x \in Session
  PROVE  LET y == [x EXCEPT !.mode = "frozen", !.handedOff = FALSE]
         IN  y \in Session /\ y.epoch = x.epoch
  BY SessionTypes DEF Session

\* A thaw keeps the session well formed.
LEMMA ThawedTypes ==
  ASSUME NEW x \in Session
  PROVE  LET y == [x EXCEPT !.mode = "live"]
         IN  y \in Session /\ y.epoch = x.epoch
  BY SessionTypes DEF Session

\* markHandedOff keeps the session well formed.
LEMMA HandedTypes ==
  ASSUME NEW x \in Session
  PROVE  LET y == [x EXCEPT !.handedOff = TRUE]
         IN  y \in Session /\ y.epoch = x.epoch /\ y.mode = x.mode
  BY SessionTypes DEF Session

\* An adopted epoch keeps the session well formed.
LEMMA MovedTypes ==
  ASSUME NEW x \in Session, NEW e \in Nat
  PROVE  LET y == [x EXCEPT !.epoch = e]
         IN  y \in Session /\ y.epoch = e /\ y.mode = x.mode
  BY SessionTypes DEF Session

\* The Redirect frame reaching the gate keeps the session well formed.
LEMMA HeardTypes ==
  ASSUME NEW x \in Session, NEW b
  PROVE  LET y == [x EXCEPT !.told = @ \/ b]
         IN  y \in Session /\ y.epoch = x.epoch
  <1>1. (x.told \/ b) \in BOOLEAN
    OBVIOUS
  <1>. QED
    BY <1>1 DEF Session

\* enqueueSave keeps the queue well formed and queues nothing but `epoch`.
LEMMA EnqueueTypes ==
  ASSUME saver \in [Shards -> Save], NEW s \in Shards, NEW e \in Nat, EnqueueSave(s, e)
  PROVE  /\ saver' \in [Shards -> Save]
         /\ \A t \in Shards : saver'[t].epoch \in {saver[t].epoch, e}
  BY DEF EnqueueSave, Save

\* The helpers that end a handler leave a well-formed session and queue.
LEMMA LinkDeathTypes ==
  ASSUME sess \in [Shards -> Session], saver \in [Shards -> Save],
         NEW s \in Shards, NEW x \in Session, NEW dead \in BOOLEAN,
         MaybeLinkDeath(s, x, dead)
  PROVE  /\ sess' \in [Shards -> Session]
         /\ saver' \in [Shards -> Save]
         /\ \A t \in Shards : /\ saver'[t].epoch \in {saver[t].epoch, x.epoch}
                              /\ t # s => sess'[t] = sess[t]
         /\ sess'[s].epoch = x.epoch /\ sess'[s].mode = x.mode
  <1>1. x.epoch \in Nat /\ [x EXCEPT !.detached = TRUE] \in Session
    BY DEF Session
  <1>2. CASE dead /\ ~x.detached
    <2>1. sess' = [sess EXCEPT ![s] = [x EXCEPT !.detached = TRUE]]
      BY <1>2 DEF MaybeLinkDeath, SetSession
    <2>2. EnqueueSave(s, x.epoch)
      BY <1>2 DEF MaybeLinkDeath
    <2>3. sess'[s] = [x EXCEPT !.detached = TRUE]
      BY <2>1
    <2>4. sess'[s].epoch = x.epoch /\ sess'[s].mode = x.mode
      BY <2>3 DEF Session
    <2>. QED
      BY <1>1, <2>1, <2>2, <2>4, EnqueueTypes
  <1>3. CASE ~(dead /\ ~x.detached)
    BY <1>3 DEF MaybeLinkDeath, SetSession
  <1>. QED
    BY <1>2, <1>3

\* A handoff that advances is a handoff still.
LEMMA AdvanceTypes ==
  ASSUME hand \in SUBSET Handoff, NEW h \in hand,
         NEW pc \in {"failing", "aborting", "committed", "marked"}, Advance(h, pc)
  PROVE  /\ hand' \in SUBSET Handoff
         /\ \A g \in hand' : \E k \in hand : g.epoch = k.epoch
  <1>1. [h EXCEPT !.pc = pc] \in Handoff
    BY DEF Handoff
  <1>2. [h EXCEPT !.pc = pc].epoch = h.epoch
    BY DEF Handoff
  <1>. QED
    BY <1>1, <1>2 DEF Advance

-----------------------------------------------------------------------------
(* The invariant in two halves: what zones hold, and what is on its way.      *)

ZonesMinted ==
  /\ sess \in [Shards -> Session] /\ saver \in [Shards -> Save]
  /\ \A s \in Shards : /\ sess[s].epoch <= row /\ saver[s].epoch <= row
                       /\ Present(s) => row >= 1

HandsMinted == hand \in SUBSET Handoff /\ \A h \in hand : h.epoch <= row

\* The invariant gives both halves.
LEMMA Halves == ASSUME OwnInv PROVE ZonesMinted /\ HandsMinted /\ row \in Nat
  BY DEF OwnInv, TypeOK, EpochsMinted, FirstClaim, ZonesMinted, HandsMinted

\* A step that mints nothing and sends nothing new keeps the invariant when it
\* keeps both halves.
LEMMA NothingMinted ==
  ASSUME OwnInv, row' = row, ZonesMinted', HandsMinted',
         timers' \in [Shards -> SUBSET Nat],
         prepares' \subseteq prepares, logins' \subseteq logins,
         place' \in Nat, place' <= row, played' \in Nat, played' <= row
  PROVE  OwnInv'
  <1>1. TypeOK'
    BY DEF OwnInv, TypeOK, ZonesMinted, HandsMinted
  <1>2. EpochsMinted'
    BY DEF OwnInv, EpochsMinted, ZonesMinted, HandsMinted
  <1>3. FirstClaim'
    BY DEF OwnInv, FirstClaim, ZonesMinted
  <1>. QED
    BY <1>1, <1>2, <1>3 DEF OwnInv

\* Replacing one session by a well-formed one keeps the zones.
LEMMA SetZones ==
  ASSUME OwnInv, row' = row, NEW s \in Shards, NEW x \in Session,
         x.epoch <= row, x.mode # "absent" => row >= 1,
         SetSession(s, x), saver' = saver
  PROVE  ZonesMinted'
  BY Halves DEF ZonesMinted, SetSession, Present

\* So does removing it, with or without its final flush, ...
LEMMA LeaveZones ==
  ASSUME OwnInv, row' = row, NEW s \in Shards, SetSession(s, NoSession),
         saver' = saver \/ EnqueueSave(s, sess[s].epoch)
  PROVE  ZonesMinted'
  <1>1. sess[s].epoch \in Nat /\ sess[s].epoch <= row
    BY Halves DEF ZonesMinted, Session
  <1>2. /\ saver' \in [Shards -> Save]
        /\ \A t \in Shards : saver'[t].epoch \in {saver[t].epoch, sess[s].epoch}
    BY <1>1, Halves, EnqueueTypes DEF ZonesMinted
  <1>3. NoSession \in Session /\ NoSession.mode = "absent" /\ NoSession.epoch = 0
    BY EmptyTypes DEF NoSession
  <1>. QED
    BY <1>1, <1>2, <1>3, Halves DEF ZonesMinted, SetSession, Present

\* ... and a handler that ends in link-death.
LEMMA LinkDeathZones ==
  ASSUME OwnInv, row' = row, NEW s \in Shards, NEW x \in Session,
         x.epoch <= row, x.mode # "absent" => row >= 1,
         NEW dead \in BOOLEAN, MaybeLinkDeath(s, x, dead)
  PROVE  ZonesMinted'
  <1>1. /\ sess' \in [Shards -> Session] /\ saver' \in [Shards -> Save]
        /\ \A t \in Shards : /\ saver'[t].epoch \in {saver[t].epoch, x.epoch}
                             /\ t # s => sess'[t] = sess[t]
        /\ sess'[s].epoch = x.epoch /\ sess'[s].mode = x.mode
    BY Halves, LinkDeathTypes DEF ZonesMinted
  <1>. QED
    BY <1>1, Halves DEF ZonesMinted, Present

-----------------------------------------------------------------------------
(* What each action does to the parts of the invariant.                       *)

\* Steps of a login.
LEMMA LoginStep ==
  ASSUME OwnInv, NEW l \in logins, LoginNext(l)
  PROVE  OwnInv'
<1>. USE DEF zoneVars, netVars
<1>0. /\ row \in Nat /\ place \in Nat /\ played \in Nat
      /\ sess \in [Shards -> Session] /\ saver \in [Shards -> Save]
      /\ l \in Login /\ l.shard \in Shards /\ l.epoch \in Nat /\ l.epoch <= row
  BY DEF OwnInv, TypeOK, EpochsMinted, Login
<1>1. CASE LoginClaim(l)
  <2>1. row' \in Nat /\ row' > row
    BY <1>0, <1>1, RowTypes DEF LoginClaim
  <2>2. [l EXCEPT !.pc = "attaching", !.epoch = row'] \in Login
    BY <1>0, <2>1 DEF Login
  <2>3. [l EXCEPT !.pc = "attaching", !.epoch = row'].epoch = row'
    BY <1>0 DEF Login
  <2>4. TypeOK'
    BY <1>1, <2>1, <2>2 DEF OwnInv, TypeOK, LoginClaim
  <2>5. \A k \in logins' : k.epoch <= row'
    <3>1. \A k \in logins : k.epoch \in Nat /\ k.epoch <= row
      BY DEF OwnInv, TypeOK, EpochsMinted, Login
    <3>2. \A k \in logins : k.epoch <= row'
      BY <1>0, <2>1, <3>1
    <3>3. row' <= row'
      BY <2>1
    <3>. QED
      BY <1>1, <2>3, <3>2, <3>3 DEF LoginClaim
  <2>6. EpochsMinted'
    BY <1>0, <1>1, <2>1, <2>5 DEF OwnInv, TypeOK, EpochsMinted, LoginClaim, Session, Save, Handoff, Target
  <2>7. FirstClaim'
    BY <1>0, <2>1 DEF FirstClaim
  <2>. QED
    BY <2>4, <2>6, <2>7 DEF OwnInv
<1>2. CASE LoginRefused(l)
  <2>1. row' \in Nat /\ row' >= row
    BY <1>0, <1>2, LostClaimTypes DEF LoginRefused
  <2>2. logins' \subseteq logins
    BY <1>2 DEF LoginRefused
  <2>3. TypeOK'
    BY <1>2, <2>1, <2>2 DEF OwnInv, TypeOK, LoginRefused
  <2>4. EpochsMinted'
    BY <1>0, <1>2, <2>1, <2>2 DEF OwnInv, TypeOK, EpochsMinted, LoginRefused, Session, Save, Handoff, Target, Login
  <2>5. FirstClaim'
    BY <1>0, <1>2, <2>1, <2>2 DEF OwnInv, FirstClaim, LoginRefused, Present
  <2>. QED
    BY <2>3, <2>4, <2>5 DEF OwnInv
<1>3. CASE AttachFresh(l)
  <2>. DEFINE e == Larger(1, l.epoch)
              x == [NoSession EXCEPT !.mode = "live", !.epoch = e, !.gen = 1, !.linked = TRUE]
  <2>1. row >= 1
    BY <1>3 DEF OwnInv, FirstClaim, AttachFresh
  <2>2. e \in Nat /\ e <= row
    BY <1>0, <2>1 DEF Larger
  <2>3. x \in Session /\ x.epoch = e
    BY <2>2 DEF NoSession, Session
  <2>4. sess' = [sess EXCEPT ![l.shard] = x] /\ row' = row /\ saver' = saver
    BY <1>3 DEF AttachFresh, SetSession
  <2>5. place' \in Nat /\ place' <= row /\ played' \in Nat /\ played' <= row
    BY <1>0, <1>3, <2>2, RowTypes DEF AttachFresh, Register, OwnInv, EpochsMinted
  <2>6. logins' \subseteq logins
    BY <1>3 DEF AttachFresh
  <2>7. sess' \in [Shards -> Session] /\ \A s \in Shards : sess'[s].epoch <= row
    BY <1>0, <2>2, <2>3, <2>4 DEF OwnInv, EpochsMinted
  <2>8. TypeOK'
    BY <1>3, <2>4, <2>5, <2>6, <2>7 DEF OwnInv, TypeOK, AttachFresh
  <2>9. EpochsMinted'
    BY <1>3, <2>4, <2>5, <2>6, <2>7 DEF OwnInv, EpochsMinted, AttachFresh
  <2>. QED
    BY <2>1, <2>4, <2>8, <2>9 DEF OwnInv, FirstClaim
<1>4. CASE AttachResume(l)
  <2>. DEFINE s == l.shard
              e == Larger(sess[s].epoch, l.epoch)
              x == [sess[s] EXCEPT !.linked = TRUE, !.detached = FALSE,
                                   !.epoch = e, !.gen = @ + 1]
  <2>1. sess[s] \in Session /\ sess[s].epoch \in Nat /\ sess[s].epoch <= row
    BY <1>0 DEF OwnInv, EpochsMinted, Session
  <2>2. e \in Nat /\ e <= row
    BY <1>0, <2>1 DEF Larger
  <2>3. x \in Session /\ x.epoch = e
    BY <2>1, <2>2, ResumedTypes
  <2>4. sess' = [sess EXCEPT ![s] = x] /\ row' = row /\ saver' = saver
    BY <1>4 DEF AttachResume, SetSession
  <2>5. played' \in Nat /\ played' <= row
    BY <1>0, <1>4, <2>2, RowTypes DEF AttachResume, OwnInv, EpochsMinted
  <2>6. logins' \subseteq logins
    BY <1>4 DEF AttachResume
  <2>7. sess' \in [Shards -> Session] /\ \A t \in Shards : sess'[t].epoch <= row
    BY <1>0, <2>2, <2>3, <2>4 DEF OwnInv, EpochsMinted
  <2>8. TypeOK'
    BY <1>4, <2>4, <2>5, <2>6, <2>7 DEF OwnInv, TypeOK, AttachResume
  <2>9. EpochsMinted'
    BY <1>4, <2>4, <2>5, <2>6, <2>7 DEF OwnInv, EpochsMinted, AttachResume
  <2>10. row >= 1
    BY <1>0, <1>4 DEF OwnInv, FirstClaim, AttachResume
  <2>. QED
    BY <2>4, <2>8, <2>9, <2>10 DEF OwnInv, FirstClaim
<1>5. CASE AttachRejected(l)
  BY <1>5 DEF OwnInv, TypeOK, EpochsMinted, FirstClaim, Present, AttachRejected
<1>. QED
  BY <1>1, <1>2, <1>3, <1>4, <1>5 DEF LoginNext

\* A login begins.
LEMMA LoginStartStep ==
  ASSUME OwnInv, NEW s \in Shards, LoginStart(s)
  PROVE  OwnInv'
<1>. USE DEF zoneVars, netVars
<1>1. PICK resume \in {place, 0} :
        logins' = logins \cup {[shard |-> s, epoch |-> resume,
                                pc |-> IF Present(s) THEN "attaching" ELSE "claiming"]}
  BY DEF LoginStart
<1>2. row \in Nat /\ resume \in Nat /\ resume <= row
  BY DEF OwnInv, TypeOK, EpochsMinted
<1>3. TypeOK'
  <2>1. logins' \in SUBSET Login
    BY <1>1, <1>2 DEF OwnInv, TypeOK, Login
  <2>. QED
    BY <2>1 DEF OwnInv, TypeOK, LoginStart
<1>4. EpochsMinted'
  <2>1. \A l \in logins' : l.epoch <= row
    BY <1>1, <1>2 DEF OwnInv, EpochsMinted
  <2>. QED
    BY <2>1 DEF OwnInv, EpochsMinted, LoginStart
<1>5. FirstClaim'
  BY <1>1 DEF OwnInv, FirstClaim, LoginStart, Present
<1>. QED
  BY <1>3, <1>4, <1>5 DEF OwnInv

\* A redirected gate binds the pending session.
LEMMA BindStep ==
  ASSUME OwnInv, NEW s \in Shards, Bind(s)
  PROVE  OwnInv'
<1>. USE DEF zoneVars, netVars
<1>. DEFINE x == [sess[s] EXCEPT !.mode = "live", !.linked = TRUE, !.told = FALSE,
                                 !.token = 0, !.gen = @ + 1]
<1>1. /\ row \in Nat /\ place \in Nat /\ place <= row /\ played \in Nat /\ played <= row
      /\ sess[s] \in Session /\ sess[s].epoch \in Nat /\ sess[s].epoch <= row
  BY SessionTypes DEF OwnInv, TypeOK, EpochsMinted
<1>2. row >= 1
  BY DEF Bind, Present, OwnInv, FirstClaim
<1>3. x \in Session /\ x.epoch = sess[s].epoch
  BY <1>1, BoundTypes
<1>4. SetSession(s, x) /\ row' = row /\ saver' = saver
  BY DEF Bind
<1>5. ZonesMinted'
  BY <1>1, <1>2, <1>3, <1>4, SetZones
<1>6. place' \in Nat /\ place' <= row /\ played' \in Nat /\ played' <= row
  BY <1>1, RowTypes DEF Bind, Register
<1>7. HandsMinted'
  BY Halves DEF Bind, HandsMinted
<1>. QED
  BY <1>4, <1>5, <1>6, <1>7, NothingMinted DEF Bind, OwnInv, TypeOK

\* The zone's own steps: a stream or a process ends, a timer fires.
LEMMA SessionStep ==
  ASSUME OwnInv, NEW s \in Shards,
         SessionNext(s) \/ Reap(s) \/ PendingExpire(s)
  PROVE  OwnInv'
<1>. USE DEF zoneVars, netVars
<1>1. /\ row \in Nat /\ place \in Nat /\ place <= row /\ played \in Nat /\ played <= row
      /\ sess[s] \in Session /\ sess[s].epoch \in Nat /\ sess[s].epoch <= row
      /\ saver[s] \in Save /\ timers \in [Shards -> SUBSET Nat]
  BY SessionTypes DEF OwnInv, TypeOK, EpochsMinted
<1>2. CASE Detach(s)
  <2>. DEFINE x == [sess[s] EXCEPT !.linked = FALSE]
              y == [x EXCEPT !.streamGone = TRUE]
  <2>1. x \in Session /\ x.epoch = sess[s].epoch /\ x.mode = sess[s].mode
    BY <1>1, CutTypes
  <2>2. y \in Session /\ y.epoch = x.epoch /\ y.mode = x.mode
    BY <2>1, StreamGoneTypes
  <2>3. x.mode # "absent" => row >= 1
    BY <2>1, Halves DEF ZonesMinted, Present
  <2>4. row' = row
    BY <1>2 DEF Detach
  <2>5. ZonesMinted'
    <3>1. CASE x.mode = "frozen"
      <4>1. SetSession(s, y) /\ saver' = saver
        BY <1>2, <3>1 DEF Detach
      <4>. QED
        BY <1>1, <2>1, <2>2, <2>3, <2>4, <4>1, SetZones
    <3>2. CASE x.mode # "frozen"
      <4>1. MaybeLinkDeath(s, x, TRUE)
        BY <1>2, <3>2 DEF Detach
      <4>. QED
        BY <1>1, <2>1, <2>3, <2>4, <4>1, LinkDeathZones
    <3>. QED
      BY <3>1, <3>2
  <2>6. HandsMinted'
    BY <1>2, Halves DEF Detach, HandsMinted
  <2>. QED
    BY <1>1, <1>2, <2>5, <2>6, NothingMinted DEF Detach
<1>3. CASE CleanLeave(s) \/ Reap(s)
  <2>1. ZonesMinted'
    BY <1>3, LeaveZones DEF CleanLeave, Reap, Leave
  <2>2. HandsMinted'
    BY <1>3, Halves DEF CleanLeave, Reap, HandsMinted
  <2>. QED
    BY <1>1, <1>3, <2>1, <2>2, NothingMinted DEF CleanLeave, Reap
<1>4. CASE Crash(s)
  <2>1. ZonesMinted'
    <3>1. NoSession \in Session /\ NoSession.mode = "absent" /\ NoSession.epoch = 0
      BY EmptyTypes DEF NoSession
    <3>2. NoSave \in Save /\ NoSave.epoch = 0
      BY EmptyTypes DEF NoSave
    <3>. QED
      BY <1>1, <1>4, <3>1, <3>2, Halves DEF Crash, SetSession, ZonesMinted, Present
  <2>2. HandsMinted'
    BY <1>4, Halves DEF Crash, HandsMinted
  <2>3. timers' \in [Shards -> SUBSET Nat]
    BY <1>1, <1>4 DEF Crash
  <2>. QED
    BY <1>1, <1>4, <2>1, <2>2, <2>3, NothingMinted DEF Crash
<1>5. CASE PendingExpire(s)
  <2>1. ZonesMinted'
    BY <1>5, LeaveZones DEF PendingExpire
  <2>2. HandsMinted'
    BY <1>5, Halves DEF PendingExpire, HandsMinted
  <2>. QED
    BY <1>1, <1>5, <2>1, <2>2, NothingMinted DEF PendingExpire
<1>. QED
  BY <1>2, <1>3, <1>4, <1>5 DEF SessionNext

\* The backstop, on time or early.
LEMMA ReapOrThawZones ==
  ASSUME OwnInv, row' = row, NEW s \in Shards, NEW gen \in Nat, ReapOrThaw(s, gen)
  PROVE  ZonesMinted'
<1>. DEFINE y == [sess[s] EXCEPT !.mode = "live"]
<1>1. sess[s] \in Session /\ sess[s].epoch <= row /\ sess[s].streamGone \in BOOLEAN
  BY SessionTypes, Halves DEF ZonesMinted
<1>2. y \in Session /\ y.epoch = sess[s].epoch
  BY <1>1, ThawedTypes
<1>3. CASE sess[s].mode # "frozen" \/ sess[s].gen # gen
  BY <1>3, Halves DEF ReapOrThaw, ZonesMinted, Present
<1>4. CASE sess[s].mode = "frozen" /\ sess[s].gen = gen /\ sess[s].handedOff
  BY <1>4, LeaveZones DEF ReapOrThaw
<1>5. CASE sess[s].mode = "frozen" /\ sess[s].gen = gen /\ ~sess[s].handedOff
  <2>1. MaybeLinkDeath(s, y, sess[s].streamGone)
    BY <1>5 DEF ReapOrThaw
  <2>2. row >= 1
    BY <1>5, Halves DEF ZonesMinted, Present
  <2>. QED
    BY <1>1, <1>2, <2>1, <2>2, LinkDeathZones
<1>. QED
  BY <1>3, <1>4, <1>5

\* A freeze timer fires.
LEMMA FreezeStep ==
  ASSUME OwnInv, NEW s \in Shards, NEW gen \in timers[s], FreezeExpire(s, gen)
  PROVE  OwnInv'
<1>. USE DEF zoneVars, netVars
<1>1. /\ timers \in [Shards -> SUBSET Nat] /\ gen \in Nat
      /\ place \in Nat /\ place <= row /\ played \in Nat /\ played <= row
  BY DEF OwnInv, TypeOK, EpochsMinted
<1>2. ZonesMinted'
  BY <1>1, ReapOrThawZones DEF FreezeExpire
<1>3. HandsMinted'
  BY Halves DEF FreezeExpire, HandsMinted
<1>4. timers' \in [Shards -> SUBSET Nat]
  BY <1>1 DEF FreezeExpire
<1>. QED
  BY <1>1, <1>2, <1>3, <1>4, NothingMinted DEF FreezeExpire

\* The backstop of a handoff still under way fires.
LEMMA FreezeEarlyStep ==
  ASSUME OwnInv, NEW h \in hand, FreezeExpireEarly(h)
  PROVE  OwnInv'
<1>. DEFINE k == [h EXCEPT !.armed = FALSE]
<1>1. /\ h \in Handoff /\ h.src \in Shards /\ h.gen \in Nat /\ h.epoch <= row
      /\ place \in Nat /\ place <= row /\ played \in Nat /\ played <= row
  BY DEF OwnInv, TypeOK, EpochsMinted, Handoff
<1>2. k \in Handoff /\ k.epoch = h.epoch
  BY <1>1 DEF Handoff
<1>3. ZonesMinted'
  BY <1>1, ReapOrThawZones DEF FreezeExpireEarly
<1>4. HandsMinted'
  BY <1>1, <1>2, Halves DEF FreezeExpireEarly, HandsMinted
<1>. QED
  BY <1>1, <1>3, <1>4, NothingMinted DEF FreezeExpireEarly, OwnInv, TypeOK

\* A player is frozen and its move begins.
LEMMA StartStep ==
  ASSUME OwnInv, NEW s \in Shards, NEW t \in Shards, StartHandoff(s, t)
  PROVE  OwnInv'
<1>. DEFINE x == [sess[s] EXCEPT !.mode = "frozen", !.handedOff = FALSE]
            k == [pc |-> "start", src |-> s, dst |-> t, base |-> sess[s].epoch,
                  epoch |-> 0, gen |-> sess[s].gen, armed |-> TRUE]
<1>1. /\ sess[s] \in Session /\ sess[s].epoch \in Nat /\ sess[s].gen \in Nat
      /\ sess[s].epoch <= row /\ row \in Nat
      /\ place \in Nat /\ place <= row /\ played \in Nat /\ played <= row
  BY SessionTypes DEF OwnInv, TypeOK, EpochsMinted
<1>2. x \in Session /\ x.epoch = sess[s].epoch
  BY <1>1, FrozenTypes
<1>3. k \in Handoff /\ k.epoch = 0
  BY <1>1 DEF Handoff
<1>4. row >= 1
  BY Halves DEF StartHandoff, Live, Present, ZonesMinted
<1>5. SetSession(s, x) /\ row' = row /\ saver' = saver /\ hand' = hand \cup {k}
  BY DEF StartHandoff
<1>6. ZonesMinted'
  BY <1>1, <1>2, <1>4, <1>5, SetZones
<1>7. HandsMinted'
  <2>. HIDE DEF k
  <2>1. k \in Handoff /\ k.epoch <= row
    BY <1>1, <1>3
  <2>. QED
    BY <1>5, <2>1, Halves DEF HandsMinted
<1>. QED
  BY <1>1, <1>5, <1>6, <1>7, NothingMinted DEF StartHandoff, OwnInv, TypeOK

\* The destination answers a Prepare.
LEMMA PrepareStep ==
  ASSUME OwnInv, NEW p \in prepares, PrepareAccepted(p) \/ PrepareRefused(p)
  PROVE  OwnInv'
<1>1. /\ p.dst \in Shards /\ p.epoch \in Nat /\ p.epoch <= row /\ row >= 1
      /\ place \in Nat /\ place <= row /\ played \in Nat /\ played <= row
  BY DEF OwnInv, TypeOK, EpochsMinted, FirstClaim, Target
<1>2. ASSUME NEW pc \in {"prepared", "failing"}, Reply(p, pc), row' = row
      PROVE  HandsMinted'
  <2>1. ASSUME NEW h \in hand
        PROVE  [h EXCEPT !.pc = pc] \in Handoff /\ [h EXCEPT !.pc = pc].epoch = h.epoch
    BY Halves DEF HandsMinted, Handoff
  <2>2. \A g \in hand' : \E h \in hand : g = h \/ g = [h EXCEPT !.pc = pc]
    BY <1>2 DEF Reply
  <2>. QED
    BY <1>2, <2>1, <2>2, Halves DEF HandsMinted
<1>3. CASE PrepareAccepted(p)
  <2>. DEFINE x == [NoSession EXCEPT !.mode = "pending", !.epoch = p.epoch, !.token = p.epoch]
  <2>1. x \in Session /\ x.epoch = p.epoch
    BY <1>1 DEF NoSession, Session
  <2>2. SetSession(p.dst, x) /\ row' = row /\ saver' = saver
    BY <1>3 DEF PrepareAccepted
  <2>3. ZonesMinted'
    BY <1>1, <2>1, <2>2, SetZones
  <2>4. HandsMinted'
    BY <1>2, <1>3 DEF PrepareAccepted
  <2>. QED
    BY <1>1, <1>3, <2>3, <2>4, NothingMinted DEF PrepareAccepted, OwnInv, TypeOK
<1>4. CASE PrepareRefused(p)
  <2>1. sess' = sess \/ SetSession(p.dst, NoSession)
    BY <1>4 DEF PrepareRefused
  <2>2. row' = row /\ saver' = saver
    BY <1>4 DEF PrepareRefused
  <2>3. ZonesMinted'
    <3>1. CASE sess' = sess
      BY <2>2, <3>1, Halves DEF ZonesMinted, Present
    <3>. QED
      BY <1>1, <2>1, <2>2, <3>1, LeaveZones
  <2>4. HandsMinted'
    BY <1>2, <1>4 DEF PrepareRefused
  <2>. QED
    BY <1>1, <1>4, <2>3, <2>4, NothingMinted DEF PrepareRefused, OwnInv, TypeOK
<1>. QED
  BY <1>3, <1>4

\* The steps of beginHandoff that mint: the row only grows, and the destination
\* is promised what it grew to.
LEMMA MintStep ==
  ASSUME OwnInv, NEW h \in hand, Mint(h) \/ MintFails(h)
  PROVE  OwnInv'
<1>. USE DEF zoneVars, netVars
<1>1. /\ row \in Nat /\ h \in Handoff /\ h.base \in Nat /\ h.dst \in Shards
      /\ hand \in SUBSET Handoff
  BY DEF OwnInv, TypeOK, Handoff
<1>2. /\ place \in Nat /\ place <= row /\ played \in Nat /\ played <= row
      /\ \A s \in Shards : /\ sess[s].epoch \in Nat /\ sess[s].epoch <= row
                           /\ saver[s].epoch \in Nat /\ saver[s].epoch <= row
      /\ \A k \in hand : k.epoch \in Nat /\ k.epoch <= row
      /\ \A k \in prepares : k.epoch \in Nat /\ k.epoch <= row
      /\ \A k \in logins : k.epoch \in Nat /\ k.epoch <= row
  BY DEF OwnInv, TypeOK, EpochsMinted, Session, Save, Handoff, Target, Login
<1>3. ASSUME row' \in Nat, row' >= row,
             place' = place, played' = played, sess' = sess, saver' = saver, logins' = logins,
             \A k \in hand' : (\E j \in hand : k.epoch = j.epoch) \/ k.epoch = row',
             \A k \in prepares' : k \in prepares \/ k.epoch = row'
      PROVE  EpochsMinted'
  <2>1. place' <= row' /\ played' <= row'
    BY <1>1, <1>2, <1>3
  <2>2. \A s \in Shards : sess'[s].epoch <= row' /\ saver'[s].epoch <= row'
    BY <1>1, <1>2, <1>3
  <2>3. \A k \in logins' : k.epoch <= row'
    BY <1>1, <1>2, <1>3
  <2>4. \A k \in prepares' : k.epoch <= row'
    BY <1>1, <1>2, <1>3
  <2>5. \A k \in hand' : k.epoch <= row'
    BY <1>1, <1>2, <1>3
  <2>. QED
    BY <2>1, <2>2, <2>3, <2>4, <2>5 DEF EpochsMinted
<1>4. CASE Mint(h)
  <2>. DEFINE e == ClaimCharacter(row, h.base)
              k == [h EXCEPT !.pc = "sent", !.epoch = e]
              p == [dst |-> h.dst, epoch |-> e]
  <2>1. e \in Nat /\ e > row
    BY <1>1, RowTypes
  <2>. HIDE DEF e
  <2>2. k \in Handoff /\ k.epoch = e
    BY <1>1, <2>1 DEF Handoff
  <2>3. p \in Target /\ p.epoch = e
    BY <1>1, <2>1 DEF Target
  <2>4. row' = e /\ hand' = (hand \ {h}) \cup {k} /\ prepares' = prepares \cup {p}
    BY <1>4 DEF Mint, e
  <2>. HIDE DEF k, p
  <2>5. TypeOK'
    BY <1>4, <2>1, <2>2, <2>3, <2>4 DEF OwnInv, TypeOK, Mint
  <2>6. EpochsMinted'
    <3>1. \A j \in hand' : (\E i \in hand : j.epoch = i.epoch) \/ j.epoch = row'
      BY <2>2, <2>4
    <3>2. \A j \in prepares' : j \in prepares \/ j.epoch = row'
      BY <2>3, <2>4
    <3>3. row' \in Nat /\ row' >= row
      BY <1>1, <2>1, <2>4
    <3>. QED
      BY <1>3, <1>4, <3>1, <3>2, <3>3 DEF Mint
  <2>7. row' >= 1
    BY <1>1, <2>1, <2>4
  <2>. QED
    BY <2>5, <2>6, <2>7 DEF OwnInv, FirstClaim
<1>5. CASE MintFails(h)
  <2>1. row' \in Nat /\ row' >= row
    BY <1>1, <1>5, LostClaimTypes DEF MintFails
  <2>2. /\ hand' \in SUBSET Handoff
        /\ \A j \in hand' : \E i \in hand : j.epoch = i.epoch
    BY <1>1, <1>5, AdvanceTypes DEF MintFails
  <2>3. TypeOK'
    BY <1>5, <2>1, <2>2 DEF OwnInv, TypeOK, MintFails
  <2>4. EpochsMinted'
    BY <1>3, <1>5, <2>1, <2>2 DEF MintFails
  <2>5. FirstClaim'
    BY <1>1, <1>5, <2>1 DEF OwnInv, FirstClaim, MintFails, Present
  <2>. QED
    BY <2>3, <2>4, <2>5 DEF OwnInv
<1>. QED
  BY <1>4, <1>5

\* The other steps of beginHandoff.
LEMMA HandoffStep ==
  ASSUME OwnInv, NEW h \in hand, HandoffNext(h)
  PROVE  OwnInv'
<1>. USE DEF zoneVars, netVars
<1>1. /\ row \in Nat /\ h \in Handoff /\ h.src \in Shards /\ h.dst \in Shards
      /\ h.epoch \in Nat /\ h.gen \in Nat /\ h.epoch <= row
      /\ place \in Nat /\ place <= row /\ played \in Nat /\ played <= row
      /\ timers \in [Shards -> SUBSET Nat] /\ hand \in SUBSET Handoff
      /\ \A s \in Shards : sess[s] \in Session /\ sess[s].epoch <= row
  BY DEF OwnInv, TypeOK, EpochsMinted, Handoff
<1>2. ASSUME NEW pc \in {"failing", "aborting", "committed", "marked"}, Advance(h, pc), row' = row
      PROVE  HandsMinted'
  <2>1. /\ hand' \in SUBSET Handoff
        /\ \A j \in hand' : \E i \in hand : j.epoch = i.epoch
    BY <1>1, <1>2, AdvanceTypes
  <2>. QED
    BY <1>2, <2>1, Halves DEF HandsMinted
<1>3. ASSUME hand' = hand \ {h}, row' = row, Outlive(h)
      PROVE  HandsMinted' /\ timers' \in [Shards -> SUBSET Nat]
  BY <1>1, <1>3, Halves DEF HandsMinted, Outlive
<1>4. CASE PrepareTimeout(h)
  <2>1. ZonesMinted'
    BY <1>4, Halves DEF PrepareTimeout, ZonesMinted, Present
  <2>. QED
    BY <1>1, <1>2, <1>4, <2>1, NothingMinted DEF PrepareTimeout
<1>5. CASE ClaimPlacement(h)
  <2>1. ZonesMinted'
    BY <1>5, Halves DEF ClaimPlacement, ZonesMinted, Present
  <2>. QED
    BY <1>1, <1>2, <1>5, <2>1, NothingMinted DEF ClaimPlacement
<1>6. CASE ClaimPlacementFails(h)
  <2>1. ZonesMinted'
    BY <1>6, Halves DEF ClaimPlacementFails, ZonesMinted, Present
  <2>2. place' \in {place, h.epoch}
    BY <1>6 DEF ClaimPlacementFails
  <2>. QED
    BY <1>1, <1>2, <1>6, <2>1, <2>2, NothingMinted DEF ClaimPlacementFails
<1>7. CASE Abort(h)
  <2>1. sess' = sess \/ SetSession(h.dst, NoSession)
    BY <1>7 DEF Abort, SetSession
  <2>2. ZonesMinted'
    <3>1. CASE sess' = sess
      BY <1>7, <3>1, Halves DEF Abort, ZonesMinted, Present
    <3>. QED
      BY <1>1, <1>7, <2>1, <3>1, LeaveZones DEF Abort
  <2>. QED
    BY <1>1, <1>2, <1>7, <2>2, NothingMinted DEF Abort
<1>8. CASE HandoffFailed(h)
  <2>. DEFINE s == h.src
              adopt == Present(s) /\ h.epoch > sess[s].epoch
              x == [sess[s] EXCEPT !.mode = IF @ = "frozen" THEN "live" ELSE @,
                                   !.epoch = IF adopt THEN h.epoch ELSE @]
  <2>1. /\ x \in Session /\ x.epoch \in {h.epoch, sess[s].epoch}
        /\ x.mode # "absent" => Present(s)
    <3>. DEFINE m == IF sess[s].mode = "frozen" THEN "live" ELSE sess[s].mode
                e == IF adopt THEN h.epoch ELSE sess[s].epoch
    <3>1. m \in {"absent", "live", "frozen", "pending"} /\ (m # "absent" => Present(s))
      BY <1>1 DEF Session, Present
    <3>2. e \in Nat /\ e \in {h.epoch, sess[s].epoch}
      BY <1>1, SessionTypes
    <3>3. x = [sess[s] EXCEPT !.mode = m, !.epoch = e]
      OBVIOUS
    <3>4. sess[s] \in Session
      BY <1>1
    <3>. HIDE DEF m, e, x, s
    <3>5. x \in Session /\ x.epoch = e /\ x.mode = m
      BY <3>1, <3>2, <3>3, <3>4 DEF Session
    <3>. QED
      BY <3>1, <3>2, <3>5
  <2>2. row' = row /\ MaybeLinkDeath(s, x, x.streamGone)
    BY <1>8 DEF HandoffFailed
  <2>3. place' \in Nat /\ place' <= row /\ played' \in Nat /\ played' <= row
    BY <1>1, <1>8, RowTypes DEF HandoffFailed, Register
  <2>. HIDE DEF x
  <2>4. x.streamGone \in BOOLEAN /\ x.epoch <= row
    BY <1>1, <2>1, SessionTypes
  <2>5. x.mode # "absent" => row >= 1
    BY <1>1, <2>1, Halves DEF ZonesMinted
  <2>6. ZonesMinted'
    BY <1>1, <2>1, <2>2, <2>4, <2>5, LinkDeathZones
  <2>. QED
    BY <1>1, <1>3, <1>8, <2>3, <2>6, NothingMinted DEF HandoffFailed
<1>9. CASE MarkHandedOff(h)
  <2>. DEFINE x == [sess[h.src] EXCEPT !.handedOff = TRUE]
  <2>1. x \in Session /\ x.epoch = sess[h.src].epoch /\ x.mode = sess[h.src].mode
    BY <1>1, HandedTypes
  <2>2. sess' = sess \/ SetSession(h.src, x)
    BY <1>9 DEF MarkHandedOff
  <2>3. ZonesMinted'
    <3>1. CASE sess' = sess
      BY <1>9, <3>1, Halves DEF MarkHandedOff, ZonesMinted, Present
    <3>2. x.mode # "absent" => row >= 1
      BY <1>1, <2>1, Halves DEF ZonesMinted, Present
    <3>. QED
      BY <1>1, <1>9, <2>1, <2>2, <3>1, <3>2, SetZones DEF MarkHandedOff
  <2>. QED
    BY <1>1, <1>2, <1>9, <2>3, NothingMinted DEF MarkHandedOff
<1>10. CASE Redirect(h)
  <2>. DEFINE s == h.src
              x == [sess[s] EXCEPT !.epoch = h.epoch]
  <2>1. x \in Session /\ x.epoch = h.epoch /\ x.mode = sess[s].mode
    BY <1>1, MovedTypes
  <2>2. ZonesMinted'
    <3>1. CASE sess' = sess
      BY <1>10, <3>1, Halves DEF Redirect, ZonesMinted, Present
    <3>2. CASE sess' # sess
      <4>. DEFINE heard(t) == [sess[t] EXCEPT !.told = @ \/ Told(h)]
      <4>1. PICK y \in {x, NoSession} :
              sess' = [t \in Shards |-> IF t = s THEN y
                                       ELSE IF t = h.dst THEN heard(t) ELSE sess[t]]
        BY <1>10, <3>2 DEF Redirect
      <4>2. Present(s)
        BY <1>10, <3>2 DEF Redirect
      <4>3. row >= 1
        BY <1>1, <4>2, Halves DEF ZonesMinted
      <4>4. NoSession \in Session /\ NoSession.epoch = 0
        BY EmptyTypes DEF NoSession
      <4>. HIDE DEF x
      <4>5. y \in Session /\ y.epoch <= row
        BY <1>1, <2>1, <4>4
      <4>6. ASSUME NEW t \in Shards PROVE heard(t) \in Session /\ heard(t).epoch <= row
        BY <1>1, HeardTypes
      <4>. HIDE DEF heard
      <4>8. sess' \in [Shards -> Session] /\ \A t \in Shards : sess'[t].epoch <= row
        BY <1>1, <4>1, <4>5, <4>6
      <4>. QED
        BY <1>10, <4>3, <4>8, Halves DEF Redirect, ZonesMinted
    <3>. QED
      BY <3>1, <3>2
  <2>. QED
    BY <1>1, <1>3, <1>10, <2>2, NothingMinted DEF Redirect
<1>. QED
  BY <1>4, <1>5, <1>6, <1>7, <1>8, <1>9, <1>10, MintStep DEF HandoffNext

\* The save cadence, the saver and its verdict: an applied save leaves the row
\* where it was, as nothing above it is ever queued.
LEMMA SaverStep ==
  ASSUME OwnInv, NEW s \in Shards, SaveTick(s) \/ SaverNext(s)
  PROVE  OwnInv'
<1>. USE DEF zoneVars, netVars
<1>1. /\ row \in Nat /\ place \in Nat /\ place <= row /\ played \in Nat /\ played <= row
      /\ sess \in [Shards -> Session] /\ saver \in [Shards -> Save]
      /\ sess[s].epoch \in Nat /\ sess[s].epoch <= row
      /\ saver[s].epoch \in Nat /\ saver[s].epoch <= row
      /\ timers \in [Shards -> SUBSET Nat]
  BY DEF OwnInv, TypeOK, EpochsMinted, Session, Save
<1>2. ASSUME row' = row, sess' = sess, NEW x \in Save, x.epoch <= row, SetSave(s, x)
      PROVE  ZonesMinted'
  BY <1>1, <1>2, Halves DEF SetSave, ZonesMinted, Present
<1>3. ASSUME row' = row, place' = place, timers' = timers, hand' = hand, prepares' = prepares,
             logins' = logins, played' = played, ZonesMinted'
      PROVE  OwnInv'
  <2>1. HandsMinted'
    BY <1>3, Halves DEF HandsMinted
  <2>. QED
    BY <1>1, <1>3, <2>1, NothingMinted
<1>4. NoSave \in Save /\ NoSave.epoch <= row
  BY <1>1 DEF NoSave, Save
<1>5. CASE SaveTick(s)
  <2>1. ZonesMinted'
    BY <1>1, <1>5, EnqueueTypes, Halves DEF SaveTick, ZonesMinted, Present
  <2>. QED
    BY <1>3, <1>5, <2>1 DEF SaveTick
<1>6. CASE SaveApplied(s)
  <2>1. row' = row
    BY <1>1, <1>6 DEF SaveApplied, SaveOwned, SaveCharacter, Larger
  <2>. QED
    BY <1>2, <1>3, <1>4, <1>6, <2>1 DEF SaveApplied
<1>7. CASE SaveStale(s)
  <2>. DEFINE x == [pc |-> "queued", epoch |-> sess[s].epoch]
  <2>1. x \in Save /\ x.epoch <= row
    BY <1>1 DEF Save
  <2>2. SetSave(s, x)
    BY <1>7 DEF SaveStale
  <2>. HIDE DEF x
  <2>. QED
    BY <1>2, <1>3, <1>7, <2>1, <2>2 DEF SaveStale
<1>8. CASE SaveNotOwner(s)
  <2>1. PICK owner \in {row, saver[s].epoch + 1} :
          SetSave(s, [pc |-> "refused", epoch |-> owner])
    BY <1>8 DEF SaveNotOwner
  <2>2. owner \in Nat /\ owner <= row
    BY <1>1, <1>8 DEF SaveNotOwner, SaveOwned
  <2>. DEFINE x == [pc |-> "refused", epoch |-> owner]
  <2>3. x \in Save /\ x.epoch <= row
    BY <2>2 DEF Save
  <2>. HIDE DEF x
  <2>. QED
    BY <1>2, <1>3, <1>8, <2>1, <2>3 DEF SaveNotOwner, x
<1>9. CASE SaveFails(s)
  BY <1>2, <1>3, <1>4, <1>9 DEF SaveFails
<1>10. CASE OwnershipLost(s)
  <2>1. ZonesMinted'
    <3>1. CASE sess' = sess
      BY <1>2, <1>4, <1>10, <3>1 DEF OwnershipLost
    <3>2. CASE SetSession(s, NoSession)
      <4>1. NoSession \in Session /\ NoSession.mode = "absent" /\ NoSession.epoch = 0
        BY EmptyTypes DEF NoSession
      <4>. QED
        BY <1>1, <1>4, <1>10, <3>2, <4>1, Halves
        DEF OwnershipLost, SetSession, SetSave, ZonesMinted, Present
    <3>. QED
      BY <1>10, <3>1, <3>2 DEF OwnershipLost
  <2>. QED
    BY <1>3, <1>10, <2>1 DEF OwnershipLost
<1>. QED
  BY <1>5, <1>6, <1>7, <1>8, <1>9, <1>10 DEF SaverNext

-----------------------------------------------------------------------------
(* The theorems.                                                              *)

\* The invariant is inductive.
LEMMA OwnInductive == OwnInv /\ [Next]_vars => OwnInv'
<1>. SUFFICES ASSUME OwnInv, [Next]_vars PROVE OwnInv'
  OBVIOUS
<1>1. CASE UNCHANGED vars
  BY <1>1 DEF OwnInv, TypeOK, EpochsMinted, FirstClaim, Present, vars, zoneVars, netVars
<1>2. CASE LosePlacement
  <2>1. ZonesMinted' /\ HandsMinted'
    BY <1>2, Halves DEF LosePlacement, ZonesMinted, HandsMinted, Present, zoneVars, netVars
  <2>2. row \in Nat /\ played \in Nat /\ played <= row /\ timers \in [Shards -> SUBSET Nat]
    BY DEF OwnInv, TypeOK, EpochsMinted
  <2>3. /\ place' = 0 /\ row' = row /\ played' = played /\ timers' = timers
        /\ prepares' = prepares /\ logins' = logins
    BY <1>2 DEF LosePlacement, zoneVars, netVars
  <2>. QED
    BY <2>1, <2>2, <2>3, NothingMinted
<1>3. ASSUME NEW s \in Shards,
             \/ LoginStart(s) \/ Bind(s) \/ SessionNext(s) \/ TimerNext(s)
             \/ SaveTick(s) \/ SaverNext(s)
      PROVE  OwnInv'
  BY <1>3, LoginStartStep, BindStep, SessionStep, FreezeStep, SaverStep DEF TimerNext
<1>4. ASSUME NEW s \in Shards, NEW t \in Shards, StartHandoff(s, t) PROVE OwnInv'
  BY <1>4, StartStep
<1>5. ASSUME NEW l \in logins, LoginNext(l) PROVE OwnInv'
  BY <1>5, LoginStep
<1>6. ASSUME NEW p \in prepares, PrepareAccepted(p) \/ PrepareRefused(p) PROVE OwnInv'
  BY <1>6, PrepareStep
<1>7. ASSUME NEW h \in hand, HandoffNext(h) \/ FreezeExpireEarly(h) PROVE OwnInv'
  BY <1>7, HandoffStep, FreezeEarlyStep
<1>. QED
  BY <1>1, <1>2, <1>3, <1>4, <1>5, <1>6, <1>7 DEF Next

\* Every epoch a session, a handoff, a queued save, a Prepare, a login or the
\* placement record carries was minted by the row, however they interleave.
THEOREM OwnershipInvariant == Spec => []OwnInv
  <1>1. Init => OwnInv
    BY EmptyTypes
    DEF Init, OwnInv, TypeOK, EpochsMinted, FirstClaim, Present, NoSession, NoSave
  <1>. QED
    BY <1>1, OwnInductive, PTL DEF Spec

\* Type correctness of the session, handoff, saver and placement state.
THEOREM HandoffTypeCorrect == Spec => []TypeOK
  <1>1. OwnInv => TypeOK
    BY DEF OwnInv
  <1>. QED
    BY <1>1, OwnershipInvariant, PTL

\* No epoch exists that ClaimCharacter did not mint.
THEOREM OwnershipMinted == Spec => []EpochsMinted
  <1>1. OwnInv => EpochsMinted
    BY DEF OwnInv
  <1>. QED
    BY <1>1, OwnershipInvariant, PTL

\* The fence: a save is never applied under an epoch below one that went live.
THEOREM SavesAreFenced == Spec => SaveFence
  <1>. DEFINE Fenced == \A s \in Shards : SaveApplied(s) => played <= saver[s].epoch
  <1>1. OwnInv /\ [Next]_vars => [Fenced]_vars
    <2>. SUFFICES ASSUME OwnInv, NEW s \in Shards, SaveApplied(s)
                  PROVE  played <= saver[s].epoch
      OBVIOUS
    <2>1. row \in Nat /\ played \in Nat /\ played <= row /\ saver[s].epoch \in Nat
      BY DEF OwnInv, TypeOK, EpochsMinted, Save
    <2>2. row <= saver[s].epoch
      BY DEF SaveApplied, SaveOwned
    <2>. QED
      BY <2>1, <2>2
  <1>. QED
    BY <1>1, OwnershipInvariant, PTL DEF Spec, SaveFence

\* A login's claim is above the epoch of every session in the fleet.
THEOREM ClaimsSupersede == Spec => ClaimSupersedes
  <1>. DEFINE Above == \A l \in logins : LoginClaim(l) =>
                         \A s \in Shards : Present(s) => sess[s].epoch < row'
  <1>1. OwnInv /\ [Next]_vars => [Above]_vars
    <2>. SUFFICES ASSUME OwnInv, NEW l \in logins, LoginClaim(l), NEW s \in Shards
                  PROVE  sess[s].epoch < row'
      OBVIOUS
    <2>1. /\ row \in Nat /\ l.epoch \in Nat
          /\ sess[s].epoch \in Nat /\ sess[s].epoch <= row
      BY DEF OwnInv, TypeOK, EpochsMinted, Session, Login
    <2>2. row' \in Nat /\ row' > row
      BY <2>1, RowTypes DEF LoginClaim
    <2>. QED
      BY <2>1, <2>2
  <1>. QED
    BY <1>1, OwnershipInvariant, PTL DEF Spec, ClaimSupersedes

\* A late not-owner verdict never removes the session that owns the row.
THEOREM OwnerKept == Spec => OwnerNeverEvicted
  <1>. DEFINE Kept == \A s \in Shards :
                        OwnershipLost(s) /\ Live(s) /\ sess'[s] # sess[s] => sess[s].epoch < row
  <1>1. OwnInv /\ [Next]_vars => [Kept]_vars
    <2>. SUFFICES ASSUME OwnInv, NEW s \in Shards, OwnershipLost(s), Live(s), sess'[s] # sess[s]
                  PROVE  sess[s].epoch < row
      OBVIOUS
    <2>1. /\ row \in Nat /\ sess[s].epoch \in Nat
          /\ saver[s].epoch \in Nat /\ saver[s].epoch <= row
      BY DEF OwnInv, TypeOK, EpochsMinted, Session, Save
    <2>2. saver[s].epoch > sess[s].epoch
      BY DEF OwnershipLost
    <2>. QED
      BY <2>1, <2>2
  <1>. QED
    BY <1>1, OwnershipInvariant, PTL DEF Spec, OwnerNeverEvicted
=============================================================================
