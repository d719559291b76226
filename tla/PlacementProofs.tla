-------------------------- MODULE PlacementProofs --------------------------
(* Machine-checked proofs about where players and zones are, for any shards,  *)
(* zones and bounds: the directory names the newest session (PlayerPlacement), *)
(* a character has one live copy and no arrival meets a zone torn down        *)
(* (Residency), private instances stay within their caps (Instances), a drain  *)
(* that was given time loses nobody (ShardDrain), and drains at once share a    *)
(* target's ceiling (DrainTargets).                                            *)
EXTENDS PlayerPlacement, Residency, Instances, ShardDrain, DrainTargets,
        FiniteSetTheorems, FunctionTheorems, WellFoundedInduction, TLAPS

-----------------------------------------------------------------------------
(* The inductive invariant.  A session is current when its                    *)
(* epoch is the last one minted; what matters of an op is whether it belongs   *)
(* to a current session.                                                      *)

Current(s) == plSess[s].epoch = plMint
Ops(s) == {plPend[s], plWork[s]} \ {<<>>}
PlQueue == {<<>>} \cup {<<op>> : op \in PlOp}

PlTyped ==
  /\ plRec \in [shard : PlShards \cup {PlNowhere}, zone : PlZones \cup {PlNowhere},
                epoch : 0..PlMaxEpoch, nonce : 0..PlMaxSessions]
  /\ plSess \in [PlShards -> PlSession]
  /\ plPend \in [PlShards -> PlQueue] /\ plWork \in [PlShards -> PlQueue]
  /\ plBar \in [PlShards -> {"none", "queued", "taken", "closed", "failed"}]
  /\ plRun \in [PlShards -> BOOLEAN]
  /\ plMint \in 0..PlMaxEpoch /\ plNonce \in 0..PlMaxSessions
  /\ plFault \in BOOLEAN

\* Nothing carries an epoch that was not minted; a session that ever was, and an op, has one.
Minted ==
  /\ plRec.epoch <= plMint
  /\ plRec.epoch = 0 => plRec.shard = PlNowhere
  /\ \A s \in PlShards :
       /\ plSess[s].epoch <= plMint
       /\ plSess[s].live \/ plSess[s].own => plSess[s].epoch > 0 /\ plSess[s].zone \in PlZones
       /\ \A q \in Ops(s) : 0 < q[1].epoch /\ q[1].epoch <= plMint /\ q[1].zone \in PlZones

\* At most one session is current; only its shard holds ops of its epoch or is in its record.
OneCurrent ==
  plMint > 0 =>
    \A s \in PlShards :
      /\ \A t \in PlShards : Current(s) /\ Current(t) => s = t
      /\ \A q \in Ops(s) : q[1].epoch = plMint => Current(s)
      /\ Current(s) /\ plRec.epoch = plMint => plRec.shard \in {s, PlNowhere}

\* The nonce of a session whose epoch was minted for it is on its ops and never fences its
\* own tombstone out of the record, and nothing follows that tombstone.
OwnNonce ==
  \A s \in PlShards :
    Current(s) /\ plSess[s].own =>
      /\ \A q \in Ops(s) : q[1].epoch = plMint => q[1].nonce = plSess[s].nonce
      /\ \A q \in Ops(s) : q[1].epoch = plMint /\ q[1].clear => ~plSess[s].live
      /\ plWork[s] # <<>> /\ plWork[s][1].epoch = plMint /\ plWork[s][1].clear => plPend[s] = <<>>
      /\ plRec.epoch = plMint =>
           /\ plRec.nonce \in {0, plSess[s].nonce}
           /\ plRec.shard = s \/ (~plSess[s].live /\ plPend[s] = <<>> /\ plWork[s] = <<>>)

\* The op that says what the session is.
Describes(op, s) ==
  (op.clear <=> ~plSess[s].live) /\ op.zone = plSess[s].zone /\ op.epoch = plMint

\* The record that says what the session is.
Settled(s) ==
  IF plSess[s].live THEN plRec.epoch = plMint /\ plRec.shard = s /\ plRec.zone = plSess[s].zone
  ELSE plRec.epoch = plMint => plRec.shard = PlNowhere /\ plRec.zone = plSess[s].zone

\* The last thing said of a current session is the truth: the pending op, else the one
\* being written, else the record.
LastWordTrue ==
  ~plFault =>
    \A s \in PlShards :
      Current(s) /\ (plSess[s].live \/ plSess[s].own) =>
        IF plPend[s] # <<>> THEN Describes(plPend[s][1], s)
        ELSE IF plWork[s] # <<>> THEN Describes(plWork[s][1], s)
        ELSE Settled(s)

\* Which queues may hold an op offered before the barrier, by how far the barrier got.
BarrierOrder ==
  \A s \in PlShards :
    /\ plBar[s] \in {"none", "taken", "closed"} => \A q \in {plPend[s]} \ {<<>>} : ~q[1].pre
    /\ plBar[s] \in {"none", "closed"} => \A q \in {plWork[s]} \ {<<>>} : ~q[1].pre

PlInv == PlTyped /\ Minted /\ OneCurrent /\ OwnNonce /\ LastWordTrue /\ BarrierOrder

-----------------------------------------------------------------------------
(* The queues hold at most one op, and what is offered.                        *)

LEMMA QueueOfOne ==
  ASSUME NEW q \in PlQueue
  PROVE  /\ q \in Seq(PlOp) /\ Len(q) <= 1
         /\ q # <<>> => q[1] \in PlOp /\ q = <<q[1]>> /\ DOMAIN q = {1} /\ Head(q) = q[1]
         /\ q = <<>> => DOMAIN q = {}
  <1>1. CASE q = <<>>
    BY <1>1
  <1>2. ASSUME NEW op \in PlOp, q = <<op>>
        PROVE  /\ q \in Seq(PlOp) /\ Len(q) = 1 /\ q[1] = op
               /\ DOMAIN q = {1} /\ Head(q) = op
    BY <1>2
  <1>. QED
    BY <1>1, <1>2 DEF PlQueue

LEMMA SeqOfOne ==
  ASSUME NEW S, NEW q \in Seq(S), Len(q) = 1
  PROVE  q = <<q[1]>>
  OBVIOUS

LEMMA OneOpQueue ==
  ASSUME NEW op \in PlOp
  PROVE  <<op>> \in PlQueue /\ <<op>> # <<>> /\ <<op>>[1] = op
  BY DEF PlQueue

\* An offer replaces what is pending by one op about the session offered; only an op
\* replaced passes its mark on.
LEMMA OfferedOp ==
  ASSUME PlTyped, NEW s \in PlShards, NEW x \in PlSession, NEW clear \in BOOLEAN, Offer(s, x, clear)
  PROVE  \E op \in PlOp :
           /\ plPend' = [plPend EXCEPT ![s] = <<op>>]
           /\ op.clear = clear /\ op.zone = x.zone /\ op.epoch = x.epoch /\ op.nonce = x.nonce
           /\ op.pre => plPend[s] # <<>> /\ plPend[s][1].pre
  <1>. DEFINE pre == \E i \in DOMAIN plPend[s] : plPend[s][i].pre
              op == [clear |-> clear, zone |-> x.zone, epoch |-> x.epoch, nonce |-> x.nonce, pre |-> pre]
  <1>1. op \in PlOp
    BY DEF PlSession, PlOp
  <1>2. plPend' = [plPend EXCEPT ![s] = <<op>>]
    BY DEF Offer
  <1>3. plPend[s] \in PlQueue
    BY DEF PlTyped
  <1>4. pre => plPend[s] # <<>> /\ plPend[s][1].pre
    BY <1>3, QueueOfOne
  <1>. QED
    BY <1>1, <1>2, <1>4

\* FlushPlacement marks the ops of a queue and changes nothing else of them.
LEMMA MarkedQueue ==
  ASSUME NEW q \in PlQueue,
         NEW m, m = [i \in DOMAIN q |-> [q[i] EXCEPT !.pre = TRUE]]
  PROVE  /\ m \in PlQueue /\ (m = <<>> <=> q = <<>>)
         /\ q # <<>> => /\ m[1].clear = q[1].clear /\ m[1].zone = q[1].zone
                        /\ m[1].epoch = q[1].epoch /\ m[1].nonce = q[1].nonce
  <1>1. CASE q = <<>>
    <2>1. DOMAIN q = {}
      BY <1>1, QueueOfOne
    <2>2. m = [i \in {} |-> [q[i] EXCEPT !.pre = TRUE]]
      BY <2>1
    <2>3. m = <<>>
      BY <2>2
    <2>. QED
      BY <1>1, <2>3 DEF PlQueue
  <1>2. CASE q # <<>>
    <2>. DEFINE op == [q[1] EXCEPT !.pre = TRUE]
    <2>1. q[1] \in PlOp /\ DOMAIN q = {1}
      BY <1>2, QueueOfOne
    <2>2. op \in PlOp
      BY <2>1 DEF PlOp
    <2>3. m = <<op>>
      <3>1. m \in [1..1 -> PlOp] /\ m[1] = op
        BY <2>1, <2>2 DEF PlOp
      <3>2. m \in Seq(PlOp) /\ Len(m) = 1
        BY <3>1
      <3>3. m = <<m[1]>>
        BY <3>2, SeqOfOne
      <3>. QED
        BY <3>1, <3>3
    <2>4. <<op>> \in PlQueue /\ <<op>> # <<>> /\ <<op>>[1] = op
      BY <2>2, OneOpQueue
    <2>. QED
      BY <1>2, <2>1, <2>2, <2>3, <2>4 DEF PlOp
  <1>. QED
    BY <1>1, <1>2

\* A state the invariant holds of has the properties.
LEMMA PlInvSafe == PlInv => PlacementSafe
  <1>. SUFFICES ASSUME PlInv PROVE PlacementSafe
    OBVIOUS
  <1>. USE DEF PlInv
  <1>1. PlTypeOK
    BY QueueOfOne DEF PlTyped, PlTypeOK
  <1>2. PlacementTruth
    BY DEF PlacementTruth, PlQuiet, LastWordTrue, Minted, Current, Settled
  <1>3. TombstoneLands
    BY DEF TombstoneLands, PlQuiet, LastWordTrue, Current, Settled
  <1>4. BarrierCovers
    <2>. SUFFICES ASSUME NEW s \in PlShards, plBar[s] = "closed", NEW q \in {plPend[s], plWork[s]},
                         NEW i \in DOMAIN q
                  PROVE  ~q[i].pre
      BY DEF BarrierCovers
    <2>1. q \in PlQueue
      BY DEF PlTyped
    <2>2. i = 1 /\ q # <<>>
      BY <2>1, QueueOfOne
    <2>. QED
      BY <2>2 DEF BarrierOrder
  <1>. QED
    BY <1>1, <1>2, <1>3, <1>4 DEF PlacementSafe

LEMMA PlInitInv == PlInit => PlInv
  <1>. SUFFICES ASSUME PlInit PROVE PlInv
    OBVIOUS
  <1>. USE PlAssumption DEF PlInit, PlNoSession
  <1>1. PlTyped
    <2>1. PlNoSession \in PlSession /\ <<>> \in PlQueue
      BY DEF PlSession, PlQueue
    <2>2. plPend \in [PlShards -> PlQueue] /\ plWork \in [PlShards -> PlQueue]
      BY <2>1
    <2>. HIDE DEF PlNoSession
    <2>3. plSess \in [PlShards -> PlSession]
      BY <2>1
    <2>4. plRec \in [shard : PlShards \cup {PlNowhere}, zone : PlZones \cup {PlNowhere},
                    epoch : 0..PlMaxEpoch, nonce : 0..PlMaxSessions]
      OBVIOUS
    <2>5. plBar \in [PlShards -> {"none", "queued", "taken", "closed", "failed"}]
      OBVIOUS
    <2>6. plRun \in [PlShards -> BOOLEAN] /\ plFault \in BOOLEAN
      OBVIOUS
    <2>7. plMint \in 0..PlMaxEpoch /\ plNonce \in 0..PlMaxSessions
      OBVIOUS
    <2>. HIDE DEF PlInit
    <2>. QED
      BY <2>2, <2>3, <2>4, <2>5, <2>6, <2>7 DEF PlTyped
  <1>2. Minted /\ OneCurrent /\ OwnNonce /\ LastWordTrue /\ BarrierOrder
    BY DEF Minted, OneCurrent, OwnNonce, LastWordTrue, BarrierOrder, Ops, Current
  <1>. QED
    BY <1>1, <1>2 DEF PlInv

-----------------------------------------------------------------------------
(* PlayerPlacement: the steps.                                                 *)

\* A step that mints an epoch for the session of s and offers it.
LEMMA MintedStep ==
  ASSUME PlInv, NEW s \in PlShards, NEW x \in PlSession, NEW op \in PlOp,
         plMint' = plMint + 1, plMint' \in 0..PlMaxEpoch, plNonce' \in 0..PlMaxSessions,
         x.live, x.epoch = plMint', x.zone \in PlZones,
         ~op.clear, op.zone = x.zone, op.epoch = plMint', op.nonce = x.nonce,
         op.pre => plPend[s] # <<>> /\ plPend[s][1].pre,
         plPend' = [plPend EXCEPT ![s] = <<op>>],
         plSess' \in [PlShards -> PlSession], plSess'[s] = x,
         \A t \in PlShards \ {s} : plSess'[t] \in {plSess[t], [plSess[t] EXCEPT !.live = FALSE]},
         plRec' \in {plRec, [shard |-> s, zone |-> x.zone, epoch |-> plMint', nonce |-> 0]},
         UNCHANGED <<plWork, plBar, plRun, plFault>>
  PROVE  PlInv'
  <1>. USE DEF PlInv
  <1>1. <<op>> \in PlQueue /\ <<op>> # <<>> /\ <<op>>[1] = op
    BY OneOpQueue
  <1>. DEFINE w == <<op>>
  <1>2. w \in PlQueue /\ w # <<>> /\ w[1] = op /\ plPend' = [plPend EXCEPT ![s] = w]
    BY <1>1
  <1>. HIDE DEF w
  <1>3. plPend'[s] = w /\ \A t \in PlShards \ {s} : plPend'[t] = plPend[t]
    BY <1>2 DEF PlTyped
  <1>4. \A t \in PlShards \ {s} : /\ plSess'[t].epoch = plSess[t].epoch
                                  /\ plSess'[t].own = plSess[t].own
                                  /\ plSess'[t].nonce = plSess[t].nonce
                                  /\ plSess'[t].zone = plSess[t].zone
                                  /\ plSess'[t].live => plSess[t].live
    <2>. SUFFICES ASSUME NEW t \in PlShards \ {s}
                  PROVE  /\ plSess'[t].epoch = plSess[t].epoch
                         /\ plSess'[t].own = plSess[t].own
                         /\ plSess'[t].nonce = plSess[t].nonce
                         /\ plSess'[t].zone = plSess[t].zone
                         /\ plSess'[t].live => plSess[t].live
      OBVIOUS
    <2>1. plSess[t] \in PlSession
      BY DEF PlTyped
    <2>2. CASE plSess'[t] = plSess[t]
      BY <2>2
    <2>3. CASE plSess'[t] = [plSess[t] EXCEPT !.live = FALSE]
      BY <2>1, <2>3 DEF PlSession
    <2>. QED
      BY <2>2, <2>3
  <1>5. \A t \in PlShards : plSess[t].epoch \in Nat /\ plSess[t].epoch <= plMint
    BY DEF Minted, PlTyped, PlSession
  <1>6. PlTyped'
    <2>1. plPend' \in [PlShards -> PlQueue]
      BY <1>2 DEF PlTyped
    <2>2. plRec' \in [shard : PlShards \cup {PlNowhere}, zone : PlZones \cup {PlNowhere},
                     epoch : 0..PlMaxEpoch, nonce : 0..PlMaxSessions]
      BY PlAssumption DEF PlTyped
    <2>. QED
      BY <2>1, <2>2 DEF PlTyped
  <1>7. plMint \in Nat /\ plRec.epoch \in Nat /\ plRec.epoch <= plMint
    BY DEF PlTyped, Minted
  <1>8. plRec' = plRec \/ (plRec'.epoch = plMint' /\ plRec'.shard = s /\ plRec'.nonce = 0)
    OBVIOUS
  <1>9. \A t \in PlShards : \A q \in Ops(t)' : (q = w /\ t = s) \/ q \in Ops(t)
    BY <1>3 DEF Ops
  <1>10. \A t \in PlShards : \A q \in Ops(t) : q[1] \in PlOp /\ q[1].epoch <= plMint /\ 0 < q[1].epoch /\ q[1].zone \in PlZones
    BY QueueOfOne DEF Ops, PlTyped, Minted
  <1>11. Minted'
    BY <1>2, <1>4, <1>5, <1>7, <1>8, <1>9, <1>10 DEF Minted, PlOp
  <1>12. \A t \in PlShards : Current(t)' <=> t = s
    BY <1>4, <1>5, <1>7 DEF Current
  <1>13. \A t \in PlShards : \A q \in Ops(t) : q[1].epoch # plMint'
    BY <1>7, <1>10 DEF PlOp
  <1>14. OneCurrent'
    BY <1>2, <1>7, <1>8, <1>9, <1>12, <1>13 DEF OneCurrent
  <1>15. plWork[s] # <<>> => plWork[s][1].epoch # plMint'
    BY <1>13 DEF Ops
  <1>16. OwnNonce'
    BY <1>2, <1>3, <1>7, <1>8, <1>9, <1>12, <1>13, <1>15 DEF OwnNonce
  <1>17. LastWordTrue'
    BY <1>2, <1>3, <1>12 DEF LastWordTrue, Describes
  <1>18. BarrierOrder'
    BY <1>2, <1>3 DEF BarrierOrder
  <1>. QED
    BY <1>6, <1>11, <1>14, <1>16, <1>17, <1>18

\* A step of the session of s that keeps its epoch, and offers what the session became.
LEMMA OfferedStep ==
  ASSUME PlInv, NEW s \in PlShards, NEW x \in PlSession, NEW op \in PlOp,
         x.epoch = plSess[s].epoch, x.epoch > 0, x.zone \in PlZones,
         x.own => plSess[s].own /\ plSess[s].live /\ x.nonce = plSess[s].nonce,
         op.clear <=> ~x.live, op.zone = x.zone, op.epoch = x.epoch, op.nonce = x.nonce,
         op.pre => plPend[s] # <<>> /\ plPend[s][1].pre,
         plPend' = [plPend EXCEPT ![s] = <<op>>],
         plSess' = [plSess EXCEPT ![s] = x],
         plNonce' \in 0..PlMaxSessions,
         UNCHANGED <<plRec, plWork, plBar, plRun, plMint, plFault>>
  PROVE  PlInv'
  <1>. USE DEF PlInv
  <1>1. <<op>> \in PlQueue /\ <<op>> # <<>> /\ <<op>>[1] = op
    BY OneOpQueue
  <1>. DEFINE w == <<op>>
  <1>2. w \in PlQueue /\ w # <<>> /\ w[1] = op /\ plPend' = [plPend EXCEPT ![s] = w]
    BY <1>1
  <1>. HIDE DEF w
  <1>3. plPend'[s] = w /\ \A t \in PlShards \ {s} : plPend'[t] = plPend[t]
    BY <1>2 DEF PlTyped
  <1>4. plSess'[s] = x /\ \A t \in PlShards \ {s} : plSess'[t] = plSess[t]
    BY DEF PlTyped
  <1>5. PlTyped'
    BY <1>2 DEF PlTyped
  <1>6. \A t \in PlShards : \A q \in Ops(t)' : (q = w /\ t = s) \/ q \in Ops(t)
    BY <1>3 DEF Ops
  <1>7. Minted'
    BY <1>2, <1>4, <1>6 DEF Minted
  <1>8. \A t \in PlShards : Current(t)' <=> Current(t)
    BY <1>4 DEF Current
  <1>9. OneCurrent'
    BY <1>2, <1>6, <1>8 DEF OneCurrent, Current
  <1>10. OwnNonce'
    <2>. SUFFICES ASSUME NEW t \in PlShards, Current(t), plSess'[t].own
                  PROVE  (/\ \A q \in Ops(t) : q[1].epoch = plMint => q[1].nonce = plSess[t].nonce
                          /\ \A q \in Ops(t) : q[1].epoch = plMint /\ q[1].clear => ~plSess[t].live
                          /\ plWork[t] # <<>> /\ plWork[t][1].epoch = plMint /\ plWork[t][1].clear => plPend[t] = <<>>
                          /\ plRec.epoch = plMint =>
                               /\ plRec.nonce \in {0, plSess[t].nonce}
                               /\ plRec.shard = t \/ (~plSess[t].live /\ plPend[t] = <<>> /\ plWork[t] = <<>>))'
      BY <1>8 DEF OwnNonce
    <2>1. CASE t # s
      BY <2>1, <1>3, <1>4 DEF OwnNonce, Ops
    <2>2. CASE t = s
      <3>1. plSess[s].own /\ plSess[s].live /\ plSess'[s].nonce = plSess[s].nonce
        BY <2>2, <1>4
      <3>2. plWork[s] # <<>> => plWork[s] \in Ops(s)
        BY DEF Ops
      <3>3. \A q \in Ops(s)' : q[1].epoch = plMint => q[1].nonce = x.nonce
        BY <2>2, <3>1, <1>2, <1>4, <1>6 DEF OwnNonce
      <3>4. \A q \in Ops(s)' : q[1].epoch = plMint /\ q[1].clear => ~x.live
        BY <2>2, <3>1, <1>2, <1>4, <1>6 DEF OwnNonce
      <3>5. plWork[s] # <<>> /\ plWork[s][1].epoch = plMint => ~plWork[s][1].clear
        BY <2>2, <3>1, <3>2 DEF OwnNonce
      <3>6. plRec.epoch = plMint => plRec.nonce \in {0, x.nonce} /\ plRec.shard = s
        BY <2>2, <3>1, <1>4 DEF OwnNonce
      <3>. QED
        BY <2>2, <3>3, <3>4, <3>5, <3>6, <1>4
    <2>. QED
      BY <2>1, <2>2
  <1>11. LastWordTrue'
    BY <1>2, <1>3, <1>4, <1>8 DEF LastWordTrue, Describes, Settled, Current
  <1>12. BarrierOrder'
    BY <1>2, <1>3 DEF BarrierOrder
  <1>. QED
    BY <1>5, <1>7, <1>9, <1>10, <1>11, <1>12

LEMMA LoginClaimedKeeps ==
  ASSUME PlInv, NEW s \in PlShards, NEW z \in PlZones, LoginClaimed(s, z)
  PROVE  PlInv'
  <1>. DEFINE x == [live |-> TRUE, own |-> plMint + 1 > plMint, epoch |-> plMint + 1,
                    nonce |-> plNonce + 1, zone |-> z]
  <1>1. /\ plMint \in 0..PlMaxEpoch /\ plMint < PlMaxEpoch /\ plMint' = plMint + 1
        /\ plNonce \in 0..PlMaxSessions /\ plNonce < PlMaxSessions /\ plNonce' = plNonce + 1
    BY DEF LoginClaimed, PlLogin, PlInv, PlTyped
  <1>2. plSess' = [plSess EXCEPT ![s] = x] /\ Offer(s, x, FALSE)
        /\ UNCHANGED <<plRec, plWork, plBar, plRun, plFault>>
    BY DEF LoginClaimed, PlLogin
  <1>3. x \in PlSession /\ x.live /\ x.epoch = plMint' /\ x.zone \in PlZones
    BY <1>1, PlAssumption DEF PlSession
  <1>. HIDE DEF x
  <1>4. PICK op \in PlOp :
           /\ plPend' = [plPend EXCEPT ![s] = <<op>>]
           /\ op.clear = FALSE /\ op.zone = x.zone /\ op.epoch = x.epoch /\ op.nonce = x.nonce
           /\ op.pre => plPend[s] # <<>> /\ plPend[s][1].pre
    BY <1>2, <1>3, OfferedOp DEF PlInv
  <1>5. /\ plSess' \in [PlShards -> PlSession] /\ plSess'[s] = x
        /\ \A t \in PlShards \ {s} : plSess'[t] = plSess[t]
    BY <1>2, <1>3 DEF PlInv, PlTyped
  <1>6. plMint' \in 0..PlMaxEpoch /\ plNonce' \in 0..PlMaxSessions
    BY <1>1, PlAssumption
  <1>. QED
    BY <1>1, <1>2, <1>3, <1>4, <1>5, <1>6, MintedStep

LEMMA ThawAtMintedKeeps ==
  ASSUME PlInv, NEW s \in PlShards, ThawAtMinted(s)
  PROVE  PlInv'
  <1>. DEFINE x == [plSess[s] EXCEPT !.epoch = plMint + 1]
  <1>1. /\ plMint \in 0..PlMaxEpoch /\ plMint < PlMaxEpoch /\ plMint' = plMint + 1
        /\ plNonce \in 0..PlMaxSessions
    BY DEF ThawAtMinted, PlInv, PlTyped
  <1>2. plSess[s] \in PlSession /\ plSess[s].live /\ plSess[s].zone \in PlZones
    BY DEF ThawAtMinted, PlInv, PlTyped, Minted
  <1>3. x \in PlSession /\ x.live /\ x.epoch = plMint' /\ x.zone \in PlZones
    BY <1>1, <1>2, PlAssumption DEF PlSession
  <1>4. plSess' = [plSess EXCEPT ![s] = x] /\ plSess'[s] = x
    BY DEF ThawAtMinted, PlInv, PlTyped
  <1>5. Offer(s, x, FALSE) /\ UNCHANGED <<plRec, plWork, plBar, plRun, plNonce, plFault>>
    BY <1>4 DEF ThawAtMinted
  <1>. HIDE DEF x
  <1>6. PICK op \in PlOp :
           /\ plPend' = [plPend EXCEPT ![s] = <<op>>]
           /\ op.clear = FALSE /\ op.zone = x.zone /\ op.epoch = x.epoch /\ op.nonce = x.nonce
           /\ op.pre => plPend[s] # <<>> /\ plPend[s][1].pre
    BY <1>5, <1>3, OfferedOp DEF PlInv
  <1>7. /\ plSess' \in [PlShards -> PlSession]
        /\ \A t \in PlShards \ {s} : plSess'[t] = plSess[t]
    BY <1>3, <1>4 DEF PlInv, PlTyped
  <1>8. plMint' \in 0..PlMaxEpoch
    BY <1>1, PlAssumption
  <1>. QED
    BY <1>1, <1>3, <1>4, <1>5, <1>6, <1>7, <1>8, MintedStep

LEMMA CommitHandoffKeeps ==
  ASSUME PlInv, NEW s \in PlShards, NEW d \in PlShards, NEW z \in PlZones, CommitHandoff(s, d, z)
  PROVE  PlInv'
  <1>. DEFINE x == [live |-> TRUE, own |-> TRUE, epoch |-> plMint + 1,
                    nonce |-> plNonce + 1, zone |-> z]
              y == [plSess[s] EXCEPT !.live = FALSE]
  <1>1. /\ plMint \in 0..PlMaxEpoch /\ plMint < PlMaxEpoch /\ plMint' = plMint + 1
        /\ plNonce \in 0..PlMaxSessions /\ plNonce < PlMaxSessions /\ plNonce' = plNonce + 1
        /\ s # d
    BY DEF CommitHandoff, PlInv, PlTyped
  <1>2. plSess' = [plSess EXCEPT ![s] = y, ![d] = x] /\ Offer(d, x, FALSE)
        /\ UNCHANGED <<plWork, plBar, plRun, plFault>>
    BY DEF CommitHandoff
  <1>3. x \in PlSession /\ x.live /\ x.epoch = plMint' /\ x.zone \in PlZones /\ x.zone = z
    BY <1>1, PlAssumption DEF PlSession
  <1>4. y \in PlSession
    <2>1. plSess[s] \in PlSession
      BY DEF PlInv, PlTyped
    <2>. QED
      BY <2>1 DEF PlSession
  <1>5. plRec' \in {plRec, [shard |-> d, zone |-> x.zone, epoch |-> plMint', nonce |-> 0]}
    BY <1>1 DEF CommitHandoff, SetPlayerShard
  <1>. HIDE DEF x
  <1>6. PICK op \in PlOp :
           /\ plPend' = [plPend EXCEPT ![d] = <<op>>]
           /\ op.clear = FALSE /\ op.zone = x.zone /\ op.epoch = x.epoch /\ op.nonce = x.nonce
           /\ op.pre => plPend[d] # <<>> /\ plPend[d][1].pre
    BY <1>2, <1>3, OfferedOp DEF PlInv
  <1>7. /\ plSess' \in [PlShards -> PlSession] /\ plSess'[d] = x
        /\ \A t \in PlShards \ {d} : plSess'[t] = IF t = s THEN y ELSE plSess[t]
    <2>. HIDE DEF y
    <2>. QED
      BY <1>1, <1>2, <1>3, <1>4 DEF PlInv, PlTyped
  <1>8. plMint' \in 0..PlMaxEpoch /\ plNonce' \in 0..PlMaxSessions
    BY <1>1, PlAssumption
  <1>9. \A t \in PlShards \ {d} : plSess'[t] \in {plSess[t], [plSess[t] EXCEPT !.live = FALSE]}
    BY <1>7
  <1>. QED
    BY <1>1, <1>2, <1>3, <1>5, <1>6, <1>7, <1>8, <1>9, MintedStep

LEMMA LoginResumedKeeps ==
  ASSUME PlInv, NEW s \in PlShards, NEW z \in PlZones, LoginResumed(s, z)
  PROVE  PlInv'
  <1>. DEFINE x == [live |-> TRUE, own |-> plRec.epoch > plMint, epoch |-> plRec.epoch,
                    nonce |-> plNonce + 1, zone |-> z]
  <1>1. /\ plRec.epoch = plSess[s].epoch /\ plRec.epoch = plMint /\ plMint > 0
        /\ plMint \in 0..PlMaxEpoch
        /\ plNonce \in 0..PlMaxSessions /\ plNonce < PlMaxSessions /\ plNonce' = plNonce + 1
    BY DEF LoginResumed, PlLogin, PlInv, PlTyped
  <1>2. plSess' = [plSess EXCEPT ![s] = x] /\ Offer(s, x, FALSE)
        /\ UNCHANGED <<plRec, plWork, plBar, plRun, plMint, plFault>>
    BY DEF LoginResumed, PlLogin
  <1>3. x \in PlSession /\ x.live /\ ~x.own /\ x.epoch = plSess[s].epoch /\ x.epoch > 0
        /\ x.zone \in PlZones
    <2>1. ~(plRec.epoch > plMint) /\ plRec.epoch \in 0..PlMaxEpoch
      BY <1>1
    <2>2. x.live /\ ~x.own /\ x.epoch = plRec.epoch /\ x.zone \in PlZones
      BY <2>1
    <2>3. x \in PlSession
      BY <1>1, <2>1, PlAssumption DEF PlSession
    <2>. QED
      BY <1>1, <2>2, <2>3
  <1>. HIDE DEF x
  <1>4. PICK op \in PlOp :
           /\ plPend' = [plPend EXCEPT ![s] = <<op>>]
           /\ op.clear = FALSE /\ op.zone = x.zone /\ op.epoch = x.epoch /\ op.nonce = x.nonce
           /\ op.pre => plPend[s] # <<>> /\ plPend[s][1].pre
    BY <1>2, <1>3, OfferedOp DEF PlInv
  <1>5. plNonce' \in 0..PlMaxSessions
    BY <1>1, PlAssumption
  <1>. QED
    BY <1>2, <1>3, <1>4, <1>5, OfferedStep

LEMMA ChangeZoneKeeps ==
  ASSUME PlInv, NEW s \in PlShards, NEW z \in PlZones, ChangeZone(s, z)
  PROVE  PlInv'
  <1>. DEFINE x == [plSess[s] EXCEPT !.zone = z]
  <1>1. plSess[s] \in PlSession /\ plSess[s].live /\ plSess[s].epoch > 0
    BY DEF ChangeZone, PlInv, PlTyped, Minted
  <1>2. /\ x \in PlSession /\ x.live /\ x.own = plSess[s].own /\ x.epoch = plSess[s].epoch
        /\ x.nonce = plSess[s].nonce /\ x.zone \in PlZones
    BY <1>1 DEF PlSession
  <1>3. plSess' = [plSess EXCEPT ![s] = x] /\ plSess'[s] = x
    BY DEF ChangeZone, PlInv, PlTyped
  <1>4. Offer(s, x, FALSE) /\ UNCHANGED <<plRec, plWork, plBar, plRun, plMint, plNonce, plFault>>
    BY <1>3 DEF ChangeZone
  <1>. HIDE DEF x
  <1>5. PICK op \in PlOp :
           /\ plPend' = [plPend EXCEPT ![s] = <<op>>]
           /\ op.clear = FALSE /\ op.zone = x.zone /\ op.epoch = x.epoch /\ op.nonce = x.nonce
           /\ op.pre => plPend[s] # <<>> /\ plPend[s][1].pre
    BY <1>4, <1>2, OfferedOp DEF PlInv
  <1>6. plNonce' \in 0..PlMaxSessions
    BY <1>4 DEF PlInv, PlTyped
  <1>. QED
    BY <1>1, <1>2, <1>3, <1>4, <1>5, <1>6, OfferedStep

LEMMA QuitCleanKeeps ==
  ASSUME PlInv, NEW s \in PlShards, QuitClean(s)
  PROVE  PlInv'
  <1>. DEFINE x == [plSess[s] EXCEPT !.live = FALSE]
  <1>1. plSess[s] \in PlSession /\ plSess[s].live /\ plSess[s].epoch > 0 /\ plSess[s].zone \in PlZones
    BY DEF QuitClean, PlInv, PlTyped, Minted
  <1>2. /\ x \in PlSession /\ ~x.live /\ x.own = plSess[s].own /\ x.epoch = plSess[s].epoch
        /\ x.nonce = plSess[s].nonce /\ x.zone = plSess[s].zone
    BY <1>1 DEF PlSession
  <1>3. plSess' = [plSess EXCEPT ![s] = x]
    BY DEF QuitClean, PlInv, PlTyped
  <1>4. Offer(s, plSess[s], TRUE) /\ UNCHANGED <<plRec, plWork, plBar, plRun, plMint, plNonce, plFault>>
    BY DEF QuitClean
  <1>. HIDE DEF x
  <1>5. PICK op \in PlOp :
           /\ plPend' = [plPend EXCEPT ![s] = <<op>>]
           /\ op.clear = TRUE /\ op.zone = plSess[s].zone /\ op.epoch = plSess[s].epoch
           /\ op.nonce = plSess[s].nonce
           /\ op.pre => plPend[s] # <<>> /\ plPend[s][1].pre
    <2>1. PlTyped
      BY DEF PlInv
    <2>. QED
      BY <2>1, <1>1, <1>4, OfferedOp
  <1>6. plNonce' \in 0..PlMaxSessions
    BY <1>4 DEF PlInv, PlTyped
  <1>. QED
    BY <1>1, <1>2, <1>3, <1>4, <1>5, <1>6, OfferedStep

LEMMA LeaveSilentlyKeeps ==
  ASSUME PlInv, NEW s \in PlShards, LeaveSilently(s)
  PROVE  PlInv'
  <1>. DEFINE x == [plSess[s] EXCEPT !.live = FALSE]
  <1>1. plSess[s] \in PlSession /\ plSess[s].epoch < plMint /\ plMint \in Nat
    BY DEF LeaveSilently, PlInv, PlTyped
  <1>2. /\ x \in PlSession /\ ~x.live /\ x.own = plSess[s].own /\ x.epoch = plSess[s].epoch
        /\ x.nonce = plSess[s].nonce /\ x.zone = plSess[s].zone
    BY <1>1 DEF PlSession
  <1>3. plSess' = [plSess EXCEPT ![s] = x]
        /\ UNCHANGED <<plRec, plPend, plWork, plBar, plRun, plMint, plNonce, plFault>>
    BY DEF LeaveSilently
  <1>. HIDE DEF x
  <1>4. plSess'[s] = x /\ \A t \in PlShards \ {s} : plSess'[t] = plSess[t]
    BY <1>3 DEF PlInv, PlTyped
  <1>5. x.epoch # plMint
    BY <1>1, <1>2 DEF PlSession
  <1>6. \A t \in PlShards : Current(t)' <=> Current(t)
    BY <1>2, <1>3, <1>4 DEF Current
  <1>7. \A t \in PlShards : Current(t) => plSess'[t] = plSess[t]
    BY <1>2, <1>4, <1>5 DEF Current
  <1>8. \A t \in PlShards : Ops(t)' = Ops(t)
    BY <1>3 DEF Ops
  <1>9. PlTyped'
    BY <1>2, <1>3 DEF PlInv, PlTyped
  <1>10. Minted'
    BY <1>2, <1>3, <1>4, <1>8 DEF PlInv, Minted
  <1>11. OneCurrent'
    BY <1>3, <1>6, <1>8 DEF PlInv, OneCurrent
  <1>12. OwnNonce'
    BY <1>3, <1>6, <1>7, <1>8 DEF PlInv, OwnNonce
  <1>13. LastWordTrue'
    BY <1>3, <1>6, <1>7 DEF PlInv, LastWordTrue, Describes, Settled
  <1>14. BarrierOrder'
    BY <1>3 DEF PlInv, BarrierOrder
  <1>. QED
    BY <1>9, <1>10, <1>11, <1>12, <1>13, <1>14 DEF PlInv

LEMMA FlushStartKeeps ==
  ASSUME PlInv, NEW s \in PlShards, FlushStart(s)
  PROVE  PlInv'
  <1>. DEFINE p == [i \in DOMAIN plPend[s] |-> [plPend[s][i] EXCEPT !.pre = TRUE]]
              w == [i \in DOMAIN plWork[s] |-> [plWork[s][i] EXCEPT !.pre = TRUE]]
  <1>1. /\ plPend' = [plPend EXCEPT ![s] = p] /\ plWork' = [plWork EXCEPT ![s] = w]
        /\ plBar' = [plBar EXCEPT ![s] = "queued"]
        /\ UNCHANGED <<plRec, plSess, plRun, plMint, plNonce, plFault>>
    BY DEF FlushStart
  <1>2. plPend[s] \in PlQueue /\ plWork[s] \in PlQueue
    BY DEF PlInv, PlTyped
  <1>3. /\ p \in PlQueue /\ (p = <<>> <=> plPend[s] = <<>>)
        /\ plPend[s] # <<>> => /\ p[1].clear = plPend[s][1].clear /\ p[1].zone = plPend[s][1].zone
                               /\ p[1].epoch = plPend[s][1].epoch /\ p[1].nonce = plPend[s][1].nonce
    BY <1>2, MarkedQueue
  <1>4. /\ w \in PlQueue /\ (w = <<>> <=> plWork[s] = <<>>)
        /\ plWork[s] # <<>> => /\ w[1].clear = plWork[s][1].clear /\ w[1].zone = plWork[s][1].zone
                               /\ w[1].epoch = plWork[s][1].epoch /\ w[1].nonce = plWork[s][1].nonce
    BY <1>2, MarkedQueue
  <1>. HIDE DEF p, w
  <1>5. /\ plPend'[s] = p /\ plWork'[s] = w /\ plBar'[s] = "queued"
        /\ \A t \in PlShards \ {s} : /\ plPend'[t] = plPend[t] /\ plWork'[t] = plWork[t]
                                     /\ plBar'[t] = plBar[t]
    BY <1>1 DEF PlInv, PlTyped
  <1>6. \A t \in PlShards : /\ (plPend'[t] = <<>> <=> plPend[t] = <<>>)
                            /\ (plWork'[t] = <<>> <=> plWork[t] = <<>>)
    BY <1>3, <1>4, <1>5
  <1>7. \A t \in PlShards : \A q \in Ops(t)' : \E o \in Ops(t) :
           /\ q[1].clear = o[1].clear /\ q[1].zone = o[1].zone
           /\ q[1].epoch = o[1].epoch /\ q[1].nonce = o[1].nonce
    BY <1>3, <1>4, <1>5 DEF Ops
  <1>8. \A t \in PlShards :
           /\ plPend[t] # <<>> => /\ plPend'[t][1].clear = plPend[t][1].clear
                                  /\ plPend'[t][1].zone = plPend[t][1].zone
                                  /\ plPend'[t][1].epoch = plPend[t][1].epoch
           /\ plWork[t] # <<>> => /\ plWork'[t][1].clear = plWork[t][1].clear
                                  /\ plWork'[t][1].zone = plWork[t][1].zone
                                  /\ plWork'[t][1].epoch = plWork[t][1].epoch
    BY <1>3, <1>4, <1>5
  <1>9. \A t \in PlShards : Current(t)' <=> Current(t)
    BY <1>1 DEF Current
  <1>10. PlTyped'
    BY <1>1, <1>3, <1>4 DEF PlInv, PlTyped
  <1>11. Minted'
    BY <1>1, <1>7 DEF PlInv, Minted
  <1>12. OneCurrent'
    BY <1>1, <1>7, <1>9 DEF PlInv, OneCurrent
  <1>13. OwnNonce'
    BY <1>1, <1>6, <1>7, <1>8, <1>9 DEF PlInv, OwnNonce
  <1>14. LastWordTrue'
    BY <1>1, <1>6, <1>8, <1>9 DEF PlInv, LastWordTrue, Describes, Settled
  <1>15. BarrierOrder'
    BY <1>5 DEF PlInv, BarrierOrder
  <1>. QED
    BY <1>10, <1>11, <1>12, <1>13, <1>14, <1>15 DEF PlInv

LEMMA WriterTakeKeeps ==
  ASSUME PlInv, NEW s \in PlShards, WriterTake(s)
  PROVE  PlInv'
  <1>. USE DEF PlInv
  <1>1. /\ plWork[s] = <<>> /\ plBar[s] # "taken"
        /\ plWork' = [plWork EXCEPT ![s] = plPend[s]] /\ plPend' = [plPend EXCEPT ![s] = <<>>]
        /\ plBar' = IF plBar[s] = "queued" THEN [plBar EXCEPT ![s] = "taken"] ELSE plBar
        /\ UNCHANGED <<plRec, plSess, plRun, plMint, plNonce, plFault>>
    BY DEF WriterTake
  <1>2. /\ plWork'[s] = plPend[s] /\ plPend'[s] = <<>>
        /\ plBar'[s] = IF plBar[s] = "queued" THEN "taken" ELSE plBar[s]
        /\ \A t \in PlShards \ {s} : /\ plPend'[t] = plPend[t] /\ plWork'[t] = plWork[t]
                                     /\ plBar'[t] = plBar[t]
    BY <1>1 DEF PlTyped
  <1>3. \A t \in PlShards : Ops(t)' = Ops(t)
    BY <1>1, <1>2 DEF Ops
  <1>4. \A t \in PlShards : Current(t)' <=> Current(t)
    BY <1>1 DEF Current
  <1>5. PlTyped'
    <2>1. <<>> \in PlQueue /\ plPend[s] \in PlQueue
      BY DEF PlTyped, PlQueue
    <2>. QED
      BY <1>1, <2>1 DEF PlTyped
  <1>6. Minted'
    BY <1>1, <1>3 DEF Minted
  <1>7. OneCurrent'
    BY <1>1, <1>3, <1>4 DEF OneCurrent
  <1>8. OwnNonce'
    BY <1>1, <1>2, <1>3, <1>4 DEF OwnNonce
  <1>9. LastWordTrue'
    BY <1>1, <1>2, <1>4 DEF LastWordTrue, Describes, Settled
  <1>10. BarrierOrder'
    <2>1. plBar[s] \in {"none", "queued", "taken", "closed", "failed"}
      BY DEF PlTyped
    <2>. QED
      BY <1>1, <1>2, <2>1 DEF BarrierOrder
  <1>. QED
    BY <1>5, <1>6, <1>7, <1>8, <1>9, <1>10

LEMMA WriterCloseKeeps ==
  ASSUME PlInv, NEW s \in PlShards, WriterClose(s)
  PROVE  PlInv'
  <1>. USE DEF PlInv
  <1>1. /\ plWork[s] = <<>> /\ plBar[s] = "taken" /\ plBar' = [plBar EXCEPT ![s] = "closed"]
        /\ UNCHANGED <<plRec, plSess, plPend, plWork, plRun, plMint, plNonce, plFault>>
    BY DEF WriterClose
  <1>2. PlTyped'
    BY <1>1 DEF PlTyped
  <1>3. Minted' /\ OneCurrent'
    BY <1>1 DEF Minted, OneCurrent, Ops, Current
  <1>4. OwnNonce' /\ LastWordTrue'
    BY <1>1 DEF OwnNonce, LastWordTrue, Ops, Current, Describes, Settled
  <1>5. BarrierOrder'
    BY <1>1 DEF BarrierOrder, PlTyped
  <1>. QED
    BY <1>2, <1>3, <1>4, <1>5

LEMMA WriterStopKeeps ==
  ASSUME PlInv, NEW s \in PlShards, WriterStop(s)
  PROVE  PlInv'
  <1>. USE DEF PlInv
  <1>1. /\ plSess' = [plSess EXCEPT ![s] = PlNoSession]
        /\ plPend' = [plPend EXCEPT ![s] = <<>>] /\ plWork' = [plWork EXCEPT ![s] = <<>>]
        /\ plRun' = [plRun EXCEPT ![s] = FALSE]
        /\ plFault => plFault'
        /\ plFault' \in BOOLEAN
        /\ plBar' = IF plBar[s] \in {"queued", "taken"} THEN [plBar EXCEPT ![s] = "failed"] ELSE plBar
        /\ UNCHANGED <<plRec, plMint, plNonce>>
    BY DEF WriterStop
  <1>2. /\ plSess'[s] = PlNoSession /\ plPend'[s] = <<>> /\ plWork'[s] = <<>>
        /\ \A t \in PlShards \ {s} : /\ plSess'[t] = plSess[t] /\ plPend'[t] = plPend[t]
                                     /\ plWork'[t] = plWork[t] /\ plBar'[t] = plBar[t]
    BY <1>1 DEF PlTyped
  <1>3. /\ ~PlNoSession.live /\ ~PlNoSession.own /\ PlNoSession.epoch = 0
        /\ PlNoSession \in PlSession /\ <<>> \in PlQueue
    BY PlAssumption DEF PlNoSession, PlSession, PlQueue
  <1>4. plMint \in Nat
    BY DEF PlTyped
  <1>5. Ops(s)' = {} /\ \A t \in PlShards \ {s} : Ops(t)' = Ops(t)
    BY <1>2 DEF Ops
  <1>6. PlTyped'
    BY <1>1, <1>3 DEF PlTyped
  <1>7. Minted'
    BY <1>1, <1>2, <1>3, <1>4, <1>5 DEF Minted
  <1>8. plMint > 0 => ~Current(s)'
    BY <1>1, <1>2, <1>3, <1>4 DEF Current
  <1>9. \A t \in PlShards \ {s} : Current(t)' <=> Current(t)
    BY <1>1, <1>2 DEF Current
  <1>10. OneCurrent'
    BY <1>1, <1>5, <1>8, <1>9 DEF OneCurrent
  <1>11. OwnNonce'
    BY <1>1, <1>2, <1>3, <1>5, <1>9 DEF OwnNonce
  <1>12. LastWordTrue'
    BY <1>1, <1>2, <1>3, <1>9 DEF LastWordTrue, Describes, Settled
  <1>13. BarrierOrder'
    BY <1>1, <1>2 DEF BarrierOrder
  <1>. QED
    BY <1>6, <1>7, <1>10, <1>11, <1>12, <1>13

\* What one attempt leaves in the record: an op of an older claim leaves a record of the
\* newest claim alone and never makes one.
LEMMA WrittenRecord ==
  ASSUME PlInv, NEW s \in PlShards, NEW ok \in BOOLEAN, WritePlacement(s, ok)
  PROVE  LET op == plWork[s][1] IN
         /\ plWork[s] # <<>> /\ op \in PlOp
         /\ plRec' \in [shard : PlShards \cup {PlNowhere}, zone : PlZones \cup {PlNowhere},
                        epoch : 0..PlMaxEpoch, nonce : 0..PlMaxSessions]
         /\ plRec'.epoch \in {plRec.epoch, op.epoch}
         /\ op.epoch # plMint => plRec' = plRec \/ (plRec.epoch # plMint /\ plRec'.epoch # plMint)
         /\ op.epoch = plMint /\ ~op.clear =>
              \/ ~ok /\ plRec' = plRec
              \/ ok /\ plRec'.epoch = plMint /\ plRec'.shard = s /\ plRec'.zone = op.zone /\ plRec'.nonce = op.nonce
         /\ op.epoch = plMint /\ op.clear =>
              \/ plRec' = plRec /\ (ok => ~ClearFence(plRec, s, op))
              \/ ok /\ plRec'.epoch = plRec.epoch /\ plRec'.shard = PlNowhere /\ plRec'.zone = op.zone
                 /\ plRec'.nonce = plRec.nonce
  <1>. DEFINE op == plWork[s][1]
  <1>1. plWork[s] # <<>> /\ plWork[s] \in PlQueue /\ Head(plWork[s]) = op /\ op \in PlOp
    BY QueueOfOne DEF WritePlacement, PlInv, PlTyped
  <1>2. /\ op.epoch \in Nat /\ 0 < op.epoch /\ op.epoch <= plMint /\ op.zone \in PlZones
        /\ plMint \in Nat /\ plRec.epoch \in Nat /\ plRec.epoch <= plMint /\ op.zone # PlNowhere
    <2>1. plWork[s] \in Ops(s)
      BY <1>1 DEF Ops
    <2>. QED
      BY <1>1, <2>1, PlAssumption DEF PlInv, PlTyped, Minted, PlOp
  <1>3. plRec' = IF ~ok THEN plRec ELSE IF op.clear THEN ClearPlayerShard(plRec, s, op)
                 ELSE RegisterPlacement(plRec, s, op)
    BY <1>1 DEF WritePlacement
  <1>4. plRec \in [shard : PlShards \cup {PlNowhere}, zone : PlZones \cup {PlNowhere},
                   epoch : 0..PlMaxEpoch, nonce : 0..PlMaxSessions]
    BY DEF PlInv, PlTyped
  <1>. HIDE DEF op
  <1>5. CASE ~ok
    <2>1. plRec' = plRec
      BY <1>3, <1>5
    <2>. QED
      BY <1>1, <1>4, <1>5, <2>1 DEF op
  <1>6. CASE ok /\ op.clear
    <2>1. plRec' = ClearPlayerShard(plRec, s, op)
      BY <1>3, <1>6
    <2>2. CASE ~ClearFence(plRec, s, op)
      <3>1. plRec' = plRec
        BY <2>1, <2>2 DEF ClearPlayerShard
      <3>. QED
        BY <1>1, <1>4, <1>6, <2>2, <3>1 DEF op
    <2>3. CASE ClearFence(plRec, s, op)
      <3>1. plRec' = [plRec EXCEPT !.shard = PlNowhere, !.zone = op.zone] /\ plRec.epoch = op.epoch
        BY <1>2, <2>1, <2>3 DEF ClearPlayerShard, ClearFence
      <3>2. /\ plRec' \in [shard : PlShards \cup {PlNowhere}, zone : PlZones \cup {PlNowhere},
                           epoch : 0..PlMaxEpoch, nonce : 0..PlMaxSessions]
            /\ plRec'.epoch = plRec.epoch /\ plRec'.shard = PlNowhere /\ plRec'.zone = op.zone
            /\ plRec'.nonce = plRec.nonce
        BY <1>2, <1>4, <3>1
      <3>. QED
        BY <1>1, <1>6, <3>1, <3>2 DEF op
    <2>. QED
      BY <2>2, <2>3
  <1>7. CASE ok /\ ~op.clear
    <2>1. plRec' = RegisterPlacement(plRec, s, op)
      BY <1>3, <1>7
    <2>2. CASE plRec.epoch > op.epoch
      <3>1. plRec' = plRec /\ op.epoch # plMint
        BY <1>2, <2>1, <2>2 DEF RegisterPlacement
      <3>. QED
        BY <1>1, <1>4, <1>7, <3>1 DEF op
    <2>3. CASE ~(plRec.epoch > op.epoch)
      <3>1. plRec' = [shard |-> s, zone |-> op.zone, epoch |-> op.epoch, nonce |-> op.nonce]
            /\ plRec.epoch <= op.epoch
        BY <1>2, <2>1, <2>3 DEF RegisterPlacement
      <3>2. plRec' \in [shard : PlShards \cup {PlNowhere}, zone : PlZones \cup {PlNowhere},
                        epoch : 0..PlMaxEpoch, nonce : 0..PlMaxSessions]
        BY <1>1, <1>2, <3>1 DEF PlOp
      <3>3. op.epoch # plMint => plRec.epoch # plMint
        BY <1>2, <3>1
      <3>. QED
        BY <1>1, <1>7, <3>1, <3>2, <3>3 DEF op
    <2>. QED
      BY <2>2, <2>3
  <1>. QED
    BY <1>5, <1>6, <1>7

LEMMA WritePlacementKeeps ==
  ASSUME PlInv, NEW s \in PlShards, NEW ok \in BOOLEAN, WritePlacement(s, ok)
  PROVE  PlInv'
  <1>. DEFINE op == plWork[s][1]
  <1>1. /\ plWork[s] # <<>> /\ op \in PlOp
        /\ plRec' \in [shard : PlShards \cup {PlNowhere}, zone : PlZones \cup {PlNowhere},
                       epoch : 0..PlMaxEpoch, nonce : 0..PlMaxSessions]
        /\ plRec'.epoch \in {plRec.epoch, op.epoch}
    BY WrittenRecord
  <1>2. op.epoch # plMint => plRec' = plRec \/ (plRec.epoch # plMint /\ plRec'.epoch # plMint)
    BY WrittenRecord
  <1>3. op.epoch = plMint /\ ~op.clear =>
          \/ ~ok /\ plRec' = plRec
          \/ ok /\ plRec'.epoch = plMint /\ plRec'.shard = s /\ plRec'.zone = op.zone /\ plRec'.nonce = op.nonce
    BY WrittenRecord
  <1>4. op.epoch = plMint /\ op.clear =>
          \/ plRec' = plRec /\ (ok => ~ClearFence(plRec, s, op))
          \/ ok /\ plRec'.epoch = plRec.epoch /\ plRec'.shard = PlNowhere /\ plRec'.zone = op.zone
             /\ plRec'.nonce = plRec.nonce
    BY WrittenRecord
  <1>. USE DEF PlInv
  <1>5. /\ plWork' = [plWork EXCEPT ![s] = <<>>] /\ plFault' = (plFault \/ ~ok)
        /\ UNCHANGED <<plSess, plPend, plBar, plRun, plMint, plNonce>>
    BY DEF WritePlacement
  <1>6. plWork'[s] = <<>> /\ \A t \in PlShards \ {s} : plWork'[t] = plWork[t]
    BY <1>5 DEF PlTyped
  <1>7. plWork[s] \in Ops(s) /\ \A t \in PlShards : Ops(t)' \subseteq Ops(t)
    BY <1>1, <1>5, <1>6 DEF Ops
  <1>8. \A t \in PlShards : Current(t)' <=> Current(t)
    BY <1>5 DEF Current
  <1>9. 0 < op.epoch /\ op.epoch <= plMint /\ op.zone \in PlZones /\ op.epoch \in Nat /\ plMint \in Nat
    BY <1>1, <1>7 DEF Minted, PlTyped, PlOp
  <1>10. op.epoch = plMint => Current(s) /\ \A t \in PlShards : Current(t) => t = s
    BY <1>7, <1>9 DEF OneCurrent
  <1>. HIDE DEF op
  <1>11. PlTyped'
    <2>1. <<>> \in PlQueue
      BY DEF PlQueue
    <2>. QED
      BY <1>1, <1>5, <2>1 DEF PlTyped
  <1>12. Minted'
    <2>1. plRec'.epoch <= plMint /\ (plRec'.epoch = 0 => plRec'.shard = PlNowhere)
      <3>1. plRec.epoch \in Nat /\ plRec.epoch <= plMint
        BY DEF Minted, PlTyped
      <3>2. plRec'.epoch <= plMint
        BY <1>1, <1>9, <3>1
      <3>3. CASE op.epoch = plMint
        BY <1>3, <1>4, <1>9, <3>3 DEF Minted
      <3>4. CASE op.epoch # plMint
        <4>1. CASE plRec' = plRec
          BY <4>1 DEF Minted
        <4>2. CASE plRec' # plRec
          <5>1. ok
            BY <4>2 DEF WritePlacement
          <5>2. Head(plWork[s]) = op
            BY QueueOfOne, <1>1 DEF PlTyped, op
          <5>3. plRec' = IF op.clear THEN ClearPlayerShard(plRec, s, op) ELSE RegisterPlacement(plRec, s, op)
            BY <5>1, <5>2 DEF WritePlacement
          <5>4. CASE op.clear
            BY <4>2, <5>3, <5>4, <3>1 DEF ClearPlayerShard, ClearFence
          <5>5. CASE ~op.clear
            BY <4>2, <5>3, <5>5, <1>9 DEF RegisterPlacement
          <5>. QED
            BY <5>4, <5>5
        <4>. QED
          BY <4>1, <4>2
      <3>. QED
        BY <3>2, <3>3, <3>4
    <2>. QED
      BY <1>5, <1>7, <2>1 DEF Minted
  <1>13. OneCurrent'
    <2>1. \A t \in PlShards : Current(t) /\ plRec'.epoch = plMint => plRec'.shard \in {t, PlNowhere}
      <3>. SUFFICES ASSUME NEW t \in PlShards, Current(t), plRec'.epoch = plMint
                    PROVE  plRec'.shard \in {t, PlNowhere}
        OBVIOUS
      <3>1. CASE plRec' = plRec
        BY <3>1, <1>9 DEF OneCurrent
      <3>2. CASE plRec' # plRec
        BY <3>2, <1>2, <1>3, <1>4, <1>10
      <3>. QED
        BY <3>1, <3>2
    <2>. QED
      BY <1>5, <1>7, <1>8, <2>1 DEF OneCurrent
  <1>14. OwnNonce'
    <2>. SUFFICES ASSUME NEW t \in PlShards, Current(t), plSess[t].own
                  PROVE  (/\ \A q \in Ops(t) : q[1].epoch = plMint => q[1].nonce = plSess[t].nonce
                          /\ \A q \in Ops(t) : q[1].epoch = plMint /\ q[1].clear => ~plSess[t].live
                          /\ plWork[t] # <<>> /\ plWork[t][1].epoch = plMint /\ plWork[t][1].clear => plPend[t] = <<>>
                          /\ plRec.epoch = plMint =>
                               /\ plRec.nonce \in {0, plSess[t].nonce}
                               /\ plRec.shard = t \/ (~plSess[t].live /\ plPend[t] = <<>> /\ plWork[t] = <<>>))'
      BY <1>5, <1>8 DEF OwnNonce
    <2>1. /\ \A q \in Ops(t)' : q[1].epoch = plMint => q[1].nonce = plSess[t].nonce
          /\ \A q \in Ops(t)' : q[1].epoch = plMint /\ q[1].clear => ~plSess[t].live
      BY <1>7 DEF OwnNonce
    <2>2. plWork'[t] # <<>> /\ plWork'[t][1].epoch = plMint /\ plWork'[t][1].clear => plPend[t] = <<>>
      BY <1>6 DEF OwnNonce
    <2>3. ASSUME plRec'.epoch = plMint
          PROVE  /\ plRec'.nonce \in {0, plSess[t].nonce}
                 /\ plRec'.shard = t \/ (~plSess[t].live /\ plPend[t] = <<>> /\ plWork'[t] = <<>>)
      <3>1. CASE plRec' = plRec
        BY <2>3, <3>1, <1>6 DEF OwnNonce
      <3>2. CASE plRec' # plRec
        <4>1. op.epoch = plMint /\ t = s /\ ok
          BY <2>3, <3>2, <1>2, <1>3, <1>4, <1>10
        <4>2. op.nonce = plSess[t].nonce
          BY <4>1, <1>7 DEF OwnNonce, op
        <4>3. CASE ~op.clear
          BY <3>2, <4>1, <4>2, <4>3, <1>3
        <4>4. CASE op.clear
          <5>1. plRec.epoch = plMint /\ plRec'.nonce = plRec.nonce
            BY <2>3, <3>2, <4>1, <4>4, <1>4
          <5>2. plRec.nonce \in {0, plSess[t].nonce}
            BY <5>1 DEF OwnNonce
          <5>3. ~plSess[t].live /\ plPend[t] = <<>>
            BY <4>1, <4>4, <1>1, <1>7 DEF OwnNonce, op
          <5>. QED
            BY <4>1, <5>1, <5>2, <5>3, <1>6
        <4>. QED
          BY <4>3, <4>4
      <3>. QED
        BY <3>1, <3>2
    <2>. QED
      BY <2>1, <2>2, <2>3, <1>5
  <1>15. LastWordTrue'
    <2>. SUFFICES ASSUME ~plFault, ok, NEW t \in PlShards, Current(t), plSess[t].live \/ plSess[t].own
                  PROVE  (IF plPend[t] # <<>> THEN Describes(plPend[t][1], t)
                          ELSE IF plWork[t] # <<>> THEN Describes(plWork[t][1], t)
                          ELSE Settled(t))'
      BY <1>5, <1>8 DEF LastWordTrue
    <2>1. CASE plPend[t] # <<>>
      BY <2>1, <1>5 DEF LastWordTrue, Describes
    <2>2. CASE plPend[t] = <<>> /\ t # s
      <3>1. op.epoch # plMint
        BY <2>2, <1>10
      <3>2. CASE plWork[t] # <<>>
        BY <2>2, <3>2, <1>5, <1>6 DEF LastWordTrue, Describes
      <3>3. CASE plWork[t] = <<>>
        <4>1. Settled(t)
          BY <2>2, <3>3 DEF LastWordTrue
        <4>2. Settled(t)'
          BY <4>1, <3>1, <1>2, <1>5 DEF Settled
        <4>. QED
          BY <2>2, <3>3, <4>2, <1>5, <1>6
      <3>. QED
        BY <3>2, <3>3
    <2>3. CASE plPend[t] = <<>> /\ t = s
      <3>1. Describes(op, s)
        BY <2>3, <1>1 DEF LastWordTrue, op
      <3>2. op.epoch = plMint /\ op.zone = plSess[s].zone /\ (op.clear <=> ~plSess[s].live)
        BY <3>1 DEF Describes
      <3>3. Settled(s)'
        <4>1. CASE ~op.clear
          BY <3>2, <4>1, <1>3, <1>5 DEF Settled
        <4>2. CASE op.clear
          <5>1. plSess[s].own
            BY <2>3, <3>2, <4>2
          <5>2. op.nonce = plSess[s].nonce
            BY <2>3, <3>2, <5>1, <1>7 DEF OwnNonce, op
          <5>3. plRec.epoch = plMint => ClearFence(plRec, s, op)
            <6>1. plRec.epoch = plMint => plRec.nonce \in {0, op.nonce} /\ plRec.shard = s
              BY <2>3, <5>1, <5>2, <1>1 DEF OwnNonce
            <6>. QED
              BY <6>1, <3>2, <1>9 DEF ClearFence
          <5>. QED
            BY <3>2, <4>2, <5>3, <1>4, <1>5 DEF Settled
        <4>. QED
          BY <4>1, <4>2
      <3>. QED
        BY <2>3, <3>3, <1>5, <1>6
    <2>. QED
      BY <2>1, <2>2, <2>3
  <1>16. BarrierOrder'
    BY <1>5, <1>6 DEF BarrierOrder
  <1>. QED
    BY <1>11, <1>12, <1>13, <1>14, <1>15, <1>16

LEMMA PlStep == ASSUME PlInv, [PlNext]_plVars PROVE PlInv'
  <1>1. CASE PlNext
    BY <1>1, LoginClaimedKeeps, LoginResumedKeeps, ChangeZoneKeeps, CommitHandoffKeeps, QuitCleanKeeps,
       LeaveSilentlyKeeps, ThawAtMintedKeeps, FlushStartKeeps, WriterTakeKeeps, WriterCloseKeeps,
       WriterStopKeeps, WritePlacementKeeps DEF PlNext
  <1>2. CASE UNCHANGED plVars
    <2>1. PlTyped' /\ Minted' /\ OneCurrent'
      BY <1>2 DEF plVars, PlInv, PlTyped, Minted, OneCurrent, Ops, Current
    <2>2. OwnNonce' /\ LastWordTrue' /\ BarrierOrder'
      BY <1>2 DEF plVars, PlInv, OwnNonce, LastWordTrue, BarrierOrder, Ops, Current, Describes, Settled
    <2>. QED
      BY <2>1, <2>2 DEF PlInv
  <1>. QED
    BY <1>1, <1>2

\* The placement record follows the newest session and its clean quit, whatever the writers
\* coalesce and however their writes cross handoffs, and a flush barrier that closed covered
\* every op offered before it (placement.go, directory/redis.go).
THEOREM PlacementIsSafe == PlSpec => []PlacementSafe
  <1>1. PlInit => PlInv
    BY PlInitInv
  <1>2. PlInv /\ [PlNext]_plVars => PlInv'
    BY PlStep
  <1>3. PlInv => PlacementSafe
    BY PlInvSafe
  <1>. QED
    BY <1>1, <1>2, <1>3, PTL DEF PlSpec

-----------------------------------------------------------------------------
(* Instances: a worker's slot is its own until it publishes or gives it back.   *)

InMinting ==
  /\ \A i \in 1..InWorkers : inWork[i].id # 0 => inRec[inWork[i].id].st = "reserved"
  /\ \A i, j \in 1..InWorkers : inWork[i].id # 0 /\ inWork[i].id = inWork[j].id => i = j
InInv == InTypeOK /\ CapsHold /\ OccupantHasInstance /\ InMinting
InRecs == [InIds -> [st : {"free", "reserved", "live", "released"}, who : InPlayers \cup {"nobody"},
                     abandoned : BOOLEAN, idle : 0..InIdleTicks, grace : BOOLEAN]]

LEMMA InNames ==
  /\ InSerials \in Nat /\ InQueue \in Nat /\ InWorkers \in Nat /\ InIdleTicks \in Nat \ {0} /\ InBurst \in Nat
  /\ InPerShard \in Nat /\ InPerAccount \in Nat /\ InShared \subseteq InPlayers
  /\ inNowhere \notin InIds /\ inOrigin \notin InIds /\ inOther \notin InIds
  BY InAssumption DEF setInstanceLimits, InIds, inNowhere, inOrigin, inOther

LEMMA InPlacesFacts ==
  /\ InIds \subseteq InPlaces /\ inOrigin \in InPlaces /\ inOther \in InPlaces
  BY DEF InPlaces

\* A step that makes no record live or reserved keeps the caps, and they are counted in finite sets.
LEMMA FewerHeld ==
  ASSUME InInv, Held' \subseteq Held, \A p \in InPlayers : Ours(p)' \subseteq Ours(p)
  PROVE  CapsHold'
  <1>1. IsFiniteSet(Held)
    <2>1. IsFiniteSet(InIds)
      BY InNames, FS_Interval DEF InIds
    <2>. QED
      BY <2>1, FS_Subset DEF Held
  <1>2. \A p \in InPlayers : IsFiniteSet(Ours(p))
    BY <1>1, FS_Subset DEF Ours
  <1>3. Cardinality(Held') <= Cardinality(Held) /\ Cardinality(Held) \in Nat /\ Cardinality(Held') \in Nat
    BY <1>1, FS_Subset, FS_CardinalityType
  <1>4. ASSUME NEW p \in InPlayers
        PROVE  Cardinality(Ours(p)') <= InPerAccount
    <2>1. Cardinality(Ours(p)') <= Cardinality(Ours(p)) /\ Cardinality(Ours(p)) \in Nat /\ Cardinality(Ours(p)') \in Nat
      BY <1>2, FS_Subset, FS_CardinalityType
    <2>2. Cardinality(Ours(p)) <= InPerAccount
      BY DEF InInv, CapsHold
    <2>. QED
      BY <2>1, <2>2, InNames
  <1>5. Cardinality(Held) <= InPerShard
    BY DEF InInv, CapsHold
  <1>. QED
    BY <1>3, <1>4, <1>5, InNames DEF CapsHold

\* Where no record changes, nor who works on it, the players may walk among the live.
LEMMA SameRecords ==
  ASSUME InInv, InTypeOK', inRec' = inRec, inWork' = inWork \/ InMinting', OccupantHasInstance'
  PROVE  InInv'
  <1>1. Held' = Held /\ \A p \in InPlayers : Ours(p)' = Ours(p)
    BY DEF Held, Ours
  <1>2. CapsHold'
    BY <1>1, FewerHeld
  <1>3. InMinting'
    BY DEF InInv, InMinting
  <1>. QED
    BY <1>2, <1>3 DEF InInv

LEMMA OutOfMap ==
  ASSUME InInv, inRec' = inRec, inWork' = inWork, inAt' \in [InPlayers -> InPlaces \cup {inNowhere}],
         inFly' \in [InPlayers -> InPlaces \cup {inNowhere}],
         UNCHANGED <<inQ, inReply, inRate, inDrain>>, inPend' \in [InPlayers -> BOOLEAN],
         OccupantHasInstance'
  PROVE  InInv'
  <1>1. InTypeOK'
    BY DEF InInv, InTypeOK
  <1>. QED
    BY <1>1, SameRecords

LEMMA RequestKeeps ==
  ASSUME InInv, NEW p \in InPlayers, RequestEntry(p)
  PROVE  InInv'
  <1>1. /\ inQ' = Append(inQ, p) /\ inPend' = [inPend EXCEPT ![p] = TRUE] /\ Len(inQ) < InQueue
        /\ UNCHANGED <<inRec, inAt, inFly, inWork, inReply, inRate, inDrain>>
    BY DEF RequestEntry
  <1>2. inQ \in Seq(InPlayers) /\ inPend \in [InPlayers -> BOOLEAN]
    BY DEF InInv, InTypeOK
  <1>3. inQ' \in Seq(InPlayers) /\ Len(inQ') <= InQueue /\ inPend' \in [InPlayers -> BOOLEAN]
    BY <1>1, <1>2, InNames
  <1>4. InTypeOK'
    BY <1>1, <1>3 DEF InInv, InTypeOK
  <1>5. OccupantHasInstance'
    BY <1>1 DEF InInv, OccupantHasInstance
  <1>. QED
    BY <1>1, <1>4, <1>5, SameRecords

LEMMA TakeKeeps ==
  ASSUME InInv, NEW i \in 1..InWorkers, MintTake(i)
  PROVE  InInv'
  <1>1. /\ inQ # <<>> /\ inQ' = Tail(inQ) /\ inWork[i] = inIdle /\ inWork' = [inWork EXCEPT ![i].who = Head(inQ)]
        /\ UNCHANGED <<inRec, inAt, inFly, inPend, inReply, inRate, inDrain>>
    BY DEF MintTake
  <1>2. inQ \in Seq(InPlayers) /\ Len(inQ) <= InQueue /\ inWork \in [1..InWorkers -> InReq]
    BY DEF InInv, InTypeOK
  <1>3. Head(inQ) \in InPlayers /\ inQ' \in Seq(InPlayers) /\ Len(inQ') <= InQueue
    BY <1>1, <1>2, InNames
  <1>4. inWork' \in [1..InWorkers -> InReq] /\ \A j \in 1..InWorkers : inWork'[j].id = inWork[j].id
    BY <1>1, <1>2, <1>3 DEF InReq
  <1>5. InTypeOK'
    BY <1>1, <1>3, <1>4 DEF InInv, InTypeOK
  <1>6. InMinting'
    BY <1>1, <1>4 DEF InInv, InMinting
  <1>7. OccupantHasInstance'
    BY <1>1 DEF InInv, OccupantHasInstance
  <1>. QED
    BY <1>1, <1>5, <1>6, <1>7, SameRecords

LEMMA LeastNatural ==
  ASSUME NEW S \in SUBSET Nat, S # {}
  PROVE  \E i \in S : \A j \in S : i <= j
  <1>. DEFINE R == OpToRel(<, Nat)
  <1>1. IsWellFoundedOn(R, Nat)
    BY NatLessThanWellFounded
  <1>2. \A i, j \in Nat : i < j => <<i, j>> \in R
    BY DEF OpToRel
  <1>. HIDE DEF R
  <1>3. \E i \in S : \A j \in S : ~(<<j, i>> \in R)
    BY <1>1, WFMin
  <1>4. PICK i \in S : \A j \in S : ~(<<j, i>> \in R)
    BY <1>3
  <1>5. \A j \in S : i <= j
    <2>. SUFFICES ASSUME NEW j \in S PROVE i <= j
      OBVIOUS
    <2>1. i \in Nat /\ j \in Nat /\ ~(j < i)
      BY <1>2, <1>4
    <2>. QED
      BY <2>1
  <1>. QED
    BY <1>5

\* The slot a worker takes is the one more that both caps had room for.
LEMMA ReserveKeeps ==
  ASSUME InInv, NEW i \in 1..InWorkers, NEW rolled \in BOOLEAN, Reserve(i, rolled)
  PROVE  InInv'
  <1>. DEFINE p == inWork[i].who
              rate == IF rolled THEN 0 ELSE inRate[InPayer(p)]
              k == CHOOSE j \in Fresh : \A l \in Fresh : j <= l
  <1>1. /\ p # "nobody" /\ inWork[i].id = 0 /\ UNCHANGED <<inAt, inFly, inPend, inQ, inDrain>>
    BY DEF Reserve
  <1>2. /\ inWork \in [1..InWorkers -> InReq] /\ inRec \in InRecs /\ inReply \in Seq(InReq)
        /\ inRate \in [InPlayers -> 0..InBurst]
    BY DEF InInv, InTypeOK, InRecs
  <1>3. p \in InPlayers /\ inWork[i] \in InReq
    BY <1>1, <1>2 DEF InReq
  <1>4. CASE mayReserve(p, rate) /\ Fresh # {}
    <2>1. /\ inRec' = [inRec EXCEPT ![k] = [inFree EXCEPT !.st = "reserved", !.who = p]]
          /\ inRate' = [inRate EXCEPT ![InPayer(p)] = rate + 1]
          /\ inWork' = [inWork EXCEPT ![i].id = k] /\ UNCHANGED inReply
      BY <1>4 DEF Reserve
    <2>2. Cardinality(Held) < InPerShard /\ Cardinality(Ours(p)) < InPerAccount /\ rate < InBurst
      BY <1>4 DEF mayReserve
    <2>3. k \in Fresh
      <3>1. Fresh \subseteq Nat
        BY InNames DEF Fresh, InIds
      <3>2. PICK j \in Fresh : \A l \in Fresh : j <= l
        BY <1>4, <3>1, LeastNatural
      <3>. QED
        BY <3>2
    <2>4. InPayer(p) \in InPlayers
      BY <1>3, InNames DEF InPayer
    <2>5. rate \in Nat
      BY <1>2, <2>4, InNames
    <2>. HIDE DEF k, rate, p
    <2>6. k \in InIds /\ inRec[k].st = "free" /\ k # 0
      BY <2>3, InNames DEF Fresh, InIds
    <2>7. inRate' \in [InPlayers -> 0..InBurst]
      <3>1. rate + 1 \in 0..InBurst
        BY <2>2, <2>5, InNames
      <3>. QED
        BY <1>2, <2>1, <3>1
    <2>. DEFINE taken == [inFree EXCEPT !.st = "reserved", !.who = p]
    <2>8. /\ taken \in [st : {"free", "reserved", "live", "released"}, who : InPlayers \cup {"nobody"},
                        abandoned : BOOLEAN, idle : 0..InIdleTicks, grace : BOOLEAN]
          /\ taken.st = "reserved" /\ taken.who = p
      <3>1. inFree \in [st : {"free", "reserved", "live", "released"}, who : InPlayers \cup {"nobody"},
                        abandoned : BOOLEAN, idle : 0..InIdleTicks, grace : BOOLEAN]
        BY InNames DEF inFree
      <3>. QED
        BY <1>3, <3>1
    <2>. HIDE DEF taken
    <2>9. inRec' \in InRecs /\ inRec'[k].st = "reserved" /\ inRec'[k].who = p
      <3>1. inRec' = [inRec EXCEPT ![k] = taken]
        BY <2>1 DEF taken
      <3>. QED
        BY <1>2, <2>6, <2>8, <3>1 DEF InRecs
    <2>10. inWork' \in [1..InWorkers -> InReq] /\ inWork'[i].id = k /\ \A j \in 1..InWorkers \ {i} : inWork'[j] = inWork[j]
      <3>1. k \in 0..InSerials
        BY <2>6, InNames DEF InIds
      <3>2. [inWork[i] EXCEPT !.id = k] \in InReq /\ [inWork[i] EXCEPT !.id = k].id = k
        BY <1>2, <3>1 DEF InReq
      <3>. QED
        BY <1>2, <2>1, <3>2
    <2>11. \A l \in InIds \ {k} : inRec'[l] = inRec[l]
      BY <1>2, <2>1 DEF InRecs
    <2>12. InTypeOK'
      BY <1>1, <2>1, <2>7, <2>9, <2>10 DEF InInv, InTypeOK, InRecs
    <2>13. OccupantHasInstance'
      BY <1>1, <2>6, <2>11 DEF InInv, OccupantHasInstance
    <2>14. InMinting'
      <3>1. \A j \in 1..InWorkers \ {i} : inWork[j].id # 0 => inWork[j].id # k
        BY <2>6 DEF InInv, InMinting
      <3>2. \A j \in 1..InWorkers : inWork[j].id \in 0..InSerials
        BY <1>2 DEF InReq
      <3>3. ASSUME NEW j \in 1..InWorkers, inWork'[j].id # 0
            PROVE  inRec'[inWork'[j].id].st = "reserved"
        <4>1. CASE j = i
          BY <2>9, <2>10, <4>1
        <4>2. CASE j # i
          <5>1. inWork'[j] = inWork[j] /\ inWork[j].id \in InIds \ {k}
            BY <2>10, <3>1, <3>2, <3>3, <4>2, InNames DEF InIds
          <5>. QED
            BY <2>11, <3>3, <5>1 DEF InInv, InMinting
        <4>. QED
          BY <4>1, <4>2
      <3>4. ASSUME NEW j \in 1..InWorkers, NEW l \in 1..InWorkers, inWork'[j].id # 0, inWork'[j].id = inWork'[l].id
            PROVE  j = l
        BY <2>6, <2>10, <3>1, <3>4 DEF InInv, InMinting
      <3>. QED
        BY <3>3, <3>4 DEF InMinting
    <2>15. Held' = Held \cup {k} /\ k \notin Held
      BY <2>6, <2>9, <2>11 DEF Held
    <2>16. IsFiniteSet(InIds)
      BY InNames, FS_Interval DEF InIds
    <2>17. Cardinality(Held') <= InPerShard
      <3>1. IsFiniteSet(Held)
        BY <2>16, FS_Subset DEF Held
      <3>2. Cardinality(Held \cup {k}) = Cardinality(Held) + 1
        BY <2>15, <3>1, FS_AddElement
      <3>3. Cardinality(Held) \in Nat
        BY <3>1, FS_CardinalityType
      <3>. QED
        BY <2>2, <2>15, <3>2, <3>3, InNames
    <2>18. ASSUME NEW q \in InPlayers
           PROVE  Cardinality(Ours(q)') <= InPerAccount
      <3>1. IsFiniteSet(Ours(q)) /\ IsFiniteSet(Ours(p)) /\ k \notin Ours(q)
        BY <2>15, <2>16, FS_Subset DEF Held, Ours
      <3>2. CASE SameAccount(p, q)
        <4>1. \A x \in InPlayers \cup {"nobody"} : SameAccount(x, p) <=> SameAccount(x, q)
          BY <3>2 DEF SameAccount
        <4>2. Ours(q) = Ours(p)
          BY <1>2, <4>1 DEF Ours, Held, InRecs
        <4>3. Ours(q)' \subseteq Ours(q) \cup {k}
          BY <2>11, <2>15 DEF Ours, Held
        <4>4. Cardinality(Ours(q) \cup {k}) = Cardinality(Ours(q)) + 1 /\ IsFiniteSet(Ours(q) \cup {k})
          BY <3>1, FS_AddElement
        <4>5. Cardinality(Ours(q)') <= Cardinality(Ours(q) \cup {k}) /\ Cardinality(Ours(q)') \in Nat
          BY <4>3, <4>4, FS_Subset, FS_CardinalityType
        <4>6. Cardinality(Ours(q)) \in Nat /\ Cardinality(Ours(q)) < InPerAccount
          BY <2>2, <3>1, <4>2, FS_CardinalityType
        <4>. QED
          BY <4>4, <4>5, <4>6, InNames
      <3>3. CASE ~SameAccount(p, q)
        <4>1. Ours(q)' = Ours(q)
          BY <2>9, <2>11, <2>15, <3>3 DEF Ours, Held
        <4>. QED
          BY <4>1 DEF InInv, CapsHold
      <3>. QED
        BY <3>2, <3>3
    <2>. QED
      BY <2>12, <2>13, <2>14, <2>17, <2>18 DEF InInv, CapsHold
  <1>5. CASE ~(mayReserve(p, rate) /\ Fresh # {})
    <2>1. /\ inWork' = [inWork EXCEPT ![i] = inIdle] /\ inReply' = Append(inReply, inWork[i])
          /\ UNCHANGED <<inRec, inRate>>
      BY <1>5 DEF Reserve
    <2>2. inIdle \in InReq /\ inIdle.id = 0
      BY InNames DEF inIdle, InReq
    <2>3. inWork' \in [1..InWorkers -> InReq] /\ inReply' \in Seq(InReq)
      BY <1>2, <1>3, <2>1, <2>2
    <2>4. InTypeOK'
      BY <1>1, <2>1, <2>3 DEF InInv, InTypeOK
    <2>5. InMinting'
      BY <1>1, <1>2, <2>1, <2>2 DEF InInv, InMinting
    <2>6. OccupantHasInstance'
      BY <1>1, <2>1 DEF InInv, OccupantHasInstance
    <2>. QED
      BY <2>1, <2>4, <2>5, <2>6, SameRecords
  <1>. QED
    BY <1>4, <1>5

LEMMA FinishKeeps ==
  ASSUME InInv, NEW i \in 1..InWorkers, NEW built \in BOOLEAN, MintFinish(i, built)
  PROVE  InInv'
  <1>. DEFINE k == inWork[i].id
  <1>1. /\ k # 0 /\ inWork' = [inWork EXCEPT ![i] = inIdle] /\ UNCHANGED <<inAt, inFly, inPend, inQ, inRate, inDrain>>
    BY DEF MintFinish
  <1>2. /\ inWork \in [1..InWorkers -> InReq] /\ inRec \in InRecs /\ inReply \in Seq(InReq) /\ inWork[i] \in InReq
    BY DEF InInv, InTypeOK, InRecs
  <1>3. k \in InIds /\ inRec[k].st = "reserved"
    BY <1>1, <1>2 DEF InInv, InMinting, InReq, InIds
  <1>4. inIdle \in InReq /\ inIdle.id = 0
    BY InNames DEF inIdle, InReq
  <1>5. [inWork[i] EXCEPT !.id = 0] \in InReq
    <2>1. 0 \in 0..InSerials
      BY InNames
    <2>. QED
      BY <1>2, <2>1 DEF InReq
  <1>6. /\ inReply' = Append(inReply, inWork[i]) \/ inReply' = Append(inReply, [inWork[i] EXCEPT !.id = 0])
        /\ \/ inRec' = [inRec EXCEPT ![k].st = "live"]
           \/ inRec' = [inRec EXCEPT ![k].st = "released"]
    BY <1>2, <1>3 DEF MintFinish, releaseInstanceSlot, InRecs
  <1>. HIDE DEF k
  <1>7. /\ inRec' \in InRecs /\ \A l \in InIds \ {k} : inRec'[l] = inRec[l]
        /\ inRec'[k].who = inRec[k].who /\ inRec'[k].abandoned = inRec[k].abandoned
    <2>1. CASE inRec' = [inRec EXCEPT ![k].st = "live"]
      BY <1>2, <1>3, <2>1 DEF InRecs
    <2>2. CASE inRec' = [inRec EXCEPT ![k].st = "released"]
      BY <1>2, <1>3, <2>2 DEF InRecs
    <2>. QED
      BY <1>6, <2>1, <2>2
  <1>8. inReply' \in Seq(InReq) /\ inWork' \in [1..InWorkers -> InReq]
    <2>1. inReply' \in Seq(InReq)
      BY <1>2, <1>5, <1>6
    <2>2. inWork' \in [1..InWorkers -> InReq]
      BY <1>1, <1>2, <1>4
    <2>. QED
      BY <2>1, <2>2
  <1>9. InTypeOK'
    BY <1>1, <1>7, <1>8 DEF InInv, InTypeOK, InRecs
  <1>10. Held' \subseteq Held
    BY <1>3, <1>7 DEF Held
  <1>11. \A p \in InPlayers : Ours(p)' \subseteq Ours(p)
    BY <1>7, <1>10 DEF Ours, Held
  <1>12. OccupantHasInstance'
    BY <1>1, <1>3, <1>7 DEF InInv, OccupantHasInstance
  <1>13. \A j \in 1..InWorkers : inWork'[j].id # 0 => j # i /\ inWork'[j] = inWork[j] /\ inWork[j].id \in InIds \ {k}
    <2>. SUFFICES ASSUME NEW j \in 1..InWorkers, inWork'[j].id # 0
                  PROVE  j # i /\ inWork'[j] = inWork[j] /\ inWork[j].id \in InIds \ {k}
      OBVIOUS
    <2>1. j # i /\ inWork'[j] = inWork[j]
      BY <1>1, <1>2, <1>4
    <2>2. inWork[j].id \in InIds
      BY <1>2, <2>1, InNames DEF InReq, InIds
    <2>3. inWork[j].id # k
      BY <1>1, <2>1 DEF InInv, InMinting, k
    <2>. QED
      BY <2>1, <2>2, <2>3
  <1>14. InMinting'
    BY <1>7, <1>13 DEF InInv, InMinting
  <1>. QED
    BY <1>9, <1>10, <1>11, <1>12, <1>14, FewerHeld DEF InInv

\* What only marks records keeps the invariant: none becomes held, none of the occupied or reserved is given back.
LEMMA MarkedRecords ==
  ASSUME InInv, inRec' \in InRecs, inWork' = inWork, inAt' = inAt \/ OccupantHasInstance',
         inFly' = inFly \/ OccupantHasInstance', InTypeOK',
         \A k \in InIds : /\ inRec'[k].who = inRec[k].who
                          /\ inRec'[k].st = inRec[k].st \/ (inRec[k].st = "live" /\ inRec'[k].st = "released" /\ quiescentInstance(k))
                          /\ inRec[k].abandoned => inRec'[k].abandoned
  PROVE  InInv'
  <1>1. Held' \subseteq Held
    BY DEF Held
  <1>2. \A p \in InPlayers : Ours(p)' \subseteq Ours(p)
    BY <1>1 DEF Ours, Held
  <1>3. OccupantHasInstance'
    BY DEF InInv, OccupantHasInstance, quiescentInstance
  <1>4. InMinting'
    <2>1. \A i \in 1..InWorkers : inWork[i].id # 0 => inWork[i].id \in InIds
      BY InNames DEF InInv, InTypeOK, InReq, InIds
    <2>. QED
      BY <2>1 DEF InInv, InMinting
  <1>. QED
    BY <1>1, <1>2, <1>3, <1>4, FewerHeld DEF InInv

LEMMA ReadyKeeps ==
  ASSUME InInv, NEW busy \in BOOLEAN, InstanceReady(busy)
  PROVE  InInv'
  <1>. DEFINE m == Head(inReply)
              p == m.who
              here == Present(p, inOrigin)
              goes == here /\ m.id # 0 /\ ~busy /\ inRec[m.id].st = "live" /\ ~inDrain
  <1>1. /\ inReply # <<>> /\ inReply' = Tail(inReply) /\ UNCHANGED <<inQ, inWork, inRate, inDrain>>
        /\ inPend' = (IF here THEN [inPend EXCEPT ![p] = FALSE] ELSE inPend)
        /\ (IF goes THEN InWalks(p, m.id) ELSE UNCHANGED <<inFly, inAt>>)
        /\ (IF goes \/ m.id = 0 THEN UNCHANGED inRec ELSE abandonInstance(m.id))
    BY DEF InstanceReady
  <1>2. /\ inReply \in Seq(InReq) /\ inRec \in InRecs /\ inPend \in [InPlayers -> BOOLEAN]
        /\ inAt \in [InPlayers -> InPlaces \cup {inNowhere}] /\ inFly \in [InPlayers -> InPlaces \cup {inNowhere}]
    BY DEF InInv, InTypeOK, InRecs
  <1>3. m \in InReq /\ inReply' \in Seq(InReq)
    BY <1>1, <1>2
  <1>4. m.id \in 0..InSerials
    BY <1>3 DEF InReq
  <1>. HIDE DEF m
  <1>5. inPend' \in [InPlayers -> BOOLEAN]
    BY <1>1, <1>2
  <1>6. CASE goes
    <2>1. m.id \in InIds /\ inRec[m.id].st = "live"
      BY <1>4, <1>6, InNames DEF InIds
    <2>2. inFly' = [inFly EXCEPT ![p] = m.id] /\ inAt' = [inAt EXCEPT ![p] = inNowhere] /\ inRec' = inRec
      BY <1>1, <1>6 DEF InWalks
    <2>. HIDE DEF p
    <2>3. /\ inAt' \in [InPlayers -> InPlaces \cup {inNowhere}]
          /\ inFly' \in [InPlayers -> InPlaces \cup {inNowhere}]
      BY <1>2, <2>1, <2>2, InPlacesFacts
    <2>4. OccupantHasInstance'
      <3>. SUFFICES ASSUME NEW q \in InPlayers, NEW k \in InIds, inAt'[q] = k \/ inFly'[q] = k
                    PROVE  inRec[k].st = "live"
        BY <2>2 DEF OccupantHasInstance
      <3>1. CASE q = p
        BY <1>2, <2>1, <2>2, <3>1, InNames
      <3>2. CASE q # p
        BY <1>2, <2>2, <3>2 DEF InInv, OccupantHasInstance
      <3>. QED
        BY <3>1, <3>2
    <2>5. InTypeOK'
      BY <1>1, <1>3, <1>5, <2>2, <2>3 DEF InInv, InTypeOK
    <2>. QED
      BY <1>1, <2>2, <2>4, <2>5, SameRecords
  <1>7. CASE ~goes
    <2>1. UNCHANGED <<inFly, inAt>>
      BY <1>1, <1>7
    <2>2. inRec' = inRec \/ (m.id \in InIds /\ inRec' = [inRec EXCEPT ![m.id].abandoned = TRUE])
      BY <1>1, <1>4, <1>7, InNames DEF abandonInstance, InIds
    <2>3. /\ inRec' \in InRecs
          /\ \A k \in InIds : /\ inRec'[k].who = inRec[k].who /\ inRec'[k].st = inRec[k].st
                              /\ inRec[k].abandoned => inRec'[k].abandoned
      <3>1. CASE inRec' = inRec
        BY <1>2, <3>1
      <3>. DEFINE l == m.id
      <3>2. CASE l \in InIds /\ inRec' = [inRec EXCEPT ![l].abandoned = TRUE]
        <4>. HIDE DEF l
        <4>. QED
          BY <1>2, <3>2 DEF InRecs
      <3>. QED
        BY <2>2, <3>1, <3>2
    <2>4. InTypeOK'
      BY <1>1, <1>3, <1>5, <2>1, <2>3 DEF InInv, InTypeOK, InRecs
    <2>. QED
      BY <1>1, <2>1, <2>3, <2>4, MarkedRecords
  <1>. QED
    BY <1>6, <1>7

LEMMA InArriveKeeps ==
  ASSUME InInv, NEW p \in InPlayers, InArrive(p)
  PROVE  InInv'
  <1>1. /\ inAt' = [inAt EXCEPT ![p] = inFly[p]] /\ inFly' = [inFly EXCEPT ![p] = inNowhere]
        /\ inPend' = [inPend EXCEPT ![p] = FALSE] /\ UNCHANGED <<inRec, inQ, inWork, inReply, inRate, inDrain>>
    BY DEF InArrive
  <1>2. /\ inAt \in [InPlayers -> InPlaces \cup {inNowhere}] /\ inFly \in [InPlayers -> InPlaces \cup {inNowhere}]
        /\ inPend \in [InPlayers -> BOOLEAN]
    BY DEF InInv, InTypeOK
  <1>3. /\ inAt' \in [InPlayers -> InPlaces \cup {inNowhere}] /\ inFly' \in [InPlayers -> InPlaces \cup {inNowhere}]
        /\ inPend' \in [InPlayers -> BOOLEAN]
    BY <1>1, <1>2
  <1>4. OccupantHasInstance'
    BY <1>1, <1>2, InNames DEF InInv, OccupantHasInstance
  <1>. QED
    BY <1>1, <1>3, <1>4, OutOfMap

LEMMA InMoveKeeps ==
  ASSUME InInv, NEW p \in InPlayers, NEW x \in {inOrigin, inOther}, movedTo(p, x),
         UNCHANGED <<inRec, inFly, inQ, inWork, inReply, inRate, inDrain>>
  PROVE  InInv'
  <1>1. inAt' = [inAt EXCEPT ![p] = x] /\ inPend' = [inPend EXCEPT ![p] = FALSE]
    BY DEF movedTo
  <1>2. /\ inAt \in [InPlayers -> InPlaces \cup {inNowhere}] /\ inFly' \in [InPlayers -> InPlaces \cup {inNowhere}]
        /\ inPend \in [InPlayers -> BOOLEAN]
    BY DEF InInv, InTypeOK
  <1>3. x \in InPlaces /\ x \notin InIds
    BY InNames, InPlacesFacts
  <1>4. inAt' \in [InPlayers -> InPlaces \cup {inNowhere}] /\ inPend' \in [InPlayers -> BOOLEAN]
    BY <1>1, <1>2, <1>3
  <1>5. OccupantHasInstance'
    BY <1>1, <1>2, <1>3 DEF InInv, OccupantHasInstance
  <1>. QED
    BY <1>2, <1>4, <1>5, OutOfMap

LEMMA ReaperKeeps ==
  ASSUME InInv, ReapSweep \/ InBeginDrain \/ \E k \in InIds : GraceOver(k) \/ ReapDue(k)
  PROVE  InInv'
  <1>1. inRec \in InRecs /\ InIdleTicks \in Nat
    BY InNames DEF InInv, InTypeOK, InRecs
  <1>2. CASE ReapSweep
    <2>1. \A k \in InIds : sweptIdle(k) \in 0..InIdleTicks
      BY <1>1 DEF sweptIdle, InRecs
    <2>2. inRec' = [k \in InIds |-> IF inRec[k].st = "live" THEN [inRec[k] EXCEPT !.idle = sweptIdle(k)] ELSE inRec[k]]
      BY <1>2 DEF ReapSweep
    <2>3. /\ inRec' \in InRecs
          /\ \A k \in InIds : /\ inRec'[k].who = inRec[k].who /\ inRec'[k].st = inRec[k].st
                              /\ inRec[k].abandoned => inRec'[k].abandoned
      BY <1>1, <2>1, <2>2 DEF InRecs
    <2>4. UNCHANGED <<inAt, inFly, inPend, inQ, inWork, inReply, inRate, inDrain>>
      BY <1>2 DEF ReapSweep
    <2>5. InTypeOK'
      BY <2>3, <2>4 DEF InInv, InTypeOK, InRecs
    <2>. QED
      BY <2>3, <2>4, <2>5, MarkedRecords
  <1>3. CASE InBeginDrain
    <2>1. inDrain' = TRUE /\ UNCHANGED <<inRec, inAt, inFly, inPend, inQ, inWork, inReply, inRate>>
      BY <1>3 DEF InBeginDrain
    <2>2. InTypeOK' /\ OccupantHasInstance'
      BY <2>1 DEF InInv, InTypeOK, OccupantHasInstance
    <2>. QED
      BY <2>1, <2>2, SameRecords
  <1>4. ASSUME NEW k \in InIds, GraceOver(k)
        PROVE  InInv'
    <2>1. inRec' = [inRec EXCEPT ![k].grace = FALSE] /\ UNCHANGED <<inAt, inFly, inPend, inQ, inWork, inReply, inRate, inDrain>>
      BY <1>4 DEF GraceOver
    <2>2. /\ inRec' \in InRecs
          /\ \A l \in InIds : /\ inRec'[l].who = inRec[l].who /\ inRec'[l].st = inRec[l].st
                              /\ inRec[l].abandoned => inRec'[l].abandoned
      BY <1>1, <2>1 DEF InRecs
    <2>3. InTypeOK'
      BY <2>1, <2>2 DEF InInv, InTypeOK, InRecs
    <2>. QED
      BY <2>1, <2>2, <2>3, MarkedRecords
  <1>5. ASSUME NEW k \in InIds, ReapDue(k)
        PROVE  InInv'
    <2>1. /\ inRec' = unhostInstance(k) /\ inRec[k].st = "live"
          /\ UNCHANGED <<inAt, inFly, inPend, inQ, inWork, inReply, inRate, inDrain>>
      BY <1>5 DEF ReapDue
    <2>2. CASE quiescentInstance(k)
      <3>1. inRec' = [inRec EXCEPT ![k].st = "released"]
        BY <2>1, <2>2 DEF unhostInstance
      <3>2. /\ inRec' \in InRecs
            /\ \A l \in InIds : /\ inRec'[l].who = inRec[l].who
                                /\ inRec'[l].st = inRec[l].st \/ (l = k /\ inRec'[l].st = "released")
                                /\ inRec[l].abandoned => inRec'[l].abandoned
        BY <1>1, <3>1 DEF InRecs
      <3>3. InTypeOK'
        BY <2>1, <3>2 DEF InInv, InTypeOK, InRecs
      <3>. QED
        BY <2>1, <2>2, <3>2, <3>3, MarkedRecords
    <2>3. CASE ~quiescentInstance(k)
      <3>1. inRec' = [inRec EXCEPT ![k].idle = 0]
        BY <2>1, <2>3 DEF unhostInstance
      <3>2. /\ inRec' \in InRecs
            /\ \A l \in InIds : /\ inRec'[l].who = inRec[l].who /\ inRec'[l].st = inRec[l].st
                                /\ inRec[l].abandoned => inRec'[l].abandoned
        BY <1>1, <3>1 DEF InRecs
      <3>3. InTypeOK'
        BY <2>1, <3>2 DEF InInv, InTypeOK, InRecs
      <3>. QED
        BY <2>1, <3>2, <3>3, MarkedRecords
    <2>. QED
      BY <2>2, <2>3
  <1>. QED
    BY <1>2, <1>3, <1>4, <1>5

\* The instance caps hold, and nobody stands in or walks into an instance that is not live, for any players,
\* accounts, workers, queue and limits (reserveInstanceSlot, UnhostZone).
THEOREM InstancesAreSafe == InSpec => []InstancesSafe
  <1>1. InInit => InInv
    <2>. SUFFICES ASSUME InInit PROVE InInv
      OBVIOUS
    <2>1. /\ inRec = [k \in InIds |-> inFree] /\ inAt = [p \in InPlayers |-> inOrigin]
          /\ inFly = [p \in InPlayers |-> inNowhere] /\ inPend = [p \in InPlayers |-> FALSE]
          /\ inQ = <<>> /\ inWork = [i \in 1..InWorkers |-> inIdle] /\ inReply = <<>>
          /\ inRate = [p \in InPlayers |-> 0] /\ inDrain = FALSE
      BY DEF InInit
    <2>2. inRec \in InRecs /\ \A k \in InIds : inRec[k].st = "free"
      BY <2>1, InNames DEF InRecs, inFree
    <2>3. inAt \in [InPlayers -> InPlaces \cup {inNowhere}] /\ inFly \in [InPlayers -> InPlaces \cup {inNowhere}]
      BY <2>1, InPlacesFacts
    <2>4. inWork \in [1..InWorkers -> InReq] /\ \A i \in 1..InWorkers : inWork[i].id = 0
      BY <2>1, InNames DEF inIdle, InReq
    <2>5. inQ \in Seq(InPlayers) /\ Len(inQ) <= InQueue /\ inReply \in Seq(InReq)
      BY <2>1, InNames
    <2>6. inRate \in [InPlayers -> 0..InBurst] /\ inPend \in [InPlayers -> BOOLEAN] /\ inDrain \in BOOLEAN
      <3>1. 0 \in 0..InBurst
        BY InNames
      <3>. QED
        BY <2>1, <3>1
    <2>7. InTypeOK
      BY <2>2, <2>3, <2>4, <2>5, <2>6 DEF InTypeOK, InRecs
    <2>8. Held = {} /\ \A p \in InPlayers : Ours(p) = {}
      BY <2>2 DEF Held, Ours
    <2>9. CapsHold
      BY <2>8, FS_EmptySet, InNames DEF CapsHold
    <2>10. OccupantHasInstance
      BY <2>1, InNames DEF OccupantHasInstance
    <2>. QED
      BY <2>4, <2>7, <2>9, <2>10 DEF InInv, InMinting
  <1>2. InInv => InstancesSafe
    BY DEF InInv, InstancesSafe
  <1>3. InInv /\ [InNext]_inVars => InInv'
    <2>. SUFFICES ASSUME InInv, [InNext]_inVars PROVE InInv'
      OBVIOUS
    <2>1. CASE UNCHANGED inVars
      <3>1. InTypeOK' /\ OccupantHasInstance'
        BY <2>1 DEF inVars, InInv, InTypeOK, OccupantHasInstance
      <3>. QED
        BY <2>1, <3>1, SameRecords DEF inVars
    <2>2. ASSUME NEW p \in InPlayers, evictToAnchor(p) \/ WalkAway(p)
          PROVE  InInv'
      <3>1. /\ \E x \in {inOrigin, inOther} : movedTo(p, x)
            /\ UNCHANGED <<inRec, inFly, inQ, inWork, inReply, inRate, inDrain>>
        BY <2>2 DEF evictToAnchor, WalkAway
      <3>. QED
        BY <3>1, InMoveKeeps
    <2>3. ASSUME NEW i \in 1..InWorkers, MintWork(i)
          PROVE  InInv'
      BY <2>3, TakeKeeps, ReserveKeeps, FinishKeeps DEF MintWork
    <2>4. CASE OriginReply
      BY <2>4, ReadyKeeps DEF OriginReply
    <2>5. CASE InNext
      BY <2>2, <2>3, <2>4, <2>5, RequestKeeps, InArriveKeeps, ReaperKeeps DEF InNext
    <2>. QED
      BY <2>1, <2>5
  <1>. QED
    BY <1>1, <1>2, <1>3, PTL DEF InSpec

-----------------------------------------------------------------------------
(* Residency: a zone's incoming counter counts the arrivals on their way to it, *)
(* the index names the zone of the session or says that it walks, and nothing   *)
(* is on its way to a zone torn down.                                           *)

Coming(b) == {i \in DOMAIN b : b[i].kind \in {"attach", "transferIn"}}
Walks(b) == {i \in DOMAIN b : b[i].kind = "transferIn"}
RsRouted(z) == {n \in RsStreams : rsStr[n].at = "routed" /\ rsStr[n].cur = z}
\* A stream whose attach was posted stays so.
RsPosted(n) == rsStr[n].at \in {"open", "refused", "ended"}
RsOf(s) == s.out \in RsStreams => RsPosted(s.out)
RsSound(m) ==
  /\ m.kind = "attach" => m.n \in RsStreams /\ RsPosted(m.n)
  /\ m.kind = "transferIn" => RsOf(m.s)

RsHosting ==
  /\ RsHome \in rsHosted /\ rsIdx.zone \in rsHosted \cup {RsNone}
  /\ \A z \in RsZones \ rsHosted : rsBox[z] = <<>> /\ rsPlay[z] = rsNobody
  /\ \A n \in RsStreams : rsStr[n].at = "routed" => rsStr[n].cur \in rsHosted
RsBound ==
  /\ \A z \in RsZones : RsOf(rsPlay[z])
  /\ \A z \in RsZones : \A i \in DOMAIN rsBox[z] : RsSound(rsBox[z][i])
RsCounted == \A z \in RsZones : rsInc[z] = Cardinality(Coming(rsBox[z])) + Cardinality(RsRouted(z))
OneWalker ==
  ~rsRaced => \A y, z \in RsZones : \A i \in RsWalking(y), j \in RsWalking(z) : y = z /\ i = j
RsInv == RsTypeOK /\ RsHosting /\ RsBound /\ RsCounted /\ OneWalker /\ IndexLeads

LEMMA RsNames == RsHome \in RsZones /\ RsNone \notin RsZones /\ RsMaxStreams \in Nat /\ RsMaxMoves \in Nat
  BY RsAssumption

LEMMA ComingFinite ==
  ASSUME NEW b \in Seq(RsMsg)
  PROVE  IsFiniteSet(Coming(b)) /\ Cardinality(Coming(b)) \in Nat
  <1>1. DOMAIN b = 1..Len(b) /\ Len(b) \in Nat
    OBVIOUS
  <1>2. IsFiniteSet(DOMAIN b)
    BY <1>1, FS_Interval
  <1>. QED
    BY <1>2, FS_Subset, FS_CardinalityType DEF Coming

LEMMA RoutedFinite ==
  \A z \in RsZones : IsFiniteSet(RsRouted(z)) /\ Cardinality(RsRouted(z)) \in Nat
  <1>1. IsFiniteSet(RsStreams)
    BY RsNames, FS_Interval DEF RsStreams
  <1>. QED
    BY <1>1, FS_Subset, FS_CardinalityType DEF RsRouted

\* A message joins an inbox at its end, and is counted if it brings somebody.
LEMMA BoxAppend ==
  ASSUME NEW b \in Seq(RsMsg), NEW m \in RsMsg
  PROVE  /\ Append(b, m) \in Seq(RsMsg)
         /\ \A i \in DOMAIN Append(b, m) : (i \in DOMAIN b /\ Append(b, m)[i] = b[i]) \/ (i = Len(b) + 1 /\ Append(b, m)[i] = m)
         /\ Cardinality(Coming(Append(b, m))) =
              Cardinality(Coming(b)) + (IF m.kind \in {"attach", "transferIn"} THEN 1 ELSE 0)
  <1>. DEFINE a == Append(b, m)
  <1>1. a \in Seq(RsMsg) /\ Len(a) = Len(b) + 1 /\ Len(b) \in Nat /\ a[Len(b) + 1] = m
    OBVIOUS
  <1>2. \A i \in 1..Len(b) : a[i] = b[i]
    OBVIOUS
  <1>3. DOMAIN a = 1..(Len(b) + 1) /\ DOMAIN b = 1..Len(b)
    BY <1>1
  <1>. HIDE DEF a
  <1>4. \A i \in DOMAIN a : (i \in DOMAIN b /\ a[i] = b[i]) \/ (i = Len(b) + 1 /\ a[i] = m)
    BY <1>1, <1>2, <1>3
  <1>5. IsFiniteSet(Coming(b)) /\ Len(b) + 1 \notin Coming(b)
    BY <1>1, <1>3, ComingFinite DEF Coming
  <1>6. CASE m.kind \in {"attach", "transferIn"}
    <2>1. Coming(a) = Coming(b) \cup {Len(b) + 1}
      BY <1>1, <1>2, <1>3, <1>6 DEF Coming
    <2>2. Cardinality(Coming(b) \cup {Len(b) + 1}) = Cardinality(Coming(b)) + 1
      BY <1>5, FS_AddElement
    <2>. QED
      BY <1>1, <1>4, <1>6, <2>1, <2>2 DEF a
  <1>7. CASE m.kind \notin {"attach", "transferIn"}
    <2>1. Coming(a) = Coming(b)
      BY <1>1, <1>2, <1>3, <1>7 DEF Coming
    <2>2. Cardinality(Coming(b)) \in Nat
      BY ComingFinite
    <2>. QED
      BY <1>1, <1>4, <1>7, <2>1, <2>2 DEF a
  <1>. QED
    BY <1>6, <1>7

\* Handling the first message moves the others up.
LEMMA BoxTail ==
  ASSUME NEW b \in Seq(RsMsg), b # <<>>
  PROVE  /\ Tail(b) \in Seq(RsMsg) /\ Head(b) \in RsMsg /\ 1 \in DOMAIN b /\ b[1] = Head(b)
         /\ \A i \in DOMAIN Tail(b) : i + 1 \in DOMAIN b /\ i + 1 # 1 /\ Tail(b)[i] = b[i + 1]
         /\ Cardinality(Coming(Tail(b))) =
              Cardinality(Coming(b)) - (IF Head(b).kind \in {"attach", "transferIn"} THEN 1 ELSE 0)
  <1>. DEFINE t == Tail(b)
              f == [i \in Coming(t) |-> i + 1]
  <1>1. t \in Seq(RsMsg) /\ Head(b) \in RsMsg /\ b[1] = Head(b) /\ Len(b) \in Nat \ {0} /\ Len(t) = Len(b) - 1
    OBVIOUS
  <1>2. \A i \in 1..(Len(b) - 1) : t[i] = b[i + 1]
    OBVIOUS
  <1>3. DOMAIN t = 1..(Len(b) - 1) /\ DOMAIN b = 1..Len(b)
    BY <1>1
  <1>. HIDE DEF t
  <1>4. \A i \in DOMAIN t : i + 1 \in DOMAIN b /\ i + 1 # 1 /\ t[i] = b[i + 1]
    BY <1>1, <1>2, <1>3
  <1>5. IsFiniteSet(Coming(t)) /\ IsFiniteSet(Coming(b)) /\ Cardinality(Coming(t)) \in Nat /\ Cardinality(Coming(b)) \in Nat
    BY <1>1, ComingFinite
  <1>6. Coming(t) \subseteq Nat /\ \A i \in Coming(t) : f[i] \in Coming(b) \ {1} /\ f[i] = i + 1
    BY <1>1, <1>3, <1>4 DEF Coming
  <1>7. \A j \in Coming(b) \ {1} : j - 1 \in Coming(t) /\ f[j - 1] = j
    <2>. SUFFICES ASSUME NEW j \in Coming(b) \ {1} PROVE j - 1 \in Coming(t) /\ f[j - 1] = j
      OBVIOUS
    <2>1. j \in 1..Len(b) /\ j - 1 \in 1..(Len(b) - 1) /\ (j - 1) + 1 = j
      BY <1>1, <1>3 DEF Coming
    <2>2. t[j - 1] = b[j]
      BY <1>2, <2>1
    <2>3. j - 1 \in Coming(t)
      BY <1>3, <2>1, <2>2 DEF Coming
    <2>. QED
      BY <2>1, <2>3
  <1>8. f \in [Coming(t) -> Coming(b) \ {1}]
    BY <1>6
  <1>9. \A i, j \in Coming(t) : f[i] = f[j] => i = j
    BY <1>6
  <1>. HIDE DEF f
  <1>10. f \in Bijection(Coming(t), Coming(b) \ {1})
    BY <1>7, <1>8, <1>9, Fun_IsBij
  <1>11. Cardinality(Coming(t)) = Cardinality(Coming(b) \ {1})
    BY <1>5, <1>10, FS_Bijection DEF ExistsBijection
  <1>12. CASE Head(b).kind \in {"attach", "transferIn"}
    <2>1. 1 \in Coming(b)
      BY <1>1, <1>3, <1>12 DEF Coming
    <2>2. Cardinality(Coming(b) \ {1}) = Cardinality(Coming(b)) - 1
      BY <1>5, <2>1, FS_RemoveElement
    <2>. QED
      BY <1>1, <1>3, <1>4, <1>11, <1>12, <2>2 DEF t
  <1>13. CASE Head(b).kind \notin {"attach", "transferIn"}
    <2>1. 1 \notin Coming(b)
      BY <1>1, <1>13 DEF Coming
    <2>2. Cardinality(Coming(b) \ {1}) = Cardinality(Coming(b))
      BY <1>5, <2>1, FS_RemoveElement
    <2>. QED
      BY <1>1, <1>3, <1>4, <1>5, <1>11, <1>13, <2>2 DEF t
  <1>. QED
    BY <1>12, <1>13

LEMMA RsTypes ==
  ASSUME RsInv
  PROVE  /\ rsHosted \subseteq RsZones /\ rsInc \in [RsZones -> Int] /\ rsPlay \in [RsZones -> RsSession]
         /\ rsIdx \in [zone : RsZones \cup {RsNone}, fly : BOOLEAN] /\ rsFwd \in [RsZones -> RsZones \cup {RsNone}]
         /\ rsBox \in [RsZones -> Seq(RsMsg)] /\ rsTimer \subseteq [zone : RsZones, gen : Nat]
         /\ rsStr \in [RsStreams -> [at : {"new", "aged", "sweep", "load", "routed", "open", "refused", "ended"},
                                     cur : RsZones \cup {RsNone}]]
         /\ rsMoves \in 0..RsMaxMoves /\ rsDrain \in BOOLEAN /\ rsRaced \in BOOLEAN
  BY DEF RsInv, RsTypeOK

\* What a post leaves of the counts and of the character on the way.
LEMMA PostFacts ==
  ASSUME RsInv, NEW z \in RsZones, NEW m \in RsMsg, rsBox' = [rsBox EXCEPT ![z] = Append(@, m)]
  PROVE  /\ rsBox' \in [RsZones -> Seq(RsMsg)]
         /\ \A y \in RsZones \ {z} : rsBox'[y] = rsBox[y]
         /\ \A y \in RsZones : \A i \in DOMAIN rsBox'[y] :
              (i \in DOMAIN rsBox[y] /\ rsBox'[y][i] = rsBox[y][i]) \/ (y = z /\ i = Len(rsBox[z]) + 1 /\ rsBox'[y][i] = m)
         /\ Cardinality(Coming(rsBox'[z])) =
              Cardinality(Coming(rsBox[z])) + (IF m.kind \in {"attach", "transferIn"} THEN 1 ELSE 0)
  <1>1. rsBox \in [RsZones -> Seq(RsMsg)] /\ rsBox[z] \in Seq(RsMsg)
    BY RsTypes
  <1>2. rsBox'[z] = Append(rsBox[z], m) /\ \A y \in RsZones \ {z} : rsBox'[y] = rsBox[y]
    BY <1>1
  <1>3. Append(rsBox[z], m) \in Seq(RsMsg)
    BY <1>1, BoxAppend
  <1>4. rsBox' \in [RsZones -> Seq(RsMsg)]
    BY <1>1, <1>3
  <1>5. \A i \in DOMAIN rsBox'[z] :
          (i \in DOMAIN rsBox[z] /\ rsBox'[z][i] = rsBox[z][i]) \/ (i = Len(rsBox[z]) + 1 /\ rsBox'[z][i] = m)
    BY <1>1, <1>2, BoxAppend
  <1>6. Cardinality(Coming(rsBox'[z])) =
              Cardinality(Coming(rsBox[z])) + (IF m.kind \in {"attach", "transferIn"} THEN 1 ELSE 0)
    BY <1>1, <1>2, BoxAppend
  <1>. QED
    BY <1>2, <1>4, <1>5, <1>6

LEMMA HandleFacts ==
  ASSUME RsInv, NEW z \in RsZones, rsBox[z] # <<>>, Dequeue(z)
  PROVE  /\ rsBox' \in [RsZones -> Seq(RsMsg)] /\ Head(rsBox[z]) \in RsMsg /\ RsSound(Head(rsBox[z]))
         /\ 1 \in DOMAIN rsBox[z] /\ rsBox[z][1] = Head(rsBox[z])
         /\ \A y \in RsZones \ {z} : rsBox'[y] = rsBox[y]
         /\ \A i \in DOMAIN rsBox'[z] : i + 1 \in DOMAIN rsBox[z] /\ i + 1 # 1 /\ rsBox'[z][i] = rsBox[z][i + 1]
         /\ Cardinality(Coming(rsBox'[z])) =
              Cardinality(Coming(rsBox[z])) - (IF Head(rsBox[z]).kind \in {"attach", "transferIn"} THEN 1 ELSE 0)
  <1>1. rsBox \in [RsZones -> Seq(RsMsg)] /\ rsBox[z] \in Seq(RsMsg)
    BY RsTypes
  <1>2. rsBox'[z] = Tail(rsBox[z]) /\ \A y \in RsZones \ {z} : rsBox'[y] = rsBox[y]
    BY <1>1 DEF Dequeue
  <1>3. /\ Tail(rsBox[z]) \in Seq(RsMsg) /\ Head(rsBox[z]) \in RsMsg /\ 1 \in DOMAIN rsBox[z] /\ rsBox[z][1] = Head(rsBox[z])
        /\ \A i \in DOMAIN rsBox'[z] : i + 1 \in DOMAIN rsBox[z] /\ i + 1 # 1 /\ rsBox'[z][i] = rsBox[z][i + 1]
        /\ Cardinality(Coming(rsBox'[z])) =
              Cardinality(Coming(rsBox[z])) - (IF Head(rsBox[z]).kind \in {"attach", "transferIn"} THEN 1 ELSE 0)
    BY <1>1, <1>2, BoxTail
  <1>4. rsBox' \in [RsZones -> Seq(RsMsg)]
    BY <1>1, <1>3 DEF Dequeue
  <1>5. RsSound(Head(rsBox[z]))
    BY <1>3 DEF RsInv, RsBound
  <1>. QED
    BY <1>2, <1>3, <1>4, <1>5

\* The conjuncts a step keeps for reasons of its frame.
LEMMA BoundStep ==
  ASSUME RsInv, \A n \in RsStreams : RsPosted(n) => RsPosted(n)',
         \A z \in RsZones : (\E y \in RsZones : rsPlay'[z].out = rsPlay[y].out) \/ RsOf(rsPlay[z])',
         \A z \in RsZones : \A i \in DOMAIN rsBox'[z] :
           (\E j \in DOMAIN rsBox[z] : rsBox'[z][i] = rsBox[z][j]) \/ RsSound(rsBox[z][i])'
  PROVE  RsBound'
  <1>1. ASSUME NEW z \in RsZones
        PROVE  RsOf(rsPlay[z])'
    BY DEF RsInv, RsBound, RsOf
  <1>2. ASSUME NEW z \in RsZones, NEW i \in DOMAIN rsBox'[z]
        PROVE  RsSound(rsBox[z][i])'
    BY DEF RsInv, RsBound, RsSound, RsOf
  <1>. QED
    BY <1>1, <1>2 DEF RsBound

LEMMA WalkStep ==
  ASSUME RsInv, rsRaced => rsRaced', rsBox' \in [RsZones -> Seq(RsMsg)],
         \A z \in RsZones : \E k \in {0, 1} : \A i \in RsWalking(z)' : i + k \in RsWalking(z)
  PROVE  OneWalker' /\ \A z \in RsZones : RsWalking(z)' # {} => RsWalking(z) # {}
  <1>. DEFINE W(z) == RsWalking(z)
  <1>1. ASSUME NEW z \in RsZones, NEW i \in W(z)', NEW j \in W(z)', ~rsRaced'
        PROVE  i = j
    <2>1. PICK k \in {0, 1} : \A l \in W(z)' : l + k \in W(z)
      OBVIOUS
    <2>2. i + k = j + k
      BY <1>1, <2>1 DEF RsInv, OneWalker
    <2>3. i \in Nat /\ j \in Nat
      <3>1. i \in DOMAIN rsBox'[z] /\ j \in DOMAIN rsBox'[z]
        BY DEF RsWalking
      <3>2. DOMAIN rsBox'[z] \subseteq Nat
        OBVIOUS
      <3>. QED
        BY <3>1, <3>2
    <2>. QED
      BY <2>2, <2>3
  <1>2. \A z \in RsZones : W(z)' # {} => W(z) # {}
    OBVIOUS
  <1>3. ASSUME NEW y \in RsZones, NEW z \in RsZones, W(y)' # {}, W(z)' # {}, ~rsRaced'
        PROVE  y = z
    BY <1>2, <1>3 DEF RsInv, OneWalker
  <1>. QED
    BY <1>1, <1>2, <1>3 DEF OneWalker

LEMMA HostingStep ==
  ASSUME RsInv, rsHosted' = rsHosted, rsIdx'.zone \in rsHosted \cup {RsNone},
         \A z \in RsZones \ rsHosted : rsBox'[z] = rsBox[z] /\ rsPlay'[z] = rsPlay[z],
         \A n \in RsStreams : rsStr'[n].at = "routed" =>
           (rsStr[n].at = "routed" /\ rsStr'[n].cur = rsStr[n].cur) \/ rsStr'[n].cur \in rsHosted
  PROVE  RsHosting'
  BY DEF RsInv, RsHosting

\* One stream goes on, and neither enters nor leaves the routed ones.
LEMMA OneStream ==
  ASSUME RsInv, NEW n \in RsStreams,
         NEW v \in {"new", "aged", "sweep", "load", "open", "refused", "ended"}, rsStr[n].at # "routed",
         rsStr' = [rsStr EXCEPT ![n].at = v], RsPosted(n) => v \in {"open", "refused", "ended"}
  PROVE  /\ rsStr' \in [RsStreams -> [at : {"new", "aged", "sweep", "load", "routed", "open", "refused", "ended"},
                                     cur : RsZones \cup {RsNone}]]
         /\ \A k \in RsStreams : RsPosted(k) => RsPosted(k)'
         /\ \A k \in RsStreams : rsStr'[k].at = "routed" => rsStr[k].at = "routed" /\ rsStr'[k].cur = rsStr[k].cur
         /\ \A z : RsRouted(z)' = RsRouted(z)
  <1>1. /\ rsStr' \in [RsStreams -> [at : {"new", "aged", "sweep", "load", "routed", "open", "refused", "ended"},
                                     cur : RsZones \cup {RsNone}]]
        /\ rsStr'[n].at = v /\ \A k \in RsStreams \ {n} : rsStr'[k] = rsStr[k]
    BY RsTypes
  <1>. QED
    BY <1>1 DEF RsPosted, RsRouted

\* A stream's zone follows the character: not a routed stream's.
LEMMA MovedStream ==
  ASSUME RsInv, NEW n, n \in RsStreams => RsPosted(n), NEW z \in RsZones, rsStr' = [rsStr EXCEPT ![n].cur = z]
  PROVE  /\ rsStr' \in [RsStreams -> [at : {"new", "aged", "sweep", "load", "routed", "open", "refused", "ended"},
                                     cur : RsZones \cup {RsNone}]]
         /\ \A k \in RsStreams : RsPosted(k) => RsPosted(k)'
         /\ \A k \in RsStreams : rsStr'[k].at = "routed" => rsStr[k].at = "routed" /\ rsStr'[k].cur = rsStr[k].cur
         /\ \A y : RsRouted(y)' = RsRouted(y)
  <1>1. /\ rsStr' \in [RsStreams -> [at : {"new", "aged", "sweep", "load", "routed", "open", "refused", "ended"},
                                     cur : RsZones \cup {RsNone}]]
        /\ \A k \in RsStreams : rsStr'[k].at = rsStr[k].at /\ (k # n => rsStr'[k].cur = rsStr[k].cur)
    BY RsTypes
  <1>2. n \in RsStreams => rsStr[n].at # "routed"
    BY DEF RsPosted
  <1>. QED
    BY <1>1, <1>2 DEF RsPosted, RsRouted

LEMMA QuietPost ==
  ASSUME RsInv, NEW z \in RsZones, NEW m \in RsMsg, m.kind # "transferIn", rsBox' = [rsBox EXCEPT ![z] = Append(@, m)],
         rsRaced => rsRaced'
  PROVE  OneWalker' /\ \A y \in RsZones : RsWalking(y)' # {} => RsWalking(y) # {}
  <1>1. ASSUME NEW y \in RsZones, NEW i \in RsWalking(y)'
        PROVE  i + 0 \in RsWalking(y)
    <2>1. i \in DOMAIN rsBox'[y] /\ rsBox'[y][i].kind = "transferIn"
      BY DEF RsWalking
    <2>2. i \in DOMAIN rsBox[y] /\ rsBox'[y][i] = rsBox[y][i]
      BY <2>1, PostFacts
    <2>3. i + 0 = i
      <3>1. DOMAIN rsBox[y] \subseteq Nat
        BY RsTypes
      <3>. QED
        BY <2>2, <3>1
    <2>. QED
      BY <2>1, <2>2, <2>3 DEF RsWalking
  <1>2. rsBox' \in [RsZones -> Seq(RsMsg)]
    BY PostFacts
  <1>. QED
    BY <1>1, <1>2, WalkStep

LEMMA QuietHandle ==
  ASSUME RsInv, NEW z \in RsZones, rsBox[z] # <<>>, Dequeue(z), rsRaced => rsRaced'
  PROVE  OneWalker' /\ \A y \in RsZones : RsWalking(y)' # {} => RsWalking(y) # {}
  <1>1. ASSUME NEW i \in RsWalking(z)'
        PROVE  i + 1 \in RsWalking(z)
    <2>1. i \in DOMAIN rsBox'[z] /\ rsBox'[z][i].kind = "transferIn"
      BY DEF RsWalking
    <2>. QED
      BY <2>1, HandleFacts DEF RsWalking
  <1>2. ASSUME NEW y \in RsZones \ {z}, NEW i \in RsWalking(y)'
        PROVE  i + 0 \in RsWalking(y)
    <2>1. i \in DOMAIN rsBox[y] /\ rsBox[y][i].kind = "transferIn"
      BY HandleFacts DEF RsWalking
    <2>2. DOMAIN rsBox[y] \subseteq Nat
      BY RsTypes
    <2>3. i + 0 = i
      BY <2>1, <2>2
    <2>. QED
      BY <2>1, <2>3 DEF RsWalking
  <1>3. rsBox' \in [RsZones -> Seq(RsMsg)]
    BY HandleFacts
  <1>. QED
    BY <1>1, <1>2, <1>3, WalkStep

LEMMA SameBoxes ==
  ASSUME RsInv, rsBox' = rsBox, rsRaced => rsRaced'
  PROVE  OneWalker' /\ \A y \in RsZones : RsWalking(y)' = RsWalking(y)
  BY DEF RsInv, OneWalker, RsWalking

LEMMA LeadsSame ==
  ASSUME RsInv, rsIdx' = rsIdx, RsHeld' \subseteq RsHeld, rsRaced => rsRaced',
         \A z \in RsZones : RsWalking(z)' # {} => RsWalking(z) # {}
  PROVE  IndexLeads'
  BY DEF RsInv, IndexLeads, indexResident

\* Once the character has left, nothing holds it.
LEMMA LeaveLeads ==
  ASSUME RsInv, NEW z \in RsZones, rsPlay[z] # rsNobody, LeavesZone(z), rsRaced => rsRaced',
         \A y \in RsZones : RsWalking(y)' # {} => RsWalking(y) # {}
  PROVE  /\ IndexLeads' /\ rsIdx'.zone \in {rsIdx.zone, RsNone}
         /\ rsIdx' \in [zone : RsZones \cup {RsNone}, fly : BOOLEAN] /\ rsPlay' \in [RsZones -> RsSession]
         /\ rsPlay'[z].out \notin RsStreams /\ \A y \in RsZones \ {z} : rsPlay'[y] = rsPlay[y]
  <1>1. rsPlay' = [rsPlay EXCEPT ![z] = rsNobody] /\ rsIdx' = unindexResident(rsIdx, z)
    BY DEF LeavesZone
  <1>2. rsNobody \in RsSession /\ rsNobody.out \notin RsStreams
    BY RsNames DEF rsNobody, RsSession, RsStreams
  <1>3. rsPlay' \in [RsZones -> RsSession] /\ rsPlay'[z] = rsNobody /\ \A y \in RsZones \ {z} : rsPlay'[y] = rsPlay[y]
    BY <1>1, <1>2, RsTypes
  <1>4. rsIdx' \in [zone : RsZones \cup {RsNone}, fly : BOOLEAN] /\ rsIdx'.zone \in {rsIdx.zone, RsNone}
    BY <1>1, RsTypes DEF unindexResident, forgetResidency, rsNoEntry
  <1>5. ASSUME ~rsRaced'
        PROVE  RsHeld' = {} /\ \A y \in RsZones : RsWalking(y)' = {}
    <2>1. z \in RsHeld /\ rsIdx = [zone |-> z, fly |-> FALSE]
      BY <1>5 DEF RsInv, IndexLeads, indexResident, RsHeld
    <2>2. \A y \in RsHeld : y = z
      BY <1>5, <2>1 DEF RsInv, IndexLeads, indexResident
    <2>3. \A y \in RsZones : RsWalking(y) = {}
      BY <1>5, <2>1 DEF RsInv, IndexLeads
    <2>. QED
      BY <1>3, <2>2, <2>3 DEF RsHeld
  <1>6. IndexLeads'
    BY <1>5 DEF IndexLeads
  <1>. QED
    BY <1>2, <1>3, <1>4, <1>6

LEMMA CountedNext ==
  ASSUME \A y \in RsZones : rsInc'[y] = Cardinality(Coming(rsBox'[y])) + Cardinality(RsRouted(y)')
  PROVE  RsCounted'
  BY DEF RsCounted, Coming

LEMMA CountSame ==
  ASSUME RsInv, rsInc' = rsInc, \A z \in RsZones : RsRouted(z)' = RsRouted(z),
         \A z \in RsZones : Cardinality(Coming(rsBox'[z])) = Cardinality(Coming(rsBox[z]))
  PROVE  RsCounted'
  BY DEF RsInv, RsCounted, Coming

\* Steps of a stream before its post.
LEMMA StreamKeeps ==
  ASSUME RsInv, NEW n \in RsStreams, LoginStart(n, TRUE) \/ LoginStart(n, FALSE) \/ SweepCheck(n) \/ SweepClear(n)
  PROVE  RsInv'
  <1>1. /\ rsStr[n].at \in {"new", "aged", "sweep"}
        /\ \E v \in {"aged", "sweep", "load"} : rsStr' = [rsStr EXCEPT ![n].at = v]
        /\ UNCHANGED <<rsHosted, rsInc, rsPlay, rsFwd, rsBox, rsTimer, rsMoves, rsDrain>>
    BY DEF LoginStart, SweepCheck, SweepClear
  <1>2. \/ rsIdx' = rsIdx /\ rsRaced' = rsRaced
        \/ rsIdx' = clearTransferInFlight(rsIdx) /\ rsRaced' = (rsRaced \/ (rsIdx.fly /\ anyInboundArrivalOutstanding))
    BY DEF LoginStart, SweepCheck, SweepClear
  <1>3. PICK v \in {"aged", "sweep", "load"} : rsStr' = [rsStr EXCEPT ![n].at = v]
    BY <1>1
  <1>4. /\ rsStr' \in [RsStreams -> [at : {"new", "aged", "sweep", "load", "routed", "open", "refused", "ended"},
                                     cur : RsZones \cup {RsNone}]]
        /\ \A k \in RsStreams : RsPosted(k) => RsPosted(k)'
        /\ \A k \in RsStreams : rsStr'[k].at = "routed" => rsStr[k].at = "routed" /\ rsStr'[k].cur = rsStr[k].cur
        /\ \A z : RsRouted(z)' = RsRouted(z)
    BY <1>1, <1>3, OneStream DEF RsPosted
  <1>5. /\ rsIdx' \in [zone : RsZones \cup {RsNone}, fly : BOOLEAN] /\ rsIdx'.zone = rsIdx.zone
        /\ rsRaced' \in BOOLEAN /\ (rsRaced => rsRaced')
    <2>1. CASE rsIdx' = rsIdx /\ rsRaced' = rsRaced
      BY <2>1, RsTypes
    <2>2. CASE rsIdx' = clearTransferInFlight(rsIdx) /\ rsRaced' = (rsRaced \/ (rsIdx.fly /\ anyInboundArrivalOutstanding))
      <3>1. rsIdx' \in [zone : RsZones \cup {RsNone}, fly : BOOLEAN] /\ rsIdx'.zone = rsIdx.zone
        BY <2>2, RsTypes DEF clearTransferInFlight
      <3>2. rsRaced' \in BOOLEAN /\ (rsRaced => rsRaced')
        BY <2>2, Zenon
      <3>. QED
        BY <3>1, <3>2
    <2>. QED
      BY <1>2, <2>1, <2>2
  <1>6. RsTypeOK'
    BY <1>1, <1>4, <1>5 DEF RsInv, RsTypeOK
  <1>7. RsHosting'
    <2>1. rsIdx'.zone \in rsHosted \cup {RsNone}
      BY <1>5 DEF RsInv, RsHosting
    <2>. QED
      BY <1>1, <1>4, <2>1, HostingStep
  <1>8. RsBound'
    BY <1>1, <1>4, BoundStep
  <1>9. RsCounted'
    BY <1>1, <1>4, CountSame
  <1>10. OneWalker' /\ \A y \in RsZones : RsWalking(y)' = RsWalking(y)
    BY <1>1, <1>5, SameBoxes
  <1>11. RsHeld' = RsHeld
    BY <1>1 DEF RsHeld
  <1>12. IndexLeads'
    <2>1. CASE rsIdx' = rsIdx /\ rsRaced' = rsRaced
      BY <1>10, <1>11, <2>1, LeadsSame
    <2>2. CASE rsIdx' = clearTransferInFlight(rsIdx) /\ rsRaced' = (rsRaced \/ (rsIdx.fly /\ anyInboundArrivalOutstanding))
      <3>. SUFFICES ASSUME ~rsRaced'
                    PROVE  /\ \A z \in RsHeld' : rsIdx' = indexResident(z)
                           /\ \A z \in RsZones : RsWalking(z)' # {} => rsIdx'.fly
        BY DEF IndexLeads, indexResident
      <3>1. ~rsRaced /\ (~rsIdx.fly \/ ~anyInboundArrivalOutstanding)
        BY <2>2, RsTypes
      <3>2. ASSUME NEW z \in RsHeld' PROVE rsIdx' = indexResident(z)
        <4>1. rsIdx = [zone |-> z, fly |-> FALSE]
          BY <1>11, <3>1 DEF RsInv, IndexLeads, indexResident
        <4>2. rsIdx' = [rsIdx EXCEPT !.fly = FALSE]
          BY <2>2 DEF clearTransferInFlight
        <4>. QED
          BY <4>1, <4>2 DEF indexResident
      <3>3. ASSUME NEW z \in RsZones, RsWalking(z)' # {}
            PROVE  FALSE
        <4>1. RsWalking(z) # {} /\ rsIdx.fly
          BY <1>10, <3>1, <3>3 DEF RsInv, IndexLeads
        <4>2. z \in rsHosted
          BY <4>1 DEF RsWalking, RsInv, RsHosting
        <4>3. Coming(rsBox[z]) # {}
          BY <4>1 DEF RsWalking, Coming
        <4>4. Cardinality(Coming(rsBox[z])) # 0 /\ Cardinality(Coming(rsBox[z])) \in Nat
          BY <4>3, ComingFinite, FS_EmptySet, RsTypes
        <4>5. rsInc[z] > 0
          BY <4>4, RoutedFinite DEF RsInv, RsCounted
        <4>. QED
          BY <3>1, <4>1, <4>2, <4>5 DEF anyInboundArrivalOutstanding
      <3>. QED
        BY <3>2, <3>3
    <2>. QED
      BY <1>2, <2>1, <2>2
  <1>. QED
    BY <1>6, <1>7, <1>8, <1>9, <1>10, <1>12 DEF RsInv

\* The arrival is claimed where it is routed, under the lock that tears zones down.
LEMMA RouteKeeps ==
  ASSUME RsInv, NEW n \in RsStreams, NEW d \in RsZones, AttachRoute(n, d)
  PROVE  RsInv'
  <1>1. rsStr[n].at = "load" /\ UNCHANGED <<rsHosted, rsPlay, rsIdx, rsFwd, rsBox, rsTimer, rsMoves, rsDrain, rsRaced>>
    BY DEF AttachRoute
  <1>2. OneWalker' /\ \A y \in RsZones : RsWalking(y)' = RsWalking(y)
    BY <1>1, SameBoxes
  <1>3. RsHeld' = RsHeld
    BY <1>1 DEF RsHeld
  <1>4. IndexLeads'
    BY <1>1, <1>2, <1>3, LeadsSame
  <1>5. CASE rsIdx.fly
    <2>1. rsStr' = [rsStr EXCEPT ![n].at = "refused"] /\ rsInc' = rsInc
      BY <1>5 DEF AttachRoute
    <2>2. /\ rsStr' \in [RsStreams -> [at : {"new", "aged", "sweep", "load", "routed", "open", "refused", "ended"},
                                     cur : RsZones \cup {RsNone}]]
          /\ \A k \in RsStreams : RsPosted(k) => RsPosted(k)'
          /\ \A k \in RsStreams : rsStr'[k].at = "routed" => rsStr[k].at = "routed" /\ rsStr'[k].cur = rsStr[k].cur
          /\ \A y : RsRouted(y)' = RsRouted(y)
      BY <1>1, <2>1, OneStream DEF RsPosted
    <2>3. RsTypeOK'
      BY <1>1, <2>1, <2>2 DEF RsInv, RsTypeOK
    <2>4. rsIdx'.zone \in rsHosted \cup {RsNone}
      BY <1>1 DEF RsInv, RsHosting
    <2>5. RsHosting'
      BY <1>1, <2>2, <2>4, HostingStep
    <2>6. RsBound'
      BY <1>1, <2>2, BoundStep
    <2>7. RsCounted'
      BY <1>1, <2>1, <2>2, CountSame
    <2>. QED
      BY <1>2, <1>4, <2>3, <2>5, <2>6, <2>7 DEF RsInv
  <1>6. CASE ~rsIdx.fly
    <2>. DEFINE target == IF rsIdx.zone # RsNone THEN rsIdx.zone ELSE IF d \in rsHosted THEN d ELSE RsHome
    <2>0. target \in rsHosted
      BY DEF RsInv, RsHosting
    <2>1. PICK z \in rsHosted : /\ rsStr' = [rsStr EXCEPT ![n] = [at |-> "routed", cur |-> z]]
                               /\ rsInc' = [rsInc EXCEPT ![z] = @ + 1]
      BY <1>6, <2>0 DEF AttachRoute, claimAttachTarget
    <2>2. z \in rsHosted /\ z \in RsZones
      BY RsTypes
    <2>3. /\ rsStr' \in [RsStreams -> [at : {"new", "aged", "sweep", "load", "routed", "open", "refused", "ended"},
                                     cur : RsZones \cup {RsNone}]]
          /\ rsStr'[n].at = "routed" /\ rsStr'[n].cur = z /\ \A k \in RsStreams \ {n} : rsStr'[k] = rsStr[k]
      BY <2>1, <2>2, RsTypes
    <2>4. rsInc' \in [RsZones -> Int] /\ rsInc'[z] = rsInc[z] + 1 /\ \A y \in RsZones \ {z} : rsInc'[y] = rsInc[y]
      BY <2>1, <2>2, RsTypes
    <2>5. RsTypeOK'
      BY <1>1, <2>3, <2>4 DEF RsInv, RsTypeOK
    <2>6. rsIdx'.zone \in rsHosted \cup {RsNone}
      BY <1>1 DEF RsInv, RsHosting
    <2>7. RsHosting'
      BY <1>1, <2>2, <2>3, <2>6, HostingStep
    <2>8. \A k \in RsStreams : RsPosted(k) => RsPosted(k)'
      BY <1>1, <2>3 DEF RsPosted
    <2>9. RsBound'
      BY <1>1, <2>8, BoundStep
    <2>10. RsRouted(z)' = RsRouted(z) \cup {n} /\ n \notin RsRouted(z) /\ \A y \in RsZones \ {z} : RsRouted(y)' = RsRouted(y)
      <3>1. n \notin RsRouted(z)
        BY <1>1 DEF RsRouted
      <3>2. RsRouted(z)' = RsRouted(z) \cup {n}
        BY <2>3 DEF RsRouted
      <3>3. \A y \in RsZones \ {z} : RsRouted(y)' = RsRouted(y)
        BY <1>1, <2>3 DEF RsRouted
      <3>. QED
        BY <3>1, <3>2, <3>3
    <2>11. Cardinality(RsRouted(z)') = Cardinality(RsRouted(z)) + 1
      BY <2>2, <2>10, RoutedFinite, FS_AddElement
    <2>12. RsCounted'
      <3>1. Cardinality(Coming(rsBox[z])) \in Nat /\ Cardinality(RsRouted(z)) \in Nat
        BY <2>2, ComingFinite, RoutedFinite, RsTypes
      <3>2. rsInc'[z] = Cardinality(Coming(rsBox[z])) + Cardinality(RsRouted(z)')
        BY <2>2, <2>4, <2>11, <3>1 DEF RsInv, RsCounted
      <3>3. \A y \in RsZones \ {z} : rsInc'[y] = Cardinality(Coming(rsBox[y])) + Cardinality(RsRouted(y)')
        BY <2>4, <2>10 DEF RsInv, RsCounted
      <3>. QED
        BY <1>1, <3>2, <3>3, CountedNext
    <2>. QED
      BY <1>2, <1>4, <2>5, <2>7, <2>9, <2>12 DEF RsInv
  <1>. QED
    BY <1>5, <1>6

\* A routed stream posts its attach or gives the arrival back: the count follows it.
LEMMA PostKeeps ==
  ASSUME RsInv, NEW n \in RsStreams, NEW ok \in BOOLEAN, AttachPost(n, ok)
  PROVE  RsInv'
  <1>. DEFINE m == [kind |-> "attach", n |-> n, s |-> rsNobody]
  <1>0. rsStr[n].cur \in rsHosted
    BY DEF AttachPost, RsInv, RsHosting
  <1>2. PICK z \in RsZones : z = rsStr[n].cur /\ z \in rsHosted
    BY <1>0, RsTypes
  <1>1. /\ rsStr[n].at = "routed" /\ UNCHANGED <<rsHosted, rsPlay, rsIdx, rsFwd, rsTimer, rsMoves, rsDrain, rsRaced>>
        /\ rsStr' = [rsStr EXCEPT ![n].at = IF ok THEN "open" ELSE "refused"]
        /\ IF ok THEN rsBox' = [rsBox EXCEPT ![z] = Append(@, m)] /\ rsInc' = rsInc
           ELSE rsInc' = [rsInc EXCEPT ![z] = @ - 1] /\ rsBox' = rsBox
    BY <1>2 DEF AttachPost
  <1>3. m \in RsMsg /\ m.kind = "attach" /\ m.n = n
    BY RsNames DEF RsMsg, rsNobody, RsSession, RsStreams
  <1>4. n \in RsRouted(z)
    BY <1>1, <1>2 DEF RsRouted
  <1>. HIDE DEF m
  <1>5. /\ rsStr' \in [RsStreams -> [at : {"new", "aged", "sweep", "load", "routed", "open", "refused", "ended"},
                                     cur : RsZones \cup {RsNone}]]
        /\ rsStr'[n].at \in {"open", "refused"} /\ rsStr'[n].cur = rsStr[n].cur /\ \A k \in RsStreams \ {n} : rsStr'[k] = rsStr[k]
    BY <1>1, RsTypes
  <1>6. RsPosted(n)' /\ \A k \in RsStreams : RsPosted(k) => RsPosted(k)'
    BY <1>1, <1>5 DEF RsPosted
  <1>7. RsRouted(z)' = RsRouted(z) \ {n} /\ \A y \in RsZones \ {z} : RsRouted(y)' = RsRouted(y)
    <2>1. RsRouted(z)' = RsRouted(z) \ {n}
      BY <1>2, <1>5 DEF RsRouted
    <2>2. \A y \in RsZones \ {z} : RsRouted(y)' = RsRouted(y)
      BY <1>1, <1>2, <1>5 DEF RsRouted
    <2>. QED
      BY <2>1, <2>2
  <1>8. /\ Cardinality(RsRouted(z)') = Cardinality(RsRouted(z)) - 1 /\ Cardinality(RsRouted(z)) \in Nat
        /\ Cardinality(Coming(rsBox[z])) \in Nat
    <2>1. IsFiniteSet(RsRouted(z)) /\ Cardinality(RsRouted(z)) \in Nat
      BY RoutedFinite
    <2>2. Cardinality(RsRouted(z) \ {n}) = Cardinality(RsRouted(z)) - 1
      BY <1>4, <2>1, FS_RemoveElement
    <2>3. Cardinality(Coming(rsBox[z])) \in Nat
      BY ComingFinite, RsTypes
    <2>. QED
      BY <1>7, <2>1, <2>2, <2>3
  <1>9. rsInc[z] = Cardinality(Coming(rsBox[z])) + Cardinality(RsRouted(z))
    BY <1>2 DEF RsInv, RsCounted
  <1>10. RsHeld' = RsHeld /\ rsIdx'.zone \in rsHosted \cup {RsNone}
    BY <1>1 DEF RsHeld, RsInv, RsHosting
  <1>11. CASE ok
    <2>1. rsBox' = [rsBox EXCEPT ![z] = Append(@, m)] /\ rsInc' = rsInc
      BY <1>1, <1>11
    <2>2. /\ rsBox' \in [RsZones -> Seq(RsMsg)]
          /\ \A y \in RsZones \ {z} : rsBox'[y] = rsBox[y]
          /\ Cardinality(Coming(rsBox'[z])) = Cardinality(Coming(rsBox[z])) + 1
      <3>1. m \in RsMsg /\ m.kind \in {"attach", "transferIn"}
        BY <1>2, <1>3
      <3>2. Cardinality(Coming(rsBox'[z])) = Cardinality(Coming(rsBox[z])) + 1
        BY <1>2, <2>1, <3>1, PostFacts
      <3>3. rsBox' \in [RsZones -> Seq(RsMsg)] /\ \A y \in RsZones \ {z} : rsBox'[y] = rsBox[y]
        BY <1>2, <2>1, <3>1, PostFacts
      <3>. QED
        BY <3>2, <3>3
    <2>3. RsTypeOK'
      BY <1>1, <1>5, <2>1, <2>2 DEF RsInv, RsTypeOK
    <2>4. RsHosting'
      BY <1>1, <1>2, <1>5, <1>10, <2>2, HostingStep
    <2>5. RsBound'
      <3>1. ASSUME NEW y \in RsZones, NEW i \in DOMAIN rsBox'[y]
            PROVE  (\E j \in DOMAIN rsBox[y] : rsBox'[y][i] = rsBox[y][j]) \/ RsSound(rsBox[y][i])'
        <4>1. CASE i \in DOMAIN rsBox[y] /\ rsBox'[y][i] = rsBox[y][i]
          BY <4>1
        <4>2. CASE rsBox'[y][i] = m
          BY <1>3, <1>6, <4>2 DEF RsSound
        <4>. QED
          BY <1>2, <1>3, <2>1, <4>1, <4>2, PostFacts
      <3>. QED
        BY <1>1, <1>6, <3>1, BoundStep
    <2>6. OneWalker' /\ \A y \in RsZones : RsWalking(y)' # {} => RsWalking(y) # {}
      BY <1>1, <1>2, <1>3, <2>1, QuietPost
    <2>7. IndexLeads'
      BY <1>1, <1>10, <2>6, LeadsSame
    <2>8. RsCounted'
      <3>1. rsInc'[z] = Cardinality(Coming(rsBox'[z])) + Cardinality(RsRouted(z)')
        BY <1>8, <1>9, <2>1, <2>2
      <3>2. \A y \in RsZones \ {z} : rsInc'[y] = Cardinality(Coming(rsBox'[y])) + Cardinality(RsRouted(y)')
        BY <1>7, <2>1, <2>2 DEF RsInv, RsCounted
      <3>. QED
        BY <3>1, <3>2, CountedNext
    <2>. QED
      BY <2>3, <2>4, <2>5, <2>6, <2>7, <2>8 DEF RsInv
  <1>12. CASE ~ok
    <2>1. rsInc' = [rsInc EXCEPT ![z] = @ - 1] /\ rsBox' = rsBox
      BY <1>1, <1>12
    <2>2. rsInc' \in [RsZones -> Int] /\ rsInc'[z] = rsInc[z] - 1 /\ \A y \in RsZones \ {z} : rsInc'[y] = rsInc[y]
      BY <1>2, <2>1, RsTypes
    <2>3. RsTypeOK'
      BY <1>1, <1>5, <2>1, <2>2 DEF RsInv, RsTypeOK
    <2>4. RsHosting'
      BY <1>1, <1>5, <1>10, <2>1, HostingStep
    <2>5. RsBound'
      BY <1>1, <1>6, <2>1, BoundStep
    <2>6. OneWalker' /\ \A y \in RsZones : RsWalking(y)' = RsWalking(y)
      BY <1>1, <2>1, SameBoxes
    <2>7. IndexLeads'
      BY <1>1, <1>10, <2>6, LeadsSame
    <2>8. RsCounted'
      <3>1. rsInc'[z] = Cardinality(Coming(rsBox[z])) + Cardinality(RsRouted(z)')
        BY <1>8, <1>9, <2>2
      <3>2. \A y \in RsZones \ {z} : rsInc'[y] = Cardinality(Coming(rsBox[y])) + Cardinality(RsRouted(y)')
        BY <1>7, <2>2 DEF RsInv, RsCounted
      <3>. QED
        BY <2>1, <3>1, <3>2, CountedNext
    <2>. QED
      BY <2>3, <2>4, <2>5, <2>6, <2>7, <2>8 DEF RsInv
  <1>. QED
    BY <1>11, <1>12

LEMMA EndKeeps ==
  ASSUME RsInv, NEW n \in RsStreams, NEW kind \in {"detach", "leave"}, StreamEnd(n, kind)
  PROVE  RsInv'
  <1>. DEFINE z == rsStr[n].cur
              m == [kind |-> kind, n |-> n, s |-> rsNobody]
  <1>1. /\ rsStr[n].at = "open" /\ rsStr' = [rsStr EXCEPT ![n].at = "ended"]
        /\ UNCHANGED <<rsHosted, rsInc, rsPlay, rsIdx, rsFwd, rsTimer, rsMoves, rsDrain, rsRaced>>
        /\ (z \in rsHosted /\ rsBox' = [rsBox EXCEPT ![z] = Append(@, m)]) \/ rsBox' = rsBox
    BY DEF StreamEnd
  <1>2. m \in RsMsg /\ m.kind = kind
    BY RsNames DEF RsMsg, rsNobody, RsSession, RsStreams
  <1>3. /\ rsStr' \in [RsStreams -> [at : {"new", "aged", "sweep", "load", "routed", "open", "refused", "ended"},
                                     cur : RsZones \cup {RsNone}]]
        /\ \A k \in RsStreams : RsPosted(k) => RsPosted(k)'
        /\ \A k \in RsStreams : rsStr'[k].at = "routed" => rsStr[k].at = "routed" /\ rsStr'[k].cur = rsStr[k].cur
        /\ \A y : RsRouted(y)' = RsRouted(y)
    BY <1>1, OneStream DEF RsPosted
  <1>. HIDE DEF z, m
  <1>4. RsHeld' = RsHeld /\ rsIdx'.zone \in rsHosted \cup {RsNone}
    BY <1>1 DEF RsHeld, RsInv, RsHosting
  <1>5. CASE z \in rsHosted /\ rsBox' = [rsBox EXCEPT ![z] = Append(@, m)]
    <2>1. z \in RsZones
      BY <1>5, RsTypes
    <2>2. /\ rsBox' \in [RsZones -> Seq(RsMsg)]
          /\ \A y \in RsZones \ {z} : rsBox'[y] = rsBox[y]
          /\ Cardinality(Coming(rsBox'[z])) = Cardinality(Coming(rsBox[z])) + 0
      BY <1>2, <1>5, <2>1, PostFacts
    <2>3. RsTypeOK'
      BY <1>1, <1>3, <2>2 DEF RsInv, RsTypeOK
    <2>4. RsHosting'
      BY <1>1, <1>3, <1>4, <1>5, <2>2, HostingStep
    <2>5. RsBound'
      <3>1. ASSUME NEW y \in RsZones, NEW i \in DOMAIN rsBox'[y]
            PROVE  (\E j \in DOMAIN rsBox[y] : rsBox'[y][i] = rsBox[y][j]) \/ RsSound(rsBox[y][i])'
        <4>1. CASE i \in DOMAIN rsBox[y] /\ rsBox'[y][i] = rsBox[y][i]
          BY <4>1
        <4>2. CASE rsBox'[y][i] = m
          BY <1>2, <4>2 DEF RsSound
        <4>. QED
          BY <1>2, <1>5, <2>1, <4>1, <4>2, PostFacts
      <3>. QED
        BY <1>1, <1>3, <3>1, BoundStep
    <2>6. OneWalker' /\ \A y \in RsZones : RsWalking(y)' # {} => RsWalking(y) # {}
      BY <1>1, <1>2, <1>5, <2>1, QuietPost
    <2>7. IndexLeads'
      BY <1>1, <1>4, <2>6, LeadsSame
    <2>8. \A y \in RsZones : Cardinality(Coming(rsBox'[y])) = Cardinality(Coming(rsBox[y]))
      <3>1. Cardinality(Coming(rsBox[z])) \in Nat
        BY <2>1, ComingFinite, RsTypes
      <3>2. Cardinality(Coming(rsBox'[z])) = Cardinality(Coming(rsBox[z]))
        BY <2>2, <3>1
      <3>. QED
        BY <2>2, <3>2
    <2>9. RsCounted'
      BY <1>1, <1>3, <2>8, CountSame
    <2>. QED
      BY <2>3, <2>4, <2>5, <2>6, <2>7, <2>9 DEF RsInv
  <1>6. CASE rsBox' = rsBox
    <2>3. RsTypeOK'
      BY <1>1, <1>3, <1>6 DEF RsInv, RsTypeOK
    <2>4. RsHosting'
      BY <1>1, <1>3, <1>4, <1>6, HostingStep
    <2>5. RsBound'
      BY <1>1, <1>3, <1>6, BoundStep
    <2>6. OneWalker' /\ \A y \in RsZones : RsWalking(y)' = RsWalking(y)
      BY <1>1, <1>6, SameBoxes
    <2>7. IndexLeads'
      BY <1>1, <1>4, <2>6, LeadsSame
    <2>8. RsCounted'
      BY <1>1, <1>3, <1>6, CountSame
    <2>. QED
      BY <2>3, <2>4, <2>5, <2>6, <2>7, <2>8 DEF RsInv
  <1>. QED
    BY <1>1, <1>5, <1>6

\* A walk takes the one copy out of its zone's map and into one inbox, marked before it leaves.
LEMMA OutKeeps ==
  ASSUME RsInv, NEW z \in RsZones, NEW d \in RsZones, TransferOut(z, d)
  PROVE  RsInv'
  <1>. DEFINE m == [kind |-> "transferIn", n |-> 0, s |-> rsPlay[z]]
  <1>1. /\ z \in rsHosted /\ rsPlay[z] # rsNobody /\ d \in rsHosted /\ d # z /\ rsMoves < RsMaxMoves
        /\ rsMoves' = rsMoves + 1 /\ rsInc' = [rsInc EXCEPT ![d] = @ + 1]
        /\ rsPlay' = [rsPlay EXCEPT ![z] = rsNobody]
        /\ rsIdx' = unindexResident(markTransferInFlight(rsIdx, z), z) /\ rsFwd' = [rsFwd EXCEPT ![z] = d]
        /\ rsBox' = [rsBox EXCEPT ![d] = Append(@, m)]
        /\ UNCHANGED <<rsHosted, rsStr, rsTimer, rsDrain, rsRaced>>
    BY DEF TransferOut
  <1>2. m \in RsMsg /\ m.kind = "transferIn" /\ m.s = rsPlay[z]
    BY RsNames, RsTypes DEF RsMsg
  <1>3. rsNobody \in RsSession /\ rsNobody.out \notin RsStreams
    BY RsNames DEF rsNobody, RsSession, RsStreams
  <1>4. rsPlay' \in [RsZones -> RsSession] /\ rsPlay'[z] = rsNobody /\ \A y \in RsZones \ {z} : rsPlay'[y] = rsPlay[y]
    BY <1>1, <1>3, RsTypes
  <1>. HIDE DEF m
  <1>5. /\ rsBox' \in [RsZones -> Seq(RsMsg)]
        /\ \A y \in RsZones \ {d} : rsBox'[y] = rsBox[y]
        /\ Cardinality(Coming(rsBox'[d])) = Cardinality(Coming(rsBox[d])) + 1
    BY <1>1, <1>2, PostFacts
  <1>6. \A y \in RsZones : \A i \in DOMAIN rsBox'[y] :
          (i \in DOMAIN rsBox[y] /\ rsBox'[y][i] = rsBox[y][i]) \/ (y = d /\ i = Len(rsBox[d]) + 1 /\ rsBox'[y][i] = m)
    BY <1>1, <1>2, PostFacts
  <1>7. rsIdx' \in [zone : RsZones \cup {RsNone}, fly : BOOLEAN] /\ rsIdx'.zone \in {rsIdx.zone, RsNone}
    BY <1>1, RsTypes DEF unindexResident, markTransferInFlight, forgetResidency, rsNoEntry
  <1>8. rsInc' \in [RsZones -> Int] /\ rsInc'[d] = rsInc[d] + 1 /\ \A y \in RsZones \ {d} : rsInc'[y] = rsInc[y]
    BY <1>1, RsTypes
  <1>9. RsTypeOK'
    <2>1. rsMoves' \in 0..RsMaxMoves
      BY <1>1, RsNames, RsTypes
    <2>2. rsFwd' \in [RsZones -> RsZones \cup {RsNone}]
      BY <1>1, RsTypes
    <2>. QED
      BY <1>1, <1>4, <1>5, <1>7, <1>8, <2>1, <2>2 DEF RsInv, RsTypeOK
  <1>10. RsHosting'
    <2>1. rsIdx'.zone \in rsHosted \cup {RsNone}
      BY <1>7 DEF RsInv, RsHosting
    <2>. QED
      BY <1>1, <1>4, <1>5, <2>1, HostingStep
  <1>11. RsBound'
    <2>1. ASSUME NEW y \in RsZones, NEW i \in DOMAIN rsBox'[y]
          PROVE  (\E j \in DOMAIN rsBox[y] : rsBox'[y][i] = rsBox[y][j]) \/ RsSound(rsBox[y][i])'
      <3>1. CASE rsBox'[y][i] = m
        <4>1. RsOf(rsPlay[z])
          BY DEF RsInv, RsBound
        <4>. QED
          BY <1>1, <1>2, <3>1, <4>1 DEF RsSound, RsOf, RsPosted
      <3>. QED
        BY <1>6, <3>1
    <2>2. ASSUME NEW y \in RsZones
          PROVE  (\E x \in RsZones : rsPlay'[y].out = rsPlay[x].out) \/ RsOf(rsPlay[y])'
      BY <1>3, <1>4 DEF RsOf
    <2>3. \A n \in RsStreams : RsPosted(n) => RsPosted(n)'
      BY <1>1 DEF RsPosted
    <2>. QED
      BY <2>1, <2>2, <2>3, BoundStep
  <1>12. RsCounted'
    <2>1. \A y \in RsZones : RsRouted(y)' = RsRouted(y)
      BY <1>1 DEF RsRouted
    <2>2. Cardinality(Coming(rsBox[d])) \in Nat /\ Cardinality(RsRouted(d)) \in Nat
      BY ComingFinite, RoutedFinite, RsTypes
    <2>3. rsInc'[d] = Cardinality(Coming(rsBox'[d])) + Cardinality(RsRouted(d)')
      BY <1>5, <1>8, <2>1, <2>2 DEF RsInv, RsCounted
    <2>4. \A y \in RsZones \ {d} : rsInc'[y] = Cardinality(Coming(rsBox'[y])) + Cardinality(RsRouted(y)')
      BY <1>5, <1>8, <2>1 DEF RsInv, RsCounted
    <2>. QED
      BY <2>3, <2>4, CountedNext
  <1>13. ASSUME ~rsRaced'
         PROVE  /\ \A y \in RsZones : \A i \in RsWalking(y)' : y = d /\ i = Len(rsBox[d]) + 1
                /\ RsHeld' = {} /\ rsIdx'.fly
    <2>1. z \in RsHeld /\ rsIdx = [zone |-> z, fly |-> FALSE]
      BY <1>1, <1>13 DEF RsInv, IndexLeads, indexResident, RsHeld
    <2>2. \A y \in RsZones : RsWalking(y) = {}
      BY <1>1, <1>13, <2>1 DEF RsInv, IndexLeads
    <2>3. \A y \in RsHeld : y = z
      BY <1>1, <1>13, <2>1 DEF RsInv, IndexLeads, indexResident
    <2>4. RsHeld' = {}
      BY <1>4, <2>3 DEF RsHeld
    <2>5. ASSUME NEW y \in RsZones, NEW i \in RsWalking(y)'
          PROVE  y = d /\ i = Len(rsBox[d]) + 1
      <3>1. i \in DOMAIN rsBox'[y] /\ rsBox'[y][i].kind = "transferIn"
        BY DEF RsWalking
      <3>. QED
        BY <1>6, <2>2, <3>1 DEF RsWalking
    <2>6. rsIdx'.fly
      BY <1>1, <2>1 DEF unindexResident, markTransferInFlight, forgetResidency
    <2>. QED
      BY <2>4, <2>5, <2>6
  <1>14. OneWalker' /\ IndexLeads'
    BY <1>13 DEF OneWalker, IndexLeads
  <1>. QED
    BY <1>9, <1>10, <1>11, <1>12, <1>14 DEF RsInv

\* What the actor of a zone does with the first message of its inbox.
LEMMA HandledBound ==
  ASSUME RsInv, NEW z \in RsZones, rsBox[z] # <<>>, Dequeue(z), \A n \in RsStreams : RsPosted(n) => RsPosted(n)',
         \A y \in RsZones : (\E x \in RsZones : rsPlay'[y].out = rsPlay[x].out) \/ RsOf(rsPlay[y])'
  PROVE  RsBound'
  <1>1. ASSUME NEW y \in RsZones, NEW i \in DOMAIN rsBox'[y]
        PROVE  (\E j \in DOMAIN rsBox[y] : rsBox'[y][i] = rsBox[y][j]) \/ RsSound(rsBox[y][i])'
    <2>1. CASE y = z
      BY <2>1, HandleFacts
    <2>2. CASE y # z
      BY <2>2, HandleFacts
    <2>. QED
      BY <2>1, <2>2
  <1>. QED
    BY <1>1, BoundStep

LEMMA HandledCount ==
  ASSUME RsInv, NEW z \in RsZones, rsBox[z] # <<>>, Dequeue(z), \A y \in RsZones : RsRouted(y)' = RsRouted(y),
         \/ Head(rsBox[z]).kind \in {"attach", "transferIn"} /\ ReleaseArrival(z)
         \/ Head(rsBox[z]).kind \notin {"attach", "transferIn"} /\ rsInc' = rsInc
  PROVE  RsCounted' /\ rsInc' \in [RsZones -> Int]
  <1>1. /\ Cardinality(Coming(rsBox[z])) \in Nat /\ Cardinality(RsRouted(z)) \in Nat
        /\ rsInc \in [RsZones -> Int] /\ rsInc[z] = Cardinality(Coming(rsBox[z])) + Cardinality(RsRouted(z))
    BY ComingFinite, RoutedFinite, RsTypes DEF RsInv, RsCounted
  <1>2. \A y \in RsZones \ {z} : rsBox'[y] = rsBox[y]
    BY HandleFacts
  <1>3. CASE Head(rsBox[z]).kind \in {"attach", "transferIn"} /\ ReleaseArrival(z)
    <2>1. rsInc' \in [RsZones -> Int] /\ rsInc'[z] = rsInc[z] - 1 /\ \A y \in RsZones \ {z} : rsInc'[y] = rsInc[y]
      BY <1>1, <1>3 DEF ReleaseArrival
    <2>2. Cardinality(Coming(rsBox'[z])) = Cardinality(Coming(rsBox[z])) - 1
      BY <1>3, HandleFacts
    <2>3. rsInc'[z] = Cardinality(Coming(rsBox'[z])) + Cardinality(RsRouted(z)')
      BY <1>1, <2>1, <2>2
    <2>4. \A y \in RsZones \ {z} : rsInc'[y] = Cardinality(Coming(rsBox'[y])) + Cardinality(RsRouted(y)')
      BY <1>2, <2>1 DEF RsInv, RsCounted
    <2>. QED
      BY <2>1, <2>3, <2>4, CountedNext
  <1>4. CASE Head(rsBox[z]).kind \notin {"attach", "transferIn"} /\ rsInc' = rsInc
    <2>1. Cardinality(Coming(rsBox'[z])) = Cardinality(Coming(rsBox[z])) - 0
      BY <1>4, HandleFacts
    <2>2. rsInc'[z] = Cardinality(Coming(rsBox'[z])) + Cardinality(RsRouted(z)')
      BY <1>1, <1>4, <2>1
    <2>3. \A y \in RsZones \ {z} : rsInc'[y] = Cardinality(Coming(rsBox'[y])) + Cardinality(RsRouted(y)')
      BY <1>2, <1>4 DEF RsInv, RsCounted
    <2>. QED
      BY <1>1, <1>4, <2>2, <2>3, CountedNext
  <1>. QED
    BY <1>3, <1>4

\* A session sets foot in a zone when nothing else holds it: the index then leads to it.
LEMMA SetLeads ==
  ASSUME RsInv, NEW z \in RsZones, NEW s \in RsSession, SetPlayer(z, s), rsRaced' = rsRaced,
         ~rsRaced => (\A y \in RsZones \ {z} : rsPlay[y] = rsNobody) /\ \A y \in RsZones : RsWalking(y)' = {}
  PROVE  /\ IndexLeads' /\ rsIdx' = [zone |-> z, fly |-> FALSE] /\ rsIdx' \in [zone : RsZones \cup {RsNone}, fly : BOOLEAN]
         /\ rsPlay' \in [RsZones -> RsSession] /\ rsPlay'[z] = s /\ \A y \in RsZones \ {z} : rsPlay'[y] = rsPlay[y]
  <1>1. rsPlay' = [rsPlay EXCEPT ![z] = s] /\ rsIdx' = [zone |-> z, fly |-> FALSE]
    BY DEF SetPlayer, indexResident
  <1>2. rsPlay' \in [RsZones -> RsSession] /\ rsPlay'[z] = s /\ \A y \in RsZones \ {z} : rsPlay'[y] = rsPlay[y]
    BY <1>1, RsTypes
  <1>3. ~rsRaced' => \A y \in RsHeld' : y = z
    BY <1>2 DEF RsHeld
  <1>4. IndexLeads'
    BY <1>1, <1>3 DEF IndexLeads, indexResident
  <1>. QED
    BY <1>1, <1>2, <1>4

LEMMA InKeeps ==
  ASSUME RsInv, NEW z \in RsZones, TransferIn(z)
  PROVE  RsInv'
  <1>1. /\ z \in rsHosted /\ rsBox[z] # <<>> /\ Head(rsBox[z]).kind = "transferIn"
        /\ Dequeue(z) /\ ReleaseArrival(z) /\ SetPlayer(z, Head(rsBox[z]).s)
        /\ rsFwd' = [rsFwd EXCEPT ![z] = RsNone] /\ rsStr' = [rsStr EXCEPT ![Head(rsBox[z]).s.out].cur = z]
        /\ UNCHANGED <<rsHosted, rsTimer, rsMoves, rsDrain, rsRaced>>
    BY DEF TransferIn, HeadIs
  <1>2. Head(rsBox[z]) \in RsMsg /\ RsSound(Head(rsBox[z])) /\ 1 \in RsWalking(z)
    BY <1>1, HandleFacts DEF RsWalking
  <1>3. PICK s \in RsSession : s = Head(rsBox[z]).s
    BY <1>2 DEF RsMsg
  <1>4. s.out \in RsStreams => RsPosted(s.out)
    BY <1>1, <1>2, <1>3 DEF RsSound, RsOf
  <1>5. PICK n : n = s.out
    OBVIOUS
  <1>6. /\ rsStr' \in [RsStreams -> [at : {"new", "aged", "sweep", "load", "routed", "open", "refused", "ended"},
                                     cur : RsZones \cup {RsNone}]]
        /\ \A k \in RsStreams : RsPosted(k) => RsPosted(k)'
        /\ \A k \in RsStreams : rsStr'[k].at = "routed" => rsStr[k].at = "routed" /\ rsStr'[k].cur = rsStr[k].cur
        /\ \A y : RsRouted(y)' = RsRouted(y)
    BY <1>1, <1>3, <1>4, <1>5, MovedStream
  <1>7. OneWalker' /\ \A y \in RsZones : RsWalking(y)' # {} => RsWalking(y) # {}
    BY <1>1, QuietHandle
  <1>8. ASSUME ~rsRaced
        PROVE  (\A y \in RsZones : rsPlay[y] = rsNobody) /\ \A y \in RsZones : RsWalking(y)' = {}
    <2>1. rsIdx.fly
      BY <1>2, <1>8 DEF RsInv, IndexLeads
    <2>2. \A y \in RsZones : rsPlay[y] = rsNobody
      BY <1>8, <2>1 DEF RsInv, IndexLeads, indexResident, RsHeld
    <2>3. \A y \in RsZones : \A i \in RsWalking(y) : y = z /\ i = 1
      BY <1>2, <1>8 DEF RsInv, OneWalker
    <2>4. ASSUME NEW i \in RsWalking(z)' PROVE FALSE
      <3>1. i \in DOMAIN rsBox'[z] /\ rsBox'[z][i].kind = "transferIn"
        BY DEF RsWalking
      <3>2. i + 1 \in RsWalking(z) /\ i + 1 # 1
        BY <1>1, <3>1, HandleFacts DEF RsWalking
      <3>. QED
        BY <2>3, <3>2
    <2>5. \A y \in RsZones \ {z} : RsWalking(y)' = {}
      BY <1>7, <2>3
    <2>. QED
      BY <2>2, <2>4, <2>5
  <1>9. /\ IndexLeads' /\ rsIdx'.zone = z /\ rsIdx' \in [zone : RsZones \cup {RsNone}, fly : BOOLEAN]
        /\ rsPlay' \in [RsZones -> RsSession] /\ rsPlay'[z] = s /\ \A y \in RsZones \ {z} : rsPlay'[y] = rsPlay[y]
    BY <1>1, <1>3, <1>8, SetLeads
  <1>10. RsCounted' /\ rsInc' \in [RsZones -> Int]
    BY <1>1, <1>6, HandledCount
  <1>11. RsBound'
    <2>1. RsOf(rsPlay[z])'
      BY <1>4, <1>6, <1>9 DEF RsOf
    <2>. QED
      BY <1>1, <1>6, <1>9, <2>1, HandledBound
  <1>12. rsBox' \in [RsZones -> Seq(RsMsg)] /\ \A y \in RsZones \ {z} : rsBox'[y] = rsBox[y]
    BY <1>1, HandleFacts
  <1>13. RsTypeOK'
    <2>1. rsFwd' \in [RsZones -> RsZones \cup {RsNone}]
      BY <1>1, RsTypes
    <2>. QED
      BY <1>1, <1>6, <1>9, <1>10, <1>12, <2>1 DEF RsInv, RsTypeOK
  <1>14. RsHosting'
    BY <1>1, <1>6, <1>9, <1>12, HostingStep
  <1>. QED
    BY <1>7, <1>9, <1>10, <1>11, <1>13, <1>14 DEF RsInv

\* The re-check of attach: only where nothing else holds the character is a session made.
LEMMA AttachKeeps ==
  ASSUME RsInv, NEW z \in RsZones, Attach(z)
  PROVE  RsInv'
  <1>1. /\ z \in rsHosted /\ rsBox[z] # <<>> /\ Head(rsBox[z]).kind = "attach"
        /\ Dequeue(z) /\ ReleaseArrival(z) /\ UNCHANGED <<rsHosted, rsFwd, rsTimer, rsMoves, rsDrain, rsRaced>>
    BY DEF Attach, HeadIs
  <1>2. Head(rsBox[z]) \in RsMsg /\ RsSound(Head(rsBox[z]))
    BY <1>1, HandleFacts
  <1>3. PICK n \in RsStreams : n = Head(rsBox[z]).n /\ RsPosted(n)
    BY <1>1, <1>2 DEF RsSound
  <1>4. OneWalker' /\ \A y \in RsZones : RsWalking(y)' # {} => RsWalking(y) # {}
    BY <1>1, QuietHandle
  <1>5. rsBox' \in [RsZones -> Seq(RsMsg)] /\ \A y \in RsZones \ {z} : rsBox'[y] = rsBox[y]
    BY <1>1, HandleFacts
  <1>6. CASE AttachRaces(z)
    <2>1. /\ rsStr' = [rsStr EXCEPT ![n].at = IF @ = "open" THEN "refused" ELSE @]
          /\ rsPlay' = rsPlay /\ rsIdx' = rsIdx
      BY <1>3, <1>6 DEF Attach
    <2>2. PICK v \in {"open", "refused", "ended"} : v = (IF rsStr[n].at = "open" THEN "refused" ELSE rsStr[n].at)
      BY <1>3 DEF RsPosted
    <2>3. rsStr' = [rsStr EXCEPT ![n].at = v]
      BY <2>1, <2>2, RsTypes
    <2>4. /\ rsStr' \in [RsStreams -> [at : {"new", "aged", "sweep", "load", "routed", "open", "refused", "ended"},
                                     cur : RsZones \cup {RsNone}]]
          /\ \A k \in RsStreams : RsPosted(k) => RsPosted(k)'
          /\ \A k \in RsStreams : rsStr'[k].at = "routed" => rsStr[k].at = "routed" /\ rsStr'[k].cur = rsStr[k].cur
          /\ \A y : RsRouted(y)' = RsRouted(y)
      BY <1>3, <2>3, OneStream DEF RsPosted
    <2>5. RsCounted' /\ rsInc' \in [RsZones -> Int]
      BY <1>1, <2>4, HandledCount
    <2>6. RsBound'
      BY <1>1, <2>1, <2>4, HandledBound
    <2>7. RsTypeOK'
      BY <1>1, <1>5, <2>1, <2>4, <2>5 DEF RsInv, RsTypeOK
    <2>8. rsIdx'.zone \in rsHosted \cup {RsNone} /\ RsHeld' = RsHeld
      BY <2>1 DEF RsInv, RsHosting, RsHeld
    <2>9. RsHosting'
      BY <1>1, <1>5, <2>1, <2>4, <2>8, HostingStep
    <2>10. IndexLeads'
      BY <1>1, <1>4, <2>1, <2>8, LeadsSame
    <2>. QED
      BY <1>4, <2>5, <2>6, <2>7, <2>9, <2>10 DEF RsInv
  <1>7. CASE ~AttachRaces(z)
    <2>1. rsStr' = [rsStr EXCEPT ![n].cur = z]
      BY <1>3, <1>7 DEF Attach
    <2>2. /\ rsStr' \in [RsStreams -> [at : {"new", "aged", "sweep", "load", "routed", "open", "refused", "ended"},
                                     cur : RsZones \cup {RsNone}]]
          /\ \A k \in RsStreams : RsPosted(k) => RsPosted(k)'
          /\ \A k \in RsStreams : rsStr'[k].at = "routed" => rsStr[k].at = "routed" /\ rsStr'[k].cur = rsStr[k].cur
          /\ \A y : RsRouted(y)' = RsRouted(y)
      BY <1>3, <2>1, MovedStream
    <2>3. RsCounted' /\ rsInc' \in [RsZones -> Int]
      BY <1>1, <2>2, HandledCount
    <2>4. /\ rsPlay' \in [RsZones -> RsSession] /\ rsPlay'[z].out = n /\ \A y \in RsZones \ {z} : rsPlay'[y] = rsPlay[y]
          /\ rsIdx' \in [zone : RsZones \cup {RsNone}, fly : BOOLEAN] /\ rsIdx'.zone \in rsHosted \cup {RsNone}
          /\ IndexLeads'
      <3>1. CASE rsPlay[z] # rsNobody
        <4>1. /\ rsPlay' = [rsPlay EXCEPT ![z] = [out |-> n, gen |-> @.gen + 1, det |-> FALSE, quit |-> @.quit]]
              /\ rsIdx' = rsIdx
          BY <1>3, <1>7, <3>1 DEF Attach
        <4>2. PICK s : s = [out |-> n, gen |-> rsPlay[z].gen + 1, det |-> FALSE, quit |-> rsPlay[z].quit]
          OBVIOUS
        <4>3. s \in RsSession /\ s.out = n
          <5>1. rsPlay[z] \in RsSession /\ n \in 0..RsMaxStreams
            BY RsTypes, RsNames DEF RsStreams
          <5>2. rsPlay[z].gen + 1 \in Nat /\ rsPlay[z].quit \in BOOLEAN
            BY <5>1 DEF RsSession
          <5>. QED
            BY <4>2, <5>1, <5>2 DEF RsSession
        <4>4. rsPlay' = [rsPlay EXCEPT ![z] = s]
          BY <4>1, <4>2
        <4>5. rsPlay' \in [RsZones -> RsSession] /\ rsPlay'[z] = s /\ \A y \in RsZones \ {z} : rsPlay'[y] = rsPlay[y]
          BY <4>3, <4>4, RsTypes
        <4>6. RsHeld' \subseteq RsHeld
          BY <3>1, <4>5 DEF RsHeld
        <4>7. IndexLeads'
          BY <1>1, <1>4, <4>1, <4>6, LeadsSame
        <4>. QED
          BY <4>1, <4>3, <4>5, <4>7, RsTypes DEF RsInv, RsHosting
      <3>2. CASE rsPlay[z] = rsNobody
        <4>1. SetPlayer(z, [rsNobody EXCEPT !.out = n, !.gen = 1])
          BY <1>3, <1>7, <3>2 DEF Attach
        <4>2. PICK s : s = [rsNobody EXCEPT !.out = n, !.gen = 1]
          OBVIOUS
        <4>3. s = [out |-> n, gen |-> 1, det |-> FALSE, quit |-> FALSE]
          BY <4>2 DEF rsNobody
        <4>4. s \in RsSession /\ s.out = n
          BY <4>3, RsNames DEF RsSession, RsStreams
        <4>5. ~rsIdx.fly /\ rsIdx.zone \in {RsNone, z}
          BY <1>7, <3>2 DEF AttachRaces
        <4>6. ~rsRaced => (\A y \in RsZones \ {z} : rsPlay[y] = rsNobody) /\ \A y \in RsZones : RsWalking(y)' = {}
          <5>1. ~rsRaced => \A y \in RsZones : RsWalking(y)' = {}
            BY <1>4, <4>5 DEF RsInv, IndexLeads
          <5>2. ~rsRaced => \A y \in RsZones \ {z} : rsPlay[y] = rsNobody
            BY <4>5, RsNames DEF RsInv, IndexLeads, indexResident, RsHeld
          <5>. QED
            BY <5>1, <5>2
        <4>7. /\ IndexLeads' /\ rsIdx'.zone = z /\ rsIdx' \in [zone : RsZones \cup {RsNone}, fly : BOOLEAN]
              /\ rsPlay' \in [RsZones -> RsSession] /\ rsPlay'[z] = s /\ \A y \in RsZones \ {z} : rsPlay'[y] = rsPlay[y]
          BY <1>1, <4>1, <4>2, <4>4, <4>6, SetLeads
        <4>. QED
          BY <1>1, <4>4, <4>7
      <3>. QED
        BY <3>1, <3>2
    <2>5. RsBound'
      <3>1. RsOf(rsPlay[z])'
        BY <1>3, <2>2, <2>4 DEF RsOf
      <3>. QED
        BY <1>1, <2>2, <2>4, <3>1, HandledBound
    <2>6. RsTypeOK'
      BY <1>1, <1>5, <2>2, <2>3, <2>4 DEF RsInv, RsTypeOK
    <2>7. RsHosting'
      BY <1>1, <1>5, <2>2, <2>4, HostingStep
    <2>. QED
      BY <1>4, <2>3, <2>4, <2>5, <2>6, <2>7 DEF RsInv
  <1>. QED
    BY <1>6, <1>7

LEMMA ForwardKeeps ==
  ASSUME RsInv, NEW z \in RsZones, NEW kind \in {"leave", "detach"}, Forward(z, kind)
  PROVE  RsInv'
  <1>1. /\ rsBox[z] # <<>> /\ Head(rsBox[z]).kind = kind
        /\ UNCHANGED <<rsHosted, rsInc, rsPlay, rsIdx, rsFwd, rsStr, rsTimer, rsMoves, rsDrain, rsRaced>>
    BY DEF Forward, HeadIs
  <1>2. PICK m, d : m = Head(rsBox[z]) /\ d = rsFwd[z]
    OBVIOUS
  <1>3. rsBox' = [y \in RsZones |-> IF y = z THEN Tail(rsBox[z])
                                    ELSE IF y = d /\ d \in rsHosted THEN Append(rsBox[y], m) ELSE rsBox[y]]
    BY <1>2 DEF Forward
  <1>4. \A y \in RsZones : rsBox[y] \in Seq(RsMsg)
    BY RsTypes
  <1>5. m \in RsMsg /\ m.kind = kind
    BY <1>1, <1>2, <1>4, BoxTail
  <1>6. rsBox' \in [RsZones -> Seq(RsMsg)]
    BY <1>1, <1>3, <1>4, <1>5
  <1>7. \A y \in RsZones : Cardinality(Coming(rsBox'[y])) = Cardinality(Coming(rsBox[y]))
    <2>1. \A y \in RsZones : Cardinality(Coming(rsBox[y])) \in Nat
      BY <1>4, ComingFinite
    <2>2. Cardinality(Coming(rsBox'[z])) = Cardinality(Coming(rsBox[z]))
      BY <1>1, <1>3, <1>4, <2>1, BoxTail
    <2>3. ASSUME NEW y \in RsZones \ {z}
          PROVE  Cardinality(Coming(rsBox'[y])) = Cardinality(Coming(rsBox[y]))
      <3>1. rsBox'[y] = Append(rsBox[y], m) \/ rsBox'[y] = rsBox[y]
        BY <1>3
      <3>2. CASE rsBox'[y] = Append(rsBox[y], m)
        <4>1. Cardinality(Coming(Append(rsBox[y], m))) = Cardinality(Coming(rsBox[y])) + 0
          BY <1>4, <1>5, BoxAppend
        <4>2. Cardinality(Coming(rsBox[y])) \in Nat
          BY <2>1
        <4>. QED
          BY <3>2, <4>1, <4>2
      <3>. QED
        BY <3>1, <3>2
    <2>. QED
      BY <2>2, <2>3
  <1>8. \A i \in DOMAIN rsBox'[z] : i + 1 \in DOMAIN rsBox[z] /\ rsBox'[z][i] = rsBox[z][i + 1]
    BY <1>1, <1>3, <1>4, BoxTail
  <1>9. ASSUME NEW y \in RsZones \ {z}, NEW i \in DOMAIN rsBox'[y]
        PROVE  (i \in DOMAIN rsBox[y] /\ rsBox'[y][i] = rsBox[y][i]) \/ rsBox'[y][i] = m
    <2>1. rsBox'[y] = Append(rsBox[y], m) \/ rsBox'[y] = rsBox[y]
      BY <1>3
    <2>. QED
      BY <1>4, <1>5, <2>1, BoxAppend
  <1>10. OneWalker' /\ \A y \in RsZones : RsWalking(y)' # {} => RsWalking(y) # {}
    <2>1. ASSUME NEW i \in RsWalking(z)'
          PROVE  i + 1 \in RsWalking(z)
      BY <1>8 DEF RsWalking
    <2>2. ASSUME NEW y \in RsZones \ {z}, NEW i \in RsWalking(y)'
          PROVE  i + 0 \in RsWalking(y)
      <3>1. i \in DOMAIN rsBox'[y] /\ rsBox'[y][i].kind = "transferIn"
        BY DEF RsWalking
      <3>2. i \in DOMAIN rsBox[y] /\ rsBox[y][i].kind = "transferIn"
        BY <1>5, <1>9, <3>1
      <3>3. i + 0 = i
        <4>1. DOMAIN rsBox[y] \subseteq Nat
          BY <1>4
        <4>. QED
          BY <3>2, <4>1
      <3>. QED
        BY <3>2, <3>3 DEF RsWalking
    <2>. QED
      BY <1>1, <1>6, <2>1, <2>2, WalkStep
  <1>11. RsBound'
    <2>1. ASSUME NEW y \in RsZones, NEW i \in DOMAIN rsBox'[y]
          PROVE  (\E j \in DOMAIN rsBox[y] : rsBox'[y][i] = rsBox[y][j]) \/ RsSound(rsBox[y][i])'
      <3>1. CASE rsBox'[y][i] = m
        BY <1>5, <3>1 DEF RsSound
      <3>2. CASE y = z
        BY <1>8, <3>2
      <3>3. CASE y # z
        BY <1>9, <3>1, <3>3
      <3>. QED
        BY <3>2, <3>3
    <2>2. \A n \in RsStreams : RsPosted(n) => RsPosted(n)'
      BY <1>1 DEF RsPosted
    <2>. QED
      BY <1>1, <2>1, <2>2, BoundStep
  <1>12. RsCounted'
    <2>1. \A y \in RsZones : RsRouted(y)' = RsRouted(y)
      BY <1>1 DEF RsRouted
    <2>. QED
      BY <1>1, <1>7, <2>1, CountSame
  <1>13. RsHeld' = RsHeld /\ rsIdx'.zone \in rsHosted \cup {RsNone}
    BY <1>1 DEF RsHeld, RsInv, RsHosting
  <1>14. IndexLeads'
    BY <1>1, <1>10, <1>13, LeadsSame
  <1>15. RsTypeOK'
    BY <1>1, <1>6 DEF RsInv, RsTypeOK
  <1>16. RsHosting'
    <2>1. z \in rsHosted
      BY DEF Forward, HeadIs
    <2>2. \A y \in RsZones \ rsHosted : rsBox'[y] = rsBox[y]
      BY <1>3, <2>1
    <2>. QED
      BY <1>1, <1>13, <2>2, HostingStep
  <1>. QED
    BY <1>10, <1>11, <1>12, <1>14, <1>15, <1>16 DEF RsInv

\* leave, detach and reap: the character leaves the map it is in, or a mark of it changes.
LEMMA GoneKeeps ==
  ASSUME RsInv, NEW z \in RsZones, z \in rsHosted,
         UNCHANGED <<rsHosted, rsFwd, rsStr, rsMoves, rsDrain, rsRaced>>, rsTimer' \subseteq [zone : RsZones, gen : Nat],
         \/ rsPlay[z] # rsNobody /\ LeavesZone(z)
         \/ rsIdx' = rsIdx /\ rsPlay' \in [RsZones -> RsSession]
            /\ \A y \in RsZones : rsPlay'[y] = rsPlay[y] \/ (y = z /\ rsPlay[z] # rsNobody /\ rsPlay'[z].out = rsPlay[z].out),
         \/ rsBox' = rsBox /\ rsInc' = rsInc
         \/ rsBox[z] # <<>> /\ Dequeue(z) /\ rsInc' = rsInc /\ Head(rsBox[z]).kind \notin {"attach", "transferIn"}
  PROVE  RsInv'
  <1>1. /\ rsBox' \in [RsZones -> Seq(RsMsg)] /\ \A y \in RsZones \ {z} : rsBox'[y] = rsBox[y]
        /\ OneWalker' /\ \A y \in RsZones : RsWalking(y)' # {} => RsWalking(y) # {}
    <2>1. CASE rsBox' = rsBox
      BY <2>1, SameBoxes, RsTypes
    <2>2. CASE rsBox[z] # <<>> /\ Dequeue(z)
      BY <2>2, HandleFacts, QuietHandle
    <2>. QED
      BY <2>1, <2>2
  <1>2. /\ \A y \in RsZones : RsRouted(y)' = RsRouted(y)
        /\ \A n \in RsStreams : RsPosted(n) => RsPosted(n)'
    BY DEF RsRouted, RsPosted
  <1>3. RsCounted' /\ rsInc' \in [RsZones -> Int]
    <2>1. CASE rsBox' = rsBox /\ rsInc' = rsInc
      BY <1>2, <2>1, CountSame, RsTypes
    <2>2. CASE rsBox[z] # <<>> /\ Dequeue(z) /\ rsInc' = rsInc /\ Head(rsBox[z]).kind \notin {"attach", "transferIn"}
      BY <1>2, <2>2, HandledCount
    <2>. QED
      BY <2>1, <2>2
  <1>4. /\ IndexLeads' /\ rsIdx'.zone \in rsHosted \cup {RsNone}
        /\ rsIdx' \in [zone : RsZones \cup {RsNone}, fly : BOOLEAN] /\ rsPlay' \in [RsZones -> RsSession]
        /\ \A y \in RsZones \ {z} : rsPlay'[y] = rsPlay[y]
        /\ rsPlay'[z].out \notin RsStreams \/ rsPlay'[z].out = rsPlay[z].out
    <2>1. rsIdx.zone \in rsHosted \cup {RsNone}
      BY DEF RsInv, RsHosting
    <2>2. CASE rsPlay[z] # rsNobody /\ LeavesZone(z)
      BY <1>1, <2>1, <2>2, LeaveLeads
    <2>3. CASE rsIdx' = rsIdx /\ rsPlay' \in [RsZones -> RsSession]
               /\ \A y \in RsZones : rsPlay'[y] = rsPlay[y] \/ (y = z /\ rsPlay[z] # rsNobody /\ rsPlay'[z].out = rsPlay[z].out)
      <3>1. RsHeld' \subseteq RsHeld
        BY <2>3 DEF RsHeld
      <3>2. IndexLeads'
        BY <1>1, <2>3, <3>1, LeadsSame
      <3>. QED
        BY <2>1, <2>3, <3>2, RsTypes
    <2>. QED
      BY <2>2, <2>3
  <1>5. RsBound'
    <2>1. ASSUME NEW y \in RsZones
          PROVE  (\E x \in RsZones : rsPlay'[y].out = rsPlay[x].out) \/ RsOf(rsPlay[y])'
      BY <1>4 DEF RsOf
    <2>2. CASE rsBox' = rsBox
      BY <1>2, <2>1, <2>2, BoundStep
    <2>3. CASE rsBox[z] # <<>> /\ Dequeue(z)
      BY <1>2, <2>1, <2>3, HandledBound
    <2>. QED
      BY <2>2, <2>3
  <1>6. RsTypeOK'
    BY <1>1, <1>3, <1>4 DEF RsInv, RsTypeOK
  <1>7. RsHosting'
    BY <1>1, <1>4, HostingStep
  <1>. QED
    BY <1>1, <1>3, <1>4, <1>5, <1>6, <1>7 DEF RsInv

LEMMA UnhostKeeps ==
  ASSUME RsInv, NEW z \in RsZones, Unhost(z)
  PROVE  RsInv'
  <1>1. /\ z \in rsHosted /\ z # RsHome /\ rsPlay[z] = rsNobody /\ rsInc[z] = 0
        /\ rsHosted' = rsHosted \ {z} /\ rsIdx' = unindexResident(rsIdx, z) /\ rsBox' = [rsBox EXCEPT ![z] = <<>>]
        /\ UNCHANGED <<rsInc, rsPlay, rsFwd, rsStr, rsTimer, rsMoves, rsDrain, rsRaced>>
    BY DEF Unhost, quiescent
  <1>2. Coming(rsBox[z]) = {} /\ RsRouted(z) = {}
    <2>1. /\ Cardinality(Coming(rsBox[z])) \in Nat /\ Cardinality(RsRouted(z)) \in Nat
          /\ IsFiniteSet(Coming(rsBox[z])) /\ IsFiniteSet(RsRouted(z))
      BY ComingFinite, RoutedFinite, RsTypes
    <2>2. Cardinality(Coming(rsBox[z])) = 0 /\ Cardinality(RsRouted(z)) = 0
      BY <1>1, <2>1 DEF RsInv, RsCounted
    <2>. QED
      BY <2>1, <2>2, FS_EmptySet
  <1>3. rsBox' \in [RsZones -> Seq(RsMsg)] /\ rsBox'[z] = <<>> /\ \A y \in RsZones \ {z} : rsBox'[y] = rsBox[y]
    <2>1. <<>> \in Seq(RsMsg)
      OBVIOUS
    <2>. QED
      BY <1>1, <2>1, RsTypes
  <1>4. Coming(rsBox'[z]) = {}
    BY <1>3 DEF Coming
  <1>5. /\ \A y \in RsZones : RsRouted(y)' = RsRouted(y)
        /\ \A n \in RsStreams : RsPosted(n) => RsPosted(n)'
    BY <1>1 DEF RsRouted, RsPosted
  <1>6. RsCounted'
    <2>1. \A y \in RsZones : Cardinality(Coming(rsBox'[y])) = Cardinality(Coming(rsBox[y]))
      BY <1>2, <1>3, <1>4
    <2>. QED
      BY <1>1, <1>5, <2>1, CountSame
  <1>7. RsBound'
    <2>1. ASSUME NEW y \in RsZones, NEW i \in DOMAIN rsBox'[y]
          PROVE  \E j \in DOMAIN rsBox[y] : rsBox'[y][i] = rsBox[y][j]
      <3>1. y # z
        BY <1>3, <2>1
      <3>. QED
        BY <1>3, <3>1
    <2>. QED
      BY <1>1, <1>5, <2>1, BoundStep
  <1>8. OneWalker' /\ \A y \in RsZones : RsWalking(y)' # {} => RsWalking(y) # {}
    <2>1. RsWalking(z)' = {}
      BY <1>3 DEF RsWalking
    <2>2. \A y \in RsZones \ {z} : RsWalking(y)' = RsWalking(y)
      BY <1>3 DEF RsWalking
    <2>. QED
      BY <1>1, <2>1, <2>2 DEF RsInv, OneWalker
  <1>9. /\ rsIdx' \in [zone : RsZones \cup {RsNone}, fly : BOOLEAN] /\ rsIdx'.zone # z
        /\ rsIdx'.zone = rsIdx.zone \/ rsIdx'.zone = RsNone
        /\ rsIdx.fly => rsIdx'.fly /\ (rsIdx.zone # z => rsIdx' = rsIdx)
    BY <1>1, RsTypes, RsNames DEF unindexResident, forgetResidency, rsNoEntry
  <1>10. RsTypeOK'
    BY <1>1, <1>3, <1>9 DEF RsInv, RsTypeOK
  <1>11. RsHosting'
    <2>1. \A n \in RsStreams : rsStr[n].at = "routed" => rsStr[n].cur \in rsHosted \ {z}
      BY <1>2 DEF RsInv, RsHosting, RsRouted
    <2>. QED
      BY <1>1, <1>3, <1>9, <2>1 DEF RsInv, RsHosting
  <1>12. IndexLeads'
    <2>. SUFFICES ASSUME ~rsRaced
                  PROVE  /\ \A y \in RsHeld : rsIdx' = indexResident(y)
                         /\ \A y \in RsZones : RsWalking(y)' # {} => rsIdx'.fly
      BY <1>1 DEF IndexLeads, RsHeld, indexResident
    <2>1. ASSUME NEW y \in RsHeld PROVE rsIdx' = indexResident(y)
      <3>1. rsIdx = [zone |-> y, fly |-> FALSE] /\ y # z
        BY <1>1 DEF RsInv, IndexLeads, indexResident, RsHeld
      <3>. QED
        BY <1>1, <3>1 DEF unindexResident, indexResident
    <2>2. \A y \in RsZones : RsWalking(y)' # {} => rsIdx'.fly
      BY <1>8, <1>9 DEF RsInv, IndexLeads
    <2>. QED
      BY <2>1, <2>2
  <1>. QED
    BY <1>6, <1>7, <1>8, <1>10, <1>11, <1>12 DEF RsInv

\* One live copy of a character, led to by the index, and no arrival on its way to a zone torn down, for any zones,
\* logins and walks, as long as no sweep of stale marks raced a walk (resolveAttachZoneLocked, attach, UnhostZone).
THEOREM ResidencyIsSafe == RsSpec => []ResidencySafe
  <1>1. RsInit => RsInv
    <2>. SUFFICES ASSUME RsInit PROVE RsInv
      OBVIOUS
    <2>1. /\ rsHosted = RsZones /\ rsInc = [z \in RsZones |-> 0]
          /\ rsPlay = [z \in RsZones |-> rsNobody] /\ rsIdx = rsNoEntry
          /\ rsFwd = [z \in RsZones |-> RsNone] /\ rsBox = [z \in RsZones |-> <<>>]
          /\ rsStr = [n \in RsStreams |-> [at |-> "new", cur |-> RsNone]]
          /\ rsTimer = {} /\ rsMoves = 0 /\ rsDrain = FALSE /\ rsRaced = FALSE
      BY DEF RsInit
    <2>2. rsNobody \in RsSession /\ rsNobody.out \notin RsStreams
      BY RsNames DEF rsNobody, RsSession, RsStreams
    <2>3. <<>> \in Seq(RsMsg) /\ DOMAIN <<>> = {}
      OBVIOUS
    <2>4. 0 \in 0..RsMaxMoves
      BY RsNames
    <2>5. RsTypeOK
      <3>1. rsPlay \in [RsZones -> RsSession] /\ rsBox \in [RsZones -> Seq(RsMsg)] /\ rsInc \in [RsZones -> Int]
        BY <2>1, <2>2, <2>3
      <3>2. rsIdx \in [zone : RsZones \cup {RsNone}, fly : BOOLEAN]
        BY <2>1 DEF rsNoEntry
      <3>3. rsStr \in [RsStreams -> [at : {"new", "aged", "sweep", "load", "routed", "open", "refused", "ended"},
                                    cur : RsZones \cup {RsNone}]]
        BY <2>1
      <3>. QED
        BY <2>1, <2>4, <3>1, <3>2, <3>3 DEF RsTypeOK
    <2>6. RsHosting
      BY <2>1, RsNames DEF RsHosting, rsNoEntry
    <2>7. RsBound
      BY <2>1, <2>2, <2>3 DEF RsBound, RsOf
    <2>8. \A z \in RsZones : Coming(rsBox[z]) = {} /\ RsRouted(z) = {} /\ RsWalking(z) = {}
      BY <2>1, <2>3 DEF Coming, RsRouted, RsWalking
    <2>9. RsCounted
      <3>1. \A z \in RsZones : Cardinality(Coming(rsBox[z])) = 0 /\ Cardinality(RsRouted(z)) = 0
        BY <2>8, FS_EmptySet
      <3>. QED
        BY <2>1, <3>1 DEF RsCounted
    <2>10. OneWalker /\ IndexLeads
      BY <2>1, <2>8 DEF OneWalker, IndexLeads, RsHeld
    <2>. QED
      BY <2>5, <2>6, <2>7, <2>9, <2>10 DEF RsInv
  <1>2. RsInv => ResidencySafe
    <2>. SUFFICES ASSUME RsInv PROVE SingleCopy /\ ArrivalsSafe
      BY DEF ResidencySafe, RsInv
    <2>1. SingleCopy
      <3>. SUFFICES ASSUME ~rsRaced PROVE OneCopy
        BY DEF SingleCopy
      <3>1. \A y, z \in RsHeld : y = z
        BY DEF RsInv, IndexLeads, indexResident
      <3>2. \A z \in RsZones : RsWalking(z) # {} => RsHeld = {}
        BY DEF RsInv, IndexLeads, indexResident
      <3>3. \A y, z \in RsZones : \A i \in RsWalking(y), j \in RsWalking(z) : y = z /\ i = j
        BY DEF RsInv, OneWalker
      <3>. QED
        BY <3>1, <3>2, <3>3 DEF OneCopy
    <2>2. ASSUME NEW z \in RsZones
          PROVE  /\ z \notin rsHosted => RsArrivals(z) = {} /\ rsPlay[z] = rsNobody
                 /\ rsInc[z] = 0 => RsArrivals(z) = {}
                 /\ rsInc[z] >= 0
      <3>1. RsArrivals(z) = Coming(rsBox[z])
        BY DEF RsArrivals, Coming
      <3>2. /\ Cardinality(Coming(rsBox[z])) \in Nat /\ Cardinality(RsRouted(z)) \in Nat /\ IsFiniteSet(Coming(rsBox[z]))
            /\ rsInc[z] = Cardinality(Coming(rsBox[z])) + Cardinality(RsRouted(z))
        BY ComingFinite, RoutedFinite, RsTypes DEF RsInv, RsCounted
      <3>3. rsInc[z] = 0 => Cardinality(Coming(rsBox[z])) = 0
        BY <3>2
      <3>4. rsInc[z] = 0 => Coming(rsBox[z]) = {}
        BY <3>2, <3>3, FS_EmptySet
      <3>5. z \notin rsHosted => Coming(rsBox[z]) = {} /\ rsPlay[z] = rsNobody
        BY DEF RsInv, RsHosting, Coming
      <3>6. rsInc[z] >= 0
        BY <3>2
      <3>. QED
        BY <3>1, <3>4, <3>5, <3>6
    <2>3. ArrivalsSafe
      BY <2>2 DEF ArrivalsSafe, RsInv, RsHosting
    <2>. QED
      BY <2>1, <2>3
  <1>3. RsInv /\ [RsNext]_rsVars => RsInv'
    <2>. SUFFICES ASSUME RsInv, [RsNext]_rsVars PROVE RsInv'
      OBVIOUS
    <2>1. CASE UNCHANGED rsVars
      <3>1. UNCHANGED <<rsHosted, rsInc, rsPlay, rsIdx, rsFwd, rsBox, rsStr, rsTimer, rsMoves, rsDrain, rsRaced>>
        BY <2>1 DEF rsVars
      <3>. QED
        BY <3>1, GoneKeeps, RsTypes DEF RsInv, RsHosting
    <2>2. ASSUME NEW n \in RsStreams,
                 \/ \E b \in BOOLEAN : LoginStart(n, b) \/ AttachPost(n, b)
                 \/ SweepCheck(n) \/ SweepClear(n)
                 \/ \E d \in RsZones : AttachRoute(n, d)
                 \/ \E k \in {"detach", "leave"} : StreamEnd(n, k)
          PROVE  RsInv'
      <3>1. ASSUME NEW b \in BOOLEAN, LoginStart(n, b) PROVE RsInv'
        <4>1. b = TRUE \/ b = FALSE
          OBVIOUS
        <4>. QED
          BY <3>1, <4>1, StreamKeeps
      <3>. QED
        BY <2>2, <3>1, PostKeeps, StreamKeeps, RouteKeeps, EndKeeps
    <2>3. ASSUME NEW z \in RsZones, Leave(z) \/ Detach(z) \/ QuitCommand(z)
          PROVE  RsInv'
      <3>1. CASE Leave(z)
        <4>1. /\ z \in rsHosted /\ rsBox[z] # <<>> /\ Head(rsBox[z]).kind = "leave" /\ rsPlay[z] # rsNobody
              /\ Dequeue(z) /\ LeavesZone(z) /\ UNCHANGED <<rsHosted, rsInc, rsFwd, rsStr, rsTimer, rsMoves, rsDrain, rsRaced>>
          BY <3>1 DEF Leave, HeadIs
        <4>. QED
          BY <4>1, GoneKeeps, RsTypes
      <3>2. CASE Detach(z)
        <4>1. /\ z \in rsHosted /\ rsBox[z] # <<>> /\ Head(rsBox[z]).kind = "detach" /\ rsPlay[z] # rsNobody
              /\ Dequeue(z) /\ UNCHANGED <<rsHosted, rsInc, rsFwd, rsStr, rsMoves, rsDrain, rsRaced>>
          BY <3>2 DEF Detach, HeadIs
        <4>2. rsPlay[z] \in RsSession /\ rsTimer \subseteq [zone : RsZones, gen : Nat] /\ rsPlay \in [RsZones -> RsSession]
          BY RsTypes
        <4>3. CASE UNCHANGED <<rsPlay, rsIdx, rsTimer>>
          BY <4>1, <4>2, <4>3, GoneKeeps
        <4>4. CASE LeavesZone(z) /\ UNCHANGED rsTimer
          BY <4>1, <4>2, <4>4, GoneKeeps
        <4>5. CASE /\ rsPlay' = [rsPlay EXCEPT ![z].det = TRUE] /\ UNCHANGED rsIdx
                   /\ rsTimer' = rsTimer \cup {[zone |-> z, gen |-> rsPlay[z].gen]}
          <5>1. rsTimer' \subseteq [zone : RsZones, gen : Nat]
            <6>1. rsPlay[z].gen \in Nat
              BY <4>2 DEF RsSession
            <6>. QED
              BY <4>2, <4>5, <6>1
          <5>2. /\ rsPlay' \in [RsZones -> RsSession] /\ rsPlay'[z].out = rsPlay[z].out
                /\ \A y \in RsZones \ {z} : rsPlay'[y] = rsPlay[y]
            BY <4>2, <4>5 DEF RsSession
          <5>. QED
            BY <4>1, <4>5, <5>1, <5>2, GoneKeeps
        <4>. QED
          BY <3>2, <4>3, <4>4, <4>5 DEF Detach
      <3>3. CASE QuitCommand(z)
        <4>1. /\ z \in rsHosted /\ rsPlay[z] # rsNobody /\ rsPlay' = [rsPlay EXCEPT ![z].quit = TRUE]
              /\ UNCHANGED <<rsHosted, rsInc, rsIdx, rsFwd, rsBox, rsStr, rsTimer, rsMoves, rsDrain, rsRaced>>
          BY <3>3 DEF QuitCommand
        <4>2. /\ rsPlay' \in [RsZones -> RsSession] /\ rsPlay'[z].out = rsPlay[z].out
              /\ \A y \in RsZones \ {z} : rsPlay'[y] = rsPlay[y]
          <5>1. rsPlay \in [RsZones -> RsSession] /\ rsPlay[z] \in RsSession
            BY RsTypes
          <5>2. [rsPlay[z] EXCEPT !.quit = TRUE] \in RsSession /\ [rsPlay[z] EXCEPT !.quit = TRUE].out = rsPlay[z].out
            BY <5>1 DEF RsSession
          <5>. QED
            BY <4>1, <5>1, <5>2
        <4>. QED
          BY <4>1, <4>2, GoneKeeps, RsTypes
      <3>. QED
        BY <2>3, <3>1, <3>2, <3>3
    <2>4. ASSUME NEW t \in rsTimer, Reap(t)
          PROVE  RsInv'
      <3>1. t.zone \in RsZones
        BY RsTypes
      <3>2. PICK z \in RsZones : z = t.zone
        BY <3>1
      <3>3. /\ z \in rsHosted /\ rsTimer' \subseteq [zone : RsZones, gen : Nat]
            /\ UNCHANGED <<rsHosted, rsInc, rsFwd, rsBox, rsStr, rsMoves, rsDrain, rsRaced>>
            /\ (rsPlay[z].det /\ LeavesZone(z)) \/ UNCHANGED <<rsPlay, rsIdx>>
        BY <2>4, <3>2, RsTypes DEF Reap
      <3>4. rsPlay[z].det => rsPlay[z] # rsNobody
        BY DEF rsNobody
      <3>. QED
        BY <3>3, <3>4, GoneKeeps, RsTypes
    <2>5. CASE DrainFlag
      <3>1. rsDrain' = TRUE /\ UNCHANGED <<rsHosted, rsInc, rsPlay, rsIdx, rsFwd, rsBox, rsStr, rsTimer, rsMoves, rsRaced>>
        BY <2>5 DEF DrainFlag
      <3>2. RsTypeOK' /\ RsHosting'
        BY <3>1 DEF RsInv, RsTypeOK, RsHosting
      <3>3. OneWalker' /\ \A y \in RsZones : RsWalking(y)' = RsWalking(y)
        BY <3>1, SameBoxes
      <3>4. RsHeld' = RsHeld /\ \A y \in RsZones : RsRouted(y)' = RsRouted(y)
        BY <3>1 DEF RsHeld, RsRouted
      <3>5. IndexLeads' /\ RsCounted'
        BY <3>1, <3>3, <3>4, LeadsSame, CountSame
      <3>6. RsBound'
        BY <3>1 DEF RsInv, RsBound, RsOf, RsSound, RsPosted
      <3>. QED
        BY <3>2, <3>3, <3>5, <3>6 DEF RsInv
    <2>6. CASE RsNext
      BY <2>2, <2>3, <2>4, <2>5, <2>6, InKeeps, AttachKeeps, ForwardKeeps, UnhostKeeps, OutKeeps DEF RsNext, RsActor
    <2>. QED
      BY <2>1, <2>6
  <1>. QED
    BY <1>1, <1>2, <1>3, PTL DEF RsSpec

-----------------------------------------------------------------------------
(* ShardDrain: which messages of the drain can be waiting in each phase, and    *)
(* where the players are once it has stopped waiting for them, provided that    *)
(* no wait was cut short.                                                       *)

DpMail ==
  CASE dpPhase = "ejecting" -> {<<"eject", "inst">>}
    [] dpPhase \in {"waiting", "waited"} -> {<<"drainZone", "leased">>}
    [] dpPhase = "flushing" -> {<<"drainZone", "leased">>} \cup {<<"flush", z>> : z \in DpZones}
    [] dpPhase = "reclaiming" -> {<<"reclaim", z>> : z \in DpAccount}
    [] OTHER -> {}
DpAfterWait == {"waited", "flushing", "flushed", "reclaiming", "done"}
DpOrders ==
  /\ dpPost \subseteq DpMail
  /\ dpPhase = "ejecting" => dpWindow
  /\ dpPhase \in {"serving", "draining", "ejecting", "ejected"} => ~dpOff
DpSafePlayer(p) ==
  /\ dpP[p].st = "frozen" => dpP[p].at = "leased"
  /\ dpPhase \in DpAfterWait => dpP[p].at # "leased" /\ dpP[p].fly \in {"none", "local"}
  /\ dpPhase \notin {"reclaiming", "done"} => ~dpP[p].told
  /\ dpPhase = "flushing" /\ dpP[p].at = "inst" => dpP[p].saved \/ <<"flush", "inst">> \in dpPost
  /\ dpPhase \in {"flushed", "reclaiming", "done"} /\ dpP[p].at = "inst" => dpP[p].saved
  /\ dpPhase = "reclaiming" /\ dpP[p].at = "inst" =>
       dpP[p].told \/ dpP[p].st \in {"stuck", "gone"} \/ <<"reclaim", "inst">> \in dpPost
  /\ dpPhase = "done" /\ dpP[p].at = "inst" => dpP[p].told \/ dpP[p].st \in {"stuck", "gone"}
  /\ dpP[p].told => dpP[p].saved
\* A player is in one zone or on the way to one, until it is gone.
Placed(r) ==
  /\ r.at = "none" /\ r.fly = "none" => r.st = "gone"
  /\ r.at = "none" \/ r.fly = "none"
DpInv ==
  /\ DpTypeOK
  /\ \A p \in DpPlayers : Placed(dpP[p])
  /\ ~dpCut => DpOrders /\ \A p \in DpPlayers : DpSafePlayer(p)

\* What a record of the drain may become.
LEMMA DpRecord ==
  ASSUME DpTypeOK, NEW p \in DpPlayers
  PROVE  /\ dpP[p] \in DpPlayer /\ dpP[p].at \in DpZones \cup {"none"}
         /\ dpP[p].fly \in DpZones \cup {"none"}
         /\ dpP[p].st \in {"live", "frozen", "stuck", "gone"}
         /\ dpP[p].saved \in BOOLEAN /\ dpP[p].told \in BOOLEAN
         /\ dpP[p].moves \in 0..DpMaxMoves
         /\ \A z \in DpZones : [dpP[p] EXCEPT !.at = "none", !.fly = z] \in DpPlayer
         /\ [dpP[p] EXCEPT !.st = "frozen"] \in DpPlayer
         /\ [dpP[p] EXCEPT !.st = "stuck"] \in DpPlayer
         /\ [dpP[p] EXCEPT !.saved = TRUE] \in DpPlayer
         /\ [dpP[p] EXCEPT !.told = TRUE] \in DpPlayer
  <1>1. dpP[p] \in DpPlayer  BY DEF DpTypeOK
  <1> QED  BY <1>1 DEF DpPlayer

LEMMA DpTyped == DpInit => DpInv
  <1> SUFFICES ASSUME DpInit PROVE DpInv  OBVIOUS
  <1> DEFINE Start == {[at |-> z, fly |-> "none", st |-> "live", saved |-> FALSE,
                        told |-> FALSE, moves |-> 0] : z \in DpZones}
  <1>0. 0 \in 0..DpMaxMoves  BY DpAssumption
  <1>a. dpP \in [DpPlayers -> Start]  BY DEF DpInit
  <1>1. ASSUME NEW p \in DpPlayers
        PROVE  /\ dpP[p].at \in DpZones /\ dpP[p].fly = "none" /\ dpP[p].st = "live"
               /\ dpP[p].told = FALSE
    <2>1. dpP[p] \in Start
      <3> HIDE DEF Start
      <3> QED  BY <1>a
    <2>2. PICK z \in DpZones :
            dpP[p] = [at |-> z, fly |-> "none", st |-> "live", saved |-> FALSE,
                      told |-> FALSE, moves |-> 0]
          BY <2>1
    <2> HIDE DEF Start
    <2> QED  BY <2>2
  <1>2. Start \subseteq DpPlayer
    <2>1. ASSUME NEW z \in DpZones
          PROVE  [at |-> z, fly |-> "none", st |-> "live", saved |-> FALSE,
                  told |-> FALSE, moves |-> 0] \in DpPlayer
          BY <1>0 DEF DpPlayer
    <2> QED  BY <2>1
  <1>3. dpP \in [DpPlayers -> DpPlayer]
    <2> HIDE DEF Start
    <2> QED  BY <1>a, <1>2
  <1>4. DpTypeOK  BY <1>3 DEF DpInit, DpTypeOK, DpPhases, DpMsgs
  <1>5. ASSUME NEW p \in DpPlayers
        PROVE  Placed(dpP[p]) /\ DpSafePlayer(p)
    <2>1. /\ dpP[p].at \in DpZones /\ dpP[p].st = "live" /\ dpP[p].told = FALSE
          /\ dpP[p].fly = "none"
          BY <1>1
    <2>2. dpPhase = "serving"  BY DEF DpInit
    <2> QED  BY <2>1, <2>2 DEF DpSafePlayer, DpZones, DpAfterWait, Placed
  <1>6. DpOrders  BY DEF DpInit, DpOrders
  <1> QED  BY <1>4, <1>5, <1>6 DEF DpInv

(* The steps of BeginDrain leave the players where they are. *)
LEMMA DpBeginStep == DpInv /\ DpBegin => DpInv'
  <1> SUFFICES ASSUME DpInv, DpBegin PROVE DpInv'  OBVIOUS
  <1>1. DpTypeOK'  BY DEF DpInv, DpTypeOK, DpBegin, DpStep, DpPhases
  <1>2. ~dpCut' => DpOrders'  BY DEF DpInv, DpBegin, DpStep, DpOrders, DpMail
  <1>3. ASSUME NEW p \in DpPlayers PROVE ~dpCut' => DpSafePlayer(p)'
        BY DEF DpInv, DpBegin, DpStep, DpSafePlayer, DpAfterWait
  <1> QED  BY <1>1, <1>2, <1>3 DEF DpInv, DpBegin

LEMMA EjectOpenStep == DpInv /\ EjectOpen => DpInv'
  <1> SUFFICES ASSUME DpInv, EjectOpen PROVE DpInv'  OBVIOUS
  <1>1. DpTypeOK'  BY DEF DpInv, DpTypeOK, EjectOpen, DpStep, DpPhases, DpMsgs, DpZones
  <1>2. ~dpCut' => DpOrders'  BY DEF DpInv, EjectOpen, DpStep, DpOrders, DpMail
  <1>3. ASSUME NEW p \in DpPlayers PROVE ~dpCut' => DpSafePlayer(p)'
        BY DEF DpInv, EjectOpen, DpStep, DpSafePlayer, DpAfterWait
  <1> QED  BY <1>1, <1>2, <1>3 DEF DpInv, EjectOpen

LEMMA EjectCloseStep == ASSUME NEW cut \in BOOLEAN PROVE DpInv /\ EjectClose(cut) => DpInv'
  <1> SUFFICES ASSUME DpInv, EjectClose(cut) PROVE DpInv'  OBVIOUS
  <1>1. DpTypeOK'  BY DEF DpInv, DpTypeOK, EjectClose, DpStep, DpPhases
  <1>2. ~dpCut' => ~dpCut /\ ~cut  BY DEF EjectClose
  <1>3. ~dpCut' => DpOrders'  BY <1>2 DEF DpInv, EjectClose, DpStep, DpOrders, DpMail
  <1>4. ASSUME NEW p \in DpPlayers PROVE ~dpCut' => DpSafePlayer(p)'
        BY <1>2 DEF DpInv, EjectClose, DpStep, DpSafePlayer, DpAfterWait
  <1> QED  BY <1>1, <1>3, <1>4 DEF DpInv, EjectClose

LEMMA DpHandoverStep ==
  ASSUME NEW chosen \in BOOLEAN, NEW flipped \in BOOLEAN
  PROVE  DpInv /\ DpHandover(chosen, flipped) => DpInv'
  <1> SUFFICES ASSUME DpInv, DpHandover(chosen, flipped) PROVE DpInv'  OBVIOUS
  <1>1. DpTypeOK'
        BY DEF DpInv, DpTypeOK, DpHandover, DpStep, DpPhases, DpMsgs, DpZones
  <1>2. ~dpCut' => DpOrders'  BY DEF DpInv, DpHandover, DpStep, DpOrders, DpMail
  <1>3. ASSUME NEW p \in DpPlayers PROVE ~dpCut' => DpSafePlayer(p)'
        BY DEF DpInv, DpHandover, DpStep, DpSafePlayer, DpAfterWait
  <1> QED  BY <1>1, <1>2, <1>3 DEF DpInv, DpHandover

\* The wait ends with the leased zone empty and nobody on the way to an accounted zone.
LEMMA DpWaitedStep == ASSUME NEW cut \in BOOLEAN PROVE DpInv /\ DpWaited(cut) => DpInv'
  <1> SUFFICES ASSUME DpInv, DpWaited(cut) PROVE DpInv'  OBVIOUS
  <1>1. DpTypeOK'  BY DEF DpInv, DpTypeOK, DpWaited, DpStep, DpPhases
  <1>2. ~dpCut' => ~dpCut /\ allZonesQuiescent /\ noArrivalsInFlight  BY DEF DpWaited
  <1>3. ~dpCut' => DpOrders'  BY <1>2 DEF DpInv, DpWaited, DpStep, DpOrders, DpMail
  <1>4. ASSUME NEW p \in DpPlayers PROVE ~dpCut' => DpSafePlayer(p)'
    <2>1. dpP[p].fly \in DpZones \cup {"none"}  BY DpRecord DEF DpInv
    <2>2. ~dpCut' => dpP[p].at # "leased" /\ dpP[p].fly \in {"none", "local"}
          BY <1>2, <2>1 DEF allZonesQuiescent, noArrivalsInFlight, DpAccount, DpZones
    <2> QED  BY <1>2, <2>2 DEF DpInv, DpWaited, DpStep, DpSafePlayer, DpAfterWait
  <1> QED  BY <1>1, <1>3, <1>4 DEF DpInv, DpWaited

\* The flush orders, and after them the reclaim orders, go to every zone they are due to.
LEMMA DpPostOrdersStep == ASSUME NEW i \in {1, 2} PROVE DpInv /\ DpPostOrders(i) => DpInv'
  <1> SUFFICES ASSUME DpInv, DpPostOrders(i) PROVE DpInv'  OBVIOUS
  <1> DEFINE Flushes == {<<"flush", z>> : z \in DpZones}
             Reclaims == {<<"reclaim", z>> : z \in DpAccount}
  <1>1. CASE i = 1
    <2>1. /\ dpPhase = "waited" /\ dpPhase' = "flushing"
          /\ dpPost' = dpPost \cup Flushes
          /\ UNCHANGED <<dpP, dpWindow, dpOff, dpTarget, dpCut>>
          BY <1>1 DEF DpPostOrders, DpStep, LastOrders
    <2>2. <<"flush", "inst">> \in dpPost'  BY <2>1 DEF DpZones
    <2>3. DpTypeOK'  BY <2>1 DEF DpInv, DpTypeOK, DpPhases, DpMsgs
    <2>4. ~dpCut' => DpOrders'  BY <2>1 DEF DpInv, DpOrders, DpMail
    <2>5. ASSUME NEW p \in DpPlayers PROVE ~dpCut' => DpSafePlayer(p)'
          BY <2>1, <2>2 DEF DpInv, DpSafePlayer, DpAfterWait
    <2> QED  BY <2>1, <2>3, <2>4, <2>5 DEF DpInv
  <1>2. CASE i = 2
    <2>1. /\ dpPhase = "flushed" /\ dpPhase' = "reclaiming"
          /\ dpPost' = dpPost \cup Reclaims
          /\ UNCHANGED <<dpP, dpWindow, dpOff, dpTarget, dpCut>>
          BY <1>2 DEF DpPostOrders, DpStep, LastOrders
    <2>2. <<"reclaim", "inst">> \in dpPost'  BY <2>1 DEF DpAccount
    <2>3. DpTypeOK'  BY <2>1 DEF DpInv, DpTypeOK, DpPhases, DpMsgs, DpAccount, DpZones
    <2>4. ~dpCut' => DpOrders'  BY <2>1 DEF DpInv, DpOrders, DpMail
    <2>5. ASSUME NEW p \in DpPlayers PROVE ~dpCut' => DpSafePlayer(p)'
          BY <2>1, <2>2 DEF DpInv, DpSafePlayer, DpAfterWait
    <2> QED  BY <2>1, <2>3, <2>4, <2>5 DEF DpInv
  <1> QED  BY <1>1, <1>2

LEMMA DpCollectStep == ASSUME NEW cut \in BOOLEAN PROVE DpInv /\ DpCollect(cut) => DpInv'
  <1> SUFFICES ASSUME DpInv, DpCollect(cut) PROVE DpInv'  OBVIOUS
  <1>1. DpTypeOK'  BY DEF DpInv, DpTypeOK, DpCollect, DpStep, DpPhases
  <1>2. ~dpCut' => ~dpCut /\ dpPost = {}  BY DEF DpCollect
  <1>3. ~dpCut' => DpOrders'  BY <1>2 DEF DpInv, DpCollect, DpStep, DpOrders, DpMail
  <1>4. ASSUME NEW p \in DpPlayers PROVE ~dpCut' => DpSafePlayer(p)'
        BY <1>2 DEF DpInv, DpCollect, DpStep, DpSafePlayer, DpAfterWait
  <1> QED  BY <1>1, <1>3, <1>4 DEF DpInv, DpCollect

LEMMA DpEndStep == ASSUME NEW cut \in BOOLEAN PROVE DpInv /\ DpEnd(cut) => DpInv'
  <1> SUFFICES ASSUME DpInv, DpEnd(cut) PROVE DpInv'  OBVIOUS
  <1>1. DpTypeOK'  BY DEF DpInv, DpTypeOK, DpEnd, DpStep, DpPhases, retireDrainTarget
  <1>2. ~dpCut' => ~dpCut /\ dpPost = {}  BY DEF DpEnd
  <1>3. ~dpCut' => DpOrders'  BY <1>2 DEF DpInv, DpEnd, DpStep, DpOrders, DpMail
  <1>4. ASSUME NEW p \in DpPlayers PROVE ~dpCut' => DpSafePlayer(p)'
        BY <1>2 DEF DpInv, DpEnd, DpStep, DpSafePlayer, DpAfterWait
  <1> QED  BY <1>1, <1>3, <1>4 DEF DpInv, DpEnd

(* What the zones do for the drain. *)
LEMMA DpEjectStep == DpInv /\ DpEject => DpInv'
  <1> SUFFICES ASSUME DpInv, DpEject PROVE DpInv'  OBVIOUS
  <1>1. /\ <<"eject", "inst">> \in dpPost /\ dpPost' = dpPost \ {<<"eject", "inst">>}
        /\ UNCHANGED <<dpPhase, dpWindow, dpOff, dpTarget, dpCut>>
        BY DEF DpEject
  <1>2. ASSUME NEW p \in DpPlayers
        PROVE  \/ dpP'[p] = dpP[p]
               \/ /\ dpP[p].at = "inst" /\ dpP[p].st # "frozen" /\ dpWindow /\ ~dpOff
                  /\ dpP'[p] = [dpP[p] EXCEPT !.at = "none", !.fly = "leased"]
               \/ /\ dpP[p].at = "inst" /\ ~(dpWindow /\ ~dpOff)
                  /\ dpP'[p] = [dpP[p] EXCEPT !.st = "frozen"]
        BY DEF DpEject, DpUpdate, In
  <1>3. DpTypeOK'
    <2>1. ASSUME NEW p \in DpPlayers PROVE dpP'[p] \in DpPlayer
          BY <1>2, DpRecord DEF DpInv, DpZones
    <2>2. dpP' \in [DpPlayers -> DpPlayer]  BY <2>1 DEF DpEject, DpUpdate
    <2> QED  BY <1>1, <2>2 DEF DpInv, DpTypeOK
  <1>4. ASSUME NEW p \in DpPlayers
        PROVE  Placed(dpP'[p])
    <2>1. dpP[p] \in DpPlayer  BY DEF DpInv, DpTypeOK
    <2> QED  BY <1>2, <2>1 DEF DpInv, DpPlayer, Placed
  <1>5. ~dpCut' => dpPhase = "ejecting" /\ dpWindow /\ ~dpOff
        BY <1>1 DEF DpInv, DpOrders, DpMail
  <1>6. ~dpCut' => DpOrders'  BY <1>1, <1>5 DEF DpInv, DpOrders, DpMail
  <1>7. ASSUME NEW p \in DpPlayers PROVE ~dpCut' => DpSafePlayer(p)'
    <2>1. dpP[p] \in DpPlayer  BY DEF DpInv, DpTypeOK
    <2>2. CASE dpP'[p] = dpP[p]
          BY <1>1, <1>5, <2>2 DEF DpInv, DpSafePlayer, DpAfterWait
    <2>3. CASE /\ dpP[p].at = "inst" /\ dpP[p].st # "frozen" /\ dpWindow /\ ~dpOff
               /\ dpP'[p] = [dpP[p] EXCEPT !.at = "none", !.fly = "leased"]
          BY <1>1, <1>5, <2>1, <2>3 DEF DpInv, DpSafePlayer, DpAfterWait, DpPlayer
    <2>4. CASE /\ dpP[p].at = "inst" /\ ~(dpWindow /\ ~dpOff)
               /\ dpP'[p] = [dpP[p] EXCEPT !.st = "frozen"]
          BY <1>1, <1>5, <2>4
    <2> QED  BY <1>2, <2>2, <2>3, <2>4
  <1> QED  BY <1>3, <1>4, <1>6, <1>7 DEF DpInv

LEMMA DpDrainZoneStep == DpInv /\ DpDrainZone => DpInv'
  <1> SUFFICES ASSUME DpInv, DpDrainZone PROVE DpInv'  OBVIOUS
  <1>1. /\ dpPost' = dpPost \ {<<"drainZone", "leased">>}
        /\ UNCHANGED <<dpPhase, dpWindow, dpOff, dpTarget, dpCut>>
        BY DEF DpDrainZone
  <1>2. ASSUME NEW p \in DpPlayers
        PROVE  \/ dpP'[p] = dpP[p]
               \/ dpP[p].at = "leased" /\ dpP'[p] = [dpP[p] EXCEPT !.st = "frozen"]
        BY DEF DpDrainZone, DpUpdate, In
  <1>3. DpTypeOK'
    <2>1. ASSUME NEW p \in DpPlayers PROVE dpP'[p] \in DpPlayer
          BY <1>2, DpRecord DEF DpInv
    <2>2. dpP' \in [DpPlayers -> DpPlayer]  BY <2>1 DEF DpDrainZone, DpUpdate
    <2> QED  BY <1>1, <2>2 DEF DpInv, DpTypeOK
  <1>4. ASSUME NEW p \in DpPlayers
        PROVE  Placed(dpP'[p])
    <2>1. dpP[p] \in DpPlayer  BY DEF DpInv, DpTypeOK
    <2> QED  BY <1>2, <2>1 DEF DpInv, DpPlayer, Placed
  <1>6. ~dpCut' => DpOrders'  BY <1>1 DEF DpInv, DpOrders, DpMail
  <1>7. ASSUME NEW p \in DpPlayers PROVE ~dpCut' => DpSafePlayer(p)'
    <2>1. dpP[p] \in DpPlayer  BY DEF DpInv, DpTypeOK
    <2>2. CASE dpP'[p] = dpP[p]
          BY <1>1, <2>2 DEF DpInv, DpSafePlayer, DpAfterWait
    <2>3. CASE dpP[p].at = "leased" /\ dpP'[p] = [dpP[p] EXCEPT !.st = "frozen"]
          BY <1>1, <2>1, <2>3 DEF DpInv, DpSafePlayer, DpAfterWait, DpPlayer
    <2> QED  BY <1>2, <2>2, <2>3
  <1> QED  BY <1>3, <1>4, <1>6, <1>7 DEF DpInv

LEMMA DpFlushZoneStep == ASSUME NEW z \in DpZones PROVE DpInv /\ DpFlushZone(z) => DpInv'
  <1> SUFFICES ASSUME DpInv, DpFlushZone(z) PROVE DpInv'  OBVIOUS
  <1>1. /\ <<"flush", z>> \in dpPost /\ dpPost' = dpPost \ {<<"flush", z>>}
        /\ UNCHANGED <<dpPhase, dpWindow, dpOff, dpTarget, dpCut>>
        BY DEF DpFlushZone
  <1>2. ASSUME NEW p \in DpPlayers
        PROVE  \/ dpP'[p] = dpP[p] /\ dpP[p].at # z
               \/ dpP[p].at = z /\ dpP'[p] = [dpP[p] EXCEPT !.saved = TRUE]
        BY DEF DpFlushZone, DpUpdate, In
  <1>3. DpTypeOK'
    <2>1. ASSUME NEW p \in DpPlayers PROVE dpP'[p] \in DpPlayer
          BY <1>2, DpRecord DEF DpInv
    <2>2. dpP' \in [DpPlayers -> DpPlayer]  BY <2>1 DEF DpFlushZone, DpUpdate
    <2> QED  BY <1>1, <2>2 DEF DpInv, DpTypeOK
  <1>4. ASSUME NEW p \in DpPlayers
        PROVE  Placed(dpP'[p])
    <2>1. dpP[p] \in DpPlayer  BY DEF DpInv, DpTypeOK
    <2> QED  BY <1>2, <2>1 DEF DpInv, DpPlayer, Placed
  <1>6. ~dpCut' => DpOrders' /\ dpPhase = "flushing"
        BY <1>1 DEF DpInv, DpOrders, DpMail
  <1>7. ASSUME NEW p \in DpPlayers PROVE ~dpCut' => DpSafePlayer(p)'
    <2>1. dpP[p] \in DpPlayer  BY DEF DpInv, DpTypeOK
    <2>2. CASE dpP'[p] = dpP[p] /\ dpP[p].at # z
      <3>1. dpP[p].at = "inst" /\ <<"flush", "inst">> \in dpPost => <<"flush", "inst">> \in dpPost'
            BY <1>1, <2>2
      <3> QED  BY <1>1, <1>6, <2>2, <3>1 DEF DpInv, DpSafePlayer, DpAfterWait
    <2>3. CASE dpP[p].at = z /\ dpP'[p] = [dpP[p] EXCEPT !.saved = TRUE]
          BY <1>1, <1>6, <2>1, <2>3 DEF DpInv, DpSafePlayer, DpAfterWait, DpPlayer
    <2> QED  BY <1>2, <2>2, <2>3
  <1> QED  BY <1>3, <1>4, <1>6, <1>7 DEF DpInv

\* Only players the flush has saved are told: nobody is in the leased zone any more.
LEMMA DpReclaimStep == ASSUME NEW z \in DpZones PROVE DpInv /\ DpReclaim(z) => DpInv'
  <1> SUFFICES ASSUME DpInv, DpReclaim(z) PROVE DpInv'  OBVIOUS
  <1>1. /\ <<"reclaim", z>> \in dpPost /\ dpPost' = dpPost \ {<<"reclaim", z>>}
        /\ UNCHANGED <<dpPhase, dpWindow, dpOff, dpTarget, dpCut>>
        BY DEF DpReclaim
  <1>2. ASSUME NEW p \in DpPlayers
        PROVE  \/ dpP'[p] = dpP[p] /\ ~(dpP[p].at = z /\ dpP[p].st = "live")
               \/ dpP[p].at = z /\ dpP'[p] = [dpP[p] EXCEPT !.told = TRUE]
        BY DEF DpReclaim, DpUpdate, In
  <1>3. DpTypeOK'
    <2>1. ASSUME NEW p \in DpPlayers PROVE dpP'[p] \in DpPlayer
          BY <1>2, DpRecord DEF DpInv
    <2>2. dpP' \in [DpPlayers -> DpPlayer]  BY <2>1 DEF DpReclaim, DpUpdate
    <2> QED  BY <1>1, <2>2 DEF DpInv, DpTypeOK
  <1>4. ASSUME NEW p \in DpPlayers
        PROVE  Placed(dpP'[p])
    <2>1. dpP[p] \in DpPlayer  BY DEF DpInv, DpTypeOK
    <2> QED  BY <1>2, <2>1 DEF DpInv, DpPlayer, Placed
  <1>6. ~dpCut' => DpOrders' /\ dpPhase = "reclaiming" /\ z \in DpAccount
        BY <1>1 DEF DpInv, DpOrders, DpMail
  <1>7. ASSUME NEW p \in DpPlayers PROVE ~dpCut' => DpSafePlayer(p)'
    <2>1. dpP[p] \in DpPlayer  BY DEF DpInv, DpTypeOK
    <2>2. CASE dpP'[p] = dpP[p] /\ ~(dpP[p].at = z /\ dpP[p].st = "live")
      <3>1. <<"reclaim", "inst">> \in dpPost => <<"reclaim", "inst">> \in dpPost' \/ z = "inst"
            BY <1>1
      <3>2. ~dpCut' /\ dpP[p].at = "inst" /\ z = "inst" => dpP[p].st \in {"stuck", "gone"}
            BY <1>1, <2>1, <2>2 DEF DpPlayer, DpInv, DpSafePlayer
      <3> QED  BY <1>1, <1>6, <2>2, <3>1, <3>2 DEF DpInv, DpSafePlayer, DpAfterWait
    <2>3. CASE dpP[p].at = z /\ dpP'[p] = [dpP[p] EXCEPT !.told = TRUE]
      <3>1. ~dpCut' => dpP[p].saved
            BY <1>1, <1>6, <2>3 DEF DpInv, DpSafePlayer, DpAfterWait, DpAccount
      <3> QED  BY <1>1, <1>6, <2>1, <2>3, <3>1 DEF DpInv, DpSafePlayer, DpAfterWait, DpPlayer
    <2> QED  BY <1>2, <2>2, <2>3
  <1> QED  BY <1>3, <1>4, <1>6, <1>7 DEF DpInv

(* The players' own steps change one record and nothing else. *)
LEMMA DpPlayerStep ==
  ASSUME DpInv, NEW p \in DpPlayers, NEW r \in DpPlayer,
         dpP' = [dpP EXCEPT ![p] = r],
         UNCHANGED <<dpPhase, dpWindow, dpPost, dpOff, dpTarget, dpCut>>,
         Placed(r),
         ~dpCut => DpSafePlayer(p)'
  PROVE  DpInv'
  <1>1. dpP \in [DpPlayers -> DpPlayer]  BY DEF DpInv, DpTypeOK
  <1>2. DpTypeOK'  BY <1>1 DEF DpInv, DpTypeOK
  <1>3. ASSUME NEW q \in DpPlayers
        PROVE  /\ Placed(dpP'[q])
               /\ ~dpCut' => DpSafePlayer(q)'
    <2>1. CASE q = p  BY <1>1, <2>1
    <2>2. CASE q # p
      <3>1. dpP'[q] = dpP[q]  BY <1>1, <2>2
      <3> QED  BY <3>1 DEF DpInv, DpSafePlayer
    <2> QED  BY <2>1, <2>2
  <1>4. ~dpCut' => DpOrders'  BY DEF DpInv, DpOrders, DpMail
  <1> QED  BY <1>2, <1>3, <1>4 DEF DpInv

LEMMA DpWalkStep ==
  ASSUME NEW p \in DpPlayers, NEW z \in DpZones PROVE DpInv /\ DpWalk(p, z) => DpInv'
  <1> SUFFICES ASSUME DpInv, DpWalk(p, z) PROVE DpInv'  OBVIOUS
  <1> DEFINE r == [dpP[p] EXCEPT !.at = "none", !.fly = z, !.moves = @ + 1]
  <1>1. dpP[p] \in DpPlayer /\ dpP \in [DpPlayers -> DpPlayer]  BY DEF DpInv, DpTypeOK
  <1>2. dpP[p].moves + 1 \in 0..DpMaxMoves
        BY <1>1, DpAssumption DEF DpPlayer, DpWalk
  <1>3. /\ r \in DpPlayer /\ r.at = "none" /\ r.fly = z /\ r.st = dpP[p].st
        /\ r.saved = dpP[p].saved /\ r.told = dpP[p].told
        BY <1>1, <1>2 DEF DpPlayer
  <1>4. dpP' = [dpP EXCEPT ![p] = r]  BY <1>1 DEF DpWalk
  <1>5. /\ dpPhase = "serving" /\ dpP[p].st = "live"
        /\ UNCHANGED <<dpPhase, dpWindow, dpPost, dpOff, dpTarget, dpCut>>
        BY DEF DpWalk, Draining
  <1> HIDE DEF r
  <1>6. dpP'[p] = r  BY <1>1, <1>4
  <1>7. ~dpCut => DpSafePlayer(p)'  BY <1>3, <1>5, <1>6 DEF DpInv, DpSafePlayer, DpAfterWait
  <1>8. Placed(r)  BY <1>3 DEF Placed, DpZones
  <1> QED  BY <1>3, <1>4, <1>5, <1>7, <1>8, DpPlayerStep

\* An arrival: after the wait it is in the local zone.
LEMMA DpArriveStep == ASSUME NEW p \in DpPlayers PROVE DpInv /\ DpArrive(p) => DpInv'
  <1> SUFFICES ASSUME DpInv, DpArrive(p) PROVE DpInv'  OBVIOUS
  <1> DEFINE r == [dpP[p] EXCEPT !.at = dpP[p].fly, !.fly = "none"]
  <1>1. dpP[p] \in DpPlayer /\ dpP \in [DpPlayers -> DpPlayer]  BY DEF DpInv, DpTypeOK
  <1>2. /\ r \in DpPlayer /\ r.at = dpP[p].fly /\ r.fly = "none" /\ r.st = dpP[p].st
        /\ r.saved = dpP[p].saved /\ r.told = dpP[p].told
        BY <1>1 DEF DpPlayer
  <1>3. dpP' = [dpP EXCEPT ![p] = r]  BY <1>1 DEF DpArrive
  <1>4. /\ dpP[p].fly # "none" /\ dpP[p].fly \in DpZones
        /\ UNCHANGED <<dpPhase, dpWindow, dpPost, dpOff, dpTarget, dpCut>>
        BY <1>1 DEF DpArrive, DpPlayer
  <1> HIDE DEF r
  <1>5. dpP'[p] = r  BY <1>1, <1>3
  <1>6. ~dpCut => dpP[p].st # "frozen"  BY <1>4 DEF DpInv, DpSafePlayer, Placed
  <1>7. ~dpCut => DpSafePlayer(p)
        BY DEF DpInv
  <1>8. ~dpCut => DpSafePlayer(p)'
    <2>1. ~dpCut /\ dpPhase \in DpAfterWait => r.at = "local"
          BY <1>2, <1>4, <1>7 DEF DpSafePlayer
    <2>2. dpPhase \in {"flushing", "flushed", "reclaiming", "done"} => dpPhase \in DpAfterWait
          BY DEF DpAfterWait
    <2> QED  BY <1>2, <1>4, <1>5, <1>6, <1>7, <2>1, <2>2 DEF DpSafePlayer
  <1>9. Placed(r)  BY <1>2, <1>4 DEF Placed
  <1> QED  BY <1>2, <1>3, <1>4, <1>8, <1>9, DpPlayerStep

LEMMA DpDetachStep == ASSUME NEW p \in DpPlayers PROVE DpInv /\ DpDetach(p) => DpInv'
  <1> SUFFICES ASSUME DpInv, DpDetach(p) PROVE DpInv'  OBVIOUS
  <1> DEFINE r == [dpP[p] EXCEPT !.st = "stuck"]
  <1>1. dpP[p] \in DpPlayer /\ dpP \in [DpPlayers -> DpPlayer]  BY DEF DpInv, DpTypeOK
  <1>2. /\ r \in DpPlayer /\ r.at = dpP[p].at /\ r.fly = dpP[p].fly /\ r.st = "stuck"
        /\ r.saved = dpP[p].saved /\ r.told = dpP[p].told
        BY <1>1 DEF DpPlayer
  <1>3. dpP' = [dpP EXCEPT ![p] = r]  BY <1>1 DEF DpDetach
  <1>4. dpP[p].st = "live" /\ UNCHANGED <<dpPhase, dpWindow, dpPost, dpOff, dpTarget, dpCut>>
        BY DEF DpDetach
  <1> HIDE DEF r
  <1>5. dpP'[p] = r  BY <1>1, <1>3
  <1>6. ~dpCut => DpSafePlayer(p)'
        BY <1>2, <1>4, <1>5 DEF DpInv, DpSafePlayer, DpAfterWait
  <1>7. Placed(r)  BY <1>2, <1>4 DEF DpInv, Placed
  <1> QED  BY <1>2, <1>3, <1>4, <1>6, <1>7, DpPlayerStep

\* A handoff that ends leaves the map of the leased zone, or stays there live.
LEMMA DpHandoffEndsStep ==
  ASSUME NEW p \in DpPlayers, NEW ok \in BOOLEAN
  PROVE  DpInv /\ DpHandoffEnds(p, ok) => DpInv'
  <1> SUFFICES ASSUME DpInv, DpHandoffEnds(p, ok) PROVE DpInv'  OBVIOUS
  <1> DEFINE st == IF ok THEN "gone" ELSE "live"
             at == IF ok THEN "none" ELSE dpP[p].at
             r == [dpP[p] EXCEPT !.st = st, !.at = at]
  <1>1. dpP[p] \in DpPlayer /\ dpP \in [DpPlayers -> DpPlayer]  BY DEF DpInv, DpTypeOK
  <1>2. /\ r \in DpPlayer /\ r.at = at /\ r.fly = dpP[p].fly /\ r.st = st
        /\ r.saved = dpP[p].saved /\ r.told = dpP[p].told
        BY <1>1 DEF DpPlayer
  <1>3. dpP' = [dpP EXCEPT ![p] = r]  BY <1>1 DEF DpHandoffEnds
  <1>4. dpP[p].st = "frozen" /\ UNCHANGED <<dpPhase, dpWindow, dpPost, dpOff, dpTarget, dpCut>>
        BY DEF DpHandoffEnds
  <1> HIDE DEF r
  <1>5. dpP'[p] = r  BY <1>1, <1>3
  <1>6. ~dpCut => DpSafePlayer(p)'
        BY <1>2, <1>4, <1>5 DEF DpInv, DpSafePlayer, DpAfterWait
  <1>7. Placed(r)  BY <1>2, <1>4 DEF DpInv, Placed
  <1> QED  BY <1>2, <1>3, <1>4, <1>6, <1>7, DpPlayerStep

LEMMA DpNextStep == DpInv /\ [DpNext]_dpVars => DpInv'
  <1> SUFFICES ASSUME DpInv, [DpNext]_dpVars PROVE DpInv'  OBVIOUS
  <1>1. CASE DpDrain
        BY <1>1, DpBeginStep, EjectOpenStep, EjectCloseStep, DpHandoverStep, DpWaitedStep,
           DpPostOrdersStep, DpCollectStep, DpEndStep DEF DpDrain
  <1>2. CASE DpActors
        BY <1>2, DpEjectStep, DpDrainZoneStep, DpFlushZoneStep, DpReclaimStep DEF DpActors
  <1>3. CASE \E p \in DpPlayers :
               \/ DpArrive(p) \/ DpDetach(p)
               \/ \E z \in DpZones : DpWalk(p, z)
               \/ \E ok \in BOOLEAN : DpHandoffEnds(p, ok)
        BY <1>3, DpArriveStep, DpDetachStep, DpWalkStep, DpHandoffEndsStep
  <1>4. CASE UNCHANGED dpVars
    <2>1. UNCHANGED <<dpP, dpPhase, dpWindow, dpPost, dpOff, dpTarget, dpCut>>
          BY <1>4 DEF dpVars
    <2>2. DpTypeOK'  BY <2>1 DEF DpInv, DpTypeOK
    <2>3. DpOrders' <=> DpOrders  BY <2>1 DEF DpOrders, DpMail
    <2>4. \A p \in DpPlayers : DpSafePlayer(p)' <=> DpSafePlayer(p)
          BY <2>1 DEF DpSafePlayer
    <2> QED  BY <2>1, <2>2, <2>3, <2>4 DEF DpInv
  <1> QED  BY <1>1, <1>2, <1>3, <1>4 DEF DpNext

\* What the invariant says of a drain that ended in time: a player left behind in the
\* instance was saved and told, or has no stream.
LEMMA DpInvSafe == DpInv => DrainSafe
  <1> SUFFICES ASSUME DpInv PROVE DrainSafe  OBVIOUS
  <1>1. ASSUME ~dpCut, NEW p \in DpPlayers
        PROVE  /\ dpP[p].told => dpP[p].saved
               /\ dpPhase = "done" =>
                    \/ dpP[p].st \in {"gone", "frozen"} \/ "local" \in {dpP[p].at, dpP[p].fly}
                    \/ dpP[p].saved /\ (dpP[p].told \/ dpP[p].st = "stuck")
    <2>1. DpSafePlayer(p)  BY <1>1 DEF DpInv
    <2>2. dpP[p].at \in DpZones \cup {"none"}  BY DpRecord DEF DpInv
    <2>3. dpP[p].at = "none" /\ dpP[p].fly = "none" => dpP[p].st = "gone"  BY DEF DpInv, Placed
    <2> QED  BY <2>1, <2>2, <2>3 DEF DpSafePlayer, DpAfterWait, DpZones
  <1> QED  BY <1>1 DEF DrainSafe, NobodyLost, DpInv

\* A drain loses nobody it was given time for, whatever the players and whatever they do
\* on their own: each is handed off, or was saved before it was told to reconnect.
THEOREM DrainIsSafe == DpSpec => []DrainSafe
  <1>1. DpSpec => []DpInv  BY DpTyped, DpNextStep, PTL DEF DpSpec
  <1> QED  BY <1>1, DpInvSafe, PTL

-----------------------------------------------------------------------------
(* DrainTargets.  What is on a target, less the players whose reservations     *)
(* still stand for them, is what the lists of the choosing drainers were made   *)
(* of or less; and with every reservation it is below the ceiling.             *)

DtUnits(f) == UNION {{d} \X (1..f[d]) : d \in DtDrainers}
DtFieldsOf == [DtDrainers -> 0..DtIncoming]
DtUnforced == \A d \in DtDrainers : ~dtD[d].forced
DtSenders(t) == {d \in DtDrainers : dtD[d].st = "sent" /\ dtD[d].at = t}
DtAway(t) == DtSenders(t) \X (1..DtIncoming)

\* A drainer holds headroom on the target it is at, as much as it brings or none.
DtFields ==
  \A d \in DtDrainers :
    /\ \A t \in DtTargets : dtResv[t][d] \in {0, DtIncoming}
    /\ \A t \in DtTargets : dtResv[t][d] # 0 =>
         dtD[d].at = t /\ dtD[d].st \in {"reserved", "chosen", "sent", "dead"}
    /\ dtD[d].st \in {"reserved", "chosen", "sent"} =>
         dtD[d].at \in DtTargets /\ (dtD[d].ok <=> dtResv[dtD[d].at][d] # 0)
    /\ dtD[d].st \in {"chosen", "sent"} => dtD[d].ok \/ dtD[d].forced
    /\ dtD[d].st = "idle" => ~dtD[d].forced
DtRoom ==
  \A t \in DtTargets :
    /\ dtLoad[t] <= dtShown[t] + Cardinality(DtAway(t))
    /\ \A d \in DtDrainers : dtD[d].st \in {"choosing", "reserved"} =>
         dtLoad[t] <= dtD[d].cands[t] + Cardinality(DtAway(t))
    /\ dtLoad[t] + DtHeld(t) <= DtCeiling + Cardinality(DtAway(t))
DtInv == DtTypeOK /\ DtFields /\ (DtUnforced => DtRoom)

LEMMA DtNats ==
  /\ IsFiniteSet(DtDrainers) /\ DtNone \notin DtTargets
  /\ DtIncoming \in Nat /\ DtIncoming > 0 /\ DtCeiling \in Nat
  BY DtAssumption

\* The places of one field.
LEMMA DtBlock ==
  ASSUME NEW d, NEW n \in Nat
  PROVE  IsFiniteSet({d} \X (1..n)) /\ Cardinality({d} \X (1..n)) = n
  <1>1. IsFiniteSet({d}) /\ Cardinality({d}) = 1  BY FS_Singleton
  <1>2. IsFiniteSet(1..n) /\ Cardinality(1..n) = n  BY FS_Interval
  <1>3. 1 * n = n  OBVIOUS
  <1>4. /\ IsFiniteSet({d} \X (1..n))
        /\ Cardinality({d} \X (1..n)) = Cardinality({d}) * Cardinality(1..n)
        BY <1>1, <1>2, FS_Product
  <1>5. Cardinality({d} \X (1..n)) = 1 * n  BY <1>1, <1>2, <1>4
  <1> QED  BY <1>3, <1>4, <1>5

LEMMA DtUnitsFinite ==
  ASSUME NEW f \in DtFieldsOf PROVE IsFiniteSet(DtUnits(f)) /\ Cardinality(DtUnits(f)) \in Nat
  <1>1. IsFiniteSet(DtDrainers \X (1..DtIncoming))
    <2>1. IsFiniteSet(1..DtIncoming)  BY DtNats, FS_Interval
    <2> QED  BY <2>1, DtNats, FS_Product
  <1>2. DtUnits(f) \subseteq DtDrainers \X (1..DtIncoming)
    <2>1. \A d \in DtDrainers : 1..f[d] \subseteq 1..DtIncoming  BY DtNats DEF DtFieldsOf
    <2> QED  BY <2>1 DEF DtUnits
  <1> QED  BY <1>1, <1>2, FS_Subset, FS_CardinalityType

\* Changing one field changes the sum by as much.
LEMMA DtSumChanges ==
  ASSUME NEW f \in DtFieldsOf, NEW g \in DtFieldsOf, NEW d \in DtDrainers,
         \A e \in DtDrainers \ {d} : g[e] = f[e]
  PROVE  Cardinality(DtUnits(g)) + f[d] = Cardinality(DtUnits(f)) + g[d]
  <1> DEFINE R == UNION {{e} \X (1..f[e]) : e \in DtDrainers \ {d}}
             F == {d} \X (1..f[d])
             G == {d} \X (1..g[d])
  <1>1. DtUnits(f) = R \cup F  BY DEF DtUnits
  <1>2. DtUnits(g) = R \cup G  BY DEF DtUnits
  <1>3. R \cap F = {} /\ R \cap G = {}  OBVIOUS
  <1>4. f[d] \in Nat /\ g[d] \in Nat  BY DtNats DEF DtFieldsOf
  <1>5. IsFiniteSet(F) /\ Cardinality(F) = f[d] /\ IsFiniteSet(G) /\ Cardinality(G) = g[d]
        BY <1>4, DtBlock
  <1>6. IsFiniteSet(R) /\ Cardinality(R) \in Nat
    <2>1. R \subseteq DtUnits(f)  BY <1>1
    <2> QED  BY <2>1, DtUnitsFinite, FS_Subset, FS_CardinalityType
  <1> HIDE DEF R, F, G
  <1>7. Cardinality(R \cup F) = Cardinality(R) + f[d]
    <2>1. Cardinality(R \cup F) = Cardinality(R) + Cardinality(F) - Cardinality(R \cap F)
          BY <1>5, <1>6, FS_Union
    <2>2. Cardinality(R \cap F) = 0  BY <1>3, FS_EmptySet
    <2> QED  BY <1>4, <1>5, <1>6, <2>1, <2>2
  <1>8. Cardinality(R \cup G) = Cardinality(R) + g[d]
    <2>1. Cardinality(R \cup G) = Cardinality(R) + Cardinality(G) - Cardinality(R \cap G)
          BY <1>5, <1>6, FS_Union
    <2>2. Cardinality(R \cap G) = 0  BY <1>3, FS_EmptySet
    <2> QED  BY <1>4, <1>5, <1>6, <2>1, <2>2
  <1> QED  BY <1>1, <1>2, <1>4, <1>6, <1>7, <1>8

\* A drainer more or less away changes the players away by what it brings.
LEMMA DtAwayGrows ==
  ASSUME NEW S \in SUBSET DtDrainers, NEW d \in DtDrainers \ S
  PROVE  /\ Cardinality((S \cup {d}) \X (1..DtIncoming)) = Cardinality(S \X (1..DtIncoming)) + DtIncoming
         /\ Cardinality(S \X (1..DtIncoming)) \in Nat
         /\ IsFiniteSet(S \X (1..DtIncoming))
  <1> DEFINE B == {d} \X (1..DtIncoming)
             A == S \X (1..DtIncoming)
  <1>1. IsFiniteSet(1..DtIncoming)  BY DtNats, FS_Interval
  <1>2. IsFiniteSet(S)  BY DtNats, FS_Subset
  <1>3. IsFiniteSet(A) /\ Cardinality(A) \in Nat  BY <1>1, <1>2, FS_Product, FS_CardinalityType
  <1>4. IsFiniteSet(B) /\ Cardinality(B) = DtIncoming  BY DtNats, DtBlock
  <1>5. (S \cup {d}) \X (1..DtIncoming) = A \cup B /\ A \cap B = {}  OBVIOUS
  <1> HIDE DEF A, B
  <1>6. Cardinality(A \cup B) = Cardinality(A) + Cardinality(B) - Cardinality(A \cap B)
        BY <1>3, <1>4, FS_Union
  <1>7. Cardinality(A \cap B) = 0  BY <1>5, FS_EmptySet
  <1>8. Cardinality(A \cup B) = Cardinality(A) + DtIncoming  BY <1>3, <1>4, <1>6, <1>7, DtNats
  <1> QED  BY <1>3, <1>5, <1>8 DEF A

\* What the drainers' records hold.
LEMMA DtRecords ==
  ASSUME DtTypeOK
  PROVE  /\ \A d \in DtDrainers : dtD[d] \in DtDrainer
         /\ \A t \in DtTargets : dtLoad[t] \in Nat /\ dtShown[t] \in Nat /\ dtResv[t] \in [DtDrainers -> Nat]
         /\ \A t \in DtTargets, d \in DtDrainers : dtResv[t][d] \in Nat
         /\ \A t \in DtTargets, d \in DtDrainers : dtD[d].cands[t] \in Int
  BY DEF DtTypeOK, DtDrainer

LEMMA DtCounts ==
  ASSUME DtTypeOK, DtFields, NEW t \in DtTargets
  PROVE  /\ dtResv[t] \in DtFieldsOf /\ DtHeld(t) = Cardinality(DtUnits(dtResv[t]))
         /\ DtHeld(t) \in Nat /\ Cardinality(DtAway(t)) \in Nat
         /\ IsFiniteSet(DtAway(t)) /\ DtSenders(t) \subseteq DtDrainers
  <1>1. dtResv[t] \in DtFieldsOf
    <2>1. 0 \in 0..DtIncoming /\ DtIncoming \in 0..DtIncoming  BY DtNats
    <2> QED  BY <2>1, DtRecords DEF DtFieldsOf, DtFields
  <1>2. DtHeld(t) = Cardinality(DtUnits(dtResv[t]))  BY DEF DtHeld, DtPlaces, DtUnits
  <1>3. DtSenders(t) \subseteq DtDrainers  BY DEF DtSenders
  <1>4. IsFiniteSet(DtAway(t)) /\ Cardinality(DtAway(t)) \in Nat
    <2>1. IsFiniteSet(DtSenders(t))  BY <1>3, DtNats, FS_Subset
    <2>2. IsFiniteSet(1..DtIncoming)  BY DtNats, FS_Interval
    <2> QED  BY <2>1, <2>2, FS_Product, FS_CardinalityType DEF DtAway
  <1> QED  BY <1>1, <1>2, <1>3, <1>4, DtUnitsFinite

\* Who is away holds its places, unless it went over knowingly.
LEMMA DtAwayHolds ==
  ASSUME DtTypeOK, DtFields, DtUnforced, NEW t \in DtTargets
  PROVE  Cardinality(DtAway(t)) <= DtHeld(t)
  <1>1. \A d \in DtSenders(t) : dtResv[t][d] = DtIncoming
        BY DEF DtSenders, DtFields, DtUnforced
  <1>2. DtAway(t) \subseteq DtUnits(dtResv[t])  BY <1>1 DEF DtAway, DtUnits, DtSenders
  <1>3. dtResv[t] \in DtFieldsOf  BY DtCounts
  <1> QED  BY <1>2, <1>3, DtCounts, DtUnitsFinite, FS_Subset

LEMMA DtInvSafe == DtInv => TargetsSafe
  <1> SUFFICES ASSUME DtInv PROVE CeilingShared  BY DEF DtInv, TargetsSafe
  <1>1. DtTypeOK /\ DtFields  BY DEF DtInv
  <1>2. ASSUME NEW t \in DtTargets, DtUnforced PROVE dtLoad[t] <= DtCeiling
    <2>1. dtLoad[t] + DtHeld(t) <= DtCeiling + Cardinality(DtAway(t))  BY <1>2 DEF DtInv, DtRoom
    <2>2. Cardinality(DtAway(t)) <= DtHeld(t)  BY <1>1, <1>2, DtAwayHolds
    <2> QED  BY <1>1, <2>1, <2>2, DtCounts, DtRecords, DtNats
  <1>3. \A d \in DtDrainers : dtD[d].st \in {"idle", "done"} => \A t \in DtTargets : dtResv[t][d] = 0
        BY <1>1 DEF DtFields
  <1> QED  BY <1>2, <1>3 DEF CeilingShared, DtUnforced

LEMMA DtStart == DtInit => DtInv
  <1> SUFFICES ASSUME DtInit PROVE DtInv  OBVIOUS
  <1>0. /\ dtLoad \in [DtTargets -> 0..DtCeiling] /\ dtShown = dtLoad
        /\ \A t \in DtTargets : dtLoad[t] \in Nat /\ dtLoad[t] <= DtCeiling
        BY DtNats DEF DtInit
  <1>1. \A d \in DtDrainers : /\ dtD[d] \in DtDrainer /\ dtD[d].st = "idle" /\ ~dtD[d].forced
                              /\ dtD[d].at = DtNone
    <2>1. dtLoad \in [DtTargets -> Int]  BY <1>0, DtNats
    <2> QED  BY <2>1 DEF DtInit, DtDrainer
  <1>2. \A t \in DtTargets, d \in DtDrainers : dtResv[t][d] = 0  BY DEF DtInit
  <1>3. DtTypeOK
    <2>1. dtLoad \in [DtTargets -> Nat] /\ dtShown \in [DtTargets -> Nat]  BY <1>0, DtNats
    <2>2. dtResv \in [DtTargets -> [DtDrainers -> Nat]]  BY DEF DtInit
    <2>3. dtSent \in [DtTargets -> SUBSET DtDrainers]  BY DEF DtInit
    <2>4. dtD \in [DtDrainers -> DtDrainer]  BY <1>1 DEF DtInit
    <2> QED  BY <2>1, <2>2, <2>3, <2>4 DEF DtTypeOK
  <1>4. DtFields  BY <1>1, <1>2 DEF DtFields
  <1>5. ASSUME NEW t \in DtTargets PROVE DtHeld(t) = 0
    <2>1. DtPlaces(t) = {}
      <3>1. \A d \in DtDrainers : 1..dtResv[t][d] = {}  BY <1>2
      <3> QED  BY <3>1 DEF DtPlaces
    <2> QED  BY <2>1, FS_EmptySet DEF DtHeld
  <1>6. DtRoom  BY <1>0, <1>1, <1>3, <1>4, <1>5, DtCounts, DtNats DEF DtRoom
  <1> QED  BY <1>3, <1>4, <1>6 DEF DtInv

\* What a step says when it moves one drainer and touches no other's fields.
DtMoves(d) ==
  /\ dtD' \in [DtDrainers -> DtDrainer] /\ dtResv' \in [DtTargets -> [DtDrainers -> Nat]]
  /\ \A e \in DtDrainers \ {d} : dtD'[e] = dtD[e] /\ \A t \in DtTargets : dtResv'[t][e] = dtResv[t][e]

LEMMA DtMoved ==
  ASSUME DtTypeOK, NEW d \in DtDrainers, NEW r \in DtDrainer, dtD' = [dtD EXCEPT ![d] = r],
         \/ UNCHANGED dtResv
         \/ \E t \in DtTargets, n \in Nat : dtResv' = [dtResv EXCEPT ![t][d] = n]
  PROVE  DtMoves(d) /\ dtD'[d] = r
  <1>1. dtD' \in [DtDrainers -> DtDrainer] /\ dtD'[d] = r /\ \A e \in DtDrainers \ {d} : dtD'[e] = dtD[e]
        BY DEF DtTypeOK
  <1>2. CASE UNCHANGED dtResv  BY <1>1, <1>2 DEF DtTypeOK, DtMoves
  <1>3. ASSUME NEW t \in DtTargets, NEW n \in Nat, dtResv' = [dtResv EXCEPT ![t][d] = n]
        PROVE  DtMoves(d)
    <2>1. dtResv \in [DtTargets -> [DtDrainers -> Nat]]  BY DEF DtTypeOK
    <2>2. dtResv' = [dtResv EXCEPT ![t] = [dtResv[t] EXCEPT ![d] = n]]  BY <1>3
    <2>3. [dtResv[t] EXCEPT ![d] = n] \in [DtDrainers -> Nat]  BY <2>1
    <2>4. dtResv' \in [DtTargets -> [DtDrainers -> Nat]]  BY <2>1, <2>2, <2>3
    <2>5. \A e \in DtDrainers \ {d}, u \in DtTargets : dtResv'[u][e] = dtResv[u][e]  BY <2>1, <2>2
    <2> QED  BY <1>1, <2>4, <2>5 DEF DtMoves
  <1> QED  BY <1>1, <1>2, <1>3

\* The fields of the drainer that moved decide.
LEMMA DtFieldsMoved ==
  ASSUME DtFields, NEW d \in DtDrainers, DtMoves(d),
         \A t \in DtTargets : dtResv'[t][d] \in {0, DtIncoming},
         \A t \in DtTargets : dtResv'[t][d] # 0 =>
           dtD'[d].at = t /\ dtD'[d].st \in {"reserved", "chosen", "sent", "dead"},
         dtD'[d].st \in {"reserved", "chosen", "sent"} =>
           dtD'[d].at \in DtTargets /\ (dtD'[d].ok <=> dtResv'[dtD'[d].at][d] # 0),
         dtD'[d].st \in {"chosen", "sent"} => dtD'[d].ok \/ dtD'[d].forced,
         dtD'[d].st = "idle" => ~dtD'[d].forced
  PROVE  DtFields'
  BY DEF DtFields, DtMoves

LEMMA DtHeldLess ==
  ASSUME DtTypeOK, DtFields, DtTypeOK', DtFields', NEW t \in DtTargets,
         \A d \in DtDrainers : dtResv'[t][d] <= dtResv[t][d]
  PROVE  DtHeld(t)' <= DtHeld(t)
  <1>1. dtResv[t] \in DtFieldsOf /\ DtHeld(t) = Cardinality(DtUnits(dtResv[t]))  BY DtCounts
  <1>2. (dtResv[t] \in DtFieldsOf /\ DtHeld(t) = Cardinality(DtUnits(dtResv[t])))'
    <2>1. dtResv'[t] \in DtFieldsOf
      <3>1. 0 \in 0..DtIncoming /\ DtIncoming \in 0..DtIncoming  BY DtNats
      <3>2. dtResv'[t] \in [DtDrainers -> Nat]  BY DEF DtTypeOK
      <3>3. \A d \in DtDrainers : dtResv'[t][d] \in {0, DtIncoming}  BY DEF DtFields
      <3> QED  BY <3>1, <3>2, <3>3 DEF DtFieldsOf
    <2> QED  BY <2>1 DEF DtHeld, DtPlaces, DtUnits
  <1>3. DtUnits(dtResv'[t]) \subseteq DtUnits(dtResv[t])
    <2>1. \A d \in DtDrainers : dtResv'[t][d] \in Nat /\ dtResv[t][d] \in Nat  BY DEF DtTypeOK
    <2>2. \A d \in DtDrainers : 1..dtResv'[t][d] \subseteq 1..dtResv[t][d]  BY <2>1
    <2> QED  BY <2>2 DEF DtUnits
  <1> QED  BY <1>1, <1>2, <1>3, DtUnitsFinite, FS_Subset

\* A step that brings nobody, shows nobody and reserves nothing.
LEMMA DtRoomKept ==
  ASSUME DtInv, DtTypeOK', DtFields', DtUnforced, UNCHANGED <<dtLoad, dtShown>>,
         \A d \in DtDrainers : (dtD'[d].st = "sent" \/ dtD[d].st = "sent") => dtD'[d] = dtD[d],
         \A d \in DtDrainers : dtD'[d].st \in {"choosing", "reserved"} =>
           \/ dtD[d].st \in {"choosing", "reserved"} /\ dtD'[d].cands = dtD[d].cands
           \/ \A t \in DtTargets : dtD'[d].cands[t] = dtShown[t],
         \A t \in DtTargets, d \in DtDrainers : dtResv'[t][d] <= dtResv[t][d]
  PROVE  DtRoom'
  <1>1. DtTypeOK /\ DtFields /\ DtRoom  BY DEF DtInv
  <1>2. SUFFICES ASSUME NEW t \in DtTargets
                 PROVE  /\ dtLoad[t] <= dtShown[t] + Cardinality(DtAway(t)')
                        /\ \A d \in DtDrainers : dtD'[d].st \in {"choosing", "reserved"} =>
                             dtLoad[t] <= dtD'[d].cands[t] + Cardinality(DtAway(t)')
                        /\ dtLoad[t] + DtHeld(t)' <= DtCeiling + Cardinality(DtAway(t)')
        BY DEF DtRoom
  <1>3. DtAway(t)' = DtAway(t)  BY DEF DtAway, DtSenders
  <1>4. DtHeld(t)' <= DtHeld(t)  BY <1>1, DtHeldLess
  <1>5. /\ dtLoad[t] <= dtShown[t] + Cardinality(DtAway(t))
        /\ \A d \in DtDrainers : dtD[d].st \in {"choosing", "reserved"} =>
             dtLoad[t] <= dtD[d].cands[t] + Cardinality(DtAway(t))
        /\ dtLoad[t] + DtHeld(t) <= DtCeiling + Cardinality(DtAway(t))
        BY <1>1 DEF DtRoom
  <1>6. DtHeld(t) \in Nat /\ Cardinality(DtAway(t)) \in Nat /\ dtLoad[t] \in Nat /\ dtShown[t] \in Nat
        BY <1>1, DtCounts, DtRecords
  <1>7. DtHeld(t)' \in Nat
    <2>1. dtResv'[t] \in DtFieldsOf
      <3>1. 0 \in 0..DtIncoming /\ DtIncoming \in 0..DtIncoming  BY DtNats
      <3>2. dtResv'[t] \in [DtDrainers -> Nat]  BY DEF DtTypeOK
      <3>3. \A d \in DtDrainers : dtResv'[t][d] \in {0, DtIncoming}  BY DEF DtFields
      <3> QED  BY <3>1, <3>2, <3>3 DEF DtFieldsOf
    <2>2. DtHeld(t)' = Cardinality(DtUnits(dtResv'[t]))  BY DEF DtHeld, DtPlaces, DtUnits
    <2> QED  BY <2>1, <2>2, DtUnitsFinite
  <1>8. dtLoad[t] + DtHeld(t)' <= DtCeiling + Cardinality(DtAway(t))
        BY <1>4, <1>5, <1>6, <1>7, DtNats
  <1> QED  BY <1>3, <1>5, <1>8

\* So too for the whole invariant, when the step moves d alone and clears no forced flag.
LEMMA DtQuiet ==
  ASSUME DtInv, NEW d \in DtDrainers, DtMoves(d), DtFields', UNCHANGED <<dtLoad, dtShown, dtSent>>,
         dtD[d].st = "idle" \/ (dtD[d].forced => dtD'[d].forced),
         dtD[d].st # "sent" \/ dtD'[d] = dtD[d], dtD'[d].st # "sent" \/ dtD'[d] = dtD[d],
         dtD'[d].st \in {"choosing", "reserved"} =>
           \/ dtD[d].st \in {"choosing", "reserved"} /\ dtD'[d].cands = dtD[d].cands
           \/ dtD'[d].forced
           \/ \A t \in DtTargets : dtD'[d].cands[t] = dtShown[t],
         \A t \in DtTargets : dtResv'[t][d] <= dtResv[t][d]
  PROVE  DtInv'
  <1>1. DtTypeOK /\ DtFields /\ (DtUnforced => DtRoom)  BY DEF DtInv
  <1>2. DtTypeOK'  BY <1>1 DEF DtTypeOK, DtMoves
  <1>3. ASSUME DtUnforced' PROVE DtRoom'
    <2>1. \A e \in DtDrainers : ~dtD'[e].forced  BY <1>3 DEF DtUnforced
    <2>2. DtUnforced
      <3>1. ~dtD[d].forced  BY <1>1, <2>1 DEF DtFields
      <3> QED  BY <2>1, <3>1 DEF DtUnforced, DtMoves
    <2>3. \A e \in DtDrainers : (dtD'[e].st = "sent" \/ dtD[e].st = "sent") => dtD'[e] = dtD[e]
          BY DEF DtMoves
    <2>4. \A e \in DtDrainers : dtD'[e].st \in {"choosing", "reserved"} =>
           \/ dtD[e].st \in {"choosing", "reserved"} /\ dtD'[e].cands = dtD[e].cands
           \/ \A t \in DtTargets : dtD'[e].cands[t] = dtShown[t]
          BY <2>1 DEF DtMoves
    <2>5. \A t \in DtTargets, e \in DtDrainers : dtResv'[t][e] <= dtResv[t][e]
      <3>1. \A t \in DtTargets, e \in DtDrainers : dtResv[t][e] \in Nat  BY <1>1, DtRecords
      <3>2. \A t \in DtTargets, e \in DtDrainers \ {d} : dtResv'[t][e] = dtResv[t][e]  BY DEF DtMoves
      <3>3. \A n \in Nat : n <= n  OBVIOUS
      <3> QED  BY <3>1, <3>2, <3>3
    <2> QED  BY <1>2, <2>2, <2>3, <2>4, <2>5, DtRoomKept
  <1> QED  BY <1>2, <1>3 DEF DtInv

LEMMA DtListKeeps ==
  ASSUME DtInv, NEW d \in DtDrainers, NEW dark \in BOOLEAN, DtList(d, dark) PROVE DtInv'
  <1>1. DtTypeOK /\ DtFields  BY DEF DtInv
  <1>2. dtD[d] \in DtDrainer  BY <1>1, DtRecords
  <1> DEFINE seen == [t \in DtTargets |-> IF dark THEN 0 ELSE dtShown[t]]
             r == [dtD[d] EXCEPT !.st = "choosing", !.left = DtTargets, !.cands = seen, !.forced = dark]
  <1>3. seen \in [DtTargets -> Int]  BY <1>1, DtRecords
  <1>4. /\ r \in DtDrainer /\ r.st = "choosing" /\ r.forced = dark /\ r.cands = seen
        BY <1>2, <1>3 DEF DtDrainer
  <1>5. dtD' = [dtD EXCEPT ![d] = r]  BY DEF DtList
  <1>6. ~dark => \A t \in DtTargets : seen[t] = dtShown[t]  OBVIOUS
  <1>7. dtD[d].st = "idle" /\ UNCHANGED <<dtLoad, dtShown, dtResv, dtSent>>  BY DEF DtList
  <1> HIDE DEF r, seen
  <1>8. DtMoves(d) /\ dtD'[d] = r  BY <1>1, <1>4, <1>5, <1>7, DtMoved
  <1>9. \A t \in DtTargets : dtResv[t][d] = 0  BY <1>1, <1>7 DEF DtFields
  <1>10. DtFields'  BY <1>1, <1>4, <1>7, <1>8, <1>9, DtFieldsMoved
  <1> QED  BY <1>4, <1>6, <1>7, <1>8, <1>9, <1>10, DtQuiet

LEMMA DtTakeKeeps ==
  ASSUME DtInv, NEW d \in DtDrainers, DtTake(d) PROVE DtInv'
  <1>1. DtTypeOK /\ DtFields  BY DEF DtInv
  <1>2. dtD[d] \in DtDrainer  BY <1>1, DtRecords
  <1> DEFINE r == [dtD[d] EXCEPT !.st = "chosen", !.forced = dtD[d].forced \/ (~dtD[d].ok)]
  <1>4. /\ r \in DtDrainer /\ r.st = "chosen" /\ r.forced = (dtD[d].forced \/ (~dtD[d].ok))
        /\ r.at = dtD[d].at /\ r.ok = dtD[d].ok
        BY <1>2 DEF DtDrainer
  <1>5. dtD' = [dtD EXCEPT ![d] = r]  BY DEF DtTake
  <1>7. dtD[d].st = "reserved" /\ UNCHANGED <<dtLoad, dtShown, dtResv, dtSent>>  BY DEF DtTake
  <1> HIDE DEF r
  <1>8. DtMoves(d) /\ dtD'[d] = r  BY <1>1, <1>4, <1>5, <1>7, DtMoved
  <1>9. /\ \A t \in DtTargets : dtResv[t][d] \in {0, DtIncoming}
        /\ \A t \in DtTargets : dtResv[t][d] # 0 => dtD[d].at = t
        /\ dtD[d].at \in DtTargets /\ (dtD[d].ok <=> dtResv[dtD[d].at][d] # 0)
        BY <1>1, <1>7 DEF DtFields
  <1>10. DtFields'
    <2>1. \A t \in DtTargets : dtResv'[t][d] \in {0, DtIncoming} BY <1>7, <1>9
    <2>2. \A t \in DtTargets : dtResv'[t][d] # 0 =>
             dtD'[d].at = t /\ dtD'[d].st \in {"reserved", "chosen", "sent", "dead"}
          BY <1>4, <1>7, <1>8, <1>9
    <2>3. dtD'[d].at \in DtTargets /\ (dtD'[d].ok <=> dtResv'[dtD'[d].at][d] # 0)
          BY <1>4, <1>7, <1>8, <1>9
    <2>4. dtD'[d].ok \/ dtD'[d].forced  BY <1>2, <1>4, <1>8 DEF DtDrainer
    <2> QED  BY <1>1, <1>4, <1>8, <2>1, <2>2, <2>3, <2>4, DtFieldsMoved
  <1>11. \A t \in DtTargets : dtResv'[t][d] <= dtResv[t][d]
    <2>1. \A t \in DtTargets : dtResv[t][d] \in Nat  BY <1>1, DtRecords
    <2> QED  BY <1>7, <2>1
  <1> QED  BY <1>4, <1>7, <1>8, <1>10, <1>11, DtQuiet

\* The headroom of d on the target it is at, given back.
LEMMA DtGivenBack ==
  ASSUME DtTypeOK, DtFields, NEW d \in DtDrainers, dtD[d].at \in DtTargets,
         NEW resv, resv = [dtResv EXCEPT ![dtD[d].at][d] = 0]
  PROVE  \A t \in DtTargets : resv[t][d] = 0
  <1>1. ASSUME NEW t \in DtTargets PROVE resv[t][d] = 0
    <2>1. dtResv \in [DtTargets -> [DtDrainers -> Nat]]  BY DEF DtTypeOK
    <2>2. CASE t = dtD[d].at  BY <2>1, <2>2
    <2>3. CASE t # dtD[d].at
      <3>1. dtResv[t][d] = 0  BY <2>3 DEF DtFields
      <3> QED  BY <2>1, <2>3, <3>1
    <2> QED  BY <2>2, <2>3
  <1> QED  BY <1>1

LEMMA DtDropKeeps ==
  ASSUME DtInv, NEW d \in DtDrainers, DtDrop(d) PROVE DtInv'
  <1>1. DtTypeOK /\ DtFields  BY DEF DtInv
  <1>2. dtD[d] \in DtDrainer  BY <1>1, DtRecords
  <1> DEFINE rest == dtD[d].left \ {dtD[d].at}
             st == IF rest = {} /\ dtD[d].pass = "force" THEN "done" ELSE "choosing"
             left == IF rest = {} THEN DtTargets ELSE rest
             pass == IF rest = {} THEN "force" ELSE dtD[d].pass
             r == [dtD[d] EXCEPT !.st = st, !.at = DtNone, !.left = left, !.pass = pass]
  <1>3. st \in {"done", "choosing"} /\ left \in SUBSET DtTargets /\ pass \in {"reserve", "force"}
        BY <1>2 DEF DtDrainer
  <1>4. dtD' = [dtD EXCEPT ![d] = r]  BY DEF DtDrop
  <1> HIDE DEF st, left, pass
  <1>5. r \in DtDrainer /\ r.st = st /\ r.forced = dtD[d].forced /\ r.cands = dtD[d].cands
        BY <1>2, <1>3 DEF DtDrainer
  <1> HIDE DEF r
  <1>6. /\ dtD[d].st = "reserved" /\ UNCHANGED <<dtLoad, dtShown, dtSent>>
        /\ dtResv' = IF dtD[d].ok THEN [dtResv EXCEPT ![dtD[d].at][d] = 0] ELSE dtResv
        BY DEF DtDrop, abandoned
  <1>7. dtD[d].at \in DtTargets /\ (dtD[d].ok <=> dtResv[dtD[d].at][d] # 0)
        /\ \A t \in DtTargets : dtResv[t][d] # 0 => dtD[d].at = t
        BY <1>1, <1>6 DEF DtFields
  <1>8. DtMoves(d) /\ dtD'[d] = r
    <2>1. UNCHANGED dtResv \/ \E t \in DtTargets, n \in Nat : dtResv' = [dtResv EXCEPT ![t][d] = n]
      <3>1. 0 \in Nat  OBVIOUS
      <3> QED  BY <1>6, <1>7, <3>1
    <2> QED  BY <1>1, <1>4, <1>5, <2>1, DtMoved
  <1>9. \A t \in DtTargets : dtResv'[t][d] = 0
    <2>1. CASE dtD[d].ok  BY <1>1, <1>6, <1>7, <2>1, DtGivenBack
    <2>2. CASE ~dtD[d].ok  BY <1>6, <1>7, <2>2
    <2> QED  BY <2>1, <2>2
  <1>10. DtFields'  BY <1>1, <1>3, <1>5, <1>8, <1>9, DtFieldsMoved
  <1>11. \A t \in DtTargets : dtResv'[t][d] <= dtResv[t][d]
    <2>1. \A t \in DtTargets : dtResv[t][d] \in Nat  BY <1>1, DtRecords
    <2>2. \A n \in Nat : 0 <= n  OBVIOUS
    <2> QED  BY <1>9, <2>1, <2>2
  <1> QED  BY <1>3, <1>5, <1>6, <1>8, <1>10, <1>11, DtQuiet

LEMMA DtDieKeeps ==
  ASSUME DtInv, NEW d \in DtDrainers, DtDie(d) PROVE DtInv'
  <1>1. DtTypeOK /\ DtFields  BY DEF DtInv
  <1>2. dtD[d] \in DtDrainer  BY <1>1, DtRecords
  <1> DEFINE r == [dtD[d] EXCEPT !.st = "dead"]
  <1>4. r \in DtDrainer /\ r.st = "dead" /\ r.forced = dtD[d].forced /\ r.at = dtD[d].at
        BY <1>2 DEF DtDrainer
  <1>5. dtD' = [dtD EXCEPT ![d] = r]  BY DEF DtDie
  <1>7. /\ dtD[d].st \in {"choosing", "reserved", "chosen"}
        /\ UNCHANGED <<dtLoad, dtShown, dtResv, dtSent>>
        BY DEF DtDie
  <1> HIDE DEF r
  <1>8. DtMoves(d) /\ dtD'[d] = r  BY <1>1, <1>4, <1>5, <1>7, DtMoved
  <1>9. /\ \A t \in DtTargets : dtResv[t][d] \in {0, DtIncoming}
        /\ \A t \in DtTargets : dtResv[t][d] # 0 => dtD[d].at = t
        BY <1>1 DEF DtFields
  <1>10. DtFields'
    <2>1. \A t \in DtTargets : dtResv'[t][d] \in {0, DtIncoming} BY <1>7, <1>9
    <2>2. \A t \in DtTargets : dtResv'[t][d] # 0 =>
             dtD'[d].at = t /\ dtD'[d].st \in {"reserved", "chosen", "sent", "dead"}
          BY <1>4, <1>7, <1>8, <1>9
    <2> QED  BY <1>1, <1>4, <1>8, <2>1, <2>2, DtFieldsMoved
  <1>11. \A t \in DtTargets : dtResv'[t][d] <= dtResv[t][d]
    <2>1. \A t \in DtTargets : dtResv[t][d] \in Nat  BY <1>1, DtRecords
    <2> QED  BY <1>7, <2>1
  <1> QED  BY <1>4, <1>7, <1>8, <1>10, <1>11, DtQuiet

LEMMA DtTTLKeeps ==
  ASSUME DtInv, NEW d \in DtDrainers, DtTTL(d) PROVE DtInv'
  <1>1. DtTypeOK /\ DtFields  BY DEF DtInv
  <1>2. /\ dtResv \in [DtTargets -> [DtDrainers -> Nat]] /\ dtD \in [DtDrainers -> DtDrainer]
        /\ dtD[d].st = "dead" /\ UNCHANGED <<dtLoad, dtShown, dtSent, dtD>>
        /\ dtResv' = [t \in DtTargets |-> [dtResv[t] EXCEPT ![d] = 0]]
        BY <1>1 DEF DtTypeOK, DtTTL
  <1>3. ASSUME NEW t \in DtTargets
        PROVE  /\ dtResv'[t] \in [DtDrainers -> Nat] /\ dtResv'[t][d] = 0
               /\ \A e \in DtDrainers \ {d} : dtResv'[t][e] = dtResv[t][e]
        BY <1>2
  <1>4. DtMoves(d)
    <2>1. dtResv' \in [DtTargets -> [DtDrainers -> Nat]]  BY <1>2, <1>3
    <2> QED  BY <1>2, <1>3, <2>1 DEF DtMoves
  <1>5. DtFields'  BY <1>1, <1>2, <1>3, <1>4, DtFieldsMoved
  <1>6. \A t \in DtTargets : dtResv'[t][d] <= dtResv[t][d]
    <2>1. \A t \in DtTargets : dtResv[t][d] \in Nat  BY <1>1, DtRecords
    <2>2. \A n \in Nat : 0 <= n  OBVIOUS
    <2> QED  BY <1>3, <2>1, <2>2
  <1> QED  BY <1>2, <1>4, <1>5, <1>6, DtQuiet

\* What a step that moves d does to the headroom held on a target.
LEMMA DtHeldMoves ==
  ASSUME DtTypeOK, DtFields, NEW d \in DtDrainers, DtMoves(d), DtFields', NEW t \in DtTargets
  PROVE  /\ DtHeld(t) \in Nat /\ DtHeld(t)' \in Nat
         /\ DtHeld(t)' + dtResv[t][d] = DtHeld(t) + dtResv'[t][d]
  <1>1. dtResv[t] \in DtFieldsOf /\ DtHeld(t) = Cardinality(DtUnits(dtResv[t]))  BY DtCounts
  <1>2. dtResv'[t] \in DtFieldsOf
    <2>1. 0 \in 0..DtIncoming /\ DtIncoming \in 0..DtIncoming  BY DtNats
    <2>2. dtResv'[t] \in [DtDrainers -> Nat]  BY DEF DtMoves
    <2>3. \A e \in DtDrainers : dtResv'[t][e] \in {0, DtIncoming}  BY DEF DtFields
    <2> QED  BY <2>1, <2>2, <2>3 DEF DtFieldsOf
  <1>3. DtHeld(t)' = Cardinality(DtUnits(dtResv'[t]))  BY DEF DtHeld, DtPlaces, DtUnits
  <1>4. \A e \in DtDrainers \ {d} : dtResv'[t][e] = dtResv[t][e]  BY DEF DtMoves
  <1>5. Cardinality(DtUnits(dtResv'[t])) + dtResv[t][d] = Cardinality(DtUnits(dtResv[t])) + dtResv'[t][d]
        BY <1>1, <1>2, <1>4, DtSumChanges
  <1> QED  BY <1>1, <1>2, <1>3, <1>5, DtUnitsFinite

LEMMA DtReserveKeeps ==
  ASSUME DtInv, NEW d \in DtDrainers, NEW t \in DtTargets, DtReserve(d, t) PROVE DtInv'
  <1>1. DtTypeOK /\ DtFields /\ (DtUnforced => DtRoom)  BY DEF DtInv
  <1>2. dtD[d] \in DtDrainer  BY <1>1, DtRecords
  <1> DEFINE ok == reserveDrainTarget(d, t, DtCeiling - dtD[d].cands[t])
             r == [dtD[d] EXCEPT !.st = "reserved", !.at = t, !.ok = ok]
  <1>3. ok \in BOOLEAN  BY DEF reserveDrainTarget
  <1>4. /\ dtD' = [dtD EXCEPT ![d] = r] /\ dtD[d].st = "choosing"
        /\ dtResv' = IF ok THEN [dtResv EXCEPT ![t][d] = dtResv[t][d] + DtIncoming] ELSE dtResv
        /\ UNCHANGED <<dtLoad, dtShown, dtSent>>
        BY DEF DtReserve
  <1>5. ok => DtHeld(t) + DtIncoming <= DtCeiling - dtD[d].cands[t]  BY DEF reserveDrainTarget
  <1> HIDE DEF ok
  <1>6. /\ r \in DtDrainer /\ r.st = "reserved" /\ r.at = t /\ r.ok = ok
        /\ r.forced = dtD[d].forced /\ r.cands = dtD[d].cands
        BY <1>2, <1>3 DEF DtDrainer
  <1> HIDE DEF r
  <1>7. \A u \in DtTargets : dtResv[u][d] = 0  BY <1>1, <1>4 DEF DtFields
  <1>8. DtMoves(d) /\ dtD'[d] = r
    <2>1. UNCHANGED dtResv \/ \E u \in DtTargets, n \in Nat : dtResv' = [dtResv EXCEPT ![u][d] = n]
      <3>1. dtResv[t][d] + DtIncoming \in Nat  BY <1>7, DtNats
      <3> QED  BY <1>4, <3>1
    <2> QED  BY <1>1, <1>4, <1>6, <2>1, DtMoved
  <1>9. \A u \in DtTargets : dtResv'[u][d] = IF ok /\ u = t THEN DtIncoming ELSE 0
    <2>1. dtResv \in [DtTargets -> [DtDrainers -> Nat]]  BY <1>1 DEF DtTypeOK
    <2>2. CASE ok
      <3>1. dtResv' = [dtResv EXCEPT ![t] = [dtResv[t] EXCEPT ![d] = dtResv[t][d] + DtIncoming]]
            BY <1>4, <2>2
      <3>2. dtResv[t][d] + DtIncoming = DtIncoming  BY <1>7, DtNats
      <3> QED  BY <1>7, <2>1, <2>2, <3>1, <3>2
    <2>3. CASE ~ok  BY <1>4, <1>7, <2>3
    <2> QED  BY <2>2, <2>3
  <1>10. DtFields'
    <2>1. \A u \in DtTargets : dtResv'[u][d] \in {0, DtIncoming}  BY <1>9
    <2>2. \A u \in DtTargets : dtResv'[u][d] # 0 =>
             dtD'[d].at = u /\ dtD'[d].st \in {"reserved", "chosen", "sent", "dead"}
          BY <1>6, <1>8, <1>9
    <2>3. dtD'[d].at \in DtTargets /\ (dtD'[d].ok <=> dtResv'[dtD'[d].at][d] # 0)
          BY <1>3, <1>6, <1>8, <1>9, DtNats
    <2> QED  BY <1>1, <1>6, <1>8, <2>1, <2>2, <2>3, DtFieldsMoved
  <1>11. CASE ~ok
    <2>1. \A u \in DtTargets : dtResv'[u][d] <= dtResv[u][d]  BY <1>7, <1>9, <1>11
    <2> QED  BY <1>4, <1>6, <1>8, <1>10, <2>1, DtQuiet
  <1>12. CASE ok
    <2>1. DtTypeOK'  BY <1>1, <1>4, <1>8 DEF DtTypeOK, DtMoves
    <2>2. ASSUME DtUnforced', NEW u \in DtTargets
          PROVE  /\ dtLoad[u] <= dtShown[u] + Cardinality(DtAway(u)')
                 /\ \A e \in DtDrainers : dtD'[e].st \in {"choosing", "reserved"} =>
                      dtLoad[u] <= dtD'[e].cands[u] + Cardinality(DtAway(u)')
                 /\ dtLoad[u] + DtHeld(u)' <= DtCeiling + Cardinality(DtAway(u)')
      <3>1. DtRoom
        <4>1. \A e \in DtDrainers : ~dtD[e].forced  BY <1>6, <1>8, <2>2 DEF DtUnforced, DtMoves
        <4> QED  BY <1>1, <4>1 DEF DtUnforced
      <3>2. DtAway(u)' = DtAway(u)
        <4>1. \A e \in DtDrainers : (dtD'[e].st = "sent" \/ dtD[e].st = "sent") => dtD'[e] = dtD[e]
              BY <1>4, <1>6, <1>8 DEF DtMoves
        <4> QED  BY <4>1 DEF DtAway, DtSenders
      <3>3. /\ dtLoad[u] <= dtShown[u] + Cardinality(DtAway(u))
            /\ \A e \in DtDrainers : dtD[e].st \in {"choosing", "reserved"} =>
                 dtLoad[u] <= dtD[e].cands[u] + Cardinality(DtAway(u))
            /\ dtLoad[u] + DtHeld(u) <= DtCeiling + Cardinality(DtAway(u))
            BY <3>1 DEF DtRoom
      <3>4. \A e \in DtDrainers : dtD'[e].st \in {"choosing", "reserved"} =>
              dtLoad[u] <= dtD'[e].cands[u] + Cardinality(DtAway(u))
            BY <1>4, <1>6, <1>8, <3>3 DEF DtMoves
      <3>5. /\ DtHeld(u) \in Nat /\ DtHeld(u)' \in Nat
            /\ DtHeld(u)' + dtResv[u][d] = DtHeld(u) + dtResv'[u][d]
            BY <1>1, <1>8, <1>10, DtHeldMoves
      <3>6. /\ dtLoad[u] \in Nat /\ Cardinality(DtAway(u)) \in Nat /\ dtD[d].cands[u] \in Int
            BY <1>1, DtCounts, DtRecords
      <3>7. dtLoad[u] + DtHeld(u)' <= DtCeiling + Cardinality(DtAway(u))
        <4>1. CASE u = t
          <5>1. DtHeld(u)' + 0 = DtHeld(u) + DtIncoming  BY <1>7, <1>9, <1>12, <3>5, <4>1
          <5>2. DtHeld(u) + DtIncoming <= DtCeiling - dtD[d].cands[u]  BY <1>5, <1>12, <4>1
          <5>3. dtLoad[u] <= dtD[d].cands[u] + Cardinality(DtAway(u))  BY <1>4, <3>3
          <5> QED  BY <3>5, <3>6, <5>1, <5>2, <5>3, DtNats
        <4>2. CASE u # t
          <5>1. DtHeld(u)' + 0 = DtHeld(u) + 0  BY <1>7, <1>9, <3>5, <4>2
          <5>2. DtHeld(u)' = DtHeld(u)  BY <3>5, <5>1
          <5> QED  BY <3>3, <5>2
        <4> QED  BY <4>1, <4>2
      <3> QED  BY <3>2, <3>3, <3>4, <3>7
    <2>3. DtUnforced' => DtRoom'  BY <1>4, <2>2 DEF DtRoom
    <2> QED  BY <1>10, <2>1, <2>3 DEF DtInv
  <1> QED  BY <1>3, <1>11, <1>12

LEMMA DtPresenceKeeps ==
  ASSUME DtInv, NEW t \in DtTargets, DtPresence(t) PROVE DtInv'
  <1>1. DtTypeOK /\ DtFields /\ (DtUnforced => DtRoom)  BY DEF DtInv
  <1>2. UNCHANGED <<dtLoad, dtResv, dtSent, dtD>> /\ dtShown' = [dtShown EXCEPT ![t] = dtLoad[t]]
        BY DEF DtPresence
  <1>3. \A u \in DtTargets : dtShown'[u] = IF u = t THEN dtLoad[u] ELSE dtShown[u]
        BY <1>1, <1>2 DEF DtTypeOK
  <1>4. DtTypeOK'  BY <1>1, <1>2 DEF DtTypeOK
  <1>5. DtFields'  BY <1>1, <1>2 DEF DtFields
  <1>6. ASSUME DtUnforced' PROVE DtRoom'
    <2>1. DtRoom  BY <1>1, <1>2, <1>6 DEF DtUnforced
    <2>2. ASSUME NEW u \in DtTargets
          PROVE  /\ DtAway(u)' = DtAway(u) /\ DtHeld(u)' = DtHeld(u)
                 /\ dtLoad[u] <= dtShown'[u] + Cardinality(DtAway(u))
      <3>1. DtAway(u)' = DtAway(u) /\ DtHeld(u)' = DtHeld(u)
            BY <1>2 DEF DtAway, DtSenders, DtHeld, DtPlaces
      <3>2. dtLoad[u] \in Nat /\ Cardinality(DtAway(u)) \in Nat  BY <1>1, DtCounts, DtRecords
      <3>3. dtLoad[u] <= dtLoad[u] + Cardinality(DtAway(u))  BY <3>2
      <3> QED  BY <1>3, <2>1, <3>1, <3>3 DEF DtRoom
    <2> QED  BY <1>2, <2>1, <2>2 DEF DtRoom
  <1> QED  BY <1>4, <1>5, <1>6 DEF DtInv

LEMMA DtRetireKeeps ==
  ASSUME DtInv, NEW d \in DtDrainers, DtRetire(d) PROVE DtInv'
  <1>1. DtTypeOK /\ DtFields /\ (DtUnforced => DtRoom)  BY DEF DtInv
  <1>2. dtD[d] \in DtDrainer  BY <1>1, DtRecords
  <1> DEFINE at == dtD[d].at
             r == [dtD[d] EXCEPT !.st = "done"]
  <1>3. /\ dtD' = [dtD EXCEPT ![d] = r] /\ dtD[d].st = "sent" /\ dtShown[at] = dtLoad[at]
        /\ \A e \in DtDrainers : dtD[e].st \notin {"choosing", "reserved"}
        /\ dtResv' = [dtResv EXCEPT ![at][d] = 0] /\ UNCHANGED <<dtLoad, dtShown, dtSent>>
        BY DEF DtRetire, lapses
  <1>4. r \in DtDrainer /\ r.st = "done" /\ r.forced = dtD[d].forced  BY <1>2 DEF DtDrainer
  <1> HIDE DEF r
  <1>5. /\ at \in DtTargets /\ (dtD[d].ok <=> dtResv[at][d] # 0) /\ (dtD[d].ok \/ dtD[d].forced)
        /\ \A t \in DtTargets : dtResv[t][d] \in {0, DtIncoming} /\ (dtResv[t][d] # 0 => at = t)
        BY <1>1, <1>3 DEF DtFields
  <1>6. DtMoves(d) /\ dtD'[d] = r
    <2>1. \E t \in DtTargets, n \in Nat : dtResv' = [dtResv EXCEPT ![t][d] = n]
      <3>1. 0 \in Nat  OBVIOUS
      <3> QED  BY <1>3, <1>5, <3>1
    <2> QED  BY <1>1, <1>3, <1>4, <2>1, DtMoved
  <1>7. \A t \in DtTargets : dtResv'[t][d] = 0
    <2>1. /\ dtD[d].at \in DtTargets
          /\ dtResv' = [dtResv EXCEPT ![dtD[d].at][d] = 0]
          BY <1>3, <1>5
    <2> HIDE DEF at
    <2> QED  BY <1>1, <2>1, DtGivenBack
  <1>8. DtFields'  BY <1>1, <1>4, <1>6, <1>7, DtFieldsMoved
  <1>9. DtTypeOK'  BY <1>1, <1>3, <1>6 DEF DtTypeOK, DtMoves
  <1>10. ASSUME DtUnforced', NEW t \in DtTargets
         PROVE  /\ dtLoad[t] <= dtShown[t] + Cardinality(DtAway(t)')
                /\ dtLoad[t] + DtHeld(t)' <= DtCeiling + Cardinality(DtAway(t)')
    <2>1. DtUnforced /\ ~dtD[d].forced
      <3>1. \A e \in DtDrainers : ~dtD[e].forced  BY <1>4, <1>6, <1>10 DEF DtUnforced, DtMoves
      <3> QED  BY <3>1 DEF DtUnforced
    <2>2. /\ dtLoad[t] <= dtShown[t] + Cardinality(DtAway(t))
          /\ dtLoad[t] + DtHeld(t) <= DtCeiling + Cardinality(DtAway(t))
          BY <1>1, <2>1 DEF DtRoom
    <2>3. /\ DtHeld(t) \in Nat /\ DtHeld(t)' \in Nat
          /\ DtHeld(t)' + dtResv[t][d] = DtHeld(t) + dtResv'[t][d]
          BY <1>1, <1>6, <1>8, DtHeldMoves
    <2>4. dtLoad[t] \in Nat /\ dtShown[t] \in Nat /\ Cardinality(DtAway(t)) \in Nat
          BY <1>1, DtCounts, DtRecords
    <2>5. CASE t = at
      <3> DEFINE S == DtSenders(t) \ {d}
      <3>1. DtSenders(t) = S \cup {d} /\ S \subseteq DtDrainers  BY <1>3, <2>5 DEF DtSenders
      <3>2. DtSenders(t)' = S
            BY <1>4, <1>6 DEF DtSenders, DtMoves
      <3>3. d \in DtDrainers \ S  OBVIOUS
      <3> HIDE DEF S
      <3>4. /\ Cardinality((S \cup {d}) \X (1..DtIncoming)) = Cardinality(S \X (1..DtIncoming)) + DtIncoming
            /\ Cardinality(S \X (1..DtIncoming)) \in Nat
            BY <3>1, <3>3, DtAwayGrows
      <3>5. DtAway(t)' = S \X (1..DtIncoming)  BY <3>2 DEF DtAway
      <3>6. /\ Cardinality(DtAway(t)) = Cardinality(DtAway(t)') + DtIncoming
            /\ Cardinality(DtAway(t)') \in Nat
            BY <3>1, <3>4, <3>5 DEF DtAway
      <3>7. dtResv[t][d] = DtIncoming  BY <1>5, <2>1, <2>5
      <3>8. DtHeld(t)' + DtIncoming = DtHeld(t) + 0  BY <1>7, <2>3, <3>7
      <3>9. dtLoad[t] + DtHeld(t)' <= DtCeiling + Cardinality(DtAway(t)')
            BY <2>2, <2>3, <2>4, <3>6, <3>8, DtNats
      <3>10. dtLoad[t] <= dtShown[t] + Cardinality(DtAway(t)')  BY <1>3, <2>4, <2>5, <3>6
      <3> QED  BY <3>9, <3>10
    <2>6. CASE t # at
      <3>1. DtSenders(t)' = DtSenders(t)  BY <1>4, <1>6, <2>6 DEF DtSenders, DtMoves
      <3>2. DtAway(t)' = DtAway(t)  BY <3>1 DEF DtAway
      <3>3. dtResv[t][d] = 0  BY <1>5, <2>6
      <3>4. DtHeld(t)' + 0 = DtHeld(t) + 0  BY <1>7, <2>3, <3>3
      <3>5. DtHeld(t)' = DtHeld(t)  BY <2>3, <3>4
      <3> QED  BY <2>2, <3>2, <3>5
    <2> QED  BY <2>5, <2>6
  <1>11. \A e \in DtDrainers : dtD'[e].st \notin {"choosing", "reserved"}
         BY <1>3, <1>4, <1>6 DEF DtMoves
  <1>12. DtUnforced' => DtRoom'  BY <1>3, <1>10, <1>11 DEF DtRoom
  <1> QED  BY <1>8, <1>9, <1>12 DEF DtInv

LEMMA DtFailKeeps ==
  ASSUME DtInv, NEW d \in DtDrainers, DtSend(d, FALSE) PROVE DtInv'
  <1>1. DtTypeOK /\ DtFields  BY DEF DtInv
  <1>2. dtD[d] \in DtDrainer  BY <1>1, DtRecords
  <1> DEFINE r == [dtD[d] EXCEPT !.st = "done"]
  <1>3. /\ dtD' = [dtD EXCEPT ![d] = r] /\ dtD[d].st = "chosen"
        /\ dtResv' = [dtResv EXCEPT ![dtD[d].at][d] = 0] /\ UNCHANGED <<dtLoad, dtShown, dtSent>>
        BY DEF DtSend
  <1>4. r \in DtDrainer /\ r.st = "done" /\ r.forced = dtD[d].forced  BY <1>2 DEF DtDrainer
  <1> HIDE DEF r
  <1>5. dtD[d].at \in DtTargets  BY <1>1, <1>3 DEF DtFields
  <1>6. DtMoves(d) /\ dtD'[d] = r
    <2>1. \E t \in DtTargets, n \in Nat : dtResv' = [dtResv EXCEPT ![t][d] = n]
      <3>1. 0 \in Nat  OBVIOUS
      <3> QED  BY <1>3, <1>5, <3>1
    <2> QED  BY <1>1, <1>3, <1>4, <2>1, DtMoved
  <1>7. \A t \in DtTargets : dtResv'[t][d] = 0  BY <1>1, <1>3, <1>5, DtGivenBack
  <1>8. DtFields'  BY <1>1, <1>4, <1>6, <1>7, DtFieldsMoved
  <1>9. \A t \in DtTargets : dtResv'[t][d] <= dtResv[t][d]
    <2>1. \A t \in DtTargets : dtResv[t][d] \in Nat  BY <1>1, DtRecords
    <2>2. \A n \in Nat : 0 <= n  OBVIOUS
    <2> QED  BY <1>7, <2>1, <2>2
  <1> QED  BY <1>3, <1>4, <1>6, <1>8, <1>9, DtQuiet

LEMMA DtSendKeeps ==
  ASSUME DtInv, NEW d \in DtDrainers, DtSend(d, TRUE) PROVE DtInv'
  <1>1. DtTypeOK /\ DtFields /\ (DtUnforced => DtRoom)  BY DEF DtInv
  <1>2. dtD[d] \in DtDrainer  BY <1>1, DtRecords
  <1> DEFINE at == dtD[d].at
             r == [dtD[d] EXCEPT !.st = "sent"]
  <1>3. /\ dtD' = [dtD EXCEPT ![d] = r] /\ dtD[d].st = "chosen"
        /\ dtLoad' = [dtLoad EXCEPT ![at] = dtLoad[at] + DtIncoming]
        /\ dtSent' = [dtSent EXCEPT ![at] = dtSent[at] \cup {d}] /\ UNCHANGED <<dtResv, dtShown>>
        BY DEF DtSend
  <1>4. /\ r \in DtDrainer /\ r.st = "sent" /\ r.forced = dtD[d].forced /\ r.at = at
        /\ r.ok = dtD[d].ok
        BY <1>2 DEF DtDrainer
  <1> HIDE DEF r
  <1>5. /\ at \in DtTargets /\ (dtD[d].ok <=> dtResv[at][d] # 0) /\ (dtD[d].ok \/ dtD[d].forced)
        /\ \A t \in DtTargets : dtResv[t][d] \in {0, DtIncoming} /\ (dtResv[t][d] # 0 => at = t)
        BY <1>1, <1>3 DEF DtFields
  <1>6. DtMoves(d) /\ dtD'[d] = r  BY <1>1, <1>3, <1>4, DtMoved
  <1>7. DtFields'
    <2>1. \A t \in DtTargets : dtResv'[t][d] \in {0, DtIncoming}  BY <1>3, <1>5
    <2>2. \A t \in DtTargets : dtResv'[t][d] # 0 =>
             dtD'[d].at = t /\ dtD'[d].st \in {"reserved", "chosen", "sent", "dead"}
          BY <1>3, <1>4, <1>5, <1>6
    <2>3. dtD'[d].at \in DtTargets /\ (dtD'[d].ok <=> dtResv'[dtD'[d].at][d] # 0)
          BY <1>3, <1>4, <1>5, <1>6
    <2>4. dtD'[d].ok \/ dtD'[d].forced  BY <1>4, <1>5, <1>6
    <2> QED  BY <1>1, <1>4, <1>6, <2>1, <2>2, <2>3, <2>4, DtFieldsMoved
  <1>8. \A t \in DtTargets : dtLoad'[t] = IF t = at THEN dtLoad[t] + DtIncoming ELSE dtLoad[t]
        BY <1>1, <1>3 DEF DtTypeOK
  <1>9. DtTypeOK'
    <2>1. dtLoad' \in [DtTargets -> Nat]
      <3>1. \A t \in DtTargets : dtLoad'[t] \in Nat  BY <1>1, <1>8, DtRecords, DtNats
      <3> QED  BY <1>1, <1>3, <3>1 DEF DtTypeOK
    <2>2. dtSent' \in [DtTargets -> SUBSET DtDrainers]  BY <1>1, <1>3 DEF DtTypeOK
    <2> QED  BY <1>1, <1>3, <1>6, <2>1, <2>2 DEF DtTypeOK, DtMoves
  <1>10. ASSUME DtUnforced', NEW t \in DtTargets
         PROVE  /\ dtLoad'[t] <= dtShown[t] + Cardinality(DtAway(t)')
                /\ \A e \in DtDrainers : dtD'[e].st \in {"choosing", "reserved"} =>
                     dtLoad'[t] <= dtD'[e].cands[t] + Cardinality(DtAway(t)')
                /\ dtLoad'[t] + DtHeld(t)' <= DtCeiling + Cardinality(DtAway(t)')
    <2>1. DtUnforced
      <3>1. \A e \in DtDrainers : ~dtD[e].forced  BY <1>4, <1>6, <1>10 DEF DtUnforced, DtMoves
      <3> QED  BY <3>1 DEF DtUnforced
    <2>2. /\ dtLoad[t] <= dtShown[t] + Cardinality(DtAway(t))
          /\ \A e \in DtDrainers : dtD[e].st \in {"choosing", "reserved"} =>
               dtLoad[t] <= dtD[e].cands[t] + Cardinality(DtAway(t))
          /\ dtLoad[t] + DtHeld(t) <= DtCeiling + Cardinality(DtAway(t))
          BY <1>1, <2>1 DEF DtRoom
    <2>3. \A e \in DtDrainers : dtD'[e].st \in {"choosing", "reserved"} =>
            dtLoad[t] <= dtD'[e].cands[t] + Cardinality(DtAway(t)) /\ dtD'[e].cands[t] \in Int
      <3>1. \A e \in DtDrainers : dtD[e].cands[t] \in Int  BY <1>1, DtRecords
      <3> QED  BY <1>4, <1>6, <2>2, <3>1 DEF DtMoves
    <2>4. DtHeld(t)' = DtHeld(t)  BY <1>3 DEF DtHeld, DtPlaces
    <2>5. /\ dtLoad[t] \in Nat /\ dtShown[t] \in Nat /\ Cardinality(DtAway(t)) \in Nat
          /\ DtHeld(t) \in Nat
          BY <1>1, DtCounts, DtRecords
    <2>6. CASE t = at
      <3> DEFINE S == DtSenders(t)
      <3>1. d \in DtDrainers \ S /\ S \subseteq DtDrainers  BY <1>3 DEF DtSenders
      <3>2. DtSenders(t)' = S \cup {d}
            BY <1>4, <1>6, <2>6 DEF DtSenders, DtMoves
      <3> HIDE DEF S
      <3>3. Cardinality((S \cup {d}) \X (1..DtIncoming)) = Cardinality(S \X (1..DtIncoming)) + DtIncoming
            BY <3>1, DtAwayGrows
      <3>4. DtAway(t)' = (S \cup {d}) \X (1..DtIncoming)  BY <3>2 DEF DtAway
      <3>5. Cardinality(DtAway(t)') = Cardinality(DtAway(t)) + DtIncoming
            BY <3>3, <3>4 DEF DtAway, S
      <3>6. dtLoad'[t] = dtLoad[t] + DtIncoming  BY <1>8, <2>6
      <3>7. dtLoad'[t] <= dtShown[t] + Cardinality(DtAway(t)')
            BY <2>2, <2>5, <3>5, <3>6, DtNats
      <3>8. ASSUME NEW e \in DtDrainers, dtD'[e].st \in {"choosing", "reserved"}
            PROVE  dtLoad'[t] <= dtD'[e].cands[t] + Cardinality(DtAway(t)')
            BY <2>3, <2>5, <3>5, <3>6, <3>8, DtNats
      <3>9. dtLoad'[t] + DtHeld(t)' <= DtCeiling + Cardinality(DtAway(t)')
            BY <2>2, <2>4, <2>5, <3>5, <3>6, DtNats
      <3> QED  BY <3>7, <3>8, <3>9
    <2>7. CASE t # at
      <3>1. DtSenders(t)' = DtSenders(t)  BY <1>3, <1>4, <1>6, <2>7 DEF DtSenders, DtMoves
      <3>2. DtAway(t)' = DtAway(t) /\ dtLoad'[t] = dtLoad[t]  BY <1>8, <2>7, <3>1 DEF DtAway
      <3> QED  BY <2>2, <2>3, <2>4, <3>2
    <2> QED  BY <2>6, <2>7
  <1>11. DtUnforced' => DtRoom'  BY <1>3, <1>10 DEF DtRoom
  <1> QED  BY <1>7, <1>9, <1>11 DEF DtInv

LEMMA DtNextKeeps == DtInv /\ [DtNext]_dtVars => DtInv'
  <1> SUFFICES ASSUME DtInv, [DtNext]_dtVars PROVE DtInv'  OBVIOUS
  <1>1. CASE UNCHANGED dtVars
    <2>1. UNCHANGED <<dtLoad, dtShown, dtResv, dtSent, dtD>>  BY <1>1 DEF dtVars
    <2>2. \A t \in DtTargets : (DtAway(t)' = DtAway(t)) /\ (DtHeld(t)' = DtHeld(t))
          BY <2>1 DEF DtAway, DtSenders, DtHeld, DtPlaces
    <2>3. DtTypeOK' /\ DtFields'  BY <2>1 DEF DtInv, DtTypeOK, DtFields
    <2>4. DtUnforced' => DtRoom'  BY <2>1, <2>2 DEF DtInv, DtUnforced, DtRoom
    <2> QED  BY <2>3, <2>4 DEF DtInv
  <1>2. ASSUME NEW t \in DtTargets, DtPresence(t) PROVE DtInv'  BY <1>2, DtPresenceKeeps
  <1>3. ASSUME NEW d \in DtDrainers, DtTake(d) PROVE DtInv'  BY <1>3, DtTakeKeeps
  <1>4. ASSUME NEW d \in DtDrainers, DtDrop(d) PROVE DtInv'  BY <1>4, DtDropKeeps
  <1>5. ASSUME NEW d \in DtDrainers, DtRetire(d) PROVE DtInv'  BY <1>5, DtRetireKeeps
  <1>6. ASSUME NEW d \in DtDrainers, DtDie(d) PROVE DtInv'  BY <1>6, DtDieKeeps
  <1>7. ASSUME NEW d \in DtDrainers, DtTTL(d) PROVE DtInv'  BY <1>7, DtTTLKeeps
  <1>8. ASSUME NEW d \in DtDrainers, NEW b \in BOOLEAN, DtList(d, b) PROVE DtInv'
        BY <1>8, DtListKeeps
  <1>9. ASSUME NEW d \in DtDrainers, NEW b \in BOOLEAN, DtSend(d, b) PROVE DtInv'
    <2>1. CASE b = TRUE  BY <1>9, <2>1, DtSendKeeps
    <2>2. CASE b = FALSE  BY <1>9, <2>2, DtFailKeeps
    <2> QED  BY <2>1, <2>2
  <1>10. ASSUME NEW d \in DtDrainers, NEW t \in DtTargets, DtReserve(d, t) PROVE DtInv'
         BY <1>10, DtReserveKeeps
  <1> QED  BY <1>1, <1>2, <1>3, <1>4, <1>5, <1>6, <1>7, <1>8, <1>9, <1>10 DEF DtNext

\* Shards that drain at once share a target's ceiling: unless one knowingly goes over, no target
\* is loaded past it, though each chooses on counts a heartbeat old, and a drain that is over
\* leaves no headroom held (ChooseDrainTarget and the reservation script of redis.go).
THEOREM TargetsAreSafe == DtSpec => []TargetsSafe
  <1>1. DtInit => DtInv  BY DtStart
  <1>2. DtInv /\ [DtNext]_dtVars => DtInv'  BY DtNextKeeps
  <1>3. DtInv => TargetsSafe  BY DtInvSafe
  <1> QED  BY <1>1, <1>2, <1>3, PTL DEF DtSpec
=============================================================================
