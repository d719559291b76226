---------------------------- MODULE InputProofs ----------------------------
(* Machine-checked proof that, for any shards, sessions, lines, streams and   *)
(* moves, the lines of a connection run in order and none twice, and that a   *)
(* connection which was only ever redirected has run all it typed at rest     *)
(* (InputReplay).                                                            *)
EXTENDS InputReplay, SequenceTheorems, FiniteSetTheorems, WellFoundedInduction, TLAPS

-----------------------------------------------------------------------------
(* The inductive invariant.  The lines of a session are cut into those that   *)
(* ran (at or below the fence), those on the bound stream, in order, and      *)
(* those in the gate's buffer.                                                *)

IrStream == [g : 0..IrSessions, s : IrShards \cup {IrNone}, resume : 0..(IrLines + 1), token : BOOLEAN,
             bound : {"new", "bound", "refused"}, q : Seq(IrSeqs)]
IrFrame == [kind : {"output", "redirect", "refused", "kick"}, ack : 0..IrLines, to : IrShards]
IrShape ==
  /\ irGate \in [IrGates -> IrSession]
  /\ irUp \in [IrStr -> IrStream]
  /\ irDown \in [IrStr -> Seq(IrFrame)]
  /\ irChar \in [at : IrShards \cup {IrNone}, frozen : BOOLEAN, applied : 0..IrLines,
                 out : 0..IrStreams, moves : Nat]
  /\ irPend \in [at : IrShards \cup {IrNone}, applied : 0..IrLines]
  /\ irLog \in Seq(IrGates \X IrSeqs)
  /\ irPast \subseteq {"refused", "aborted", "taken", "late", "muted"}

\* Streams are opened in order.
IrPrefix == \E m \in 0..IrStreams : Used = 1..m

IrUnused == \A k \in IrStr : irUp[k].g = 0 => irUp[k].q = <<>> /\ irUp[k].bound = "new" /\ irDown[k] = <<>>
IrResume ==
  \A k \in IrStr :
    /\ irUp[k].g # 0 => irUp[k].resume # 0 /\ irUp[k].s # IrNone
    /\ irUp[k].bound = "refused" => "refused" \in irPast

Streaming == {"wait", "replay", "live"}
Bound(k) == irUp[k].g # 0 /\ irUp[k].bound = "bound"
Newest(k) == \A j \in IrStr : Bound(j) /\ irUp[j].g = irUp[k].g => j <= k
Cur == irUp[irChar.out].g
IrOf(g) == {k \in IrStr : irUp[k].g = g}

\* A gate's session: where it is, and what it may hold.
GateHas(g) ==
  LET G == irGate[g]
  IN /\ G.st = "off" => G.at = 0
     /\ G.at = 0 => G.st \in {"off", "dial", "done"} /\ G.next = 0 /\ G.held = 0 /\ ~G.token
     /\ G.at # 0 => irUp[G.at].g = g
     /\ \A k \in IrOf(g) : k <= G.at
     /\ G.st \in Streaming => irUp[G.at].token = G.token
     /\ G.held # 0 => G.st \in Streaming /\ G.held = G.next /\ ~G.frozen
     /\ G.st = "replay" => G.token /\ irUp[G.at].bound = "bound" /\ G.sent <= G.next
     /\ G.st = "live" => ~G.frozen /\ irUp[G.at].bound = "bound"
     /\ G.st \in {"wait", "replay"} => G.frozen = G.token
     /\ ~G.token => ~G.frozen
     /\ G.buf \subseteq 1..G.next

\* A stream that is not attached yet is the gate's last, and has carried nothing it replays.
StreamHas(g, k) ==
  LET G == irGate[g]
  IN /\ irUp[k].bound = "new" => k = G.at /\ G.st \in {"wait", "done"} /\ irDown[k] = <<>> /\ irUp[k].token = G.token
     /\ irUp[k].token => G.token
     /\ irUp[k].token /\ (irUp[k].bound = "new" \/ (k = G.at /\ G.st = "wait")) => irUp[k].q = <<>>
     /\ \A i \in DOMAIN irDown[k] : irDown[k][i].kind = "refused" <=> irUp[k].bound = "refused"
     /\ irUp[k].bound = "bound" /\ ~G.token => k = G.at /\ G.st \in Streaming \cup {"done"}

\* Its lines are in the order they were typed.
StreamSent(g, k) ==
  LET G == irGate[g]
      q == irUp[k].q
  IN /\ \A i \in DOMAIN q : q[i] <= G.next /\ (G.held # 0 => q[i] < G.held)
     /\ \A i, j \in DOMAIN q : i < j => q[i] < q[j]
     /\ G.at = k /\ G.st = "replay" => \A i \in DOMAIN q : q[i] <= G.sent

\* A token is on its way to one connection only: the character's.
TokenSent(g) ==
  \A k \in IrOf(g) : irUp[k].token /\ irUp[k].bound = "new" => irPend.at = irUp[k].s /\ g = Cur
TokenHeld(g) ==
  irGate[g].st = "dial" /\ irGate[g].token =>
    irPend.at = irGate[g].to /\ irPend.at # IrNone /\ g = Cur /\ irGate[g].at = irChar.out
TokenComing(g) ==
  irGate[g].st \in Streaming => \A i \in DOMAIN irDown[irGate[g].at] :
    irDown[irGate[g].at][i].kind = "redirect" =>
      irPend.at = irDown[irGate[g].at][i].to /\ irPend.at # IrNone /\ irGate[g].at = irChar.out

\* What ran was typed, on a stream that was bound; the fence covers the character's own.
RanOf(g) ==
  \A i \in DOMAIN irLog : irLog[i][1] = g =>
    /\ irLog[i][2] <= irGate[g].next
    /\ irGate[g].held # 0 => irLog[i][2] < irGate[g].held
    /\ \E k \in IrOf(g) : irUp[k].bound = "bound"
    /\ g = Cur => irLog[i][2] <= irChar.applied

\* What the newest stream of a connection carries, or a replay will, has not run.
FreshSent(g) ==
  "late" \notin irPast =>
    \A k \in IrOf(g) : Bound(k) /\ Newest(k) =>
      \A i \in DOMAIN irLog, j \in DOMAIN irUp[k].q :
        irLog[i][1] = g => irLog[i][2] < irUp[k].q[j]
FreshReplay(g) ==
  "late" \notin irPast /\ irGate[g].st = "replay" =>
    \A i \in DOMAIN irLog : irLog[i][1] = g =>
      \A n \in irGate[g].buf : n > irGate[g].sent => irLog[i][2] < n
FreshAck(g) ==
  "late" \notin irPast /\ irGate[g].st = "wait" /\ irGate[g].token /\ irUp[irGate[g].at].bound = "bound" =>
    /\ irDown[irGate[g].at] # <<>>
    /\ \A i \in DOMAIN irLog : irLog[i][1] = g => irLog[i][2] <= irDown[irGate[g].at][1].ack

\* While a connection was only ever redirected: the lines between the fence and the
\* newest are on the bound stream or still in the buffer, without a gap.
Calm == irPast \subseteq {"muted"}
End(g) ==
  LET G == irGate[g]
  IN IF (G.st = "wait" /\ G.token) \/ (G.st = "replay" /\ G.sent = 0) THEN irChar.applied
     ELSE IF G.st = "replay" THEN G.sent
     ELSE IF G.held # 0 THEN G.held - 1 ELSE G.next
Gapless(q, from, to) == Len(q) = to - from /\ \A i \in 1..Len(q) : q[i] = from + i
CalmKept(g) ==
  Calm => \A n \in 1..irGate[g].next :
            n \in irGate[g].buf \/ (irChar.out # 0 /\ g = Cur /\ n <= irChar.applied)
CalmSeq(g) ==
  Calm => \A k \in IrOf(g) : \A i \in DOMAIN irUp[k].q :
            /\ irUp[k].bound = "new" => irUp[k].q[i] = i
            /\ k = irChar.out /\ ~irChar.frozen => irUp[k].q[i] = irChar.applied + i
CalmNew(g) ==
  Calm /\ irGate[g].st = "wait" /\ ~irGate[g].token /\ irUp[irGate[g].at].bound = "new" =>
    Gapless(irUp[irGate[g].at].q, 0, End(g))
CalmBound(g) ==
  Calm /\ irGate[g].st \in Streaming /\ irGate[g].at = irChar.out /\ ~irChar.frozen =>
    End(g) >= irChar.applied /\ Gapless(irUp[irGate[g].at].q, irChar.applied, End(g))

GateInv(g) ==
  /\ GateHas(g) /\ \A k \in IrOf(g) : StreamHas(g, k) /\ StreamSent(g, k)
  /\ TokenSent(g) /\ TokenHeld(g) /\ TokenComing(g)
  /\ RanOf(g) /\ FreshSent(g) /\ FreshReplay(g) /\ FreshAck(g)
  /\ CalmKept(g) /\ CalmSeq(g) /\ CalmNew(g) /\ CalmBound(g)

\* The character answers to a bound stream, its connection's newest.
IrHeld ==
  /\ irChar.out = 0 <=> irChar.at = IrNone
  /\ irChar.out = 0 => ~irChar.frozen /\ irChar.applied = 0 /\ irLog = <<>> /\ irPend.at = IrNone /\ \A k \in IrStr : ~Bound(k)
  /\ irChar.out # 0 => Bound(irChar.out) /\ Newest(irChar.out) /\ irUp[irChar.out].s = irChar.at
  /\ "taken" \notin irPast => \A k \in IrStr : Bound(k) => irUp[k].g = Cur
  /\ irPend.at # IrNone => irChar.frozen /\ irPend.applied = irChar.applied /\ irPend.at # irChar.at

\* Older streams of a connection are drained where the character is or will be.
IrDrained ==
  "late" \notin irPast =>
    \A k \in IrStr : Bound(k) /\ irUp[k].s \in {irChar.at, irPend.at} /\ ~Newest(k) => irUp[k].q = <<>>

IrOrder == \A g \in IrGates : ({"taken", "late"} \subseteq irPast => irChar.out # 0 /\ Cur = g) => InOrder(g)

CalmRan ==
  Calm /\ irChar.out # 0 => \A n \in 1..irChar.applied : \E i \in DOMAIN irLog : irLog[i] = <<Cur, n>>
CalmAcks ==
  Calm => \A k \in IrStr : \A i \in DOMAIN irDown[k] : irDown[k][i].ack <= irChar.applied

IrInv ==
  /\ IrShape /\ IrPrefix /\ IrUnused /\ IrResume
  /\ \A g \in IrGates : GateInv(g)
  /\ IrHeld /\ IrDrained /\ IrOrder /\ CalmRan /\ CalmAcks

-----------------------------------------------------------------------------
(* Helpers, the steps of a gate, and the begin and end of a move.             *)

\* A session or stream number that is not zero names one.
LEMMA IrNums == /\ \A x \in 0..IrSessions : x # 0 <=> x \in IrGates
                /\ \A x \in 0..IrStreams : x # 0 <=> x \in IrStr
                /\ 0 \notin IrGates /\ 0 \notin IrStr
  BY IrAssumption DEF IrGates, IrStr

\* What the invariant says of numbers: which streams, gates and shards exist.
LEMMA IrFacts ==
  ASSUME IrInv
  PROVE  /\ irGate \in [IrGates -> IrSession] /\ irUp \in [IrStr -> IrStream] /\ irDown \in [IrStr -> Seq(IrFrame)]
         /\ \A g \in IrGates : \A k \in IrOf(g) : k \in IrStr /\ irUp[k].g = g
         /\ \A k \in IrStr : irUp[k].g # 0 => irUp[k].g \in IrGates /\ k \in IrOf(irUp[k].g)
         /\ \A g \in IrGates : irGate[g].at # 0 => irGate[g].at \in IrOf(g)
         /\ \A g \in IrGates : irGate[g].st \in Streaming => irGate[g].at # 0
         /\ irChar.out # 0 => irChar.out \in IrStr /\ Cur \in IrGates /\ irChar.out \in IrOf(Cur)
         /\ irPend.at # IrNone => irChar.out # 0
  <1>1. irGate \in [IrGates -> IrSession] /\ irUp \in [IrStr -> IrStream] /\ irDown \in [IrStr -> Seq(IrFrame)]
        /\ irChar.out \in 0..IrStreams
    BY DEF IrInv, IrShape
  <1>2. \A k \in IrStr : irUp[k].g \in 0..IrSessions
    BY <1>1 DEF IrStream
  <1>3. \A g \in IrGates : irGate[g].at \in 0..IrStreams
    BY <1>1 DEF IrSession
  <1>4. \A g \in IrGates : \A k \in IrOf(g) : k \in IrStr /\ irUp[k].g = g
    BY DEF IrOf
  <1>5. \A k \in IrStr : irUp[k].g # 0 => irUp[k].g \in IrGates /\ k \in IrOf(irUp[k].g)
    BY <1>2, IrNums DEF IrOf
  <1>6. \A g \in IrGates : irGate[g].at # 0 => irGate[g].at \in IrOf(g)
    BY <1>3, IrNums DEF IrOf, IrInv, GateInv, GateHas
  <1>7. \A g \in IrGates : irGate[g].st \in Streaming => irGate[g].at # 0
    BY DEF IrInv, GateInv, GateHas, Streaming
  <1>8. irChar.out # 0 => irChar.out \in IrStr /\ Cur \in IrGates /\ irChar.out \in IrOf(Cur)
    BY <1>1, <1>2, <1>5, IrNums DEF IrInv, IrHeld, Bound, Cur, IrOf
  <1>9. irPend.at # IrNone => irChar.out # 0
    BY DEF IrInv, IrHeld
  <1> QED
    BY <1>1, <1>4, <1>5, <1>6, <1>7, <1>8, <1>9

\* A queue that keeps its place under the fence, or is cleared, keeps CalmSeq.
LEMMA CalmSeqKept ==
  ASSUME NEW g, CalmSeq(g), IrOf(g)' = IrOf(g), irChar' = irChar, Calm' => Calm,
         \A k \in IrOf(g) : irUp'[k] = irUp[k]
  PROVE  CalmSeq(g)'
  BY DEF CalmSeq

\* A muted line does not end a calm history.
LEMMA CalmNow ==
  ASSUME irPast' \in {irPast, irPast \cup {"muted"}}
  PROVE  /\ Calm' <=> Calm
         /\ \A x \in {"late", "taken", "refused"} : x \in irPast' <=> x \in irPast
  BY DEF Calm

\* A step that changes another session leaves the part of session h as it was.
LEMMA IrOthers ==
  ASSUME IrInv, NEW h \in IrGates, irGate'[h] = irGate[h],
         UNCHANGED <<irChar, irPend, irLog>>, irPast \subseteq irPast',
         IrOf(h)' = IrOf(h), \A k \in IrOf(h) : irUp'[k] = irUp[k] /\ irDown'[k] = irDown[k],
         irChar.out # 0 => Cur' = Cur
  PROVE  GateInv(h)'
  <1> DEFINE G == irGate[h]
  <1>1. GateInv(h)
    BY DEF IrInv
  <1>2. /\ G.at # 0 => irUp'[G.at] = irUp[G.at] /\ irDown'[G.at] = irDown[G.at]
        /\ G.st \in Streaming => G.at # 0
    BY IrFacts
  <1>0. (Calm' => Calm) /\ ("late" \in irPast => "late" \in irPast')
    BY DEF Calm
  <1>3. irPend.at # IrNone => irChar.out # 0
    BY IrFacts
  <1>4. G.st \in {"wait", "replay", "live"} => G.at # 0
    BY <1>2 DEF Streaming
  <1>5. GateHas(h)'
    BY <1>1, <1>2, <1>4 DEF GateInv, GateHas
  <1>6. (\A k \in IrOf(h) : StreamHas(h, k) /\ StreamSent(h, k))'
    <2> SUFFICES ASSUME NEW k \in IrOf(h) PROVE StreamHas(h, k)' /\ StreamSent(h, k)'
      OBVIOUS
    <2>1. StreamHas(h, k) /\ StreamSent(h, k)
      BY <1>1 DEF GateInv
    <2>2. irUp'[k] = irUp[k] /\ irDown'[k] = irDown[k]
      OBVIOUS
    <2> QED
      BY <2>1, <2>2 DEF StreamHas, StreamSent
  <1>7. TokenSent(h)' /\ TokenHeld(h)'
    <2>1. TokenSent(h)'
      <3> SUFFICES ASSUME NEW k \in IrOf(h), irUp[k].token, irUp[k].bound = "new"
                   PROVE (irPend.at = irUp[k].s /\ h = Cur)'
        BY DEF TokenSent
      <3>1. irPend.at = irUp[k].s /\ h = Cur
        BY <1>1 DEF GateInv, TokenSent
      <3>2. k \in IrStr /\ irUp[k].g # 0
        BY IrFacts, IrNums
      <3>3. irUp[k].s # IrNone
        BY <3>2 DEF IrInv, IrResume
      <3> QED
        BY <3>1, <3>3, <1>3
    <2>2. TokenHeld(h)'
      BY <1>1, <1>3 DEF GateInv, TokenHeld
    <2> QED
      BY <2>1, <2>2
  <1>8. TokenComing(h)'
    BY <1>1, <1>2 DEF GateInv, TokenComing
  <1>9. RanOf(h)'
    <2>1. DOMAIN irLog # {} => irChar.out # 0
      BY DEF IrInv, IrHeld
    <2>2. RanOf(h)
      BY <1>1 DEF GateInv
    <2> QED
      BY <2>1, <2>2 DEF RanOf
  <1>10. FreshSent(h)'
    <2> SUFFICES ASSUME "late" \notin irPast, NEW k \in IrOf(h), Bound(k)', Newest(k)',
                        NEW i \in DOMAIN irLog, NEW j \in DOMAIN irUp[k].q, irLog[i][1] = h
                 PROVE irLog[i][2] < irUp[k].q[j]
      BY <1>0 DEF FreshSent
    <2>1. Bound(k)
      BY DEF Bound
    <2>2. Newest(k)
      BY IrFacts, IrNums DEF Newest, Bound, IrOf
    <2> QED
      BY <1>1, <2>1, <2>2 DEF GateInv, FreshSent
  <1>11. FreshReplay(h)' /\ FreshAck(h)'
    <2>1. FreshReplay(h)'
      BY <1>0, <1>1 DEF GateInv, FreshReplay
    <2>2. FreshAck(h)'
      <3> SUFFICES ASSUME "late" \notin irPast, G.st = "wait", G.token, irUp'[G.at].bound = "bound"
                   PROVE  /\ irDown'[G.at] # <<>>
                          /\ \A i \in DOMAIN irLog : irLog[i][1] = h => irLog[i][2] <= irDown'[G.at][1].ack
        BY <1>0 DEF FreshAck
      <3>1. irUp'[G.at] = irUp[G.at] /\ irDown'[G.at] = irDown[G.at]
        BY <1>2, <1>4
      <3> QED
        BY <1>1, <3>1 DEF GateInv, FreshAck
    <2> QED
      BY <2>1, <2>2
  <1>12. CalmKept(h)'
    BY <1>0, <1>1 DEF GateInv, CalmKept
  <1>13. CalmNew(h)' /\ CalmBound(h)'
    <2>1. End(h)' = End(h)
      BY DEF End
    <2> QED
      BY <1>0, <1>1, <1>2, <1>4, <2>1 DEF GateInv, CalmNew, CalmBound, Gapless
  <1>14. CalmSeq(h)'
    BY <1>0, <1>1, CalmSeqKept DEF GateInv
  <1> QED
    BY <1>5, <1>6, <1>7, <1>8, <1>9, <1>10, <1>11, <1>12, <1>13, <1>14 DEF GateInv

\* A step of gate g: it changes nothing but its session and what is on its streams.
LEMMA IrGateSide ==
  ASSUME IrInv, NEW g \in IrGates, irGate' \in [IrGates -> IrSession],
         \A h \in IrGates : h # g => irGate'[h] = irGate[h],
         UNCHANGED <<irChar, irPend, irLog>>, irPast' \in {irPast, irPast \cup {"muted"}},
         irUp' \in [IrStr -> IrStream], irDown' \in [IrStr -> Seq(IrFrame)],
         \A k \in IrStr : /\ irUp'[k].g = irUp[k].g /\ irUp'[k].bound = irUp[k].bound
                          /\ irUp'[k].s = irUp[k].s /\ irUp'[k].resume = irUp[k].resume,
         \A k \in IrStr : irUp[k].g # g => irUp'[k] = irUp[k] /\ irDown'[k] = irDown[k],
         \A k \in IrOf(g) : irUp[k].q = <<>> => irUp'[k].q = <<>> \/ k = irGate[g].at,
         \A k \in IrOf(g) : irDown'[k] = irDown[k] \/ (irDown[k] # <<>> /\ irDown'[k] = Tail(irDown[k])),
         GateInv(g)'
  PROVE  IrInv'
  <1>0. (Calm' <=> Calm) /\ \A x \in {"late", "taken", "refused"} : x \in irPast' <=> x \in irPast
    BY CalmNow
  <1>1. IrShape'
    BY DEF IrInv, IrShape
  <1>2. IrPrefix'
    BY DEF IrInv, IrPrefix, Used
  <1>3. IrUnused' /\ IrResume'
    <2>1. \A k \in IrStr : irUp[k].g = 0 => irUp'[k] = irUp[k] /\ irDown'[k] = irDown[k]
      BY IrNums
    <2>2. IrUnused'
      BY <2>1 DEF IrInv, IrUnused
    <2> QED
      BY <1>0, <2>2 DEF IrInv, IrResume
  <1>4. irChar.out # 0 => Cur' = Cur /\ Cur \in IrGates /\ irChar.out \in IrStr
    BY IrFacts DEF Cur
  <1>5. \A h \in IrGates : GateInv(h)'
    <2> SUFFICES ASSUME NEW h \in IrGates, h # g PROVE GateInv(h)'
      OBVIOUS
    <2>1. /\ IrOf(h)' = IrOf(h) /\ \A k \in IrOf(h) : irUp'[k] = irUp[k] /\ irDown'[k] = irDown[k]
          /\ irPast \subseteq irPast'
      BY DEF IrOf
    <2> QED
      BY <1>4, <2>1, IrOthers
  <1>6. \A k \in IrStr : Bound(k)' = Bound(k) /\ Newest(k)' = Newest(k)
    BY DEF Bound, Newest
  <1>7. IrHeld'
    <2>1. irChar.out # 0 => irUp'[irChar.out].s = irUp[irChar.out].s
      BY <1>4
    <2>2. IrHeld
      BY DEF IrInv
    <2>3. CASE irChar.out = 0
      BY <1>0, <1>6, <2>2, <2>3 DEF IrHeld
    <2>4. CASE irChar.out # 0
      BY <1>0, <1>4, <1>6, <2>1, <2>2, <2>4 DEF IrHeld
    <2> QED
      BY <2>3, <2>4
  <1>8. IrDrained'
    <2> SUFFICES ASSUME "late" \notin irPast, NEW k \in IrStr, Bound(k), irUp[k].s \in {irChar.at, irPend.at},
                        ~Newest(k)
                 PROVE  irUp'[k].q = <<>>
      BY <1>0, <1>6 DEF IrDrained
    <2>1. irUp[k].q = <<>>
      BY DEF IrInv, IrDrained
    <2>2. CASE irUp[k].g # g
      BY <2>1, <2>2
    <2>3. CASE irUp[k].g = g
      <3>1. k \in IrOf(g)
        BY <2>3 DEF IrOf
      <3>2. k # irGate[g].at
        BY <2>3, <3>1, IrFacts DEF Newest, IrInv, GateInv, GateHas, IrOf
      <3> QED
        BY <2>1, <3>1, <3>2
    <2> QED
      BY <2>2, <2>3
  <1>9. IrOrder' /\ CalmRan'
    BY <1>0, <1>4 DEF IrInv, IrOrder, CalmRan, InOrder
  <1>10. CalmAcks'
    <2> SUFFICES ASSUME Calm, NEW k \in IrStr, NEW i \in DOMAIN irDown'[k]
                 PROVE irDown'[k][i].ack <= irChar.applied
      BY <1>0 DEF CalmAcks
    <2>1. \A j \in DOMAIN irDown[k] : irDown[k][j].ack <= irChar.applied
      BY DEF IrInv, CalmAcks
    <2>2. irDown'[k] = irDown[k] \/ (irDown[k] # <<>> /\ irDown'[k] = Tail(irDown[k]))
      BY DEF IrOf
    <2>3. irDown[k] \in Seq(IrFrame)
      BY IrFacts
    <2>4. CASE irDown'[k] = Tail(irDown[k]) /\ irDown[k] # <<>>
      <3>1. i + 1 \in DOMAIN irDown[k] /\ irDown'[k][i] = irDown[k][i + 1]
        BY <2>3, <2>4
      <3> QED
        BY <2>1, <3>1
    <2> QED
      BY <2>1, <2>2, <2>4
  <1> QED
    BY <1>1, <1>2, <1>3, <1>5, <1>7, <1>8, <1>9, <1>10 DEF IrInv

\* A step that changes one session only.
LEMMA IrGateAlone ==
  ASSUME IrInv, NEW g \in IrGates, NEW H \in IrSession, irGate' = [irGate EXCEPT ![g] = H],
         UNCHANGED <<irUp, irDown, irChar, irPend, irLog, irPast>>, GateInv(g)'
  PROVE  IrInv'
  <1>1. irGate \in [IrGates -> IrSession] /\ irUp \in [IrStr -> IrStream] /\ irDown \in [IrStr -> Seq(IrFrame)]
    BY IrFacts
  <1>2. irGate' \in [IrGates -> IrSession] /\ \A h \in IrGates : h # g => irGate'[h] = irGate[h]
    BY <1>1
  <1> QED
    BY <1>1, <1>2, IrGateSide

\* What a session keeps that changes neither streams nor character, and stays between
\* or off streams.
LEMMA IrAway ==
  ASSUME IrInv, NEW g \in IrGates, irGate'[g].st \notin Streaming,
         irGate'[g].st = "dial" => ~irGate'[g].token,
         irGate'[g].next = irGate[g].next, irGate'[g].held = 0, irGate'[g].buf = irGate[g].buf,
         UNCHANGED <<irUp, irDown, irChar, irPend, irLog, irPast>>
  PROVE  /\ \A k \in IrOf(g) : StreamSent(g, k)'
         /\ TokenSent(g)' /\ TokenHeld(g)' /\ TokenComing(g)'
         /\ RanOf(g)' /\ FreshSent(g)' /\ FreshReplay(g)' /\ FreshAck(g)'
         /\ CalmKept(g)' /\ CalmSeq(g)' /\ CalmNew(g)' /\ CalmBound(g)'
  <1>1. GateInv(g)
    BY DEF IrInv
  <1>2. irGate'[g].st \notin {"wait", "replay", "live"}
    BY DEF Streaming
  <1>3. \A k \in IrOf(g) : StreamSent(g, k)'
    BY <1>1, <1>2 DEF GateInv, StreamSent
  <1>4. TokenSent(g)' /\ TokenHeld(g)' /\ TokenComing(g)'
    BY <1>1 DEF GateInv, TokenSent, TokenHeld, TokenComing, IrOf, Cur, Streaming
  <1>5. RanOf(g)'
    BY <1>1 DEF GateInv, RanOf, IrOf, Cur
  <1>6. FreshSent(g)' /\ FreshReplay(g)' /\ FreshAck(g)'
    BY <1>1, <1>2 DEF GateInv, FreshSent, FreshReplay, FreshAck, IrOf, Bound, Newest
  <1>7. CalmKept(g)' /\ CalmNew(g)' /\ CalmBound(g)'
    BY <1>1, <1>2 DEF GateInv, CalmKept, CalmNew, CalmBound, Calm, Cur, Streaming
  <1>8. CalmSeq(g)'
    BY <1>1 DEF GateInv, CalmSeq, IrOf, Calm
  <1> QED
    BY <1>3, <1>4, <1>5, <1>6, <1>7, <1>8

\* handle: a connection logs in.
LEMMA IrLoginKeeps == ASSUME IrInv, NEW g \in IrGates, IrLogin(g) PROVE IrInv'
  <1> DEFINE G == irGate[g]
             H == [G EXCEPT !.st = "dial", !.to = IF irChar.at = IrNone THEN @ ELSE irChar.at]
  <1>1. G.st = "off" /\ UNCHANGED <<irUp, irDown, irChar, irPend, irLog, irPast>>
    BY DEF IrLogin
  <1>2. G \in IrSession /\ (irChar.at = IrNone \/ irChar.at \in IrShards)
    BY IrFacts DEF IrInv, IrShape
  <1>3. irGate' = [irGate EXCEPT ![g] = H] /\ H \in IrSession
    BY <1>2, IrFacts DEF IrLogin, IrSession
  <1>4. /\ irGate'[g].st = "dial" /\ irGate'[g].next = G.next /\ irGate'[g].buf = G.buf
        /\ irGate'[g].frozen = G.frozen /\ irGate'[g].held = G.held /\ irGate'[g].at = G.at
        /\ irGate'[g].token = G.token
    BY <1>2, <1>3, IrFacts DEF IrSession
  <1>5. GateHas(g)
    BY DEF IrInv, GateInv
  <1>6. G.at = 0 /\ ~G.token /\ G.held = 0 /\ IrOf(g) = {}
    BY <1>1, <1>5 DEF GateHas, IrOf, IrStr
  <1>7. GateHas(g)'
    BY <1>1, <1>4, <1>5, <1>6 DEF GateHas, IrOf, Streaming
  <1>8. (\A k \in IrOf(g) : StreamHas(g, k))'
    BY <1>1, <1>6 DEF IrOf
  <1>9. GateInv(g)'
    BY <1>1, <1>4, <1>6, <1>7, <1>8, IrAway DEF GateInv, Streaming, IrOf
  <1> QED
    BY <1>1, <1>3, <1>9, IrGateAlone

\* The socket goes.
LEMMA IrHangUpKeeps == ASSUME IrInv, NEW g \in IrGates, IrHangUp(g) PROVE IrInv'
  <1> DEFINE G == irGate[g]
             H == [G EXCEPT !.st = "done", !.held = 0]
  <1>1. UNCHANGED <<irUp, irDown, irChar, irPend, irLog, irPast>>
    BY DEF IrHangUp
  <1>2. G \in IrSession
    BY IrFacts
  <1>3. irGate' = [irGate EXCEPT ![g] = H] /\ H \in IrSession
    <2>1. irGate' = [irGate EXCEPT ![g] = H]
      BY <1>2, IrFacts DEF IrHangUp, IrSession
    <2>2. 0 \in 0..IrLines
      BY IrAssumption
    <2> QED
      BY <1>2, <2>1, <2>2 DEF IrSession
  <1>4. /\ irGate'[g].st = "done" /\ irGate'[g].next = G.next /\ irGate'[g].buf = G.buf
        /\ irGate'[g].frozen = G.frozen /\ irGate'[g].held = 0 /\ irGate'[g].at = G.at
        /\ irGate'[g].token = G.token
    BY <1>2, <1>3, IrFacts DEF IrSession
  <1>5. GateHas(g) /\ \A k \in IrOf(g) : StreamHas(g, k)
    BY DEF IrInv, GateInv
  <1>7. GateHas(g)'
    BY <1>1, <1>4, <1>5 DEF GateHas, IrOf, Streaming
  <1>8. (\A k \in IrOf(g) : StreamHas(g, k))'
    BY <1>1, <1>4, <1>5 DEF IrOf, StreamHas, Streaming
  <1>9. GateInv(g)'
    BY <1>1, <1>4, <1>7, <1>8, IrAway DEF GateInv, Streaming, IrOf
  <1> QED
    BY <1>1, <1>3, <1>9, IrGateAlone

\* runForwarder buffers a line.
LEMMA IrAddKeeps == ASSUME IrInv, NEW g \in IrGates, add(g) PROVE IrInv'
  <1> DEFINE G == irGate[g]
             n == G.next + 1
             H == [G EXCEPT !.next = n, !.buf = @ \cup {n}, !.held = IF G.frozen \/ G.st = "dial" THEN 0 ELSE n]
  <1>1. /\ UNCHANGED <<irUp, irDown, irChar, irPend, irLog, irPast>>
        /\ G.st \in {"dial", "wait", "replay", "live"} /\ G.at # 0 /\ G.held = 0 /\ n \in IrSeqs
    BY DEF add
  <1>2. G \in IrSession /\ G.next \in Nat /\ 0 \in 0..IrLines /\ n \in 0..IrLines
    BY <1>1, IrAssumption, IrFacts DEF IrSession, IrSeqs
  <1>3. irGate' = [irGate EXCEPT ![g] = H] /\ H \in IrSession
    BY <1>1, <1>2, IrFacts DEF add, IrSession
  <1>4. /\ irGate'[g].st = G.st /\ irGate'[g].next = n /\ irGate'[g].buf = G.buf \cup {n}
        /\ irGate'[g].frozen = G.frozen /\ irGate'[g].at = G.at /\ irGate'[g].sent = G.sent
        /\ irGate'[g].token = G.token /\ irGate'[g].to = G.to
        /\ irGate'[g].held = IF G.frozen \/ G.st = "dial" THEN 0 ELSE n
    BY <1>2, <1>3, IrFacts DEF IrSession
  <1> HIDE DEF H
  <1>5. GateInv(g)
    BY DEF IrInv
  <1>6. G.sent \in Nat
    BY <1>2 DEF IrSession
  <1>7. GateHas(g)'
    BY <1>1, <1>2, <1>4, <1>5, <1>6 DEF GateInv, GateHas, IrOf, Streaming
  <1>8. (\A k \in IrOf(g) : StreamHas(g, k) /\ StreamSent(g, k))'
    <2> SUFFICES ASSUME NEW k \in IrOf(g) PROVE StreamHas(g, k)' /\ StreamSent(g, k)'
      BY <1>1 DEF IrOf
    <2>1. StreamHas(g, k) /\ StreamSent(g, k)
      BY <1>5 DEF GateInv
    <2>2. StreamHas(g, k)'
      BY <1>1, <1>4, <2>1 DEF StreamHas
    <2>3. irUp[k].q \in Seq(IrSeqs)
      BY IrFacts DEF IrStream
    <2>4. \A i \in DOMAIN irUp[k].q : irUp[k].q[i] \in Nat
      <3> SUFFICES ASSUME NEW i \in DOMAIN irUp[k].q PROVE irUp[k].q[i] \in Nat
        OBVIOUS
      <3>1. irUp[k].q[i] \in IrSeqs
        BY <2>3
      <3> QED
        BY <3>1 DEF IrSeqs
    <2>5. StreamSent(g, k)'
      BY <1>1, <1>2, <1>4, <2>1, <2>4 DEF StreamSent
    <2> QED
      BY <2>2, <2>5
  <1>9. TokenSent(g)' /\ TokenHeld(g)' /\ TokenComing(g)'
    BY <1>1, <1>4, <1>5 DEF GateInv, TokenSent, TokenHeld, TokenComing, IrOf, Cur
  <1>10. \A i \in DOMAIN irLog : irLog[i][2] \in Nat
    BY DEF IrInv, IrShape, IrSeqs
  <1>11. RanOf(g)'
    BY <1>1, <1>2, <1>4, <1>5, <1>10 DEF GateInv, RanOf, IrOf, Cur
  <1>12. FreshSent(g)' /\ FreshAck(g)'
    BY <1>1, <1>4, <1>5 DEF GateInv, FreshSent, FreshAck, IrOf, Bound, Newest
  <1>13. FreshReplay(g)'
    <2>1. RanOf(g) /\ FreshReplay(g)
      BY <1>5 DEF GateInv
    <2> QED
      BY <1>1, <1>2, <1>4, <1>10, <2>1 DEF FreshReplay, RanOf
  <1>14. CalmKept(g)'
    <2>1. CalmKept(g)
      BY <1>5 DEF GateInv
    <2> QED
      BY <1>1, <1>2, <1>4, <2>1 DEF CalmKept, Calm, Cur
  <1>15. CalmNew(g)' /\ CalmBound(g)'
    <2>1. GateHas(g) /\ CalmNew(g) /\ CalmBound(g)
      BY <1>5 DEF GateInv
    <2>2. G.st \in Streaming => End(g)' = End(g)
      BY <1>1, <1>2, <1>4, <2>1 DEF GateHas, End, Streaming
    <2> QED
      BY <1>1, <1>4, <2>1, <2>2 DEF CalmNew, CalmBound, Calm, Gapless, Streaming
  <1>16. CalmSeq(g)'
    BY <1>1, <1>5 DEF GateInv, CalmSeq, IrOf, Calm
  <1> QED
    <2>1. GateInv(g)'
      BY <1>7, <1>8, <1>9, <1>11, <1>12, <1>13, <1>14, <1>15, <1>16 DEF GateInv
    <2> QED
      BY <1>1, <1>3, <2>1, IrGateAlone

\* The counters of the model are naturals.
LEMMA IrNats ==
  ASSUME IrInv
  PROVE  /\ \A k \in IrStr : irUp[k].q \in Seq(IrSeqs) /\ irUp[k].q \in Seq(Nat)
         /\ \A k \in IrStr : \A i \in DOMAIN irUp[k].q : irUp[k].q[i] \in Nat /\ irUp[k].q[i] # 0
         /\ \A g \in IrGates : irGate[g] \in IrSession /\ irGate[g].next \in Nat /\ irGate[g].sent \in Nat
              /\ irGate[g].held \in Nat /\ irGate[g].buf \subseteq Nat /\ irGate[g].at \in Nat
         /\ \A i \in DOMAIN irLog : irLog[i][1] \in IrGates /\ irLog[i][2] \in Nat
         /\ irChar.applied \in Nat /\ irPend.applied \in Nat
         /\ \A k \in IrStr : \A i \in DOMAIN irDown[k] : irDown[k][i] \in IrFrame /\ irDown[k][i].ack \in Nat
  <1>1. \A k \in IrStr : irUp[k].q \in Seq(IrSeqs) /\ irUp[k].q \in Seq(Nat)
    <2>1. \A k \in IrStr : irUp[k].q \in Seq(IrSeqs)
      BY IrFacts DEF IrStream
    <2>2. IrSeqs \subseteq Nat
      BY DEF IrSeqs
    <2> QED
      BY <2>1, <2>2, SeqMonotonic
  <1>2. \A k \in IrStr : \A i \in DOMAIN irUp[k].q : irUp[k].q[i] \in Nat /\ irUp[k].q[i] # 0
    <2> SUFFICES ASSUME NEW k \in IrStr, NEW i \in DOMAIN irUp[k].q PROVE irUp[k].q[i] \in Nat /\ irUp[k].q[i] # 0
      OBVIOUS
    <2>1. irUp[k].q[i] \in IrSeqs
      BY <1>1
    <2> QED
      BY <2>1 DEF IrSeqs
  <1>3. \A g \in IrGates : irGate[g] \in IrSession /\ irGate[g].next \in Nat /\ irGate[g].sent \in Nat
              /\ irGate[g].held \in Nat /\ irGate[g].buf \subseteq Nat /\ irGate[g].at \in Nat
    BY IrFacts DEF IrSession, IrSeqs
  <1>4. \A i \in DOMAIN irLog : irLog[i][1] \in IrGates /\ irLog[i][2] \in Nat
    BY DEF IrInv, IrShape, IrSeqs
  <1>5. irChar.applied \in Nat /\ irPend.applied \in Nat
    BY DEF IrInv, IrShape
  <1>6. \A k \in IrStr : \A i \in DOMAIN irDown[k] : irDown[k][i] \in IrFrame /\ irDown[k][i].ack \in Nat
    <2> SUFFICES ASSUME NEW k \in IrStr, NEW i \in DOMAIN irDown[k]
                 PROVE  irDown[k][i] \in IrFrame /\ irDown[k][i].ack \in Nat
      OBVIOUS
    <2>1. irDown[k] \in Seq(IrFrame)
      BY IrFacts
    <2>2. irDown[k][i] \in IrFrame
      BY <2>1
    <2> QED
      BY <2>2 DEF IrFrame
  <1> QED
    BY <1>1, <1>2, <1>3, <1>4, <1>5, <1>6

\* The end of a replay: nothing is left to send, so the stream carries every line.
LEMMA IrThawKeeps == ASSUME IrInv, NEW g \in IrGates, IrThaw(g) PROVE IrInv'
  <1> DEFINE G == irGate[g]
             H == [G EXCEPT !.st = "live", !.frozen = FALSE]
  <1>1. /\ UNCHANGED <<irUp, irDown, irChar, irPend, irLog, irPast>>
        /\ G.st = "replay" /\ \A n \in G.buf : n <= G.sent
    BY DEF IrThaw, thawIfDrained
  <1>2. G \in IrSession
    BY IrFacts
  <1>3. irGate' = [irGate EXCEPT ![g] = H] /\ H \in IrSession
    <2>1. irGate' = [irGate EXCEPT ![g] = H]
      BY <1>2, IrFacts DEF IrThaw, IrSession
    <2> QED
      BY <1>2, <2>1 DEF IrSession
  <1>4. /\ irGate'[g].st = "live" /\ irGate'[g].next = G.next /\ irGate'[g].buf = G.buf
        /\ irGate'[g].frozen = FALSE /\ irGate'[g].at = G.at /\ irGate'[g].sent = G.sent
        /\ irGate'[g].token = G.token /\ irGate'[g].to = G.to /\ irGate'[g].held = G.held
    BY <1>2, <1>3, IrFacts DEF IrSession
  <1> HIDE DEF H
  <1>5. GateInv(g)
    BY DEF IrInv
  <1>6. G.token /\ G.held = 0 /\ G.at \in IrOf(g)
    <2>1. GateHas(g)
      BY <1>5 DEF GateInv
    <2>2. G.token /\ G.frozen /\ G.at # 0
      BY <1>1, <2>1 DEF GateHas
    <2> QED
      BY <2>1, <2>2, IrFacts DEF GateHas
  <1>7. GateHas(g)'
    BY <1>1, <1>4, <1>5, <1>6 DEF GateInv, GateHas, IrOf, Streaming
  <1>8. (\A k \in IrOf(g) : StreamHas(g, k) /\ StreamSent(g, k))'
    BY <1>1, <1>4, <1>5 DEF GateInv, StreamHas, StreamSent, IrOf, Streaming
  <1>9. TokenSent(g)' /\ TokenHeld(g)' /\ TokenComing(g)'
    BY <1>1, <1>4, <1>5 DEF GateInv, TokenSent, TokenHeld, TokenComing, IrOf, Cur, Streaming
  <1>10. RanOf(g)' /\ FreshSent(g)' /\ FreshReplay(g)' /\ FreshAck(g)'
    BY <1>1, <1>4, <1>5 DEF GateInv, RanOf, FreshSent, FreshReplay, FreshAck, IrOf, Cur, Bound, Newest
  <1>11. CalmKept(g)' /\ CalmNew(g)'
    BY <1>1, <1>4, <1>5, <1>6 DEF GateInv, CalmKept, CalmNew, Calm, Cur
  <1>12. CalmBound(g)'
    <2> SUFFICES ASSUME Calm, G.at = irChar.out, ~irChar.frozen
                 PROVE  End(g)' = End(g) \/ (End(g)' = irChar.applied /\ End(g) = irChar.applied)
      BY <1>1, <1>4, <1>5 DEF GateInv, CalmBound, Calm, Gapless, Streaming
    <2>1. End(g)' = G.next
      BY <1>4, <1>6 DEF End
    <2>2. End(g) = IF G.sent = 0 THEN irChar.applied ELSE G.sent
      BY <1>1 DEF End
    <2>3. End(g) >= irChar.applied /\ G.sent <= G.next
      BY <1>1, <1>5 DEF GateInv, CalmBound, Streaming, GateHas
    <2>4. \A n \in 1..G.next : n \in G.buf \/ n <= irChar.applied
      BY <1>5 DEF GateInv, CalmKept
    <2>5. G.next \in Nat /\ G.sent \in Nat /\ irChar.applied \in Nat
      BY IrNats
    <2>6. G.next <= G.sent \/ G.next <= irChar.applied
      BY <1>1, <2>4, <2>5
    <2>7. irChar.applied <= G.next
      <3> SUFFICES ASSUME irChar.applied # 0 PROVE irChar.applied <= G.next
        BY <2>5
      <3>1. irChar.out # 0 /\ Cur = g
        BY <1>6, IrFacts, IrNums DEF Cur
      <3>2. PICK i \in DOMAIN irLog : irLog[i] = <<g, irChar.applied>>
        BY <2>5, <3>1 DEF IrInv, CalmRan
      <3> QED
        BY <1>5, <3>2 DEF GateInv, RanOf
    <2> QED
      BY <2>1, <2>2, <2>3, <2>5, <2>6, <2>7
  <1>13. CalmSeq(g)'
    BY <1>1, <1>5 DEF GateInv, CalmSeq, IrOf, Calm
  <1> QED
    <2>1. GateInv(g)'
      BY <1>7, <1>8, <1>9, <1>10, <1>11, <1>12, <1>13 DEF GateInv
    <2> QED
      BY <1>1, <1>3, <2>1, IrGateAlone

\* What is above a bound is above what the bound covers.
LEMMA Below == \A x, y, z \in Nat : x <= y /\ z > y => x < z /\ x <= z
  OBVIOUS

\* A stream's queue that grows with newer lines only.
LEMMA IrGrown ==
  ASSUME NEW q \in Seq(Nat), NEW t \in Seq(Nat), NEW last \in Nat,
         \A i \in DOMAIN q : q[i] <= last, \A i \in DOMAIN t : last < t[i],
         \A i, j \in DOMAIN q : i < j => q[i] < q[j], \A i, j \in DOMAIN t : i < j => t[i] < t[j]
  PROVE  /\ \A i, j \in DOMAIN (q \o t) : i < j => (q \o t)[i] < (q \o t)[j]
         /\ \A i \in DOMAIN (q \o t) : (\E j \in DOMAIN q : (q \o t)[i] = q[j]) \/ (\E j \in DOMAIN t : (q \o t)[i] = t[j])
  <1> DEFINE r == q \o t
  <1>1. r \in Seq(Nat) /\ Len(r) = Len(q) + Len(t) /\ DOMAIN r = 1..(Len(q) + Len(t))
        /\ DOMAIN q = 1..Len(q) /\ DOMAIN t = 1..Len(t) /\ Len(q) \in Nat /\ Len(t) \in Nat
    OBVIOUS
  <1>2. \A i \in DOMAIN r : IF i <= Len(q) THEN i \in DOMAIN q /\ r[i] = q[i]
                            ELSE i - Len(q) \in DOMAIN t /\ r[i] = t[i - Len(q)]
    OBVIOUS
  <1>3. \A i \in DOMAIN q : q[i] \in Nat
    OBVIOUS
  <1>4. \A i \in DOMAIN t : t[i] \in Nat
    OBVIOUS
  <1> HIDE DEF r
  <1>5. ASSUME NEW i \in DOMAIN r, NEW j \in DOMAIN r, i < j PROVE r[i] < r[j]
    <2>1. CASE j <= Len(q)
      BY <1>1, <1>2, <1>5, <2>1
    <2>2. CASE i > Len(q)
      <3>1. i - Len(q) < j - Len(q)
        BY <1>1, <1>5
      <3> QED
        BY <1>1, <1>2, <1>5, <2>2, <3>1
    <2>3. CASE i <= Len(q) /\ j > Len(q)
      <3>1. r[i] <= last /\ last < r[j]
        BY <1>1, <1>2, <2>3
      <3> QED
        <4>1. r[i] \in Nat /\ r[j] \in Nat
          BY <1>2, <1>3, <1>4, <2>3
        <4> QED
          BY <3>1, <4>1, Below
    <2>4. i \in Nat /\ j \in Nat /\ Len(q) \in Nat
      BY <1>1
    <2> QED
      BY <1>5, <2>1, <2>2, <2>3, <2>4
  <1>6. \A i \in DOMAIN r : (\E j \in DOMAIN q : r[i] = q[j]) \/ (\E j \in DOMAIN t : r[i] = t[j])
    BY <1>2
  <1> QED
    BY <1>5, <1>6 DEF r

\* A stream with another queue is a stream.
LEMMA IrStreamWith ==
  ASSUME NEW r \in IrStream, NEW q \in Seq(IrSeqs), NEW w, w = [r EXCEPT !.q = q]
  PROVE  /\ w \in IrStream /\ w.q = q /\ w.g = r.g /\ w.s = r.s /\ w.resume = r.resume
         /\ w.token = r.token /\ w.bound = r.bound
  BY DEF IrStream

\* Gate g sends t, lines in order that are newer than what its stream carries.
LEMMA IrSendSide ==
  ASSUME IrInv, NEW g \in IrGates, NEW H \in IrSession, NEW t \in Seq(IrSeqs),
         irGate[g].st \in Streaming,
         irGate' = [irGate EXCEPT ![g] = H],
         irUp' = [irUp EXCEPT ![irGate[g].at].q = @ \o t],
         UNCHANGED <<irDown, irChar, irPend, irLog, irPast>>,
         GateInv(g)'
  PROVE  IrInv'
  <1> DEFINE a == irGate[g].at
  <1>1. irGate \in [IrGates -> IrSession] /\ irUp \in [IrStr -> IrStream] /\ irDown \in [IrStr -> Seq(IrFrame)]
        /\ a \in IrStr /\ irUp[a].g = g
    BY IrFacts DEF IrOf
  <1>2. irGate' \in [IrGates -> IrSession] /\ \A h \in IrGates : h # g => irGate'[h] = irGate[h]
    BY <1>1
  <1>3. /\ \A k \in IrStr : k # a => irUp'[k] = irUp[k]
        /\ irUp'[a] = [irUp[a] EXCEPT !.q = @ \o t]
    BY <1>1
  <1>4. irUp[a].q \o t \in Seq(IrSeqs)
    BY <1>1 DEF IrStream
  <1>5. irUp'[a] \in IrStream
    <2> DEFINE w == irUp[a].q \o t
    <2>1. w \in Seq(IrSeqs) /\ irUp'[a] = [irUp[a] EXCEPT !.q = w] /\ irUp[a] \in IrStream
      BY <1>1, <1>3, <1>4
    <2> HIDE DEF w
    <2> QED
      BY <2>1, IrStreamWith
  <1>6. irUp' \in [IrStr -> IrStream]
    BY <1>1, <1>5
  <1>7. \A k \in IrStr : /\ irUp'[k].g = irUp[k].g /\ irUp'[k].bound = irUp[k].bound
                         /\ irUp'[k].s = irUp[k].s /\ irUp'[k].resume = irUp[k].resume
    BY <1>1, <1>3 DEF IrStream
  <1> QED
    BY <1>1, <1>2, <1>3, <1>6, <1>7, IrGateSide DEF IrOf

\* A set of naturals has a least member.
LEMMA LeastOfSet ==
  ASSUME NEW S \in SUBSET Nat, S # {}
  PROVE  \E i \in S : \A j \in S : i <= j
  <1>. DEFINE R == OpToRel(<, Nat)
  <1>1. IsWellFoundedOn(R, Nat)
    BY NatLessThanWellFounded
  <1>2. \A i, j \in Nat : i < j => <<i, j>> \in R
    BY DEF OpToRel
  <1>. HIDE DEF R
  <1>3. \E i \in S : \A j \in S : ~(<<j, i>> \in R)
    BY <1>1, WFMin
  <1>4. PICK i \in S : \A j \in S : ~(<<j, i>> \in R)
    BY <1>3
  <1>5. \A j \in S : i <= j
    <2>. SUFFICES ASSUME NEW j \in S PROVE i <= j
      OBVIOUS
    <2>1. i \in Nat /\ j \in Nat /\ ~(j < i)
      BY <1>2, <1>4
    <2>. QED
      BY <2>1
  <1>. QED
    BY <1>5

\* A bounded set of naturals has a greatest member.
LEMMA GreatestOfSet ==
  ASSUME NEW S \in SUBSET Nat, NEW b \in Nat, S # {}, \A x \in S : x <= b
  PROVE  \E n \in S : \A x \in S : x <= n
  <1> DEFINE T == {b - x : x \in S}
  <1>1. T \in SUBSET Nat /\ T # {}
    <2>1. \A x \in S : b - x \in Nat
      <3> SUFFICES ASSUME NEW x \in S PROVE b - x \in Nat
        OBVIOUS
      <3>1. x \in Nat /\ x <= b
        OBVIOUS
      <3> QED
        BY <3>1
    <2> QED
      BY <2>1
  <1>2. PICK t \in T : \A u \in T : t <= u
    BY <1>1, LeastOfSet
  <1>3. PICK n \in S : t = b - n
    OBVIOUS
  <1>4. ASSUME NEW x \in S PROVE x <= n
    <2>1. t <= b - x
      BY <1>2
    <2> QED
      BY <1>3, <2>1
  <1> QED
    BY <1>4

\* The rank of a member counts the members up to it: members and ranks have one order.
LEMMA Ranks ==
  ASSUME NEW S \in SUBSET IrSeqs
  PROVE  /\ IsFiniteSet(S) /\ Cardinality(S) \in Nat
         /\ \A n \in S : Cardinality({x \in S : x <= n}) \in 1..Cardinality(S)
         /\ \A m, n \in S : m < n => Cardinality({x \in S : x <= m}) < Cardinality({x \in S : x <= n})
  <1> DEFINE R(n) == {x \in S : x <= n}
  <1>1. S \in SUBSET Nat /\ IsFiniteSet(S) /\ Cardinality(S) \in Nat
    <2>1. IsFiniteSet(IrSeqs) /\ IrSeqs \subseteq Nat
      <3>1. IrLines \in Int /\ 1 \in Int
        BY IrAssumption
      <3>2. IsFiniteSet(1..IrLines)
        BY <3>1, FS_Interval
      <3>3. 1..IrLines \subseteq Nat
        OBVIOUS
      <3> QED
        BY <3>2, <3>3 DEF IrSeqs
    <2> QED
      <3>1. S \subseteq IrSeqs /\ S \in SUBSET Nat
        BY <2>1
      <3>2. IsFiniteSet(S)
        BY <2>1, <3>1, FS_Subset
      <3>3. Cardinality(S) \in Nat
        BY <3>2, FS_CardinalityType
      <3> QED
        BY <3>1, <3>2, <3>3
  <1>2. \A n \in S : IsFiniteSet(R(n)) /\ Cardinality(R(n)) \in Nat /\ Cardinality(R(n)) <= Cardinality(S)
    <2> SUFFICES ASSUME NEW n \in S
                 PROVE  IsFiniteSet(R(n)) /\ Cardinality(R(n)) \in Nat /\ Cardinality(R(n)) <= Cardinality(S)
      OBVIOUS
    <2>1. R(n) \in SUBSET S
      OBVIOUS
    <2> QED
      BY <1>1, <2>1, FS_Subset, FS_CardinalityType
  <1>3. \A n \in S : Cardinality(R(n)) # 0
    <2> SUFFICES ASSUME NEW n \in S PROVE Cardinality(R(n)) # 0
      OBVIOUS
    <2>1. n \in R(n)
      BY <1>1
    <2> QED
      BY <1>2, <2>1, FS_EmptySet
  <1>4. ASSUME NEW m \in S, NEW n \in S, m < n PROVE Cardinality(R(m)) < Cardinality(R(n))
    <2>0. m \in Nat /\ n \in Nat
      BY <1>1
    <2>1. R(m) \in SUBSET R(n) /\ n \in R(n) /\ n \notin R(m)
      <3>1. ASSUME NEW x \in R(m) PROVE x \in R(n)
        <4>1. x \in Nat /\ x <= m /\ x \in S
          BY <1>1
        <4> QED
          BY <1>4, <2>0, <4>1
      <3>2. n \in R(n) /\ n \notin R(m)
        BY <1>4, <2>0
      <3> QED
        BY <3>1, <3>2
    <2>2. Cardinality(R(m)) <= Cardinality(R(n)) /\ Cardinality(R(m)) # Cardinality(R(n))
      BY <1>2, <2>1, FS_Subset
    <2> QED
      BY <1>2, <2>2
  <1> QED
    BY <1>1, <1>2, <1>3, <1>4

\* Every rank from one to the number of members is some member's.
LEMMA RankHeld ==
  ASSUME NEW S \in SUBSET IrSeqs, NEW i \in 1..Cardinality(S)
  PROVE  \E n \in S : Cardinality({x \in S : x <= n}) = i
  <1> DEFINE R(n) == {x \in S : x <= n}
             Up == {n \in S : Cardinality(R(n)) >= i}
             c == Cardinality(S)
  <1>1. /\ IsFiniteSet(S) /\ c \in Nat /\ i \in Nat /\ i >= 1 /\ i <= c
        /\ \A n \in S : Cardinality(R(n)) \in 1..c
        /\ \A n \in S : Cardinality(R(n)) \in Nat
        /\ \A m, n \in S : m < n => Cardinality(R(m)) < Cardinality(R(n))
    BY Ranks
  <1>2. S \in SUBSET Nat /\ \A x \in S : x <= IrLines
    BY DEF IrSeqs
  <1>3. S # {}
    BY <1>1, FS_EmptySet
  <1>4. PICK top \in S : \A x \in S : x <= top
    BY <1>2, <1>3, IrAssumption, GreatestOfSet
  <1>5. R(top) = S
    BY <1>4
  <1>6. Up \in SUBSET Nat /\ Up # {}
    BY <1>1, <1>2, <1>4, <1>5
  <1>7. PICK n \in Up : \A m \in Up : n <= m
    BY <1>6, LeastOfSet
  <1>8. SUFFICES ASSUME Cardinality(R(n)) > i PROVE FALSE
    <2>1. n \in S /\ Cardinality(R(n)) >= i /\ Cardinality(R(n)) \in Nat
      BY <1>1, <1>7
    <2>2. Cardinality(R(n)) = i \/ Cardinality(R(n)) > i
      BY <1>1, <2>1
    <2> QED
      BY <2>1, <2>2
  <1>9. R(n) \ {n} # {} /\ n \in R(n) /\ IsFiniteSet(R(n))
    <2>1. n \in R(n)
      BY <1>2, <1>7
    <2>2. IsFiniteSet(R(n))
      BY <1>1, FS_Subset
    <2>3. Cardinality(R(n) \ {n}) = Cardinality(R(n)) - 1
      BY <2>1, <2>2, FS_RemoveElement
    <2>4. Cardinality(R(n) \ {n}) # 0
      BY <1>1, <1>7, <1>8, <2>3
    <2>5. IsFiniteSet(R(n) \ {n})
      BY <2>2, FS_RemoveElement
    <2> QED
      BY <2>1, <2>2, <2>4, <2>5, FS_EmptySet
  <1>10. PICK m \in R(n) \ {n} : \A x \in R(n) \ {n} : x <= m
    <2> DEFINE T == R(n) \ {n}
    <2>1. T \in SUBSET Nat /\ T # {} /\ \A x \in T : x <= IrLines
      BY <1>2, <1>9
    <2> HIDE DEF T
    <2>2. \E y \in T : \A x \in T : x <= y
      BY <2>1, IrAssumption, GreatestOfSet
    <2> QED
      BY <2>2 DEF T
  <1>11. m \in S /\ m < n
    BY <1>2, <1>7, <1>10
  <1>12. R(m) = R(n) \ {n}
    <2>0. m \in Nat /\ n \in Nat
      BY <1>2, <1>7, <1>11
    <2>1. ASSUME NEW x \in R(m) PROVE x \in R(n) \ {n}
      <3>1. x \in Nat /\ x <= m /\ x \in S
        BY <1>2
      <3> QED
        BY <1>11, <2>0, <3>1
    <2>2. \A x \in R(n) \ {n} : x \in S /\ x <= m
      BY <1>10
    <2> QED
      BY <2>1, <2>2
  <1>13. Cardinality(R(m)) = Cardinality(R(n)) - 1
    BY <1>9, <1>12, FS_RemoveElement
  <1>14. Cardinality(R(m)) >= i
    BY <1>1, <1>7, <1>8, <1>13
  <1>15. n <= m
    BY <1>7, <1>11, <1>14
  <1> QED
    BY <1>2, <1>7, <1>11, <1>15

\* What replayFrom and tailAfter return.
LEMMA Ascending ==
  ASSUME NEW S \in SUBSET IrSeqs
  PROVE  /\ ascending(S) \in Seq(IrSeqs) /\ Len(ascending(S)) = Cardinality(S)
         /\ \A i \in DOMAIN ascending(S) : ascending(S)[i] \in S
                /\ Cardinality({x \in S : x <= ascending(S)[i]}) = i
         /\ \A i, j \in DOMAIN ascending(S) : i < j => ascending(S)[i] < ascending(S)[j]
  <1> DEFINE q == ascending(S)
             R(n) == {x \in S : x <= n}
             P(n, i) == n \in S /\ Cardinality(R(n)) = i
  <1>1. Cardinality(S) \in Nat
    BY Ranks
  <1>2. ASSUME NEW i \in 1..Cardinality(S) PROVE q[i] \in S /\ Cardinality(R(q[i])) = i
    <2>1. \E n \in S : Cardinality(R(n)) = i
      BY RankHeld
    <2>2. q[i] = CHOOSE n \in S : Cardinality(R(n)) = i
      BY DEF ascending
    <2> QED
      BY <2>1, <2>2
  <1>3. q = [i \in 1..Cardinality(S) |-> q[i]]
    BY DEF ascending
  <1>4. q \in Seq(IrSeqs) /\ Len(q) = Cardinality(S) /\ DOMAIN q = 1..Cardinality(S)
    <2>1. \A i \in 1..Cardinality(S) : q[i] \in IrSeqs
      BY <1>2
    <2> HIDE DEF q
    <2> QED
      BY <1>1, <1>3, <2>1
  <1>5. ASSUME NEW i \in DOMAIN q, NEW j \in DOMAIN q, i < j PROVE q[i] < q[j]
    <2>1. q[i] \in S /\ q[j] \in S /\ Cardinality(R(q[i])) = i /\ Cardinality(R(q[j])) = j
      BY <1>2, <1>4
    <2>2. q[i] \in Nat /\ q[j] \in Nat /\ i \in Nat /\ j \in Nat
      <3>1. IrSeqs \subseteq Nat /\ S \subseteq Nat
        BY DEF IrSeqs
      <3>2. i \in 1..Cardinality(S) /\ j \in 1..Cardinality(S)
        BY <1>4
      <3>3. i \in Nat /\ j \in Nat
        BY <1>1, <3>2
      <3>4. q[i] \in Nat /\ q[j] \in Nat
        BY <2>1, <3>1
      <3> QED
        BY <3>3, <3>4
    <2>3. q[i] # q[j]
      BY <1>5, <2>1, <2>2
    <2>4. ~(q[j] < q[i])
      <3> SUFFICES ASSUME q[j] < q[i] PROVE FALSE
        OBVIOUS
      <3>1. Cardinality(R(q[j])) < Cardinality(R(q[i]))
        BY <2>1, Ranks
      <3> QED
        BY <1>5, <2>1, <2>2, <3>1
    <2> QED
      BY <2>2, <2>3, <2>4
  <1> QED
    BY <1>2, <1>4, <1>5

\* Lines put on a stream: what it carries afterwards.
LEMMA IrSent ==
  ASSUME IrInv, NEW g \in IrGates, NEW t \in Seq(IrSeqs), irGate[g].st \in Streaming,
         irUp' = [irUp EXCEPT ![irGate[g].at].q = @ \o t], irChar' = irChar
  PROVE  LET a == irGate[g].at IN
         /\ a \in IrStr /\ irUp[a].g = g /\ a \in IrOf(g)
         /\ \A k \in IrStr : k # a => irUp'[k] = irUp[k]
         /\ \A k \in IrStr : /\ irUp'[k].g = irUp[k].g /\ irUp'[k].s = irUp[k].s /\ irUp'[k].resume = irUp[k].resume
                             /\ irUp'[k].token = irUp[k].token /\ irUp'[k].bound = irUp[k].bound
         /\ irUp'[a].q = irUp[a].q \o t /\ irUp[a].q \in Seq(Nat)
         /\ IrOf(g)' = IrOf(g)
         /\ (irChar.out # 0 => Cur' = Cur)
  <1> DEFINE a == irGate[g].at
  <1>0. irUp' = [irUp EXCEPT ![a].q = @ \o t]
    OBVIOUS
  <1>1. a \in IrStr /\ irUp[a].g = g /\ a \in IrOf(g)
    BY IrFacts
  <1>2. irUp \in [IrStr -> IrStream] /\ irUp[a].q \in Seq(IrSeqs) /\ irUp[a].q \in Seq(Nat)
    BY <1>1, IrFacts, IrNats
  <1>3. irUp[a].q \o t \in Seq(IrSeqs)
    BY <1>2
  <1>4. (\A k \in IrStr : k # a => irUp'[k] = irUp[k]) /\ irUp'[a] = [irUp[a] EXCEPT !.q = irUp[a].q \o t]
    BY <1>0, <1>1, <1>2
  <1>5. irUp[a] \in IrStream
    BY <1>1, <1>2
  <1>6. /\ irUp'[a].q = irUp[a].q \o t /\ irUp'[a].g = irUp[a].g /\ irUp'[a].s = irUp[a].s
        /\ irUp'[a].resume = irUp[a].resume /\ irUp'[a].token = irUp[a].token /\ irUp'[a].bound = irUp[a].bound
    <2> DEFINE w == irUp[a].q \o t
    <2>1. w \in Seq(IrSeqs) /\ irUp'[a] = [irUp[a] EXCEPT !.q = w]
      BY <1>3, <1>4
    <2> HIDE DEF w
    <2> DEFINE r == irUp[a]
               x == irUp'[a]
    <2>0. r \in IrStream /\ x = [r EXCEPT !.q = w]
      BY <1>5, <2>1
    <2> HIDE DEF r, x
    <2>3. /\ x.q = w /\ x.g = r.g /\ x.s = r.s /\ x.resume = r.resume /\ x.token = r.token
          /\ x.bound = r.bound
      BY <2>0, <2>1, IrStreamWith
    <2>2. /\ irUp'[a].q = w /\ irUp'[a].g = irUp[a].g /\ irUp'[a].s = irUp[a].s
          /\ irUp'[a].resume = irUp[a].resume /\ irUp'[a].token = irUp[a].token
          /\ irUp'[a].bound = irUp[a].bound
      BY <2>3 DEF r, x
    <2> QED
      BY <2>2 DEF w
  <1>7. \A k \in IrStr : /\ irUp'[k].g = irUp[k].g /\ irUp'[k].s = irUp[k].s /\ irUp'[k].resume = irUp[k].resume
                         /\ irUp'[k].token = irUp[k].token /\ irUp'[k].bound = irUp[k].bound
    BY <1>4, <1>6
  <1>8. IrOf(g)' = IrOf(g)
    BY <1>7 DEF IrOf
  <1>9. irChar.out # 0 => Cur' = Cur
    BY <1>7, IrFacts DEF Cur
  <1> QED
    BY <1>1, <1>2, <1>4, <1>6, <1>7, <1>8, <1>9

\* One line put on a queue.
LEMMA IrOne ==
  ASSUME NEW q \in Seq(Nat), NEW n \in IrSeqs
  PROVE  /\ Append(q, n) = q \o <<n>> /\ q \o <<n>> \in Seq(Nat) /\ <<n>> \in Seq(IrSeqs) /\ <<n>> \in Seq(Nat)
         /\ Len(<<n>>) = 1 /\ <<n>>[1] = n
         /\ Len(q \o <<n>>) = Len(q) + 1 /\ Len(q) \in Nat
         /\ \A i \in 1..(Len(q) + 1) : (q \o <<n>>)[i] = IF i <= Len(q) THEN q[i] ELSE n
  <1>1. n \in Nat
    BY DEF IrSeqs
  <1> QED
    BY <1>1

\* runForwarder sends the line it holds.
LEMMA IrSendKeeps == ASSUME IrInv, NEW g \in IrGates, sendInput(g) PROVE IrInv'
  <1> DEFINE G == irGate[g]
             a == G.at
             n == G.held
             H == [G EXCEPT !.held = 0]
             q == irUp[a].q
             r == irUp'[a].q
  <1>1. /\ UNCHANGED <<irDown, irChar, irPend, irLog, irPast>>
        /\ n # 0 /\ G.st \in {"wait", "live"}
    BY DEF sendInput
  <1>2. GateInv(g) /\ G \in IrSession /\ G.next \in Nat /\ n \in Nat
    BY IrNats DEF IrInv
  <1>3. n \in IrSeqs
    <2>1. n \in 0..IrLines
      BY <1>2 DEF IrSession
    <2> QED
      BY <1>1, <1>2, <2>1, IrAssumption DEF IrSeqs
  <1>4. irGate' = [irGate EXCEPT ![g] = H] /\ H \in IrSession
    <2>1. irGate' = [irGate EXCEPT ![g] = H]
      BY <1>2, IrFacts DEF sendInput, IrSession
    <2>2. 0 \in 0..IrLines
      BY IrAssumption
    <2> QED
      BY <1>2, <2>1, <2>2 DEF IrSession
  <1>5. /\ irGate'[g].st = G.st /\ irGate'[g].next = G.next /\ irGate'[g].buf = G.buf
        /\ irGate'[g].frozen = G.frozen /\ irGate'[g].at = a /\ irGate'[g].sent = G.sent
        /\ irGate'[g].token = G.token /\ irGate'[g].to = G.to /\ irGate'[g].held = 0
    BY <1>2, <1>4, IrFacts DEF IrSession
  <1> HIDE DEF H
  <1>6. a \in IrStr /\ a \in IrOf(g) /\ irUp[a].g = g /\ G.st \in Streaming /\ q \in Seq(Nat)
    BY <1>1, IrFacts, IrNats DEF Streaming
  <1>7. irUp' = [irUp EXCEPT ![a].q = @ \o <<n>>] /\ <<n>> \in Seq(IrSeqs)
    <2>1. Append(q, n) = q \o <<n>> /\ <<n>> \in Seq(IrSeqs)
      BY <1>3, <1>6, IrOne
    <2> QED
      BY <1>6, <2>1, IrFacts DEF sendInput
  <1>8. /\ \A k \in IrStr : k # a => irUp'[k] = irUp[k]
        /\ \A k \in IrStr : /\ irUp'[k].g = irUp[k].g /\ irUp'[k].s = irUp[k].s
                            /\ irUp'[k].token = irUp[k].token /\ irUp'[k].bound = irUp[k].bound
        /\ r = q \o <<n>> /\ IrOf(g)' = IrOf(g) /\ (irChar.out # 0 => Cur' = Cur)
    <2> DEFINE t == <<n>>
    <2>1. t \in Seq(IrSeqs) /\ irUp' = [irUp EXCEPT ![a].q = @ \o t]
      BY <1>7
    <2>0. irChar' = irChar /\ irGate[g].st \in Streaming
      BY <1>1, <1>6
    <2> HIDE DEF t, n
    <2>2. /\ \A k \in IrStr : k # a => irUp'[k] = irUp[k]
          /\ \A k \in IrStr : /\ irUp'[k].g = irUp[k].g /\ irUp'[k].s = irUp[k].s
                              /\ irUp'[k].token = irUp[k].token /\ irUp'[k].bound = irUp[k].bound
          /\ irUp'[a].q = irUp[a].q \o t /\ IrOf(g)' = IrOf(g) /\ (irChar.out # 0 => Cur' = Cur)
      BY <2>0, <2>1, IrSent
    <2> QED
      BY <2>2 DEF t
  <1>9. \A k \in IrStr : k # a => irUp'[k] = irUp[k]
    BY <1>8
  <1>10. /\ irUp'[a].g = g /\ irUp'[a].s = irUp[a].s
         /\ irUp'[a].token = irUp[a].token /\ irUp'[a].bound = irUp[a].bound
    BY <1>6, <1>8
  <1>0. Len(r) = Len(q) + 1 /\ Len(q) \in Nat /\ \A i \in 1..(Len(q) + 1) : r[i] = IF i <= Len(q) THEN q[i] ELSE n
    <2> HIDE DEF q, r, n
    <2> QED
      BY <1>3, <1>6, <1>8, IrOne
  <1>11. ~G.frozen /\ ~(G.token /\ G.st = "wait") /\ n = G.next /\ irUp[a].token = G.token
         /\ (G.st = "live" => irUp[a].bound = "bound")
    BY <1>1, <1>2, <1>6 DEF GateInv, GateHas
  <1>12. \A i \in DOMAIN q : q[i] < n /\ q[i] \in Nat
    BY <1>1, <1>2, <1>6, IrNats DEF GateInv, StreamSent
  <1>13. /\ \A i, j \in DOMAIN r : i < j => r[i] < r[j]
         /\ \A i \in DOMAIN r : (\E j \in DOMAIN q : r[i] = q[j]) \/ r[i] = n
    <2>1. \A i, j \in DOMAIN q : i < j => q[i] < q[j]
      BY <1>2, <1>6 DEF GateInv, StreamSent
    <2>2. DOMAIN q = 1..Len(q) /\ DOMAIN r = 1..(Len(q) + 1)
      <3>1. q \o <<n>> \in Seq(Nat)
        <4>1. q \in Seq(Nat) /\ n \in IrSeqs
          BY <1>3, <1>6
        <4> HIDE DEF q, n
        <4> QED
          BY <4>1, IrOne
      <3>2. DOMAIN (q \o <<n>>) = 1..Len(q \o <<n>>) /\ Len(q \o <<n>>) = Len(q) + 1 /\ DOMAIN q = 1..Len(q)
        <4> HIDE DEF q, n
        <4> QED
          BY <1>3, <1>6, <3>1, IrOne
      <3>3. r = q \o <<n>>
        BY <1>0, <1>8
      <3> HIDE DEF q, n, r
      <3> QED
        BY <3>2, <3>3
    <2> HIDE DEF q, r, n
    <2> QED
      BY <1>0, <1>2, <1>12, <2>1, <2>2
  <1>14. IrOf(g)' = IrOf(g)
    BY <1>8
  <1>15. GateHas(g)'
    BY <1>1, <1>2, <1>5, <1>6, <1>10, <1>11, <1>14 DEF GateInv, GateHas
  <1>16. (\A k \in IrOf(g) : StreamHas(g, k) /\ StreamSent(g, k))'
    <2> SUFFICES ASSUME NEW k \in IrOf(g) PROVE StreamHas(g, k)' /\ StreamSent(g, k)'
      BY <1>14
    <2>1. StreamHas(g, k) /\ StreamSent(g, k) /\ k \in IrStr
      BY <1>2, IrFacts DEF GateInv
    <2>2. CASE k # a
      <3>1. irUp'[k] = irUp[k]
        BY <1>9, <2>1, <2>2
      <3>2. StreamHas(g, k)'
        BY <1>1, <1>5, <2>1, <3>1 DEF StreamHas
      <3>3. StreamSent(g, k)'
        BY <1>1, <1>5, <2>1, <2>2, <3>1 DEF StreamSent
      <3> QED
        BY <3>2, <3>3
    <2>3. CASE k = a
      <3>1. StreamHas(g, k)'
        BY <1>1, <1>5, <1>10, <1>11, <2>1, <2>3 DEF StreamHas
      <3>2. \A i \in DOMAIN r : r[i] <= G.next
        BY <1>2, <1>11, <1>12, <1>13
      <3>3. StreamSent(g, k)'
        BY <1>1, <1>5, <1>10, <1>13, <2>3, <3>2 DEF StreamSent
      <3> QED
        BY <3>1, <3>3
    <2> QED
      BY <2>2, <2>3
  <1>17. TokenSent(g)' /\ TokenHeld(g)' /\ TokenComing(g)'
    <2>1. \A k \in IrOf(g) : irUp'[k].token = irUp[k].token /\ irUp'[k].bound = irUp[k].bound /\ irUp'[k].s = irUp[k].s
      BY <1>9, <1>10, IrFacts
    <2>2. irChar.out # 0 => Cur' = Cur
      BY <1>8
    <2>3. TokenSent(g)'
      <3> SUFFICES ASSUME NEW k \in IrOf(g), irUp[k].token, irUp[k].bound = "new"
                   PROVE  (irPend.at = irUp[k].s /\ g = Cur)'
        BY <1>14, <2>1 DEF TokenSent
      <3>1. irPend.at = irUp[k].s /\ g = Cur /\ irUp[k].s # IrNone
        BY <1>2, IrFacts, IrNums DEF GateInv, TokenSent, IrInv, IrResume
      <3> QED
        BY <1>1, <2>1, <2>2, <3>1, IrFacts
    <2>4. TokenHeld(g)'
      BY <1>1, <1>5 DEF TokenHeld
    <2>5. TokenComing(g)'
      BY <1>1, <1>2, <1>5 DEF GateInv, TokenComing
    <2> QED
      BY <2>3, <2>4, <2>5
  <1>18. RanOf(g)'
    <2>1. \A k \in IrOf(g) : irUp'[k].bound = irUp[k].bound
      BY <1>9, <1>10, IrFacts
    <2>2. irLog # <<>> => irChar.out # 0
      BY DEF IrInv, IrHeld
    <2>3. irChar.out # 0 => Cur' = Cur
      BY <1>8
    <2>4. DOMAIN irLog # {} => irLog # <<>>
      OBVIOUS
    <2> QED
      BY <1>1, <1>2, <1>5, <1>14, <2>1, <2>2, <2>3, <2>4 DEF GateInv, RanOf
  <1>19. FreshSent(g)'
    <2> SUFFICES ASSUME "late" \notin irPast, NEW k \in IrOf(g), Bound(k)', Newest(k)',
                        NEW i \in DOMAIN irLog, NEW j \in DOMAIN irUp'[k].q, irLog[i][1] = g
                 PROVE  irLog[i][2] < irUp'[k].q[j]
      BY <1>1, <1>14 DEF FreshSent
    <2>1. \A l \in IrStr : irUp'[l].g = irUp[l].g /\ irUp'[l].bound = irUp[l].bound
      BY <1>6, <1>9, <1>10
    <2>2. Bound(k) /\ Newest(k) /\ k \in IrStr
      BY <2>1, IrFacts DEF Bound, Newest
    <2>3. \A m \in DOMAIN irUp[k].q : irLog[i][2] < irUp[k].q[m]
      BY <1>2, <2>2 DEF GateInv, FreshSent
    <2>4. irLog[i][2] < n
      BY <1>1, <1>2 DEF GateInv, RanOf
    <2>5. CASE k = a
      BY <1>13, <2>3, <2>4, <2>5
    <2>6. CASE k # a
      BY <1>9, <2>2, <2>3, <2>6
    <2> QED
      BY <2>5, <2>6
  <1>20. FreshReplay(g)' /\ FreshAck(g)'
    BY <1>1, <1>5, <1>11 DEF FreshReplay, FreshAck
  <1>21. CalmKept(g)'
    <2>1. irChar.out # 0 => Cur' = Cur
      BY <1>8
    <2> QED
      BY <1>1, <1>2, <1>5, <2>1 DEF GateInv, CalmKept, Calm
  <1>22. \A f \in Nat : Gapless(q, f, n - 1) => Gapless(r, f, n)
    <2> SUFFICES ASSUME NEW f \in Nat, Gapless(q, f, n - 1) PROVE Gapless(r, f, n)
      OBVIOUS
    <2>1. Len(q) = n - 1 - f /\ \A i \in 1..Len(q) : q[i] = f + i
      BY DEF Gapless
    <2> HIDE DEF q, r, n
    <2>2. Len(r) = n - f
      BY <1>0, <1>2, <2>1
    <2>3. \A i \in 1..Len(r) : r[i] = f + i
      BY <1>0, <1>2, <2>1
    <2> QED
      BY <2>2, <2>3 DEF Gapless
  <1>23. CalmNew(g)' /\ CalmBound(g)'
    <2>1. End(g) = n - 1 /\ End(g)' = n
      BY <1>1, <1>5, <1>11 DEF End
    <2>2. irChar.applied \in Nat
      BY IrNats
    <2>3. CalmNew(g)'
      BY <1>1, <1>2, <1>5, <1>10, <1>22, <2>1 DEF GateInv, CalmNew, Calm
    <2>4. CalmBound(g)'
      BY <1>1, <1>2, <1>5, <1>10, <1>22, <2>1, <2>2 DEF GateInv, CalmBound, Calm
    <2> QED
      BY <2>3, <2>4
  <1>25. CalmSeq(g)'
    <2> SUFFICES ASSUME Calm, NEW k \in IrOf(g), NEW i \in DOMAIN irUp'[k].q
                 PROVE  /\ irUp'[k].bound = "new" => irUp'[k].q[i] = i
                        /\ k = irChar.out /\ ~irChar.frozen => irUp'[k].q[i] = irChar.applied + i
      BY <1>1, <1>14 DEF CalmSeq, Calm
    <2>1. CASE k # a
      <3>1. irUp'[k] = irUp[k]
        BY <1>9, <2>1, IrFacts
      <3> QED
        BY <1>2, <2>1, <3>1 DEF GateInv, CalmSeq
    <2>2. CASE k = a
      <3>1. i \in 1..Len(r) /\ i \in Nat
        <4>1. r \in Seq(Nat) /\ i \in DOMAIN r
          BY <1>3, <1>6, <1>8, IrOne, <2>2
        <4> HIDE DEF r
        <4> QED
          BY <4>1
      <3>2. irUp[a].bound = "new" => Gapless(r, 0, End(g)')
        BY <1>1, <1>2, <1>5, <1>6, <1>10, <1>11, <1>23 DEF GateInv, StreamHas, CalmNew, Calm
      <3>3. a = irChar.out /\ ~irChar.frozen => Gapless(r, irChar.applied, End(g)')
        BY <1>1, <1>5, <1>6, <1>23 DEF CalmBound, Calm
      <3>4. irChar.applied \in Nat /\ irUp'[a].bound = irUp[a].bound
        BY <1>10, IrNats
      <3> HIDE DEF r
      <3>5. irUp[a].bound = "new" => r[i] = 0 + i
        BY <3>1, <3>2 DEF Gapless
      <3>6. a = irChar.out /\ ~irChar.frozen => r[i] = irChar.applied + i
        BY <3>1, <3>3 DEF Gapless
      <3> QED
        BY <2>2, <3>1, <3>4, <3>5, <3>6 DEF r
    <2> QED
      BY <2>1, <2>2
  <1>24. GateInv(g)'
    BY <1>15, <1>16, <1>17, <1>18, <1>19, <1>20, <1>21, <1>23, <1>25 DEF GateInv
  <1> QED
    BY <1>1, <1>4, <1>6, <1>7, <1>24, IrSendSide

\* The ascending sequence of an interval is gapless.
LEMMA AscendingRun ==
  ASSUME NEW f \in Nat, NEW l \in Nat, f <= l, ((f + 1)..l) \subseteq IrSeqs
  PROVE  Gapless(ascending((f + 1)..l), f, l)
  <1> DEFINE S == (f + 1)..l
             q == ascending(S)
  <1>1. Cardinality(S) = l - f
    <2>1. f + 1 \in Int /\ l \in Int
      OBVIOUS
    <2>2. Cardinality(S) = IF f + 1 > l THEN 0 ELSE l - (f + 1) + 1
      BY <2>1, FS_Interval
    <2> QED
      BY <2>2
  <1>2. S \in SUBSET IrSeqs
    OBVIOUS
  <1>3. Len(q) = l - f /\ DOMAIN q = 1..Len(q)
    <2>1. q \in Seq(IrSeqs) /\ Len(q) = Cardinality(S)
      <3> HIDE DEF S
      <3> QED
        BY <1>2, Ascending
    <2> QED
      BY <1>1, <2>1
  <1>4. ASSUME NEW i \in 1..Len(q) PROVE q[i] = f + i
    <2>1. q[i] \in S /\ Cardinality({x \in S : x <= q[i]}) = i
      <3>1. i \in DOMAIN q
        BY <1>3
      <3> HIDE DEF S
      <3> QED
        BY <1>2, <3>1, Ascending
    <2> DEFINE n == q[i]
    <2>2. n \in Nat /\ n > f /\ n <= l
      <3> HIDE DEF q
      <3> QED
        BY <2>1
    <2> HIDE DEF n
    <2>3. {x \in S : x <= n} = (f + 1)..n
      BY <2>2
    <2>4. Cardinality((f + 1)..n) = n - f
      BY <2>2, FS_Interval
    <2>5. Cardinality({x \in S : x <= n}) = i
      BY <2>1 DEF n
    <2>6. n - f = i
      BY <2>3, <2>4, <2>5
    <2>7. n = f + i
      BY <2>2, <2>6
    <2> QED
      BY <2>7 DEF n
  <1> QED
    BY <1>3, <1>4 DEF Gapless

\* Two gapless queues that meet make one.
LEMMA GaplessJoin ==
  ASSUME NEW q \in Seq(Nat), NEW t \in Seq(Nat), NEW x \in Nat, NEW y \in Nat, NEW z \in Nat,
         Gapless(q, x, y), Gapless(t, y, z)
  PROVE  Gapless(q \o t, x, z)
  <1> DEFINE w == q \o t
  <1>1. /\ Len(q) = y - x /\ \A i \in 1..Len(q) : q[i] = x + i
        /\ Len(t) = z - y /\ \A i \in 1..Len(t) : t[i] = y + i
        /\ Len(q) \in Nat /\ Len(t) \in Nat
    BY DEF Gapless
  <1>2. Len(w) = Len(q) + Len(t)
        /\ \A i \in 1..Len(w) : w[i] = IF i <= Len(q) THEN q[i] ELSE t[i - Len(q)]
    BY ConcatProperties
  <1> HIDE DEF w
  <1>3. Len(w) = z - x
    BY <1>1, <1>2
  <1>4. ASSUME NEW i \in 1..Len(w) PROVE w[i] = x + i
    <2>1. CASE i <= Len(q)
      BY <1>1, <1>2, <2>1
    <2>2. CASE ~(i <= Len(q))
      <3>1. i - Len(q) \in 1..Len(t)
        BY <1>1, <1>2, <2>2
      <3>2. w[i] = y + (i - Len(q))
        BY <1>1, <1>2, <2>2, <3>1
      <3> QED
        BY <1>1, <3>2
    <2> QED
      BY <2>1, <2>2
  <1> QED
    BY <1>3, <1>4 DEF Gapless, w

\* The lines a replay has still to send.
Unsent(g) == {n \in irGate[g].buf : n > irGate[g].sent}

\* A replay sends lines typed, above what was sent and below nothing already on the stream.
LEMMA TailFacts ==
  ASSUME IrInv, NEW g \in IrGates, irGate[g].st = "replay"
  PROVE  LET t == ascending(Unsent(g)) IN
         /\ Unsent(g) \in SUBSET IrSeqs /\ Unsent(g) \subseteq Nat
         /\ t \in Seq(IrSeqs) /\ t \in Seq(Nat)
         /\ \A i \in DOMAIN t : t[i] \in Unsent(g)
         /\ \A i, j \in DOMAIN t : i < j => t[i] < t[j]
         /\ Unsent(g) # {} => \E n \in Unsent(g) : \A x \in Unsent(g) : x <= n
  <1> DEFINE T == Unsent(g)
             t == ascending(T)
  <1>1. irGate[g].buf \subseteq IrSeqs
    BY IrNats DEF IrSession
  <1>2. T \in SUBSET IrSeqs /\ T \subseteq Nat /\ \A x \in T : x <= IrLines
    BY <1>1 DEF Unsent, IrSeqs
  <1> HIDE DEF T
  <1>3. /\ t \in Seq(IrSeqs) /\ \A i \in DOMAIN t : t[i] \in T
        /\ \A i, j \in DOMAIN t : i < j => t[i] < t[j]
    BY <1>2, Ascending
  <1>4. t \in Seq(Nat)
    <2>1. IrSeqs \subseteq Nat
      BY DEF IrSeqs
    <2> HIDE DEF t
    <2> QED
      BY <1>3, <2>1, SeqMonotonic
  <1>5. T # {} => \E n \in T : \A x \in T : x <= n
    BY <1>2, IrAssumption, GreatestOfSet
  <1> QED
    BY <1>2, <1>3, <1>4, <1>5 DEF T

\* In a calm history a replay sends every line from where it stands to the newest.
LEMMA TailRun ==
  ASSUME IrInv, NEW g \in IrGates, irGate[g].st = "replay", Calm, irGate[g].at = irChar.out, ~irChar.frozen
  PROVE  /\ End(g) \in Nat /\ End(g) <= irGate[g].next
         /\ Unsent(g) = (End(g) + 1)..irGate[g].next
  <1> DEFINE G == irGate[g]
             e == End(g)
  <1>1. GateInv(g) /\ G \in IrSession /\ G.next \in Nat /\ G.sent \in Nat /\ G.buf \subseteq Nat
        /\ irChar.applied \in Nat /\ irChar.out # 0 /\ g = Cur
    BY IrNats, IrFacts DEF IrInv, Cur, Streaming
  <1>2. e = IF G.sent = 0 THEN irChar.applied ELSE G.sent
    BY DEF End
  <1>3. e \in Nat /\ e >= irChar.applied
    BY <1>1, <1>2 DEF GateInv, CalmBound, Streaming
  <1>4. \A n \in G.buf : n > G.sent => n > irChar.applied
    <2> SUFFICES ASSUME NEW n \in G.buf, n > G.sent, n <= irChar.applied PROVE FALSE
      BY <1>1
    <2>1. irChar.applied \in 1..irChar.applied
      BY <1>1
    <2>2. PICK i \in DOMAIN irLog : irLog[i] = <<g, irChar.applied>>
      BY <1>1, <2>1 DEF IrInv, CalmRan
    <2>3. "late" \notin irPast
      BY DEF Calm
    <2>4. irLog[i][2] < n
      BY <1>1, <2>2, <2>3 DEF GateInv, FreshReplay
    <2> QED
      BY <1>1, <2>2, <2>4
  <1>5. G.buf \subseteq 1..G.next
    BY <1>1 DEF GateInv, GateHas
  <1>6. \A n \in 1..G.next : n \in G.buf \/ n <= irChar.applied
    BY <1>1 DEF GateInv, CalmKept
  <1>7. e <= G.next
    <2>1. G.sent <= G.next
      BY <1>1 DEF GateInv, GateHas
    <2>2. irChar.applied <= G.next
      <3> SUFFICES ASSUME irChar.applied > 0 PROVE irChar.applied <= G.next
        BY <1>1
      <3>1. PICK i \in DOMAIN irLog : irLog[i] = <<g, irChar.applied>>
        BY <1>1 DEF IrInv, CalmRan
      <3> QED
        BY <1>1, <3>1 DEF GateInv, RanOf
    <2> QED
      BY <1>2, <2>1, <2>2
  <1>8. Unsent(g) = {n \in G.buf : n > G.sent}
    BY DEF Unsent
  <1> HIDE DEF e
  <1>9. \A n \in Unsent(g) : n > e /\ n <= G.next /\ n \in Nat
    BY <1>1, <1>2, <1>4, <1>5, <1>8
  <1>10. \A n \in (e + 1)..G.next : n \in Unsent(g)
    <2> SUFFICES ASSUME NEW n \in (e + 1)..G.next PROVE n \in Unsent(g)
      OBVIOUS
    <2>1. n \in Nat /\ n \in 1..G.next /\ n > e /\ n > irChar.applied
      BY <1>1, <1>3
    <2>2. n \in G.buf
      BY <1>1, <1>6, <2>1
    <2>3. n > G.sent
      BY <1>1, <1>2, <2>1
    <2> QED
      BY <1>8, <2>2, <2>3
  <1>11. Unsent(g) = (e + 1)..G.next
    <2>1. \A n \in Unsent(g) : n \in (e + 1)..G.next
      BY <1>1, <1>3, <1>9
    <2> QED
      BY <1>10, <2>1
  <1> QED
    BY <1>3, <1>7, <1>11 DEF e

\* doReplay: a batch of the replay.
LEMMA IrReplayKeeps == ASSUME IrInv, NEW g \in IrGates, doReplay(g) PROVE IrInv'
  <1> DEFINE G == irGate[g]
             a == G.at
             T == Unsent(g)
             t == ascending(T)
             m == CHOOSE n \in T : \A x \in T : x <= n
             H == [G EXCEPT !.sent = m]
             q == irUp[a].q
             r == irUp'[a].q
  <1>1. /\ UNCHANGED <<irDown, irChar, irPend, irLog, irPast>>
        /\ G.st = "replay" /\ T # {}
    BY DEF doReplay, Unsent
  <1>2. GateInv(g) /\ G \in IrSession /\ G.next \in Nat /\ G.sent \in Nat /\ G.buf \subseteq Nat /\ irChar.applied \in Nat
    BY IrNats DEF IrInv
  <1>3. t \in Seq(IrSeqs) /\ t \in Seq(Nat) /\ T \in SUBSET IrSeqs
    BY <1>1, TailFacts
  <1>4. (\A i \in DOMAIN t : t[i] \in T) /\ \A i, j \in DOMAIN t : i < j => t[i] < t[j]
    BY <1>1, TailFacts
  <1>5. m \in T /\ \A x \in T : x <= m
    <2>1. \E n \in T : \A x \in T : x <= n
      BY <1>1, TailFacts
    <2> HIDE DEF T
    <2> QED
      BY <2>1
  <1>6. m \in Nat /\ m > G.sent /\ m <= G.next /\ m \in 0..IrLines
    <2>1. m \in IrSeqs
      BY <1>3, <1>5
    <2>2. m \in G.buf /\ m > G.sent
      BY <1>5 DEF Unsent
    <2>3. G.buf \subseteq 1..G.next
      BY <1>2 DEF GateInv, GateHas
    <2> HIDE DEF m
    <2> QED
      BY <1>2, <2>1, <2>2, <2>3, IrAssumption DEF IrSeqs
  <1>7. irGate' = [irGate EXCEPT ![g] = H] /\ H \in IrSession
    <2>1. irGate' = [irGate EXCEPT ![g].sent = m]
      BY DEF doReplay, Unsent
    <2> HIDE DEF m
    <2>2. irGate' = [irGate EXCEPT ![g] = H]
      BY <1>2, <2>1, IrFacts
    <2> QED
      BY <1>2, <1>6, <2>2 DEF IrSession
  <1>8. /\ irGate'[g].st = "replay" /\ irGate'[g].next = G.next /\ irGate'[g].buf = G.buf
        /\ irGate'[g].frozen = G.frozen /\ irGate'[g].at = a /\ irGate'[g].sent = m
        /\ irGate'[g].token = G.token /\ irGate'[g].to = G.to /\ irGate'[g].held = G.held
    <2> HIDE DEF m
    <2> QED
      BY <1>1, <1>2, <1>7, IrFacts DEF IrSession
  <1>9. irUp' = [irUp EXCEPT ![irGate[g].at].q = @ \o t]
    BY DEF doReplay, Unsent
  <1> HIDE DEF H, t, m, T
  <1>10. G.st \in Streaming
    BY <1>1 DEF Streaming
  <1>11. /\ a \in IrStr /\ irUp[a].g = g /\ a \in IrOf(g)
         /\ \A k \in IrStr : k # a => irUp'[k] = irUp[k]
         /\ \A k \in IrStr : /\ irUp'[k].g = irUp[k].g /\ irUp'[k].s = irUp[k].s /\ irUp'[k].resume = irUp[k].resume
                             /\ irUp'[k].token = irUp[k].token /\ irUp'[k].bound = irUp[k].bound
         /\ r = q \o t /\ q \in Seq(Nat)
         /\ IrOf(g)' = IrOf(g)
         /\ (irChar.out # 0 => Cur' = Cur)
    BY <1>1, <1>3, <1>9, <1>10, IrSent
  <1>12. /\ G.token /\ irUp[a].bound = "bound" /\ G.held = 0 /\ G.frozen /\ irUp[a].token
    BY <1>1, <1>2, <1>11, <1>10 DEF GateInv, GateHas
  <1>13. \A n \in T : n \in Nat /\ n > G.sent /\ n <= m /\ n \in G.buf
    BY <1>2, <1>5 DEF T, Unsent
  <1>14. /\ \A i, j \in DOMAIN r : i < j => r[i] < r[j]
         /\ \A i \in DOMAIN r : (\E j \in DOMAIN q : r[i] = q[j]) \/ (\E j \in DOMAIN t : r[i] = t[j])
    <2>1. /\ \A i, j \in DOMAIN q : i < j => q[i] < q[j]
          /\ \A i \in DOMAIN q : q[i] <= G.sent
      BY <1>1, <1>2, <1>11 DEF GateInv, StreamSent
    <2>2. \A i \in DOMAIN t : G.sent < t[i]
      BY <1>2, <1>4, <1>13
    <2>3. r = q \o t /\ q \in Seq(Nat) /\ G.sent \in Nat
      BY <1>2, <1>11
    <2> DEFINE last == G.sent
    <2>4. last \in Nat /\ (\A i \in DOMAIN q : q[i] <= last) /\ \A i \in DOMAIN t : last < t[i]
      BY <2>1, <2>2, <2>3
    <2> HIDE DEF q, r, last
    <2> QED
      BY <1>3, <1>4, <2>1, <2>3, <2>4, IrGrown
  <1>15. GateHas(g)'
    BY <1>1, <1>2, <1>6, <1>8, <1>11, <1>12 DEF GateInv, GateHas
  <1>16. (\A k \in IrOf(g) : StreamHas(g, k) /\ StreamSent(g, k))'
    <2> SUFFICES ASSUME NEW k \in IrOf(g) PROVE StreamHas(g, k)' /\ StreamSent(g, k)'
      BY <1>11
    <2>1. StreamHas(g, k) /\ StreamSent(g, k) /\ k \in IrStr
      BY <1>2, IrFacts DEF GateInv
    <2>2. CASE k # a
      <3>1. irUp'[k] = irUp[k]
        BY <1>11, <2>1, <2>2
      <3>2. StreamHas(g, k)'
        BY <1>1, <1>8, <2>1, <3>1 DEF StreamHas
      <3>3. StreamSent(g, k)'
        BY <1>1, <1>8, <2>1, <2>2, <3>1 DEF StreamSent
      <3> QED
        BY <3>2, <3>3
    <2>3. CASE k = a
      <3>1. StreamHas(g, k)'
        BY <1>1, <1>8, <1>11, <1>12, <2>1, <2>3 DEF StreamHas
      <3>2. \A i \in DOMAIN r : r[i] <= m
        <4> SUFFICES ASSUME NEW i \in DOMAIN r PROVE r[i] <= m
          OBVIOUS
        <4>1. CASE \E j \in DOMAIN q : r[i] = q[j]
          <5>1. PICK j \in DOMAIN q : r[i] = q[j]
            BY <4>1
          <5>2. q[j] <= G.sent /\ q[j] \in Nat
            BY <1>1, <1>2, <1>11, IrNats DEF GateInv, StreamSent
          <5> QED
            BY <1>2, <1>6, <5>1, <5>2
        <4>2. CASE \E j \in DOMAIN t : r[i] = t[j]
          BY <1>4, <1>5, <4>2
        <4> QED
          BY <1>14, <4>1, <4>2
      <3>3. \A i \in DOMAIN r : r[i] \in Nat
        <4>1. \A j \in DOMAIN q : q[j] \in Nat
          BY <1>11, IrNats
        <4>2. \A j \in DOMAIN t : t[j] \in Nat
          BY <1>4, <1>13
        <4> QED
          BY <1>14, <4>1, <4>2
      <3>4. \A i \in DOMAIN r : r[i] <= G.next
        BY <1>2, <1>6, <3>2, <3>3
      <3>5. StreamSent(g, k)'
        BY <1>1, <1>8, <1>12, <1>14, <2>3, <3>2, <3>4 DEF StreamSent
      <3> QED
        BY <3>1, <3>5
    <2> QED
      BY <2>2, <2>3
  <1>17. TokenSent(g)' /\ TokenHeld(g)' /\ TokenComing(g)'
    <2>3. TokenSent(g)'
      <3> SUFFICES ASSUME NEW k \in IrOf(g), irUp[k].token, irUp[k].bound = "new"
                   PROVE  (irPend.at = irUp[k].s /\ g = Cur)'
        BY <1>11, IrFacts DEF TokenSent
      <3>1. irPend.at = irUp[k].s /\ g = Cur /\ irUp[k].s # IrNone
        BY <1>2, IrFacts, IrNums DEF GateInv, TokenSent, IrInv, IrResume
      <3> QED
        BY <1>1, <1>11, <3>1, IrFacts
    <2>4. TokenHeld(g)'
      BY <1>1, <1>8 DEF TokenHeld
    <2>5. TokenComing(g)'
      BY <1>1, <1>2, <1>8 DEF GateInv, TokenComing
    <2> QED
      BY <2>3, <2>4, <2>5
  <1>18. RanOf(g)'
    <2>1. \A k \in IrOf(g) : irUp'[k].bound = irUp[k].bound
      BY <1>11, IrFacts
    <2>2. irLog # <<>> => irChar.out # 0
      BY DEF IrInv, IrHeld
    <2>4. DOMAIN irLog # {} => irLog # <<>>
      OBVIOUS
    <2> QED
      BY <1>1, <1>2, <1>8, <1>11, <2>1, <2>2, <2>4 DEF GateInv, RanOf
  <1>19. FreshSent(g)'
    <2> SUFFICES ASSUME "late" \notin irPast, NEW k \in IrOf(g), Bound(k)', Newest(k)',
                        NEW i \in DOMAIN irLog, NEW j \in DOMAIN irUp'[k].q, irLog[i][1] = g
                 PROVE  irLog[i][2] < irUp'[k].q[j]
      BY <1>1, <1>11 DEF FreshSent
    <2>2. Bound(k) /\ Newest(k) /\ k \in IrStr
      BY <1>11, IrFacts DEF Bound, Newest
    <2>3. \A n \in DOMAIN irUp[k].q : irLog[i][2] < irUp[k].q[n]
      BY <1>2, <2>2 DEF GateInv, FreshSent
    <2>4. \A n \in T : irLog[i][2] < n
      BY <1>1, <1>2, <1>13 DEF GateInv, FreshReplay
    <2>5. CASE k = a
      BY <1>4, <1>14, <2>3, <2>4, <2>5
    <2>6. CASE k # a
      BY <1>11, <2>2, <2>3, <2>6
    <2> QED
      BY <2>5, <2>6
  <1>20. FreshReplay(g)' /\ FreshAck(g)'
    <2>1. \A n \in G.buf : ~(n > m)
      <3> SUFFICES ASSUME NEW n \in G.buf, n > m PROVE FALSE
        OBVIOUS
      <3>1. n \in T
        BY <1>2, <1>6 DEF T, Unsent
      <3> QED
        BY <1>2, <1>5, <1>6, <3>1
    <2> QED
      BY <1>1, <1>8, <2>1 DEF FreshReplay, FreshAck
  <1>21. CalmKept(g)'
    BY <1>1, <1>2, <1>8, <1>11 DEF GateInv, CalmKept, Calm
  <1>22. CalmNew(g)'
    BY <1>8 DEF CalmNew
  <1>23. CalmBound(g)'
    <2> SUFFICES ASSUME Calm, a = irChar.out, ~irChar.frozen
                 PROVE  End(g)' >= irChar.applied /\ Gapless(r, irChar.applied, End(g)')
      BY <1>1, <1>8 DEF CalmBound, Calm
    <2>0. m # 0
      BY <1>2, <1>6
    <2>1. End(g)' = m
      BY <1>8, <2>0 DEF End
    <2>2. End(g) \in Nat /\ End(g) <= G.next /\ T = (End(g) + 1)..G.next
      BY <1>1, TailRun DEF T
    <2>3. m = G.next
      BY <1>2, <1>5, <1>6, <2>2
    <2>4. End(g) >= irChar.applied /\ Gapless(q, irChar.applied, End(g))
      BY <1>2, <1>10 DEF GateInv, CalmBound
    <2> DEFINE e == End(g)
               l == G.next
    <2>5. e \in Nat /\ l \in Nat /\ e <= l /\ (e + 1)..l \subseteq IrSeqs /\ t = ascending((e + 1)..l)
      BY <1>2, <1>3, <2>2 DEF t
    <2> HIDE DEF e, l, q, r
    <2>6. Gapless(t, e, l)
      BY <2>5, AscendingRun
    <2>7. Gapless(q, irChar.applied, e)
      BY <2>4 DEF e
    <2>8. Gapless(r, irChar.applied, l)
      BY <1>2, <1>3, <1>11, <2>5, <2>6, <2>7, GaplessJoin
    <2>9. m >= irChar.applied
      BY <1>2, <2>2, <2>3, <2>4
    <2> QED
      BY <2>1, <2>3, <2>8, <2>9 DEF l
  <1>25. CalmSeq(g)'
    <2> SUFFICES ASSUME Calm, NEW k \in IrOf(g), NEW i \in DOMAIN irUp'[k].q
                 PROVE  /\ irUp'[k].bound = "new" => irUp'[k].q[i] = i
                        /\ k = irChar.out /\ ~irChar.frozen => irUp'[k].q[i] = irChar.applied + i
      BY <1>1, <1>11 DEF CalmSeq, Calm
    <2>1. CASE k # a
      <3>1. irUp'[k] = irUp[k]
        BY <1>11, <2>1, IrFacts
      <3> QED
        BY <1>2, <2>1, <3>1 DEF GateInv, CalmSeq
    <2>2. CASE k = a
      <3>1. i \in 1..Len(r) /\ i \in Nat
        <4>1. r \in Seq(Nat) /\ i \in DOMAIN r
          BY <1>3, <1>11, ConcatProperties, <2>2
        <4> HIDE DEF r
        <4> QED
          BY <4>1
      <3>2. irUp[a].bound = "new" => Gapless(r, 0, End(g)')
        BY <1>12
      <3>3. a = irChar.out /\ ~irChar.frozen => Gapless(r, irChar.applied, End(g)')
        BY <1>1, <1>8, <1>10, <1>23 DEF CalmBound, Calm
      <3>4. irChar.applied \in Nat /\ irUp'[a].bound = irUp[a].bound
        BY <1>11, IrNats
      <3> HIDE DEF r
      <3>5. irUp[a].bound = "new" => r[i] = 0 + i
        BY <3>1, <3>2 DEF Gapless
      <3>6. a = irChar.out /\ ~irChar.frozen => r[i] = irChar.applied + i
        BY <3>1, <3>3 DEF Gapless
      <3> QED
        BY <2>2, <3>1, <3>4, <3>5, <3>6 DEF r
    <2> QED
      BY <2>1, <2>2
  <1>24. GateInv(g)'
    BY <1>15, <1>16, <1>17, <1>18, <1>19, <1>20, <1>21, <1>22, <1>23, <1>25 DEF GateInv
  <1> QED
    BY <1>1, <1>3, <1>7, <1>9, <1>10, <1>24, IrSendSide

\* The frame a gate reads next.
LEMMA IrNextFrame ==
  ASSUME IrInv, NEW g \in IrGates, irGate[g].st \in Streaming, irDown[irGate[g].at] # <<>>
  PROVE  LET a == irGate[g].at
             f == Head(irDown[a])
         IN /\ a \in IrStr /\ irUp[a].g = g /\ a \in IrOf(g)
            /\ irDown[a] \in Seq(IrFrame) /\ f = irDown[a][1] /\ 1 \in DOMAIN irDown[a] /\ f \in IrFrame /\ f.ack \in Nat
            /\ Tail(irDown[a]) \in Seq(IrFrame)
            /\ \A i \in DOMAIN Tail(irDown[a]) : i + 1 \in DOMAIN irDown[a] /\ Tail(irDown[a])[i] = irDown[a][i + 1]
            /\ \A k \in IrOf(g) : irUp[k].bound # "new"
            /\ f.kind = "refused" <=> irUp[a].bound = "refused"
            /\ irUp[a].bound \in {"bound", "refused"}
            /\ Calm => irUp[a].bound = "bound" /\ irChar.out # 0 /\ g = Cur /\ f.ack <= irChar.applied
  <1> DEFINE a == irGate[g].at
             d == irDown[a]
             f == Head(d)
  <1>1. a \in IrStr /\ irUp[a].g = g /\ a \in IrOf(g) /\ d \in Seq(IrFrame) /\ d # <<>> /\ irUp[a] \in IrStream
    BY IrFacts
  <1>2. /\ f = d[1] /\ 1 \in DOMAIN d /\ f \in IrFrame
        /\ Tail(d) \in Seq(IrFrame)
        /\ \A i \in DOMAIN Tail(d) : i + 1 \in DOMAIN d /\ Tail(d)[i] = d[i + 1]
    <2>1. d \in Seq(IrFrame) /\ d # <<>>
      BY <1>1
    <2> HIDE DEF d
    <2> QED
      BY <2>1
  <1>3. f.ack \in Nat
    BY <1>2 DEF IrFrame
  <1>4. \A k \in IrOf(g) : StreamHas(g, k)
    BY DEF IrInv, GateInv
  <1>5. \A k \in IrOf(g) : irUp[k].bound # "new"
    BY <1>1, <1>4 DEF StreamHas
  <1>6. f.kind = "refused" <=> irUp[a].bound = "refused"
    BY <1>1, <1>2, <1>4 DEF StreamHas
  <1>7. irUp[a].bound \in {"bound", "refused"}
    BY <1>1, <1>5 DEF IrStream
  <1>8. ASSUME Calm PROVE irUp[a].bound = "bound" /\ irChar.out # 0 /\ g = Cur /\ f.ack <= irChar.applied
    <2>1. irUp[a].bound = "bound"
      BY <1>1, <1>7, <1>8 DEF IrInv, IrResume, Calm
    <2>2. Bound(a)
      BY <1>1, <2>1, IrNums DEF Bound
    <2>3. irChar.out # 0 /\ g = Cur
      BY <1>1, <1>8, <2>2 DEF IrInv, IrHeld, Calm
    <2>4. f.ack <= irChar.applied
      BY <1>1, <1>2, <1>8 DEF IrInv, CalmAcks
    <2> QED
      BY <2>1, <2>3, <2>4
  <1> QED
    BY <1>1, <1>2, <1>3, <1>5, <1>6, <1>7, <1>8

\* A gate takes a frame: what does not depend on its kind.
LEMMA IrFrameTaken ==
  ASSUME IrInv, NEW g \in IrGates, irGate[g].st \in Streaming, irDown[irGate[g].at] # <<>>,
         NEW H \in IrSession, irGate' = [irGate EXCEPT ![g] = H],
         H.next = irGate[g].next, H.at = irGate[g].at, H.held \in {0, irGate[g].held},
         H.buf = prune(irGate[g].buf, Head(irDown[irGate[g].at]).ack),
         H.st = "replay" => irUp[irGate[g].at].q = <<>>,
         irDown' = [irDown EXCEPT ![irGate[g].at] = Tail(@)],
         UNCHANGED <<irUp, irChar, irPend, irLog, irPast>>,
         GateHas(g)', (\A k \in IrOf(g) : StreamHas(g, k))', TokenHeld(g)', TokenComing(g)',
         FreshReplay(g)', FreshAck(g)', CalmBound(g)'
  PROVE  IrInv'
  <1> DEFINE G == irGate[g]
             a == G.at
             f == Head(irDown[a])
  <1>1. /\ a \in IrStr /\ irUp[a].g = g /\ a \in IrOf(g)
        /\ Tail(irDown[a]) \in Seq(IrFrame)
        /\ \A k \in IrOf(g) : irUp[k].bound # "new"
        /\ Calm => irChar.out # 0 /\ g = Cur /\ f.ack <= irChar.applied
        /\ f.ack \in Nat
    BY IrNextFrame
  <1>2. irGate \in [IrGates -> IrSession] /\ irUp \in [IrStr -> IrStream] /\ irDown \in [IrStr -> Seq(IrFrame)]
    BY IrFacts
  <1>3. irGate'[g] = H /\ irGate' \in [IrGates -> IrSession] /\ \A h \in IrGates : h # g => irGate'[h] = irGate[h]
    BY <1>2
  <1>4. /\ irDown' \in [IrStr -> Seq(IrFrame)] /\ irDown'[a] = Tail(irDown[a])
        /\ \A k \in IrStr : k # a => irDown'[k] = irDown[k]
    BY <1>1, <1>2
  <1>5. GateInv(g) /\ IrOf(g)' = IrOf(g) /\ Cur' = Cur /\ Calm' = Calm
    BY DEF IrInv, IrOf, Cur, Calm
  <1>6. (\A k \in IrOf(g) : StreamSent(g, k))'
    <2> SUFFICES ASSUME NEW k \in IrOf(g) PROVE StreamSent(g, k)'
      BY <1>5
    <2>1. StreamSent(g, k)
      BY <1>5 DEF GateInv
    <2>2. irUp'[k] = irUp[k] /\ irGate'[g].next = G.next /\ irGate'[g].at = a /\ irGate'[g].held \in {0, G.held}
      BY <1>3
    <2>3. irGate'[g].st = "replay" /\ k = a => DOMAIN irUp[k].q = {}
      BY <1>3
    <2> QED
      BY <2>1, <2>2, <2>3 DEF StreamSent
  <1>7. TokenSent(g)'
    BY <1>5 DEF GateInv, TokenSent
  <1>8. RanOf(g)'
    <2>1. irGate'[g].next = G.next /\ irGate'[g].held \in {0, G.held}
      BY <1>3
    <2> QED
      BY <1>5, <2>1 DEF GateInv, RanOf
  <1>9. FreshSent(g)'
    BY <1>5 DEF GateInv, FreshSent, Bound, Newest
  <1>10. CalmKept(g)'
    <2> SUFFICES ASSUME Calm, NEW n \in 1..G.next
                 PROVE  n \in irGate'[g].buf \/ (irChar.out # 0 /\ g = Cur /\ n <= irChar.applied)
      BY <1>3, <1>5 DEF CalmKept
    <2>1. n \in G.buf \/ (irChar.out # 0 /\ g = Cur /\ n <= irChar.applied)
      BY <1>5 DEF GateInv, CalmKept
    <2>2. irGate'[g].buf = {x \in G.buf : x > f.ack}
      BY <1>3 DEF prune
    <2>3. n \in Nat /\ irChar.applied \in Nat /\ G.next \in Nat
      BY IrNats
    <2>4. n > f.ack \/ n <= irChar.applied
      BY <1>1, <2>3
    <2> QED
      BY <1>1, <2>1, <2>2, <2>4
  <1>11. CalmSeq(g)'
    BY <1>5, CalmSeqKept DEF GateInv
  <1>12. CalmNew(g)'
    <2> SUFFICES ASSUME irGate'[g].st = "wait", irUp[a].bound = "new" PROVE FALSE
      BY <1>3 DEF CalmNew
    <2> QED
      BY <1>1
  <1>13. GateInv(g)'
    BY <1>6, <1>7, <1>8, <1>9, <1>10, <1>11, <1>12 DEF GateInv
  <1>14. \A k \in IrOf(g) : irDown'[k] = irDown[k] \/ (irDown[k] # <<>> /\ irDown'[k] = Tail(irDown[k]))
    BY <1>4, IrFacts
  <1>15. \A k \in IrStr : irUp[k].g # g => irUp'[k] = irUp[k] /\ irDown'[k] = irDown[k]
    BY <1>1, <1>4
  <1>16. \A k \in IrOf(g) : irUp[k].q = <<>> => irUp'[k].q = <<>> \/ k = G.at
    OBVIOUS
  <1>17. \A k \in IrStr : /\ irUp'[k].g = irUp[k].g /\ irUp'[k].bound = irUp[k].bound
                          /\ irUp'[k].s = irUp[k].s /\ irUp'[k].resume = irUp[k].resume
    OBVIOUS
  <1>18. irUp' \in [IrStr -> IrStream] /\ irPast' \in {irPast, irPast \cup {"muted"}}
    BY <1>2
  <1> QED
    BY <1>3, <1>4, <1>13, <1>14, <1>15, <1>16, <1>17, <1>18, IrGateSide

\* runWriter: a frame is read, its ack prunes, and a stream that ended is dialled again.
LEMMA IrWriterKeeps == ASSUME IrInv, NEW g \in IrGates, runWriter(g) PROVE IrInv'
  <1> DEFINE G == irGate[g]
             a == G.at
             d == irDown[a]
             f == Head(d)
             B == prune(G.buf, f.ack)
             P == [G EXCEPT !.buf = B]
             Q == [P EXCEPT !.held = 0]
             H == IF f.kind # "output" THEN redial(Q, f)
                  ELSE IF G.st = "wait" /\ irUp[a].token THEN [P EXCEPT !.st = "replay", !.sent = 0]
                  ELSE [P EXCEPT !.st = "live"]
  <1>1. /\ UNCHANGED <<irUp, irChar, irPend, irLog, irPast>>
        /\ G.st \in {"wait", "live"} /\ irDown[irGate[g].at] # <<>>
        /\ irDown' = [irDown EXCEPT ![irGate[g].at] = Tail(@)]
    BY DEF runWriter
  <1>2. G.st \in Streaming
    BY <1>1 DEF Streaming
  <1>3. GateInv(g) /\ G \in IrSession /\ G.next \in Nat /\ G.buf \subseteq Nat
    BY IrNats DEF IrInv
  <1>4. /\ a \in IrStr /\ irUp[a].g = g /\ a \in IrOf(g)
        /\ d \in Seq(IrFrame) /\ f = d[1] /\ 1 \in DOMAIN d /\ f \in IrFrame /\ f.ack \in Nat
        /\ Tail(d) \in Seq(IrFrame)
        /\ \A i \in DOMAIN Tail(d) : i + 1 \in DOMAIN d /\ Tail(d)[i] = d[i + 1]
        /\ \A k \in IrOf(g) : irUp[k].bound # "new"
        /\ f.kind = "refused" <=> irUp[a].bound = "refused"
        /\ irUp[a].bound \in {"bound", "refused"}
    BY <1>1, <1>2, IrNextFrame
  <1>5. irGate' = [irGate EXCEPT ![g] = H]
    BY <1>1, <1>3, <1>4, IrFacts DEF runWriter
  <1>6. B = {n \in G.buf : n > f.ack} /\ B \subseteq G.buf /\ B \in SUBSET IrSeqs
    BY <1>3 DEF prune, IrSession
  <1> HIDE DEF B, f
  <1>7. /\ P \in IrSession /\ P.st = G.st /\ P.next = G.next /\ P.at = a /\ P.held = G.held /\ P.buf = B
        /\ P.frozen = G.frozen /\ P.token = G.token /\ P.to = G.to /\ P.sent = G.sent
    BY <1>3, <1>6 DEF IrSession
  <1>8. 0 \in 0..IrLines
    BY IrAssumption
  <1> HIDE DEF P
  <1>9. /\ Q \in IrSession /\ Q.st = G.st /\ Q.next = G.next /\ Q.at = a /\ Q.held = 0 /\ Q.buf = B
        /\ Q.frozen = G.frozen /\ Q.token = G.token /\ Q.to = G.to /\ Q.sent = G.sent
    BY <1>7, <1>8 DEF IrSession
  <1> HIDE DEF Q
  <1>10. f.to \in IrShards /\ f.kind \in {"output", "redirect", "refused", "kick"}
    BY <1>4 DEF IrFrame
  <1>11. /\ irDown'[a] = Tail(d) /\ \A k \in IrStr : k # a => irDown'[k] = irDown[k]
         /\ irGate'[g] = H
    BY <1>1, <1>4, <1>5, IrFacts
  <1>12. IrOf(g)' = IrOf(g) /\ Cur' = Cur /\ Calm' = Calm
    BY <1>1 DEF IrOf, Cur, Calm
  <1>13. CASE f.kind # "output"
    <2>1. H = redial(Q, f)
      BY <1>13
    <2>2. /\ H \in IrSession /\ H.next = G.next /\ H.at = a /\ H.held = 0 /\ H.buf = B /\ H.frozen = G.frozen
          /\ H.st \in {"dial", "done"}
          /\ H.token = (G.token \/ f.kind = "redirect")
          /\ f.kind = "redirect" => H.st = "dial" /\ H.to = f.to
          /\ H.st = "dial" => f.kind = "redirect" \/ (f.kind = "refused" /\ ~G.token)
      <3>1. CASE f.kind = "redirect"
        <4>1. H = [Q EXCEPT !.st = "dial", !.to = f.to, !.token = TRUE]
          BY <2>1, <3>1 DEF redial
        <4> HIDE DEF H
        <4> QED
          BY <1>9, <1>10, <3>1, <4>1 DEF IrSession
      <3>2. CASE f.kind = "refused" /\ ~G.token
        <4>1. H = [Q EXCEPT !.st = "dial"]
          BY <1>9, <2>1, <3>2 DEF redial
        <4> HIDE DEF H
        <4> QED
          BY <1>9, <3>2, <4>1 DEF IrSession
      <3>3. CASE f.kind # "redirect" /\ ~(f.kind = "refused" /\ ~G.token)
        <4>1. H = [Q EXCEPT !.st = "done"]
          BY <1>9, <2>1, <3>3 DEF redial
        <4> HIDE DEF H
        <4> QED
          BY <1>9, <3>3, <4>1 DEF IrSession
      <3> QED
        BY <3>1, <3>2, <3>3
    <2> HIDE DEF H
    <2>3. GateHas(g)'
      BY <1>1, <1>3, <1>4, <1>6, <1>11, <1>12, <2>2 DEF GateInv, GateHas, Streaming
    <2>4. (\A k \in IrOf(g) : StreamHas(g, k))'
      <3> SUFFICES ASSUME NEW k \in IrOf(g) PROVE StreamHas(g, k)'
        BY <1>12
      <3>1. StreamHas(g, k) /\ k \in IrStr /\ irUp[k].bound # "new"
        BY <1>3, <1>4, IrFacts DEF GateInv
      <3>2. \A i \in DOMAIN irDown'[k] : irDown'[k][i].kind = "refused" <=> irUp[k].bound = "refused"
        <4>1. CASE k = a
          <5> SUFFICES ASSUME NEW i \in DOMAIN Tail(d)
                       PROVE  Tail(d)[i].kind = "refused" <=> irUp[a].bound = "refused"
            BY <1>11, <4>1
          <5>1. i + 1 \in DOMAIN irDown[a] /\ Tail(d)[i] = irDown[a][i + 1]
            BY <1>4
          <5>2. \A j \in DOMAIN irDown[a] : irDown[a][j].kind = "refused" <=> irUp[a].bound = "refused"
            BY <3>1, <4>1 DEF StreamHas
          <5> QED
            BY <5>1, <5>2
        <4>2. CASE k # a
          BY <1>11, <3>1, <4>2 DEF StreamHas
        <4> QED
          BY <4>1, <4>2
      <3>3. irUp[k].token => H.token
        BY <2>2, <3>1 DEF StreamHas
      <3>4. irUp[k].bound = "bound" /\ ~H.token => k = a /\ H.st = "done"
        BY <1>4, <2>2, <3>1 DEF StreamHas
      <3> QED
        BY <1>1, <1>11, <2>2, <3>1, <3>2, <3>3, <3>4 DEF StreamHas, Streaming
    <2>5. TokenHeld(g)'
      <3> SUFFICES ASSUME H.st = "dial", H.token
                   PROVE  irPend.at = H.to /\ irPend.at # IrNone /\ g = Cur /\ a = irChar.out
        BY <1>1, <1>11, <1>12, <2>2 DEF TokenHeld
      <3>1. f.kind = "redirect"
        BY <2>2
      <3>2. irPend.at = f.to /\ irPend.at # IrNone /\ a = irChar.out
        BY <1>2, <1>3, <1>4, <3>1 DEF GateInv, TokenComing
      <3> QED
        BY <1>4, <2>2, <3>1, <3>2 DEF Cur
    <2>6. TokenComing(g)' /\ FreshReplay(g)' /\ FreshAck(g)' /\ CalmBound(g)'
      BY <1>11, <2>2 DEF TokenComing, FreshReplay, FreshAck, CalmBound, Streaming
    <2> QED
      BY <1>1, <1>2, <1>5, <2>2, <2>3, <2>4, <2>5, <2>6, IrFrameTaken DEF B, f
  <1>14. CASE f.kind = "output"
    <2>1. irUp[a].bound = "bound" /\ irUp[a].token = G.token
      BY <1>2, <1>3, <1>4, <1>14 DEF GateInv, GateHas
    <2>2. \A i \in DOMAIN irDown'[a] : irDown'[a][i].kind # "refused"
      BY <1>3, <1>4, <1>11, <2>1 DEF GateInv, StreamHas
    <2>3. ASSUME irGate'[g].at = a PROVE TokenComing(g)'
      <3>1. TokenComing(g)
        BY <1>3 DEF GateInv
      <3>0. irDown'[a] = Tail(d)
        BY <1>11
      <3> HIDE DEF H
      <3> SUFFICES ASSUME NEW i \in DOMAIN Tail(d), Tail(d)[i].kind = "redirect"
                   PROVE  irPend.at = Tail(d)[i].to /\ irPend.at # IrNone /\ a = irChar.out
        BY <1>1, <2>3, <3>0 DEF TokenComing
      <3>2. i + 1 \in DOMAIN irDown[a] /\ Tail(d)[i] = irDown[a][i + 1]
        BY <1>4
      <3> QED
        BY <1>2, <3>1, <3>2 DEF TokenComing
    <2>4. ASSUME irGate'[g].at = a, irGate'[g].token = G.token,
                 irGate'[g].st = "replay" \/ irGate'[g].st = "live"
          PROVE  (\A k \in IrOf(g) : StreamHas(g, k))'
      <3> SUFFICES ASSUME NEW k \in IrOf(g) PROVE StreamHas(g, k)'
        BY <1>12
      <3>1. StreamHas(g, k) /\ k \in IrStr /\ irUp[k].bound # "new"
        BY <1>3, <1>4, IrFacts DEF GateInv
      <3>2. \A i \in DOMAIN irDown'[k] : irDown'[k][i].kind = "refused" <=> irUp[k].bound = "refused"
        <4>1. CASE k = a
          BY <2>1, <2>2, <4>1
        <4>2. CASE k # a
          BY <1>11, <3>1, <4>2 DEF StreamHas
        <4> QED
          BY <4>1, <4>2
      <3>4. irUp[k].bound = "bound" /\ ~G.token => k = a
        BY <3>1 DEF StreamHas
      <3> QED
        BY <1>1, <2>4, <3>1, <3>2, <3>4 DEF StreamHas, Streaming
    <2>5. CASE G.st = "wait" /\ irUp[a].token
      <3>1. H = [P EXCEPT !.st = "replay", !.sent = 0]
        BY <1>14, <2>5
      <3> HIDE DEF H
      <3>2. /\ H \in IrSession /\ H.next = G.next /\ H.at = a /\ H.held = G.held /\ H.buf = B /\ H.frozen = G.frozen
            /\ H.st = "replay" /\ H.sent = 0 /\ H.token = G.token
        BY <1>7, <1>8, <3>1 DEF IrSession
      <3>3. G.token /\ G.frozen /\ G.held = 0 /\ irUp[a].q = <<>>
        BY <1>3, <1>4, <2>1, <2>5 DEF GateInv, GateHas, StreamHas
      <3>4. GateHas(g)'
        <4>1. GateHas(g) /\ B \subseteq 1..G.next /\ a # 0 /\ 0 <= G.next
          BY <1>3, <1>4, <1>6, IrNums DEF GateInv, GateHas
        <4>2. \A k \in IrOf(g) : k <= a
          BY <4>1 DEF GateHas
        <4> HIDE DEF B
        <4> QED
          BY <1>1, <1>4, <1>11, <1>12, <2>1, <3>2, <3>3, <4>1, <4>2 DEF GateHas, Streaming
      <3>5. (\A k \in IrOf(g) : StreamHas(g, k))'
        BY <1>11, <2>4, <3>2
      <3>6. TokenHeld(g)' /\ TokenComing(g)' /\ FreshAck(g)'
        BY <1>11, <2>3, <3>2 DEF TokenHeld, FreshAck, Streaming
      <3>7. FreshReplay(g)'
        <4> SUFFICES ASSUME "late" \notin irPast, NEW i \in DOMAIN irLog, irLog[i][1] = g, NEW n \in B
                     PROVE  irLog[i][2] < n
          BY <1>1, <1>11, <3>2 DEF FreshReplay
        <4>1. irLog[i][2] <= f.ack
          BY <1>3, <1>4, <2>1, <2>5, <3>3 DEF GateInv, FreshAck
        <4>2. n > f.ack /\ n \in Nat /\ irLog[i][2] \in Nat
          BY <1>3, <1>6, IrNats
        <4> QED
          BY <1>4, <4>1, <4>2
      <3>8. CalmBound(g)'
        <4>1. End(g) = irChar.applied /\ End(g)' = irChar.applied
          BY <1>1, <1>11, <2>5, <3>2, <3>3 DEF End
        <4> QED
          BY <1>1, <1>2, <1>3, <1>11, <1>12, <3>2, <4>1 DEF GateInv, CalmBound
      <3> QED
        BY <1>1, <1>2, <1>5, <3>2, <3>3, <3>4, <3>5, <3>6, <3>7, <3>8, IrFrameTaken DEF B, f
    <2>6. CASE ~(G.st = "wait" /\ irUp[a].token)
      <3>1. H = [P EXCEPT !.st = "live"]
        BY <1>14, <2>6
      <3> HIDE DEF H
      <3>2. /\ H \in IrSession /\ H.next = G.next /\ H.at = a /\ H.held = G.held /\ H.buf = B /\ H.frozen = G.frozen
            /\ H.st = "live" /\ H.sent = G.sent /\ H.token = G.token
        BY <1>7, <3>1 DEF IrSession
      <3>3. ~G.frozen
        BY <1>1, <1>3, <2>1, <2>6 DEF GateInv, GateHas
      <3>4. GateHas(g)'
        BY <1>1, <1>3, <1>4, <1>6, <1>11, <1>12, <2>1, <3>2, <3>3 DEF GateInv, GateHas, Streaming
      <3>5. (\A k \in IrOf(g) : StreamHas(g, k))'
        BY <1>11, <2>4, <3>2
      <3>6. TokenHeld(g)' /\ TokenComing(g)' /\ FreshAck(g)' /\ FreshReplay(g)'
        BY <1>11, <2>3, <3>2 DEF TokenHeld, FreshAck, FreshReplay, Streaming
      <3>8. CalmBound(g)'
        <4>1. End(g)' = End(g)
          BY <1>1, <1>11, <2>1, <2>6, <3>2 DEF End
        <4> QED
          BY <1>1, <1>2, <1>3, <1>11, <1>12, <3>2, <4>1 DEF GateInv, CalmBound
      <3> QED
        BY <1>1, <1>2, <1>5, <3>2, <3>4, <3>5, <3>6, <3>8, IrFrameTaken DEF B, f
    <2> QED
      BY <2>5, <2>6
  <1> QED
    BY <1>13, <1>14

\* The context of a stream whose gate is gone ends.
LEMMA IrCutKeeps == ASSUME IrInv, NEW k \in IrStr, IrCut(k) PROVE IrInv'
  <1> DEFINE r == irUp[k]
  <1>0. PICK g \in IrGates : g = irUp[k].g
    BY IrFacts DEF IrInv, IrUnused, IrCut
  <1>1. UNCHANGED <<irGate, irDown, irChar, irPend, irLog, irPast>> /\ r.q # <<>> /\ irGate[g].st = "done"
    BY <1>0 DEF IrCut
  <1>2. g \in IrGates /\ k \in IrOf(g)
    BY <1>0 DEF IrOf
  <1>3. irUp \in [IrStr -> IrStream] /\ r \in IrStream /\ irGate \in [IrGates -> IrSession]
        /\ irDown \in [IrStr -> Seq(IrFrame)]
    BY IrFacts
  <1>4. irUp'[k] = [r EXCEPT !.q = <<>>] /\ \A j \in IrStr : j # k => irUp'[j] = irUp[j]
    BY <1>3 DEF IrCut
  <1>5. /\ irUp'[k] \in IrStream /\ irUp'[k].q = <<>> /\ irUp'[k].g = r.g /\ irUp'[k].s = r.s
        /\ irUp'[k].resume = r.resume /\ irUp'[k].token = r.token /\ irUp'[k].bound = r.bound
    <2> DEFINE w == irUp'[k]
               e == <<>>
    <2>1. w = [r EXCEPT !.q = e] /\ e \in Seq(IrSeqs)
      BY <1>4
    <2> HIDE DEF w, r, e
    <2>2. /\ w \in IrStream /\ w.q = e /\ w.g = r.g /\ w.s = r.s /\ w.resume = r.resume
          /\ w.token = r.token /\ w.bound = r.bound
      BY <1>3, <2>1, IrStreamWith
    <2> QED
      BY <2>2 DEF w, r, e
  <1>6. irUp' \in [IrStr -> IrStream]
    BY <1>3, <1>5 DEF IrCut
  <1>7. \A j \in IrStr : /\ irUp'[j].g = irUp[j].g /\ irUp'[j].bound = irUp[j].bound
                         /\ irUp'[j].s = irUp[j].s /\ irUp'[j].resume = irUp[j].resume
                         /\ irUp'[j].token = irUp[j].token
                         /\ irUp'[j].q \in {irUp[j].q, <<>>}
    BY <1>4, <1>5
  <1>8. IrOf(g)' = IrOf(g) /\ Calm' = Calm /\ (irChar.out # 0 => Cur' = Cur)
    BY <1>1, <1>7, IrFacts DEF IrOf, Calm, Cur
  <1>9. GateInv(g) /\ irGate[g].st \notin Streaming
    BY <1>1, <1>2 DEF IrInv, Streaming
  <1>10. GateHas(g)'
    BY <1>1, <1>7, <1>8, <1>9, IrFacts, <1>2 DEF GateInv, GateHas, Streaming
  <1>11. (\A j \in IrOf(g) : StreamHas(g, j) /\ StreamSent(g, j))'
    <2> SUFFICES ASSUME NEW j \in IrOf(g) PROVE StreamHas(g, j)' /\ StreamSent(g, j)'
      BY <1>8
    <2>1. StreamHas(g, j) /\ StreamSent(g, j) /\ j \in IrStr
      BY <1>9, <1>2, IrFacts DEF GateInv
    <2>2. StreamHas(g, j)'
      BY <1>1, <1>7, <2>1 DEF StreamHas
    <2>3. StreamSent(g, j)'
      BY <1>1, <1>7, <2>1 DEF StreamSent
    <2> QED
      BY <2>2, <2>3
  <1>12. TokenSent(g)'
    <2> SUFFICES ASSUME NEW j \in IrOf(g), irUp[j].token, irUp[j].bound = "new"
                 PROVE  (irPend.at = irUp[j].s /\ g = Cur)'
      BY <1>2, <1>7, <1>8, IrFacts DEF TokenSent
    <2>1. irPend.at = irUp[j].s /\ g = Cur /\ irUp[j].s # IrNone /\ j \in IrStr
      BY <1>2, <1>9, IrFacts, IrNums DEF GateInv, TokenSent, IrInv, IrResume
    <2> QED
      BY <1>1, <1>2, <1>7, <1>8, <2>1, IrFacts
  <1>13. TokenHeld(g)' /\ TokenComing(g)' /\ FreshReplay(g)' /\ FreshAck(g)' /\ CalmNew(g)' /\ CalmBound(g)'
    <2>1. irGate'[g].st = "done"
      BY <1>1
    <2> QED
      BY <2>1 DEF TokenHeld, TokenComing, FreshReplay, FreshAck, CalmNew, CalmBound, Streaming
  <1>14. RanOf(g)'
    <2>1. irLog # <<>> => irChar.out # 0
      BY DEF IrInv, IrHeld
    <2>2. DOMAIN irLog # {} => irLog # <<>>
      OBVIOUS
    <2> QED
      BY <1>1, <1>2, <1>7, <1>8, <1>9, <2>1, <2>2, IrFacts DEF GateInv, RanOf
  <1>15. FreshSent(g)'
    <2> SUFFICES ASSUME "late" \notin irPast, NEW j \in IrOf(g), Bound(j)', Newest(j)',
                        NEW i \in DOMAIN irLog, NEW m \in DOMAIN irUp'[j].q, irLog[i][1] = g
                 PROVE  irLog[i][2] < irUp'[j].q[m]
      BY <1>1, <1>8 DEF FreshSent
    <2>1. j \in IrStr /\ irUp'[j].q = irUp[j].q
      BY <1>2, <1>7, IrFacts
    <2>2. Bound(j) /\ Newest(j)
      BY <1>7, <2>1 DEF Bound, Newest
    <2> QED
      BY <1>9, <2>1, <2>2 DEF GateInv, FreshSent
  <1>16. CalmKept(g)'
    BY <1>1, <1>8, <1>9 DEF GateInv, CalmKept
  <1>17. CalmSeq(g)'
    <2> SUFFICES ASSUME Calm, NEW j \in IrOf(g), NEW i \in DOMAIN irUp'[j].q
                 PROVE  /\ irUp'[j].bound = "new" => irUp'[j].q[i] = i
                        /\ j = irChar.out /\ ~irChar.frozen => irUp'[j].q[i] = irChar.applied + i
      BY <1>1, <1>8 DEF CalmSeq
    <2>1. irUp'[j].q = irUp[j].q /\ irUp'[j].bound = irUp[j].bound
      BY <1>2, <1>7, IrFacts
    <2> QED
      BY <1>9, <2>1 DEF GateInv, CalmSeq
  <1>18. GateInv(g)'
    BY <1>10, <1>11, <1>12, <1>13, <1>14, <1>15, <1>16, <1>17 DEF GateInv
  <1>19. \A j \in IrStr : irUp[j].g # g => irUp'[j] = irUp[j] /\ irDown'[j] = irDown[j]
    BY <1>0, <1>1, <1>4
  <1>20. \A j \in IrOf(g) : irUp[j].q = <<>> => irUp'[j].q = <<>> \/ j = irGate[g].at
    BY <1>2, <1>7, IrFacts
  <1>21. \A j \in IrOf(g) : irDown'[j] = irDown[j] \/ (irDown[j] # <<>> /\ irDown'[j] = Tail(irDown[j]))
    BY <1>1
  <1>22. irGate' \in [IrGates -> IrSession] /\ irDown' \in [IrStr -> Seq(IrFrame)]
         /\ (\A h \in IrGates : h # g => irGate'[h] = irGate[h])
    BY <1>1, <1>3
  <1> QED
    BY <1>1, <1>2, <1>6, <1>7, <1>18, <1>19, <1>20, <1>21, <1>22, IrGateSide

\* What a step of the character's keeps of a gate whose streams it leaves alone: the
\* token, fence and calm parts are the step's.
LEMMA IrGateRests ==
  ASSUME IrInv, NEW h \in IrGates, UNCHANGED <<irGate, irUp, irLog>>, Cur' = Cur,
         irChar'.applied = irChar.applied, "late" \in irPast => "late" \in irPast'
  PROVE  /\ GateHas(h)' /\ \A k \in IrOf(h) : StreamSent(h, k)'
         /\ IrOf(h)' = IrOf(h) /\ End(h)' = End(h)
         /\ RanOf(h)' /\ FreshSent(h)' /\ FreshReplay(h)'
  <1>1. GateInv(h)
    BY DEF IrInv
  <1>2. IrOf(h)' = IrOf(h)
    BY DEF IrOf
  <1>3. GateHas(h)'
    BY <1>1, <1>2 DEF GateInv, GateHas
  <1>4. \A k \in IrOf(h) : StreamSent(h, k)'
    BY <1>1 DEF GateInv, StreamSent
  <1>5. RanOf(h)'
    BY <1>1, <1>2 DEF GateInv, RanOf
  <1>6. FreshSent(h)' /\ FreshReplay(h)'
    BY <1>1, <1>2 DEF GateInv, FreshSent, FreshReplay, Bound, Newest
  <1>7. End(h)' = End(h)
    BY DEF End
  <1> QED
    BY <1>2, <1>3, <1>4, <1>5, <1>6, <1>7

\* A move begins: the character is frozen.
LEMMA IrFreezeKeeps == ASSUME IrInv, IrFreeze PROVE IrInv'
  <1>1. /\ UNCHANGED <<irGate, irUp, irDown, irPend, irLog, irPast>>
        /\ irChar.at # IrNone /\ ~irChar.frozen
        /\ irChar' = [irChar EXCEPT !.frozen = TRUE, !.moves = @ + 1]
    BY DEF IrFreeze
  <1>2. irChar \in [at : IrShards \cup {IrNone}, frozen : BOOLEAN, applied : 0..IrLines, out : 0..IrStreams, moves : Nat]
    BY DEF IrInv, IrShape
  <1>3. irChar'.frozen /\ irChar'.at = irChar.at /\ irChar'.applied = irChar.applied /\ irChar'.out = irChar.out
    BY <1>1, <1>2
  <1>4. IrShape'
    <2>0. PICK m \in Nat : m = irChar.moves + 1
      BY <1>2
    <2>1. irChar' = [irChar EXCEPT !.frozen = TRUE, !.moves = m]
      BY <1>1, <1>2, <2>0
    <2>3. irChar' \in [at : IrShards \cup {IrNone}, frozen : BOOLEAN, applied : 0..IrLines, out : 0..IrStreams, moves : Nat]
      BY <1>2, <2>1
    <2> QED
      BY <1>1, <2>3 DEF IrInv, IrShape
  <1>5. Cur' = Cur /\ Calm' = Calm
    BY <1>1, <1>3 DEF Cur, Calm
  <1>6. \A h \in IrGates : GateInv(h)'
    <2> SUFFICES ASSUME NEW h \in IrGates PROVE GateInv(h)'
      OBVIOUS
    <2>1. GateInv(h)
      BY DEF IrInv
    <2>2. /\ GateHas(h)' /\ \A k \in IrOf(h) : StreamSent(h, k)'
          /\ IrOf(h)' = IrOf(h) /\ End(h)' = End(h)
          /\ RanOf(h)' /\ FreshSent(h)' /\ FreshReplay(h)'
      BY <1>1, <1>3, <1>5, IrGateRests
    <2>3. (\A k \in IrOf(h) : StreamHas(h, k))'
      BY <1>1, <2>1, <2>2 DEF GateInv, StreamHas
    <2>4. TokenSent(h)' /\ TokenHeld(h)' /\ TokenComing(h)'
      BY <1>1, <1>3, <1>5, <2>1, <2>2 DEF GateInv, TokenSent, TokenHeld, TokenComing
    <2>5. FreshAck(h)'
      BY <1>1, <2>1 DEF GateInv, FreshAck
    <2>6. CalmKept(h)' /\ CalmSeq(h)' /\ CalmNew(h)' /\ CalmBound(h)'
      BY <1>1, <1>3, <1>5, <2>1, <2>2 DEF GateInv, CalmKept, CalmSeq, CalmNew, CalmBound
    <2> QED
      BY <2>2, <2>3, <2>4, <2>5, <2>6 DEF GateInv
  <1>7. IrPrefix' /\ IrUnused' /\ IrResume'
    BY <1>1 DEF IrInv, IrPrefix, Used, IrUnused, IrResume
  <1>8. IrHeld'
    <2>1. irChar.out # 0
      BY <1>1 DEF IrInv, IrHeld
    <2> QED
      BY <1>1, <1>3, <1>5, <2>1 DEF IrInv, IrHeld, Bound, Newest
  <1>9. IrDrained' /\ IrOrder' /\ CalmRan' /\ CalmAcks'
    BY <1>1, <1>3, <1>5 DEF IrInv, IrDrained, Bound, Newest, IrOrder, InOrder, CalmRan, CalmAcks
  <1> QED
    BY <1>4, <1>6, <1>7, <1>8, <1>9 DEF IrInv

\* A move is aborted: the history is calm no longer.
LEMMA IrAbortKeeps == ASSUME IrInv, IrAbort PROVE IrInv'
  <1>1. /\ UNCHANGED <<irGate, irUp, irDown, irPend, irLog>>
        /\ irChar.frozen /\ irPend.at = IrNone
        /\ irChar' = [irChar EXCEPT !.frozen = FALSE] /\ irPast' = irPast \cup {"aborted"}
    BY DEF IrAbort
  <1>2. irChar \in [at : IrShards \cup {IrNone}, frozen : BOOLEAN, applied : 0..IrLines, out : 0..IrStreams, moves : Nat]
    BY DEF IrInv, IrShape
  <1>3. ~irChar'.frozen /\ irChar'.at = irChar.at /\ irChar'.applied = irChar.applied /\ irChar'.out = irChar.out
    BY <1>1, <1>2
  <1>4. IrShape'
    <2>1. irChar' \in [at : IrShards \cup {IrNone}, frozen : BOOLEAN, applied : 0..IrLines, out : 0..IrStreams, moves : Nat]
      BY <1>1, <1>2
    <2> QED
      BY <1>1, <2>1 DEF IrInv, IrShape
  <1>5. Cur' = Cur /\ ~Calm' /\ \A x \in {"late", "taken", "refused"} : x \in irPast' <=> x \in irPast
    BY <1>1, <1>3 DEF Cur, Calm
  <1>6. \A h \in IrGates : GateInv(h)'
    <2> SUFFICES ASSUME NEW h \in IrGates PROVE GateInv(h)'
      OBVIOUS
    <2>1. GateInv(h)
      BY DEF IrInv
    <2>2. /\ GateHas(h)' /\ \A k \in IrOf(h) : StreamSent(h, k)'
          /\ IrOf(h)' = IrOf(h) /\ End(h)' = End(h)
          /\ RanOf(h)' /\ FreshSent(h)' /\ FreshReplay(h)'
      BY <1>1, <1>3, <1>5, IrGateRests
    <2>3. (\A k \in IrOf(h) : StreamHas(h, k))'
      BY <1>1, <2>1, <2>2 DEF GateInv, StreamHas
    <2>4. TokenSent(h)' /\ TokenHeld(h)' /\ TokenComing(h)'
      BY <1>1, <1>3, <1>5, <2>1, <2>2 DEF GateInv, TokenSent, TokenHeld, TokenComing
    <2>5. FreshAck(h)'
      BY <1>1, <1>5, <2>1 DEF GateInv, FreshAck
    <2>6. CalmKept(h)' /\ CalmSeq(h)' /\ CalmNew(h)' /\ CalmBound(h)'
      BY <1>5 DEF CalmKept, CalmSeq, CalmNew, CalmBound
    <2> QED
      BY <2>2, <2>3, <2>4, <2>5, <2>6 DEF GateInv
  <1>7. IrPrefix' /\ IrUnused' /\ IrResume'
    BY <1>1, <1>5 DEF IrInv, IrPrefix, Used, IrUnused, IrResume
  <1>8. IrHeld'
    BY <1>1, <1>3, <1>5 DEF IrInv, IrHeld, Bound, Newest
  <1>9. IrDrained' /\ IrOrder' /\ CalmRan' /\ CalmAcks'
    BY <1>1, <1>3, <1>5 DEF IrInv, IrDrained, Bound, Newest, IrOrder, InOrder, CalmRan, CalmAcks
  <1> QED
    BY <1>4, <1>6, <1>7, <1>8, <1>9 DEF IrInv

-----------------------------------------------------------------------------
(* A stream is opened, a move commits, and lines reach their zone.            *)

\* The stream opened next is the first that is not used.
LEMMA IrNextStream ==
  ASSUME IrInv, NEW k, k = Cardinality(Used) + 1, k \in IrStr
  PROVE  /\ irUp[k].g = 0 /\ irDown[k] = <<>> /\ ~Bound(k)
         /\ \A j \in IrStr : irUp[j].g # 0 <=> j < k
         /\ irChar.out # k
  <1>1. PICK m \in 0..IrStreams : Used = 1..m
    BY DEF IrInv, IrPrefix
  <1>2. Cardinality(1..m) = m
    BY <1>1, FS_Interval
  <1>3. k = m + 1
    BY <1>1, <1>2
  <1>4. \A j \in IrStr : irUp[j].g # 0 <=> j < k
    <2> SUFFICES ASSUME NEW j \in IrStr PROVE irUp[j].g # 0 <=> j < k
      OBVIOUS
    <2>1. irUp[j].g # 0 <=> j \in Used
      BY DEF Used
    <2>2. j \in 1..m <=> j < k
      BY <1>3 DEF IrStr
    <2> QED
      BY <1>1, <2>1, <2>2
  <1>5. irUp[k].g = 0
    BY <1>3, <1>4
  <1>6. irDown[k] = <<>> /\ ~Bound(k)
    BY <1>5 DEF IrInv, IrUnused, Bound
  <1>7. irChar.out # k
    BY <1>5, IrFacts, IrNums
  <1> QED
    BY <1>4, <1>5, <1>6, <1>7

\* runStream: a session opens a stream.
LEMMA IrStreamKeeps == ASSUME IrInv, NEW g \in IrGates, runStream(g) PROVE IrInv'
  <1> DEFINE G == irGate[g]
             H(k) == [G EXCEPT !.st = "wait", !.at = k, !.frozen = @ \/ G.token]
             r == [g |-> g, s |-> G.to, resume |-> G.next + 1, token |-> G.token, bound |-> "new", q |-> <<>>]
  <1>1. PICK k \in IrStr : k = Cardinality(Used) + 1
    BY DEF runStream
  <1>2. /\ G.st = "dial" /\ irGate' = [irGate EXCEPT ![g] = H(k)] /\ irUp' = [irUp EXCEPT ![k] = r]
        /\ UNCHANGED <<irDown, irChar, irPend, irLog, irPast>>
    BY <1>1 DEF runStream
  <1>3. /\ irUp[k].g = 0 /\ irDown[k] = <<>> /\ ~Bound(k) /\ irChar.out # k
        /\ \A j \in IrStr : irUp[j].g # 0 <=> j < k
    BY <1>1, IrNextStream
  <1>4. GateInv(g) /\ G \in IrSession /\ G.next \in Nat
    BY IrNats DEF IrInv
  <1>5. /\ irGate \in [IrGates -> IrSession] /\ irUp \in [IrStr -> IrStream] /\ irDown \in [IrStr -> Seq(IrFrame)]
    BY IrFacts
  <1>6. G.held = 0 /\ ~(G.frozen /\ ~G.token)
    BY <1>2, <1>4 DEF GateInv, GateHas, Streaming
  <1>7. k \in 0..IrStreams /\ k \in Nat
    BY IrAssumption DEF IrStr
  <1>8. H(k) \in IrSession
    BY <1>4, <1>7 DEF IrSession
  <1>9. /\ irGate'[g].st = "wait" /\ irGate'[g].next = G.next /\ irGate'[g].buf = G.buf
        /\ irGate'[g].frozen = G.token /\ irGate'[g].held = 0 /\ irGate'[g].at = k
        /\ irGate'[g].token = G.token
        /\ irGate' \in [IrGates -> IrSession] /\ \A h \in IrGates : h # g => irGate'[h] = irGate[h]
    BY <1>2, <1>4, <1>5, <1>6, <1>8 DEF IrSession
  <1>10. r \in IrStream
    <2>1. G.next + 1 \in 0..(IrLines + 1)
      BY <1>4, IrAssumption DEF IrSession
    <2>2. g \in 0..IrSessions
      BY DEF IrGates
    <2> QED
      BY <1>4, <2>1, <2>2 DEF IrStream, IrSession
  <1>11. irUp' \in [IrStr -> IrStream] /\ irUp'[k] = r /\ \A j \in IrStr : j # k => irUp'[j] = irUp[j]
    BY <1>2, <1>5, <1>10
  <1>12. /\ irUp'[k].g = g /\ irUp'[k].s = G.to /\ irUp'[k].resume = G.next + 1 /\ irUp'[k].token = G.token
         /\ irUp'[k].bound = "new" /\ irUp'[k].q = <<>>
    BY <1>11
  <1> HIDE DEF H, r
  <1>13. IrOf(g)' = IrOf(g) \cup {k} /\ \A h \in IrGates : h # g => IrOf(h)' = IrOf(h)
    <2>1. \A h \in IrGates : k \notin IrOf(h)
      BY <1>3, IrNums DEF IrOf
    <2>2. \A j \in IrStr : irUp'[j].g = IF j = k THEN g ELSE irUp[j].g
      BY <1>11, <1>12
    <2>3. IrOf(g)' = IrOf(g) \cup {k}
      BY <2>2 DEF IrOf
    <2>4. ASSUME NEW h \in IrGates, h # g PROVE IrOf(h)' = IrOf(h)
      BY <2>1, <2>2, <2>4 DEF IrOf
    <2> QED
      BY <2>3, <2>4
  <1>14. irChar.out # 0 => Cur' = Cur
    BY <1>2, <1>3, <1>11, IrFacts DEF Cur
  <1>15. \A j \in IrStr : (Bound(j)' <=> Bound(j)) /\ (Bound(j) => j # k)
    BY <1>3, <1>11, <1>12 DEF Bound
  <1>16. \A j \in IrStr : j # k => (Newest(j)' <=> Newest(j))
    BY <1>11, <1>15 DEF Newest
  <1>17. \A j \in IrOf(g) : j \in IrStr /\ j < k /\ irUp'[j] = irUp[j] /\ j # k
    BY <1>3, <1>11, IrNums DEF IrOf
  <1>18. \A h \in IrGates : h # g => GateInv(h)'
    <2> SUFFICES ASSUME NEW h \in IrGates, h # g PROVE GateInv(h)'
      OBVIOUS
    <2>1. \A j \in IrOf(h) : irUp'[j] = irUp[j] /\ irDown'[j] = irDown[j]
      BY <1>2, <1>3, <1>11, IrNums DEF IrOf
    <2>2. irPast \subseteq irPast' /\ IrOf(h)' = IrOf(h) /\ irGate'[h] = irGate[h]
      BY <1>2, <1>9, <1>13
    <2> QED
      BY <1>2, <1>14, <2>1, <2>2, IrOthers
  <1>19. GateHas(g)'
    <2>1. \A j \in IrOf(g)' : j <= k
      <3> SUFFICES ASSUME NEW j \in IrOf(g) \cup {k} PROVE j <= k
        BY <1>13
      <3>1. j = k \/ (j \in Nat /\ j < k)
        BY <1>17 DEF IrStr
      <3> QED
        BY <1>7, <3>1
    <2>2. k # 0 /\ G.buf \subseteq 1..G.next
      BY <1>4, IrNums DEF GateInv, GateHas
    <2> QED
      BY <1>9, <1>12, <2>1, <2>2 DEF GateHas
  <1>20. \A j \in IrOf(g) : StreamHas(g, j) /\ StreamSent(g, j) /\ irUp[j].bound # "new"
         /\ (irUp[j].bound = "bound" => G.token)
    BY <1>2, <1>4 DEF GateInv, StreamHas, Streaming
  <1>21. (\A j \in IrOf(g) : StreamHas(g, j) /\ StreamSent(g, j))'
    <2> SUFFICES ASSUME NEW j \in IrOf(g) \cup {k} PROVE StreamHas(g, j)' /\ StreamSent(g, j)'
      BY <1>13
    <2>1. CASE j = k
      BY <1>2, <1>3, <1>9, <1>12, <2>1 DEF StreamHas, StreamSent
    <2>2. CASE j \in IrOf(g)
      <3>1. StreamHas(g, j)'
        BY <1>2, <1>9, <1>17, <1>20, <2>2 DEF StreamHas
      <3>2. StreamSent(g, j)'
        BY <1>6, <1>9, <1>17, <1>20, <2>2 DEF StreamSent
      <3> QED
        BY <3>1, <3>2
    <2> QED
      BY <2>1, <2>2
  <1>22. TokenSent(g)'
    <2> SUFFICES ASSUME G.token PROVE irPend.at = G.to /\ g = Cur'
      BY <1>2, <1>12, <1>13, <1>17, <1>20 DEF TokenSent
    <2>1. irPend.at = G.to /\ irPend.at # IrNone /\ g = Cur
      BY <1>2, <1>4 DEF GateInv, TokenHeld
    <2> QED
      BY <1>14, <2>1, IrFacts
  <1>23. TokenHeld(g)' /\ TokenComing(g)'
    BY <1>2, <1>3, <1>9 DEF TokenHeld, TokenComing
  <1>24. RanOf(g)'
    <2>1. irLog # <<>> => irChar.out # 0
      BY DEF IrInv, IrHeld
    <2>2. DOMAIN irLog # {} => irLog # <<>>
      OBVIOUS
    <2>3. \A j \in IrOf(g) : j \in IrOf(g)' /\ irUp'[j].bound = irUp[j].bound
      BY <1>13, <1>17
    <2>4. RanOf(g)
      BY <1>4 DEF GateInv
    <2> QED
      BY <1>2, <1>9, <1>14, <2>1, <2>2, <2>3, <2>4 DEF RanOf
  <1>25. FreshSent(g)'
    <2> SUFFICES ASSUME "late" \notin irPast, NEW j \in IrOf(g) \cup {k}, Bound(j)', Newest(j)',
                        NEW i \in DOMAIN irLog, NEW m \in DOMAIN irUp'[j].q, irLog[i][1] = g
                 PROVE  irLog[i][2] < irUp'[j].q[m]
      BY <1>2, <1>13 DEF FreshSent
    <2>1. j \in IrOf(g) /\ Bound(j) /\ Newest(j) /\ irUp'[j] = irUp[j]
      BY <1>15, <1>16, <1>17
    <2> QED
      BY <1>4, <2>1 DEF GateInv, FreshSent
  <1>26. FreshReplay(g)' /\ FreshAck(g)'
    BY <1>9, <1>12 DEF FreshReplay, FreshAck
  <1>27. CalmKept(g)'
    <2>1. CalmKept(g) /\ Calm' = Calm
      BY <1>2, <1>4 DEF GateInv, Calm
    <2> QED
      BY <1>2, <1>9, <1>14, <2>1 DEF CalmKept
  <1>28. CalmSeq(g)'
    <2> SUFFICES ASSUME Calm, NEW j \in IrOf(g) \cup {k}, NEW i \in DOMAIN irUp'[j].q
                 PROVE  /\ irUp'[j].bound = "new" => irUp'[j].q[i] = i
                        /\ j = irChar.out /\ ~irChar.frozen => irUp'[j].q[i] = irChar.applied + i
      BY <1>2, <1>13 DEF CalmSeq, Calm
    <2>1. j \in IrOf(g) /\ irUp'[j] = irUp[j]
      BY <1>12, <1>17
    <2> QED
      BY <1>4, <2>1 DEF GateInv, CalmSeq
  <1>29. CalmNew(g)'
    <2> SUFFICES ASSUME Calm, ~G.token PROVE G.next = 0
      <3>1. Calm' = Calm /\ (~G.token => End(g)' = G.next)
        BY <1>2, <1>9 DEF Calm, End
      <3>2. Gapless(<<>>, 0, 0)
        BY DEF Gapless
      <3> QED
        BY <1>9, <1>12, <3>1, <3>2 DEF CalmNew
    <2>1. G.at # 0 => irUp[G.at].bound = "refused"
      <3> SUFFICES ASSUME G.at # 0 PROVE irUp[G.at].bound = "refused"
        OBVIOUS
      <3>1. G.at \in IrOf(g) /\ irUp[G.at] \in IrStream
        BY <1>5, IrFacts
      <3> QED
        BY <1>20, <3>1 DEF IrStream
    <2>2. G.at = 0
      BY <2>1, IrFacts DEF IrInv, IrResume, Calm
    <2> QED
      BY <1>4, <2>2 DEF GateInv, GateHas
  <1>30. CalmBound(g)'
    BY <1>2, <1>3, <1>9 DEF CalmBound
  <1>31. GateInv(g)'
    BY <1>19, <1>21, <1>22, <1>23, <1>24, <1>25, <1>26, <1>27, <1>28, <1>29, <1>30 DEF GateInv
  <1>32. IrShape'
    BY <1>2, <1>9, <1>11 DEF IrInv, IrShape
  <1>33. IrPrefix'
    <2>1. PICK m \in 0..IrStreams : Used = 1..m
      BY DEF IrInv, IrPrefix
    <2>2. Used' = 1..k
      <3>1. \A j \in IrStr : irUp'[j].g # 0 <=> j <= k
        BY <1>3, <1>7, <1>11, <1>12, IrNums DEF IrStr
      <3>2. \A j \in Nat : j \in IrStr /\ j <= k <=> j \in 1..k
        BY <1>7, IrAssumption DEF IrStr
      <3> QED
        BY <3>1, <3>2 DEF Used, IrStr
    <2> QED
      BY <1>7, <2>2 DEF IrPrefix
  <1>34. IrUnused' /\ IrResume'
    <2>1. IrUnused'
      BY <1>2, <1>11, <1>12, IrNums DEF IrInv, IrUnused
    <2>2. G.to # IrNone /\ G.next + 1 # 0
      BY <1>4, IrAssumption DEF IrSession
    <2>3. IrResume'
      BY <1>2, <1>11, <1>12, <2>2 DEF IrInv, IrResume
    <2> QED
      BY <2>1, <2>3
  <1>35. IrHeld'
    <2>1. IrHeld
      BY DEF IrInv
    <2>2. CASE irChar.out = 0
      BY <1>2, <1>15, <2>1, <2>2 DEF IrHeld
    <2>3. CASE irChar.out # 0
      <3>1. irChar.out \in IrStr /\ irChar.out # k /\ irUp'[irChar.out] = irUp[irChar.out]
        BY <1>3, <1>11, <2>3, IrFacts
      <3>2. \A j \in IrStr : Bound(j)' => irUp'[j].g = irUp[j].g
        BY <1>11, <1>15
      <3> QED
        BY <1>2, <1>14, <1>15, <1>16, <2>1, <2>3, <3>1, <3>2 DEF IrHeld
    <2> QED
      BY <2>2, <2>3
  <1>36. IrDrained'
    BY <1>2, <1>11, <1>15, <1>16 DEF IrInv, IrDrained
  <1>37. IrOrder' /\ CalmRan' /\ CalmAcks'
    <2>1. IrOrder'
      BY <1>2, <1>14 DEF IrInv, IrOrder, InOrder
    <2>2. CalmRan'
      BY <1>2, <1>14 DEF IrInv, CalmRan, Calm
    <2>3. CalmAcks'
      BY <1>2 DEF IrInv, CalmAcks, Calm
    <2> QED
      BY <2>1, <2>2, <2>3
  <1> QED
    BY <1>18, <1>31, <1>32, <1>33, <1>34, <1>35, <1>36, <1>37 DEF IrInv

\* A frame written to stream k.
LEMMA IrTold ==
  ASSUME NEW D \in [IrStr -> Seq(IrFrame)], NEW k \in IrStr, NEW f \in IrFrame,
         NEW E, E = [D EXCEPT ![k] = Append(@, f)]
  PROVE  /\ E \in [IrStr -> Seq(IrFrame)] /\ \A j \in IrStr : j # k => E[j] = D[j]
         /\ E[k] # <<>> /\ \A j \in IrStr : D[j] # <<>> => E[j] # <<>> /\ E[j][1] = D[j][1]
         /\ D[k] = <<>> => E[k][1] = f
         /\ \A j \in IrStr : \A i \in DOMAIN E[j] : (i \in DOMAIN D[j] /\ E[j][i] = D[j][i]) \/ (j = k /\ E[j][i] = f)
  <1> DEFINE d == D[k]
             e == Append(d, f)
  <1>1. d \in Seq(IrFrame)
    OBVIOUS
  <1> HIDE DEF d
  <1>2. /\ e \in Seq(IrFrame) /\ e # <<>> /\ (d # <<>> => e[1] = d[1]) /\ (d = <<>> => e[1] = f)
        /\ \A i \in DOMAIN e : (i \in DOMAIN d /\ e[i] = d[i]) \/ e[i] = f
    <2>1. e \in Seq(IrFrame) /\ Len(e) = Len(d) + 1 /\ Len(d) \in Nat /\ DOMAIN e = 1..(Len(d) + 1) /\ DOMAIN d = 1..Len(d)
      BY <1>1
    <2>2. \A i \in 1..Len(d) : e[i] = d[i]
      BY <1>1
    <2>3. e[Len(d) + 1] = f
      BY <1>1
    <2>4. (d # <<>> => Len(d) # 0) /\ (d = <<>> => Len(d) = 0)
      BY <1>1
    <2> HIDE DEF e
    <2>5. e # <<>> /\ (d # <<>> => e[1] = d[1]) /\ (d = <<>> => e[1] = f)
      BY <2>1, <2>2, <2>3, <2>4
    <2>6. \A i \in DOMAIN e : (i \in DOMAIN d /\ e[i] = d[i]) \/ e[i] = f
      BY <2>1, <2>2, <2>3
    <2> QED
      BY <2>1, <2>5, <2>6
  <1> HIDE DEF e
  <1>3. E = [D EXCEPT ![k] = e]
    BY DEF e, d
  <1>4. E[k] = e /\ E \in [IrStr -> Seq(IrFrame)] /\ \A j \in IrStr : j # k => E[j] = D[j]
    BY <1>2, <1>3
  <1>5. \A j \in IrStr : D[j] # <<>> => E[j] # <<>> /\ E[j][1] = D[j][1]
    BY <1>2, <1>4 DEF d
  <1>6. ASSUME NEW j \in IrStr, NEW i \in DOMAIN E[j]
        PROVE  (i \in DOMAIN D[j] /\ E[j][i] = D[j][i]) \/ (j = k /\ E[j][i] = f)
    <2>1. CASE j = k
      BY <1>2, <1>4, <2>1 DEF d
    <2>2. CASE j # k
      BY <1>4, <2>2
    <2> QED
      BY <2>1, <2>2
  <1>7. (D[k] = <<>> => E[k][1] = f) /\ E[k] # <<>>
    BY <1>2, <1>4 DEF d
  <1> QED
    BY <1>4, <1>5, <1>6, <1>7

\* A move commits: the copy is prepared with the fence and the gate redirected.
LEMMA IrCommitKeeps == ASSUME IrInv, NEW t \in IrShards, IrCommit(t) PROVE IrInv'
  <1> DEFINE o == irChar.out
             f == frame("redirect", irChar.applied, t)
  <1>1. /\ UNCHANGED <<irGate, irUp, irChar, irLog>>
        /\ irChar.at \in IrShards /\ irChar.at # t /\ irChar.frozen /\ irPend.at = IrNone
        /\ irPend' = [at |-> t, applied |-> irChar.applied]
        /\ irDown' = [irDown EXCEPT ![o] = Append(@, f)]
        /\ irPast' \in {irPast, irPast \cup {"late"}}
        /\ "late" \notin irPast' => \A k \in IrStr : irUp[k].bound = "bound" /\ irUp[k].s = t => irUp[k].q = <<>>
    BY DEF IrCommit, snapshot
  <1>2. /\ irChar \in [at : IrShards \cup {IrNone}, frozen : BOOLEAN, applied : 0..IrLines, out : 0..IrStreams, moves : Nat]
        /\ irGate \in [IrGates -> IrSession] /\ irUp \in [IrStr -> IrStream] /\ irDown \in [IrStr -> Seq(IrFrame)]
    BY DEF IrInv, IrShape
  <1>3. o # 0 /\ t # IrNone /\ irChar.at # IrNone
    BY <1>1, IrAssumption DEF IrInv, IrHeld
  <1>4. o \in IrStr /\ Cur \in IrGates /\ irUp[o].bound = "bound" /\ irUp[o].g # 0
    BY <1>3, IrFacts DEF IrInv, IrHeld, Bound
  <1>5. f \in IrFrame /\ f.kind = "redirect" /\ f.ack = irChar.applied /\ f.to = t
    BY <1>2 DEF IrFrame, frame
  <1> HIDE DEF f
  <1>6. /\ irDown' \in [IrStr -> Seq(IrFrame)] /\ \A j \in IrStr : j # o => irDown'[j] = irDown[j]
        /\ \A j \in IrStr : irDown[j] # <<>> => irDown'[j] # <<>> /\ irDown'[j][1] = irDown[j][1]
        /\ \A j \in IrStr : \A i \in DOMAIN irDown'[j] :
             (i \in DOMAIN irDown[j] /\ irDown'[j][i] = irDown[j][i]) \/ (j = o /\ irDown'[j][i] = f)
    <2>1. irDown' = [irDown EXCEPT ![o] = Append(@, f)]
      BY <1>1
    <2>2. irDown \in [IrStr -> Seq(IrFrame)] /\ o \in IrStr /\ f \in IrFrame
      BY <1>2, <1>4, <1>5
    <2> HIDE DEF o
    <2> QED
      BY <2>1, <2>2, IrTold
  <1>7. irPend'.at = t /\ irPend'.applied = irChar.applied
    BY <1>1
  <1>8. /\ Cur' = Cur /\ (Calm' => Calm) /\ ("late" \in irPast => "late" \in irPast')
        /\ \A x \in {"taken", "refused"} : x \in irPast' <=> x \in irPast
    BY <1>1 DEF Cur, Calm
  <1>9. \A h \in IrGates : GateInv(h)'
    <2> SUFFICES ASSUME NEW h \in IrGates PROVE GateInv(h)'
      OBVIOUS
    <2> DEFINE a == irGate[h].at
    <2>1. GateInv(h)
      BY DEF IrInv
    <2>2. /\ GateHas(h)' /\ \A k \in IrOf(h) : StreamSent(h, k)'
          /\ IrOf(h)' = IrOf(h) /\ End(h)' = End(h)
          /\ RanOf(h)' /\ FreshSent(h)' /\ FreshReplay(h)'
      BY <1>1, <1>8, IrGateRests
    <2>3. (\A k \in IrOf(h) : StreamHas(h, k))'
      <3> SUFFICES ASSUME NEW k \in IrOf(h) PROVE StreamHas(h, k)'
        BY <2>2
      <3>1. StreamHas(h, k) /\ k \in IrStr
        BY <2>1, IrFacts DEF GateInv
      <3>2. \A i \in DOMAIN irDown'[k] : irDown'[k][i].kind = "refused" <=> irUp[k].bound = "refused"
        BY <1>4, <1>5, <1>6, <3>1 DEF StreamHas
      <3>3. irUp[k].bound = "new" => irDown'[k] = irDown[k]
        BY <1>4, <1>6, <3>1
      <3> QED
        BY <1>1, <3>1, <3>2, <3>3 DEF StreamHas
    <2>4. TokenSent(h)'
      <3> SUFFICES ASSUME NEW k \in IrOf(h), irUp[k].token, irUp[k].bound = "new" PROVE FALSE
        BY <1>1, <2>2 DEF TokenSent
      <3>1. irPend.at = irUp[k].s /\ irUp[k].s # IrNone
        BY <2>1, IrFacts, IrNums DEF GateInv, TokenSent, IrInv, IrResume
      <3> QED
        BY <1>1, <3>1
    <2>5. TokenHeld(h)'
      BY <1>1, <2>1 DEF GateInv, TokenHeld
    <2>6. TokenComing(h)'
      <3> SUFFICES ASSUME irGate[h].st \in Streaming, NEW i \in DOMAIN irDown'[a], irDown'[a][i].kind = "redirect"
                   PROVE  t = irDown'[a][i].to /\ a = o
        BY <1>1, <1>3, <1>7 DEF TokenComing
      <3>1. ~(i \in DOMAIN irDown[a] /\ irDown'[a][i] = irDown[a][i])
        BY <1>1, <2>1 DEF GateInv, TokenComing
      <3>2. a \in IrStr
        BY IrFacts
      <3> QED
        BY <1>5, <1>6, <3>1, <3>2
    <2>7. FreshAck(h)'
      <3> SUFFICES ASSUME "late" \notin irPast, irGate[h].st = "wait", irGate[h].token, irUp[a].bound = "bound"
                   PROVE  /\ irDown'[a] # <<>>
                          /\ \A i \in DOMAIN irLog : irLog[i][1] = h => irLog[i][2] <= irDown'[a][1].ack
        BY <1>1, <1>8 DEF FreshAck
      <3>1. /\ irDown[a] # <<>>
            /\ \A i \in DOMAIN irLog : irLog[i][1] = h => irLog[i][2] <= irDown[a][1].ack
        BY <2>1 DEF GateInv, FreshAck
      <3>2. a \in IrStr
        BY IrFacts DEF Streaming
      <3> QED
        BY <1>6, <3>1, <3>2
    <2>8. CalmKept(h)' /\ CalmSeq(h)' /\ CalmNew(h)' /\ CalmBound(h)'
      <3>1. CalmKept(h)'
        BY <1>1, <1>8, <2>1 DEF GateInv, CalmKept
      <3>2. CalmSeq(h)'
        BY <1>1, <1>8, <2>1, <2>2 DEF GateInv, CalmSeq
      <3>3. CalmNew(h)'
        BY <1>1, <1>8, <2>1, <2>2 DEF GateInv, CalmNew
      <3>4. CalmBound(h)'
        BY <1>1 DEF CalmBound
      <3> QED
        BY <3>1, <3>2, <3>3, <3>4
    <2> QED
      BY <2>2, <2>3, <2>4, <2>5, <2>6, <2>7, <2>8 DEF GateInv
  <1>10. IrShape'
    <2>1. irPend' \in [at : IrShards \cup {IrNone}, applied : 0..IrLines]
      BY <1>1, <1>2
    <2>2. irPast' \subseteq {"refused", "aborted", "taken", "late", "muted"}
      BY <1>1 DEF IrInv, IrShape
    <2> QED
      BY <1>1, <1>6, <2>1, <2>2 DEF IrInv, IrShape
  <1>11. IrPrefix' /\ IrUnused' /\ IrResume'
    <2>1. IrPrefix'
      BY <1>1 DEF IrInv, IrPrefix, Used
    <2>2. IrUnused'
      BY <1>1, <1>4, <1>6 DEF IrInv, IrUnused
    <2>3. IrResume'
      BY <1>1, <1>8 DEF IrInv, IrResume
    <2> QED
      BY <2>1, <2>2, <2>3
  <1>12. IrHeld'
    <2>1. \A j \in IrStr : Bound(j)' = Bound(j) /\ Newest(j)' = Newest(j)
      BY <1>1 DEF Bound, Newest
    <2> QED
      BY <1>1, <1>3, <1>4, <1>7, <1>8, <2>1 DEF IrInv, IrHeld
  <1>13. IrDrained'
    <2> SUFFICES ASSUME "late" \notin irPast', NEW k \in IrStr, Bound(k), irUp[k].s \in {irChar.at, t}, ~Newest(k)
                 PROVE  irUp[k].q = <<>>
      BY <1>1, <1>7 DEF IrDrained, Bound, Newest
    <2>1. CASE irUp[k].s = t
      BY <1>1, <2>1 DEF Bound
    <2>2. CASE irUp[k].s = irChar.at
      BY <1>8, <2>2 DEF IrInv, IrDrained
    <2> QED
      BY <2>1, <2>2
  <1>14. IrOrder' /\ CalmRan'
    <2>1. IrOrder'
      BY <1>1, <1>8 DEF IrInv, IrOrder, InOrder
    <2>2. CalmRan'
      BY <1>1, <1>8 DEF IrInv, CalmRan
    <2> QED
      BY <2>1, <2>2
  <1>15. CalmAcks'
    <2> SUFFICES ASSUME Calm, NEW k \in IrStr, NEW i \in DOMAIN irDown'[k]
                 PROVE irDown'[k][i].ack <= irChar.applied
      BY <1>1, <1>8 DEF CalmAcks
    <2>1. \A j \in DOMAIN irDown[k] : irDown[k][j].ack <= irChar.applied
      BY DEF IrInv, CalmAcks
    <2>2. irChar.applied \in Nat
      BY IrNats
    <2> QED
      BY <1>5, <1>6, <2>1, <2>2
  <1> QED
    BY <1>9, <1>10, <1>11, <1>12, <1>13, <1>14, <1>15 DEF IrInv

\* The line a zone takes next.
LEMMA IrNextLine ==
  ASSUME IrInv, NEW k \in IrStr, irUp[k].bound = "bound", irUp[k].q # <<>>,
         irUp' = [irUp EXCEPT ![k].q = Tail(@)]
  PROVE  LET q == irUp[k].q
             n == Head(q)
         IN /\ n = q[1] /\ n \in IrSeqs /\ n \in Nat /\ 1 \in DOMAIN q
            /\ q \in Seq(Nat) /\ Len(q) \in Nat /\ Len(q) >= 1 /\ DOMAIN q = 1..Len(q)
            /\ Len(Tail(q)) = Len(q) - 1 /\ DOMAIN Tail(q) = 1..(Len(q) - 1)
            /\ \A i \in DOMAIN Tail(q) : i \in Nat /\ i >= 1 /\ i + 1 \in DOMAIN q /\ Tail(q)[i] = q[i + 1] /\ q[i + 1] \in Nat
            /\ irUp' \in [IrStr -> IrStream] /\ irUp'[k].q = Tail(q)
            /\ \A j \in IrStr : j # k => irUp'[j] = irUp[j]
            /\ \A j \in IrStr : /\ irUp'[j].g = irUp[j].g /\ irUp'[j].s = irUp[j].s /\ irUp'[j].resume = irUp[j].resume
                                /\ irUp'[j].token = irUp[j].token /\ irUp'[j].bound = irUp[j].bound
            /\ Bound(k) /\ irUp[k].g \in IrGates /\ k \in IrOf(irUp[k].g)
            /\ \A h \in IrGates : IrOf(h)' = IrOf(h)
  <1> DEFINE q == irUp[k].q
             n == Head(q)
             r == irUp[k]
             w == irUp'[k]
             u == Tail(q)
  <1>1. irUp \in [IrStr -> IrStream] /\ r \in IrStream /\ q \in Seq(IrSeqs) /\ q \in Seq(Nat) /\ q # <<>>
        /\ \A i \in DOMAIN q : q[i] \in Nat
    BY IrFacts, IrNats
  <1>2. /\ n = q[1] /\ n \in IrSeqs /\ 1 \in DOMAIN q
        /\ Len(q) \in Nat /\ Len(q) >= 1 /\ DOMAIN q = 1..Len(q)
        /\ u \in Seq(IrSeqs) /\ Len(u) = Len(q) - 1 /\ DOMAIN u = 1..(Len(q) - 1)
        /\ \A i \in 1..(Len(q) - 1) : u[i] = q[i + 1]
    <2> HIDE DEF q
    <2> QED
      BY <1>1
  <1>3. \A i \in DOMAIN u : i \in Nat /\ i >= 1 /\ i + 1 \in DOMAIN q /\ u[i] = q[i + 1]
    <2> HIDE DEF q, u
    <2> QED
      BY <1>2
  <1>4. w = [r EXCEPT !.q = u] /\ \A j \in IrStr : j # k => irUp'[j] = irUp[j]
    BY <1>1
  <1>5. /\ w \in IrStream /\ w.q = u /\ w.g = r.g /\ w.s = r.s /\ w.resume = r.resume
        /\ w.token = r.token /\ w.bound = r.bound
    <2> HIDE DEF w, r, u
    <2> QED
      BY <1>1, <1>2, <1>4, IrStreamWith
  <1>6. irUp' \in [IrStr -> IrStream]
    <2> SUFFICES ASSUME NEW j \in IrStr PROVE irUp'[j] \in IrStream
      BY <1>1
    <2> QED
      BY <1>1, <1>4, <1>5
  <1>7. \A j \in IrStr : /\ irUp'[j].g = irUp[j].g /\ irUp'[j].s = irUp[j].s /\ irUp'[j].resume = irUp[j].resume
                         /\ irUp'[j].token = irUp[j].token /\ irUp'[j].bound = irUp[j].bound
    BY <1>4, <1>5
  <1>8. irUp[k].g # 0
    BY DEF IrInv, IrUnused
  <1>9. Bound(k) /\ irUp[k].g \in IrGates /\ k \in IrOf(irUp[k].g)
    BY <1>8, IrFacts DEF Bound
  <1>10. \A h \in IrGates : IrOf(h)' = IrOf(h)
    BY <1>7 DEF IrOf
  <1>11. n \in Nat
    BY <1>2 DEF IrSeqs
  <1> QED
    BY <1>1, <1>2, <1>3, <1>4, <1>5, <1>6, <1>7, <1>9, <1>10, <1>11

\* In a calm history the character's bound stream, where it is not frozen, brings the
\* next line.
LEMMA IrCalmLine ==
  ASSUME IrInv, Calm, NEW k \in IrStr, Bound(k), irUp[k].q # <<>>, irUp[k].s = irChar.at
  PROVE  k = irChar.out /\ irUp[k].g = Cur /\ (~irChar.frozen => Head(irUp[k].q) = irChar.applied + 1)
  <1>1. irChar.out # 0
    BY DEF IrInv, IrHeld
  <1>2. irUp[k].g = Cur /\ Newest(irChar.out) /\ Bound(irChar.out) /\ irChar.out \in IrStr
    BY <1>1, IrFacts DEF IrInv, IrHeld, Calm
  <1>3. Newest(k)
    BY DEF IrInv, IrDrained, Calm
  <1>4. k = irChar.out
    <2>1. k <= irChar.out /\ irChar.out <= k
      BY <1>2, <1>3 DEF Newest, Cur
    <2> QED
      BY <1>2, <2>1 DEF IrStr
  <1>5. ~irChar.frozen => Head(irUp[k].q) = irChar.applied + 1
    <2>1. irUp[k].q \in Seq(Nat) /\ Cur \in IrGates /\ k \in IrOf(Cur)
      BY <1>1, <1>4, IrNats, IrFacts
    <2>2. 1 \in DOMAIN irUp[k].q /\ Head(irUp[k].q) = irUp[k].q[1]
      BY <2>1
    <2> QED
      BY <1>4, <2>1, <2>2 DEF IrInv, GateInv, CalmSeq
  <1> QED
    BY <1>2, <1>4, <1>5

\* A line that is dropped: its stream is one line shorter.
LEMMA IrDropKeeps ==
  ASSUME IrInv, NEW k \in IrStr, irUp[k].bound = "bound", irUp[k].q # <<>>,
         irUp' = [irUp EXCEPT ![k].q = Tail(@)],
         UNCHANGED <<irGate, irDown, irChar, irPend, irLog>>, irPast' \in {irPast, irPast \cup {"muted"}},
         ~(irChar.at = irUp[k].s /\ ~irChar.frozen /\ Head(irUp[k].q) > irChar.applied)
  PROVE  IrInv'
  <1>0. PICK g \in IrGates : g = irUp[k].g
    BY IrNextLine
  <1> DEFINE G == irGate[g]
             q == irUp[k].q
  <1>1. /\ Bound(k) /\ k \in IrOf(g) /\ IrOf(g)' = IrOf(g)
        /\ irUp' \in [IrStr -> IrStream] /\ irUp'[k].q = Tail(q)
        /\ \A j \in IrStr : j # k => irUp'[j] = irUp[j]
        /\ \A j \in IrStr : /\ irUp'[j].g = irUp[j].g /\ irUp'[j].s = irUp[j].s /\ irUp'[j].resume = irUp[j].resume
                            /\ irUp'[j].token = irUp[j].token /\ irUp'[j].bound = irUp[j].bound
        /\ \A i \in DOMAIN Tail(q) : i \in Nat /\ i >= 1 /\ i + 1 \in DOMAIN q /\ Tail(q)[i] = q[i + 1] /\ q[i + 1] \in Nat
    BY <1>0, IrNextLine
  <1>2. \A j \in IrOf(g) : \A i \in DOMAIN irUp'[j].q :
           \/ j # k /\ i \in DOMAIN irUp[j].q /\ irUp'[j].q[i] = irUp[j].q[i]
           \/ j = k /\ i \in Nat /\ i + 1 \in DOMAIN irUp[j].q /\ irUp'[j].q[i] = irUp[j].q[i + 1]
    <2> HIDE DEF q
    <2>1. \A j \in IrOf(g) : j \in IrStr
      BY IrFacts
    <2> SUFFICES ASSUME NEW j \in IrOf(g), NEW i \in DOMAIN irUp'[j].q
                 PROVE \/ j # k /\ i \in DOMAIN irUp[j].q /\ irUp'[j].q[i] = irUp[j].q[i]
                       \/ j = k /\ i \in Nat /\ i + 1 \in DOMAIN irUp[j].q /\ irUp'[j].q[i] = irUp[j].q[i + 1]
      OBVIOUS
    <2>2. CASE j = k
      BY <1>1, <2>2 DEF q
    <2>3. CASE j # k
      BY <1>1, <2>1, <2>3
    <2> QED
      BY <2>2, <2>3
  <1>3. (Calm' <=> Calm) /\ \A x \in {"late", "taken", "refused"} : x \in irPast' <=> x \in irPast
    BY CalmNow
  <1>4. Calm => ~(k = irChar.out /\ ~irChar.frozen)
    <2> SUFFICES ASSUME Calm, k = irChar.out, ~irChar.frozen PROVE FALSE
      OBVIOUS
    <2>1. irUp[k].s = irChar.at
      BY IrNums DEF IrInv, IrHeld
    <2>2. Head(irUp[k].q) = irChar.applied + 1
      BY <1>1, <2>1, IrCalmLine
    <2> QED
      BY <2>1, <2>2, IrNats
  <1>6. GateInv(g) /\ (irChar.out # 0 => Cur' = Cur)
    BY <1>1, IrFacts DEF Cur, IrInv
  <1>7. \A j \in IrOf(g) : j \in IrStr /\ irUp'[j].token = irUp[j].token /\ irUp'[j].bound = irUp[j].bound
                           /\ irUp'[j].s = irUp[j].s
    BY <1>1, IrFacts
  <1>8. GateHas(g)'
    <2>1. GateHas(g) /\ (G.at # 0 => G.at \in IrOf(g)) /\ (G.st \in Streaming => G.at # 0)
      BY <1>6, IrFacts DEF GateInv
    <2> QED
      BY <1>1, <1>7, <2>1 DEF GateHas, Streaming
  <1>9. (\A j \in IrOf(g) : StreamHas(g, j) /\ StreamSent(g, j))'
    <2> SUFFICES ASSUME NEW j \in IrOf(g) PROVE StreamHas(g, j)' /\ StreamSent(g, j)'
      BY <1>1
    <2>1. StreamHas(g, j) /\ StreamSent(g, j)
      BY <1>6 DEF GateInv
    <2>2. irUp[j].q = <<>> => irUp'[j].q = <<>>
      BY <1>1, <1>7
    <2>3. StreamHas(g, j)'
      BY <1>7, <2>1, <2>2 DEF StreamHas
    <2>4. StreamSent(g, j)'
      <3>1. CASE j # k
        BY <1>1, <1>7, <2>1, <3>1 DEF StreamSent
      <3>2. CASE j = k
        <4>1. \A i, m \in DOMAIN Tail(q) : i < m => i + 1 < m + 1
          BY <1>1
        <4> HIDE DEF q
        <4> QED
          BY <1>1, <2>1, <3>2, <4>1 DEF StreamSent, q
      <3> QED
        BY <3>1, <3>2
    <2> QED
      BY <2>3, <2>4
  <1>10. TokenSent(g)'
    <2> SUFFICES ASSUME NEW j \in IrOf(g), irUp[j].token, irUp[j].bound = "new"
                 PROVE  irPend.at = irUp[j].s /\ g = Cur'
      BY <1>1, <1>7 DEF TokenSent
    <2>1. irPend.at = irUp[j].s /\ g = Cur /\ irUp[j].s # IrNone
      BY <1>6, <1>7, IrFacts, IrNums DEF GateInv, TokenSent, IrInv, IrResume
    <2> QED
      BY <1>6, <2>1, IrFacts
  <1>11. TokenHeld(g)' /\ TokenComing(g)'
    <2>1. TokenHeld(g)'
      BY <1>6, IrFacts DEF GateInv, TokenHeld
    <2>2. TokenComing(g)'
      BY <1>6 DEF GateInv, TokenComing
    <2> QED
      BY <2>1, <2>2
  <1>12. RanOf(g)'
    <2>1. irLog # <<>> => irChar.out # 0
      BY DEF IrInv, IrHeld
    <2>2. DOMAIN irLog # {} => irLog # <<>>
      OBVIOUS
    <2> QED
      BY <1>1, <1>6, <1>7, <2>1, <2>2 DEF GateInv, RanOf
  <1>13. FreshSent(g)'
    <2> SUFFICES ASSUME "late" \notin irPast, NEW j \in IrOf(g), Bound(j)', Newest(j)',
                        NEW i \in DOMAIN irLog, NEW m \in DOMAIN irUp'[j].q, irLog[i][1] = g
                 PROVE  irLog[i][2] < irUp'[j].q[m]
      BY <1>1, <1>3 DEF FreshSent
    <2>1. Bound(j) /\ Newest(j)
      BY <1>1, <1>7 DEF Bound, Newest
    <2> QED
      BY <1>2, <1>6, <2>1 DEF GateInv, FreshSent
  <1>14. FreshReplay(g)' /\ FreshAck(g)'
    <2>1. FreshReplay(g)'
      BY <1>3, <1>6 DEF GateInv, FreshReplay
    <2>2. G.st = "wait" => irUp'[G.at].bound = irUp[G.at].bound
      BY <1>7, IrFacts DEF Streaming
    <2>3. FreshAck(g)'
      BY <1>3, <1>6, <2>2 DEF GateInv, FreshAck
    <2> QED
      BY <2>1, <2>3
  <1>15. CalmKept(g)'
    BY <1>3, <1>6 DEF GateInv, CalmKept
  <1>16. CalmSeq(g)'
    <2> SUFFICES ASSUME Calm, NEW j \in IrOf(g), NEW i \in DOMAIN irUp'[j].q
                 PROVE  /\ irUp'[j].bound = "new" => irUp'[j].q[i] = i
                        /\ j = irChar.out /\ ~irChar.frozen => irUp'[j].q[i] = irChar.applied + i
      BY <1>1, <1>3 DEF CalmSeq
    <2>1. CASE j = k
      BY <1>4, <1>7, <2>1
    <2>2. CASE j # k
      BY <1>2, <1>6, <1>7, <2>2 DEF GateInv, CalmSeq
    <2> QED
      BY <2>1, <2>2
  <1>17. End(g)' = End(g)
    BY DEF End
  <1>18. CalmNew(g)'
    <2> SUFFICES ASSUME Calm, G.st = "wait", ~G.token, irUp'[G.at].bound = "new"
                 PROVE  Gapless(irUp'[G.at].q, 0, End(g))
      BY <1>3, <1>17 DEF CalmNew
    <2>1. G.at \in IrOf(g)
      BY IrFacts DEF Streaming
    <2>2. G.at # k /\ irUp[G.at].bound = "new"
      BY <1>7, <2>1
    <2> QED
      BY <1>1, <1>6, <1>7, <2>1, <2>2 DEF GateInv, CalmNew
  <1>19. CalmBound(g)'
    <2> SUFFICES ASSUME Calm, G.st \in Streaming, G.at = irChar.out, ~irChar.frozen
                 PROVE  End(g) >= irChar.applied /\ Gapless(irUp'[G.at].q, irChar.applied, End(g))
      BY <1>3, <1>17 DEF CalmBound
    <2>1. G.at \in IrStr /\ G.at # k
      BY <1>4, <1>7, IrFacts
    <2> QED
      BY <1>1, <1>6, <2>1 DEF GateInv, CalmBound
  <1>20. GateInv(g)'
    BY <1>8, <1>9, <1>10, <1>11, <1>12, <1>13, <1>14, <1>15, <1>16, <1>18, <1>19 DEF GateInv
  <1>21. \A j \in IrStr : irUp[j].g # g => irUp'[j] = irUp[j] /\ irDown'[j] = irDown[j]
    BY <1>0, <1>1
  <1>22. \A j \in IrOf(g) : irUp[j].q = <<>> => irUp'[j].q = <<>> \/ j = irGate[g].at
    BY <1>1, <1>7
  <1>23. \A j \in IrOf(g) : irDown'[j] = irDown[j] \/ (irDown[j] # <<>> /\ irDown'[j] = Tail(irDown[j]))
    OBVIOUS
  <1>24. irGate' \in [IrGates -> IrSession] /\ irDown' \in [IrStr -> Seq(IrFrame)]
         /\ (\A h \in IrGates : h # g => irGate'[h] = irGate[h])
    BY IrFacts
  <1>25. \A j \in IrStr : /\ irUp'[j].g = irUp[j].g /\ irUp'[j].bound = irUp[j].bound
                          /\ irUp'[j].s = irUp[j].s /\ irUp'[j].resume = irUp[j].resume
    BY <1>1
  <1> QED
    BY <1>1, <1>20, <1>21, <1>22, <1>23, <1>24, <1>25, IrGateSide

\* Where a run of lines ends, once its first line is taken.
LEMMA OneTaken ==
  \A E \in Int, l \in Nat, c \in Nat, n \in Nat :
    l >= 1 /\ n = c + 1 /\ l = E - c => E >= n /\ l - 1 = E - n
  OBVIOUS

\* A line that runs.
LEMMA IrRunKeeps ==
  ASSUME IrInv, NEW k \in IrStr, irUp[k].bound = "bound", irUp[k].q # <<>>,
         irChar.at = irUp[k].s, ~irChar.frozen, Head(irUp[k].q) > irChar.applied,
         irUp' = [irUp EXCEPT ![k].q = Tail(@)],
         irChar' = [irChar EXCEPT !.applied = Head(irUp[k].q)],
         irLog' = Append(irLog, <<irUp[k].g, Head(irUp[k].q)>>),
         NEW f \in IrFrame, f.kind = "output", f.ack = Head(irUp[k].q),
         irDown' \in [IrStr -> Seq(IrFrame)], \A j \in IrStr : j # irChar.out => irDown'[j] = irDown[j],
         \A j \in IrStr : irDown[j] # <<>> => irDown'[j] # <<>> /\ irDown'[j][1] = irDown[j][1],
         \A j \in IrStr : \A i \in DOMAIN irDown'[j] :
           (i \in DOMAIN irDown[j] /\ irDown'[j][i] = irDown[j][i]) \/ (j = irChar.out /\ irDown'[j][i] = f),
         UNCHANGED <<irGate, irPend, irPast>>
  PROVE  IrInv'
  <1>0. PICK g \in IrGates : g = irUp[k].g
    BY IrNextLine
  <1> DEFINE q == irUp[k].q
             o == irChar.out
             n == Head(q)
             last == Len(irLog) + 1
  <1>1. /\ Bound(k) /\ k \in IrOf(g) /\ \A h \in IrGates : IrOf(h)' = IrOf(h)
        /\ irUp' \in [IrStr -> IrStream] /\ irUp'[k].q = Tail(q)
        /\ \A j \in IrStr : j # k => irUp'[j] = irUp[j]
        /\ \A j \in IrStr : /\ irUp'[j].g = irUp[j].g /\ irUp'[j].s = irUp[j].s /\ irUp'[j].resume = irUp[j].resume
                            /\ irUp'[j].token = irUp[j].token /\ irUp'[j].bound = irUp[j].bound
        /\ \A i \in DOMAIN Tail(q) : i \in Nat /\ i >= 1 /\ i + 1 \in DOMAIN q /\ Tail(q)[i] = q[i + 1] /\ q[i + 1] \in Nat
    BY <1>0, IrNextLine
  <1>2. n = q[1] /\ n \in IrSeqs /\ n \in Nat /\ 1 \in DOMAIN q /\ n > irChar.applied
        /\ Len(q) \in Nat /\ Len(q) >= 1 /\ Len(Tail(q)) = Len(q) - 1
    BY IrNextLine
  <1>3. /\ irChar \in [at : IrShards \cup {IrNone}, frozen : BOOLEAN, applied : 0..IrLines, out : 0..IrStreams, moves : Nat]
        /\ irGate \in [IrGates -> IrSession] /\ irUp \in [IrStr -> IrStream] /\ irDown \in [IrStr -> Seq(IrFrame)]
        /\ irLog \in Seq(IrGates \X IrSeqs) /\ irChar.applied \in Nat
    BY IrNats DEF IrInv, IrShape
  <1>4. o # 0 /\ irChar.at # IrNone /\ irPend.at = IrNone
    BY <1>0, <1>1, IrNums DEF IrInv, IrHeld, IrResume
  <1>5. o \in IrStr /\ Cur \in IrGates /\ Bound(o) /\ Newest(o) /\ irUp[o].s = irChar.at
    BY <1>4, IrFacts DEF IrInv, IrHeld
  <1>6. f \in IrFrame /\ f.kind = "output" /\ f.ack = n
    OBVIOUS
  <1>8. /\ irDown' \in [IrStr -> Seq(IrFrame)] /\ \A j \in IrStr : j # o => irDown'[j] = irDown[j]
        /\ \A j \in IrStr : irDown[j] # <<>> => irDown'[j] # <<>> /\ irDown'[j][1] = irDown[j][1]
        /\ \A j \in IrStr : \A i \in DOMAIN irDown'[j] :
             (i \in DOMAIN irDown[j] /\ irDown'[j][i] = irDown[j][i]) \/ (j = o /\ irDown'[j][i] = f)
    OBVIOUS
  <1> DEFINE e == <<g, n>>
  <1>9. e \in IrGates \X IrSeqs /\ e[1] = g /\ e[2] = n
    BY <1>2
  <1>10. /\ irLog' \in Seq(IrGates \X IrSeqs) /\ last \in Nat /\ last \in DOMAIN irLog' /\ irLog'[last] = e
         /\ \A i \in DOMAIN irLog : i \in DOMAIN irLog' /\ irLog'[i] = irLog[i] /\ i < last
         /\ \A i \in DOMAIN irLog' : i \in Nat /\ ((i \in DOMAIN irLog /\ irLog'[i] = irLog[i]) \/ i = last)
         /\ \A i, j \in DOMAIN irLog' : i < j => i \in DOMAIN irLog
    <2>1. irLog' = Append(irLog, e)
      BY <1>0
    <2> HIDE DEF e
    <2>2. irLog' \in Seq(IrGates \X IrSeqs) /\ Len(irLog) \in Nat /\ DOMAIN irLog = 1..Len(irLog)
          /\ DOMAIN irLog' = 1..(Len(irLog) + 1) /\ irLog'[Len(irLog) + 1] = e
      BY <1>3, <1>9, <2>1
    <2>3. \A i \in 1..Len(irLog) : irLog'[i] = irLog[i]
      BY <1>3, <1>9, <2>1
    <2> QED
      BY <2>2, <2>3
  <1>11. irChar'.applied = n /\ irChar'.at = irChar.at /\ irChar'.out = o /\ irChar'.frozen = irChar.frozen
    BY <1>3
  <1> HIDE DEF n, e, last
  <1>12. \A h \in IrGates : \A j \in IrOf(h) :
           /\ j \in IrStr /\ irUp'[j].token = irUp[j].token /\ irUp'[j].bound = irUp[j].bound /\ irUp'[j].s = irUp[j].s
           /\ (irUp[j].q = <<>> => irUp'[j].q = <<>>)
           /\ j = k => h = g
           /\ \A i \in DOMAIN irUp'[j].q :
                \/ j # k /\ i \in DOMAIN irUp[j].q /\ irUp'[j].q[i] = irUp[j].q[i]
                \/ j = k /\ i \in Nat /\ i >= 1 /\ i + 1 \in DOMAIN irUp[j].q /\ irUp'[j].q[i] = irUp[j].q[i + 1]
    <2> SUFFICES ASSUME NEW h \in IrGates, NEW j \in IrOf(h)
                 PROVE  /\ j \in IrStr /\ irUp'[j].token = irUp[j].token /\ irUp'[j].bound = irUp[j].bound /\ irUp'[j].s = irUp[j].s
                        /\ (irUp[j].q = <<>> => irUp'[j].q = <<>>)
                        /\ j = k => h = g
                        /\ \A i \in DOMAIN irUp'[j].q :
                             \/ j # k /\ i \in DOMAIN irUp[j].q /\ irUp'[j].q[i] = irUp[j].q[i]
                             \/ j = k /\ i \in Nat /\ i >= 1 /\ i + 1 \in DOMAIN irUp[j].q /\ irUp'[j].q[i] = irUp[j].q[i + 1]
      OBVIOUS
    <2>1. j \in IrStr /\ irUp[j].g = h
      BY IrFacts
    <2> HIDE DEF q
    <2>2. CASE j = k
      BY <1>0, <1>1, <2>1, <2>2 DEF q
    <2>3. CASE j # k
      BY <1>1, <2>1, <2>3
    <2> QED
      BY <2>2, <2>3
  <1>13. Cur' = Cur /\ Calm' = Calm
    <2>1. Cur' = Cur
      BY <1>1, <1>5, <1>11 DEF Cur
    <2> QED
      BY <2>1 DEF Calm
  <1>14. \A j \in IrStr : Bound(j)' = Bound(j) /\ Newest(j)' = Newest(j)
    BY <1>1 DEF Bound, Newest
  <1>15. "late" \notin irPast => Newest(k)
    BY <1>1 DEF IrInv, IrDrained
  <1>16. Calm => k = o /\ g = Cur /\ n = irChar.applied + 1
    <2> SUFFICES ASSUME Calm PROVE k = o /\ g = Cur /\ n = irChar.applied + 1
      OBVIOUS
    <2> QED
      BY <1>0, <1>1, IrCalmLine DEF n
  <1>17. GateInv(g) /\ StreamSent(g, k) /\ StreamHas(g, k) /\ GateHas(g) /\ RanOf(g)
    BY <1>1 DEF IrInv, GateInv
  <1>18. \A m \in DOMAIN Tail(q) : q[m + 1] > n
    <2> SUFFICES ASSUME NEW m \in DOMAIN Tail(q) PROVE q[m + 1] > n
      OBVIOUS
    <2>1. m \in Nat /\ m >= 1 /\ m + 1 \in DOMAIN q /\ q[m + 1] \in Nat
      BY <1>1
    <2> HIDE DEF q
    <2>2. 1 < m + 1
      BY <2>1
    <2>3. q[1] < q[m + 1]
      BY <1>2, <1>17, <2>1, <2>2 DEF StreamSent, q
    <2> QED
      BY <1>2, <2>1, <2>3
  <1>19. \A h \in IrGates : GateInv(h)'
    <2> SUFFICES ASSUME NEW h \in IrGates PROVE GateInv(h)'
      OBVIOUS
    <2> DEFINE G == irGate[h]
               a == G.at
    <2>1. GateInv(h) /\ GateHas(h) /\ IrOf(h)' = IrOf(h)
      BY <1>1 DEF IrInv, GateInv
    <2>2. (a # 0 => a \in IrOf(h)) /\ (G.st \in Streaming => a # 0)
      BY IrFacts
    <2>3. GateHas(h)'
      BY <1>12, <2>1, <2>2, <1>1 DEF GateHas, Streaming, IrOf
    <2>4. (\A j \in IrOf(h) : StreamHas(h, j) /\ StreamSent(h, j))'
      <3> SUFFICES ASSUME NEW j \in IrOf(h) PROVE StreamHas(h, j)' /\ StreamSent(h, j)'
        BY <2>1
      <3>1. StreamHas(h, j) /\ StreamSent(h, j) /\ j \in IrStr
        BY <1>12, <2>1 DEF GateInv
      <3>2. \A i \in DOMAIN irDown'[j] : irDown'[j][i].kind = "refused" <=> irUp[j].bound = "refused"
        BY <1>5, <1>6, <1>8, <3>1 DEF StreamHas, Bound
      <3>3. irUp[j].bound = "new" => irDown'[j] = irDown[j]
        BY <1>5, <1>8, <3>1 DEF Bound
      <3>4. StreamHas(h, j)'
        BY <1>12, <3>1, <3>2, <3>3 DEF StreamHas
      <3>5. StreamSent(h, j)'
        <4>1. CASE j # k
          BY <1>1, <1>12, <3>1, <4>1 DEF StreamSent
        <4>2. CASE j = k
          <5>1. \A i, m \in DOMAIN Tail(q) : i < m => i + 1 < m + 1
            BY <1>1
          <5> HIDE DEF q
          <5> QED
            BY <1>1, <3>1, <4>2, <5>1 DEF StreamSent, q
        <4> QED
          BY <4>1, <4>2
      <3> QED
        BY <3>4, <3>5
    <2>5. TokenSent(h)'
      <3> SUFFICES ASSUME NEW j \in IrOf(h), irUp[j].token, irUp[j].bound = "new" PROVE FALSE
        BY <1>12, <2>1 DEF TokenSent
      <3>1. irPend.at = irUp[j].s /\ irUp[j].s # IrNone
        <4>1. j \in IrStr /\ irUp[j].g = h /\ h # 0
          BY IrFacts, IrNums
        <4>2. irUp[j].s # IrNone
          BY <4>1 DEF IrInv, IrResume
        <4>3. irPend.at = irUp[j].s
          BY <2>1 DEF GateInv, TokenSent
        <4> QED
          BY <4>2, <4>3
      <3> QED
        BY <1>4, <3>1
    <2>6. TokenHeld(h)'
      BY <1>4, <2>1 DEF GateInv, TokenHeld
    <2>7. TokenComing(h)'
      <3> SUFFICES ASSUME G.st \in Streaming, NEW i \in DOMAIN irDown'[a], irDown'[a][i].kind = "redirect" PROVE FALSE
        BY DEF TokenComing
      <3>1. a \in IrStr
        BY <1>12, <2>2
      <3>2. i \in DOMAIN irDown[a] /\ irDown'[a][i] = irDown[a][i]
        BY <1>6, <1>8, <3>1
      <3> QED
        BY <1>4, <2>1, <3>2 DEF GateInv, TokenComing
    <2>8. RanOf(h)'
      <3> SUFFICES ASSUME NEW i \in DOMAIN irLog', irLog'[i][1] = h
                   PROVE  /\ irLog'[i][2] <= G.next
                          /\ G.held # 0 => irLog'[i][2] < G.held
                          /\ \E j \in IrOf(h) : irUp[j].bound = "bound"
                          /\ h = Cur => irLog'[i][2] <= n
        BY <1>11, <1>12, <1>13, <2>1 DEF RanOf
      <3>1. CASE i \in DOMAIN irLog /\ irLog'[i] = irLog[i]
        <4>1. irLog[i][2] \in Nat
          BY <3>1, IrNats
        <4> QED
          BY <1>2, <1>3, <2>1, <3>1, <4>1 DEF GateInv, RanOf
      <3>2. CASE i = last
        <4>1. h = g /\ irLog'[i][2] = n
          BY <1>9, <1>10, <3>2
        <4>2. n <= G.next /\ (G.held # 0 => n < G.held)
          BY <1>2, <1>17, <4>1 DEF StreamSent
        <4> QED
          BY <1>1, <1>2, <4>1, <4>2 DEF Bound
      <3> QED
        BY <1>10, <3>1, <3>2
    <2>9. FreshSent(h)'
      <3> SUFFICES ASSUME "late" \notin irPast, NEW j \in IrOf(h), Bound(j), Newest(j),
                          NEW i \in DOMAIN irLog', NEW m \in DOMAIN irUp'[j].q, irLog'[i][1] = h
                   PROVE  irLog'[i][2] < irUp'[j].q[m]
        BY <1>12, <1>14, <2>1 DEF FreshSent
      <3>1. CASE i \in DOMAIN irLog /\ irLog'[i] = irLog[i]
        BY <1>12, <2>1, <3>1 DEF GateInv, FreshSent
      <3>2. CASE i = last
        <4>1. h = g /\ irLog'[i][2] = n
          BY <1>9, <1>10, <3>2
        <4>2. j = k
          <5>1. Newest(k) /\ irUp[k].g = g /\ irUp[j].g = g /\ j \in IrStr
            BY <1>0, <1>15, <4>1, IrFacts
          <5>2. j <= k /\ k <= j
            BY <1>1, <5>1 DEF Newest
          <5> QED
            BY <5>1, <5>2 DEF IrStr
        <4>3. m \in DOMAIN Tail(q) /\ irUp'[j].q[m] = q[m + 1] /\ q[m + 1] \in Nat
          BY <1>1, <4>2
        <4> QED
          BY <1>2, <1>18, <4>1, <4>3
      <3> QED
        BY <1>10, <3>1, <3>2
    <2>10. ASSUME "late" \notin irPast, G.st \in Streaming, irUp[a].bound = "bound", h = g PROVE k = a
      <3>1. Newest(k) /\ irUp[k].g = g /\ a \in IrStr /\ irUp[a].g = g /\ k <= a
        BY <1>0, <1>1, <1>15, <2>1, <2>2, <2>10, IrFacts DEF GateHas
      <3>2. a <= k
        BY <2>10, <3>1, IrNums DEF Newest, Bound
      <3> QED
        BY <3>1, <3>2 DEF IrStr
    <2>11. FreshReplay(h)'
      <3> SUFFICES ASSUME "late" \notin irPast, G.st = "replay", NEW i \in DOMAIN irLog', irLog'[i][1] = h,
                          NEW m \in G.buf, m > G.sent
                   PROVE  irLog'[i][2] < m
        BY DEF FreshReplay
      <3>1. CASE i \in DOMAIN irLog /\ irLog'[i] = irLog[i]
        BY <2>1, <3>1 DEF GateInv, FreshReplay
      <3>2. CASE i = last
        <4>1. h = g /\ irLog'[i][2] = n
          BY <1>9, <1>10, <3>2
        <4>2. k = a
          BY <2>1, <2>10, <4>1 DEF GateHas, Streaming
        <4>3. n <= G.sent
          BY <1>2, <1>17, <4>1, <4>2 DEF StreamSent
        <4>4. G.sent \in Nat /\ m \in Nat
          BY IrNats
        <4> QED
          BY <1>2, <4>1, <4>3, <4>4
      <3> QED
        BY <1>10, <3>1, <3>2
    <2>12. FreshAck(h)'
      <3> SUFFICES ASSUME "late" \notin irPast, G.st = "wait", G.token, irUp'[a].bound = "bound"
                   PROVE  /\ irDown'[a] # <<>>
                          /\ \A i \in DOMAIN irLog' : irLog'[i][1] = h => irLog'[i][2] <= irDown'[a][1].ack
        BY DEF FreshAck
      <3>1. a \in IrOf(h) /\ a \in IrStr /\ irUp[a].bound = "bound" /\ irUp[a].token
        BY <1>12, <2>1, <2>2 DEF Streaming, GateHas
      <3>2. irDown[a] # <<>> /\ \A i \in DOMAIN irLog : irLog[i][1] = h => irLog[i][2] <= irDown[a][1].ack
        BY <2>1, <3>1 DEF GateInv, FreshAck
      <3>3. irDown'[a] # <<>> /\ irDown'[a][1] = irDown[a][1]
        BY <1>8, <3>1, <3>2
      <3>4. h # g
        <4> SUFFICES ASSUME h = g PROVE FALSE
          OBVIOUS
        <4>1. k = a
          BY <2>10, <3>1 DEF Streaming
        <4> QED
          BY <1>17, <3>1, <4>1 DEF StreamHas
      <3> QED
        BY <1>9, <1>10, <3>2, <3>3, <3>4
    <2>13. CalmKept(h)'
      <3> SUFFICES ASSUME Calm, NEW m \in 1..G.next
                   PROVE  m \in G.buf \/ (h = Cur /\ m <= n)
        BY <1>4, <1>11, <1>13 DEF CalmKept
      <3>1. m \in G.buf \/ (h = Cur /\ m <= irChar.applied)
        BY <2>1 DEF GateInv, CalmKept
      <3>2. m \in Nat
        OBVIOUS
      <3> QED
        BY <1>2, <1>3, <3>1, <3>2
    <2>14. CalmSeq(h)'
      <3> SUFFICES ASSUME Calm, NEW j \in IrOf(h), NEW i \in DOMAIN irUp'[j].q
                   PROVE  /\ irUp[j].bound = "new" => irUp'[j].q[i] = i
                          /\ j = o => irUp'[j].q[i] = n + i
        BY <1>11, <1>12, <1>13, <2>1 DEF CalmSeq
      <3>1. CASE j # k
        BY <1>12, <1>16, <2>1, <3>1 DEF GateInv, CalmSeq
      <3>2. CASE j = k
        <4>1. irUp'[j].q[i] = irUp[j].q[i + 1] /\ i + 1 \in DOMAIN irUp[j].q /\ i \in Nat
          BY <1>12, <3>2
        <4>2. irUp[j].q[i + 1] = irChar.applied + (i + 1)
          BY <1>16, <2>1, <3>2, <4>1 DEF GateInv, CalmSeq
        <4>3. n = irChar.applied + 1 /\ irUp[j].bound # "new"
          BY <1>16, <3>2
        <4>4. irChar.applied + (i + 1) = (irChar.applied + 1) + i
          BY <1>3, <4>1
        <4> QED
          BY <4>1, <4>2, <4>3, <4>4
      <3> QED
        BY <3>1, <3>2
    <2>15. CalmNew(h)'
      <3> SUFFICES ASSUME Calm, G.st = "wait", ~G.token, irUp'[a].bound = "new"
                   PROVE  Gapless(irUp'[a].q, 0, End(h)')
        BY <1>13 DEF CalmNew
      <3>1. a \in IrOf(h) /\ irUp[a].bound = "new" /\ a # k /\ a \in IrStr
        BY <1>12, <2>2 DEF Streaming
      <3>2. End(h)' = End(h)
        BY DEF End
      <3>3. irUp'[a] = irUp[a]
        BY <1>1, <3>1
      <3> QED
        BY <2>1, <3>1, <3>2, <3>3 DEF GateInv, CalmNew
    <2>16. CalmBound(h)'
      <3> SUFFICES ASSUME Calm, G.st \in Streaming, a = o
                   PROVE  End(h)' >= n /\ Gapless(Tail(q), n, End(h)')
        BY <1>1, <1>11, <1>13, <1>16 DEF CalmBound
      <3>1. Gapless(q, irChar.applied, End(h)) /\ End(h) >= irChar.applied /\ n = irChar.applied + 1
        BY <1>16, <2>1 DEF GateInv, CalmBound
      <3>2. End(h) \in Int
        <4>1. irGate[h].sent \in Nat /\ irGate[h].held \in Nat /\ irGate[h].next \in Nat /\ irChar.applied \in Nat
          BY IrNats
        <4> QED
          BY <4>1 DEF End
      <3>3. End(h) # irChar.applied
        BY <1>2, <1>3, <3>1 DEF Gapless
      <3>4. End(h)' = End(h)
        BY <3>3 DEF End
      <3>5. Len(q) = End(h) - irChar.applied
        BY <3>1 DEF Gapless
      <3>6. End(h) >= n /\ Len(Tail(q)) = End(h) - n
        <4> DEFINE E == End(h)
                   l == Len(q)
                   c == irChar.applied
        <4>1. E \in Int /\ l \in Nat /\ l >= 1 /\ c \in Nat /\ n = c + 1 /\ l = E - c /\ Len(Tail(q)) = l - 1
          BY <1>2, <1>3, <3>1, <3>2, <3>5
        <4> HIDE DEF E, l, c
        <4>2. n \in Nat
          BY <1>2
        <4>3. E >= n /\ l - 1 = E - n
          BY <4>1, <4>2, OneTaken
        <4> QED
          BY <4>1, <4>3 DEF E
      <3>7. \A i \in 1..Len(Tail(q)) : Tail(q)[i] = n + i
        <4> SUFFICES ASSUME NEW i \in 1..Len(Tail(q)) PROVE Tail(q)[i] = n + i
          OBVIOUS
        <4>1. i \in DOMAIN Tail(q)
          BY IrNextLine
        <4>2. Tail(q)[i] = q[i + 1] /\ i \in Nat /\ i + 1 \in 1..Len(q)
          BY <1>1, <4>1, IrNextLine
        <4>3. q[i + 1] = irChar.applied + (i + 1)
          BY <3>1, <4>2 DEF Gapless
        <4> QED
          BY <1>3, <3>1, <4>2, <4>3
      <3> QED
        BY <3>4, <3>6, <3>7 DEF Gapless
    <2> QED
      BY <2>3, <2>4, <2>5, <2>6, <2>7, <2>8, <2>9, <2>11, <2>12, <2>13, <2>14, <2>15, <2>16 DEF GateInv
  <1>20. IrShape'
    <2>1. n \in 0..IrLines
      BY <1>2, IrAssumption DEF IrSeqs
    <2>2. irChar' = [irChar EXCEPT !.applied = n]
      BY DEF n
    <2>3. irChar' \in [at : IrShards \cup {IrNone}, frozen : BOOLEAN, applied : 0..IrLines, out : 0..IrStreams, moves : Nat]
      BY <1>3, <2>1, <2>2
    <2> QED
      BY <1>1, <1>3, <1>8, <1>10, <2>3 DEF IrInv, IrShape
  <1>21. IrPrefix' /\ IrUnused' /\ IrResume'
    <2>1. IrPrefix'
      <3>1. Used' = Used
        BY <1>1 DEF Used
      <3> QED
        BY <3>1 DEF IrInv, IrPrefix
    <2>2. IrUnused'
      <3>1. \A j \in IrStr : irUp[j].g = 0 => j # k /\ j # o
        BY <1>1, <1>5 DEF Bound
      <3> SUFFICES ASSUME NEW j \in IrStr, irUp[j].g = 0
                   PROVE  irUp'[j].q = <<>> /\ irUp'[j].bound = "new" /\ irDown'[j] = <<>>
        BY <1>1 DEF IrUnused
      <3>2. irUp'[j] = irUp[j] /\ irDown'[j] = irDown[j]
        BY <1>1, <1>8, <3>1
      <3> QED
        BY <3>2 DEF IrInv, IrUnused
    <2>3. IrResume'
      BY <1>1 DEF IrInv, IrResume
    <2> QED
      BY <2>1, <2>2, <2>3
  <1>22. IrHeld'
    BY <1>1, <1>4, <1>5, <1>11, <1>13, <1>14 DEF IrInv, IrHeld
  <1>23. IrDrained'
    <2> SUFFICES ASSUME "late" \notin irPast, NEW j \in IrStr, Bound(j), irUp[j].s \in {irChar.at, irPend.at}, ~Newest(j)
                 PROVE  irUp'[j].q = <<>>
      BY <1>1, <1>11, <1>14 DEF IrDrained
    <2>1. j # k
      BY <1>15
    <2> QED
      BY <1>1, <2>1 DEF IrInv, IrDrained
  <1>24. IrOrder'
    <2> SUFFICES ASSUME NEW h \in IrGates, {"taken", "late"} \subseteq irPast => Cur = h PROVE InOrder(h)'
      BY <1>4, <1>11, <1>13 DEF IrOrder
    <2> SUFFICES ASSUME NEW i \in DOMAIN irLog', NEW j \in DOMAIN irLog', i < j, irLog'[i][1] = h, irLog'[j][1] = h
                 PROVE  irLog'[i][2] < irLog'[j][2]
      BY DEF InOrder
    <2>0. i \in DOMAIN irLog /\ irLog'[i] = irLog[i]
      BY <1>10
    <2>1. CASE j \in DOMAIN irLog /\ irLog'[j] = irLog[j]
      BY <1>4, <2>0, <2>1 DEF IrInv, IrOrder, InOrder
    <2>2. CASE j = last
      <3>1. h = g /\ irLog'[j][2] = n
        BY <1>9, <1>10, <2>2
      <3>2. CASE "late" \notin irPast
        <4>1. k \in IrOf(g) /\ Bound(k) /\ Newest(k) /\ 1 \in DOMAIN irUp[k].q /\ irUp[k].q[1] = n
          BY <1>1, <1>2, <1>15, <3>2
        <4>2. FreshSent(g)
          BY <1>17 DEF GateInv
        <4>3. irLog[i][2] < irUp[k].q[1]
          BY <2>0, <3>1, <3>2, <4>1, <4>2 DEF FreshSent
        <4> QED
          BY <2>0, <3>1, <4>1, <4>3
      <3>3. CASE "late" \in irPast
        <4>1. Cur = h
          BY <1>0, <1>1, <3>1, <3>3 DEF IrInv, IrHeld
        <4>2. irLog[i][2] <= irChar.applied /\ irLog[i][2] \in Nat
          BY <1>17, <2>0, <3>1, <4>1, IrNats DEF RanOf
        <4>3. irLog[i][2] < n
          BY <1>2, <1>3, <4>2, Below
        <4> QED
          BY <2>0, <3>1, <4>3
      <3> QED
        BY <3>2, <3>3
    <2> QED
      BY <1>10, <2>1, <2>2
  <1>25. CalmRan'
    <2> SUFFICES ASSUME Calm, NEW m \in 1..n PROVE \E i \in DOMAIN irLog' : irLog'[i] = <<Cur, m>>
      BY <1>4, <1>11, <1>13 DEF CalmRan
    <2>1. CASE m = n
      BY <1>10, <1>16, <2>1 DEF e
    <2>2. CASE m # n
      <3>1. m \in 1..irChar.applied
        BY <1>3, <1>16, <2>2
      <3>2. PICK i \in DOMAIN irLog : irLog[i] = <<Cur, m>>
        BY <1>4, <3>1 DEF IrInv, CalmRan
      <3> QED
        BY <1>10, <3>2
    <2> QED
      BY <2>1, <2>2
  <1>26. CalmAcks'
    <2> SUFFICES ASSUME Calm, NEW j \in IrStr, NEW i \in DOMAIN irDown'[j] PROVE irDown'[j][i].ack <= n
      BY <1>11, <1>13 DEF CalmAcks
    <2>1. CASE i \in DOMAIN irDown[j] /\ irDown'[j][i] = irDown[j][i]
      <3>1. irDown[j][i].ack <= irChar.applied /\ irDown[j][i].ack \in Nat
        BY <2>1, IrNats DEF IrInv, CalmAcks
      <3> QED
        BY <1>2, <1>3, <2>1, <3>1, Below
    <2>2. CASE irDown'[j][i] = f
      BY <1>2, <1>6, <2>2
    <2> QED
      BY <1>8, <2>1, <2>2
  <1> QED
    BY <1>19, <1>20, <1>21, <1>22, <1>23, <1>24, <1>25, <1>26 DEF IrInv

\* handleInput: a line is dropped or runs.
LEMMA IrInputKeeps == ASSUME IrInv, NEW k \in IrStr, handleInput(k) PROVE IrInv'
  <1> DEFINE n == Head(irUp[k].q)
             here == irChar.at = irUp[k].s /\ ~irChar.frozen
             fresh == n > irChar.applied
  <1>1. /\ irUp[k].bound = "bound" /\ irUp[k].q # <<>> /\ irUp' = [irUp EXCEPT ![k].q = Tail(@)]
        /\ UNCHANGED <<irGate, irPend>>
    BY DEF handleInput
  <1>2. CASE here /\ fresh
    <2>1. /\ irChar' = [irChar EXCEPT !.applied = n] /\ irLog' = Append(irLog, <<irUp[k].g, n>>)
          /\ irDown' = [irDown EXCEPT ![irChar.out] = Append(@, frame("output", n, irUp[k].s))]
          /\ irPast' = irPast
      BY <1>2 DEF handleInput
    <2> DEFINE o == irChar.out
               f == frame("output", n, irUp[k].s)
    <2>2. irChar.out # 0 /\ irUp[k].s \in IrShards /\ n \in IrSeqs /\ irDown \in [IrStr -> Seq(IrFrame)]
      <3>1. irUp[k].g # 0 /\ irUp[k].s # IrNone
        BY <1>1 DEF IrInv, IrUnused, IrResume
      <3>2. irUp[k] \in IrStream /\ irUp[k].q \in Seq(IrSeqs)
        BY IrFacts, IrNats
      <3>3. n \in IrSeqs
        BY <1>1, <3>2
      <3> QED
        BY <1>2, <3>1, <3>2, <3>3, IrFacts DEF IrInv, IrHeld, IrStream
    <2>3. o \in IrStr
      BY <2>2, IrFacts
    <2>4. f \in IrFrame /\ f.kind = "output" /\ f.ack = n
      <3>1. n \in 0..IrLines
        BY <2>2, IrAssumption DEF IrSeqs
      <3> HIDE DEF n
      <3> QED
        BY <2>2, <3>1 DEF IrFrame, frame
    <2>5. irDown' = [irDown EXCEPT ![o] = Append(@, f)]
      BY <2>1
    <2> HIDE DEF f, o
    <2>6. /\ irDown' \in [IrStr -> Seq(IrFrame)] /\ \A j \in IrStr : j # o => irDown'[j] = irDown[j]
          /\ \A j \in IrStr : irDown[j] # <<>> => irDown'[j] # <<>> /\ irDown'[j][1] = irDown[j][1]
          /\ \A j \in IrStr : \A i \in DOMAIN irDown'[j] :
               (i \in DOMAIN irDown[j] /\ irDown'[j][i] = irDown[j][i]) \/ (j = o /\ irDown'[j][i] = f)
      BY <2>2, <2>3, <2>4, <2>5, IrTold
    <2> QED
      <3>1. /\ irDown' \in [IrStr -> Seq(IrFrame)] /\ \A j \in IrStr : j # irChar.out => irDown'[j] = irDown[j]
            /\ \A j \in IrStr : \A i \in DOMAIN irDown'[j] :
                 (i \in DOMAIN irDown[j] /\ irDown'[j][i] = irDown[j][i]) \/ (j = irChar.out /\ irDown'[j][i] = f)
        BY <2>6 DEF o
      <3>2. \A j \in IrStr : irDown[j] # <<>> => irDown'[j] # <<>> /\ irDown'[j][1] = irDown[j][1]
        BY <2>6
      <3>3. irChar.at = irUp[k].s /\ ~irChar.frozen /\ Head(irUp[k].q) > irChar.applied
        BY <1>2
      <3>4. /\ irChar' = [irChar EXCEPT !.applied = Head(irUp[k].q)]
            /\ irLog' = Append(irLog, <<irUp[k].g, Head(irUp[k].q)>>)
            /\ irPast' = irPast /\ irGate' = irGate /\ irPend' = irPend
            /\ f \in IrFrame /\ f.kind = "output" /\ f.ack = Head(irUp[k].q)
        BY <1>1, <2>1, <2>4
      <3>5. irUp[k].bound = "bound" /\ irUp[k].q # <<>> /\ irUp' = [irUp EXCEPT ![k].q = Tail(@)]
        BY <1>1
      <3> HIDE DEF n, fresh, here
      <3> QED
        BY <3>1, <3>2, <3>3, <3>4, <3>5, IrRunKeeps
  <1>3. CASE ~(here /\ fresh)
    <2>1. UNCHANGED <<irChar, irLog, irDown>> /\ irPast' \in {irPast, irPast \cup {"muted"}}
      BY <1>3 DEF handleInput
    <2> QED
      BY <1>1, <1>3, <2>1, IrDropKeeps
  <1> QED
    BY <1>2, <1>3

-----------------------------------------------------------------------------
(* A stream is attached.                                                      *)

\* A stream that is not attached yet: it is its gate's last.
LEMMA IrNewStream ==
  ASSUME IrInv, NEW k \in IrStr, irUp[k].g # 0, irUp[k].bound = "new"
  PROVE  LET g == irUp[k].g IN
         /\ g \in IrGates /\ k \in IrOf(g) /\ irUp[k] \in IrStream /\ irUp[k].s \in IrShards /\ irUp[k].s # IrNone
         /\ k = irGate[g].at /\ irGate[g].st \in {"wait", "done"} /\ irDown[k] = <<>> /\ irUp[k].token = irGate[g].token
         /\ (irUp[k].token => irUp[k].q = <<>>)
         /\ \A j \in IrOf(g) : j <= k /\ (j # k => irUp[j].bound # "new")
                               /\ (~irUp[k].token /\ j # k => irUp[j].bound = "refused")
         /\ k # irChar.out /\ ~Bound(k)
  <1> DEFINE g == irUp[k].g
  <1>1. g \in IrGates /\ k \in IrOf(g) /\ irUp[k] \in IrStream
    BY IrFacts
  <1>2. GateHas(g) /\ \A j \in IrOf(g) : StreamHas(g, j)
    BY <1>1 DEF IrInv, GateInv
  <1>3. irUp[k].s \in IrShards /\ irUp[k].s # IrNone
    BY <1>1 DEF IrInv, IrResume, IrStream
  <1>4. /\ k = irGate[g].at /\ irGate[g].st \in {"wait", "done"} /\ irDown[k] = <<>> /\ irUp[k].token = irGate[g].token
        /\ (irUp[k].token => irUp[k].q = <<>>)
    BY <1>1, <1>2 DEF StreamHas
  <1>5. \A j \in IrOf(g) : j <= k /\ (j # k => irUp[j].bound # "new")
    BY <1>2, <1>4 DEF GateHas, StreamHas
  <1>6. ASSUME NEW j \in IrOf(g), ~irUp[k].token, j # k PROVE irUp[j].bound = "refused"
    <2>1. irUp[j] \in IrStream
      BY <1>1, IrFacts
    <2>2. irUp[j].bound # "bound"
      BY <1>2, <1>4, <1>6 DEF StreamHas
    <2> QED
      BY <1>5, <1>6, <2>1, <2>2 DEF IrStream
  <1>7. ~Bound(k)
    BY DEF Bound
  <1>8. k # irChar.out
    BY <1>7, IrNums DEF IrInv, IrHeld
  <1> QED
    BY <1>1, <1>3, <1>4, <1>5, <1>6, <1>7, <1>8

\* A stream whose attach was answered: nothing else of it changes.
LEMMA IrMarked ==
  ASSUME IrInv, NEW k \in IrStr, NEW b \in {"new", "bound", "refused"}, irUp' = [irUp EXCEPT ![k].bound = b]
  PROVE  /\ irUp' \in [IrStr -> IrStream] /\ irUp'[k].bound = b
         /\ \A j \in IrStr : j # k => irUp'[j] = irUp[j]
         /\ \A j \in IrStr : /\ irUp'[j].g = irUp[j].g /\ irUp'[j].s = irUp[j].s /\ irUp'[j].resume = irUp[j].resume
                             /\ irUp'[j].token = irUp[j].token /\ irUp'[j].q = irUp[j].q
         /\ \A h \in IrGates : IrOf(h)' = IrOf(h)
  <1> DEFINE r == irUp[k]
             w == irUp'[k]
  <1>1. irUp \in [IrStr -> IrStream] /\ r \in IrStream
    BY IrFacts
  <1>2. w = [r EXCEPT !.bound = b] /\ \A j \in IrStr : j # k => irUp'[j] = irUp[j]
    BY <1>1
  <1>3. /\ w \in IrStream /\ w.bound = b /\ w.g = r.g /\ w.s = r.s /\ w.resume = r.resume
        /\ w.token = r.token /\ w.q = r.q
    <2> HIDE DEF w, r
    <2> QED
      BY <1>1, <1>2 DEF IrStream
  <1>4. irUp' \in [IrStr -> IrStream]
    <2> SUFFICES ASSUME NEW j \in IrStr PROVE irUp'[j] \in IrStream
      BY <1>1
    <2> QED
      BY <1>1, <1>2, <1>3
  <1>5. \A j \in IrStr : /\ irUp'[j].g = irUp[j].g /\ irUp'[j].s = irUp[j].s /\ irUp'[j].resume = irUp[j].resume
                         /\ irUp'[j].token = irUp[j].token /\ irUp'[j].q = irUp[j].q
    BY <1>2, <1>3
  <1>6. \A h \in IrGates : IrOf(h)' = IrOf(h)
    BY <1>5 DEF IrOf
  <1> QED
    BY <1>2, <1>3, <1>4, <1>5, <1>6

\* A login the world refuses.
LEMMA IrRefuseKeeps ==
  ASSUME IrInv, NEW k \in IrStr, irUp[k].g # 0, irUp[k].bound = "new",
         irUp' = [irUp EXCEPT ![k].bound = "refused"],
         irDown' = [irDown EXCEPT ![k] = Append(@, frame("refused", 0, irUp[k].s))],
         irPast' = irPast \cup {"refused"}, UNCHANGED <<irGate, irChar, irPend, irLog>>
  PROVE  IrInv'
  <1>0. PICK g \in IrGates : g = irUp[k].g
    BY IrNewStream
  <1> DEFINE G == irGate[g]
             f == frame("refused", 0, irUp[k].s)
  <1>1. /\ k \in IrOf(g) /\ irUp[k] \in IrStream /\ irUp[k].s \in IrShards
        /\ k = G.at /\ G.st \in {"wait", "done"} /\ irDown[k] = <<>> /\ irUp[k].token = G.token
        /\ (irUp[k].token => irUp[k].q = <<>>)
        /\ \A j \in IrOf(g) : j <= k /\ (j # k => irUp[j].bound # "new")
        /\ k # irChar.out /\ ~Bound(k)
    BY <1>0, IrNewStream
  <1>2. /\ irUp' \in [IrStr -> IrStream] /\ irUp'[k].bound = "refused"
        /\ \A j \in IrStr : j # k => irUp'[j] = irUp[j]
        /\ \A j \in IrStr : /\ irUp'[j].g = irUp[j].g /\ irUp'[j].s = irUp[j].s /\ irUp'[j].resume = irUp[j].resume
                            /\ irUp'[j].token = irUp[j].token /\ irUp'[j].q = irUp[j].q
        /\ \A h \in IrGates : IrOf(h)' = IrOf(h)
    BY IrMarked
  <1>3. f \in IrFrame /\ f.kind = "refused"
    <2>1. 0 \in 0..IrLines
      BY IrAssumption
    <2> QED
      BY <1>1, <2>1 DEF frame, IrFrame
  <1> HIDE DEF f
  <1>4. /\ irDown' \in [IrStr -> Seq(IrFrame)] /\ \A j \in IrStr : j # k => irDown'[j] = irDown[j]
        /\ \A i \in DOMAIN irDown'[k] : irDown'[k][i] = f
    <2>1. irDown \in [IrStr -> Seq(IrFrame)] /\ irDown' = [irDown EXCEPT ![k] = Append(@, f)]
      BY IrFacts DEF f
    <2>2. /\ irDown' \in [IrStr -> Seq(IrFrame)] /\ \A j \in IrStr : j # k => irDown'[j] = irDown[j]
          /\ \A j \in IrStr : \A i \in DOMAIN irDown'[j] : (i \in DOMAIN irDown[j] /\ irDown'[j][i] = irDown[j][i]) \/ (j = k /\ irDown'[j][i] = f)
      BY <1>3, <2>1, IrTold
    <2>3. DOMAIN irDown[k] = {}
      BY <1>1
    <2> QED
      BY <2>2, <2>3
  <1>5. /\ ~Calm' /\ irPast \subseteq irPast' /\ (irChar.out # 0 => Cur' = Cur)
        /\ \A x \in {"late", "taken"} : x \in irPast' <=> x \in irPast
    BY <1>2, IrFacts DEF Calm, Cur
  <1>6. \A j \in IrStr : (Bound(j)' <=> Bound(j)) /\ (Newest(j)' <=> Newest(j))
    <2>1. \A j \in IrStr : Bound(j)' <=> Bound(j)
      <3> SUFFICES ASSUME NEW j \in IrStr PROVE Bound(j)' <=> Bound(j)
        OBVIOUS
      <3>1. CASE j = k
        BY <1>1, <1>2, <3>1 DEF Bound
      <3>2. CASE j # k
        BY <1>2, <3>2 DEF Bound
      <3> QED
        BY <3>1, <3>2
    <2> QED
      BY <1>2, <2>1 DEF Newest
  <1>7. \A h \in IrGates : h # g => GateInv(h)'
    <2> SUFFICES ASSUME NEW h \in IrGates, h # g PROVE GateInv(h)'
      OBVIOUS
    <2>1. \A j \in IrOf(h) : irUp'[j] = irUp[j] /\ irDown'[j] = irDown[j]
      <3> SUFFICES ASSUME NEW j \in IrOf(h) PROVE irUp'[j] = irUp[j] /\ irDown'[j] = irDown[j]
        OBVIOUS
      <3>1. j \in IrStr /\ j # k
        BY <1>0, IrFacts
      <3> QED
        BY <1>2, <1>4, <3>1
    <2>2. IrOf(h)' = IrOf(h) /\ irGate'[h] = irGate[h]
      BY <1>2
    <2> QED
      BY <1>5, <2>1, <2>2, IrOthers
  <1>8. GateInv(g) /\ IrOf(g)' = IrOf(g) /\ \A j \in IrOf(g) : j \in IrStr /\ irUp'[j].token = irUp[j].token /\ irUp'[j].q = irUp[j].q
    BY <1>2, IrFacts DEF IrInv
  <1>9. GateHas(g)'
    <2>1. GateHas(g)
      BY <1>8 DEF GateInv
    <2> QED
      BY <1>1, <1>2, <1>8, <2>1 DEF GateHas, Streaming
  <1>10. (\A j \in IrOf(g) : StreamHas(g, j) /\ StreamSent(g, j))'
    <2> SUFFICES ASSUME NEW j \in IrOf(g) PROVE StreamHas(g, j)' /\ StreamSent(g, j)'
      BY <1>8
    <2>1. StreamHas(g, j) /\ StreamSent(g, j) /\ j \in IrStr
      BY <1>8 DEF GateInv
    <2>2. StreamSent(g, j)'
      BY <1>8, <2>1 DEF StreamSent
    <2>3. CASE j = k
      <3>1. \A i \in DOMAIN irDown'[k] : irDown'[k][i].kind = "refused"
        BY <1>3, <1>4
      <3>2. irUp'[k].bound = "refused" /\ irUp'[k].token = G.token /\ (irUp'[k].token => irUp'[k].q = <<>>)
        BY <1>1, <1>2
      <3> QED
        BY <1>1, <2>2, <2>3, <3>1, <3>2 DEF StreamHas
    <2>4. CASE j # k
      <3>1. irUp'[j] = irUp[j] /\ irDown'[j] = irDown[j] /\ irGate' = irGate
        BY <1>2, <1>4, <2>1, <2>4
      <3> QED
        BY <2>1, <2>2, <3>1 DEF StreamHas
    <2> QED
      BY <2>2, <2>3, <2>4
  <1>11. TokenSent(g)' /\ TokenHeld(g)' /\ TokenComing(g)'
    <2>1. TokenSent(g)'
      <3> SUFFICES ASSUME NEW j \in IrOf(g), irUp'[j].bound = "new" PROVE FALSE
        BY <1>8 DEF TokenSent
      <3>1. j # k
        BY <1>2
      <3> QED
        BY <1>1, <1>2, <1>8, <3>1
    <2>2. TokenHeld(g)'
      BY <1>1 DEF TokenHeld
    <2>3. TokenComing(g)'
      BY <1>1, <1>3, <1>4 DEF TokenComing
    <2> QED
      BY <2>1, <2>2, <2>3
  <1>12. RanOf(g)'
    <2>1. irLog # <<>> => irChar.out # 0
      BY DEF IrInv, IrHeld
    <2>2. DOMAIN irLog # {} => irLog # <<>>
      OBVIOUS
    <2>3. \A j \in IrOf(g) : irUp[j].bound = "bound" => irUp'[j].bound = "bound"
      <3> SUFFICES ASSUME NEW j \in IrOf(g), irUp[j].bound = "bound" PROVE irUp'[j].bound = "bound"
        OBVIOUS
      <3>1. j # k /\ j \in IrStr
        BY <1>8
      <3> QED
        BY <1>2, <3>1
    <2> QED
      BY <1>5, <1>8, <2>1, <2>2, <2>3 DEF GateInv, RanOf
  <1>13. FreshSent(g)' /\ FreshReplay(g)' /\ FreshAck(g)'
    <2>1. FreshSent(g)'
      <3> SUFFICES ASSUME "late" \notin irPast, NEW j \in IrOf(g), Bound(j), Newest(j),
                          NEW i \in DOMAIN irLog, NEW m \in DOMAIN irUp[j].q, irLog[i][1] = g
                   PROVE  irLog[i][2] < irUp[j].q[m]
        BY <1>5, <1>6, <1>8 DEF FreshSent
      <3> QED
        BY <1>8 DEF GateInv, FreshSent
    <2>2. FreshReplay(g)' /\ FreshAck(g)'
      BY <1>1, <1>2 DEF FreshReplay, FreshAck
    <2> QED
      BY <2>1, <2>2
  <1>14. CalmKept(g)' /\ CalmSeq(g)' /\ CalmNew(g)' /\ CalmBound(g)'
    BY <1>5 DEF CalmKept, CalmSeq, CalmNew, CalmBound
  <1>15. GateInv(g)'
    BY <1>9, <1>10, <1>11, <1>12, <1>13, <1>14 DEF GateInv
  <1>16. IrShape'
    BY <1>2, <1>4 DEF IrInv, IrShape
  <1>17. IrPrefix' /\ IrUnused' /\ IrResume'
    <2>1. IrPrefix'
      BY <1>2 DEF IrInv, IrPrefix, Used
    <2>2. IrUnused'
      <3>1. \A j \in IrStr : irUp[j].g = 0 => j # k
        OBVIOUS
      <3> QED
        BY <1>2, <1>4, <3>1 DEF IrInv, IrUnused
    <2>3. IrResume'
      <3>1. "refused" \in irPast'
        OBVIOUS
      <3> QED
        BY <1>2, <3>1 DEF IrInv, IrResume
    <2> QED
      BY <2>1, <2>2, <2>3
  <1>18. IrHeld'
    <2>1. CASE irChar.out = 0
      BY <1>5, <1>6, <2>1 DEF IrInv, IrHeld
    <2>2. CASE irChar.out # 0
      <3>1. irChar.out \in IrStr
        BY <2>2, IrFacts
      <3> QED
        BY <1>2, <1>5, <1>6, <2>2, <3>1 DEF IrInv, IrHeld
    <2> QED
      BY <2>1, <2>2
  <1>19. IrDrained'
    BY <1>2, <1>5, <1>6 DEF IrInv, IrDrained
  <1>20. IrOrder' /\ CalmRan' /\ CalmAcks'
    <2>1. IrOrder'
      BY <1>5 DEF IrInv, IrOrder, InOrder
    <2> QED
      BY <1>5, <2>1 DEF CalmRan, CalmAcks
  <1> QED
    BY <1>7, <1>15, <1>16, <1>17, <1>18, <1>19, <1>20 DEF IrInv

\* A gate that is not the one whose stream is bound.
LEMMA IrElse ==
  ASSUME IrInv, NEW k \in IrStr, NEW g \in IrGates, NEW h \in IrGates, h # g, g = irUp[k].g,
         irPend.at = IrNone \/ g = Cur, Calm' => irChar.out = 0 \/ g = Cur,
         irPast \subseteq irPast', UNCHANGED <<irGate, irLog>>, irChar'.out = k, Cur' = g,
         \A j \in IrStr : j # k => irUp'[j] = irUp[j], IrOf(h)' = IrOf(h),
         \A j \in IrStr : j # k /\ ~Bound(j) => irDown'[j] = irDown[j],
         \A j \in IrStr : irDown[j] # <<>> => irDown'[j] # <<>> /\ irDown'[j][1] = irDown[j][1],
         \A j \in IrStr : j # k => \A i \in DOMAIN irDown'[j] :
           (i \in DOMAIN irDown[j] /\ irDown'[j][i] = irDown[j][i]) \/ irDown'[j][i].kind = "kick"
  PROVE  GateInv(h)'
  <1> DEFINE G == irGate[h]
             a == G.at
  <1>1. GateInv(h)
    BY DEF IrInv
  <1>2. \A j \in IrOf(h) : j \in IrStr /\ irUp[j].g = h /\ j # k /\ irUp'[j] = irUp[j]
    BY IrFacts
  <1>3. (a # 0 => a \in IrOf(h)) /\ (G.st \in Streaming => a # 0)
    BY IrFacts
  <1>4. (Calm' => Calm) /\ ("late" \in irPast => "late" \in irPast')
    BY DEF Calm
  <1>5. GateHas(h)'
    <2>1. GateHas(h)
      BY <1>1 DEF GateInv
    <2> QED
      BY <1>2, <1>3, <2>1 DEF GateHas, Streaming
  <1>6. (\A j \in IrOf(h) : StreamHas(h, j) /\ StreamSent(h, j))'
    <2> SUFFICES ASSUME NEW j \in IrOf(h) PROVE StreamHas(h, j)' /\ StreamSent(h, j)'
      OBVIOUS
    <2>1. StreamHas(h, j) /\ StreamSent(h, j)
      BY <1>1 DEF GateInv
    <2>2. irUp'[j] = irUp[j] /\ irGate' = irGate
      BY <1>2
    <2>3. StreamSent(h, j)'
      BY <2>1, <2>2 DEF StreamSent
    <2>4. irUp[j].bound = "new" => irDown'[j] = irDown[j]
      BY <1>2 DEF Bound
    <2>5. \A i \in DOMAIN irDown'[j] : irDown'[j][i].kind = "refused" <=> irUp[j].bound = "refused"
      <3>1. CASE Bound(j)
        BY <1>2, <2>1, <3>1 DEF StreamHas, Bound
      <3>2. CASE ~Bound(j)
        BY <1>2, <2>1, <3>2 DEF StreamHas
      <3> QED
        BY <3>1, <3>2
    <2>6. StreamHas(h, j)'
      BY <2>1, <2>2, <2>4, <2>5 DEF StreamHas
    <2> QED
      BY <2>3, <2>6
  <1>7. TokenSent(h)'
    <2> SUFFICES ASSUME NEW j \in IrOf(h), irUp[j].token, irUp[j].bound = "new" PROVE FALSE
      BY <1>2 DEF TokenSent
    <2>1. irPend.at = irUp[j].s /\ h = Cur
      BY <1>1 DEF GateInv, TokenSent
    <2>2. irUp[j].s # IrNone
      BY <1>2, IrNums DEF IrInv, IrResume
    <2> QED
      BY <2>1, <2>2
  <1>8. TokenHeld(h)'
    <2> SUFFICES ASSUME G.st = "dial", G.token PROVE FALSE
      BY DEF TokenHeld
    <2> QED
      BY <1>1 DEF GateInv, TokenHeld
  <1>9. TokenComing(h)'
    <2> SUFFICES ASSUME G.st \in Streaming, NEW i \in DOMAIN irDown'[a], irDown'[a][i].kind = "redirect" PROVE FALSE
      BY DEF TokenComing
    <2>1. a \in IrStr /\ irUp[a].g = h /\ a # k
      BY <1>2, <1>3
    <2>2. i \in DOMAIN irDown[a] /\ irDown'[a][i] = irDown[a][i]
      BY <2>1
    <2>3. irPend.at # IrNone /\ a = irChar.out
      BY <1>1, <2>2 DEF GateInv, TokenComing
    <2> QED
      BY <2>1, <2>3 DEF Cur
  <1>10. RanOf(h)'
    BY <1>1, <1>2 DEF GateInv, RanOf
  <1>11. \A j \in IrOf(h) : (Bound(j)' <=> Bound(j)) /\ (Newest(j)' => Newest(j))
    <2>1. \A j \in IrOf(h) : Bound(j)' <=> Bound(j)
      BY <1>2 DEF Bound
    <2>2. ASSUME NEW j \in IrOf(h), Newest(j)', NEW l \in IrStr, Bound(l), irUp[l].g = irUp[j].g PROVE l <= j
      <3>1. l \in IrOf(h)
        BY <1>2, <2>2 DEF IrOf
      <3> QED
        BY <1>2, <2>1, <2>2, <3>1 DEF Newest
    <2> QED
      BY <2>1, <2>2 DEF Newest
  <1>12. FreshSent(h)'
    <2> SUFFICES ASSUME "late" \notin irPast, NEW j \in IrOf(h), Bound(j), Newest(j),
                        NEW i \in DOMAIN irLog, NEW m \in DOMAIN irUp[j].q, irLog[i][1] = h
                 PROVE  irLog[i][2] < irUp[j].q[m]
      BY <1>2, <1>4, <1>11 DEF FreshSent
    <2> QED
      BY <1>1 DEF GateInv, FreshSent
  <1>13. FreshReplay(h)'
    BY <1>1, <1>4 DEF GateInv, FreshReplay
  <1>14. FreshAck(h)'
    <2> SUFFICES ASSUME "late" \notin irPast, G.st = "wait", G.token, irUp'[a].bound = "bound"
                 PROVE  /\ irDown'[a] # <<>>
                        /\ \A i \in DOMAIN irLog : irLog[i][1] = h => irLog[i][2] <= irDown'[a][1].ack
      BY <1>4 DEF FreshAck
    <2>1. a \in IrStr /\ irUp[a].bound = "bound"
      BY <1>2, <1>3 DEF Streaming
    <2>2. /\ irDown[a] # <<>>
          /\ \A i \in DOMAIN irLog : irLog[i][1] = h => irLog[i][2] <= irDown[a][1].ack
      BY <1>1, <2>1 DEF GateInv, FreshAck
    <2> QED
      BY <2>1, <2>2
  <1>15. CalmKept(h)'
    BY <1>1, <1>4 DEF GateInv, CalmKept
  <1>16. CalmSeq(h)'
    BY <1>1, <1>2, <1>4 DEF GateInv, CalmSeq
  <1>17. CalmNew(h)'
    <2> SUFFICES ASSUME Calm, G.st = "wait", ~G.token, irUp'[a].bound = "new"
                 PROVE  Gapless(irUp'[a].q, 0, End(h)')
      BY <1>4 DEF CalmNew
    <2>1. End(h)' = End(h)
      BY DEF End
    <2>2. irUp'[a] = irUp[a]
      BY <1>2, <1>3 DEF Streaming
    <2> QED
      BY <1>1, <2>1, <2>2 DEF GateInv, CalmNew
  <1>18. CalmBound(h)'
    <2> SUFFICES ASSUME G.st \in Streaming, a = k PROVE FALSE
      BY DEF CalmBound
    <2> QED
      BY <1>2, <1>3
  <1> QED
    BY <1>5, <1>6, <1>7, <1>8, <1>9, <1>10, <1>12, <1>13, <1>14, <1>15, <1>16, <1>17, <1>18 DEF GateInv

\* Stream k is bound, and nothing else of it changes.
NowBound(k) ==
  /\ irUp' \in [IrStr -> IrStream] /\ irUp'[k].bound = "bound"
  /\ \A j \in IrStr : j # k => irUp'[j] = irUp[j]
  /\ \A j \in IrStr : /\ irUp'[j].g = irUp[j].g /\ irUp'[j].s = irUp[j].s /\ irUp'[j].resume = irUp[j].resume
                      /\ irUp'[j].token = irUp[j].token /\ irUp'[j].q = irUp[j].q
  /\ \A h \in IrGates : IrOf(h)' = IrOf(h)

\* Stream k is welcomed; only bound streams are told anything else.
Welcomed(k) ==
  /\ irDown'[k] # <<>> /\ \A i \in DOMAIN irDown'[k] : irDown'[k][i].kind = "output"
  /\ \A j \in IrStr : j # k /\ ~Bound(j) => irDown'[j] = irDown[j]
  /\ \A j \in IrStr : irDown[j] # <<>> => irDown'[j] # <<>> /\ irDown'[j][1] = irDown[j][1]
  /\ \A j \in IrStr : j # k => \A i \in DOMAIN irDown'[j] :
       (i \in DOMAIN irDown[j] /\ irDown'[j][i] = irDown[j][i]) \/ irDown'[j][i].kind = "kick"

\* A stream is bound: what does not depend on how.
LEMMA IrBindKeeps ==
  ASSUME IrInv, NEW k \in IrStr, irUp[k].g # 0, irUp[k].bound = "new", NEW g \in IrGates, g = irUp[k].g,
         irUp' \in [IrStr -> IrStream], irUp'[k].bound = "bound",
         \A j \in IrStr : j # k => irUp'[j] = irUp[j],
         \A j \in IrStr : /\ irUp'[j].g = irUp[j].g /\ irUp'[j].s = irUp[j].s /\ irUp'[j].resume = irUp[j].resume
                          /\ irUp'[j].token = irUp[j].token /\ irUp'[j].q = irUp[j].q,
         \A h \in IrGates : IrOf(h)' = IrOf(h),
         NEW a \in 0..IrLines, irChar'.at = irUp[k].s, ~irChar'.frozen, irChar'.applied = a, irChar'.out = k,
         irDown'[k] # <<>>, \A i \in DOMAIN irDown'[k] : irDown'[k][i].kind = "output",
         \A j \in IrStr : j # k /\ ~Bound(j) => irDown'[j] = irDown[j],
         \A j \in IrStr : irDown[j] # <<>> => irDown'[j] # <<>> /\ irDown'[j][1] = irDown[j][1],
         \A j \in IrStr : j # k => \A i \in DOMAIN irDown'[j] :
           (i \in DOMAIN irDown[j] /\ irDown'[j][i] = irDown[j][i]) \/ irDown'[j][i].kind = "kick",
         irPend'.at = IrNone, irPast \subseteq irPast', UNCHANGED <<irGate, irLog>>, IrShape',
         irPend.at = IrNone \/ g = Cur, Calm' => irChar.out = 0 \/ g = Cur,
         \A i \in DOMAIN irLog : irLog[i][1] = g => irLog[i][2] <= a,
         FreshSent(g)', FreshAck(g)', CalmKept(g)', CalmSeq(g)', CalmBound(g)',
         "taken" \notin irPast' => \A j \in IrStr : Bound(j) => irUp[j].g = g,
         IrDrained', IrOrder', CalmRan', CalmAcks'
  PROVE  IrInv'
  <1> DEFINE G == irGate[g]
  <1>1. /\ k \in IrOf(g) /\ irUp[k].s \in IrShards /\ irUp[k].s # IrNone
        /\ k = G.at /\ G.st \in {"wait", "done"} /\ irDown[k] = <<>> /\ irUp[k].token = G.token
        /\ (irUp[k].token => irUp[k].q = <<>>)
        /\ \A j \in IrOf(g) : j <= k /\ (j # k => irUp[j].bound # "new")
        /\ k # irChar.out /\ ~Bound(k)
    BY IrNewStream
  <1>2. Cur' = g
    BY DEF Cur
  <1>3. \A h \in IrGates : h # g => GateInv(h)'
    BY <1>2, IrElse
  <1>4. GateInv(g) /\ \A j \in IrOf(g) : j \in IrStr /\ irUp[j].g = g
    BY IrFacts DEF IrInv
  <1>5. GateHas(g)'
    <2>1. GateHas(g)
      BY <1>4 DEF GateInv
    <2>2. irUp'[k].g = g /\ irUp'[k].token = G.token /\ irUp'[k].bound = "bound" /\ irGate' = irGate /\ IrOf(g)' = IrOf(g)
      BY <1>1
    <2>3. G.at = k /\ G.st \in {"wait", "done"}
      BY <1>1
    <2> QED
      BY <2>1, <2>2, <2>3 DEF GateHas, Streaming
  <1>6. (\A j \in IrOf(g) : StreamHas(g, j) /\ StreamSent(g, j))'
    <2> SUFFICES ASSUME NEW j \in IrOf(g) PROVE StreamHas(g, j)' /\ StreamSent(g, j)'
      OBVIOUS
    <2>1. StreamHas(g, j) /\ StreamSent(g, j) /\ j \in IrStr
      BY <1>4 DEF GateInv
    <2>2. StreamSent(g, j)'
      BY <2>1 DEF StreamSent
    <2>3. CASE j = k
      <3>1. irUp'[k].token = G.token /\ (irUp'[k].token => irUp'[k].q = <<>>)
        BY <1>1
      <3>2. \A i \in DOMAIN irDown'[k] : irDown'[k][i].kind # "refused"
        OBVIOUS
      <3> QED
        BY <1>1, <2>2, <2>3, <3>1, <3>2 DEF StreamHas, Streaming
    <2>4. CASE j # k
      <3>1. irUp'[j] = irUp[j] /\ irGate' = irGate
        BY <2>1, <2>4
      <3>2. \A i \in DOMAIN irDown'[j] : irDown'[j][i].kind = "refused" <=> irUp[j].bound = "refused"
        <4>1. CASE Bound(j)
          BY <2>1, <2>4, <4>1 DEF StreamHas, Bound
        <4>2. CASE ~Bound(j)
          BY <2>1, <2>4, <4>2 DEF StreamHas
        <4> QED
          BY <4>1, <4>2
      <3>3. irUp[j].bound # "new"
        BY <1>1, <2>4
      <3> QED
        BY <2>1, <2>2, <3>1, <3>2, <3>3 DEF StreamHas
    <2> QED
      BY <2>3, <2>4
  <1>7. TokenSent(g)' /\ TokenHeld(g)' /\ TokenComing(g)'
    <2>1. TokenSent(g)'
      <3> SUFFICES ASSUME NEW j \in IrOf(g), irUp'[j].bound = "new" PROVE FALSE
        BY DEF TokenSent
      <3>1. j # k
        OBVIOUS
      <3>2. j \in IrStr /\ irUp'[j] = irUp[j]
        BY <1>4, <3>1
      <3>3. irUp[j].bound # "new"
        BY <1>1, <3>1
      <3> QED
        BY <3>2, <3>3
    <2>2. TokenHeld(g)'
      BY <1>1 DEF TokenHeld
    <2>3. TokenComing(g)'
      BY <1>1 DEF TokenComing
    <2> QED
      BY <2>1, <2>2, <2>3
  <1>8. RanOf(g)'
    <2>1. RanOf(g)
      BY <1>4 DEF GateInv
    <2> QED
      BY <1>1, <2>1 DEF RanOf
  <1>9. FreshReplay(g)' /\ CalmNew(g)'
    BY <1>1 DEF FreshReplay, CalmNew
  <1>10. GateInv(g)'
    BY <1>5, <1>6, <1>7, <1>8, <1>9 DEF GateInv
  <1>11. IrPrefix' /\ IrUnused' /\ IrResume'
    <2>1. IrPrefix'
      BY DEF IrInv, IrPrefix, Used
    <2>2. IrUnused'
      <3>1. \A j \in IrStr : irUp[j].g = 0 => j # k /\ ~Bound(j)
        BY DEF Bound
      <3> QED
        BY <3>1 DEF IrInv, IrUnused
    <2>3. IrResume'
      BY DEF IrInv, IrResume
    <2> QED
      BY <2>1, <2>2, <2>3
  <1>12. IrHeld'
    <2>1. \A j \in IrStr : Bound(j)' <=> j = k \/ Bound(j)
      <3> SUFFICES ASSUME NEW j \in IrStr PROVE Bound(j)' <=> j = k \/ Bound(j)
        OBVIOUS
      <3>1. CASE j = k
        BY <3>1 DEF Bound
      <3>2. CASE j # k
        BY <3>2 DEF Bound
      <3> QED
        BY <3>1, <3>2
    <2>2. Newest(k)'
      <3> SUFFICES ASSUME NEW j \in IrStr, irUp[j].g = g PROVE j <= k
        BY DEF Newest
      <3> QED
        BY <1>1 DEF IrOf
    <2>3. k # 0
      BY IrNums
    <2>4. "taken" \notin irPast' => \A j \in IrStr : Bound(j)' => irUp'[j].g = Cur'
      BY <1>2, <2>1
    <2>5. Bound(k)' /\ irUp'[k].s = irChar'.at
      BY <2>1
    <2> QED
      BY <1>1, <2>2, <2>3, <2>4, <2>5 DEF IrHeld
  <1> QED
    BY <1>3, <1>10, <1>11, <1>12 DEF IrInv

\* The same, in the words above.
LEMMA IrBindsKeeps ==
  ASSUME IrInv, NEW k \in IrStr, irUp[k].g # 0, irUp[k].bound = "new", NEW g \in IrGates, g = irUp[k].g,
         NowBound(k), Welcomed(k),
         NEW a \in 0..IrLines, irChar'.at = irUp[k].s, ~irChar'.frozen, irChar'.applied = a, irChar'.out = k,
         irPend'.at = IrNone, irPast \subseteq irPast', UNCHANGED <<irGate, irLog>>, IrShape',
         irPend.at = IrNone \/ g = Cur, Calm' => irChar.out = 0 \/ g = Cur,
         \A i \in DOMAIN irLog : irLog[i][1] = g => irLog[i][2] <= a,
         FreshSent(g)', FreshAck(g)', CalmKept(g)', CalmSeq(g)', CalmBound(g)',
         "taken" \notin irPast' => \A j \in IrStr : Bound(j) => irUp[j].g = g,
         IrDrained', IrOrder', CalmRan', CalmAcks'
  PROVE  IrInv'
  BY IrBindKeeps DEF NowBound, Welcomed

IrCharacter == [at : IrShards \cup {IrNone}, frozen : BOOLEAN, applied : 0..IrLines, out : 0..IrStreams, moves : Nat]

\* The character answers to a stream.
LEMMA IrSeated ==
  ASSUME IrInv, NEW k \in IrStr, NEW s \in IrShards, NEW a \in 0..IrLines,
         irChar' = [irChar EXCEPT !.at = s, !.frozen = FALSE, !.applied = a, !.out = k]
  PROVE  irChar' \in IrCharacter /\ irChar'.at = s /\ ~irChar'.frozen /\ irChar'.applied = a /\ irChar'.out = k
  <1>1. irChar \in IrCharacter /\ k \in 0..IrStreams
    BY IrAssumption DEF IrInv, IrShape, IrCharacter, IrStr
  <1> QED
    BY <1>1 DEF IrCharacter

\* The first frame of a stream.
LEMMA IrWelcome ==
  ASSUME NEW k \in IrStr, NEW D \in [IrStr -> Seq(IrFrame)], D[k] = <<>>,
         NEW f \in IrFrame, NEW E, E = [D EXCEPT ![k] = Append(@, f)]
  PROVE  /\ E \in [IrStr -> Seq(IrFrame)] /\ E[k] # <<>> /\ E[k][1] = f
         /\ \A i \in DOMAIN E[k] : E[k][i] = f
         /\ \A j \in IrStr : j # k => E[j] = D[j]
  <1>1. /\ E \in [IrStr -> Seq(IrFrame)] /\ \A j \in IrStr : j # k => E[j] = D[j]
        /\ E[k] # <<>> /\ E[k][1] = f
        /\ \A j \in IrStr : \A i \in DOMAIN E[j] : (i \in DOMAIN D[j] /\ E[j][i] = D[j][i]) \/ (j = k /\ E[j][i] = f)
    BY IrTold
  <1>2. DOMAIN D[k] = {}
    OBVIOUS
  <1> QED
    BY <1>1, <1>2

\* The frame that welcomes a stream.
LEMMA IrOutput ==
  ASSUME NEW a \in 0..IrLines, NEW s \in IrShards, NEW f, f = frame("output", a, s)
  PROVE  f \in IrFrame /\ f.kind = "output" /\ f.ack = a
  BY DEF frame, IrFrame

\* A stream bound by its token: the move is complete.
LEMMA IrTokenKeeps ==
  ASSUME IrInv, NEW k \in IrStr, irUp[k].g # 0, irUp[k].bound = "new",
         irUp[k].token, irPend.at = irUp[k].s,
         irUp' = [irUp EXCEPT ![k].bound = "bound"],
         irChar' = [irChar EXCEPT !.at = irUp[k].s, !.frozen = FALSE, !.applied = irPend.applied, !.out = k],
         irDown' = [irDown EXCEPT ![k] = Append(@, frame("output", irPend.applied, irUp[k].s))],
         irPend' = [irPend EXCEPT !.at = IrNone], UNCHANGED <<irGate, irLog, irPast>>
  PROVE  IrInv'
  <1>0. PICK g \in IrGates : g = irUp[k].g
    BY IrNewStream
  <1> DEFINE G == irGate[g]
             a == irPend.applied
             s == irUp[k].s
             o == irChar.out
  <1>1. /\ k \in IrOf(g) /\ s \in IrShards /\ s # IrNone
        /\ k = G.at /\ G.st \in {"wait", "done"} /\ irDown[k] = <<>> /\ irUp[k].token = G.token
        /\ (irUp[k].token => irUp[k].q = <<>>)
        /\ \A j \in IrOf(g) : j <= k /\ (j # k => irUp[j].bound # "new")
        /\ k # irChar.out /\ ~Bound(k)
    BY <1>0, IrNewStream
  <1>2. /\ irUp' \in [IrStr -> IrStream] /\ irUp'[k].bound = "bound"
        /\ \A j \in IrStr : j # k => irUp'[j] = irUp[j]
        /\ \A j \in IrStr : /\ irUp'[j].g = irUp[j].g /\ irUp'[j].s = irUp[j].s /\ irUp'[j].resume = irUp[j].resume
                            /\ irUp'[j].token = irUp[j].token /\ irUp'[j].q = irUp[j].q
        /\ \A h \in IrGates : IrOf(h)' = IrOf(h)
    BY IrMarked
  <1>3. GateInv(g) /\ irPend \in [at : IrShards \cup {IrNone}, applied : 0..IrLines] /\ a \in 0..IrLines /\ a \in Nat
        /\ irDown \in [IrStr -> Seq(IrFrame)]
    BY IrNats DEF IrInv, IrShape
  <1>4. g = Cur /\ o # 0 /\ o \in IrStr /\ Bound(o) /\ Newest(o) /\ irUp[o].s = irChar.at
        /\ a = irChar.applied /\ irChar.frozen /\ irPend.at # irChar.at
    <2>1. g = Cur
      BY <1>1, <1>3 DEF GateInv, TokenSent
    <2>2. irPend.at # IrNone
      BY <1>1
    <2> QED
      BY <2>1, <2>2, IrFacts DEF IrInv, IrHeld
  <1>5. /\ irDown' \in [IrStr -> Seq(IrFrame)] /\ irDown'[k] # <<>> /\ irDown'[k][1].ack = a
        /\ \A i \in DOMAIN irDown'[k] : irDown'[k][i].kind = "output" /\ irDown'[k][i].ack = a
        /\ \A j \in IrStr : j # k => irDown'[j] = irDown[j]
    <2>1. irDown[k] = <<>> /\ irDown \in [IrStr -> Seq(IrFrame)] /\ a \in 0..IrLines /\ s \in IrShards
      BY <1>1, <1>3
    <2> DEFINE f == frame("output", a, s)
    <2>2. irDown' = [irDown EXCEPT ![k] = Append(@, f)]
      OBVIOUS
    <2>3. f \in IrFrame /\ f.kind = "output" /\ f.ack = a
      <3> HIDE DEF a, s
      <3> QED
        BY <2>1, IrOutput
    <2> HIDE DEF f
    <2>4. /\ irDown' \in [IrStr -> Seq(IrFrame)] /\ irDown'[k] # <<>> /\ irDown'[k][1] = f
          /\ \A i \in DOMAIN irDown'[k] : irDown'[k][i] = f
          /\ \A j \in IrStr : j # k => irDown'[j] = irDown[j]
      BY <2>1, <2>2, <2>3, IrWelcome
    <2> QED
      BY <2>3, <2>4
  <1>6. irChar' \in IrCharacter /\ irChar'.at = s /\ ~irChar'.frozen /\ irChar'.applied = a /\ irChar'.out = k
    BY <1>1, <1>3, IrSeated
  <1>7. irPend'.at = IrNone /\ irPend' \in [at : IrShards \cup {IrNone}, applied : 0..IrLines]
    BY <1>3
  <1> HIDE DEF a, s, o
  <1>8. IrShape'
    BY <1>2, <1>5, <1>6, <1>7 DEF IrInv, IrShape, IrCharacter
  <1>9. Cur' = Cur /\ Calm' = Calm
    BY <1>0, <1>2, <1>4, <1>6 DEF Cur, Calm
  <1>10. \A j \in IrStr : Bound(j)' <=> j = k \/ Bound(j)
    <2> SUFFICES ASSUME NEW j \in IrStr PROVE Bound(j)' <=> j = k \/ Bound(j)
      OBVIOUS
    <2>1. CASE j = k
      BY <1>2, <2>1 DEF Bound
    <2>2. CASE j # k
      BY <1>2, <2>2 DEF Bound
    <2> QED
      BY <2>1, <2>2
  <1>11. RanOf(g) /\ \A i \in DOMAIN irLog : irLog[i][1] = g => irLog[i][2] <= a
    BY <1>3, <1>4 DEF GateInv, RanOf
  <1>12. FreshSent(g)'
    <2> SUFFICES ASSUME NEW j \in IrOf(g), Newest(j)' PROVE irUp'[j].q = <<>>
      BY <1>2 DEF FreshSent
    <2>1. j \in IrStr /\ irUp[j].g = g
      BY IrFacts
    <2>2. k <= j
      BY <1>0, <1>2, <1>10, <2>1 DEF Newest
    <2>3. j = k
      BY <1>1, <2>1, <2>2 DEF IrStr
    <2> QED
      BY <1>1, <1>2, <2>3
  <1>13. FreshAck(g)'
    BY <1>1, <1>5, <1>11 DEF FreshAck
  <1>14. CalmKept(g)'
    BY <1>3, <1>4, <1>6, <1>9, IrNums DEF GateInv, CalmKept
  <1>15. CalmSeq(g)'
    <2> SUFFICES ASSUME Calm, NEW j \in IrOf(g), NEW i \in DOMAIN irUp'[j].q
                 PROVE  irUp'[j].bound # "new" /\ j # k
      BY <1>2, <1>6, <1>9 DEF CalmSeq
    <2>1. j # k /\ j \in IrStr
      BY <1>1, <1>2, IrFacts
    <2> QED
      BY <1>1, <1>2, <2>1
  <1>16. CalmBound(g)'
    <2> SUFFICES ASSUME G.st = "wait" PROVE End(g)' >= a /\ Gapless(irUp'[k].q, a, End(g)')
      BY <1>1, <1>6 DEF CalmBound, Streaming
    <2>1. End(g)' = a
      BY <1>1, <1>6 DEF End
    <2>2. Gapless(<<>>, a, a)
      BY <1>3 DEF Gapless
    <2> QED
      BY <1>1, <1>2, <1>3, <2>1, <2>2
  <1>17. "taken" \notin irPast' => \A j \in IrStr : Bound(j) => irUp[j].g = g
    BY <1>4 DEF IrInv, IrHeld
  <1>18. IrDrained'
    <2> SUFFICES ASSUME "late" \notin irPast, NEW j \in IrStr, Bound(j)', irUp[j].s \in {s, IrNone}, ~Newest(j)'
                 PROVE  irUp[j].q = <<>>
      BY <1>2, <1>6, <1>7 DEF IrDrained
    <2>1. CASE j = k
      BY <1>1, <2>1
    <2>2. CASE j # k
      <3>1. Bound(j) /\ irUp[j].s = s
        BY <1>10, <2>2 DEF IrInv, IrResume, Bound
      <3>2. ~Newest(j)
        <4> SUFFICES ASSUME Newest(j) PROVE FALSE
          OBVIOUS
        <4>1. irUp[j].g = g
          <5> SUFFICES ASSUME irUp[j].g # g PROVE Newest(j)'
            OBVIOUS
          <5>1. \A l \in IrStr : Bound(l)' /\ irUp'[l].g = irUp'[j].g => Bound(l) /\ irUp[l].g = irUp[j].g
            BY <1>0, <1>2, <1>10
          <5> QED
            BY <5>1 DEF Newest
        <4>2. j <= o /\ o <= j
          BY <1>4, <3>1, <4>1 DEF Newest, Cur, o
        <4>3. j = o
          BY <1>4, <4>2 DEF IrStr
        <4> QED
          BY <1>4, <3>1, <4>3 DEF s
      <3> QED
        BY <3>1, <3>2 DEF IrInv, IrDrained, s
    <2> QED
      BY <2>1, <2>2
  <1>19. IrOrder'
    <2>1. IrOrder /\ k # 0 /\ o # 0 /\ irChar'.out = k /\ irLog' = irLog /\ irPast' = irPast
      BY <1>4, <1>6, IrNums DEF IrInv
    <2> QED
      BY <1>9, <2>1 DEF IrOrder, InOrder, o
  <1>20. CalmRan'
    BY <1>4, <1>6, <1>9 DEF IrInv, CalmRan, a, o
  <1>21. CalmAcks'
    <2> SUFFICES ASSUME Calm, NEW j \in IrStr, NEW i \in DOMAIN irDown'[j] PROVE irDown'[j][i].ack <= a
      BY <1>6, <1>9 DEF CalmAcks
    <2>1. CASE j = k
      BY <1>3, <1>5, <2>1
    <2>2. CASE j # k
      BY <1>4, <1>5, <2>2 DEF IrInv, CalmAcks
    <2> QED
      BY <2>1, <2>2
  <1>22. irPast \subseteq irPast' /\ irPast' = irPast /\ irGate' = irGate /\ irLog' = irLog
    OBVIOUS
  <1>23. \A j \in IrStr : irDown[j] # <<>> => irDown'[j] # <<>> /\ irDown'[j][1] = irDown[j][1]
    BY <1>1, <1>5
  <1>24. \A j \in IrStr : j # k => \A i \in DOMAIN irDown'[j] :
           (i \in DOMAIN irDown[j] /\ irDown'[j][i] = irDown[j][i]) \/ irDown'[j][i].kind = "kick"
    BY <1>5
  <1>25. irChar'.at = irUp[k].s
    BY <1>6 DEF s
  <1> QED
    <2>1. /\ irChar'.at = irUp[k].s /\ ~irChar'.frozen /\ irChar'.applied = a /\ irChar'.out = k
          /\ irPend'.at = IrNone /\ irPast \subseteq irPast' /\ UNCHANGED <<irGate, irLog>>
          /\ irPend.at = IrNone \/ g = Cur
          /\ Calm' => irChar.out = 0 \/ g = Cur
          /\ g = irUp[k].g /\ a \in 0..IrLines
      BY <1>0, <1>3, <1>4, <1>6, <1>7, <1>22, <1>25
    <2>2. /\ irDown'[k] # <<>> /\ \A i \in DOMAIN irDown'[k] : irDown'[k][i].kind = "output"
          /\ \A j \in IrStr : j # k /\ ~Bound(j) => irDown'[j] = irDown[j]
      BY <1>5
    <2>3. NowBound(k)
      BY <1>2 DEF NowBound
    <2>4. Welcomed(k)
      BY <2>2 DEF Welcomed
    <2> QED
      BY <1>8, <1>11, <1>12, <1>13, <1>14, <1>15, <1>16, <1>17, <1>18, <1>19,
         <1>20, <1>21, <1>23, <1>24, <2>1, <2>3, <2>4, IrBindsKeeps

\* D with a frame more on stream k.
Told(D, k, f) == [D EXCEPT ![k] = Append(@, f)]

\* Its other streams are as they were, and the frames of k stand before the new one.
LEMMA ToldLast ==
  ASSUME NEW D \in [IrStr -> Seq(IrFrame)], NEW k \in IrStr, NEW f \in IrFrame
  PROVE  /\ Told(D, k, f) \in [IrStr -> Seq(IrFrame)] /\ \A j \in IrStr : j # k => Told(D, k, f)[j] = D[j]
         /\ \A j \in IrStr : D[j] # <<>> => Told(D, k, f)[j] # <<>> /\ Told(D, k, f)[j][1] = D[j][1]
         /\ \A j \in IrStr : \A i \in DOMAIN Told(D, k, f)[j] :
              (i \in DOMAIN D[j] /\ Told(D, k, f)[j][i] = D[j][i]) \/ (j = k /\ Told(D, k, f)[j][i] = f)
  BY IrTold DEF Told

\* A frame of the result is one of D or the new one.
LEMMA ToldFrame ==
  ASSUME NEW D \in [IrStr -> Seq(IrFrame)], NEW k \in IrStr, NEW f \in IrFrame,
         NEW E, E = Told(D, k, f), NEW j \in IrStr, NEW i \in DOMAIN E[j]
  PROVE  (i \in DOMAIN D[j] /\ E[j][i] = D[j][i]) \/ (j = k /\ E[j][i] = f)
  <1>1. \A l \in IrStr : \A m \in DOMAIN E[l] : (m \in DOMAIN D[l] /\ E[l][m] = D[l][m]) \/ (l = k /\ E[l][m] = f)
    <2>1. E = [D EXCEPT ![k] = Append(@, f)]
      BY DEF Told
    <2> QED
      BY <2>1, IrTold
  <1> QED
    BY <1>1

\* A frame on an empty stream is its only one.
LEMMA ToldFirst ==
  ASSUME NEW D \in [IrStr -> Seq(IrFrame)], NEW k \in IrStr, NEW f \in IrFrame, D[k] = <<>>
  PROVE  /\ Told(D, k, f) \in [IrStr -> Seq(IrFrame)] /\ Told(D, k, f)[k] # <<>>
         /\ \A i \in DOMAIN Told(D, k, f)[k] : Told(D, k, f)[k][i] = f
         /\ \A j \in IrStr : j # k => Told(D, k, f)[j] = D[j]
  BY IrWelcome DEF Told

\* From B to E stream k was welcomed and stream o told it was kicked.
Kicked(B, E, k, o) ==
  /\ E \in [IrStr -> Seq(IrFrame)] /\ E[k] # <<>>
  /\ \A i \in DOMAIN E[k] : E[k][i].kind = "output"
  /\ \A j \in IrStr : j # k /\ j # o => E[j] = B[j]
  /\ \A j \in IrStr : B[j] # <<>> => E[j] # <<>> /\ E[j][1] = B[j][1]
  /\ \A j \in IrStr : j # k => \A i \in DOMAIN E[j] :
       (i \in DOMAIN B[j] /\ E[j][i] = B[j][i]) \/ E[j][i].kind = "kick"

\* What two frames do: one kicks stream o, the other welcomes k.
LEMMA IrKicked ==
  ASSUME NEW B \in [IrStr -> Seq(IrFrame)], NEW o \in IrStr, NEW k \in IrStr, k # o, B[k] = <<>>,
         NEW c \in IrFrame, c.kind = "kick", NEW f \in IrFrame, f.kind = "output",
         NEW E, E = Told(Told(B, o, c), k, f)
  PROVE  Kicked(B, E, k, o)
  <1> DEFINE D == Told(B, o, c)
  <1>1. E = Told(D, k, f)
    OBVIOUS
  <1>2. /\ D \in [IrStr -> Seq(IrFrame)] /\ \A j \in IrStr : j # o => D[j] = B[j]
        /\ \A j \in IrStr : B[j] # <<>> => D[j] # <<>> /\ D[j][1] = B[j][1]
        /\ \A j \in IrStr : \A i \in DOMAIN D[j] : (i \in DOMAIN B[j] /\ D[j][i] = B[j][i]) \/ (j = o /\ D[j][i] = c)
    <2>1. D \in [IrStr -> Seq(IrFrame)] /\ \A j \in IrStr : j # o => D[j] = B[j]
      BY ToldLast
    <2>2. \A j \in IrStr : B[j] # <<>> => D[j] # <<>> /\ D[j][1] = B[j][1]
      <3> SUFFICES ASSUME NEW j \in IrStr, B[j] # <<>> PROVE D[j] # <<>> /\ D[j][1] = B[j][1]
        OBVIOUS
      <3> QED
        BY ToldLast
    <2>3. \A j \in IrStr : \A i \in DOMAIN D[j] : (i \in DOMAIN B[j] /\ D[j][i] = B[j][i]) \/ (j = o /\ D[j][i] = c)
      <3> SUFFICES ASSUME NEW j \in IrStr, NEW i \in DOMAIN D[j]
                   PROVE  (i \in DOMAIN B[j] /\ D[j][i] = B[j][i]) \/ (j = o /\ D[j][i] = c)
        OBVIOUS
      <3>1. D = Told(B, o, c)
        OBVIOUS
      <3> HIDE DEF D
      <3> QED
        BY <3>1, ToldFrame
    <2> QED
      BY <2>1, <2>2, <2>3
  <1> HIDE DEF D
  <1>3. D[k] = <<>> /\ D \in [IrStr -> Seq(IrFrame)]
    BY <1>2
  <1>6. /\ E \in [IrStr -> Seq(IrFrame)] /\ E[k] # <<>> /\ \A i \in DOMAIN E[k] : E[k][i] = f
        /\ \A j \in IrStr : j # k => E[j] = D[j]
    <2>1. /\ Told(D, k, f) \in [IrStr -> Seq(IrFrame)] /\ Told(D, k, f)[k] # <<>>
          /\ \A i \in DOMAIN Told(D, k, f)[k] : Told(D, k, f)[k][i] = f
          /\ \A j \in IrStr : j # k => Told(D, k, f)[j] = D[j]
      BY <1>3, ToldFirst
    <2> QED
      BY <1>1, <2>1
  <1>7. ASSUME NEW j \in IrStr, j # k
        PROVE  \A i \in DOMAIN E[j] : (i \in DOMAIN B[j] /\ E[j][i] = B[j][i]) \/ E[j][i].kind = "kick"
    <2>1. E[j] = D[j]
      BY <1>6, <1>7
    <2>2. \A i \in DOMAIN D[j] : (i \in DOMAIN B[j] /\ D[j][i] = B[j][i]) \/ D[j][i] = c
      BY <1>2
    <2> QED
      BY <2>1, <2>2
  <1>8. \A j \in IrStr : j # k /\ j # o => E[j] = B[j]
    BY <1>2, <1>6
  <1>9. \A i \in DOMAIN E[k] : E[k][i].kind = "output"
    BY <1>6
  <1>10. \A j \in IrStr : B[j] # <<>> => E[j] # <<>> /\ E[j][1] = B[j][1]
    BY <1>2, <1>6
  <1> QED
    BY <1>6, <1>7, <1>8, <1>9, <1>10 DEF Kicked

\* A login that takes the live character over: the old stream is told, the fence clamped.
LEMMA IrTakeKeeps ==
  ASSUME IrInv, NEW k \in IrStr, irUp[k].g # 0, irUp[k].bound = "new",
         ~irUp[k].token, irChar.at = irUp[k].s, ~irChar.frozen,
         irUp' = [irUp EXCEPT ![k].bound = "bound"],
         NEW a, a = clamp(k, irChar.applied),
         irChar' = [irChar EXCEPT !.at = irUp[k].s, !.frozen = FALSE, !.applied = a, !.out = k],
         irDown' = Told(Told(irDown, irChar.out, frame("kick", irChar.applied, irUp[k].s)),
                        k, frame("output", a, irUp[k].s)),
         irPast' = irPast \cup {"taken"}, UNCHANGED <<irGate, irLog, irPend>>
  PROVE  IrInv'
  <1>0. PICK g \in IrGates : g = irUp[k].g
    BY IrNewStream
  <1> DEFINE G == irGate[g]
             s == irUp[k].s
             o == irChar.out
  <1>1. /\ k \in IrOf(g) /\ s \in IrShards /\ s # IrNone
        /\ k = G.at /\ G.st \in {"wait", "done"} /\ irDown[k] = <<>> /\ irUp[k].token = G.token /\ ~G.token
        /\ \A j \in IrOf(g) : j <= k /\ (j # k => irUp[j].bound = "refused")
        /\ k # irChar.out /\ ~Bound(k)
    BY <1>0, IrNewStream
  <1>2. /\ irUp' \in [IrStr -> IrStream] /\ irUp'[k].bound = "bound"
        /\ \A j \in IrStr : j # k => irUp'[j] = irUp[j]
        /\ \A j \in IrStr : /\ irUp'[j].g = irUp[j].g /\ irUp'[j].s = irUp[j].s /\ irUp'[j].resume = irUp[j].resume
                            /\ irUp'[j].token = irUp[j].token /\ irUp'[j].q = irUp[j].q
        /\ \A h \in IrGates : IrOf(h)' = IrOf(h)
    BY IrMarked
  <1>3. GateInv(g) /\ irChar.applied \in Nat /\ irDown \in [IrStr -> Seq(IrFrame)] /\ g # 0 /\ k # 0
        /\ irPend \in [at : IrShards \cup {IrNone}, applied : 0..IrLines] /\ irChar \in IrCharacter
    BY IrNats, IrNums DEF IrInv, IrShape, IrCharacter
  <1>4. o # 0 /\ o \in IrStr /\ Cur \in IrGates /\ Bound(o) /\ irPend.at = IrNone /\ a \in 0..IrLines
    <2>1. o # 0 /\ o \in IrStr /\ Cur \in IrGates /\ Bound(o) /\ irPend.at = IrNone
      BY <1>1, IrFacts DEF IrInv, IrHeld
    <2>2. irUp[k].resume \in 0..(IrLines + 1) /\ irUp[k].resume # 0 /\ irChar.applied \in 0..IrLines
      BY <1>3, IrFacts DEF IrInv, IrResume, IrStream, IrCharacter
    <2>3. a \in 0..IrLines
      BY <2>2, IrAssumption DEF clamp
    <2> QED
      BY <2>1, <2>3
  <1>5. /\ irDown' \in [IrStr -> Seq(IrFrame)] /\ irDown'[k] # <<>>
        /\ \A i \in DOMAIN irDown'[k] : irDown'[k][i].kind = "output"
        /\ \A j \in IrStr : j # k /\ j # o => irDown'[j] = irDown[j]
        /\ \A j \in IrStr : irDown[j] # <<>> => irDown'[j] # <<>> /\ irDown'[j][1] = irDown[j][1]
        /\ \A j \in IrStr : j # k => \A i \in DOMAIN irDown'[j] :
             (i \in DOMAIN irDown[j] /\ irDown'[j][i] = irDown[j][i]) \/ irDown'[j][i].kind = "kick"
    <2> DEFINE c == frame("kick", irChar.applied, s)
               f == frame("output", a, s)
    <2>1. c \in IrFrame /\ c.kind = "kick"
      BY <1>1, <1>3 DEF frame, IrFrame, IrCharacter
    <2>2. f \in IrFrame /\ f.kind = "output"
      <3>1. a \in 0..IrLines /\ s \in IrShards
        BY <1>1, <1>4
      <3> HIDE DEF s
      <3> QED
        BY <3>1, IrOutput
    <2>3. irDown' = Told(Told(irDown, o, c), k, f)
      OBVIOUS
    <2>4. k # o /\ irDown[k] = <<>> /\ o \in IrStr /\ irDown \in [IrStr -> Seq(IrFrame)]
      BY <1>1, <1>3, <1>4
    <2> HIDE DEF c, f, o, s
    <2>5. Kicked(irDown, irDown', k, o)
      BY <2>1, <2>2, <2>3, <2>4, IrKicked
    <2> QED
      BY <2>5 DEF Kicked
  <1>6. irChar' \in IrCharacter /\ irChar'.at = s /\ ~irChar'.frozen /\ irChar'.applied = a /\ irChar'.out = k
    BY <1>1, <1>4, IrSeated
  <1>7. irPend'.at = IrNone /\ irPast \subseteq irPast'
    BY <1>4
  <1> HIDE DEF s, o
  <1>8. IrShape'
    BY <1>2, <1>3, <1>5, <1>6 DEF IrInv, IrShape, IrCharacter
  <1>9. ~Calm' /\ "taken" \in irPast'
    BY DEF Calm
  <1>10. \A j \in IrStr : Bound(j)' <=> j = k \/ Bound(j)
    <2> SUFFICES ASSUME NEW j \in IrStr PROVE Bound(j)' <=> j = k \/ Bound(j)
      OBVIOUS
    <2>1. CASE j = k
      BY <1>0, <1>2, <1>3, <2>1 DEF Bound
    <2>2. CASE j # k
      BY <1>2, <2>2 DEF Bound
    <2> QED
      BY <2>1, <2>2
  <1>11. \A j \in IrOf(g) : ~Bound(j) /\ irUp[j].bound # "bound"
    BY <1>1 DEF Bound
  <1>12. \A i \in DOMAIN irLog : irLog[i][1] # g
    BY <1>3, <1>11 DEF GateInv, RanOf
  <1>13. FreshSent(g)' /\ FreshAck(g)'
    BY <1>1, <1>12 DEF FreshSent, FreshAck
  <1>14. CalmKept(g)' /\ CalmSeq(g)' /\ CalmBound(g)'
    BY <1>9 DEF CalmKept, CalmSeq, CalmBound
  <1>15. CalmKept(g)'
    BY <1>14
  <1>16. CalmSeq(g)' /\ CalmBound(g)'
    BY <1>14
  <1>17. "taken" \notin irPast' => \A j \in IrStr : Bound(j) => irUp[j].g = g
    BY <1>9
  <1>18. IrDrained'
    <2> SUFFICES ASSUME "late" \notin irPast', NEW j \in IrStr, Bound(j)', irUp[j].s \in {s, IrNone}, ~Newest(j)'
                 PROVE  irUp[j].q = <<>>
      BY <1>2, <1>6, <1>7 DEF IrDrained
    <2>1. j # k
      <3> SUFFICES Newest(k)'
        OBVIOUS
      <3> SUFFICES ASSUME NEW l \in IrStr, irUp[l].g = g PROVE l <= k
        BY <1>0, <1>2 DEF Newest
      <3> QED
        BY <1>1 DEF IrOf
    <2>2. Bound(j) /\ irUp[j].s = s
      BY <1>10, <2>1 DEF IrInv, IrResume, Bound
    <2>3. irUp[j].g # g
      BY <1>11, <2>2 DEF IrOf
    <2>4. ~Newest(j)
      <3> SUFFICES ASSUME Newest(j) PROVE Newest(j)'
        OBVIOUS
      <3>1. \A l \in IrStr : Bound(l)' /\ irUp'[l].g = irUp'[j].g => Bound(l) /\ irUp[l].g = irUp[j].g
        BY <1>0, <1>2, <1>10, <2>3
      <3> QED
        BY <3>1 DEF Newest
    <2> QED
      BY <1>7, <2>2, <2>4 DEF IrInv, IrDrained, s
  <1>19. IrOrder'
    <2> SUFFICES ASSUME NEW h \in IrGates, "late" \in irPast => h = g PROVE InOrder(h)
      BY <1>0, <1>2, <1>6, <1>9 DEF IrOrder, InOrder, Cur
    <2>1. CASE h = g
      BY <1>12, <2>1 DEF InOrder
    <2>2. CASE "late" \notin irPast
      BY <2>2 DEF IrInv, IrOrder
    <2> QED
      BY <2>1, <2>2
  <1>20. CalmRan'
    BY <1>9 DEF CalmRan
  <1>21. CalmAcks'
    BY <1>9 DEF CalmAcks
  <1> QED
    <2>1. /\ irChar'.at = irUp[k].s /\ ~irChar'.frozen /\ irChar'.applied = a /\ irChar'.out = k
          /\ irPend'.at = IrNone /\ irPast \subseteq irPast' /\ UNCHANGED <<irGate, irLog>>
          /\ irPend.at = IrNone \/ g = Cur
          /\ Calm' => irChar.out = 0 \/ g = Cur
          /\ g = irUp[k].g /\ a \in 0..IrLines
          /\ \A i \in DOMAIN irLog : irLog[i][1] = g => irLog[i][2] <= a
      BY <1>0, <1>4, <1>6, <1>7, <1>9, <1>12
    <2>2. /\ irDown'[k] # <<>> /\ \A i \in DOMAIN irDown'[k] : irDown'[k][i].kind = "output"
          /\ \A j \in IrStr : j # k /\ ~Bound(j) => irDown'[j] = irDown[j]
          /\ \A j \in IrStr : irDown[j] # <<>> => irDown'[j] # <<>> /\ irDown'[j][1] = irDown[j][1]
          /\ \A j \in IrStr : j # k => \A i \in DOMAIN irDown'[j] :
               (i \in DOMAIN irDown[j] /\ irDown'[j][i] = irDown[j][i]) \/ irDown'[j][i].kind = "kick"
      <3>1. \A j \in IrStr : j # k /\ ~Bound(j) => irDown'[j] = irDown[j]
        BY <1>4, <1>5
      <3> QED
        BY <1>5, <3>1
    <2>3. NowBound(k)
      BY <1>2 DEF NowBound
    <2>4. Welcomed(k)
      BY <2>2 DEF Welcomed
    <2> QED
      BY <1>8, <1>13, <1>14, <1>15, <1>16, <1>17, <1>18, <1>19, <1>20, <1>21, <2>1, <2>3, <2>4, IrBindsKeeps

\* A login that finds nobody: a fresh character.
LEMMA IrFreshKeeps ==
  ASSUME IrInv, NEW k \in IrStr, irUp[k].g # 0, irUp[k].bound = "new",
         ~irUp[k].token, irChar.at = IrNone,
         irUp' = [irUp EXCEPT ![k].bound = "bound"],
         irChar' = [irChar EXCEPT !.at = irUp[k].s, !.frozen = FALSE, !.applied = 0, !.out = k],
         irDown' = [irDown EXCEPT ![k] = Append(@, frame("output", 0, irUp[k].s))],
         UNCHANGED <<irGate, irLog, irPend, irPast>>
  PROVE  IrInv'
  <1>0. PICK g \in IrGates : g = irUp[k].g
    BY IrNewStream
  <1> DEFINE G == irGate[g]
             s == irUp[k].s
             o == irChar.out
  <1>1. /\ k \in IrOf(g) /\ s \in IrShards /\ s # IrNone
        /\ k = G.at /\ G.st \in {"wait", "done"} /\ irDown[k] = <<>> /\ irUp[k].token = G.token /\ ~G.token
        /\ \A j \in IrOf(g) : j <= k /\ (j # k => irUp[j].bound = "refused")
        /\ k # irChar.out /\ ~Bound(k)
    BY <1>0, IrNewStream
  <1>2. /\ irUp' \in [IrStr -> IrStream] /\ irUp'[k].bound = "bound"
        /\ \A j \in IrStr : j # k => irUp'[j] = irUp[j]
        /\ \A j \in IrStr : /\ irUp'[j].g = irUp[j].g /\ irUp'[j].s = irUp[j].s /\ irUp'[j].resume = irUp[j].resume
                            /\ irUp'[j].token = irUp[j].token /\ irUp'[j].q = irUp[j].q
        /\ \A h \in IrGates : IrOf(h)' = IrOf(h)
    BY IrMarked
  <1>3. GateInv(g) /\ irChar.applied \in Nat /\ irDown \in [IrStr -> Seq(IrFrame)] /\ g # 0 /\ k # 0
        /\ irPend \in [at : IrShards \cup {IrNone}, applied : 0..IrLines] /\ irChar \in IrCharacter
    BY IrNats, IrNums DEF IrInv, IrShape, IrCharacter
  <1> DEFINE a == 0
  <1>4. /\ o = 0 /\ irPend.at = IrNone /\ a \in 0..IrLines /\ irLog = <<>> /\ irChar.applied = 0
        /\ \A j \in IrStr : ~Bound(j)
    BY IrAssumption DEF IrInv, IrHeld
  <1>5. /\ irDown' \in [IrStr -> Seq(IrFrame)] /\ irDown'[k] # <<>>
        /\ \A i \in DOMAIN irDown'[k] : irDown'[k][i].kind = "output" /\ irDown'[k][i].ack = a
        /\ \A j \in IrStr : j # k => irDown'[j] = irDown[j]
    <2>1. irDown[k] = <<>> /\ irDown \in [IrStr -> Seq(IrFrame)] /\ a \in 0..IrLines /\ s \in IrShards
      BY <1>1, <1>3, <1>4
    <2> DEFINE f == frame("output", a, s)
    <2>2. irDown' = [irDown EXCEPT ![k] = Append(@, f)]
      OBVIOUS
    <2>3. f \in IrFrame /\ f.kind = "output" /\ f.ack = a
      <3> HIDE DEF a, s
      <3> QED
        BY <2>1, IrOutput
    <2> HIDE DEF f
    <2>4. /\ irDown' \in [IrStr -> Seq(IrFrame)] /\ irDown'[k] # <<>> /\ irDown'[k][1] = f
          /\ \A i \in DOMAIN irDown'[k] : irDown'[k][i] = f
          /\ \A j \in IrStr : j # k => irDown'[j] = irDown[j]
      BY <2>1, <2>2, <2>3, IrWelcome
    <2> QED
      BY <2>3, <2>4
  <1>6. irChar' \in IrCharacter /\ irChar'.at = s /\ ~irChar'.frozen /\ irChar'.applied = a /\ irChar'.out = k
    BY <1>1, <1>4, IrSeated
  <1>7. irPend'.at = IrNone /\ irPast \subseteq irPast'
    BY <1>4
  <1> HIDE DEF s, o
  <1>8. IrShape'
    BY <1>2, <1>3, <1>5, <1>6 DEF IrInv, IrShape, IrCharacter
  <1>9. (Calm' => irChar.out = 0) /\ Calm' = Calm
    BY <1>4 DEF Calm, o
  <1>10. \A j \in IrStr : Bound(j)' <=> j = k \/ Bound(j)
    <2> SUFFICES ASSUME NEW j \in IrStr PROVE Bound(j)' <=> j = k \/ Bound(j)
      OBVIOUS
    <2>1. CASE j = k
      BY <1>0, <1>2, <1>3, <2>1 DEF Bound
    <2>2. CASE j # k
      BY <1>2, <2>2 DEF Bound
    <2> QED
      BY <2>1, <2>2
  <1>11. \A j \in IrOf(g) : ~Bound(j) /\ irUp[j].bound # "bound"
    BY <1>1 DEF Bound
  <1>12. \A i \in DOMAIN irLog : irLog[i][1] # g
    BY <1>3, <1>11 DEF GateInv, RanOf
  <1>13. FreshSent(g)' /\ FreshAck(g)'
    BY <1>1, <1>12 DEF FreshSent, FreshAck
  <1>14. CalmKept(g)'
    BY <1>3, <1>4, <1>9 DEF GateInv, CalmKept, o
  <1>15. CalmSeq(g)'
    <2> SUFFICES ASSUME Calm, NEW j \in IrOf(g), NEW i \in DOMAIN irUp'[j].q
                 PROVE  irUp'[j].bound # "new" /\ (j = k => irUp'[j].q[i] = 0 + i)
      BY <1>2, <1>6, <1>9 DEF CalmSeq
    <2>1. j \in IrStr /\ irUp'[j].q = irUp[j].q
      BY <1>2, IrFacts
    <2>2. irUp'[j].bound # "new"
      BY <1>1, <1>2, <2>1
    <2>3. ASSUME j = k PROVE irUp[j].q[i] = i /\ i \in Nat
      <3>1. irUp[j].q[i] = i
        BY <1>3, <2>1, <2>3 DEF GateInv, CalmSeq
      <3>2. irUp[j].q \in Seq(Nat)
        BY <2>1, IrNats
      <3> QED
        BY <2>1, <3>1, <3>2
    <2> QED
      BY <2>1, <2>2, <2>3
  <1>16. CalmBound(g)'
    <2> SUFFICES ASSUME Calm, G.st = "wait" PROVE End(g)' >= 0 /\ Gapless(irUp'[k].q, 0, End(g)')
      BY <1>1, <1>6, <1>9 DEF CalmBound, Streaming
    <2>1. End(g)' = End(g)
      BY <1>1 DEF End
    <2>2. End(g) >= 0
      BY <1>1, IrNats DEF End
    <2>3. Gapless(irUp[k].q, 0, End(g))
      BY <1>1, <1>3 DEF GateInv, CalmNew
    <2> QED
      BY <1>2, <2>1, <2>2, <2>3
  <1>17. "taken" \notin irPast' => \A j \in IrStr : Bound(j) => irUp[j].g = g
    BY <1>4
  <1>18. IrDrained'
    <2> SUFFICES ASSUME "late" \notin irPast', NEW j \in IrStr, Bound(j)', irUp[j].s \in {s, IrNone}, ~Newest(j)'
                 PROVE  irUp[j].q = <<>>
      BY <1>2, <1>6, <1>7 DEF IrDrained
    <2>1. j # k
      <3> SUFFICES Newest(k)'
        OBVIOUS
      <3> SUFFICES ASSUME NEW l \in IrStr, irUp[l].g = g PROVE l <= k
        BY <1>0, <1>2 DEF Newest
      <3> QED
        BY <1>1 DEF IrOf
    <2>2. Bound(j) /\ irUp[j].s = s
      BY <1>10, <2>1 DEF IrInv, IrResume, Bound
    <2> QED
      BY <1>4, <2>2
  <1>19. IrOrder'
    BY <1>4 DEF IrOrder, InOrder
  <1>20. CalmRan'
    BY <1>6 DEF CalmRan
  <1>21. CalmAcks'
    <2> SUFFICES ASSUME Calm, NEW j \in IrStr, NEW i \in DOMAIN irDown'[j] PROVE irDown'[j][i].ack <= 0
      BY <1>6, <1>9 DEF CalmAcks
    <2>1. CASE j = k
      BY <1>5, <2>1
    <2>2. CASE j # k
      BY <1>4, <1>5, <2>2 DEF IrInv, CalmAcks
    <2> QED
      BY <2>1, <2>2
  <1> QED
    <2>1. /\ irChar'.at = irUp[k].s /\ ~irChar'.frozen /\ irChar'.applied = a /\ irChar'.out = k
          /\ irPend'.at = IrNone /\ irPast \subseteq irPast' /\ UNCHANGED <<irGate, irLog>>
          /\ irPend.at = IrNone \/ g = Cur
          /\ Calm' => irChar.out = 0 \/ g = Cur
          /\ g = irUp[k].g /\ a \in 0..IrLines
          /\ \A i \in DOMAIN irLog : irLog[i][1] = g => irLog[i][2] <= a
      BY <1>0, <1>4, <1>6, <1>7, <1>9, <1>12
    <2>2. /\ irDown'[k] # <<>> /\ \A i \in DOMAIN irDown'[k] : irDown'[k][i].kind = "output"
          /\ \A j \in IrStr : j # k /\ ~Bound(j) => irDown'[j] = irDown[j]
          /\ \A j \in IrStr : irDown[j] # <<>> => irDown'[j] # <<>> /\ irDown'[j][1] = irDown[j][1]
          /\ \A j \in IrStr : j # k => \A i \in DOMAIN irDown'[j] :
               (i \in DOMAIN irDown[j] /\ irDown'[j][i] = irDown[j][i]) \/ irDown'[j][i].kind = "kick"
      BY <1>1, <1>5
    <2>3. NowBound(k)
      BY <1>2 DEF NowBound
    <2>4. Welcomed(k)
      BY <2>2 DEF Welcomed
    <2> QED
      BY <1>8, <1>13, <1>14, <1>15, <1>16, <1>17, <1>18, <1>19, <1>20, <1>21, <2>1, <2>3, <2>4, IrBindsKeeps

\* attach, by its four outcomes: moved, taken over, fresh, refused.
LEMMA IrAttachKeeps == ASSUME IrInv, NEW k \in IrStr, NEW refused \in BOOLEAN, IrAttach(k, refused) PROVE IrInv'
  <1> DEFINE s == irUp[k].s
  <1>1. irUp[k].g # 0 /\ irUp[k].bound = "new" /\ UNCHANGED <<irGate, irLog>>
    BY DEF IrAttach
  <1>2. CASE /\ irUp[k].token /\ irPend.at = s
             /\ irChar' = [irChar EXCEPT !.at = s, !.frozen = FALSE, !.applied = irPend.applied, !.out = k]
             /\ irDown' = [irDown EXCEPT ![k] = Append(@, frame("output", irPend.applied, s))]
             /\ irUp' = [irUp EXCEPT ![k].bound = "bound"]
             /\ irPend' = [irPend EXCEPT !.at = IrNone] /\ UNCHANGED irPast
    BY <1>1, <1>2, IrTokenKeeps
  <1>3. CASE /\ ~irUp[k].token /\ irChar.at = s /\ ~irChar.frozen
             /\ irChar' = [irChar EXCEPT !.at = s, !.frozen = FALSE, !.applied = clamp(k, irChar.applied), !.out = k]
             /\ irDown' = [(IF irChar.out = 0 THEN irDown
                            ELSE [irDown EXCEPT ![irChar.out] = Append(@, frame("kick", irChar.applied, s))])
                           EXCEPT ![k] = Append(@, frame("output", clamp(k, irChar.applied), s))]
             /\ irUp' = [irUp EXCEPT ![k].bound = "bound"]
             /\ irPast' = irPast \cup {"taken"} /\ UNCHANGED irPend
    <2>1. irChar.out # 0
      BY <1>1, <1>3 DEF IrInv, IrHeld, IrResume
    <2>2. irDown' = Told(Told(irDown, irChar.out, frame("kick", irChar.applied, s)),
                         k, frame("output", clamp(k, irChar.applied), s))
      BY <1>3, <2>1 DEF Told
    <2> QED
      BY <1>1, <1>3, <2>2, IrTakeKeeps
  <1>4. CASE /\ ~irUp[k].token /\ irChar.at = IrNone
             /\ irChar' = [irChar EXCEPT !.at = s, !.frozen = FALSE, !.applied = 0, !.out = k]
             /\ irDown' = [irDown EXCEPT ![k] = Append(@, frame("output", 0, s))]
             /\ irUp' = [irUp EXCEPT ![k].bound = "bound"]
             /\ UNCHANGED <<irPend, irPast>>
    BY <1>1, <1>4, IrFreshKeeps
  <1>5. CASE /\ irDown' = [irDown EXCEPT ![k] = Append(@, frame("refused", 0, s))]
             /\ irUp' = [irUp EXCEPT ![k].bound = "refused"]
             /\ irPast' = irPast \cup {"refused"} /\ UNCHANGED <<irChar, irPend>>
    BY <1>1, <1>5, IrRefuseKeeps
  <1> QED
    BY <1>2, <1>3, <1>4, <1>5 DEF IrAttach

-----------------------------------------------------------------------------
(* The theorem.                                                               *)

\* The initial states satisfy the invariant.
LEMMA IrInitHolds == IrInit => IrInv
  <1> SUFFICES ASSUME IrInit PROVE IrInv
    OBVIOUS
  <1>1. PICK home \in IrShards :
          irGate = [g \in IrGates |-> [st |-> "off", next |-> 0, buf |-> {}, frozen |-> FALSE, held |-> 0,
                                   sent |-> 0, at |-> 0, to |-> home, token |-> FALSE]]
    BY DEF IrInit
  <1>2. /\ irUp = [k \in IrStr |-> [g |-> 0, s |-> IrNone, resume |-> 0, token |-> FALSE, bound |-> "new", q |-> <<>>]]
        /\ irDown = [k \in IrStr |-> <<>>]
        /\ irChar = [at |-> IrNone, frozen |-> FALSE, applied |-> 0, out |-> 0, moves |-> 0]
        /\ irPend = [at |-> IrNone, applied |-> 0] /\ irLog = <<>> /\ irPast = {}
    BY DEF IrInit
  <1>20. IrSessions \in Nat /\ IrLines \in Nat /\ IrStreams \in Nat
    BY IrAssumption
  <1>21. \A k \in IrStr : irUp[k].g = 0 /\ irUp[k].bound = "new" /\ irUp[k].q = <<>> /\ irDown[k] = <<>>
    BY <1>2
  <1>22. \A g \in IrGates : /\ irGate[g].st = "off" /\ irGate[g].next = 0 /\ irGate[g].buf = {} /\ ~irGate[g].frozen
           /\ irGate[g].held = 0 /\ irGate[g].at = 0 /\ ~irGate[g].token
    BY <1>1
  <1>23. irChar.at = IrNone /\ ~irChar.frozen /\ irChar.applied = 0 /\ irChar.out = 0 /\ irPend.at = IrNone
    BY <1>2
  <1>24. irLog = <<>> /\ irPast = {} /\ DOMAIN irLog = {}
    BY <1>2
  <1>3. IrShape
    <2>1. irGate \in [IrGates -> IrSession]
      BY <1>1, <1>20 DEF IrSession
    <2>2. irUp \in [IrStr -> IrStream]
      BY <1>2, <1>20 DEF IrStream
    <2>3. irDown \in [IrStr -> Seq(IrFrame)]
      BY <1>2
    <2>4. irChar \in [at : IrShards \cup {IrNone}, frozen : BOOLEAN, applied : 0..IrLines, out : 0..IrStreams, moves : Nat]
      BY <1>2, <1>20
    <2>5. irPend \in [at : IrShards \cup {IrNone}, applied : 0..IrLines]
      BY <1>2, <1>20
    <2> QED
      BY <1>24, <2>1, <2>2, <2>3, <2>4, <2>5 DEF IrShape
  <1>4. IrPrefix
    <2>1. Used = {}
      BY <1>21 DEF Used
    <2>2. 1..0 = {} /\ 0 \in 0..IrStreams
      BY <1>20
    <2> QED
      BY <2>1, <2>2 DEF IrPrefix
  <1>5. IrUnused /\ IrResume
    BY <1>21 DEF IrUnused, IrResume
  <1>6. ASSUME NEW g \in IrGates PROVE GateInv(g)
    <2>1. IrOf(g) = {} /\ g # 0
      BY <1>20, <1>21 DEF IrOf, IrGates
    <2>2. GateHas(g)
      BY <1>22, <2>1 DEF GateHas, Streaming
    <2>3. TokenSent(g) /\ TokenHeld(g) /\ TokenComing(g)
      BY <1>22, <2>1 DEF TokenSent, TokenHeld, TokenComing, Streaming
    <2>4. RanOf(g) /\ FreshSent(g) /\ FreshReplay(g) /\ FreshAck(g)
      BY <1>22, <1>24, <2>1 DEF RanOf, FreshSent, FreshReplay, FreshAck
    <2>5. CalmKept(g)
      <3>1. 1..irGate[g].next = {}
        BY <1>22
      <3> QED
        BY <3>1 DEF CalmKept
    <2>6. CalmSeq(g) /\ CalmNew(g) /\ CalmBound(g)
      BY <1>22, <2>1 DEF CalmSeq, CalmNew, CalmBound, Streaming
    <2> QED
      BY <2>1, <2>2, <2>3, <2>4, <2>5, <2>6 DEF GateInv
  <1>7. IrHeld
    BY <1>21, <1>23, <1>24 DEF IrHeld, Bound
  <1>8. IrDrained
    BY <1>21 DEF IrDrained
  <1>9. IrOrder
    BY <1>24 DEF IrOrder, InOrder
  <1>10. CalmRan
    BY <1>23 DEF CalmRan
  <1>11. CalmAcks
    BY <1>21 DEF CalmAcks
  <1> QED
    BY <1>3, <1>4, <1>5, <1>6, <1>7, <1>8, <1>9, <1>10, <1>11 DEF IrInv

\* Every step keeps it.
LEMMA IrStepKeeps == IrInv /\ [IrNext]_irVars => IrInv'
  <1> SUFFICES ASSUME IrInv, [IrNext]_irVars PROVE IrInv'
    OBVIOUS
  <1>1. CASE UNCHANGED irVars
    <2>1. /\ irGate' = irGate /\ irUp' = irUp /\ irDown' = irDown /\ irChar' = irChar
          /\ irPend' = irPend /\ irLog' = irLog /\ irPast' = irPast
      BY <1>1 DEF irVars
    <2>2. /\ IrShape' = IrShape /\ IrPrefix' = IrPrefix /\ IrUnused' = IrUnused /\ IrResume' = IrResume
          /\ IrHeld' = IrHeld /\ IrDrained' = IrDrained /\ IrOrder' = IrOrder /\ CalmRan' = CalmRan
          /\ CalmAcks' = CalmAcks
      BY <2>1 DEF IrShape, IrPrefix, IrUnused, IrResume, IrHeld, IrDrained, IrOrder, InOrder, CalmRan, CalmAcks,
         Calm, Cur, Bound, Newest, Used
    <2>3. ASSUME NEW g \in IrGates PROVE GateInv(g)'
      <3>1. \A k \in IrStr : StreamHas(g, k)' = StreamHas(g, k) /\ StreamSent(g, k)' = StreamSent(g, k)
        BY <2>1 DEF StreamHas, StreamSent
      <3>2. GateHas(g)' = GateHas(g) /\ IrOf(g)' = IrOf(g) /\ IrOf(g) \subseteq IrStr
        BY <2>1 DEF GateHas, IrOf
      <3>3. TokenSent(g)' = TokenSent(g) /\ TokenHeld(g)' = TokenHeld(g) /\ TokenComing(g)' = TokenComing(g)
        BY <2>1 DEF TokenSent, TokenHeld, TokenComing, IrOf, Cur
      <3>4. /\ RanOf(g)' = RanOf(g) /\ FreshSent(g)' = FreshSent(g) /\ FreshReplay(g)' = FreshReplay(g)
            /\ FreshAck(g)' = FreshAck(g)
        BY <2>1 DEF RanOf, FreshSent, FreshReplay, FreshAck, IrOf, Cur, Bound, Newest
      <3>5. End(g)' = End(g)
        BY <2>1 DEF End
      <3>6. /\ CalmKept(g)' = CalmKept(g) /\ CalmSeq(g)' = CalmSeq(g) /\ CalmNew(g)' = CalmNew(g)
            /\ CalmBound(g)' = CalmBound(g)
        BY <2>1, <3>5 DEF CalmKept, CalmSeq, CalmNew, CalmBound, Calm, IrOf, Cur
      <3>7. GateInv(g)
        BY DEF IrInv
      <3> QED
        BY <3>1, <3>2, <3>3, <3>4, <3>6, <3>7 DEF GateInv
    <2> QED
      BY <2>2, <2>3 DEF IrInv
  <1>2. CASE IrFreeze
    BY <1>2, IrFreezeKeeps
  <1>3. CASE IrAbort
    BY <1>3, IrAbortKeeps
  <1>4. CASE \E t \in IrShards : IrCommit(t)
    BY <1>4, IrCommitKeeps
  <1>5. ASSUME NEW g \in IrGates,
               \/ IrLogin(g) \/ runStream(g) \/ add(g) \/ sendInput(g)
               \/ runWriter(g) \/ doReplay(g) \/ IrThaw(g) \/ IrHangUp(g)
        PROVE  IrInv'
    <2>1. CASE IrLogin(g)
      BY <2>1, IrLoginKeeps
    <2>2. CASE runStream(g)
      BY <2>2, IrStreamKeeps
    <2>3. CASE add(g)
      BY <2>3, IrAddKeeps
    <2>4. CASE sendInput(g)
      BY <2>4, IrSendKeeps
    <2>5. CASE runWriter(g)
      BY <2>5, IrWriterKeeps
    <2>6. CASE doReplay(g)
      BY <2>6, IrReplayKeeps
    <2>7. CASE IrThaw(g)
      BY <2>7, IrThawKeeps
    <2>8. CASE IrHangUp(g)
      BY <2>8, IrHangUpKeeps
    <2> QED
      BY <1>5, <2>1, <2>2, <2>3, <2>4, <2>5, <2>6, <2>7, <2>8
  <1>6. ASSUME NEW k \in IrStr, handleInput(k) \/ IrCut(k) \/ \E refused \in BOOLEAN : IrAttach(k, refused)
        PROVE  IrInv'
    <2>1. CASE handleInput(k)
      BY <2>1, IrInputKeeps
    <2>2. CASE IrCut(k)
      BY <2>2, IrCutKeeps
    <2>3. CASE \E refused \in BOOLEAN : IrAttach(k, refused)
      BY <2>3, IrAttachKeeps
    <2> QED
      BY <1>6, <2>1, <2>2, <2>3
  <1> QED
    BY <1>1, <1>2, <1>3, <1>4, <1>5, <1>6 DEF IrNext

\* At rest the fence stands at the last line typed, and every line up to the fence has run.
LEMMA IrAllHeard ==
  ASSUME IrInv, NEW g \in IrGates, AtRest(g), Calm
  PROVE  Unheard(g) = {}
  <1> DEFINE G == irGate[g]
             k == G.at
  <1>1. G.st = "live" /\ G.held = 0 /\ k = irChar.out /\ irUp[k].q = <<>> /\ ~irChar.frozen /\ G.next \in Nat
    BY IrNats DEF AtRest
  <1>2. GateInv(g) /\ irChar.applied \in Nat
    BY IrNats DEF IrInv
  <1>3. k # 0 /\ irUp[k].g = g
    BY <1>1, <1>2 DEF GateInv, GateHas
  <1>4. g = Cur /\ irChar.out # 0
    BY <1>1, <1>3 DEF Cur
  <1>5. End(g) = G.next
    BY <1>1 DEF End
  <1>6. Gapless(<<>>, irChar.applied, G.next) /\ G.next >= irChar.applied
    BY <1>1, <1>2, <1>5 DEF GateInv, CalmBound, Streaming
  <1>7. G.next = irChar.applied
    BY <1>1, <1>2, <1>6 DEF Gapless
  <1>8. \A n \in 1..G.next : \E i \in DOMAIN irLog : irLog[i] = <<g, n>>
    BY <1>4, <1>7 DEF IrInv, CalmRan
  <1>9. 1..G.next \subseteq IrSeqs
    <2>1. G.next \in 0..IrLines
      BY DEF IrInv, IrShape, IrSession
    <2> QED
      BY <2>1, IrAssumption DEF IrSeqs
  <1> QED
    BY <1>8, <1>9 DEF Unheard, ran

\* The invariant implies the types and the two statements about the lines of a connection.
LEMMA IrInvSafe == IrInv => InputSafe
  <1> SUFFICES ASSUME IrInv PROVE InputSafe
    OBVIOUS
  <1>1. IrTypeOK
    BY DEF IrInv, IrShape, IrTypeOK, IrStream
  <1>2. ExactlyOnce
    <2> SUFFICES ASSUME NEW g \in IrGates
                 PROVE  /\ ({"taken", "late"} \subseteq irPast => irChar.out # 0 /\ irUp[irChar.out].g = g) => InOrder(g)
                        /\ AtRest(g) /\ irPast \subseteq {"muted"} => Unheard(g) = {}
      BY DEF ExactlyOnce
    <2>1. ({"taken", "late"} \subseteq irPast => irChar.out # 0 /\ irUp[irChar.out].g = g) => InOrder(g)
      BY DEF IrInv, IrOrder, Cur
    <2>2. AtRest(g) /\ irPast \subseteq {"muted"} => Unheard(g) = {}
      BY IrAllHeard DEF Calm
    <2> QED
      BY <2>1, <2>2
  <1> QED
    BY <1>1, <1>2 DEF InputSafe

\* InputSafe holds of every reachable state, for every number of sessions, lines, streams and moves.
THEOREM LinesRunOnce == IrSpec => []InputSafe
  <1>1. IrSpec => []IrInv
    BY IrInitHolds, IrStepKeeps, PTL DEF IrSpec
  <1> QED
    BY <1>1, IrInvSafe, PTL
=============================================================================
