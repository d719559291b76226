---------------------------- MODULE InputReplay ----------------------------
(* What a player types, from the telnet line to the command that runs: the gate's *)
(* numbered input buffer and its re-dials (internal/gate/session.go, gate.go) and *)
(* the world's input fence (world/server.go, world/zone.go).  Session g is the    *)
(* g-th connection of one character; its line n has sequence number n.            *)
EXTENDS Naturals, Sequences, FiniteSets

CONSTANTS IrShards,
          IrNone,
          IrSessions,   \* bound: connections of the character
          IrLines,      \* bound: lines typed per connection
          IrStreams,    \* bound: Play streams opened
          IrRefusals,   \* bound: logins refused by a draining shard (maxAttachRetries)
          IrMoves       \* bound: handoffs begun

ASSUME IrAssumption ==
  /\ IrNone \notin IrShards
  /\ {IrSessions, IrLines, IrStreams, IrRefusals, IrMoves} \subseteq Nat

VARIABLES
  irGate,    \* irGate[g]: the gate's session and bridge
  irUp,      \* irUp[k]: stream k: its session, shard, attach and lines on their way
  irDown,    \* irDown[k]: frames on their way back
  irChar,    \* the character: its shard, whether frozen, input fence and bound stream
  irPend,    \* the fence of a prepared copy and its shard
  irLog,     \* lines executed, in order
  irPast     \* what happened: refused, aborted, taken, late (a move back to a shard with lines
             \* of an old stream still on their way), or muted: a line fenced off unheard

irVars == <<irGate, irUp, irDown, irChar, irPend, irLog, irPast>>

IrSeqs == 1..IrLines
IrGates == 1..IrSessions
IrStr == 1..IrStreams
IrSession == [st : {"off", "dial", "wait", "replay", "live", "done"}, next : 0..IrLines,
              buf : SUBSET IrSeqs, frozen : BOOLEAN, held : 0..IrLines, sent : 0..IrLines,
              at : 0..IrStreams, to : IrShards, token : BOOLEAN]

IrTypeOK ==
  /\ irGate \in [IrGates -> IrSession]
  /\ irChar.at \in IrShards \cup {IrNone} /\ irChar.applied \in 0..IrLines /\ irChar.out \in 0..IrStreams
  /\ irPend.at \in IrShards \cup {IrNone}
  /\ \A k \in IrStr : irUp[k].q \in Seq(IrSeqs) /\ irUp[k].g \in 0..IrSessions
  /\ irLog \in Seq(IrGates \X IrSeqs)

IrInit ==
  \E home \in IrShards :
    /\ irGate = [g \in IrGates |-> [st |-> "off", next |-> 0, buf |-> {}, frozen |-> FALSE, held |-> 0,
                                   sent |-> 0, at |-> 0, to |-> home, token |-> FALSE]]
    /\ irUp = [k \in IrStr |-> [g |-> 0, s |-> IrNone, resume |-> 0, token |-> FALSE, bound |-> "new", q |-> <<>>]]
    /\ irDown = [k \in IrStr |-> <<>>]
    /\ irChar = [at |-> IrNone, frozen |-> FALSE, applied |-> 0, out |-> 0, moves |-> 0]
    /\ irPend = [at |-> IrNone, applied |-> 0] /\ irLog = <<>> /\ irPast = {}

Used == {k \in IrStr : irUp[k].g # 0}

------------------------------------------------------------------------------
(* The gate.                                                                   *)

\* handle: a connection logs in; the directory sends it where the character is.
IrLogin(g) ==
  /\ irGate[g].st = "off" /\ (g > 1 => irGate[g - 1].st # "off")
  /\ irGate' = [irGate EXCEPT ![g].st = "dial", ![g].to = IF irChar.at = IrNone THEN @ ELSE irChar.at]
  /\ UNCHANGED <<irUp, irDown, irChar, irPend, irLog, irPast>>

\* runStream: dial, send Attach with the session's next sequence number, freeze on a re-dial.
runStream(g) ==
  LET k == Cardinality(Used) + 1
      G == irGate[g]
  IN /\ G.st = "dial" /\ k \in IrStr
     /\ irGate' = [irGate EXCEPT ![g] = [G EXCEPT !.st = "wait", !.at = k, !.frozen = @ \/ G.token]]
     /\ irUp' = [irUp EXCEPT ![k] = [g |-> g, s |-> G.to, resume |-> G.next + 1, token |-> G.token,
                                     bound |-> "new", q |-> <<>>]]
     /\ UNCHANGED <<irDown, irChar, irPend, irLog, irPast>>

\* runForwarder takes a line and buffers it (add); held back when frozen or between streams.
add(g) ==
  LET G == irGate[g]
      n == G.next + 1
  IN /\ G.st \in {"dial", "wait", "replay", "live"} /\ G.at # 0 /\ G.held = 0 /\ n \in IrSeqs
     /\ irGate' = [irGate EXCEPT ![g] = [G EXCEPT !.next = n, !.buf = @ \cup {n},
                                                  !.held = IF G.frozen \/ G.st = "dial" THEN 0 ELSE n]]
     /\ UNCHANGED <<irUp, irDown, irChar, irPend, irLog, irPast>>

\* ... and sends it, when the replay does not hold sendMu.
sendInput(g) ==
  LET G == irGate[g]
  IN /\ G.held # 0 /\ G.st \in {"wait", "live"}
     /\ irUp' = [irUp EXCEPT ![G.at].q = Append(@, G.held)]
     /\ irGate' = [irGate EXCEPT ![g].held = 0]
     /\ UNCHANGED <<irDown, irChar, irPend, irLog, irPast>>

prune(buf, ack) == {n \in buf : n > ack}

\* Ascending order: what replayFrom and tailAfter return.
ascending(S) == [i \in 1..Cardinality(S) |-> CHOOSE n \in S : Cardinality({x \in S : x <= n}) = i]

\* handle's loop over a stream that ended: a redirect re-dials its target with its token, a
\* refused login re-resolves and re-dials, and anything else closes the socket.
redial(G, f) ==
  CASE f.kind = "redirect" -> [G EXCEPT !.st = "dial", !.to = f.to, !.token = TRUE]
    [] f.kind = "refused" /\ ~G.token -> [G EXCEPT !.st = "dial"]
    [] OTHER -> [G EXCEPT !.st = "done"]

\* runWriter: one frame, whose ack prunes.  A line the forwarder holds when the stream ends
\* fails to send; the first frame of a re-dial starts the replay.
runWriter(g) ==
  LET G == irGate[g]
      f == Head(irDown[G.at])
      pruned == [G EXCEPT !.buf = prune(@, f.ack)]
  IN /\ G.st \in {"wait", "live"} /\ irDown[G.at] # <<>>
     /\ irDown' = [irDown EXCEPT ![G.at] = Tail(@)]
     /\ irGate' = [irGate EXCEPT ![g] =
          IF f.kind # "output" THEN redial([pruned EXCEPT !.held = 0], f)
          ELSE IF G.st = "wait" /\ irUp[G.at].token THEN [pruned EXCEPT !.st = "replay", !.sent = 0]
          ELSE [pruned EXCEPT !.st = "live"]]
     /\ UNCHANGED <<irUp, irChar, irPend, irLog, irPast>>

\* doReplay's batch: everything buffered past what was sent, in order.
doReplay(g) ==
  LET G == irGate[g]
      tail == {n \in G.buf : n > G.sent}
  IN /\ G.st = "replay" /\ tail # {}
     /\ irUp' = [irUp EXCEPT ![G.at].q = @ \o ascending(tail)]
     /\ irGate' = [irGate EXCEPT ![g].sent = CHOOSE n \in tail : \A x \in tail : x <= n]
     /\ UNCHANGED <<irDown, irChar, irPend, irLog, irPast>>

\* Mutant: the freeze ends with the first batch.
thawAlways(G) == G.st = "replay" /\ G.sent # 0
thawIfDrained(G) == G.st = "replay" /\ \A n \in G.buf : n <= G.sent

IrThaw(g) ==
  /\ thawIfDrained(irGate[g])
  /\ irGate' = [irGate EXCEPT ![g].st = "live", ![g].frozen = FALSE]
  /\ UNCHANGED <<irUp, irDown, irChar, irPend, irLog, irPast>>

\* The socket goes: hung up, or the stream failed with no redirect taken.
IrHangUp(g) ==
  /\ irGate[g].st \in {"dial", "wait", "replay", "live"}
  /\ irGate' = [irGate EXCEPT ![g].st = "done", ![g].held = 0]
  /\ UNCHANGED <<irUp, irDown, irChar, irPend, irLog, irPast>>

------------------------------------------------------------------------------
(* The world.                                                                  *)

frame(kind, ack, to) == [kind |-> kind, ack |-> ack, to |-> to]

\* The re-attach fence: a restarted numbering is let through.
clamp(k, applied) ==
  IF irUp[k].resume <= applied THEN irUp[k].resume - 1 ELSE applied

\* Connect / attach: a token binds the prepared copy, which carries the source's fence; a
\* login without one finds the live character and takes it over, kicking a stream still
\* bound, or makes a fresh one; a draining shard refuses it.
IrAttach(k, refused) ==
  LET s == irUp[k].s
      C == irChar
      bind(a, down) ==
        /\ irChar' = [C EXCEPT !.at = s, !.frozen = FALSE, !.applied = a, !.out = k]
        /\ irDown' = [down EXCEPT ![k] = Append(@, frame("output", a, s))]
        /\ irUp' = [irUp EXCEPT ![k].bound = "bound"]
  IN /\ irUp[k].g # 0 /\ irUp[k].bound = "new"
     /\ \/ /\ irUp[k].token /\ irPend.at = s
           /\ bind(irPend.applied, irDown)
           /\ irPend' = [irPend EXCEPT !.at = IrNone] /\ UNCHANGED irPast
        \/ /\ ~irUp[k].token /\ C.at = s /\ ~C.frozen
           /\ bind(clamp(k, C.applied),
                   IF C.out = 0 THEN irDown ELSE [irDown EXCEPT ![C.out] = Append(@, frame("kick", C.applied, s))])
           /\ irPast' = irPast \cup {"taken"} /\ UNCHANGED irPend
        \/ /\ ~irUp[k].token /\ C.at = IrNone /\ ~refused
           /\ bind(0, irDown) /\ UNCHANGED <<irPend, irPast>>
        \/ /\ \/ ~irUp[k].token /\ (C.at \notin {s, IrNone} \/ C.frozen \/ (refused /\ C.at = IrNone /\ k <= IrRefusals))
              \/ irUp[k].token /\ irPend.at # s
           /\ irDown' = [irDown EXCEPT ![k] = Append(@, frame("refused", 0, s))]
           /\ irUp' = [irUp EXCEPT ![k].bound = "refused"]
           /\ irPast' = irPast \cup {"refused"} /\ UNCHANGED <<irChar, irPend>>
     /\ UNCHANGED <<irGate, irLog>>

ran(g) == {n \in IrSeqs : \E i \in DOMAIN irLog : irLog[i] = <<g, n>>}

\* handleInput: a line of any stream of the character reaches its zone.  Unknown player and
\* frozen player drop it, the fence drops a replay, and the rest is dispatched.
handleInput(k) ==
  LET n == Head(irUp[k].q)
      here == irChar.at = irUp[k].s /\ ~irChar.frozen
      fresh == n > irChar.applied
  IN /\ irUp[k].bound = "bound" /\ irUp[k].q # <<>>
     /\ irUp' = [irUp EXCEPT ![k].q = Tail(@)]
     /\ irChar' = IF here /\ fresh THEN [irChar EXCEPT !.applied = n] ELSE irChar
     /\ irLog' = IF here /\ fresh THEN Append(irLog, <<irUp[k].g, n>>) ELSE irLog
     /\ irDown' = IF here /\ fresh THEN [irDown EXCEPT ![irChar.out] = Append(@, frame("output", n, irUp[k].s))]
                  ELSE irDown
     /\ irPast' = IF here /\ ~fresh /\ irUp[k].g = irUp[irChar.out].g /\ n \notin ran(irUp[k].g)
                  THEN irPast \cup {"muted"} ELSE irPast
     /\ UNCHANGED <<irGate, irPend>>

\* The stream's context ends before its reader drained it.
IrCut(k) ==
  /\ irUp[k].q # <<>> /\ irGate[irUp[k].g].st = "done"
  /\ irUp' = [irUp EXCEPT ![k].q = <<>>]
  /\ UNCHANGED <<irGate, irDown, irChar, irPend, irLog, irPast>>

\* The handoff snapshot carries AppliedSeq.
snapshot == irChar.applied

\* A handoff: the source freezes the character, and either prepares the copy and redirects
\* the gate, or takes it back.
IrFreeze ==
  /\ irChar.at # IrNone /\ ~irChar.frozen /\ irChar.moves < IrMoves
  /\ irChar' = [irChar EXCEPT !.frozen = TRUE, !.moves = @ + 1]
  /\ UNCHANGED <<irGate, irUp, irDown, irPend, irLog, irPast>>
IrCommit(t) ==
  /\ irChar.at \in IrShards \ {t} /\ irChar.frozen /\ irPend.at = IrNone
  /\ irPend' = [at |-> t, applied |-> snapshot]
  /\ irDown' = [irDown EXCEPT ![irChar.out] = Append(@, frame("redirect", irChar.applied, t))]
  /\ irPast' = IF \E k \in IrStr : irUp[k].bound = "bound" /\ irUp[k].s = t /\ irUp[k].q # <<>>
               THEN irPast \cup {"late"} ELSE irPast
  /\ UNCHANGED <<irGate, irUp, irChar, irLog>>
IrAbort ==
  /\ irChar.frozen /\ irPend.at = IrNone
  /\ irChar' = [irChar EXCEPT !.frozen = FALSE] /\ irPast' = irPast \cup {"aborted"}
  /\ UNCHANGED <<irGate, irUp, irDown, irPend, irLog>>

IrNext ==
  \/ IrFreeze \/ IrAbort \/ \E t \in IrShards : IrCommit(t)
  \/ \E g \in IrGates : \/ IrLogin(g) \/ runStream(g) \/ add(g) \/ sendInput(g)
                        \/ runWriter(g) \/ doReplay(g) \/ IrThaw(g) \/ IrHangUp(g)
  \/ \E k \in IrStr : handleInput(k) \/ IrCut(k) \/ \E refused \in BOOLEAN : IrAttach(k, refused)
IrSpec == IrInit /\ [][IrNext]_irVars

------------------------------------------------------------------------------
(* Properties.                                                                 *)

\* The lines of a connection run in the order they were typed, none twice.
InOrder(g) ==
  \A i, j \in DOMAIN irLog :
    i < j /\ irLog[i][1] = g /\ irLog[j][1] = g => irLog[i][2] < irLog[j][2]

\* A connection at rest: its stream is bound and drained, and nothing is frozen or held.
AtRest(g) ==
  LET G == irGate[g]
  IN /\ G.st = "live" /\ G.held = 0 /\ G.at = irChar.out /\ irUp[G.at].q = <<>> /\ irDown[G.at] = <<>>
     /\ ~irChar.frozen

Unheard(g) == 1..irGate[g].next \ ran(g)

\* gate.go, "exactly-once across the move": across redirects, replays, takeovers and late
\* streams a line never runs twice nor overtakes another of its connection.  Only once the
\* character was both taken over and moved back among lines still on their way does this
\* stop at the connection that holds it.  A connection that was only ever redirected, and
\* never back to such a shard, has run every line it typed.
ExactlyOnce ==
  \A g \in IrGates :
    /\ ({"taken", "late"} \subseteq irPast => irChar.out # 0 /\ irUp[irChar.out].g = g) => InOrder(g)
    /\ AtRest(g) /\ irPast \subseteq {"muted"} => Unheard(g) = {}

\* gate.go: "The world dedups by seq ... exactly-once across the move."
RunsOnce == \A g \in IrGates : InOrder(g)

\* gate.go: lines are buffered and replayed, "never reaching the new shard out of order".
MovedLinesRun == \A g \in IrGates : AtRest(g) /\ irPast \subseteq {"muted", "late"} => Unheard(g) = {}

\* gate.go runForwarder: "A line is never LOST."
NeverLost == \A g \in IrGates : AtRest(g) /\ irPast \subseteq {"refused", "aborted"} => Unheard(g) = {}

\* zone.go attach: "clamp the fence to inputSeq-1 so the new connection's first line is applied".
NewConnectionHeard == "muted" \notin irPast

\* The safety invariant: the types, and the properties above that hold of every state.
\* Lines run once and in order across redirects, replays and takeovers (gate.go, zone.go).
InputSafe == IrTypeOK /\ ExactlyOnce
=============================================================================
