--------------------------- MODULE SessionPresence ---------------------------
(* The single-session lock of a character (internal/sessionlock,                *)
(* world/server.go) and its entry in the who roster (internal/presence,         *)
(* world/presence.go), while it is connected more than once.  Connection c is   *)
(* the c-th to be made; its lock token is c.                                    *)
EXTENDS Naturals, Sequences

CONSTANTS SpShards,
          SpNobody,
          SpConns,      \* bound: connections made
          SpQueue       \* presenceEagerQueue

ASSUME SpAssumption == SpNobody \notin SpShards /\ SpConns \in Nat /\ SpQueue \in Nat \ {0}

VARIABLES
  spConn,    \* spConn[c]: phase and shard of the connection, and whether it holds a token
  spLock,    \* the lock's token, 0 when free or expired
  spRes,     \* spRes[s]: the tracker of s has the character among its residents
  spEager,   \* spEager[s]: eager operations queued
  spRoster,  \* owner of the roster entry
  spDown     \* shards that crashed

spVars == <<spConn, spLock, spRes, spEager, spRoster, spDown>>

SpLink == [st : {"new", "live", "told", "gone"}, at : SpShards \cup {SpNobody}, locked : BOOLEAN]
SpTypeOK ==
  /\ spConn \in [1..SpConns -> SpLink] /\ spLock \in 0..SpConns
  /\ spRes \in [SpShards -> BOOLEAN] /\ spEager \in [SpShards -> Seq({"set", "remove"})]
  /\ spRoster \in SpShards \cup {SpNobody} /\ spDown \subseteq SpShards

SpInit ==
  /\ spConn = [c \in 1..SpConns |-> [st |-> "new", at |-> SpNobody, locked |-> FALSE]]
  /\ spLock = 0 /\ spRes = [s \in SpShards |-> FALSE] /\ spEager = [s \in SpShards |-> <<>>]
  /\ spRoster = SpNobody /\ spDown = {}

SpUp(s) == s \notin spDown
Attached(s) == {c \in 1..SpConns : spConn[c].at = s /\ spConn[c].st \in {"live", "told"}}

\* enqueue never blocks: a full queue drops, the heartbeat is the backstop.
Enqueue(s, op) == IF Len(spEager[s]) < SpQueue THEN [spEager EXCEPT ![s] = Append(@, op)] ELSE spEager

------------------------------------------------------------------------------
(* Connections.                                                                *)

\* Connect: Acquire takes the lock over from whoever holds it, and when it fails goes on
\* without; the session joins, which lists the character.
SpConnect(c, s, err) ==
  /\ spConn[c].st = "new" /\ (c > 1 => spConn[c - 1].st # "new") /\ SpUp(s)
  /\ spConn' = [spConn EXCEPT ![c] = [st |-> "live", at |-> s, locked |-> ~err]]
  /\ spLock' = IF err THEN spLock ELSE c
  /\ spRes' = [spRes EXCEPT ![s] = TRUE] /\ spEager' = Enqueue(s, "set")
  /\ UNCHANGED <<spRoster, spDown>>

\* Mutant: renewal goes by the key and not by the token.
RenewsAny(c) == spLock # 0

\* renewScript
Renews(c) == spLock = c

\* The renewer's tick; an error leaves it for the next one.
SpRenew(c) ==
  /\ spConn[c].st = "live" /\ spConn[c].locked /\ ~Renews(c)
  /\ spConn' = [spConn EXCEPT ![c].st = "told"]
  /\ UNCHANGED <<spLock, spRes, spEager, spRoster, spDown>>

\* The TTL passes: the renewals failed, or the holder is gone.
SpLapse ==
  /\ spLock # 0 /\ spLock' = 0
  /\ UNCHANGED <<spConn, spRes, spEager, spRoster, spDown>>

\* leave deletes the resident; it is reached when no connection of the session is left.
left(s, last) == [spRes EXCEPT ![s] = ~last]

\* The stream ends: hung up, kicked, or stalled past the send deadline (watchSendStall).
\* The lock is released by its own token only.
SpEnd(c) ==
  LET s == spConn[c].at
      last == Attached(s) = {c}
  IN /\ spConn[c].st \in {"live", "told"}
     /\ spConn' = [spConn EXCEPT ![c].st = "gone"]
     /\ spLock' = IF spLock = c THEN 0 ELSE spLock
     /\ spRes' = left(s, last)
     /\ spEager' = IF last /\ spRes[s] THEN Enqueue(s, "remove") ELSE spEager
     /\ UNCHANGED <<spRoster, spDown>>

\* A crash takes the tracker with it.
SpCrash(s) ==
  /\ spDown = {} /\ spDown' = {s}
  /\ spConn' = [c \in 1..SpConns |-> IF spConn[c].at = s THEN [spConn[c] EXCEPT !.st = "gone"]
                                     ELSE spConn[c]]
  /\ spRes' = [spRes EXCEPT ![s] = FALSE] /\ spEager' = [spEager EXCEPT ![s] = <<>>]
  /\ UNCHANGED <<spLock, spRoster>>

------------------------------------------------------------------------------
(* The tracker's goroutine.                                                    *)

\* setPresenceSrc refuses a key another live shard owns; removePresence clears its own.
setPresence(s) == IF spRoster \in {s, SpNobody} THEN s ELSE spRoster
removePresence(s) == IF spRoster = s THEN SpNobody ELSE spRoster

\* refresh: the heartbeat re-asserts every resident,
SpRefresh(s) ==
  /\ SpUp(s) /\ spRes[s] /\ spRoster' = setPresence(s)
  /\ UNCHANGED <<spConn, spLock, spRes, spEager, spDown>>

\* applyEager: one queued operation; the roster may be unreachable.
SpApply(s, err) ==
  /\ spEager[s] # <<>> /\ spEager' = [spEager EXCEPT ![s] = Tail(@)]
  /\ spRoster' = IF err THEN spRoster
                 ELSE IF Head(spEager[s]) = "set" THEN setPresence(s) ELSE removePresence(s)
  /\ UNCHANGED <<spConn, spLock, spRes, spDown>>

\* The entry's TTL, three heartbeats, passes unrefreshed.
SpExpire ==
  /\ spRoster # SpNobody /\ ~spRes[spRoster] /\ spRoster' = SpNobody
  /\ UNCHANGED <<spConn, spLock, spRes, spEager, spDown>>

SpTracker(s) == SpRefresh(s) \/ \E err \in BOOLEAN : SpApply(s, err)
SpNext ==
  \/ SpLapse \/ SpExpire
  \/ \E s \in SpShards : SpTracker(s) \/ SpCrash(s)
  \/ \E c \in 1..SpConns : \/ SpRenew(c) \/ SpEnd(c)
                           \/ \E s \in SpShards, err \in BOOLEAN : SpConnect(c, s, err)

\* The heartbeat and the renewer are timers of a live process, an expiry is Redis's, and
\* a displaced connection's stream is closed by its kick.
SpFair ==
  /\ WF_spVars(SpExpire)
  /\ \A s \in SpShards : WF_spVars(SpRefresh(s)) /\ WF_spVars(\E err \in BOOLEAN : SpApply(s, err))
  /\ \A c \in 1..SpConns : WF_spVars(SpRenew(c)) /\ WF_spVars(SpEnd(c) /\ spConn[c].st = "told")

SpSpec == SpInit /\ [][SpNext]_spVars /\ SpFair

------------------------------------------------------------------------------
(* Properties.                                                                 *)

Locked == {c \in 1..SpConns : spConn[c].st \in {"live", "told"} /\ spConn[c].locked}

\* runSessionLockRenewer and the roster's ownership rule: whatever order connections,
\* crashes, lapses, refused writes and dropped operations come in, the character ends up
\* with at most one connection that took the lock, and the roster names a shard it is
\* resident on, or nobody when it is on none.
OneSessionListed ==
  []SpTypeOK /\
  <>[]((\A c, d \in Locked : c = d) /\ (IF \E s \in SpShards : spRes[s] THEN spRoster # SpNobody /\ spRes[spRoster]
                             ELSE spRoster = SpNobody))

==============================================================================
