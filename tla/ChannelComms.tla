---------------------------- MODULE ChannelComms ----------------------------
(* What one player's gate listens to: channel definitions reloaded under the     *)
(* zones (world/reload.go), the hear-set a zone computes and pushes over the bus  *)
(* (world/commsstate.go, channel.go, commscmds.go), and the subscriptions the     *)
(* gate keeps (gate/comms.go).  The player walks between the zones of one shard    *)
(* and may be frozen by a cross-shard handoff that aborts.                        *)
EXTENDS Naturals, Sequences, FiniteSets

CONSTANTS ChRefs,      \* channels
          ChZones,     \* zones of the shard
          ChNone,      \* no zone, no channel
          ChEdits,     \* bound: definition reloads
          ChActs,      \* bound: toggles, ignores, flag changes and walks of the player
          ChFaults,    \* bound: dropped posts, failed re-reads and subscriptions
          ChHistory    \* lines a channel's history keeps

ASSUME ChAssumption ==
  /\ IsFiniteSet(ChRefs) /\ IsFiniteSet(ChZones) /\ ChZones # {} /\ ChNone \notin ChRefs \cup ChZones
  /\ ChEdits \in Nat /\ ChActs \in Nat /\ ChFaults \in Nat /\ ChHistory \in Nat \ {0}

VARIABLES
  chDef,    \* the shard's channel registry: "open", "gated" or "gone"
  chLoad,   \* zones the reloader still has to notify
  chZone,   \* chZone[z]: commsRepublishArmed, the queued message, its retry, the handler's step
  chMe,     \* the player: zone, frozen, passes the gate, overrides, ignores the author
  chBus,    \* config messages on their way to the gate
  chGate,   \* the gate's channel subscriptions, ignore flag, closed, and those being opened
  chRing,   \* history rings (lengths), and the channel a speaker has resolved
  chRun     \* edits, acts and faults so far; history: an update the player was not there for

chVars == <<chDef, chLoad, chZone, chMe, chBus, chGate, chRing, chRun>>

ChConfig == [hear : SUBSET ChRefs, ignore : BOOLEAN]
ChTypeOK ==
  /\ chDef \in [ChRefs -> {"open", "gated", "gone"}] /\ chLoad \subseteq ChZones
  /\ chZone \in [ChZones -> [armed : BOOLEAN, queued : BOOLEAN, retry : BOOLEAN,
                          at : {"idle", "took", "read"}, cfg : Seq(ChConfig)]]
  /\ chMe.at \in ChZones \cup {ChNone} /\ chMe.over \in [ChRefs -> {"on", "off", "default"}]
  /\ chBus \in Seq(ChConfig)
  /\ chGate.subs \subseteq ChRefs /\ chGate.todo \subseteq ChRefs
  /\ chRing.len \in [ChRefs -> 0..ChHistory] /\ chRing.saying \in ChRefs \cup {ChNone}

ChInit ==
  /\ chDef = [c \in ChRefs |-> "open"] /\ chLoad = {} /\ chBus = <<>>
  /\ chZone = [z \in ChZones |-> [armed |-> FALSE, queued |-> FALSE, retry |-> FALSE, at |-> "idle", cfg |-> <<>>]]
  /\ \E z \in ChZones, pass \in BOOLEAN :
       chMe = [at |-> z, frozen |-> FALSE, pass |-> pass, over |-> [c \in ChRefs |-> "default"], ignore |-> FALSE]
  /\ chGate = [subs |-> ChRefs, ignore |-> FALSE, todo |-> {}, closed |-> FALSE]
  /\ chRing = [len |-> [c \in ChRefs |-> 0], saying |-> ChNone]
  /\ chRun = [edits |-> 0, acts |-> 0, faults |-> 0, missed |-> FALSE]

Act == chRun.acts < ChActs
Acted == [chRun EXCEPT !.acts = @ + 1]
Flt == chRun.faults < ChFaults
\* A reload not yet pushed by every zone; a session no zone can push for.
Unpushed == chLoad # {} \/ \E z \in ChZones : chZone[z].armed \/ chZone[z].at # "idle"
Unreached(me) == me.at = ChNone \/ me.frozen
\* The zone goroutine that holds the session is between two messages.
Free == chMe.at # ChNone /\ chZone[chMe.at].at = "idle"

------------------------------------------------------------------------------
(* The pushed config.                                                          *)

\* canHear: the definition's predicate on the player (a require-flag or an attribute floor).
canHear(c, me) == chDef[c] # "gone" /\ (chDef[c] = "gated" => me.pass)
\* channelEnabled: the player's override, else on by default.
channelEnabled(c, me) == me.over[c] # "off"
effectiveHearSet(me) == {c \in ChRefs : channelEnabled(c, me) /\ canHear(c, me)}
Config(me) == [hear |-> effectiveHearSet(me), ignore |-> me.ignore]
publishCommsConfig(me) == Append(chBus, Config(me))

\* A player types; the zone goroutine that holds its session applies the change and publishes.
Typed(me) ==
  /\ Act /\ Free /\ ~chMe.frozen /\ ~chGate.closed
  /\ chMe' = me /\ chBus' = publishCommsConfig(me) /\ chRun' = Acted
  /\ UNCHANGED <<chDef, chLoad, chZone, chGate, chRing>>
cmdChannels(c, on) == chDef[c] # "gone" /\ Typed([chMe EXCEPT !.over[c] = IF on THEN "on" ELSE "off"])
cmdIgnore == Typed([chMe EXCEPT !.ignore = ~@])

\* An affect or a grant changes the flag: republish only when some channel gates hearing.
republishCommsOnAccessChange ==
  LET me == [chMe EXCEPT !.pass = ~@]
  IN /\ Act /\ Free /\ chMe' = me /\ chRun' = Acted
     /\ chBus' = IF \E c \in ChRefs : chDef[c] = "gated" THEN publishCommsConfig(me) ELSE chBus
     /\ UNCHANGED <<chDef, chLoad, chZone, chGate, chRing>>

\* The player leaves its zone and arrives in another (transferIn publishes nothing); a
\* cross-shard handoff freezes the session and aborts (nothing is published either).
Moves(me, act) ==
  /\ (act => Act /\ Free) /\ chMe' = me
  /\ chRun' = [chRun EXCEPT !.acts = IF act THEN @ + 1 ELSE @, !.missed = @ \/ Unpushed]
  /\ UNCHANGED <<chDef, chLoad, chZone, chBus, chGate, chRing>>
transferIn(z) == ~chMe.frozen /\ (chMe.at = ChNone) = (z # ChNone) /\ Moves([chMe EXCEPT !.at = z], z = ChNone)
ChFreeze == Free /\ Moves([chMe EXCEPT !.frozen = ~@], ~chMe.frozen)

------------------------------------------------------------------------------
(* Reloading a definition.                                                     *)

\* reloadChannel swaps the registry entry, and drops the ring of a removed channel.
reloadChannel(c, def) ==
  /\ chLoad = {} /\ chRun.edits < ChEdits /\ chDef[c] # def
  /\ chDef' = [chDef EXCEPT ![c] = def] /\ chLoad' = ChZones
  /\ chRing' = IF def = "gone" THEN [chRing EXCEPT !.len[c] = 0] ELSE chRing
  /\ chRun' = [chRun EXCEPT !.edits = @ + 1, !.missed = @ \/ Unreached(chMe)]
  /\ UNCHANGED <<chZone, chMe, chBus, chGate>>

\* republishCommsToZones: an armed zone is skipped; a full mailbox starts a retry.
republishCommsToZones(z, full) ==
  /\ z \in chLoad /\ (full => ~chZone[z].armed /\ Flt) /\ chLoad' = chLoad \ {z}
  /\ chZone' = IF chZone[z].armed THEN chZone
               ELSE [chZone EXCEPT ![z] = [@ EXCEPT !.armed = TRUE, !.queued = ~full, !.retry = full]]
  /\ chRun' = [chRun EXCEPT !.faults = IF full THEN @ + 1 ELSE @]
  /\ UNCHANGED <<chDef, chMe, chBus, chGate, chRing>>
\* retryRepublishComms delivers later, or exhausts its attempts and releases the flag.
retryRepublishComms(z, exhausted) ==
  /\ chZone[z].retry /\ (exhausted => Flt)
  /\ chZone' = [chZone EXCEPT ![z] = [@ EXCEPT !.armed = ~exhausted, !.queued = ~exhausted, !.retry = FALSE]]
  /\ chRun' = [chRun EXCEPT !.faults = IF exhausted THEN @ + 1 ELSE @, !.missed = @ \/ exhausted]
  /\ UNCHANGED <<chDef, chLoad, chMe, chBus, chGate, chRing>>

\* Mutant: the flag is released after the hear-sets were computed.
disarmsFirstNot == FALSE
disarmsFirst == TRUE
\* The zone takes the message and disarms the flag, then republishAllComms computes the config
\* of every session that is not frozen and publishes it.
takeRepublish(z) ==
  /\ chZone[z].queued /\ chZone[z].at = "idle"
  /\ chZone' = [chZone EXCEPT ![z] = [@ EXCEPT !.queued = FALSE, !.at = "took", !.armed = ~disarmsFirst]]
  /\ UNCHANGED <<chDef, chLoad, chMe, chBus, chGate, chRing, chRun>>
republishAllComms(z) ==
  /\ chZone[z].at = "took"
  /\ chZone' = [chZone EXCEPT ![z] = [@ EXCEPT !.at = "read",
                   !.cfg = IF chMe.at = z /\ ~chMe.frozen THEN <<Config(chMe)>> ELSE <<>>]]
  /\ UNCHANGED <<chDef, chLoad, chMe, chBus, chGate, chRing, chRun>>
pushRepublish(z) ==
  /\ chZone[z].at = "read" /\ chBus' = chBus \o chZone[z].cfg
  /\ chZone' = [chZone EXCEPT ![z] = [@ EXCEPT !.at = "idle", !.cfg = <<>>,
                                               !.armed = chZone[z].armed /\ disarmsFirst]]
  /\ UNCHANGED <<chDef, chLoad, chMe, chGate, chRing, chRun>>

------------------------------------------------------------------------------
(* The gate, and a speaker.                                                    *)

\* applyConfig replaces the ignore list and drops channels under the lock; it opens the missing
\* subscriptions one by one outside it.
applyConfig ==
  LET m == Head(chBus)
  IN /\ chBus # <<>> /\ chGate.todo = {} /\ chBus' = Tail(chBus)
     /\ chGate' = IF chGate.closed THEN chGate
                  ELSE [chGate EXCEPT !.ignore = m.ignore, !.subs = @ \cap m.hear, !.todo = m.hear \ chGate.subs]
     /\ UNCHANGED <<chDef, chLoad, chZone, chMe, chRing, chRun>>
subscribe(c, err) ==
  /\ c \in chGate.todo /\ (err => Flt)
  /\ chGate' = IF chGate.closed THEN [chGate EXCEPT !.todo = {}]
               ELSE [chGate EXCEPT !.todo = @ \ {c}, !.subs = IF err THEN @ ELSE @ \cup {c}]
  /\ chRun' = [chRun EXCEPT !.faults = IF err THEN @ + 1 ELSE @, !.missed = @ \/ err]
  /\ UNCHANGED <<chDef, chLoad, chZone, chMe, chBus, chRing>>
\* commsClient.close: the connection ends.
ChClose ==
  /\ ~chGate.closed /\ Act /\ chRun' = Acted
  /\ chGate' = [chGate EXCEPT !.closed = TRUE, !.subs = {}]
  /\ UNCHANGED <<chDef, chLoad, chZone, chMe, chBus, chRing>>

\* cmdChannel: a speaker's zone resolves the definition, publishes, and appends to the ring.
cmdChannel(c) ==
  /\ Act /\ chRun' = Acted /\ chRing.saying = ChNone /\ chDef[c] # "gone"
  /\ chRing' = [chRing EXCEPT !.saying = c]
  /\ UNCHANGED <<chDef, chLoad, chZone, chMe, chBus, chGate>>
appendHistory ==
  LET c == chRing.saying
  IN /\ c # ChNone
     /\ chRing' = [saying |-> ChNone,
                   len |-> [chRing.len EXCEPT ![c] = IF @ < ChHistory THEN @ + 1 ELSE @]]
     /\ UNCHANGED <<chDef, chLoad, chZone, chMe, chBus, chGate, chRun>>

ChNext ==
  \/ \E c \in ChRefs, on \in BOOLEAN : cmdChannels(c, on)
  \/ cmdIgnore \/ republishCommsOnAccessChange \/ ChFreeze \/ ChClose \/ applyConfig \/ appendHistory
  \/ \E z \in ChZones \cup {ChNone} : transferIn(z)
  \/ \E c \in ChRefs, def \in {"open", "gated", "gone"} : reloadChannel(c, def)
  \/ \E z \in ChZones, b \in BOOLEAN : republishCommsToZones(z, b) \/ retryRepublishComms(z, b)
  \/ \E z \in ChZones : takeRepublish(z) \/ republishAllComms(z) \/ pushRepublish(z)
  \/ \E c \in ChRefs, err \in BOOLEAN : subscribe(c, err)
  \/ \E c \in ChRefs : cmdChannel(c)
ChSpec == ChInit /\ [][ChNext]_chVars

------------------------------------------------------------------------------

Pushed == ~Unpushed /\ chBus = <<>> /\ chGate.todo = {} /\ ~Unreached(chMe)
InStep == chGate.subs = effectiveHearSet(chMe) /\ chGate.ignore = chMe.ignore

\* When every reload has been pushed and every config applied, the gate is subscribed to exactly
\* the channels the player enabled and may hear, if the player was reachable by its zone while
\* reloads were being pushed: no edit is swallowed by the coalescing flag, by its retry or by a
\* change the player makes meanwhile (world/reload.go republishCommsToZones, zone.go
\* republishCommsMsg, gate/comms.go applyConfig).
HearSetFollows == Pushed /\ ~chGate.closed /\ ~chRun.missed => InStep

\* zone.go's claim for the same flag, without the condition on the player: "the final state
\* always reflects the latest edit".
HearSetConverges == Pushed /\ ~chGate.closed /\ chRun.faults = 0 => InStep

\* The safety invariant: the types, and the properties above that hold of every state.
\* The gate's subscriptions follow the edits and the player (reload.go, commsstate.go, gate/comms.go).
ChannelsSafe == ChTypeOK /\ HearSetFollows
=============================================================================
