---------------------------- MODULE AffectTicks ----------------------------
(* Affects on a player and the pulse callbacks that count them down               *)
(* (affect_runtime.go, affected.go, affect_room.go, concentration.go,             *)
(* resources.go, pulse.go). Each zone runs its own pulses; the player's callback  *)
(* finds it by name in its zone, so a player who changes zone, freezes for a      *)
(* handoff or logs out leaves a callback behind.                                  *)
EXTENDS Integers, FiniteSets

CONSTANTS AtZones, AtGone,
          AtTimed,     \* affects with a duration
          AtBound,     \* of those, the ones their caster must concentrate on
          AtField,     \* the affect a room lays on its occupants
          AtNone,
          AtDur,       \* bound: a duration in pulses, at least 2
          AtSteps      \* bound: callbacks registered

ASSUME AtAssumption ==
  /\ AtBound \subseteq AtTimed /\ AtGone \notin AtZones /\ AtNone \notin AtTimed \cup {AtField}
  /\ AtField \notin AtTimed /\ {AtDur, AtSteps} \subseteq Nat /\ AtDur >= 2

VARIABLES
  atAt,      \* the zone whose player map holds the player, or AtGone
  atTo,      \* the zone a transfer is posted to, or AtGone
  atFrozen,  \* session.frozen
  atLeft,    \* pulses left of each affect, 0 when absent
  atSlot,    \* what the caster concentrates on
  atHurt,    \* a regenerating pool is below its maximum
  atHandle,  \* Affected.tick: the callback the component thinks it has, 0 for nil
  atTicks,   \* each zone's registered callbacks for this player
  atTodo,    \* each zone's callbacks the running pulse has still to call
  atField,   \* pulses left of each zone's room affect
  atAged,    \* how often the running pulse counted the player's affects down
  atSerial   \* callbacks registered so far

atVars == <<atAt, atTo, atFrozen, atLeft, atSlot, atHurt, atHandle, atTicks, atTodo, atField, atAged, atSerial>>
Body == <<atLeft, atSlot, atHurt>>
Ticks == <<atHandle, atTicks, atSerial>>
Sched == <<atTodo, atAged>>

Affects == AtTimed \cup {AtField}
Bare == [f \in Affects |-> 0]
AtTypeOK ==
  /\ atAt \in AtZones \cup {AtGone} /\ atTo \in AtZones \cup {AtGone} /\ atFrozen \in BOOLEAN
  /\ atLeft \in [Affects -> 0..AtDur] /\ atSlot \in AtBound \cup {AtNone} /\ atHurt \in BOOLEAN
  /\ atHandle \in 0..AtSteps /\ atTicks \in [AtZones -> SUBSET (1..AtSteps)]
  /\ atTodo \in [AtZones -> SUBSET (1..AtSteps)] /\ atField \in [AtZones -> 0..AtDur]
  /\ atAged \in Nat /\ atSerial \in 0..AtSteps

AtInit ==
  /\ atAt = AtGone /\ atTo = AtGone /\ atFrozen = FALSE /\ atLeft = Bare /\ atSlot = AtNone /\ atHurt = FALSE
  /\ atHandle = 0 /\ atTicks = [z \in AtZones |-> {}] /\ atTodo = [z \in AtZones |-> {}]
  /\ atField = [z \in AtZones |-> 0] /\ atAged = 0 /\ atSerial = 0

Here(z) == atAt = z /\ atTodo[z] = {}                  \* z's goroutine is free to act on the player
Active(left, hurt) == hurt \/ \E f \in Affects : left[f] > 0

\* The component registers a callback unless it has one or has nothing to count.
armed(handle, left, hurt) == handle # 0 \/ ~Active(left, hurt)
ensureTick(z, handle, left, hurt) ==
  IF armed(handle, left, hurt)
  THEN atHandle' = handle /\ UNCHANGED <<atTicks, atSerial>>
  ELSE /\ atSerial < AtSteps /\ atSerial' = atSerial + 1 /\ atHandle' = atSerial'
       /\ atTicks' = [atTicks EXCEPT ![z] = @ \cup {atSerial'}]

\* A caster holds one concentration affect: a new one ends the one before, and an end frees the slot.
concentrationApply(left, f) == IF atSlot \notin {AtNone, f} THEN [left EXCEPT ![atSlot] = 0] ELSE left
clearConcentrationSlot(f) == IF atSlot = f THEN AtNone ELSE atSlot

\* A casting puts the affect on afresh, whatever was left of it.
applyAffect(z, f) ==
  /\ Here(z) /\ ~atFrozen /\ f \in AtTimed
  /\ atSlot' = IF f \in AtBound THEN f ELSE atSlot
  /\ atLeft' = [(IF f \in AtBound THEN concentrationApply(atLeft, f) ELSE atLeft) EXCEPT ![f] = AtDur]
  /\ ensureTick(z, atHandle, atLeft', atHurt) /\ UNCHANGED <<atAt, atTo, atFrozen, atHurt, atField, Sched>>
\* Dispelled, broken by a stun, or torn down by its source: the affect ends before its time.
expire(z, f) ==
  /\ Here(z) /\ ~atFrozen /\ atLeft[f] > 0 /\ f \in AtTimed /\ atLeft' = [atLeft EXCEPT ![f] = 0]
  /\ atSlot' = clearConcentrationSlot(f) /\ UNCHANGED <<atAt, atTo, atFrozen, atHurt, atField, Ticks, Sched>>
\* Every write of a regenerating pool below its maximum asks for the callback.
setResourceCurrent(z) ==
  /\ Here(z) /\ ~atFrozen /\ ~atHurt /\ atHurt' = TRUE /\ ensureTick(z, atHandle, atLeft, TRUE)
  /\ UNCHANGED <<atAt, atTo, atFrozen, atLeft, atSlot, atField, Sched>>
\* Death's respawn purges what is hostile without running any hook, and refills the pools.
stripHostileAffects(z) ==
  /\ Here(z) /\ ~atFrozen /\ Active(atLeft, atHurt) /\ atLeft' = Bare /\ atSlot' = AtNone /\ atHurt' = FALSE
  /\ UNCHANGED <<atAt, atTo, atFrozen, atField, Ticks, Sched>>

\* One pulse of a zone: first the room's own callback ages the room affect and renews its lease on the
\* occupant, then the zone's callbacks for the player run one by one.
lease(z, left) == IF atAt = z /\ ~atFrozen THEN [left EXCEPT ![AtField] = 2] ELSE left
landRoomAffectOn(z) == atLeft' = lease(z, atLeft) /\ ensureTick(z, atHandle, atLeft', atHurt)
applyRoomAffect(z) ==
  /\ atTodo[z] = {} /\ atField[z] = 0 /\ atField' = [atField EXCEPT ![z] = AtDur]
  /\ IF atAt = z /\ ~atFrozen THEN landRoomAffectOn(z) ELSE UNCHANGED <<atLeft, Ticks>>
  /\ UNCHANGED <<atAt, atTo, atFrozen, atSlot, atHurt, Sched>>
roomTickOnce(z) ==
  /\ atTodo[z] = {} /\ atField[z] > 0 /\ atField' = [atField EXCEPT ![z] = @ - 1]
  /\ IF atAt # z \/ atFrozen THEN UNCHANGED <<atLeft, Ticks>>
     ELSE IF atField[z] = 1 THEN atLeft' = [atLeft EXCEPT ![AtField] = 0] /\ UNCHANGED Ticks
     ELSE landRoomAffectOn(z)
  /\ UNCHANGED <<atAt, atTo, atFrozen, atSlot, atHurt, Sched>>
Pulse(z) ==
  /\ atTodo[z] = {} /\ atTicks[z] # {} /\ atTodo' = [atTodo EXCEPT ![z] = atTicks[z]]
  /\ atAged' = IF atAt = z THEN 0 ELSE atAged
  /\ UNCHANGED <<atAt, atTo, atFrozen, Body, Ticks, atField>>

\* One callback: absent, it stops and touches nothing; frozen, it stops and forgets itself; else it counts
\* every affect down, regenerates, and stops when nothing is left to count.
aged == [f \in Affects |-> IF atLeft[f] > 0 THEN atLeft[f] - 1 ELSE 0]
Stops(z, t) == atTicks' = [atTicks EXCEPT ![z] = @ \ {t}]
affectTickFor(z, t) ==
  /\ t \in atTodo[z] /\ atTodo' = [atTodo EXCEPT ![z] = @ \ {t}]
  /\ \/ atAt # z /\ Stops(z, t) /\ UNCHANGED <<Body, atHandle, atAged>>
     \/ atAt = z /\ atFrozen /\ Stops(z, t) /\ atHandle' = 0 /\ UNCHANGED <<Body, atAged>>
     \/ /\ atAt = z /\ ~atFrozen /\ atLeft' = aged /\ atAged' = atAged + 1
        /\ atSlot' = IF atSlot # AtNone /\ aged[atSlot] = 0 THEN AtNone ELSE atSlot
        /\ \E healed \in BOOLEAN :
             /\ atHurt' = (atHurt /\ ~healed)
             /\ IF Active(aged, atHurt') THEN UNCHANGED <<atHandle, atTicks>> ELSE atHandle' = 0 /\ Stops(z, t)
  /\ UNCHANGED <<atAt, atTo, atFrozen, atField, atSerial>>

landed(z, left) == IF atField[z] > 0 THEN [left EXCEPT ![AtField] = 2] ELSE left
\* A login rehydrates the saved affects on a new component; a logout drops the entity and leaves the callback.
AtLogin(z) ==
  /\ atAt = AtGone /\ atTo = AtGone /\ atTodo[z] = {} /\ atAt' = z
  /\ \E saved \in {Bare} \cup {[Bare EXCEPT ![f] = AtDur] : f \in AtTimed} : atLeft' = landed(z, saved)
  /\ atSlot' = AtNone /\ atHurt' = FALSE
  /\ ensureTick(z, 0, atLeft', FALSE) /\ UNCHANGED <<atTo, atFrozen, atField, Sched>>
AtLogout(z) ==
  /\ Here(z) /\ atAt' = AtGone /\ atFrozen' = FALSE /\ atLeft' = Bare /\ atSlot' = AtNone /\ atHurt' = FALSE
  /\ atHandle' = 0 /\ UNCHANGED <<atTo, atTicks, atSerial, atField, Sched>>
\* A handoff freezes the player; a barred way thaws it in place, a committed one is a logout here.
Freeze(z) == /\ Here(z) /\ ~atFrozen /\ atFrozen' = TRUE
             /\ UNCHANGED <<atAt, atTo, Body, Ticks, atField, Sched>>
Thaw(z) == /\ Here(z) /\ atFrozen /\ atFrozen' = FALSE
           /\ UNCHANGED <<atAt, atTo, Body, Ticks, atField, Sched>>

\* Between zones the same entity travels: the source ends its concentration, the destination clears the
\* source's handle and registers its own callback.
AtTransferOut(z, to) ==
  /\ Here(z) /\ ~atFrozen /\ to # z /\ atAt' = AtGone /\ atTo' = to
  /\ atLeft' = [f \in Affects |-> IF f = atSlot THEN 0 ELSE atLeft[f]] /\ atSlot' = AtNone
  /\ UNCHANGED <<atFrozen, atHurt, Ticks, atField, Sched>>
\* Mutant: the handle of the source's callback is taken for one of the destination.
handleKept == atHandle
handleOnArrival == 0
AtTransferIn(z) ==
  /\ atTo = z /\ atTodo[z] = {} /\ atAt' = z /\ atTo' = AtGone
  /\ atLeft' = landed(z, atLeft)
  /\ ensureTick(z, handleOnArrival, atLeft', atHurt) /\ UNCHANGED <<atFrozen, atSlot, atHurt, atField, Sched>>

AtNext ==
  \E z \in AtZones :
    \/ \E f \in AtTimed : applyAffect(z, f) \/ expire(z, f)
    \/ setResourceCurrent(z) \/ stripHostileAffects(z) \/ applyRoomAffect(z) \/ roomTickOnce(z)
    \/ Pulse(z) \/ \E t \in atTodo[z] : affectTickFor(z, t)
    \/ AtLogin(z) \/ AtLogout(z) \/ Freeze(z) \/ Thaw(z)
    \/ \E to \in AtZones : AtTransferOut(z, to)
    \/ AtTransferIn(z)
AtSpec == AtInit /\ [][AtNext]_atVars

(* The handle a present player's component holds is of a callback its own zone still calls: no transfer,
   freeze, purge or expiry leaves a handle that stops the next affect from being counted down. *)
HandleIsLive == \A z \in AtZones : (Here(z) /\ ~atFrozen /\ atHandle # 0) => atHandle \in atTicks[z]

(* One pulse of the player's zone counts its affects down once. *)
AgesOnce == atAged <= 1

(* A player who is in a zone, thawed, with something to count, has a callback that counts it. *)
AffectsCounted == \A z \in AtZones : (Here(z) /\ ~atFrozen /\ Active(atLeft, atHurt)) => atTicks[z] # {}

\* The safety invariant: the types, and the properties above that hold of every state.
\* The handle of a player's affect tick is one its zone calls (affect_runtime.go).
AffectsSafe == AtTypeOK /\ HandleIsLive
=============================================================================
