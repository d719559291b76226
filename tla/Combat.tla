------------------------------- MODULE Combat -------------------------------
(* A zone's fights and deaths (combat.go, combat_commands.go, death.go, pvp.go,   *)
(* effect_op.go, event.go). One goroutine runs everything, but every blow, kill,  *)
(* depletion and departure runs content handlers that deal further blows before   *)
(* the first one has finished: cmStack is that call stack, one frame per Go call  *)
(* with work left after a handler returns, and content chooses each handler's ops.*)
EXTENDS Integers, Sequences, FiniteSets

CONSTANTS CmPlayers, CmMobs,
          CmAggressive,      \* the mobs that attack an arriving player
          CmRooms, CmStart,  \* rooms of the zone; where the slain awake
          CmNone,
          CmPool,            \* the vital pool's maximum
          CmHeld,            \* whom content puts at death's door
          CmHandlers,        \* bound: handlers one cascade runs (maxEventDepth, maxEventHandlers)
          CmOps,             \* bound: ops in a handler's list
          CmDeaths           \* bound: deaths of one player

ASSUME CmAssumption ==
  /\ CmAggressive \subseteq CmMobs /\ CmStart \in CmRooms /\ CmNone \notin CmRooms \cup CmPlayers \cup CmMobs
  /\ CmPlayers \cap CmMobs = {} /\ {CmPool, CmHandlers, CmOps, CmDeaths} \subseteq Nat /\ CmHeld \subseteq CmPlayers \cup CmMobs

VARIABLES
  cmLive,    \* each living's room, vital pool, position, target, threat table, death latch and count, affects
  cmArmed,   \* Zone.combatPulse is set
  cmStack,   \* calls with work left, innermost first
  cmBudget   \* handlers the running cascade may still run

cmVars == <<cmLive, cmArmed, cmStack, cmBudget>>

Livings == CmPlayers \cup CmMobs
Born(r) == [room |-> r, pool |-> CmPool, pos |-> "standing", fights |-> CmNone, threat |-> {},
            dying |-> FALSE, deaths |-> 0, held |-> FALSE, safe |-> FALSE]
FrameKinds == {"event", "ops", "blow", "fall", "die", "leave", "round"}
Frame(kind, a, t) == [kind |-> kind, a |-> a, t |-> t, gen |-> 0, n |-> 0, set |-> {},
                      on |-> CmNone, onGen |-> 0, room |-> CmNone, flag |-> FALSE]
CmTypeOK ==
  /\ cmLive \in [Livings -> [room : CmRooms \cup {CmNone}, pool : 0..CmPool,
                             pos : {"standing", "fighting", "dead"}, fights : Livings \cup {CmNone},
                             threat : SUBSET Livings, dying : BOOLEAN, deaths : Nat, held : BOOLEAN, safe : BOOLEAN]]
  /\ cmArmed \in BOOLEAN /\ cmBudget \in 0..CmHandlers
  /\ \A i \in 1..Len(cmStack) : cmStack[i].kind \in FrameKinds

\* A quiet zone: everyone where the boot or a walk has put them.
CmInit ==
  /\ \E at \in [Livings -> CmRooms] : /\ \A m \in CmAggressive, p \in CmPlayers : at[m] # at[p]
                                      /\ cmLive = [e \in Livings |-> Born(at[e])]
  /\ cmArmed = FALSE /\ cmStack = <<>> /\ cmBudget = CmHandlers

Idle == cmStack = <<>>
Running(kind) == cmStack # <<>> /\ Head(cmStack).kind = kind
Top == Head(cmStack)
Calls(frames) == cmStack' = frames \o Tail(cmStack)     \* the innermost call gives way to these
deathGen(e) == IF e = CmNone THEN 0 ELSE cmLive[e].deaths
Alive(w, e) == e # CmNone /\ w[e].room # CmNone /\ w[e].pos # "dead"
Together(w, e, f) == w[e].room # CmNone /\ w[e].room = w[f].room

\* The bus: the subject's handlers run with it as actor; some events ask that it still lives.
Event(subject, other) == Frame("event", subject, other)
WhileLive(subject, other) == [Event(subject, other) EXCEPT !.flag = TRUE]
runOps(actor, target) == [Frame("ops", actor, target) EXCEPT !.gen = deathGen(actor), !.n = CmOps]
fireEvent ==
  /\ Running("event")
  /\ \/ Calls(<<>>) /\ UNCHANGED cmBudget               \* no handler, or over the caps
     \/ /\ cmBudget > 0 /\ (Top.flag => Alive(cmLive, Top.a))
        /\ Calls(<<runOps(Top.a, Top.t)>>) /\ cmBudget' = cmBudget - 1
  /\ UNCHANGED <<cmLive, cmArmed>>

\* Leaving combat: a living's own link, or also the link of everyone in its room at it.
stopFight(w, e) == [w EXCEPT ![e].fights = CmNone, ![e].pos = IF @ = "fighting" THEN "standing" ELSE @]
disengage(w, e) ==
  [f \in Livings |-> IF f = e \/ (Together(w, e, f) /\ w[f].fights = e) THEN stopFight(w, f)[f] ELSE w[f]]
scrubThreat(w, e) ==
  [f \in Livings |-> IF f = e THEN [w[f] EXCEPT !.threat = {}]
                     ELSE IF Together(w, e, f) THEN [w[f] EXCEPT !.threat = @ \ {e}] ELSE w[f]]

\* Entering combat: the attacker turns on its target, and the target on it unless it is busy.
mayStart(w, a, t) == a # t /\ Together(w, a, t) /\ w[t].pos # "dead"
startFight(w, a, t) ==
  LET on(v, e, f) == [v EXCEPT ![e].fights = f, ![e].pos = "fighting"]
  IN IF ~mayStart(w, a, t) THEN w
     ELSE IF w[t].fights = CmNone THEN on(on(w, a, t), t, a) ELSE on(w, a, t)
startEvents(w, a, t) ==
  IF ~mayStart(w, a, t) THEN <<>>
  ELSE (IF w[a].fights = CmNone THEN <<WhileLive(a, t)>> ELSE <<>>)
       \o (IF w[t].fights = CmNone THEN <<WhileLive(t, a)>> ELSE <<>>)

\* The idle aggressive mobs of the room fall on an arriving player; at most one is in a room here.
aggressor(w, e) == IF e \in CmPlayers /\ w[e].pos # "dead"
                   THEN {m \in CmAggressive : Together(w, m, e) /\ w[m].fights = CmNone} ELSE {}
aggroOnEntry(w, e) == IF aggressor(w, e) = {} THEN w ELSE startFight(w, CHOOSE m \in aggressor(w, e) : TRUE, e)
aggroEvents(w, e) == IF aggressor(w, e) = {} THEN <<>> ELSE startEvents(w, CHOOSE m \in aggressor(w, e) : TRUE, e)

\* kill, or assist, which attacks what an ally is fighting: the pulse is armed unless it already is.
cmdKill(p, t) ==
  /\ Idle /\ Alive(cmLive, p) /\ mayStart(cmLive, p, t)
  /\ cmLive' = startFight(cmLive, p, t) /\ cmArmed' = TRUE
  /\ cmStack' = startEvents(cmLive, p, t) /\ cmBudget' = CmHandlers

\* A bare flee drops only the fleer's own link.
cmdFleeInPlace(p) ==
  /\ Idle /\ cmLive[p].fights # CmNone /\ cmLive' = stopFight(cmLive, p) /\ cmBudget' = CmHandlers
  /\ UNCHANGED <<cmArmed, cmStack>>

\* A walk (refused while fighting) or a flee to an exit first lets everyone engaged with the leaver react.
Depart(p, flee) ==
  /\ Idle /\ Alive(cmLive, p) /\ IF flee THEN cmLive[p].fights # CmNone ELSE cmLive[p].pos # "fighting"
  /\ cmStack' = <<[Frame("leave", p, CmNone) EXCEPT !.gen = deathGen(p), !.room = cmLive[p].room, !.flag = flee,
                     !.set = {e \in Livings \ {p} : Together(cmLive, p, e) /\ cmLive[e].fights = p}]>>
  /\ cmBudget' = CmHandlers /\ UNCHANGED <<cmLive, cmArmed>>
fireLeaveRoom ==
  /\ Running("leave") /\ Top.set # {} /\ UNCHANGED <<cmLive, cmArmed, cmBudget>>
  /\ \E e \in Top.set :
       LET rest == [Top EXCEPT !.set = @ \ {e}] IN
       Calls((IF Together(cmLive, e, Top.a) /\ ~cmLive[e].held /\ cmLive[e].pos # "dead"
              THEN <<Event(e, Top.a)>> ELSE <<>>) \o <<rest>>)

\* A departure is given up when a reaction moved or killed the leaver. A walk also asks whether the
\* leaver died and awoke in place; a flee does not.
abandoned(f) ==
  \/ cmLive[f.a].room # f.room \/ cmLive[f.a].pos = "dead" \/ (~f.flag /\ deathGen(f.a) # f.gen)
arrive ==
  /\ Running("leave") /\ Top.set = {}
  /\ IF abandoned(Top) THEN Calls(<<>>) /\ UNCHANGED <<cmLive, cmArmed, cmBudget>>
     ELSE \E r \in CmRooms \ {Top.room} :
            LET w == [(IF Top.flag THEN disengage(cmLive, Top.a) ELSE cmLive) EXCEPT ![Top.a].room = r] IN
            /\ cmLive' = aggroOnEntry(w, Top.a) /\ cmArmed' = (cmArmed \/ aggressor(w, Top.a) # {})
            /\ Calls(aggroEvents(w, Top.a)) /\ UNCHANGED cmBudget

\* guardHarmful: both in the world, the target not in its respawn window, and no player on another.
\* Hostile intent on another ends the actor's own window whether or not the harm goes through.
mayHarm(a, t) ==
  /\ cmLive[a].room # CmNone /\ cmLive[t].room # CmNone /\ (a = t \/ ~cmLive[t].safe)
  /\ (t \in CmPlayers /\ a # t) => a \notin CmPlayers
  /\ t \in CmPlayers => cmLive[t].deaths < CmDeaths
intent(w, a, t) == IF a = t THEN w ELSE [w EXCEPT ![a].safe = FALSE]

\* dealDamage: the pool is written and the threat added, then the target's and the source's handlers run
\* and only then is the pool looked at again. Only a mob ever reads its threat table.
struck(a, t) == LET w == intent(cmLive, a, t) IN
  [w EXCEPT ![t].pool = IF @ = 0 THEN 0 ELSE @ - 1, ![t].threat = IF a = t \/ t \in CmPlayers THEN @ ELSE @ \cup {a}]
dealDamage(a, t) == <<Event(t, a), [Frame("blow", a, t) EXCEPT !.gen = deathGen(t)]>>
blowLanded ==
  /\ Running("blow") /\ UNCHANGED <<cmLive, cmArmed, cmBudget>>
  /\ LET f == Top IN
     IF f.n = 0
     THEN Calls((IF f.a # f.t /\ Alive(cmLive, f.a) THEN <<Event(f.a, f.t)>> ELSE <<>>) \o <<[f EXCEPT !.n = 1]>>)
     ELSE IF deathGen(f.t) = f.gen /\ cmLive[f.t].pool = 0 /\ cmLive[f.t].pos # "dead" /\ ~cmLive[f.t].held
          THEN Calls(<<Event(f.t, f.a), [Frame("fall", f.a, f.t) EXCEPT !.gen = f.gen]>>)
          ELSE Calls(<<>>)

\* After the pool's own hook: still this life, still empty, still not held from death, and not dying yet.
\* Mutant: without the latch a rider on the kill runs the whole death again.
neverDying(w, e) == FALSE
Dying(w, e) == w[e].dying
mayDie(w, e, gen) == w[e].deaths = gen /\ w[e].pool = 0 /\ ~w[e].held
onPoolDepleted ==
  /\ Running("fall") /\ UNCHANGED <<cmArmed, cmBudget>>
  /\ LET v == Top.t IN
     IF mayDie(cmLive, v, Top.gen) /\ ~Dying(cmLive, v)
     THEN /\ cmLive' = [cmLive EXCEPT ![v].dying = TRUE, ![v].deaths = @ + 1]
          /\ Calls(<<Event(Top.a, v), Frame("die", Top.a, v)>>)
     ELSE UNCHANGED cmLive /\ Calls(<<>>)

\* die, after OnKill: loot, links and threat dropped, the dead position, the death trigger; then the body.
respawned(w, e) == [w EXCEPT ![e].pool = CmPool, ![e].pos = "standing", ![e].dying = FALSE,
                             ![e].held = FALSE, ![e].safe = TRUE, ![e].room = CmStart]
makeCorpse(w, e) == [w EXCEPT ![e] = [Born(CmNone) EXCEPT !.pos = w[e].pos, !.dying = TRUE, !.deaths = w[e].deaths]]
die ==
  /\ Running("die") /\ UNCHANGED <<cmArmed, cmBudget>>
  /\ LET v == Top.t IN
     IF Top.n = 0
     THEN /\ cmLive' = [scrubThreat(disengage(cmLive, v), v) EXCEPT ![v].pos = "dead"]
          /\ Calls(<<Event(v, Top.a), [Top EXCEPT !.n = 1]>>)
     ELSE /\ cmLive' = IF v \in CmPlayers THEN respawned(cmLive, v) ELSE makeCorpse(cmLive, v)
          /\ Calls(<<>>)

\* An op list: on return from an op, note a target it killed and stop if the actor died; skip the dead.
noted(f) == IF f.on # CmNone /\ deathGen(f.on) # f.onGen THEN [f EXCEPT !.set = @ \cup {f.on}, !.on = CmNone]
            ELSE [f EXCEPT !.on = CmNone]
stops(f) == f.n = 0 \/ deathGen(f.a) # f.gen
opsEnd == /\ Running("ops") /\ Calls(<<>>) /\ UNCHANGED <<cmLive, cmArmed, cmBudget>>
nextOp(t) == /\ Running("ops") /\ ~stops(Top) /\ t \in {Top.a, Top.t} \ ({CmNone} \cup noted(Top).set)
Op(t) == [noted(Top) EXCEPT !.n = @ - 1, !.on = t, !.onGen = deathGen(t)]
opDealDamage(t) ==
  /\ nextOp(t) /\ UNCHANGED <<cmArmed, cmBudget>>
  /\ IF mayHarm(Top.a, t) THEN cmLive' = struck(Top.a, t) /\ Calls(dealDamage(Top.a, t) \o <<Op(t)>>)
     ELSE cmLive' = intent(cmLive, Top.a, t) /\ Calls(<<Op(t)>>)
opHeal(t) ==
  /\ nextOp(t) /\ cmLive' = [cmLive EXCEPT ![t].pool = CmPool]
  /\ Calls(<<Op(t)>>) /\ UNCHANGED <<cmArmed, cmBudget>>
\* Death's door: an affect that suspends death, laid on or lifted.
opHold(t) ==
  /\ nextOp(t) /\ t \in CmHeld /\ cmLive' = [cmLive EXCEPT ![t].held = ~@]
  /\ Calls(<<Op(t)>>) /\ UNCHANGED <<cmArmed, cmBudget>>
\* push, teleport: links dropped in the room left, then the arrival's aggression and OnEnter.
opPush(t) ==
  /\ nextOp(t) /\ cmLive[t].room # CmNone /\ (t = Top.a \/ t \in CmMobs \/ mayHarm(Top.a, t)) /\ UNCHANGED cmBudget
  /\ \E r \in CmRooms \ {cmLive[t].room} :
       LET w == [disengage(IF t \in CmPlayers THEN intent(cmLive, Top.a, t) ELSE cmLive, t) EXCEPT ![t].room = r] IN
       /\ cmLive' = aggroOnEntry(w, t) /\ cmArmed' = (cmArmed \/ aggressor(w, t) # {})
       /\ Calls(aggroEvents(w, t) \o <<Op(t)>>)

\* One combat pulse: the fighters near a player act in turn, and the pulse lives on if one of them still
\* fights when its own turn ends.
Fighters == {e \in Livings : /\ cmLive[e].pos = "fighting" /\ cmLive[e].fights # CmNone
                             /\ e \in CmPlayers \/ \E p \in CmPlayers : Together(cmLive, p, e)}
runCombatRound ==
  /\ Idle /\ cmArmed /\ cmBudget' = CmHandlers /\ UNCHANGED <<cmLive, cmArmed>>
  /\ cmStack' = <<[Frame("round", CmNone, CmNone) EXCEPT !.set = Fighters]>>
stillFights(f) == f.flag \/ (f.a # CmNone /\ cmLive[f.a].fights # CmNone)
roundEnds ==
  /\ Running("round") /\ Top.set = {} /\ cmArmed' = stillFights(Top)
  /\ Calls(<<>>) /\ UNCHANGED <<cmLive, cmBudget>>

\* A mob whose target is gone turns on someone its threat table names, or gives up.
retargetMob(e) ==
  LET cur == cmLive[e].fights
      foes == {f \in cmLive[e].threat : Together(cmLive, e, f) /\ cmLive[f].pos # "dead"}
  IN IF e \in CmPlayers \/ (cur # CmNone /\ Together(cmLive, e, cur) /\ cmLive[cur].pos # "dead") THEN {cmLive}
     ELSE IF foes = {} THEN {stopFight(cmLive, e)}
     ELSE {[cmLive EXCEPT ![e].fights = f, ![e].pos = "fighting"] : f \in foes}
canAct(w, e) == w[e].pos # "dead" /\ ~w[e].held
\* A turn: a miss, a gate that fails (a target elsewhere ends the fight), or a blow.
resolveSwings(e) ==
  /\ Running("round") /\ e \in Top.set /\ UNCHANGED <<cmArmed, cmBudget>>
  /\ LET rest == [Top EXCEPT !.set = @ \ {e}, !.a = e, !.flag = stillFights(Top)] IN
     \E w \in retargetMob(e) :
       LET t == w[e].fights IN
       IF t = CmNone \/ ~canAct(w, e) \/ w[t].pos = "dead" THEN cmLive' = w /\ Calls(<<rest>>)
       ELSE IF ~Together(w, e, t) THEN cmLive' = stopFight(w, e) /\ Calls(<<rest>>)
       ELSE \/ cmLive' = w /\ Calls(<<rest>>)
            \/ /\ mayHarm(e, t) /\ Calls(dealDamage(e, t) \o <<rest>>)
               /\ cmLive' = [w EXCEPT ![e].safe = FALSE, ![t].pool = IF @ = 0 THEN 0 ELSE @ - 1, ![t].threat = IF t \in CmPlayers THEN @ ELSE @ \cup {e}]

\* Pulses pass: a respawn window closes, a hold on death runs out.
Fades(e) ==
  /\ Idle /\ (cmLive[e].safe \/ cmLive[e].held)
  /\ cmLive' = [cmLive EXCEPT ![e].safe = FALSE, ![e].held = FALSE] /\ UNCHANGED <<cmArmed, cmStack, cmBudget>>

CmNext ==
  \/ \E p \in CmPlayers, m \in CmMobs : cmdKill(p, m)
  \/ \E p \in CmPlayers : cmdFleeInPlace(p) \/ \E flee \in BOOLEAN : Depart(p, flee)
  \/ fireEvent \/ fireLeaveRoom \/ arrive \/ blowLanded \/ onPoolDepleted \/ die \/ opsEnd
  \/ runCombatRound \/ roundEnds
  \/ \E e \in Livings : opDealDamage(e) \/ opHeal(e) \/ opHold(e) \/ opPush(e) \/ resolveSwings(e) \/ Fades(e)
CmSpec == CmInit /\ [][CmNext]_cmVars

(* A mob dies once: however the handlers of its depletion, its kill and its death trigger strike it again,
   one corpse is made, one kill credited and its loot rolled once. *)
DiesOnce == \A m \in CmMobs : cmLive[m].deaths <= 1

(* A player whom a reaction to the departure killed is not carried on to the room it was leaving for, even
   when it awakes in the room it stood in. *)
DepartureEndsWithDeath ==
  [][(Running("leave") /\ Top.set = {} /\ deathGen(Top.a) # Top.gen) => cmLive' = cmLive]_cmVars

(* Whoever is in a fight when the zone comes to rest has a combat pulse to drive it. *)
FightsAreDriven == (Idle /\ \E p \in CmPlayers : cmLive[p].pos = "fighting") => cmArmed

\* The safety invariant: the types, and the properties above that hold of every state.
\* A mob dies once, whatever its death sets off (death.go, combat.go).
CombatSafe == CmTypeOK /\ DiesOnce
=============================================================================
