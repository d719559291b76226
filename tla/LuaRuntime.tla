----------------------------- MODULE LuaRuntime -----------------------------
(* A zone's Lua runtime (luart.go, luaentry*.go, luabreaker.go, luamud.go,          *)
(* luaharm.go, luareact.go, reloadLua of reload.go): the cache of compiled chunks,  *)
(* the one chokepoint every call goes through and its nesting, the circuit          *)
(* breakers, timers, spawned entities, and hot reload. A script is what its author  *)
(* wrote: whatever it does next is a choice. Hooks are the places content attaches  *)
(* a body: the two reaction kinds of one affect share the cache key of the affect.  *)
EXTENDS Integers, Sequences, FiniteSets

CONSTANTS LuNone, LuBare, LuDead,
          LuHooks,     \* the hooks in play
          LuBudget,    \* bound: instructions of one cascade
          LuLogs,      \* bound: log lines of one frame
          LuSpawns,    \* bound: live spawned entities of the zone
          LuTimers,    \* bound: timers ever scheduled
          LuTimerCap,  \* bound: timers live at once
          LuDepth,     \* bound: nested calls
          LuTrip,      \* the breaker's threshold, in tenths
          LuCalls,     \* bound: calls of hooks and handlers
          LuEdits,     \* bound: content edits
          LuFaults     \* bound: failing calls

Hooks == {"toHit", "onDamageTaken", "onResolve", "register"}
Scripts == {"react", "ability", "trigger", "instance", "after"}  \* what a circuit breaker is keyed by
key(h) ==
  CASE h \in {"toHit", "onDamageTaken"} -> "react" [] h = "onResolve" -> "ability" [] h = "register" -> "trigger"
Defs == {key(h) : h \in LuHooks}
Quality == {"good", "broken", "empty"}
Source == [v : 0..LuEdits, q : Quality]

ASSUME LuAssumption ==
  /\ LuHooks \subseteq Hooks /\ "register" \in LuHooks
  /\ {LuBudget, LuLogs, LuSpawns, LuTimers, LuTimerCap, LuDepth, LuTrip, LuCalls, LuEdits, LuFaults} \subseteq Nat \ {0}

VARIABLES
  luSrc,      \* the body the shard's registries hold for each hook
  luMine,     \* the body the scripted mob's own prototype carries
  luPosted,   \* the reloadLuaMsg waiting in the zone's inbox
  luChunks,   \* runtime.chunks: the source a def was compiled from and the chunk it runs
  luBreakers, \* the error budget of each script, LuTrip or more is disabled
  luMob,      \* the chunk the mob's handlers came from; LuNone before it registers, LuBare with none, LuDead
  luStack,    \* the calls in flight, innermost last
  luInv,      \* runtime.inv: on whose behalf the script runs
  luLogged,   \* runtime.logsThisCall
  luInstr,    \* the state's instruction count
  luWork,     \* instructions run since the outermost call began
  luWheel,    \* every timer scheduled: whether chunkGen has moved on since, whether it is pending
  luLive,     \* runtime.luaTimersLive
  luCensus,   \* runtime.luaSpawnsLive
  luHere,     \* spawned entities still in the zone
  luCalls,
  luFaults

luVars == <<luSrc, luMine, luPosted, luChunks, luBreakers, luMob, luStack, luInv, luLogged, luInstr, luWork,
            luWheel, luLive, luCensus, luHere, luCalls, luFaults>>
content == <<luSrc, luMine, luPosted>>
code == <<luChunks, luMob>>
call == <<luStack, luInv, luLogged, luInstr, luWork>>
bounds == <<luCalls, luFaults>>
wheel == <<luWheel, luLive>>
spawns == <<luCensus, luHere>>

Actors == {"subject", "caster", "mob", LuNone}
Frames == [kind : {"chunk", "handler", "timer"}, script : Scripts, actor : Actors, then : BOOLEAN, ver : 0..LuEdits,
           own : 0..LuLogs, logs : 0..LuLogs, inv : Actors]
Unset == [src |-> LuNone, chunk |-> LuNone]
Versions == 0..LuEdits \cup {LuNone}

LuTypeOK ==
  /\ luSrc \in [LuHooks -> Source] /\ luMine \in Source /\ luPosted \subseteq Defs
  /\ luChunks \in [Defs -> [src : (Hooks \X Source) \cup {LuNone}, chunk : Versions]]
  /\ luBreakers \in [Scripts -> Nat] /\ luMob \in Versions \cup {LuBare, LuDead}
  /\ luStack \in Seq(Frames) /\ Len(luStack) <= LuDepth /\ luInv \in Actors /\ luLogged \in 0..LuLogs
  /\ luInstr \in 0..LuBudget /\ luWork \in Nat
  /\ luWheel \in Seq([old : BOOLEAN, durable : BOOLEAN, pending : BOOLEAN])
  /\ luLive \in 0..LuTimerCap /\ luCensus \in 0..LuSpawns /\ luHere \in 0..LuSpawns /\ luFaults \in 0..LuFaults /\ luCalls \in 0..LuCalls

Edits == LET made == {luSrc[h].v : h \in LuHooks} IN CHOOSE n \in made : \A m \in made : m <= n

LuInit ==
  /\ luSrc = [h \in LuHooks |-> [v |-> 0, q |-> "good"]] /\ luMine = [v |-> 0, q |-> "good"] /\ luPosted = {}
  /\ luChunks = [d \in Defs |-> Unset] /\ luBreakers = [s \in Scripts |-> 0] /\ luMob = LuNone
  /\ luStack = <<>> /\ luInv = LuNone /\ luLogged = 0 /\ luInstr = 0 /\ luWork = 0
  /\ luWheel = <<>> /\ luLive = 0 /\ luCensus = 0 /\ luHere = 0 /\ luFaults = 0 /\ luCalls = 0

breakerDisabled(s) == luBreakers[s] >= LuTrip
breakerReset(b, s) == [b EXCEPT ![s] = 0]
weight(k) == CASE k = "logic" -> 10 [] k = "budget" -> 5 [] k = "deadline" -> 1
breakerRecord(s, k) ==
  IF breakerDisabled(s) THEN luBreakers
  ELSE [luBreakers EXCEPT ![s] = IF k = "ok" THEN IF @ > 10 THEN @ - 10 ELSE 0 ELSE @ + weight(k)]

-----------------------------------------------------------------------------
(* Compiling.                                                                     *)
\* The same source answers from the cache; a new one is compiled. A failed recompile keeps the chunk it had.
compiled(d, h, s) ==
  LET e == luChunks[d] IN
  IF e.src = <<h, s>> THEN e
  ELSE IF s.q = "broken" /\ e.chunk # LuNone THEN [e EXCEPT !.src = <<h, s>>]
  ELSE [src |-> <<h, s>>, chunk |-> IF s.q = "good" THEN s.v ELSE LuNone]
recompiled(d, h, s) ==
  LET e == luChunks[d] IN e # Unset /\ e.src # <<h, s>> /\ ~(s.q = "broken" /\ e.chunk # LuNone)
nextGen == [i \in DOMAIN luWheel |-> [luWheel[i] EXCEPT !.old = TRUE]]
chunkFor(d, h, s) ==
  /\ luChunks' = [luChunks EXCEPT ![d] = compiled(d, h, s)]
  /\ luWheel' = IF recompiled(d, h, s) THEN nextGen ELSE luWheel
  /\ UNCHANGED luLive
  /\ luBreakers' = IF recompiled(d, h, s) THEN breakerReset(luBreakers, d) ELSE luBreakers
runs(d, h, s) ==
  /\ compiled(d, h, s).chunk # LuNone
  /\ ~breakerDisabled(d) \/ recompiled(d, h, s)

-----------------------------------------------------------------------------
(* Calling.                                                                       *)
LuTop == luStack[Len(luStack)]
Below == SubSeq(luStack, 1, Len(luStack) - 1)
LuIdle == luStack = <<>>
Deeper ==
  /\ Len(luStack) < LuDepth
  /\ luCalls < LuCalls /\ luCalls' = luCalls + 1
  /\ UNCHANGED luFaults

\* Mutant: every call arms a fresh instruction budget.
nestedNever == FALSE
nested == ~LuIdle
freshBudget == ~nested
frame(kind, s, actor, ver, then) ==
  [kind |-> kind, script |-> s, actor |-> actor, then |-> then, ver |-> ver, own |-> 0,
   logs |-> luLogged, inv |-> luInv]
pcallGuarded(f) ==
  /\ luStack' = Append(luStack, f)
  /\ luLogged' = 0
  /\ luInstr' = IF freshBudget THEN 0 ELSE luInstr
  /\ luWork' = IF LuIdle THEN 0 ELSE luWork
invoke(s, actor, ver, then) == pcallGuarded(frame("chunk", s, actor, ver, then)) /\ luInv' = actor

\* A hook with a shared body, called by the engine from the top or by what a script does.
Reactions == {"toHit", "onDamageTaken"}
actorOf(h) == IF h = "onResolve" THEN "caster" ELSE "subject"
invokeHook(h) ==
  /\ Deeper /\ chunkFor(key(h), h, luSrc[h])
  /\ IF runs(key(h), h, luSrc[h]) THEN invoke(key(h), actorOf(h), compiled(key(h), h, luSrc[h]).chunk, FALSE) ELSE UNCHANGED call
  /\ UNCHANGED <<content, luMob, spawns>>

runHookLua == LuIdle /\ \E h \in LuHooks \ {"register"} : invokeHook(h)
fireReaction(h) == h \in Reactions /\ invokeHook(h)
\* A harm op acts for the current invocation's actor, and for nobody does nothing; what it hurts may react.
harmCtx == luInv
hDamage == ~LuIdle /\ harmCtx # LuNone /\ \E h \in LuHooks : fireReaction(h)

\* A mob registers its handlers the first time it is asked; what was asked follows when registering returns.
registerFrom(s, then) ==
  /\ chunkFor("trigger", "register", s)
  /\ luMob' = LuBare
  /\ IF runs("trigger", "register", s)
     THEN invoke("trigger", "mob", compiled("trigger", "register", s).chunk, then) ELSE UNCHANGED call
fireHandler == pcallGuarded(frame("handler", "instance", "mob", luMob, FALSE)) /\ luInv' = "mob"
Handles == luMob \in 0..LuEdits /\ ~breakerDisabled("instance")
fireTrigger ==
  /\ Deeper /\ luMob # LuDead
  /\ \/ /\ luMob = LuNone /\ luMine.q # "empty" /\ registerFrom(luMine, TRUE)
        /\ UNCHANGED <<content, spawns>>
     \/ /\ Handles /\ fireHandler
        /\ UNCHANGED <<content, code, luBreakers, wheel, spawns>>

fireRoomEntry == LuIdle /\ fireTrigger
mudFire == ~LuIdle /\ fireTrigger

\* The script calls on(event, fn) while its registering chunk runs.
RegisterHandler ==
  /\ ~LuIdle /\ LuTop.kind = "chunk" /\ LuTop.script = "trigger" /\ luMob = LuBare
  /\ luMob' = LuTop.ver
  /\ UNCHANGED <<content, luChunks, luBreakers, call, wheel, spawns, bounds>>

\* The call ends: the breaker hears how, and what the call had saved comes back.
returned(f) ==
  /\ luInv' = f.inv /\ luLogged' = f.logs
  /\ luStack' = Below
Leave(k) ==
  /\ ~LuIdle
  /\ luBreakers' = breakerRecord(LuTop.script, k)
  /\ k # "ok" => luFaults < LuFaults
  /\ luFaults' = IF k = "ok" THEN luFaults ELSE luFaults + 1
  /\ IF LuTop.then /\ luMob \in 0..LuEdits /\ luBreakers["instance"] < LuTrip
     THEN /\ luStack' = Append(Below, [frame("handler", "instance", "mob", luMob, FALSE) EXCEPT !.logs = LuTop.logs, !.inv = LuTop.inv])
          /\ luInv' = "mob" /\ luLogged' = 0
          /\ luInstr' = IF Below = <<>> THEN 0 ELSE luInstr
          /\ luWork' = IF Below = <<>> THEN 0 ELSE luWork
     ELSE returned(LuTop) /\ UNCHANGED <<luInstr, luWork>>
  /\ UNCHANGED <<content, code, wheel, spawns, luCalls>>
Finish == Leave("ok")
Fail == \E k \in {"logic", "deadline"} : Leave(k)

\* Instructions run until the cascade's budget is gone; then the innermost call is aborted.
Step ==
  /\ ~LuIdle
  /\ \/ /\ luInstr < LuBudget /\ luInstr' = luInstr + 1 /\ luWork' = luWork + 1
        /\ UNCHANGED <<content, code, luBreakers, luStack, luInv, luLogged, wheel, spawns, bounds>>
     \/ luInstr = LuBudget /\ Leave("budget")
noteLuaLog ==
  /\ ~LuIdle
  /\ \/ /\ luLogged < LuLogs /\ luLogged' = luLogged + 1
        /\ luStack' = [luStack EXCEPT ![Len(luStack)].own = @ + 1]
        /\ UNCHANGED <<content, code, luBreakers, luInv, luInstr, luWork, wheel, spawns, bounds>>
     \/ luLogged = LuLogs /\ Leave("logic")

-----------------------------------------------------------------------------
(* The mud table.                                                                 *)
mudSpawn ==
  /\ ~LuIdle
  /\ \/ /\ luCensus < LuSpawns /\ luCensus' = luCensus + 1 /\ luHere' = luHere + 1
        /\ UNCHANGED <<content, code, luBreakers, call, wheel, bounds>>
     \/ luCensus = LuSpawns /\ Leave("logic")
dropLuaSpawn ==                                        \* it dies or its room is removed
  /\ luHere > 0 /\ luHere' = luHere - 1 /\ luCensus' = luCensus - 1
  /\ UNCHANGED <<content, code, luBreakers, call, wheel, bounds>>
carriedOff ==                                          \* a player leaves the zone with it
  /\ LuIdle /\ luHere > 0 /\ luHere' = luHere - 1
  /\ UNCHANGED <<content, code, luBreakers, call, wheel, luCensus, bounds>>

mudAfter ==
  /\ ~LuIdle
  /\ \/ /\ luLive < LuTimerCap /\ Len(luWheel) < LuTimers /\ luLive' = luLive + 1
        /\ \E d \in BOOLEAN :
             luWheel' = Append(luWheel, [old |-> FALSE, durable |-> d, pending |-> TRUE])
        /\ UNCHANGED <<content, code, luBreakers, call, spawns, bounds>>
     \/ luLive = LuTimerCap /\ Leave("logic")
cancelled(t) == t.pending
mudCancel ==
  /\ ~LuIdle
  /\ \E i \in DOMAIN luWheel :
       /\ luWheel' = [luWheel EXCEPT ![i].pending = FALSE]
       /\ luLive' = IF cancelled(luWheel[i]) THEN luLive - 1 ELSE luLive
  /\ UNCHANGED <<content, code, luBreakers, call, spawns, bounds>>
\* The wheel fires a timer: dropped when its generation has passed, else called on nobody's behalf.
FireTimer(i) ==
  /\ LuIdle /\ luWheel[i].pending
  /\ luWheel' = [luWheel EXCEPT ![i].pending = FALSE] /\ luLive' = luLive - 1
  /\ IF luWheel[i].old => luWheel[i].durable
     THEN pcallGuarded(frame("timer", "after", LuNone, 0, FALSE)) /\ UNCHANGED luInv
     ELSE UNCHANGED call
  /\ UNCHANGED <<content, code, luBreakers, spawns, bounds>>

-----------------------------------------------------------------------------
(* The mob, and content.                                                          *)
dropEntityScript ==
  /\ luMob # LuDead /\ luMob' = LuDead
  /\ ~\E i \in DOMAIN luStack : luStack[i].script \in {"trigger", "instance"}
  /\ UNCHANGED <<content, luChunks, luBreakers, call, wheel, spawns, bounds>>

\* An edit reaches the registries; the zone is told, unless its inbox is full.
publishEdit ==
  /\ Edits < LuEdits
  /\ \E h \in LuHooks, q \in Quality, dropped \in BOOLEAN :
       /\ luSrc' = [luSrc EXCEPT ![h] = [v |-> Edits + 1, q |-> q]]
       /\ luPosted' = IF dropped THEN luPosted ELSE luPosted \cup {key(h)}
  /\ UNCHANGED <<luMine, code, luBreakers, call, wheel, spawns, bounds>>

\* The zone drops the def's chunk and registers its live instances again from the new source.
reloadEntityScriptsForProto ==
  LET s == luSrc["register"]
      ch == IF s.q = "good" THEN s.v ELSE LuNone
  IN /\ luBreakers' = breakerReset(breakerReset(luBreakers, "trigger"), "instance")
     /\ IF s.q = "empty"
        THEN /\ luMob' = LuNone /\ luChunks' = [luChunks EXCEPT !["trigger"] = Unset] /\ UNCHANGED call
        ELSE /\ luMob' = LuBare
             /\ luChunks' = [luChunks EXCEPT !["trigger"] = [src |-> <<"register", s>>, chunk |-> ch]]
             /\ IF ch = LuNone THEN UNCHANGED call ELSE invoke("trigger", "mob", ch, FALSE)
reloadLua(d) ==
  /\ LuIdle /\ d \in luPosted /\ luPosted' = luPosted \ {d}
  /\ IF d = "trigger" /\ luMob \notin {LuNone, LuDead} THEN reloadEntityScriptsForProto
     ELSE /\ luChunks' = [luChunks EXCEPT ![d] = Unset]
          /\ luBreakers' = breakerReset(luBreakers, d) /\ UNCHANGED <<luMob, call>>
  /\ luWheel' = nextGen
  /\ UNCHANGED <<luSrc, luMine, luLive, spawns, bounds>>

LuNext ==
  \/ runHookLua \/ hDamage \/ fireRoomEntry \/ mudFire \/ RegisterHandler \/ Finish \/ Fail \/ Step \/ noteLuaLog
  \/ mudSpawn \/ dropLuaSpawn \/ carriedOff \/ mudAfter \/ mudCancel \/ \E i \in DOMAIN luWheel : FireTimer(i)
  \/ dropEntityScript \/ publishEdit \/ \E d \in Defs : reloadLua(d)

LuSpec == LuInit /\ [][LuNext]_luVars

-----------------------------------------------------------------------------
(* Properties.                                                                    *)
Pending == {i \in DOMAIN luWheel : luWheel[i].pending}

\* However calls nest and however they end, the count the abort compares is all the work of the cascade
\* (pcallGuarded), the running call acts for its own actor and is charged for its own log lines, and the timer
\* census is the timers that can still fire.
CascadeAccounts ==
  /\ luWork <= LuBudget
  /\ IF LuIdle THEN harmCtx = LuNone ELSE harmCtx = LuTop.actor /\ luLogged = LuTop.own
  /\ luLive = Cardinality(Pending)

\* luaentry.go on chunkFor: "A recompile that FAILS keeps the LAST-GOOD chunk".
LastGoodKept ==
  [][\A h \in LuHooks :
       luSrc[h].q = "broken" /\ luChunks[key(h)].chunk # LuNone => luChunks'[key(h)].chunk # LuNone]_luVars
\* luamud.go on mudAfter: "on a content reload (chunkFor bumps chunkGen) a pending old-gen timer is a clean NO-OP
\* at fire". While content stands as it was loaded, every timer still has its generation.
TimersOutliveOnlyEdits == Edits = 0 => \A i \in Pending : ~luWheel[i].old
\* luamud.go on luaSpawnPerZoneCap: the census "bounds the live population, not the lifetime count".
CensusIsLive == luCensus = luHere

\* The safety invariant: the types, and the properties above that hold of every state.
\* A cascade of scripts is accounted as a whole, however its calls nest and end (luart.go).
LuaSafe == LuTypeOK /\ CascadeAccounts
=============================================================================
