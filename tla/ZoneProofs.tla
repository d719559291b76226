------------------------------ MODULE ZoneProofs ------------------------------
(* Machine-checked proofs about what the zones of one shard run, for any zones, *)
(* players and bounds: the callback a player's affects wait for is one its zone *)
(* calls (AffectTicks); a mob dies once, whatever the handlers of its death do  *)
(* to it (Combat).                                                              *)
EXTENDS AffectTicks, Combat, FiniteSetTheorems, TLAPS

-----------------------------------------------------------------------------
(* AffectTicks: a present player's handle is live in its zone, frozen or not.   *)

AtHandled == atAt \in AtZones /\ atHandle # 0 => atHandle \in atTicks[atAt]
AtInv == AtTypeOK /\ AtHandled

LEMMA AtNats ==
  /\ AtDur \in Nat /\ AtSteps \in Nat /\ 2 \in 0..AtDur /\ AtDur \in 0..AtDur /\ 0 \in 0..AtDur
  /\ AtField \in Affects /\ AtTimed \subseteq Affects /\ AtBound \subseteq Affects /\ AtNone \notin Affects
  /\ AtGone \notin AtZones /\ 0 \in 0..AtSteps
  BY AtAssumption DEF Affects

\* Registering a callback keeps the types, and what it registers is live.
LEMMA EnsureTickFacts ==
  ASSUME NEW z \in AtZones, NEW handle \in 0..AtSteps, NEW left, NEW hurt,
         atTicks \in [AtZones -> SUBSET (1..AtSteps)], atSerial \in 0..AtSteps,
         handle = 0 \/ handle \in atTicks[z], ensureTick(z, handle, left, hurt)
  PROVE  /\ atHandle' \in 0..AtSteps /\ atSerial' \in 0..AtSteps
         /\ atTicks' \in [AtZones -> SUBSET (1..AtSteps)]
         /\ atHandle' = 0 \/ atHandle' \in atTicks'[z]
  <1>1. CASE armed(handle, left, hurt)
    BY <1>1 DEF ensureTick
  <1>2. CASE ~armed(handle, left, hurt)
    <2>1. /\ atSerial < AtSteps /\ atSerial' = atSerial + 1 /\ atHandle' = atSerial'
          /\ atTicks' = [atTicks EXCEPT ![z] = @ \cup {atSerial'}]
      BY <1>2 DEF ensureTick
    <2>2. atSerial' \in 1..AtSteps
      BY <2>1, AtNats
    <2>. QED
      BY <2>1, <2>2
  <1>. QED
    BY <1>1, <1>2

\* What is left of each affect stays in range under every write of it.
LEMMA LeftFacts ==
  ASSUME atLeft \in [Affects -> 0..AtDur], atSlot \in AtBound \cup {AtNone}
  PROVE  /\ Bare \in [Affects -> 0..AtDur] /\ aged \in [Affects -> 0..AtDur]
         /\ \A f \in AtTimed, n \in {0, AtDur} :
              /\ [Bare EXCEPT ![f] = n] \in [Affects -> 0..AtDur]
              /\ [atLeft EXCEPT ![f] = n] \in [Affects -> 0..AtDur]
              /\ [concentrationApply(atLeft, f) EXCEPT ![f] = n] \in [Affects -> 0..AtDur]
         /\ \A left \in [Affects -> 0..AtDur] : \A n \in {0, 2} :
              [left EXCEPT ![AtField] = n] \in [Affects -> 0..AtDur]
         /\ [f \in Affects |-> IF f = atSlot THEN 0 ELSE atLeft[f]] \in [Affects -> 0..AtDur]
  <1>1. Bare \in [Affects -> 0..AtDur]
    BY AtNats DEF Bare
  <1>2. aged \in [Affects -> 0..AtDur]
    <2>1. \A f \in Affects : (IF atLeft[f] > 0 THEN atLeft[f] - 1 ELSE 0) \in 0..AtDur
      BY AtNats
    <2>. QED
      BY <2>1 DEF aged
  <1>3. ASSUME NEW f \in AtTimed
        PROVE  concentrationApply(atLeft, f) \in [Affects -> 0..AtDur]
    <2>1. atSlot # AtNone => atSlot \in Affects
      BY AtNats
    <2>. QED
      BY <2>1, AtNats DEF concentrationApply
  <1>4. \A left \in [Affects -> 0..AtDur] : \A f \in Affects : \A n \in 0..AtDur :
          [left EXCEPT ![f] = n] \in [Affects -> 0..AtDur]
    OBVIOUS
  <1>5. [f \in Affects |-> IF f = atSlot THEN 0 ELSE atLeft[f]] \in [Affects -> 0..AtDur]
    BY AtNats
  <1>. QED
    BY <1>1, <1>2, <1>3, <1>4, <1>5, AtNats

LEMMA AtStepInv ==
  AtInv /\ [AtNext]_atVars => AtInv'
  <1>. SUFFICES ASSUME AtInv, [AtNext]_atVars PROVE AtInv'
    OBVIOUS
  <1>0. /\ atAt \in AtZones \cup {AtGone} /\ atTo \in AtZones \cup {AtGone} /\ atFrozen \in BOOLEAN
        /\ atLeft \in [Affects -> 0..AtDur] /\ atSlot \in AtBound \cup {AtNone} /\ atHurt \in BOOLEAN
        /\ atHandle \in 0..AtSteps /\ atTicks \in [AtZones -> SUBSET (1..AtSteps)]
        /\ atTodo \in [AtZones -> SUBSET (1..AtSteps)] /\ atField \in [AtZones -> 0..AtDur]
        /\ atAged \in Nat /\ atSerial \in 0..AtSteps
        /\ \A z \in AtZones : atAt = z => atHandle = 0 \/ atHandle \in atTicks[z]
    BY DEF AtInv, AtTypeOK, AtHandled
  <1>1. ASSUME NEW z \in AtZones, NEW f \in AtTimed, applyAffect(z, f) PROVE AtInv'
    <2>1. /\ atAt = z /\ ensureTick(z, atHandle, atLeft', atHurt)
          /\ atSlot' \in AtBound \cup {AtNone} /\ atLeft' \in [Affects -> 0..AtDur]
          /\ UNCHANGED <<atAt, atTo, atFrozen, atHurt, atField, atTodo, atAged>>
      BY <1>0, <1>1, LeftFacts DEF applyAffect, Here, Sched
    <2>2. /\ atHandle' \in 0..AtSteps /\ atSerial' \in 0..AtSteps
          /\ atTicks' \in [AtZones -> SUBSET (1..AtSteps)] /\ (atHandle' = 0 \/ atHandle' \in atTicks'[z])
      BY <1>0, <2>1, EnsureTickFacts
    <2>. QED
      BY <1>0, <2>1, <2>2 DEF AtInv, AtTypeOK, AtHandled
  <1>2. ASSUME NEW z \in AtZones, NEW f \in AtTimed, expire(z, f) PROVE AtInv'
    BY <1>0, <1>2, LeftFacts DEF expire, clearConcentrationSlot, Ticks, Sched, AtInv, AtTypeOK, AtHandled
  <1>3. ASSUME NEW z \in AtZones, setResourceCurrent(z) PROVE AtInv'
    <2>1. /\ atAt = z /\ ensureTick(z, atHandle, atLeft, TRUE) /\ atHurt' = TRUE
          /\ UNCHANGED <<atAt, atTo, atFrozen, atLeft, atSlot, atField, atTodo, atAged>>
      BY <1>3 DEF setResourceCurrent, Here, Sched
    <2>2. /\ atHandle' \in 0..AtSteps /\ atSerial' \in 0..AtSteps
          /\ atTicks' \in [AtZones -> SUBSET (1..AtSteps)] /\ (atHandle' = 0 \/ atHandle' \in atTicks'[z])
      BY <1>0, <2>1, EnsureTickFacts
    <2>. QED
      BY <1>0, <2>1, <2>2 DEF AtInv, AtTypeOK, AtHandled
  <1>4. ASSUME NEW z \in AtZones, stripHostileAffects(z) PROVE AtInv'
    BY <1>0, <1>4, LeftFacts DEF stripHostileAffects, Ticks, Sched, AtInv, AtTypeOK, AtHandled
  <1>5. ASSUME NEW z \in AtZones, landRoomAffectOn(z), atAt = z
        PROVE  /\ atLeft' \in [Affects -> 0..AtDur] /\ atHandle' \in 0..AtSteps /\ atSerial' \in 0..AtSteps
               /\ atTicks' \in [AtZones -> SUBSET (1..AtSteps)] /\ (atHandle' = 0 \/ atHandle' \in atTicks'[z])
    <2>1. atLeft' \in [Affects -> 0..AtDur]
      BY <1>0, <1>5, LeftFacts DEF landRoomAffectOn, lease
    <2>2. ensureTick(z, atHandle, atLeft', atHurt)
      BY <1>5 DEF landRoomAffectOn
    <2>. QED
      BY <1>0, <1>5, <2>1, <2>2, EnsureTickFacts
  <1>6. ASSUME NEW z \in AtZones, applyRoomAffect(z) PROVE AtInv'
    <2>1. /\ atField' = [atField EXCEPT ![z] = AtDur]
          /\ UNCHANGED <<atAt, atTo, atFrozen, atSlot, atHurt, atTodo, atAged>>
          /\ \/ atAt = z /\ landRoomAffectOn(z)
             \/ UNCHANGED <<atLeft, atHandle, atTicks, atSerial>>
      BY <1>6 DEF applyRoomAffect, Ticks, Sched
    <2>2. atField' \in [AtZones -> 0..AtDur]
      BY <1>0, <2>1, AtNats
    <2>. QED
      BY <1>0, <1>5, <2>1, <2>2 DEF AtInv, AtTypeOK, AtHandled
  <1>7. ASSUME NEW z \in AtZones, roomTickOnce(z) PROVE AtInv'
    <2>1. /\ atField[z] > 0 /\ atField' = [atField EXCEPT ![z] = @ - 1]
          /\ UNCHANGED <<atAt, atTo, atFrozen, atSlot, atHurt, atTodo, atAged>>
          /\ \/ atAt = z /\ landRoomAffectOn(z)
             \/ /\ UNCHANGED <<atHandle, atTicks, atSerial>>
                /\ atLeft' = atLeft \/ atLeft' = [atLeft EXCEPT ![AtField] = 0]
      BY <1>7 DEF roomTickOnce, Ticks, Sched
    <2>2. atField' \in [AtZones -> 0..AtDur]
      <3>1. atField[z] - 1 \in 0..AtDur
        BY <1>0, <2>1, AtNats
      <3>. QED
        BY <1>0, <2>1, <3>1
    <2>3. [atLeft EXCEPT ![AtField] = 0] \in [Affects -> 0..AtDur]
      BY <1>0, LeftFacts
    <2>. QED
      BY <1>0, <1>5, <2>1, <2>2, <2>3 DEF AtInv, AtTypeOK, AtHandled
  <1>8. ASSUME NEW z \in AtZones, Pulse(z) PROVE AtInv'
    BY <1>0, <1>8 DEF Pulse, Body, Ticks, AtInv, AtTypeOK, AtHandled
  <1>9. ASSUME NEW z \in AtZones, NEW t \in atTodo[z], affectTickFor(z, t) PROVE AtInv'
    <2>1. /\ atTodo' \in [AtZones -> SUBSET (1..AtSteps)]
          /\ UNCHANGED <<atAt, atTo, atFrozen, atField, atSerial>>
      BY <1>0, <1>9 DEF affectTickFor
    <2>2. Stops(z, t) => /\ atTicks' \in [AtZones -> SUBSET (1..AtSteps)]
                         /\ \A y \in AtZones \ {z} : atTicks'[y] = atTicks[y]
      BY <1>0 DEF Stops
    <2>3. /\ atLeft' \in [Affects -> 0..AtDur] /\ atAged' \in Nat /\ atHurt' \in BOOLEAN
          /\ atSlot' \in AtBound \cup {AtNone}
          /\ \/ atAt # z /\ Stops(z, t) /\ atHandle' = atHandle
             \/ atHandle' = 0 /\ Stops(z, t)
             \/ UNCHANGED <<atHandle, atTicks>>
      BY <1>0, <1>9, LeftFacts DEF affectTickFor, Body
    <2>4. atTicks' \in [AtZones -> SUBSET (1..AtSteps)] /\ atHandle' \in 0..AtSteps
      BY <1>0, <2>2, <2>3, AtNats
    <2>5. AtHandled'
      BY <1>0, <2>1, <2>2, <2>3 DEF AtHandled
    <2>. QED
      BY <1>0, <2>1, <2>3, <2>4, <2>5 DEF AtInv, AtTypeOK
  <1>10. ASSUME NEW z \in AtZones, AtLogin(z) PROVE AtInv'
    <2>1. /\ atAt' = z /\ atSlot' = AtNone /\ atHurt' = FALSE /\ ensureTick(z, 0, atLeft', FALSE)
          /\ UNCHANGED <<atTo, atFrozen, atField, atTodo, atAged>>
      BY <1>10 DEF AtLogin, Sched
    <2>2. atLeft' \in [Affects -> 0..AtDur]
      <3>1. PICK saved \in {Bare} \cup {[Bare EXCEPT ![f] = AtDur] : f \in AtTimed} : atLeft' = landed(z, saved)
        BY <1>10 DEF AtLogin
      <3>2. saved \in [Affects -> 0..AtDur]
        BY <1>0, LeftFacts
      <3>. QED
        BY <1>0, <3>1, <3>2, LeftFacts DEF landed
    <2>3. /\ atHandle' \in 0..AtSteps /\ atSerial' \in 0..AtSteps
          /\ atTicks' \in [AtZones -> SUBSET (1..AtSteps)] /\ (atHandle' = 0 \/ atHandle' \in atTicks'[z])
      BY <1>0, <2>1, EnsureTickFacts, AtNats
    <2>. QED
      BY <1>0, <2>1, <2>2, <2>3 DEF AtInv, AtTypeOK, AtHandled
  <1>11. ASSUME NEW z \in AtZones, AtLogout(z) PROVE AtInv'
    BY <1>0, <1>11, LeftFacts, AtNats DEF AtLogout, Sched, AtInv, AtTypeOK, AtHandled
  <1>12. ASSUME NEW z \in AtZones, Freeze(z) \/ Thaw(z) PROVE AtInv'
    BY <1>0, <1>12 DEF Freeze, Thaw, Body, Ticks, Sched, AtInv, AtTypeOK, AtHandled
  <1>13. ASSUME NEW z \in AtZones, NEW to \in AtZones, AtTransferOut(z, to) PROVE AtInv'
    BY <1>0, <1>13, LeftFacts, AtNats DEF AtTransferOut, Ticks, Sched, AtInv, AtTypeOK, AtHandled
  <1>14. ASSUME NEW z \in AtZones, AtTransferIn(z) PROVE AtInv'
    <2>1. /\ atAt' = z /\ atTo' = AtGone /\ ensureTick(z, 0, atLeft', atHurt) /\ atLeft' = landed(z, atLeft)
          /\ UNCHANGED <<atFrozen, atSlot, atHurt, atField, atTodo, atAged>>
      BY <1>14 DEF AtTransferIn, handleOnArrival, Sched
    <2>2. atLeft' \in [Affects -> 0..AtDur]
      BY <1>0, <2>1, LeftFacts DEF landed
    <2>3. /\ atHandle' \in 0..AtSteps /\ atSerial' \in 0..AtSteps
          /\ atTicks' \in [AtZones -> SUBSET (1..AtSteps)] /\ (atHandle' = 0 \/ atHandle' \in atTicks'[z])
      BY <1>0, <2>1, EnsureTickFacts, AtNats
    <2>. QED
      BY <1>0, <2>1, <2>2, <2>3 DEF AtInv, AtTypeOK, AtHandled
  <1>15. CASE UNCHANGED atVars
    BY <1>15 DEF atVars, AtInv, AtTypeOK, AtHandled
  <1>. QED
    BY <1>1, <1>2, <1>3, <1>4, <1>6, <1>7, <1>8, <1>9, <1>10, <1>11, <1>12, <1>13, <1>14, <1>15 DEF AtNext

\* No transfer, freeze, purge or expiry leaves a present player holding the handle of a callback its
\* zone no longer calls, for any zones and affects (affect_runtime.go, affected.go).
THEOREM AffectsAreSafe == AtSpec => []AffectsSafe
  <1>1. AtInit => AtInv
    <2>. SUFFICES ASSUME AtInit PROVE AtInv
      OBVIOUS
    <2>1. Bare \in [Affects -> 0..AtDur]
      BY AtNats DEF Bare
    <2>2. AtTypeOK
      BY <2>1, AtNats DEF AtInit, AtTypeOK
    <2>. QED
      BY <2>2 DEF AtInit, AtInv, AtHandled
  <1>2. AtInv => AffectsSafe
    BY DEF AtInv, AtHandled, AffectsSafe, HandleIsLive, Here
  <1>. QED
    BY <1>1, <1>2, AtStepInv, PTL DEF AtSpec

-----------------------------------------------------------------------------
(* Combat: a mob that has died once stays latched, and every frame on the stack *)
(* is about livings.                                                            *)

Life == [room : CmRooms \cup {CmNone}, pool : 0..CmPool, pos : {"standing", "fighting", "dead"},
         fights : Livings \cup {CmNone}, threat : SUBSET Livings, dying : BOOLEAN, deaths : Nat,
         held : BOOLEAN, safe : BOOLEAN]
Lives == [Livings -> Life]
\* The calls of a fight have both sides; a handler may have no second one.
CmFrame == [kind : FrameKinds, a : Livings \cup {CmNone}, t : Livings \cup {CmNone}, gen : Nat, n : Nat,
            set : SUBSET Livings, on : Livings \cup {CmNone}, onGen : Nat, room : CmRooms \cup {CmNone}, flag : BOOLEAN]
Sided(f) ==
  /\ f \in CmFrame
  /\ f.kind # "round" => f.a \in Livings
  /\ f.kind \in {"blow", "fall", "die"} => f.t \in Livings
Frames == {f \in CmFrame : Sided(f)}

CmInv ==
  /\ cmLive \in Lives /\ cmArmed \in BOOLEAN /\ cmBudget \in 0..CmHandlers /\ cmStack \in Seq(Frames)
  /\ \A m \in CmMobs : cmLive[m].deaths = 0 \/ (cmLive[m].deaths = 1 /\ cmLive[m].dying)

\* Nobody's deaths and latch differ.
Unslain(v, w) == \A e \in Livings : w[e].deaths = v[e].deaths /\ (w[e].dying <=> v[e].dying)

LEMMA CmNames ==
  /\ CmNone \notin Livings /\ CmNone \notin CmRooms /\ CmPool \in Nat /\ CmHandlers \in Nat /\ CmOps \in Nat
  /\ CmStart \in CmRooms /\ CmPlayers \subseteq Livings /\ CmMobs \subseteq Livings /\ CmPlayers \cap CmMobs = {}
  BY CmAssumption DEF Livings

LEMMA LifeFacts ==
  ASSUME NEW w \in Lives, NEW e \in Livings
  PROVE  /\ w[e] \in Life /\ w[e].room \in CmRooms \cup {CmNone} /\ w[e].pool \in 0..CmPool
         /\ w[e].pos \in {"standing", "fighting", "dead"} /\ w[e].fights \in Livings \cup {CmNone}
         /\ w[e].threat \in SUBSET Livings /\ w[e].dying \in BOOLEAN /\ w[e].deaths \in Nat
         /\ w[e].held \in BOOLEAN /\ w[e].safe \in BOOLEAN
  <1>1. w[e] \in Life
    BY DEF Lives
  <1>. QED
    BY <1>1 DEF Life

\* One living's life is replaced by one with the same deaths and latch.
LEMMA OneLife ==
  ASSUME NEW w \in Lives, NEW e \in Livings, NEW r \in Life, r.deaths = w[e].deaths, r.dying <=> w[e].dying
  PROVE  [w EXCEPT ![e] = r] \in Lives /\ Unslain(w, [w EXCEPT ![e] = r])
  BY DEF Lives, Unslain

LEMMA Edits ==
  ASSUME NEW r \in Life
  PROVE  /\ \A f \in Livings \cup {CmNone} : \A p \in {"standing", "fighting", "dead"} :
              LET x == [r EXCEPT !.fights = f, !.pos = p] IN x \in Life /\ x.deaths = r.deaths /\ x.dying = r.dying
         /\ \A s \in SUBSET Livings :
              LET x == [r EXCEPT !.threat = s] IN x \in Life /\ x.deaths = r.deaths /\ x.dying = r.dying
         /\ \A k \in CmRooms \cup {CmNone} :
              LET x == [r EXCEPT !.room = k] IN x \in Life /\ x.deaths = r.deaths /\ x.dying = r.dying
         /\ \A n \in 0..CmPool :
              LET x == [r EXCEPT !.pool = n] IN x \in Life /\ x.deaths = r.deaths /\ x.dying = r.dying
         /\ \A b \in BOOLEAN :
              /\ LET x == [r EXCEPT !.safe = b] IN x \in Life /\ x.deaths = r.deaths /\ x.dying = r.dying
              /\ LET x == [r EXCEPT !.held = b] IN x \in Life /\ x.deaths = r.deaths /\ x.dying = r.dying
         /\ LET x == [r EXCEPT !.pos = "dead"] IN x \in Life /\ x.deaths = r.deaths /\ x.dying = r.dying
  BY DEF Life

LEMMA StopFightFacts ==
  ASSUME NEW w \in Lives, NEW e \in Livings
  PROVE  stopFight(w, e) \in Lives /\ Unslain(w, stopFight(w, e))
  <1>. DEFINE p == IF w[e].pos = "fighting" THEN "standing" ELSE w[e].pos
              r == [w[e] EXCEPT !.fights = CmNone, !.pos = p]
  <1>1. stopFight(w, e) = [w EXCEPT ![e] = r]
    BY DEF stopFight, Lives
  <1>2. w[e] \in Life /\ p \in {"standing", "fighting", "dead"} /\ CmNone \in Livings \cup {CmNone}
    BY LifeFacts
  <1>. HIDE DEF p
  <1>3. ASSUME NEW f \in Livings \cup {CmNone}, NEW q \in {"standing", "fighting", "dead"}
        PROVE  LET x == [w[e] EXCEPT !.fights = f, !.pos = q]
               IN x \in Life /\ x.deaths = w[e].deaths /\ x.dying = w[e].dying
    BY <1>2 DEF Life
  <1>4. r \in Life /\ r.deaths = w[e].deaths /\ r.dying = w[e].dying
    BY <1>2, <1>3
  <1>. HIDE DEF r
  <1>. QED
    BY <1>1, <1>4, OneLife

LEMMA DisengageFacts ==
  ASSUME NEW w \in Lives, NEW e \in Livings
  PROVE  disengage(w, e) \in Lives /\ Unslain(w, disengage(w, e))
  <1>1. \A f \in Livings : /\ stopFight(w, f)[f] \in Life /\ stopFight(w, f)[f].deaths = w[f].deaths
                           /\ (stopFight(w, f)[f].dying <=> w[f].dying) /\ w[f] \in Life
    BY StopFightFacts, LifeFacts DEF Lives, Unslain
  <1>. QED
    BY <1>1 DEF disengage, Lives, Unslain

LEMMA ScrubFacts ==
  ASSUME NEW w \in Lives, NEW e \in Livings
  PROVE  scrubThreat(w, e) \in Lives /\ Unslain(w, scrubThreat(w, e))
  <1>1. ASSUME NEW f \in Livings, NEW s \in SUBSET Livings
        PROVE  LET x == [w[f] EXCEPT !.threat = s] IN x \in Life /\ x.deaths = w[f].deaths /\ x.dying = w[f].dying
    BY Edits, LifeFacts
  <1>2. \A f \in Livings : w[f] \in Life /\ w[f].threat \ {e} \in SUBSET Livings /\ {} \in SUBSET Livings
    BY LifeFacts
  <1>3. ASSUME NEW f \in Livings
        PROVE  /\ scrubThreat(w, e)[f] \in Life /\ scrubThreat(w, e)[f].deaths = w[f].deaths
               /\ scrubThreat(w, e)[f].dying = w[f].dying
    BY <1>1, <1>2 DEF scrubThreat
  <1>. QED
    BY <1>3 DEF scrubThreat, Lives, Unslain

LEMMA StartFightFacts ==
  ASSUME NEW w \in Lives, NEW a \in Livings, NEW t \in Livings
  PROVE  startFight(w, a, t) \in Lives /\ Unslain(w, startFight(w, a, t))
  <1>. DEFINE on(v, e, f) == [v EXCEPT ![e].fights = f, ![e].pos = "fighting"]
  <1>1. ASSUME NEW v \in Lives, NEW e \in Livings, NEW f \in Livings
        PROVE  on(v, e, f) \in Lives /\ Unslain(v, on(v, e, f))
    <2>. DEFINE r == [v[e] EXCEPT !.fights = f, !.pos = "fighting"]
    <2>1. on(v, e, f) = [v EXCEPT ![e] = r]
      BY DEF Lives
    <2>2. v[e] \in Life /\ f \in Livings \cup {CmNone} /\ "fighting" \in {"standing", "fighting", "dead"}
      BY LifeFacts
    <2>3. r \in Life /\ r.deaths = v[e].deaths /\ r.dying = v[e].dying
      BY <2>2, Edits
    <2>. HIDE DEF r
    <2>. QED
      BY <2>1, <2>3, OneLife
  <1>2. startFight(w, a, t) \in {w, on(w, a, t), on(on(w, a, t), t, a)}
    BY DEF startFight
  <1>3. on(w, a, t) \in Lives /\ Unslain(w, on(w, a, t))
    BY <1>1
  <1>4. on(on(w, a, t), t, a) \in Lives /\ Unslain(on(w, a, t), on(on(w, a, t), t, a))
    BY <1>1, <1>3
  <1>. HIDE DEF on
  <1>. QED
    BY <1>2, <1>3, <1>4 DEF Unslain

LEMMA AggroFacts ==
  ASSUME NEW w \in Lives, NEW e \in Livings
  PROVE  aggroOnEntry(w, e) \in Lives /\ Unslain(w, aggroOnEntry(w, e))
  <1>1. aggressor(w, e) \in SUBSET Livings
    BY CmAssumption, CmNames DEF aggressor
  <1>2. CASE aggressor(w, e) = {}
    BY <1>2 DEF aggroOnEntry, Unslain
  <1>3. CASE aggressor(w, e) # {}
    <2>. DEFINE m == CHOOSE m \in aggressor(w, e) : TRUE
    <2>1. m \in Livings
      BY <1>1, <1>3
    <2>2. aggroOnEntry(w, e) = startFight(w, m, e)
      BY <1>3 DEF aggroOnEntry
    <2>. HIDE DEF m
    <2>. QED
      BY <2>1, <2>2, StartFightFacts
  <1>. QED
    BY <1>2, <1>3

\* The lists of frames that calls put on the stack.
LEMMA FrameFacts ==
  /\ \A a \in Livings, t \in Livings \cup {CmNone} : Event(a, t) \in Frames /\ WhileLive(a, t) \in Frames
  /\ \A w \in Lives, a, t \in Livings : startEvents(w, a, t) \in Seq(Frames)
  /\ \A w \in Lives, e \in Livings : aggroEvents(w, e) \in Seq(Frames)
  <1>1. ASSUME NEW a \in Livings, NEW t \in Livings \cup {CmNone}
        PROVE  Event(a, t) \in Frames /\ WhileLive(a, t) \in Frames
    <2>1. Event(a, t) \in CmFrame /\ Event(a, t).kind = "event" /\ Event(a, t).a = a
      BY CmNames DEF Event, Frame, CmFrame, FrameKinds
    <2>2. WhileLive(a, t) \in CmFrame /\ WhileLive(a, t).kind = "event" /\ WhileLive(a, t).a = a
      BY <2>1 DEF WhileLive, CmFrame
    <2>. QED
      BY <2>1, <2>2 DEF Frames, Sided
  <1>2. ASSUME NEW w \in Lives, NEW a \in Livings, NEW t \in Livings
        PROVE  startEvents(w, a, t) \in Seq(Frames)
    <2>1. WhileLive(a, t) \in Frames /\ WhileLive(t, a) \in Frames
      BY <1>1
    <2>. QED
      BY <2>1 DEF startEvents
  <1>3. ASSUME NEW w \in Lives, NEW e \in Livings
        PROVE  aggroEvents(w, e) \in Seq(Frames)
    <2>1. CASE aggressor(w, e) = {}
      BY <2>1 DEF aggroEvents
    <2>2. CASE aggressor(w, e) # {}
      <3>. DEFINE m == CHOOSE m \in aggressor(w, e) : TRUE
      <3>1. m \in Livings
        BY <2>2, CmAssumption, CmNames DEF aggressor
      <3>2. aggroEvents(w, e) = startEvents(w, m, e)
        BY <2>2 DEF aggroEvents
      <3>. HIDE DEF m
      <3>. QED
        BY <1>2, <3>1, <3>2
    <2>. QED
      BY <2>1, <2>2
  <1>. QED
    BY <1>1, <1>2, <1>3

LEMMA StackFacts ==
  ASSUME cmStack \in Seq(Frames), cmStack # <<>>
  PROVE  /\ Top \in Frames /\ Top \in CmFrame /\ Sided(Top)
         /\ \A fs \in Seq(Frames) : Calls(fs) => cmStack' \in Seq(Frames)
  <1>1. Top \in Frames /\ Tail(cmStack) \in Seq(Frames)
    BY DEF Top
  <1>. HIDE DEF Top, Frames
  <1>2. ASSUME NEW fs \in Seq(Frames), Calls(fs) PROVE cmStack' \in Seq(Frames)
    BY <1>1, <1>2 DEF Calls
  <1>3. Top \in CmFrame /\ Sided(Top)
    BY <1>1 DEF Frames
  <1>. QED
    BY <1>1, <1>2, <1>3

\* A step in which nobody dies.
LEMMA QuietStep ==
  ASSUME CmInv, cmLive' \in Lives, Unslain(cmLive, cmLive'), cmStack' \in Seq(Frames),
         cmArmed' \in BOOLEAN, cmBudget' \in 0..CmHandlers
  PROVE  CmInv'
  BY CmNames DEF CmInv, Unslain

LEMMA Gens == ASSUME CmInv PROVE \A e \in Livings \cup {CmNone} : deathGen(e) \in Nat
  BY LifeFacts DEF CmInv, deathGen

LEMMA FrameEdits ==
  ASSUME NEW f \in CmFrame
  PROVE  /\ \A s \in SUBSET Livings :
              LET g == [f EXCEPT !.set = s] IN g \in CmFrame /\ g.kind = f.kind /\ g.a = f.a /\ g.t = f.t
         /\ \A n \in Nat :
              /\ LET g == [f EXCEPT !.n = n] IN g \in CmFrame /\ g.kind = f.kind /\ g.a = f.a /\ g.t = f.t
              /\ LET g == [f EXCEPT !.gen = n] IN g \in CmFrame /\ g.kind = f.kind /\ g.a = f.a /\ g.t = f.t
         /\ \A s \in SUBSET Livings, a \in Livings \cup {CmNone}, b \in BOOLEAN :
              LET g == [f EXCEPT !.set = s, !.a = a, !.flag = b]
              IN g \in CmFrame /\ g.kind = f.kind /\ g.a = a /\ g.t = f.t
         /\ \A s \in SUBSET Livings, e \in Livings \cup {CmNone} :
              LET g == [f EXCEPT !.set = s, !.on = e] IN g \in CmFrame /\ g.kind = f.kind /\ g.a = f.a /\ g.t = f.t
         /\ \A e \in Livings \cup {CmNone} :
              LET g == [f EXCEPT !.on = e] IN g \in CmFrame /\ g.kind = f.kind /\ g.a = f.a /\ g.t = f.t
         /\ \A n, m \in Nat, e \in Livings \cup {CmNone} :
              LET g == [f EXCEPT !.n = n, !.on = e, !.onGen = m]
              IN g \in CmFrame /\ g.kind = f.kind /\ g.a = f.a /\ g.t = f.t
         /\ f.set \in SUBSET Livings /\ f.n \in Nat /\ f.gen \in Nat /\ f.on \in Livings \cup {CmNone}
         /\ f.a \in Livings \cup {CmNone} /\ f.t \in Livings \cup {CmNone} /\ f.flag \in BOOLEAN
         /\ f.room \in CmRooms \cup {CmNone}
  <1>1. /\ f.set \in SUBSET Livings /\ f.n \in Nat /\ f.gen \in Nat /\ f.on \in Livings \cup {CmNone}
        /\ f.a \in Livings \cup {CmNone} /\ f.t \in Livings \cup {CmNone} /\ f.flag \in BOOLEAN
        /\ f.room \in CmRooms \cup {CmNone}
    BY DEF CmFrame
  <1>2. \A s \in SUBSET Livings, a \in Livings \cup {CmNone}, b \in BOOLEAN :
              LET g == [f EXCEPT !.set = s, !.a = a, !.flag = b]
              IN g \in CmFrame /\ g.kind = f.kind /\ g.a = a /\ g.t = f.t
    BY DEF CmFrame
  <1>3. \A s \in SUBSET Livings, e \in Livings \cup {CmNone} :
              LET g == [f EXCEPT !.set = s, !.on = e] IN g \in CmFrame /\ g.kind = f.kind /\ g.a = f.a /\ g.t = f.t
    BY DEF CmFrame
  <1>4. \A n, m \in Nat, e \in Livings \cup {CmNone} :
              LET g == [f EXCEPT !.n = n, !.on = e, !.onGen = m]
              IN g \in CmFrame /\ g.kind = f.kind /\ g.a = f.a /\ g.t = f.t
    BY DEF CmFrame
  <1>5. /\ \A s \in SUBSET Livings :
              LET g == [f EXCEPT !.set = s] IN g \in CmFrame /\ g.kind = f.kind /\ g.a = f.a /\ g.t = f.t
        /\ \A n \in Nat :
              /\ LET g == [f EXCEPT !.n = n] IN g \in CmFrame /\ g.kind = f.kind /\ g.a = f.a /\ g.t = f.t
              /\ LET g == [f EXCEPT !.gen = n] IN g \in CmFrame /\ g.kind = f.kind /\ g.a = f.a /\ g.t = f.t
        /\ \A e \in Livings \cup {CmNone} :
              LET g == [f EXCEPT !.on = e] IN g \in CmFrame /\ g.kind = f.kind /\ g.a = f.a /\ g.t = f.t
    BY DEF CmFrame
  <1>. QED
    BY <1>1, <1>2, <1>3, <1>4, <1>5

LEMMA NewFrame ==
  ASSUME NEW kind \in FrameKinds, NEW a \in Livings \cup {CmNone}, NEW t \in Livings \cup {CmNone}
  PROVE  Frame(kind, a, t) \in CmFrame /\ Frame(kind, a, t).kind = kind /\ Frame(kind, a, t).a = a
         /\ Frame(kind, a, t).t = t
  BY CmNames DEF Frame, CmFrame

LEMMA SidedFrames ==
  ASSUME NEW f \in CmFrame, f.kind # "round" => f.a \in Livings,
         f.kind \in {"blow", "fall", "die"} => f.t \in Livings
  PROVE  f \in Frames
  BY DEF Frames, Sided

\* Commands and handlers.
LEMMA KillKeeps ==
  ASSUME CmInv, NEW p \in CmPlayers, NEW t \in CmMobs, cmdKill(p, t)
  PROVE  CmInv'
  <1>1. /\ p \in Livings /\ t \in Livings /\ cmLive \in Lives
        /\ cmLive' = startFight(cmLive, p, t) /\ cmArmed' = TRUE
        /\ cmStack' = startEvents(cmLive, p, t) /\ cmBudget' = CmHandlers
    BY CmNames DEF cmdKill, CmInv
  <1>. QED
    BY <1>1, StartFightFacts, FrameFacts, QuietStep, CmNames

LEMMA FleeKeeps ==
  ASSUME CmInv, NEW p \in CmPlayers, cmdFleeInPlace(p) \/ \E flee \in BOOLEAN : Depart(p, flee)
  PROVE  CmInv'
  <1>1. p \in Livings /\ cmLive \in Lives /\ cmStack \in Seq(Frames) /\ cmArmed \in BOOLEAN
    BY CmNames DEF CmInv
  <1>2. CASE cmdFleeInPlace(p)
    <2>1. cmLive' = stopFight(cmLive, p) /\ cmBudget' = CmHandlers /\ UNCHANGED <<cmArmed, cmStack>>
      BY <1>2 DEF cmdFleeInPlace
    <2>. QED
      BY <1>1, <2>1, StopFightFacts, QuietStep, CmNames
  <1>3. ASSUME NEW flee \in BOOLEAN, Depart(p, flee) PROVE CmInv'
    <2>. DEFINE s == {e \in Livings \ {p} : Together(cmLive, p, e) /\ cmLive[e].fights = p}
                f == [Frame("leave", p, CmNone) EXCEPT !.gen = deathGen(p), !.room = cmLive[p].room,
                        !.flag = flee, !.set = s]
    <2>1. cmStack' = <<f>> /\ cmBudget' = CmHandlers /\ UNCHANGED <<cmLive, cmArmed>>
      BY <1>3 DEF Depart
    <2>2. Frame("leave", p, CmNone) \in CmFrame /\ Frame("leave", p, CmNone).kind = "leave"
          /\ Frame("leave", p, CmNone).a = p
      BY <1>1, NewFrame DEF FrameKinds
    <2>3. deathGen(p) \in Nat /\ cmLive[p].room \in CmRooms \cup {CmNone} /\ s \in SUBSET Livings
      BY <1>1, Gens, LifeFacts
    <2>. HIDE DEF s
    <2>4. f \in CmFrame /\ f.kind = "leave" /\ f.a = p
      BY <2>2, <2>3 DEF CmFrame
    <2>. HIDE DEF f
    <2>5. cmStack' \in Seq(Frames)
      BY <1>1, <2>1, <2>4, SidedFrames
    <2>. QED
      BY <1>1, <2>1, <2>5, QuietStep, CmNames DEF Unslain
  <1>. QED
    BY <1>2, <1>3

LEMMA EventKeeps ==
  ASSUME CmInv, fireEvent \/ opsEnd
  PROVE  CmInv'
  <1>1. cmStack \in Seq(Frames) /\ cmStack # <<>> /\ cmLive \in Lives /\ cmBudget \in 0..CmHandlers
        /\ cmArmed \in BOOLEAN /\ UNCHANGED <<cmLive, cmArmed>> /\ <<>> \in Seq(Frames)
    BY DEF CmInv, fireEvent, opsEnd, Running
  <1>2. cmBudget' \in 0..CmHandlers
    BY <1>1, CmNames DEF fireEvent, opsEnd
  <1>3. Top \in CmFrame /\ (Top.kind # "round" => Top.a \in Livings) /\ Top.t \in Livings \cup {CmNone}
    BY <1>1, StackFacts, FrameEdits DEF Sided
  <1>4. CASE Calls(<<>>)
    <2>1. cmStack' \in Seq(Frames)
      BY <1>1, <1>4, StackFacts
    <2>. QED
      BY <1>1, <1>2, <2>1, QuietStep DEF Unslain
  <1>5. CASE Calls(<<runOps(Top.a, Top.t)>>) /\ Top.kind = "event"
    <2>. DEFINE f == Frame("ops", Top.a, Top.t)
    <2>1. f \in CmFrame /\ f.kind = "ops" /\ f.a = Top.a /\ Top.a \in Livings
      BY <1>3, <1>5, NewFrame DEF FrameKinds
    <2>2. deathGen(Top.a) \in Nat /\ CmOps \in Nat
      BY <2>1, Gens, CmNames
    <2>. DEFINE g == [f EXCEPT !.gen = deathGen(Top.a), !.n = CmOps]
    <2>3. runOps(Top.a, Top.t) = g
      BY DEF runOps
    <2>. HIDE DEF f
    <2>4. g \in CmFrame /\ g.kind = "ops" /\ g.a = Top.a
      BY <2>1, <2>2 DEF CmFrame
    <2>. HIDE DEF g
    <2>5. <<runOps(Top.a, Top.t)>> \in Seq(Frames)
      BY <2>1, <2>3, <2>4, SidedFrames
    <2>6. cmStack' \in Seq(Frames)
      BY <1>1, <1>5, <2>5, StackFacts
    <2>. QED
      BY <1>1, <1>2, <2>6, QuietStep DEF Unslain
  <1>. QED
    BY <1>4, <1>5 DEF fireEvent, opsEnd, Running, Top

\* What a step that works on the innermost call knows.
LEMMA TopFacts ==
  ASSUME CmInv, cmStack # <<>>
  PROVE  /\ cmStack \in Seq(Frames) /\ cmLive \in Lives /\ cmArmed \in BOOLEAN /\ cmBudget \in 0..CmHandlers
         /\ Top \in CmFrame /\ Top \in Frames /\ <<>> \in Seq(Frames)
         /\ Top.kind # "round" => Top.a \in Livings
         /\ Top.kind \in {"blow", "fall", "die"} => Top.t \in Livings
         /\ Top.set \in SUBSET Livings /\ Top.n \in Nat /\ Top.gen \in Nat /\ Top.on \in Livings \cup {CmNone}
         /\ Top.a \in Livings \cup {CmNone} /\ Top.t \in Livings \cup {CmNone} /\ Top.flag \in BOOLEAN
         /\ \A fs \in Seq(Frames) : Calls(fs) => cmStack' \in Seq(Frames)
  <1>1. cmStack \in Seq(Frames) /\ cmLive \in Lives /\ cmArmed \in BOOLEAN /\ cmBudget \in 0..CmHandlers
    BY DEF CmInv
  <1>2. Top \in CmFrame /\ Top \in Frames /\ Sided(Top)
    BY <1>1, StackFacts
  <1>3. /\ Top.set \in SUBSET Livings /\ Top.n \in Nat /\ Top.gen \in Nat /\ Top.on \in Livings \cup {CmNone}
        /\ Top.a \in Livings \cup {CmNone} /\ Top.t \in Livings \cup {CmNone} /\ Top.flag \in BOOLEAN
    BY <1>2 DEF CmFrame
  <1>4. \A fs \in Seq(Frames) : Calls(fs) => cmStack' \in Seq(Frames)
    BY <1>1, StackFacts
  <1>5. <<>> \in Seq(Frames)
    OBVIOUS
  <1>. QED
    BY <1>1, <1>2, <1>3, <1>4, <1>5 DEF Sided

LEMMA LeaveReactionKeeps ==
  ASSUME CmInv, fireLeaveRoom
  PROVE  CmInv'
  <1>1. cmStack # <<>> /\ Top.kind = "leave" /\ UNCHANGED <<cmLive, cmArmed, cmBudget>>
    BY DEF fireLeaveRoom, Running, Top
  <1>2. /\ cmStack \in Seq(Frames) /\ cmLive \in Lives /\ cmArmed \in BOOLEAN /\ cmBudget \in 0..CmHandlers
        /\ Top \in CmFrame /\ Top.a \in Livings /\ Top.set \in SUBSET Livings
    BY <1>1, TopFacts
  <1>3. PICK e \in Top.set :
          LET rest == [Top EXCEPT !.set = @ \ {e}] IN
          Calls((IF Together(cmLive, e, Top.a) /\ ~cmLive[e].held /\ cmLive[e].pos # "dead"
                 THEN <<Event(e, Top.a)>> ELSE <<>>) \o <<rest>>)
    BY DEF fireLeaveRoom
  <1>. DEFINE s == Top.set \ {e}
              rest == [Top EXCEPT !.set = s]
              before == IF Together(cmLive, e, Top.a) /\ ~cmLive[e].held /\ cmLive[e].pos # "dead"
                        THEN <<Event(e, Top.a)>> ELSE <<>>
  <1>4. s \in SUBSET Livings /\ e \in Livings
    BY <1>2
  <1>5. rest \in CmFrame /\ rest.kind = "leave" /\ rest.a = Top.a
    <2>. HIDE DEF s
    <2>. QED
      BY <1>1, <1>2, <1>4, FrameEdits
  <1>6. Calls(before \o <<rest>>)
    BY <1>3
  <1>7. before \in Seq(Frames)
    BY <1>2, <1>4, FrameFacts
  <1>. HIDE DEF before, rest
  <1>8. <<rest>> \in Seq(Frames)
    BY <1>2, <1>5, SidedFrames
  <1>9. before \o <<rest>> \in Seq(Frames)
    BY <1>7, <1>8
  <1>10. cmStack' \in Seq(Frames)
    BY <1>1, <1>6, <1>9, TopFacts
  <1>. QED
    BY <1>1, <1>2, <1>10, QuietStep DEF Unslain

\* Somebody is put into a room, with whoever turns on an arrival there.
LEMMA MovedFacts ==
  ASSUME NEW w \in Lives, NEW e \in Livings, NEW r \in CmRooms
  PROVE  /\ aggroOnEntry([w EXCEPT ![e].room = r], e) \in Lives
         /\ Unslain(w, aggroOnEntry([w EXCEPT ![e].room = r], e))
         /\ aggroEvents([w EXCEPT ![e].room = r], e) \in Seq(Frames)
  <1>. DEFINE x == [w[e] EXCEPT !.room = r]
              v == [w EXCEPT ![e].room = r]
  <1>1. v = [w EXCEPT ![e] = x]
    BY DEF Lives
  <1>2. w[e] \in Life
    BY LifeFacts
  <1>3. x \in Life /\ x.deaths = w[e].deaths /\ x.dying = w[e].dying
    BY <1>2 DEF Life
  <1>. HIDE DEF x
  <1>4. v \in Lives /\ Unslain(w, v)
    BY <1>1, <1>3, OneLife
  <1>. HIDE DEF v
  <1>5. aggroOnEntry(v, e) \in Lives /\ Unslain(v, aggroOnEntry(v, e)) /\ aggroEvents(v, e) \in Seq(Frames)
    BY <1>4, AggroFacts, FrameFacts
  <1>6. Unslain(w, aggroOnEntry(v, e))
    BY <1>4, <1>5 DEF Unslain
  <1>. QED
    BY <1>5, <1>6 DEF v

LEMMA ArriveKeeps ==
  ASSUME CmInv, arrive
  PROVE  CmInv'
  <1>1. cmStack # <<>> /\ Top.kind = "leave"
    BY DEF arrive, Running, Top
  <1>2. /\ cmStack \in Seq(Frames) /\ cmLive \in Lives /\ cmArmed \in BOOLEAN /\ cmBudget \in 0..CmHandlers
        /\ <<>> \in Seq(Frames) /\ Top.a \in Livings
        /\ \A fs \in Seq(Frames) : Calls(fs) => cmStack' \in Seq(Frames)
    BY <1>1, TopFacts
  <1>3. CASE Calls(<<>>) /\ UNCHANGED <<cmLive, cmArmed, cmBudget>>
    BY <1>2, <1>3, QuietStep DEF Unslain
  <1>. DEFINE v == IF Top.flag THEN disengage(cmLive, Top.a) ELSE cmLive
  <1>4. ASSUME NEW r \in CmRooms,
               LET w == [v EXCEPT ![Top.a].room = r] IN
               /\ cmLive' = aggroOnEntry(w, Top.a) /\ cmArmed' = (cmArmed \/ aggressor(w, Top.a) # {})
               /\ Calls(aggroEvents(w, Top.a)) /\ UNCHANGED cmBudget
        PROVE  CmInv'
    <2>1. v \in Lives /\ Unslain(cmLive, v)
      BY <1>2, DisengageFacts DEF Unslain
    <2>2. /\ cmLive' = aggroOnEntry([v EXCEPT ![Top.a].room = r], Top.a)
          /\ Calls(aggroEvents([v EXCEPT ![Top.a].room = r], Top.a)) /\ cmBudget' = cmBudget /\ cmArmed' \in BOOLEAN
      BY <1>4
    <2>. HIDE DEF v
    <2>3. cmLive' \in Lives /\ Unslain(v, cmLive') /\ cmStack' \in Seq(Frames)
      BY <1>2, <2>1, <2>2, MovedFacts
    <2>4. Unslain(cmLive, cmLive')
      BY <2>1, <2>3 DEF Unslain
    <2>. QED
      BY <1>2, <2>2, <2>3, <2>4, QuietStep
  <1>. QED
    BY <1>3, <1>4 DEF arrive

\* A blow that has landed, and what it brings on.
LEMMA BlowKeeps ==
  ASSUME CmInv, blowLanded
  PROVE  CmInv'
  <1>1. cmStack # <<>> /\ Top.kind = "blow" /\ UNCHANGED <<cmLive, cmArmed, cmBudget>>
    BY DEF blowLanded, Running, Top
  <1>2. /\ cmLive \in Lives /\ cmArmed \in BOOLEAN /\ cmBudget \in 0..CmHandlers
        /\ <<>> \in Seq(Frames) /\ Top \in CmFrame /\ Top.a \in Livings /\ Top.t \in Livings /\ Top.gen \in Nat
        /\ \A fs \in Seq(Frames) : Calls(fs) => cmStack' \in Seq(Frames)
    BY <1>1, TopFacts
  <1>3. Event(Top.a, Top.t) \in Frames /\ Event(Top.t, Top.a) \in Frames
    BY <1>2, FrameFacts
  <1>4. [Top EXCEPT !.n = 1] \in Frames
    <2>. DEFINE g == [Top EXCEPT !.n = 1]
    <2>1. g \in CmFrame /\ g.kind = "blow" /\ g.a = Top.a /\ g.t = Top.t
      BY <1>1, <1>2, FrameEdits
    <2>. HIDE DEF g
    <2>2. g \in Frames
      BY <1>2, <2>1, SidedFrames
    <2>. QED
      BY <2>2 DEF g
  <1>5. [Frame("fall", Top.a, Top.t) EXCEPT !.gen = Top.gen] \in Frames
    <2>. DEFINE f == Frame("fall", Top.a, Top.t)
                g == [f EXCEPT !.gen = Top.gen]
    <2>1. f \in CmFrame /\ f.kind = "fall" /\ f.a = Top.a /\ f.t = Top.t
      BY <1>2, NewFrame DEF FrameKinds
    <2>. HIDE DEF f
    <2>2. g \in CmFrame /\ g.kind = "fall" /\ g.a = Top.a /\ g.t = Top.t
      BY <1>2, <2>1, FrameEdits
    <2>. HIDE DEF g
    <2>3. g \in Frames
      BY <1>2, <2>2, SidedFrames
    <2>. QED
      BY <2>3 DEF g, f
  <1>6. \E fs \in Seq(Frames) : Calls(fs)
    <2>. DEFINE g == [Top EXCEPT !.n = 1]
                h == [Frame("fall", Top.a, Top.t) EXCEPT !.gen = Top.gen]
                b == IF Top.a # Top.t /\ Alive(cmLive, Top.a) THEN <<Event(Top.a, Top.t)>> ELSE <<>>
    <2>1. \/ Calls(b \o <<g>>) \/ Calls(<<Event(Top.t, Top.a), h>>) \/ Calls(<<>>)
      BY DEF blowLanded
    <2>2. b \in Seq(Frames)
      BY <1>3
    <2>. HIDE DEF g, h, b
    <2>3. <<g>> \in Seq(Frames) /\ <<Event(Top.t, Top.a), h>> \in Seq(Frames)
      BY <1>3, <1>4, <1>5 DEF g, h
    <2>4. b \o <<g>> \in Seq(Frames)
      BY <2>2, <2>3
    <2>. QED
      BY <1>2, <2>1, <2>3, <2>4
  <1>. QED
    BY <1>1, <1>2, <1>6, QuietStep DEF Unslain

\* The one step that counts a death: the latch makes a mob's first its last.
LEMMA DepletedKeeps ==
  ASSUME CmInv, onPoolDepleted
  PROVE  CmInv'
  <1>1. cmStack # <<>> /\ Top.kind = "fall" /\ UNCHANGED <<cmArmed, cmBudget>>
    BY DEF onPoolDepleted, Running, Top
  <1>2. /\ cmLive \in Lives /\ cmArmed \in BOOLEAN /\ cmBudget \in 0..CmHandlers
        /\ <<>> \in Seq(Frames) /\ Top.a \in Livings /\ Top.t \in Livings
        /\ \A fs \in Seq(Frames) : Calls(fs) => cmStack' \in Seq(Frames)
    BY <1>1, TopFacts
  <1>. DEFINE v == Top.t
              r == [cmLive[v] EXCEPT !.dying = TRUE, !.deaths = cmLive[v].deaths + 1]
  <1>3. CASE UNCHANGED cmLive /\ Calls(<<>>)
    BY <1>1, <1>2, <1>3, QuietStep DEF Unslain
  <1>4. CASE /\ ~cmLive[v].dying /\ cmLive' = [cmLive EXCEPT ![v].dying = TRUE, ![v].deaths = @ + 1]
             /\ Calls(<<Event(Top.a, v), Frame("die", Top.a, v)>>)
    <2>1. cmLive[v] \in Life
      BY <1>2, LifeFacts
    <2>2. cmLive' = [cmLive EXCEPT ![v] = r]
      BY <1>2, <1>4 DEF Lives
    <2>3. r \in Life /\ r.deaths = cmLive[v].deaths + 1 /\ r.dying = TRUE
      <3>1. cmLive[v].deaths + 1 \in Nat /\ TRUE \in BOOLEAN
        BY <1>2, LifeFacts
      <3>. QED
        BY <2>1, <3>1 DEF Life
    <2>. HIDE DEF r
    <2>4. cmLive' \in Lives /\ cmLive'[v] = r /\ \A e \in Livings \ {v} : cmLive'[e] = cmLive[e]
      BY <1>2, <2>2, <2>3 DEF Lives
    <2>5. \A m \in CmMobs : cmLive'[m].deaths = 0 \/ (cmLive'[m].deaths = 1 /\ cmLive'[m].dying)
      <3>. SUFFICES ASSUME NEW m \in CmMobs
                    PROVE  cmLive'[m].deaths = 0 \/ (cmLive'[m].deaths = 1 /\ cmLive'[m].dying)
        OBVIOUS
      <3>1. m \in Livings /\ (cmLive[m].deaths = 0 \/ (cmLive[m].deaths = 1 /\ cmLive[m].dying))
        BY CmNames DEF CmInv
      <3>2. CASE m = v
        BY <1>4, <2>3, <2>4, <3>1, <3>2
      <3>3. CASE m # v
        BY <2>4, <3>1, <3>3
      <3>. QED
        BY <3>2, <3>3
    <2>6. Frame("die", Top.a, v) \in CmFrame /\ Frame("die", Top.a, v).a = Top.a /\ Frame("die", Top.a, v).t = v
      BY <1>2, NewFrame DEF FrameKinds
    <2>7. Frame("die", Top.a, v) \in Frames /\ Event(Top.a, v) \in Frames
      BY <1>2, <2>6, SidedFrames, FrameFacts
    <2>8. <<Event(Top.a, v), Frame("die", Top.a, v)>> \in Seq(Frames)
      BY <2>7
    <2>9. cmStack' \in Seq(Frames)
      BY <1>2, <1>4, <2>8
    <2>. QED
      BY <1>1, <1>2, <2>4, <2>5, <2>9 DEF CmInv
  <1>. QED
    BY <1>3, <1>4 DEF onPoolDepleted, Dying

\* The body: a slain player awakes, a slain mob leaves the world with its latch set.
LEMMA BodyFacts ==
  ASSUME NEW w \in Lives, NEW e \in Livings
  PROVE  /\ respawned(w, e) \in Lives /\ makeCorpse(w, e) \in Lives
         /\ \A f \in Livings \ {e} : respawned(w, e)[f] = w[f] /\ makeCorpse(w, e)[f] = w[f]
         /\ makeCorpse(w, e)[e].deaths = w[e].deaths /\ makeCorpse(w, e)[e].dying = TRUE
  <1>. DEFINE r == [w[e] EXCEPT !.pool = CmPool, !.pos = "standing", !.dying = FALSE,
                                !.held = FALSE, !.safe = TRUE, !.room = CmStart]
              c == [Born(CmNone) EXCEPT !.pos = w[e].pos, !.dying = TRUE, !.deaths = w[e].deaths]
  <1>1. respawned(w, e) = [w EXCEPT ![e] = r]
    BY DEF respawned, Lives
  <1>2. makeCorpse(w, e) = [w EXCEPT ![e] = c]
    BY DEF makeCorpse
  <1>3. /\ w[e] \in Life /\ w[e].pos \in {"standing", "fighting", "dead"} /\ w[e].deaths \in Nat
        /\ CmPool \in 0..CmPool /\ CmStart \in CmRooms
    BY LifeFacts, CmNames
  <1>4. r \in Life
    BY <1>3 DEF Life
  <1>5. Born(CmNone) \in Life
    BY <1>3 DEF Born, Life
  <1>6. c \in Life /\ c.deaths = w[e].deaths /\ c.dying = TRUE
    <2>. DEFINE b == Born(CmNone)
    <2>. HIDE DEF b
    <2>1. b \in Life
      BY <1>5 DEF b
    <2>2. LET x == [b EXCEPT !.pos = w[e].pos, !.dying = TRUE, !.deaths = w[e].deaths]
          IN x \in Life /\ x.deaths = w[e].deaths /\ x.dying = TRUE
      BY <1>3, <2>1 DEF Life
    <2>. QED
      BY <2>2 DEF b
  <1>. HIDE DEF r, c
  <1>. QED
    BY <1>1, <1>2, <1>4, <1>6 DEF Lives

LEMMA DieKeeps ==
  ASSUME CmInv, die
  PROVE  CmInv'
  <1>. DEFINE v == Top.t
  <1>1. cmStack # <<>> /\ Top.kind = "die" /\ UNCHANGED <<cmArmed, cmBudget>>
    BY DEF die, Running, Top
  <1>2. /\ cmLive \in Lives /\ cmArmed \in BOOLEAN /\ cmBudget \in 0..CmHandlers
        /\ <<>> \in Seq(Frames) /\ Top \in CmFrame /\ Top.a \in Livings /\ v \in Livings
        /\ \A fs \in Seq(Frames) : Calls(fs) => cmStack' \in Seq(Frames)
    BY <1>1, TopFacts
  <1>3. CASE Top.n = 0
    <2>. DEFINE u == scrubThreat(disengage(cmLive, v), v)
                r == [u[v] EXCEPT !.pos = "dead"]
                g == [Top EXCEPT !.n = 1]
    <2>1. cmLive' = [u EXCEPT ![v].pos = "dead"] /\ Calls(<<Event(v, Top.a), g>>)
      BY <1>3 DEF die
    <2>2. disengage(cmLive, v) \in Lives /\ Unslain(cmLive, disengage(cmLive, v))
      BY <1>2, DisengageFacts
    <2>3. u \in Lives /\ Unslain(disengage(cmLive, v), u)
      BY <1>2, <2>2, ScrubFacts
    <2>4. Unslain(cmLive, u)
      BY <2>2, <2>3 DEF Unslain
    <2>5. g \in CmFrame /\ g.kind = "die" /\ g.a = Top.a /\ g.t = v
      BY <1>1, <1>2, FrameEdits
    <2>. HIDE DEF u, g
    <2>6. cmLive' = [u EXCEPT ![v] = r]
      BY <2>1, <2>3 DEF Lives
    <2>7. u[v] \in Life
      BY <1>2, <2>3, LifeFacts
    <2>8. r \in Life /\ r.deaths = u[v].deaths /\ r.dying = u[v].dying
      BY <2>7, Edits
    <2>. HIDE DEF r
    <2>9. cmLive' \in Lives /\ Unslain(u, cmLive')
      BY <1>2, <2>3, <2>6, <2>8, OneLife
    <2>10. Unslain(cmLive, cmLive')
      BY <2>4, <2>9 DEF Unslain
    <2>11. g \in Frames /\ Event(v, Top.a) \in Frames
      BY <1>2, <2>5, SidedFrames, FrameFacts
    <2>12. <<Event(v, Top.a), g>> \in Seq(Frames)
      BY <2>11
    <2>13. cmStack' \in Seq(Frames)
      BY <1>2, <2>1, <2>12
    <2>. QED
      BY <1>1, <1>2, <2>9, <2>10, <2>13, QuietStep
  <1>4. CASE Top.n # 0
    <2>1. /\ cmLive' = IF v \in CmPlayers THEN respawned(cmLive, v) ELSE makeCorpse(cmLive, v)
          /\ Calls(<<>>)
      BY <1>4 DEF die
    <2>2. /\ cmLive' \in Lives /\ \A f \in Livings \ {v} : cmLive'[f] = cmLive[f]
          /\ v \notin CmPlayers => cmLive'[v].deaths = cmLive[v].deaths /\ cmLive'[v].dying = TRUE
      BY <1>2, <2>1, BodyFacts
    <2>3. ASSUME NEW m \in CmMobs
          PROVE  cmLive'[m].deaths = 0 \/ (cmLive'[m].deaths = 1 /\ cmLive'[m].dying)
      <3>1. m \in Livings /\ m \notin CmPlayers /\ (cmLive[m].deaths = 0 \/ (cmLive[m].deaths = 1 /\ cmLive[m].dying))
        BY CmNames DEF CmInv
      <3>. QED
        BY <2>2, <3>1
    <2>4. cmStack' \in Seq(Frames)
      BY <1>2, <2>1
    <2>. QED
      BY <1>1, <1>2, <2>2, <2>3, <2>4 DEF CmInv
  <1>. QED
    BY <1>3, <1>4

\* The frame an op list leaves behind for its next op.
LEMMA OpFacts ==
  ASSUME CmInv, NEW t \in Livings, nextOp(t)
  PROVE  /\ cmStack # <<>> /\ Top.kind = "ops" /\ Top.a \in Livings /\ Op(t) \in Frames /\ <<Op(t)>> \in Seq(Frames)
  <1>1. cmStack # <<>> /\ Top.kind = "ops" /\ ~stops(Top)
    BY DEF nextOp, Running, Top
  <1>2. Top \in CmFrame /\ Top.a \in Livings /\ Top.n \in Nat /\ Top.set \in SUBSET Livings /\ Top.on \in Livings \cup {CmNone}
    BY <1>1, TopFacts
  <1>. DEFINE f == noted(Top)
              s == Top.set \cup {Top.on}
  <1>3. f \in CmFrame /\ f.kind = "ops" /\ f.a = Top.a /\ f.t = Top.t /\ f.n = Top.n
    <2>1. CASE Top.on # CmNone
      <3>1. s \in SUBSET Livings
        BY <1>2, <2>1
      <3>. HIDE DEF s
      <3>2. LET g == [Top EXCEPT !.set = s, !.on = CmNone]
            IN g \in CmFrame /\ g.kind = Top.kind /\ g.a = Top.a /\ g.t = Top.t /\ g.n = Top.n
        BY <1>2, <3>1 DEF CmFrame
      <3>3. LET g == [Top EXCEPT !.on = CmNone]
            IN g \in CmFrame /\ g.kind = Top.kind /\ g.a = Top.a /\ g.t = Top.t /\ g.n = Top.n
        BY <1>2 DEF CmFrame
      <3>4. f \in {[Top EXCEPT !.set = s, !.on = CmNone], [Top EXCEPT !.on = CmNone]}
        BY DEF noted, s
      <3>. HIDE DEF f
      <3>. QED
        BY <1>1, <3>2, <3>3, <3>4
    <2>2. CASE Top.on = CmNone
      <3>1. LET g == [Top EXCEPT !.on = CmNone]
            IN g \in CmFrame /\ g.kind = Top.kind /\ g.a = Top.a /\ g.t = Top.t /\ g.n = Top.n
        BY <1>2 DEF CmFrame
      <3>2. f = [Top EXCEPT !.on = CmNone]
        BY <2>2 DEF noted
      <3>. HIDE DEF f
      <3>. QED
        BY <1>1, <3>1, <3>2
    <2>. QED
      BY <2>1, <2>2
  <1>4. Top.n - 1 \in Nat /\ deathGen(t) \in Nat
    BY <1>1, <1>2, Gens DEF stops
  <1>. DEFINE g == [f EXCEPT !.n = f.n - 1, !.on = t, !.onGen = deathGen(t)]
  <1>5. Op(t) = g
    BY DEF Op
  <1>. HIDE DEF f
  <1>6. g \in CmFrame /\ g.kind = "ops" /\ g.a = Top.a
    <2>1. f.n - 1 \in Nat /\ t \in Livings \cup {CmNone}
      BY <1>3, <1>4
    <2>. QED
      BY <1>3, <1>4, <2>1 DEF CmFrame
  <1>. HIDE DEF g
  <1>7. Op(t) \in Frames
    BY <1>2, <1>5, <1>6, SidedFrames
  <1>. QED
    BY <1>1, <1>2, <1>7

LEMMA HurtFacts ==
  ASSUME NEW w \in Lives, NEW t \in Livings, NEW s \in SUBSET Livings
  PROVE  LET x == [w EXCEPT ![t].pool = IF @ = 0 THEN 0 ELSE @ - 1, ![t].threat = s]
         IN x \in Lives /\ Unslain(w, x)
  <1>. DEFINE n == IF w[t].pool = 0 THEN 0 ELSE w[t].pool - 1
              r == [w[t] EXCEPT !.pool = n, !.threat = s]
              x == [w EXCEPT ![t].pool = IF @ = 0 THEN 0 ELSE @ - 1, ![t].threat = s]
  <1>1. x = [w EXCEPT ![t] = r]
    BY DEF Lives
  <1>2. w[t] \in Life /\ n \in 0..CmPool
    BY LifeFacts, CmNames
  <1>. HIDE DEF n
  <1>3. r \in Life /\ r.deaths = w[t].deaths /\ r.dying = w[t].dying
    BY <1>2 DEF Life
  <1>. HIDE DEF r
  <1>4. [w EXCEPT ![t] = r] \in Lives /\ Unslain(w, [w EXCEPT ![t] = r])
    BY <1>3, OneLife
  <1>. QED
    BY <1>1, <1>4

LEMMA SafeFacts ==
  ASSUME NEW w \in Lives, NEW e \in Livings, NEW b \in BOOLEAN
  PROVE  /\ [w EXCEPT ![e].safe = b] \in Lives /\ Unslain(w, [w EXCEPT ![e].safe = b])
         /\ [w EXCEPT ![e].held = b] \in Lives /\ Unslain(w, [w EXCEPT ![e].held = b])
  <1>1. w[e] \in Life
    BY LifeFacts
  <1>. DEFINE r == [w[e] EXCEPT !.safe = b]
              s == [w[e] EXCEPT !.held = b]
  <1>2. [w EXCEPT ![e].safe = b] = [w EXCEPT ![e] = r] /\ [w EXCEPT ![e].held = b] = [w EXCEPT ![e] = s]
    BY DEF Lives
  <1>3. r \in Life /\ r.deaths = w[e].deaths /\ r.dying = w[e].dying
    BY <1>1 DEF Life
  <1>4. s \in Life /\ s.deaths = w[e].deaths /\ s.dying = w[e].dying
    BY <1>1 DEF Life
  <1>. HIDE DEF r, s
  <1>. QED
    BY <1>2, <1>3, <1>4, OneLife

LEMMA IntentFacts ==
  ASSUME NEW w \in Lives, NEW a \in Livings, NEW t \in Livings
  PROVE  intent(w, a, t) \in Lives /\ Unslain(w, intent(w, a, t))
  <1>1. CASE a = t
    BY <1>1 DEF intent, Unslain
  <1>2. CASE a # t
    BY <1>2, SafeFacts DEF intent
  <1>. QED
    BY <1>1, <1>2

LEMMA DamageFrames ==
  ASSUME CmInv, NEW a \in Livings, NEW t \in Livings
  PROVE  dealDamage(a, t) \in Seq(Frames)
  <1>. DEFINE f == Frame("blow", a, t)
              g == [f EXCEPT !.gen = deathGen(t)]
  <1>1. f \in CmFrame /\ f.kind = "blow" /\ f.a = a /\ f.t = t
    BY NewFrame DEF FrameKinds
  <1>2. deathGen(t) \in Nat
    BY Gens
  <1>3. dealDamage(a, t) = <<Event(t, a), g>>
    BY DEF dealDamage
  <1>. HIDE DEF f
  <1>4. g \in CmFrame /\ g.kind = "blow" /\ g.a = a /\ g.t = t
    BY <1>1, <1>2, FrameEdits
  <1>. HIDE DEF g
  <1>5. g \in Frames /\ Event(t, a) \in Frames
    BY <1>4, SidedFrames, FrameFacts
  <1>. QED
    BY <1>3, <1>5

\* The ops of a handler.
LEMMA OpKeeps ==
  ASSUME CmInv, NEW t \in Livings, opDealDamage(t) \/ opHeal(t) \/ opHold(t) \/ opPush(t)
  PROVE  CmInv'
  <1>1. nextOp(t)
    BY DEF opDealDamage, opHeal, opHold, opPush
  <1>2. cmStack # <<>> /\ Top.a \in Livings /\ <<Op(t)>> \in Seq(Frames)
    BY <1>1, OpFacts
  <1>3. /\ cmLive \in Lives /\ cmArmed \in BOOLEAN /\ cmBudget \in 0..CmHandlers
        /\ \A fs \in Seq(Frames) : Calls(fs) => cmStack' \in Seq(Frames)
    BY <1>2, TopFacts
  <1>. DEFINE a == Top.a
  <1>4. intent(cmLive, a, t) \in Lives /\ Unslain(cmLive, intent(cmLive, a, t))
    BY <1>2, <1>3, IntentFacts
  <1>5. CASE opDealDamage(t)
    <2>1. /\ UNCHANGED <<cmArmed, cmBudget>>
          /\ \/ cmLive' = struck(a, t) /\ Calls(dealDamage(a, t) \o <<Op(t)>>)
             \/ cmLive' = intent(cmLive, a, t) /\ Calls(<<Op(t)>>)
      BY <1>5 DEF opDealDamage
    <2>2. struck(a, t) \in Lives /\ Unslain(cmLive, struck(a, t))
      <3>. DEFINE w == intent(cmLive, a, t)
                  s == IF a = t \/ t \in CmPlayers THEN w[t].threat ELSE w[t].threat \cup {a}
      <3>1. s \in SUBSET Livings
        BY <1>2, <1>4, LifeFacts
      <3>2. struck(a, t) = [w EXCEPT ![t].pool = IF @ = 0 THEN 0 ELSE @ - 1, ![t].threat = s]
        BY <1>4 DEF struck, Lives
      <3>. HIDE DEF w, s
      <3>3. w \in Lives /\ Unslain(cmLive, w)
        BY <1>4 DEF w
      <3>4. struck(a, t) \in Lives /\ Unslain(w, struck(a, t))
        BY <3>1, <3>2, <3>3, HurtFacts
      <3>. QED
        BY <3>3, <3>4 DEF Unslain
    <2>3. dealDamage(a, t) \in Seq(Frames)
      BY <1>2, DamageFrames
    <2>4. dealDamage(a, t) \o <<Op(t)>> \in Seq(Frames)
      BY <1>2, <2>3
    <2>5. cmStack' \in Seq(Frames)
      BY <1>2, <1>3, <2>1, <2>4
    <2>. QED
      BY <1>3, <1>4, <2>1, <2>2, <2>5, QuietStep
  <1>6. CASE opHeal(t)
    <2>1. cmLive' = [cmLive EXCEPT ![t].pool = CmPool] /\ Calls(<<Op(t)>>) /\ UNCHANGED <<cmArmed, cmBudget>>
      BY <1>6 DEF opHeal
    <2>. DEFINE r == [cmLive[t] EXCEPT !.pool = CmPool]
    <2>2. cmLive' = [cmLive EXCEPT ![t] = r]
      BY <1>3, <2>1 DEF Lives
    <2>3. cmLive[t] \in Life /\ CmPool \in 0..CmPool
      BY <1>3, LifeFacts, CmNames
    <2>4. r \in Life /\ r.deaths = cmLive[t].deaths /\ r.dying = cmLive[t].dying
      BY <2>3 DEF Life
    <2>. HIDE DEF r
    <2>5. cmLive' \in Lives /\ Unslain(cmLive, cmLive')
      BY <1>3, <2>2, <2>4, OneLife
    <2>. QED
      BY <1>2, <1>3, <2>1, <2>5, QuietStep
  <1>7. CASE opHold(t)
    <2>1. cmLive' = [cmLive EXCEPT ![t].held = ~cmLive[t].held] /\ Calls(<<Op(t)>>) /\ UNCHANGED <<cmArmed, cmBudget>>
      BY <1>3, <1>7 DEF opHold, Lives
    <2>2. cmLive' \in Lives /\ Unslain(cmLive, cmLive')
      <3>. DEFINE b == ~cmLive[t].held
      <3>1. b \in BOOLEAN
        OBVIOUS
      <3>. HIDE DEF b
      <3>2. [cmLive EXCEPT ![t].held = b] \in Lives /\ Unslain(cmLive, [cmLive EXCEPT ![t].held = b])
        BY <1>3, <3>1, SafeFacts
      <3>. QED
        BY <2>1, <3>2 DEF b
    <2>. QED
      BY <1>2, <1>3, <2>1, <2>2, QuietStep
  <1>8. CASE opPush(t)
    <2>. DEFINE u == IF t \in CmPlayers THEN intent(cmLive, a, t) ELSE cmLive
                v == disengage(u, t)
    <2>1. PICK r \in CmRooms :
            LET w == [v EXCEPT ![t].room = r] IN
            /\ cmLive' = aggroOnEntry(w, t) /\ cmArmed' = (cmArmed \/ aggressor(w, t) # {})
            /\ Calls(aggroEvents(w, t) \o <<Op(t)>>) /\ UNCHANGED cmBudget
      BY <1>8 DEF opPush
    <2>2. u \in Lives /\ Unslain(cmLive, u)
      BY <1>3, <1>4 DEF Unslain
    <2>. HIDE DEF u
    <2>3. v \in Lives /\ Unslain(u, v)
      BY <2>2, DisengageFacts
    <2>4. /\ cmLive' = aggroOnEntry([v EXCEPT ![t].room = r], t) /\ cmArmed' \in BOOLEAN /\ cmBudget' = cmBudget
          /\ Calls(aggroEvents([v EXCEPT ![t].room = r], t) \o <<Op(t)>>)
      BY <2>1
    <2>. HIDE DEF v
    <2>5. /\ cmLive' \in Lives /\ Unslain(v, cmLive')
          /\ aggroEvents([v EXCEPT ![t].room = r], t) \in Seq(Frames)
      BY <2>3, <2>4, MovedFacts
    <2>6. aggroEvents([v EXCEPT ![t].room = r], t) \o <<Op(t)>> \in Seq(Frames)
      BY <1>2, <2>5
    <2>7. cmStack' \in Seq(Frames)
      BY <1>3, <2>4, <2>6
    <2>8. Unslain(cmLive, cmLive')
      BY <2>2, <2>3, <2>5 DEF Unslain
    <2>. QED
      BY <1>3, <2>4, <2>5, <2>7, <2>8, QuietStep
  <1>. QED
    BY <1>5, <1>6, <1>7, <1>8

\* A combat round.
LEMMA RoundKeeps ==
  ASSUME CmInv, runCombatRound \/ roundEnds
  PROVE  CmInv'
  <1>1. CASE runCombatRound
    <2>. DEFINE f == Frame("round", CmNone, CmNone)
                s == Fighters
                g == [f EXCEPT !.set = s]
    <2>1. /\ cmBudget' = CmHandlers /\ UNCHANGED <<cmLive, cmArmed>> /\ cmStack' = <<g>>
          /\ cmLive \in Lives /\ cmArmed \in BOOLEAN
      BY <1>1 DEF runCombatRound, CmInv
    <2>2. f \in CmFrame /\ f.kind = "round" /\ s \in SUBSET Livings
      BY NewFrame DEF FrameKinds, Fighters
    <2>. HIDE DEF f, s
    <2>3. g \in CmFrame /\ g.kind = "round"
      BY <2>2, FrameEdits
    <2>. HIDE DEF g
    <2>4. cmStack' \in Seq(Frames)
      BY <2>1, <2>3, SidedFrames
    <2>. QED
      BY <2>1, <2>4, QuietStep, CmNames DEF Unslain
  <1>2. CASE roundEnds
    <2>1. cmStack # <<>> /\ Calls(<<>>) /\ UNCHANGED <<cmLive, cmBudget>> /\ cmArmed' = stillFights(Top)
      BY <1>2 DEF roundEnds, Running
    <2>2. /\ cmLive \in Lives /\ cmBudget \in 0..CmHandlers /\ Top.flag \in BOOLEAN /\ <<>> \in Seq(Frames)
          /\ cmStack' \in Seq(Frames)
      BY <2>1, TopFacts
    <2>3. cmArmed' \in BOOLEAN
      BY <2>1, <2>2 DEF stillFights
    <2>. QED
      BY <2>1, <2>2, <2>3, QuietStep DEF Unslain
  <1>. QED
    BY <1>1, <1>2

LEMMA SwingKeeps ==
  ASSUME CmInv, NEW e \in Livings, resolveSwings(e)
  PROVE  CmInv'
  <1>1. cmStack # <<>> /\ Top.kind = "round" /\ e \in Top.set /\ UNCHANGED <<cmArmed, cmBudget>>
    BY DEF resolveSwings, Running, Top
  <1>2. /\ cmLive \in Lives /\ cmArmed \in BOOLEAN /\ cmBudget \in 0..CmHandlers /\ Top.flag \in BOOLEAN
        /\ Top \in CmFrame /\ Top.set \in SUBSET Livings
        /\ \A fs \in Seq(Frames) : Calls(fs) => cmStack' \in Seq(Frames)
    BY <1>1, TopFacts
  <1>. DEFINE s == Top.set \ {e}
              b == stillFights(Top)
              rest == [Top EXCEPT !.set = s, !.a = e, !.flag = b]
  <1>3. s \in SUBSET Livings /\ b \in BOOLEAN
    BY <1>2 DEF stillFights
  <1>4. rest \in CmFrame /\ rest.kind = "round"
    <2>. HIDE DEF s, b
    <2>. QED
      BY <1>1, <1>2, <1>3 DEF CmFrame
  <1>5. PICK w \in retargetMob(e) :
          LET t == w[e].fights IN
          IF t = CmNone \/ ~canAct(w, e) \/ w[t].pos = "dead" THEN cmLive' = w /\ Calls(<<rest>>)
          ELSE IF ~Together(w, e, t) THEN cmLive' = stopFight(w, e) /\ Calls(<<rest>>)
          ELSE \/ cmLive' = w /\ Calls(<<rest>>)
               \/ /\ mayHarm(e, t) /\ Calls(dealDamage(e, t) \o <<rest>>)
                  /\ cmLive' = [w EXCEPT ![e].safe = FALSE, ![t].pool = IF @ = 0 THEN 0 ELSE @ - 1,
                                         ![t].threat = IF t \in CmPlayers THEN @ ELSE @ \cup {e}]
    BY DEF resolveSwings
  <1>. HIDE DEF rest
  <1>6. <<rest>> \in Seq(Frames)
    BY <1>4, SidedFrames
  <1>7. w \in Lives /\ Unslain(cmLive, w)
    <2>1. ASSUME NEW f \in Livings
          PROVE  LET v == [cmLive EXCEPT ![e].fights = f, ![e].pos = "fighting"]
                 IN v \in Lives /\ Unslain(cmLive, v)
      <3>. DEFINE r == [cmLive[e] EXCEPT !.fights = f, !.pos = "fighting"]
                  v == [cmLive EXCEPT ![e].fights = f, ![e].pos = "fighting"]
      <3>1. v = [cmLive EXCEPT ![e] = r]
        BY <1>2 DEF Lives
      <3>2. cmLive[e] \in Life
        BY <1>2, LifeFacts
      <3>3. r \in Life /\ r.deaths = cmLive[e].deaths /\ r.dying = cmLive[e].dying
        BY <3>2 DEF Life
      <3>. HIDE DEF r
      <3>4. [cmLive EXCEPT ![e] = r] \in Lives /\ Unslain(cmLive, [cmLive EXCEPT ![e] = r])
        BY <1>2, <3>3, OneLife
      <3>. QED
        BY <3>1, <3>4
    <2>. DEFINE foes == {f \in cmLive[e].threat : Together(cmLive, e, f) /\ cmLive[f].pos # "dead"}
    <2>2. foes \in SUBSET Livings
      BY <1>2, LifeFacts
    <2>3. w \in {cmLive, stopFight(cmLive, e)} \cup
            {[cmLive EXCEPT ![e].fights = f, ![e].pos = "fighting"] : f \in foes}
      BY DEF retargetMob
    <2>. HIDE DEF foes
    <2>4. CASE w \in {[cmLive EXCEPT ![e].fights = f, ![e].pos = "fighting"] : f \in foes}
      BY <2>1, <2>2, <2>4
    <2>5. CASE w = cmLive
      BY <1>2, <2>5 DEF Unslain
    <2>6. CASE w = stopFight(cmLive, e)
      BY <1>2, <2>6, StopFightFacts
    <2>. QED
      BY <2>3, <2>4, <2>5, <2>6
  <1>8. CASE cmLive' \in {w, stopFight(w, e)} /\ Calls(<<rest>>)
    <2>1. stopFight(w, e) \in Lives /\ Unslain(w, stopFight(w, e))
      BY <1>7, StopFightFacts
    <2>2. cmLive' \in Lives /\ Unslain(cmLive, cmLive')
      BY <1>7, <1>8, <2>1 DEF Unslain
    <2>. QED
      BY <1>1, <1>2, <1>6, <1>8, <2>2, QuietStep
  <1>9. ASSUME NEW t \in Livings, Calls(dealDamage(e, t) \o <<rest>>),
               cmLive' = [w EXCEPT ![e].safe = FALSE, ![t].pool = IF @ = 0 THEN 0 ELSE @ - 1,
                                   ![t].threat = IF t \in CmPlayers THEN @ ELSE @ \cup {e}]
        PROVE  CmInv'
    <2>. DEFINE u == [w EXCEPT ![e].safe = FALSE]
                th == IF t \in CmPlayers THEN u[t].threat ELSE u[t].threat \cup {e}
    <2>1. u \in Lives /\ Unslain(w, u)
      BY <1>7, SafeFacts
    <2>2. th \in SUBSET Livings
      BY <2>1, LifeFacts
    <2>3. cmLive' = [u EXCEPT ![t].pool = IF @ = 0 THEN 0 ELSE @ - 1, ![t].threat = th]
      BY <1>7, <1>9, <2>1 DEF Lives
    <2>. HIDE DEF u, th
    <2>4. cmLive' \in Lives /\ Unslain(u, cmLive')
      BY <2>1, <2>2, <2>3, HurtFacts
    <2>5. Unslain(cmLive, cmLive')
      BY <1>7, <2>1, <2>4 DEF Unslain
    <2>6. dealDamage(e, t) \in Seq(Frames)
      BY DamageFrames
    <2>7. dealDamage(e, t) \o <<rest>> \in Seq(Frames)
      BY <1>6, <2>6
    <2>8. cmStack' \in Seq(Frames)
      BY <1>2, <1>9, <2>7
    <2>. QED
      BY <1>1, <1>2, <2>4, <2>5, <2>8, QuietStep
  <1>10. w[e].fights \in Livings \cup {CmNone}
    BY <1>7, LifeFacts
  <1>. QED
    BY <1>5, <1>8, <1>9, <1>10

LEMMA FadesKeep ==
  ASSUME CmInv, NEW e \in Livings, Fades(e)
  PROVE  CmInv'
  <1>1. /\ cmLive \in Lives /\ cmArmed \in BOOLEAN /\ cmBudget \in 0..CmHandlers /\ cmStack \in Seq(Frames)
        /\ UNCHANGED <<cmArmed, cmStack, cmBudget>>
        /\ cmLive' = [cmLive EXCEPT ![e].safe = FALSE, ![e].held = FALSE]
    BY DEF Fades, CmInv
  <1>. DEFINE u == [cmLive EXCEPT ![e].safe = FALSE]
  <1>2. u \in Lives /\ Unslain(cmLive, u)
    BY <1>1, SafeFacts
  <1>3. cmLive' = [u EXCEPT ![e].held = FALSE]
    BY <1>1
  <1>. HIDE DEF u
  <1>4. cmLive' \in Lives /\ Unslain(u, cmLive')
    BY <1>2, <1>3, SafeFacts
  <1>5. Unslain(cmLive, cmLive')
    BY <1>2, <1>4 DEF Unslain
  <1>. QED
    BY <1>1, <1>4, <1>5, QuietStep

\* However the handlers of its depletion, its kill and its death trigger strike it again, a mob dies once:
\* for any players, mobs, rooms, handlers and depth of the cascade (death.go, combat.go, event.go).
THEOREM CombatIsSafe == CmSpec => []CombatSafe
  <1>1. CmInit => CmInv
    <2>. SUFFICES ASSUME CmInit PROVE CmInv
      OBVIOUS
    <2>1. PICK at \in [Livings -> CmRooms] : cmLive = [e \in Livings |-> Born(at[e])]
      BY DEF CmInit
    <2>2. \A e \in Livings : Born(at[e]) \in Life /\ Born(at[e]).deaths = 0
      BY CmNames DEF Born, Life
    <2>3. cmLive \in Lives /\ \A e \in Livings : cmLive[e].deaths = 0
      BY <2>1, <2>2 DEF Lives
    <2>4. cmArmed = FALSE /\ cmStack = <<>> /\ cmBudget = CmHandlers
      BY DEF CmInit
    <2>5. <<>> \in Seq(Frames)
      OBVIOUS
    <2>6. CmHandlers \in 0..CmHandlers
      BY CmNames
    <2>7. \A m \in CmMobs : cmLive[m].deaths = 0
      BY <2>3, CmNames
    <2>. QED
      BY <2>3, <2>4, <2>5, <2>6, <2>7 DEF CmInv
  <1>2. CmInv => CombatSafe
    <2>. SUFFICES ASSUME CmInv PROVE CmTypeOK /\ DiesOnce
      BY DEF CombatSafe
    <2>1. \A i \in 1..Len(cmStack) : cmStack[i] \in Frames
      BY DEF CmInv
    <2>2. \A i \in 1..Len(cmStack) : cmStack[i].kind \in FrameKinds
      BY <2>1 DEF Frames, CmFrame
    <2>3. CmTypeOK
      BY <2>2 DEF CmInv, CmTypeOK, Lives, Life
    <2>4. DiesOnce
      BY CmNames DEF CmInv, DiesOnce
    <2>. QED
      BY <2>3, <2>4
  <1>3. CmInv /\ [CmNext]_cmVars => CmInv'
    <2>. SUFFICES ASSUME CmInv, [CmNext]_cmVars PROVE CmInv'
      OBVIOUS
    <2>1. CASE UNCHANGED cmVars
      BY <2>1 DEF cmVars, CmInv
    <2>2. CASE CmNext
      BY <2>2, KillKeeps, FleeKeeps, EventKeeps, LeaveReactionKeeps, ArriveKeeps, BlowKeeps, DepletedKeeps,
         DieKeeps, RoundKeeps, OpKeeps, SwingKeeps, FadesKeep DEF CmNext
    <2>. QED
      BY <2>1, <2>2
  <1>. QED
    BY <1>1, <1>2, <1>3, PTL DEF CmSpec
=============================================================================
