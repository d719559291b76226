------------------------------ MODULE MCRules -------------------------------
(* TLC instance of what a zone's single goroutine runs: combat, affects and   *)
(* items.  A behaviour takes the steps of one component, its focus; the others *)
(* rest in one initial state.                                                 *)
EXTENDS Combat, AffectTicks, Items

VARIABLE focus

\* One ore, twice: the inputs of a recipe may name an item more than once.
ItRecipe == <<[item |-> "ore", qty |-> 1], [item |-> "ore", qty |-> 1]>>

Init ==
  /\ focus \in {"combat", "affects", "items"}
  /\ CmInit /\ (focus = "combat" \/ \A e \in Livings : (cmLive[e].room = CmStart) = (e \in CmPlayers))
  /\ AtInit
  /\ ItInit /\ itKeeper[2] = CHOOSE i \in ItPlayers : TRUE   \* the players are interchangeable
Next ==
  /\ UNCHANGED focus
  /\ \/ focus = "combat" /\ CmNext /\ UNCHANGED <<atVars, itVars>>
     \/ focus = "affects" /\ AtNext /\ UNCHANGED <<cmVars, itVars>>
     \/ focus = "items" /\ ItNext /\ UNCHANGED <<cmVars, atVars>>
Spec == Init /\ [][Next]_<<focus, cmVars, atVars, itVars>>
=============================================================================
