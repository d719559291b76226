------------------------------ MODULE MCFleet -------------------------------
(* TLC instance of the components that run the fleet: directors, the          *)
(* placement planner, drains and their targets, private instances.  A         *)
(* behaviour takes the steps of one component, its focus; the others rest in  *)
(* one initial state.                                                         *)
EXTENDS Director, Planner, DrainTargets, ShardDrain, Instances, TLC

VARIABLE focus

Init ==
  /\ focus \in {"director", "planner", "targets", "drain", "instances"}
  /\ DrInit /\ InInit
  /\ PnInit
  /\ focus = "planner" \/ \A z \in Zones : pnOwner[z] = 0 /\ pnSeen[z] = 0 /\ pnRegion[z] = 0
  /\ DtInit /\ (focus = "targets" \/ \A t \in DtTargets : dtLoad[t] = 0)
  /\ DpInit /\ (focus = "drain" \/ \A p \in DpPlayers : dpP[p].at = "leased")
Next ==
  /\ UNCHANGED focus
  /\ \/ focus = "director" /\ DrNext /\ UNCHANGED <<pnVars, dtVars, dpVars, inVars>>
     \/ focus = "planner" /\ PnNext /\ UNCHANGED <<drVars, dtVars, dpVars, inVars>>
     \/ focus = "targets" /\ DtNext /\ UNCHANGED <<drVars, pnVars, dpVars, inVars>>
     \/ focus = "drain" /\ DpNext /\ UNCHANGED <<drVars, pnVars, dtVars, inVars>>
     \/ focus = "instances" /\ InNext /\ UNCHANGED <<drVars, pnVars, dtVars, dpVars>>
Spec == Init /\ [][Next]_<<focus, drVars, pnVars, dtVars, dpVars, inVars>>

Symmetry == Permutations(DrDirs)
=============================================================================
