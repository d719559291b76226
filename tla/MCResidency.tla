---------------------------- MODULE MCResidency ----------------------------
(* TLC instance of the components that place players within a shard and on    *)
(* the fleet's roster.  A behaviour takes the steps of one component, its     *)
(* focus; the others rest in an initial state, where no fair action of theirs *)
(* is enabled.                                                                *)
EXTENDS Residency, Instances, SessionPresence

VARIABLE focus

Init ==
  /\ focus \in {"residency", "instances", "presence"}
  /\ RsInit /\ InInit /\ SpInit
Next ==
  /\ UNCHANGED focus
  /\ \/ focus = "residency" /\ RsNext /\ UNCHANGED <<inVars, spVars>>
     \/ focus = "instances" /\ InNext /\ UNCHANGED <<rsVars, spVars>>
     \/ focus = "presence" /\ SpNext /\ UNCHANGED <<rsVars, inVars>>
Spec == Init /\ [][Next]_<<focus, rsVars, inVars, spVars>> /\ RsFair /\ InFair /\ SpFair
=============================================================================
