----------------------------- MODULE MCStorage -----------------------------
(* TLC instance of the components that keep the durable state of characters   *)
(* and accounts, and of the script runtime, which only shares the run.  A     *)
(* behaviour takes the steps of one component, its focus; the others rest in  *)
(* one initial state.                                                         *)
EXTENDS PlayerPlacement, Saver, Accounts, TrustTiers, LuaRuntime, TLC

VARIABLE focus

Init ==
  /\ focus \in {"placement", "saver", "accounts", "tiers", "scripts"}
  /\ PlInit
  /\ SvInit /\ (focus = "saver" \/ ~svRow.exists)
  /\ AcInit /\ (focus = "accounts" \/ acKnown = {})
  /\ TtInit /\ (focus = "tiers" \/ \A a \in TtAccounts : ttTier[a] = "player")
  /\ LuInit
Next ==
  /\ UNCHANGED focus
  /\ \/ focus = "placement" /\ PlNext /\ UNCHANGED <<svVars, acVars, ttVars, luVars>>
     \/ focus = "saver" /\ SvNext /\ UNCHANGED <<plVars, acVars, ttVars, luVars>>
     \/ focus = "accounts" /\ AcNext /\ UNCHANGED <<plVars, svVars, ttVars, luVars>>
     \/ focus = "tiers" /\ TtNext /\ UNCHANGED <<plVars, svVars, acVars, luVars>>
     \/ focus = "scripts" /\ LuNext /\ UNCHANGED <<plVars, svVars, acVars, ttVars>>
Spec == Init /\ [][Next]_<<focus, plVars, svVars, acVars, ttVars, luVars>>

Symmetry == Permutations(SvShards)
=============================================================================
