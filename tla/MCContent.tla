----------------------------- MODULE MCContent ------------------------------
(* TLC instance of the components that bring content and shared state to a    *)
(* shard.  A behaviour takes the steps of one component, its focus; the       *)
(* others rest in their initial state.                                        *)
EXTENDS ContentReload, ContentStore, ScopeReplica

VARIABLE focus

Init ==
  /\ focus \in {"reload", "store", "replica"}
  /\ CrInit /\ CsInit /\ ScInit
\* The store's fault meets one installer; two installers meet without it.
OneTrouble == csLeft' = CsFaults \/ csPull'["cli"].at = "idle"
Next ==
  /\ UNCHANGED focus
  /\ \/ focus = "reload" /\ CrNext /\ UNCHANGED <<csVars, scVars>>
     \/ focus = "store" /\ CsNext /\ OneTrouble /\ UNCHANGED <<crVars, scVars>>
     \/ focus = "replica" /\ ScNext /\ UNCHANGED <<crVars, csVars>>
Spec == Init /\ [][Next]_<<focus, crVars, csVars, scVars>>
=============================================================================
