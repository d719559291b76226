------------------------------ MODULE MCComms -------------------------------
(* TLC instance of the components that carry a player's lines and messages.   *)
(* A behaviour takes the steps of one component, its focus; the others rest   *)
(* in one initial state.                                                      *)
EXTENDS InputReplay, Tells, Mailbox, ChannelComms, TLC

VARIABLE focus

\* The gate's shard and the author's are the same: the two components do not meet.
Init ==
  /\ focus \in {"input", "tells", "mail", "channels"}
  /\ TlInit /\ (focus = "tells" \/ tlMe.at = "zone")
  /\ IrInit /\ \A g \in IrGates : irGate[g].to = tlAuthor.at
  /\ MbInit
  /\ ChInit /\ (focus = "channels" \/ (chMe.pass /\ chMe.at = CHOOSE z \in ChZones : TRUE))
\* A connection that moves there and back, or whose first login is refused, is alone:
\* with two, one move is enough.
Alone == irGate'[2].st = "off" \/ (irChar'.moves < 2 /\ irUp'[1].bound # "refused")
\* A dropped post or a failed read meets one act of the player; two acts meet without it.
OneFault == chRun'.faults = 0 \/ chRun'.acts < 2
Next ==
  /\ UNCHANGED focus
  /\ \/ focus = "input" /\ IrNext /\ Alone /\ UNCHANGED <<tlVars, mbVars, chVars>>
     \/ focus = "tells" /\ TlNext /\ UNCHANGED <<irVars, mbVars, chVars>>
     \/ focus = "mail" /\ MbNext /\ UNCHANGED <<irVars, tlVars, chVars>>
     \/ focus = "channels" /\ ChNext /\ OneFault /\ UNCHANGED <<irVars, tlVars, mbVars>>
Spec == Init /\ [][Next]_<<focus, irVars, tlVars, mbVars, chVars>>

Symmetry == Permutations(IrShards)
=============================================================================
