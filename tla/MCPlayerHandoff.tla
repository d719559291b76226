-------------------------- MODULE MCPlayerHandoff --------------------------
(* TLC instances of PlayerHandoff.                                            *)
EXTENDS PlayerHandoff, TLC

CONSTANTS s1, s2

TwoShards == {s1, s2}
AllEvents == {"crash", "save", "lost placement", "lost reply"}
NoSaves == AllEvents \ {"save"}
Symmetry == Permutations(Shards)
=============================================================================
