---------------------------- MODULE MCZoneLease ----------------------------
(* TLC instance of ZoneLease: two shards, and a zone that is no shard's login *)
(* fallback.  Not symmetric in the shards, because liveness is checked too.   *)
EXTENDS ZoneLease, TLC

CONSTANTS s1, s2

TwoShards == {s1, s2}
NoHome == {}
=============================================================================
