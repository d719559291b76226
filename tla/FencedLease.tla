---------------------------- MODULE FencedLease ----------------------------
(* What the directory promises about one zone, whoever crashes, whatever is   *)
(* lost or delayed: a lock with fencing tokens.  At most one shard holds the  *)
(* zone; the zone moves from one holder straight to the next only when the    *)
(* holder hands it over; and every change of owner is granted under a token   *)
(* greater than every token granted before.                                   *)
EXTENDS Naturals

CONSTANTS Shards, None

VARIABLES holder,   \* the live owner, or None
          grants    \* every <<token, shard>> ever granted

Init == holder = None /\ grants = {}

\* One new grant, to s, under a token greater than all granted before.
Grant(s) ==
  \E p \in grants' : /\ p[2] = s
                     /\ \A q \in grants : q[1] < p[1]
                     /\ grants' = grants \cup {p}

\* A free zone is granted under a fresh token ...
Acquire(s) == holder = None /\ holder' = s /\ Grant(s)

\* ... or to the shard that held it last, under the token it already has.
Resume(s) ==
  /\ holder = None
  /\ \E p \in grants : p[2] = s /\ \A q \in grants : q[1] <= p[1]
  /\ holder' = s
  /\ UNCHANGED grants

HandOver(s, t) == holder = s /\ s # t /\ holder' = t /\ Grant(t)

\* The lease lapses, is released, or the directory loses the key.
Lose == holder' = None /\ UNCHANGED grants

Next == \/ Lose
        \/ \E s \in Shards : Acquire(s) \/ Resume(s)
        \/ \E s, t \in Shards : HandOver(s, t)

vars == <<holder, grants>>

Spec == Init /\ [][Next]_vars
=============================================================================
