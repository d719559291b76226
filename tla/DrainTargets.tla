---------------------------- MODULE DrainTargets -----------------------------
(* Draining shards choosing where their players go (internal/placement:         *)
(* ChooseDrainTarget), on the reservations each makes in Redis                  *)
(* (internal/directory) and the player counts the presence roster reports a     *)
(* heartbeat late.                                                              *)
EXTENDS Integers, FiniteSets

CONSTANTS DtDrainers, DtTargets, DtNone,
          DtIncoming,   \* players a drainer brings
          DtCeiling     \* the soft ceiling of a shard

ASSUME DtAssumption ==
  /\ IsFiniteSet(DtDrainers) /\ DtNone \notin DtTargets
  /\ DtIncoming \in Nat \ {0} /\ DtCeiling \in Nat

VARIABLES
  dtLoad,    \* players on each target
  dtShown,   \* what presence shows
  dtResv,    \* dtResv[t][d]: headroom d holds on t
  dtSent,    \* dtSent[t]: drainers whose players are there, shown or not
  dtD        \* dtD[d]: the drainer, see DtDrainer

dtVars == <<dtLoad, dtShown, dtResv, dtSent, dtD>>

\* cands: the snapshot of DrainCandidates; left: the ones not tried; pass: the reserving
\* pass or the forced one; forced: it goes over the ceiling knowingly.
DtDrainer == [st : {"idle", "choosing", "reserved", "chosen", "sent", "done", "dead"},
              cands : [DtTargets -> Int], left : SUBSET DtTargets, pass : {"reserve", "force"},
              at : DtTargets \cup {DtNone}, ok : BOOLEAN, forced : BOOLEAN]
DtTypeOK ==
  /\ dtLoad \in [DtTargets -> Nat] /\ dtShown \in [DtTargets -> Nat]
  /\ dtResv \in [DtTargets -> [DtDrainers -> Nat]]
  /\ dtSent \in [DtTargets -> SUBSET DtDrainers] /\ dtD \in [DtDrainers -> DtDrainer]

DtInit ==
  /\ dtLoad \in [DtTargets -> 0..DtCeiling] /\ dtShown = dtLoad
  /\ dtResv = [t \in DtTargets |-> [d \in DtDrainers |-> 0]]
  /\ dtSent = [t \in DtTargets |-> {}]
  /\ dtD = [d \in DtDrainers |-> [st |-> "idle", cands |-> dtLoad, left |-> {}, pass |-> "reserve",
                                  at |-> DtNone, ok |-> FALSE, forced |-> FALSE]]

\* The sum of the fields of a target's hash: the places that are held on it.
DtPlaces(t) == UNION {{d} \X (1..dtResv[t][d]) : d \in DtDrainers}
DtHeld(t) == Cardinality(DtPlaces(t))

\* Mutant: a reservation only looks at the drainer's own field.
fitsAlone(d, t, headroom) == dtResv[t][d] + DtIncoming <= headroom

\* reserveDrainTarget: everything unexpired on the target and the newcomers fit.
reserveDrainTarget(d, t, headroom) == DtHeld(t) + DtIncoming <= headroom

------------------------------------------------------------------------------
(* ChooseDrainTarget.                                                          *)

\* DrainCandidates; a roster that cannot be read shows every shard empty.
DtList(d, dark) ==
  /\ dtD[d].st = "idle"
  /\ dtD' = [dtD EXCEPT ![d].st = "choosing", ![d].left = DtTargets,
                        ![d].cands = [t \in DtTargets |-> IF dark THEN 0 ELSE dtShown[t]],
                        ![d].forced = dark]
  /\ UNCHANGED <<dtLoad, dtShown, dtResv, dtSent>>

\* SelectDrainTarget: the least loaded of what is left.
SelectDrainTarget(d, t) == t \in dtD[d].left /\ \A u \in dtD[d].left : dtD[d].cands[t] <= dtD[d].cands[u]
Over(d, t) == dtD[d].cands[t] + DtIncoming > DtCeiling

\* One turn of either loop up to the reservation.
DtReserve(d, t) ==
  LET ok == reserveDrainTarget(d, t, DtCeiling - dtD[d].cands[t])
  IN /\ dtD[d].st = "choosing" /\ SelectDrainTarget(d, t)
     /\ dtResv' = IF ok THEN [dtResv EXCEPT ![t][d] = @ + DtIncoming] ELSE dtResv
     /\ dtD' = [dtD EXCEPT ![d].st = "reserved", ![d].at = t, ![d].ok = ok]
     /\ UNCHANGED <<dtLoad, dtShown, dtSent>>

\* resolveOrDrop, and the target is taken; without a reservation only when it was over the
\* ceiling anyway, or in the forced pass.
DtTake(d) ==
  /\ dtD[d].st = "reserved" /\ (dtD[d].ok \/ Over(d, dtD[d].at) \/ dtD[d].pass = "force")
  /\ dtD' = [dtD EXCEPT ![d].st = "chosen", ![d].forced = @ \/ ~dtD[d].ok]
  /\ UNCHANGED <<dtLoad, dtShown, dtResv, dtSent>>

\* releaseAbandoned
abandoned(d) == [dtResv EXCEPT ![dtD[d].at][d] = 0]

\* No reservation, or no endpoint: the target is dropped, its reservation given back; a
\* pass that ran out is followed by the forced one, and that by giving up.
DtDrop(d) ==
  LET rest == dtD[d].left \ {dtD[d].at}
      over == rest = {} /\ dtD[d].pass = "force"
  IN /\ dtD[d].st = "reserved"
     /\ dtResv' = IF dtD[d].ok THEN abandoned(d) ELSE dtResv
     /\ dtD' = [dtD EXCEPT ![d].st = IF over THEN "done" ELSE "choosing", ![d].at = DtNone,
                           ![d].left = IF rest = {} THEN DtTargets ELSE rest,
                           ![d].pass = IF rest = {} THEN "force" ELSE @]
     /\ UNCHANGED <<dtLoad, dtShown, dtSent>>

------------------------------------------------------------------------------
(* The drain, and what becomes of a reservation.                               *)

\* The players arrive, or the handover failed and none do.
DtSend(d, ok) ==
  LET t == dtD[d].at
  IN /\ dtD[d].st = "chosen"
     /\ dtD' = [dtD EXCEPT ![d].st = IF ok THEN "sent" ELSE "done"]
     /\ dtLoad' = IF ok THEN [dtLoad EXCEPT ![t] = @ + DtIncoming] ELSE dtLoad
     /\ dtSent' = IF ok THEN [dtSent EXCEPT ![t] = @ \cup {d}] ELSE dtSent
     /\ dtResv' = IF ok THEN dtResv ELSE [dtResv EXCEPT ![t][d] = 0]
     /\ UNCHANGED dtShown

DtPresence(t) ==
  /\ dtShown[t] # dtLoad[t] /\ dtShown' = [dtShown EXCEPT ![t] = dtLoad[t]]
  /\ UNCHANGED <<dtLoad, dtResv, dtSent, dtD>>

\* expireDrainTargetSoon leaves a reservation PresenceReflectWindow to go, which covers a
\* presence heartbeat and any pass that listed the roster before it.
lapses(d, t) == dtShown[t] = dtLoad[t] /\ \A e \in DtDrainers : dtD[e].st \notin {"choosing", "reserved"}

DtRetire(d) ==
  LET t == dtD[d].at
  IN /\ dtD[d].st = "sent" /\ lapses(d, t)
     /\ dtD' = [dtD EXCEPT ![d].st = "done"] /\ dtResv' = [dtResv EXCEPT ![t][d] = 0]
     /\ UNCHANGED <<dtLoad, dtShown, dtSent>>

\* A drainer that died holds its fields until their TTL.
DtDie(d) ==
  /\ dtD[d].st \in {"choosing", "reserved", "chosen"} /\ dtD' = [dtD EXCEPT ![d].st = "dead"]
  /\ UNCHANGED <<dtLoad, dtShown, dtResv, dtSent>>
DtTTL(d) ==
  /\ dtD[d].st = "dead" /\ \E t \in DtTargets : dtResv[t][d] > 0
  /\ dtResv' = [t \in DtTargets |-> [dtResv[t] EXCEPT ![d] = 0]]
  /\ UNCHANGED <<dtLoad, dtShown, dtSent, dtD>>

DtNext ==
  \/ \E t \in DtTargets : DtPresence(t)
  \/ \E d \in DtDrainers :
       \/ DtTake(d) \/ DtDrop(d) \/ DtRetire(d) \/ DtDie(d) \/ DtTTL(d)
       \/ \E b \in BOOLEAN : DtList(d, b) \/ DtSend(d, b)
       \/ \E t \in DtTargets : DtReserve(d, t)

DtSpec == DtInit /\ [][DtNext]_dtVars

------------------------------------------------------------------------------
(* Properties.                                                                 *)

\* Two drains at once: as long as none knowingly went over (no room anywhere, or no roster
\* to read), no target is loaded past the ceiling, though each chose on counts a heartbeat
\* old; and a drain that is over leaves no headroom held.
CeilingShared ==
  /\ \A t \in DtTargets :
       dtSent[t] # {} /\ (\A d \in DtDrainers : ~dtD[d].forced) => dtLoad[t] <= DtCeiling
  /\ \A d \in DtDrainers : dtD[d].st \in {"idle", "done"} => \A t \in DtTargets : dtResv[t][d] = 0

\* The safety invariant: the types, and the properties above that hold of every state.
\* Drains that choose the same target share its ceiling and give their headroom back (drain.go, directory/redis.go).
TargetsSafe == DtTypeOK /\ CeilingShared
=============================================================================
