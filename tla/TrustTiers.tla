----------------------------- MODULE TrustTiers -----------------------------
(* Promote and demote: staff at their gates change an account's tier through the  *)
(* account service, whose ceilings are checked outside the row lock and bound by a *)
(* compare-and-set, while the operator's command line writes any tier             *)
(* (account/service.go SetAccountTier, store/account.go, content/trusttier.go,    *)
(* gate/tier.go).                                                                 *)
EXTENDS Naturals

CONSTANTS TtAccounts,  \* accounts, each with a character and a connection
          TtNone,
          TtWrites     \* bound: tier writes, each with its audit row

ASSUME TtAssumption == TtNone \notin TtAccounts /\ TtWrites \in Nat

VARIABLES
  ttTier,    \* accounts.tier
  ttReq,     \* the tier change an account asked for: stage, target, new tier, and the tiers read so far
  ttStaff,   \* the login's answer to "may this session use the staff verbs"
  ttStale,   \* live content is newer than the ladder the service loaded
  ttLeft     \* writes left

ttVars == <<ttTier, ttReq, ttStaff, ttStale, ttLeft>>

\* The content ladder: the default's ends, and two tiers of one rank where one holds more.
DefaultTrustTiers ==
  [player |-> [rank |-> 0, caps |-> {}],
   gm     |-> [rank |-> 30, caps |-> {"admin"}],
   warden |-> [rank |-> 30, caps |-> {"admin", "holylight"}],
   admin  |-> [rank |-> 40, caps |-> {"admin", "holylight", "builder"}]]
Tiers == DOMAIN DefaultTrustTiers
Rank(t) == DefaultTrustTiers[t].rank
GrantsFlag(t, flag) == flag \in DefaultTrustTiers[t].caps
TierDominates(holder, other) == DefaultTrustTiers[other].caps \subseteq DefaultTrustTiers[holder].caps
Baseline == CHOOSE t \in Tiers : \A u \in Tiers : Rank(t) <= Rank(u)

NoReq == [at |-> "none", target |-> TtNone, new |-> TtNone, standing |-> TtNone, seen |-> TtNone]
TtTypeOK ==
  /\ ttTier \in [TtAccounts -> Tiers] /\ ttStaff \in [TtAccounts -> BOOLEAN]
  /\ ttReq \in [TtAccounts -> [at : {"none", "actor", "target", "write"}, target : TtAccounts \cup {TtNone},
                               new : Tiers \cup {TtNone}, standing : Tiers \cup {TtNone}, seen : Tiers \cup {TtNone}]]
  /\ ttStale \in BOOLEAN /\ ttLeft \in 0..TtWrites

\* A database as earlier promotions left it.
TtInit ==
  /\ ttTier \in [TtAccounts -> Tiers] /\ ttStaff = [a \in TtAccounts |-> FALSE]
  /\ ttReq = [a \in TtAccounts |-> NoReq] /\ ttStale = FALSE /\ ttLeft = TtWrites

\* Each login asks once whether the account's tier manages tiers; a failed read says no.
IssueSessionAssertion(a, read) ==
  /\ ttReq[a] = NoReq /\ ttStaff' = [ttStaff EXCEPT ![a] = read /\ GrantsFlag(ttTier[a], "admin")]
  /\ UNCHANGED <<ttTier, ttReq, ttStale, ttLeft>>

\* promote <character> <tier>, demote <character>: hidden from a session the login called mortal.
handleTierCommand(a, target, tier) ==
  /\ ttStaff[a] /\ ttReq[a] = NoReq
  /\ ttReq' = [ttReq EXCEPT ![a] = [@ EXCEPT !.at = "actor", !.target = target,
                                             !.new = IF tier = TtNone THEN Baseline ELSE tier]]
  /\ UNCHANGED <<ttTier, ttStaff, ttStale, ttLeft>>

\* The grant side: the tier asked for neither outranks the actor's nor holds a capability it lacks.
mayGrant(actor, new) == Rank(new) <= Rank(actor) /\ TierDominates(actor, new)
\* The target side: the tier replaced does not outrank the actor's, nor, at equal rank, hold more.
mayReplace(actor, old) ==
  Rank(old) <= Rank(actor) /\ (Rank(old) = Rank(actor) => TierDominates(actor, old))

\* SetAccountTier: refuse on a stale ladder, read the actor's tier and hold it to the grant
\* ceilings; then read the target's and hold the actor to the target ceilings.
SetAccountTier(a) ==
  LET standing == ttTier[a]
  IN /\ ttReq[a].at = "actor"
     /\ ttReq' = [ttReq EXCEPT ![a] =
          IF ~ttStale /\ GrantsFlag(standing, "admin") /\ mayGrant(standing, @.new)
          THEN [@ EXCEPT !.at = "target", !.standing = standing] ELSE NoReq]
     /\ UNCHANGED <<ttTier, ttStaff, ttStale, ttLeft>>
checkTarget(a) ==
  LET seen == ttTier[ttReq[a].target]
  IN /\ ttReq[a].at = "target"
     /\ ttReq' = [ttReq EXCEPT ![a] = IF mayReplace(@.standing, seen) THEN [@ EXCEPT !.at = "write", !.seen = seen] ELSE NoReq]
     /\ UNCHANGED <<ttTier, ttStaff, ttStale, ttLeft>>

SetTier(target, new) ==
  ttLeft > 0 /\ ttLeft' = ttLeft - 1 /\ ttTier' = [ttTier EXCEPT ![target] = new]
\* Mutant: the store writes the tier whatever it has become since the check.
tierMoved(r) == TRUE
tierAsChecked(r) == ttTier[r.target] = r.seen
writeTier(a) ==
  LET r == ttReq[a]
  IN /\ r.at = "write" /\ ttReq' = [ttReq EXCEPT ![a] = NoReq]
     /\ IF tierAsChecked(r) THEN SetTier(r.target, r.new) ELSE UNCHANGED <<ttTier, ttLeft>>
     /\ UNCHANGED <<ttStaff, ttStale>>
\* The operator's command line.
SetAccountTierSystem(target, new) ==
  /\ SetTier(target, new) /\ UNCHANGED <<ttReq, ttStaff, ttStale>>

\* A content reload outdates the service's ladder until the service restarts.
liveContentVersion == ~ttStale /\ ttStale' = TRUE /\ UNCHANGED <<ttTier, ttReq, ttStaff, ttLeft>>
WithTrustLadder ==
  /\ ttStale /\ ttStale' = FALSE /\ ttReq' = [a \in TtAccounts |-> NoReq]
  /\ UNCHANGED <<ttTier, ttStaff, ttLeft>>

TtNext ==
  \/ \E a \in TtAccounts :
       \/ SetAccountTier(a) \/ checkTarget(a) \/ writeTier(a)
       \/ \E read \in BOOLEAN : IssueSessionAssertion(a, read)
       \/ \E target \in TtAccounts, t \in Tiers \cup {TtNone} : handleTierCommand(a, target, t)
  \/ \E a \in TtAccounts, t \in Tiers : SetAccountTierSystem(a, t)
  \/ liveContentVersion \/ WithTrustLadder
TtSpec == TtInit /\ [][TtNext]_ttVars

\* A tier written for an actor replaces one that the actor's standing, as the service read it,
\* may replace, by one it may grant, whoever else changed the target while the checks ran
\* (account/service.go SetAccountTier, store/account.go SetAccountTier).
CeilingsBind ==
  []TtTypeOK /\
  [][\A a \in TtAccounts :
       LET r == ttReq[a]
       IN (r.at = "write" /\ ttReq'[a] = NoReq /\ ttTier' # ttTier) =>
            mayGrant(r.standing, ttTier'[r.target]) /\ mayReplace(r.standing, ttTier[r.target])]_ttVars
=============================================================================
