--------------------------- MODULE StorageProofs ---------------------------
(* Machine-checked proofs about the components that keep durable state, for   *)
(* any accounts, connections, shards and bounds: the tier ceilings of         *)
(* TrustTiers, the ownership of characters in Accounts, and the write path of *)
(* a character in Saver: content of a newer claim stands, a checkpoint is     *)
(* never staler than the row it ties with, and a clean quit reaches the row.  *)
EXTENDS Accounts, TrustTiers, Saver, TLAPS

-----------------------------------------------------------------------------
(* TrustTiers.  A request at a later stage has passed the earlier checks, and  *)
(* what they read is in the request.                                          *)

\* What the checks have established of a request, by its stage.
Checked(r) ==
  /\ r.at # "none" => r.target \in TtAccounts /\ r.new \in Tiers
  /\ r.at \in {"target", "write"} => r.standing \in Tiers /\ mayGrant(r.standing, r.new)
  /\ r.at = "write" => r.seen \in Tiers /\ mayReplace(r.standing, r.seen)

TtInv == TtTypeOK /\ \A a \in TtAccounts : Checked(ttReq[a])

\* The four tiers of the ladder; the baseline is one of them.
LEMMA LadderTiers == Tiers = {"player", "gm", "warden", "admin"} /\ Baseline \in Tiers
  <1>1. Tiers = {"player", "gm", "warden", "admin"}
    BY DEF Tiers, DefaultTrustTiers
  <1>2. \A u \in Tiers : Rank("player") <= Rank(u)
    BY <1>1 DEF Rank, DefaultTrustTiers
  <1>3. \E t \in Tiers : \A u \in Tiers : Rank(t) <= Rank(u)
    BY <1>1, <1>2
  <1>4. Baseline \in Tiers
    BY <1>3 DEF Baseline
  <1>. QED
    BY <1>1, <1>4

\* The initial database has no request.
LEMMA TtInitInv == TtInit => TtInv
  <1>. SUFFICES ASSUME TtInit PROVE TtInv
    OBVIOUS
  <1>1. \A a \in TtAccounts : ttReq[a] = NoReq
    BY DEF TtInit
  <1>2. ttReq \in [TtAccounts -> [at : {"none", "actor", "target", "write"}, target : TtAccounts \cup {TtNone},
                                 new : Tiers \cup {TtNone}, standing : Tiers \cup {TtNone}, seen : Tiers \cup {TtNone}]]
    BY DEF TtInit, NoReq
  <1>3. ttStaff \in [TtAccounts -> BOOLEAN] /\ ttStale \in BOOLEAN
    BY DEF TtInit
  <1>4. ttTier \in [TtAccounts -> Tiers] /\ ttLeft \in 0..TtWrites
    BY TtAssumption DEF TtInit
  <1>5. Checked(NoReq)
    BY DEF Checked, NoReq
  <1>. QED
    BY <1>1, <1>2, <1>3, <1>4, <1>5 DEF TtInv, TtTypeOK

\* Every step keeps the invariant, and a tier written for an actor is within the ceilings.
LEMMA TtStep ==
  ASSUME TtInv, [TtNext]_ttVars
  PROVE  TtInv'
  <1>. USE TtAssumption DEF TtInv, TtTypeOK
  <1>1. ASSUME NEW a \in TtAccounts, SetAccountTier(a)
        PROVE  TtInv'
    BY <1>1 DEF SetAccountTier, Checked, NoReq
  <1>2. ASSUME NEW a \in TtAccounts, checkTarget(a)
        PROVE  TtInv'
    BY <1>2 DEF checkTarget, Checked, NoReq
  <1>3. ASSUME NEW a \in TtAccounts, writeTier(a)
        PROVE  TtInv'
    BY <1>3 DEF writeTier, SetTier, Checked, NoReq
  <1>4. ASSUME NEW a \in TtAccounts, NEW read \in BOOLEAN, IssueSessionAssertion(a, read)
        PROVE  TtInv'
    BY <1>4 DEF IssueSessionAssertion
  <1>5. ASSUME NEW a \in TtAccounts, NEW target \in TtAccounts, NEW t \in Tiers \cup {TtNone},
               handleTierCommand(a, target, t)
        PROVE  TtInv'
    <2>. DEFINE new == IF t = TtNone THEN Baseline ELSE t
                r == [ttReq[a] EXCEPT !.at = "actor", !.target = target, !.new = new]
    <2>1. new \in Tiers
      BY LadderTiers
    <2>2. ttReq' = [ttReq EXCEPT ![a] = r] /\ UNCHANGED <<ttTier, ttStaff, ttStale, ttLeft>>
      BY <1>5 DEF handleTierCommand
    <2>3. Checked(r)
      BY <2>1 DEF Checked
    <2>. HIDE DEF new
    <2>4. TtTypeOK'
      <3>1. ttReq[a] \in [at : {"none", "actor", "target", "write"}, target : TtAccounts \cup {TtNone},
                          new : Tiers \cup {TtNone}, standing : Tiers \cup {TtNone}, seen : Tiers \cup {TtNone}]
        OBVIOUS
      <3>2. r \in [at : {"none", "actor", "target", "write"}, target : TtAccounts \cup {TtNone},
                   new : Tiers \cup {TtNone}, standing : Tiers \cup {TtNone}, seen : Tiers \cup {TtNone}]
        BY <2>1, <3>1
      <3>. HIDE DEF r
      <3>. QED
        BY <2>2, <3>2
    <2>5. \A b \in TtAccounts : Checked(ttReq[b])'
      BY <2>2, <2>3
    <2>. QED
      BY <2>4, <2>5
  <1>6. ASSUME NEW a \in TtAccounts, NEW t \in Tiers, SetAccountTierSystem(a, t)
        PROVE  TtInv'
    BY <1>6 DEF SetAccountTierSystem, SetTier
  <1>7. CASE liveContentVersion
    BY <1>7 DEF liveContentVersion
  <1>8. CASE WithTrustLadder
    BY <1>8 DEF WithTrustLadder, Checked, NoReq
  <1>9. CASE UNCHANGED ttVars
    BY <1>9 DEF ttVars
  <1>. QED
    BY <1>1, <1>2, <1>3, <1>4, <1>5, <1>6, <1>7, <1>8, <1>9 DEF TtNext

\* A tier written for an actor replaces one the actor may replace, by one it may grant.
LEMMA TtCeiling ==
  ASSUME TtInv, [TtNext]_ttVars, NEW a \in TtAccounts,
         ttReq[a].at = "write", ttReq'[a] = NoReq, ttTier' # ttTier
  PROVE  /\ mayGrant(ttReq[a].standing, ttTier'[ttReq[a].target])
         /\ mayReplace(ttReq[a].standing, ttTier[ttReq[a].target])
  <1>. USE DEF TtInv, TtTypeOK
  <1>1. ttReq[a] # NoReq
    BY DEF NoReq
  <1>2. ASSUME NEW b \in TtAccounts, writeTier(b)
        PROVE  b = a /\ tierAsChecked(ttReq[a]) /\ SetTier(ttReq[a].target, ttReq[a].new)
    BY <1>1, <1>2 DEF writeTier
  <1>3. \E b \in TtAccounts : writeTier(b)
    BY <1>1 DEF TtNext, SetAccountTier, checkTarget, IssueSessionAssertion, handleTierCommand,
                SetAccountTierSystem, SetTier, liveContentVersion, WithTrustLadder, ttVars
  <1>4. tierAsChecked(ttReq[a]) /\ SetTier(ttReq[a].target, ttReq[a].new)
    BY <1>2, <1>3
  <1>5. Checked(ttReq[a])
    OBVIOUS
  <1>. QED
    BY <1>4, <1>5 DEF SetTier, tierAsChecked, Checked

\* SetAccountTier's ceilings bind every tier it writes, whoever else wrote the target's tier
\* between its checks and its compare-and-set.
THEOREM TierCeilingsBind == TtSpec => CeilingsBind
  <1>1. TtInv => TtTypeOK
    BY DEF TtInv
  <1>2. TtInv /\ [TtNext]_ttVars =>
          [\A a \in TtAccounts :
             LET r == ttReq[a]
             IN (r.at = "write" /\ ttReq'[a] = NoReq /\ ttTier' # ttTier) =>
                  mayGrant(r.standing, ttTier'[r.target]) /\ mayReplace(r.standing, ttTier[r.target])]_ttVars
    BY TtCeiling
  <1>. QED
    BY <1>1, <1>2, TtInitInv, TtStep, PTL DEF TtSpec, CeilingsBind

-----------------------------------------------------------------------------
(* Accounts.  An owned name never changes hands: what a connection saw of its  *)
(* account's characters stays true, and its menu lists only those.             *)

\* What a connection knows of its account, by the stage of its login.
Knows(conn) ==
  /\ conn.shown \subseteq Characters(conn.acct)
  /\ conn.at \in {"menu", "walk", "insert", "in"} => conn.acct \in AcAccounts
  /\ conn.at \in {"insert", "in"} => conn.name \in AcNames
  /\ conn.at = "in" => acOwner[conn.name] = conn.acct
  /\ conn.at \in {"off", "wait"} => conn.shown = {}

AcInv ==
  /\ AcTypeOK
  /\ \A c \in AcConns : Knows(acConn[c]) /\ (acWeb[c].at # "none" => acWeb[c].id \in AcAccounts)

\* The initial state has nobody connected.
LEMMA AcInitInv == AcInit => AcInv
  <1>. SUFFICES ASSUME AcInit PROVE AcInv
    OBVIOUS
  <1>1. acKnown \subseteq AcAccounts /\ acOwner \in [AcNames -> AcAccounts \cup {AcNone}]
    BY DEF AcInit
  <1>2. acLeft \in [logins : 0..AcLogins, faults : 0..AcFaults]
    BY AcAssumption DEF AcInit
  <1>3. AcTypeOK
    BY <1>1, <1>2 DEF AcInit, AcTypeOK, Off, NoWeb
  <1>4. Knows(Off)
    BY DEF Knows, Off
  <1>. QED
    BY <1>3, <1>4 DEF AcInv, AcInit, NoWeb

\* A step that leaves the characters alone leaves what connections know of them.
LEMMA AcKnowsStays ==
  ASSUME acOwner' = acOwner, NEW conn, Knows(conn)
  PROVE  Knows(conn)'
  BY DEF Knows, Characters

\* A connection replaced by one that knows no more than is so keeps what the connections know.
AcConn == [at : {"off", "wait", "menu", "walk", "insert", "in"}, acct : AcAccounts \cup {AcNone},
           shown : SUBSET AcNames, name : AcNames \cup {AcNone}]
LEMMA AcConnMoves ==
  ASSUME AcInv, acOwner' = acOwner, NEW c \in AcConns, NEW conn \in AcConn, Knows(conn),
         acConn' = [acConn EXCEPT ![c] = conn]
  PROVE  acConn' \in [AcConns -> AcConn] /\ \A d \in AcConns : Knows(acConn[d])'
  <1>1. acConn' \in [AcConns -> AcConn]
    BY DEF AcInv, AcTypeOK, AcConn
  <1>2. \A d \in AcConns : Knows(acConn'[d])
    BY DEF AcInv, AcTypeOK, AcConn
  <1>. QED
    BY <1>1, <1>2 DEF Knows, Characters

\* Every step keeps the invariant.
LEMMA AcStep ==
  ASSUME AcInv, [AcNext]_acVars
  PROVE  AcInv'
  <1>. USE AcAssumption DEF AcInv, AcTypeOK
  <1>1. ASSUME NEW c \in AcConns, StartDeviceAuth(c)
        PROVE  AcInv'
    <2>. DEFINE conn == [acConn[c] EXCEPT !.at = "wait"]
    <2>1. /\ acConn[c].at = "off" /\ acConn' = [acConn EXCEPT ![c] = conn]
          /\ acCode' = [acCode EXCEPT ![c] = "pending"] /\ acLeft' = [acLeft EXCEPT !.logins = @ - 1]
          /\ acLeft.logins > 0 /\ UNCHANGED <<acKnown, acOwner, acWeb>>
      BY <1>1 DEF StartDeviceAuth
    <2>2. acConn[c] \in AcConn /\ Knows(acConn[c])
      BY DEF AcConn
    <2>3. conn \in AcConn /\ Knows(conn)
      BY <2>1, <2>2 DEF AcConn, Knows, Characters
    <2>. HIDE DEF conn
    <2>4. acConn' \in [AcConns -> AcConn] /\ \A e \in AcConns : Knows(acConn[e])'
      BY <2>1, <2>3, AcConnMoves
    <2>5. acLeft' \in [logins : 0..AcLogins, faults : 0..AcFaults]
      BY <2>1
    <2>6. AcTypeOK'
      BY <2>1, <2>4, <2>5 DEF AcConn
    <2>. QED
      BY <2>1, <2>4, <2>6
  <1>2. ASSUME NEW c \in AcConns, deviceCodeTTL(c)
        PROVE  AcInv'
    BY <1>2, AcKnowsStays DEF deviceCodeTTL, Fault
  <1>3. ASSUME NEW c \in AcConns, CreateAccountWithIdentity(c)
        PROVE  AcInv'
    BY <1>3, AcKnowsStays DEF CreateAccountWithIdentity, NoWeb
  <1>4. ASSUME NEW c \in AcConns, AuthorizeDevice(c)
        PROVE  AcInv'
    BY <1>4, AcKnowsStays DEF AuthorizeDevice, NoWeb
  <1>5. ASSUME NEW c \in AcConns, selectCharacter(c)
        PROVE  AcInv'
    BY <1>5 DEF selectCharacter, Knows, Characters
  <1>6. ASSUME NEW c \in AcConns, runChargen(c)
        PROVE  AcInv'
    <2>. DEFINE conn == [acConn[c] EXCEPT !.at = "walk"]
    <2>1. conn \in AcConn /\ Knows(conn)
      BY <1>6 DEF runChargen, Knows, AcConn
    <2>2. acConn' = [acConn EXCEPT ![c] = conn] /\ UNCHANGED <<acKnown, acOwner, acCode, acWeb, acLeft>>
      BY <1>6 DEF runChargen
    <2>. HIDE DEF conn
    <2>. QED
      BY <2>1, <2>2, AcConnMoves DEF AcConn
  <1>7. ASSUME NEW c \in AcConns, CreateAccountCharacter(c)
        PROVE  AcInv'
    <2>. DEFINE name == acConn[c].name
    <2>1. acConn[c] \in AcConn /\ Knows(acConn[c]) /\ acConn[c].at = "insert"
      BY <1>7 DEF CreateAccountCharacter, AcConn
    <2>2. UNCHANGED <<acKnown, acCode, acWeb, acLeft>>
      BY <1>7 DEF CreateAccountCharacter
    <2>3. CASE nameTaken(name)
      <3>. DEFINE conn == [acConn[c] EXCEPT !.at = "walk", !.name = AcNone]
      <3>1. conn \in AcConn /\ Knows(conn)
        BY <2>1 DEF Knows, AcConn
      <3>2. acConn' = [acConn EXCEPT ![c] = conn] /\ acOwner' = acOwner
        BY <1>7, <2>3 DEF CreateAccountCharacter
      <3>. HIDE DEF conn
      <3>. QED
        BY <2>2, <3>1, <3>2, AcConnMoves DEF AcConn
    <2>4. CASE ~nameTaken(name)
      <3>. DEFINE conn == [acConn[c] EXCEPT !.at = "in", !.shown = {}]
      <3>1. acConn' = [acConn EXCEPT ![c] = conn] /\ acOwner' = [acOwner EXCEPT ![name] = acConn[c].acct]
        BY <1>7, <2>4 DEF CreateAccountCharacter
      <3>2. name \in AcNames /\ acConn[c].acct \in AcAccounts /\ acOwner[name] = AcNone
        BY <2>1, <2>4 DEF Knows, nameTaken
      <3>3. conn \in AcConn /\ conn.at = "in" /\ conn.shown = {} /\ conn.name = name /\ conn.acct = acConn[c].acct
        BY <2>1 DEF AcConn
      <3>4. Knows(acConn[c])'
        <4>1. acConn'[c] = conn
          BY <3>1
        <4>2. acOwner'[name] = acConn[c].acct
          BY <3>1, <3>2
        <4>. HIDE DEF conn
        <4>. QED
          BY <3>2, <3>3, <4>1, <4>2 DEF Knows
      <3>5. \A n \in AcNames : acOwner[n] # AcNone => acOwner'[n] = acOwner[n]
        BY <3>1, <3>2
      <3>6. ASSUME NEW d \in AcConns, d # c
            PROVE  Knows(acConn[d])'
        <4>1. acConn'[d] = acConn[d] /\ acConn[d] \in AcConn /\ Knows(acConn[d])
          BY <3>1, <3>6 DEF AcConn
        <4>2. ASSUME NEW n \in acConn[d].shown
              PROVE  n \in Characters(acConn[d].acct)'
          <5>1. n \in AcNames /\ acOwner[n] = acConn[d].acct
            BY <4>1, <4>2 DEF Knows, Characters
          <5>2. acConn[d].acct # AcNone
            BY <4>1, <4>2 DEF Knows, AcConn
          <5>3. acOwner'[n] = acConn[d].acct
            BY <3>5, <5>1, <5>2
          <5>. QED
            BY <4>1, <5>1, <5>3 DEF Characters
        <4>3. acConn[d].at = "in" => acOwner'[acConn[d].name] = acConn[d].acct
          <5>. SUFFICES ASSUME acConn[d].at = "in" PROVE acOwner'[acConn[d].name] = acConn[d].acct
            OBVIOUS
          <5>1. acConn[d].name \in AcNames /\ acConn[d].acct \in AcAccounts /\ acOwner[acConn[d].name] = acConn[d].acct
            BY <4>1 DEF Knows
          <5>. QED
            BY <3>5, <5>1
        <4>4. acConn[d].shown \subseteq Characters(acConn[d].acct)'
          BY <4>2
        <4>5. Knows(acConn[d]) /\ acConn'[d] = acConn[d]
          BY <4>1
        <4>. HIDE DEF AcInv, AcTypeOK
        <4>. QED
          BY <4>3, <4>4, <4>5 DEF Knows
      <3>. HIDE DEF conn
      <3>7. \A d \in AcConns : Knows(acConn[d])'
        BY <3>4, <3>6
      <3>8. AcTypeOK'
        BY <2>2, <3>1, <3>2, <3>3 DEF AcConn
      <3>. QED
        BY <2>2, <3>7, <3>8
    <2>. QED
      BY <2>3, <2>4
  <1>8. ASSUME NEW c \in AcConns, AcHangup(c)
        PROVE  AcInv'
    BY <1>8 DEF AcHangup, Off, NoWeb, Knows, Characters
  <1>9. ASSUME NEW c \in AcConns, NEW id \in AcAccounts, FindIdentity(c, id)
        PROVE  AcInv'
    BY <1>9, AcKnowsStays DEF FindIdentity, NoWeb
  <1>10. ASSUME NEW c \in AcConns, NEW listed \in BOOLEAN, PollDeviceAuth(c, listed)
         PROVE  AcInv'
    <2>. DEFINE a == acCode[c]
                conn == IF ~listed THEN acConn[c] ELSE IF a = AcNone THEN Off
                        ELSE [acConn[c] EXCEPT !.at = "menu", !.acct = a, !.shown = Characters(a)]
    <2>1. acConn[c] \in AcConn /\ Knows(acConn[c]) /\ acConn[c].at = "wait"
          /\ a \in AcAccounts \cup {AcNone}
      BY <1>10 DEF PollDeviceAuth, AcConn
    <2>2. Off \in AcConn /\ Knows(Off)
      BY DEF Off, AcConn, Knows
    <2>3. conn \in AcConn /\ Knows(conn)
      BY <2>1, <2>2 DEF Knows, AcConn, Characters
    <2>4. acConn' = [acConn EXCEPT ![c] = conn] /\ acCode' = [acCode EXCEPT ![c] = AcNone]
          /\ UNCHANGED <<acKnown, acOwner, acWeb>>
      BY <1>10 DEF PollDeviceAuth
    <2>5. acLeft' \in [logins : 0..AcLogins, faults : 0..AcFaults]
      BY <1>10 DEF PollDeviceAuth, Fault
    <2>. HIDE DEF conn
    <2>6. acConn' \in [AcConns -> AcConn] /\ \A d \in AcConns : Knows(acConn[d])'
      BY <2>3, <2>4, AcConnMoves
    <2>. QED
      BY <2>4, <2>5, <2>6 DEF AcConn
  <1>11. ASSUME NEW c \in AcConns, NEW n \in AcNames, NEW listed \in BOOLEAN, NEW valid \in BOOLEAN,
                CreateChargenCharacter(c, n, listed, valid)
         PROVE  AcInv'
    <2>. DEFINE conn == IF listed /\ atCapacity(c)
                        THEN (IF acConn[c].shown = {} THEN Off ELSE [acConn[c] EXCEPT !.at = "menu"])
                        ELSE BuildCharacter(acConn[c], n, valid)
    <2>1. acConn[c] \in AcConn /\ Knows(acConn[c]) /\ acConn[c].at = "walk"
      BY <1>11 DEF CreateChargenCharacter, AcConn
    <2>2. Off \in AcConn /\ Knows(Off)
      BY DEF Off, AcConn, Knows
    <2>3. BuildCharacter(acConn[c], n, valid) \in AcConn /\ Knows(BuildCharacter(acConn[c], n, valid))
      BY <2>1 DEF BuildCharacter, AcConn, Knows
    <2>4. [acConn[c] EXCEPT !.at = "menu"] \in AcConn /\ Knows([acConn[c] EXCEPT !.at = "menu"])
      BY <2>1 DEF AcConn, Knows
    <2>5. conn \in AcConn /\ Knows(conn)
      BY <2>2, <2>3, <2>4
    <2>6. acConn' = [acConn EXCEPT ![c] = conn] /\ UNCHANGED <<acKnown, acOwner, acCode, acWeb>>
      BY <1>11 DEF CreateChargenCharacter
    <2>7. acLeft' \in [logins : 0..AcLogins, faults : 0..AcFaults]
      BY <1>11 DEF CreateChargenCharacter, Fault
    <2>. HIDE DEF conn
    <2>8. acConn' \in [AcConns -> AcConn] /\ \A d \in AcConns : Knows(acConn[d])'
      BY <2>5, <2>6, AcConnMoves
    <2>. QED
      BY <2>6, <2>7, <2>8 DEF AcConn
  <1>12. CASE UNCHANGED acVars
    BY <1>12 DEF acVars, Knows, Characters
  <1>. QED
    BY <1>1, <1>2, <1>3, <1>4, <1>5, <1>6, <1>7, <1>8, <1>9, <1>10, <1>11, <1>12 DEF AcNext, ValidateChargen

\* A connection in the game plays a character of its own account, however checks and inserts
\* of two connections interleave (account/service.go BuildCharacter, store/account.go).
THEOREM AccountsAreSafe == AcSpec => []AccountsSafe
  <1>1. AcInv => AccountsSafe
    BY DEF AcInv, Knows, AccountsSafe, EntersAsOwner
  <1>. QED
    BY <1>1, AcInitInv, AcStep, PTL DEF AcSpec

-----------------------------------------------------------------------------
(* Saver.  The inductive invariant: the snapshots a shard holds are those of its *)
(* queue, the logout flush it reconciles and the one stashed for a new row.   *)

SvSession == [live : BOOLEAN, pid : BOOLEAN, ver : Nat, epoch : 0..SvMaxEpoch, data : 0..SvMaxAct]
SvSlot == {<<>>} \cup {<<snap>> : snap \in SvSnap}
Queued(s) == {svQueue[s][i].snap : i \in 1..Len(svQueue[s])}
Held(s) == Queued(s) \cup {q[1] : q \in {svFinal[s], svStash[s]} \ {<<>>}}
Occupied(s) == svSess[s].live \/ svMake[s] \/ svStash[s] # <<>>

SvTyped ==
  /\ svRow \in [exists : BOOLEAN, ver : Nat, epoch : 0..SvMaxEpoch,
                data : 0..SvMaxAct, by : 0..SvMaxEpoch]
  /\ svCkpt \in [exists : BOOLEAN, ver : Nat, epoch : 0..SvMaxEpoch, data : 0..SvMaxAct]
  /\ svSess \in [SvShards -> SvSession]
  /\ svQueue \in [SvShards -> Seq(SvRequest)]
  /\ \A s \in SvShards : Len(svQueue[s]) <= SvDepth
  /\ svFinal \in [SvShards -> SvSlot] /\ svLoad \in [SvShards -> SvSlot]
  /\ svStash \in [SvShards -> SvSlot]
  /\ svReread \in [SvShards -> BOOLEAN] /\ svMake \in [SvShards -> BOOLEAN]
  /\ svAct \in 0..SvMaxAct /\ svFault \in BOOLEAN
  /\ svQuit \in [data : 0..SvMaxAct, epoch : 0..SvMaxEpoch]

\* No copy is ahead of the row's version or claim, or of the player.
NotAhead(x) == x.ver <= svRow.ver /\ x.data <= svAct
SvBounds ==
  /\ svRow.by <= svRow.epoch /\ svRow.data <= svAct
  /\ NotAhead(svCkpt) /\ svCkpt.epoch <= svRow.epoch
  /\ svQuit.data <= svAct /\ svQuit.epoch <= svRow.epoch
  /\ \A s \in SvShards :
       /\ NotAhead(svSess[s]) /\ svSess[s].epoch <= svRow.epoch
       /\ svLoad[s] # <<>> => NotAhead(svLoad[s][1])
       /\ \A h \in Held(s) : NotAhead(h) /\ h.epoch <= svRow.epoch

\* Before the row there is at most one session or stash, and nothing in flight; after it no
\* session lacks the row's id.
SvCreation ==
  IF svRow.exists
  THEN \A s \in SvShards : /\ ~svMake[s] /\ svStash[s] = <<>>
                           /\ svSess[s].live => svSess[s].pid
  ELSE /\ svRow.epoch = 0 /\ svRow.data = 0 /\ ~svCkpt.exists
       /\ \A s \in SvShards : /\ svQueue[s] = <<>> /\ svFinal[s] = <<>> /\ svLoad[s] = <<>>
                              /\ ~svSess[s].pid /\ ~svReread[s]
       /\ \A s, t \in SvShards : Occupied(s) /\ Occupied(t) => s = t

\* A claim has one session, and only that session's shard holds its snapshots, none of them
\* ahead of it.
OneSession ==
  \A s \in SvShards : svSess[s].live =>
    \A t \in SvShards :
      /\ svSess[t].live /\ svSess[t].epoch = svSess[s].epoch => s = t
      /\ \A h \in Held(t) : h.epoch = svSess[s].epoch => t = s /\ h.data <= svSess[s].data

\* What a claim saved is not newer than its session, nor than what it queued or checkpointed
\* at the row's version.
SvFresh ==
  /\ \A s \in SvShards :
       /\ svSess[s].live /\ svSess[s].epoch = svRow.by => svSess[s].data >= svRow.data
       /\ \A h \in Queued(s) : h.ver = svRow.ver /\ h.epoch = svRow.by => h.data >= svRow.data
  /\ svCkpt.exists /\ svCkpt.ver = svRow.ver /\ svCkpt.epoch = svRow.by => svCkpt.data >= svRow.data

\* Nothing of the quitter's claim can take the row below what the quit saved.
Landed ==
  /\ svRow.data >= svQuit.data
  /\ \A s \in SvShards :
       /\ svSess[s].live /\ svSess[s].epoch = svQuit.epoch => svSess[s].data >= svQuit.data
       /\ \A h \in Held(s) : h.epoch = svQuit.epoch => h.data >= svQuit.data

\* Only shard s holds snapshots of the quitter's claim, whose session is gone.
OnlyAt(s) ==
  /\ ~svSess[s].live
  /\ \A t \in SvShards :
       /\ svSess[t].live => svSess[t].epoch # svQuit.epoch
       /\ t # s => \A h \in Held(t) : h.epoch # svQuit.epoch

IsQuit(snap) == snap.epoch = svQuit.epoch /\ snap.data = svQuit.data

\* The logout flush is the last request of the queue, is being reconciled, or waits for the row.
InQueue(s) ==
  LET n == Len(svQueue[s]) IN
  n > 0 /\ svQueue[s][n].reason = "final" /\ IsQuit(svQueue[s][n].snap)
InFinal(s) == svFinal[s] # <<>> /\ svQueue[s] = <<>> /\ IsQuit(svFinal[s][1])
InStash(s) == svStash[s] # <<>> /\ svMake[s] /\ IsQuit(svStash[s][1])

QuitSafe ==
  ~svFault /\ svQuit.epoch = svRow.epoch =>
    Landed \/ \E s \in SvShards : OnlyAt(s) /\ (InQueue(s) \/ InFinal(s) \/ InStash(s))

SvInv == SvTyped /\ SvBounds /\ SvCreation /\ OneSession /\ SvFresh /\ QuitSafe

-----------------------------------------------------------------------------
(* Slots and queues.                                                           *)

LEMMA SlotOfOne ==
  ASSUME NEW q \in SvSlot
  PROVE  /\ q \in Seq(SvSnap) /\ Len(q) <= 1
         /\ q # <<>> => q[1] \in SvSnap /\ Head(q) = q[1]
  <1>1. CASE q = <<>>
    BY <1>1
  <1>2. ASSUME NEW snap \in SvSnap, q = <<snap>>
        PROVE  q \in Seq(SvSnap) /\ Len(q) = 1 /\ q[1] = snap /\ Head(q) = snap
    BY <1>2
  <1>. QED
    BY <1>1, <1>2 DEF SvSlot

LEMMA FullSlot ==
  ASSUME NEW snap \in SvSnap
  PROVE  <<snap>> \in SvSlot /\ <<snap>> # <<>> /\ <<snap>>[1] = snap
  BY DEF SvSlot

LEMMA HeldTyped ==
  ASSUME SvTyped, NEW s \in SvShards
  PROVE  /\ Held(s) \subseteq SvSnap /\ Queued(s) \subseteq Held(s)
         /\ svFinal[s] # <<>> => svFinal[s][1] \in Held(s)
         /\ svStash[s] # <<>> => svStash[s][1] \in Held(s)
  <1>1. \A h \in Queued(s) : h \in SvSnap
    <2>1. svQueue[s] \in Seq(SvRequest)
      BY DEF SvTyped
    <2>2. \A i \in 1..Len(svQueue[s]) : svQueue[s][i] \in SvRequest
      BY <2>1
    <2>. QED
      BY <2>2 DEF Queued, SvRequest
  <1>2. \A q \in {svFinal[s], svStash[s]} \ {<<>>} : q[1] \in SvSnap
    BY SlotOfOne DEF SvTyped
  <1>. QED
    BY <1>1, <1>2 DEF Held

LEMMA DumpTyped ==
  ASSUME SvTyped, NEW s \in SvShards
  PROVE  Dump(svSess[s]) \in SvSnap
  BY DEF SvTyped, SvSession, SvSnap, Dump

\* enqueue appends one request or reports the loss.
LEMMA EnqueueAppends ==
  ASSUME SvTyped, NEW s \in SvShards, NEW reason \in {"checkpoint", "flush", "final"},
         NEW snap \in SvSnap, Enqueue(s, reason, snap)
  PROVE  /\ svQueue' \in [SvShards -> Seq(SvRequest)]
         /\ \A t \in SvShards : Len(svQueue'[t]) <= SvDepth
         /\ \A t \in SvShards \ {s} : svQueue'[t] = svQueue[t]
         /\ svFault' \in BOOLEAN /\ (svFault => svFault')
         /\ Queued(s)' \subseteq Queued(s) \cup {snap}
         /\ ~svFault' => LET n == Len(svQueue'[s]) IN
                           n > 0 /\ svQueue'[s][n].reason = reason /\ svQueue'[s][n].snap = snap
  <1>. DEFINE r == [reason |-> reason, snap |-> snap]
  <1>1. r \in SvRequest /\ r.reason = reason /\ r.snap = snap
    BY DEF SvRequest
  <1>2. svQueue[s] \in Seq(SvRequest) /\ Len(svQueue[s]) \in Nat /\ SvDepth \in Nat
    BY SvAssumption DEF SvTyped
  <1>3. CASE Len(svQueue[s]) < SvDepth
    <2>1. svQueue' = [svQueue EXCEPT ![s] = Append(svQueue[s], r)] /\ svFault' = svFault
      BY <1>3 DEF Enqueue
    <2>. HIDE DEF r
    <2>2. svQueue'[s] = Append(svQueue[s], r) /\ \A t \in SvShards \ {s} : svQueue'[t] = svQueue[t]
      BY <2>1 DEF SvTyped
    <2>3. /\ Append(svQueue[s], r) \in Seq(SvRequest) /\ Len(Append(svQueue[s], r)) = Len(svQueue[s]) + 1
          /\ \A i \in 1..Len(svQueue[s]) : Append(svQueue[s], r)[i] = svQueue[s][i]
          /\ Append(svQueue[s], r)[Len(svQueue[s]) + 1] = r
      BY <1>1, <1>2
    <2>4. svQueue' \in [SvShards -> Seq(SvRequest)]
      BY <2>1, <2>3 DEF SvTyped
    <2>5. \A t \in SvShards : Len(svQueue'[t]) <= SvDepth
      <3>1. Len(svQueue'[s]) <= SvDepth
        BY <1>2, <1>3, <2>2, <2>3
      <3>. QED
        BY <3>1, <2>2 DEF SvTyped
    <2>6. Queued(s)' \subseteq Queued(s) \cup {snap}
      <3>. SUFFICES ASSUME NEW i \in 1..Len(svQueue'[s])
                    PROVE  svQueue'[s][i].snap \in Queued(s) \cup {snap}
        BY DEF Queued
      <3>1. i \in 1..Len(svQueue[s]) \/ i = Len(svQueue[s]) + 1
        BY <1>2, <2>2, <2>3
      <3>. QED
        BY <1>1, <2>2, <2>3, <3>1 DEF Queued
    <2>7. LET n == Len(svQueue'[s]) IN
            n > 0 /\ svQueue'[s][n].reason = reason /\ svQueue'[s][n].snap = snap
      BY <1>1, <1>2, <2>2, <2>3
    <2>. QED
      BY <2>1, <2>2, <2>4, <2>5, <2>6, <2>7 DEF SvTyped
  <1>4. CASE ~(Len(svQueue[s]) < SvDepth)
    BY <1>4 DEF Enqueue, SvTyped, Queued
  <1>. QED
    BY <1>3, <1>4

LEMMA TailFacts ==
  ASSUME NEW S, NEW q \in Seq(S), q # <<>>
  PROVE  /\ Len(q) \in Nat /\ Len(q) > 0 /\ Head(q) = q[1] /\ Head(q) \in S
         /\ Tail(q) \in Seq(S) /\ Len(Tail(q)) = Len(q) - 1
         /\ \A i \in 1..Len(Tail(q)) : i + 1 \in 1..Len(q) /\ Tail(q)[i] = q[i + 1]
         /\ Len(q) = 1 => Tail(q) = <<>>
         /\ Len(q) # 1 => Len(Tail(q)) > 0 /\ Tail(q)[Len(Tail(q))] = q[Len(q)]
  <1>1. Len(q) \in Nat /\ Len(q) > 0 /\ Head(q) = q[1] /\ Head(q) \in S
    OBVIOUS
  <1>2. Tail(q) \in Seq(S) /\ Len(Tail(q)) = Len(q) - 1
    OBVIOUS
  <1>3. \A i \in 1..Len(Tail(q)) : i + 1 \in 1..Len(q) /\ Tail(q)[i] = q[i + 1]
    BY <1>1, <1>2
  <1>4. Len(q) = 1 => Tail(q) = <<>>
    <2>. DEFINE u == Tail(q)
    <2>1. u \in Seq(S) /\ (Len(q) = 1 => Len(u) = 0)
      BY <1>1, <1>2
    <2>. HIDE DEF u
    <2>2. Len(u) = 0 => u = <<>>
      BY <2>1
    <2>. QED
      BY <2>1, <2>2 DEF u
  <1>5. Len(q) # 1 => Len(Tail(q)) > 0 /\ Tail(q)[Len(Tail(q))] = q[Len(q)]
    BY <1>1, <1>2, <1>3
  <1>. QED
    BY <1>1, <1>2, <1>3, <1>4, <1>5

\* The drainer takes the first request.
LEMMA DequeueTakes ==
  ASSUME SvTyped, NEW s \in SvShards, svQueue[s] # <<>>, svQueue' = [svQueue EXCEPT ![s] = Tail(@)]
  PROVE  /\ Head(svQueue[s]) \in SvRequest /\ Head(svQueue[s]).snap \in Queued(s)
         /\ svQueue' \in [SvShards -> Seq(SvRequest)]
         /\ \A t \in SvShards : Len(svQueue'[t]) <= SvDepth
         /\ \A t \in SvShards \ {s} : svQueue'[t] = svQueue[t]
         /\ Queued(s)' \subseteq Queued(s)
         /\ Len(svQueue[s]) = 1 => svQueue'[s] = <<>> /\ svQueue[s][1] = Head(svQueue[s])
         /\ Len(svQueue[s]) # 1 => /\ Len(svQueue'[s]) > 0
                                   /\ svQueue'[s][Len(svQueue'[s])] = svQueue[s][Len(svQueue[s])]
  <1>1. svQueue[s] \in Seq(SvRequest) /\ SvDepth \in Nat /\ Len(svQueue[s]) <= SvDepth
    BY SvAssumption DEF SvTyped
  <1>2. svQueue'[s] = Tail(svQueue[s]) /\ \A t \in SvShards \ {s} : svQueue'[t] = svQueue[t]
    BY DEF SvTyped
  <1>3. /\ Len(svQueue[s]) \in Nat /\ Len(svQueue[s]) > 0 /\ svQueue[s] # <<>>
        /\ Head(svQueue[s]) = svQueue[s][1] /\ Head(svQueue[s]) \in SvRequest
        /\ svQueue'[s] \in Seq(SvRequest) /\ Len(svQueue'[s]) = Len(svQueue[s]) - 1
        /\ \A i \in 1..Len(svQueue'[s]) : i + 1 \in 1..Len(svQueue[s]) /\ svQueue'[s][i] = svQueue[s][i + 1]
        /\ Len(svQueue[s]) = 1 => svQueue'[s] = <<>>
        /\ Len(svQueue[s]) # 1 => /\ Len(svQueue'[s]) > 0
                                  /\ svQueue'[s][Len(svQueue'[s])] = svQueue[s][Len(svQueue[s])]
    <2>. DEFINE q == svQueue[s]
    <2>1. q \in Seq(SvRequest) /\ q # <<>>
      BY <1>1
    <2>. HIDE DEF q
    <2>2. /\ Len(q) \in Nat /\ Len(q) > 0 /\ Head(q) = q[1] /\ Head(q) \in SvRequest
          /\ Tail(q) \in Seq(SvRequest) /\ Len(Tail(q)) = Len(q) - 1
          /\ \A i \in 1..Len(Tail(q)) : i + 1 \in 1..Len(q) /\ Tail(q)[i] = q[i + 1]
          /\ Len(q) = 1 => Tail(q) = <<>>
          /\ Len(q) # 1 => Len(Tail(q)) > 0 /\ Tail(q)[Len(Tail(q))] = q[Len(q)]
      BY <2>1, TailFacts
    <2>. QED
      BY <1>2, <2>1, <2>2 DEF q
  <1>4. Head(svQueue[s]).snap \in Queued(s)
    BY <1>3 DEF Queued
  <1>5. svQueue' \in [SvShards -> Seq(SvRequest)]
    BY <1>2, <1>3 DEF SvTyped
  <1>6. \A t \in SvShards : Len(svQueue'[t]) <= SvDepth
    BY <1>1, <1>2, <1>3 DEF SvTyped
  <1>7. Queued(s)' \subseteq Queued(s)
    BY <1>3 DEF Queued
  <1>. QED
    BY <1>2, <1>3, <1>4, <1>5, <1>6, <1>7

-----------------------------------------------------------------------------
(* What a step may do to sessions and snapshots: sessions only play on or go,  *)
(* and a snapshot that appears is a copy of one held or of the live session.  *)

Carried ==
  \A t \in SvShards :
    /\ svSess'[t].live => /\ svSess[t].live /\ svSess'[t].epoch = svSess[t].epoch
                          /\ svSess'[t].data >= svSess[t].data
    /\ \A h \in Held(t)' :
         \/ \E g \in Held(t) : h.epoch = g.epoch /\ h.data = g.data
         \/ svSess[t].live /\ h.epoch = svSess[t].epoch /\ h.data = svSess[t].data

LEMMA DataIsNat ==
  ASSUME SvTyped
  PROVE  /\ svRow.ver \in Nat /\ svRow.epoch \in Nat /\ svRow.data \in Nat /\ svRow.by \in Nat
         /\ svCkpt.ver \in Nat /\ svCkpt.epoch \in Nat /\ svCkpt.data \in Nat
         /\ svQuit.data \in Nat /\ svQuit.epoch \in Nat /\ svAct \in Nat
         /\ \A s \in SvShards : /\ svSess[s] \in SvSession
                                /\ svSess[s].ver \in Nat /\ svSess[s].epoch \in Nat /\ svSess[s].data \in Nat
                                /\ \A h \in Held(s) : h.ver \in Nat /\ h.epoch \in Nat /\ h.data \in Nat
  <1>1. \A s \in SvShards : \A h \in Held(s) : h \in SvSnap
    BY HeldTyped
  <1>2. \A h \in SvSnap : h.ver \in Nat /\ h.epoch \in Nat /\ h.data \in Nat
    BY DEF SvSnap
  <1>. QED
    <2>1. SvMaxEpoch \in Nat /\ SvMaxAct \in Nat
      BY SvAssumption
    <2>2. /\ svRow.ver \in Nat /\ svRow.epoch \in Nat /\ svRow.data \in Nat /\ svRow.by \in Nat
          /\ svCkpt.ver \in Nat /\ svCkpt.epoch \in Nat /\ svCkpt.data \in Nat
          /\ svQuit.data \in Nat /\ svQuit.epoch \in Nat /\ svAct \in Nat
      BY <2>1 DEF SvTyped
    <2>3. \A s \in SvShards : svSess[s] \in SvSession
      BY DEF SvTyped
    <2>4. \A x \in SvSession : x.ver \in Nat /\ x.epoch \in Nat /\ x.data \in Nat
      BY <2>1 DEF SvSession
    <2>. QED
      BY <1>1, <1>2, <2>2, <2>3, <2>4

LEMMA CarriedOneSession ==
  ASSUME SvInv, Carried, SvTyped'
  PROVE  OneSession'
  <1>. SUFFICES ASSUME NEW s \in SvShards, svSess'[s].live, NEW t \in SvShards
                PROVE  /\ svSess'[t].live /\ svSess'[t].epoch = svSess'[s].epoch => s = t
                       /\ \A h \in Held(t)' : h.epoch = svSess'[s].epoch => t = s /\ h.data <= svSess'[s].data
    BY DEF OneSession
  <1>1. /\ svSess[s].live /\ svSess'[s].epoch = svSess[s].epoch /\ svSess'[s].data >= svSess[s].data
        /\ svSess[s].data \in Nat /\ svSess'[s].data \in Nat
    <2>1. svSess'[s] \in SvSession
      BY DEF SvTyped
    <2>2. svSess'[s].data \in Nat
      BY <2>1, SvAssumption DEF SvSession
    <2>. QED
      BY <2>2, DataIsNat DEF Carried, SvInv
  <1>2. svSess'[t].live /\ svSess'[t].epoch = svSess'[s].epoch => s = t
    BY <1>1 DEF Carried, SvInv, OneSession
  <1>3. ASSUME NEW h \in Held(t)', h.epoch = svSess'[s].epoch
        PROVE  t = s /\ h.data <= svSess'[s].data
    <2>1. CASE svSess[t].live /\ h.epoch = svSess[t].epoch /\ h.data = svSess[t].data
      BY <1>1, <1>3, <2>1 DEF SvInv, OneSession
    <2>2. ASSUME NEW g \in Held(t), h.epoch = g.epoch, h.data = g.data
          PROVE  t = s /\ h.data <= svSess'[s].data
      <3>1. t = s /\ g.data <= svSess[s].data /\ g.data \in Nat
        BY <1>1, <1>3, <2>2, DataIsNat DEF SvInv, OneSession
      <3>. QED
        BY <1>1, <2>2, <3>1
    <2>. QED
      BY <2>1, <2>2 DEF Carried
  <1>. QED
    BY <1>2, <1>3

LEMMA CarriedLanded ==
  ASSUME SvInv, Carried, Landed, svQuit' = svQuit, svRow'.data >= svQuit.data, SvTyped'
  PROVE  Landed'
  <1>. SUFFICES ASSUME NEW t \in SvShards
                PROVE  /\ svSess'[t].live /\ svSess'[t].epoch = svQuit.epoch => svSess'[t].data >= svQuit.data
                       /\ \A h \in Held(t)' : h.epoch = svQuit.epoch => h.data >= svQuit.data
    BY DEF Landed
  <1>1. svQuit.data \in Nat /\ svSess[t].data \in Nat /\ svSess'[t].data \in Nat
    <2>1. svSess'[t] \in SvSession
      BY DEF SvTyped
    <2>2. svSess'[t].data \in Nat
      BY <2>1, SvAssumption DEF SvSession
    <2>. QED
      BY <2>2, DataIsNat DEF SvInv
  <1>2. svSess'[t].live /\ svSess'[t].epoch = svQuit.epoch => svSess'[t].data >= svQuit.data
    BY <1>1 DEF Carried, Landed
  <1>3. \A h \in Held(t)' : h.epoch = svQuit.epoch => h.data >= svQuit.data
    BY <1>1 DEF Carried, Landed
  <1>. QED
    BY <1>2, <1>3

LEMMA CarriedOnlyAt ==
  ASSUME Carried, NEW s \in SvShards, OnlyAt(s), svQuit' = svQuit
  PROVE  OnlyAt(s)'
  BY DEF Carried, OnlyAt

\* A step of no new claim keeps the quit safe if it keeps the pending flush or lands it.
LEMMA CarriedQuit ==
  ASSUME SvInv, Carried, SvTyped', svQuit' = svQuit, svRow'.epoch = svRow.epoch, svFault => svFault',
         svQuit.epoch = svRow.epoch /\ Landed => svRow'.data >= svQuit.data,
         \A s \in SvShards :
           ~svFault' /\ svQuit.epoch = svRow.epoch /\ OnlyAt(s) /\ (InQueue(s) \/ InFinal(s) \/ InStash(s)) =>
             InQueue(s)' \/ InFinal(s)' \/ InStash(s)' \/ Landed'
  PROVE  QuitSafe'
  <1>. SUFFICES ASSUME ~svFault', svQuit.epoch = svRow.epoch
                PROVE  Landed' \/ \E s \in SvShards : OnlyAt(s)' /\ (InQueue(s)' \/ InFinal(s)' \/ InStash(s)')
    BY DEF QuitSafe
  <1>1. CASE Landed
    BY <1>1, CarriedLanded
  <1>2. ASSUME NEW s \in SvShards, OnlyAt(s), InQueue(s) \/ InFinal(s) \/ InStash(s)
        PROVE  Landed' \/ (OnlyAt(s)' /\ (InQueue(s)' \/ InFinal(s)' \/ InStash(s)'))
    BY <1>2, CarriedOnlyAt
  <1>. QED
    BY <1>1, <1>2 DEF SvInv, QuitSafe

\* What a save leaves of the row: it is applied only under the row's own claim and version.
LEMMA SavedRow ==
  ASSUME SvInv, NEW snap \in SvSnap, snap.epoch <= svRow.epoch, svRow' = SaveCharacter(svRow, snap)
  PROVE  /\ svRow' \in [exists : BOOLEAN, ver : Nat, epoch : 0..SvMaxEpoch, data : 0..SvMaxAct, by : 0..SvMaxEpoch]
         /\ svRow'.exists = svRow.exists /\ svRow'.epoch = svRow.epoch
         /\ svRow'.ver \in {svRow.ver, svRow.ver + 1} /\ svRow'.by <= svRow'.epoch
         /\ SaveVerdict(svRow, snap) \in {"no row", "not owner", "stale", "applied"}
         /\ SaveVerdict(svRow, snap) # "applied" => svRow' = svRow
         /\ SaveVerdict(svRow, snap) = "applied" =>
              /\ svRow.exists /\ snap.epoch = svRow.epoch /\ snap.ver = svRow.ver
              /\ svRow'.ver = svRow.ver + 1 /\ svRow'.data = snap.data /\ svRow'.by = snap.epoch
         /\ SaveVerdict(svRow, snap) = "stale" => svRow.exists /\ snap.epoch = svRow.epoch
  <1>1. /\ svRow \in [exists : BOOLEAN, ver : Nat, epoch : 0..SvMaxEpoch, data : 0..SvMaxAct, by : 0..SvMaxEpoch]
        /\ snap.ver \in Nat /\ snap.epoch \in 0..SvMaxEpoch /\ snap.data \in 0..SvMaxAct
        /\ svRow.by <= svRow.epoch
    BY DEF SvInv, SvTyped, SvBounds, SvSnap
  <1>2. CASE SaveVerdict(svRow, snap) # "applied"
    <2>1. svRow' = svRow
      BY <1>2 DEF SaveCharacter
    <2>. QED
      BY <1>1, <1>2, <2>1, SvAssumption DEF SaveVerdict
  <1>3. CASE SaveVerdict(svRow, snap) = "applied"
    <2>1. svRow.exists /\ snap.epoch = svRow.epoch /\ snap.ver = svRow.ver
      BY <1>1, <1>3, SvAssumption DEF SaveVerdict
    <2>2. svRow' = [svRow EXCEPT !.ver = @ + 1, !.epoch = snap.epoch, !.data = snap.data, !.by = snap.epoch]
      BY <1>3 DEF SaveCharacter
    <2>3. /\ svRow'.exists = svRow.exists /\ svRow'.epoch = snap.epoch /\ svRow'.ver = svRow.ver + 1
          /\ svRow'.data = snap.data /\ svRow'.by = snap.epoch
          /\ svRow' \in [exists : BOOLEAN, ver : Nat, epoch : 0..SvMaxEpoch, data : 0..SvMaxAct, by : 0..SvMaxEpoch]
      <3>1. svRow' = [exists |-> svRow.exists, ver |-> svRow.ver + 1, epoch |-> snap.epoch,
                      data |-> snap.data, by |-> snap.epoch]
        BY <1>1, <2>2
      <3>2. svRow.exists \in BOOLEAN /\ svRow.ver + 1 \in Nat
        BY <1>1
      <3>. QED
        BY <1>1, <3>1, <3>2
    <2>. QED
      BY <1>1, <1>3, <2>1, <2>3, SvAssumption
  <1>. QED
    BY <1>2, <1>3

-----------------------------------------------------------------------------
(* The steps that touch neither store.                                         *)

LEMMA LoadStartKeeps ==
  ASSUME SvInv, NEW s \in SvShards, SvLoadStart(s)
  PROVE  SvInv'
  <1>. USE DEF SvInv
  <1>1. /\ svRow.exists /\ svLoad' = [svLoad EXCEPT ![s] = <<LoadSnapshot>>]
        /\ UNCHANGED <<svRow, svCkpt, svSess, svQueue, svFinal, svReread, svMake, svStash,
                       svAct, svQuit, svFault>>
    BY DEF SvLoadStart
  <1>2. LoadSnapshot \in SvSnap /\ NotAhead(LoadSnapshot)
    <2>. DEFINE best == IF svCkpt.exists /\ (~svRow.exists \/ FresherThan(svCkpt, svRow)) THEN svCkpt ELSE svRow
                snap == [ver |-> best.ver, epoch |-> best.epoch, data |-> best.data]
    <2>1. LoadSnapshot = snap
      BY DEF LoadSnapshot
    <2>2. best \in {svCkpt, svRow}
      OBVIOUS
    <2>. HIDE DEF best
    <2>3. /\ best.ver \in Nat /\ best.epoch \in 0..SvMaxEpoch /\ best.data \in 0..SvMaxAct
          /\ best.ver <= svRow.ver /\ best.data <= svAct
      BY <2>2, DataIsNat DEF SvTyped, SvBounds, NotAhead
    <2>. QED
      BY <2>1, <2>3 DEF SvSnap, NotAhead
  <1>. DEFINE w == <<LoadSnapshot>>
  <1>3. w \in SvSlot /\ w # <<>> /\ w[1] = LoadSnapshot
    BY <1>2, FullSlot
  <1>4. svLoad' = [svLoad EXCEPT ![s] = w]
    BY <1>1
  <1>. HIDE DEF w
  <1>5. svLoad'[s] = w /\ \A t \in SvShards \ {s} : svLoad'[t] = svLoad[t]
    BY <1>4 DEF SvTyped
  <1>6. \A t \in SvShards : Held(t)' = Held(t) /\ Queued(t)' = Queued(t)
    BY <1>1 DEF Held, Queued
  <1>7. SvTyped'
    BY <1>1, <1>3, <1>4 DEF SvTyped
  <1>8. SvBounds'
    BY <1>1, <1>2, <1>3, <1>5, <1>6 DEF SvBounds, NotAhead
  <1>9. SvCreation'
    BY <1>1 DEF SvCreation
  <1>10. OneSession' /\ SvFresh'
    BY <1>1, <1>6 DEF OneSession, SvFresh
  <1>11. QuitSafe'
    BY <1>1, <1>6 DEF QuitSafe, Landed, OnlyAt, InQueue, InFinal, InStash, IsQuit
  <1>. QED
    BY <1>7, <1>8, <1>9, <1>10, <1>11

LEMMA ClaimKeeps ==
  ASSUME SvInv, NEW s \in SvShards, SvClaim(s)
  PROVE  SvInv'
  <1>. USE DEF SvInv
  <1>. DEFINE snap == svLoad[s][1]
              x == [live |-> TRUE, pid |-> TRUE, ver |-> snap.ver, epoch |-> svRow.epoch + 1, data |-> snap.data]
  <1>1. svLoad[s] # <<>> /\ svLoad[s] \in SvSlot
    BY DEF SvClaim, SvTyped
  <1>2. snap \in SvSnap /\ Head(svLoad[s]) = snap
    BY <1>1, SlotOfOne
  <1>3. /\ svRow.epoch < SvMaxEpoch /\ svRow' = [svRow EXCEPT !.epoch = svRow.epoch + 1]
        /\ svSess' = [svSess EXCEPT ![s] = x] /\ svLoad' = [svLoad EXCEPT ![s] = <<>>]
        /\ UNCHANGED <<svCkpt, svQueue, svFinal, svReread, svMake, svStash, svAct, svQuit, svFault>>
    BY <1>2 DEF SvClaim
  <1>4. NotAhead(snap)
    BY <1>1 DEF SvBounds
  <1>5. /\ svRow.exists /\ svRow.epoch \in 0..SvMaxEpoch /\ svRow.epoch + 1 \in 0..SvMaxEpoch
        /\ svRow.epoch \in Nat
    <2>1. svRow.epoch \in 0..SvMaxEpoch /\ SvMaxEpoch \in Nat
      BY SvAssumption DEF SvTyped
    <2>2. svRow.exists
      BY <1>1 DEF SvCreation
    <2>. QED
      BY <1>3, <2>1, <2>2
  <1>6. /\ x \in SvSession /\ x.live /\ x.pid /\ x.epoch = svRow.epoch + 1 /\ NotAhead(x)
    BY <1>2, <1>4, <1>5 DEF SvSession, SvSnap, NotAhead
  <1>. HIDE DEF x, snap
  <1>7. svSess'[s] = x /\ \A t \in SvShards \ {s} : svSess'[t] = svSess[t]
    BY <1>3 DEF SvTyped
  <1>8. /\ svRow'.epoch = svRow.epoch + 1 /\ svRow'.exists = svRow.exists /\ svRow'.ver = svRow.ver
        /\ svRow'.data = svRow.data /\ svRow'.by = svRow.by
        /\ svRow' \in [exists : BOOLEAN, ver : Nat, epoch : 0..SvMaxEpoch, data : 0..SvMaxAct, by : 0..SvMaxEpoch]
    BY <1>3, <1>5 DEF SvTyped
  <1>9. svLoad'[s] = <<>> /\ \A t \in SvShards \ {s} : svLoad'[t] = svLoad[t]
    BY <1>3 DEF SvTyped
  <1>10. \A t \in SvShards : Held(t)' = Held(t) /\ Queued(t)' = Queued(t)
    BY <1>3 DEF Held, Queued
  <1>11. SvTyped'
    <2>1. <<>> \in SvSlot
      BY DEF SvSlot
    <2>. QED
      BY <2>1, <1>3, <1>6, <1>8 DEF SvTyped
  <1>12. \A t \in SvShards : /\ svSess[t].epoch < svRow.epoch + 1
                             /\ \A h \in Held(t) : h.epoch < svRow.epoch + 1
    <2>1. \A t \in SvShards : /\ svSess[t].epoch <= svRow.epoch /\ svSess[t].epoch \in Nat
                              /\ \A h \in Held(t) : h.epoch <= svRow.epoch /\ h.epoch \in Nat
      BY DataIsNat DEF SvBounds
    <2>2. svRow.epoch \in Nat
      BY DataIsNat
    <2>3. \A e \in Nat : e <= svRow.epoch => e < svRow.epoch + 1
      BY <2>2
    <2>. QED
      BY <2>1, <2>3
  <1>13. SvBounds'
    <2>1. svRow.by < svRow.epoch + 1 /\ svCkpt.epoch < svRow.epoch + 1 /\ svQuit.epoch < svRow.epoch + 1
      BY <1>5, DataIsNat DEF SvBounds
    <2>2. \A y : NotAhead(y)' <=> NotAhead(y)
      BY <1>3, <1>8 DEF NotAhead
    <2>3. svRow'.by <= svRow'.epoch /\ svRow'.data <= svAct /\ svCkpt.epoch <= svRow'.epoch
          /\ svQuit.epoch <= svRow'.epoch
      BY <2>1, <1>8, DataIsNat DEF SvBounds
    <2>4. \A t \in SvShards : NotAhead(svSess'[t]) /\ svSess'[t].epoch <= svRow'.epoch
      BY <1>6, <1>7, <1>8, <1>12, DataIsNat DEF SvBounds
    <2>5. \A t \in SvShards : \A h \in Held(t) : h.epoch <= svRow'.epoch
      BY <1>8, <1>12, DataIsNat
    <2>6. NotAhead(svCkpt)' /\ svQuit'.data <= svAct'
      BY <2>2, <1>3, <1>8 DEF SvBounds, NotAhead
    <2>7. \A t \in SvShards : NotAhead(svSess[t])'
      BY <2>4, <1>3, <1>8 DEF NotAhead
    <2>8. \A t \in SvShards : svLoad'[t] # <<>> => NotAhead(svLoad[t][1])'
      BY <1>3, <1>8, <1>9 DEF SvBounds, NotAhead
    <2>9. \A t \in SvShards : \A h \in Held(t)' : NotAhead(h)'
      BY <1>3, <1>8, <1>10 DEF SvBounds, NotAhead
    <2>. QED
      BY <2>3, <2>4, <2>5, <2>6, <2>7, <2>8, <2>9, <1>3, <1>10 DEF SvBounds
  <1>14. SvCreation'
    BY <1>3, <1>5, <1>6, <1>7, <1>8 DEF SvCreation
  <1>15. OneSession'
    BY <1>6, <1>7, <1>10, <1>12, DataIsNat DEF OneSession
  <1>16. SvFresh'
    <2>1. x.epoch # svRow.by
      BY <1>5, <1>6, DataIsNat DEF SvBounds
    <2>. QED
      BY <2>1, <1>3, <1>7, <1>8, <1>10 DEF SvFresh
  <1>17. QuitSafe'
    <2>1. svQuit.epoch # svRow'.epoch
      BY <1>5, <1>8, DataIsNat DEF SvBounds
    <2>. QED
      BY <2>1, <1>3 DEF QuitSafe
  <1>. QED
    BY <1>11, <1>13, <1>14, <1>15, <1>16, <1>17

LEMMA NewSession ==
  LET x == [SvNobody EXCEPT !.live = TRUE] IN
  x \in SvSession /\ x.live /\ ~x.pid /\ x.ver = 0 /\ x.epoch = 0 /\ x.data = 0
  <1>1. /\ SvNobody \in SvSession /\ ~SvNobody.pid
        /\ SvNobody.ver = 0 /\ SvNobody.epoch = 0 /\ SvNobody.data = 0
    BY SvAssumption DEF SvNobody, SvSession
  <1>2. ASSUME NEW n \in SvSession
        PROVE  LET x == [n EXCEPT !.live = TRUE] IN
               x \in SvSession /\ x.live /\ x.pid = n.pid /\ x.ver = n.ver /\ x.epoch = n.epoch /\ x.data = n.data
    BY DEF SvSession
  <1>. QED
    BY <1>1, <1>2

LEMMA LoginNewKeeps ==
  ASSUME SvInv, NEW s \in SvShards, SvLoginNew(s)
  PROVE  SvInv'
  <1>. USE DEF SvInv
  <1>. DEFINE x == [SvNobody EXCEPT !.live = TRUE]
  <1>1. /\ ~svRow.exists /\ \A t \in SvShards : ~svMake[t] /\ ~svSess[t].live /\ svStash[t] = <<>>
        /\ svSess' = [svSess EXCEPT ![s] = x] /\ svMake' = [svMake EXCEPT ![s] = TRUE]
        /\ UNCHANGED <<svRow, svCkpt, svQueue, svFinal, svReread, svLoad, svStash, svAct, svQuit, svFault>>
    BY DEF SvLoginNew
  <1>2. /\ svRow.epoch = 0 /\ svRow.data = 0 /\ ~svCkpt.exists
        /\ \A t \in SvShards : svQueue[t] = <<>> /\ svFinal[t] = <<>> /\ svLoad[t] = <<>>
    BY <1>1 DEF SvCreation
  <1>3. /\ x \in SvSession /\ x.live /\ ~x.pid /\ x.ver = 0 /\ x.epoch = 0 /\ x.data = 0
    BY NewSession
  <1>. HIDE DEF x
  <1>4. svSess'[s] = x /\ \A t \in SvShards \ {s} : svSess'[t] = svSess[t]
    BY <1>1 DEF SvTyped
  <1>5. svMake'[s] /\ \A t \in SvShards \ {s} : svMake'[t] = svMake[t]
    BY <1>1 DEF SvTyped
  <1>6. \A t \in SvShards : Held(t) = {} /\ Queued(t) = {} /\ Held(t)' = {} /\ Queued(t)' = {}
    BY <1>1, <1>2 DEF Held, Queued
  <1>7. SvTyped'
    BY <1>1, <1>3 DEF SvTyped
  <1>8. SvBounds'
    <2>1. NotAhead(x) /\ x.epoch <= svRow.epoch
      BY <1>2, <1>3, DataIsNat DEF NotAhead
    <2>. QED
      BY <2>1, <1>1, <1>4, <1>6 DEF SvBounds, NotAhead
  <1>9. SvCreation'
    BY <1>1, <1>3, <1>4, <1>5 DEF SvCreation, Occupied
  <1>10. OneSession'
    BY <1>1, <1>4, <1>6 DEF OneSession
  <1>11. SvFresh'
    BY <1>1, <1>2, <1>3, <1>4, <1>6, DataIsNat DEF SvFresh
  <1>12. QuitSafe'
    <2>1. \A t \in SvShards : ~InQueue(t) /\ ~InFinal(t) /\ ~InStash(t)
      BY <1>1, <1>2 DEF InQueue, InFinal, InStash
    <2>2. ~svFault /\ svQuit.epoch = svRow.epoch => Landed
      BY <2>1 DEF QuitSafe
    <2>3. Landed => svQuit.data = 0
      BY <1>2, DataIsNat DEF Landed
    <2>4. Landed => Landed'
      BY <2>3, <1>1, <1>3, <1>4, <1>6 DEF Landed
    <2>. QED
      BY <2>2, <2>4, <1>1 DEF QuitSafe
  <1>. QED
    BY <1>7, <1>8, <1>9, <1>10, <1>11, <1>12

LEMMA CreateFailedKeeps ==
  ASSUME SvInv, NEW s \in SvShards, SvCreateFailed(s)
  PROVE  SvInv'
  <1>. USE DEF SvInv
  <1>1. /\ svMake' = [svMake EXCEPT ![s] = FALSE] /\ svStash' = [svStash EXCEPT ![s] = <<>>] /\ svFault'
        /\ svMake[s] /\ svFault' \in BOOLEAN
        /\ UNCHANGED <<svRow, svCkpt, svSess, svQueue, svFinal, svReread, svLoad, svAct, svQuit>>
    BY DEF SvCreateFailed
  <1>2. /\ ~svMake'[s] /\ svStash'[s] = <<>>
        /\ \A t \in SvShards \ {s} : svMake'[t] = svMake[t] /\ svStash'[t] = svStash[t]
    BY <1>1 DEF SvTyped
  <1>3. \A t \in SvShards : Held(t)' \subseteq Held(t) /\ Queued(t)' = Queued(t)
    BY <1>1, <1>2 DEF Held, Queued
  <1>4. SvTyped'
    <2>1. <<>> \in SvSlot
      BY DEF SvSlot
    <2>. QED
      BY <1>1, <2>1 DEF SvTyped
  <1>5. SvBounds'
    BY <1>1, <1>3 DEF SvBounds, NotAhead
  <1>6. SvCreation'
    BY <1>1, <1>2 DEF SvCreation, Occupied
  <1>7. OneSession' /\ SvFresh'
    BY <1>1, <1>3 DEF OneSession, SvFresh
  <1>8. QuitSafe'
    BY <1>1 DEF QuitSafe
  <1>. QED
    BY <1>4, <1>5, <1>6, <1>7, <1>8

LEMMA PlayKeeps ==
  ASSUME SvInv, NEW s \in SvShards, SvPlay(s)
  PROVE  SvInv'
  <1>. USE DEF SvInv
  <1>. DEFINE x == [svSess[s] EXCEPT !.data = svAct + 1]
  <1>1. /\ svSess[s].live /\ svAct < SvMaxAct /\ svAct' = svAct + 1 /\ svSess' = [svSess EXCEPT ![s] = x]
        /\ UNCHANGED <<svRow, svCkpt, svQueue, svFinal, svReread, svLoad, svMake, svStash, svQuit, svFault>>
    BY DEF SvPlay
  <1>2. svAct + 1 \in 0..SvMaxAct /\ svAct \in Nat
    <2>1. svAct \in 0..SvMaxAct /\ SvMaxAct \in Nat
      BY SvAssumption DEF SvTyped
    <2>. QED
      BY <1>1, <2>1
  <1>3. /\ x \in SvSession /\ x.live /\ x.pid = svSess[s].pid /\ x.ver = svSess[s].ver
        /\ x.epoch = svSess[s].epoch /\ x.data = svAct + 1
    <2>1. svSess[s] \in SvSession
      BY DEF SvTyped
    <2>. QED
      BY <1>1, <1>2, <2>1 DEF SvSession
  <1>. HIDE DEF x
  <1>4. svSess'[s] = x /\ \A t \in SvShards \ {s} : svSess'[t] = svSess[t]
    BY <1>1 DEF SvTyped
  <1>5. \A t \in SvShards : Held(t)' = Held(t) /\ Queued(t)' = Queued(t)
    BY <1>1 DEF Held, Queued
  <1>6. SvTyped'
    BY <1>1, <1>2, <1>3 DEF SvTyped
  <1>7. \A y : NotAhead(y) /\ y.data \in Nat => NotAhead(y)'
    BY <1>1, <1>2 DEF NotAhead
  <1>8. SvBounds'
    <2>1. svRow.data <= svAct' /\ svQuit.data <= svAct' /\ NotAhead(svCkpt)'
      BY <1>1, <1>2, DataIsNat DEF SvBounds, NotAhead
    <2>2. x.ver <= svRow.ver /\ x.data <= svAct + 1 /\ x.epoch <= svRow.epoch
      BY <1>2, <1>3, DataIsNat DEF SvBounds, NotAhead
    <2>3. \A t \in SvShards : NotAhead(svSess[t])' /\ svSess'[t].epoch <= svRow'.epoch
      <3>. SUFFICES ASSUME NEW t \in SvShards
                    PROVE  svSess'[t].ver <= svRow.ver /\ svSess'[t].data <= svAct' /\ svSess'[t].epoch <= svRow.epoch
        BY <1>1 DEF NotAhead
      <3>1. CASE t = s
        BY <3>1, <2>2, <1>1, <1>4
      <3>2. CASE t # s
        BY <3>2, <1>1, <1>2, <1>4, DataIsNat DEF SvBounds, NotAhead
      <3>. QED
        BY <3>1, <3>2
    <2>4. \A t \in SvShards : svLoad[t] # <<>> => NotAhead(svLoad[t][1])'
      <3>. SUFFICES ASSUME NEW t \in SvShards, svLoad[t] # <<>>
                    PROVE  NotAhead(svLoad[t][1])'
        OBVIOUS
      <3>1. svLoad[t][1] \in SvSnap
        BY SlotOfOne DEF SvTyped
      <3>. QED
        BY <3>1, <1>1, <1>2, SvAssumption DEF SvBounds, NotAhead, SvSnap
    <2>5. \A t \in SvShards : \A h \in Held(t)' : NotAhead(h)' /\ h.epoch <= svRow.epoch
      BY <1>5, <1>7, DataIsNat DEF SvBounds
    <2>. QED
      BY <1>1, <2>1, <2>3, <2>4, <2>5 DEF SvBounds
  <1>9. SvCreation'
    BY <1>1, <1>3, <1>4 DEF SvCreation, Occupied
  <1>10. x.data >= svSess[s].data
    <2>1. svSess[s].data <= svAct /\ svSess[s].data \in Nat /\ svAct \in Nat
      BY DataIsNat DEF SvBounds, NotAhead
    <2>. QED
      BY <1>2, <1>3, <2>1
  <1>11. Carried
    <2>. SUFFICES ASSUME NEW t \in SvShards
                  PROVE  svSess'[t].live => /\ svSess[t].live /\ svSess'[t].epoch = svSess[t].epoch
                                            /\ svSess'[t].data >= svSess[t].data
      BY <1>5 DEF Carried
    <2>1. CASE t = s
      BY <2>1, <1>1, <1>3, <1>4, <1>10
    <2>2. CASE t # s
      BY <2>2, <1>4, DataIsNat
    <2>. QED
      BY <2>1, <2>2
  <1>12. OneSession'
    BY <1>6, <1>11, CarriedOneSession
  <1>13. SvFresh'
    <2>1. svSess[s].epoch = svRow.by => x.data >= svRow.data
      BY <1>1, <1>2, <1>3, DataIsNat DEF SvBounds
    <2>. QED
      BY <2>1, <1>1, <1>3, <1>4, <1>5 DEF SvFresh
  <1>14. QuitSafe'
    <2>1. Landed => svRow'.data >= svQuit.data
      BY <1>1 DEF Landed
    <2>2. \A t \in SvShards : InQueue(t) \/ InFinal(t) \/ InStash(t) => (InQueue(t) \/ InFinal(t) \/ InStash(t))'
      BY <1>1 DEF InQueue, InFinal, InStash, IsQuit
    <2>. QED
      BY <2>1, <2>2, <1>1, <1>6, <1>11, CarriedQuit
  <1>. QED
    BY <1>6, <1>8, <1>9, <1>12, <1>13, <1>14

\* A step that loses a shard's flush or its whole state is a fault, and only takes away.
LEMMA LosingKeeps ==
  ASSUME SvInv, svFault', svFault' \in BOOLEAN, UNCHANGED <<svRow, svCkpt, svAct, svQuit>>,
         SvTyped', NEW s \in SvShards,
         \A t \in SvShards \ {s} : /\ svSess'[t] = svSess[t] /\ svQueue'[t] = svQueue[t]
                                   /\ svFinal'[t] = svFinal[t] /\ svLoad'[t] = svLoad[t]
                                   /\ svMake'[t] = svMake[t] /\ svStash'[t] = svStash[t],
         \A t \in SvShards : svReread'[t] => svReread[t],
         svSess'[s] \in {svSess[s], SvNobody}, svQueue'[s] \in {svQueue[s], <<>>},
         svFinal'[s] \in {svFinal[s], <<>>}, svLoad'[s] \in {svLoad[s], <<>>},
         svMake'[s] \in {svMake[s], FALSE}, svStash'[s] \in {svStash[s], <<>>}
  PROVE  SvInv'
  <1>. USE DEF SvInv
  <1>1. /\ ~SvNobody.live /\ ~SvNobody.pid /\ SvNobody.ver = 0 /\ SvNobody.epoch = 0 /\ SvNobody.data = 0
    BY DEF SvNobody
  <1>2. \A t \in SvShards : Held(t)' \subseteq Held(t) /\ Queued(t)' \subseteq Queued(t)
    <2>. SUFFICES ASSUME NEW t \in SvShards
                  PROVE  Held(t)' \subseteq Held(t) /\ Queued(t)' \subseteq Queued(t)
      OBVIOUS
    <2>1. svQueue'[t] \in {svQueue[t], <<>>} /\ svFinal'[t] \in {svFinal[t], <<>>}
          /\ svStash'[t] \in {svStash[t], <<>>}
      OBVIOUS
    <2>2. Queued(t)' \subseteq Queued(t)
      BY <2>1 DEF Queued
    <2>. QED
      BY <2>1, <2>2 DEF Held
  <1>3. SvBounds'
    <2>1. \A y : NotAhead(y)' <=> NotAhead(y)
      BY DEF NotAhead
    <2>2. NotAhead(SvNobody) /\ SvNobody.epoch <= svRow.epoch
      BY <1>1, DataIsNat DEF NotAhead
    <2>3. \A t \in SvShards : NotAhead(svSess'[t]) /\ svSess'[t].epoch <= svRow.epoch
      BY <2>2 DEF SvBounds
    <2>4. \A t \in SvShards : NotAhead(svSess[t])'
      BY <2>3 DEF NotAhead
    <2>5. \A t \in SvShards : svLoad'[t] # <<>> => NotAhead(svLoad[t][1])'
      <3>. SUFFICES ASSUME NEW t \in SvShards, svLoad'[t] # <<>>
                    PROVE  NotAhead(svLoad[t][1])'
        OBVIOUS
      <3>1. svLoad'[t] = svLoad[t]
        OBVIOUS
      <3>. QED
        BY <3>1 DEF SvBounds, NotAhead
    <2>6. \A t \in SvShards : \A h \in Held(t)' : NotAhead(h)' /\ h.epoch <= svRow.epoch
      BY <1>2, <2>1 DEF SvBounds
    <2>7. NotAhead(svCkpt)' /\ svRow'.by <= svRow'.epoch /\ svRow'.data <= svAct'
      BY DEF SvBounds, NotAhead
    <2>. QED
      BY <2>3, <2>4, <2>5, <2>6, <2>7 DEF SvBounds
  <1>4. SvCreation'
    <2>1. \A t \in SvShards : Occupied(t)' => Occupied(t)
      BY <1>1 DEF Occupied
    <2>2. \A t \in SvShards : /\ svSess'[t].live => svSess[t].live /\ svSess'[t].pid = svSess[t].pid
                              /\ svSess'[t].pid => svSess[t].pid
      BY <1>1
    <2>3. CASE svRow.exists
      <3>1. svRow'.exists
        BY <2>3
      <3>2. \A t \in SvShards : ~svMake[t] /\ svStash[t] = <<>> /\ (svSess[t].live => svSess[t].pid)
        BY <2>3 DEF SvCreation
      <3>3. \A t \in SvShards : ~svMake'[t] /\ svStash'[t] = <<>> /\ (svSess'[t].live => svSess'[t].pid)
        BY <2>2, <3>2
      <3>. QED
        BY <3>1, <3>3 DEF SvCreation
    <2>4. CASE ~svRow.exists
      BY <2>1, <2>2, <2>4 DEF SvCreation
    <2>. QED
      BY <2>3, <2>4
  <1>5. Carried
    BY <1>1, <1>2, DataIsNat DEF Carried
  <1>6. OneSession'
    BY <1>5, CarriedOneSession
  <1>7. SvFresh'
    BY <1>1, <1>2 DEF SvFresh
  <1>8. QuitSafe'
    BY DEF QuitSafe
  <1>. QED
    BY <1>3, <1>4, <1>6, <1>7, <1>8

LEMMA GivesUpKeeps ==
  ASSUME SvInv, NEW s \in SvShards, SvFinalizeGivesUp(s)
  PROVE  SvInv'
  <1>1. /\ svFinal' = [svFinal EXCEPT ![s] = <<>>] /\ svFault' /\ svFault' \in BOOLEAN
        /\ UNCHANGED <<svRow, svCkpt, svSess, svQueue, svReread, svLoad, svMake, svStash, svAct, svQuit>>
    BY DEF SvFinalizeGivesUp
  <1>2. SvTyped'
    <2>1. <<>> \in SvSlot
      BY DEF SvSlot
    <2>. QED
      BY <1>1, <2>1 DEF SvInv, SvTyped
  <1>3. svFinal'[s] = <<>> /\ \A t \in SvShards \ {s} : svFinal'[t] = svFinal[t]
    BY <1>1 DEF SvInv, SvTyped
  <1>. QED
    BY <1>1, <1>2, <1>3, LosingKeeps

LEMMA CrashKeeps ==
  ASSUME SvInv, NEW s \in SvShards, SvCrash(s)
  PROVE  SvInv'
  <1>1. /\ svSess' = [svSess EXCEPT ![s] = SvNobody] /\ svQueue' = [svQueue EXCEPT ![s] = <<>>]
        /\ svFinal' = [svFinal EXCEPT ![s] = <<>>] /\ svReread' = [svReread EXCEPT ![s] = FALSE]
        /\ svLoad' = [svLoad EXCEPT ![s] = <<>>] /\ svMake' = [svMake EXCEPT ![s] = FALSE]
        /\ svStash' = [svStash EXCEPT ![s] = <<>>] /\ svFault' /\ svFault' \in BOOLEAN
        /\ UNCHANGED <<svRow, svCkpt, svAct, svQuit>>
    BY DEF SvCrash
  <1>2. SvNobody \in SvSession
    BY SvAssumption DEF SvNobody, SvSession
  <1>. HIDE DEF SvNobody
  <1>3. /\ svSess'[s] = SvNobody /\ svQueue'[s] = <<>> /\ svFinal'[s] = <<>> /\ svLoad'[s] = <<>>
        /\ svMake'[s] = FALSE /\ svStash'[s] = <<>>
        /\ \A t \in SvShards \ {s} : /\ svSess'[t] = svSess[t] /\ svQueue'[t] = svQueue[t]
                                     /\ svFinal'[t] = svFinal[t] /\ svLoad'[t] = svLoad[t]
                                     /\ svMake'[t] = svMake[t] /\ svStash'[t] = svStash[t]
        /\ \A t \in SvShards : svReread'[t] => svReread[t]
    BY <1>1 DEF SvInv, SvTyped
  <1>4. SvTyped'
    <2>1. <<>> \in SvSlot /\ <<>> \in Seq(SvRequest) /\ Len(<<>>) = 0 /\ SvDepth \in Nat
      BY SvAssumption DEF SvSlot
    <2>2. \A t \in SvShards : Len(svQueue'[t]) <= SvDepth
      <3>1. Len(svQueue'[s]) <= SvDepth
        BY <2>1, <1>3
      <3>. QED
        BY <3>1, <1>3 DEF SvInv, SvTyped
    <2>3. svQueue' \in [SvShards -> Seq(SvRequest)] /\ svSess' \in [SvShards -> SvSession]
      BY <2>1, <1>1, <1>2 DEF SvInv, SvTyped
    <2>4. svFinal' \in [SvShards -> SvSlot] /\ svLoad' \in [SvShards -> SvSlot] /\ svStash' \in [SvShards -> SvSlot]
      BY <2>1, <1>1 DEF SvInv, SvTyped
    <2>5. svReread' \in [SvShards -> BOOLEAN] /\ svMake' \in [SvShards -> BOOLEAN]
      BY <1>1 DEF SvInv, SvTyped
    <2>. QED
      BY <2>2, <2>3, <2>4, <2>5, <1>1 DEF SvInv, SvTyped
  <1>. QED
    BY <1>1, <1>3, <1>4, LosingKeeps

-----------------------------------------------------------------------------
(* The steps that queue a dump.                                                *)

LEMMA EnqueuedHeld ==
  ASSUME SvTyped, NEW s \in SvShards, NEW reason \in {"checkpoint", "flush", "final"},
         NEW snap \in SvSnap, Enqueue(s, reason, snap),
         svFinal' = svFinal, \A t \in SvShards : svStash'[t] \in {svStash[t], <<>>}
  PROVE  /\ Queued(s)' \subseteq Queued(s) \cup {snap} /\ Held(s)' \subseteq Held(s) \cup {snap}
         /\ \A t \in SvShards \ {s} : Queued(t)' = Queued(t) /\ Held(t)' \subseteq Held(t)
  <1>1. Queued(s)' \subseteq Queued(s) \cup {snap} /\ \A t \in SvShards \ {s} : svQueue'[t] = svQueue[t]
    BY EnqueueAppends
  <1>2. \A t \in SvShards \ {s} : Queued(t)' = Queued(t)
    BY <1>1 DEF Queued
  <1>3. Held(s)' \subseteq Held(s) \cup {snap}
    BY <1>1 DEF Held
  <1>4. \A t \in SvShards \ {s} : Held(t)' \subseteq Held(t)
    BY <1>2 DEF Held
  <1>. QED
    BY <1>1, <1>2, <1>3, <1>4

\* The dump of a live session is fresh.
LEMMA DumpIsFresh ==
  ASSUME SvInv, NEW s \in SvShards, svSess[s].live
  PROVE  LET d == Dump(svSess[s]) IN
         /\ d \in SvSnap /\ d.ver = svSess[s].ver /\ d.epoch = svSess[s].epoch /\ d.data = svSess[s].data
         /\ NotAhead(d) /\ d.epoch <= svRow.epoch
         /\ d.epoch = svRow.by => d.data >= svRow.data
  BY DumpTyped DEF SvInv, Dump, SvBounds, NotAhead, SvFresh

\* Queueing a fresh snapshot of the live session, or one the shard holds, keeps the bounds,
\* the claim's single session and the freshness.
LEMMA FreshEnqueue ==
  ASSUME SvInv, NEW s \in SvShards, NEW reason \in {"checkpoint", "flush", "final"},
         NEW snap \in SvSnap, Enqueue(s, reason, snap),
         snap.ver <= svRow.ver, snap.data <= svAct, snap.epoch <= svRow.epoch,
         snap.ver = svRow.ver /\ snap.epoch = svRow.by => snap.data >= svRow.data,
         \/ svSess[s].live /\ snap.epoch = svSess[s].epoch /\ snap.data = svSess[s].data
         \/ \E g \in Held(s) : snap.epoch = g.epoch /\ snap.data = g.data,
         SvTyped', UNCHANGED <<svCkpt, svFinal, svLoad, svAct>>,
         svRow' \in {svRow, [svRow EXCEPT !.exists = TRUE]},
         svQuit'.data <= svAct, svQuit'.epoch <= svRow.epoch,
         \A t \in SvShards : svStash'[t] \in {svStash[t], <<>>},
         \A t \in SvShards : /\ svSess'[t].ver <= svRow.ver /\ svSess'[t].data <= svAct
                             /\ svSess'[t].epoch <= svRow.epoch
                             /\ svSess'[t].live => /\ svSess[t].live /\ svSess'[t].epoch = svSess[t].epoch
                                                   /\ svSess'[t].data = svSess[t].data
  PROVE  SvBounds' /\ Carried /\ OneSession' /\ SvFresh'
  <1>. USE DEF SvInv
  <1>1. /\ svRow'.ver = svRow.ver /\ svRow'.epoch = svRow.epoch /\ svRow'.by = svRow.by
        /\ svRow'.data = svRow.data
    BY DEF SvTyped
  <1>2. /\ Queued(s)' \subseteq Queued(s) \cup {snap} /\ Held(s)' \subseteq Held(s) \cup {snap}
        /\ \A t \in SvShards \ {s} : Queued(t)' = Queued(t) /\ Held(t)' \subseteq Held(t)
    BY EnqueuedHeld
  <1>3. SvBounds'
    <2>1. \A t \in SvShards : svLoad'[t] # <<>> => NotAhead(svLoad[t][1])'
      BY <1>1 DEF SvBounds, NotAhead
    <2>2. \A t \in SvShards : NotAhead(svSess[t])' /\ svSess'[t].epoch <= svRow'.epoch
      BY <1>1 DEF NotAhead
    <2>3. \A t \in SvShards : \A h \in Held(t)' : NotAhead(h)' /\ h.epoch <= svRow'.epoch
      BY <1>1, <1>2 DEF SvBounds, NotAhead
    <2>4. /\ svRow'.by <= svRow'.epoch /\ svRow'.data <= svAct' /\ NotAhead(svCkpt)'
          /\ svCkpt'.epoch <= svRow'.epoch /\ svQuit'.data <= svAct' /\ svQuit'.epoch <= svRow'.epoch
      BY <1>1 DEF SvBounds, NotAhead
    <2>. QED
      BY <2>1, <2>2, <2>3, <2>4 DEF SvBounds
  <1>4. Carried
    <2>. SUFFICES ASSUME NEW t \in SvShards
                  PROVE  /\ svSess'[t].live => /\ svSess[t].live /\ svSess'[t].epoch = svSess[t].epoch
                                               /\ svSess'[t].data >= svSess[t].data
                         /\ \A h \in Held(t)' :
                              \/ \E g \in Held(t) : h.epoch = g.epoch /\ h.data = g.data
                              \/ svSess[t].live /\ h.epoch = svSess[t].epoch /\ h.data = svSess[t].data
      BY DEF Carried
    <2>1. svSess'[t].live => /\ svSess[t].live /\ svSess'[t].epoch = svSess[t].epoch
                             /\ svSess'[t].data >= svSess[t].data
      BY DataIsNat
    <2>2. \A h \in Held(t)' : h \in Held(t) \/ (t = s /\ h = snap)
      BY <1>2
    <2>. QED
      BY <2>1, <2>2
  <1>5. OneSession'
    BY <1>4, CarriedOneSession
  <1>6. SvFresh'
    BY <1>1, <1>2 DEF SvFresh
  <1>. QED
    BY <1>3, <1>4, <1>5, <1>6

LEMMA CadenceKeeps ==
  ASSUME SvInv, NEW s \in SvShards, NEW reason \in {"checkpoint", "flush"}, SvCadence(s, reason)
  PROVE  SvInv'
  <1>. USE DEF SvInv
  <1>. DEFINE d == Dump(svSess[s])
  <1>1. /\ svSess[s].live /\ svSess[s].pid /\ Enqueue(s, reason, d)
        /\ UNCHANGED <<svRow, svCkpt, svSess, svFinal, svReread, svLoad, svMake, svStash, svAct, svQuit>>
    BY DEF SvCadence
  <1>2. /\ d \in SvSnap /\ d.epoch = svSess[s].epoch /\ d.data = svSess[s].data
        /\ NotAhead(d) /\ d.epoch <= svRow.epoch /\ (d.epoch = svRow.by => d.data >= svRow.data)
    BY <1>1, DumpIsFresh
  <1>. HIDE DEF d
  <1>3. /\ svQueue' \in [SvShards -> Seq(SvRequest)]
        /\ \A t \in SvShards : Len(svQueue'[t]) <= SvDepth
        /\ \A t \in SvShards \ {s} : svQueue'[t] = svQueue[t]
        /\ svFault' \in BOOLEAN /\ (svFault => svFault')
    BY <1>1, <1>2, EnqueueAppends
  <1>4. SvTyped'
    BY <1>1, <1>3 DEF SvTyped
  <1>5. SvBounds' /\ Carried /\ OneSession' /\ SvFresh'
    <2>1. d.ver <= svRow.ver /\ d.data <= svAct
      BY <1>2 DEF NotAhead
    <2>2. svQuit'.data <= svAct /\ svQuit'.epoch <= svRow.epoch
      BY <1>1 DEF SvBounds
    <2>3. \A t \in SvShards : /\ svSess'[t].ver <= svRow.ver /\ svSess'[t].data <= svAct
                              /\ svSess'[t].epoch <= svRow.epoch
      BY <1>1 DEF SvBounds, NotAhead
    <2>. QED
      BY <1>1, <1>2, <1>4, <2>1, <2>2, <2>3, FreshEnqueue
  <1>6. SvCreation'
    <2>1. svRow.exists
      BY <1>1 DEF SvCreation
    <2>. QED
      BY <2>1, <1>1 DEF SvCreation
  <1>7. QuitSafe'
    <2>1. \A t \in SvShards : OnlyAt(t) /\ (InQueue(t) \/ InFinal(t) \/ InStash(t))
                                => InQueue(t)' \/ InFinal(t)' \/ InStash(t)'
      BY <1>1, <1>3 DEF OnlyAt, InQueue, InFinal, InStash, IsQuit
    <2>. QED
      BY <2>1, <1>1, <1>3, <1>4, <1>5, CarriedQuit DEF Landed
  <1>. QED
    BY <1>4, <1>5, <1>6, <1>7

LEMMA ReconcileKeeps ==
  ASSUME SvInv, NEW s \in SvShards, SvReconcile(s)
  PROVE  SvInv'
  <1>. USE DEF SvInv
  <1>1. /\ svReread' = [svReread EXCEPT ![s] = FALSE]
        /\ UNCHANGED <<svRow, svCkpt, svFinal, svLoad, svMake, svStash, svAct, svQuit>>
    BY DEF SvReconcile
  <1>2. CASE ~svSess[s].live
    <2>1. UNCHANGED <<svSess, svQueue, svFault>>
      BY <1>2 DEF SvReconcile
    <2>2. \A t \in SvShards : Held(t)' = Held(t) /\ Queued(t)' = Queued(t)
      BY <1>1, <2>1 DEF Held, Queued
    <2>3. SvTyped'
      BY <1>1, <2>1 DEF SvTyped
    <2>4. SvBounds' /\ SvCreation'
      BY <1>1, <2>1, <2>2 DEF SvBounds, SvCreation, NotAhead, Occupied
    <2>5. OneSession' /\ SvFresh'
      BY <1>1, <2>1, <2>2 DEF OneSession, SvFresh
    <2>6. QuitSafe'
      BY <1>1, <2>1, <2>2 DEF QuitSafe, Landed, OnlyAt, InQueue, InFinal, InStash, IsQuit
    <2>. QED
      BY <2>3, <2>4, <2>5, <2>6
  <1>3. CASE svSess[s].live
    <2>. DEFINE v == IF svRow.ver > svSess[s].ver THEN svRow.ver ELSE svSess[s].ver
                x == [svSess[s] EXCEPT !.ver = v]
                d == [Dump(svSess[s]) EXCEPT !.ver = v]
    <2>1. svSess' = [svSess EXCEPT ![s] = x] /\ Enqueue(s, "flush", d)
      BY <1>3 DEF SvReconcile
    <2>2. v \in Nat /\ v <= svRow.ver
      BY DataIsNat DEF SvBounds, NotAhead
    <2>. HIDE DEF v
    <2>3. /\ x \in SvSession /\ x.live = svSess[s].live /\ x.pid = svSess[s].pid /\ x.ver = v
          /\ x.epoch = svSess[s].epoch /\ x.data = svSess[s].data
      <3>1. svSess[s] \in SvSession
        BY DEF SvTyped
      <3>. QED
        BY <2>2, <3>1 DEF SvSession
    <2>4. d \in SvSnap /\ d.ver = v /\ d.epoch = svSess[s].epoch /\ d.data = svSess[s].data
      <3>1. Dump(svSess[s]) \in SvSnap
        BY DumpTyped
      <3>2. Dump(svSess[s]).epoch = svSess[s].epoch /\ Dump(svSess[s]).data = svSess[s].data
        BY DEF Dump
      <3>. QED
        BY <2>2, <3>1, <3>2 DEF SvSnap
    <2>. HIDE DEF x, d
    <2>5. /\ svQueue' \in [SvShards -> Seq(SvRequest)]
          /\ \A t \in SvShards : Len(svQueue'[t]) <= SvDepth
          /\ \A t \in SvShards \ {s} : svQueue'[t] = svQueue[t]
          /\ svFault' \in BOOLEAN /\ (svFault => svFault')
      BY <2>1, <2>4, EnqueueAppends
    <2>6. svSess'[s] = x /\ \A t \in SvShards \ {s} : svSess'[t] = svSess[t]
      BY <2>1 DEF SvTyped
    <2>7. SvTyped'
      BY <1>1, <2>1, <2>3, <2>5 DEF SvTyped
    <2>8. SvBounds' /\ Carried /\ OneSession' /\ SvFresh'
      <3>1. d.ver <= svRow.ver /\ d.data <= svAct /\ d.epoch <= svRow.epoch
        BY <2>2, <2>4 DEF SvBounds, NotAhead
      <3>2. d.ver = svRow.ver /\ d.epoch = svRow.by => d.data >= svRow.data
        BY <1>3, <2>4 DEF SvFresh
      <3>3. svQuit'.data <= svAct /\ svQuit'.epoch <= svRow.epoch
        BY <1>1 DEF SvBounds
      <3>4. \A t \in SvShards :
              /\ svSess'[t].ver <= svRow.ver /\ svSess'[t].data <= svAct
              /\ svSess'[t].epoch <= svRow.epoch
              /\ svSess'[t].live => /\ svSess[t].live /\ svSess'[t].epoch = svSess[t].epoch
                                    /\ svSess'[t].data = svSess[t].data
        BY <2>2, <2>3, <2>6 DEF SvBounds, NotAhead
      <3>. QED
        BY <1>1, <1>3, <2>1, <2>4, <2>7, <3>1, <3>2, <3>3, <3>4, FreshEnqueue
    <2>9. SvCreation'
      <3>1. CASE svRow.exists
        BY <3>1, <1>1, <2>3, <2>6 DEF SvCreation
      <3>2. CASE ~svRow.exists
        BY <3>2 DEF SvReconcile, SvCreation
      <3>. QED
        BY <3>1, <3>2
    <2>10. QuitSafe'
      <3>1. \A t \in SvShards : OnlyAt(t) /\ (InQueue(t) \/ InFinal(t) \/ InStash(t))
                                  => InQueue(t)' \/ InFinal(t)' \/ InStash(t)'
        BY <1>1, <1>3, <2>5 DEF OnlyAt, InQueue, InFinal, InStash, IsQuit
      <3>. QED
        BY <3>1, <1>1, <2>5, <2>7, <2>8, CarriedQuit DEF Landed
    <2>. QED
      BY <2>7, <2>8, <2>9, <2>10
  <1>. QED
    BY <1>2, <1>3

LEMMA CreatedKeeps ==
  ASSUME SvInv, NEW s \in SvShards, SvCreated(s)
  PROVE  SvInv'
  <1>. USE DEF SvInv
  <1>1. /\ svMake[s] /\ svMake' = [svMake EXCEPT ![s] = FALSE]
        /\ svRow' = [svRow EXCEPT !.exists = TRUE] /\ svStash' = [svStash EXCEPT ![s] = <<>>]
        /\ UNCHANGED <<svCkpt, svFinal, svReread, svLoad, svAct, svQuit>>
    BY DEF SvCreated
  <1>2. /\ ~svRow.exists /\ svRow.epoch = 0 /\ svRow.data = 0 /\ ~svCkpt.exists
        /\ \A t \in SvShards : svQueue[t] = <<>> /\ svFinal[t] = <<>> /\ svLoad[t] = <<>>
        /\ \A t \in SvShards : Occupied(t) => t = s
    BY <1>1 DEF SvCreation, Occupied
  <1>3. /\ ~svMake'[s] /\ svStash'[s] = <<>> /\ <<>> \in SvSlot
        /\ \A t \in SvShards \ {s} : svMake'[t] = svMake[t] /\ svStash'[t] = svStash[t]
    BY <1>1 DEF SvTyped, SvSlot
  <1>4. /\ svRow' \in [exists : BOOLEAN, ver : Nat, epoch : 0..SvMaxEpoch, data : 0..SvMaxAct, by : 0..SvMaxEpoch]
        /\ svRow'.exists /\ svRow'.epoch = svRow.epoch /\ svRow'.ver = svRow.ver
        /\ svRow'.data = svRow.data /\ svRow'.by = svRow.by
    BY <1>1 DEF SvTyped
  <1>5. svQuit'.data <= svAct /\ svQuit'.epoch <= svRow.epoch
    BY <1>1 DEF SvBounds
  <1>6. Landed => svRow'.data >= svQuit.data
    BY <1>4 DEF Landed
  <1>7. \A t \in SvShards : svStash'[t] \in {svStash[t], <<>>}
    BY <1>3
  <1>8. \A t \in SvShards : InQueue(t) \/ InFinal(t) \/ InStash(t) => t = s /\ svStash[s] # <<>> /\ IsQuit(svStash[s][1])
    BY <1>2 DEF InQueue, InFinal, InStash, Occupied
  <1>9. CASE svSess[s].live
    <2>. DEFINE x == [svSess[s] EXCEPT !.pid = TRUE]
                d == Dump(svSess[s])
    <2>1. svSess' = [svSess EXCEPT ![s] = x] /\ Enqueue(s, "flush", d)
      BY <1>9 DEF SvCreated
    <2>2. /\ x \in SvSession /\ x.live /\ x.pid /\ x.ver = svSess[s].ver /\ x.epoch = svSess[s].epoch
          /\ x.data = svSess[s].data
      <3>1. svSess[s] \in SvSession
        BY DEF SvTyped
      <3>. QED
        BY <1>9, <3>1 DEF SvSession
    <2>3. /\ d \in SvSnap /\ d.ver = svSess[s].ver /\ d.epoch = svSess[s].epoch /\ d.data = svSess[s].data
          /\ d.ver <= svRow.ver /\ d.data <= svAct /\ d.epoch <= svRow.epoch
          /\ d.epoch = svRow.by => d.data >= svRow.data
      BY <1>9, DumpIsFresh DEF NotAhead
    <2>. HIDE DEF x, d
    <2>4. svSess'[s] = x /\ \A t \in SvShards \ {s} : svSess'[t] = svSess[t]
      BY <2>1 DEF SvTyped
    <2>5. /\ svQueue' \in [SvShards -> Seq(SvRequest)] /\ \A t \in SvShards : Len(svQueue'[t]) <= SvDepth
          /\ svFault' \in BOOLEAN /\ (svFault => svFault')
      BY <2>1, <2>3, EnqueueAppends
    <2>6. SvTyped'
      BY <1>1, <1>3, <1>4, <2>1, <2>2, <2>5 DEF SvTyped
    <2>7. SvBounds' /\ Carried /\ OneSession' /\ SvFresh'
      <3>1. \A t \in SvShards :
              /\ svSess'[t].ver <= svRow.ver /\ svSess'[t].data <= svAct
              /\ svSess'[t].epoch <= svRow.epoch
              /\ svSess'[t].live => /\ svSess[t].live /\ svSess'[t].epoch = svSess[t].epoch
                                    /\ svSess'[t].data = svSess[t].data
        BY <1>9, <2>2, <2>4 DEF SvBounds, NotAhead
      <3>. QED
        BY <1>1, <1>5, <1>7, <1>9, <2>1, <2>3, <2>6, <3>1, FreshEnqueue
    <2>8. SvCreation'
      <3>1. \A t \in SvShards : ~svMake'[t] /\ svStash'[t] = <<>> /\ (svSess'[t].live => svSess'[t].pid)
        BY <1>2, <1>3, <2>2, <2>4 DEF Occupied
      <3>. QED
        BY <3>1, <1>4 DEF SvCreation
    <2>9. QuitSafe'
      <3>1. \A t \in SvShards : OnlyAt(t) => ~(InQueue(t) \/ InFinal(t) \/ InStash(t))
        BY <1>8, <1>9 DEF OnlyAt
      <3>. QED
        BY <3>1, <1>1, <1>4, <1>6, <2>5, <2>6, <2>7, CarriedQuit
    <2>. QED
      BY <2>6, <2>7, <2>8, <2>9
  <1>10. CASE ~svSess[s].live /\ svStash[s] # <<>>
    <2>. DEFINE d == svStash[s][1]
    <2>1. d \in SvSnap /\ Head(svStash[s]) = d /\ svStash[s] \in SvSlot
      BY <1>10, SlotOfOne DEF SvTyped
    <2>2. svSess' = svSess /\ Enqueue(s, "final", d)
      BY <1>10, <2>1 DEF SvCreated
    <2>3. d \in Held(s) /\ d.ver <= svRow.ver /\ d.data <= svAct /\ d.epoch <= svRow.epoch /\ d.data >= svRow.data
      <3>1. d \in Held(s)
        BY <1>10, HeldTyped
      <3>2. d.data \in Nat
        BY <3>1, DataIsNat
      <3>. QED
        BY <1>2, <3>1, <3>2 DEF SvBounds, NotAhead
    <2>. HIDE DEF d
    <2>4. /\ svQueue' \in [SvShards -> Seq(SvRequest)] /\ \A t \in SvShards : Len(svQueue'[t]) <= SvDepth
          /\ svFault' \in BOOLEAN /\ (svFault => svFault')
          /\ ~svFault' => LET n == Len(svQueue'[s]) IN
                            n > 0 /\ svQueue'[s][n].reason = "final" /\ svQueue'[s][n].snap = d
      BY <2>1, <2>2, EnqueueAppends
    <2>5. SvTyped'
      BY <1>1, <1>3, <1>4, <2>2, <2>4 DEF SvTyped
    <2>6. SvBounds' /\ Carried /\ OneSession' /\ SvFresh'
      <3>1. \A t \in SvShards : /\ svSess'[t].ver <= svRow.ver /\ svSess'[t].data <= svAct
                                /\ svSess'[t].epoch <= svRow.epoch
        BY <2>2 DEF SvBounds, NotAhead
      <3>. QED
        BY <1>1, <1>5, <1>7, <2>1, <2>2, <2>3, <2>5, <3>1, FreshEnqueue
    <2>7. SvCreation'
      <3>1. \A t \in SvShards : ~svMake'[t] /\ svStash'[t] = <<>> /\ ~svSess'[t].live
        BY <1>2, <1>3, <1>10, <2>2 DEF Occupied
      <3>. QED
        BY <3>1, <1>4 DEF SvCreation
    <2>8. QuitSafe'
      <3>1. \A t \in SvShards : ~svFault' /\ (InQueue(t) \/ InFinal(t) \/ InStash(t)) => InQueue(t)'
        BY <1>1, <1>8, <2>4 DEF InQueue, IsQuit, d
      <3>. QED
        BY <3>1, <1>1, <1>4, <1>6, <2>4, <2>5, <2>6, CarriedQuit
    <2>. QED
      BY <2>5, <2>6, <2>7, <2>8
  <1>11. CASE ~svSess[s].live /\ svStash[s] = <<>>
    <2>1. UNCHANGED <<svSess, svQueue, svFault>>
      BY <1>11 DEF SvCreated
    <2>2. \A t \in SvShards : svStash'[t] = svStash[t]
      BY <1>3, <1>11
    <2>3. \A t \in SvShards : Held(t)' = Held(t) /\ Queued(t)' = Queued(t)
      BY <1>1, <2>1, <2>2 DEF Held, Queued
    <2>4. SvTyped'
      BY <1>1, <1>3, <1>4, <2>1 DEF SvTyped
    <2>5. SvBounds'
      BY <1>1, <1>4, <2>1, <2>3 DEF SvBounds, NotAhead
    <2>6. SvCreation'
      <3>1. \A t \in SvShards : ~svMake'[t] /\ svStash'[t] = <<>> /\ ~svSess'[t].live
        BY <1>2, <1>3, <1>11, <2>1 DEF Occupied
      <3>. QED
        BY <3>1, <1>4 DEF SvCreation
    <2>7. OneSession' /\ SvFresh'
      BY <1>1, <1>4, <2>1, <2>3 DEF OneSession, SvFresh
    <2>8. QuitSafe'
      <3>1. \A t \in SvShards : ~(InQueue(t) \/ InFinal(t) \/ InStash(t))
        BY <1>8, <1>11
      <3>. QED
        BY <3>1, <1>1, <1>4, <2>1, <2>3 DEF QuitSafe, Landed
    <2>. QED
      BY <2>4, <2>5, <2>6, <2>7, <2>8
  <1>. QED
    BY <1>9, <1>10, <1>11

LEMMA LeaveKeeps ==
  ASSUME SvInv, NEW s \in SvShards, SvLeave(s)
  PROVE  SvInv'
  <1>. USE DEF SvInv
  <1>. DEFINE d == Dump(svSess[s])
  <1>1. /\ svSess[s].live /\ svSess' = [svSess EXCEPT ![s] = SvNobody]
        /\ svQuit' = [data |-> svSess[s].data, epoch |-> svSess[s].epoch]
        /\ UNCHANGED <<svRow, svCkpt, svFinal, svReread, svLoad, svMake, svAct>>
    BY DEF SvLeave
  <1>2. /\ d \in SvSnap /\ d.ver = svSess[s].ver /\ d.epoch = svSess[s].epoch /\ d.data = svSess[s].data
        /\ d.ver <= svRow.ver /\ d.data <= svAct /\ d.epoch <= svRow.epoch
        /\ d.epoch = svRow.by => d.data >= svRow.data
    BY <1>1, DumpIsFresh DEF NotAhead
  <1>3. /\ SvNobody \in SvSession /\ ~SvNobody.live /\ ~SvNobody.pid
        /\ SvNobody.ver = 0 /\ SvNobody.epoch = 0 /\ SvNobody.data = 0
    BY SvAssumption DEF SvNobody, SvSession
  <1>. HIDE DEF d
  <1>4. svSess'[s] = SvNobody /\ \A t \in SvShards \ {s} : svSess'[t] = svSess[t]
    BY <1>1 DEF SvTyped
  <1>5. /\ svQuit' \in [data : 0..SvMaxAct, epoch : 0..SvMaxEpoch]
        /\ svQuit'.data = d.data /\ svQuit'.epoch = d.epoch
    BY <1>1, <1>2 DEF SvSnap
  <1>6. \A t \in SvShards :
          /\ svSess'[t].ver <= svRow.ver /\ svSess'[t].data <= svAct
          /\ svSess'[t].epoch <= svRow.epoch
          /\ svSess'[t].live => /\ svSess[t].live /\ svSess'[t].epoch = svSess[t].epoch
                                /\ svSess'[t].data = svSess[t].data
    <2>1. \A t \in SvShards \ {s} : /\ svSess[t].ver <= svRow.ver /\ svSess[t].data <= svAct
                                     /\ svSess[t].epoch <= svRow.epoch
      BY DEF SvBounds, NotAhead
    <2>2. 0 <= svRow.ver /\ 0 <= svAct /\ 0 <= svRow.epoch
      BY DataIsNat
    <2>. QED
      BY <1>3, <1>4, <2>1, <2>2
  <1>7. \A t \in SvShards : svSess'[t].live => svSess'[t].epoch # d.epoch
    BY <1>1, <1>2, <1>3, <1>4 DEF OneSession
  <1>8. \A t \in SvShards \ {s} : \A h \in Held(t) : h.epoch # d.epoch
    BY <1>1, <1>2 DEF OneSession
  <1>9. CASE svSess[s].pid
    <2>1. Enqueue(s, "final", d) /\ svStash' = svStash
      BY <1>9 DEF SvLeave, d
    <2>2. /\ svQueue' \in [SvShards -> Seq(SvRequest)] /\ \A t \in SvShards : Len(svQueue'[t]) <= SvDepth
          /\ svFault' \in BOOLEAN /\ (svFault => svFault')
          /\ ~svFault' => LET n == Len(svQueue'[s]) IN
                            n > 0 /\ svQueue'[s][n].reason = "final" /\ svQueue'[s][n].snap = d
      BY <1>2, <2>1, EnqueueAppends
    <2>3. SvTyped'
      BY <1>1, <1>3, <1>5, <2>1, <2>2 DEF SvTyped
    <2>4. SvBounds' /\ Carried /\ OneSession' /\ SvFresh'
      BY <1>1, <1>2, <1>5, <1>6, <2>1, <2>3, FreshEnqueue
    <2>5. SvCreation'
      <3>1. svRow.exists
        BY <1>9 DEF SvCreation
      <3>. QED
        BY <3>1, <1>1, <1>3, <1>4, <2>1 DEF SvCreation
    <2>6. ASSUME ~svFault' PROVE OnlyAt(s)' /\ InQueue(s)'
      <3>1. \A t \in SvShards \ {s} : Held(t)' \subseteq Held(t)
        BY <1>1, <1>2, <2>1, EnqueuedHeld
      <3>2. OnlyAt(s)'
        BY <3>1, <1>3, <1>4, <1>5, <1>7, <1>8 DEF OnlyAt
      <3>3. InQueue(s)'
        BY <2>2, <2>6, <1>5 DEF InQueue, IsQuit
      <3>. QED
        BY <3>2, <3>3
    <2>7. QuitSafe'
      BY <2>6 DEF QuitSafe
    <2>. QED
      BY <2>3, <2>4, <2>5, <2>7
  <1>10. CASE ~svSess[s].pid
    <2>. DEFINE w == <<d>>
    <2>1. /\ svStash' = [svStash EXCEPT ![s] = w] /\ svQueue' = svQueue
          /\ svFault' = (svFault \/ ~svMake[s])
      BY <1>10 DEF SvLeave, d
    <2>2. w \in SvSlot /\ w # <<>> /\ w[1] = d
      BY <1>2, FullSlot
    <2>. HIDE DEF w
    <2>3. svStash'[s] = w /\ \A t \in SvShards \ {s} : svStash'[t] = svStash[t]
      BY <2>1 DEF SvTyped
    <2>4. ~svRow.exists
      BY <1>1, <1>10 DEF SvCreation
    <2>5. SvTyped'
      BY <1>1, <1>3, <1>5, <2>1, <2>2 DEF SvTyped
    <2>6. /\ Held(s)' \subseteq Held(s) \cup {d} /\ \A t \in SvShards \ {s} : Held(t)' = Held(t)
          /\ \A t \in SvShards : Queued(t)' = Queued(t)
      <3>1. \A t \in SvShards : Queued(t)' = Queued(t)
        BY <2>1 DEF Queued
      <3>. QED
        BY <3>1, <1>1, <2>2, <2>3 DEF Held
    <2>7. SvBounds'
      <3>1. \A t \in SvShards : svLoad'[t] # <<>> => NotAhead(svLoad[t][1])'
        BY <1>1 DEF SvBounds, NotAhead
      <3>2. \A t \in SvShards : NotAhead(svSess[t])' /\ svSess'[t].epoch <= svRow'.epoch
        BY <1>1, <1>6 DEF NotAhead
      <3>3. \A t \in SvShards : \A h \in Held(t)' : NotAhead(h)' /\ h.epoch <= svRow'.epoch
        BY <1>1, <1>2, <2>6 DEF SvBounds, NotAhead
      <3>4. /\ svRow'.by <= svRow'.epoch /\ svRow'.data <= svAct' /\ NotAhead(svCkpt)'
            /\ svCkpt'.epoch <= svRow'.epoch /\ svQuit'.data <= svAct' /\ svQuit'.epoch <= svRow'.epoch
        BY <1>1, <1>2, <1>5 DEF SvBounds, NotAhead
      <3>. QED
        BY <3>1, <3>2, <3>3, <3>4 DEF SvBounds
    <2>8. SvCreation'
      <3>1. \A t \in SvShards : Occupied(t)' => Occupied(t)
        BY <1>1, <1>3, <1>4, <2>3 DEF Occupied
      <3>. QED
        BY <3>1, <2>4, <1>1, <1>3, <1>4, <2>1 DEF SvCreation
    <2>9. Carried
      <3>. SUFFICES ASSUME NEW t \in SvShards
                    PROVE  /\ svSess'[t].live => /\ svSess[t].live /\ svSess'[t].epoch = svSess[t].epoch
                                                 /\ svSess'[t].data >= svSess[t].data
                           /\ \A h \in Held(t)' :
                                \/ \E g \in Held(t) : h.epoch = g.epoch /\ h.data = g.data
                                \/ svSess[t].live /\ h.epoch = svSess[t].epoch /\ h.data = svSess[t].data
        BY DEF Carried
      <3>1. svSess'[t].live => /\ svSess[t].live /\ svSess'[t].epoch = svSess[t].epoch
                               /\ svSess'[t].data >= svSess[t].data
        BY <1>6, DataIsNat
      <3>2. \A h \in Held(t)' : h \in Held(t) \/ (t = s /\ h = d)
        BY <2>6
      <3>. QED
        BY <3>1, <3>2, <1>1, <1>2
    <2>10. OneSession'
      BY <2>5, <2>9, CarriedOneSession
    <2>11. SvFresh'
      BY <1>1, <1>3, <1>4, <2>6 DEF SvFresh
    <2>12. ASSUME ~svFault' PROVE OnlyAt(s)' /\ InStash(s)'
      <3>1. OnlyAt(s)'
        BY <1>3, <1>4, <1>5, <1>7, <1>8, <2>6 DEF OnlyAt
      <3>2. svMake[s] /\ svMake'[s]
        BY <1>1, <2>1, <2>12
      <3>3. InStash(s)'
        BY <3>2, <1>5, <2>2, <2>3 DEF InStash, IsQuit
      <3>. QED
        BY <3>1, <3>3
    <2>13. QuitSafe'
      BY <2>12 DEF QuitSafe
    <2>. QED
      BY <2>5, <2>7, <2>8, <2>10, <2>11, <2>13
  <1>. QED
    BY <1>9, <1>10

-----------------------------------------------------------------------------
(* The drainer's steps.                                                        *)

\* A step that may save one held snapshot, and otherwise only gives up sessions and snapshots or
\* rebases that one's version.
LEMMA StoreStep ==
  ASSUME SvInv, SvTyped', NEW s \in SvShards, NEW snap \in Held(s), svRow.exists,
         svRow' \in {svRow, SaveCharacter(svRow, snap)},
         UNCHANGED <<svLoad, svMake, svStash, svAct, svQuit>>,
         \/ svCkpt' = svCkpt
         \/ /\ snap \in Queued(s) /\ svCkpt'.exists /\ svCkpt'.ver = snap.ver
            /\ svCkpt'.epoch = snap.epoch /\ svCkpt'.data = snap.data,
         \A t \in SvShards \ {s} : svSess'[t] = svSess[t] /\ Held(t)' \subseteq Held(t),
         \/ svSess'[s] \in {svSess[s], SvNobody}
         \/ /\ svSess[s].live /\ svSess'[s].pid /\ svSess'[s].epoch = svSess[s].epoch
            /\ svSess'[s].data = svSess[s].data /\ svSess'[s].ver = svRow'.ver,
         \A t \in SvShards : Queued(t)' \subseteq Queued(t),
         \A h \in Held(s)' : \/ h \in Held(s)
                             \/ h.ver = svRow.ver /\ h.epoch = snap.epoch /\ h.data = snap.data
  PROVE  SvBounds' /\ SvCreation' /\ Carried /\ OneSession' /\ SvFresh'
  <1>. USE DEF SvInv
  <1>1. /\ snap \in SvSnap /\ snap.ver <= svRow.ver /\ snap.data <= svAct /\ snap.epoch <= svRow.epoch
        /\ snap.ver \in Nat /\ snap.epoch \in Nat /\ snap.data \in Nat
    BY HeldTyped, DataIsNat DEF SvBounds, NotAhead
  <1>2. /\ svRow'.exists /\ svRow'.epoch = svRow.epoch /\ svRow'.by <= svRow'.epoch
        /\ \/ svRow' = svRow
           \/ /\ svRow'.ver = svRow.ver + 1 /\ svRow'.data = snap.data /\ svRow'.by = snap.epoch
              /\ snap.epoch = svRow.epoch
    <2>1. CASE svRow' = svRow
      BY <2>1 DEF SvBounds
    <2>2. CASE svRow' = SaveCharacter(svRow, snap)
      BY <1>1, <2>2, SavedRow
    <2>. QED
      BY <2>1, <2>2
  <1>3. svRow.ver \in Nat /\ svRow.ver <= svRow'.ver /\ svRow'.data <= svAct /\ svRow'.ver \in Nat
    <2>1. svRow.ver \in Nat /\ svRow.data <= svAct
      BY DataIsNat DEF SvBounds
    <2>. QED
      BY <1>1, <1>2, <2>1
  <1>4. /\ ~SvNobody.live /\ ~SvNobody.pid /\ SvNobody.ver = 0 /\ SvNobody.epoch = 0 /\ SvNobody.data = 0
    BY DEF SvNobody
  <1>. HIDE DEF SvNobody
  <1>5. /\ \A t \in SvShards : /\ svSess'[t].live => /\ svSess[t].live /\ svSess'[t].epoch = svSess[t].epoch
                                                     /\ svSess'[t].data = svSess[t].data
                               /\ svSess'[t].live /\ svSess[t].pid => svSess'[t].pid
    <2>1. svSess'[s].live => /\ svSess[s].live /\ svSess'[s].epoch = svSess[s].epoch
                             /\ svSess'[s].data = svSess[s].data
      BY <1>4
    <2>2. svSess'[s].live /\ svSess[s].pid => svSess'[s].pid
      BY <1>4
    <2>. QED
      BY <2>1, <2>2
  <1>6. SvBounds'
    <2>1. svLoad' = svLoad /\ svAct' = svAct /\ svQuit' = svQuit
      OBVIOUS
    <2>2. \A t \in SvShards : svLoad'[t] # <<>> => NotAhead(svLoad[t][1])'
      <3>. SUFFICES ASSUME NEW t \in SvShards, svLoad[t] # <<>>
                    PROVE  svLoad[t][1].ver <= svRow'.ver /\ svLoad[t][1].data <= svAct
        BY <2>1 DEF NotAhead
      <3>1. svLoad[t][1] \in SvSnap
        BY SlotOfOne DEF SvTyped
      <3>2. svLoad[t][1].ver \in Nat
        BY <3>1 DEF SvSnap
      <3>. QED
        BY <3>2, <1>3 DEF SvBounds, NotAhead
    <2>3. \A t \in SvShards : NotAhead(svSess[t])' /\ svSess'[t].epoch <= svRow'.epoch
      <3>. SUFFICES ASSUME NEW t \in SvShards
                    PROVE  /\ svSess'[t].ver <= svRow'.ver /\ svSess'[t].data <= svAct
                           /\ svSess'[t].epoch <= svRow.epoch
        BY <1>2, <2>1 DEF NotAhead
      <3>1. /\ svSess[t].ver <= svRow.ver /\ svSess[t].data <= svAct /\ svSess[t].epoch <= svRow.epoch
            /\ svSess[t].ver \in Nat
        BY DataIsNat DEF SvBounds, NotAhead
      <3>2. svAct \in Nat /\ svRow.epoch \in Nat
        BY DataIsNat
      <3>3. CASE svSess'[t] = svSess[t]
        BY <3>1, <3>3, <1>3
      <3>4. CASE svSess'[t] = SvNobody
        BY <3>2, <3>4, <1>3, <1>4
      <3>5. CASE /\ svSess'[t].epoch = svSess[t].epoch /\ svSess'[t].data = svSess[t].data
                 /\ svSess'[t].ver = svRow'.ver
        BY <3>1, <3>5, <1>3
      <3>. QED
        BY <3>3, <3>4, <3>5
    <2>4. \A t \in SvShards : \A h \in Held(t)' : NotAhead(h)' /\ h.epoch <= svRow'.epoch
      <3>. SUFFICES ASSUME NEW t \in SvShards, NEW h \in Held(t)'
                    PROVE  h.ver <= svRow'.ver /\ h.data <= svAct /\ h.epoch <= svRow.epoch
        BY <1>2, <2>1 DEF NotAhead
      <3>1. CASE h \in Held(t)
        <4>1. h.ver \in Nat /\ h.ver <= svRow.ver /\ h.data <= svAct /\ h.epoch <= svRow.epoch
          BY <3>1, DataIsNat DEF SvBounds, NotAhead
        <4>. QED
          BY <4>1, <1>3
      <3>2. CASE h.ver = svRow.ver /\ h.epoch = snap.epoch /\ h.data = snap.data
        BY <3>2, <1>1, <1>3
      <3>. QED
        BY <3>1, <3>2
    <2>5. NotAhead(svCkpt)' /\ svCkpt'.epoch <= svRow'.epoch
      <3>1. svCkpt.ver \in Nat /\ svCkpt.ver <= svRow.ver /\ svCkpt.data <= svAct /\ svCkpt.epoch <= svRow.epoch
        BY DataIsNat DEF SvBounds, NotAhead
      <3>. QED
        BY <3>1, <1>1, <1>2, <1>3, <2>1 DEF NotAhead
    <2>6. svRow'.by <= svRow'.epoch /\ svRow'.data <= svAct'
      BY <1>2, <1>3
    <2>7. svQuit'.data <= svAct' /\ svQuit'.epoch <= svRow'.epoch
      BY <1>2 DEF SvBounds
    <2>. QED
      BY <2>2, <2>3, <2>4, <2>5, <2>6, <2>7 DEF SvBounds
  <1>7. SvCreation'
    BY <1>2, <1>5 DEF SvCreation
  <1>8. Carried
    <2>. SUFFICES ASSUME NEW t \in SvShards
                  PROVE  /\ svSess'[t].live => /\ svSess[t].live /\ svSess'[t].epoch = svSess[t].epoch
                                               /\ svSess'[t].data >= svSess[t].data
                         /\ \A h \in Held(t)' : \E g \in Held(t) : h.epoch = g.epoch /\ h.data = g.data
      BY DEF Carried
    <2>1. svSess'[t].live => /\ svSess[t].live /\ svSess'[t].epoch = svSess[t].epoch
                             /\ svSess'[t].data >= svSess[t].data
      BY <1>5, DataIsNat
    <2>2. \A h \in Held(t)' : h \in Held(t) \/ (t = s /\ h.epoch = snap.epoch /\ h.data = snap.data)
      OBVIOUS
    <2>. QED
      BY <2>1, <2>2
  <1>9. OneSession'
    BY <1>8, CarriedOneSession
  <1>10. SvFresh'
    <2>1. CASE svRow' = svRow
      <3>1. svCkpt'.exists /\ svCkpt'.ver = svRow.ver /\ svCkpt'.epoch = svRow.by => svCkpt'.data >= svRow.data
        BY <1>1 DEF SvFresh
      <3>. QED
        BY <2>1, <3>1, <1>5 DEF SvFresh
    <2>2. CASE /\ svRow'.ver = svRow.ver + 1 /\ svRow'.data = snap.data /\ svRow'.by = snap.epoch
               /\ snap.epoch = svRow.epoch
      <3>1. ASSUME NEW t \in SvShards, svSess'[t].live, svSess'[t].epoch = svRow'.by
            PROVE  svSess'[t].data >= svRow'.data
        <4>1. snap.data <= svSess[t].data /\ svSess[t].data \in Nat
          BY <3>1, <2>2, <1>5, DataIsNat DEF OneSession
        <4>. QED
          BY <4>1, <3>1, <2>2, <1>1, <1>5
      <3>2. \A t \in SvShards : \A h \in Queued(t)' : h.ver # svRow'.ver
        <4>. SUFFICES ASSUME NEW t \in SvShards, NEW h \in Queued(t)
                      PROVE  h.ver # svRow'.ver
          OBVIOUS
        <4>1. h \in Held(t)
          BY HeldTyped
        <4>2. h.ver \in Nat /\ h.ver <= svRow.ver
          BY <4>1, DataIsNat DEF SvBounds, NotAhead
        <4>. QED
          BY <4>2, <2>2, <1>3
      <3>3. svCkpt'.ver # svRow'.ver
        <4>1. svCkpt.ver \in Nat /\ svCkpt.ver <= svRow.ver
          BY DataIsNat DEF SvBounds, NotAhead
        <4>. QED
          BY <4>1, <2>2, <1>1, <1>3
      <3>. QED
        BY <3>1, <3>2, <3>3 DEF SvFresh
    <2>. QED
      BY <1>2, <2>1, <2>2
  <1>. QED
    BY <1>6, <1>7, <1>8, <1>9, <1>10

\* A rebase of the logout flush changes its version alone.
LEMMA Rebased ==
  ASSUME NEW snap \in SvSnap, NEW v \in Nat
  PROVE  LET x == [snap EXCEPT !.ver = v] IN
         x \in SvSnap /\ x.ver = v /\ x.epoch = snap.epoch /\ x.data = snap.data
  BY DEF SvSnap

LEMMA HeldAfter ==
  ASSUME SvTyped, NEW s \in SvShards, NEW x,
         \A t \in SvShards \ {s} : svQueue'[t] = svQueue[t] /\ svFinal'[t] = svFinal[t],
         Queued(s)' \subseteq Queued(s), svStash' = svStash,
         svFinal'[s] = svFinal[s] \/ svFinal'[s] = <<>> \/ svFinal'[s][1] = x
  PROVE  /\ \A t \in SvShards : Queued(t)' \subseteq Queued(t)
         /\ \A t \in SvShards \ {s} : Held(t)' \subseteq Held(t)
         /\ \A h \in Held(s)' : h \in Held(s) \/ h = x
  <1>1. \A t \in SvShards \ {s} : Queued(t)' = Queued(t)
    BY DEF Queued
  <1>2. \A t \in SvShards \ {s} : Held(t)' \subseteq Held(t)
    BY <1>1 DEF Held
  <1>3. \A h \in Held(s)' : h \in Held(s) \/ h = x
    BY DEF Held
  <1>. QED
    BY <1>1, <1>2, <1>3

\* The logout flush that was applied has landed.
LEMMA AppliedLands ==
  ASSUME SvInv, Carried, NEW s \in SvShards, OnlyAt(s), svQuit' = svQuit,
         svRow'.data = svQuit.data, Held(s)' = {}
  PROVE  Landed'
  <1>1. OnlyAt(s)'
    BY CarriedOnlyAt
  <1>2. svRow'.data >= svQuit'.data
    BY DataIsNat DEF SvInv
  <1>. QED
    BY <1>1, <1>2 DEF OnlyAt, Landed

\* The verdict on a snapshot of the claim the row is under.
LEMMA OwnersVerdict ==
  ASSUME SvInv, NEW snap \in SvSnap, svRow.exists, snap.epoch = svRow.epoch
  PROVE  SaveVerdict(svRow, snap) \in {"stale", "applied"}
  BY DataIsNat DEF SvInv, SaveVerdict

\* Nor does a save take the row below a quit that has landed.
LEMMA LandedStays ==
  ASSUME SvInv, NEW s \in SvShards, NEW snap \in Held(s), svRow' \in {svRow, SaveCharacter(svRow, snap)},
         svQuit.epoch = svRow.epoch, Landed
  PROVE  svRow'.data >= svQuit.data
  <1>1. snap \in SvSnap /\ snap.epoch <= svRow.epoch
    BY HeldTyped DEF SvInv, SvBounds
  <1>2. CASE svRow' = svRow
    BY <1>2 DEF Landed
  <1>3. CASE svRow' = SaveCharacter(svRow, snap)
    <2>1. svRow' = svRow \/ (snap.epoch = svRow.epoch /\ svRow'.data = snap.data)
      BY <1>1, <1>3, SavedRow
    <2>. QED
      BY <2>1 DEF Landed
  <1>. QED
    BY <1>2, <1>3

LEMMA FinalizeKeeps ==
  ASSUME SvInv, NEW s \in SvShards, SvFinalize(s)
  PROVE  SvInv'
  <1>. USE DEF SvInv
  <1>. DEFINE snap == svFinal[s][1]
              x == [snap EXCEPT !.ver = svRow.ver]
              w == <<x>>
  <1>1. /\ svFinal[s] # <<>> /\ FinalizeFlush(s, snap) /\ snap \in Held(s) /\ snap \in SvSnap
        /\ UNCHANGED <<svCkpt, svQueue, svLoad, svMake, svStash, svAct, svQuit>>
    <2>1. svFinal[s] \in SvSlot /\ svFinal[s] # <<>>
      BY DEF SvFinalize, SvBusy, SvTyped
    <2>2. Head(svFinal[s]) = snap /\ snap \in SvSnap
      BY <2>1, SlotOfOne
    <2>. QED
      BY <2>1, <2>2, HeldTyped DEF SvFinalize
  <1>2. /\ svRow.exists /\ \A t \in SvShards : svStash[t] = <<>>
    BY <1>1 DEF SvCreation
  <1>3. snap.epoch <= svRow.epoch
    BY <1>1 DEF SvBounds
  <1>4. x \in SvSnap /\ x.ver = svRow.ver /\ x.epoch = snap.epoch /\ x.data = snap.data
    BY <1>1, Rebased, DataIsNat
  <1>5. w \in SvSlot /\ w # <<>> /\ w[1] = x
    BY <1>4, FullSlot
  <1>6. /\ svRow' \in {svRow, SaveCharacter(svRow, snap)} /\ UNCHANGED <<svSess, svFault>>
        /\ svReread' \in [SvShards -> BOOLEAN]
        /\ \E f \in {<<>>, w} : svFinal' = [svFinal EXCEPT ![s] = f]
        /\ ~svSess[s].live => /\ svRow' = SaveCharacter(svRow, snap)
                              /\ SaveVerdict(svRow, snap) = "stale" => svFinal' = [svFinal EXCEPT ![s] = w]
                              /\ SaveVerdict(svRow, snap) # "stale" => svFinal' = [svFinal EXCEPT ![s] = <<>>]
    <2>1. CASE svSess[s].live
      BY <1>1, <2>1 DEF FinalizeFlush, SvTyped
    <2>2. CASE ~svSess[s].live
      BY <1>1, <2>2 DEF FinalizeFlush, SvTyped
    <2>. QED
      BY <2>1, <2>2
  <1>. HIDE DEF snap, x, w
  <1>7. /\ svFinal'[s] \in {<<>>, w} /\ \A t \in SvShards \ {s} : svFinal'[t] = svFinal[t]
        /\ svFinal' \in [SvShards -> SvSlot]
    <2>1. <<>> \in SvSlot
      BY DEF SvSlot
    <2>. QED
      BY <2>1, <1>5, <1>6 DEF SvTyped
  <1>8. SvTyped'
    <2>1. svRow' \in [exists : BOOLEAN, ver : Nat, epoch : 0..SvMaxEpoch, data : 0..SvMaxAct, by : 0..SvMaxEpoch]
      <3>1. CASE svRow' = svRow
        BY <3>1 DEF SvTyped
      <3>2. CASE svRow' = SaveCharacter(svRow, snap)
        BY <3>2, <1>1, <1>3, SavedRow
      <3>. QED
        BY <3>1, <3>2, <1>6
    <2>. QED
      BY <2>1, <1>1, <1>6, <1>7 DEF SvTyped
  <1>9. /\ \A t \in SvShards : Queued(t)' \subseteq Queued(t)
        /\ \A t \in SvShards \ {s} : Held(t)' \subseteq Held(t)
        /\ \A h \in Held(s)' : h \in Held(s) \/ h = x
    <2>1. Queued(s)' \subseteq Queued(s)
      BY <1>1 DEF Queued
    <2>. QED
      BY <2>1, <1>1, <1>5, <1>7, HeldAfter
  <1>10. SvBounds' /\ SvCreation' /\ Carried /\ OneSession' /\ SvFresh'
    BY <1>1, <1>2, <1>4, <1>6, <1>8, <1>9, StoreStep
  <1>11. ASSUME NEW t \in SvShards, svQuit.epoch = svRow.epoch, OnlyAt(t), InQueue(t) \/ InFinal(t) \/ InStash(t)
         PROVE  InQueue(t)' \/ InFinal(t)' \/ Landed'
    <2>1. ~InStash(t)
      BY <1>2 DEF InStash
    <2>2. CASE InQueue(t)
      BY <2>2, <1>1 DEF InQueue, IsQuit
    <2>3. CASE InFinal(t) /\ t # s
      BY <2>3, <1>1, <1>7 DEF InFinal, IsQuit
    <2>4. CASE InFinal(t) /\ t = s
      <3>1. /\ svQueue[s] = <<>> /\ snap.epoch = svQuit.epoch /\ snap.data = svQuit.data /\ ~svSess[s].live
        BY <1>11, <2>4 DEF InFinal, IsQuit, OnlyAt, snap
      <3>2. SaveVerdict(svRow, snap) \in {"stale", "applied"}
        BY <3>1, <1>1, <1>2, <1>11, OwnersVerdict
      <3>3. CASE SaveVerdict(svRow, snap) = "stale"
        <4>1. svFinal'[s] = w
          BY <3>1, <3>3, <1>6 DEF SvTyped
        <4>. QED
          BY <4>1, <2>4, <3>1, <1>1, <1>4, <1>5 DEF InFinal, IsQuit
      <3>4. CASE SaveVerdict(svRow, snap) = "applied"
        <4>1. svFinal'[s] = <<>>
          BY <3>1, <3>4, <1>6 DEF SvTyped
        <4>2. Held(s)' = {}
          <5>1. Queued(s)' = {}
            BY <3>1, <1>1 DEF Queued
          <5>. QED
            BY <5>1, <4>1, <1>1, <1>2 DEF Held
        <4>3. svRow'.data = svQuit.data
          BY <3>1, <3>4, <1>1, <1>3, <1>6, SavedRow
        <4>. QED
          BY <4>2, <4>3, <2>4, <1>1, <1>10, <1>11, AppliedLands
      <3>. QED
        BY <3>2, <3>3, <3>4
    <2>. QED
      BY <1>11, <2>1, <2>2, <2>3, <2>4
  <1>12. QuitSafe'
    <2>1. svRow'.epoch = svRow.epoch
      <3>1. svRow' = SaveCharacter(svRow, snap) => svRow'.epoch = svRow.epoch
        BY <1>1, <1>3, SavedRow
      <3>. QED
        BY <3>1, <1>6
    <2>2. svQuit.epoch = svRow.epoch /\ Landed => svRow'.data >= svQuit.data
      BY <1>1, <1>6, LandedStays
    <2>. QED
      BY <2>1, <2>2, <1>1, <1>6, <1>8, <1>10, <1>11, CarriedQuit
  <1>. QED
    BY <1>8, <1>10, <1>12

\* What ownershipLost and saveOk leave of the sessions.
LEMMA VerdictSession ==
  ASSUME SvInv, NEW s \in SvShards, NEW v \in Nat,
         svSess' \in {svSess, AfterNotOwner(s, v)} \/ (svSess' = AfterOk(s, v) /\ svRow.exists)
  PROVE  /\ svSess' \in [SvShards -> SvSession] /\ \A t \in SvShards \ {s} : svSess'[t] = svSess[t]
         /\ \/ svSess'[s] \in {svSess[s], SvNobody}
            \/ /\ svSess' = AfterOk(s, v) /\ svSess[s].live /\ svSess'[s].pid
               /\ svSess'[s].epoch = svSess[s].epoch /\ svSess'[s].data = svSess[s].data
               /\ svSess'[s].ver = v
  <1>1. svSess \in [SvShards -> SvSession] /\ svSess[s] \in SvSession
    BY DEF SvInv, SvTyped
  <1>2. SvNobody \in SvSession
    BY SvAssumption DEF SvNobody, SvSession
  <1>3. CASE svSess' = svSess
    BY <1>1, <1>3
  <1>4. CASE svSess' = [svSess EXCEPT ![s] = SvNobody]
    BY <1>1, <1>2, <1>4
  <1>5. CASE svSess' = [svSess EXCEPT ![s].ver = v] /\ svSess' = AfterOk(s, v) /\ svSess[s].live /\ svRow.exists
    <2>. DEFINE y == [svSess[s] EXCEPT !.ver = v]
    <2>1. svSess' = [svSess EXCEPT ![s] = y]
      BY <1>5
    <2>2. /\ y \in SvSession /\ y.pid = svSess[s].pid /\ y.epoch = svSess[s].epoch
          /\ y.data = svSess[s].data /\ y.ver = v
      BY <1>1 DEF SvSession
    <2>3. svSess[s].pid
      BY <1>5 DEF SvInv, SvCreation
    <2>. HIDE DEF y
    <2>4. svSess'[s] = y /\ svSess' \in [SvShards -> SvSession] /\ \A t \in SvShards \ {s} : svSess'[t] = svSess[t]
      BY <1>1, <2>1, <2>2
    <2>. QED
      BY <1>5, <2>2, <2>3, <2>4
  <1>. QED
    BY <1>3, <1>4, <1>5 DEF AfterNotOwner, AfterOk

\* The step of handle, in the parts its invariants need.
LEMMA HandleParts ==
  ASSUME SvInv, NEW s \in SvShards, NEW c \in BOOLEAN, NEW r \in BOOLEAN, SvHandle(s, c, r)
  PROVE  LET req == Head(svQueue[s])
             snap == req.snap
             w == <<[snap EXCEPT !.ver = svRow.ver]>>
         IN
         /\ svQueue[s] # <<>> /\ svFinal[s] = <<>> /\ svQueue' = [svQueue EXCEPT ![s] = Tail(@)]
         /\ svRow' \in {svRow, SaveCharacter(svRow, snap)}
         /\ svCkpt' \in {svCkpt, [exists |-> TRUE, ver |-> snap.ver, epoch |-> snap.epoch, data |-> snap.data]}
         /\ \/ \E v \in Nat : svSess' \in {svSess, AfterNotOwner(s, v)}
            \/ svSess' = AfterOk(s, svRow.ver + 1) /\ svRow' = SaveCharacter(svRow, snap)
               /\ SaveVerdict(svRow, snap) = "applied"
         /\ \E f \in {<<>>, w} : svFinal' = [svFinal EXCEPT ![s] = f]
         /\ svReread' \in [SvShards -> BOOLEAN] /\ svFault' \in BOOLEAN /\ (svFault => svFault')
         /\ UNCHANGED <<svLoad, svMake, svStash, svAct, svQuit>>
         /\ ~svFault' /\ req.reason = "final" /\ ~CheckpointRefused(snap) =>
              /\ svRow' = SaveCharacter(svRow, snap)
              /\ SaveVerdict(svRow, snap) = "stale" => svFinal' = [svFinal EXCEPT ![s] = w]
              /\ SaveVerdict(svRow, snap) # "stale" => svFinal' = svFinal
  <1>. DEFINE req == Head(svQueue[s])
              snap == req.snap
              w == <<[snap EXCEPT !.ver = svRow.ver]>>
              ck == [exists |-> TRUE, ver |-> snap.ver, epoch |-> snap.epoch, data |-> snap.data]
  <1>1. /\ svQueue[s] # <<>> /\ svFinal[s] = <<>> /\ svQueue' = [svQueue EXCEPT ![s] = Tail(@)]
        /\ UNCHANGED <<svLoad, svMake, svStash, svAct, svQuit>>
    BY DEF SvHandle, SvBusy
  <1>2. /\ svFinal = [svFinal EXCEPT ![s] = <<>>] /\ svReread \in [SvShards -> BOOLEAN]
        /\ svFault \in BOOLEAN
    BY <1>1 DEF SvInv, SvTyped
  <1>3. snap.epoch + 1 \in Nat /\ svRow.epoch \in Nat
    <2>1. req \in SvRequest
      BY <1>1, DequeueTakes DEF SvInv
    <2>. QED
      BY <2>1, DataIsNat DEF SvRequest, SvSnap, SvInv
  <1>. HIDE DEF snap, req, w, ck
  <1>4. CASE c /\ CheckpointRefused(snap)
    <2>1. svSess' = AfterNotOwner(s, snap.epoch + 1) /\ UNCHANGED <<svRow, svCkpt, svFinal, svReread, svFault>>
      BY <1>4 DEF SvHandle, snap, req
    <2>. QED
      BY <1>1, <1>2, <1>3, <1>4, <2>1 DEF snap, req
  <1>5. CASE ~(c /\ CheckpointRefused(snap)) /\ (req.reason = "checkpoint" \/ ~r)
    <2>1. /\ svCkpt' = IF c THEN ck ELSE svCkpt
          /\ svFault' = (svFault \/ ~c \/ ~r) /\ UNCHANGED <<svRow, svSess, svFinal, svReread>>
      BY <1>5 DEF SvHandle, snap, req, ck
    <2>2. ~(~svFault' /\ req.reason = "final")
      BY <1>5, <2>1
    <2>. QED
      BY <1>1, <1>2, <1>5, <2>1, <2>2 DEF snap, req, ck
  <1>6. CASE ~(c /\ CheckpointRefused(snap)) /\ ~(req.reason = "checkpoint" \/ ~r)
    <2>1. /\ svCkpt' = IF c THEN ck ELSE svCkpt
          /\ svRow' = SaveCharacter(svRow, snap)
          /\ svSess' = CASE SaveVerdict(svRow, snap) = "applied" -> AfterOk(s, svRow.ver + 1)
                         [] SaveVerdict(svRow, snap) = "not owner" -> AfterNotOwner(s, svRow.epoch)
                         [] OTHER -> svSess
          /\ svFinal' = IF SaveVerdict(svRow, snap) = "stale" /\ req.reason = "final"
                        THEN [svFinal EXCEPT ![s] = w] ELSE svFinal
          /\ svReread' = IF SaveVerdict(svRow, snap) = "stale" /\ req.reason = "flush" /\ svSess[s].live
                         THEN [svReread EXCEPT ![s] = TRUE] ELSE svReread
          /\ svFault' = (svFault \/ ~c)
      BY <1>6 DEF SvHandle, snap, req, ck, w
    <2>2. SaveVerdict(svRow, snap) \in {"no row", "not owner", "stale", "applied"}
      BY DEF SaveVerdict
    <2>3. \/ \E v \in Nat : svSess' \in {svSess, AfterNotOwner(s, v)}
          \/ svSess' = AfterOk(s, svRow.ver + 1) /\ SaveVerdict(svRow, snap) = "applied"
      BY <1>3, <2>1, <2>2
    <2>4. svReread' \in [SvShards -> BOOLEAN] /\ svFault' \in BOOLEAN /\ (svFault => svFault')
      BY <1>2, <2>1
    <2>5. \E f \in {<<>>, w} : svFinal' = [svFinal EXCEPT ![s] = f]
      BY <1>2, <2>1
    <2>. QED
      BY <1>1, <1>6, <2>1, <2>3, <2>4, <2>5 DEF snap, req, ck, w
  <1>. QED
    BY <1>4, <1>5, <1>6

LEMMA HandleKeeps ==
  ASSUME SvInv, NEW s \in SvShards, NEW c \in BOOLEAN, NEW r \in BOOLEAN, SvHandle(s, c, r)
  PROVE  SvInv'
  <1>. USE DEF SvInv
  <1>. DEFINE req == Head(svQueue[s])
              snap == req.snap
              x == [snap EXCEPT !.ver = svRow.ver]
              w == <<x>>
  <1>1. /\ svQueue[s] # <<>> /\ svFinal[s] = <<>> /\ svQueue' = [svQueue EXCEPT ![s] = Tail(@)]
        /\ svRow' \in {svRow, SaveCharacter(svRow, snap)}
        /\ svCkpt' \in {svCkpt, [exists |-> TRUE, ver |-> snap.ver, epoch |-> snap.epoch, data |-> snap.data]}
        /\ \/ \E v \in Nat : svSess' \in {svSess, AfterNotOwner(s, v)}
           \/ svSess' = AfterOk(s, svRow.ver + 1) /\ svRow' = SaveCharacter(svRow, snap)
              /\ SaveVerdict(svRow, snap) = "applied"
        /\ \E f \in {<<>>, w} : svFinal' = [svFinal EXCEPT ![s] = f]
        /\ svReread' \in [SvShards -> BOOLEAN] /\ svFault' \in BOOLEAN /\ (svFault => svFault')
        /\ UNCHANGED <<svLoad, svMake, svStash, svAct, svQuit>>
        /\ ~svFault' /\ req.reason = "final" /\ ~CheckpointRefused(snap) =>
             /\ svRow' = SaveCharacter(svRow, snap)
             /\ SaveVerdict(svRow, snap) = "stale" => svFinal' = [svFinal EXCEPT ![s] = w]
             /\ SaveVerdict(svRow, snap) # "stale" => svFinal' = svFinal
    BY HandleParts
  <1>2. /\ req \in SvRequest /\ snap \in Queued(s)
        /\ svQueue' \in [SvShards -> Seq(SvRequest)]
        /\ \A t \in SvShards : Len(svQueue'[t]) <= SvDepth
        /\ \A t \in SvShards \ {s} : svQueue'[t] = svQueue[t]
        /\ Queued(s)' \subseteq Queued(s)
        /\ Len(svQueue[s]) = 1 => svQueue'[s] = <<>> /\ svQueue[s][1] = req
        /\ Len(svQueue[s]) # 1 => /\ Len(svQueue'[s]) > 0
                                  /\ svQueue'[s][Len(svQueue'[s])] = svQueue[s][Len(svQueue[s])]
    BY <1>1, DequeueTakes
  <1>3. /\ svRow.exists /\ \A t \in SvShards : svStash[t] = <<>>
    BY <1>1 DEF SvCreation
  <1>4. snap \in SvSnap /\ snap \in Held(s) /\ snap.epoch <= svRow.epoch /\ svRow.ver \in Nat /\ svRow.epoch \in Nat
    BY <1>2, HeldTyped, DataIsNat DEF SvBounds
  <1>5. x \in SvSnap /\ x.ver = svRow.ver /\ x.epoch = snap.epoch /\ x.data = snap.data
    BY <1>4, Rebased
  <1>6. w \in SvSlot /\ w # <<>> /\ w[1] = x
    BY <1>5, FullSlot
  <1>7. /\ \/ svCkpt' = svCkpt
           \/ /\ svCkpt'.exists /\ svCkpt'.ver = snap.ver
              /\ svCkpt'.epoch = snap.epoch /\ svCkpt'.data = snap.data
        /\ svCkpt' \in [exists : BOOLEAN, ver : Nat, epoch : 0..SvMaxEpoch, data : 0..SvMaxAct]
    <2>1. CASE svCkpt' = svCkpt
      BY <2>1 DEF SvTyped
    <2>2. CASE svCkpt' = [exists |-> TRUE, ver |-> snap.ver, epoch |-> snap.epoch, data |-> snap.data]
      <3>1. snap.ver \in Nat /\ snap.epoch \in 0..SvMaxEpoch /\ snap.data \in 0..SvMaxAct
        BY <1>4 DEF SvSnap
      <3>. HIDE DEF snap
      <3>. QED
        BY <2>2, <3>1
    <2>. QED
      BY <2>1, <2>2, <1>1
  <1>. HIDE DEF req, snap, x, w
  <1>8. /\ svRow' \in [exists : BOOLEAN, ver : Nat, epoch : 0..SvMaxEpoch, data : 0..SvMaxAct, by : 0..SvMaxEpoch]
        /\ svRow'.epoch = svRow.epoch
        /\ svRow' = SaveCharacter(svRow, snap) /\ SaveVerdict(svRow, snap) = "applied" =>
             svRow'.ver = svRow.ver + 1 /\ svRow'.data = snap.data
    <2>1. CASE svRow' = SaveCharacter(svRow, snap)
      BY <2>1, <1>4, SavedRow
    <2>2. CASE svRow' = svRow /\ svRow' # SaveCharacter(svRow, snap)
      BY <2>2 DEF SvTyped
    <2>. QED
      BY <2>1, <2>2, <1>1
  <1>9. /\ svSess' \in [SvShards -> SvSession] /\ \A t \in SvShards \ {s} : svSess'[t] = svSess[t]
        /\ \/ svSess'[s] \in {svSess[s], SvNobody}
           \/ /\ svSess[s].live /\ svSess'[s].pid /\ svSess'[s].epoch = svSess[s].epoch
              /\ svSess'[s].data = svSess[s].data /\ svSess'[s].ver = svRow'.ver
    <2>1. ASSUME NEW v \in Nat, svSess' \in {svSess, AfterNotOwner(s, v)}
          PROVE  /\ svSess' \in [SvShards -> SvSession] /\ \A t \in SvShards \ {s} : svSess'[t] = svSess[t]
                 /\ svSess'[s] \in {svSess[s], SvNobody}
      <3>1. svSess \in [SvShards -> SvSession] /\ SvNobody \in SvSession
        BY SvAssumption DEF SvTyped, SvNobody, SvSession
      <3>. HIDE DEF SvNobody
      <3>2. svSess' = svSess \/ svSess' = [svSess EXCEPT ![s] = SvNobody]
        BY <2>1 DEF AfterNotOwner
      <3>. QED
        BY <3>1, <3>2
    <2>2. CASE svSess' = AfterOk(s, svRow.ver + 1) /\ svRow' = SaveCharacter(svRow, snap)
               /\ SaveVerdict(svRow, snap) = "applied"
      <3>1. svRow.ver + 1 \in Nat /\ svRow'.ver = svRow.ver + 1
        BY <2>2, <1>4, <1>8
      <3>. QED
        BY <2>2, <3>1, <1>3, VerdictSession
    <2>. QED
      BY <2>1, <2>2, <1>1
  <1>10. /\ svFinal'[s] \in {<<>>, w} /\ \A t \in SvShards \ {s} : svFinal'[t] = svFinal[t]
         /\ svFinal' \in [SvShards -> SvSlot]
    <2>1. <<>> \in SvSlot
      BY DEF SvSlot
    <2>. QED
      BY <2>1, <1>1, <1>6 DEF SvTyped
  <1>11. SvTyped'
    BY <1>1, <1>2, <1>7, <1>8, <1>9, <1>10 DEF SvTyped
  <1>12. /\ \A t \in SvShards : Queued(t)' \subseteq Queued(t)
         /\ \A t \in SvShards \ {s} : Held(t)' \subseteq Held(t)
         /\ \A h \in Held(s)' : h \in Held(s) \/ h = x
    BY <1>1, <1>2, <1>6, <1>10, HeldAfter
  <1>13. SvBounds' /\ SvCreation' /\ Carried /\ OneSession' /\ SvFresh'
    BY <1>1, <1>2, <1>3, <1>4, <1>5, <1>7, <1>9, <1>11, <1>12, StoreStep
  <1>14. ASSUME NEW t \in SvShards, ~svFault', svQuit.epoch = svRow.epoch, OnlyAt(t),
                InQueue(t) \/ InFinal(t) \/ InStash(t)
         PROVE  InQueue(t)' \/ InFinal(t)' \/ Landed'
    <2>1. ~InStash(t)
      BY <1>3 DEF InStash
    <2>2. CASE t # s
      BY <2>1, <2>2, <1>1, <1>2, <1>10, <1>14 DEF InQueue, InFinal, IsQuit
    <2>3. CASE t = s /\ Len(svQueue[s]) # 1
      BY <2>1, <2>3, <1>1, <1>2, <1>14 DEF InQueue, InFinal, IsQuit
    <2>4. CASE t = s /\ Len(svQueue[s]) = 1
      <3>1. /\ svQueue'[s] = <<>> /\ req.reason = "final" /\ snap.epoch = svQuit.epoch /\ snap.data = svQuit.data
        BY <2>1, <2>4, <1>1, <1>2, <1>14 DEF InQueue, InFinal, IsQuit, snap
      <3>2. ~CheckpointRefused(snap)
        BY <3>1, <1>14, DataIsNat DEF CheckpointRefused, SvBounds
      <3>3. SaveVerdict(svRow, snap) \in {"stale", "applied"}
        BY <3>1, <1>3, <1>4, <1>14, OwnersVerdict
      <3>4. CASE SaveVerdict(svRow, snap) = "stale"
        <4>1. svFinal'[s] = w
          BY <3>1, <3>2, <3>4, <1>1, <1>14 DEF SvTyped
        <4>. QED
          BY <4>1, <2>4, <3>1, <1>1, <1>5, <1>6 DEF InFinal, IsQuit
      <3>5. CASE SaveVerdict(svRow, snap) = "applied"
        <4>1. svFinal'[s] = <<>> /\ svRow'.data = svQuit.data
          BY <3>1, <3>2, <3>5, <1>1, <1>8, <1>14
        <4>2. Held(s)' = {}
          <5>1. Queued(s)' = {}
            BY <3>1 DEF Queued
          <5>. QED
            BY <5>1, <4>1, <1>1, <1>3 DEF Held
        <4>. QED
          BY <4>1, <4>2, <2>4, <1>1, <1>13, <1>14, AppliedLands
      <3>. QED
        BY <3>3, <3>4, <3>5
    <2>. QED
      BY <2>2, <2>3, <2>4
  <1>15. QuitSafe'
    <2>1. svQuit.epoch = svRow.epoch /\ Landed => svRow'.data >= svQuit.data
      BY <1>1, <1>4, LandedStays
    <2>. QED
      BY <2>1, <1>1, <1>8, <1>11, <1>13, <1>14, CarriedQuit
  <1>. QED
    BY <1>11, <1>13, <1>15

-----------------------------------------------------------------------------
(* The invariant holds, and with it the properties.                            *)

LEMMA SvInitInv ==
  SvInit => SvInv
  <1>. SUFFICES ASSUME SvInit PROVE SvInv
    OBVIOUS
  <1>. USE DEF SvInit
  <1>1. /\ svRow \in [exists : BOOLEAN, ver : Nat, epoch : 0..SvMaxEpoch, data : 0..SvMaxAct, by : 0..SvMaxEpoch]
        /\ svRow.epoch = 0 /\ svRow.data = 0 /\ svRow.by = 0 /\ svRow.ver = 0
    BY SvAssumption
  <1>2. /\ SvNobody \in SvSession /\ ~SvNobody.live /\ ~SvNobody.pid
        /\ SvNobody.ver = 0 /\ SvNobody.epoch = 0 /\ SvNobody.data = 0
    BY SvAssumption DEF SvNobody, SvSession
  <1>. HIDE DEF SvNobody
  <1>3. /\ svCkpt.ver = 0 /\ svCkpt.data = 0 /\ svCkpt.epoch = 0 /\ ~svCkpt.exists
        /\ svQuit.data = 0 /\ svQuit.epoch = 0 /\ svAct = 0
        /\ \A s \in SvShards : /\ svSess[s] = SvNobody /\ svQueue[s] = <<>> /\ svFinal[s] = <<>>
                               /\ svLoad[s] = <<>> /\ svStash[s] = <<>> /\ ~svMake[s] /\ ~svReread[s]
    OBVIOUS
  <1>4. SvTyped
    <2>1. <<>> \in SvSlot /\ <<>> \in Seq(SvRequest) /\ Len(<<>>) = 0
      BY DEF SvSlot
    <2>2. svSess \in [SvShards -> SvSession] /\ svQueue \in [SvShards -> Seq(SvRequest)]
      BY <1>2, <2>1
    <2>3. svFinal \in [SvShards -> SvSlot] /\ svLoad \in [SvShards -> SvSlot] /\ svStash \in [SvShards -> SvSlot]
      BY <2>1
    <2>4. \A s \in SvShards : Len(svQueue[s]) <= SvDepth
      BY <1>3, <2>1, SvAssumption
    <2>5. svCkpt \in [exists : BOOLEAN, ver : Nat, epoch : 0..SvMaxEpoch, data : 0..SvMaxAct]
      BY SvAssumption
    <2>6. svQuit \in [data : 0..SvMaxAct, epoch : 0..SvMaxEpoch] /\ svAct \in 0..SvMaxAct /\ svFault \in BOOLEAN
      <3>1. 0 \in 0..SvMaxAct /\ 0 \in 0..SvMaxEpoch
        BY SvAssumption
      <3>2. svQuit = [data |-> 0, epoch |-> 0] /\ svAct = 0 /\ svFault = FALSE
        OBVIOUS
      <3>. HIDE DEF SvInit
      <3>. QED
        BY <3>1, <3>2
    <2>7. svReread \in [SvShards -> BOOLEAN] /\ svMake \in [SvShards -> BOOLEAN]
      OBVIOUS
    <2>. QED
      BY <1>1, <2>2, <2>3, <2>4, <2>5, <2>6, <2>7 DEF SvTyped
  <1>. HIDE DEF SvInit
  <1>5. \A s \in SvShards : Held(s) = {} /\ Queued(s) = {}
    <2>1. \A s \in SvShards : Queued(s) = {}
      BY <1>3 DEF Queued
    <2>. QED
      BY <2>1, <1>3 DEF Held
  <1>6. SvBounds
    BY <1>1, <1>2, <1>3, <1>5 DEF SvBounds, NotAhead
  <1>7. SvCreation
    BY <1>1, <1>2, <1>3 DEF SvCreation, Occupied
  <1>8. OneSession /\ SvFresh
    BY <1>2, <1>3, <1>5 DEF OneSession, SvFresh
  <1>9. QuitSafe
    BY <1>1, <1>2, <1>3, <1>5 DEF QuitSafe, Landed
  <1>. QED
    BY <1>4, <1>6, <1>7, <1>8, <1>9 DEF SvInv

LEMMA SvStepInv ==
  SvInv /\ [SvNext]_svVars => SvInv'
  <1>. SUFFICES ASSUME SvInv, [SvNext]_svVars PROVE SvInv'
    OBVIOUS
  <1>1. ASSUME NEW s \in SvShards, SvLoadStart(s) PROVE SvInv'
    BY <1>1, LoadStartKeeps
  <1>2. ASSUME NEW s \in SvShards, SvClaim(s) PROVE SvInv'
    BY <1>2, ClaimKeeps
  <1>3. ASSUME NEW s \in SvShards, SvLoginNew(s) PROVE SvInv'
    BY <1>3, LoginNewKeeps
  <1>4. ASSUME NEW s \in SvShards, SvCreated(s) PROVE SvInv'
    BY <1>4, CreatedKeeps
  <1>5. ASSUME NEW s \in SvShards, SvCreateFailed(s) PROVE SvInv'
    BY <1>5, CreateFailedKeeps
  <1>6. ASSUME NEW s \in SvShards, SvPlay(s) PROVE SvInv'
    BY <1>6, PlayKeeps
  <1>7. ASSUME NEW s \in SvShards, SvLeave(s) PROVE SvInv'
    BY <1>7, LeaveKeeps
  <1>8. ASSUME NEW s \in SvShards, SvReconcile(s) PROVE SvInv'
    BY <1>8, ReconcileKeeps
  <1>9. ASSUME NEW s \in SvShards, SvCadence(s, "checkpoint") \/ SvCadence(s, "flush") PROVE SvInv'
    BY <1>9, CadenceKeeps
  <1>10. ASSUME NEW s \in SvShards, NEW c \in BOOLEAN, NEW r \in BOOLEAN, SvHandle(s, c, r) PROVE SvInv'
    BY <1>10, HandleKeeps
  <1>11. ASSUME NEW s \in SvShards, SvFinalize(s) PROVE SvInv'
    BY <1>11, FinalizeKeeps
  <1>12. ASSUME NEW s \in SvShards, SvFinalizeGivesUp(s) PROVE SvInv'
    BY <1>12, GivesUpKeeps
  <1>13. ASSUME NEW s \in SvShards, SvCrash(s) PROVE SvInv'
    BY <1>13, CrashKeeps
  <1>14. CASE UNCHANGED svVars
    <2>1. UNCHANGED <<svRow, svCkpt, svSess, svQueue, svFinal, svReread, svLoad, svMake, svStash,
                      svAct, svQuit, svFault>>
      BY <1>14 DEF svVars
    <2>2. \A s \in SvShards : Held(s)' = Held(s) /\ Queued(s)' = Queued(s)
      BY <2>1 DEF Held, Queued
    <2>3. SvTyped' /\ SvCreation'
      BY <2>1 DEF SvInv, SvTyped, SvCreation, Occupied
    <2>4. SvBounds'
      BY <2>1, <2>2 DEF SvInv, SvBounds, NotAhead
    <2>5. OneSession' /\ SvFresh'
      BY <2>1, <2>2 DEF SvInv, OneSession, SvFresh
    <2>6. QuitSafe'
      BY <2>1, <2>2 DEF SvInv, QuitSafe, Landed, OnlyAt, InQueue, InFinal, InStash, IsQuit
    <2>. QED
      BY <2>3, <2>4, <2>5, <2>6 DEF SvInv
  <1>. QED
    BY <1>1, <1>2, <1>3, <1>4, <1>5, <1>6, <1>7, <1>8, <1>9, <1>10, <1>11, <1>12, <1>13, <1>14 DEF SvNext

LEMMA SvInvSafe ==
  SvInv => SaverSafe
  <1>. SUFFICES ASSUME SvInv PROVE SaverSafe
    OBVIOUS
  <1>. USE DEF SvInv
  <1>1. SvTypeOK
    <2>1. \A s \in SvShards : \A q \in {svFinal[s], svLoad[s], svStash[s]} : q \in Seq(SvSnap) /\ Len(q) <= 1
      BY SlotOfOne DEF SvTyped
    <2>2. svSess \in [SvShards -> [live : BOOLEAN, pid : BOOLEAN, ver : Nat,
                                   epoch : 0..SvMaxEpoch, data : 0..SvMaxAct]]
      BY DEF SvTyped, SvSession
    <2>. QED
      BY <2>1, <2>2 DEF SvTyped, SvTypeOK
  <1>2. LogoutIsDurable
    <2>. SUFFICES ASSUME ~svFault, svRow.exists, svRow.epoch <= svQuit.epoch,
                         \A s \in SvShards : /\ ~svSess[s].live /\ svQueue[s] = <<>> /\ ~SvBusy(s)
                                             /\ svStash[s] = <<>> /\ svLoad[s] = <<>>
                  PROVE  svRow.data >= svQuit.data
      BY DEF LogoutIsDurable
    <2>1. svQuit.epoch = svRow.epoch
      BY DataIsNat DEF SvBounds
    <2>2. \A s \in SvShards : ~(InQueue(s) \/ InFinal(s) \/ InStash(s))
      BY DEF InQueue, InFinal, InStash, SvBusy
    <2>. QED
      BY <2>1, <2>2 DEF QuitSafe, Landed
  <1>3. CheckpointTieFresh
    BY DEF CheckpointTieFresh, SvBounds, SvFresh, NotAhead
  <1>. QED
    BY <1>1, <1>2, <1>3 DEF SaverSafe

\* A clean quit reaches the row unless the character was claimed since, and a checkpoint is neither
\* ahead of the row nor staler at a tie: for any shards, queue depth and bounds (saver.go, character.go).
THEOREM SaverIsSafe == SvSpec => []SaverSafe
  BY SvInitInv, SvStepInv, SvInvSafe, PTL DEF SvSpec

LEMMA SavesOwnerContent ==
  ASSUME SvInv, NEW snap \in SvSnap, snap.epoch <= svRow.epoch, svRow' = SaveCharacter(svRow, snap)
  PROVE  svRow'.by >= svRow.by
  <1>1. svRow' = svRow \/ (svRow'.by = snap.epoch /\ snap.epoch = svRow.epoch)
    BY SavedRow
  <1>. QED
    BY <1>1, DataIsNat DEF SvInv, SvBounds

LEMMA OwnerContentStep ==
  SvInv /\ [SvNext]_svVars => svRow'.by >= svRow.by
  <1>. SUFFICES ASSUME SvInv, [SvNext]_svVars PROVE svRow'.by >= svRow.by
    OBVIOUS
  <1>1. CASE svRow' = svRow
    BY <1>1, DataIsNat DEF SvInv
  <1>2. ASSUME NEW s \in SvShards, SvClaim(s) \/ SvCreated(s) PROVE svRow'.by >= svRow.by
    <2>1. svRow'.by = svRow.by
      BY <1>2 DEF SvClaim, SvCreated, SvInv, SvTyped
    <2>. QED
      BY <2>1, DataIsNat DEF SvInv
  <1>3. ASSUME NEW s \in SvShards, NEW c \in BOOLEAN, NEW r \in BOOLEAN, SvHandle(s, c, r)
        PROVE  svRow'.by >= svRow.by
    <2>. DEFINE snap == Head(svQueue[s]).snap
    <2>1. svRow' \in {svRow, SaveCharacter(svRow, snap)} /\ snap \in Queued(s)
      BY <1>3, HandleParts, DequeueTakes DEF SvInv
    <2>2. snap \in SvSnap /\ snap.epoch <= svRow.epoch
      BY <2>1, HeldTyped DEF SvInv, SvBounds
    <2>. QED
      BY <1>1, <2>1, <2>2, SavesOwnerContent
  <1>4. ASSUME NEW s \in SvShards, SvFinalize(s) PROVE svRow'.by >= svRow.by
    <2>. DEFINE snap == svFinal[s][1]
    <2>1. svFinal[s] # <<>> /\ svFinal[s] \in SvSlot
      BY <1>4 DEF SvFinalize, SvBusy, SvInv, SvTyped
    <2>2. Head(svFinal[s]) = snap /\ snap \in Held(s)
      BY <2>1, SlotOfOne, HeldTyped DEF SvInv
    <2>3. svRow' \in {svRow, SaveCharacter(svRow, snap)}
      BY <1>4, <2>2 DEF SvFinalize, FinalizeFlush
    <2>4. snap \in SvSnap /\ snap.epoch <= svRow.epoch
      BY <2>2, HeldTyped DEF SvInv, SvBounds
    <2>. QED
      BY <1>1, <2>3, <2>4, SavesOwnerContent
  <1>5. ASSUME NEW s \in SvShards,
               \/ SvLoadStart(s) \/ SvLoginNew(s) \/ SvCreateFailed(s) \/ SvPlay(s) \/ SvLeave(s)
               \/ SvReconcile(s) \/ SvCadence(s, "checkpoint") \/ SvCadence(s, "flush")
               \/ SvFinalizeGivesUp(s) \/ SvCrash(s)
        PROVE  svRow' = svRow
    BY <1>5 DEF SvLoadStart, SvLoginNew, SvCreateFailed, SvPlay, SvLeave, SvReconcile, SvCadence,
                SvFinalizeGivesUp, SvCrash
  <1>6. UNCHANGED svVars => svRow' = svRow
    BY DEF svVars
  <1>. QED
    BY <1>1, <1>2, <1>3, <1>4, <1>5, <1>6 DEF SvNext

\* Content written under a claim is never overwritten by an older claim's (SaveCharacter's fence).
THEOREM NewerContentStands == SvSpec => OwnerContentStands
  <1>1. SvInv /\ [SvNext]_svVars => [svRow'.by >= svRow.by]_svVars
    BY OwnerContentStep
  <1>. QED
    BY <1>1, SvInitInv, SvStepInv, PTL DEF SvSpec, OwnerContentStands
=============================================================================
