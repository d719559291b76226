----------------------------- MODULE ContentProofs -----------------------------
(* Machine-checked proofs about the content a fleet plays on, for any packs,     *)
(* versions and faults: registered packs are whole in the store, and a booted    *)
(* shard never claims a version ahead of what it read (ContentStore); a shard    *)
(* that has heard of a version settles on its rows (ContentReload); a cascade of *)
(* the content's scripts stays inside its budget and every call gives back what  *)
(* it saved (LuaRuntime).                                                        *)
EXTENDS ContentStore, ContentReload, LuaRuntime, SequenceTheorems, FiniteSetTheorems, TLAPS

------------------------------------------------------------------------------
(* ContentStore: who holds the version row's lock, and what a stage has decided. *)

\* Importing and purging are done under the version row's lock, and the purge has made sure that
\* its pack is not registered.
CsLocked ==
  /\ \A w \in Installers : csPull[w].at = "import" => csLock = w
  /\ csPurge.at \in {"check", "delete"} => csLock = "purge" /\ csPurge.pack \in CsPacks
  /\ csPurge.at = "delete" => csPurge.pack \notin csReg
CsTargets == \A w \in Installers : csPull[w].at # "idle" => csPull[w].sha \in Manifests
\* Every row belongs to its own pack, and the contested one to a pack that is there.
Owned(rows, reg) ==
  /\ rows \in [Refs -> CsPacks \cup {CsNone}]
  /\ \A p \in CsPacks : rows[p] \in {p, CsNone}
  /\ \A p \in reg : rows[p] = p
  /\ rows[CsShared] # CsNone => rows[rows[CsShared]] = rows[CsShared]
CsOwned == Owned(csRows, csReg)
\* A boot's version, its first and its last statement are read in that order.
CsBooting ==
  /\ csBoot.ver <= csVer /\ csBoot.last <= csVer
  /\ csBoot.at \notin {"down", "zones"} => csBoot.ver <= csBoot.first /\ csBoot.first <= csBoot.last

CsInv == CsTypeOK /\ CsLocked /\ CsTargets /\ CsOwned /\ CsBooting

LEMMA CsNames ==
  /\ CsNone \notin CsPacks /\ CsShared \notin CsPacks /\ CsPacks \subseteq Nat /\ CsMaxVer \in Nat /\ CsFaults \in Nat
  /\ CsNone \notin Installers /\ CsNone # "purge" /\ "purge" \notin Installers /\ Refs = CsPacks \cup {CsShared}
  BY CsAssumption DEF Installers, Refs

LEMMA DeleteOwned ==
  ASSUME NEW rows, NEW reg \in SUBSET CsPacks, NEW packs \in SUBSET CsPacks, Owned(rows, reg)
  PROVE  Owned(deletePacks(rows, packs), reg \ packs)
  <1>. DEFINE after == deletePacks(rows, packs)
  <1>1. \A r \in Refs : after[r] = IF rows[r] \in packs THEN CsNone ELSE rows[r]
    BY DEF deletePacks
  <1>2. after \in [Refs -> CsPacks \cup {CsNone}]
    BY DEF deletePacks, Owned
  <1>. HIDE DEF after
  <1>3. \A p \in CsPacks : p \in Refs /\ after[p] \in {p, CsNone}
    BY <1>1, CsNames DEF Owned
  <1>4. \A p \in reg \ packs : after[p] = p
    BY <1>1, <1>3, CsNames DEF Owned
  <1>5. ASSUME after[CsShared] # CsNone PROVE after[after[CsShared]] = after[CsShared]
    <2>1. after[CsShared] = rows[CsShared] /\ rows[CsShared] \notin packs /\ rows[CsShared] \in CsPacks
      BY <1>1, <1>5, CsNames DEF Owned
    <2>. QED
      BY <1>1, <1>3, <1>5, <2>1 DEF Owned
  <1>. QED
    BY <1>2, <1>3, <1>4, <1>5 DEF Owned, after

\* An import makes its packs whole and leaves the others as they were.
LEMMA ImportOwned ==
  ASSUME NEW rows, NEW reg \in SUBSET CsPacks, NEW m \in Manifests, Owned(rows, reg)
  PROVE  Owned(importPackTx(rows, m), reg \cup m.packs)
  <1>. DEFINE after == importPackTx(rows, m)
              kept == deletePacks(rows, m.packs)
  <1>1. m.packs \in SUBSET CsPacks /\ m.claim \in m.packs \cup {CsNone}
    BY DEF Manifests
  <1>2. Owned(kept, reg \ m.packs)
    BY <1>1, DeleteOwned
  <1>3. \A r \in Refs : kept[r] = IF rows[r] \in m.packs THEN CsNone ELSE rows[r]
    BY DEF deletePacks
  <1>4. after = [r \in Refs |-> IF r \in incomingRefs(m) THEN ownerIn(m, r) ELSE kept[r]]
    BY DEF importPackTx
  <1>. HIDE DEF after, kept
  <1>5. /\ \A p \in CsPacks : (p \in incomingRefs(m) <=> p \in m.packs) /\ ownerIn(m, p) = p
        /\ CsShared \in incomingRefs(m) <=> m.claim # CsNone
        /\ ownerIn(m, CsShared) = m.claim
    BY <1>1, CsNames DEF incomingRefs, ownerIn
  <1>6. /\ \A p \in m.packs : after[p] = p
        /\ \A p \in CsPacks \ m.packs : after[p] = kept[p]
        /\ after[CsShared] = IF m.claim # CsNone THEN m.claim ELSE kept[CsShared]
    BY <1>1, <1>4, <1>5, CsNames
  <1>7. kept \in [Refs -> CsPacks \cup {CsNone}]
    BY <1>2 DEF Owned
  <1>8. after \in [Refs -> CsPacks \cup {CsNone}]
    BY <1>1, <1>4, <1>5, <1>7, CsNames
  <1>9. \A p \in CsPacks : after[p] \in {p, CsNone}
    BY <1>2, <1>6 DEF Owned
  <1>10. \A p \in reg \cup m.packs : after[p] = p
    BY <1>2, <1>6 DEF Owned
  <1>11. ASSUME after[CsShared] # CsNone PROVE after[after[CsShared]] = after[CsShared]
    <2>1. CASE m.claim # CsNone
      BY <1>1, <1>6, <2>1
    <2>2. CASE m.claim = CsNone
      <3>1. after[CsShared] = kept[CsShared] /\ kept[CsShared] # CsNone /\ kept[CsShared] \in CsPacks
        BY <1>6, <1>7, <1>11, <2>2, CsNames
      <3>2. kept[kept[CsShared]] = kept[CsShared]
        BY <1>2, <3>1 DEF Owned
      <3>. QED
        BY <1>6, <3>1, <3>2
    <2>. QED
      BY <2>1, <2>2
  <1>. QED
    BY <1>8, <1>9, <1>10, <1>11 DEF Owned, after

CsStage == {"idle", "resolve", "guard", "lock", "import", "broadcast"}
CsPulls == [Installers -> [at : CsStage, sha : Manifests \cup {CsNone}, force : BOOLEAN]]

LEMMA ToFacts ==
  ASSUME NEW w \in Installers, NEW at \in CsStage, csPull \in CsPulls, To(w, at)
  PROVE  /\ csPull' \in CsPulls /\ csPull'[w].at = at
         /\ at # "idle" => csPull'[w].sha = csPull[w].sha
         /\ \A v \in Installers \ {w} : csPull'[v] = csPull[v]
  <1>. DEFINE q == IF at = "idle" THEN IdlePull ELSE [csPull[w] EXCEPT !.at = at]
  <1>1. csPull[w] \in [at : CsStage, sha : Manifests \cup {CsNone}, force : BOOLEAN]
    BY DEF CsPulls
  <1>2. /\ q \in [at : CsStage, sha : Manifests \cup {CsNone}, force : BOOLEAN] /\ q.at = at
        /\ at # "idle" => q.sha = csPull[w].sha
    BY <1>1 DEF IdlePull
  <1>3. csPull' = [csPull EXCEPT ![w] = q]
    BY DEF To
  <1>. HIDE DEF q
  <1>. QED
    BY <1>2, <1>3 DEF CsPulls

LEMMA CsTypes ==
  CsTypeOK <=>
    /\ csRows \in [Refs -> CsPacks \cup {CsNone}] /\ csReg \in SUBSET CsPacks /\ csHosted \in SUBSET CsPacks
    /\ csVer \in 0..CsMaxVer /\ csTold \in 0..CsMaxVer /\ csSha \in Manifests \cup {CsNone}
    /\ csLock \in Installers \cup {"purge", CsNone} /\ csLeft \in 0..CsFaults
    /\ csPull \in CsPulls
    /\ csPurge \in [at : {"idle", "lock", "check", "delete"}, pack : CsPacks \cup {CsNone}]
    /\ csBoot \in [at : {"down", "zones", "rooms", "protos", "resets", "globals", "merge", "up"},
                   ver : 0..CsMaxVer, first : 0..CsMaxVer, last : 0..CsMaxVer]
  BY DEF CsTypeOK, CsPulls, CsStage

\* The steps of a pull that change neither the rows nor the registry.
LEMMA PullKeeps ==
  ASSUME CsInv, NEW w \in Installers,
         \/ \E m \in Manifests, force \in BOOLEAN : handlePullRequest(w, m, force)
         \/ \E sound \in BOOLEAN : Pull(w, sound)
         \/ FleetPruneGuard(w) \/ lockVersion(w) \/ broadcast(w) \/ CsCrash(w)
  PROVE  CsInv'
  <1>0. csPull \in CsPulls /\ csLock \in Installers \cup {"purge", CsNone} /\ csLeft \in 0..CsFaults
    BY CsTypes DEF CsInv
  <1>1. /\ UNCHANGED <<csRows, csReg, csVer, csSha, csPurge, csHosted, csBoot>>
        /\ csTold' \in {csTold, csVer} /\ csLeft' \in 0..CsFaults
    BY <1>0, CsNames DEF handlePullRequest, Pull, FleetPruneGuard, lockVersion, broadcast, CsCrash, CsFault
  <1>2. /\ csPull' \in CsPulls
        /\ \A v \in Installers \ {w} : csPull'[v] = csPull[v]
        /\ csPull'[w].at # "idle" => csPull'[w].sha \in Manifests
        /\ \/ csLock' = csLock /\ csPull'[w].at # "import"
           \/ csLock = CsNone /\ csLock' = w
           \/ csPull'[w].at = "idle" /\ csLock' = IF csLock = w THEN CsNone ELSE csLock
    <2>1. ASSUME NEW m \in Manifests, NEW force \in BOOLEAN, handlePullRequest(w, m, force)
          PROVE  /\ csPull' = [csPull EXCEPT ![w] = [at |-> "resolve", sha |-> m, force |-> force]]
                 /\ csLock' = csLock
      BY <2>1 DEF handlePullRequest
    <2>2. CASE \E m \in Manifests, force \in BOOLEAN : handlePullRequest(w, m, force)
      BY <1>0, <2>1, <2>2 DEF CsPulls, CsStage
    <2>3. CASE ~\E m \in Manifests, force \in BOOLEAN : handlePullRequest(w, m, force)
      <3>1. \E at \in CsStage :
              /\ To(w, at) /\ (at # "idle" => csPull[w].at # "idle")
              /\ \/ csLock' = csLock /\ at # "import"
                 \/ csLock = CsNone /\ csLock' = w
                 \/ at = "idle" /\ csLock' = IF csLock = w THEN CsNone ELSE csLock
        <4>1. ASSUME NEW sound \in BOOLEAN, Pull(w, sound)
              PROVE  /\ To(w, IF ~sound THEN "idle" ELSE IF w = "director" THEN "guard" ELSE "lock")
                     /\ csPull[w].at # "idle" /\ csLock' = csLock
          BY <4>1 DEF Pull
        <4>2. CASE \E sound \in BOOLEAN : Pull(w, sound)
          BY <4>1, <4>2 DEF CsStage
        <4>3. CASE FleetPruneGuard(w)
          <5>1. /\ csPull[w].at = "guard" /\ csLock' = csLock
                /\ To(w, IF prunePreview(csPull[w].sha) \cap csHosted = {} \/ csPull[w].force THEN "lock" ELSE "idle")
            BY <4>3 DEF FleetPruneGuard
          <5>. QED
            BY <5>1 DEF CsStage
        <4>4. CASE lockVersion(w)
          BY <4>4 DEF lockVersion, CsStage
        <4>5. CASE broadcast(w)
          BY <4>5 DEF broadcast, CsStage
        <4>6. CASE CsCrash(w)
          BY <4>6 DEF CsCrash, CsStage
        <4>. QED
          BY <2>3, <4>2, <4>3, <4>4, <4>5, <4>6
      <3>2. PICK at \in CsStage :
              /\ To(w, at) /\ (at # "idle" => csPull[w].at # "idle")
              /\ \/ csLock' = csLock /\ at # "import"
                 \/ csLock = CsNone /\ csLock' = w
                 \/ at = "idle" /\ csLock' = IF csLock = w THEN CsNone ELSE csLock
        BY <3>1
      <3>3. /\ csPull' \in CsPulls /\ csPull'[w].at = at
            /\ at # "idle" => csPull'[w].sha = csPull[w].sha
            /\ \A v \in Installers \ {w} : csPull'[v] = csPull[v]
        BY <1>0, <3>2, ToFacts
      <3>. QED
        BY <3>2, <3>3 DEF CsInv, CsTargets
    <2>. QED
      BY <2>2, <2>3
  <1>3. CsTypeOK'
    BY <1>0, <1>1, <1>2, CsTypes DEF CsInv, CsTypeOK, CsPulls, CsStage
  <1>4. CsTargets'
    BY <1>2 DEF CsInv, CsTargets
  <1>5. CsLocked'
    BY <1>0, <1>1, <1>2, CsNames DEF CsInv, CsLocked
  <1>. QED
    BY <1>1, <1>3, <1>4, <1>5 DEF CsInv, CsOwned, CsBooting

LEMMA ImportVersionKeeps ==
  ASSUME CsInv, NEW w \in Installers, ImportVersion(w)
  PROVE  CsInv'
  <1>. DEFINE m == csPull[w].sha
              kept == deletePacks(csRows, prunePreview(m))
              refused == m = csSha \/ foreignRefs(kept, m) # {} \/ collides(kept, m) \/ csVer = CsMaxVer
  <1>0. /\ csPull \in CsPulls /\ csReg \in SUBSET CsPacks /\ csVer \in 0..CsMaxVer
    BY CsTypes DEF CsInv
  <1>1. /\ csPull[w].at = "import" /\ csLock' = CsNone /\ csLock = w /\ m \in Manifests
        /\ UNCHANGED <<csPurge, csHosted, csTold, csBoot, csLeft>>
        /\ csPurge.at \notin {"check", "delete"}
        /\ \A v \in Installers \ {w} : csPull[v].at # "import"
    BY CsNames DEF ImportVersion, CsInv, CsLocked, CsTargets
  <1>2. \/ To(w, "idle") /\ UNCHANGED <<csRows, csReg, csVer, csSha>>
        \/ /\ csRows' = importPackTx(kept, m) /\ csReg' = m.packs /\ csVer' = csVer + 1 /\ csSha' = m
           /\ csVer # CsMaxVer /\ To(w, "broadcast")
    BY DEF ImportVersion
  <1>3. m.packs \in SUBSET CsPacks
    BY <1>1 DEF Manifests
  <1>4. Owned(kept, csReg \ prunePreview(m))
    BY <1>0, DeleteOwned DEF CsInv, CsOwned, prunePreview
  <1>. HIDE DEF m, kept
  <1>5. Owned(importPackTx(kept, m), m.packs)
    <2>1. Owned(importPackTx(kept, m), (csReg \ prunePreview(m)) \cup m.packs)
      BY <1>0, <1>1, <1>4, ImportOwned
    <2>. QED
      BY <2>1 DEF Owned
  <1>6. CsOwned'
    BY <1>2, <1>5 DEF CsInv, CsOwned, Owned
  <1>7. /\ csPull' \in CsPulls /\ csPull'[w].at \in {"idle", "broadcast"}
        /\ csPull'[w].at # "idle" => csPull'[w].sha = m
        /\ \A v \in Installers \ {w} : csPull'[v] = csPull[v]
    BY <1>0, <1>2, ToFacts DEF CsStage, m
  <1>8. csVer' \in 0..CsMaxVer /\ csVer' >= csVer /\ csReg' \in SUBSET CsPacks /\ csSha' \in Manifests \cup {CsNone}
    <2>1. CASE UNCHANGED <<csRows, csReg, csVer, csSha>>
      BY <1>0, <2>1, CsTypes DEF CsInv
    <2>2. CASE csReg' = m.packs /\ csVer' = csVer + 1 /\ csSha' = m /\ csVer # CsMaxVer
      <3>1. csVer + 1 \in 0..CsMaxVer /\ csVer + 1 >= csVer
        BY <1>0, <2>2, CsNames
      <3>. QED
        BY <1>1, <1>3, <2>2, <3>1
    <2>. QED
      BY <1>2, <2>1, <2>2
  <1>9. CsTypeOK'
    BY <1>1, <1>6, <1>7, <1>8, CsNames DEF CsInv, CsTypeOK, CsOwned, Owned, CsPulls, CsStage
  <1>10. CsLocked' /\ CsTargets'
    BY <1>1, <1>7 DEF CsInv, CsLocked, CsTargets
  <1>11. CsBooting'
    <2>1. csBoot.ver \in Nat /\ csBoot.last \in Nat
      BY CsTypes DEF CsInv
    <2>. QED
      BY <1>0, <1>1, <1>8, <2>1 DEF CsInv, CsBooting
  <1>. QED
    BY <1>6, <1>9, <1>10, <1>11 DEF CsInv

\* The seed import and the purge command.
LEMMA ImportPacksKeeps ==
  ASSUME CsInv, NEW p \in CsPacks, NEW claims \in BOOLEAN, ImportPacks(p, claims)
  PROVE  CsInv'
  <1>. DEFINE m == [packs |-> {p}, claim |-> IF claims THEN p ELSE CsNone]
  <1>1. m \in Manifests /\ m.packs = {p}
    <2>1. /\ m \in [packs : (SUBSET CsPacks) \ {{}}, claim : CsPacks \cup {CsNone}]
          /\ m.packs = {p} /\ m.claim \in {p, CsNone}
      <3>1. {p} \in (SUBSET CsPacks) \ {{}} /\ p \in {p}
        OBVIOUS
      <3>. QED
        BY <3>1
    <2>. HIDE DEF m
    <2>. QED
      BY <2>1 DEF Manifests
  <1>2. /\ csRows' = importPackTx(csRows, m) /\ csLeft' = csLeft - 1 /\ csLeft > 0
        /\ UNCHANGED <<csReg, csVer, csSha, csLock, csPull, csPurge, csHosted, csTold, csBoot>>
    BY DEF ImportPacks, CsFault
  <1>. HIDE DEF m
  <1>3. CsOwned'
    <2>1. Owned(csRows', csReg \cup m.packs)
      BY <1>1, <1>2, ImportOwned, CsTypes DEF CsInv, CsOwned
    <2>. QED
      BY <1>2, <2>1 DEF CsOwned, Owned
  <1>4. CsTypeOK'
    BY <1>2, <1>3, CsNames DEF CsInv, CsTypeOK, CsOwned, Owned
  <1>. QED
    BY <1>2, <1>3, <1>4 DEF CsInv, CsLocked, CsTargets, CsBooting

LEMMA PurgeKeeps ==
  ASSUME CsInv, (\E p \in CsPacks : PurgePack(p)) \/ checkRegistry \/ purgeRows
  PROVE  CsInv'
  <1>0. /\ csPurge \in [at : {"idle", "lock", "check", "delete"}, pack : CsPacks \cup {CsNone}]
        /\ csLock \in Installers \cup {"purge", CsNone} /\ csReg \in SUBSET CsPacks /\ csLeft \in 0..CsFaults
    BY CsTypes DEF CsInv
  <1>1. ASSUME NEW p \in CsPacks, PurgePack(p) PROVE CsInv'
    <2>1. /\ csLock = CsNone /\ csLock' = "purge" /\ csPurge' = [at |-> "check", pack |-> p]
          /\ csLeft' = csLeft - 1 /\ csLeft > 0
          /\ UNCHANGED <<csRows, csReg, csVer, csSha, csPull, csHosted, csTold, csBoot>>
      BY <1>1 DEF PurgePack, purgeLocks, CsFault
    <2>2. csPurge'.at = "check" /\ csPurge'.pack = p
          /\ csPurge' \in [at : {"idle", "lock", "check", "delete"}, pack : CsPacks \cup {CsNone}]
      BY <2>1
    <2>3. CsTypeOK'
      BY <1>0, <2>1, <2>2, CsNames DEF CsInv, CsTypeOK
    <2>4. CsLocked'
      BY <2>1, <2>2, CsNames DEF CsInv, CsLocked
    <2>. QED
      BY <2>1, <2>3, <2>4 DEF CsInv, CsTargets, CsOwned, CsBooting
  <1>2. CASE checkRegistry
    <2>1. /\ csPurge.at = "check" /\ csLock = "purge"
          /\ UNCHANGED <<csRows, csReg, csVer, csSha, csPull, csHosted, csTold, csBoot, csLeft>>
          /\ \/ csPurge' = IdlePurge /\ csLock' = CsNone
             \/ csPurge' = [csPurge EXCEPT !.at = "delete"] /\ csLock' = csLock /\ csPurge.pack \notin csReg
      BY <1>2 DEF checkRegistry, CsInv, CsLocked
    <2>2. /\ csPurge' \in [at : {"idle", "lock", "check", "delete"}, pack : CsPacks \cup {CsNone}]
          /\ \/ csPurge'.at = "idle" /\ csLock' = CsNone
             \/ csPurge'.at = "delete" /\ csPurge'.pack = csPurge.pack /\ csPurge.pack \notin csReg /\ csLock' = csLock
      BY <1>0, <2>1 DEF IdlePurge
    <2>3. CsTypeOK'
      BY <1>0, <2>1, <2>2 DEF CsInv, CsTypeOK
    <2>4. CsLocked'
      BY <2>1, <2>2, CsNames DEF CsInv, CsLocked
    <2>. QED
      BY <2>1, <2>3, <2>4 DEF CsInv, CsTargets, CsOwned, CsBooting
  <1>3. CASE purgeRows
    <2>1. /\ csPurge.at = "delete" /\ csPurge' = IdlePurge /\ csLock = "purge" /\ csLock' = CsNone
          /\ csRows' = deletePacks(csRows, {csPurge.pack}) /\ csPurge.pack \in CsPacks \ csReg
          /\ UNCHANGED <<csReg, csVer, csSha, csPull, csHosted, csTold, csBoot, csLeft>>
      BY <1>3 DEF purgeRows, CsInv, CsLocked
    <2>2. Owned(csRows', csReg \ {csPurge.pack}) /\ csReg \ {csPurge.pack} = csReg
      BY <1>0, <2>1, DeleteOwned DEF CsInv, CsOwned
    <2>3. CsOwned'
      BY <2>1, <2>2 DEF CsOwned
    <2>4. csPurge' \in [at : {"idle", "lock", "check", "delete"}, pack : CsPacks \cup {CsNone}] /\ csPurge'.at = "idle"
      BY <2>1 DEF IdlePurge
    <2>5. CsTypeOK'
      BY <2>1, <2>3, <2>4 DEF CsInv, CsTypeOK, CsOwned, Owned
    <2>6. CsLocked'
      BY <2>1, <2>4, CsNames DEF CsInv, CsLocked
    <2>. QED
      BY <2>1, <2>3, <2>5, <2>6 DEF CsInv, CsTargets, CsBooting
  <1>. QED
    BY <1>1, <1>2, <1>3

LEMMA BootKeeps ==
  ASSUME CsInv,
         \/ readVersion \/ LoadPacks \/ loadRooms \/ loadPrototypes \/ loadResets \/ loadGlobalDefs
         \/ Merge \/ CsStop \/ UNCHANGED csVars
  PROVE  CsInv'
  <1>. DEFINE Boot == [at : {"down", "zones", "rooms", "protos", "resets", "globals", "merge", "up"},
                       ver : 0..CsMaxVer, first : 0..CsMaxVer, last : 0..CsMaxVer]
  <1>0. /\ csBoot \in Boot /\ csVer \in 0..CsMaxVer /\ csReg \in SUBSET CsPacks /\ csHosted \in SUBSET CsPacks
        /\ 0 \in 0..CsMaxVer /\ CsMaxVer \in Nat
    BY CsTypes, CsNames DEF CsInv
  <1>1. UNCHANGED <<csRows, csReg, csVer, csSha, csLock, csPull, csPurge, csTold, csLeft>>
    BY DEF readVersion, LoadPacks, loadRooms, loadPrototypes, loadResets, loadGlobalDefs, Merge, CsStop,
           Statement, csVars
  <1>2. ASSUME NEW from, NEW to \in {"rooms", "protos", "resets", "globals", "merge"}, Statement(from, to),
               from \in {"zones", "rooms", "protos", "resets", "globals"}
        PROVE  csBoot' \in Boot /\ csHosted' = csHosted /\ CsBooting'
    <2>. DEFINE q == [csBoot EXCEPT !.at = to, !.first = IF from = "zones" THEN csVer ELSE @, !.last = csVer]
    <2>1. csBoot' = q /\ csBoot.at = from /\ csHosted' = csHosted
      BY <1>2 DEF Statement
    <2>2. /\ q \in Boot /\ q.at = to /\ q.ver = csBoot.ver /\ q.last = csVer
          /\ q.first = IF from = "zones" THEN csVer ELSE csBoot.first
      BY <1>0
    <2>3. csBoot.ver <= csVer /\ csBoot.last <= csVer
      BY DEF CsInv, CsBooting
    <2>4. from # "zones" => csBoot.ver <= csBoot.first /\ csBoot.first <= csBoot.last
      BY <1>2, <2>1 DEF CsInv, CsBooting
    <2>. HIDE DEF q
    <2>. QED
      BY <1>0, <1>1, <2>1, <2>2, <2>3, <2>4 DEF CsBooting
  <1>3. csBoot' \in Boot /\ csHosted' \in SUBSET CsPacks /\ CsBooting'
    <2>1. CASE LoadPacks \/ loadRooms \/ loadPrototypes \/ loadResets \/ loadGlobalDefs
      BY <1>0, <1>2, <2>1 DEF LoadPacks, loadRooms, loadPrototypes, loadResets, loadGlobalDefs
    <2>2. CASE readVersion
      <3>1. csBoot' = [csBoot EXCEPT !.at = "zones", !.ver = csVer] /\ csHosted' = csHosted
        BY <2>2 DEF readVersion
      <3>2. csBoot' \in Boot /\ csBoot'.at = "zones" /\ csBoot'.ver = csVer /\ csBoot'.last = csBoot.last
        BY <1>0, <3>1
      <3>. QED
        BY <1>0, <1>1, <3>1, <3>2 DEF CsInv, CsBooting
    <2>3. CASE Merge
      <3>1. csBoot' = [csBoot EXCEPT !.at = "up", !.ver = csBoot.ver] /\ csHosted' = csHosted \cup csReg
            /\ csBoot.at = "merge"
        BY <2>3 DEF Merge, recordedAtBoot
      <3>2. /\ csBoot' \in Boot /\ csBoot'.ver = csBoot.ver /\ csBoot'.last = csBoot.last
            /\ csBoot'.first = csBoot.first
        BY <1>0, <3>1
      <3>. QED
        BY <1>0, <1>1, <3>1, <3>2 DEF CsInv, CsBooting
    <2>4. CASE CsStop
      <3>1. csBoot' = DownBoot /\ csHosted' = {}
        BY <2>4 DEF CsStop
      <3>. QED
        BY <1>0, <1>1, <3>1 DEF CsBooting, DownBoot
    <2>5. CASE UNCHANGED csVars
      BY <1>0, <2>5 DEF csVars, CsInv, CsBooting
    <2>. QED
      BY <2>1, <2>2, <2>3, <2>4, <2>5
  <1>4. CsTypeOK'
    BY <1>1, <1>3 DEF CsInv, CsTypeOK
  <1>. QED
    BY <1>1, <1>3, <1>4 DEF CsInv, CsLocked, CsTargets, CsOwned

\* Whatever pulls, seeds, purges and crashes do to the store, a registered pack has its rows, no row outlives
\* its pack, and a shard that booted across an import is behind it, never ahead: for any packs and
\* versions (store/import.go, store/foreignrefs.go, cmd/telos-world).
THEOREM StoreIsSafe == CsSpec => []StoreSafe
  <1>1. CsInit => CsInv
    <2>. SUFFICES ASSUME CsInit PROVE CsInv
      OBVIOUS
    <2>1. \A r \in Refs : csRows[r] = CsNone
      BY DEF CsInit
    <2>2. CsTypeOK
      BY CsNames DEF CsInit, CsTypeOK, IdlePull, IdlePurge, DownBoot
    <2>3. CsOwned
      BY <2>1, CsNames DEF CsInit, CsOwned, Owned
    <2>4. CsLocked /\ CsTargets /\ CsBooting
      BY CsNames DEF CsInit, CsLocked, CsTargets, CsBooting, IdlePull, IdlePurge, DownBoot
    <2>. QED
      BY <2>2, <2>3, <2>4 DEF CsInv
  <1>2. CsInv => StoreSafe
    <2>. SUFFICES ASSUME CsInv PROVE ContentWhole
      BY DEF CsInv, StoreSafe
    <2>1. ASSUME csBoot.at = "up"
          PROVE  csBoot.ver <= csBoot.first /\ (csBoot.first # csBoot.last => csBoot.ver < csVer)
      <3>1. /\ csBoot.ver \in Nat /\ csBoot.first \in Nat /\ csBoot.last \in Nat /\ csVer \in Nat
        BY CsTypes DEF CsInv
      <3>2. csBoot.ver <= csBoot.first /\ csBoot.first <= csBoot.last /\ csBoot.last <= csVer
        BY <2>1 DEF CsInv, CsBooting
      <3>. QED
        BY <3>1, <3>2
    <2>. QED
      BY <2>1 DEF ContentWhole, CsInv, CsOwned, Owned
  <1>3. CsInv /\ [CsNext]_csVars => CsInv'
    BY PullKeeps, ImportVersionKeeps, ImportPacksKeeps, PurgeKeeps, BootKeeps DEF CsNext
  <1>. QED
    BY <1>1, <1>2, <1>3, PTL DEF CsSpec

------------------------------------------------------------------------------
(* ContentReload: no message and no mark is ahead of the store, and a snapshot     *)
(* older than what the shard heard of is marked stale or about to be read again.  *)

CrMsgs(v) == {m \in [k : {"room", "zone", "done"}, ref : CrRooms \cup {""}, ver : 0..v,
                      rooms : SUBSET CrRooms] : m.k = "room" => m.ref \in CrRooms}
CrPgs == [ver : 0..CrMaxVer, rows : CrRows, at : 0..CrMaxVer, stamp : 0..CrMaxVer]
CrJobs(v) == [rows : CrRows, todo : Seq(CrMsgs(v)), open : BOOLEAN]
CrHolds == {<<>>} \cup (CrRooms \X (0..CrMaxVer))
CrDos(v) == [todo : Seq(CrMsgs(v)), held : CrHolds, ver : 0..v]
CrShards(v) == [cache : CrRows, applied : 0..v, heard : 0..v]
CrZones(v) == [live : CrRows, ver : 0..v, inbox : Seq(CrMsgs(v)), retry : SUBSET CrMsgs(v)]
CrSnaps(v) == [rows : CrRows, ver : 0..v, before : 0..v, stale : BOOLEAN,
               at : {"idle", "loop", "exit", "read", "store"}, failed : BOOLEAN]
CrRest(v) ==
  /\ crJob \in [{"pull", "reload"} -> CrJobs(v)] /\ crBus \in [up : BOOLEAN, faults : Nat]
  /\ crDo \in [{"bus", "join"} -> CrDos(v)]
  /\ crShard \in CrShards(v) /\ crZone \in CrZones(v) /\ crSnap \in CrSnaps(v)
CrTyped == crPg \in CrPgs /\ CrRest(crPg.ver)
\* A snapshot that was read under the current version, with no edit in place since, is its rows.
CrCurrent ==
  /\ crPg.at <= crPg.stamp
  /\ crSnap.ver = crPg.ver /\ crPg.at = crPg.stamp => crSnap.rows = crPg.rows
\* Without a mark, a refresher at rest has caught up with what was heard, or its read failed.
CrCaughtUp ==
  /\ crSnap.at = "idle" => ~crSnap.stale
  /\ ~crSnap.stale /\ crSnap.at \in {"idle", "exit", "loop"} =>
       crSnap.failed \/ crShard.heard <= crSnap.ver
  /\ ~crSnap.stale /\ crSnap.at = "store" => crShard.heard <= crSnap.before
CrInv == CrTyped /\ CrCurrent /\ CrCaughtUp

LEMMA CrLater ==
  ASSUME NEW v \in Nat, NEW w \in Nat, v <= w, CrRest(v) PROVE CrRest(w)
  <1>1. 0..v \subseteq 0..w  OBVIOUS
  <1>2. CrMsgs(v) \subseteq CrMsgs(w)  BY <1>1 DEF CrMsgs
  <1>3. Seq(CrMsgs(v)) \subseteq Seq(CrMsgs(w))  BY <1>2
  <1>4. CrJobs(v) \subseteq CrJobs(w)  BY <1>3 DEF CrJobs
  <1>5. CrDos(v) \subseteq CrDos(w)  BY <1>1, <1>3 DEF CrDos
  <1>6. CrShards(v) \subseteq CrShards(w)  BY <1>1 DEF CrShards
  <1>7. CrZones(v) \subseteq CrZones(w)  BY <1>1, <1>2, <1>3 DEF CrZones
  <1>8. CrSnaps(v) \subseteq CrSnaps(w)  BY <1>1 DEF CrSnaps
  <1>9. \A T : \A A, B : A \subseteq B => [T -> A] \subseteq [T -> B]  OBVIOUS
  <1>10. crJob \in [{"pull", "reload"} -> CrJobs(w)]  BY <1>4, <1>9 DEF CrRest
  <1>11. crDo \in [{"bus", "join"} -> CrDos(w)]  BY <1>5, <1>9 DEF CrRest
  <1> QED  BY <1>6, <1>7, <1>8, <1>10, <1>11 DEF CrRest

LEMMA CrFields ==
  ASSUME CrTyped
  PROVE  /\ CrMaxVer \in Nat /\ crPg \in CrPgs /\ crPg.ver \in 0..CrMaxVer /\ crPg.ver \in Nat
         /\ crPg.rows \in CrRows /\ crPg.at \in 0..CrMaxVer /\ crPg.at \in Nat
         /\ crPg.stamp \in 0..CrMaxVer /\ crPg.stamp \in Nat
         /\ crJob \in [{"pull", "reload"} -> CrJobs(crPg.ver)]
         /\ crDo \in [{"bus", "join"} -> CrDos(crPg.ver)]
         /\ crBus \in [up : BOOLEAN, faults : Nat] /\ crShard \in CrShards(crPg.ver)
         /\ crShard.heard \in Nat /\ crShard.heard <= crPg.ver /\ crShard.applied \in 0..crPg.ver
         /\ crZone \in CrZones(crPg.ver) /\ crSnap \in CrSnaps(crPg.ver)
         /\ crSnap.ver \in Nat /\ crSnap.ver <= crPg.ver
         /\ crSnap.before \in Nat /\ crSnap.before <= crPg.ver
  BY CrAssumption DEF CrTyped, CrRest, CrPgs, CrShards, CrSnaps

LEMMA CrFaulted ==
  ASSUME CrTyped, NEW b \in BOOLEAN PROVE Faulted(b) \in [up : BOOLEAN, faults : Nat]
  <1> DEFINE n == IF b THEN crBus.faults + 1 ELSE crBus.faults
  <1>1. crBus \in [up : BOOLEAN, faults : Nat] /\ n \in Nat  BY CrFields
  <1>2. Faulted(b) = [crBus EXCEPT !.faults = n]  BY <1>1 DEF Faulted
  <1> HIDE DEF n
  <1> QED  BY <1>1, <1>2

LEMMA CrUpTo == \A v \in Nat : v \in 0..v
  OBVIOUS

LEMMA CrMessage ==
  ASSUME NEW v \in Nat, NEW k \in {"room", "zone", "done"}, NEW r \in CrRooms \cup {""},
         NEW S \in SUBSET CrRooms, k = "room" => r \in CrRooms
  PROVE  [k |-> k, ref |-> r, ver |-> v, rooms |-> S] \in CrMsgs(v)
  <1> DEFINE m == [k |-> k, ref |-> r, ver |-> v, rooms |-> S]
  <1>1. v \in 0..v  BY CrUpTo
  <1>2. m \in [k : {"room", "zone", "done"}, ref : CrRooms \cup {""}, ver : 0..v, rooms : SUBSET CrRooms]
        BY <1>1
  <1>3. m.k = k /\ m.ref = r  OBVIOUS
  <1> HIDE DEF m
  <1>4. m \in CrMsgs(v)  BY <1>2, <1>3 DEF CrMsgs
  <1> QED  BY <1>4 DEF m

\* A published pack is a sequence of messages of its version.
LEMMA PackTyped ==
  ASSUME NEW rows \in CrRows, NEW v \in Nat
  PROVE  PublishPack(rows, v) \in Seq(CrMsgs(v))
  <1> DEFINE S == Present(rows)
             refs == InOrder(S)
             n == Cardinality(S)
             names == [i \in 1..n |-> [k |-> "room", ref |-> refs[i], ver |-> v, rooms |-> {}]]
             shape == [k |-> "zone", ref |-> "", ver |-> v, rooms |-> S]
  <1>1. S \subseteq CrRooms /\ IsFiniteSet(S)  BY CrAssumption, FS_Subset DEF Present
  <1>2. n \in Nat /\ ExistsBijection(1..n, S)  BY <1>1, FS_CardinalityType
  <1>3. \E q \in [1..n -> S] : {q[i] : i \in DOMAIN q} = S
    <2>1. PICK q \in [1..n -> S] : \A t \in S : \E i \in 1..n : q[i] = t
          BY <1>2 DEF ExistsBijection, Bijection, Surjection
    <2>2. {q[i] : i \in DOMAIN q} = S  BY <2>1
    <2> QED  BY <2>2
  <1>4. refs \in [1..n -> S]  BY <1>3 DEF InOrder
  <1>5. names \in Seq(CrMsgs(v))
    <2>1. \A i \in 1..n : [k |-> "room", ref |-> refs[i], ver |-> v, rooms |-> {}] \in CrMsgs(v)
          BY <1>1, <1>4, CrMessage
    <2> QED  BY <1>2, <2>1
  <1>6. shape \in CrMsgs(v)  BY <1>1, CrMessage
  <1>7. PublishPack(rows, v) = names \o <<shape>>  BY <1>4 DEF PublishPack
  <1> HIDE DEF names, shape
  <1>8. <<shape>> \in Seq(CrMsgs(v))  BY <1>6
  <1> QED  BY <1>5, <1>7, <1>8

LEMMA SentinelTyped ==
  ASSUME NEW v \in Nat
  PROVE  /\ PublishVersionComplete(v) \in Seq(CrMsgs(v))
         /\ \A q \in Seq(CrMsgs(v)) : sentinel(q) \in Seq(CrMsgs(v))
  <1>1. [k |-> "done", ref |-> "", ver |-> v, rooms |-> {}] \in CrMsgs(v)  BY CrMessage
  <1> DEFINE M == CrMsgs(v)
  <1>2. M = CrMsgs(v)  OBVIOUS
  <1> HIDE DEF M
  <1>3. \A q \in Seq(M) : sentinel(q) \in Seq(M)
    <2>1. SUFFICES ASSUME NEW q \in Seq(M), q # <<>> PROVE <<q[Len(q)]>> \in Seq(M)
          BY DEF sentinel
    <2>2. q[Len(q)] \in M  BY <2>1
    <2>3. \A x \in M : <<x>> \in Seq(M)  OBVIOUS
    <2> QED  BY <2>2, <2>3
  <1>4. PublishVersionComplete(v) \in Seq(M)
    <2>1. \A x \in M : <<x>> \in Seq(M)  OBVIOUS
    <2>2. [k |-> "done", ref |-> "", ver |-> v, rooms |-> {}] \in M  BY <1>1, <1>2
    <2> QED  BY <2>1, <2>2 DEF PublishVersionComplete
  <1> QED  BY <1>2, <1>3, <1>4

LEMMA WrittenTyped ==
  ASSUME CrTyped, NEW keep, crPg.stamp < CrMaxVer PROVE written(keep) \in CrRows
  BY CrFields DEF written, CrRows

LEMMA CrStart == CrInit => CrInv
  <1> SUFFICES ASSUME CrInit PROVE CrInv  OBVIOUS
  <1>1. 0 \in 0..CrMaxVer /\ [r \in CrRooms |-> 0] \in CrRows  BY CrAssumption DEF CrRows
  <1>2. crPg \in CrPgs /\ crPg.ver = 0  BY <1>1 DEF CrInit, CrPgs
  <1>3. crJob \in [{"pull", "reload"} -> CrJobs(0)]  BY <1>1 DEF CrInit, CrJobs
  <1>4. crDo \in [{"bus", "join"} -> CrDos(0)]  BY <1>1 DEF CrInit, CrDos, CrHolds
  <1>5. crBus \in [up : BOOLEAN, faults : Nat] /\ crShard \in CrShards(0)
        BY <1>1 DEF CrInit, CrShards
  <1>6. crZone \in CrZones(0) /\ crSnap \in CrSnaps(0)  BY <1>1 DEF CrInit, CrZones, CrSnaps
  <1>7. CrTyped  BY <1>2, <1>3, <1>4, <1>5, <1>6 DEF CrTyped, CrRest
  <1> QED  BY <1>7 DEF CrInit, CrInv, CrCurrent, CrCaughtUp

\* A step that leaves the store, the snapshot and the version heard of alone.
LEMMA CrElsewhere ==
  ASSUME CrInv, CrRest(crPg.ver)', UNCHANGED <<crPg, crSnap>>, crShard'.heard = crShard.heard
  PROVE  CrInv'
  BY DEF CrInv, CrTyped, CrCurrent, CrCaughtUp

(* The publishers. *)
LEMMA CrImportStep == ASSUME CrInv, NEW keep \in SUBSET CrRooms, CrImport(keep) PROVE CrInv'
  <1> DEFINE v == crPg.ver + 1
             n == crPg.stamp + 1
             todo == PublishPack(written(keep), v) \o PublishVersionComplete(v)
  <1>1. /\ v <= CrMaxVer /\ crPg.stamp < CrMaxVer
        /\ crPg' = [ver |-> v, rows |-> written(keep), at |-> n, stamp |-> n]
        /\ crJob' = [crJob EXCEPT !["pull"].todo = todo]
        /\ UNCHANGED <<crBus, crDo, crShard, crZone, crSnap>>
        BY DEF CrImport
  <1>2. CrTyped  BY DEF CrInv
  <1>3. written(keep) \in CrRows  BY <1>1, <1>2, WrittenTyped
  <1>4. v \in Nat /\ v \in 0..CrMaxVer /\ n \in 0..CrMaxVer /\ crPg.ver \in Nat /\ crPg.ver <= v
    <2>1. crPg.ver \in Nat /\ crPg.stamp \in Nat /\ CrMaxVer \in Nat  BY <1>2, CrFields, CrAssumption
    <2> QED  BY <1>1, <2>1
  <1>5. todo \in Seq(CrMsgs(v))
    <2> DEFINE M == CrMsgs(v)
               p == PublishPack(written(keep), v)
               d == PublishVersionComplete(v)
    <2>1. p \in Seq(M) /\ d \in Seq(M)  BY <1>3, <1>4, PackTyped, SentinelTyped
    <2> HIDE DEF M, p, d
    <2>2. p \o d \in Seq(M)  BY <2>1
    <2> QED  BY <2>2 DEF M, p, d
  <1>6. crPg' \in CrPgs /\ crPg'.ver = v  BY <1>1, <1>3, <1>4 DEF CrPgs
  <1> HIDE DEF v, n, todo
  <1>7. CrRest(v)  BY <1>2, <1>4, CrLater DEF CrTyped
  <1>8. crJob' \in [{"pull", "reload"} -> CrJobs(v)]
    <2>1. [crJob["pull"] EXCEPT !.todo = todo] \in CrJobs(v)  BY <1>5, <1>7 DEF CrRest, CrJobs
    <2> QED  BY <1>1, <1>7, <2>1 DEF CrRest
  <1>9. CrTyped'  BY <1>1, <1>6, <1>7, <1>8 DEF CrTyped, CrRest
  <1>10. crSnap.ver # crPg'.ver  BY <1>2, <1>6, CrFields DEF v
  <1>11. crPg'.at <= crPg'.stamp  BY <1>1, <1>2, CrFields DEF n
  <1> QED  BY <1>1, <1>9, <1>10, <1>11 DEF CrInv, CrCurrent, CrCaughtUp

\* An edit in place is one no version was minted for.
LEMMA RepublishRowsStep == ASSUME CrInv, NEW keep \in SUBSET CrRooms, republish(keep) PROVE CrInv'
  <1> DEFINE r == [rows |-> written(keep), todo |-> <<>>, open |-> TRUE]
  <1>1. /\ crPg.stamp < CrMaxVer
        /\ crPg' = [crPg EXCEPT !.rows = written(keep), !.stamp = crPg.stamp + 1]
        /\ crJob' = [crJob EXCEPT !["reload"] = r]
        /\ UNCHANGED <<crBus, crDo, crShard, crZone, crSnap>>
        BY DEF republish
  <1>2. CrTyped  BY DEF CrInv
  <1>3. written(keep) \in CrRows  BY <1>1, <1>2, WrittenTyped
  <1>4. crPg.stamp + 1 \in 0..CrMaxVer  BY <1>1, <1>2, CrFields
  <1>5. /\ crPg' \in CrPgs /\ crPg'.ver = crPg.ver /\ crPg'.at = crPg.at
        /\ crPg'.stamp = crPg.stamp + 1
        BY <1>1, <1>2, <1>3, <1>4, CrFields DEF CrPgs
  <1>6. r \in CrJobs(crPg.ver)  BY <1>3 DEF CrJobs
  <1>7. crJob' \in [{"pull", "reload"} -> CrJobs(crPg.ver)]  BY <1>1, <1>2, <1>6, CrFields
  <1>8. CrTyped'  BY <1>1, <1>2, <1>5, <1>7 DEF CrTyped, CrRest
  <1>9. crPg'.at <= crPg'.stamp /\ crPg'.at # crPg'.stamp
    <2>1. crPg.at <= crPg.stamp  BY DEF CrInv, CrCurrent
    <2> QED  BY <1>2, <1>5, <2>1, CrFields
  <1> QED  BY <1>1, <1>8, <1>9 DEF CrInv, CrCurrent, CrCaughtUp

LEMMA MintReloadStep == ASSUME CrInv, NEW err \in BOOLEAN, mintReloadVersion(err) PROVE CrInv'
  <1> DEFINE v == IF err THEN crPg.ver ELSE crPg.ver + 1
             todo == IF err THEN <<>> ELSE PublishPack(crJob["reload"].rows, crPg.ver + 1)
             r == [rows |-> crJob["pull"].rows, open |-> FALSE, todo |-> todo]
  <1>1. /\ err \/ crPg.ver + 1 <= CrMaxVer
        /\ crPg' = IF err THEN crPg ELSE [crPg EXCEPT !.ver = crPg.ver + 1, !.at = crPg.stamp]
        /\ crJob' = [crJob EXCEPT !["reload"] = r]
        /\ crBus' = Faulted(err) /\ UNCHANGED <<crDo, crShard, crZone, crSnap>>
        BY DEF mintReloadVersion
  <1>2. CrTyped  BY DEF CrInv
  <1>3. v \in Nat /\ crPg.ver \in Nat /\ crPg.ver <= v /\ v \in 0..CrMaxVer  BY <1>1, <1>2, CrFields
  <1>4. CrRest(v)  BY <1>2, <1>3, CrLater DEF CrTyped
  <1>5. crJob["pull"].rows \in CrRows /\ crJob["reload"].rows \in CrRows
        BY <1>4 DEF CrRest, CrJobs
  <1>6. todo \in Seq(CrMsgs(v))
    <2>1. CASE err  BY <2>1
    <2>2. CASE ~err  BY <1>3, <1>5, <2>2, PackTyped
    <2> QED  BY <2>1, <2>2
  <1>7. crPg' \in CrPgs /\ crPg'.ver = v  BY <1>1, <1>2, <1>3, CrFields DEF CrPgs
  <1>8. /\ err => crPg' = crPg
        /\ ~err => crPg'.at = crPg'.stamp /\ crPg'.ver = crPg.ver + 1 /\ crPg'.stamp = crPg.stamp
        BY <1>1, <1>2, CrFields DEF CrPgs
  <1> HIDE DEF v, todo
  <1>9. r \in CrJobs(v)  BY <1>5, <1>6 DEF CrJobs
  <1> HIDE DEF r
  <1>10. crJob' \in [{"pull", "reload"} -> CrJobs(v)]  BY <1>1, <1>4, <1>9 DEF CrRest
  <1>11. crBus' \in [up : BOOLEAN, faults : Nat]  BY <1>1, <1>2, CrFaulted
  <1>12. CrTyped'  BY <1>1, <1>4, <1>7, <1>10, <1>11 DEF CrTyped, CrRest
  <1>13. CrCurrent'
    <2>1. CASE err  BY <1>1, <1>8, <2>1 DEF CrInv, CrCurrent
    <2>2. CASE ~err
      <3>1. crSnap.ver # crPg'.ver  BY <1>2, <1>8, <2>2, CrFields
      <3> QED  BY <1>1, <1>2, <1>8, <2>2, <3>1, CrFields DEF CrCurrent
    <2> QED  BY <2>1, <2>2
  <1> QED  BY <1>1, <1>12, <1>13 DEF CrInv, CrCaughtUp

LEMMA CrPublishStep ==
  ASSUME CrInv, NEW j \in {"pull", "reload"}, NEW err \in BOOLEAN, Publish(j, err) PROVE CrInv'
  <1> DEFINE todo == crJob[j].todo
             rest == IF err THEN sentinel(Tail(todo)) ELSE Tail(todo)
             V == crPg.ver
             M == CrMsgs(V)
             queue == Append(crDo["bus"].todo, Head(todo))
  <1>1. /\ todo # <<>> /\ crBus' = Faulted(err) /\ crJob' = [crJob EXCEPT ![j].todo = rest]
        /\ crDo' = IF crBus.up /\ ~err THEN [crDo EXCEPT !["bus"].todo = queue] ELSE crDo
        /\ UNCHANGED <<crPg, crShard, crZone, crSnap>>
        BY DEF Publish
  <1>2. CrTyped  BY DEF CrInv
  <1>3. V \in Nat /\ crJob[j] \in CrJobs(V) /\ crDo["bus"] \in CrDos(V)  BY <1>2, CrFields
  <1>4. todo \in Seq(M) /\ crDo["bus"].todo \in Seq(M)  BY <1>3 DEF CrJobs, CrDos
  <1>5. Head(todo) \in M /\ Tail(todo) \in Seq(M)
    <2> HIDE DEF M, todo
    <2> QED  BY <1>1, <1>4
  <1>6. rest \in Seq(M)  BY <1>3, <1>5, SentinelTyped
  <1>7. queue \in Seq(M)
    <2> HIDE DEF M, todo
    <2> QED  BY <1>4, <1>5
  <1> HIDE DEF todo, rest, queue
  <1>8. [crJob[j] EXCEPT !.todo = rest] \in CrJobs(V)  BY <1>3, <1>6 DEF CrJobs
  <1>9. [crDo["bus"] EXCEPT !.todo = queue] \in CrDos(V)  BY <1>3, <1>7 DEF CrDos
  <1> HIDE DEF M
  <1>10. crJob' \in [{"pull", "reload"} -> CrJobs(V)]  BY <1>1, <1>2, <1>8, CrFields
  <1>11. crDo' \in [{"bus", "join"} -> CrDos(V)]  BY <1>1, <1>2, <1>9, CrFields
  <1>12. crBus' \in [up : BOOLEAN, faults : Nat]  BY <1>1, <1>2, CrFaulted
  <1>13. CrRest(crPg.ver)'  BY <1>1, <1>2, <1>10, <1>11, <1>12, CrFields DEF CrRest
  <1> QED  BY <1>1, <1>13, CrElsewhere

(* The shard. *)
LEMMA MarkTyped ==
  ASSUME CrTyped
  PROVE  LET S == markContentStale(crSnap)
         IN /\ S \in CrSnaps(crPg.ver) /\ S.stale /\ S.at # "idle" /\ S.ver = crSnap.ver
            /\ S.rows = crSnap.rows
  <1> DEFINE at == IF crSnap.at = "idle" THEN "loop" ELSE crSnap.at
             V == crPg.ver
  <1>1. crSnap \in CrSnaps(V)  BY CrFields
  <1>2. at \in {"idle", "loop", "exit", "read", "store"} /\ at # "idle"  BY <1>1 DEF CrSnaps
  <1>3. markContentStale(crSnap) = [crSnap EXCEPT !.stale = TRUE, !.at = at]
        BY <1>1 DEF markContentStale, CrSnaps
  <1> HIDE DEF at, V
  <1>4. /\ markContentStale(crSnap) \in CrSnaps(V) /\ markContentStale(crSnap).stale
        /\ markContentStale(crSnap).at # "idle" /\ markContentStale(crSnap).ver = crSnap.ver
        /\ markContentStale(crSnap).rows = crSnap.rows
        BY <1>1, <1>2, <1>3 DEF CrSnaps
  <1> QED  BY <1>4 DEF V

\* What was heard of is marked in the same step.
LEMMA CrMarked ==
  ASSUME CrInv, CrRest(crPg.ver)', UNCHANGED crPg, crSnap' = markContentStale(crSnap) PROVE CrInv'
  <1>1. CrTyped  BY DEF CrInv
  <1>2. /\ crSnap'.stale /\ crSnap'.at # "idle" /\ crSnap'.ver = crSnap.ver
        /\ crSnap'.rows = crSnap.rows
        BY <1>1, MarkTyped
  <1> QED  BY <1>2 DEF CrInv, CrTyped, CrCurrent, CrCaughtUp

LEMMA MaxUpTo ==
  \A v \in Nat : \A a, b \in 0..v : max(a, b) \in 0..v
  BY DEF max

LEMMA CrDisconnectStep == ASSUME CrInv, CrDisconnect PROVE CrInv'
  <1>1. CrTyped  BY DEF CrInv
  <1>2. crBus' \in [up : BOOLEAN, faults : Nat]
    <2> DEFINE b == Faulted(TRUE)
    <2>1. b \in [up : BOOLEAN, faults : Nat]  BY <1>1, CrFaulted
    <2>2. crBus' = [b EXCEPT !.up = FALSE]  BY DEF CrDisconnect
    <2> HIDE DEF b
    <2> QED  BY <2>1, <2>2
  <1>3. CrRest(crPg.ver)'  BY <1>1, <1>2 DEF CrDisconnect, CrTyped, CrRest
  <1> QED  BY <1>3, CrElsewhere DEF CrDisconnect

LEMMA ReconcileOnJoinStep == ASSUME CrInv, NEW err \in BOOLEAN, reconcileOnJoin(err) PROVE CrInv'
  <1> DEFINE V == crPg.ver
             pack == PublishPack(crPg.rows, V)
             d == [crDo["join"] EXCEPT !.todo = pack]
             e == [d EXCEPT !.ver = V]
  <1>1. /\ crBus' = [Faulted(err) EXCEPT !.up = TRUE] /\ UNCHANGED <<crPg, crJob, crShard, crZone, crSnap>>
        /\ crDo' = crDo \/ crDo' = [crDo EXCEPT !["join"].todo = pack, !["join"].ver = V]
        BY DEF reconcileOnJoin
  <1>2. CrTyped  BY DEF CrInv
  <1>3. crDo \in [{"bus", "join"} -> CrDos(V)] /\ crPg.rows \in CrRows /\ V \in Nat
        BY <1>2, CrFields
  <1>4. pack \in Seq(CrMsgs(V))  BY <1>3, PackTyped
  <1>5. V \in 0..V  BY <1>3
  <1> HIDE DEF V, pack
  <1>6. d \in CrDos(V)  BY <1>3, <1>4 DEF CrDos
  <1>7. e \in CrDos(V) /\ (crDo' = crDo \/ crDo' = [crDo EXCEPT !["join"] = e])
    <2>1. crDo' = crDo \/ crDo' = [crDo EXCEPT !["join"] = e]  BY <1>1, <1>3
    <2> HIDE DEF d
    <2>2. e \in CrDos(V)  BY <1>5, <1>6 DEF CrDos
    <2> QED  BY <2>1, <2>2
  <1> HIDE DEF e
  <1>8. crDo' \in [{"bus", "join"} -> CrDos(V)]  BY <1>1, <1>3, <1>6, <1>7
  <1>9. crBus' \in [up : BOOLEAN, faults : Nat]
    <2> DEFINE b == Faulted(err)
    <2>1. b \in [up : BOOLEAN, faults : Nat]  BY <1>2, CrFaulted
    <2>2. crBus' = [b EXCEPT !.up = TRUE]  BY <1>1
    <2> HIDE DEF b
    <2> QED  BY <2>1, <2>2
  <1>10. CrRest(crPg.ver)'  BY <1>1, <1>2, <1>8, <1>9 DEF CrTyped, CrRest, V
  <1> QED  BY <1>1, <1>10, CrElsewhere

LEMMA JoinedStep == ASSUME CrInv, joined PROVE CrInv'
  <1> DEFINE V == crPg.ver
             J == crDo["join"]
             a == max(crShard.applied, J.ver)
             h == max(crShard.heard, J.ver)
  <1>1. /\ crShard' = [crShard EXCEPT !.applied = a, !.heard = h]
        /\ crSnap' = markContentStale(crSnap) /\ crDo' = [crDo EXCEPT !["join"].ver = 0]
        /\ UNCHANGED <<crPg, crJob, crBus, crZone>>
        BY DEF joined
  <1>2. CrTyped  BY DEF CrInv
  <1>3. /\ V \in Nat /\ J \in CrDos(V) /\ crShard \in CrShards(V)
        /\ crDo \in [{"bus", "join"} -> CrDos(V)] /\ 0 \in 0..V
        BY <1>2, CrFields
  <1>4. J.ver \in 0..V /\ crShard.applied \in 0..V /\ crShard.heard \in 0..V
        BY <1>3 DEF CrDos, CrShards
  <1>5. a \in 0..V /\ h \in 0..V  BY <1>3, <1>4, MaxUpTo
  <1>6. crSnap' \in CrSnaps(V)  BY <1>1, <1>2, MarkTyped
  <1>7. [J EXCEPT !.ver = 0] \in CrDos(V)  BY <1>3 DEF CrDos
  <1>8. crDo' \in [{"bus", "join"} -> CrDos(V)]  BY <1>1, <1>3, <1>7
  <1> HIDE DEF J, a, h
  <1>9. crShard' \in CrShards(V)  BY <1>1, <1>3, <1>5 DEF CrShards
  <1>10. CrRest(crPg.ver)'  BY <1>1, <1>2, <1>6, <1>8, <1>9 DEF CrTyped, CrRest
  <1> QED  BY <1>1, <1>10, CrMarked

LEMMA SwapStep == ASSUME CrInv, NEW a \in {"bus", "join"}, swap(a) PROVE CrInv'
  <1> DEFINE V == crPg.ver
             h == crDo[a].held
  <1>1. /\ h # <<>> /\ crDo' = [crDo EXCEPT ![a].held = <<>>]
        /\ crShard' = [crShard EXCEPT !.cache = [crShard.cache EXCEPT ![h[1]] = h[2]]]
        /\ UNCHANGED <<crPg, crJob, crBus, crZone, crSnap>>
        BY DEF swap
  <1>2. CrTyped  BY DEF CrInv
  <1>3. /\ crDo[a] \in CrDos(V) /\ crShard \in CrShards(V)
        /\ crDo \in [{"bus", "join"} -> CrDos(V)]
        BY <1>2, CrFields
  <1>4. h[1] \in CrRooms /\ h[2] \in 0..CrMaxVer  BY <1>1, <1>3 DEF CrDos, CrHolds
  <1>5. [crShard.cache EXCEPT ![h[1]] = h[2]] \in CrRows
        BY <1>3, <1>4 DEF CrShards, CrRows
  <1>6. [crDo[a] EXCEPT !.held = <<>>] \in CrDos(V)
    <2>1. <<>> \in CrHolds  BY DEF CrHolds
    <2> QED  BY <1>3, <2>1 DEF CrDos
  <1>7. crDo' \in [{"bus", "join"} -> CrDos(V)]  BY <1>1, <1>3, <1>6
  <1> HIDE DEF h
  <1>8. crShard' \in CrShards(V) /\ crShard'.heard = crShard.heard
        BY <1>1, <1>3, <1>5 DEF CrShards
  <1>9. CrRest(crPg.ver)'  BY <1>1, <1>2, <1>7, <1>8 DEF CrTyped, CrRest
  <1> QED  BY <1>1, <1>8, <1>9, CrElsewhere

LEMMA RetryReconcileStep ==
  ASSUME CrInv, NEW m \in crZone.retry, NEW lost \in BOOLEAN, retryReconcile(m, lost) PROVE CrInv'
  <1> DEFINE V == crPg.ver
             M == CrMsgs(V)
             inbox == IF lost THEN crZone.inbox ELSE Append(crZone.inbox, m)
  <1>1. /\ crZone' = [crZone EXCEPT !.retry = crZone.retry \ {m}, !.inbox = inbox]
        /\ UNCHANGED <<crPg, crJob, crBus, crDo, crShard, crSnap>>
        BY DEF retryReconcile
  <1>2. CrTyped  BY DEF CrInv
  <1>3. crZone \in CrZones(V)  BY <1>2, CrFields
  <1>4. crZone.inbox \in Seq(M) /\ crZone.retry \subseteq M  BY <1>3 DEF CrZones
  <1>5. inbox \in Seq(M)
    <2> HIDE DEF M
    <2> QED  BY <1>4
  <1> HIDE DEF inbox
  <1>6. crZone' \in CrZones(V)  BY <1>1, <1>3, <1>4, <1>5 DEF CrZones
  <1>7. CrRest(crPg.ver)'  BY <1>1, <1>2, <1>6 DEF CrTyped, CrRest
  <1> QED  BY <1>1, <1>7, CrElsewhere

LEMMA OnInvalidationStep ==
  ASSUME CrInv, NEW a \in {"bus", "join"}, NEW full \in BOOLEAN, NEW err \in BOOLEAN,
         onInvalidation(a, full, err)
  PROVE  CrInv'
  <1> DEFINE V == crPg.ver
             M == CrMsgs(V)
             m == Head(crDo[a].todo)
             d == [crDo[a] EXCEPT !.todo = Tail(crDo[a].todo)]
             next == [crDo EXCEPT ![a].todo = Tail(crDo[a].todo)]
             e == [d EXCEPT !.held = <<m.ref, crPg.rows[m.ref]>>]
             applied == max(crShard.applied, m.ver)
             heard == max(crShard.heard, m.ver)
  <1>1. /\ crDo[a].todo # <<>> /\ crBus' = Faulted(full \/ err) /\ UNCHANGED <<crPg, crJob>>
        /\ \/ /\ m.k = "done" /\ crShard' = [crShard EXCEPT !.applied = applied, !.heard = heard]
              /\ crSnap' = markContentStale(crSnap) /\ crDo' = next /\ UNCHANGED crZone
           \/ /\ m.k = "zone" /\ crShard' = [crShard EXCEPT !.heard = heard]
              /\ crSnap' = markContentStale(crSnap) /\ crZone' = post(m, full) /\ crDo' = next
           \/ /\ m.k = "room"
              /\ crDo' = next \/ crDo' = [next EXCEPT ![a].held = <<m.ref, crPg.rows[m.ref]>>]
              /\ UNCHANGED <<crShard, crSnap, crZone>>
        BY DEF onInvalidation
  <1>2. CrTyped  BY DEF CrInv
  <1>3. /\ V \in Nat /\ crDo \in [{"bus", "join"} -> CrDos(V)] /\ crDo[a] \in CrDos(V)
        /\ crShard \in CrShards(V) /\ crZone \in CrZones(V) /\ crPg.rows \in CrRows
        BY <1>2, CrFields
  <1>4. crDo[a].todo \in Seq(M)  BY <1>3 DEF CrDos
  <1>5. m \in M /\ Tail(crDo[a].todo) \in Seq(M)
    <2> HIDE DEF M
    <2> QED  BY <1>1, <1>4
  <1>6. m.ver \in 0..V /\ (m.k = "room" => m.ref \in CrRooms)  BY <1>5 DEF CrMsgs
  <1>7. applied \in 0..V /\ heard \in 0..V
        BY <1>3, <1>6, MaxUpTo DEF CrShards
  <1>8. d \in CrDos(V) /\ next = [crDo EXCEPT ![a] = d]  BY <1>3, <1>5 DEF CrDos
  <1>9. next \in [{"bus", "join"} -> CrDos(V)]  BY <1>3, <1>8
  <1>10. crBus' \in [up : BOOLEAN, faults : Nat]
    <2>1. (full \/ err) \in BOOLEAN  OBVIOUS
    <2> QED  BY <1>1, <1>2, <2>1, CrFaulted
  <1>11. post(m, full) \in CrZones(V)
    <2>1. crZone.inbox \in Seq(M) /\ crZone.retry \subseteq M  BY <1>3 DEF CrZones
    <2> DEFINE inbox == Append(crZone.inbox, m)
               retry == crZone.retry \cup {m}
    <2>2. inbox \in Seq(M) /\ retry \subseteq M
      <3> HIDE DEF M, m
      <3> QED  BY <1>5, <2>1
    <2>3. post(m, full) = IF full THEN [crZone EXCEPT !.retry = retry]
                          ELSE [crZone EXCEPT !.inbox = inbox]
          BY DEF post
    <2> HIDE DEF inbox, retry, m
    <2>4. [crZone EXCEPT !.retry = retry] \in CrZones(V) /\ [crZone EXCEPT !.inbox = inbox] \in CrZones(V)
          BY <1>3, <2>2 DEF CrZones
    <2> QED  BY <2>3, <2>4
  <1>12. CASE m.k = "done"
    <2>1. /\ crShard' = [crShard EXCEPT !.applied = applied, !.heard = heard]
          /\ crSnap' = markContentStale(crSnap) /\ crDo' = next /\ UNCHANGED crZone
          BY <1>1, <1>12
    <2>2. crSnap' \in CrSnaps(V)  BY <1>2, <2>1, MarkTyped
    <2> HIDE DEF applied, heard, next
    <2>3. crShard' \in CrShards(V)  BY <1>3, <1>7, <2>1 DEF CrShards
    <2>4. CrRest(crPg.ver)'  BY <1>1, <1>2, <1>9, <1>10, <2>1, <2>2, <2>3 DEF CrTyped, CrRest
    <2> QED  BY <1>1, <2>1, <2>4, CrMarked
  <1>13. CASE m.k = "zone"
    <2>1. /\ crShard' = [crShard EXCEPT !.heard = heard]
          /\ crSnap' = markContentStale(crSnap) /\ crDo' = next /\ crZone' = post(m, full)
          BY <1>1, <1>13
    <2>2. crSnap' \in CrSnaps(V)  BY <1>2, <2>1, MarkTyped
    <2> HIDE DEF applied, heard, next
    <2>3. crShard' \in CrShards(V)  BY <1>3, <1>7, <2>1 DEF CrShards
    <2>4. CrRest(crPg.ver)'  BY <1>1, <1>2, <1>9, <1>10, <1>11, <2>1, <2>2, <2>3 DEF CrTyped, CrRest
    <2> QED  BY <1>1, <2>1, <2>4, CrMarked
  <1>14. CASE m.k = "room"
    <2>1. /\ crDo' = next \/ crDo' = [next EXCEPT ![a].held = <<m.ref, crPg.rows[m.ref]>>]
          /\ UNCHANGED <<crShard, crSnap, crZone>>
          BY <1>1, <1>14
    <2>2. <<m.ref, crPg.rows[m.ref]>> \in CrHolds
      <3>1. crPg.rows[m.ref] \in 0..CrMaxVer  BY <1>3, <1>6, <1>14 DEF CrRows
      <3> QED  BY <1>6, <1>14, <3>1 DEF CrHolds
    <2>3. e \in CrDos(V)
      <3> HIDE DEF d, m
      <3> QED  BY <1>8, <2>2 DEF CrDos
    <2>4. [next EXCEPT ![a].held = <<m.ref, crPg.rows[m.ref]>>] = [crDo EXCEPT ![a] = e]
      <3> HIDE DEF d, m, next
      <3> QED  BY <1>3, <1>8
    <2> HIDE DEF e, next
    <2>5. crDo' \in [{"bus", "join"} -> CrDos(V)]  BY <1>3, <1>9, <2>1, <2>3, <2>4
    <2>6. CrRest(crPg.ver)'  BY <1>1, <1>2, <1>10, <2>1, <2>5 DEF CrTyped, CrRest
    <2> QED  BY <1>1, <2>1, <2>6, CrElsewhere
  <1> QED  BY <1>1, <1>12, <1>13, <1>14

LEMMA ReconcileZoneStep == ASSUME CrInv, reconcileZone PROVE CrInv'
  <1> DEFINE V == crPg.ver
             M == CrMsgs(V)
             m == Head(crZone.inbox)
             popped == [crZone EXCEPT !.inbox = Tail(crZone.inbox)]
             live == [r \in CrRooms |-> IF r \notin m.rooms THEN 0
                        ELSE IF crShard.cache[r] # 0 THEN crShard.cache[r] ELSE crZone.live[r]]
             cache == [r \in CrRooms |-> IF r \notin m.rooms /\ crZone.live[r] # 0 THEN 0
                                         ELSE crShard.cache[r]]
  <1>1. /\ crZone.inbox # <<>> /\ UNCHANGED <<crPg, crJob, crBus, crDo, crSnap>>
        /\ crZone' = popped \/ crZone' = [popped EXCEPT !.ver = m.ver, !.live = live]
        /\ crShard' = crShard \/ crShard' = [crShard EXCEPT !.cache = cache]
        BY DEF reconcileZone
  <1>2. CrTyped  BY DEF CrInv
  <1>3. /\ crZone \in CrZones(V) /\ crShard \in CrShards(V) /\ CrMaxVer \in Nat
        BY <1>2, CrFields
  <1>4. crZone.inbox \in Seq(M) /\ crZone.live \in CrRows /\ crShard.cache \in CrRows
        BY <1>3 DEF CrZones, CrShards
  <1>5. m \in M /\ Tail(crZone.inbox) \in Seq(M)
    <2> HIDE DEF M
    <2> QED  BY <1>1, <1>4
  <1>6. m.ver \in 0..V  BY <1>5 DEF CrMsgs
  <1>7. live \in CrRows /\ cache \in CrRows  BY <1>3, <1>4 DEF CrRows
  <1>8. popped \in CrZones(V)  BY <1>3, <1>5 DEF CrZones
  <1> HIDE DEF m, popped, live, cache
  <1>9. crZone' \in CrZones(V)  BY <1>1, <1>6, <1>7, <1>8 DEF CrZones
  <1>10. crShard' \in CrShards(V) /\ crShard'.heard = crShard.heard  BY <1>1, <1>3, <1>7 DEF CrShards
  <1>11. CrRest(crPg.ver)'  BY <1>1, <1>2, <1>9, <1>10 DEF CrTyped, CrRest
  <1> QED  BY <1>1, <1>10, <1>11, CrElsewhere

(* The snapshot refresher. *)
LEMMA CrLoopStep == ASSUME CrInv, CrLoop PROVE CrInv'
  <1> DEFINE V == crPg.ver
  <1>1. CrTyped  BY DEF CrInv
  <1>2. crSnap \in CrSnaps(V)  BY <1>1, CrFields
  <1>3. UNCHANGED <<crPg, crJob, crBus, crDo, crShard, crZone>>  BY DEF CrLoop
  <1> HIDE DEF V
  <1>4. /\ crSnap' \in CrSnaps(V) /\ crSnap'.ver = crSnap.ver /\ crSnap'.rows = crSnap.rows
        /\ crSnap'.failed = crSnap.failed
        /\ \/ crSnap'.at = "read"
           \/ crSnap'.at = "exit" /\ ~crSnap'.stale /\ crSnap.at = "loop" /\ ~crSnap.stale
           \/ crSnap'.at = "loop" /\ crSnap'.stale
           \/ crSnap'.at = "idle" /\ ~crSnap'.stale /\ crSnap.at = "exit" /\ ~crSnap.stale
    <2>1. CASE crSnap.at = "loop"
      <3>1. crSnap' = [crSnap EXCEPT !.at = IF crSnap.stale THEN "read" ELSE "exit", !.stale = FALSE]
            BY <2>1 DEF CrLoop
      <3>2. CASE crSnap.stale  BY <1>2, <2>1, <3>1, <3>2 DEF CrSnaps
      <3>3. CASE ~crSnap.stale  BY <1>2, <2>1, <3>1, <3>3 DEF CrSnaps
      <3> QED  BY <3>2, <3>3
    <2>2. CASE crSnap.at = "exit"
      <3>1. crSnap' = [crSnap EXCEPT !.at = IF crSnap.stale THEN "loop" ELSE "idle"]
            BY <2>2 DEF CrLoop, resume
      <3>2. CASE crSnap.stale  BY <1>2, <2>2, <3>1, <3>2 DEF CrSnaps
      <3>3. CASE ~crSnap.stale  BY <1>2, <2>2, <3>1, <3>3 DEF CrSnaps
      <3> QED  BY <3>2, <3>3
    <2> QED  BY <2>1, <2>2 DEF CrLoop
  <1>5. CrTyped'  BY <1>1, <1>3, <1>4 DEF CrTyped, CrRest, V
  <1>6. CrCurrent'  BY <1>3, <1>4 DEF CrInv, CrCurrent
  <1>7. CrCaughtUp'  BY <1>3, <1>4 DEF CrInv, CrCaughtUp
  <1> QED  BY <1>5, <1>6, <1>7 DEF CrInv

LEMMA RefreshSnapshotStep ==
  ASSUME CrInv, NEW fails \in BOOLEAN, refreshContentSnapshot(fails) PROVE CrInv'
  <1> DEFINE V == crPg.ver
             kept == V <= crSnap.ver \/ fails
             before == IF kept THEN 0 ELSE V
             at == IF kept THEN "loop" ELSE "store"
  <1>1. /\ crSnap' = [crSnap EXCEPT !.failed = fails, !.before = before, !.at = at]
        /\ crBus' = Faulted(fails) /\ UNCHANGED <<crPg, crJob, crDo, crShard, crZone>>
        BY DEF refreshContentSnapshot
  <1>2. CrTyped  BY DEF CrInv
  <1>3. /\ crSnap \in CrSnaps(V) /\ V \in Nat /\ crShard.heard \in Nat /\ crShard.heard <= V
        /\ crSnap.ver \in Nat /\ crBus' \in [up : BOOLEAN, faults : Nat]
        BY <1>1, <1>2, CrFields, CrFaulted
  <1>4. before \in 0..V /\ at \in {"loop", "store"}  BY <1>3
  <1>5. /\ at = "loop" => fails \/ crShard.heard <= crSnap.ver
        /\ at = "store" => crShard.heard <= before
        BY <1>3
  <1> HIDE DEF V, before, at
  <1>6. /\ crSnap' \in CrSnaps(V) /\ crSnap'.ver = crSnap.ver /\ crSnap'.rows = crSnap.rows
        /\ crSnap'.failed = fails /\ crSnap'.before = before /\ crSnap'.at = at
        BY <1>1, <1>3, <1>4 DEF CrSnaps
  <1>7. CrTyped'  BY <1>1, <1>2, <1>3, <1>6 DEF CrTyped, CrRest, V
  <1>8. CrCurrent'  BY <1>1, <1>6 DEF CrInv, CrCurrent
  <1>9. CrCaughtUp'  BY <1>1, <1>4, <1>5, <1>6 DEF CrCaughtUp
  <1> QED  BY <1>7, <1>8, <1>9 DEF CrInv

LEMMA SetContentStep == ASSUME CrInv, setContent PROVE CrInv'
  <1> DEFINE V == crPg.ver
             stale == crSnap.stale \/ V # crSnap.before
  <1>1. /\ crSnap.at = "store" /\ UNCHANGED <<crPg, crJob, crBus, crDo, crShard, crZone>>
        /\ crSnap' = [crSnap EXCEPT !.rows = crPg.rows, !.ver = crSnap.before, !.before = 0,
                                    !.at = "loop", !.stale = stale]
        BY DEF setContent
  <1>2. CrTyped  BY DEF CrInv
  <1>3. /\ crSnap \in CrSnaps(V) /\ V \in Nat /\ 0 \in 0..V /\ crPg.rows \in CrRows
        /\ crSnap.before \in 0..V
        BY <1>2, CrFields DEF CrSnaps
  <1>4. stale \in BOOLEAN /\ (~stale => ~crSnap.stale)  BY <1>3 DEF CrSnaps
  <1> HIDE DEF V, stale
  <1>5. /\ crSnap' \in CrSnaps(V) /\ crSnap'.ver = crSnap.before /\ crSnap'.rows = crPg.rows
        /\ crSnap'.at = "loop" /\ crSnap'.stale = stale
        BY <1>1, <1>3, <1>4 DEF CrSnaps
  <1>6. CrTyped'  BY <1>1, <1>2, <1>5 DEF CrTyped, CrRest, V
  <1>7. CrCurrent'  BY <1>1, <1>5 DEF CrInv, CrCurrent
  <1>8. CrCaughtUp'  BY <1>1, <1>4, <1>5 DEF CrInv, CrCaughtUp
  <1> QED  BY <1>6, <1>7, <1>8 DEF CrInv

LEMMA CrNextStep == CrInv /\ [CrNext]_crVars => CrInv'
  <1> SUFFICES ASSUME CrInv, [CrNext]_crVars PROVE CrInv'  OBVIOUS
  <1>1. CASE UNCHANGED crVars
        BY <1>1 DEF crVars, CrInv, CrTyped, CrRest, CrCurrent, CrCaughtUp
  <1>2. CASE \E keep \in SUBSET CrRooms : CrImport(keep) \/ republish(keep)
        BY <1>2, CrImportStep, RepublishRowsStep
  <1>3. CASE CrDisconnect \/ joined \/ reconcileZone \/ CrLoop \/ setContent
        BY <1>3, CrDisconnectStep, JoinedStep, ReconcileZoneStep, CrLoopStep, SetContentStep
  <1>4. CASE \E m \in crZone.retry, lost \in BOOLEAN : retryReconcile(m, lost)
        BY <1>4, RetryReconcileStep
  <1>5. CASE \E a \in {"bus", "join"} : swap(a) \/ \E full, err \in BOOLEAN : onInvalidation(a, full, err)
        BY <1>5, SwapStep, OnInvalidationStep
  <1>6. CASE \E err \in BOOLEAN : \/ mintReloadVersion(err) \/ reconcileOnJoin(err)
                                 \/ refreshContentSnapshot(err)
                                 \/ \E j \in {"pull", "reload"} : Publish(j, err)
        BY <1>6, MintReloadStep, ReconcileOnJoinStep, RefreshSnapshotStep, CrPublishStep
  <1> QED  BY <1>1, <1>2, <1>3, <1>4, <1>5, <1>6 DEF CrNext

LEMMA CrInvSafe == CrInv => ReloadSafe
  <1> SUFFICES ASSUME CrInv PROVE ReloadSafe  OBVIOUS
  <1>1. CrTyped  BY DEF CrInv
  <1>2. CrTypeOK
    <2>1. \A x \in 0..crPg.ver : x \in 0..CrMaxVer  BY <1>1, CrFields
    <2> QED  BY <1>1, <2>1, CrFields DEF CrTypeOK, CrShards, CrZones, CrSnaps
  <1>3. SnapshotSettles
    <2>1. SUFFICES ASSUME crSnap.at = "idle", crShard.heard = crPg.ver, crPg.at = crPg.stamp, ~crSnap.failed
                   PROVE  crSnap.rows = crPg.rows
          BY DEF SnapshotSettles, CrQuiet
    <2>2. crShard.heard <= crSnap.ver  BY <2>1 DEF CrInv, CrCaughtUp
    <2>3. crSnap.ver = crPg.ver  BY <1>1, <2>1, <2>2, CrFields
    <2> QED  BY <2>1, <2>3 DEF CrInv, CrCurrent
  <1> QED  BY <1>2, <1>3 DEF ReloadSafe

\* Once everything is quiet, a shard that has heard of the current version builds new zones from
\* its rows, unless its last read failed or rows were edited since and their reload failed, for
\* any rooms, versions and faults (world/reload.go markContentStale, refreshContentSnapshot).
THEOREM ReloadIsSafe == CrSpec => []ReloadSafe
  <1>1. CrSpec => []CrInv  BY CrStart, CrNextStep, PTL DEF CrSpec
  <1> QED  BY <1>1, CrInvSafe, PTL

-----------------------------------------------------------------------------
(* LuaRuntime: what a call saved is what its caller ran with, all the way down  *)
(* the stack, and the budget of the cascade is the work it has done.           *)

LuTimer == [old : BOOLEAN, durable : BOOLEAN, pending : BOOLEAN]
LuChunk == [src : (Hooks \X Source) \cup {LuNone}, chunk : Versions]

LuContentOK == luSrc \in [LuHooks -> Source] /\ luMine \in Source /\ luPosted \subseteq Defs
LuCodeOK == luChunks \in [Defs -> LuChunk] /\ luMob \in Versions \cup {LuBare, LuDead}
LuBreakersOK == luBreakers \in [Scripts -> Nat]
LuChained ==
  /\ IF luStack = <<>> THEN luInv = LuNone
     ELSE luInv = luStack[Len(luStack)].actor /\ luLogged = luStack[Len(luStack)].own
  /\ \A i \in 1..Len(luStack) :
       /\ i = 1 => luStack[i].inv = LuNone
       /\ i > 1 => luStack[i].inv = luStack[i - 1].actor /\ luStack[i].logs = luStack[i - 1].own
LuCallOK ==
  /\ luStack \in Seq(Frames) /\ Len(luStack) <= LuDepth /\ luInv \in Actors /\ luLogged \in 0..LuLogs
  /\ luInstr \in 0..LuBudget /\ luWork = luInstr /\ LuChained
LuWheelOK == luWheel \in Seq(LuTimer) /\ luLive \in 0..LuTimerCap /\ luLive = Cardinality(Pending)
LuSpawnsOK == luCensus \in 0..LuSpawns /\ luHere \in 0..LuSpawns /\ luHere <= luCensus
LuBoundsOK == luFaults \in 0..LuFaults /\ luCalls \in 0..LuCalls
LuInv ==
  LuContentOK /\ LuCodeOK /\ LuBreakersOK /\ LuCallOK /\ LuWheelOK /\ LuSpawnsOK /\ LuBoundsOK

LEMMA LuNats ==
  /\ LuHooks \subseteq Hooks /\ "register" \in LuHooks
  /\ LuBudget \in Nat /\ LuLogs \in Nat /\ LuSpawns \in Nat /\ LuTimerCap \in Nat /\ LuEdits \in Nat
  /\ LuFaults \in Nat /\ LuCalls \in Nat /\ LuDepth \in Nat /\ LuDepth > 0
  BY LuAssumption

LEMMA LuKeys ==
  ASSUME NEW h \in LuHooks
  PROVE  key(h) \in Defs /\ key(h) \in {"react", "ability", "trigger"} /\ key(h) \in Scripts
  <1>1. h \in Hooks  BY LuNats
  <1>2. key(h) \in {"react", "ability", "trigger"}  BY <1>1 DEF Hooks, key
  <1> QED  BY <1>2 DEF Defs, Scripts

LEMMA LuDefs == Defs \subseteq Scripts /\ "trigger" \in Defs
  <1>1. key("register") = "trigger"  BY DEF key
  <1> QED  BY <1>1, LuKeys, LuNats DEF Defs

LEMMA LuInvSafe == LuInv => LuaSafe
  <1> SUFFICES ASSUME LuInv PROVE LuTypeOK /\ CascadeAccounts  BY DEF LuaSafe
  <1>1. LuTypeOK
    <2>1. luWork \in Nat  BY LuNats DEF LuInv, LuCallOK
    <2> QED  BY <2>1 DEF LuInv, LuContentOK, LuCodeOK, LuBreakersOK, LuCallOK, LuWheelOK, LuSpawnsOK,
                         LuBoundsOK, LuTypeOK, LuTimer, LuChunk
  <1>2. luWork <= LuBudget  BY LuNats DEF LuInv, LuCallOK
  <1>3. IF LuIdle THEN harmCtx = LuNone ELSE harmCtx = LuTop.actor /\ luLogged = LuTop.own
        BY DEF LuInv, LuCallOK, LuChained, LuIdle, harmCtx, LuTop
  <1>4. luLive = Cardinality(Pending)  BY DEF LuInv, LuWheelOK
  <1> QED  BY <1>1, <1>2, <1>3, <1>4 DEF CascadeAccounts

LEMMA LuStart == LuInit => LuInv
  <1> SUFFICES ASSUME LuInit PROVE LuInv  OBVIOUS
  <1>1. LuContentOK
    <2>1. [v |-> 0, q |-> "good"] \in Source  BY LuNats DEF Source, Quality
    <2> QED  BY <2>1 DEF LuInit, LuContentOK
  <1>2. LuCodeOK
    <2>1. Unset \in LuChunk  BY DEF Unset, LuChunk, Versions
    <2> QED  BY <2>1 DEF LuInit, LuCodeOK, Versions
  <1>3. LuBreakersOK  BY DEF LuInit, LuBreakersOK
  <1>4. LuCallOK
    <2>1. <<>> \in Seq(Frames) /\ Len(<<>>) = 0  OBVIOUS
    <2>2. 0 \in 0..LuLogs /\ 0 \in 0..LuBudget /\ 0 <= LuDepth /\ 1..0 = {}  BY LuNats
    <2>3. luStack = <<>> /\ luInv = LuNone /\ luLogged = 0 /\ luInstr = 0 /\ luWork = 0  BY DEF LuInit
    <2> QED  BY <2>1, <2>2, <2>3 DEF LuCallOK, LuChained, Actors
  <1>5. LuWheelOK
    <2>1. luWheel = <<>> /\ luLive = 0  BY DEF LuInit
    <2>2. Pending = {}  BY <2>1 DEF Pending
    <2>3. 0 \in 0..LuTimerCap  BY LuNats
    <2> QED  BY <2>1, <2>2, <2>3, FS_EmptySet DEF LuWheelOK
  <1>6. LuSpawnsOK /\ LuBoundsOK  BY LuNats DEF LuInit, LuSpawnsOK, LuBoundsOK
  <1> QED  BY <1>1, <1>2, <1>3, <1>4, <1>5, <1>6 DEF LuInv

\* What a step leaves alone.
LEMMA LuSame ==
  ASSUME LuInv
  PROVE  /\ UNCHANGED content => LuContentOK'
         /\ UNCHANGED luSrc /\ UNCHANGED luMine /\ luPosted' \subseteq luPosted => LuContentOK'
         /\ UNCHANGED code => LuCodeOK'
         /\ UNCHANGED luBreakers => LuBreakersOK'
         /\ UNCHANGED call => LuCallOK'
         /\ UNCHANGED wheel => LuWheelOK'
         /\ UNCHANGED spawns => LuSpawnsOK'
         /\ UNCHANGED bounds => LuBoundsOK'
  <1>1. UNCHANGED call => LuCallOK'
    <2> SUFFICES ASSUME UNCHANGED call PROVE LuCallOK'  OBVIOUS
    <2>1. UNCHANGED <<luStack, luInv, luLogged, luInstr, luWork>>  BY DEF call
    <2> QED  BY <2>1 DEF LuInv, LuCallOK, LuChained
  <1>2. UNCHANGED wheel => LuWheelOK'  BY DEF wheel, LuInv, LuWheelOK, Pending
  <1>3. /\ UNCHANGED content => LuContentOK'
        /\ UNCHANGED luSrc /\ UNCHANGED luMine /\ luPosted' \subseteq luPosted => LuContentOK'
        BY DEF content, LuInv, LuContentOK
  <1>4. /\ UNCHANGED code => LuCodeOK'
        /\ UNCHANGED luBreakers => LuBreakersOK'
        BY DEF code, LuInv, LuCodeOK, LuBreakersOK
  <1>5. /\ UNCHANGED spawns => LuSpawnsOK'
        /\ UNCHANGED bounds => LuBoundsOK'
        BY DEF spawns, bounds, LuInv, LuSpawnsOK, LuBoundsOK
  <1> QED  BY <1>1, <1>2, <1>3, <1>4, <1>5

(* Timers. *)
LEMMA LuWheelFacts ==
  ASSUME LuInv
  PROVE  /\ luWheel \in Seq(LuTimer) /\ Len(luWheel) \in Nat /\ DOMAIN luWheel = 1..Len(luWheel)
         /\ \A i \in 1..Len(luWheel) : luWheel[i] \in LuTimer
         /\ Pending = {i \in 1..Len(luWheel) : luWheel[i].pending}
         /\ IsFiniteSet(Pending) /\ Cardinality(Pending) \in Nat /\ luLive = Cardinality(Pending)
  <1>1. luWheel \in Seq(LuTimer) /\ luLive = Cardinality(Pending)  BY DEF LuInv, LuWheelOK
  <1>2. Len(luWheel) \in Nat /\ DOMAIN luWheel = 1..Len(luWheel)
        /\ \A i \in 1..Len(luWheel) : luWheel[i] \in LuTimer
        BY <1>1
  <1>3. Pending = {i \in 1..Len(luWheel) : luWheel[i].pending}  BY <1>2 DEF Pending
  <1>4. IsFiniteSet(1..Len(luWheel))  BY <1>2, FS_Interval
  <1>5. Pending \subseteq 1..Len(luWheel)  BY <1>3
  <1>6. IsFiniteSet(Pending) /\ Cardinality(Pending) \in Nat
        BY <1>4, <1>5, FS_Subset, FS_CardinalityType
  <1> QED  BY <1>1, <1>2, <1>3, <1>6

LEMMA LuNextGen ==
  ASSUME LuInv, luWheel' = nextGen \/ luWheel' = luWheel, UNCHANGED luLive
  PROVE  LuWheelOK'
  <1>1. CASE luWheel' = luWheel  BY <1>1 DEF LuInv, LuWheelOK, Pending
  <1>2. CASE luWheel' = nextGen
    <2> DEFINE n == Len(luWheel)
    <2>1. /\ n \in Nat /\ DOMAIN luWheel = 1..n /\ \A i \in 1..n : luWheel[i] \in LuTimer
          /\ Pending = {i \in 1..n : luWheel[i].pending}
          BY LuWheelFacts
    <2> HIDE DEF n
    <2>2. luWheel' = [i \in 1..n |-> [luWheel[i] EXCEPT !.old = TRUE]]  BY <1>2, <2>1 DEF nextGen
    <2>3. \A i \in 1..n : /\ [luWheel[i] EXCEPT !.old = TRUE] \in LuTimer
                          /\ [luWheel[i] EXCEPT !.old = TRUE].pending = luWheel[i].pending
          BY <2>1 DEF LuTimer
    <2>4. luWheel' \in [1..n -> LuTimer]  BY <2>2, <2>3
    <2>5. luWheel' \in Seq(LuTimer)  BY <2>1, <2>4, SeqDef
    <2>6. Pending' = Pending  BY <2>1, <2>2, <2>3 DEF Pending
    <2> QED  BY <2>5, <2>6 DEF LuInv, LuWheelOK
  <1> QED  BY <1>1, <1>2

\* A timer is no longer pending.
LEMMA LuUnpend ==
  ASSUME LuInv, NEW i \in DOMAIN luWheel, luWheel' = [luWheel EXCEPT ![i].pending = FALSE],
         luLive' = IF luWheel[i].pending THEN luLive - 1 ELSE luLive
  PROVE  LuWheelOK'
  <1> DEFINE n == Len(luWheel)
             r == [luWheel[i] EXCEPT !.pending = FALSE]
  <1>1. /\ luWheel \in Seq(LuTimer) /\ n \in Nat /\ DOMAIN luWheel = 1..n
        /\ \A j \in 1..n : luWheel[j] \in LuTimer
        /\ Pending = {j \in 1..n : luWheel[j].pending} /\ IsFiniteSet(Pending)
        /\ Cardinality(Pending) \in Nat /\ luLive = Cardinality(Pending)
        BY LuWheelFacts
  <1>2. i \in 1..n  BY <1>1
  <1>3. r \in LuTimer /\ r.pending = FALSE  BY <1>1, <1>2 DEF LuTimer
  <1>4. luWheel' = [luWheel EXCEPT ![i] = r]  OBVIOUS
  <1> HIDE DEF r
  <1>5. luWheel' \in Seq(LuTimer) /\ Len(luWheel') = n
        /\ \A j \in 1..n : luWheel'[j] = IF j = i THEN r ELSE luWheel[j]
    <2>1. luWheel \in Seq(LuTimer) /\ i \in 1..Len(luWheel) /\ r \in LuTimer  BY <1>1, <1>2, <1>3
    <2>2. /\ [luWheel EXCEPT ![i] = r] \in Seq(LuTimer)
          /\ Len([luWheel EXCEPT ![i] = r]) = Len(luWheel)
          /\ \A j \in 1..Len(luWheel) : [luWheel EXCEPT ![i] = r][j] = IF j = i THEN r ELSE luWheel[j]
          BY <2>1, ExceptSeq
    <2> QED  BY <1>4, <2>2
  <1>6. DOMAIN luWheel' = 1..n  BY <1>5
  <1>7. Pending' = Pending \ {i}  BY <1>1, <1>3, <1>5, <1>6 DEF Pending
  <1>8. luLive \in 0..LuTimerCap  BY DEF LuInv, LuWheelOK
  <1>9. CASE luWheel[i].pending
    <2>1. i \in Pending  BY <1>1, <1>2, <1>9
    <2>2. Cardinality(Pending \ {i}) = Cardinality(Pending) - 1 /\ Cardinality(Pending) > 0
      <3>1. IsFiniteSet(Pending \ {i}) /\ Cardinality(Pending \ {i}) = Cardinality(Pending) - 1
            BY <1>1, <2>1, FS_RemoveElement
      <3>2. Cardinality(Pending \ {i}) \in Nat  BY <3>1, FS_CardinalityType
      <3> QED  BY <1>1, <3>1, <3>2
    <2>3. Cardinality(Pending') = luLive - 1  BY <1>1, <1>7, <2>2
    <2>4. luLive' = luLive - 1  BY <1>9
    <2>5. luLive' \in 0..LuTimerCap  BY <1>1, <1>8, <2>2, <2>4, LuNats
    <2> QED  BY <1>5, <2>3, <2>4, <2>5 DEF LuWheelOK
  <1>10. CASE ~luWheel[i].pending
    <2>1. Pending' = Pending  BY <1>1, <1>7, <1>10
    <2> QED  BY <1>1, <1>5, <1>8, <1>10, <2>1 DEF LuWheelOK
  <1> QED  BY <1>9, <1>10

LEMMA LuPend ==
  ASSUME LuInv, NEW d \in BOOLEAN, luLive < LuTimerCap, luLive' = luLive + 1,
         luWheel' = Append(luWheel, [old |-> FALSE, durable |-> d, pending |-> TRUE])
  PROVE  LuWheelOK'
  <1> DEFINE n == Len(luWheel)
             r == [old |-> FALSE, durable |-> d, pending |-> TRUE]
  <1>1. /\ luWheel \in Seq(LuTimer) /\ n \in Nat /\ DOMAIN luWheel = 1..n
        /\ Pending = {j \in 1..n : luWheel[j].pending} /\ IsFiniteSet(Pending)
        /\ Cardinality(Pending) \in Nat /\ luLive = Cardinality(Pending)
        BY LuWheelFacts
  <1>2. r \in LuTimer /\ r.pending  BY DEF LuTimer
  <1> HIDE DEF r
  <1>3. luWheel' = Append(luWheel, r)  BY DEF r
  <1>4. /\ luWheel' \in Seq(LuTimer) /\ Len(luWheel') = n + 1
        /\ \A j \in 1..n : luWheel'[j] = luWheel[j]
        /\ luWheel'[n + 1] = r
        BY <1>1, <1>2, <1>3, AppendProperties
  <1>5. DOMAIN luWheel' = 1..(n + 1)  BY <1>4
  <1>6. 1..(n + 1) = (1..n) \cup {n + 1} /\ n + 1 \notin 1..n  BY <1>1
  <1> HIDE DEF n
  <1>7. Pending' = Pending \cup {n + 1} /\ n + 1 \notin Pending
        BY <1>1, <1>2, <1>4, <1>5, <1>6 DEF Pending
  <1>8. Cardinality(Pending \cup {n + 1}) = Cardinality(Pending) + 1  BY <1>1, <1>7, FS_AddElement
  <1>9. luLive' \in 0..LuTimerCap  BY <1>1, LuNats
  <1> QED  BY <1>1, <1>4, <1>7, <1>8, <1>9 DEF LuWheelOK

(* Calls. *)
LEMMA LuStackFacts ==
  ASSUME LuInv
  PROVE  /\ luStack \in Seq(Frames) /\ Len(luStack) \in Nat /\ Len(luStack) <= LuDepth
         /\ \A i \in 1..Len(luStack) : luStack[i] \in Frames
         /\ luStack # <<>> => Len(luStack) \in 1..Len(luStack)
         /\ luInv \in Actors /\ luLogged \in 0..LuLogs /\ luInstr \in 0..LuBudget /\ luWork = luInstr
         /\ LuChained
  <1>1. luStack \in Seq(Frames)  BY DEF LuInv, LuCallOK
  <1>2. Len(luStack) \in Nat /\ (luStack # <<>> => Len(luStack) > 0)
        /\ \A i \in 1..Len(luStack) : luStack[i] \in Frames
        BY <1>1
  <1> QED  BY <1>1, <1>2 DEF LuInv, LuCallOK

\* A call is entered: the frame saves what its caller ran with.
LEMMA LuEnter ==
  ASSUME LuInv, NEW f \in Frames, f.inv = luInv, f.logs = luLogged, f.own = 0,
         Len(luStack) < LuDepth, luStack' = Append(luStack, f), luLogged' = 0, luInv' = f.actor,
         luInstr' = IF freshBudget THEN 0 ELSE luInstr, luWork' = IF LuIdle THEN 0 ELSE luWork
  PROVE  LuCallOK'
  <1> DEFINE n == Len(luStack)
  <1>1. /\ luStack \in Seq(Frames) /\ n \in Nat /\ (luStack # <<>> => n \in 1..n)
        /\ luInv \in Actors /\ luLogged \in 0..LuLogs /\ luInstr \in 0..LuBudget /\ luWork = luInstr
        /\ LuChained /\ LuDepth \in Nat /\ (luStack = <<>> => n = 0)
        BY LuStackFacts, LuNats
  <1>2. /\ luStack' \in Seq(Frames) /\ luStack' # <<>> /\ Len(luStack') = n + 1
        /\ \A i \in 1..n : luStack'[i] = luStack[i]
        /\ luStack'[n + 1] = f
        BY <1>1, AppendProperties
  <1>3. luInv' \in Actors /\ luLogged' \in 0..LuLogs  BY <1>1, LuNats DEF Frames
  <1>4. luInstr' \in 0..LuBudget /\ luWork' = luInstr'  BY <1>1, LuNats DEF freshBudget, nested
  <1>5. luInv' = luStack'[Len(luStack')].actor /\ luLogged' = luStack'[Len(luStack')].own
        BY <1>2
  <1>6. ASSUME NEW i \in 1..(n + 1)
        PROVE  /\ i = 1 => luStack'[i].inv = LuNone
               /\ i > 1 => luStack'[i].inv = luStack'[i - 1].actor /\ luStack'[i].logs = luStack'[i - 1].own
    <2>1. CASE i \in 1..n
      <3>1. i > 1 => i - 1 \in 1..n  BY <1>1, <2>1
      <3>2. luStack'[i] = luStack[i] /\ (i > 1 => luStack'[i - 1] = luStack[i - 1])  BY <1>2, <2>1, <3>1
      <3> QED  BY <1>1, <2>1, <3>2 DEF LuChained
    <2>2. CASE i = n + 1
      <3>1. luStack'[i] = f  BY <1>2, <2>2
      <3>2. CASE luStack = <<>>
        <4>1. i = 1  BY <1>1, <2>2, <3>2
        <4>2. luInv = LuNone  BY <1>1, <3>2 DEF LuChained
        <4> QED  BY <3>1, <4>1, <4>2
      <3>3. CASE luStack # <<>>
        <4>1. n \in 1..n /\ i - 1 = n /\ i # 1  BY <1>1, <2>2, <3>3
        <4>2. luStack'[i - 1] = luStack[n]  BY <1>2, <4>1
        <4>3. luInv = luStack[n].actor /\ luLogged = luStack[n].own  BY <1>1, <3>3 DEF LuChained
        <4> QED  BY <3>1, <4>1, <4>2, <4>3
      <3> QED  BY <3>2, <3>3
    <2>3. i \in 1..n \/ i = n + 1  BY <1>1
    <2> QED  BY <2>1, <2>2, <2>3
  <1>7. LuChained'  BY <1>2, <1>5, <1>6 DEF LuChained
  <1>8. Len(luStack') <= LuDepth  BY <1>1, <1>2
  <1> QED  BY <1>2, <1>3, <1>4, <1>7, <1>8 DEF LuCallOK

LEMMA LuCalls1 ==
  ASSUME LuInv, NEW k \in {"chunk", "handler", "timer"}, NEW s \in Scripts, NEW a \in Actors,
         NEW v \in 0..LuEdits, NEW t \in BOOLEAN, Len(luStack) < LuDepth,
         pcallGuarded(frame(k, s, a, v, t)), luInv' = a
  PROVE  LuCallOK'
  <1> DEFINE f == frame(k, s, a, v, t)
  <1>1. luInv \in Actors /\ luLogged \in 0..LuLogs /\ 0 \in 0..LuLogs  BY LuStackFacts, LuNats
  <1>2. f \in Frames  BY <1>1 DEF frame, Frames
  <1>3. f.inv = luInv /\ f.logs = luLogged /\ f.own = 0 /\ f.actor = a  BY DEF frame
  <1>4. /\ luStack' = Append(luStack, f) /\ luLogged' = 0
        /\ luInstr' = IF freshBudget THEN 0 ELSE luInstr
        /\ luWork' = IF LuIdle THEN 0 ELSE luWork
        BY DEF pcallGuarded
  <1> HIDE DEF f
  <1> QED  BY <1>2, <1>3, <1>4, LuEnter

LEMMA LuCalls2 ==
  ASSUME LuInv, NEW s \in Scripts, NEW a \in Actors, NEW v \in 0..LuEdits, NEW t \in BOOLEAN,
         Len(luStack) < LuDepth, invoke(s, a, v, t)
  PROVE  LuCallOK'
  BY LuCalls1 DEF invoke

\* The innermost call ends.
LEMMA LuPopped ==
  ASSUME LuInv, ~LuIdle
  PROVE  /\ LuTop \in Frames /\ Below \in Seq(Frames) /\ Len(Below) = Len(luStack) - 1
         /\ \A i \in 1..Len(Below) : Below[i] = luStack[i]
         /\ (Below = <<>>) = (Len(luStack) = 1)
         /\ (Below = <<>> => LuTop.inv = LuNone)
         /\ (Below # <<>> => /\ LuTop.inv = Below[Len(Below)].actor
                             /\ LuTop.logs = Below[Len(Below)].own)
  <1> DEFINE n == Len(luStack)
  <1>1. luStack \in Seq(Frames) /\ n \in Nat /\ n \in 1..n /\ LuChained
        BY LuStackFacts DEF LuIdle
  <1>2. LuTop = luStack[n] /\ LuTop \in Frames  BY <1>1, LuStackFacts DEF LuTop
  <1>3. \A i \in 1..(n - 1) : luStack[i] \in Frames  BY <1>1, LuStackFacts
  <1>4. /\ Below \in Seq(Frames)
        /\ Len(Below) = IF 1 <= n - 1 THEN n - 1 - 1 + 1 ELSE 0
        /\ \A i \in 1..(n - 1 - 1 + 1) : Below[i] = luStack[1 + i - 1]
    <2>1. 1 \in Int /\ n - 1 \in Int  BY <1>1
    <2>2. Below = SubSeq(luStack, 1, n - 1)  BY DEF Below
    <2> HIDE DEF n
    <2>3. /\ SubSeq(luStack, 1, n - 1) \in Seq(Frames)
          /\ Len(SubSeq(luStack, 1, n - 1)) = IF 1 <= n - 1 THEN n - 1 - 1 + 1 ELSE 0
          /\ \A i \in 1..(n - 1 - 1 + 1) : SubSeq(luStack, 1, n - 1)[i] = luStack[1 + i - 1]
          BY <1>3, <2>1, SubSeqProperties
    <2> QED  BY <2>2, <2>3
  <1>5. Len(Below) = n - 1
    <2>1. n \in Nat /\ n >= 1  BY <1>1
    <2> HIDE DEF n
    <2>2. CASE n = 1  BY <1>4, <2>2
    <2>3. CASE n # 1
      <3>1. 1 <= n - 1 /\ n - 1 - 1 + 1 = n - 1  BY <2>1, <2>3
      <3> QED  BY <1>4, <3>1
    <2> QED  BY <2>2, <2>3
  <1>6. \A i \in 1..(n - 1) : Below[i] = luStack[i]
    <2>1. n - 1 - 1 + 1 = n - 1  BY <1>1
    <2>2. \A i \in 1..(n - 1) : 1 + i - 1 = i  BY <1>1
    <2> QED  BY <1>4, <2>1, <2>2
  <1>7. (Below = <<>>) = (n = 1)
    <2>1. (Below = <<>>) <=> (Len(Below) = 0)  BY <1>4
    <2> QED  BY <1>1, <1>5, <2>1
  <1>8. Below = <<>> => LuTop.inv = LuNone  BY <1>1, <1>2, <1>7 DEF LuChained
  <1>9. ASSUME Below # <<>>
        PROVE  LuTop.inv = Below[Len(Below)].actor /\ LuTop.logs = Below[Len(Below)].own
    <2>1. n > 1 /\ n - 1 \in 1..(n - 1)
      <3>1. n # 1  BY <1>7, <1>9
      <3>2. n \in Nat /\ n >= 1  BY <1>1
      <3> HIDE DEF n
      <3> QED  BY <3>1, <3>2
    <2>2. Below[Len(Below)] = luStack[n - 1]  BY <1>5, <1>6, <2>1
    <2> QED  BY <1>1, <1>2, <2>1, <2>2 DEF LuChained
  <1> QED  BY <1>2, <1>4, <1>5, <1>6, <1>7, <1>8, <1>9

LEMMA LuBelowChained ==
  ASSUME LuInv, ~LuIdle, NEW i \in 1..Len(Below)
  PROVE  /\ i = 1 => Below[i].inv = LuNone
         /\ i > 1 => Below[i].inv = Below[i - 1].actor /\ Below[i].logs = Below[i - 1].own
  <1>1. /\ Len(luStack) \in Nat /\ Len(Below) = Len(luStack) - 1
        /\ \A j \in 1..Len(Below) : Below[j] = luStack[j]
        BY LuPopped, LuStackFacts
  <1>2. i \in 1..Len(luStack) /\ (i > 1 => i - 1 \in 1..Len(Below))  BY <1>1
  <1>3. Below[i] = luStack[i] /\ (i > 1 => Below[i - 1] = luStack[i - 1])  BY <1>1, <1>2
  <1>4. LuChained  BY LuStackFacts
  <1> QED  BY <1>2, <1>3, <1>4 DEF LuChained

LEMMA LuReturn ==
  ASSUME LuInv, ~LuIdle, returned(LuTop), UNCHANGED <<luInstr, luWork>>
  PROVE  LuCallOK'
  <1>1. luInv' = LuTop.inv /\ luLogged' = LuTop.logs /\ luStack' = Below  BY DEF returned
  <1>2. /\ LuTop \in Frames /\ Below \in Seq(Frames) /\ Len(Below) = Len(luStack) - 1
        /\ (Below = <<>> => LuTop.inv = LuNone)
        /\ (Below # <<>> => /\ LuTop.inv = Below[Len(Below)].actor
                            /\ LuTop.logs = Below[Len(Below)].own)
        BY LuPopped
  <1>3. /\ Len(luStack) \in Nat /\ Len(luStack) <= LuDepth /\ luInstr \in 0..LuBudget /\ luWork = luInstr
        BY LuStackFacts
  <1>4. LuTop.inv \in Actors /\ LuTop.logs \in 0..LuLogs  BY <1>2 DEF Frames
  <1>5. LuChained'
    <2>1. IF luStack' = <<>> THEN luInv' = LuNone
          ELSE luInv' = luStack'[Len(luStack')].actor /\ luLogged' = luStack'[Len(luStack')].own
          BY <1>1, <1>2
    <2>2. \A i \in 1..Len(luStack') :
            /\ i = 1 => luStack'[i].inv = LuNone
            /\ i > 1 => luStack'[i].inv = luStack'[i - 1].actor /\ luStack'[i].logs = luStack'[i - 1].own
          BY <1>1, LuBelowChained
    <2> QED  BY <2>1, <2>2 DEF LuChained
  <1>6. Len(luStack') <= LuDepth  BY <1>1, <1>2, <1>3, LuNats
  <1> QED  BY <1>1, <1>2, <1>3, <1>4, <1>5, <1>6 DEF LuCallOK

\* The handler a registering call was for takes its place.
LEMMA LuThen ==
  ASSUME LuInv, ~LuIdle, NEW f \in Frames, f.inv = LuTop.inv, f.logs = LuTop.logs, f.own = 0,
         luStack' = Append(Below, f), luInv' = f.actor, luLogged' = 0,
         luInstr' = IF Below = <<>> THEN 0 ELSE luInstr,
         luWork' = IF Below = <<>> THEN 0 ELSE luWork
  PROVE  LuCallOK'
  <1> DEFINE n == Len(Below)
  <1>1. /\ Below \in Seq(Frames) /\ n = Len(luStack) - 1
        /\ (Below = <<>> => LuTop.inv = LuNone)
        /\ (Below # <<>> => LuTop.inv = Below[n].actor /\ LuTop.logs = Below[n].own)
        BY LuPopped
  <1>2. /\ Len(luStack) \in Nat /\ Len(luStack) <= LuDepth /\ luInstr \in 0..LuBudget /\ luWork = luInstr
        BY LuStackFacts
  <1>3. n \in Nat /\ (Below = <<>> => n = 0) /\ (Below # <<>> => n \in 1..n)  BY <1>1
  <1>4. /\ luStack' \in Seq(Frames) /\ luStack' # <<>> /\ Len(luStack') = n + 1
        /\ \A i \in 1..n : luStack'[i] = Below[i]
        /\ luStack'[n + 1] = f
        BY <1>1, AppendProperties
  <1>5. luInv' \in Actors /\ luLogged' \in 0..LuLogs  BY LuNats DEF Frames
  <1>6. luInstr' \in 0..LuBudget /\ luWork' = luInstr'  BY <1>2, LuNats
  <1>7. luInv' = luStack'[Len(luStack')].actor /\ luLogged' = luStack'[Len(luStack')].own
        BY <1>4
  <1>8. ASSUME NEW i \in 1..(n + 1)
        PROVE  /\ i = 1 => luStack'[i].inv = LuNone
               /\ i > 1 => luStack'[i].inv = luStack'[i - 1].actor /\ luStack'[i].logs = luStack'[i - 1].own
    <2>1. CASE i \in 1..n
      <3>1. i > 1 => i - 1 \in 1..n  BY <1>3, <2>1
      <3>2. luStack'[i] = Below[i] /\ (i > 1 => luStack'[i - 1] = Below[i - 1])  BY <1>4, <2>1, <3>1
      <3> QED  BY <2>1, <3>2, LuBelowChained
    <2>2. CASE i = n + 1
      <3>1. luStack'[i] = f  BY <1>4, <2>2
      <3>2. CASE Below = <<>>
        <4>1. i = 1  BY <1>3, <2>2, <3>2
        <4> QED  BY <1>1, <3>1, <3>2, <4>1
      <3>3. CASE Below # <<>>
        <4>1. n \in 1..n /\ i - 1 = n /\ i # 1  BY <1>3, <2>2, <3>3
        <4>2. luStack'[i - 1] = Below[n]  BY <1>4, <4>1
        <4> QED  BY <1>1, <3>1, <3>3, <4>1, <4>2
      <3> QED  BY <3>2, <3>3
    <2>3. i \in 1..n \/ i = n + 1  BY <1>3
    <2> QED  BY <2>1, <2>2, <2>3
  <1>9. LuChained'  BY <1>4, <1>7, <1>8 DEF LuChained
  <1>10. Len(luStack') <= LuDepth  BY <1>1, <1>2, <1>3, <1>4
  <1> QED  BY <1>4, <1>5, <1>6, <1>9, <1>10 DEF LuCallOK

LEMMA LuBreakerTyped ==
  ASSUME LuInv, NEW s \in Scripts, NEW k \in {"ok", "logic", "budget", "deadline"}
  PROVE  breakerRecord(s, k) \in [Scripts -> Nat]
  <1>1. luBreakers \in [Scripts -> Nat]  BY DEF LuInv, LuBreakersOK
  <1>2. luBreakers[s] \in Nat  BY <1>1
  <1>3. CASE k = "ok"
    <2>1. (IF luBreakers[s] > 10 THEN luBreakers[s] - 10 ELSE 0) \in Nat  BY <1>2
    <2> QED  BY <1>1, <1>3, <2>1 DEF breakerRecord
  <1>4. CASE k # "ok"
    <2>1. weight(k) \in Nat  BY <1>4 DEF weight
    <2>2. luBreakers[s] + weight(k) \in Nat  BY <1>2, <2>1
    <2> QED  BY <1>1, <1>4, <2>2 DEF breakerRecord
  <1> QED  BY <1>3, <1>4

LEMMA LuLeaveKeeps ==
  ASSUME LuInv, NEW k \in {"ok", "logic", "budget", "deadline"}, Leave(k) PROVE LuInv'
  <1>1. ~LuIdle /\ UNCHANGED <<content, code, wheel, spawns, luCalls>>  BY DEF Leave
  <1>2. LuTop \in Frames  BY <1>1, LuPopped
  <1>3. LuBreakersOK'
    <2>1. luBreakers' = breakerRecord(LuTop.script, k)  BY DEF Leave
    <2>2. LuTop.script \in Scripts  BY <1>2 DEF Frames
    <2> QED  BY <2>1, <2>2, LuBreakerTyped DEF LuBreakersOK
  <1>4. LuBoundsOK'
    <2>1. /\ k # "ok" => luFaults < LuFaults
          /\ luFaults' = IF k = "ok" THEN luFaults ELSE luFaults + 1
          BY DEF Leave
    <2>2. luFaults \in 0..LuFaults /\ luCalls \in 0..LuCalls  BY DEF LuInv, LuBoundsOK
    <2> QED  BY <1>1, <2>1, <2>2, LuNats DEF LuBoundsOK
  <1>5. LuCallOK'
    <2> DEFINE f == [frame("handler", "instance", "mob", luMob, FALSE) EXCEPT !.logs = LuTop.logs, !.inv = LuTop.inv]
    <2>1. CASE LuTop.then /\ luMob \in 0..LuEdits /\ luBreakers["instance"] < LuTrip
      <3>1. /\ luStack' = Append(Below, f) /\ luInv' = "mob" /\ luLogged' = 0
            /\ luInstr' = IF Below = <<>> THEN 0 ELSE luInstr
            /\ luWork' = IF Below = <<>> THEN 0 ELSE luWork
            BY <2>1 DEF Leave
      <3>2. LuTop.logs \in 0..LuLogs /\ LuTop.inv \in Actors /\ 0 \in 0..LuLogs
            BY <1>2, LuNats DEF Frames
      <3>3. /\ frame("handler", "instance", "mob", luMob, FALSE) \in Frames
            /\ frame("handler", "instance", "mob", luMob, FALSE).own = 0
            /\ frame("handler", "instance", "mob", luMob, FALSE).actor = "mob"
        <4>1. luLogged \in 0..LuLogs /\ luInv \in Actors /\ 0 \in 0..LuLogs
              BY LuNats DEF LuInv, LuCallOK
        <4>2. luMob \in 0..LuEdits /\ "mob" \in Actors /\ "instance" \in Scripts
              BY <2>1 DEF Actors, Scripts
        <4> QED  BY <4>1, <4>2 DEF frame, Frames
      <3>4. f \in Frames /\ f.inv = LuTop.inv /\ f.logs = LuTop.logs /\ f.own = 0 /\ f.actor = "mob"
            BY <3>2, <3>3 DEF Frames
      <3> HIDE DEF f
      <3> QED  BY <1>1, <3>1, <3>4, LuThen
    <2>2. CASE ~(LuTop.then /\ luMob \in 0..LuEdits /\ luBreakers["instance"] < LuTrip)
      <3>1. returned(LuTop) /\ UNCHANGED <<luInstr, luWork>>  BY <2>2 DEF Leave
      <3> QED  BY <1>1, <3>1, LuReturn
    <2> QED  BY <2>1, <2>2
  <1> QED  BY <1>1, <1>3, <1>4, <1>5, LuSame DEF LuInv

(* Compiling. *)
LEMMA LuCompiled ==
  ASSUME LuInv, NEW h \in LuHooks, NEW s \in Source
  PROVE  /\ compiled(key(h), h, s) \in LuChunk
         /\ compiled(key(h), h, s).chunk # LuNone => compiled(key(h), h, s).chunk \in 0..LuEdits
  <1> DEFINE e == luChunks[key(h)]
             new == [src |-> <<h, s>>, chunk |-> IF s.q = "good" THEN s.v ELSE LuNone]
  <1>1. e \in LuChunk
    <2>1. key(h) \in Defs  BY LuKeys
    <2> QED  BY <2>1 DEF LuInv, LuCodeOK
  <1>2. h \in Hooks /\ s.v \in 0..LuEdits  BY LuNats DEF Source
  <1>3. new \in LuChunk  BY <1>2 DEF LuChunk, Versions
  <1>4. [e EXCEPT !.src = <<h, s>>] \in LuChunk  BY <1>1, <1>2 DEF LuChunk
  <1>5. compiled(key(h), h, s) \in {e, [e EXCEPT !.src = <<h, s>>], new}  BY DEF compiled
  <1>6. compiled(key(h), h, s) \in LuChunk  BY <1>1, <1>3, <1>4, <1>5
  <1> QED  BY <1>6 DEF LuChunk, Versions

LEMMA LuChunkFor ==
  ASSUME LuInv, NEW h \in LuHooks, NEW s \in Source, chunkFor(key(h), h, s)
  PROVE  LuBreakersOK' /\ LuWheelOK' /\ luChunks' \in [Defs -> LuChunk]
  <1>1. luChunks' \in [Defs -> LuChunk]
    <2>1. luChunks' = [luChunks EXCEPT ![key(h)] = compiled(key(h), h, s)]  BY DEF chunkFor
    <2>2. luChunks \in [Defs -> LuChunk]  BY DEF LuInv, LuCodeOK
    <2> QED  BY <2>1, <2>2, LuCompiled
  <1>2. LuWheelOK'
    <2>1. (luWheel' = nextGen \/ luWheel' = luWheel) /\ UNCHANGED luLive  BY DEF chunkFor
    <2> QED  BY <2>1, LuNextGen
  <1>3. LuBreakersOK'
    <2>1. luBreakers' = luBreakers \/ luBreakers' = [luBreakers EXCEPT ![key(h)] = 0]
          BY DEF chunkFor, breakerReset
    <2>2. luBreakers \in [Scripts -> Nat] /\ 0 \in Nat  BY DEF LuInv, LuBreakersOK
    <2> QED  BY <2>1, <2>2 DEF LuBreakersOK
  <1> QED  BY <1>1, <1>2, <1>3

LEMMA LuDeeper == ASSUME LuInv, Deeper PROVE LuBoundsOK' /\ Len(luStack) < LuDepth
  BY LuNats DEF LuInv, LuBoundsOK, Deeper

LEMMA LuInvokeHook == ASSUME LuInv, NEW h \in LuHooks, h # "register", invokeHook(h) PROVE LuInv'
  <1>1. luSrc[h] \in Source  BY DEF LuInv, LuContentOK
  <1>2. /\ Deeper /\ chunkFor(key(h), h, luSrc[h]) /\ UNCHANGED <<content, luMob, spawns>>
        BY DEF invokeHook
  <1>3. LuBreakersOK' /\ LuWheelOK' /\ luChunks' \in [Defs -> LuChunk]  BY <1>1, <1>2, LuChunkFor
  <1>4. LuCodeOK'  BY <1>2, <1>3 DEF LuInv, LuCodeOK
  <1>5. LuBoundsOK' /\ Len(luStack) < LuDepth  BY <1>2, LuDeeper
  <1>6. LuCallOK'
    <2>1. CASE runs(key(h), h, luSrc[h])
      <3>1. invoke(key(h), actorOf(h), compiled(key(h), h, luSrc[h]).chunk, FALSE)
            BY <2>1 DEF invokeHook
      <3>2. compiled(key(h), h, luSrc[h]).chunk \in 0..LuEdits
            BY <1>1, <2>1, LuCompiled DEF runs
      <3>3. key(h) \in Scripts /\ actorOf(h) \in Actors  BY LuKeys DEF actorOf, Actors
      <3> QED  BY <1>5, <3>1, <3>2, <3>3, LuCalls2
    <2>2. CASE ~runs(key(h), h, luSrc[h])  BY <2>2, LuSame DEF invokeHook
    <2> QED  BY <2>1, <2>2
  <1> QED  BY <1>2, <1>3, <1>4, <1>5, <1>6, LuSame DEF LuInv

LEMMA LuFireTrigger == ASSUME LuInv, fireTrigger PROVE LuInv'
  <1>1. Deeper /\ luMob # LuDead  BY DEF fireTrigger
  <1>2. LuBoundsOK' /\ Len(luStack) < LuDepth  BY <1>1, LuDeeper
  <1>3. CASE luMob = LuNone /\ luMine.q # "empty" /\ registerFrom(luMine, TRUE) /\ UNCHANGED <<content, spawns>>
    <2>1. luMine \in Source /\ "register" \in LuHooks /\ key("register") = "trigger"
          BY LuNats DEF LuInv, LuContentOK, key
    <2>2. chunkFor("trigger", "register", luMine) /\ luMob' = LuBare  BY <1>3 DEF registerFrom
    <2>3. LuBreakersOK' /\ LuWheelOK' /\ luChunks' \in [Defs -> LuChunk]  BY <2>1, <2>2, LuChunkFor
    <2>4. LuCodeOK'  BY <2>2, <2>3 DEF LuCodeOK
    <2>5. LuCallOK'
      <3>1. CASE runs("trigger", "register", luMine)
        <4>1. invoke("trigger", "mob", compiled("trigger", "register", luMine).chunk, TRUE)
              BY <1>3, <3>1 DEF registerFrom
        <4>2. compiled("trigger", "register", luMine).chunk \in 0..LuEdits
              BY <2>1, <3>1, LuCompiled DEF runs
        <4>3. "trigger" \in Scripts /\ "mob" \in Actors  BY DEF Scripts, Actors
        <4> QED  BY <1>2, <4>1, <4>2, <4>3, LuCalls2
      <3>2. CASE ~runs("trigger", "register", luMine)  BY <1>3, <3>2, LuSame DEF registerFrom
      <3> QED  BY <3>1, <3>2
    <2> QED  BY <1>2, <1>3, <2>3, <2>4, <2>5, LuSame DEF LuInv
  <1>4. CASE Handles /\ fireHandler /\ UNCHANGED <<content, code, luBreakers, wheel, spawns>>
    <2>1. LuCallOK'
      <3>1. pcallGuarded(frame("handler", "instance", "mob", luMob, FALSE)) /\ luInv' = "mob"
            BY <1>4 DEF fireHandler
      <3>2. luMob \in 0..LuEdits  BY <1>4 DEF Handles
      <3>3. "instance" \in Scripts /\ "mob" \in Actors  BY DEF Scripts, Actors
      <3> QED  BY <1>2, <3>1, <3>2, <3>3, LuCalls1
    <2> QED  BY <1>2, <1>4, <2>1, LuSame DEF LuInv
  <1> QED  BY <1>3, <1>4 DEF fireTrigger

LEMMA LuRegisters == ASSUME LuInv, RegisterHandler PROVE LuInv'
  <1>1. /\ ~LuIdle /\ luMob' = LuTop.ver
        /\ UNCHANGED <<content, luChunks, luBreakers, call, wheel, spawns, bounds>>
        BY DEF RegisterHandler
  <1>2. LuTop.ver \in 0..LuEdits  BY <1>1, LuPopped DEF Frames
  <1>3. LuCodeOK'  BY <1>1, <1>2 DEF LuInv, LuCodeOK, Versions
  <1> QED  BY <1>1, <1>3, LuSame DEF LuInv

LEMMA LuStepKeeps == ASSUME LuInv, Step PROVE LuInv'
  <1>1. CASE luInstr = LuBudget /\ Leave("budget")  BY <1>1, LuLeaveKeeps
  <1>2. CASE /\ luInstr < LuBudget /\ luInstr' = luInstr + 1 /\ luWork' = luWork + 1
             /\ UNCHANGED <<content, code, luBreakers, luStack, luInv, luLogged, wheel, spawns, bounds>>
    <2>1. luInstr' \in 0..LuBudget /\ luWork' = luInstr'  BY <1>2, LuStackFacts, LuNats
    <2>2. LuCallOK'
      <3>1. LuCallOK /\ UNCHANGED <<luStack, luInv, luLogged>>  BY <1>2 DEF LuInv
      <3> QED  BY <2>1, <3>1 DEF LuCallOK, LuChained
    <2> QED  BY <1>2, <2>2, LuSame DEF LuInv
  <1> QED  BY <1>1, <1>2 DEF Step

LEMMA LuLogs1 == ASSUME LuInv, noteLuaLog PROVE LuInv'
  <1>1. CASE luLogged = LuLogs /\ Leave("logic")  BY <1>1, LuLeaveKeeps
  <1>2. CASE /\ luLogged < LuLogs /\ luLogged' = luLogged + 1
             /\ luStack' = [luStack EXCEPT ![Len(luStack)].own = @ + 1]
             /\ UNCHANGED <<content, code, luBreakers, luInv, luInstr, luWork, wheel, spawns, bounds>>
    <2> DEFINE n == Len(luStack)
               f == [luStack[n] EXCEPT !.own = luStack[n].own + 1]
    <2>1. ~LuIdle  BY DEF noteLuaLog
    <2>2. /\ luStack \in Seq(Frames) /\ n \in Nat /\ n <= LuDepth /\ n \in 1..n
          /\ luInv \in Actors /\ luLogged \in 0..LuLogs /\ luInstr \in 0..LuBudget /\ luWork = luInstr
          /\ LuChained /\ luStack[n] \in Frames /\ luStack # <<>>
          BY <2>1, LuStackFacts DEF LuIdle
    <2>3. luInv = luStack[n].actor /\ luLogged = luStack[n].own  BY <2>2 DEF LuChained
    <2>4. luStack[n].own + 1 \in 0..LuLogs  BY <1>2, <2>2, <2>3, LuNats
    <2>5. /\ f \in Frames /\ f.own = luStack[n].own + 1 /\ f.actor = luStack[n].actor
          /\ f.inv = luStack[n].inv /\ f.logs = luStack[n].logs
          BY <2>2, <2>4 DEF Frames
    <2>6. luStack' = [luStack EXCEPT ![n] = f]  BY <1>2
    <2> HIDE DEF f
    <2>7. /\ luStack' \in Seq(Frames) /\ Len(luStack') = n
          /\ \A j \in 1..n : luStack'[j] = IF j = n THEN f ELSE luStack[j]
          BY <2>2, <2>5, <2>6, ExceptSeq
    <2>8. luStack' # <<>>  BY <2>2, <2>7
    <2>9. luInv' = luStack'[Len(luStack')].actor /\ luLogged' = luStack'[Len(luStack')].own
          BY <1>2, <2>2, <2>3, <2>5, <2>7
    <2>10. ASSUME NEW i \in 1..n
           PROVE  /\ i = 1 => luStack'[i].inv = LuNone
                  /\ i > 1 => luStack'[i].inv = luStack'[i - 1].actor /\ luStack'[i].logs = luStack'[i - 1].own
      <3>1. luStack'[i].inv = luStack[i].inv /\ luStack'[i].logs = luStack[i].logs  BY <2>5, <2>7
      <3>2. i > 1 => i - 1 \in 1..n /\ i - 1 # n  BY <2>2
      <3>3. i > 1 => luStack'[i - 1] = luStack[i - 1]  BY <2>7, <3>2
      <3> QED  BY <2>2, <3>1, <3>3 DEF LuChained
    <2>11. LuChained'  BY <2>7, <2>8, <2>9, <2>10 DEF LuChained
    <2>12. luLogged' \in 0..LuLogs  BY <1>2, <2>2, LuNats
    <2>13. LuCallOK'  BY <1>2, <2>2, <2>7, <2>11, <2>12 DEF LuCallOK
    <2> QED  BY <1>2, <2>13, LuSame DEF LuInv
  <1> QED  BY <1>1, <1>2 DEF noteLuaLog

(* The mud table, the wheel and the mob. *)
LEMMA LuSpawnKeeps == ASSUME LuInv, mudSpawn \/ dropLuaSpawn \/ carriedOff PROVE LuInv'
  <1>1. luCensus \in 0..LuSpawns /\ luHere \in 0..LuSpawns /\ luHere <= luCensus /\ LuSpawns \in Nat
        BY LuNats DEF LuInv, LuSpawnsOK
  <1>2. CASE luCensus = LuSpawns /\ Leave("logic")  BY <1>2, LuLeaveKeeps
  <1>3. CASE /\ luCensus < LuSpawns /\ luCensus' = luCensus + 1 /\ luHere' = luHere + 1
             /\ UNCHANGED <<content, code, luBreakers, call, wheel, bounds>>
    <2>1. LuSpawnsOK'  BY <1>1, <1>3 DEF LuSpawnsOK
    <2> QED  BY <1>3, <2>1, LuSame DEF LuInv
  <1>4. CASE dropLuaSpawn
    <2>1. luHere > 0 /\ luHere' = luHere - 1 /\ luCensus' = luCensus - 1
          /\ UNCHANGED <<content, code, luBreakers, call, wheel, bounds>>
          BY <1>4 DEF dropLuaSpawn
    <2>2. LuSpawnsOK'  BY <1>1, <2>1 DEF LuSpawnsOK
    <2> QED  BY <2>1, <2>2, LuSame DEF LuInv
  <1>5. CASE carriedOff
    <2>1. luHere > 0 /\ luHere' = luHere - 1
          /\ UNCHANGED <<content, code, luBreakers, call, wheel, luCensus, bounds>>
          BY <1>5 DEF carriedOff
    <2>2. LuSpawnsOK'  BY <1>1, <2>1 DEF LuSpawnsOK
    <2> QED  BY <2>1, <2>2, LuSame DEF LuInv
  <1> QED  BY <1>2, <1>3, <1>4, <1>5 DEF mudSpawn

LEMMA LuAfter == ASSUME LuInv, mudAfter PROVE LuInv'
  <1>1. CASE luLive = LuTimerCap /\ Leave("logic")  BY <1>1, LuLeaveKeeps
  <1>2. CASE ~(luLive = LuTimerCap /\ Leave("logic"))
    <2>1. /\ luLive < LuTimerCap /\ luLive' = luLive + 1
          /\ UNCHANGED <<content, code, luBreakers, call, spawns, bounds>>
          BY <1>2 DEF mudAfter
    <2>2. PICK d \in BOOLEAN : luWheel' = Append(luWheel, [old |-> FALSE, durable |-> d, pending |-> TRUE])
          BY <1>2 DEF mudAfter
    <2>3. LuWheelOK'  BY <2>1, <2>2, LuPend
    <2> QED  BY <2>1, <2>3, LuSame DEF LuInv
  <1> QED  BY <1>1, <1>2

LEMMA LuCancel == ASSUME LuInv, mudCancel PROVE LuInv'
  <1>1. PICK i \in DOMAIN luWheel : /\ luWheel' = [luWheel EXCEPT ![i].pending = FALSE]
                                    /\ luLive' = IF cancelled(luWheel[i]) THEN luLive - 1 ELSE luLive
        BY DEF mudCancel
  <1>2. UNCHANGED <<content, code, luBreakers, call, spawns, bounds>>  BY DEF mudCancel
  <1>3. LuWheelOK'  BY <1>1, LuUnpend DEF cancelled
  <1> QED  BY <1>2, <1>3, LuSame DEF LuInv

LEMMA LuFires == ASSUME LuInv, NEW i \in DOMAIN luWheel, FireTimer(i) PROVE LuInv'
  <1>1. /\ LuIdle /\ luWheel[i].pending /\ luWheel' = [luWheel EXCEPT ![i].pending = FALSE]
        /\ luLive' = luLive - 1 /\ UNCHANGED <<content, code, luBreakers, spawns, bounds>>
        BY DEF FireTimer
  <1>2. LuWheelOK'  BY <1>1, LuUnpend
  <1>3. LuCallOK'
    <2>1. CASE luWheel[i].old => luWheel[i].durable
      <3>1. pcallGuarded(frame("timer", "after", LuNone, 0, FALSE)) /\ luInv' = luInv
            BY <2>1 DEF FireTimer
      <3>2. luInv = LuNone /\ Len(luStack) = 0
            BY <1>1, LuStackFacts DEF LuIdle, LuChained
      <3>3. Len(luStack) < LuDepth /\ 0 \in 0..LuEdits  BY <3>2, LuNats
      <3>4. "after" \in Scripts /\ LuNone \in Actors  BY DEF Scripts, Actors
      <3> QED  BY <3>1, <3>2, <3>3, <3>4, LuCalls1
    <2>2. CASE ~(luWheel[i].old => luWheel[i].durable)  BY <2>2, LuSame DEF FireTimer
    <2> QED  BY <2>1, <2>2
  <1> QED  BY <1>1, <1>2, <1>3, LuSame DEF LuInv

LEMMA LuDrops == ASSUME LuInv, dropEntityScript PROVE LuInv'
  <1>1. /\ luMob' = LuDead /\ UNCHANGED <<content, luChunks, luBreakers, call, wheel, spawns, bounds>>
        BY DEF dropEntityScript
  <1>2. LuCodeOK'  BY <1>1 DEF LuInv, LuCodeOK
  <1> QED  BY <1>1, <1>2, LuSame DEF LuInv

(* Content. *)
LEMMA LuGreatest == ASSUME LuInv PROVE Edits \in 0..LuEdits
  <1> DEFINE v == [h \in LuHooks |-> luSrc[h].v]
             made == {luSrc[h].v : h \in LuHooks}
  <1>1. \A h \in LuHooks : luSrc[h].v \in 0..LuEdits  BY DEF LuInv, LuContentOK, Source
  <1>2. made \subseteq 0..LuEdits /\ made # {}  BY <1>1, LuNats
  <1>3. \E n \in made : \A m \in made : m <= n
    <2>1. LuHooks \subseteq {"toHit", "onDamageTaken", "onResolve", "register"} /\ "register" \in LuHooks
          BY LuNats DEF Hooks
    <2>2. \A h \in LuHooks : luSrc[h].v \in Int  BY <1>1, LuNats
    <2>3. \E g \in LuHooks : \A h \in LuHooks : luSrc[h].v <= luSrc[g].v
      <3>1. PICK g1 \in LuHooks : /\ luSrc["register"].v <= luSrc[g1].v
                                  /\ "toHit" \in LuHooks => luSrc["toHit"].v <= luSrc[g1].v
            BY <2>1, <2>2
      <3>2. PICK g2 \in LuHooks : /\ luSrc[g1].v <= luSrc[g2].v
                                  /\ "onResolve" \in LuHooks => luSrc["onResolve"].v <= luSrc[g2].v
            BY <2>1, <2>2
      <3>3. PICK g3 \in LuHooks : /\ luSrc[g2].v <= luSrc[g3].v
                                  /\ "onDamageTaken" \in LuHooks => luSrc["onDamageTaken"].v <= luSrc[g3].v
            BY <2>1, <2>2
      <3>4. /\ luSrc["register"].v <= luSrc[g3].v
            /\ "toHit" \in LuHooks => luSrc["toHit"].v <= luSrc[g3].v
        <4>1. /\ luSrc["register"].v \in Int /\ luSrc[g1].v \in Int /\ luSrc[g2].v \in Int
              /\ luSrc[g3].v \in Int
              BY <2>1, <2>2
        <4>2. luSrc["register"].v <= luSrc[g3].v  BY <3>1, <3>2, <3>3, <4>1
        <4>3. ASSUME "toHit" \in LuHooks PROVE luSrc["toHit"].v <= luSrc[g3].v
          <5>1. luSrc["toHit"].v \in Int  BY <2>2, <4>3
          <5> QED  BY <3>1, <3>2, <3>3, <4>1, <4>3, <5>1
        <4> QED  BY <4>2, <4>3
      <3>5. "onResolve" \in LuHooks => luSrc["onResolve"].v <= luSrc[g3].v
            BY <2>2, <3>2, <3>3
      <3>6. ASSUME NEW h \in LuHooks PROVE luSrc[h].v <= luSrc[g3].v
        <4>1. h \in {"toHit", "onDamageTaken", "onResolve", "register"}  BY <2>1
        <4> QED  BY <3>3, <3>4, <3>5, <4>1
      <3> QED  BY <3>6
    <2> QED  BY <2>3
  <1>4. Edits \in made
    <2>1. Edits = CHOOSE n \in made : \A m \in made : m <= n  BY DEF Edits
    <2> HIDE DEF made
    <2> QED  BY <1>3, <2>1
  <1> QED  BY <1>2, <1>4

LEMMA LuPublish == ASSUME LuInv, publishEdit PROVE LuInv'
  <1>1. PICK h \in LuHooks, q \in Quality, dropped \in BOOLEAN :
          /\ luSrc' = [luSrc EXCEPT ![h] = [v |-> Edits + 1, q |-> q]]
          /\ luPosted' = IF dropped THEN luPosted ELSE luPosted \cup {key(h)}
        BY DEF publishEdit
  <1>2. Edits < LuEdits /\ UNCHANGED <<luMine, code, luBreakers, call, wheel, spawns, bounds>>
        BY DEF publishEdit
  <1>3. Edits + 1 \in 0..LuEdits  BY <1>2, LuGreatest, LuNats
  <1>4. [v |-> Edits + 1, q |-> q] \in Source  BY <1>3 DEF Source
  <1>5. LuContentOK'
    <2>1. luSrc' \in [LuHooks -> Source]  BY <1>1, <1>4 DEF LuInv, LuContentOK
    <2>2. luPosted' \subseteq Defs  BY <1>1, LuKeys DEF LuInv, LuContentOK
    <2> QED  BY <1>2, <2>1, <2>2 DEF LuInv, LuContentOK
  <1> QED  BY <1>2, <1>5, LuSame DEF LuInv

LEMMA LuReload == ASSUME LuInv, NEW d \in Defs, reloadLua(d) PROVE LuInv'
  <1>1. /\ LuIdle /\ luPosted' = luPosted \ {d} /\ luWheel' = nextGen
        /\ UNCHANGED <<luSrc, luMine, luLive, spawns, bounds>>
        BY DEF reloadLua
  <1>2. LuContentOK' /\ LuSpawnsOK' /\ LuBoundsOK'  BY <1>1, LuSame
  <1>3. LuWheelOK'  BY <1>1, LuNextGen
  <1>4. /\ luChunks \in [Defs -> LuChunk] /\ Unset \in LuChunk
        /\ luBreakers \in [Scripts -> Nat] /\ d \in Scripts /\ "trigger" \in Defs /\ 0 \in Nat
        BY LuDefs DEF LuInv, LuCodeOK, LuBreakersOK, Unset, LuChunk, Versions
  <1>5. CASE ~(d = "trigger" /\ luMob \notin {LuNone, LuDead})
    <2>1. /\ luChunks' = [luChunks EXCEPT ![d] = Unset] /\ luBreakers' = [luBreakers EXCEPT ![d] = 0]
          /\ UNCHANGED <<luMob, call>>
          BY <1>5 DEF reloadLua, breakerReset
    <2>2. LuCodeOK'  BY <1>4, <2>1 DEF LuInv, LuCodeOK
    <2>3. LuBreakersOK'  BY <1>4, <2>1 DEF LuBreakersOK
    <2>4. LuCallOK'  BY <2>1, LuSame
    <2> QED  BY <1>2, <1>3, <2>2, <2>3, <2>4 DEF LuInv
  <1>6. CASE d = "trigger" /\ luMob \notin {LuNone, LuDead}
    <2> DEFINE s == luSrc["register"]
               ch == IF s.q = "good" THEN s.v ELSE LuNone
               e == [src |-> <<"register", s>>, chunk |-> ch]
    <2>0. reloadEntityScriptsForProto  BY <1>6 DEF reloadLua
    <2>1. s \in Source /\ s.v \in 0..LuEdits /\ "register" \in Hooks
      <3>1. s \in Source /\ "register" \in Hooks  BY LuNats DEF LuInv, LuContentOK
      <3> QED  BY <3>1 DEF Source
    <2>2. ch \in Versions /\ (ch # LuNone => ch \in 0..LuEdits)  BY <2>1 DEF Versions
    <2>3. e \in LuChunk  BY <2>1, <2>2 DEF LuChunk
    <2>4. /\ luBreakers' = breakerReset(breakerReset(luBreakers, "trigger"), "instance")
          /\ IF s.q = "empty"
             THEN luMob' = LuNone /\ luChunks' = [luChunks EXCEPT !["trigger"] = Unset] /\ UNCHANGED call
             ELSE /\ luMob' = LuBare /\ luChunks' = [luChunks EXCEPT !["trigger"] = e]
                  /\ IF ch = LuNone THEN UNCHANGED call ELSE invoke("trigger", "mob", ch, FALSE)
          BY <2>0 DEF reloadEntityScriptsForProto
    <2> HIDE DEF e, ch, s
    <2>5. LuBreakersOK'
      <3>1. luBreakers' = [[luBreakers EXCEPT !["trigger"] = 0] EXCEPT !["instance"] = 0]
            BY <2>4 DEF breakerReset
      <3>2. [luBreakers EXCEPT !["trigger"] = 0] \in [Scripts -> Nat]  BY <1>4
      <3> QED  BY <3>1, <3>2 DEF LuBreakersOK
    <2>6. LuCodeOK'
      <3>1. luMob' \in {LuNone, LuBare}  BY <2>4
      <3>2. luChunks' \in [Defs -> LuChunk]  BY <1>4, <2>3, <2>4
      <3> QED  BY <3>1, <3>2 DEF LuCodeOK, Versions
    <2>7. LuCallOK'
      <3>1. CASE UNCHANGED call  BY <3>1, LuSame
      <3>2. CASE ch # LuNone /\ invoke("trigger", "mob", ch, FALSE)
        <4>1. Len(luStack) = 0  BY <1>1 DEF LuIdle
        <4>2. Len(luStack) < LuDepth /\ ch \in 0..LuEdits  BY <2>2, <3>2, <4>1, LuNats
        <4>3. "trigger" \in Scripts /\ "mob" \in Actors  BY DEF Scripts, Actors
        <4> QED  BY <3>2, <4>2, <4>3, LuCalls2
      <3> QED  BY <2>4, <3>1, <3>2
    <2> QED  BY <1>2, <1>3, <2>5, <2>6, <2>7 DEF LuInv
  <1> QED  BY <1>5, <1>6

LEMMA LuNextKeeps == LuInv /\ [LuNext]_luVars => LuInv'
  <1> SUFFICES ASSUME LuInv, [LuNext]_luVars PROVE LuInv'  OBVIOUS
  <1>1. CASE UNCHANGED luVars
    <2>1. UNCHANGED <<content, code, luBreakers, call, wheel, spawns, bounds>>
          BY <1>1 DEF luVars, content, code, call, wheel, spawns, bounds
    <2> QED  BY <2>1, LuSame DEF LuInv
  <1>2. CASE runHookLua
    <2>1. PICK h \in LuHooks \ {"register"} : invokeHook(h)  BY <1>2 DEF runHookLua
    <2> QED  BY <2>1, LuInvokeHook
  <1>3. CASE hDamage
    <2>1. PICK h \in LuHooks : fireReaction(h)  BY <1>3 DEF hDamage
    <2>2. h # "register" /\ invokeHook(h)  BY <2>1 DEF fireReaction, Reactions
    <2> QED  BY <2>2, LuInvokeHook
  <1>4. CASE fireRoomEntry \/ mudFire  BY <1>4, LuFireTrigger DEF fireRoomEntry, mudFire
  <1>5. CASE RegisterHandler  BY <1>5, LuRegisters
  <1>6. CASE Finish \/ Fail  BY <1>6, LuLeaveKeeps DEF Finish, Fail
  <1>7. CASE Step \/ noteLuaLog  BY <1>7, LuStepKeeps, LuLogs1
  <1>8. CASE mudSpawn \/ dropLuaSpawn \/ carriedOff  BY <1>8, LuSpawnKeeps
  <1>9. CASE mudAfter \/ mudCancel  BY <1>9, LuAfter, LuCancel
  <1>10. ASSUME NEW i \in DOMAIN luWheel, FireTimer(i) PROVE LuInv'  BY <1>10, LuFires
  <1>11. CASE dropEntityScript \/ publishEdit  BY <1>11, LuDrops, LuPublish
  <1>12. ASSUME NEW d \in Defs, reloadLua(d) PROVE LuInv'  BY <1>12, LuReload
  <1> QED  BY <1>1, <1>2, <1>3, <1>4, <1>5, <1>6, <1>7, <1>8, <1>9, <1>10, <1>11, <1>12 DEF LuNext

\* However a zone's scripts call each other and however the calls end, a cascade never runs past its
\* budget, the call that runs acts for its own actor and is charged for its own log lines, and the timer
\* census is the timers that can still fire (pcallGuarded of luaentry_chokepoint.go, invoke of luaentry.go,
\* mudAfter and mudCancel of luamud.go).
THEOREM ScriptsAreSafe == LuSpec => []LuaSafe
  <1>1. LuInit => LuInv  BY LuStart
  <1>2. LuInv /\ [LuNext]_luVars => LuInv'  BY LuNextKeeps
  <1>3. LuInv => LuaSafe  BY LuInvSafe
  <1> QED  BY <1>1, <1>2, <1>3, PTL DEF LuSpec
================================================================================
