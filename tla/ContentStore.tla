---------------------------- MODULE ContentStore ----------------------------
(* The content database: published versions installed by the director's pull and  *)
(* by the command line, the seed import that knows no version, the purge of a      *)
(* stale pack, the guard on packs the fleet hosts, and a shard reading it all at   *)
(* boot in several statements (store/import.go, store/foreignrefs.go,             *)
(* store/content.go, contentpull, director/signals.go, cmd/telos-world).          *)
EXTENDS Naturals, FiniteSets

CONSTANTS CsPacks,      \* pack names, numbered in name order; a pack always ships a definition of its own
          CsShared,     \* a ref two packs may both ship
          CsNone,
          CsMaxVer,     \* bound: versions installed
          CsFaults      \* bound: seed imports, purges and crashes

ASSUME CsAssumption ==
  /\ IsFiniteSet(CsPacks) /\ CsPacks # {} /\ CsPacks \subseteq Nat /\ CsShared \notin CsPacks /\ CsNone \notin CsPacks \cup {CsShared}
  /\ CsNone \notin {"director", "cli", "purge"}
  /\ CsMaxVer \in Nat /\ CsFaults \in Nat

VARIABLES
  csRows,    \* definition rows: ref -> owning pack (refs are primary keys across packs)
  csReg,     \* content_pack_registry
  csVer,     \* content_version.version
  csSha,     \* content_version.content_sha: the installed manifest
  csLock,    \* who holds the content_version row FOR UPDATE
  csPull,    \* each installer's pull: stage, manifest, force
  csPurge,   \* the purge command: stage and pack
  csHosted,  \* packs with a zone some shard hosts, or a live instance copies
  csTold,    \* the version last broadcast to the shards
  csBoot,    \* a shard's boot: stage, the version it recorded, the versions its first and last statement read
  csLeft     \* faults left

csVars == <<csRows, csReg, csVer, csSha, csLock, csPull, csPurge, csHosted, csTold, csBoot, csLeft>>

Installers == {"director", "cli"}
Refs == CsPacks \cup {CsShared}
\* A published version: its packs, and the one of them that ships the contested ref.
Manifests == {m \in [packs : (SUBSET CsPacks) \ {{}}, claim : CsPacks \cup {CsNone}] : m.claim \in m.packs \cup {CsNone}}
incomingRefs(m) == m.packs \cup (IF m.claim = CsNone THEN {} ELSE {CsShared})
ownerIn(m, ref) == IF ref = CsShared THEN m.claim ELSE ref

IdlePull == [at |-> "idle", sha |-> CsNone, force |-> FALSE]
IdlePurge == [at |-> "idle", pack |-> CsNone]
DownBoot == [at |-> "down", ver |-> 0, first |-> 0, last |-> 0]

CsTypeOK ==
  /\ csRows \in [Refs -> CsPacks \cup {CsNone}] /\ csReg \subseteq CsPacks /\ csHosted \subseteq CsPacks
  /\ csVer \in 0..CsMaxVer /\ csTold \in 0..CsMaxVer /\ csSha \in Manifests \cup {CsNone}
  /\ csLock \in Installers \cup {"purge", CsNone} /\ csLeft \in 0..CsFaults
  /\ csPull \in [Installers -> [at : {"idle", "resolve", "guard", "lock", "import", "broadcast"},
                                sha : Manifests \cup {CsNone}, force : BOOLEAN]]
  /\ csPurge \in [at : {"idle", "lock", "check", "delete"}, pack : CsPacks \cup {CsNone}]
  /\ csBoot \in [at : {"down", "zones", "rooms", "protos", "resets", "globals", "merge", "up"},
                ver : 0..CsMaxVer, first : 0..CsMaxVer, last : 0..CsMaxVer]

CsInit ==
  /\ csRows = [r \in Refs |-> CsNone] /\ csReg = {} /\ csHosted = {} /\ csVer = 0 /\ csTold = 0 /\ csSha = CsNone
  /\ csLock = CsNone /\ csPull = [w \in Installers |-> IdlePull] /\ csPurge = IdlePurge
  /\ csBoot = DownBoot /\ csLeft = CsFaults

CsFault == csLeft > 0 /\ csLeft' = csLeft - 1
To(w, at) == csPull' = [csPull EXCEPT ![w] = IF at = "idle" THEN IdlePull ELSE [@ EXCEPT !.at = at]]

\* deletePack, and the check that no incoming ref belongs to a pack outside the incoming set.
deletePacks(rows, packs) == [r \in Refs |-> IF rows[r] \in packs THEN CsNone ELSE rows[r]]
foreignRefs(rows, m) == {r \in incomingRefs(m) : rows[r] \notin m.packs \cup {CsNone}}
\* Each pack deletes and inserts its own rows in turn, so a ref that moved to an earlier pack
\* meets its old row on the primary key.
collides(rows, m) == m.claim # CsNone /\ \E p \in m.packs : rows[CsShared] = p /\ m.claim < p
importPackTx(rows, m) ==
  [r \in Refs |-> IF r \in incomingRefs(m) THEN ownerIn(m, r) ELSE deletePacks(rows, m.packs)[r]]

\* handlePullRequest: the director runs one pull at a time; the command line runs its own.
handlePullRequest(w, m, force) ==
  /\ csPull[w].at = "idle" /\ csVer < CsMaxVer /\ (w = "cli" => ~force)
  /\ csPull' = [csPull EXCEPT ![w] = [at |-> "resolve", sha |-> m, force |-> force]]
  /\ UNCHANGED <<csRows, csReg, csVer, csSha, csLock, csPurge, csHosted, csTold, csBoot, csLeft>>
\* Pull: resolve, verify and lint the tree (it may be refused), then the guard or straight to the import.
Pull(w, sound) ==
  /\ csPull[w].at = "resolve" /\ To(w, IF ~sound THEN "idle" ELSE IF w = "director" THEN "guard" ELSE "lock")
  /\ UNCHANGED <<csRows, csReg, csVer, csSha, csLock, csPurge, csHosted, csTold, csBoot, csLeft>>
\* The prune preview is read outside the transaction and the hosting from the fleet directory.
prunePreview(m) == csReg \ m.packs
FleetPruneGuard(w) ==
  /\ csPull[w].at = "guard"
  /\ To(w, IF prunePreview(csPull[w].sha) \cap csHosted = {} \/ csPull[w].force THEN "lock" ELSE "idle")
  /\ UNCHANGED <<csRows, csReg, csVer, csSha, csLock, csPurge, csHosted, csTold, csBoot, csLeft>>
lockVersion(w) ==
  /\ csPull[w].at = "lock" /\ csLock = CsNone /\ csLock' = w /\ To(w, "import")
  /\ UNCHANGED <<csRows, csReg, csVer, csSha, csPurge, csHosted, csTold, csBoot, csLeft>>
\* ImportVersion: the same content is a no-op; otherwise prune, refuse foreign refs, replace the
\* packs, bump the version and rewrite the registry, in one transaction.
ImportVersion(w) ==
  LET m == csPull[w].sha
      kept == deletePacks(csRows, prunePreview(m))
      refused == m = csSha \/ foreignRefs(kept, m) # {} \/ collides(kept, m) \/ csVer = CsMaxVer
  IN /\ csPull[w].at = "import" /\ csLock' = CsNone
     /\ IF refused THEN To(w, "idle") /\ UNCHANGED <<csRows, csReg, csVer, csSha>>
        ELSE /\ csRows' = importPackTx(kept, m) /\ csReg' = m.packs /\ csVer' = csVer + 1 /\ csSha' = m
             /\ To(w, "broadcast")
     /\ UNCHANGED <<csPurge, csHosted, csTold, csBoot, csLeft>>
broadcast(w) ==
  /\ csPull[w].at = "broadcast" /\ To(w, "idle") /\ csTold' = csVer
  /\ UNCHANGED <<csRows, csReg, csVer, csSha, csLock, csPurge, csHosted, csBoot, csLeft>>
\* The installer dies, or its deadline passes: an open transaction rolls back.
CsCrash(w) ==
  /\ csPull[w].at # "idle" /\ CsFault /\ To(w, "idle") /\ csLock' = IF csLock = w THEN CsNone ELSE csLock
  /\ UNCHANGED <<csRows, csReg, csVer, csSha, csPurge, csHosted, csTold, csBoot>>

\* ImportPacks: the seed replaces one pack's rows and touches neither version nor registry.
ImportPacks(p, claims) ==
  LET m == [packs |-> {p}, claim |-> IF claims THEN p ELSE CsNone]
  IN /\ CsFault /\ foreignRefs(csRows, m) = {} /\ csRows' = importPackTx(csRows, m)
     /\ UNCHANGED <<csReg, csVer, csSha, csLock, csPull, csPurge, csHosted, csTold, csBoot>>

\* Mutant: the purge does not take the version row's lock.
purgeUnlocked == csLock' = csLock
purgeLocks == csLock = CsNone /\ csLock' = "purge"
PurgePack(p) ==
  /\ csPurge.at = "idle" /\ CsFault /\ purgeLocks /\ csPurge' = [at |-> "check", pack |-> p]
  /\ UNCHANGED <<csRows, csReg, csVer, csSha, csPull, csHosted, csTold, csBoot>>
checkRegistry ==
  /\ csPurge.at = "check"
  /\ IF csPurge.pack \in csReg THEN csPurge' = IdlePurge /\ csLock' = IF csLock = "purge" THEN CsNone ELSE csLock
     ELSE csPurge' = [csPurge EXCEPT !.at = "delete"] /\ UNCHANGED csLock
  /\ UNCHANGED <<csRows, csReg, csVer, csSha, csPull, csHosted, csTold, csBoot, csLeft>>
purgeRows ==
  /\ csPurge.at = "delete" /\ csRows' = deletePacks(csRows, {csPurge.pack}) /\ csPurge' = IdlePurge
  /\ csLock' = IF csLock = "purge" THEN CsNone ELSE csLock
  /\ UNCHANGED <<csReg, csVer, csSha, csPull, csHosted, csTold, csBoot, csLeft>>

\* loadContent: a booting shard reads the version and the registry first, then each table by a
\* statement of its own, and merges.
readVersion ==
  /\ csBoot.at = "down" /\ csBoot' = [csBoot EXCEPT !.at = "zones", !.ver = csVer]
  /\ UNCHANGED <<csRows, csReg, csVer, csSha, csLock, csPull, csPurge, csHosted, csTold, csLeft>>
Statement(from, to) ==
  /\ csBoot.at = from
  /\ csBoot' = [csBoot EXCEPT !.at = to, !.first = IF from = "zones" THEN csVer ELSE @, !.last = csVer]
  /\ UNCHANGED <<csRows, csReg, csVer, csSha, csLock, csPull, csPurge, csHosted, csTold, csLeft>>
LoadPacks == Statement("zones", "rooms")
loadRooms == Statement("rooms", "protos")
loadPrototypes == Statement("protos", "resets")
loadResets == Statement("resets", "globals")
loadGlobalDefs == Statement("globals", "merge")
\* Mutant: the boot version is the one found when the last statement has run.
recordedLate(b) == csVer
recordedAtBoot(b) == b.ver
Merge ==
  /\ csBoot.at = "merge" /\ csBoot' = [csBoot EXCEPT !.at = "up", !.ver = recordedAtBoot(csBoot)]
  /\ csHosted' = csHosted \cup csReg
  /\ UNCHANGED <<csRows, csReg, csVer, csSha, csLock, csPull, csPurge, csTold, csLeft>>
CsStop ==
  /\ csBoot.at = "up" /\ csBoot' = DownBoot /\ csHosted' = {}
  /\ UNCHANGED <<csRows, csReg, csVer, csSha, csLock, csPull, csPurge, csTold, csLeft>>

CsNext ==
  \/ \E w \in Installers : \/ FleetPruneGuard(w) \/ lockVersion(w) \/ ImportVersion(w) \/ broadcast(w) \/ CsCrash(w)
                           \/ \E m \in Manifests, force \in BOOLEAN : handlePullRequest(w, m, force)
                           \/ \E sound \in BOOLEAN : Pull(w, sound)
  \/ \E p \in CsPacks : PurgePack(p) \/ \E claims \in BOOLEAN : ImportPacks(p, claims)
  \/ checkRegistry \/ purgeRows \/ readVersion \/ CsStop
  \/ LoadPacks \/ loadRooms \/ loadPrototypes \/ loadResets \/ loadGlobalDefs \/ Merge
CsSpec == CsInit /\ [][CsNext]_csVars

\* Whatever order pulls, seeds, purges and crashes take: a registered pack has its rows, no row
\* outlives its pack (store ImportVersion, PurgePack, ImportPacks), and a shard that booted
\* across an import never recorded a version ahead of what it read: if its statements straddled
\* the import it is behind the installed version, so a reconcile rereads it (cmd/telos-world
\* loadContent).
ContentWhole ==
  /\ \A p \in csReg : csRows[p] = p
  /\ csRows[CsShared] # CsNone => csRows[csRows[CsShared]] = csRows[CsShared]
  /\ csBoot.at = "up" => csBoot.ver <= csBoot.first /\ (csBoot.first # csBoot.last => csBoot.ver < csVer)

\* The safety invariant: the types, and the properties above that hold of every state.
\* Packs are whole in the store and a boot never claims more than it read (store/import.go, telos-world).
StoreSafe == CsTypeOK /\ ContentWhole
=============================================================================
