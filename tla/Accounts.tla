------------------------------ MODULE Accounts ------------------------------
(* The account service and the gate's login: device-code sign-in through the      *)
(* browser, and the character menu and creation flow (internal/account,           *)
(* internal/web, store/account.go, gate/account.go, gate/chargen.go).             *)
EXTENDS Naturals, FiniteSets

CONSTANTS AcConns,      \* telnet connections
          AcAccounts,   \* accounts, one per provider identity
          AcNames,      \* character names
          AcNone,
          AcCap,        \* MaxCharacters per account
          AcLogins,     \* bound: sign-ins
          AcFaults      \* bound: failed reads and expired codes

ASSUME AcAssumption ==
  /\ IsFiniteSet(AcConns) /\ IsFiniteSet(AcAccounts) /\ IsFiniteSet(AcNames)
  /\ AcNone \notin AcAccounts \cup AcNames /\ AcCap \in Nat \ {0} /\ AcLogins \in Nat /\ AcFaults \in Nat

VARIABLES
  acKnown,   \* accounts and their identities
  acOwner,   \* characters: name -> account, or AcNone
  acCode,    \* the connection's device code: AcNone, "pending", or the authorising account
  acWeb,     \* the browser's callback for that code: identity and what FindIdentity said
  acConn,    \* the connection: stage of its login, account, the menu it was shown, the name in hand
  acLeft     \* bounds left: sign-ins and faults

acVars == <<acKnown, acOwner, acCode, acWeb, acConn, acLeft>>

Off == [at |-> "off", acct |-> AcNone, shown |-> {}, name |-> AcNone]
NoWeb == [id |-> AcNone, at |-> "none"]

AcTypeOK ==
  /\ acKnown \subseteq AcAccounts /\ acOwner \in [AcNames -> AcAccounts \cup {AcNone}]
  /\ acCode \in [AcConns -> AcAccounts \cup {AcNone, "pending"}]
  /\ acWeb \in [AcConns -> [id : AcAccounts \cup {AcNone}, at : {"none", "create", "authorize"}]]
  /\ acConn \in [AcConns -> [at : {"off", "wait", "menu", "walk", "insert", "in"}, acct : AcAccounts \cup {AcNone},
                             shown : SUBSET AcNames, name : AcNames \cup {AcNone}]]
  /\ acLeft \in [logins : 0..AcLogins, faults : 0..AcFaults]

Characters(a) == {n \in AcNames : acOwner[n] = a}
\* An account holds at most MaxCharacters characters (account/service.go BuildCharacter, "Enforce the per-account character cap").
CharacterCapHolds == \A a \in AcAccounts : Cardinality(Characters(a)) <= AcCap

\* A database as earlier logins left it.
AcInit ==
  /\ acKnown \in SUBSET AcAccounts
  /\ acOwner \in [AcNames -> acKnown \cup {AcNone}] /\ CharacterCapHolds
  /\ acCode = [c \in AcConns |-> AcNone] /\ acWeb = [c \in AcConns |-> NoWeb]
  /\ acConn = [c \in AcConns |-> Off]
  /\ acLeft = [logins |-> AcLogins, faults |-> AcFaults]

Fault == acLeft.faults > 0 /\ acLeft' = [acLeft EXCEPT !.faults = @ - 1]

StartDeviceAuth(c) ==
  /\ acConn[c].at = "off" /\ acConn' = [acConn EXCEPT ![c].at = "wait"]
  /\ acCode' = [acCode EXCEPT ![c] = "pending"]
  /\ acLeft.logins > 0 /\ acLeft' = [acLeft EXCEPT !.logins = @ - 1]
  /\ UNCHANGED <<acKnown, acOwner, acWeb>>
deviceCodeTTL(c) ==
  /\ acCode[c] # AcNone /\ Fault /\ acCode' = [acCode EXCEPT ![c] = AcNone]
  /\ UNCHANGED <<acKnown, acOwner, acWeb, acConn>>

\* The browser comes back from the provider: find the identity, create the account the first
\* time (the identity's primary key refuses a second), authorise the code if it still lives.
FindIdentity(c, id) ==
  /\ acConn[c].at = "wait" /\ acWeb[c] = NoWeb
  /\ acWeb' = [acWeb EXCEPT ![c] = [id |-> id, at |-> IF id \in acKnown THEN "authorize" ELSE "create"]]
  /\ UNCHANGED <<acKnown, acOwner, acCode, acConn, acLeft>>
CreateAccountWithIdentity(c) ==
  LET id == acWeb[c].id
  IN /\ acWeb[c].at = "create"
     /\ acKnown' = acKnown \cup {id}
     /\ acWeb' = [acWeb EXCEPT ![c] = IF id \in acKnown THEN NoWeb ELSE [@ EXCEPT !.at = "authorize"]]
     /\ UNCHANGED <<acOwner, acCode, acConn, acLeft>>
AuthorizeDevice(c) ==
  /\ acWeb[c].at = "authorize" /\ acWeb' = [acWeb EXCEPT ![c] = NoWeb]
  /\ acCode' = [acCode EXCEPT ![c] = IF @ = AcNone THEN @ ELSE acWeb[c].id]
  /\ UNCHANGED <<acKnown, acOwner, acConn, acLeft>>

\* The gate's poll: an expired code ends the login, an authorised one is consumed, and a failed
\* listing after the consume leaves the connection polling a code that is gone.
PollDeviceAuth(c, listed) ==
  LET a == acCode[c]
  IN /\ acConn[c].at = "wait" /\ a # "pending" /\ (IF listed THEN UNCHANGED acLeft ELSE a # AcNone /\ Fault)
     /\ acCode' = [acCode EXCEPT ![c] = AcNone]
     /\ acConn' = IF ~listed THEN acConn
                  ELSE [acConn EXCEPT ![c] = IF a = AcNone THEN Off
                                             ELSE [@ EXCEPT !.at = "menu", !.acct = a, !.shown = Characters(a)]]
     /\ UNCHANGED <<acKnown, acOwner, acWeb>>

\* selectOrCreateCharacter: pick a listed character, or walk the creation steps while the
\* listing was short of the cap.
selectCharacter(c) ==
  /\ acConn[c].at = "menu"
  /\ \E n \in acConn[c].shown : acConn' = [acConn EXCEPT ![c].at = "in", ![c].shown = {}, ![c].name = n]
  /\ UNCHANGED <<acKnown, acOwner, acCode, acWeb, acLeft>>
runChargen(c) ==
  /\ acConn[c].at = "menu" /\ Cardinality(acConn[c].shown) < AcCap
  /\ acConn' = [acConn EXCEPT ![c].at = "walk"]
  /\ UNCHANGED <<acKnown, acOwner, acCode, acWeb, acLeft>>

\* CreateChargenCharacter and BuildCharacter: the cap is checked against a fresh listing, and a
\* failed listing passes; ValidateChargen may refuse the choices, and the player tries again.
ValidateChargen == BOOLEAN   \* the verdict on the player's choices and allocations
atCapacity(c) == Cardinality(Characters(acConn[c].acct)) >= AcCap
BuildCharacter(conn, name, valid) == IF valid THEN [conn EXCEPT !.at = "insert", !.name = name] ELSE conn
CreateChargenCharacter(c, name, listed, valid) ==
  /\ acConn[c].at = "walk" /\ (IF listed THEN UNCHANGED acLeft ELSE Fault)
  /\ acConn' = [acConn EXCEPT ![c] =
       IF listed /\ atCapacity(c) THEN (IF @.shown = {} THEN Off ELSE [@ EXCEPT !.at = "menu"])
       ELSE BuildCharacter(@, name, valid)]
  /\ UNCHANGED <<acKnown, acOwner, acCode, acWeb>>
\* Mutant: the name is not unique in the store.
neverTaken(name) == FALSE
nameTaken(name) == acOwner[name] # AcNone
CreateAccountCharacter(c) ==
  LET name == acConn[c].name
      taken == nameTaken(name)
  IN /\ acConn[c].at = "insert"
     /\ acOwner' = IF taken THEN acOwner ELSE [acOwner EXCEPT ![name] = acConn[c].acct]
     /\ acConn' = [acConn EXCEPT ![c] = IF taken THEN [@ EXCEPT !.at = "walk", !.name = AcNone]
                                        ELSE [@ EXCEPT !.at = "in", !.shown = {}]]
     /\ UNCHANGED <<acKnown, acCode, acWeb, acLeft>>
AcHangup(c) ==
  /\ acConn[c].at # "off" /\ acConn' = [acConn EXCEPT ![c] = Off]
  /\ acCode' = [acCode EXCEPT ![c] = AcNone] /\ acWeb' = [acWeb EXCEPT ![c] = NoWeb]
  /\ UNCHANGED <<acKnown, acOwner, acLeft>>

AcNext ==
  \E c \in AcConns :
       \/ StartDeviceAuth(c) \/ deviceCodeTTL(c) \/ CreateAccountWithIdentity(c) \/ AuthorizeDevice(c)
       \/ selectCharacter(c) \/ runChargen(c) \/ CreateAccountCharacter(c) \/ AcHangup(c)
       \/ \E id \in AcAccounts : FindIdentity(c, id)
       \/ \E listed \in BOOLEAN : PollDeviceAuth(c, listed)
       \/ \E n \in AcNames, listed \in BOOLEAN, valid \in ValidateChargen : CreateChargenCharacter(c, n, listed, valid)
AcSpec == AcInit /\ [][AcNext]_acVars

\* A connection in the game plays a character its own account owns, though two connections may
\* have picked one name and their checks and inserts interleaved (account/service.go
\* BuildCharacter, store/account.go CreateAccountCharacter).
EntersAsOwner == \A c \in AcConns : acConn[c].at = "in" => acOwner[acConn[c].name] = acConn[c].acct

\* The safety invariant: the types, and the properties above that hold of every state.
\* A connection plays a character of its own account (account/service.go).
AccountsSafe == AcTypeOK /\ EntersAsOwner
=============================================================================
