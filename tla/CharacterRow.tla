---------------------------- MODULE CharacterRow ----------------------------
(* The ownership epoch of one character, in its two durable places: the       *)
(* characters row (internal/store/character.go) and the directory's placement *)
(* record (internal/directory/redis.go).  Each statement and each script is   *)
(* atomic, so each is an operator on the stored epoch.  The row's             *)
(* state_version CAS only tells contention among writers of one epoch apart   *)
(* and is abstracted to a choice in the module that uses these operators.     *)
EXTENDS Naturals

Larger(a, b) == IF a >= b THEN a ELSE b

\* Mutant: the mint trusts the caller's floor and forgets the row's own mark.
ClaimFromFloor(row, floor) == floor + 1

\* ClaimCharacter: owner_epoch = GREATEST(owner_epoch, floor) + 1.
ClaimCharacter(row, floor) == Larger(row, floor) + 1

\* Mutant: the ownership conjunct is missing, only state_version is compared.
SaveUnfenced(row, epoch) == epoch \in Nat

\* SaveCharacter's ownership conjunct, owner_epoch <= $6 ...
SaveOwned(row, epoch) == row <= epoch

\* ... and what an applied save leaves: GREATEST(owner_epoch, $6).
SaveCharacter(row, epoch) == Larger(row, epoch)

\* casPlacement applies only a strictly greater epoch (0: no record).
CasGranted(place, epoch) == epoch > place

\* registerPlacement accepts an equal epoch and keeps the larger one.
RegisterPlacement(place, epoch) == Larger(place, epoch)
=============================================================================
