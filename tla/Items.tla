------------------------------- MODULE Items -------------------------------
(* Things in one zone: who holds what, stacks, bags, worn slots, the marks an item *)
(* carries, and every command or operation that makes, moves or destroys one       *)
(* (container.go, entity.go, stack.go, binding.go, keep.go, crafting_op.go,        *)
(* recipe.go, salvage.go, loot.go, reset.go, transferaudit.go), with the item part *)
(* of saving and loading a character (character.go).  Kinds of item: "ore" stacks, *)
(* "ring" is worn, "bag" holds things.  One zone goroutine: a command is a step.   *)
EXTENDS Naturals, Sequences, SequencesExt, FiniteSetsExt

CONSTANTS ItPlayers,   \* characters in the room
          ItRoom,      \* the room
          ItNone,      \* no item, no holder, no player
          ItIds,       \* bound: entities alive at once, 1..n
          ItSlots,     \* the wear slots a ring fits, in the vocabulary's order, 1..n
          ItStack,     \* max_stack of ore
          ItCapacity,  \* a bag's capacity, 0: unlimited
          ItCeiling,   \* the reset's max of ore on the floor
          ItInputs,    \* the recipe's inputs: a sequence of [item, qty]
          ItMade       \* bound: units ever made

ASSUME ItAssumption == /\ ItPlayers # {} /\ ItIds \in Nat \ {0} /\ ItSlots \in Nat \ {0}
                       /\ ItStack \in Nat \ {0} /\ {ItCapacity, ItCeiling, ItMade} \subseteq Nat

Ids == 1..ItIds
Slots == 1..ItSlots
Holders == ItPlayers \cup {ItRoom} \cup Ids
Blank == [kind |-> "none", count |-> 0, bound |-> FALSE, kept |-> FALSE, closed |-> FALSE, from |-> ItNone]

VARIABLES
  itWorld,   \* the entities: items[i], contents[h] in order, worn[p][slot]
  itMade,    \* units that were asked into being: loot, produce, salvage, craft, reset
  itUsed,    \* units that were asked out of it
  itKeeper   \* itKeeper[i]: the player who last had item i in hand or in a bag in hand

itVars == <<itWorld, itMade, itUsed, itKeeper>>

ItTypeOK ==
  /\ itWorld.items \in [Ids -> [kind : {"none", "ore", "ring", "bag"}, count : 0..ItMade, bound : BOOLEAN,
                                kept : BOOLEAN, closed : BOOLEAN, from : ItPlayers \cup {ItNone}]]
  /\ \A h \in Holders : itWorld.contents[h] \in Seq(Ids)
  /\ itWorld.worn \in [ItPlayers -> [Slots -> Ids \cup {ItNone}]]
  /\ itMade \in Nat /\ itUsed \in Nat /\ itKeeper \in [Ids -> ItPlayers \cup {ItNone}]

Held(w, h) == ToSet(w.contents[h])
\* The thing and everything inside it; bags nest at most as deep as there are bags.
Inside(w, S) == S \cup UNION {Held(w, i) : i \in S}
Tree(w, S) == Inside(w, Inside(w, Inside(w, S)))
WornSlots(w, p, i) == {s \in Slots : w.worn[p][s] = i}
Live(w) == UNION {Held(w, h) : h \in Holders}
Fresh(w) == {i \in Ids : i \notin Live(w) /\ \A p \in ItPlayers : WornSlots(w, p, i) = {}}
Of(w, h, kind) == SelectSeq(w.contents[h], LAMBDA i : w.items[i].kind = kind)

\* slotOf walks a map: of an item in two slots it names either, and the slots are alike.
slotOf(w, p, i) == Min(WornSlots(w, p, i))
unequipFromWearer(w, h, i) ==
  IF h \in ItPlayers /\ WornSlots(w, h, i) # {} THEN [w EXCEPT !.worn[h][slotOf(w, h, i)] = ItNone] ELSE w
\* Move: out of the holder's hand and slots, into the destination's contents, or out of the world.
Detach(w, i) ==
  LET at == {h \in Holders : i \in Held(w, h)}
  IN IF at = {} THEN w
     ELSE LET h == CHOOSE x \in at : TRUE
          IN [unequipFromWearer(w, h, i) EXCEPT !.contents[h] = SelectSeq(@, LAMBDA j : j # i)]
Forget(w, i) == [w EXCEPT !.items[i] = IF i \in Fresh(w) THEN Blank ELSE @]
Move(w, i, dest) ==
  IF dest = ItNone THEN Forget(Detach(w, i), i)
  ELSE [Detach(w, i) EXCEPT !.contents[dest] = Append(@, i)]

\* spawn: a new entity of a kind, one unit, unmarked.
spawned(w, i, kind, n, bound) ==
  [w EXCEPT !.items[i] = [Blank EXCEPT !.kind = kind, !.count = n, !.bound = bound]]

\* Mutant: the source keeps what it gave to the stack it was folded into.
takesNothing(items, i, moved) == items
takesMoved(items, i, moved) == [items EXCEPT ![i].count = @ - moved]
\* mergeStackInto: fold ore into the stacks already held, in order, up to their limit; an emptied source goes.
mergeStackInto(w, h, i) ==
  LET row == Of(w, h, "ore")
      fold[k \in 0..Len(row)] ==
        IF k = 0 THEN w.items
        ELSE LET items == fold[k - 1]
                 j == row[k]
                 moved == IF j = i \/ items[j].count >= ItStack THEN 0
                          ELSE Min({items[i].count, ItStack - items[j].count})
             IN takesMoved([items EXCEPT ![j].count = @ + moved], i, moved)
      after == [w EXCEPT !.items = fold[Len(row)]]
  IN IF w.items[i].kind # "ore" THEN w
     ELSE IF after.items[i].count = 0 THEN Move(after, i, ItNone) ELSE after

heldQuantity(w, p, kind) == MapThenSumSet(LAMBDA i : w.items[i].count, {i \in Held(w, p) : w.items[i].kind = kind})
\* consumeQuantity: from the first item of the kind on, stack by stack.
consumeQuantity(w, p, kind, qty) ==
  LET row == Of(w, p, kind)
      take[k \in 0..Len(row)] ==
        IF k = 0 THEN [w |-> w, left |-> qty]
        ELSE LET a == take[k - 1]
                 n == a.w.items[row[k]].count
             IN IF a.left = 0 THEN a
                ELSE IF n > a.left THEN [w |-> [a.w EXCEPT !.items[row[k]].count = @ - a.left], left |-> 0]
                ELSE [w |-> Move(a.w, row[k], ItNone), left |-> a.left - n]
  IN take[Len(row)].w

\* Player p has in hand, or in a bag in hand, what the world w says.
keepers(w) ==
  LET live == Live(w)
      hands == [p \in ItPlayers |-> Tree(w, Held(w, p))]
  IN [i \in Ids |-> CASE i \notin live -> ItNone
                     [] \E p \in ItPlayers : i \in hands[p] -> CHOOSE p \in ItPlayers : i \in hands[p]
                     [] OTHER -> itKeeper[i]]
Becomes(w) == itWorld' = w /\ itKeeper' = keepers(w)
Counted(made, used) == itMade + made <= ItMade /\ itMade' = itMade + made /\ itUsed' = itUsed + used
Uncounted == UNCHANGED <<itMade, itUsed>>

\* A bag lies in the room, a ring in a hand.
ItInit ==
  \E p \in ItPlayers :
    /\ itWorld = [items    |-> [i \in Ids |-> CASE i = 1 -> [Blank EXCEPT !.kind = "bag", !.count = 1]
                                               [] i = 2 -> [Blank EXCEPT !.kind = "ring", !.count = 1]
                                               [] OTHER -> Blank],
                  contents |-> [h \in Holders |-> IF h = ItRoom THEN <<1>> ELSE IF h = p THEN <<2>> ELSE <<>>],
                  worn     |-> [q \in ItPlayers |-> [s \in Slots |-> ItNone]]]
    /\ itMade = 2 /\ itUsed = 0
    /\ itKeeper = [i \in Ids |-> IF i = 2 THEN p ELSE ItNone]

\* stampReleasedTree and recordCrossCharTransferAt: the mark of the releaser, on the thing and all inside it.
\* Mutant: only the thing itself.
markedTop(w, i) == {i}
marked(w, i) == Tree(w, {i})
stampReleased(w, i, p) ==
  [w EXCEPT !.items = [j \in Ids |-> IF j \in marked(w, i) THEN [@[j] EXCEPT !.from = p] ELSE @[j]]]
recordCrossCharTransfer(w, i) == stampReleased(w, i, ItNone)
Boxes(p) == {b \in Held(itWorld, p) \cup Held(itWorld, ItRoom) :
               itWorld.items[b].kind = "bag" /\ ~itWorld.items[b].closed}
\* equippedBlocked, keptBlocked, transferBlocked.
Blocked(p, i) == WornSlots(itWorld, p, i) # {} \/ itWorld.items[i].kept \/ itWorld.items[i].bound

cmdGet(p, i) ==
  /\ i \in Held(itWorld, ItRoom)
  /\ Becomes(mergeStackInto(recordCrossCharTransfer(Move(itWorld, i, p), i), p, i)) /\ Uncounted
\* `get all from` repeats this within the command; nothing is merged.
getFrom(p, i, b) ==
  /\ b \in Boxes(p) /\ i \in Held(itWorld, b)
  /\ Becomes(recordCrossCharTransfer(Move(itWorld, i, p), i)) /\ Uncounted
cmdDrop(p, i) ==
  /\ i \in Held(itWorld, p) /\ ~Blocked(p, i)
  /\ Becomes(stampReleased(Move(itWorld, i, ItRoom), i, p)) /\ Uncounted
cmdPut(p, i, b) ==
  /\ i \in Held(itWorld, p) /\ b \in Boxes(p) /\ i # b /\ ~Blocked(p, i)
  /\ ItCapacity = 0 \/ Len(itWorld.contents[b]) < ItCapacity
  /\ Becomes(stampReleased(Move(itWorld, i, b), i, p)) /\ Uncounted
cmdOpenClose(p, b) ==
  /\ b \in Held(itWorld, p) \cup Held(itWorld, ItRoom) /\ itWorld.items[b].kind = "bag"
  /\ Becomes([itWorld EXCEPT !.items[b].closed = ~@]) /\ Uncounted
cmdKeep(p, i) ==
  /\ i \in Held(itWorld, p) /\ Becomes([itWorld EXCEPT !.items[i].kept = ~@]) /\ Uncounted

\* splitStack: a new, unmarked entity of the kind takes n units.
splitStack(p, i, n) ==
  /\ i \in Held(itWorld, p) /\ itWorld.items[i].kind = "ore" /\ n \in 1..(itWorld.items[i].count - 1)
  /\ Fresh(itWorld) # {}
  /\ LET j == Min(Fresh(itWorld))
     IN Becomes(Move([spawned(itWorld, j, "ore", n, FALSE) EXCEPT !.items[i].count = @ - n], j, p))
  /\ Uncounted

\* wear, wield and hold: the first free slot the ring fits; the item may be worn already.
Mount(w, p, i, s, bind) == [w EXCEPT !.worn[p][s] = i, !.items[i].bound = @ \/ bind]
cmdWear(p, i, bind) ==
  /\ i \in Held(itWorld, p) /\ itWorld.items[i].kind = "ring" /\ WornSlots(itWorld, p, ItNone) # {}
  /\ Becomes(Mount(itWorld, p, i, Min(WornSlots(itWorld, p, ItNone)), bind)) /\ Uncounted
cmdRemove(p, i) ==
  /\ i \in Ids /\ WornSlots(itWorld, p, i) # {}
  /\ Becomes([itWorld EXCEPT !.worn[p][slotOf(itWorld, p, i)] = ItNone]) /\ Uncounted

\* deliverLoot, opProduceItem, produceRecipeOutput, deliverComponent: spawn, mark, hand over, merge unless loot.
handed(w, p, kind, n, bound, merges) ==
  LET i == Min(Fresh(w))
      got == Move(spawned(w, i, kind, n, bound), i, p)
  IN IF merges THEN mergeStackInto(got, p, i) ELSE got
deliverLoot(p, kind, bound) ==
  /\ Fresh(itWorld) # {} /\ Counted(1, 0) /\ Becomes(handed(itWorld, p, kind, 1, bound, FALSE))
opProduceItem(p, n, bound) ==
  /\ Fresh(itWorld) # {} /\ Counted(n, 0) /\ Becomes(handed(itWorld, p, "ore", n, bound, TRUE))
opConsumeItem(p, kind, n) ==
  /\ heldQuantity(itWorld, p, kind) >= n
  /\ Becomes(consumeQuantity(itWorld, p, kind, n)) /\ Counted(0, n)

\* opCraftRecipe: every input is checked, then consumed; an input the earlier ones used up ends it with an error.
opCraftRecipe(p, bound) ==
  LET step[k \in 0..Len(ItInputs)] ==
        IF k = 0 THEN [w |-> itWorld, used |-> 0, ok |-> TRUE]
        ELSE LET a == step[k - 1]
                 in == ItInputs[k]
             IN IF a.ok /\ heldQuantity(a.w, p, in.item) >= in.qty
                THEN [w |-> consumeQuantity(a.w, p, in.item, in.qty), used |-> a.used + in.qty, ok |-> TRUE]
                ELSE [a EXCEPT !.ok = FALSE]
      end == step[Len(ItInputs)]
  IN /\ \A k \in 1..Len(ItInputs) : heldQuantity(itWorld, p, ItInputs[k].item) >= ItInputs[k].qty
     /\ end.ok => Fresh(end.w) # {}
     /\ Becomes(IF end.ok THEN handed(end.w, p, "ring", 1, bound, TRUE) ELSE end.w)
     /\ Counted(IF end.ok THEN 1 ELSE 0, end.used)
\* opSalvageItem: not worn, not kept; one unit goes, a component comes.
opSalvageItem(p, i, bound) ==
  /\ i \in Held(itWorld, p) /\ itWorld.items[i].kind = "ring"
  /\ WornSlots(itWorld, p, i) = {} /\ ~itWorld.items[i].kept
  /\ Becomes(handed(Move(itWorld, i, ItNone), p, "ore", 1, bound, TRUE)) /\ Counted(1, 1)
\* applyReset: as many as are missing from the floor, one entity each.
applyReset ==
  /\ Len(Of(itWorld, ItRoom, "ore")) < ItCeiling /\ Fresh(itWorld) # {} /\ Counted(1, 0)
  /\ LET i == Min(Fresh(itWorld)) IN Becomes(Move(spawned(itWorld, i, "ore", 1, FALSE), i, ItRoom))

\* dumpInventory, dumpEquipment and applyStateComponents: logout and login.  The inventory is what is not worn;
\* the equipment is written slot by slot, and every slot spawns an item of its own.  The releaser's mark is not saved.
dumpedItem(item) == [item EXCEPT !.from = ItNone]
relog(p) ==
  LET worn == {s \in Slots : itWorld.worn[p][s] # ItNone}
      copies == {s \in worn : \E t \in worn : t < s /\ itWorld.worn[p][t] = itWorld.worn[p][s]}
      mine == Tree(itWorld, Held(itWorld, p))
      place == CHOOSE f \in [worn -> Ids] :
                 /\ \A s \in worn \ copies : f[s] = itWorld.worn[p][s]
                 /\ \A s \in copies : f[s] \in Fresh(itWorld) /\ \A t \in copies : f[t] = f[s] => t = s
      kept == SelectSeq(itWorld.contents[p], LAMBDA i : WornSlots(itWorld, p, i) = {})
      equipped == SetToSortSeq({place[s] : s \in worn}, LAMBDA i, j : i < j)
  IN /\ Cardinality(copies) <= Cardinality(Fresh(itWorld))
     /\ Becomes([items    |-> [i \in Ids |->
                      IF \E s \in worn : place[s] = i
                      THEN dumpedItem(itWorld.items[itWorld.worn[p][CHOOSE s \in worn : place[s] = i]])
                      ELSE IF i \in mine THEN dumpedItem(itWorld.items[i]) ELSE itWorld.items[i]],
                 contents |-> [itWorld.contents EXCEPT ![p] = kept \o equipped],
                 worn     |-> [itWorld.worn EXCEPT ![p] = [s \in Slots |-> IF s \in worn THEN place[s] ELSE ItNone]]])
     /\ Uncounted

ItNext ==
  \/ applyReset
  \/ \E p \in ItPlayers :
       \/ relog(p)
       \/ \E i \in Ids : \/ cmdGet(p, i) \/ cmdDrop(p, i) \/ cmdKeep(p, i) \/ cmdOpenClose(p, i) \/ cmdRemove(p, i)
                         \/ \E n \in 1..ItStack : splitStack(p, i, n)
                         \/ \E b \in Ids : getFrom(p, i, b) \/ cmdPut(p, i, b)
                         \/ \E bound \in BOOLEAN : cmdWear(p, i, bound) \/ opSalvageItem(p, i, bound)
       \/ \E bound \in BOOLEAN : \/ opCraftRecipe(p, bound)
                                 \/ \E kind \in {"ore", "ring"} : deliverLoot(p, kind, bound)
                                 \/ \E n \in 1..ItStack : opProduceItem(p, n, bound)
       \/ \E kind \in {"ore", "ring"}, n \in 1..ItStack : opConsumeItem(p, kind, n)
ItSpec == ItInit /\ [][ItNext]_itVars

Units(w, S) == MapThenSumSet(LAMBDA i : w.items[i].count, S)

(* No command loses or copies anything: what was made and not used up is in the world, once.  Stacks that are
   split, merged on pickup or partly folded, bags in bags, a recipe that fails halfway and a logout keep it. *)
ItemsConserved == Units(itWorld, Live(itWorld)) + itUsed = itMade

(* What lies in the room, in a bag or not, and was last in a player's hands carries that player's mark, so that
   the pickup by another player is recorded as a transfer between them. *)
MarkNamesKeeper == \A i \in Tree(itWorld, Held(itWorld, ItRoom)) : itWorld.items[i].from = itKeeper[i]

(* A worn slot names a thing in the wearer's hands: nothing destroyed or moved away stays worn. *)
WornIsHeld == \A p \in ItPlayers, s \in Slots : itWorld.worn[p][s] \in Held(itWorld, p) \cup {ItNone}

BoundUnits(w) == Units(w, {i \in Live(w) : w.items[i].bound})
(* A bound unit stays bound until it is used up: no command turns it into one that can be given away. *)
BoundStays == [][itUsed' = itUsed => BoundUnits(itWorld') >= BoundUnits(itWorld)]_itVars

\* The safety invariant: the types, and the properties above that hold of every state.
\* Nothing is lost or copied, what lies about names who let it go, and what is worn is held (container.go, stack.go, entity.go).
ItemsSafe == ItTypeOK /\ ItemsConserved /\ MarkNamesKeeper /\ WornIsHeld
=============================================================================
