----------------------------- MODULE Inventory -----------------------------
(***************************************************************************)
(* What a single player owns, and the blocks that are made of it           *)
(* (lib/src/game.rs, drops.rs, recipes.rs): the row of inventory slots,    *)
(* the stack on the mouse, the chests, the drops on the ground, the        *)
(* crafting list and a column of the world.                                *)
(*                                                                         *)
(* One thread runs all of it: an action is a click, a key or a frame, with *)
(* everything it does.  What goes wrong here takes a long sequence of      *)
(* them.  The direction bits of blocks, sounds and rendering are left out, *)
(* and so is multiplayer, in which these handlers change nothing.          *)
(***************************************************************************)
EXTENDS Integers, Sequences, FiniteSets, FiniteSetsExt, Bags

CONSTANTS
  RowLength,     \* 8: the slots of the inventory
  ChestLength,   \* 32: the slots of a chest
  MaxStack,      \* 999: the largest stack that crafting makes
  Height,        \* the spots of the column are 1..Height
  Games,         \* the columns a game starts with, and the deaths and stamps it has
                 \* behind it
  StartingItems, \* STARTINGITEMS
  Ids,           \* the ids of blocks and items of this instance, all but 0
  Recipes,       \* RECIPES: what each needs, what it makes, made by hand or not
  Foods, NonPlaceable, Overwritable, \* the lists in blockinfo.rs
  Damages,       \* what a fall or an attack can cost; what does not fit in the i8 it
                 \* is cast to is in Player
  Builds,        \* what a stamped model can put in the column: ids, by spot
  Absent,        \* no chest
  MaxDeaths,     \* bound: each death hands out StartingItems again
  MaxStamps      \* bound: each stamp makes blocks of nothing

Water == 2
Leaves == 7
Crystals == 16
RedCrystal == 17
Door == 19
Chest == 21
TallGrass == 23
Table == 31
Apple == 32

Spots == 1..Height
Stack(id, n) == [id |-> id, n |-> n]
Nothing == Stack(0, 0)
Stacks == [id : Ids \cup {0}, n : Nat]
WellFormed(stack) == stack.id = 0 <=> stack.n = 0

(* A block: its id and, for a door, which half it is and whether it is     *)
(* open.  Above and below the column is rock.                              *)
Plain(id) == [id |-> id, top |-> FALSE, open |-> FALSE]
Air == Plain(0)
Blocks == [id : Ids \cup {0}, top : BOOLEAN, open : BOOLEAN]
(* Ladders, chests and conveyors are turned to the player.                 *)
Directed == {20, Chest, 45}

(* No world is generated and no model drawn with doors in it, a recipe     *)
(* names an id once and never what it makes, and the lists of the game are *)
(* as in blockinfo.rs.                                                     *)
ASSUME InventoryAssumption ==
  /\ RowLength \in Nat \ {0} /\ ChestLength \in Nat \ {0}
  /\ MaxStack \in Nat /\ Height \in Nat /\ MaxDeaths \in Nat /\ MaxStamps \in Nat
  /\ 0 \notin Ids
  /\ Crystals \in Ids => RedCrystal \in Ids
  /\ Leaves \in Ids => Apple \in Ids
  /\ Games \subseteq [column : [Spots -> (Ids \cup {0}) \ {Door}],
                     deaths : 0..MaxDeaths, stamps : 0..MaxStamps]
  /\ \A b \in Builds : /\ DOMAIN b \subseteq Spots
                       /\ \A s \in DOMAIN b : b[s] \in Ids \ {Door}
  /\ StartingItems \in [1..RowLength -> {st \in Stacks : WellFormed(st)}]
  /\ \A r \in Recipes : /\ r.needs \subseteq Stacks /\ r.makes \in Stacks
                        /\ r.needs # {} /\ r.makes.id # 0 /\ r.makes.n > 0
                        /\ \A s \in r.needs : /\ s.id \notin {0, r.makes.id}
                                              /\ s.n > 0
                        /\ \A s, t \in r.needs : s.id = t.id => s = t
                        /\ r.byHand \in BOOLEAN
  /\ Foods \subseteq NonPlaceable /\ 0 \notin NonPlaceable
  /\ (Directed \cup {Door}) \cap NonPlaceable = {}
  /\ 0 \in Overwritable /\ Door \notin Overwritable
  /\ Damages \subseteq 0..127
  /\ Absent \notin [1..ChestLength -> Stacks]

VARIABLES
  world,      \* the blocks of the column
  inv,        \* inventory.inv
  mouse,      \* mouse_slot
  chests,     \* chest_registry: by spot, Absent until the chest is opened
  drops,      \* the stacks that lie around, as a bag
  openChest,  \* hud.current_chest while hud.chest_open, or Absent
  crafting,   \* crafting_open
  smallTable, \* ATSMALLTABLE
  building,   \* BUILD_PREVIEW_MODE
  offered,    \* CURRENT_AVAIL_RECIPES
  health,
  deaths,     \* how often the player has died, and
  stamps      \* how often a model was stamped: counted for their bounds alone

itemVars == <<inv, mouse, chests, drops>>
screenVars == <<openChest, crafting, smallTable, building>>
lifeVars == <<health, deaths, stamps>>
vars == <<world, itemVars, screenVars, offered, lifeVars>>

EmptyChest == [i \in 1..ChestLength |-> Nothing]

Init ==
  /\ \E game \in Games : /\ world = [s \in Spots |-> Plain(game.column[s])]
                        /\ deaths = game.deaths /\ stamps = game.stamps
  /\ inv = StartingItems /\ mouse = Nothing
  /\ chests = [s \in Spots |-> Absent]
  /\ drops = EmptyBag
  /\ openChest = Absent /\ crafting = FALSE /\ smallTable = FALSE
  /\ building = FALSE
  /\ offered = {}
  /\ health = 20

At(s) == IF s \in Spots THEN world[s] ELSE Plain(Table)

----------------------------------------------------------------------------
(* Crafting: what a row of slots v holds, and what recipe r makes of it.   *)
(* A definition whose name ends in a bug's description is that bug planted *)
(* in the definition after it: the properties below must not survive it.   *)

Sums(row, n) ==
  LET sum[k \in 0..n] == IF k = 0 THEN 0 ELSE sum[k - 1] + row[k]
  IN sum

OfId(stack, id) == IF stack.id = id THEN stack.n ELSE 0
Counts(v, id) == [i \in DOMAIN v |-> OfId(v[i], id)]
AmountUpTo(v, id, k) == Sums(Counts(v, id), Len(v))[k]
Amount(v, id) == AmountUpTo(v, id, Len(v))

HasIngredients(v, r) == \A need \in r.needs : Amount(v, need.id) >= need.n

(* The list: a small table, or none, leaves the other recipes out.         *)
Affordable(v, small) ==
  {r \in Recipes : HasIngredients(v, r) /\ (small => r.byHand)}

(* The ingredients are taken from the first slots that hold them.          *)
Needed(r, id) ==
  IF \E need \in r.needs : need.id = id
    THEN (CHOOSE need \in r.needs : need.id = id).n
    ELSE 0
Taken(v, r, i) ==
  LET id == v[i].id
  IN Min({v[i].n, Max({0, Needed(r, id) - AmountUpTo(v, id, i - 1)})})
Subtracted(v, r) ==
  [i \in DOMAIN v |-> LET left == v[i].n - Taken(v, r, i)
                      IN IF left = 0 THEN Nothing ELSE Stack(v[i].id, left)]

ResultSlots(v, r) ==
  {i \in DOMAIN v : v[i].id \in {0, r.makes.id} /\ v[i].n + r.makes.n <= MaxStack}
SetInInventory(v, slot, stack) == [v EXCEPT ![slot] = stack]
WithResult(v, r) ==
  LET slot == Min(ResultSlots(v, r))
  IN SetInInventory(v, slot, Stack(r.makes.id, v[slot].n + r.makes.n))

Fits(v, r) == ResultSlots(Subtracted(v, r), r) # {}
CraftedOne_Unfit(v, r) ==
  IF ~HasIngredients(v, r) THEN v
  ELSE IF Fits(v, r) THEN WithResult(Subtracted(v, r), r) ELSE Subtracted(v, r)

CraftedOne(v, r) ==
  IF HasIngredients(v, r) /\ Fits(v, r) THEN WithResult(Subtracted(v, r), r)
                                        ELSE v

(* craft_in_local_inv: here the ingredients go even if the result does not *)
(* fit.  The loop stops with them, or with the ingredients at their end.   *)
CraftRound_KeepsOn(round, r) ==
  LET v == round.inv
      w == Subtracted(v, r)
  IN IF ~HasIngredients(v, r) THEN [round EXCEPT !.more = FALSE]
     ELSE IF Fits(v, r) THEN [round EXCEPT !.inv = WithResult(w, r)]
                        ELSE [round EXCEPT !.inv = w]

CraftRound(round, r) ==
  LET v == round.inv
      w == Subtracted(v, r)
  IN IF ~HasIngredients(v, r) THEN [round EXCEPT !.more = FALSE]
     ELSE IF Fits(v, r) THEN [round EXCEPT !.inv = WithResult(w, r)]
                        ELSE [inv |-> w, more |-> FALSE]

(* Every round but the last takes one at least of any of the needs.        *)
Rounds(v, r) == 1 + Amount(v, (CHOOSE need \in r.needs : TRUE).id)
AfterRounds(v, r) ==
  LET after[k \in 0..Rounds(v, r)] ==
        IF k = 0 THEN [inv |-> v, more |-> TRUE]
        ELSE LET before == after[k - 1]
             IN IF before.more THEN CraftRound(before, r) ELSE before
  IN after
CraftedAll(v, r) == AfterRounds(v, r)[Rounds(v, r)].inv

(* A click on an entry of the list, with ctrl for all of a recipe.         *)
Craft(r, crafted) ==
  /\ crafting /\ r \in offered
  /\ inv' = crafted
  /\ offered' = Affordable(inv', smallTable)
  /\ UNCHANGED <<world, mouse, chests, drops, screenVars, lifeVars>>

CraftOne(r) == Craft(r, CraftedOne(inv, r))
CraftAll(r) == Craft(r, CraftedAll(inv, r))

(* A frame: the inventory is dirty from the start and for ever, so every   *)
(* frame updates its views, and with them the list.                        *)
UpdateInventory ==
  /\ offered' = Affordable(inv, smallTable)
  /\ UNCHANGED <<world, itemVars, screenVars, lifeVars>>

(* The "Craft" key; the list is made anew at once.                         *)
CraftKey ==
  /\ ~crafting
  /\ crafting' = TRUE /\ smallTable' = TRUE
  /\ offered' = Affordable(inv, TRUE)
  /\ UNCHANGED <<world, itemVars, openChest, building, lifeVars>>

(* The "Craft" key again; an open chest stays open.                        *)
CloseCrafting ==
  /\ crafting
  /\ crafting' = FALSE
  /\ UNCHANGED <<world, itemVars, openChest, smallTable, building, offered,
                 lifeVars>>

(* The "Exit/Menu" key.                                                    *)
Exit ==
  /\ crafting \/ openChest # Absent
  /\ crafting' = FALSE /\ openChest' = Absent
  /\ UNCHANGED <<world, itemVars, smallTable, building, offered, lifeVars>>

----------------------------------------------------------------------------
(* Drops.  What is picked up goes to a slot that holds the same id, however*)
(* full it is, or to the first empty one; otherwise the drop stays.        *)

(* add_drop: among the leaves there is an apple now and then.              *)
Dropped(id) == IF id = Leaves THEN {Leaves, Apple} ELSE {id}
Drop(stack) == drops' = drops (+) SetToBag({stack})

SlotsFor(v, id) ==
  LET same == {i \in DOMAIN v : v[i].id = id}
  IN IF same # {} THEN same ELSE {i \in DOMAIN v : v[i].id = 0}

PickUp(stack) ==
  /\ BagIn(stack, drops)
  /\ SlotsFor(inv, stack.id) # {}
  /\ LET slot == Min(SlotsFor(inv, stack.id))
     IN inv' = [inv EXCEPT ![slot] = Stack(stack.id, @.n + stack.n)]
  /\ drops' = drops (-) SetToBag({stack})
  /\ offered' = Affordable(inv', smallTable)
  /\ UNCHANGED <<world, mouse, chests, screenVars, lifeVars>>

----------------------------------------------------------------------------
(* cast_break_ray.  An open chest does not stop a player who holds the     *)
(* button down.  Crystals go with all that touch them; a door goes with    *)
(* its other half, wherever its top bit says that is.                      *)

Solid(b) == b.id \notin {0, Water, TallGrass}
Patch(s) == {t \in Spots : \A u \in Min({s, t})..Max({s, t}) : world[u].id = Crystals}
OtherHalf_Above(s) == s + 1
OtherHalf(s) == IF world[s].top THEN s - 1 ELSE s + 1

Break(s) ==
  /\ ~crafting /\ Solid(world[s])
  /\ LET id == world[s].id
         gone == CASE id = Crystals -> Patch(s)
                   [] id = Door -> {s, OtherHalf(s)}
                   [] OTHER -> {s}
     IN /\ world' = [t \in Spots |-> IF t \in gone THEN Air ELSE world[t]]
        /\ \E what \in IF id = Crystals THEN {RedCrystal} ELSE Dropped(id) :
             Drop(Stack(what, 1))
  /\ UNCHANGED <<inv, mouse, chests, screenVars, offered, lifeVars>>

----------------------------------------------------------------------------
(* cast_place_ray, with the stack in the selected slot i.  Whatever it     *)
(* does, food in the hand is eaten at the end.                             *)

(* v[i] loses one; whether it was the last one is decided by held, the     *)
(* slot as it was before the click.                                        *)
LoseOne(v, i, held) == [v EXCEPT ![i] = IF held.n = 1 THEN Nothing
                                                      ELSE Stack(@.id, @.n - 1)]
Eat(v, i, held) ==
  IF held.id \in Foods
    THEN /\ inv' = LoseOne(v, i, held)
         /\ health' = Min({health + 6, 20})
    ELSE inv' = v /\ UNCHANGED health

Placeable_Always(id) == TRUE
Placeable(id) == id \notin NonPlaceable

(* A right click uses what is in the hand, or stamps a model.              *)
InHand == openChest = Absent /\ ~building

UseDoor(s, i) ==
  /\ InHand
  /\ world[s].id = Door
  /\ world' = [t \in Spots |-> IF t \in {s, OtherHalf(s)}
                                 THEN [world[t] EXCEPT !.open = ~@]
                                 ELSE world[t]]
  /\ Eat(inv, i, inv[i])
  /\ UNCHANGED <<mouse, chests, drops, screenVars, offered, deaths, stamps>>

(* The list of recipes is made anew with the view of the chest.            *)
UseChest(s, i) ==
  /\ InHand
  /\ world[s].id = Chest
  /\ openChest' = s
  /\ chests' = [chests EXCEPT ![s] = IF @ = Absent THEN EmptyChest ELSE @]
  /\ Eat(inv, i, inv[i])
  /\ offered' = Affordable(inv', smallTable)
  /\ UNCHANGED <<world, mouse, drops, crafting, smallTable, building, deaths,
                 stamps>>

(* Here it is left as it is until the next frame.                          *)
UseTable(s, i) ==
  /\ InHand
  /\ world[s].id = Table
  /\ crafting' = TRUE /\ smallTable' = FALSE
  /\ Eat(inv, i, inv[i])
  /\ UNCHANGED <<world, mouse, chests, drops, openChest, building, offered,
                 deaths, stamps>>

UseNothing(i) ==
  /\ InHand
  /\ Eat(inv, i, inv[i])
  /\ UNCHANGED <<world, mouse, chests, drops, screenVars, offered, deaths, stamps>>

(* A door needs room above and something below.  Without them it is gone   *)
(* from the slot all the same.                                             *)
DoorFits(s) == At(s + 1) = Air /\ At(s - 1) # Air
DoorHalf(top) == [id |-> Door, top |-> top, open |-> FALSE]
WithDoor(s) ==
  IF DoorFits(s)
    THEN [world EXCEPT ![s] = DoorHalf(FALSE), ![s + 1] = DoorHalf(TRUE)]
    ELSE world
(* What is not turned to the player must be placeable.                     *)
WithBlock(id, s) ==
  IF id = Door THEN WithDoor(s)
  ELSE IF id \in Directed \/ Placeable(id) THEN [world EXCEPT ![s] = Plain(id)]
  ELSE world

Place(s, i) ==
  /\ InHand
  /\ inv[i].n > 0
  /\ world[s].id \in Overwritable
  /\ world' = WithBlock(inv[i].id, s)
  /\ Eat(IF Placeable(inv[i].id) THEN LoseOne(inv, i, inv[i]) ELSE inv, i, inv[i])
  /\ UNCHANGED <<mouse, chests, drops, screenVars, offered, deaths, stamps>>

----------------------------------------------------------------------------
(* The "Build Mode Toggle" key, and a right click in that mode: the model  *)
(* that is shown is put into the world, for nothing and over whatever is   *)
(* there.  An overwritten chest keeps its stacks in the registry.          *)

BuildKey ==
  /\ building' = ~building
  /\ UNCHANGED <<world, itemVars, openChest, crafting, smallTable, offered,
                 lifeVars>>

Stamped(b) == [s \in Spots |-> IF s \in DOMAIN b THEN Plain(b[s]) ELSE world[s]]

Build(b) ==
  /\ openChest = Absent /\ building
  /\ stamps < MaxStamps
  /\ stamps' = stamps + 1
  /\ world' = Stamped(b)
  /\ UNCHANGED <<itemVars, screenVars, offered, health, deaths>>

----------------------------------------------------------------------------
(* mouse_button with a chest open: the stack on the mouse and a slot are   *)
(* merged if they have one id, and exchanged otherwise.                    *)

Merge_KeepsMouse(slot) == [slot |-> Stack(slot.id, slot.n + mouse.n), mouse |-> mouse]
Merge(slot) == [slot |-> Stack(slot.id, slot.n + mouse.n), mouse |-> Nothing]
Clicked(slot) == IF slot.id = mouse.id THEN Merge(slot)
                                       ELSE [slot |-> mouse, mouse |-> slot]

(* Only an exchange updates the views, and with them the list of recipes.  *)
AfterClick(slot) ==
  /\ mouse' = Clicked(slot).mouse
  /\ offered' = IF slot.id = mouse.id THEN offered ELSE Affordable(inv', smallTable)

ClickChest(k) ==
  /\ openChest # Absent
  /\ chests' = [chests EXCEPT ![openChest][k] = Clicked(@).slot]
  /\ UNCHANGED inv
  /\ AfterClick(chests[openChest][k])
  /\ UNCHANGED <<world, drops, screenVars, lifeVars>>

ClickInv(i) ==
  /\ openChest # Absent
  /\ inv' = [inv EXCEPT ![i] = Clicked(@).slot]
  /\ AfterClick(inv[i])
  /\ UNCHANGED <<world, chests, drops, screenVars, lifeVars>>

----------------------------------------------------------------------------
(* take_damage, for amounts that fit in an i8.  A player who dies drops    *)
(* every slot, the empty ones too, and starts with STARTINGITEMS.          *)

Hurt(amount) == Max({health - amount, 0})
SlotBag(v) == [st \in {v[i] : i \in DOMAIN v} |-> Cardinality({i \in DOMAIN v : v[i] = st})]
AsDrops(stack) == {Stack(d, stack.n) : d \in Dropped(stack.id)}
DroppedRows == {v \in [1..RowLength -> UNION {AsDrops(inv[i]) : i \in 1..RowLength}] :
                  \A i \in 1..RowLength : v[i] \in AsDrops(inv[i])}

TakeDamage(amount) ==
  /\ IF Hurt(amount) > 0
       THEN /\ health' = Hurt(amount)
            /\ UNCHANGED <<inv, drops, deaths>>
       ELSE /\ deaths < MaxDeaths
            /\ deaths' = deaths + 1 /\ health' = 20
            /\ \E v \in DroppedRows : drops' = drops (+) SlotBag(v)
            /\ inv' = StartingItems
  /\ UNCHANGED <<world, mouse, chests, screenVars, offered, stamps>>

----------------------------------------------------------------------------

Crafts == \E r \in Recipes : CraftOne(r) \/ CraftAll(r)
Uses ==
  \E i \in 1..RowLength :
    \/ UseNothing(i)
    \/ \E s \in Spots : UseDoor(s, i) \/ UseChest(s, i) \/ UseTable(s, i)
                          \/ Place(s, i)
Clicks == (\E k \in 1..ChestLength : ClickChest(k)) \/ \E i \in 1..RowLength : ClickInv(i)

Next ==
  \/ Crafts \/ UpdateInventory \/ CraftKey \/ CloseCrafting \/ Exit
  \/ \E stack \in BagToSet(drops) : PickUp(stack)
  \/ \E s \in Spots : Break(s)
  \/ Uses \/ Clicks
  \/ BuildKey \/ \E b \in Builds : Build(b)
  \/ \E amount \in Damages : TakeDamage(amount)

Spec == Init /\ [][Next]_vars

----------------------------------------------------------------------------
(* Properties.                                                             *)

AllStacks ==
  {inv[i] : i \in 1..RowLength} \cup {mouse} \cup BagToSet(drops)
    \cup UNION {{chests[s][k] : k \in 1..ChestLength} :
                  s \in {t \in Spots : chests[t] # Absent}}

(* Types.  No sequence of clicks, drops, meals and crafting leaves an id   *)
(* without a count or a count without an id in any slot: the decrements    *)
(* of two handlers never meet in one click.                                *)
TypeOK ==
  /\ world \in [Spots -> Blocks]
  /\ \A st \in AllStacks : st \in Stacks /\ WellFormed(st)
  /\ DOMAIN inv = 1..RowLength
  /\ openChest \in {s \in Spots : chests[s] # Absent} \cup {Absent}
  /\ crafting \in BOOLEAN /\ smallTable \in BOOLEAN /\ building \in BOOLEAN
  /\ offered \subseteq Recipes
  /\ health \in 1..20 /\ deaths \in 0..MaxDeaths /\ stamps \in 0..MaxStamps

(* The spot where a door at s has its other half, and a door without it,   *)
(* or with one half open and the other closed.                             *)
Partner(s) == IF world[s].top THEN s - 1 ELSE s + 1
Torn(s) ==
  LET b == world[s]
      other == At(Partner(s))
  IN b.id = Door /\ ~(other.id = Door /\ other.top = ~b.top /\ other.open = b.open)

(* Doors stay whole, and are whole when placed, whatever is broken, placed *)
(* and toggled around them.  Only a model stamped over one half tears a    *)
(* door; and half a door that is left takes for its other half what stands *)
(* there, and may tear a door that was put up beside it since.             *)
DoorsWhole ==
  [][\A s \in Spots : Torn(s)' =>
       \/ Torn(s)
       \/ \E b \in Builds : Build(b) /\ Partner(s) \in DOMAIN b
       \/ \E t \in Spots : /\ Torn(t) /\ world'[t] # world[t]
                           /\ Partner(t) \in {s, Partner(s)}]_world

Opened == {s \in Spots : chests[s] # Absent}
SumOver(f) == MapThenSumSet(LAMBDA x : f[x], DOMAIN f)
(* A door counts once: its upper half only where the lower one is missing. *)
OverLower(s) == world[s].top /\ At(s - 1).id = Door /\ ~At(s - 1).top
InWorld(id) == Cardinality({s \in Spots : world[s].id = id /\ ~OverLower(s)})
InChests(id) ==
  SumOver([s \in Opened |-> Amount(chests[s], id)])
OnGround(id) == SumOver([st \in BagToSet(drops) |-> drops[st] * OfId(st, id)])
Total(id) ==
  InWorld(id) + Amount(inv, id) + OfId(mouse, id) + InChests(id) + OnGround(id)

(* Nothing is made from nothing: if there is more of an id in the world,   *)
(* the slots, the chests and on the ground, then it was crafted, it came   *)
(* out of crystals or leaves, a new life began, or a model with that id    *)
(* was stamped: the one click that makes blocks at no cost.  Half a door   *)
(* that a stamp has left gives no second door.                             *)
Sources(id) == {n.id : n \in UNION {r.needs : r \in {q \in Recipes : q.makes.id = id}}}
                 \cup (IF id = RedCrystal THEN {Crystals} ELSE {})
                 \cup (IF id = Apple THEN {Leaves} ELSE {})
InPlay == {st.id : st \in AllStacks} \cup {world[s].id : s \in Spots}
NothingFromNothing ==
  [][deaths' = deaths =>
       \A id \in InPlay' \ {0} : Total(id)' > Total(id) =>
         \/ \E source \in Sources(id) : Total(source)' < Total(source)
         \/ \E b \in Builds : Build(b) /\ id \in {b[s] : s \in DOMAIN b}
      ]_<<world, itemVars>>

(* What one craft did, counted in crafts: the ingredients of spent and the *)
(* result of made.                                                         *)
Crafted(r, spent, made) ==
  /\ \A need \in r.needs :
       Amount(inv, need.id) - Amount(inv', need.id) = spent * need.n
  /\ Amount(inv', r.makes.id) - Amount(inv, r.makes.id) = made * r.makes.n

(* "Only execute the subtraction and addition of items if they will have   *)
(* that result slot available": a single craft takes everything and gives  *)
(* everything, or does nothing, even from a list that is out of date.      *)
CraftIsAllOrNothing ==
  [][\A r \in Recipes :
       CraftOne(r) => Crafted(r, 0, 0) \/ Crafted(r, 1, 1)]_vars

(* Crafting all works on the row itself (game.rs:3234), though the comment *)
(* above it speaks of an imaginary clone: with no slot for the result the  *)
(* last set of ingredients is lost, and never more than one set.           *)
CraftAllLosesOneAtMost ==
  [][\A r \in Recipes :
       CraftAll(r) => \E k \in 0..Rounds(inv, r) :
                        Crafted(r, k, k) \/ Crafted(r, k + 1, k)]_vars
=============================================================================
