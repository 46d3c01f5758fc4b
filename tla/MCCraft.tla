------------------------------ MODULE MCCraft ------------------------------
(***************************************************************************)
(* Inventory with ids and recipes of the game and few slots, so that a     *)
(* player's row is soon full: planks from a log, doors from planks, pieces *)
(* of bamboo, which are food, and the bench every player starts with; and  *)
(* a model whose stamp puts cobblestone in the column.                     *)
(***************************************************************************)
EXTENDS Inventory

Cobblestone == 5
Logs == 6
Planks == 10
Bamboo == 22
BambooPiece == 33

Recipe(needs, makes, byHand) == [needs |-> needs, makes |-> makes, byHand |-> byHand]
ToPlanks == Recipe({Stack(Logs, 1)}, Stack(Planks, 4), TRUE)
ToDoors == Recipe({Stack(Planks, 4)}, Stack(Door, 2), FALSE)
ToPieces == Recipe({Stack(Bamboo, 1)}, Stack(BambooPiece, 4), TRUE)

OneTable == <<Stack(Table, 1), Nothing>>

AllRecipes == {ToPlanks, ToDoors, ToPieces}
AllIds == {Cobblestone, Logs, Planks, Door, Table, Crystals, RedCrystal, Bamboo,
           BambooPiece, Chest, TallGrass}

(* Three logs, which become up to six doors; bamboo on a chest, under      *)
(* grass that can neither be broken nor built on; a crystal on a chest,    *)
(* with a death to come.                                                   *)
Logging == [column |-> <<Logs, Logs, Logs>>, deaths |-> 1, stamps |-> 1]
Gathering == [column |-> <<Chest, Bamboo, TallGrass>>, deaths |-> 1, stamps |-> 1]
Dying == [column |-> <<Chest, Crystals, TallGrass>>, deaths |-> 0, stamps |-> 1]

(* One log makes two doors: one to be stamped on, and one to put up beside *)
(* what is left of it.                                                     *)
Stamping == [column |-> <<Logs, 0, 0>>, deaths |-> 1, stamps |-> 0]
AllGames == {Logging, Gathering, Dying, Stamping}

CobblestoneAt(s) == [t \in {s} |-> Cobblestone]
AllBuilds == {CobblestoneAt(1), CobblestoneAt(2)}
=============================================================================
