------------------------------ MODULE MCLight ------------------------------
(***************************************************************************)
(* Light on a floor of four by two cells in two chunks.  A lamp stands at  *)
(* the border; crystals on the other side make its light go round.  The    *)
(* models of the game hold no lights; here one is stamped over the lamp.   *)
(***************************************************************************)
EXTENDS Light, TLC

Floor == (1..4) \X (1..2)
Apart(a, b) == IF a < b THEN b - a ELSE a - b
Beside == [c \in Floor |-> {d \in Floor : Apart(c[1], d[1]) + Apart(c[2], d[2]) = 1}]
Halves == [c \in Floor |-> IF c[1] <= 2 THEN "west" ELSE "east"]
Lamplit == [c \in Floor |-> IF c = <<2, 1>> THEN "lamp"
                             ELSE IF c[2] = 1 /\ c[1] >= 3 THEN "crystal" ELSE "air"]
(* Single blocks are set on both sides of the border.                      *)
Touched == {<<2, 1>>, <<3, 1>>, <<3, 2>>}
Stamped == {(<<2, 1>> :> "stone") @@ (<<3, 2>> :> "glass"), <<3, 1>> :> "ladder"}
(* The workers are alike.                                                  *)
Alike == Permutations(Workers)
=============================================================================
