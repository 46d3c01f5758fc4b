------------------------------ MODULE MCPlayer ------------------------------
(***************************************************************************)
(* Player in columns with water, a ladder and the blocks that answer to a  *)
(* landing.                                                                *)
(***************************************************************************)
EXTENDS Player, Sequences

Column(blocks) == [l \in Levels |-> blocks[l + 1]]

MCColumns ==
  {Column(<<"stone", "air", "air", "air", "air">>),
   Column(<<"stone", "stone", "air", "air", "air">>),
   Column(<<"bouncy", "water", "air", "air", "air">>),
   Column(<<"jump40", "ladder", "stone", "air", "air">>),
   Column(<<"trampoline", "air", "air", "air", "air">>)}
=============================================================================
