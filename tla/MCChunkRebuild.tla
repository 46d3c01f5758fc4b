--------------------------- MODULE MCChunkRebuild ---------------------------
(***************************************************************************)
(* ChunkRebuild on a row of chunks, with a facade more than the square     *)
(* needs.  The models placed in chunk 11 reach chunk 12, the lights of     *)
(* chunk 12 shine into chunk 13.                                           *)
(***************************************************************************)
EXTENDS ChunkRebuild

Row == 11..13
Facades == 1..3
Models == [p \in Row |-> IF p = 11 THEN {11, 12} ELSE {}]
Lights == [p \in Row |-> IF p = 12 THEN {13} ELSE {}]
=============================================================================
