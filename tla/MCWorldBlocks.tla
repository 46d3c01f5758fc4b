--------------------------- MODULE MCWorldBlocks ---------------------------
(***************************************************************************)
(* WorldStore with the block messages and the take-off, checked against    *)
(* what PrefixStore promises.                                              *)
(***************************************************************************)
EXTENDS WorldPromise, TLC

Symmetry == Permutations(Threads) \cup Permutations(Spots)
              \cup Permutations(Blocks)
=============================================================================
