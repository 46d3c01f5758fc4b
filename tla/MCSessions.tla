----------------------------- MODULE MCSessions -----------------------------
(***************************************************************************)
(* Sessions with two ids and two connections, which are two players or one *)
(* player who connects again while the first connection is still served.   *)
(***************************************************************************)
EXTENDS Sessions, TLC

Symmetry == Permutations(Conns) \cup Permutations(Ids)
=============================================================================
