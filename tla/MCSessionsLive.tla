--------------------------- MODULE MCSessionsLive ---------------------------
(***************************************************************************)
(* Sessions with clients that come, ask for everything and leave, for the  *)
(* liveness properties: no symmetry.                                       *)
(***************************************************************************)
EXTENDS Sessions
=============================================================================
