------------------------ MODULE MCQuintetConnections ------------------------
(* Four casts: one connection that reconnects, two connections, a          *)
(* connection and a foreign one, and two foreign ones.                     *)
EXTENDS QuintetConnections

Cast(c, o, f, t) == [conns |-> c, own |-> o, others |-> f, turns |-> t]
MCCasts == {Cast(1, 2, 0, 2), Cast(2, 2, 0, 1), Cast(1, 1, 1, 2), Cast(0, 0, 2, 3)}
MCIds == {0, 1}
=============================================================================
