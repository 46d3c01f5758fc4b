-------------------------- MODULE MCQuintetChannels --------------------------
(* Two channel ids, a client's end with two channels, an endpoint's with   *)
(* one, two payloads.                                                      *)
EXTENDS QuintetChannels

MCSides == {"client", "server"}
MCPlan ==
  [s \in MCSides |->
     IF s = "client"
       THEN <<{"OrderedReliable"}, {"UnorderedReliable", "Unreliable"}>>
       ELSE <<{"OrderedReliable", "UnorderedReliable", "Unreliable"}>>]
MCSizes == <<{"fits", "longest", "longer"}, {"fits"}>>
MCIds == {0, 1}
=============================================================================
