---------------------------- MODULE ChannelPromise ----------------------------
(***************************************************************************)
(* What the three channel types of jeffy_quintet promise                   *)
(* (ChannelType, core/jeffy_quintet/src/shared/channels.rs 34-45), seen    *)
(* from the two programs only: what one queued and what the other took.    *)
(***************************************************************************)
EXTENDS Naturals, Sequences

CONSTANT Chans

VARIABLES type, sent, received

vars == <<type, sent, received>>

Init == /\ type = [i \in Chans |-> "None"]
        /\ sent = [i \in Chans |-> <<>>]
        /\ received = [i \in Chans |-> <<>>]

Encodable(p) == p.size # "longer"

Open(i) == /\ type[i] = "None"
           /\ \E t \in {"OrderedReliable", "UnorderedReliable", "Unreliable"} :
                type' = [type EXCEPT ![i] = t]
           /\ UNCHANGED <<sent, received>>

Send(i) == /\ type[i] # "None"
           /\ \E size \in {"fits", "big", "longest", "longer"} :
                sent' = [sent EXCEPT ![i] =
                           Append(@, [n |-> Len(@) + 1, size |-> size])]
           /\ UNCHANGED <<type, received>>

(* In order: every payload between the last one delivered and this one was *)
(* too long to be encoded.                                                 *)
DeliverInOrder(i) ==
  /\ type[i] = "OrderedReliable"
  /\ LET last == IF received[i] = <<>> THEN 0 ELSE received[i][Len(received[i])].n IN
       \E k \in (last + 1)..Len(sent[i]) :
         /\ Encodable(sent[i][k])
         /\ \A j \in (last + 1)..(k - 1) : ~Encodable(sent[i][j])
         /\ received' = [received EXCEPT ![i] = Append(@, sent[i][k])]
  /\ UNCHANGED <<type, sent>>

(* In any order, each at most once.                                        *)
DeliverAny(i) ==
  /\ type[i] \in {"UnorderedReliable", "Unreliable"}
  /\ \E k \in 1..Len(sent[i]) :
       /\ \A j \in 1..Len(received[i]) : received[i][j].n # k
       /\ received' = [received EXCEPT ![i] = Append(@, sent[i][k])]
  /\ UNCHANGED <<type, sent>>

Next == \E i \in Chans : Open(i) \/ Send(i) \/ DeliverInOrder(i) \/ DeliverAny(i)
Spec == Init /\ [][Next]_vars
=============================================================================
