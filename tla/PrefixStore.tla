---------------------------- MODULE PrefixStore ----------------------------
(***************************************************************************)
(* What the server promises about its worlds, whatever its threads do.     *)
(*                                                                         *)
(* versions is the history of the tables that has not yet reached the      *)
(* disk, one version per row that is to be written: the first version is   *)
(* what a crash would leave, the last one is what the tables become if the *)
(* server keeps running.  A block change shows in the live world at once   *)
(* and makes a new last version; versions become durable in their order; a *)
(* crash keeps the first one.  So a restart never shows a change without   *)
(* the changes made before it.                                             *)
(***************************************************************************)
EXTENDS Sequences, Naturals

CONSTANTS Spots, Blocks, Seeds, InitialSeed, Absent

VARIABLES live,     \* the world the players see
          seed,     \* the seed of that world
          versions  \* the tables, one function per version not yet durable

Tables == [Seeds \X Spots -> Blocks \cup {Absent}]
Newest == versions[Len(versions)]

Init ==
  /\ live = [s \in Spots |-> Absent]
  /\ seed = InitialSeed
  /\ versions = <<[r \in Seeds \X Spots |-> Absent]>>

Change(s, b) ==
  /\ live' = [live EXCEPT ![s] = b]
  /\ versions' = Append(versions, [Newest EXCEPT ![<<seed, s>>] = b])
  /\ UNCHANGED seed

(* A row of a table without blocks is queued; it may overtake the rows of  *)
(* block changes that have only just been made.                            *)
OtherRow(n) ==
  /\ versions' = [i \in 1..(Len(versions) + 1) |->
                    versions[IF i <= n THEN i ELSE i - 1]]
  /\ UNCHANGED <<live, seed>>

BecomeDurable ==
  /\ Len(versions) > 1
  /\ versions' = Tail(versions)
  /\ UNCHANGED <<live, seed>>

(* The players leave for a world whose table is still empty and take the   *)
(* blocks they placed with them ...                                        *)
LeaveFor(sd) ==
  /\ \A i \in 1..Len(versions), s \in Spots : versions[i][<<sd, s>>] = Absent
  /\ seed' = sd
  /\ UNCHANGED <<live, versions>>

(* ... which are written to its table at once, ahead of what is waiting.   *)
CarryOver(s) ==
  /\ live[s] # Absent
  /\ \A i \in 1..Len(versions) : versions[i][<<seed, s>>] = Absent
  /\ versions' = [i \in 1..Len(versions) |->
                    [versions[i] EXCEPT ![<<seed, s>>] = live[s]]]
  /\ UNCHANGED <<live, seed>>

Crash ==
  /\ versions' = <<versions[1]>>
  /\ seed' = InitialSeed
  /\ live' = [s \in Spots |-> versions[1][<<InitialSeed, s>>]]

Next ==
  \/ \E s \in Spots, b \in Blocks : Change(s, b)
  \/ \E n \in 1..Len(versions) : OtherRow(n)
  \/ BecomeDurable
  \/ \E sd \in Seeds : LeaveFor(sd)
  \/ \E s \in Spots : CarryOver(s)
  \/ Crash

Spec == Init /\ [][Next]_<<live, seed, versions>>
=============================================================================
