---------------------------- MODULE WorldPromise ----------------------------
(***************************************************************************)
(* WorldStore as an implementation of PrefixStore: the versions of the     *)
(* tables are what the database holds once the first rows of those still   *)
(* to be written are written, one version per number of rows.              *)
(***************************************************************************)
EXTENDS WorldStore

(* How many of its changes t has made whose rows it has not queued yet.    *)
Made(t) == Len(pushes[t]) - Len(sets[t])

BlockRows(sd, edits, n) ==
  [i \in 1..n |-> [row |-> UdmRow(sd, edits[i].spot), val |-> edits[i].block]]
MadeNotQueued ==
  IF csysLock = Free THEN <<>>
  ELSE BlockRows(seed, pushes[csysLock], Made(csysLock))

(* The rows still to be written, oldest first: the queued ones and those   *)
(* of changes already made whose rows are not queued yet.                  *)
Pending == queue \o MadeNotQueued

(* What row holds once the first m rows of q are written over d.           *)
Holds(q, d, m, row, v) ==
  \/ \E i \in 1..m : /\ q[i].row = row /\ q[i].val = v
                     /\ \A j \in 1..m : j > i => q[j].row # row
  \/ /\ \A i \in 1..m : q[i].row # row
     /\ d[row] = v

ElementOf(S) == CHOOSE v \in S : TRUE
TablesAfter(q, d, m) ==
  [r \in Seeds \X Spots |->
     ElementOf({v \in Blocks \cup {Absent} : Holds(q, d, m, UdmRow(r[1], r[2]), v)})]
VersionsOf(q, d) == [n \in 1..(Len(q) + 1) |-> TablesAfter(q, d, n - 1)]

Versions == VersionsOf(Pending, db)

Promise == INSTANCE PrefixStore WITH live <- udm, versions <- Versions

(* The handlers, the SQL thread, the take-off and the crashes together do  *)
(* nothing the abstract store does not: changes become durable in the      *)
(* order in which they were made, and a restart shows a prefix of them.    *)
KeepsPromise == Promise!Spec
=============================================================================
