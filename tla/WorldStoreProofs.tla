-------------------------- MODULE WorldStoreProofs --------------------------
(***************************************************************************)
(* Theorems about WorldStore, for every number of threads, spots, players, *)
(* stacks and messages: its variables keep their types; the queue together *)
(* with the database always holds the world the players see, and the       *)
(* chests and inventories nobody is changing; no stack is lost or doubled, *)
(* neither in memory nor on disk; and WorldStore implements PrefixStore.   *)
(***************************************************************************)
EXTENDS WorldPromise, SequenceTheorems, FiniteSetTheorems, TLAPS

----------------------------------------------------------------------------
(* The queue and the database read as one table.                           *)

LEMMA RowsOfTables ==
  /\ \A sd \in Seeds, s \in Spots : UdmRow(sd, s) \in Rows
  /\ \A sd \in Seeds, k \in Chests : ChestRow(sd, k) \in Rows
  /\ \A p \in Players : InvRow(p) \in Rows /\ PosRow(p) \in Rows
BY DEF Rows, UdmRow, ChestRow, InvRow, PosRow

LEMMA ValsOfTables ==
  ASSUME NEW sd, NEW x
  PROVE  /\ ValsOf(UdmRow(sd, x)) = Blocks
         /\ ValsOf(ChestRow(sd, x)) = Inventories
         /\ ValsOf(InvRow(x)) = Inventories
         /\ ValsOf(PosRow(x)) = {Position}
BY DEF ValsOf, UdmRow, ChestRow, InvRow, PosRow

(* Block rows of different worlds or spots are different rows, and no      *)
(* other table has one of them.                                            *)
LEMMA UdmRowInjective ==
  ASSUME NEW a, NEW x, NEW b, NEW y
  PROVE  /\ UdmRow(a, x) = UdmRow(b, y) <=> a = b /\ x = y
         /\ ChestRow(b, y) # UdmRow(a, x)
         /\ InvRow(y) # UdmRow(a, x)
         /\ PosRow(y) # UdmRow(a, x)
BY DEF UdmRow, ChestRow, InvRow, PosRow

(* A statement pushed on the queue decides its own row and no other.       *)
LEMMA PushDecides ==
  ASSUME NEW q \in Seq(Stmt), NEW d, NEW st \in Stmt
  PROVE  /\ LatestIn(Append(q, st), d, st.row, st.val)
         /\ \A row, v : row # st.row /\ LatestIn(q, d, row, v)
                          => LatestIn(Append(q, st), d, row, v)
<1>1. Len(q) \in Nat
  BY LenProperties
<1>2. /\ Len(Append(q, st)) = Len(q) + 1
      /\ \A i \in 1..Len(q) : Append(q, st)[i] = q[i]
      /\ Append(q, st)[Len(q) + 1] = st
  BY AppendProperties
<1>3. LatestIn(Append(q, st), d, st.row, st.val)
  BY <1>1, <1>2 DEF LatestIn
<1>4. ASSUME NEW row, NEW v, row # st.row, LatestIn(q, d, row, v)
      PROVE  LatestIn(Append(q, st), d, row, v)
  <2>1. CASE \E i \in 1..Len(q) :
               /\ q[i].row = row /\ q[i].val = v
               /\ \A j \in 1..Len(q) : j > i => q[j].row # row
    <3>1. PICK i \in 1..Len(q) :
                 /\ q[i].row = row /\ q[i].val = v
                 /\ \A j \in 1..Len(q) : j > i => q[j].row # row
      BY <2>1
    <3>2. i \in 1..Len(Append(q, st))
      BY <1>1, <1>2
    <3>3. \A j \in 1..Len(Append(q, st)) : j > i => Append(q, st)[j].row # row
      BY <1>1, <1>2, <1>4, <3>1
    <3> QED
      BY <1>2, <3>1, <3>2, <3>3 DEF LatestIn
  <2>2. CASE (\A i \in 1..Len(q) : q[i].row # row) /\ d[row] = v
    BY <1>1, <1>2, <1>4, <2>2 DEF LatestIn
  <2> QED
    BY <1>4, <2>1, <2>2 DEF LatestIn
<1> QED
  BY <1>3, <1>4

(* Writing the head of the queue takes it off the queue.                   *)
LEMMA HeadRemoved ==
  ASSUME NEW q \in Seq(Stmt), q # <<>>
  PROVE  SubSeq(q, 1, 1 - 1) \o SubSeq(q, 1 + 1, Len(q)) = Tail(q)
<1>1. SubSeq(q, 1, 1 - 1) = <<>>
  BY SubSeqEmpty
<1>2. SubSeq(q, 1 + 1, Len(q)) = Tail(q)
  BY TailIsSubSeq
<1>3. Tail(q) \in Seq(Stmt)
  BY HeadTailProperties
<1> QED
  BY <1>1, <1>2, <1>3, ConcatEmptySeq

(* Committing the head changes nothing in the table the two make.          *)
LEMMA CommitKeepsLatest ==
  ASSUME NEW q \in Seq(Stmt), q # <<>>,
         NEW d \in [Rows -> Vals \cup {Absent}],
         NEW row \in Rows, NEW v, LatestIn(q, d, row, v)
  PROVE  LatestIn(Tail(q), [d EXCEPT ![q[1].row] = q[1].val], row, v)
<1> DEFINE e == [d EXCEPT ![q[1].row] = q[1].val]
<1>1. /\ Len(q) \in Nat \ {0}
      /\ Len(Tail(q)) = Len(q) - 1
      /\ \A i \in 1..Len(Tail(q)) : Tail(q)[i] = q[i + 1]
  BY HeadTailProperties, EmptySeq, LenProperties
<1>2. CASE (\A i \in 1..Len(q) : q[i].row # row) /\ d[row] = v
  <2>1. \A i \in 1..Len(Tail(q)) : Tail(q)[i].row # row
    BY <1>1, <1>2
  <2>2. e[row] = v
    BY <1>1, <1>2
  <2> QED
    BY <2>1, <2>2 DEF LatestIn
<1>3. CASE \E i \in 1..Len(q) :
             /\ q[i].row = row /\ q[i].val = v
             /\ \A j \in 1..Len(q) : j > i => q[j].row # row
  <2>1. PICK i \in 1..Len(q) :
               /\ q[i].row = row /\ q[i].val = v
               /\ \A j \in 1..Len(q) : j > i => q[j].row # row
    BY <1>3
  <2>2. CASE i = 1
    <3>1. \A j \in 1..Len(Tail(q)) : Tail(q)[j].row # row
      BY <1>1, <2>1, <2>2
    <3>2. e[row] = v
      BY <2>1, <2>2
    <3> QED
      BY <3>1, <3>2 DEF LatestIn
  <2>3. CASE i # 1
    <3>1. i - 1 \in 1..Len(Tail(q)) /\ Tail(q)[i - 1] = q[i]
      BY <1>1, <2>3
    <3>2. \A j \in 1..Len(Tail(q)) : j > i - 1 => Tail(q)[j].row # row
      BY <1>1, <2>1
    <3> QED
      BY <2>1, <3>1, <3>2 DEF LatestIn
  <2> QED
    BY <2>2, <2>3
<1> QED
  BY <1>2, <1>3 DEF LatestIn

----------------------------------------------------------------------------
(* Types.  TypeOK needs to know what the arms of the match rely on: the    *)
(* message of a thread addresses a chest or a session that is there, and   *)
(* the row the SQL thread executes is still at the head of the queue.      *)

ArmInv ==
  \A t \in Threads :
    /\ pc[t] \in {"chest", "setchest", "pushchest"} =>
         slotmsg[t].where \in Chests /\ slotmsg[t].slot \in Slots
    /\ pc[t] \in {"inv", "setinv", "pushinv"} =>
         slotmsg[t].where \in Players /\ slotmsg[t].slot \in Slots
    /\ pc[t] = "player" => slotmsg[t].where \in Players
    /\ pc[t] \in {"setchest", "pushchest"} =>
         chest[slotmsg[t].where] \in Inventories
    /\ pc[t] \in {"setinv", "pushinv"} =>
         clientsLock = t /\ inv[slotmsg[t].where] \in Inventories
    /\ pc[t] \in {"block", "edit"} => pushes[t] # <<>>

SqlInv == sql = "executing" => queue # <<>> /\ retries <= MaxRetries

TInv == TypeOK /\ ArmInv /\ SqlInv

LEMMA LoadedTypes ==
  ASSUME SqlTypeOK
  PROVE  /\ LoadedWorld(db) \in [Spots -> Blocks \cup {Absent}]
         /\ LoadedChests(db) \in [Chests -> Inventories \cup {Absent}]
         /\ \A p \in Players : LoadedInv(db, p) \in Inventories
<1>1. LoadedWorld(db) \in [Spots -> Blocks \cup {Absent}]
  BY StoreAssumption, RowsOfTables, ValsOfTables DEF SqlTypeOK, LoadedWorld
<1>2. LoadedChests(db) \in [Chests -> Inventories \cup {Absent}]
  BY StoreAssumption, RowsOfTables, ValsOfTables DEF SqlTypeOK, LoadedChests
<1>3. ASSUME NEW p \in Players PROVE LoadedInv(db, p) \in Inventories
  <2>1. EmptyInv \in Inventories
    BY DEF EmptyInv, Inventories
  <2> QED
    BY <2>1, RowsOfTables, ValsOfTables DEF SqlTypeOK, LoadedInv
<1> QED
  BY <1>1, <1>2, <1>3

(* A new installation has the types, and so has a server started again.    *)
LEMMA InitTypes == Init => TInv
<1> SUFFICES ASSUME Init PROVE TInv
  OBVIOUS
<1>1. SqlTypeOK
  BY StoreAssumption DEF Init, SqlTypeOK
<1>2. WorldTypeOK
  BY <1>1, LoadedTypes, StoreAssumption DEF Init, WorldTypeOK, EachThread
<1>3. ItemTypeOK
  <2>1. chest \in [Chests -> Inventories \cup {Absent}]
    BY <1>1, LoadedTypes DEF Init
  <2>2. slotmsg \in [Threads -> SlotMsg]
    BY DEF Init, EachThread, NoMsg, SlotMsg
  <2>3. saveposcounter \in [Players -> 0..(SavePosLimit + 1)]
    BY StoreAssumption DEF Init
  <2>4. /\ wasthere \in [Threads -> Items \cup {Empty}]
        /\ seedread \in [Threads -> Seeds]
        /\ inv \in [Players -> Inventories \cup {Absent}]
    BY StoreAssumption DEF Init, EachThread
  <2> QED
    BY <2>1, <2>2, <2>3, <2>4 DEF Init, ItemTypeOK
<1>4. LockTypeOK
  BY DEF Init, LockTypeOK
<1>5. pc \in [Threads -> PCs] /\ jobs \in Nat /\ restarts \in Nat
  BY DEF Init, PCs, EachThread
<1>6. ArmInv /\ SqlInv
  BY DEF Init, ArmInv, SqlInv, EachThread
<1> QED
  BY <1>1, <1>2, <1>3, <1>4, <1>5, <1>6 DEF TInv, TypeOK

LEMMA RestartTypes == TInv /\ Restart => TInv'
<1> SUFFICES ASSUME TInv, Restart PROVE TInv'
  OBVIOUS
<1>. /\ LoadedWorld(db) \in [Spots -> Blocks \cup {Absent}]
     /\ LoadedChests(db) \in [Chests -> Inventories \cup {Absent}]
  BY LoadedTypes DEF TInv, TypeOK
<1>1. SqlTypeOK'
  BY StoreAssumption DEF TInv, TypeOK, Restart, SqlTypeOK
<1>2. WorldTypeOK'
  BY StoreAssumption
     DEF TInv, TypeOK, Restart, WorldTypeOK, EachThread
<1>3. ItemTypeOK'
  <2>1. chest' \in [Chests -> Inventories \cup {Absent}]
    BY DEF Restart
  <2>2. slotmsg' \in [Threads -> SlotMsg]
    BY DEF Restart, EachThread, NoMsg, SlotMsg
  <2>3. saveposcounter' \in [Players -> 0..(SavePosLimit + 1)]
    BY StoreAssumption DEF Restart
  <2>4. /\ wasthere' \in [Threads -> Items \cup {Empty}]
        /\ seedread' \in [Threads -> Seeds]
        /\ inv' \in [Players -> Inventories \cup {Absent}]
    BY StoreAssumption DEF Restart, EachThread
  <2> QED
    BY <2>1, <2>2, <2>3, <2>4 DEF Restart, TInv, TypeOK, ItemTypeOK
<1>4. LockTypeOK'
  BY DEF Restart, LockTypeOK
<1>5. (pc \in [Threads -> PCs] /\ jobs \in Nat /\ restarts \in Nat)'
  BY DEF TInv, TypeOK, Restart, PCs, EachThread
<1>6. ArmInv' /\ SqlInv'
  BY DEF Restart, ArmInv, SqlInv, EachThread
<1> QED
  BY <1>1, <1>2, <1>3, <1>4, <1>5, <1>6 DEF TInv, TypeOK

(* A step that leaves a group of variables alone leaves its types alone.   *)
LEMMA SameTypes ==
  /\ WorldTypeOK /\ UNCHANGED worldVars => WorldTypeOK'
  /\ ItemTypeOK /\ UNCHANGED itemVars => ItemTypeOK'
  /\ LockTypeOK /\ UNCHANGED lockVars => LockTypeOK'
  /\ SqlTypeOK /\ UNCHANGED sqlVars => SqlTypeOK'
<1>1. WorldTypeOK /\ UNCHANGED worldVars => WorldTypeOK'
  BY DEF WorldTypeOK, worldVars
<1>2. ItemTypeOK /\ UNCHANGED itemVars => ItemTypeOK'
  BY DEF ItemTypeOK, itemVars
<1>3. LockTypeOK /\ UNCHANGED lockVars => LockTypeOK'
  BY DEF LockTypeOK, lockVars
<1>4. SqlTypeOK /\ UNCHANGED sqlVars => SqlTypeOK'
  BY DEF SqlTypeOK, sqlVars
<1> QED
  BY <1>1, <1>2, <1>3, <1>4

(* A statement for a row of the tables can be queued.                      *)
LEMMA PushTypes ==
  ASSUME SqlTypeOK, NEW row \in Rows, NEW v \in ValsOf(row), v \in Vals,
         queue' = Append(queue, [row |-> row, val |-> v]),
         UNCHANGED <<sql, retries, db>>
  PROVE  SqlTypeOK' /\ queue' # <<>>
<1>1. [row |-> row, val |-> v] \in Stmt
  BY DEF Stmt
<1>2. queue' \in Seq(Stmt) /\ queue' # <<>>
  BY <1>1, AppendProperties DEF SqlTypeOK
<1> QED
  BY <1>2 DEF SqlTypeOK

LEMMA ReceiveTypes ==
  ASSUME TInv, NEW t \in Threads, Receive(t)
  PROVE  TInv'
<1> USE DEF TInv, TypeOK
<1>1. ASSUME NEW kind, NEW edits \in Seq(Edit), edits # <<>>,
             ReceiveEdits(t, kind, edits)
      PROVE  TInv'
  <2>1. WorldTypeOK'
    BY <1>1 DEF ReceiveEdits, WorldTypeOK
  <2>2. ItemTypeOK' /\ LockTypeOK' /\ SqlTypeOK'
    BY <1>1, SameTypes DEF ReceiveEdits
  <2>3. (pc \in [Threads -> PCs] /\ jobs \in Nat /\ restarts \in Nat)'
    BY <1>1 DEF ReceiveEdits, Handle, PCs
  <2>4. ArmInv'
    BY <1>1 DEF ReceiveEdits, Handle, ArmInv, WorldTypeOK, itemVars, lockVars
  <2>5. SqlInv'
    BY <1>1 DEF ReceiveEdits, SqlInv, sqlVars
  <2> QED
    BY <2>1, <2>2, <2>3, <2>4, <2>5
<1>2. CASE ReceiveBlockSet(t)
  <2>1. PICK e \in Edit : ReceiveEdits(t, "BlockSet", <<e>>)
    BY <1>2 DEF ReceiveBlockSet
  <2>2. <<e>> \in Seq(Edit) /\ <<e>> # <<>>
    OBVIOUS
  <2> QED
    BY <1>1, <2>1, <2>2
<1>3. CASE ReceiveMultiBlockSet(t)
  <2>1. PICK e1, e2 \in Edit : ReceiveEdits(t, "MultiBlockSet", <<e1, e2>>)
    BY <1>3 DEF ReceiveMultiBlockSet
  <2>2. <<e1, e2>> \in Seq(Edit) /\ <<e1, e2>> # <<>>
    OBVIOUS
  <2> QED
    BY <1>1, <2>1, <2>2
<1>4. CASE ReceiveTakeoff(t)
  <2>1. WorldTypeOK' /\ ItemTypeOK' /\ LockTypeOK' /\ SqlTypeOK'
    BY <1>4, SameTypes DEF ReceiveTakeoff
  <2>2. (pc \in [Threads -> PCs] /\ jobs \in Nat /\ restarts \in Nat)'
    BY <1>4 DEF ReceiveTakeoff, Handle, PCs
  <2>3. ArmInv'
    BY <1>4 DEF ReceiveTakeoff, Handle, ArmInv, worldVars, itemVars, lockVars
  <2>4. SqlInv'
    BY <1>4 DEF ReceiveTakeoff, SqlInv, sqlVars
  <2> QED
    BY <2>1, <2>2, <2>3, <2>4
<1>5. ASSUME NEW kind, NEW arm, NEW where, ReceiveSlot(t, kind, arm, where),
             \/ arm = "chest" /\ where \in Chests
             \/ arm = "inv" /\ where \in Players
      PROVE  TInv'
  <2>1. WorldTypeOK' /\ LockTypeOK' /\ SqlTypeOK'
    BY <1>5, SameTypes DEF ReceiveSlot
  <2>2. PICK n \in Slots, i \in hand \cup {Empty}, b \in BOOLEAN :
          /\ slotmsg' = [slotmsg EXCEPT ![t] =
                           [where |-> where, slot |-> n, item |-> i, bo |-> b]]
          /\ hand' = hand \ {i}
    BY <1>5 DEF ReceiveSlot
  <2>3. [where |-> where, slot |-> n, item |-> i, bo |-> b] \in SlotMsg
    BY <1>5, <2>2 DEF SlotMsg, ItemTypeOK
  <2>4. slotmsg' \in [Threads -> SlotMsg] /\ hand' \in SUBSET Items
    BY <2>2, <2>3 DEF ItemTypeOK
  <2>5. ItemTypeOK'
    BY <1>5, <2>4 DEF ReceiveSlot, ItemTypeOK
  <2>6. (pc \in [Threads -> PCs] /\ jobs \in Nat /\ restarts \in Nat)'
    BY <1>5 DEF ReceiveSlot, Handle, PCs
  <2>7. ArmInv'
    BY <1>5, <2>2 DEF ReceiveSlot, Handle, ArmInv, ItemTypeOK, worldVars, lockVars
  <2>8. SqlInv'
    BY <1>5 DEF ReceiveSlot, SqlInv, sqlVars
  <2> QED
    BY <2>1, <2>5, <2>6, <2>7, <2>8
<1>6. CASE ReceiveChestSlot(t)
  BY <1>5, <1>6 DEF ReceiveChestSlot
<1>7. CASE ReceiveInvSlot(t)
  BY <1>5, <1>7 DEF ReceiveInvSlot
<1>8. CASE ReceivePlayerUpdate(t)
  <2>1. WorldTypeOK' /\ LockTypeOK' /\ SqlTypeOK'
    BY <1>8, SameTypes DEF ReceivePlayerUpdate
  <2>2. PICK p \in Players :
          slotmsg' = [slotmsg EXCEPT ![t] = [NoMsg EXCEPT !.where = p]]
    BY <1>8 DEF ReceivePlayerUpdate
  <2>3. slotmsg' \in [Threads -> SlotMsg]
    BY <2>2 DEF ItemTypeOK, NoMsg, SlotMsg
  <2>4. ItemTypeOK'
    BY <1>8, <2>3 DEF ReceivePlayerUpdate, ItemTypeOK
  <2>5. (pc \in [Threads -> PCs] /\ jobs \in Nat /\ restarts \in Nat)'
    BY <1>8 DEF ReceivePlayerUpdate, Handle, PCs
  <2>6. ArmInv'
    BY <1>8, <2>2
       DEF ReceivePlayerUpdate, Handle, ArmInv, ItemTypeOK, NoMsg, worldVars,
           lockVars
  <2>7. SqlInv'
    BY <1>8 DEF ReceivePlayerUpdate, SqlInv, sqlVars
  <2> QED
    BY <2>1, <2>4, <2>5, <2>6, <2>7
<1> QED
  BY <1>2, <1>3, <1>4, <1>6, <1>7, <1>8 DEF Receive

LEMMA BlockStepTypes ==
  ASSUME TInv, NEW t \in Threads,
         \/ BeginEdit(t) \/ SetBlock(t) \/ PushBlock(t)
         \/ BeginTakeoff(t) \/ SaveBlock(t) \/ EndTakeoff(t) \/ TakeoffPanics(t)
  PROVE  TInv'
<1> USE DEF TInv, TypeOK
<1>1. CASE BeginEdit(t)
  <2>1. WorldTypeOK' /\ ItemTypeOK' /\ SqlTypeOK'
    BY <1>1, SameTypes DEF BeginEdit
  <2>2. LockTypeOK'
    BY <1>1 DEF BeginEdit, LockTypeOK
  <2>3. (pc \in [Threads -> PCs] /\ jobs \in Nat /\ restarts \in Nat)'
    BY <1>1 DEF BeginEdit, PCs
  <2>4. ArmInv' /\ SqlInv'
    BY <1>1 DEF BeginEdit, ArmInv, SqlInv, worldVars, itemVars, sqlVars
  <2> QED
    BY <2>1, <2>2, <2>3, <2>4
<1>2. CASE SetBlock(t)
  <2>1. Head(sets[t]) \in Edit /\ Tail(sets[t]) \in Seq(Edit)
    BY <1>2, HeadTailProperties DEF SetBlock, WorldTypeOK
  <2>2. WorldTypeOK'
    <3>1. udm' \in [Spots -> Blocks \cup {Absent}]
      BY <1>2, <2>1 DEF SetBlock, WorldTypeOK, Edit
    <3>2. sets' \in [Threads -> Seq(Edit)]
      BY <1>2, <2>1 DEF SetBlock, WorldTypeOK
    <3> QED
      BY <1>2, <3>1, <3>2 DEF SetBlock, WorldTypeOK
  <2>3. ItemTypeOK' /\ LockTypeOK' /\ SqlTypeOK'
    BY <1>2, SameTypes DEF SetBlock
  <2>4. (pc \in [Threads -> PCs] /\ jobs \in Nat /\ restarts \in Nat)'
    BY <1>2 DEF SetBlock
  <2>5. ArmInv' /\ SqlInv'
    BY <1>2 DEF SetBlock, ArmInv, SqlInv, itemVars, lockVars, sqlVars
  <2> QED
    BY <2>2, <2>3, <2>4, <2>5
<1>3. CASE PushBlock(t)
  <2>1. /\ pushes[t] # <<>> /\ Len(pushes[t]) \in Nat
        /\ Head(pushes[t]) \in Edit /\ Tail(pushes[t]) \in Seq(Edit)
        /\ Len(Tail(pushes[t])) = Len(pushes[t]) - 1
    BY <1>3, HeadTailProperties, LenProperties
       DEF PushBlock, WorldTypeOK, ArmInv
  <2>2. SqlTypeOK' /\ queue' # <<>>
    <3> DEFINE e == Head(pushes[t])
    <3>1. UdmRow(seed, e.spot) \in Rows
      BY <2>1, RowsOfTables DEF WorldTypeOK, Edit
    <3>2. e.block \in ValsOf(UdmRow(seed, e.spot)) /\ e.block \in Vals
      BY <2>1, ValsOfTables DEF Edit, Vals
    <3> QED
      BY <1>3, <3>1, <3>2, PushTypes DEF PushBlock
  <2>3. WorldTypeOK'
    BY <1>3, <2>1 DEF PushBlock, WorldTypeOK
  <2>4. ItemTypeOK'
    BY <1>3, SameTypes DEF PushBlock
  <2>5. LockTypeOK'
    BY <1>3 DEF PushBlock, LockTypeOK
  <2>6. (pc \in [Threads -> PCs] /\ jobs \in Nat /\ restarts \in Nat)'
    BY <1>3 DEF PushBlock, PCs
  <2>7. ASSUME Tail(pushes[t]) = <<>> PROVE Len(pushes[t]) = 1
    <3>1. Len(Tail(pushes[t])) = 0
      BY <2>7, EmptySeq, Zenon
    <3> QED
      BY <2>1, <3>1
  <2>8. ArmInv'
    BY <1>3, <2>7 DEF PushBlock, ArmInv, WorldTypeOK, itemVars
  <2>9. SqlInv'
    BY <1>3, <2>2 DEF PushBlock, SqlInv
  <2> QED
    BY <2>2, <2>3, <2>4, <2>5, <2>6, <2>8, <2>9
<1>4. CASE BeginTakeoff(t)
  <2>1. WorldTypeOK'
    BY <1>4 DEF BeginTakeoff, WorldTypeOK
  <2>2. ItemTypeOK' /\ SqlTypeOK'
    BY <1>4, SameTypes DEF BeginTakeoff
  <2>3. LockTypeOK'
    BY <1>4 DEF BeginTakeoff, LockTypeOK
  <2>4. (pc \in [Threads -> PCs] /\ jobs \in Nat /\ restarts \in Nat)'
    BY <1>4 DEF BeginTakeoff, PCs
  <2>5. ArmInv' /\ SqlInv'
    BY <1>4 DEF BeginTakeoff, ArmInv, SqlInv, itemVars, sqlVars
  <2> QED
    BY <2>1, <2>2, <2>3, <2>4, <2>5
<1>5. CASE SaveBlock(t)
  <2>1. PICK s \in toSave : /\ db' = [db EXCEPT ![UdmRow(seed, s)] = udm[s]]
                            /\ toSave' = toSave \ {s}
    BY <1>5 DEF SaveBlock
  <2>2. WorldTypeOK'
    BY <1>5, <2>1 DEF SaveBlock, WorldTypeOK
  <2>3. SqlTypeOK'
    <3>1. /\ UdmRow(seed, s) \in Rows
          /\ udm[s] \in ValsOf(UdmRow(seed, s)) \cup {Absent}
          /\ udm[s] \in Vals \cup {Absent}
      BY <2>1, RowsOfTables, ValsOfTables DEF WorldTypeOK, Vals
    <3> QED
      BY <1>5, <2>1, <3>1 DEF SaveBlock, SqlTypeOK
  <2>4. ItemTypeOK' /\ LockTypeOK'
    BY <1>5, SameTypes DEF SaveBlock
  <2>5. (pc \in [Threads -> PCs] /\ jobs \in Nat /\ restarts \in Nat)'
    BY <1>5 DEF SaveBlock
  <2>6. ArmInv' /\ SqlInv'
    BY <1>5 DEF SaveBlock, ArmInv, SqlInv, itemVars, lockVars
  <2> QED
    BY <2>2, <2>3, <2>4, <2>5, <2>6
<1>6. CASE EndTakeoff(t)
  <2>1. WorldTypeOK' /\ ItemTypeOK' /\ SqlTypeOK'
    BY <1>6, SameTypes DEF EndTakeoff
  <2>2. LockTypeOK'
    BY <1>6 DEF EndTakeoff, LockTypeOK
  <2>3. (pc \in [Threads -> PCs] /\ jobs \in Nat /\ restarts \in Nat)'
    BY <1>6 DEF EndTakeoff, PCs
  <2>4. ArmInv' /\ SqlInv'
    BY <1>6 DEF EndTakeoff, ArmInv, SqlInv, worldVars, itemVars, sqlVars
  <2> QED
    BY <2>1, <2>2, <2>3, <2>4
<1>7. CASE TakeoffPanics(t)
  <2>1. WorldTypeOK'
    BY <1>7 DEF TakeoffPanics, WorldTypeOK
  <2>2. ItemTypeOK' /\ SqlTypeOK'
    BY <1>7, SameTypes DEF TakeoffPanics
  <2>3. LockTypeOK'
    BY <1>7 DEF TakeoffPanics, LockTypeOK
  <2>4. (pc \in [Threads -> PCs] /\ jobs \in Nat /\ restarts \in Nat)'
    BY <1>7 DEF TakeoffPanics, PCs
  <2>5. ArmInv' /\ SqlInv'
    BY <1>7 DEF TakeoffPanics, ArmInv, SqlInv, itemVars, sqlVars
  <2> QED
    BY <2>1, <2>2, <2>3, <2>4, <2>5
<1> QED
  BY <1>1, <1>2, <1>3, <1>4, <1>5, <1>6, <1>7

LEMMA SqlStepTypes ==
  ASSUME TInv, SqlStep
  PROVE  TInv'
<1> USE DEF TInv, TypeOK
<1>1. UNCHANGED <<worldVars, itemVars, lockVars, pc, jobs, restarts>>
  BY DEF SqlStep, SqlPop, SqlCommit, WriteRow, SqlRetry, SqlPanic
<1>2. WorldTypeOK' /\ ItemTypeOK' /\ LockTypeOK'
  BY <1>1, SameTypes
<1>3. ArmInv'
  BY <1>1 DEF ArmInv, worldVars, itemVars, lockVars
<1>4. SqlTypeOK' /\ SqlInv'
  <2>1. CASE SqlPop
    BY <2>1, StoreAssumption DEF SqlPop, SqlTypeOK, SqlInv
  <2>2. CASE SqlCommit
    <3>1. queue # <<>>
      BY <2>2 DEF SqlCommit, WriteRow, SqlInv
    <3>2. /\ queue' = Tail(queue)
          /\ db' = [db EXCEPT ![queue[1].row] = queue[1].val]
          /\ sql' = "idle" /\ retries' = 0
      BY <2>2, <3>1, HeadRemoved DEF SqlCommit, WriteRow, SqlTypeOK
    <3>3. queue[1] \in Stmt /\ Tail(queue) \in Seq(Stmt)
      BY <3>1, HeadTailProperties, ElementOfSeq, EmptySeq DEF SqlTypeOK
    <3>4. /\ queue[1].row \in Rows /\ queue[1].val \in Vals
          /\ queue[1].val \in ValsOf(queue[1].row)
      BY <3>3 DEF Stmt
    <3> QED
      BY <3>2, <3>3, <3>4, StoreAssumption DEF SqlTypeOK, SqlInv
  <2>3. CASE SqlRetry
    BY <2>3, StoreAssumption DEF SqlRetry, GivesUp, SqlTypeOK, SqlInv
  <2>4. CASE SqlPanic
    BY <2>4 DEF SqlPanic, SqlTypeOK, SqlInv
  <2> QED
    BY <2>1, <2>2, <2>3, <2>4 DEF SqlStep
<1> QED
  BY <1>1, <1>2, <1>3, <1>4

(* Changing one slot of an inventory gives an inventory.                   *)
LEMMA SlotChange ==
  ASSUME NEW v \in Inventories, NEW n \in Slots, NEW i \in Items \cup {Empty}
  PROVE  [v EXCEPT ![n] = i] \in Inventories /\ v[n] \in Items \cup {Empty}
BY DEF Inventories

LEMMA ChestStepTypes ==
  ASSUME TInv, NEW t \in Threads,
         ReadChest(t) \/ WriteChest(t) \/ PushChest(t) \/ Reply(t)
  PROVE  TInv'
<1> USE DEF TInv, TypeOK
<1> DEFINE k == slotmsg[t].where
           n == slotmsg[t].slot
<1>0. slotmsg[t] \in SlotMsg /\ slotmsg[t].item \in Items \cup {Empty}
  BY DEF ItemTypeOK, SlotMsg
<1>1. WorldTypeOK'
  BY SameTypes DEF ReadChest, WriteChest, PushChest, Reply
<1>2. (pc \in [Threads -> PCs] /\ jobs \in Nat /\ restarts \in Nat)'
  BY DEF ReadChest, WriteChest, PushChest, Reply, PCs
<1>3. CASE ReadChest(t)
  <2> DEFINE held == IF chest[k] = Absent THEN EmptyInv ELSE chest[k]
  <2>1. k \in Chests /\ n \in Slots
    BY <1>3 DEF ReadChest, ArmInv
  <2>2. held \in Inventories
    BY <2>1 DEF ItemTypeOK, EmptyInv, Inventories
  <2>3. chest' \in [Chests -> Inventories \cup {Absent}] /\ chest'[k] = held
    BY <1>3, <2>1, <2>2 DEF ReadChest, ItemTypeOK
  <2>4. wasthere' \in [Threads -> Items \cup {Empty}]
    BY <1>3, <2>1, <2>2, SlotChange DEF ReadChest, ItemTypeOK
  <2>5. ItemTypeOK'
    BY <1>3, <2>3, <2>4 DEF ReadChest, ItemTypeOK
  <2>6. LockTypeOK'
    BY <1>3, <2>1 DEF ReadChest, LockTypeOK
  <2>7. SqlTypeOK' /\ SqlInv'
    BY <1>3, SameTypes DEF ReadChest, SqlInv, sqlVars
  <2>8. ArmInv'
    BY <1>3, <2>1, <2>2, <2>3 DEF ReadChest, ArmInv, ItemTypeOK, worldVars
  <2> QED
    BY <1>1, <1>2, <2>5, <2>6, <2>7, <2>8
<1>4. CASE WriteChest(t)
  <2>1. k \in Chests /\ n \in Slots /\ chest[k] \in Inventories
    BY <1>4 DEF WriteChest, ArmInv
  <2>2. [chest[k] EXCEPT ![n] = slotmsg[t].item] \in Inventories
    BY <1>0, <2>1, SlotChange
  <2>3. chest' = [chest EXCEPT ![k] = [chest[k] EXCEPT ![n] = slotmsg[t].item]]
    BY <1>4 DEF WriteChest
  <2>4. chest' \in [Chests -> Inventories \cup {Absent}] /\ chest'[k] \in Inventories
    BY <2>1, <2>2, <2>3 DEF ItemTypeOK
  <2>5. seedread' \in [Threads -> Seeds]
    BY <1>4 DEF WriteChest, ItemTypeOK, WorldTypeOK
  <2>6. lost' \in SUBSET Items
    BY <1>4 DEF WriteChest, ItemTypeOK, Overwritten
  <2>7. ItemTypeOK'
    BY <1>4, <2>4, <2>5, <2>6 DEF WriteChest, ItemTypeOK
  <2>8. LockTypeOK' /\ SqlTypeOK' /\ SqlInv'
    BY <1>4, SameTypes DEF WriteChest, SqlInv, sqlVars
  <2>9. ArmInv'
    BY <1>4, <2>1, <2>3, <2>4
       DEF WriteChest, ArmInv, ItemTypeOK, worldVars, lockVars
  <2> QED
    BY <1>1, <1>2, <2>7, <2>8, <2>9
<1>5. CASE PushChest(t)
  <2>1. k \in Chests /\ chest[k] \in Inventories /\ seedread[t] \in Seeds
    BY <1>5 DEF PushChest, ArmInv, ItemTypeOK
  <2>2. SqlTypeOK' /\ queue' # <<>>
    <3>1. ChestRow(seedread[t], k) \in Rows
      BY <2>1, RowsOfTables
    <3>2. chest[k] \in ValsOf(ChestRow(seedread[t], k)) /\ chest[k] \in Vals
      BY <2>1, ValsOfTables DEF Vals
    <3> QED
      BY <1>5, <3>1, <3>2, PushTypes DEF PushChest
  <2>3. ItemTypeOK'
    BY <1>5, SameTypes DEF PushChest
  <2>4. LockTypeOK'
    BY <1>5 DEF PushChest, LockTypeOK
  <2>5. ArmInv' /\ SqlInv'
    BY <1>5, <2>2 DEF PushChest, ArmInv, SqlInv, worldVars, itemVars
  <2> QED
    BY <1>1, <1>2, <2>2, <2>3, <2>4, <2>5
<1>6. CASE Reply(t)
  <2>1. /\ hand' \in SUBSET Items /\ lost' \in SUBSET Items
        /\ wasthere' \in [Threads -> Items \cup {Empty}]
    BY <1>6 DEF Reply, ItemTypeOK, Displaced
  <2>2. ItemTypeOK'
    BY <1>6, <2>1 DEF Reply, ItemTypeOK
  <2>3. LockTypeOK' /\ SqlTypeOK' /\ SqlInv'
    BY <1>6, SameTypes DEF Reply, SqlInv, sqlVars
  <2>4. ArmInv'
    BY <1>6 DEF Reply, ArmInv, worldVars, lockVars
  <2> QED
    BY <1>1, <1>2, <2>2, <2>3, <2>4
<1> QED
  BY <1>3, <1>4, <1>5, <1>6

LEMMA InvStepTypes ==
  ASSUME TInv, NEW t \in Threads,
         \/ ReadInv(t) \/ WriteInv(t) \/ PushInv(t) \/ CountPosition(t)
         \/ Panics(t, "inv") \/ Panics(t, "player")
  PROVE  TInv'
<1> USE DEF TInv, TypeOK
<1> DEFINE p == slotmsg[t].where
           n == slotmsg[t].slot
<1>0. slotmsg[t] \in SlotMsg /\ slotmsg[t].item \in Items \cup {Empty}
  BY DEF ItemTypeOK, SlotMsg
<1>1. WorldTypeOK'
  BY SameTypes DEF ReadInv, WriteInv, PushInv, CountPosition, Panics
<1>2. (pc \in [Threads -> PCs] /\ jobs \in Nat /\ restarts \in Nat)'
  BY DEF ReadInv, WriteInv, PushInv, CountPosition, Panics, PCs
<1>3. CASE ReadInv(t)
  <2>1. p \in Players /\ n \in Slots /\ inv[p] \in Inventories
    BY <1>3 DEF ReadInv, ArmInv, ItemTypeOK
  <2>2. wasthere' \in [Threads -> Items \cup {Empty}]
    BY <1>3, <2>1, SlotChange DEF ReadInv, ItemTypeOK
  <2>3. ItemTypeOK'
    BY <1>3, <2>2 DEF ReadInv, ItemTypeOK
  <2>4. LockTypeOK'
    BY <1>3 DEF ReadInv, LockTypeOK
  <2>5. SqlTypeOK' /\ SqlInv'
    BY <1>3, SameTypes DEF ReadInv, SqlInv, sqlVars
  <2>6. ArmInv'
    BY <1>3, <2>1, StoreAssumption DEF ReadInv, ClientsFree, ArmInv, worldVars
  <2> QED
    BY <1>1, <1>2, <2>3, <2>4, <2>5, <2>6
<1>4. CASE WriteInv(t)
  <2>1. p \in Players /\ n \in Slots /\ inv[p] \in Inventories
    BY <1>4 DEF WriteInv, ArmInv
  <2>2. [inv[p] EXCEPT ![n] = slotmsg[t].item] \in Inventories
    BY <1>0, <2>1, SlotChange
  <2>3. inv' = [inv EXCEPT ![p] = [inv[p] EXCEPT ![n] = slotmsg[t].item]]
    BY <1>4 DEF WriteInv
  <2>4. inv' \in [Players -> Inventories \cup {Absent}] /\ inv'[p] \in Inventories
    BY <2>1, <2>2, <2>3 DEF ItemTypeOK
  <2>5. lost' \in SUBSET Items
    BY <1>4 DEF WriteInv, ItemTypeOK, Overwritten
  <2>6. ItemTypeOK'
    BY <1>4, <2>1, <2>4, <2>5 DEF WriteInv, ItemTypeOK
  <2>7. LockTypeOK' /\ SqlTypeOK' /\ SqlInv'
    BY <1>4, SameTypes DEF WriteInv, SqlInv, sqlVars
  <2>8. ArmInv'
    BY <1>4, <2>1, <2>3, <2>4, ZenonT(60)
       DEF WriteInv, ArmInv, ItemTypeOK, worldVars, lockVars
  <2> QED
    BY <1>1, <1>2, <2>6, <2>7, <2>8
<1>5. CASE PushInv(t)
  <2>1. p \in Players /\ inv[p] \in Inventories
    BY <1>5 DEF PushInv, ArmInv
  <2>2. SqlTypeOK' /\ queue' # <<>>
    <3>1. inv[p] \in ValsOf(InvRow(p)) /\ inv[p] \in Vals /\ InvRow(p) \in Rows
      BY <2>1, RowsOfTables, ValsOfTables DEF Vals
    <3> QED
      BY <1>5, <3>1, PushTypes DEF PushInv
  <2>3. ItemTypeOK'
    BY <1>5, SameTypes DEF PushInv
  <2>4. LockTypeOK'
    BY <1>5 DEF PushInv, LockTypeOK
  <2>5. ArmInv' /\ SqlInv'
    BY <1>5, <2>2 DEF PushInv, ArmInv, SqlInv, worldVars, itemVars
  <2> QED
    BY <1>1, <1>2, <2>2, <2>3, <2>4, <2>5
<1>6. CASE CountPosition(t)
  <2>1. p \in Players
    BY <1>6 DEF CountPosition, ArmInv
  <2>2. SqlTypeOK' /\ (queue # <<>> => queue' # <<>>)
    <3>1. /\ Position \in ValsOf(PosRow(p)) /\ Position \in Vals
          /\ PosRow(p) \in Rows
      BY <2>1, RowsOfTables, ValsOfTables DEF Vals
    <3>2. CASE queue' = queue
      BY <1>6, <3>2, SameTypes DEF CountPosition, sqlVars
    <3>3. CASE queue' = Append(queue, [row |-> PosRow(p), val |-> Position])
      BY <1>6, <3>1, <3>3, PushTypes DEF CountPosition
    <3> QED
      BY <1>6, <3>2, <3>3 DEF CountPosition
  <2>3. saveposcounter' \in [Players -> 0..(SavePosLimit + 1)]
    BY <1>6, <2>1, StoreAssumption DEF CountPosition, ItemTypeOK
  <2>4. ItemTypeOK' /\ LockTypeOK'
    BY <1>6, <2>3, SameTypes DEF CountPosition, ItemTypeOK
  <2>5. ArmInv' /\ SqlInv'
    BY <1>6, <2>2 DEF CountPosition, ArmInv, SqlInv, worldVars, lockVars
  <2> QED
    BY <1>1, <1>2, <2>2, <2>4, <2>5
<1>7. ASSUME NEW arm, Panics(t, arm) PROVE TInv'
  <2>1. lost' \in SUBSET Items
    BY <1>0, <1>7 DEF Panics, ItemTypeOK
  <2>2. ItemTypeOK'
    BY <1>7, <2>1 DEF Panics, ItemTypeOK
  <2>3. (pc \in [Threads -> PCs] /\ jobs \in Nat /\ restarts \in Nat)'
    BY <1>7 DEF Panics, PCs
  <2>4. WorldTypeOK' /\ LockTypeOK' /\ SqlTypeOK'
    BY <1>7, SameTypes DEF Panics
  <2>5. ArmInv' /\ SqlInv'
    BY <1>7 DEF Panics, ArmInv, SqlInv, worldVars, lockVars, sqlVars
  <2> QED
    BY <2>2, <2>3, <2>4, <2>5
<1> QED
  BY <1>3, <1>4, <1>5, <1>6, <1>7

LEMMA SessionStepTypes ==
  ASSUME TInv, Sessions
  PROVE  TInv'
<1> USE DEF TInv, TypeOK
<1>1. ASSUME NEW p \in Players, LoadInv(p) PROVE TInv'
  <2>1. [id |-> p, inv |-> LoadedInv(db, p)] \in [id : Players, inv : Inventories]
    BY LoadedTypes
  <2>2. ItemTypeOK'
    BY <1>1, <2>1 DEF LoadInv, ItemTypeOK
  <2>3. WorldTypeOK' /\ LockTypeOK' /\ SqlTypeOK'
    BY <1>1, SameTypes DEF LoadInv
  <2>4. ArmInv' /\ SqlInv'
    BY <1>1 DEF LoadInv, ArmInv, SqlInv, worldVars, lockVars, sqlVars
  <2> QED
    BY <1>1, <2>2, <2>3, <2>4 DEF LoadInv
<1>2. ASSUME NEW p \in Players, RemoveSession(p) PROVE TInv'
  <2>1. ItemTypeOK'
    BY <1>2 DEF RemoveSession, ItemTypeOK
  <2>2. WorldTypeOK' /\ LockTypeOK' /\ SqlTypeOK'
    BY <1>2, SameTypes DEF RemoveSession
  <2>3. ArmInv' /\ SqlInv'
    BY <1>2, StoreAssumption
       DEF RemoveSession, ClientsFree, ArmInv, SqlInv, worldVars, lockVars,
           sqlVars
  <2> QED
    BY <1>2, <2>1, <2>2, <2>3 DEF RemoveSession
<1>3. CASE InsertSession
  <2>1. login.id \in Players /\ login.inv \in Inventories
    BY <1>3 DEF InsertSession, ItemTypeOK
  <2>2. raced' \in BOOLEAN
    BY <1>3, Zenon DEF InsertSession, ItemTypeOK
  <2>3. /\ inv' \in [Players -> Inventories \cup {Absent}]
        /\ saveposcounter' \in [Players -> 0..(SavePosLimit + 1)]
        /\ touched' \in SUBSET Players
        /\ login' = Absent
    BY <1>3, <2>1, StoreAssumption DEF InsertSession, ItemTypeOK
  <2>4. ItemTypeOK'
    BY <1>3, <2>2, <2>3 DEF InsertSession, ItemTypeOK
  <2>5. WorldTypeOK' /\ LockTypeOK' /\ SqlTypeOK'
    BY <1>3, SameTypes DEF InsertSession
  <2>6. ArmInv' /\ SqlInv'
    BY <1>3, StoreAssumption
       DEF InsertSession, ClientsFree, ArmInv, SqlInv, worldVars, lockVars,
           sqlVars
  <2> QED
    BY <1>3, <2>4, <2>5, <2>6 DEF InsertSession
<1> QED
  BY <1>1, <1>2, <1>3 DEF Sessions

LEMMA StepTypes == TInv /\ [Next]_vars => TInv'
<1> SUFFICES ASSUME TInv, [Next]_vars PROVE TInv'
  OBVIOUS
<1>1. ASSUME NEW t \in Threads, Receive(t) \/ Work(t) \/ TakeoffPanics(t)
      PROVE  TInv'
  BY <1>1, ReceiveTypes, BlockStepTypes, ChestStepTypes, InvStepTypes DEF Work
<1>2. CASE UNCHANGED vars
  <2>1. WorldTypeOK' /\ ItemTypeOK' /\ LockTypeOK' /\ SqlTypeOK'
    BY <1>2, SameTypes DEF vars, TInv, TypeOK
  <2>2. ArmInv' /\ SqlInv'
    BY <1>2 DEF vars, TInv, ArmInv, SqlInv, worldVars, itemVars, lockVars, sqlVars
  <2> QED
    BY <1>2, <2>1, <2>2 DEF vars, TInv, TypeOK
<1> QED
  BY <1>1, <1>2, SessionStepTypes, SqlStepTypes, RestartTypes DEF Next

(* Every variable keeps its type, for any number of threads, players,      *)
(* spots and messages: in particular no row of one table ever gets a value *)
(* of another, and handlesql never retries more than MaxRetries + 1 times. *)
THEOREM TypeCorrect == Spec => []TypeOK
<1>1. Init => TInv
  BY InitTypes
<1>2. TInv /\ [Next]_vars => TInv'
  BY StepTypes
<1>3. TInv => TypeOK
  BY DEF TInv
<1> QED
  BY <1>1, <1>2, <1>3, PTL DEF Spec

----------------------------------------------------------------------------
(* Blocks.  BlocksRecoverable alone is not inductive.  It also takes that  *)
(* csys.write() admits one thread, that the thread inside it still has to  *)
(* push exactly the changes it made, that a take-off moves to a seed whose *)
(* table is empty and which no queued row addresses, and that such a row   *)
(* is not queued before the take-off has written the spot.                 *)

HolderInv ==
  /\ \A t \in Threads : csysLock = t <=> pc[t] \in {"edit", "save"}
  /\ \A t \in Threads : pc[t] \notin {"block", "edit"} => pushes[t] = <<>>
  /\ toSave # {} => csysLock \in Threads /\ pc[csysLock] = "save"
  /\ \A t \in Threads : pc[t] = "save" => unsaved = {}

EditInv ==
  \A t \in Threads :
    /\ pc[t] = "block" => sets[t] = pushes[t]
    /\ pc[t] \in {"block", "edit"} =>
         /\ Made(t) >= 0
         /\ \A i \in 1..Len(sets[t]) : sets[t][i] = pushes[t][i + Made(t)]
         /\ \A i, j \in 1..Len(pushes[t]) :
              pushes[t][i].spot = pushes[t][j].spot => i = j
    /\ pc[t] = "edit" =>
         \A i \in 1..Made(t) : udm[pushes[t][i].spot] = pushes[t][i].block

NotQueued(row) == \A i \in 1..Len(queue) : queue[i].row # row

FreshInv ==
  /\ InitialSeed \in usedSeeds /\ seed \in usedSeeds
  /\ \A sd \in Seeds \ usedSeeds, s \in Spots :
       db[UdmRow(sd, s)] = Absent /\ NotQueued(UdmRow(sd, s))
  /\ \A s \in toSave : NotQueued(UdmRow(seed, s))

BInv == TInv /\ HolderInv /\ EditInv /\ FreshInv /\ BlocksRecoverable

LEMMA UntouchedRow ==
  ASSUME NEW row, NotQueued(row), NEW v, db[row] = v
  PROVE  LatestIs(row, v)
BY DEF NotQueued, LatestIs, LatestIn

LEMMA ControlUndisturbed ==
  ASSUME HolderInv, EditInv, UNCHANGED <<worldVars, csysLock>>,
         \A t \in Threads, a \in {"block", "edit", "save"} :
           pc'[t] = a <=> pc[t] = a
  PROVE  HolderInv' /\ EditInv'
<1>1. HolderInv'
  <2>1. \A t \in Threads : /\ pc'[t] = "block" <=> pc[t] = "block"
                           /\ pc'[t] = "edit" <=> pc[t] = "edit"
                           /\ pc'[t] = "save" <=> pc[t] = "save"
    OBVIOUS
  <2> QED
    BY <2>1 DEF HolderInv, worldVars
<1>2. EditInv'
  <2>1. ASSUME NEW t \in Threads
        PROVE  /\ pc'[t] = "block" <=> pc[t] = "block"
               /\ pc'[t] = "edit" <=> pc[t] = "edit"
               /\ Made(t)' = Made(t)
               /\ sets'[t] = sets[t] /\ pushes'[t] = pushes[t]
    BY DEF worldVars, Made
  <2> QED
    BY <2>1 DEF EditInv, worldVars
<1> QED
  BY <1>1, <1>2

(* A step that concerns neither the blocks nor the block rows.             *)
LEMMA BlocksUndisturbed ==
  ASSUME BInv, TInv',
         UNCHANGED <<worldVars, csysLock, db>>,
         \A t \in Threads, a \in {"block", "edit", "save"} :
           pc'[t] = a <=> pc[t] = a,
         \/ UNCHANGED queue
         \/ \E st \in Stmt :
              /\ queue' = Append(queue, st)
              /\ \A sd \in Seeds, s \in Spots : st.row # UdmRow(sd, s)
  PROVE  BInv'
<1> USE DEF BInv
<1>1. HolderInv' /\ EditInv'
  BY ControlUndisturbed
<1>3. ASSUME NEW sd \in Seeds, NEW s \in Spots
      PROVE  /\ NotQueued(UdmRow(sd, s)) => NotQueued(UdmRow(sd, s))'
             /\ \A v : LatestIs(UdmRow(sd, s), v) => LatestIs(UdmRow(sd, s), v)'
  <2>1. CASE UNCHANGED queue
    BY <2>1 DEF NotQueued, LatestIs, LatestIn
  <2>2. ASSUME NEW st \in Stmt, queue' = Append(queue, st),
               st.row # UdmRow(sd, s)
        PROVE  /\ NotQueued(UdmRow(sd, s)) => NotQueued(UdmRow(sd, s))'
               /\ \A v : LatestIs(UdmRow(sd, s), v) => LatestIs(UdmRow(sd, s), v)'
    <3>1. queue \in Seq(Stmt)
      BY DEF TInv, TypeOK, SqlTypeOK
    <3>2. /\ Len(queue) \in Nat /\ Len(queue') = Len(queue) + 1
          /\ \A i \in 1..Len(queue) : queue'[i] = queue[i]
          /\ queue'[Len(queue) + 1] = st
      BY <2>2, <3>1, LenProperties, AppendProperties
    <3>3. NotQueued(UdmRow(sd, s)) => NotQueued(UdmRow(sd, s))'
      BY <2>2, <3>2 DEF NotQueued
    <3>4. ASSUME NEW v, LatestIs(UdmRow(sd, s), v)
          PROVE  LatestIs(UdmRow(sd, s), v)'
      BY <2>2, <3>1, <3>4, PushDecides DEF LatestIs
    <3> QED
      BY <3>3, <3>4
  <2> QED
    BY <2>1, <2>2
<1>4. FreshInv'
  <2>1. seed \in Seeds /\ toSave \subseteq Spots
    BY DEF TInv, TypeOK, WorldTypeOK
  <2> QED
    BY <1>3, <2>1 DEF FreshInv, worldVars
<1>5. BlocksRecoverable'
  <2>1. seed \in Seeds
    BY DEF TInv, TypeOK, WorldTypeOK
  <2>2. ASSUME NEW s \in Spots \ unsaved, Settled(s)' PROVE Settled(s)
    BY <2>2 DEF Settled, worldVars
  <2> QED
    BY <1>3, <2>1, <2>2 DEF BlocksRecoverable, worldVars
<1> QED
  BY <1>1, <1>4, <1>5

(* The steps of the other arms, the sessions and the receipts.             *)
LEMMA OtherStepsKeepBlocks ==
  ASSUME BInv, TInv', NEW t \in Threads,
         \/ ReceiveTakeoff(t) \/ ReceiveChestSlot(t) \/ ReceiveInvSlot(t)
         \/ ReceivePlayerUpdate(t)
         \/ ReadChest(t) \/ WriteChest(t) \/ PushChest(t) \/ Reply(t)
         \/ ReadInv(t) \/ WriteInv(t) \/ PushInv(t) \/ CountPosition(t)
         \/ Panics(t, "inv") \/ Panics(t, "player")
  PROVE  BInv'
<1> DEFINE Elsewhere == /\ UNCHANGED <<worldVars, csysLock, db>>
                        /\ \A u \in Threads, a \in {"block", "edit", "save"} :
                             pc'[u] = a <=> pc[u] = a
<1>0. /\ pc \in [Threads -> PCs] /\ queue \in Seq(Stmt) /\ queue' \in Seq(Stmt)
      /\ seedread \in [Threads -> Seeds]
  BY DEF BInv, TInv, TypeOK, SqlTypeOK, ItemTypeOK
<1>1. CASE \/ ReceiveTakeoff(t) \/ ReceiveChestSlot(t) \/ ReceiveInvSlot(t)
           \/ ReceivePlayerUpdate(t)
  <2>1. Elsewhere /\ UNCHANGED queue
    BY <1>0, <1>1
       DEF ReceiveTakeoff, ReceiveChestSlot, ReceiveInvSlot, ReceiveSlot,
           ReceivePlayerUpdate, Handle, lockVars, sqlVars
  <2> QED
    BY <2>1, BlocksUndisturbed
<1>2. CASE \/ ReadChest(t) \/ WriteChest(t) \/ Reply(t) \/ ReadInv(t)
           \/ WriteInv(t) \/ Panics(t, "inv") \/ Panics(t, "player")
  <2>1. Elsewhere /\ UNCHANGED queue
    BY <1>0, <1>2
       DEF ReadChest, WriteChest, Reply, ReadInv, WriteInv, Panics, lockVars,
           sqlVars
  <2> QED
    BY <2>1, BlocksUndisturbed
<1>3. CASE PushChest(t)
  <2> DEFINE k == slotmsg[t].where
             st == [row |-> ChestRow(seedread[t], k), val |-> chest[k]]
  <2>1. Elsewhere /\ queue' = Append(queue, st)
    BY <1>0, <1>3 DEF PushChest
  <2>2. st \in Stmt
    <3>1. k \in Chests /\ chest[k] \in Inventories
      BY <1>3 DEF PushChest, BInv, TInv, ArmInv
    <3> QED
      BY <1>0, <3>1, RowsOfTables, ValsOfTables DEF Stmt, Vals
  <2>3. \A sd \in Seeds, s \in Spots : st.row # UdmRow(sd, s)
    BY UdmRowInjective
  <2> QED
    BY <2>1, <2>2, <2>3, BlocksUndisturbed
<1>4. CASE PushInv(t)
  <2> DEFINE p == slotmsg[t].where
             st == [row |-> InvRow(p), val |-> inv[p]]
  <2>1. Elsewhere /\ queue' = Append(queue, st)
    BY <1>0, <1>4 DEF PushInv
  <2>2. st \in Stmt
    <3>1. p \in Players /\ inv[p] \in Inventories
      BY <1>4 DEF PushInv, BInv, TInv, ArmInv
    <3> QED
      BY <3>1, RowsOfTables, ValsOfTables DEF Stmt, Vals
  <2>3. \A sd \in Seeds, s \in Spots : st.row # UdmRow(sd, s)
    BY UdmRowInjective
  <2> QED
    BY <2>1, <2>2, <2>3, BlocksUndisturbed
<1>5. CASE CountPosition(t)
  <2> DEFINE p == slotmsg[t].where
             st == [row |-> PosRow(p), val |-> Position]
  <2>1. Elsewhere /\ (UNCHANGED queue \/ queue' = Append(queue, st))
    BY <1>0, <1>5 DEF CountPosition, lockVars
  <2>2. st \in Stmt
    <3>1. p \in Players
      BY <1>5 DEF CountPosition, BInv, TInv, ArmInv
    <3> QED
      BY <3>1, RowsOfTables, ValsOfTables DEF Stmt, Vals
  <2>3. \A sd \in Seeds, s \in Spots : st.row # UdmRow(sd, s)
    BY UdmRowInjective
  <2> QED
    BY <2>1, <2>2, <2>3, BlocksUndisturbed
<1> QED
  BY <1>1, <1>2, <1>3, <1>4, <1>5

LEMMA SessionsKeepBlocks ==
  ASSUME BInv, TInv', Sessions
  PROVE  BInv'
BY BlocksUndisturbed
   DEF Sessions, LoadInv, InsertSession, RemoveSession, lockVars, sqlVars

(* Committing the head of the queue, or failing to.                        *)
LEMMA SqlKeepsBlocks ==
  ASSUME BInv, TInv', SqlStep
  PROVE  BInv'
<1>1. CASE SqlPop \/ SqlRetry \/ SqlPanic
  BY <1>1, BlocksUndisturbed DEF SqlPop, SqlRetry, SqlPanic, lockVars
<1>2. CASE SqlCommit
  <2> USE DEF BInv
  <2>1. queue \in Seq(Stmt) /\ queue # <<>>
    BY <1>2 DEF SqlCommit, WriteRow, TInv, SqlInv, TypeOK, SqlTypeOK
  <2>2. /\ queue' = Tail(queue)
        /\ db' = [db EXCEPT ![queue[1].row] = queue[1].val]
        /\ UNCHANGED <<worldVars, lockVars, pc>>
    BY <1>2, <2>1, HeadRemoved DEF SqlCommit, WriteRow
  <2>3. HolderInv' /\ EditInv'
    BY <2>2, ControlUndisturbed DEF lockVars
  <2>4. /\ Len(queue) \in Nat \ {0} /\ Len(queue') = Len(queue) - 1
        /\ \A i \in 1..Len(queue') : queue'[i] = queue[i + 1]
    BY <2>1, <2>2, HeadTailProperties, EmptySeq, LenProperties
  <2>5. ASSUME NEW row \in Rows, NotQueued(row)
        PROVE  NotQueued(row)' /\ db'[row] = db[row]
    <3>1. queue[1].row # row
      BY <2>4, <2>5 DEF NotQueued
    <3>2. db'[row] = db[row]
      BY <2>2, <3>1 DEF TInv, TypeOK, SqlTypeOK
    <3> QED
      BY <2>4, <2>5, <3>2 DEF NotQueued
  <2>6. FreshInv'
    <3>1. seed \in Seeds /\ toSave \subseteq Spots
      BY DEF TInv, TypeOK, WorldTypeOK
    <3> QED
      BY <2>2, <2>5, <3>1, RowsOfTables DEF FreshInv, worldVars
  <2>7. BlocksRecoverable'
    <3>1. ASSUME NEW s \in Spots \ unsaved, Settled(s)'
          PROVE  LatestIs(UdmRow(seed, s), udm[s])'
      <4>1. Settled(s)
        BY <2>2, <3>1 DEF Settled, worldVars, lockVars
      <4>2. LatestIn(queue, db, UdmRow(seed, s), udm[s])
        BY <4>1 DEF BlocksRecoverable, LatestIs
      <4>3. UdmRow(seed, s) \in Rows /\ db \in [Rows -> Vals \cup {Absent}]
        BY RowsOfTables DEF TInv, TypeOK, WorldTypeOK, SqlTypeOK
      <4>4. LatestIn(queue', db', UdmRow(seed, s), udm[s])
        BY <2>1, <2>2, <4>2, <4>3, CommitKeepsLatest
      <4> QED
        BY <2>2, <4>4 DEF LatestIs, worldVars
    <3> QED
      BY <2>2, <3>1 DEF BlocksRecoverable, worldVars
  <2> QED
    BY <2>3, <2>6, <2>7
<1> QED
  BY <1>1, <1>2 DEF SqlStep

LEMMA ReceiveEditsKeepsBlocks ==
  ASSUME BInv, TInv', NEW t \in Threads,
         ReceiveBlockSet(t) \/ ReceiveMultiBlockSet(t)
  PROVE  BInv'
<1> USE DEF BInv
<1>1. PICK kind \in {"BlockSet", "MultiBlockSet"}, edits \in Seq(Edit) :
        /\ ReceiveEdits(t, kind, edits)
        /\ \A i, j \in 1..Len(edits) : edits[i].spot = edits[j].spot => i = j
  <2>1. CASE ReceiveBlockSet(t)
    <3>1. PICK e \in Edit : ReceiveEdits(t, "BlockSet", <<e>>)
      BY <2>1 DEF ReceiveBlockSet
    <3>2. /\ <<e>> \in Seq(Edit) /\ Len(<<e>>) = 1
          /\ \A i, j \in 1..1 : i = j
      OBVIOUS
    <3> QED
      BY <3>1, <3>2
  <2>2. CASE ReceiveMultiBlockSet(t)
    <3>1. PICK e1, e2 \in Edit : /\ e1.spot # e2.spot
                                 /\ ReceiveEdits(t, "MultiBlockSet", <<e1, e2>>)
      BY <2>2 DEF ReceiveMultiBlockSet
    <3>2. /\ <<e1, e2>> \in Seq(Edit)
          /\ \A i, j \in 1..Len(<<e1, e2>>) :
               <<e1, e2>>[i].spot = <<e1, e2>>[j].spot => i = j
      BY <3>1
    <3> QED
      BY <3>1, <3>2
  <2> QED
    BY <2>1, <2>2
<1>2. /\ pc[t] = "idle" /\ pc' = [pc EXCEPT ![t] = "block"]
      /\ sets' = [sets EXCEPT ![t] = edits]
      /\ pushes' = [pushes EXCEPT ![t] = edits]
      /\ UNCHANGED <<seed, udm, toSave, usedSeeds, unsaved, csysLock, queue, db>>
  BY <1>1 DEF ReceiveEdits, Handle, lockVars, sqlVars
<1>3. /\ pc \in [Threads -> PCs] /\ sets \in [Threads -> Seq(Edit)]
      /\ pushes \in [Threads -> Seq(Edit)]
  BY DEF TInv, TypeOK, WorldTypeOK
<1>4. HolderInv'
  BY <1>2, <1>3 DEF HolderInv
<1>5. EditInv'
  <2>1. ASSUME NEW u \in Threads, u # t
        PROVE  /\ pc'[u] = pc[u] /\ Made(u)' = Made(u)
               /\ sets'[u] = sets[u] /\ pushes'[u] = pushes[u]
    BY <1>2, <1>3, <2>1 DEF Made
  <2>2. /\ pc'[t] = "block" /\ sets'[t] = edits /\ pushes'[t] = edits
        /\ Made(t)' = 0
    <3>1. Len(edits) \in Nat
      BY LenProperties
    <3> QED
      BY <1>2, <1>3, <3>1 DEF Made
  <2>3. ASSUME NEW i \in 1..Len(edits) PROVE edits[i] = edits[i + 0]
    BY LenProperties
  <2> QED
    BY <1>1, <1>2, <2>1, <2>2, <2>3 DEF EditInv
<1>6. FreshInv'
  BY <1>2 DEF FreshInv, NotQueued
<1>7. BlocksRecoverable'
  <2>1. ASSUME NEW s \in Spots, Settled(s)' PROVE Settled(s)
    <3>1. csysLock # t
      BY <1>2 DEF HolderInv
    <3> QED
      BY <1>2, <1>3, <2>1, <3>1 DEF Settled, TInv, TypeOK, LockTypeOK
  <2> QED
    BY <1>2, <2>1 DEF BlocksRecoverable, LatestIs
<1> QED
  BY <1>4, <1>5, <1>6, <1>7

LEMMA BeginEditKeepsBlocks ==
  ASSUME BInv, TInv', NEW t \in Threads, BeginEdit(t)
  PROVE  BInv'
<1> USE DEF BInv
<1>1. /\ pc[t] = "block" /\ csysLock = Free /\ csysLock' = t
      /\ pc' = [pc EXCEPT ![t] = "edit"]
      /\ UNCHANGED <<seed, udm, sets, pushes, toSave, usedSeeds, unsaved, queue,
                     db>>
  BY DEF BeginEdit, CsysFree, worldVars, sqlVars
<1>2. /\ pc \in [Threads -> PCs] /\ sets \in [Threads -> Seq(Edit)]
      /\ pushes \in [Threads -> Seq(Edit)]
  BY DEF TInv, TypeOK, WorldTypeOK
<1>3. HolderInv'
  BY <1>1, <1>2, StoreAssumption DEF HolderInv
<1>4. EditInv'
  <2>1. \A u \in Threads : Made(u)' = Made(u)
    BY <1>1 DEF Made
  <2>2. Made(t) = 0
    <3>1. sets[t] = pushes[t] /\ Len(pushes[t]) \in Nat
      BY <1>1, <1>2, LenProperties DEF EditInv
    <3> QED
      BY <3>1 DEF Made
  <2> QED
    BY <1>1, <1>2, <2>1, <2>2 DEF EditInv
<1>5. FreshInv'
  BY <1>1 DEF FreshInv, NotQueued
<1>6. BlocksRecoverable'
  BY <1>1 DEF BlocksRecoverable, LatestIs, Settled
<1> QED
  BY <1>3, <1>4, <1>5, <1>6

LEMMA SetBlockKeepsBlocks ==
  ASSUME BInv, TInv', NEW t \in Threads, SetBlock(t)
  PROVE  BInv'
<1> USE DEF BInv
<1> DEFINE e == Head(sets[t])
           m == Made(t) + 1
<1>1. /\ pc[t] = "edit" /\ sets[t] # <<>>
      /\ udm' = [udm EXCEPT ![e.spot] = e.block]
      /\ sets' = [sets EXCEPT ![t] = Tail(sets[t])]
      /\ UNCHANGED <<seed, pushes, toSave, usedSeeds, unsaved, csysLock, pc,
                     queue, db>>
  BY DEF SetBlock, lockVars, sqlVars
<1>2. /\ pc \in [Threads -> PCs] /\ sets \in [Threads -> Seq(Edit)]
      /\ pushes \in [Threads -> Seq(Edit)]
      /\ udm \in [Spots -> Blocks \cup {Absent}]
  BY DEF TInv, TypeOK, WorldTypeOK
<1>3. /\ Len(sets[t]) \in Nat \ {0} /\ Len(pushes[t]) \in Nat
      /\ e = sets[t][1] /\ e \in Edit
      /\ Len(Tail(sets[t])) = Len(sets[t]) - 1
      /\ \A i \in 1..Len(Tail(sets[t])) : Tail(sets[t])[i] = sets[t][i + 1]
  BY <1>1, <1>2, HeadTailProperties, EmptySeq, LenProperties
<1>4. /\ Made(t)' = m /\ Made(t) >= 0 /\ Made(t) \in Int
      /\ m \in 1..Len(pushes[t]) /\ pushes[t][m] = e
  <2>1. Made(t)' = m /\ Made(t) \in Int
    BY <1>1, <1>2, <1>3 DEF Made
  <2>2. Made(t) >= 0 /\ sets[t][1] = pushes[t][1 + Made(t)]
    BY <1>1, <1>3 DEF EditInv
  <2>3. m \in 1..Len(pushes[t])
    <3>1. Made(t) = Len(pushes[t]) - Len(sets[t])
      BY DEF Made
    <3>2. \A a \in Nat, b \in Nat \ {0} : a - b >= 0 => (a - b) + 1 \in 1..a
      OBVIOUS
    <3>3. (Len(pushes[t]) - Len(sets[t])) + 1 \in 1..Len(pushes[t])
      BY <1>3, <2>2, <3>1, <3>2
    <3> QED
      BY <3>1, <3>3, Zenon
  <2>4. 1 + Made(t) = m
    BY <2>1
  <2> QED
    BY <1>3, <2>1, <2>2, <2>3, <2>4
<1>5. csysLock = t /\ \A u \in Threads \ {t} : pc[u] # "edit"
  BY <1>1 DEF HolderInv
<1>6. HolderInv'
  BY <1>1 DEF HolderInv
<1>7. EditInv'
  <2>1. ASSUME NEW u \in Threads, u # t
        PROVE  /\ Made(u)' = Made(u) /\ sets'[u] = sets[u] /\ pc[u] # "edit"
    BY <1>1, <1>2, <1>5, <2>1 DEF Made
  <2>2. ASSUME NEW i \in 1..Len(sets'[t])
        PROVE  sets'[t][i] = pushes[t][i + m]
    <3>1. sets'[t] = Tail(sets[t]) /\ i + 1 \in 1..Len(sets[t])
      BY <1>1, <1>2, <1>3
    <3>2. sets[t][i + 1] = pushes[t][(i + 1) + Made(t)]
      BY <1>1, <3>1 DEF EditInv
    <3>3. (i + 1) + Made(t) = i + m
      BY <1>4
    <3> QED
      BY <1>1, <1>2, <1>3, <3>1, <3>2, <3>3
  <2>3. ASSUME NEW i \in 1..m
        PROVE  udm'[pushes[t][i].spot] = pushes[t][i].block
    <3>0. i \in 1..Len(pushes[t]) /\ pushes[t][i] \in Edit
      BY <1>2, <1>3, <1>4, ElementOfSeq
    <3>1. CASE i = m
      BY <1>1, <1>2, <1>3, <1>4, <3>1 DEF Edit
    <3>2. CASE i # m
      <4>1. pushes[t][i].spot # e.spot
        BY <1>1, <1>4, <3>0, <3>2 DEF EditInv
      <4>2. i \in 1..Made(t)
        BY <1>4, <3>2
      <4>3. udm[pushes[t][i].spot] = pushes[t][i].block
        BY <1>1, <4>2 DEF EditInv
      <4> QED
        BY <1>1, <1>2, <3>0, <4>1, <4>3 DEF Edit
    <3> QED
      BY <3>1, <3>2
  <2> QED
    BY <1>1, <1>4, <2>1, <2>2, <2>3, SMTT(30) DEF EditInv
<1>8. FreshInv'
  BY <1>1 DEF FreshInv, NotQueued
<1>9. BlocksRecoverable'
  <2>1. ASSUME NEW s \in Spots \ unsaved, Settled(s)'
        PROVE  LatestIs(UdmRow(seed, s), udm[s])'
    <3>1. Settled(s) /\ s # e.spot
      BY <1>1, <1>4, <1>5, <2>1, StoreAssumption DEF Settled
    <3>2. udm'[s] = udm[s]
      BY <1>1, <1>2, <3>1
    <3> QED
      BY <1>1, <3>1, <3>2 DEF BlocksRecoverable, LatestIs
  <2> QED
    BY <1>1, <2>1 DEF BlocksRecoverable
<1> QED
  BY <1>6, <1>7, <1>8, <1>9

LEMMA PushBlockKeepsBlocks ==
  ASSUME BInv, TInv', NEW t \in Threads, PushBlock(t)
  PROVE  BInv'
<1> USE DEF BInv
<1> DEFINE e == Head(pushes[t])
           st == [row |-> UdmRow(seed, e.spot), val |-> e.block]
<1>1. /\ pc[t] = "edit" /\ sets[t] = <<>> /\ queue' = Append(queue, st)
      /\ unsaved' = unsaved \ {e.spot}
      /\ pushes' = [pushes EXCEPT ![t] = Tail(pushes[t])]
      /\ IF Len(pushes[t]) = 1
           THEN csysLock' = Free /\ pc' = [pc EXCEPT ![t] = "idle"]
           ELSE UNCHANGED <<csysLock, pc>>
      /\ UNCHANGED <<seed, udm, sets, toSave, usedSeeds, db>>
  BY DEF PushBlock
<1>2. /\ pc \in [Threads -> PCs] /\ sets \in [Threads -> Seq(Edit)]
      /\ pushes \in [Threads -> Seq(Edit)] /\ queue \in Seq(Stmt)
      /\ seed \in Seeds /\ pushes[t] # <<>>
  BY <1>1 DEF TInv, TypeOK, WorldTypeOK, SqlTypeOK, ArmInv
<1>3. /\ Len(pushes[t]) \in Nat \ {0} /\ e = pushes[t][1] /\ e \in Edit
      /\ Len(Tail(pushes[t])) = Len(pushes[t]) - 1
      /\ \A i \in 1..Len(Tail(pushes[t])) : Tail(pushes[t])[i] = pushes[t][i + 1]
  BY <1>2, HeadTailProperties, EmptySeq, LenProperties
<1>4. csysLock = t /\ t # Free /\ \A u \in Threads \ {t} : pc[u] \notin {"edit", "save"}
  BY <1>1, StoreAssumption DEF HolderInv
<1>5. toSave = {}
  BY <1>1, <1>4 DEF HolderInv
<1>6. /\ Made(t) = Len(pushes[t])
      /\ \A i \in 1..Len(pushes[t]) : udm[pushes[t][i].spot] = pushes[t][i].block
  <2>1. Len(sets[t]) = 0
    BY <1>1, EmptySeq, Zenon
  <2>2. Made(t) = Len(pushes[t])
    BY <1>3, <2>1 DEF Made
  <2> QED
    BY <1>1, <2>2 DEF EditInv
<1>7. Len(pushes[t]) = 1 <=> Tail(pushes[t]) = <<>>
  <2>1. Len(pushes[t]) = 1 => Tail(pushes[t]) = <<>>
    <3>1. Tail(pushes[t]) # <<>> => Len(Tail(pushes[t])) \in Nat \ {0}
      BY <1>2, HeadTailProperties, EmptySeq
    <3> QED
      BY <1>3, <3>1
  <2>2. Tail(pushes[t]) = <<>> => Len(Tail(pushes[t])) = 0
    BY EmptySeq, Zenon
  <2> QED
    BY <1>3, <2>1, <2>2
<1>8. HolderInv'
  <2>1. CASE Len(pushes[t]) = 1
    <3>1. csysLock' = Free /\ pc' = [pc EXCEPT ![t] = "idle"]
      BY <1>1, <2>1
    <3>2. pushes' = [pushes EXCEPT ![t] = <<>>]
      BY <1>1, <1>7, <2>1
    <3>3. \A u \in Threads : pc'[u] \notin {"edit", "save"} /\ u # Free
      BY <1>2, <1>4, <3>1, StoreAssumption
    <3> QED
      BY <1>1, <1>2, <1>5, <3>1, <3>2, <3>3 DEF HolderInv
  <2>2. CASE Len(pushes[t]) # 1
    BY <1>1, <1>2, <1>4, <1>5, <2>2 DEF HolderInv
  <2> QED
    BY <2>1, <2>2
<1>9. EditInv'
  <2>1. ASSUME NEW u \in Threads, u # t
        PROVE  /\ Made(u)' = Made(u) /\ pushes'[u] = pushes[u] /\ pc'[u] = pc[u]
               /\ pc[u] # "edit"
    BY <1>1, <1>2, <1>4, <2>1 DEF Made
  <2>2. pushes'[t] = Tail(pushes[t]) /\ pc'[t] \in {"edit", "idle"}
    BY <1>1, <1>2
  <2>3. Made(t)' = Len(Tail(pushes[t])) /\ Len(sets'[t]) = 0
    <3>1. Len(sets'[t]) = 0
      BY <1>1, EmptySeq, Zenon
    <3> QED
      BY <1>3, <2>2, <3>1 DEF Made
  <2>4. \A i \in 1..Len(Tail(pushes[t])) :
          /\ i + 1 \in 1..Len(pushes[t])
          /\ Tail(pushes[t])[i] = pushes[t][i + 1]
    BY <1>3
  <2>5. \A i, j \in 1..Len(Tail(pushes[t])) :
          Tail(pushes[t])[i].spot = Tail(pushes[t])[j].spot => i = j
    <3>1. \A i, j \in 1..Len(pushes[t]) :
            pushes[t][i].spot = pushes[t][j].spot => i = j
      BY <1>1 DEF EditInv
    <3>2. ASSUME NEW i \in 1..Len(Tail(pushes[t])),
                 NEW j \in 1..Len(Tail(pushes[t])),
                 Tail(pushes[t])[i].spot = Tail(pushes[t])[j].spot
          PROVE  i = j
      <4>1. i + 1 = j + 1
        BY <2>4, <3>1, <3>2
      <4> QED
        BY <4>1
    <3> QED
      BY <3>2
  <2>6. \A i \in 1..Len(Tail(pushes[t])) :
          udm[Tail(pushes[t])[i].spot] = Tail(pushes[t])[i].block
    BY <1>6, <2>4
  <2>7. /\ pc'[t] # "block" /\ Made(t)' >= 0
        /\ \A i \in 1..Len(sets'[t]) : sets'[t][i] = pushes'[t][i + Made(t)']
    BY <1>3, <2>2, <2>3
  <2>8. \A i \in 1..Made(t)' :
          udm'[pushes'[t][i].spot] = pushes'[t][i].block
    BY <1>1, <2>2, <2>3, <2>6
  <2>9. \A i, j \in 1..Len(pushes'[t]) :
          pushes'[t][i].spot = pushes'[t][j].spot => i = j
    BY <2>2, <2>5
  <2>10. ASSUME NEW u \in Threads, u # t
         PROVE  /\ pc'[u] = "block" => sets'[u] = pushes'[u]
                /\ pc'[u] \in {"block", "edit"} =>
                     /\ Made(u)' >= 0
                     /\ \A i \in 1..Len(sets'[u]) :
                          sets'[u][i] = pushes'[u][i + Made(u)']
                     /\ \A i, j \in 1..Len(pushes'[u]) :
                          pushes'[u][i].spot = pushes'[u][j].spot => i = j
                /\ pc'[u] # "edit"
    BY <1>1, <2>1, <2>10 DEF EditInv
  <2> QED
    BY <2>7, <2>8, <2>9, <2>10 DEF EditInv
<1>10. st \in Stmt
  <2>1. UdmRow(seed, e.spot) \in Rows
    BY <1>2, <1>3, RowsOfTables DEF Edit
  <2>2. e.block \in ValsOf(UdmRow(seed, e.spot)) /\ e.block \in Vals
    BY <1>3, ValsOfTables DEF Edit, Vals
  <2> QED
    BY <2>1, <2>2 DEF Stmt
<1>11. FreshInv'
  <2>1. /\ Len(queue) \in Nat /\ Len(queue') = Len(queue) + 1
        /\ \A i \in 1..Len(queue) : queue'[i] = queue[i]
        /\ queue'[Len(queue) + 1] = st
    BY <1>1, <1>2, <1>10, LenProperties, AppendProperties
  <2>2. ASSUME NEW sd \in Seeds \ usedSeeds, NEW s \in Spots
        PROVE  db[UdmRow(sd, s)] = Absent /\ NotQueued(UdmRow(sd, s))'
    <3>1. sd # seed
      BY DEF FreshInv
    <3>2. st.row # UdmRow(sd, s)
      BY <3>1, UdmRowInjective
    <3> QED
      BY <2>1, <3>2 DEF FreshInv, NotQueued
  <2> QED
    BY <1>1, <1>5, <2>2 DEF FreshInv
<1>12. BlocksRecoverable'
  <2>1. ASSUME NEW s \in Spots \ unsaved', Settled(s)'
        PROVE  LatestIs(UdmRow(seed, s), udm[s])'
    <3>1. CASE s = e.spot
      <4>1. udm[s] = e.block
        BY <1>3, <1>6, <3>1
      <4>2. LatestIn(Append(queue, st), db, UdmRow(seed, s), e.block)
        BY <1>2, <1>10, <3>1, PushDecides
      <4> QED
        BY <1>1, <4>1, <4>2 DEF LatestIs
    <3>2. CASE s # e.spot
      <4>1. s \notin unsaved
        BY <1>1, <2>1, <3>2
      <4>2. ASSUME NEW j \in 1..Len(pushes[t]) PROVE pushes[t][j].spot # s
        <5>1. CASE j = 1
          BY <1>3, <3>2, <5>1
        <5>2. CASE j # 1
          <6>1. /\ j - 1 \in 1..Len(Tail(pushes[t]))
                /\ Tail(pushes[t])[j - 1] = pushes[t][j]
            BY <1>3, <5>2
          <6>2. csysLock' = t /\ pushes'[t] = Tail(pushes[t])
            <7>1. ASSUME Len(pushes[t]) = 1 PROVE FALSE
              <8>1. j \in 1..1
                BY <7>1
              <8> QED
                BY <5>2, <8>1
            <7> QED
              BY <1>1, <1>2, <1>4, <7>1
          <6> QED
            BY <1>4, <2>1, <6>1, <6>2 DEF Settled
        <5> QED
          BY <5>1, <5>2
      <4>3. Settled(s)
        BY <1>4, <1>5, <4>2 DEF Settled
      <4>4. LatestIn(queue, db, UdmRow(seed, s), udm[s])
        BY <4>1, <4>3 DEF BlocksRecoverable, LatestIs
      <4>5. st.row # UdmRow(seed, s)
        BY <3>2, UdmRowInjective
      <4>6. LatestIn(Append(queue, st), db, UdmRow(seed, s), udm[s])
        BY <1>2, <1>10, <4>4, <4>5, PushDecides
      <4> QED
        BY <1>1, <4>6 DEF LatestIs
    <3> QED
      BY <3>1, <3>2
  <2> QED
    BY <2>1 DEF BlocksRecoverable
<1> QED
  BY <1>8, <1>9, <1>11, <1>12

LEMMA BeginTakeoffKeepsBlocks ==
  ASSUME BInv, TInv', NEW t \in Threads, BeginTakeoff(t)
  PROVE  BInv'
<1> USE DEF BInv
<1>1. PICK sd \in Seeds \ usedSeeds : seed' = sd /\ usedSeeds' = usedSeeds \cup {sd}
  BY DEF BeginTakeoff
<1>2. /\ pc[t] = "takeoff" /\ csysLock = Free /\ csysLock' = t
      /\ pc' = [pc EXCEPT ![t] = "save"]
      /\ toSave' = {s \in Spots : udm[s] # Absent} /\ unsaved' = {}
      /\ UNCHANGED <<udm, sets, pushes, queue, db>>
  BY DEF BeginTakeoff, CsysFree, sqlVars
<1>3. pc \in [Threads -> PCs]
  BY DEF TInv, TypeOK
<1>4. HolderInv'
  BY <1>2, <1>3, StoreAssumption DEF HolderInv
<1>5. EditInv'
  <2>1. \A u \in Threads : Made(u)' = Made(u)
    BY <1>2 DEF Made
  <2> QED
    BY <1>2, <1>3, <2>1 DEF EditInv
<1>6. FreshInv'
  BY <1>1, <1>2 DEF FreshInv, NotQueued
<1>7. BlocksRecoverable'
  <2>1. ASSUME NEW s \in Spots, Settled(s)'
        PROVE  LatestIs(UdmRow(seed, s), udm[s])'
    <3>1. s \notin toSave'
      BY <1>2, <2>1, StoreAssumption DEF Settled
    <3>2. udm[s] = Absent
      BY <1>2, <3>1
    <3>3. db[UdmRow(sd, s)] = Absent /\ NotQueued(UdmRow(sd, s))
      BY DEF FreshInv
    <3>4. LatestIs(UdmRow(sd, s), Absent)
      BY <3>3, UntouchedRow
    <3> QED
      BY <1>1, <1>2, <3>2, <3>4 DEF LatestIs
  <2> QED
    BY <2>1 DEF BlocksRecoverable
<1> QED
  BY <1>4, <1>5, <1>6, <1>7

LEMMA SaveBlockKeepsBlocks ==
  ASSUME BInv, TInv', NEW t \in Threads, SaveBlock(t)
  PROVE  BInv'
<1> USE DEF BInv
<1>1. PICK s0 \in toSave : /\ db' = [db EXCEPT ![UdmRow(seed, s0)] = udm[s0]]
                           /\ toSave' = toSave \ {s0}
  BY DEF SaveBlock
<1>2. /\ pc[t] = "save"
      /\ UNCHANGED <<seed, udm, sets, pushes, usedSeeds, unsaved, csysLock, pc,
                     queue>>
  BY DEF SaveBlock, lockVars
<1>3. /\ seed \in Seeds /\ toSave \subseteq Spots
      /\ db \in [Rows -> Vals \cup {Absent}]
  BY DEF TInv, TypeOK, WorldTypeOK, SqlTypeOK
<1>4. csysLock = t /\ unsaved = {} /\ pushes[t] = <<>>
  BY <1>2 DEF HolderInv
<1>5. HolderInv'
  BY <1>1, <1>2 DEF HolderInv
<1>6. EditInv'
  <2>1. \A u \in Threads : Made(u)' = Made(u)
    BY <1>2 DEF Made
  <2> QED
    BY <1>2, <2>1 DEF EditInv
<1>7. ASSUME NEW row \in Rows, row # UdmRow(seed, s0)
      PROVE  db'[row] = db[row]
  BY <1>1, <1>3, <1>7
<1>8. FreshInv'
  <2>1. ASSUME NEW sd \in Seeds \ usedSeeds, NEW s \in Spots
        PROVE  db'[UdmRow(sd, s)] = Absent
    <3>1. sd # seed
      BY DEF FreshInv
    <3>2. UdmRow(sd, s) # UdmRow(seed, s0)
      BY <3>1 DEF UdmRow
    <3> QED
      BY <1>7, <3>2, RowsOfTables DEF FreshInv
  <2> QED
    BY <1>1, <1>2, <2>1 DEF FreshInv, NotQueued
<1>9. BlocksRecoverable'
  <2>1. ASSUME NEW s \in Spots, Settled(s)'
        PROVE  LatestIs(UdmRow(seed, s), udm[s])'
    <3>1. CASE s = s0
      <4>1. NotQueued(UdmRow(seed, s))'
        BY <1>2, <3>1 DEF FreshInv, NotQueued
      <4>2. db'[UdmRow(seed, s)] = udm[s]
        BY <1>1, <1>3, <3>1, RowsOfTables
      <4> QED
        BY <1>2, <4>1, <4>2 DEF NotQueued, LatestIs, LatestIn
    <3>2. CASE s # s0
      <4>1. Settled(s)
        BY <1>1, <1>2, <1>4, <2>1, <3>2 DEF Settled
      <4>2. LatestIn(queue, db, UdmRow(seed, s), udm[s])
        BY <1>4, <4>1 DEF BlocksRecoverable, LatestIs
      <4>3. UdmRow(seed, s) # UdmRow(seed, s0)
        BY <3>2 DEF UdmRow
      <4>4. db'[UdmRow(seed, s)] = db[UdmRow(seed, s)]
        BY <1>3, <1>7, <4>3, RowsOfTables
      <4> QED
        BY <1>2, <4>2, <4>4 DEF LatestIs, LatestIn
    <3> QED
      BY <3>1, <3>2
  <2> QED
    BY <1>2, <2>1 DEF BlocksRecoverable
<1> QED
  BY <1>5, <1>6, <1>8, <1>9

(* The take-off ends, with every spot written or in the middle.            *)
LEMMA TakeoffOverKeepsBlocks ==
  ASSUME BInv, TInv', NEW t \in Threads, EndTakeoff(t) \/ TakeoffPanics(t)
  PROVE  BInv'
<1> USE DEF BInv
<1>1. /\ pc[t] = "save" /\ csysLock' = Free /\ toSave' = {}
      /\ \E a \in {"idle", "dead"} : pc' = [pc EXCEPT ![t] = a]
      /\ unsaved' = IF EndTakeoff(t) THEN unsaved ELSE toSave
      /\ (EndTakeoff(t) => toSave = {})
      /\ UNCHANGED <<seed, udm, sets, pushes, usedSeeds, queue, db>>
  BY DEF EndTakeoff, TakeoffPanics, worldVars, sqlVars
<1>2. pc \in [Threads -> PCs]
  BY DEF TInv, TypeOK
<1>3. /\ csysLock = t /\ unsaved = {} /\ pushes[t] = <<>> /\ t # Free
      /\ \A u \in Threads : u # Free /\ (u # t => pc[u] \notin {"edit", "save"})
  BY <1>1, StoreAssumption DEF HolderInv
<1>4. HolderInv'
  BY <1>1, <1>2, <1>3 DEF HolderInv
<1>5. EditInv'
  <2>1. \A u \in Threads : Made(u)' = Made(u)
    BY <1>1 DEF Made
  <2> QED
    BY <1>1, <1>2, <2>1 DEF EditInv
<1>6. FreshInv'
  BY <1>1 DEF FreshInv, NotQueued
<1>7. BlocksRecoverable'
  <2>1. ASSUME NEW s \in Spots \ unsaved'
        PROVE  LatestIs(UdmRow(seed, s), udm[s])
    <3>1. s \notin toSave /\ s \notin unsaved
      BY <1>1, <1>3
    <3>2. Settled(s)
      BY <1>3, <3>1 DEF Settled
    <3> QED
      BY <3>1, <3>2 DEF BlocksRecoverable
  <2> QED
    BY <1>1, <2>1 DEF BlocksRecoverable, LatestIs
<1> QED
  BY <1>4, <1>5, <1>6, <1>7

(* A server that starts, for the first time or after a crash.              *)
LEMMA FreshStart ==
  ASSUME \A s \in Spots : udm[s] = db[UdmRow(InitialSeed, s)],
         seed = InitialSeed, InitialSeed \in usedSeeds,
         \A sd \in Seeds \ usedSeeds, s \in Spots : db[UdmRow(sd, s)] = Absent,
         csysLock = Free, pc = EachThread("idle"),
         pushes = EachThread(<<>>), toSave = {}, queue = <<>>
  PROVE  HolderInv /\ EditInv /\ FreshInv /\ BlocksRecoverable
<1>1. HolderInv /\ EditInv
  BY StoreAssumption DEF HolderInv, EditInv, EachThread
<1>2. \A row : NotQueued(row)
  <2>1. Len(queue) = 0
    BY EmptySeq, Zenon
  <2> QED
    BY <2>1 DEF NotQueued
<1>3. FreshInv
  BY <1>2 DEF FreshInv
<1>4. BlocksRecoverable
  BY <1>2, UntouchedRow DEF BlocksRecoverable
<1> QED
  BY <1>1, <1>3, <1>4

LEMMA InitBlocks == Init => BInv
<1> SUFFICES ASSUME Init PROVE BInv
  OBVIOUS
<1>1. TInv
  BY InitTypes
<1>2. /\ \A s \in Spots : udm[s] = db[UdmRow(InitialSeed, s)]
      /\ \A sd \in Seeds \ usedSeeds, s \in Spots : db[UdmRow(sd, s)] = Absent
  BY RowsOfTables DEF Init, LoadedWorld
<1>3. /\ seed = InitialSeed /\ InitialSeed \in usedSeeds
      /\ csysLock = Free /\ pc = EachThread("idle")
      /\ pushes = EachThread(<<>>) /\ toSave = {} /\ queue = <<>>
  BY DEF Init
<1> QED
  BY <1>1, <1>2, <1>3, FreshStart DEF BInv

LEMMA RestartKeepsBlocks ==
  ASSUME BInv, TInv', Restart
  PROVE  BInv'
<1>1. /\ \A s \in Spots : udm'[s] = db'[UdmRow(InitialSeed, s)]
      /\ \A sd \in Seeds \ usedSeeds', s \in Spots : db'[UdmRow(sd, s)] = Absent
      /\ InitialSeed \in usedSeeds'
  BY DEF Restart, LoadedWorld, BInv, FreshInv
<1>2. /\ seed' = InitialSeed
      /\ csysLock' = Free /\ pc' = EachThread("idle")
      /\ pushes' = EachThread(<<>>) /\ toSave' = {} /\ queue' = <<>>
  BY DEF Restart
<1>3. (HolderInv /\ EditInv /\ FreshInv /\ BlocksRecoverable)'
  <2>1. HolderInv' /\ EditInv'
    BY <1>2, StoreAssumption DEF HolderInv, EditInv, EachThread
  <2>2. Len(queue') = 0
    BY <1>2, EmptySeq, Zenon
  <2>3. FreshInv'
    BY <1>1, <1>2, <2>2 DEF FreshInv, NotQueued
  <2>4. BlocksRecoverable'
    BY <1>1, <1>2, <2>2 DEF BlocksRecoverable, LatestIs, LatestIn
  <2> QED
    BY <2>1, <2>3, <2>4
<1> QED
  BY <1>3 DEF BInv

LEMMA StepBlocks == BInv /\ [Next]_vars => BInv'
<1> SUFFICES ASSUME BInv, [Next]_vars PROVE BInv'
  OBVIOUS
<1>1. TInv'
  BY StepTypes DEF BInv
<1>2. ASSUME NEW t \in Threads, Receive(t) PROVE BInv'
  BY <1>1, <1>2, ReceiveEditsKeepsBlocks, OtherStepsKeepBlocks DEF Receive
<1>3. ASSUME NEW t \in Threads, Work(t) \/ TakeoffPanics(t) PROVE BInv'
  BY <1>1, <1>3, BeginEditKeepsBlocks, SetBlockKeepsBlocks,
     PushBlockKeepsBlocks, BeginTakeoffKeepsBlocks, SaveBlockKeepsBlocks,
     TakeoffOverKeepsBlocks, OtherStepsKeepBlocks DEF Work
<1>4. CASE UNCHANGED vars
  BY <1>1, <1>4, BlocksUndisturbed DEF vars, lockVars, sqlVars
<1> QED
  BY <1>1, <1>2, <1>3, <1>4, SessionsKeepBlocks, SqlKeepsBlocks,
     RestartKeepsBlocks DEF Next

(* However many handlers edit, take off, die and are interrupted by a      *)
(* crash, and wherever the SQL thread is: a settled spot's block is the    *)
(* last one queued for it, or the one its table holds.                     *)
THEOREM BlocksAlwaysRecoverable == Spec => []BlocksRecoverable
<1>1. Init => BInv
  BY InitBlocks
<1>2. BInv /\ [Next]_vars => BInv'
  BY StepBlocks
<1>3. BInv => BlocksRecoverable
  BY DEF BInv
<1> QED
  BY <1>1, <1>2, <1>3, PTL DEF Spec

----------------------------------------------------------------------------
(* Chests and inventories.  SnapshotsRecoverable speaks of what nobody     *)
(* holds; that it survives the release of a lock takes that whoever is     *)
(* changing a chest has its entry, that its row will name the seed of a    *)
(* world there was, and that everything else stays recoverable meanwhile.  *)

EntryInv ==
  \A t \in Threads :
    /\ pc[t] \in {"setchest", "pushchest"} => entryLock[slotmsg[t].where] = t
    /\ pc[t] = "pushchest" => seedread[t] \in usedSeeds

BeingChanged(k) ==
  \E t \in Threads : pc[t] \in {"setchest", "pushchest"} /\ slotmsg[t].where = k
ChestsSaved ==
  \A k \in Chests : \/ BeingChanged(k)
                    \/ \E sd \in usedSeeds : LatestIs(ChestRow(sd, k), chest[k])

HeldBack(p) ==
  \E t \in Threads : pc[t] \in {"setinv", "pushinv"} /\ slotmsg[t].where = p
InvsSaved ==
  \A p \in touched : HeldBack(p) \/ LatestIs(InvRow(p), inv[p])

SInv == BInv /\ EntryInv /\ ChestsSaved /\ InvsSaved

(* A step that writes or queues none of their rows, or the next of them.   *)
RowsKept ==
  /\ \A sd \in usedSeeds, k \in Chests, v \in Inventories \cup {Absent} :
       LatestIs(ChestRow(sd, k), v) => LatestIs(ChestRow(sd, k), v)'
  /\ \A p \in Players, v \in Inventories \cup {Absent} :
       LatestIs(InvRow(p), v) => LatestIs(InvRow(p), v)'

LEMMA SameRowsKept == ASSUME UNCHANGED <<queue, db>> PROVE RowsKept
  BY DEF RowsKept, LatestIs, LatestIn

LEMMA PushedElsewhere ==
  ASSUME queue \in Seq(Stmt), NEW st \in Stmt, queue' = Append(queue, st), UNCHANGED db,
         NEW row, row # st.row, NEW v, LatestIs(row, v)
  PROVE  LatestIs(row, v)'
<1>1. LatestIn(queue', db, row, v)
  BY PushDecides DEF LatestIs
<1>2. QED
  BY <1>1 DEF LatestIs

LEMMA OtherRowsKept ==
  ASSUME queue \in Seq(Stmt), NEW st \in Stmt, queue' = Append(queue, st), UNCHANGED db,
         \A sd, k : st.row # ChestRow(sd, k), \A p : st.row # InvRow(p)
  PROVE  RowsKept
<1>1. ASSUME NEW sd \in usedSeeds, NEW k \in Chests, NEW v, LatestIs(ChestRow(sd, k), v)
      PROVE  LatestIs(ChestRow(sd, k), v)'
  <2>1. PICK row : row = ChestRow(sd, k)
    OBVIOUS
  <2>2. LatestIs(row, v)'
    BY <1>1, <2>1, PushedElsewhere
  <2>3. QED
    BY <2>1, <2>2 DEF LatestIs
<1>2. ASSUME NEW p \in Players, NEW v, LatestIs(InvRow(p), v)
      PROVE  LatestIs(InvRow(p), v)'
  <2>1. PICK row : row = InvRow(p)
    OBVIOUS
  <2>2. LatestIs(row, v)'
    BY <1>2, <2>1, PushedElsewhere
  <2>3. QED
    BY <2>1, <2>2 DEF LatestIs
<1>3. QED
  BY <1>1, <1>2 DEF RowsKept

LEMMA SavedBlockRowsKept ==
  ASSUME UNCHANGED queue, NEW sd, NEW s, NEW b,
         db' = [db EXCEPT ![UdmRow(sd, s)] = b]
  PROVE  RowsKept
<1>1. \A row : row # UdmRow(sd, s) => db'[row] = db[row] \/ row \notin DOMAIN db
  OBVIOUS
<1>2. \A a, k : db'[ChestRow(a, k)] = db[ChestRow(a, k)]
  BY UdmRowInjective
<1>3. \A p : db'[InvRow(p)] = db[InvRow(p)]
  BY UdmRowInjective
<1>4. QED
  BY <1>2, <1>3 DEF RowsKept, LatestIs, LatestIn

LEMMA CommittedRowsKept ==
  ASSUME TInv, SqlCommit
  PROVE  RowsKept
<1>1. /\ queue \in Seq(Stmt) /\ queue # <<>> /\ db \in [Rows -> Vals \cup {Absent}]
      /\ usedSeeds \subseteq Seeds
  BY DEF SqlCommit, WriteRow, TInv, SqlInv, TypeOK, SqlTypeOK, WorldTypeOK
<1>2. queue' = Tail(queue) /\ db' = [db EXCEPT ![queue[1].row] = queue[1].val]
  BY <1>1, HeadRemoved DEF SqlCommit, WriteRow
<1>3. ASSUME NEW row \in Rows, NEW v, LatestIs(row, v)
      PROVE  LatestIs(row, v)'
  <2>1. LatestIn(queue', db', row, v)
    BY <1>1, <1>2, <1>3, CommitKeepsLatest DEF LatestIs
  <2>2. QED
    BY <2>1 DEF LatestIs
<1>4. ASSUME NEW sd \in usedSeeds, NEW k \in Chests, NEW v, LatestIs(ChestRow(sd, k), v)
      PROVE  LatestIs(ChestRow(sd, k), v)'
  <2>1. PICK row \in Rows : row = ChestRow(sd, k)
    BY <1>1, RowsOfTables
  <2>2. LatestIs(row, v)'
    BY <1>3, <1>4, <2>1
  <2>3. QED
    BY <2>1, <2>2 DEF LatestIs
<1>5. ASSUME NEW p \in Players, NEW v, LatestIs(InvRow(p), v)
      PROVE  LatestIs(InvRow(p), v)'
  <2>1. PICK row \in Rows : row = InvRow(p)
    BY RowsOfTables
  <2>2. LatestIs(row, v)'
    BY <1>3, <1>5, <2>1
  <2>3. QED
    BY <2>1, <2>2 DEF LatestIs
<1>6. QED
  BY <1>4, <1>5 DEF RowsKept

(* A step that changes neither what is held nor who holds it.              *)
LEMMA SavedUndisturbed ==
  ASSUME TInv, TInv', EntryInv, ChestsSaved, InvsSaved, RowsKept,
         usedSeeds \subseteq usedSeeds', UNCHANGED <<chest, entryLock, seedread>>,
         touched' \subseteq touched, \A p \in touched' : inv'[p] = inv[p],
         \A t \in Threads, a \in {"setchest", "pushchest", "setinv", "pushinv"} :
           /\ pc'[t] = a <=> pc[t] = a
           /\ pc[t] = a => slotmsg'[t] = slotmsg[t]
  PROVE  EntryInv' /\ ChestsSaved' /\ InvsSaved'
<1>1. \A t \in Threads :
        /\ pc'[t] \in {"setchest", "pushchest"} <=> pc[t] \in {"setchest", "pushchest"}
        /\ pc'[t] \in {"setinv", "pushinv"} <=> pc[t] \in {"setinv", "pushinv"}
        /\ pc'[t] = "pushchest" <=> pc[t] = "pushchest"
        /\ pc[t] \in {"setchest", "pushchest", "setinv", "pushinv"}
             => slotmsg'[t] = slotmsg[t]
  OBVIOUS
<1>2. EntryInv'
  BY <1>1 DEF EntryInv
<1>3. \A k \in Chests : BeingChanged(k) => BeingChanged(k)'
  BY <1>1 DEF BeingChanged
<1>4. \A k \in Chests : chest[k] \in Inventories \cup {Absent}
  BY DEF TInv, TypeOK, ItemTypeOK
<1>5. ASSUME NEW k \in Chests, ~BeingChanged(k)'
      PROVE  \E sd \in usedSeeds' : LatestIs(ChestRow(sd, k), chest[k])'
  <2>1. PICK sd \in usedSeeds : LatestIs(ChestRow(sd, k), chest[k])
    BY <1>3, <1>5 DEF ChestsSaved
  <2>2. PICK v \in Inventories \cup {Absent} : v = chest[k]
    BY <1>4
  <2>3. LatestIs(ChestRow(sd, k), v)
    BY <2>1, <2>2
  <2>4. LatestIs(ChestRow(sd, k), v)'
    BY <2>3 DEF RowsKept
  <2>5. LatestIs(ChestRow(sd, k), chest[k])'
    BY <2>2, <2>4 DEF LatestIs
  <2>6. QED
    BY <2>5
<1>6. ChestsSaved'
  BY <1>5 DEF ChestsSaved
<1>7. \A p \in Players : HeldBack(p) => HeldBack(p)'
  BY <1>1 DEF HeldBack
<1>8. \A p \in touched : p \in Players /\ inv[p] \in Inventories \cup {Absent}
  BY DEF TInv, TypeOK, ItemTypeOK
<1>9. ASSUME NEW p \in touched', ~HeldBack(p)'
      PROVE  LatestIs(InvRow(p), inv[p])'
  <2>1. LatestIs(InvRow(p), inv[p])
    BY <1>7, <1>8, <1>9 DEF InvsSaved
  <2>2. PICK v \in Inventories \cup {Absent} : v = inv[p]
    BY <1>8
  <2>3. LatestIs(InvRow(p), v)
    BY <2>1, <2>2
  <2>4. LatestIs(InvRow(p), v)'
    BY <1>8, <2>3 DEF RowsKept
  <2>5. QED
    BY <2>2, <2>4 DEF LatestIs
<1>10. InvsSaved'
  BY <1>9 DEF InvsSaved
<1>11. QED
  BY <1>2, <1>6, <1>10

(* A chest step changes nothing of the sessions, and the other way round.  *)
LEMMA ChestStepsLeaveInvs ==
  ASSUME TInv, InvsSaved, RowsKept, UNCHANGED <<touched, inv>>,
         \A t \in Threads : pc[t] \in {"setinv", "pushinv"} =>
           pc'[t] = pc[t] /\ slotmsg'[t] = slotmsg[t]
  PROVE  InvsSaved'
<1>1. \A p \in Players : HeldBack(p) => HeldBack(p)'
  BY DEF HeldBack
<1>2. \A p \in touched : p \in Players /\ inv[p] \in Inventories \cup {Absent}
  BY DEF TInv, TypeOK, ItemTypeOK
<1>3. ASSUME NEW p \in touched, ~HeldBack(p)' PROVE LatestIs(InvRow(p), inv[p])'
  <2>1. LatestIs(InvRow(p), inv[p])
    BY <1>1, <1>2, <1>3 DEF InvsSaved
  <2>2. PICK v \in Inventories \cup {Absent} : v = inv[p]
    BY <1>2
  <2>3. LatestIs(InvRow(p), v)'
    BY <1>2, <2>1, <2>2 DEF RowsKept
  <2>4. QED
    BY <2>2, <2>3 DEF LatestIs
<1>4. QED
  BY <1>3 DEF InvsSaved

LEMMA InvStepsLeaveChests ==
  ASSUME TInv, EntryInv, ChestsSaved, RowsKept,
         UNCHANGED <<chest, entryLock, seedread, usedSeeds>>,
         \A t \in Threads :
           /\ pc'[t] \in {"setchest", "pushchest"} => pc'[t] = pc[t]
           /\ pc[t] \in {"setchest", "pushchest"} =>
                pc'[t] = pc[t] /\ slotmsg'[t] = slotmsg[t]
  PROVE  EntryInv' /\ ChestsSaved'
<1>1. \A k \in Chests : BeingChanged(k) => BeingChanged(k)'
  BY DEF BeingChanged
<1>2. \A k \in Chests : chest[k] \in Inventories \cup {Absent}
  BY DEF TInv, TypeOK, ItemTypeOK
<1>3. ASSUME NEW k \in Chests, ~BeingChanged(k)'
      PROVE  \E sd \in usedSeeds' : LatestIs(ChestRow(sd, k), chest[k])'
  <2>1. PICK sd \in usedSeeds : LatestIs(ChestRow(sd, k), chest[k])
    BY <1>1, <1>3 DEF ChestsSaved
  <2>2. PICK v \in Inventories \cup {Absent} : v = chest[k]
    BY <1>2
  <2>3. LatestIs(ChestRow(sd, k), v)'
    BY <2>1, <2>2 DEF RowsKept
  <2>4. LatestIs(ChestRow(sd, k), chest[k])'
    BY <2>2, <2>3 DEF LatestIs
  <2>5. QED
    BY <2>4
<1>4. ChestsSaved'
  BY <1>3 DEF ChestsSaved
<1>5. EntryInv'
  BY DEF EntryInv
<1>6. QED
  BY <1>4, <1>5

LEMMA PcSet ==
  ASSUME TInv, NEW t \in Threads, NEW a, pc' = [pc EXCEPT ![t] = a]
  PROVE  pc'[t] = a /\ \A u \in Threads \ {t} : pc'[u] = pc[u]
  BY DEF TInv, TypeOK

LEMMA ReadChestSaves ==
  ASSUME SInv, NEW t \in Threads, ReadChest(t)
  PROVE  EntryInv' /\ ChestsSaved' /\ InvsSaved'
<1>1. PICK k \in Chests : k = slotmsg[t].where
  BY DEF ReadChest, SInv, BInv, TInv, ArmInv
<1>2. /\ TInv /\ EntryInv /\ ChestsSaved /\ InvsSaved
      /\ pc[t] = "chest" /\ pc' = [pc EXCEPT ![t] = "setchest"]
      /\ entryLock[k] = Free /\ entryLock' = [entryLock EXCEPT ![k] = t]
      /\ \A c \in Chests : c # k => chest'[c] = chest[c]
      /\ UNCHANGED <<slotmsg, seedread, usedSeeds, inv, touched, queue, db>>
  BY <1>1 DEF ReadChest, SInv, BInv, TInv, TypeOK, ItemTypeOK, EntryFree, worldVars, sqlVars
<1>3. pc'[t] = "setchest" /\ \A u \in Threads \ {t} : pc'[u] = pc[u]
  BY <1>2, PcSet
<1>4. RowsKept
  BY <1>2, SameRowsKept
<1>5. InvsSaved'
  BY <1>2, <1>3, <1>4, ChestStepsLeaveInvs
<1>6. EntryInv'
  <2>1. entryLock \in [Chests -> Threads \cup {Free}]
    BY <1>2 DEF TInv, TypeOK, LockTypeOK
  <2>2. entryLock'[k] = t /\ \A c \in Chests : c # k => entryLock'[c] = entryLock[c]
    BY <1>2, <2>1
  <2>3. ASSUME NEW u \in Threads \ {t}, pc[u] \in {"setchest", "pushchest"}
        PROVE  entryLock'[slotmsg[u].where] = u
    <3>1. slotmsg[u].where \in Chests /\ entryLock[slotmsg[u].where] = u
      BY <1>2, <2>3 DEF EntryInv, TInv, ArmInv
    <3>2. slotmsg[u].where # k
      BY <1>2, <3>1, StoreAssumption
    <3>3. QED
      BY <2>2, <3>1, <3>2
  <2>4. QED
    BY <1>1, <1>2, <1>3, <2>2, <2>3 DEF EntryInv
<1>7. BeingChanged(k)'
  BY <1>1, <1>2, <1>3 DEF BeingChanged
<1>8. \A c \in Chests : BeingChanged(c) => BeingChanged(c)'
  BY <1>2, <1>3 DEF BeingChanged
<1>9. ChestsSaved'
  BY <1>2, <1>7, <1>8 DEF ChestsSaved, LatestIs
<1>10. QED
  BY <1>5, <1>6, <1>9

LEMMA WriteChestSaves ==
  ASSUME SInv, NEW t \in Threads, WriteChest(t)
  PROVE  EntryInv' /\ ChestsSaved' /\ InvsSaved'
<1>1. PICK k \in Chests : k = slotmsg[t].where
  BY DEF WriteChest, SInv, BInv, TInv, ArmInv
<1>2. /\ TInv /\ EntryInv /\ ChestsSaved /\ InvsSaved /\ seed \in usedSeeds
      /\ pc[t] = "setchest" /\ pc' = [pc EXCEPT ![t] = "pushchest"]
      /\ seedread' = [seedread EXCEPT ![t] = seed]
      /\ UNCHANGED <<slotmsg, entryLock, usedSeeds, inv, touched, queue, db>>
  BY DEF WriteChest, SInv, BInv, FreshInv, worldVars, sqlVars, lockVars
<1>3. pc'[t] = "pushchest" /\ \A u \in Threads \ {t} : pc'[u] = pc[u]
  BY <1>2, PcSet
<1>4. \A c \in Chests : c # k => chest'[c] = chest[c]
  <2>1. PICK v : chest' = [chest EXCEPT ![k] = v]
    BY <1>1 DEF WriteChest
  <2>2. QED
    BY <1>2, <2>1 DEF TInv, TypeOK, ItemTypeOK
<1>5. RowsKept
  BY <1>2, SameRowsKept
<1>6. InvsSaved'
  BY <1>2, <1>3, <1>5, ChestStepsLeaveInvs
<1>7. EntryInv'
  <2>1. seedread \in [Threads -> Seeds]
    BY <1>2 DEF TInv, TypeOK, ItemTypeOK
  <2>2. seedread'[t] = seed /\ \A u \in Threads \ {t} : seedread'[u] = seedread[u]
    BY <1>2, <2>1
  <2>3. QED
    BY <1>2, <1>3, <2>2 DEF EntryInv
<1>8. BeingChanged(k)'
  BY <1>1, <1>2, <1>3 DEF BeingChanged
<1>9. \A c \in Chests : BeingChanged(c) => BeingChanged(c)'
  BY <1>2, <1>3 DEF BeingChanged
<1>10. ChestsSaved'
  BY <1>2, <1>4, <1>8, <1>9 DEF ChestsSaved, LatestIs
<1>11. QED
  BY <1>6, <1>7, <1>10

LEMMA RowsApart ==
  ASSUME NEW a, NEW x, NEW b, NEW y
  PROVE  /\ ChestRow(a, x) = ChestRow(b, y) <=> a = b /\ x = y
         /\ InvRow(x) = InvRow(y) <=> x = y
         /\ InvRow(x) # ChestRow(b, y) /\ PosRow(x) # ChestRow(b, y)
         /\ PosRow(x) # InvRow(y)
BY DEF ChestRow, InvRow, PosRow

LEMMA PushChestSaves ==
  ASSUME SInv, NEW t \in Threads, PushChest(t)
  PROVE  EntryInv' /\ ChestsSaved' /\ InvsSaved'
<1>1. PICK k \in Chests : k = slotmsg[t].where
  BY DEF PushChest, SInv, BInv, TInv, ArmInv
<1>2. PICK sd \in usedSeeds : sd = seedread[t]
  BY DEF PushChest, SInv, EntryInv
<1>3. PICK st : st = [row |-> ChestRow(sd, k), val |-> chest[k]]
  OBVIOUS
<1>4. /\ TInv /\ EntryInv /\ ChestsSaved /\ InvsSaved /\ sd \in Seeds
      /\ chest[k] \in Inventories /\ queue \in Seq(Stmt)
      /\ pc[t] = "pushchest" /\ pc' = [pc EXCEPT ![t] = "reply"]
      /\ queue' = Append(queue, st) /\ entryLock' = [entryLock EXCEPT ![k] = Free]
      /\ UNCHANGED <<chest, slotmsg, seedread, usedSeeds, inv, touched, db>>
  BY <1>1, <1>2, <1>3 DEF PushChest, SInv, BInv, TInv, ArmInv, TypeOK, WorldTypeOK,
     SqlTypeOK, worldVars, itemVars
<1>5. pc'[t] = "reply" /\ \A u \in Threads \ {t} : pc'[u] = pc[u]
  BY <1>4, PcSet
<1>6. st \in Stmt /\ st.row = ChestRow(sd, k) /\ st.val = chest[k]
  BY <1>3, <1>4, RowsOfTables, ValsOfTables DEF Stmt, Vals
<1>7. ASSUME NEW row, row # ChestRow(sd, k), NEW v, LatestIs(row, v)
      PROVE  LatestIs(row, v)'
  BY <1>4, <1>6, <1>7, PushedElsewhere
<1>8. LatestIs(ChestRow(sd, k), chest[k])'
  <2>1. LatestIn(queue', db, st.row, st.val)
    BY <1>4, <1>6, PushDecides
  <2>2. QED
    BY <1>4, <1>6, <2>1 DEF LatestIs
<1>9. \A u \in Threads \ {t} :
        pc[u] \in {"setchest", "pushchest"} => slotmsg[u].where \in Chests \ {k}
  BY <1>1, <1>4 DEF EntryInv, TInv, ArmInv
<1>10. EntryInv'
  <2>1. entryLock \in [Chests -> Threads \cup {Free}]
    BY <1>4 DEF TInv, TypeOK, LockTypeOK
  <2>2. \A c \in Chests \ {k} : entryLock'[c] = entryLock[c]
    BY <1>4, <2>1
  <2>3. QED
    BY <1>4, <1>5, <1>9, <2>2 DEF EntryInv
<1>11. \A c \in Chests \ {k} : BeingChanged(c) => BeingChanged(c)'
  BY <1>1, <1>4, <1>5 DEF BeingChanged
<1>12. ASSUME NEW c \in Chests \ {k}, ~BeingChanged(c)'
       PROVE  \E a \in usedSeeds' : LatestIs(ChestRow(a, c), chest[c])'
  <2>1. PICK a \in usedSeeds : LatestIs(ChestRow(a, c), chest[c])
    BY <1>4, <1>11, <1>12 DEF ChestsSaved
  <2>2. PICK row : row = ChestRow(a, c)
    OBVIOUS
  <2>3. PICK v : v = chest[c]
    OBVIOUS
  <2>4. row # ChestRow(sd, k)
    BY <2>2, RowsApart
  <2>5. LatestIs(row, v)
    BY <2>1, <2>2, <2>3
  <2>6. LatestIs(row, v)'
    BY <1>7, <2>4, <2>5
  <2>7. LatestIs(ChestRow(a, c), chest[c])'
    BY <1>4, <2>2, <2>3, <2>6 DEF LatestIs
  <2>8. QED
    BY <1>4, <2>7
<1>13. ChestsSaved'
  BY <1>4, <1>8, <1>12 DEF ChestsSaved
<1>14. ASSUME NEW p \in touched, ~HeldBack(p)' PROVE LatestIs(InvRow(p), inv[p])'
  <2>1. ~HeldBack(p)
    BY <1>4, <1>5, <1>14 DEF HeldBack
  <2>2. PICK row : row = InvRow(p)
    OBVIOUS
  <2>3. PICK v : v = inv[p]
    OBVIOUS
  <2>4. row # ChestRow(sd, k)
    BY <2>2, RowsApart
  <2>5. LatestIs(row, v)
    BY <1>4, <2>1, <2>2, <2>3 DEF InvsSaved
  <2>6. LatestIs(row, v)'
    BY <1>7, <2>4, <2>5
  <2>7. QED
    BY <1>4, <2>2, <2>3, <2>6 DEF LatestIs
<1>15. InvsSaved'
  BY <1>4, <1>14 DEF InvsSaved
<1>16. QED
  BY <1>10, <1>13, <1>15

LEMMA ReadInvSaves ==
  ASSUME SInv, NEW t \in Threads, ReadInv(t)
  PROVE  EntryInv' /\ ChestsSaved' /\ InvsSaved'
<1>1. /\ TInv /\ EntryInv /\ ChestsSaved /\ InvsSaved
      /\ pc[t] = "inv" /\ pc' = [pc EXCEPT ![t] = "setinv"]
      /\ UNCHANGED <<chest, slotmsg, entryLock, seedread, usedSeeds, inv, touched,
                     queue, db>>
  BY DEF ReadInv, SInv, BInv, worldVars, sqlVars
<1>2. pc'[t] = "setinv" /\ \A u \in Threads \ {t} : pc'[u] = pc[u]
  BY <1>1, PcSet
<1>3. RowsKept
  BY <1>1, SameRowsKept
<1>4. EntryInv' /\ ChestsSaved'
  BY <1>1, <1>2, <1>3, InvStepsLeaveChests
<1>5. \A p \in touched : HeldBack(p) => HeldBack(p)'
  BY <1>1, <1>2 DEF HeldBack
<1>6. InvsSaved'
  BY <1>1, <1>5 DEF InvsSaved, LatestIs
<1>7. QED
  BY <1>4, <1>6

LEMMA WriteInvSaves ==
  ASSUME SInv, NEW t \in Threads, WriteInv(t)
  PROVE  EntryInv' /\ ChestsSaved' /\ InvsSaved'
<1>1. PICK p \in Players : p = slotmsg[t].where
  BY DEF WriteInv, SInv, BInv, TInv, ArmInv
<1>2. /\ TInv /\ EntryInv /\ ChestsSaved /\ InvsSaved
      /\ pc[t] = "setinv" /\ pc' = [pc EXCEPT ![t] = "pushinv"]
      /\ touched' = touched \cup {p}
      /\ UNCHANGED <<chest, slotmsg, entryLock, seedread, usedSeeds, queue, db>>
  BY <1>1 DEF WriteInv, SInv, BInv, worldVars, sqlVars, lockVars
<1>3. pc'[t] = "pushinv" /\ \A u \in Threads \ {t} : pc'[u] = pc[u]
  BY <1>2, PcSet
<1>4. RowsKept
  BY <1>2, SameRowsKept
<1>5. EntryInv' /\ ChestsSaved'
  BY <1>2, <1>3, <1>4, InvStepsLeaveChests
<1>6. \A q \in Players : q # p => inv'[q] = inv[q]
  <2>1. PICK v : inv' = [inv EXCEPT ![p] = v]
    BY <1>1 DEF WriteInv
  <2>2. QED
    BY <1>2, <2>1 DEF TInv, TypeOK, ItemTypeOK
<1>7. HeldBack(p)'
  BY <1>1, <1>2, <1>3 DEF HeldBack
<1>8. \A q \in touched : q \in Players /\ (HeldBack(q) => HeldBack(q)')
  BY <1>2, <1>3 DEF HeldBack, TInv, TypeOK, ItemTypeOK
<1>9. InvsSaved'
  BY <1>2, <1>6, <1>7, <1>8 DEF InvsSaved, LatestIs
<1>10. QED
  BY <1>5, <1>9

LEMMA PushInvSaves ==
  ASSUME SInv, NEW t \in Threads, PushInv(t)
  PROVE  EntryInv' /\ ChestsSaved' /\ InvsSaved'
<1>1. PICK p \in Players : p = slotmsg[t].where
  BY DEF PushInv, SInv, BInv, TInv, ArmInv
<1>2. PICK st : st = [row |-> InvRow(p), val |-> inv[p]]
  OBVIOUS
<1>3. /\ TInv /\ EntryInv /\ ChestsSaved /\ InvsSaved
      /\ inv[p] \in Inventories /\ queue \in Seq(Stmt) /\ usedSeeds \subseteq Seeds
      /\ pc[t] = "pushinv" /\ pc' = [pc EXCEPT ![t] = "reply"]
      /\ queue' = Append(queue, st)
      /\ UNCHANGED <<chest, slotmsg, entryLock, seedread, usedSeeds, inv, touched, db>>
  BY <1>1, <1>2 DEF PushInv, SInv, BInv, TInv, ArmInv, TypeOK, WorldTypeOK, SqlTypeOK,
     worldVars, itemVars
<1>4. pc'[t] = "reply" /\ \A u \in Threads \ {t} : pc'[u] = pc[u]
  BY <1>3, PcSet
<1>5. st \in Stmt /\ st.row = InvRow(p) /\ st.val = inv[p]
  BY <1>2, <1>3, RowsOfTables, ValsOfTables DEF Stmt, Vals
<1>6. ASSUME NEW row, row # InvRow(p), NEW v, LatestIs(row, v)
      PROVE  LatestIs(row, v)'
  BY <1>3, <1>5, <1>6, PushedElsewhere
<1>7. LatestIs(InvRow(p), inv[p])'
  <2>1. LatestIn(queue', db, st.row, st.val)
    BY <1>3, <1>5, PushDecides
  <2>2. QED
    BY <1>3, <1>5, <2>1 DEF LatestIs
<1>8. ASSUME NEW c \in Chests, ~BeingChanged(c)'
      PROVE  \E a \in usedSeeds' : LatestIs(ChestRow(a, c), chest[c])'
  <2>1. ~BeingChanged(c)
    BY <1>3, <1>4, <1>8 DEF BeingChanged
  <2>2. PICK a \in usedSeeds : LatestIs(ChestRow(a, c), chest[c])
    BY <1>3, <2>1 DEF ChestsSaved
  <2>3. PICK row : row = ChestRow(a, c)
    OBVIOUS
  <2>4. PICK v : v = chest[c]
    OBVIOUS
  <2>5. row # InvRow(p)
    BY <2>3, RowsApart
  <2>6. LatestIs(row, v)
    BY <2>2, <2>3, <2>4
  <2>7. LatestIs(row, v)'
    BY <1>6, <2>5, <2>6
  <2>8. LatestIs(ChestRow(a, c), chest[c])'
    BY <1>3, <2>3, <2>4, <2>7 DEF LatestIs
  <2>9. QED
    BY <1>3, <2>8
<1>9. ChestsSaved'
  BY <1>8 DEF ChestsSaved
<1>10. EntryInv'
  BY <1>3, <1>4 DEF EntryInv
<1>11. ASSUME NEW q \in touched, q # p, ~HeldBack(q)' PROVE LatestIs(InvRow(q), inv[q])'
  <2>1. ~HeldBack(q)
    BY <1>1, <1>3, <1>4, <1>11 DEF HeldBack
  <2>2. PICK row : row = InvRow(q)
    OBVIOUS
  <2>3. PICK v : v = inv[q]
    OBVIOUS
  <2>4. row # InvRow(p)
    BY <1>11, <2>2, RowsApart
  <2>5. LatestIs(row, v)
    BY <1>3, <2>1, <2>2, <2>3 DEF InvsSaved
  <2>6. LatestIs(row, v)'
    BY <1>6, <2>4, <2>5
  <2>7. QED
    BY <1>3, <2>2, <2>3, <2>6 DEF LatestIs
<1>12. InvsSaved'
  BY <1>3, <1>7, <1>11 DEF InvsSaved
<1>13. QED
  BY <1>9, <1>10, <1>12

(* The steps of the other arms.                                            *)
LEMMA OtherStepsSave ==
  ASSUME SInv, TInv', NEW t \in Threads,
         \/ BeginEdit(t) \/ SetBlock(t) \/ BeginTakeoff(t) \/ SaveBlock(t)
         \/ EndTakeoff(t) \/ TakeoffPanics(t) \/ Reply(t)
         \/ Panics(t, "inv") \/ Panics(t, "player") \/ Receive(t)
  PROVE  EntryInv' /\ ChestsSaved' /\ InvsSaved'
<1>1. /\ TInv /\ EntryInv /\ ChestsSaved /\ InvsSaved
      /\ pc \in [Threads -> PCs] /\ slotmsg \in [Threads -> SlotMsg]
  BY DEF SInv, BInv, TInv, TypeOK, ItemTypeOK
<1> DEFINE Rest == /\ usedSeeds \subseteq usedSeeds'
                   /\ UNCHANGED <<chest, entryLock, seedread, touched, inv>>
<1>2. CASE BeginEdit(t) \/ SetBlock(t) \/ BeginTakeoff(t) \/ EndTakeoff(t)
           \/ TakeoffPanics(t)
  <2>1. Rest /\ UNCHANGED <<queue, db, slotmsg>>
    BY <1>2 DEF BeginEdit, SetBlock, BeginTakeoff, EndTakeoff, TakeoffPanics, itemVars,
       sqlVars, worldVars, lockVars
  <2>2. \A u \in Threads, a \in {"setchest", "pushchest", "setinv", "pushinv"} :
          pc'[u] = a <=> pc[u] = a
    BY <1>1, <1>2 DEF BeginEdit, SetBlock, BeginTakeoff, EndTakeoff, TakeoffPanics
  <2>3. RowsKept
    BY <2>1, SameRowsKept
  <2>4. QED
    BY <1>1, <2>1, <2>2, <2>3, SavedUndisturbed
<1>3. CASE SaveBlock(t)
  <2>1. Rest /\ UNCHANGED <<pc, queue, slotmsg>>
    BY <1>3 DEF SaveBlock, itemVars, lockVars
  <2>2. RowsKept
    BY <1>3, SavedBlockRowsKept DEF SaveBlock
  <2>3. QED
    BY <1>1, <2>1, <2>2, SavedUndisturbed
<1>4. CASE Reply(t) \/ Panics(t, "inv") \/ Panics(t, "player")
  <2>1. Rest /\ UNCHANGED <<queue, db, slotmsg>>
    BY <1>4 DEF Reply, Panics, sqlVars, worldVars, lockVars
  <2>2. \A u \in Threads, a \in {"setchest", "pushchest", "setinv", "pushinv"} :
          pc'[u] = a <=> pc[u] = a
    BY <1>1, <1>4 DEF Reply, Panics
  <2>3. RowsKept
    BY <2>1, SameRowsKept
  <2>4. QED
    BY <1>1, <2>1, <2>2, <2>3, SavedUndisturbed
<1>5. CASE Receive(t)
  <2>1. Rest /\ UNCHANGED <<queue, db>>
    BY <1>5 DEF Receive, ReceiveBlockSet, ReceiveMultiBlockSet, ReceiveTakeoff,
       ReceiveChestSlot, ReceiveInvSlot, ReceivePlayerUpdate, ReceiveEdits, ReceiveSlot,
       itemVars, sqlVars, worldVars, lockVars
  <2>2. PICK a \in {"block", "takeoff", "chest", "inv", "player"} :
          /\ pc[t] = "idle" /\ pc' = [pc EXCEPT ![t] = a]
          /\ \A u \in Threads \ {t} : slotmsg'[u] = slotmsg[u]
    <3>1. CASE ReceiveBlockSet(t) \/ ReceiveMultiBlockSet(t) \/ ReceiveTakeoff(t)
      BY <3>1 DEF ReceiveBlockSet, ReceiveMultiBlockSet, ReceiveTakeoff, ReceiveEdits,
         Handle, itemVars
    <3>2. CASE ReceiveChestSlot(t) \/ ReceiveInvSlot(t)
      BY <1>1, <3>2 DEF ReceiveChestSlot, ReceiveInvSlot, ReceiveSlot, Handle
    <3>3. CASE ReceivePlayerUpdate(t)
      BY <1>1, <3>3 DEF ReceivePlayerUpdate, Handle
    <3>4. QED
      BY <1>5, <3>1, <3>2, <3>3 DEF Receive
  <2>3. \A u \in Threads, b \in {"setchest", "pushchest", "setinv", "pushinv"} :
          /\ pc'[u] = b <=> pc[u] = b
          /\ pc[u] = b => slotmsg'[u] = slotmsg[u]
    BY <1>1, <2>2
  <2>4. RowsKept
    BY <2>1, SameRowsKept
  <2>5. QED
    BY <1>1, <2>1, <2>3, <2>4, SavedUndisturbed
<1>6. QED
  BY <1>2, <1>3, <1>4, <1>5

LEMMA PushesSave ==
  ASSUME SInv, TInv', NEW t \in Threads, PushBlock(t) \/ CountPosition(t)
  PROVE  EntryInv' /\ ChestsSaved' /\ InvsSaved'
<1>1. /\ TInv /\ EntryInv /\ ChestsSaved /\ InvsSaved
      /\ pc \in [Threads -> PCs] /\ queue \in Seq(Stmt) /\ queue' \in Seq(Stmt)
  BY DEF SInv, BInv, TInv, TypeOK, SqlTypeOK
<1>2. /\ UNCHANGED <<chest, entryLock, seedread, touched, inv, usedSeeds, slotmsg, db>>
      /\ \A u \in Threads, a \in {"setchest", "pushchest", "setinv", "pushinv"} :
           pc'[u] = a <=> pc[u] = a
  BY <1>1 DEF PushBlock, CountPosition, itemVars, worldVars, lockVars
<1>3. RowsKept
  <2>1. CASE PushBlock(t)
    <3>1. PICK e \in Edit : queue' = Append(queue, [row |-> UdmRow(seed, e.spot),
                                                    val |-> e.block])
      <4>1. pushes[t] # <<>> /\ pushes[t] \in Seq(Edit)
        BY <2>1 DEF PushBlock, SInv, BInv, TInv, ArmInv, TypeOK, WorldTypeOK
      <4>2. Head(pushes[t]) \in Edit
        BY <4>1, HeadTailProperties
      <4>3. QED
        BY <2>1, <4>2 DEF PushBlock
    <3>2. PICK st : st = [row |-> UdmRow(seed, e.spot), val |-> e.block]
      OBVIOUS
    <3>3. queue' = Append(queue, st)
      BY <3>1, <3>2
    <3>4. st \in Stmt
      <4>1. seed \in Seeds
        BY DEF SInv, BInv, TInv, TypeOK, WorldTypeOK
      <4>2. QED
        BY <3>2, <4>1, RowsOfTables, ValsOfTables DEF Stmt, Vals, Edit
    <3>5. (\A a, k : st.row # ChestRow(a, k)) /\ (\A p : st.row # InvRow(p))
      BY <3>2, UdmRowInjective
    <3>6. QED
      BY <1>1, <1>2, <3>3, <3>4, <3>5, OtherRowsKept
  <2>2. CASE CountPosition(t)
    <3>1. PICK st : st = [row |-> PosRow(slotmsg[t].where), val |-> Position]
      OBVIOUS
    <3>2. UNCHANGED queue \/ queue' = Append(queue, st)
      BY <2>2, <3>1 DEF CountPosition
    <3>3. st \in Stmt
      <4>1. slotmsg[t].where \in Players
        BY <2>2 DEF CountPosition, SInv, BInv, TInv, ArmInv
      <4>2. QED
        BY <3>1, <4>1, RowsOfTables, ValsOfTables DEF Stmt, Vals
    <3>4. (\A a, k : st.row # ChestRow(a, k)) /\ (\A p : st.row # InvRow(p))
      BY <3>1, RowsApart
    <3>5. QED
      BY <1>1, <1>2, <3>2, <3>3, <3>4, SameRowsKept, OtherRowsKept
  <2>3. QED
    BY <2>1, <2>2
<1>4. QED
  BY <1>1, <1>2, <1>3, SavedUndisturbed

LEMMA SessionsSave ==
  ASSUME SInv, TInv', Sessions
  PROVE  EntryInv' /\ ChestsSaved' /\ InvsSaved'
<1>1. /\ TInv /\ EntryInv /\ ChestsSaved /\ InvsSaved
      /\ inv \in [Players -> Inventories \cup {Absent}] /\ touched \subseteq Players
  BY DEF SInv, BInv, TInv, TypeOK, ItemTypeOK
<1>2. /\ UNCHANGED <<chest, entryLock, seedread, usedSeeds, slotmsg, pc, queue, db>>
  BY DEF Sessions, LoadInv, InsertSession, RemoveSession, worldVars, lockVars, sqlVars
<1>3. touched' \subseteq touched /\ \A p \in touched' : inv'[p] = inv[p]
  <2>1. ASSUME NEW p \in Players, LoadInv(p) PROVE UNCHANGED <<touched, inv>>
    BY <2>1 DEF LoadInv
  <2>2. ASSUME NEW p \in Players, RemoveSession(p)
        PROVE  touched' \subseteq touched /\ \A q \in touched' : inv'[q] = inv[q]
    BY <1>1, <2>2 DEF RemoveSession
  <2>3. CASE InsertSession
    BY <1>1, <2>3 DEF InsertSession
  <2>4. QED
    BY <2>1, <2>2, <2>3 DEF Sessions
<1>4. RowsKept
  BY <1>2, SameRowsKept
<1>5. QED
  BY <1>1, <1>2, <1>3, <1>4, SavedUndisturbed

LEMMA SqlSaves ==
  ASSUME SInv, TInv', SqlStep
  PROVE  EntryInv' /\ ChestsSaved' /\ InvsSaved'
<1>1. TInv /\ EntryInv /\ ChestsSaved /\ InvsSaved
  BY DEF SInv, BInv
<1>2. UNCHANGED <<chest, entryLock, seedread, usedSeeds, slotmsg, pc, touched, inv>>
  BY DEF SqlStep, SqlPop, SqlCommit, WriteRow, SqlRetry, SqlPanic, worldVars, itemVars,
     lockVars
<1>3. RowsKept
  <2>1. CASE SqlCommit
    BY <1>1, <2>1, CommittedRowsKept
  <2>2. CASE SqlPop \/ SqlRetry \/ SqlPanic
    BY <2>2, SameRowsKept DEF SqlPop, SqlRetry, SqlPanic
  <2>3. QED
    BY <2>1, <2>2 DEF SqlStep
<1>4. QED
  BY <1>1, <1>2, <1>3, SavedUndisturbed

LEMMA StartSaves ==
  ASSUME queue = <<>>, chest = LoadedChests(db), InitialSeed \in usedSeeds,
         pc = EachThread("idle"), touched = {}
  PROVE  EntryInv /\ ChestsSaved /\ InvsSaved
<1>1. Len(queue) = 0
  BY EmptySeq, Zenon
<1>2. \A k \in Chests : LatestIs(ChestRow(InitialSeed, k), chest[k])
  BY <1>1 DEF LatestIs, LatestIn, LoadedChests
<1>3. QED
  BY <1>2 DEF EntryInv, ChestsSaved, InvsSaved, EachThread

LEMMA RestartSaves ==
  ASSUME SInv, Restart
  PROVE  EntryInv' /\ ChestsSaved' /\ InvsSaved'
<1>1. /\ queue' = <<>> /\ chest' = LoadedChests(db) /\ InitialSeed \in usedSeeds
      /\ pc' = EachThread("idle") /\ touched' = {} /\ UNCHANGED <<db, usedSeeds>>
  BY DEF Restart, SInv, BInv, FreshInv
<1>2. Len(queue') = 0
  BY <1>1, EmptySeq, Zenon
<1>3. \A k \in Chests : LatestIs(ChestRow(InitialSeed, k), chest[k])'
  BY <1>1, <1>2 DEF LatestIs, LatestIn, LoadedChests
<1>4. QED
  BY <1>1, <1>3 DEF EntryInv, ChestsSaved, InvsSaved, EachThread

LEMMA StepSaves == SInv /\ [Next]_vars => SInv'
<1> SUFFICES ASSUME SInv, [Next]_vars PROVE SInv'
  OBVIOUS
<1>1. BInv /\ BInv' /\ TInv /\ TInv'
  BY StepBlocks DEF SInv, BInv
<1>2. ASSUME NEW t \in Threads, Receive(t) \/ Work(t) \/ TakeoffPanics(t)
      PROVE  EntryInv' /\ ChestsSaved' /\ InvsSaved'
  BY <1>1, <1>2, OtherStepsSave, PushesSave, ReadChestSaves, WriteChestSaves,
     PushChestSaves, ReadInvSaves, WriteInvSaves, PushInvSaves DEF Work
<1>3. CASE UNCHANGED vars
  <2>1. UNCHANGED <<chest, entryLock, seedread, usedSeeds, slotmsg, pc, touched, inv,
                    queue, db>>
    BY <1>3 DEF vars, worldVars, itemVars, lockVars, sqlVars
  <2>2. RowsKept
    BY <2>1, SameRowsKept
  <2>3. EntryInv /\ ChestsSaved /\ InvsSaved
    BY DEF SInv
  <2>4. EntryInv' /\ ChestsSaved' /\ InvsSaved'
    BY <1>1, <2>1, <2>2, <2>3, SavedUndisturbed
  <2>5. QED
    BY <1>1, <2>4 DEF SInv
<1>4. EntryInv' /\ ChestsSaved' /\ InvsSaved'
  BY <1>1, <1>2, <1>3, SessionsSave, SqlSaves, RestartSaves DEF Next, SInv
<1>5. QED
  BY <1>1, <1>4 DEF SInv

LEMMA SavedInductively == Spec => []SInv
<1>1. Init => SInv
  BY InitBlocks, StartSaves DEF Init, SInv
<1>2. QED
  BY <1>1, StepSaves, PTL DEF Spec

LEMMA SnapshotsAreSaved == ASSUME SInv PROVE SnapshotsRecoverable
<1>1. ArmInv /\ EntryInv /\ ChestsSaved /\ InvsSaved
  BY DEF SInv, BInv, TInv
<1>2. ASSUME NEW k \in Chests, entryLock[k] = Free PROVE ~BeingChanged(k)
  BY <1>1, <1>2, StoreAssumption DEF BeingChanged, EntryInv
<1>3. ChestsRecoverable
  BY <1>1, <1>2 DEF ChestsRecoverable, ChestsSaved
<1>4. ASSUME NEW p, clientsLock = Free PROVE ~HeldBack(p)
  BY <1>1, <1>4, StoreAssumption DEF HeldBack, ArmInv
<1>5. InventoriesRecoverable
  BY <1>1, <1>4 DEF InventoriesRecoverable, InvsSaved
<1>6. QED
  BY <1>3, <1>5 DEF SnapshotsRecoverable

(* Whatever stacks are put into chests and inventories at the same time,   *)
(* whoever logs in or out, and wherever a crash comes: a chest nobody is   *)
(* changing, and the inventory of a session that has changed it, is the    *)
(* last snapshot queued for it or the one its table holds.                 *)
THEOREM SnapshotsAlwaysRecoverable == Spec => []SnapshotsRecoverable
<1>1. SInv => SnapshotsRecoverable
  BY SnapshotsAreSaved
<1>2. QED
  BY <1>1, SavedInductively, PTL

----------------------------------------------------------------------------
(* Stacks.  Why none is lost or doubled is a matter of two orders.  In     *)
(* memory, an arm holds the lock of the chest or the session from the      *)
(* moment it reads what it displaces until its row is queued.  On the way  *)
(* to disk, the rows are written in the order of the changes: version m of *)
(* the tables, what they hold once the first m rows of the queue are       *)
(* written, never has a stack twice, and the last version is the memory    *)
(* but for the slot of a change whose row is still to be queued.           *)

EmptyMessage ==
  \A t \in Threads : pc[t] = "player" => slotmsg[t].item = Empty

(* What an arm displaces is what is there: the lock keeps it so.           *)
Displacing ==
  \A t \in Threads :
    /\ pc[t] = "setchest" =>
         wasthere[t] = chest[slotmsg[t].where][slotmsg[t].slot]
    /\ pc[t] = "setinv" =>
         wasthere[t] = inv[slotmsg[t].where][slotmsg[t].slot]

(* What an update overwrote is counted as lost by the time its row is to   *)
(* be queued.                                                              *)
OverwritingLoses ==
  \A t \in Threads :
    pc[t] \in {"pushchest", "pushinv"} => Overwritten(t) \subseteq lost

(* What a start would load once the queue is written: no row, no stack.    *)
Newest(row, v) ==
  \/ LatestIs(row, v)
  \/ v = EmptyInv /\ LatestIs(row, Absent)

SessionsStored ==
  \A p \in Players : \E v \in Inventories : Newest(InvRow(p), v)

ChestFollows(k) ==
  \/ Newest(ChestRow(InitialSeed, k), chest[k])
  \/ \E t \in Threads :
       /\ pc[t] = "pushchest" /\ slotmsg[t].where = k
       /\ Newest(ChestRow(InitialSeed, k),
                 [chest[k] EXCEPT ![slotmsg[t].slot] = wasthere[t]])
ChestsFollow == \A k \in Chests : ChestFollows(k)

SessionFollows(p) ==
  \/ inv[p] = Absent
  \/ Newest(InvRow(p), inv[p])
  \/ \E t \in Threads :
       /\ pc[t] = "pushinv" /\ slotmsg[t].where = p
       /\ Newest(InvRow(p), [inv[p] EXCEPT ![slotmsg[t].slot] = wasthere[t]])
SessionsFollow == \A p \in Players : SessionFollows(p)

(* Stack i is in the hands (h), the messages, the chests and the           *)
(* inventories named, and nowhere else.                                    *)
InOnly(i, h, ms, cs, vs) ==
  /\ i \in hand <=> h
  /\ InMessages(i) = ms /\ InChests(i) = cs /\ InInventories(i) = vs

Conserved(i) ==
  \/ i \in lost /\ InOnly(i, FALSE, {}, {}, {})
  \/ /\ i \notin lost
     /\ \/ InOnly(i, TRUE, {}, {}, {})
        \/ \E t \in Threads : InOnly(i, FALSE, {t}, {}, {})
        \/ \E kn \in Chests \X Slots : InOnly(i, FALSE, {}, {kn}, {})
        \/ \E pn \in Players \X Slots : InOnly(i, FALSE, {}, {}, {pn})

ItemRows ==
  {ChestRow(InitialSeed, k) : k \in Chests} \cup {InvRow(p) : p \in Players}

(* The value of row in the version of the tables with m rows written.      *)
Version(m, row, v) == Holds(queue, db, m, row, v)

Held(m, row, n, i) == \E v \in Inventories : Version(m, row, v) /\ v[n] = i

OnceInEveryVersion ==
  \A m \in 0..Len(queue), i \in Items, r1, r2 \in ItemRows, n1, n2 \in Slots :
    Held(m, r1, n1, i) /\ Held(m, r2, n2, i) => r1 = r2 /\ n1 = n2

(* The premise of ItemsConserved: no session was opened on an outdated     *)
(* inventory, and the chests are those of the first world.                 *)
OneWorld == ~raced /\ usedSeeds = {InitialSeed}

AllConserved == \A i \in Items : Conserved(i)

AInv == EmptyMessage /\ Displacing /\ SessionsStored
WInv == ChestsFollow /\ SessionsFollow /\ AllConserved /\ OnceInEveryVersion
CInv == SInv /\ AInv /\ OverwritingLoses /\ (OneWorld => WInv)

(* The newest version of a row is unique.                                  *)
LEMMA LatestUnique ==
  ASSUME NEW q \in Seq(Stmt), NEW d, NEW row, NEW v, NEW w,
         LatestIn(q, d, row, v), LatestIn(q, d, row, w)
  PROVE  v = w
<1>1. Len(q) \in Nat
  BY LenProperties
<1>2. CASE \A i \in 1..Len(q) : q[i].row # row
  BY <1>2 DEF LatestIn
<1>3. ASSUME NEW i \in 1..Len(q), q[i].row = row, q[i].val = v,
             \A j \in 1..Len(q) : j > i => q[j].row # row
      PROVE  v = w
  <2>1. PICK j \in 1..Len(q) : /\ q[j].row = row /\ q[j].val = w
                                   /\ \A l \in 1..Len(q) : l > j => q[l].row # row
    BY <1>3 DEF LatestIn
  <2>2. i = j
    <3>1. ~(i > j) /\ ~(j > i)
      BY <1>3, <2>1
    <3>2. QED
      BY <1>1, <3>1
  <2>3. QED
    BY <1>3, <2>1, <2>2
<1>4. QED
  BY <1>2, <1>3 DEF LatestIn

LEMMA InventoryIsThere ==
  EmptyInv \in Inventories /\ Absent \notin Inventories /\ Empty \notin Items
BY StoreAssumption DEF EmptyInv, Inventories

LEMMA NewestUnique ==
  ASSUME queue \in Seq(Stmt), NEW row, NEW v \in Inventories, NEW w \in Inventories,
         Newest(row, v), Newest(row, w)
  PROVE  v = w
<1>1. Absent \notin Inventories
  BY InventoryIsThere
<1>2. QED
  BY <1>1, LatestUnique DEF Newest, LatestIs

LEMMA LastVersion ==
  ASSUME NEW row, NEW v
  PROVE  Version(Len(queue), row, v) <=> LatestIs(row, v)
BY DEF Version, Holds, LatestIs, LatestIn

LEMMA ItemRowsAreRows ==
  /\ ItemRows \subseteq Rows
  /\ \A k \in Chests : ChestRow(InitialSeed, k) \in ItemRows
  /\ \A p \in Players : InvRow(p) \in ItemRows
  /\ \A sd, s : UdmRow(sd, s) \notin ItemRows
  /\ \A p : PosRow(p) \notin ItemRows
<1>1. \A k \in Chests : ChestRow(InitialSeed, k) \in Rows /\ ChestRow(InitialSeed, k) \in ItemRows
  BY RowsOfTables, StoreAssumption DEF ItemRows
<1>2. \A p \in Players : InvRow(p) \in Rows /\ InvRow(p) \in ItemRows
  BY RowsOfTables DEF ItemRows
<1>3. \A r \in ItemRows : \/ \E k \in Chests : r = ChestRow(InitialSeed, k)
                         \/ \E p \in Players : r = InvRow(p)
  BY DEF ItemRows
<1>4. \A r \in ItemRows : \A sd, s, p : r # UdmRow(sd, s) /\ r # PosRow(p)
  <2>1. \A sd, s, p, k : ChestRow(InitialSeed, k) # UdmRow(sd, s)
                         /\ ChestRow(InitialSeed, k) # PosRow(p)
    BY UdmRowInjective, RowsApart
  <2>2. \A sd, s, p, q : InvRow(q) # UdmRow(sd, s) /\ InvRow(q) # PosRow(p)
    BY UdmRowInjective, RowsApart
  <2>3. QED
    BY <1>3, <2>1, <2>2
<1>5. QED
  BY <1>1, <1>2, <1>3, <1>4

----------------------------------------------------------------------------
(* The versions of the tables under a step of the queue.                   *)

LEMMA OlderVersions ==
  ASSUME OnceInEveryVersion,
         \A m \in 0..Len(queue') : \E l \in 0..Len(queue) :
           \A row \in ItemRows, v \in Inventories :
             Version(m, row, v)' => Version(l, row, v)
  PROVE  OnceInEveryVersion'
<1>1. ASSUME NEW m \in 0..Len(queue'), NEW i \in Items, NEW r1 \in ItemRows,
             NEW r2 \in ItemRows, NEW n1 \in Slots, NEW n2 \in Slots,
             Held(m, r1, n1, i)', Held(m, r2, n2, i)'
      PROVE  r1 = r2 /\ n1 = n2
  <2>1. PICK l \in 0..Len(queue) : \A row \in ItemRows, v \in Inventories :
                                     Version(m, row, v)' => Version(l, row, v)
    OBVIOUS
  <2>2. Held(l, r1, n1, i) /\ Held(l, r2, n2, i)
    BY <1>1, <2>1 DEF Held
  <2>3. QED
    BY <2>2 DEF OnceInEveryVersion
<1>2. QED
  BY <1>1 DEF OnceInEveryVersion

LEMMA SameVersions ==
  ASSUME OnceInEveryVersion, UNCHANGED <<queue, db>>
  PROVE  OnceInEveryVersion'
BY OlderVersions DEF Version, Holds

LEMMA PushedVersions ==
  ASSUME queue \in Seq(Stmt), NEW st \in Stmt, queue' = Append(queue, st), UNCHANGED db,
         NEW len \in Nat, len = Len(queue)
  PROVE  /\ Len(queue') = len + 1
         /\ \A m \in 0..len : \A row, v : Version(m, row, v)' <=> Version(m, row, v)
         /\ \A row, v : row # st.row /\ Version(len + 1, row, v)' => Version(len, row, v)
         /\ \A v : Version(len + 1, st.row, v)' => v = st.val
<1>2. /\ Len(queue') = len + 1
      /\ \A i \in 1..len : queue'[i] = queue[i]
      /\ queue'[len + 1] = st
  BY AppendProperties
<1>3. \A m \in 0..len : \A row, v : Version(m, row, v)' <=> Version(m, row, v)
  BY <1>2 DEF Version, Holds
<1>4. ASSUME NEW row, NEW v, row # st.row, Version(len + 1, row, v)'
      PROVE  Version(len, row, v)
  <2>1. CASE \A i \in 1..(len + 1) : queue'[i].row # row
    BY <1>2, <1>4, <2>1 DEF Version, Holds
  <2>2. ASSUME NEW i \in 1..(len + 1), queue'[i].row = row, queue'[i].val = v,
               \A j \in 1..(len + 1) : j > i => queue'[j].row # row
        PROVE  Version(len, row, v)
    <3>1. i \in 1..len
      BY <1>2, <1>4, <2>2
    <3>2. \A j \in 1..len : j > i => queue[j].row # row
      BY <1>2, <2>2
    <3>3. QED
      BY <1>2, <2>2, <3>1, <3>2 DEF Version, Holds
  <2>3. QED
    BY <1>4, <2>1, <2>2 DEF Version, Holds
<1>5. ASSUME NEW v, Version(len + 1, st.row, v)' PROVE v = st.val
  <2>1. len + 1 \in 1..(len + 1)
    OBVIOUS
  <2>2. PICK i \in 1..(len + 1) :
               /\ queue'[i].row = st.row /\ queue'[i].val = v
               /\ \A j \in 1..(len + 1) : j > i => queue'[j].row # st.row
    BY <1>2, <1>5, <2>1 DEF Version, Holds
  <2>3. i = len + 1
    BY <1>2, <2>1, <2>2
  <2>4. QED
    BY <1>2, <2>2, <2>3
<1>6. QED
  BY <1>2, <1>3, <1>4, <1>5

LEMMA OtherRowPushed ==
  ASSUME OnceInEveryVersion, queue \in Seq(Stmt), NEW st \in Stmt,
         queue' = Append(queue, st), UNCHANGED db, st.row \notin ItemRows
  PROVE  OnceInEveryVersion'
<1>1. PICK len \in Nat : len = Len(queue)
  BY LenProperties
<1>2. Len(queue') = len + 1
  BY <1>1, PushedVersions
<1>3. \A m \in 0..len, row \in ItemRows : \A v : Version(m, row, v)' => Version(m, row, v)
  BY <1>1, PushedVersions
<1>4. \A row \in ItemRows : \A v : Version(len + 1, row, v)' => Version(len, row, v)
  BY <1>1, PushedVersions
<1>5. ASSUME NEW m \in 0..(len + 1)
      PROVE  \E l \in 0..len : \A row \in ItemRows, v \in Inventories :
               Version(m, row, v)' => Version(l, row, v)
  <2>1. CASE m = len + 1
    BY <1>4, <2>1
  <2>2. CASE m \in 0..len
    BY <1>3, <2>2
  <2>3. QED
    BY <2>1, <2>2
<1>6. QED
  BY <1>1, <1>2, <1>5, OlderVersions

LEMMA BlockWritten ==
  ASSUME OnceInEveryVersion, UNCHANGED queue, NEW sd, NEW s, NEW b,
         db' = [db EXCEPT ![UdmRow(sd, s)] = b], db \in [Rows -> Vals \cup {Absent}]
  PROVE  OnceInEveryVersion'
<1>1. \A row \in ItemRows : db'[row] = db[row]
  BY ItemRowsAreRows
<1>2. \A m, v : \A row \in ItemRows : Version(m, row, v)' => Version(m, row, v)
  BY <1>1 DEF Version, Holds
<1>3. \A m \in 0..Len(queue') : m \in 0..Len(queue)
  OBVIOUS
<1>4. QED
  BY <1>2, <1>3, OlderVersions

LEMMA CommittedVersions ==
  ASSUME TInv, SqlCommit, OnceInEveryVersion
  PROVE  OnceInEveryVersion'
<1>1. queue \in Seq(Stmt) /\ queue # <<>> /\ db \in [Rows -> Vals \cup {Absent}]
  BY DEF SqlCommit, WriteRow, TInv, SqlInv, TypeOK, SqlTypeOK
<1>2. queue' = Tail(queue) /\ db' = [db EXCEPT ![queue[1].row] = queue[1].val]
  BY <1>1, HeadRemoved DEF SqlCommit, WriteRow
<1>3. PICK len \in Nat : len = Len(queue) - 1 /\ len + 1 = Len(queue)
  BY <1>1, EmptySeq, LenProperties
<1>4. Len(queue') = len /\ \A i \in 1..len : queue'[i] = queue[i + 1]
  BY <1>1, <1>2, <1>3, HeadTailProperties
<1>5. ASSUME NEW m \in 0..len, NEW row \in Rows, NEW v, Version(m, row, v)'
      PROVE  Version(m + 1, row, v)
  <2>1. CASE (\A i \in 1..m : queue'[i].row # row) /\ db'[row] = v
    <3>1. \A i \in 2..(m + 1) : queue[i].row # row
      <4>1. ASSUME NEW i \in 2..(m + 1) PROVE queue[i].row # row
        <5>1. i - 1 \in 1..m /\ i - 1 \in 1..len /\ (i - 1) + 1 = i
          OBVIOUS
        <5>2. queue'[i - 1] = queue[i]
          BY <1>4, <5>1
        <5>3. QED
          BY <2>1, <5>1, <5>2
      <4>2. QED
        BY <4>1
    <3>2. CASE queue[1].row = row
      <4>1. queue[1].val = v
        BY <1>1, <1>2, <2>1, <3>2
      <4>2. 1 \in 1..(m + 1) /\ \A j \in 1..(m + 1) : j > 1 => queue[j].row # row
        BY <3>1
      <4>3. QED
        BY <3>2, <4>1, <4>2 DEF Version, Holds
    <3>3. CASE queue[1].row # row
      <4>1. db[row] = v
        BY <1>1, <1>2, <2>1, <3>3
      <4>2. \A i \in 1..(m + 1) : queue[i].row # row
        BY <3>1, <3>3
      <4>3. QED
        BY <4>1, <4>2 DEF Version, Holds
    <3>4. QED
      BY <3>2, <3>3
  <2>2. ASSUME NEW i \in 1..m, queue'[i].row = row, queue'[i].val = v,
               \A j \in 1..m : j > i => queue'[j].row # row
        PROVE  Version(m + 1, row, v)
    <3>1. i + 1 \in 1..(m + 1) /\ queue[i + 1] = queue'[i]
      BY <1>4, <2>2
    <3>2. ASSUME NEW j \in 1..(m + 1), j > i + 1 PROVE queue[j].row # row
      <4>1. j - 1 \in 1..m /\ j - 1 \in 1..len /\ (j - 1) + 1 = j /\ j - 1 > i
        BY <3>2
      <4>2. queue'[j - 1] = queue[j]
        BY <1>4, <4>1
      <4>3. QED
        BY <2>2, <4>1, <4>2
    <3>3. QED
      BY <2>2, <3>1, <3>2 DEF Version, Holds
  <2>3. QED
    BY <1>5, <2>1, <2>2 DEF Version, Holds
<1>6. \A m \in 0..len : m + 1 \in 0..(len + 1)
  OBVIOUS
<1>7. ItemRows \subseteq Rows
  BY ItemRowsAreRows
<1>8. \A m \in 0..Len(queue') : \E l \in 0..Len(queue) :
        \A row \in ItemRows, v \in Inventories :
          Version(m, row, v)' => Version(l, row, v)
  BY <1>3, <1>4, <1>5, <1>6, <1>7
<1>9. QED
  BY <1>8, OlderVersions

----------------------------------------------------------------------------
(* Where a stack is, under a step.                                         *)

(* The inventory of player p: of the session or, without one, the one the  *)
(* next session will load.                                                 *)
Has(p, v) == IF inv[p] # Absent THEN inv[p] = v ELSE Newest(InvRow(p), v)

LEMMA CurrentIsNewest == ASSUME NEW p, NEW v PROVE Current(p, v) <=> Newest(InvRow(p), v)
BY DEF Current, Newest

LEMMA InInventoriesHas ==
  ASSUME NEW i
  PROVE  InInventories(i) =
           {pn \in Players \X Slots : \E v \in Inventories : v[pn[2]] = i /\ Has(pn[1], v)}
BY CurrentIsNewest DEF InInventories, Has

LEMMA InventoriesSame ==
  ASSUME NEW i, \A p \in Players, v \in Inventories : Has(p, v)' <=> Has(p, v)
  PROVE  InInventories(i)' = InInventories(i)
<1>1. InInventories(i)' =
        {pn \in Players \X Slots : \E v \in Inventories : v[pn[2]] = i /\ Has(pn[1], v)'}
  <2>1. \A p, v : Current(p, v)' <=> Newest(InvRow(p), v)'
    BY DEF Current, Newest
  <2>2. QED
    BY <2>1 DEF InInventories, Has
<1>2. QED
  BY <1>1, InInventoriesHas

LEMMA ConservedSame ==
  ASSUME NEW i, Conserved(i), i \in hand' <=> i \in hand, i \in lost' <=> i \in lost,
         InMessages(i)' = InMessages(i), InChests(i)' = InChests(i),
         InInventories(i)' = InInventories(i)
  PROVE  Conserved(i)'
BY DEF Conserved, InOnly

(* The arms that carry a stack, and a step that leaves them alone.         *)
Arms == {"chest", "setchest", "pushchest", "inv", "setinv", "pushinv", "reply"}
SameArm(t) ==
  /\ \A a \in Arms : pc'[t] = a <=> pc[t] = a
  /\ pc[t] \in Arms => slotmsg'[t] = slotmsg[t] /\ wasthere'[t] = wasthere[t]

LEMMA MessageSame ==
  ASSUME NEW t \in Threads, SameArm(t), NEW i
  PROVE  t \in InMessages(i)' <=> t \in InMessages(i)
<1>1. \A a \in Arms : pc'[t] = a <=> pc[t] = a
  BY DEF SameArm
<1>2. /\ pc'[t] \in {"chest", "setchest", "inv", "setinv"}
           <=> pc[t] \in {"chest", "setchest", "inv", "setinv"}
      /\ pc'[t] \in {"pushchest", "pushinv", "reply"}
           <=> pc[t] \in {"pushchest", "pushinv", "reply"}
  BY <1>1 DEF Arms
<1>3. pc[t] \in Arms =>
        slotmsg'[t].item = slotmsg[t].item /\ Displaced(t)' = Displaced(t)
  BY DEF SameArm, Displaced
<1>4. /\ pc[t] \in {"chest", "setchest", "inv", "setinv"} => pc[t] \in Arms
      /\ pc[t] \in {"pushchest", "pushinv", "reply"} => pc[t] \in Arms
  BY DEF Arms
<1>5. t \in InMessages(i)' <=>
        \/ pc'[t] \in {"chest", "setchest", "inv", "setinv"} /\ slotmsg'[t].item = i
        \/ pc'[t] \in {"pushchest", "pushinv", "reply"} /\ Displaced(t)' = i
  BY DEF InMessages
<1>6. t \in InMessages(i) <=>
        \/ pc[t] \in {"chest", "setchest", "inv", "setinv"} /\ slotmsg[t].item = i
        \/ pc[t] \in {"pushchest", "pushinv", "reply"} /\ Displaced(t) = i
  BY DEF InMessages
<1>7. QED
  BY <1>2, <1>3, <1>4, <1>5, <1>6

LEMMA MessagesSame ==
  ASSUME \A t \in Threads : SameArm(t), NEW i
  PROVE  InMessages(i)' = InMessages(i)
<1>1. \A t \in Threads : t \in InMessages(i)' <=> t \in InMessages(i)
  BY MessageSame
<1>2. InMessages(i) \subseteq Threads /\ InMessages(i)' \subseteq Threads
  BY DEF InMessages
<1>3. QED
  BY <1>1, <1>2

LEMMA NewestKept ==
  ASSUME RowsKept, InitialSeed \in usedSeeds
  PROVE  /\ \A k \in Chests, v \in Inventories \cup {Absent} :
              Newest(ChestRow(InitialSeed, k), v) => Newest(ChestRow(InitialSeed, k), v)'
         /\ \A p \in Players, v \in Inventories \cup {Absent} :
              Newest(InvRow(p), v) => Newest(InvRow(p), v)'
BY DEF RowsKept, Newest

LEMMA SessionRowKept ==
  ASSUME queue' \in Seq(Stmt), SessionsStored, NEW p \in Players,
         \A v \in Inventories : Newest(InvRow(p), v) => Newest(InvRow(p), v)'
  PROVE  /\ \E v \in Inventories : Newest(InvRow(p), v)'
         /\ \A v \in Inventories : Newest(InvRow(p), v)' <=> Newest(InvRow(p), v)
<1>1. PICK w \in Inventories : Newest(InvRow(p), w) /\ Newest(InvRow(p), w)'
  BY DEF SessionsStored
<1>2. ASSUME NEW v \in Inventories, Newest(InvRow(p), v)' PROVE v = w
  <2>1. PICK row : row = InvRow(p)
    OBVIOUS
  <2>2. \A a, b : LatestIs(row, a)' /\ LatestIs(row, b)' => a = b
    BY LatestUnique DEF LatestIs
  <2>3. Newest(row, v)' /\ Newest(row, w)' => v = w
    BY <2>2, InventoryIsThere DEF Newest
  <2>4. QED
    BY <1>1, <1>2, <2>1, <2>3
<1>3. QED
  BY <1>1, <1>2

LEMMA SessionRowsKept ==
  ASSUME queue' \in Seq(Stmt), SessionsStored, RowsKept, InitialSeed \in usedSeeds
  PROVE  /\ SessionsStored'
         /\ \A p \in Players, v \in Inventories :
              Newest(InvRow(p), v)' <=> Newest(InvRow(p), v)
<1>1. \A p \in Players : \E v \in Inventories : Newest(InvRow(p), v)'
  BY NewestKept, SessionRowKept
<1>2. SessionsStored'
  BY <1>1 DEF SessionsStored
<1>3. QED
  BY <1>2, NewestKept, SessionRowKept

(* A step that moves no stack.                                             *)
LEMMA DisplacingKept ==
  ASSUME Displacing, UNCHANGED <<chest, inv>>, \A t \in Threads : SameArm(t)
  PROVE  Displacing'
<1>1. \A t \in Threads, a \in {"setchest", "setinv"} :
        pc'[t] = a => /\ pc[t] = a
                      /\ slotmsg'[t] = slotmsg[t] /\ wasthere'[t] = wasthere[t]
  BY DEF SameArm, Arms
<1>2. QED
  BY <1>1 DEF Displacing

LEMMA ChestFollowsKept ==
  ASSUME TInv, NEW k \in Chests, ChestFollows(k), chest'[k] = chest[k],
         \A v \in Inventories \cup {Absent} :
           Newest(ChestRow(InitialSeed, k), v) => Newest(ChestRow(InitialSeed, k), v)',
         \A t \in Threads : pc[t] = "pushchest" /\ slotmsg[t].where = k => SameArm(t)
  PROVE  ChestFollows(k)'
<1>1. chest[k] \in Inventories \cup {Absent}
  BY DEF TInv, TypeOK, ItemTypeOK
<1>2. CASE Newest(ChestRow(InitialSeed, k), chest[k])
  <2>1. PICK v \in Inventories \cup {Absent} : v = chest[k]
    BY <1>1
  <2>2. Newest(ChestRow(InitialSeed, k), v)'
    BY <1>2, <2>1
  <2>3. Newest(ChestRow(InitialSeed, k), chest[k])'
    BY <2>1, <2>2 DEF Newest
  <2>4. QED
    BY <2>3 DEF ChestFollows
<1>3. ASSUME NEW t \in Threads, pc[t] = "pushchest", slotmsg[t].where = k,
             Newest(ChestRow(InitialSeed, k),
                    [chest[k] EXCEPT ![slotmsg[t].slot] = wasthere[t]])
      PROVE  ChestFollows(k)'
  <2>1. pc'[t] = "pushchest" /\ slotmsg'[t] = slotmsg[t] /\ wasthere'[t] = wasthere[t]
    BY <1>3 DEF SameArm, Arms
  <2>2. PICK v : v = [chest[k] EXCEPT ![slotmsg[t].slot] = wasthere[t]]
    OBVIOUS
  <2>3. v \in Inventories
    <3>1. chest[k] \in Inventories /\ wasthere[t] \in Items \cup {Empty}
      BY <1>3 DEF TInv, TypeOK, ItemTypeOK, ArmInv
    <3>2. QED
      BY <2>2, <3>1 DEF Inventories
  <2>4. Newest(ChestRow(InitialSeed, k), v)'
    BY <1>3, <2>2, <2>3
  <2>5. v = [chest'[k] EXCEPT ![slotmsg'[t].slot] = wasthere'[t]]
    BY <2>1, <2>2
  <2>6. Newest(ChestRow(InitialSeed, k),
               [chest[k] EXCEPT ![slotmsg[t].slot] = wasthere[t]])'
    BY <2>4, <2>5 DEF Newest
  <2>7. QED
    BY <1>3, <2>1, <2>6 DEF ChestFollows
<1>4. QED
  BY <1>2, <1>3 DEF ChestFollows

LEMMA SessionFollowsKept ==
  ASSUME TInv, NEW p \in Players, SessionFollows(p), inv'[p] = inv[p],
         \A v \in Inventories \cup {Absent} :
           Newest(InvRow(p), v) => Newest(InvRow(p), v)',
         \A t \in Threads : pc[t] = "pushinv" /\ slotmsg[t].where = p => SameArm(t)
  PROVE  SessionFollows(p)'
<1>1. inv[p] \in Inventories \cup {Absent}
  BY DEF TInv, TypeOK, ItemTypeOK
<1>2. CASE Newest(InvRow(p), inv[p])
  <2>1. PICK v \in Inventories \cup {Absent} : v = inv[p]
    BY <1>1
  <2>2. Newest(InvRow(p), v)'
    BY <1>2, <2>1
  <2>3. Newest(InvRow(p), inv[p])'
    BY <2>1, <2>2 DEF Newest
  <2>4. QED
    BY <2>3 DEF SessionFollows
<1>3. ASSUME NEW t \in Threads, pc[t] = "pushinv", slotmsg[t].where = p,
             Newest(InvRow(p), [inv[p] EXCEPT ![slotmsg[t].slot] = wasthere[t]])
      PROVE  SessionFollows(p)'
  <2>1. pc'[t] = "pushinv" /\ slotmsg'[t] = slotmsg[t] /\ wasthere'[t] = wasthere[t]
    BY <1>3 DEF SameArm, Arms
  <2>2. PICK v : v = [inv[p] EXCEPT ![slotmsg[t].slot] = wasthere[t]]
    OBVIOUS
  <2>3. v \in Inventories
    <3>1. inv[p] \in Inventories /\ wasthere[t] \in Items \cup {Empty}
      BY <1>3 DEF TInv, TypeOK, ItemTypeOK, ArmInv
    <3>2. QED
      BY <2>2, <3>1 DEF Inventories
  <2>4. Newest(InvRow(p), v)'
    BY <1>3, <2>2, <2>3
  <2>5. v = [inv'[p] EXCEPT ![slotmsg'[t].slot] = wasthere'[t]]
    BY <2>1, <2>2
  <2>6. Newest(InvRow(p), [inv[p] EXCEPT ![slotmsg[t].slot] = wasthere[t]])'
    BY <2>4, <2>5 DEF Newest
  <2>7. QED
    BY <1>3, <2>1, <2>6 DEF SessionFollows
<1>4. CASE inv[p] = Absent
  BY <1>4 DEF SessionFollows
<1>5. QED
  BY <1>2, <1>3, <1>4 DEF SessionFollows

(* A step that moves no stack and queues no row of one.                    *)
LEMMA NothingMoves ==
  ASSUME SInv, TInv', AInv, OneWorld => WInv, RowsKept, EmptyMessage', OneWorld' => OneWorld,
         OnceInEveryVersion => OnceInEveryVersion',
         UNCHANGED <<chest, inv, hand, lost>>, \A t \in Threads : SameArm(t)
  PROVE  AInv' /\ (OneWorld' => WInv')
<1>1. TInv /\ InitialSeed \in usedSeeds /\ queue' \in Seq(Stmt)
  BY DEF SInv, BInv, FreshInv, TInv, TypeOK, SqlTypeOK
<1>2. /\ SessionsStored'
      /\ \A p \in Players, v \in Inventories : Newest(InvRow(p), v)' <=> Newest(InvRow(p), v)
  BY <1>1, SessionRowsKept DEF AInv
<1>3. AInv'
  BY <1>2, DisplacingKept DEF AInv
<1>4. ASSUME OneWorld' PROVE WInv'
  <2>1. ChestsFollow /\ SessionsFollow /\ AllConserved /\ OnceInEveryVersion
    BY <1>4 DEF WInv
  <2>2. ChestsFollow'
    BY <1>1, <2>1, NewestKept, ChestFollowsKept DEF ChestsFollow
  <2>3. SessionsFollow'
    BY <1>1, <2>1, NewestKept, SessionFollowsKept DEF SessionsFollow
  <2>4. \A p \in Players, v \in Inventories : Has(p, v)' <=> Has(p, v)
    BY <1>2 DEF Has
  <2>5. ASSUME NEW i \in Items PROVE Conserved(i)'
    <3>1. InChests(i)' = InChests(i)
      BY DEF InChests
    <3>2. Conserved(i)
      BY <2>1 DEF AllConserved
    <3>3. QED
      BY <2>4, <3>1, <3>2, InventoriesSame, MessagesSame, ConservedSame
  <2>6. QED
    BY <2>1, <2>2, <2>3, <2>5 DEF WInv, AllConserved
<1>5. QED
  BY <1>3, <1>4

----------------------------------------------------------------------------
(* The steps that move no stack.                                           *)

LEMMA OtherRowQueued ==
  ASSUME TInv, NEW t \in Threads, PushBlock(t) \/ CountPosition(t)
  PROVE  \/ UNCHANGED queue
         \/ \E st \in Stmt : /\ queue' = Append(queue, st)
                             /\ \/ \E sd, s : st.row = UdmRow(sd, s)
                                \/ \E p : st.row = PosRow(p)
<1>1. CASE PushBlock(t)
  <2>1. PICK e \in Edit : queue' = Append(queue, [row |-> UdmRow(seed, e.spot),
                                                  val |-> e.block])
    <3>1. pushes[t] # <<>> /\ pushes[t] \in Seq(Edit)
      BY <1>1 DEF PushBlock, TInv, ArmInv, TypeOK, WorldTypeOK
    <3>2. Head(pushes[t]) \in Edit
      BY <3>1, HeadTailProperties
    <3>3. QED
      BY <1>1, <3>2 DEF PushBlock
  <2>2. PICK st : st = [row |-> UdmRow(seed, e.spot), val |-> e.block]
    OBVIOUS
  <2>3. seed \in Seeds
    BY DEF TInv, TypeOK, WorldTypeOK
  <2>4. st \in Stmt /\ st.row = UdmRow(seed, e.spot)
    BY <2>2, <2>3, RowsOfTables, ValsOfTables DEF Stmt, Vals, Edit
  <2>5. QED
    BY <2>1, <2>2, <2>4
<1>2. CASE CountPosition(t)
  <2>1. PICK st : st = [row |-> PosRow(slotmsg[t].where), val |-> Position]
    OBVIOUS
  <2>2. UNCHANGED queue \/ queue' = Append(queue, st)
    BY <1>2, <2>1 DEF CountPosition
  <2>3. slotmsg[t].where \in Players
    BY <1>2 DEF CountPosition, TInv, ArmInv
  <2>4. st \in Stmt /\ st.row = PosRow(slotmsg[t].where)
    BY <2>1, <2>3, RowsOfTables, ValsOfTables DEF Stmt, Vals
  <2>5. QED
    BY <2>2, <2>4
<1>3. QED
  BY <1>1, <1>2

LEMMA OtherArm ==
  ASSUME TInv, NEW t \in Threads, pc[t] \notin Arms, NEW a, a \notin Arms,
         pc' = [pc EXCEPT ![t] = a], UNCHANGED wasthere,
         \A u \in Threads \ {t} : slotmsg'[u] = slotmsg[u]
  PROVE  \A u \in Threads : SameArm(u)
<1>1. pc'[t] = a /\ \A u \in Threads \ {t} : pc'[u] = pc[u]
  BY PcSet
<1>2. QED
  BY <1>1 DEF SameArm

LEMMA SamePc ==
  ASSUME UNCHANGED <<pc, slotmsg, wasthere>>
  PROVE  \A u \in Threads : SameArm(u)
BY DEF SameArm

LEMMA OneWorldBefore ==
  ASSUME InitialSeed \in usedSeeds, usedSeeds \subseteq usedSeeds', UNCHANGED raced
  PROVE  OneWorld' => OneWorld
BY DEF OneWorld

LEMMA BlocksMoveNothing ==
  ASSUME CInv, TInv', NEW t \in Threads,
         \/ BeginEdit(t) \/ SetBlock(t) \/ PushBlock(t) \/ BeginTakeoff(t)
         \/ SaveBlock(t) \/ EndTakeoff(t) \/ TakeoffPanics(t) \/ CountPosition(t)
  PROVE  AInv' /\ (OneWorld' => WInv')
<1>1. /\ SInv /\ AInv /\ (OneWorld => WInv) /\ TInv /\ InitialSeed \in usedSeeds
      /\ pc \in [Threads -> PCs] /\ queue \in Seq(Stmt)
      /\ db \in [Rows -> Vals \cup {Absent}]
  BY DEF CInv, SInv, BInv, FreshInv, TInv, TypeOK, SqlTypeOK
<1>2. /\ UNCHANGED <<chest, inv, hand, lost, slotmsg, wasthere, raced>>
      /\ usedSeeds \subseteq usedSeeds'
  BY DEF BeginEdit, SetBlock, PushBlock, BeginTakeoff, SaveBlock, EndTakeoff,
     TakeoffPanics, CountPosition, worldVars, itemVars
<1>3. \A u \in Threads : SameArm(u)
  <2>1. CASE UNCHANGED pc
    BY <1>2, <2>1, SamePc
  <2>2. ASSUME NEW a, a \notin Arms, pc' = [pc EXCEPT ![t] = a], pc[t] \notin Arms
        PROVE  \A u \in Threads : SameArm(u)
    BY <1>1, <1>2, <2>2, OtherArm
  <2>3. /\ {"edit", "save", "idle", "dead"} \cap Arms = {}
        /\ {"block", "edit", "takeoff", "save", "player"} \cap Arms = {}
    BY DEF Arms
  <2>4. /\ pc[t] \in {"block", "edit", "takeoff", "save", "player"}
        /\ \/ UNCHANGED pc
           \/ \E a \in {"edit", "save", "idle", "dead"} : pc' = [pc EXCEPT ![t] = a]
    <3>1. CASE BeginEdit(t) \/ SetBlock(t) \/ PushBlock(t) \/ CountPosition(t)
      BY <3>1 DEF BeginEdit, SetBlock, PushBlock, CountPosition
    <3>2. CASE BeginTakeoff(t) \/ SaveBlock(t) \/ EndTakeoff(t) \/ TakeoffPanics(t)
      BY <3>2 DEF BeginTakeoff, SaveBlock, EndTakeoff, TakeoffPanics
    <3>3. QED
      BY <3>1, <3>2
  <2>5. QED
    BY <2>1, <2>2, <2>3, <2>4
<1>4. \A u \in Threads : pc'[u] = "player" => pc[u] = "player"
  BY <1>1 DEF BeginEdit, SetBlock, PushBlock, BeginTakeoff, SaveBlock, EndTakeoff,
     TakeoffPanics, CountPosition
<1>5. EmptyMessage'
  BY <1>1, <1>2, <1>4 DEF AInv, EmptyMessage
<1>6. RowsKept /\ (OnceInEveryVersion => OnceInEveryVersion')
  <2>1. CASE UNCHANGED <<queue, db>>
    BY <2>1, SameRowsKept, SameVersions
  <2>2. CASE PushBlock(t) \/ CountPosition(t)
    <3>1. UNCHANGED db
      BY <2>2 DEF PushBlock, CountPosition
    <3>2. ASSUME NEW st \in Stmt, queue' = Append(queue, st),
                 (\E sd, s : st.row = UdmRow(sd, s)) \/ (\E p : st.row = PosRow(p))
          PROVE  RowsKept /\ (OnceInEveryVersion => OnceInEveryVersion')
      <4>1. st.row \notin ItemRows
        BY <3>2, ItemRowsAreRows
      <4>2. (\A sd, k : st.row # ChestRow(sd, k)) /\ (\A p : st.row # InvRow(p))
        BY <3>2, UdmRowInjective, RowsApart
      <4>3. QED
        BY <1>1, <3>1, <3>2, <4>1, <4>2, OtherRowsKept, OtherRowPushed
    <3>3. QED
      BY <1>1, <2>1, <2>2, <3>1, <3>2, OtherRowQueued
  <2>3. CASE SaveBlock(t)
    <3>1. UNCHANGED queue
      BY <2>3 DEF SaveBlock
    <3>2. PICK s \in toSave : db' = [db EXCEPT ![UdmRow(seed, s)] = udm[s]]
      BY <2>3 DEF SaveBlock
    <3>3. QED
      BY <1>1, <3>1, <3>2, SavedBlockRowsKept, BlockWritten
  <2>4. CASE BeginEdit(t) \/ SetBlock(t) \/ BeginTakeoff(t) \/ EndTakeoff(t)
             \/ TakeoffPanics(t)
    BY <2>1, <2>4 DEF BeginEdit, SetBlock, BeginTakeoff, EndTakeoff, TakeoffPanics, sqlVars
  <2>5. QED
    BY <2>2, <2>3, <2>4
<1>7. QED
  BY <1>1, <1>2, <1>3, <1>5, <1>6, OneWorldBefore, NothingMoves

LEMMA MessagesMoveNothing ==
  ASSUME CInv, TInv', NEW t \in Threads,
         \/ ReceiveBlockSet(t) \/ ReceiveMultiBlockSet(t) \/ ReceiveTakeoff(t)
         \/ ReceivePlayerUpdate(t) \/ Panics(t, "player")
  PROVE  AInv' /\ (OneWorld' => WInv')
<1>1. /\ SInv /\ AInv /\ (OneWorld => WInv) /\ TInv /\ InitialSeed \in usedSeeds
      /\ pc \in [Threads -> PCs] /\ slotmsg \in [Threads -> SlotMsg]
  BY DEF CInv, SInv, BInv, FreshInv, TInv, TypeOK, ItemTypeOK
<1>2. UNCHANGED <<chest, inv, hand, wasthere, raced, usedSeeds, queue, db>>
  BY DEF ReceiveBlockSet, ReceiveMultiBlockSet, ReceiveTakeoff, ReceiveEdits,
     ReceivePlayerUpdate, Panics, worldVars, itemVars, sqlVars
<1>3. /\ pc[t] \in {"idle", "player"}
      /\ \E a \in {"block", "takeoff", "player", "dead"} : pc' = [pc EXCEPT ![t] = a]
      /\ \A u \in Threads \ {t} : slotmsg'[u] = slotmsg[u]
      /\ pc'[t] = "player" => slotmsg'[t].item = Empty
  <2>1. CASE ReceiveBlockSet(t) \/ ReceiveMultiBlockSet(t) \/ ReceiveTakeoff(t)
    BY <1>1, <2>1 DEF ReceiveBlockSet, ReceiveMultiBlockSet, ReceiveTakeoff, ReceiveEdits,
       Handle, itemVars
  <2>2. CASE ReceivePlayerUpdate(t)
    BY <1>1, <2>2 DEF ReceivePlayerUpdate, Handle, NoMsg
  <2>3. CASE Panics(t, "player")
    BY <1>1, <2>3 DEF Panics
  <2>4. QED
    BY <2>1, <2>2, <2>3
<1>4. \A u \in Threads : SameArm(u)
  <2>1. {"idle", "block", "takeoff", "player", "dead"} \cap Arms = {}
    BY DEF Arms
  <2>2. PICK a \in {"block", "takeoff", "player", "dead"} : pc' = [pc EXCEPT ![t] = a]
    BY <1>3
  <2>3. a \notin Arms /\ pc[t] \notin Arms
    BY <1>3, <2>1
  <2>4. QED
    BY <1>1, <1>2, <1>3, <2>2, <2>3, OtherArm
<1>5. EmptyMessage'
  BY <1>1, <1>3 DEF AInv, EmptyMessage
<1>6. UNCHANGED lost
  BY <1>1 DEF ReceiveBlockSet, ReceiveMultiBlockSet, ReceiveTakeoff, ReceiveEdits,
     ReceivePlayerUpdate, Panics, itemVars, AInv, EmptyMessage
<1>7. QED
  BY <1>1, <1>2, <1>4, <1>5, <1>6, OneWorldBefore, SameRowsKept, SameVersions, NothingMoves

LEMMA SqlMovesNothing ==
  ASSUME CInv, TInv', SqlStep \/ UNCHANGED vars \/ \E p \in Players : LoadInv(p)
  PROVE  AInv' /\ (OneWorld' => WInv')
<1>1. SInv /\ AInv /\ (OneWorld => WInv) /\ TInv /\ InitialSeed \in usedSeeds
  BY DEF CInv, SInv, BInv, FreshInv
<1>2. UNCHANGED <<chest, inv, hand, lost, wasthere, raced, usedSeeds, pc, slotmsg>>
  BY DEF SqlStep, SqlPop, SqlCommit, WriteRow, SqlRetry, SqlPanic, LoadInv, vars,
     worldVars, itemVars
<1>3. RowsKept /\ (OnceInEveryVersion => OnceInEveryVersion')
  <2>1. CASE SqlCommit
    BY <1>1, <2>1, CommittedRowsKept, CommittedVersions
  <2>2. CASE UNCHANGED <<queue, db>>
    BY <2>2, SameRowsKept, SameVersions
  <2>3. SqlCommit \/ UNCHANGED <<queue, db>>
    BY DEF SqlStep, SqlPop, SqlRetry, SqlPanic, LoadInv, vars, sqlVars
  <2>4. QED
    BY <2>1, <2>2, <2>3
<1>4. EmptyMessage'
  BY <1>1, <1>2 DEF AInv, EmptyMessage
<1>5. QED
  BY <1>1, <1>2, <1>3, <1>4, SamePc, OneWorldBefore, NothingMoves

----------------------------------------------------------------------------
(* The steps that move a stack, one thread at a time, and queue nothing.   *)

LEMMA SameTables ==
  ASSUME UNCHANGED <<queue, db>>
  PROVE  /\ \A row, v : Newest(row, v)' <=> Newest(row, v)
         /\ SessionsStored => SessionsStored'
         /\ OnceInEveryVersion => OnceInEveryVersion'
<1>1. \A row, v : Newest(row, v)' <=> Newest(row, v)
  BY DEF Newest, LatestIs
<1>2. SessionsStored => SessionsStored'
  BY <1>1 DEF SessionsStored, Newest, LatestIs
<1>3. QED
  BY <1>1, <1>2, SameVersions

DisplacedBy(t) ==
  /\ pc[t] = "setchest" => wasthere[t] = chest[slotmsg[t].where][slotmsg[t].slot]
  /\ pc[t] = "setinv" => wasthere[t] = inv[slotmsg[t].where][slotmsg[t].slot]

LEMMA OneThreadActs ==
  ASSUME TInv, AInv, NEW t \in Threads, pc[t] \notin {"pushchest", "pushinv"},
         pc'[t] # "player", UNCHANGED <<queue, db>>, \A u \in Threads \ {t} : SameArm(u),
         \A u \in Threads \ {t} : pc'[u] = pc[u] /\ slotmsg'[u] = slotmsg[u]
  PROVE  /\ EmptyMessage' /\ SessionsStored'
         /\ \A k \in Chests : ChestFollows(k) /\ chest'[k] = chest[k] => ChestFollows(k)'
         /\ \A p \in Players : SessionFollows(p) /\ inv'[p] = inv[p] => SessionFollows(p)'
         /\ OnceInEveryVersion => OnceInEveryVersion'
<1>1. EmptyMessage'
  BY DEF AInv, EmptyMessage
<1>2. \A row, v : Newest(row, v) => Newest(row, v)'
  BY SameTables
<1>3. ASSUME NEW k \in Chests, ChestFollows(k), chest'[k] = chest[k] PROVE ChestFollows(k)'
  <2>1. \A v \in Inventories \cup {Absent} :
          Newest(ChestRow(InitialSeed, k), v) => Newest(ChestRow(InitialSeed, k), v)'
    BY <1>2 DEF Newest, LatestIs
  <2>2. QED
    BY <1>3, <2>1, ChestFollowsKept
<1>4. ASSUME NEW p \in Players, SessionFollows(p), inv'[p] = inv[p] PROVE SessionFollows(p)'
  <2>1. \A v \in Inventories \cup {Absent} :
          Newest(InvRow(p), v) => Newest(InvRow(p), v)'
    BY <1>2 DEF Newest, LatestIs
  <2>2. QED
    BY <1>4, <2>1, SessionFollowsKept
<1>5. QED
  BY <1>1, <1>3, <1>4, SameTables DEF AInv

LEMMA OthersDisplace ==
  ASSUME TInv, Displacing, NEW t \in Threads, DisplacedBy(t)',
         \A u \in Threads \ {t} : SameArm(u),
         \A u \in Threads \ {t} :
           /\ pc[u] = "setchest" => chest'[slotmsg[u].where] = chest[slotmsg[u].where]
           /\ pc[u] = "setinv" => inv'[slotmsg[u].where] = inv[slotmsg[u].where]
  PROVE  Displacing'
<1>1. ASSUME NEW u \in Threads \ {t} PROVE DisplacedBy(u)'
  <2>1. \A a \in {"setchest", "setinv"} :
          pc'[u] = a => /\ pc[u] = a
                        /\ slotmsg'[u] = slotmsg[u] /\ wasthere'[u] = wasthere[u]
    BY <1>1 DEF SameArm, Arms
  <2>2. QED
    BY <1>1, <2>1 DEF Displacing, DisplacedBy
<1>2. QED
  BY <1>1 DEF Displacing, DisplacedBy

(* A stack leaves the hand for a message.                                  *)
LEMMA ReceiveSlotMoves ==
  ASSUME CInv, TInv', NEW t \in Threads, NEW kind, NEW arm \in {"chest", "inv"}, NEW where,
         ReceiveSlot(t, kind, arm, where)
  PROVE  AInv' /\ (OneWorld' => WInv')
<1>1. /\ SInv /\ AInv /\ (OneWorld => WInv) /\ TInv /\ InitialSeed \in usedSeeds
      /\ pc \in [Threads -> PCs] /\ slotmsg \in [Threads -> SlotMsg]
  BY DEF CInv, SInv, BInv, FreshInv, TInv, TypeOK, ItemTypeOK
<1>2. /\ UNCHANGED <<chest, inv, wasthere, lost, raced, usedSeeds, queue, db>>
      /\ pc[t] = "idle" /\ pc' = [pc EXCEPT ![t] = arm]
      /\ \A u \in Threads \ {t} : slotmsg'[u] = slotmsg[u]
  BY <1>1 DEF ReceiveSlot, Handle, worldVars, sqlVars
<1>3. PICK j \in hand \cup {Empty} : slotmsg'[t].item = j /\ hand' = hand \ {j}
  BY <1>1 DEF ReceiveSlot
<1>4. pc'[t] = arm /\ \A u \in Threads \ {t} : pc'[u] = pc[u]
  BY <1>1, <1>2, PcSet
<1>5. \A u \in Threads \ {t} : SameArm(u)
  BY <1>2, <1>4 DEF SameArm
<1>6. /\ EmptyMessage' /\ SessionsStored'
      /\ (ChestsFollow => ChestsFollow') /\ (SessionsFollow => SessionsFollow')
      /\ OnceInEveryVersion => OnceInEveryVersion'
  BY <1>1, <1>2, <1>4, <1>5, OneThreadActs DEF ChestsFollow, SessionsFollow
<1>7. Displacing'
  BY <1>1, <1>2, <1>4, <1>5, OthersDisplace DEF DisplacedBy, AInv
<1>8. ASSUME NEW i \in Items, Conserved(i) PROVE Conserved(i)'
  <2>1. InChests(i)' = InChests(i)
    BY <1>2 DEF InChests
  <2>2. InInventories(i)' = InInventories(i)
    BY <1>2, InventoriesSame, SameTables DEF Has, Newest, LatestIs
  <2>3. t \notin InMessages(i) /\ (t \in InMessages(i)' <=> i = j)
    BY <1>2, <1>3, <1>4 DEF InMessages
  <2>4. /\ \A u \in Threads \ {t} : u \in InMessages(i)' <=> u \in InMessages(i)
        /\ InMessages(i) \subseteq Threads /\ InMessages(i)' \subseteq Threads
    BY <1>5, MessageSame DEF InMessages
  <2>5. CASE i # j
    <3>1. InMessages(i)' = InMessages(i)
      BY <2>3, <2>4, <2>5
    <3>2. QED
      BY <1>2, <1>3, <1>8, <2>1, <2>2, <2>5, <3>1, ConservedSame
  <2>6. CASE i = j
    <3>1. i \in hand /\ i \notin hand'
      BY <1>3, <2>6, InventoryIsThere
    <3>2. i \notin lost /\ InOnly(i, TRUE, {}, {}, {})
      BY <1>8, <3>1 DEF Conserved, InOnly
    <3>3. InMessages(i)' = {t}
      BY <2>3, <2>4, <2>6, <3>2 DEF InOnly
    <3>4. InOnly(i, FALSE, {t}, {}, {})' /\ i \notin lost'
      BY <1>2, <2>1, <2>2, <3>1, <3>2, <3>3 DEF InOnly
    <3>5. QED
      BY <3>4 DEF Conserved
  <2>7. QED
    BY <2>5, <2>6
<1>9. OneWorld' => OneWorld
  BY <1>1, <1>2, OneWorldBefore
<1>10. QED
  BY <1>1, <1>6, <1>7, <1>8, <1>9 DEF AInv, WInv, AllConserved

(* The arm goes on, and its stack with it.                                 *)
LEMMA ReadChestMovesNothing ==
  ASSUME CInv, TInv', NEW t \in Threads, ReadChest(t)
  PROVE  AInv' /\ (OneWorld' => WInv')
<1>1. /\ SInv /\ AInv /\ (OneWorld => WInv) /\ TInv /\ InitialSeed \in usedSeeds
      /\ chest \in [Chests -> Inventories \cup {Absent}] /\ EntryInv
      /\ wasthere \in [Threads -> Items \cup {Empty}]
  BY DEF CInv, SInv, BInv, FreshInv, TInv, TypeOK, ItemTypeOK
<1>2. PICK k \in Chests, n \in Slots : k = slotmsg[t].where /\ n = slotmsg[t].slot
  BY <1>1 DEF ReadChest, TInv, ArmInv
<1>3. PICK held : held = IF chest[k] = Absent THEN EmptyInv ELSE chest[k]
  OBVIOUS
<1>4. /\ UNCHANGED <<inv, hand, lost, slotmsg, raced, usedSeeds, queue, db>>
      /\ pc[t] = "chest" /\ pc' = [pc EXCEPT ![t] = "setchest"]
      /\ entryLock[k] = Free /\ chest' = [chest EXCEPT ![k] = held]
      /\ wasthere' = [wasthere EXCEPT ![t] = held[n]]
  BY <1>2, <1>3 DEF ReadChest, EntryFree, worldVars, sqlVars
<1>5. pc'[t] = "setchest" /\ \A u \in Threads \ {t} : pc'[u] = pc[u]
  BY <1>1, <1>4, PcSet
<1>6. \A u \in Threads \ {t} : SameArm(u)
  BY <1>1, <1>4, <1>5 DEF SameArm
<1>7. chest'[k] = held /\ \A c \in Chests \ {k} : chest'[c] = chest[c]
  BY <1>1, <1>4
<1>8. \A u \in Threads : pc[u] \in {"setchest", "pushchest"} =>
                           slotmsg[u].where \in Chests \ {k}
  BY <1>1, <1>4, StoreAssumption DEF EntryInv, TInv, ArmInv
<1>9. /\ EmptyMessage' /\ SessionsStored'
      /\ \A c \in Chests \ {k} : ChestFollows(c) => ChestFollows(c)'
      /\ (SessionsFollow => SessionsFollow')
      /\ (OnceInEveryVersion => OnceInEveryVersion')
  BY <1>1, <1>4, <1>5, <1>6, <1>7, OneThreadActs DEF SessionsFollow
<1>10. Displacing'
  <2>1. DisplacedBy(t)'
    <3>1. wasthere'[t] = held[n]
      BY <1>1, <1>4
    <3>2. QED
      BY <1>2, <1>4, <1>5, <1>7, <3>1 DEF DisplacedBy
  <2>2. QED
    BY <1>1, <1>4, <1>6, <1>7, <1>8, <2>1, OthersDisplace DEF AInv
<1>11. ASSUME ChestFollows(k) PROVE ChestFollows(k)'
  <2>1. Newest(ChestRow(InitialSeed, k), chest[k])
    BY <1>8, <1>11 DEF ChestFollows
  <2>2. Newest(ChestRow(InitialSeed, k), held)
    BY <1>3, <2>1, InventoryIsThere DEF Newest
  <2>3. Newest(ChestRow(InitialSeed, k), held)'
    BY <1>4, <2>2 DEF Newest, LatestIs
  <2>4. Newest(ChestRow(InitialSeed, k), chest[k])'
    BY <1>7, <2>3 DEF Newest
  <2>5. QED
    BY <2>4 DEF ChestFollows
<1>12. ASSUME NEW i \in Items, Conserved(i) PROVE Conserved(i)'
  <2>1. InChests(i)' = InChests(i)
    <3>1. \A m \in Slots : EmptyInv[m] # i
      BY InventoryIsThere DEF EmptyInv
    <3>2. \A c \in Chests, m \in Slots :
            chest'[c] # Absent /\ chest'[c][m] = i <=> chest[c] # Absent /\ chest[c][m] = i
      BY <1>3, <1>7, <3>1, InventoryIsThere
    <3>3. QED
      BY <3>2 DEF InChests
  <2>2. InInventories(i)' = InInventories(i)
    BY <1>4, InventoriesSame, SameTables DEF Has, Newest, LatestIs
  <2>3. t \in InMessages(i)' <=> t \in InMessages(i)
    BY <1>4, <1>5 DEF InMessages
  <2>4. /\ \A u \in Threads \ {t} : u \in InMessages(i)' <=> u \in InMessages(i)
        /\ InMessages(i) \subseteq Threads /\ InMessages(i)' \subseteq Threads
    BY <1>6, MessageSame DEF InMessages
  <2>5. InMessages(i)' = InMessages(i)
    BY <2>3, <2>4
  <2>6. QED
    BY <1>4, <1>12, <2>1, <2>2, <2>5, ConservedSame
<1>13. OneWorld' => OneWorld
  BY <1>1, <1>4, OneWorldBefore
<1>14. ChestsFollow => ChestsFollow'
  BY <1>9, <1>11 DEF ChestsFollow
<1>15. QED
  BY <1>1, <1>9, <1>10, <1>12, <1>13, <1>14 DEF AInv, WInv, AllConserved

LEMMA ReadInvMovesNothing ==
  ASSUME CInv, TInv', NEW t \in Threads, ReadInv(t)
  PROVE  AInv' /\ (OneWorld' => WInv')
<1>1. /\ SInv /\ AInv /\ (OneWorld => WInv) /\ TInv /\ InitialSeed \in usedSeeds
      /\ wasthere \in [Threads -> Items \cup {Empty}]
  BY DEF CInv, SInv, BInv, FreshInv, TInv, TypeOK, ItemTypeOK
<1>2. /\ UNCHANGED <<chest, inv, hand, lost, slotmsg, raced, usedSeeds, queue, db>>
      /\ pc[t] = "inv" /\ pc' = [pc EXCEPT ![t] = "setinv"]
      /\ wasthere' = [wasthere EXCEPT ![t] = inv[slotmsg[t].where][slotmsg[t].slot]]
  BY DEF ReadInv, worldVars, sqlVars
<1>3. pc'[t] = "setinv" /\ \A u \in Threads \ {t} : pc'[u] = pc[u]
  BY <1>1, <1>2, PcSet
<1>4. \A u \in Threads \ {t} : SameArm(u)
  BY <1>1, <1>2, <1>3 DEF SameArm
<1>5. /\ EmptyMessage' /\ SessionsStored'
      /\ (ChestsFollow => ChestsFollow') /\ (SessionsFollow => SessionsFollow')
      /\ (OnceInEveryVersion => OnceInEveryVersion')
  BY <1>1, <1>2, <1>3, <1>4, OneThreadActs DEF ChestsFollow, SessionsFollow
<1>6. Displacing'
  <2>1. wasthere'[t] = inv'[slotmsg'[t].where][slotmsg'[t].slot]
    BY <1>1, <1>2
  <2>2. DisplacedBy(t)'
    BY <1>3, <2>1 DEF DisplacedBy
  <2>3. QED
    BY <1>1, <1>2, <1>4, <2>2, OthersDisplace DEF AInv
<1>7. ASSUME NEW i \in Items, Conserved(i) PROVE Conserved(i)'
  <2>1. InChests(i)' = InChests(i)
    BY <1>2 DEF InChests
  <2>2. InInventories(i)' = InInventories(i)
    BY <1>2, InventoriesSame, SameTables DEF Has, Newest, LatestIs
  <2>3. t \in InMessages(i)' <=> t \in InMessages(i)
    BY <1>2, <1>3 DEF InMessages
  <2>4. /\ \A u \in Threads \ {t} : u \in InMessages(i)' <=> u \in InMessages(i)
        /\ InMessages(i) \subseteq Threads /\ InMessages(i)' \subseteq Threads
    BY <1>4, MessageSame DEF InMessages
  <2>5. InMessages(i)' = InMessages(i)
    BY <2>3, <2>4
  <2>6. QED
    BY <1>2, <1>7, <2>1, <2>2, <2>5, ConservedSame
<1>8. OneWorld' => OneWorld
  BY <1>1, <1>2, OneWorldBefore
<1>9. QED
  BY <1>1, <1>5, <1>6, <1>7, <1>8 DEF AInv, WInv, AllConserved

(* The displaced stack is back in the hand, or lost with the reply.        *)
LEMMA ReplyMoves ==
  ASSUME CInv, TInv', NEW t \in Threads, Reply(t)
  PROVE  AInv' /\ (OneWorld' => WInv')
<1>1. /\ SInv /\ AInv /\ (OneWorld => WInv) /\ TInv /\ InitialSeed \in usedSeeds
      /\ wasthere \in [Threads -> Items \cup {Empty}]
  BY DEF CInv, SInv, BInv, FreshInv, TInv, TypeOK, ItemTypeOK
<1>2. /\ UNCHANGED <<chest, inv, slotmsg, raced, usedSeeds, queue, db>>
      /\ pc[t] = "reply" /\ pc' = [pc EXCEPT ![t] = "idle"]
      /\ wasthere' = [wasthere EXCEPT ![t] = Empty]
  BY DEF Reply, worldVars, sqlVars
<1>3. pc'[t] = "idle" /\ \A u \in Threads \ {t} : pc'[u] = pc[u]
  BY <1>1, <1>2, PcSet
<1>4. \A u \in Threads \ {t} : SameArm(u)
  BY <1>1, <1>2, <1>3 DEF SameArm
<1>5. /\ EmptyMessage' /\ SessionsStored'
      /\ (ChestsFollow => ChestsFollow') /\ (SessionsFollow => SessionsFollow')
      /\ (OnceInEveryVersion => OnceInEveryVersion')
  BY <1>1, <1>2, <1>3, <1>4, OneThreadActs DEF ChestsFollow, SessionsFollow
<1>6. Displacing'
  BY <1>1, <1>2, <1>3, <1>4, OthersDisplace DEF DisplacedBy, AInv
<1>7. PICK j :
        /\ j = Displaced(t)
        /\ \/ hand' = hand \cup ({j} \ {Empty}) /\ lost' = lost
           \/ lost' = lost \cup ({j} \ {Empty}) /\ hand' = hand
  BY DEF Reply
<1>8. ASSUME NEW i \in Items, Conserved(i) PROVE Conserved(i)'
  <2>1. InChests(i)' = InChests(i)
    BY <1>2 DEF InChests
  <2>2. InInventories(i)' = InInventories(i)
    BY <1>2, InventoriesSame, SameTables DEF Has, Newest, LatestIs
  <2>3. t \notin InMessages(i)' /\ (t \in InMessages(i) <=> i = j)
    BY <1>2, <1>3, <1>7 DEF InMessages
  <2>4. /\ \A u \in Threads \ {t} : u \in InMessages(i)' <=> u \in InMessages(i)
        /\ InMessages(i) \subseteq Threads /\ InMessages(i)' \subseteq Threads
    BY <1>4, MessageSame DEF InMessages
  <2>5. CASE i # j
    <3>1. InMessages(i)' = InMessages(i)
      BY <2>3, <2>4, <2>5
    <3>2. (i \in hand' <=> i \in hand) /\ (i \in lost' <=> i \in lost)
      BY <1>7, <2>5
    <3>3. QED
      BY <1>2, <1>8, <2>1, <2>2, <3>1, <3>2, ConservedSame
  <2>6. CASE i = j
    <3>1. t \in InMessages(i) /\ i # Empty
      BY <2>3, <2>6, InventoryIsThere
    <3>2. i \notin lost /\ InOnly(i, FALSE, {t}, {}, {})
      BY <1>8, <3>1 DEF Conserved, InOnly
    <3>3. InMessages(i)' = {}
      BY <2>3, <2>4, <3>2 DEF InOnly
    <3>4. CASE hand' = hand \cup ({j} \ {Empty}) /\ lost' = lost
      <4>1. InOnly(i, TRUE, {}, {}, {})' /\ i \notin lost'
        BY <2>1, <2>2, <2>6, <3>1, <3>2, <3>3, <3>4 DEF InOnly
      <4>2. QED
        BY <4>1 DEF Conserved
    <3>5. CASE lost' = lost \cup ({j} \ {Empty}) /\ hand' = hand
      <4>1. InOnly(i, FALSE, {}, {}, {})' /\ i \in lost'
        BY <2>1, <2>2, <2>6, <3>1, <3>2, <3>3, <3>5 DEF InOnly
      <4>2. QED
        BY <4>1 DEF Conserved
    <3>6. QED
      BY <1>7, <3>4, <3>5
  <2>7. QED
    BY <2>5, <2>6
<1>9. OneWorld' => OneWorld
  BY <1>1, <1>2, OneWorldBefore
<1>10. QED
  BY <1>1, <1>5, <1>6, <1>8, <1>9 DEF AInv, WInv, AllConserved

(* The handler of a session that is gone ends, and its message with it.    *)
LEMMA PanicsLoses ==
  ASSUME CInv, TInv', NEW t \in Threads, Panics(t, "inv")
  PROVE  AInv' /\ (OneWorld' => WInv')
<1>1. SInv /\ AInv /\ (OneWorld => WInv) /\ TInv /\ InitialSeed \in usedSeeds
  BY DEF CInv, SInv, BInv, FreshInv
<1>2. /\ UNCHANGED <<chest, inv, hand, slotmsg, wasthere, raced, usedSeeds, queue, db>>
      /\ pc[t] = "inv" /\ pc' = [pc EXCEPT ![t] = "dead"]
  BY DEF Panics, worldVars, sqlVars
<1>3. pc'[t] = "dead" /\ \A u \in Threads \ {t} : pc'[u] = pc[u]
  BY <1>1, <1>2, PcSet
<1>4. \A u \in Threads \ {t} : SameArm(u)
  BY <1>2, <1>3 DEF SameArm
<1>5. /\ EmptyMessage' /\ SessionsStored'
      /\ (ChestsFollow => ChestsFollow') /\ (SessionsFollow => SessionsFollow')
      /\ (OnceInEveryVersion => OnceInEveryVersion')
  BY <1>1, <1>2, <1>3, <1>4, OneThreadActs DEF ChestsFollow, SessionsFollow
<1>6. Displacing'
  BY <1>1, <1>2, <1>3, <1>4, OthersDisplace DEF DisplacedBy, AInv
<1>7. PICK j : j = slotmsg[t].item /\ lost' = lost \cup ({j} \ {Empty})
  BY DEF Panics
<1>8. ASSUME NEW i \in Items, Conserved(i) PROVE Conserved(i)'
  <2>1. InChests(i)' = InChests(i)
    BY <1>2 DEF InChests
  <2>2. InInventories(i)' = InInventories(i)
    BY <1>2, InventoriesSame, SameTables DEF Has, Newest, LatestIs
  <2>3. t \notin InMessages(i)' /\ (t \in InMessages(i) <=> i = j)
    BY <1>2, <1>3, <1>7 DEF InMessages
  <2>4. /\ \A u \in Threads \ {t} : u \in InMessages(i)' <=> u \in InMessages(i)
        /\ InMessages(i) \subseteq Threads /\ InMessages(i)' \subseteq Threads
    BY <1>4, MessageSame DEF InMessages
  <2>5. CASE i # j
    <3>1. InMessages(i)' = InMessages(i)
      BY <2>3, <2>4, <2>5
    <3>2. i \in lost' <=> i \in lost
      BY <1>7, <2>5
    <3>3. QED
      BY <1>2, <1>8, <2>1, <2>2, <3>1, <3>2, ConservedSame
  <2>6. CASE i = j
    <3>1. t \in InMessages(i) /\ i \in lost'
      BY <1>7, <2>3, <2>6, InventoryIsThere
    <3>2. InOnly(i, FALSE, {t}, {}, {})
      BY <1>8, <3>1 DEF Conserved, InOnly
    <3>3. InMessages(i)' = {}
      BY <2>3, <2>4, <3>2 DEF InOnly
    <3>4. InOnly(i, FALSE, {}, {}, {})'
      BY <1>2, <2>1, <2>2, <3>2, <3>3 DEF InOnly
    <3>5. QED
      BY <3>1, <3>4 DEF Conserved
  <2>7. QED
    BY <2>5, <2>6
<1>9. OneWorld' => OneWorld
  BY <1>1, <1>2, OneWorldBefore
<1>10. QED
  BY <1>1, <1>5, <1>6, <1>8, <1>9 DEF AInv, WInv, AllConserved

(* While nobody holds the clients, the queue and the tables have the       *)
(* inventory of every session, so that sessions come and go without moving *)
(* a stack.                                                                *)
LEMMA SessionsMoveNothing ==
  ASSUME CInv, TInv', NEW p \in Players, ClientsFree,
         \A q \in Players \ {p} : inv'[q] = inv[q],
         inv'[p] # Absent => (OneWorld' => Newest(InvRow(p), inv'[p])),
         UNCHANGED <<chest, hand, lost, slotmsg, wasthere, pc, queue, db, usedSeeds>>,
         OneWorld' => OneWorld
  PROVE  AInv' /\ (OneWorld' => WInv')
<1>1. /\ SInv /\ AInv /\ (OneWorld => WInv) /\ TInv /\ queue \in Seq(Stmt)
      /\ inv \in [Players -> Inventories \cup {Absent}]
      /\ inv' \in [Players -> Inventories \cup {Absent}]
  BY DEF CInv, SInv, BInv, TInv, TypeOK, ItemTypeOK, SqlTypeOK
<1>2. \A t \in Threads : pc[t] \notin {"setinv", "pushinv"}
  BY <1>1, StoreAssumption DEF TInv, ArmInv, ClientsFree
<1>3. \A t \in Threads : SameArm(t)
  BY SamePc
<1>4. /\ \A row, v : Newest(row, v)' <=> Newest(row, v)
      /\ SessionsStored' /\ (OnceInEveryVersion => OnceInEveryVersion')
  BY <1>1, SameTables DEF AInv
<1>5. AInv'
  BY <1>1, <1>2, <1>4 DEF AInv, EmptyMessage, Displacing
<1>6. ASSUME OneWorld' PROVE WInv'
  <2>1. ChestsFollow /\ SessionsFollow /\ AllConserved /\ OnceInEveryVersion
    BY <1>1, <1>6 DEF WInv
  <2>2. ChestsFollow'
    <3>1. \A k \in Chests : \A v : Newest(ChestRow(InitialSeed, k), v)
                                     => Newest(ChestRow(InitialSeed, k), v)'
      BY DEF Newest, LatestIs
    <3>2. QED
      BY <1>1, <1>3, <2>1, <3>1, ChestFollowsKept DEF ChestsFollow
  <2>3. \A q \in Players : inv'[q] # Absent => Newest(InvRow(q), inv'[q])
    BY <1>2, <1>6, <2>1 DEF SessionsFollow, SessionFollows
  <2>4. \A q \in Players : inv[q] # Absent => Newest(InvRow(q), inv[q])
    BY <1>2, <2>1 DEF SessionsFollow, SessionFollows
  <2>5. SessionsFollow'
    BY <2>3 DEF SessionsFollow, SessionFollows, Newest, LatestIs
  <2>6. ASSUME NEW q \in Players, NEW v \in Inventories PROVE Has(q, v)' <=> Has(q, v)
    <3>1. \A w \in Inventories : Newest(InvRow(q), v) /\ Newest(InvRow(q), w) => v = w
      BY <1>1, NewestUnique
    <3>2. Has(q, v) <=> Newest(InvRow(q), v)
      BY <1>1, <2>4, <3>1 DEF Has
    <3>3. Has(q, v)' <=> IF inv'[q] # Absent THEN inv'[q] = v ELSE Newest(InvRow(q), v)
      BY DEF Has, Newest, LatestIs
    <3>4. Has(q, v)' <=> Newest(InvRow(q), v)
      BY <1>1, <2>3, <3>1, <3>3
    <3>5. QED
      BY <3>2, <3>4
  <2>7. ASSUME NEW i \in Items PROVE Conserved(i)'
    <3>1. InChests(i)' = InChests(i)
      BY DEF InChests
    <3>2. Conserved(i)
      BY <2>1 DEF AllConserved
    <3>3. QED
      BY <1>3, <2>6, <3>1, <3>2, InventoriesSame, MessagesSame, ConservedSame
  <2>8. QED
    BY <1>4, <2>1, <2>2, <2>5, <2>7 DEF WInv, AllConserved
<1>7. QED
  BY <1>5, <1>6

LEMMA InsertAndRemoveMoveNothing ==
  ASSUME CInv, TInv', InsertSession \/ \E p \in Players : RemoveSession(p)
  PROVE  AInv' /\ (OneWorld' => WInv')
<1>1. /\ InitialSeed \in usedSeeds /\ inv \in [Players -> Inventories \cup {Absent}]
      /\ raced \in BOOLEAN
  BY DEF CInv, SInv, BInv, FreshInv, TInv, TypeOK, ItemTypeOK
<1>2. ASSUME NEW p \in Players, RemoveSession(p) PROVE AInv' /\ (OneWorld' => WInv')
  <2>1. /\ ClientsFree /\ inv' = [inv EXCEPT ![p] = Absent]
        /\ UNCHANGED <<chest, hand, lost, slotmsg, wasthere, pc, queue, db, usedSeeds, raced>>
    BY <1>2 DEF RemoveSession, worldVars, sqlVars
  <2>2. inv'[p] = Absent /\ \A q \in Players \ {p} : inv'[q] = inv[q]
    BY <1>1, <2>1
  <2>3. OneWorld' => OneWorld
    BY <2>1 DEF OneWorld
  <2>4. QED
    BY <2>1, <2>2, <2>3, SessionsMoveNothing
<1>3. CASE InsertSession
  <2>1. PICK p \in Players, v \in Inventories : p = login.id /\ v = login.inv
    BY <1>3 DEF InsertSession, CInv, SInv, BInv, TInv, TypeOK, ItemTypeOK
  <2>2. /\ ClientsFree /\ inv' = [inv EXCEPT ![p] = v]
        /\ raced' = (raced \/ ~Current(p, v))
        /\ UNCHANGED <<chest, hand, lost, slotmsg, wasthere, pc, queue, db, usedSeeds>>
    BY <1>3, <2>1 DEF InsertSession, worldVars, sqlVars
  <2>3. inv'[p] = v /\ \A q \in Players \ {p} : inv'[q] = inv[q]
    BY <1>1, <2>2
  <2>4. OneWorld' => OneWorld /\ Newest(InvRow(p), v)
    BY <1>1, <2>2, CurrentIsNewest, Zenon DEF OneWorld
  <2>5. QED
    BY <2>2, <2>3, <2>4, SessionsMoveNothing
<1>4. QED
  BY <1>2, <1>3

----------------------------------------------------------------------------
(* The exchange: the stack of the message goes in, what was there goes     *)
(* into the message or is lost.                                            *)

LEMMA MessageExchanged ==
  ASSUME NEW t \in Threads, NEW i \in Items,
         pc[t] \in {"setchest", "setinv"}, pc'[t] \in {"pushchest", "pushinv"},
         slotmsg' = slotmsg, wasthere' = wasthere, \A u \in Threads \ {t} : SameArm(u)
  PROVE  /\ t \in InMessages(i) <=> slotmsg[t].item = i
         /\ t \in InMessages(i)' <=> slotmsg[t].bo /\ wasthere[t] = i
         /\ InMessages(i) \ {t} = InMessages(i)' \ {t}
<1>1. t \in InMessages(i) <=> slotmsg[t].item = i
  BY DEF InMessages
<1>2. t \in InMessages(i)' <=> slotmsg[t].bo /\ wasthere[t] = i
  <2>1. t \in InMessages(i)' <=> Displaced(t)' = i
    BY DEF InMessages
  <2>2. Displaced(t)' = IF slotmsg[t].bo THEN wasthere[t] ELSE Empty
    BY DEF Displaced
  <2>3. QED
    BY <2>1, <2>2, InventoryIsThere
<1>3. /\ \A u \in Threads \ {t} : u \in InMessages(i)' <=> u \in InMessages(i)
      /\ InMessages(i) \subseteq Threads /\ InMessages(i)' \subseteq Threads
  BY MessageSame DEF InMessages
<1>4. QED
  BY <1>1, <1>2, <1>3

LEMMA ChestExchanged ==
  ASSUME NEW i \in Items, NEW k \in Chests, NEW n \in Slots, NEW j \in Items \cup {Empty},
         chest[k] \in Inventories, chest'[k] = [chest[k] EXCEPT ![n] = j],
         \A c \in Chests \ {k} : chest'[c] = chest[c]
  PROVE  /\ <<k, n>> \in InChests(i) <=> chest[k][n] = i
         /\ <<k, n>> \in InChests(i)' <=> j = i
         /\ InChests(i)' \ {<<k, n>>} = InChests(i) \ {<<k, n>>}
<1>1. /\ chest'[k] = [chest[k] EXCEPT ![n] = j]
      /\ \A c \in Chests \ {k} : chest'[c] = chest[c]
  OBVIOUS
<1>2. chest'[k][n] = j /\ \A m \in Slots \ {n} : chest'[k][m] = chest[k][m]
  BY <1>1 DEF Inventories
<1>3. chest[k] # Absent /\ chest'[k] # Absent
  <2>1. chest'[k] \in Inventories
    BY <1>1 DEF Inventories
  <2>2. QED
    BY <2>1, InventoryIsThere
<1>4. /\ <<k, n>> \in InChests(i) <=> chest[k][n] = i
      /\ <<k, n>> \in InChests(i)' <=> j = i
  BY <1>2, <1>3 DEF InChests
<1>5. \A c \in Chests, m \in Slots : <<c, m>> # <<k, n>> =>
        (<<c, m>> \in InChests(i)' <=> <<c, m>> \in InChests(i))
  <2>1. ASSUME NEW c \in Chests, NEW m \in Slots, <<c, m>> # <<k, n>>
        PROVE  chest'[c] # Absent /\ chest'[c][m] = i
                 <=> chest[c] # Absent /\ chest[c][m] = i
    <3>1. CASE c # k
      BY <1>1, <3>1
    <3>2. CASE c = k /\ m # n
      BY <1>2, <1>3, <3>2
    <3>3. QED
      BY <2>1, <3>1, <3>2
  <2>2. QED
    BY <2>1 DEF InChests
<1>6. InChests(i) \subseteq Chests \X Slots /\ InChests(i)' \subseteq Chests \X Slots
  BY DEF InChests
<1>7. QED
  BY <1>4, <1>5, <1>6

LEMMA SessionExchanged ==
  ASSUME NEW i \in Items, NEW p \in Players, NEW n \in Slots, NEW j \in Items \cup {Empty},
         inv[p] \in Inventories, inv'[p] = [inv[p] EXCEPT ![n] = j],
         \A q \in Players \ {p} : inv'[q] = inv[q], UNCHANGED <<queue, db>>
  PROVE  /\ <<p, n>> \in InInventories(i) <=> inv[p][n] = i
         /\ <<p, n>> \in InInventories(i)' <=> j = i
         /\ InInventories(i)' \ {<<p, n>>} = InInventories(i) \ {<<p, n>>}
<1>1. /\ inv'[p] = [inv[p] EXCEPT ![n] = j] /\ inv'[p] \in Inventories
      /\ \A q \in Players \ {p} : inv'[q] = inv[q]
  BY DEF Inventories
<1>2. inv'[p][n] = j /\ \A m \in Slots \ {n} : inv'[p][m] = inv[p][m]
  BY <1>1 DEF Inventories
<1>3. InInventories(i) =
        {pn \in Players \X Slots : \E v \in Inventories : v[pn[2]] = i /\ Has(pn[1], v)}
  BY InInventoriesHas
<1>4. InInventories(i)' =
        {pn \in Players \X Slots : \E v \in Inventories : v[pn[2]] = i /\ Has(pn[1], v)'}
  <2>1. \A q, v : Current(q, v)' <=> Newest(InvRow(q), v)'
    BY DEF Current, Newest
  <2>2. QED
    BY <2>1 DEF InInventories, Has
<1>5. \A v : (Has(p, v) <=> v = inv[p]) /\ (Has(p, v)' <=> v = inv'[p])
  BY <1>1, InventoryIsThere DEF Has
<1>6. \A q \in Players \ {p} : \A v : Has(q, v)' <=> Has(q, v)
  BY <1>1, SameTables DEF Has, Newest, LatestIs
<1>7. \A m \in Slots : /\ <<p, m>> \in InInventories(i) <=> inv[p][m] = i
                       /\ <<p, m>> \in InInventories(i)' <=> inv'[p][m] = i
  BY <1>1, <1>3, <1>4, <1>5
<1>8. \A q \in Players \ {p}, m \in Slots :
        <<q, m>> \in InInventories(i)' <=> <<q, m>> \in InInventories(i)
  BY <1>3, <1>4, <1>6
<1>9. \A q \in Players, m \in Slots : <<q, m>> # <<p, n>> =>
        (<<q, m>> \in InInventories(i)' <=> <<q, m>> \in InInventories(i))
  BY <1>2, <1>7, <1>8
<1>10. /\ InInventories(i) \subseteq Players \X Slots
       /\ InInventories(i)' \subseteq Players \X Slots
  BY <1>3, <1>4
<1>11. QED
  BY <1>2, <1>7, <1>9, <1>10

LEMMA WriteChestMoves ==
  ASSUME CInv, TInv', NEW t \in Threads, WriteChest(t)
  PROVE  AInv' /\ (OneWorld' => WInv')
<1>1. /\ SInv /\ AInv /\ (OneWorld => WInv) /\ TInv /\ InitialSeed \in usedSeeds
      /\ chest \in [Chests -> Inventories \cup {Absent}] /\ EntryInv
  BY DEF CInv, SInv, BInv, FreshInv, TInv, TypeOK, ItemTypeOK
<1>2. PICK k \in Chests, n \in Slots : k = slotmsg[t].where /\ n = slotmsg[t].slot
  BY <1>1 DEF WriteChest, TInv, ArmInv
<1>3. PICK j \in Items \cup {Empty} : j = slotmsg[t].item
  BY <1>1 DEF TInv, TypeOK, ItemTypeOK, SlotMsg
<1>4. PICK w : w = wasthere[t]
  OBVIOUS
<1>5. /\ UNCHANGED <<inv, hand, slotmsg, wasthere, raced, usedSeeds, queue, db>>
      /\ pc[t] = "setchest" /\ pc' = [pc EXCEPT ![t] = "pushchest"]
      /\ chest' = [chest EXCEPT ![k][n] = j]
      /\ lost' = lost \cup ((IF slotmsg[t].bo THEN {} ELSE {w}) \ {Empty})
  BY <1>2, <1>3, <1>4 DEF WriteChest, Overwritten, worldVars, sqlVars, lockVars
<1>6. pc'[t] = "pushchest" /\ \A u \in Threads \ {t} : pc'[u] = pc[u]
  BY <1>1, <1>5, PcSet
<1>7. \A u \in Threads \ {t} : SameArm(u)
  BY <1>5, <1>6 DEF SameArm
<1>8. /\ chest[k] \in Inventories /\ w = chest[k][n]
      /\ chest'[k] = [chest[k] EXCEPT ![n] = j]
      /\ \A c \in Chests \ {k} : chest'[c] = chest[c]
  BY <1>1, <1>2, <1>4, <1>5 DEF TInv, ArmInv, AInv, Displacing
<1>9. \A u \in Threads \ {t} : pc[u] \in {"setchest", "pushchest"} =>
                                 slotmsg[u].where \in Chests \ {k}
  BY <1>1, <1>2, <1>5 DEF EntryInv, TInv, ArmInv
<1>10. /\ EmptyMessage' /\ SessionsStored'
       /\ \A c \in Chests \ {k} : ChestFollows(c) => ChestFollows(c)'
       /\ (SessionsFollow => SessionsFollow')
       /\ (OnceInEveryVersion => OnceInEveryVersion')
  BY <1>1, <1>5, <1>6, <1>7, <1>8, OneThreadActs DEF SessionsFollow
<1>11. Displacing'
  <2>1. DisplacedBy(t)'
    BY <1>6 DEF DisplacedBy
  <2>2. QED
    BY <1>1, <1>5, <1>7, <1>8, <1>9, <2>1, OthersDisplace DEF AInv
<1>12. ASSUME ChestFollows(k) PROVE ChestFollows(k)'
  <2>1. PICK v : v = chest[k]
    OBVIOUS
  <2>2. Newest(ChestRow(InitialSeed, k), v)
    BY <1>5, <1>9, <1>12, <2>1 DEF ChestFollows
  <2>3. Newest(ChestRow(InitialSeed, k), v)'
    BY <1>5, <2>2 DEF Newest, LatestIs
  <2>4. v = [chest'[k] EXCEPT ![n] = w]
    BY <1>8, <2>1 DEF Inventories
  <2>5. v = [chest'[k] EXCEPT ![slotmsg'[t].slot] = wasthere'[t]]
    BY <1>2, <1>4, <1>5, <2>4
  <2>6. Newest(ChestRow(InitialSeed, k),
               [chest[k] EXCEPT ![slotmsg[t].slot] = wasthere[t]])'
    BY <2>3, <2>5 DEF Newest
  <2>7. QED
    BY <1>2, <1>5, <1>6, <2>6 DEF ChestFollows
<1>13. ASSUME NEW i \in Items, Conserved(i) PROVE Conserved(i)'
  <2>1. /\ t \in InMessages(i) <=> j = i
        /\ t \in InMessages(i)' <=> slotmsg[t].bo /\ w = i
        /\ InMessages(i) \ {t} = InMessages(i)' \ {t}
    BY <1>3, <1>4, <1>5, <1>6, <1>7, MessageExchanged
  <2>2. /\ <<k, n>> \in InChests(i) <=> w = i
        /\ <<k, n>> \in InChests(i)' <=> j = i
        /\ InChests(i)' \ {<<k, n>>} = InChests(i) \ {<<k, n>>}
    <3>1. /\ <<k, n>> \in InChests(i) <=> chest[k][n] = i
          /\ <<k, n>> \in InChests(i)' <=> j = i
          /\ InChests(i)' \ {<<k, n>>} = InChests(i) \ {<<k, n>>}
      BY <1>8, ChestExchanged
    <3>2. QED
      BY <1>8, <3>1
  <2>3. InInventories(i)' = InInventories(i)
    BY <1>5, InventoriesSame, SameTables DEF Has, Newest, LatestIs
  <2>4. i \in hand' <=> i \in hand
    BY <1>5
  <2>5. CASE i = j
    <3>1. InOnly(i, FALSE, {t}, {}, {}) /\ i \notin lost
      BY <1>13, <2>1, <2>5 DEF Conserved, InOnly
    <3>2. w # i
      BY <2>2, <3>1 DEF InOnly
    <3>3. InMessages(i)' = {} /\ InChests(i)' = {<<k, n>>} /\ i \notin lost'
      BY <1>5, <2>1, <2>2, <2>5, <3>1, <3>2 DEF InOnly
    <3>4. InOnly(i, FALSE, {}, {<<k, n>>}, {})'
      BY <2>3, <2>4, <3>1, <3>3 DEF InOnly
    <3>5. QED
      BY <3>3, <3>4 DEF Conserved
  <2>6. CASE i # j /\ i = w
    <3>1. InOnly(i, FALSE, {}, {<<k, n>>}, {}) /\ i \notin lost
      BY <1>13, <2>2, <2>6 DEF Conserved, InOnly
    <3>2. CASE slotmsg[t].bo
      <4>1. InMessages(i)' = {t} /\ InChests(i)' = {} /\ i \notin lost'
        BY <1>5, <2>1, <2>2, <2>6, <3>1, <3>2 DEF InOnly
      <4>2. InOnly(i, FALSE, {t}, {}, {})'
        BY <2>3, <2>4, <3>1, <4>1 DEF InOnly
      <4>3. QED
        BY <4>1, <4>2 DEF Conserved
    <3>3. CASE ~slotmsg[t].bo
      <4>1. InMessages(i)' = {} /\ InChests(i)' = {} /\ i \in lost'
        BY <1>5, <2>1, <2>2, <2>6, <3>1, <3>3, InventoryIsThere DEF InOnly
      <4>2. InOnly(i, FALSE, {}, {}, {})'
        BY <2>3, <2>4, <3>1, <4>1 DEF InOnly
      <4>3. QED
        BY <4>1, <4>2 DEF Conserved
    <3>4. QED
      BY <3>2, <3>3
  <2>7. CASE i # j /\ i # w
    <3>1. InMessages(i)' = InMessages(i) /\ InChests(i)' = InChests(i)
      BY <2>1, <2>2, <2>7
    <3>2. i \in lost' <=> i \in lost
      BY <1>5, <2>7
    <3>3. QED
      BY <1>13, <2>3, <2>4, <3>1, <3>2, ConservedSame
  <2>8. QED
    BY <2>5, <2>6, <2>7
<1>14. OneWorld' => OneWorld
  BY <1>1, <1>5, OneWorldBefore
<1>15. ChestsFollow => ChestsFollow'
  BY <1>10, <1>12 DEF ChestsFollow
<1>16. QED
  BY <1>1, <1>10, <1>11, <1>13, <1>14, <1>15 DEF AInv, WInv, AllConserved

LEMMA WriteInvMoves ==
  ASSUME CInv, TInv', NEW t \in Threads, WriteInv(t)
  PROVE  AInv' /\ (OneWorld' => WInv')
<1>1. /\ SInv /\ AInv /\ (OneWorld => WInv) /\ TInv /\ InitialSeed \in usedSeeds
      /\ inv \in [Players -> Inventories \cup {Absent}]
  BY DEF CInv, SInv, BInv, FreshInv, TInv, TypeOK, ItemTypeOK
<1>2. PICK p \in Players, n \in Slots : p = slotmsg[t].where /\ n = slotmsg[t].slot
  BY <1>1 DEF WriteInv, TInv, ArmInv
<1>3. PICK j \in Items \cup {Empty} : j = slotmsg[t].item
  BY <1>1 DEF TInv, TypeOK, ItemTypeOK, SlotMsg
<1>4. PICK w : w = wasthere[t]
  OBVIOUS
<1>5. /\ UNCHANGED <<chest, hand, slotmsg, wasthere, raced, usedSeeds, queue, db>>
      /\ pc[t] = "setinv" /\ pc' = [pc EXCEPT ![t] = "pushinv"]
      /\ inv' = [inv EXCEPT ![p][n] = j]
      /\ lost' = lost \cup ((IF slotmsg[t].bo THEN {} ELSE {w}) \ {Empty})
  BY <1>2, <1>3, <1>4 DEF WriteInv, Overwritten, worldVars, sqlVars, lockVars
<1>6. pc'[t] = "pushinv" /\ \A u \in Threads \ {t} : pc'[u] = pc[u]
  BY <1>1, <1>5, PcSet
<1>7. \A u \in Threads \ {t} : SameArm(u)
  BY <1>5, <1>6 DEF SameArm
<1>8. /\ inv[p] \in Inventories /\ w = inv[p][n]
      /\ inv'[p] = [inv[p] EXCEPT ![n] = j]
      /\ \A q \in Players \ {p} : inv'[q] = inv[q]
  BY <1>1, <1>2, <1>4, <1>5 DEF TInv, ArmInv, AInv, Displacing
<1>9. \A u \in Threads \ {t} : pc[u] \notin {"setinv", "pushinv"}
  BY <1>1, <1>5 DEF TInv, ArmInv
<1>10. /\ EmptyMessage' /\ SessionsStored'
       /\ (ChestsFollow => ChestsFollow')
       /\ \A q \in Players \ {p} : SessionFollows(q) => SessionFollows(q)'
       /\ (OnceInEveryVersion => OnceInEveryVersion')
  BY <1>1, <1>5, <1>6, <1>7, <1>8, OneThreadActs DEF ChestsFollow
<1>11. Displacing'
  <2>1. DisplacedBy(t)'
    BY <1>6 DEF DisplacedBy
  <2>2. QED
    BY <1>1, <1>5, <1>7, <1>9, <2>1, OthersDisplace DEF AInv
<1>12. ASSUME SessionFollows(p) PROVE SessionFollows(p)'
  <2>1. PICK v : v = inv[p]
    OBVIOUS
  <2>2. Newest(InvRow(p), v)
    BY <1>5, <1>8, <1>9, <1>12, <2>1, InventoryIsThere DEF SessionFollows
  <2>3. Newest(InvRow(p), v)'
    BY <1>5, <2>2 DEF Newest, LatestIs
  <2>4. v = [inv'[p] EXCEPT ![n] = w]
    BY <1>8, <2>1 DEF Inventories
  <2>5. v = [inv'[p] EXCEPT ![slotmsg'[t].slot] = wasthere'[t]]
    BY <1>2, <1>4, <1>5, <2>4
  <2>6. Newest(InvRow(p), [inv[p] EXCEPT ![slotmsg[t].slot] = wasthere[t]])'
    BY <2>3, <2>5 DEF Newest
  <2>7. QED
    BY <1>2, <1>5, <1>6, <2>6 DEF SessionFollows
<1>13. ASSUME NEW i \in Items, Conserved(i) PROVE Conserved(i)'
  <2>1. /\ t \in InMessages(i) <=> j = i
        /\ t \in InMessages(i)' <=> slotmsg[t].bo /\ w = i
        /\ InMessages(i) \ {t} = InMessages(i)' \ {t}
    BY <1>3, <1>4, <1>5, <1>6, <1>7, MessageExchanged
  <2>2. /\ <<p, n>> \in InInventories(i) <=> w = i
        /\ <<p, n>> \in InInventories(i)' <=> j = i
        /\ InInventories(i)' \ {<<p, n>>} = InInventories(i) \ {<<p, n>>}
    <3>1. /\ <<p, n>> \in InInventories(i) <=> inv[p][n] = i
          /\ <<p, n>> \in InInventories(i)' <=> j = i
          /\ InInventories(i)' \ {<<p, n>>} = InInventories(i) \ {<<p, n>>}
      BY <1>5, <1>8, SessionExchanged
    <3>2. QED
      BY <1>8, <3>1
  <2>3. InChests(i)' = InChests(i)
    BY <1>5 DEF InChests
  <2>4. i \in hand' <=> i \in hand
    BY <1>5
  <2>5. CASE i = j
    <3>1. InOnly(i, FALSE, {t}, {}, {}) /\ i \notin lost
      BY <1>13, <2>1, <2>5 DEF Conserved, InOnly
    <3>2. w # i
      BY <2>2, <3>1 DEF InOnly
    <3>3. InMessages(i)' = {} /\ InInventories(i)' = {<<p, n>>} /\ i \notin lost'
      BY <1>5, <2>1, <2>2, <2>5, <3>1, <3>2 DEF InOnly
    <3>4. InOnly(i, FALSE, {}, {}, {<<p, n>>})'
      BY <2>3, <2>4, <3>1, <3>3 DEF InOnly
    <3>5. QED
      BY <3>3, <3>4 DEF Conserved
  <2>6. CASE i # j /\ i = w
    <3>1. InOnly(i, FALSE, {}, {}, {<<p, n>>}) /\ i \notin lost
      BY <1>13, <2>2, <2>6 DEF Conserved, InOnly
    <3>2. CASE slotmsg[t].bo
      <4>1. InMessages(i)' = {t} /\ InInventories(i)' = {} /\ i \notin lost'
        BY <1>5, <2>1, <2>2, <2>6, <3>1, <3>2 DEF InOnly
      <4>2. InOnly(i, FALSE, {t}, {}, {})'
        BY <2>3, <2>4, <3>1, <4>1 DEF InOnly
      <4>3. QED
        BY <4>1, <4>2 DEF Conserved
    <3>3. CASE ~slotmsg[t].bo
      <4>1. InMessages(i)' = {} /\ InInventories(i)' = {} /\ i \in lost'
        BY <1>5, <2>1, <2>2, <2>6, <3>1, <3>3, InventoryIsThere DEF InOnly
      <4>2. InOnly(i, FALSE, {}, {}, {})'
        BY <2>3, <2>4, <3>1, <4>1 DEF InOnly
      <4>3. QED
        BY <4>1, <4>2 DEF Conserved
    <3>4. QED
      BY <3>2, <3>3
  <2>7. CASE i # j /\ i # w
    <3>1. InMessages(i)' = InMessages(i) /\ InInventories(i)' = InInventories(i)
      BY <2>1, <2>2, <2>7
    <3>2. i \in lost' <=> i \in lost
      BY <1>5, <2>7
    <3>3. QED
      BY <1>13, <2>3, <2>4, <3>1, <3>2, ConservedSame
  <2>8. QED
    BY <2>5, <2>6, <2>7
<1>14. OneWorld' => OneWorld
  BY <1>1, <1>5, OneWorldBefore
<1>15. SessionsFollow => SessionsFollow'
  BY <1>10, <1>12 DEF SessionsFollow
<1>16. QED
  BY <1>1, <1>10, <1>11, <1>13, <1>14, <1>15 DEF AInv, WInv, AllConserved

----------------------------------------------------------------------------
(* The row is queued.  The newest version gets the stacks of the chest or  *)
(* the inventory as it is in memory; that none of them is still in another *)
(* row of that version is the point of the whole argument.                 *)

LEMMA NewestChestHolds ==
  ASSUME TInv, OverwritingLoses, NEW i \in Items, NEW c \in Chests, NEW n \in Slots,
         NEW v \in Inventories, v[n] = i, LatestIs(ChestRow(InitialSeed, c), v),
         ChestFollows(c)
  PROVE  i \in lost \/ InMessages(i) # {} \/ <<c, n>> \in InChests(i)
<1>1. /\ queue \in Seq(Stmt) /\ chest[c] \in Inventories \cup {Absent}
      /\ Absent \notin Inventories
  BY InventoryIsThere DEF TInv, TypeOK, ItemTypeOK, SqlTypeOK
<1>2. \A w \in Inventories \cup {Absent} : Newest(ChestRow(InitialSeed, c), w) => w = v
  BY <1>1, LatestUnique, InventoryIsThere DEF Newest, LatestIs
<1>3. CASE Newest(ChestRow(InitialSeed, c), chest[c])
  <2>1. chest[c] = v
    BY <1>1, <1>2, <1>3
  <2>2. QED
    BY <1>1, <2>1 DEF InChests
<1>4. ASSUME NEW t \in Threads, pc[t] = "pushchest", slotmsg[t].where = c,
             Newest(ChestRow(InitialSeed, c),
                    [chest[c] EXCEPT ![slotmsg[t].slot] = wasthere[t]])
      PROVE  i \in lost \/ InMessages(i) # {} \/ <<c, n>> \in InChests(i)
  <2>1. chest[c] \in Inventories /\ wasthere[t] \in Items \cup {Empty}
        /\ slotmsg[t].slot \in Slots
    BY <1>4 DEF TInv, TypeOK, ItemTypeOK, ArmInv
  <2>2. v = [chest[c] EXCEPT ![slotmsg[t].slot] = wasthere[t]]
    <3>1. [chest[c] EXCEPT ![slotmsg[t].slot] = wasthere[t]] \in Inventories
      BY <2>1 DEF Inventories
    <3>2. QED
      BY <1>2, <1>4, <3>1
  <2>3. CASE n = slotmsg[t].slot
    <3>1. wasthere[t] = i
      BY <2>1, <2>2, <2>3 DEF Inventories
    <3>2. CASE slotmsg[t].bo
      BY <1>4, <3>1, <3>2 DEF InMessages, Displaced
    <3>3. CASE ~slotmsg[t].bo
      BY <1>4, <3>1, <3>3, InventoryIsThere DEF OverwritingLoses, Overwritten
    <3>4. QED
      BY <3>2, <3>3
  <2>4. CASE n # slotmsg[t].slot
    <3>1. chest[c][n] = i
      BY <2>1, <2>2, <2>4 DEF Inventories
    <3>2. QED
      BY <1>1, <2>1, <3>1 DEF InChests
  <2>5. QED
    BY <2>3, <2>4
<1>5. QED
  BY <1>3, <1>4 DEF ChestFollows

LEMMA NewestSessionHolds ==
  ASSUME TInv, OverwritingLoses, NEW i \in Items, NEW p \in Players, NEW n \in Slots,
         NEW v \in Inventories, v[n] = i, LatestIs(InvRow(p), v), SessionFollows(p)
  PROVE  i \in lost \/ InMessages(i) # {} \/ <<p, n>> \in InInventories(i)
<1>1. /\ queue \in Seq(Stmt) /\ inv[p] \in Inventories \cup {Absent}
      /\ Absent \notin Inventories
  BY InventoryIsThere DEF TInv, TypeOK, ItemTypeOK, SqlTypeOK
<1>2. \A w \in Inventories \cup {Absent} : Newest(InvRow(p), w) => w = v
  BY <1>1, LatestUnique, InventoryIsThere DEF Newest, LatestIs
<1>3. ASSUME NEW w \in Inventories, w[n] = i, Has(p, w)
      PROVE  <<p, n>> \in InInventories(i)
  BY <1>3, InInventoriesHas
<1>4. CASE inv[p] = Absent
  BY <1>3, <1>4 DEF Has, Newest
<1>5. CASE inv[p] # Absent /\ Newest(InvRow(p), inv[p])
  <2>1. inv[p] = v
    BY <1>1, <1>2, <1>5
  <2>2. QED
    BY <1>3, <1>5, <2>1 DEF Has
<1>6. ASSUME NEW t \in Threads, pc[t] = "pushinv", slotmsg[t].where = p,
             Newest(InvRow(p), [inv[p] EXCEPT ![slotmsg[t].slot] = wasthere[t]])
      PROVE  i \in lost \/ InMessages(i) # {} \/ <<p, n>> \in InInventories(i)
  <2>1. inv[p] \in Inventories /\ wasthere[t] \in Items \cup {Empty}
        /\ slotmsg[t].slot \in Slots
    BY <1>6 DEF TInv, TypeOK, ItemTypeOK, ArmInv
  <2>2. v = [inv[p] EXCEPT ![slotmsg[t].slot] = wasthere[t]]
    <3>1. [inv[p] EXCEPT ![slotmsg[t].slot] = wasthere[t]] \in Inventories
      BY <2>1 DEF Inventories
    <3>2. QED
      BY <1>2, <1>6, <3>1
  <2>3. CASE n = slotmsg[t].slot
    <3>1. wasthere[t] = i
      BY <2>1, <2>2, <2>3 DEF Inventories
    <3>2. CASE slotmsg[t].bo
      BY <1>6, <3>1, <3>2 DEF InMessages, Displaced
    <3>3. CASE ~slotmsg[t].bo
      BY <1>6, <3>1, <3>3, InventoryIsThere DEF OverwritingLoses, Overwritten
    <3>4. QED
      BY <3>2, <3>3
  <2>4. CASE n # slotmsg[t].slot
    <3>1. inv[p][n] = i
      BY <2>1, <2>2, <2>4 DEF Inventories
    <3>2. QED
      BY <1>1, <1>3, <2>1, <3>1 DEF Has
  <2>5. QED
    BY <2>3, <2>4
<1>7. QED
  BY <1>4, <1>5, <1>6 DEF SessionFollows

LEMMA QueuedOnce ==
  ASSUME TInv, OverwritingLoses, WInv, NEW st \in Stmt, queue' = Append(queue, st), UNCHANGED db,
         \A i \in Items, n \in Slots : st.val[n] = i =>
           /\ i \notin lost /\ InMessages(i) = {}
           /\ \A m \in Slots : st.val[m] = i => m = n
           /\ \A c \in Chests, m \in Slots :
                <<c, m>> \in InChests(i) => ChestRow(InitialSeed, c) = st.row
           /\ \A p \in Players, m \in Slots :
                <<p, m>> \in InInventories(i) => InvRow(p) = st.row
  PROVE  OnceInEveryVersion'
<1>1. PICK len \in Nat : len = Len(queue)
  BY LenProperties DEF TInv, TypeOK, SqlTypeOK
<1>2. /\ queue \in Seq(Stmt)
      /\ ChestsFollow /\ SessionsFollow /\ OnceInEveryVersion
  BY DEF TInv, TypeOK, SqlTypeOK, WInv
<1>3. /\ Len(queue') = len + 1
      /\ \A m \in 0..len : \A row, v : Version(m, row, v)' <=> Version(m, row, v)
      /\ \A row, v : row # st.row /\ Version(len + 1, row, v)' => Version(len, row, v)
      /\ \A v : Version(len + 1, st.row, v)' => v = st.val
  BY <1>1, <1>2, PushedVersions
<1>4. ASSUME NEW i \in Items, NEW r \in ItemRows, NEW n \in Slots, r # st.row,
             Held(len + 1, r, n, i)'
      PROVE  /\ Held(len, r, n, i)
             /\ \A m \in Slots : st.val[m] # i
  <2>1. PICK v \in Inventories : Version(len + 1, r, v)' /\ v[n] = i
    BY <1>4 DEF Held
  <2>2. Version(len, r, v)
    BY <1>3, <1>4, <2>1
  <2>3. LatestIs(r, v)
    BY <1>1, <2>2, LastVersion
  <2>4. ASSUME NEW m \in Slots, st.val[m] = i PROVE FALSE
    <3>1. ASSUME NEW c \in Chests, r = ChestRow(InitialSeed, c) PROVE FALSE
      <4>1. i \in lost \/ InMessages(i) # {} \/ <<c, n>> \in InChests(i)
        BY <1>2, <2>1, <2>3, <3>1, NewestChestHolds DEF ChestsFollow
      <4>2. QED
        BY <1>4, <2>4, <3>1, <4>1
    <3>2. ASSUME NEW p \in Players, r = InvRow(p) PROVE FALSE
      <4>1. i \in lost \/ InMessages(i) # {} \/ <<p, n>> \in InInventories(i)
        BY <1>2, <2>1, <2>3, <3>2, NewestSessionHolds DEF SessionsFollow
      <4>2. QED
        BY <1>4, <2>4, <3>2, <4>1
    <3>3. QED
      BY <3>1, <3>2 DEF ItemRows
  <2>5. QED
    BY <2>1, <2>2, <2>4 DEF Held
<1>5. ASSUME NEW i \in Items, NEW r \in ItemRows, NEW n \in Slots, r = st.row,
             Held(len + 1, r, n, i)'
      PROVE  st.val[n] = i
  BY <1>3, <1>5 DEF Held
<1>6. ASSUME NEW i \in Items, NEW r1 \in ItemRows, NEW r2 \in ItemRows,
             NEW n1 \in Slots, NEW n2 \in Slots,
             Held(len + 1, r1, n1, i)', Held(len + 1, r2, n2, i)'
      PROVE  r1 = r2 /\ n1 = n2
  <2>1. CASE r1 # st.row /\ r2 # st.row
    <3>1. Held(len, r1, n1, i) /\ Held(len, r2, n2, i)
      BY <1>4, <1>6, <2>1
    <3>2. len \in 0..Len(queue)
      BY <1>1
    <3>3. QED
      BY <1>2, <3>1, <3>2 DEF OnceInEveryVersion
  <2>2. CASE r1 = st.row /\ r2 = st.row
    BY <1>5, <1>6, <2>2
  <2>3. CASE r1 = st.row /\ r2 # st.row
    BY <1>4, <1>5, <1>6, <2>3
  <2>4. CASE r1 # st.row /\ r2 = st.row
    BY <1>4, <1>5, <1>6, <2>4
  <2>5. QED
    BY <2>1, <2>2, <2>3, <2>4
<1>7. ASSUME NEW m \in 0..len, NEW i \in Items, NEW r1 \in ItemRows, NEW r2 \in ItemRows,
             NEW n1 \in Slots, NEW n2 \in Slots,
             Held(m, r1, n1, i)', Held(m, r2, n2, i)'
      PROVE  r1 = r2 /\ n1 = n2
  <2>1. Held(m, r1, n1, i) /\ Held(m, r2, n2, i)
    BY <1>3, <1>7 DEF Held
  <2>2. QED
    BY <1>1, <1>2, <2>1 DEF OnceInEveryVersion
<1>8. \A m \in 0..(len + 1) : m \in 0..len \/ m = len + 1
  OBVIOUS
<1>9. QED
  BY <1>3, <1>6, <1>7, <1>8 DEF OnceInEveryVersion

LEMMA QueuedElsewhere ==
  ASSUME queue \in Seq(Stmt), NEW st \in Stmt, queue' = Append(queue, st), UNCHANGED db,
         NEW row, row # st.row, NEW v, Newest(row, v)
  PROVE  Newest(row, v)'
<1>1. \A w : LatestIs(row, w) => LatestIs(row, w)'
  BY PushedElsewhere
<1>2. QED
  BY <1>1 DEF Newest

LEMMA PushChestMovesNothing ==
  ASSUME CInv, TInv', NEW t \in Threads, PushChest(t)
  PROVE  AInv' /\ (OneWorld' => WInv')
<1>1. /\ SInv /\ AInv /\ OverwritingLoses /\ (OneWorld => WInv) /\ TInv
      /\ InitialSeed \in usedSeeds /\ EntryInv
      /\ queue \in Seq(Stmt) /\ queue' \in Seq(Stmt)
      /\ chest \in [Chests -> Inventories \cup {Absent}]
  BY DEF CInv, SInv, BInv, FreshInv, TInv, TypeOK, ItemTypeOK, SqlTypeOK
<1>2. PICK k \in Chests, sd \in usedSeeds : k = slotmsg[t].where /\ sd = seedread[t]
  BY <1>1 DEF PushChest, TInv, ArmInv, EntryInv
<1>3. PICK st : st = [row |-> ChestRow(sd, k), val |-> chest[k]]
  OBVIOUS
<1>4. /\ UNCHANGED <<chest, inv, hand, lost, slotmsg, wasthere, raced, usedSeeds, db>>
      /\ pc[t] = "pushchest" /\ pc' = [pc EXCEPT ![t] = "reply"]
      /\ queue' = Append(queue, st)
  BY <1>2, <1>3 DEF PushChest, worldVars, itemVars
<1>5. chest[k] \in Inventories /\ sd \in Seeds
  BY <1>1, <1>2, <1>4 DEF TInv, ArmInv, TypeOK, WorldTypeOK
<1>6. st \in Stmt /\ st.row = ChestRow(sd, k) /\ st.val = chest[k]
  BY <1>3, <1>5, RowsOfTables, ValsOfTables DEF Stmt, Vals
<1>7. pc'[t] = "reply" /\ \A u \in Threads \ {t} : pc'[u] = pc[u]
  BY <1>1, <1>4, PcSet
<1>8. \A u \in Threads \ {t} : SameArm(u)
  BY <1>4, <1>7 DEF SameArm
<1>9. \A row, v : row # ChestRow(sd, k) /\ Newest(row, v) => Newest(row, v)'
  BY <1>1, <1>4, <1>6, QueuedElsewhere
<1>10. ASSUME NEW p \in Players
       PROVE  \A v : Newest(InvRow(p), v) => Newest(InvRow(p), v)'
  <2>1. PICK row : row = InvRow(p)
    OBVIOUS
  <2>2. \A v : Newest(row, v) => Newest(row, v)'
    BY <1>9, <2>1, RowsApart
  <2>3. QED
    BY <2>1, <2>2 DEF Newest
<1>11. /\ SessionsStored'
       /\ \A p \in Players, v \in Inventories :
            Newest(InvRow(p), v)' <=> Newest(InvRow(p), v)
  <2>1. \A p \in Players : \E v \in Inventories : Newest(InvRow(p), v)'
    BY <1>1, <1>10, SessionRowKept DEF AInv
  <2>2. SessionsStored'
    BY <2>1 DEF SessionsStored
  <2>3. QED
    BY <1>1, <1>10, <2>2, SessionRowKept DEF AInv
<1>12. EmptyMessage' /\ Displacing'
  <2>1. EmptyMessage'
    BY <1>1, <1>4, <1>7 DEF AInv, EmptyMessage
  <2>2. DisplacedBy(t)'
    BY <1>7 DEF DisplacedBy
  <2>3. QED
    BY <1>1, <1>4, <1>8, <2>1, <2>2, OthersDisplace DEF AInv
<1>13. ASSUME OneWorld' PROVE WInv'
  <2>1. sd = InitialSeed /\ WInv
    BY <1>1, <1>4, <1>13 DEF OneWorld
  <2>2. ChestsFollow /\ SessionsFollow /\ AllConserved
    BY <2>1 DEF WInv
  <2>3. ASSUME NEW c \in Chests PROVE ChestFollows(c)'
    <3>1. CASE c = k
      <4>1. PICK row, v : row = st.row /\ v = st.val
        OBVIOUS
      <4>2. LatestIn(queue', db, row, v)
        BY <1>1, <1>4, <1>6, <4>1, PushDecides
      <4>3. LatestIs(ChestRow(InitialSeed, c), chest[c])'
        BY <1>4, <1>6, <2>1, <3>1, <4>1, <4>2 DEF LatestIs
      <4>4. QED
        BY <4>3 DEF ChestFollows, Newest
    <3>2. CASE c # k
      <4>1. PICK row : row = ChestRow(InitialSeed, c)
        OBVIOUS
      <4>2. row # ChestRow(sd, k)
        BY <3>2, <4>1, RowsApart
      <4>3. \A v : Newest(row, v) => Newest(row, v)'
        BY <1>9, <4>2
      <4>4. \A v \in Inventories \cup {Absent} :
              Newest(ChestRow(InitialSeed, c), v) => Newest(ChestRow(InitialSeed, c), v)'
        BY <4>1, <4>3 DEF Newest
      <4>5. \A u \in Threads : pc[u] = "pushchest" /\ slotmsg[u].where = c => SameArm(u)
        BY <1>2, <1>8, <3>2
      <4>6. ChestFollows(c) /\ chest'[c] = chest[c]
        BY <1>4, <2>2 DEF ChestsFollow
      <4>7. QED
        BY <1>1, <4>4, <4>5, <4>6, ChestFollowsKept
    <3>3. QED
      BY <3>1, <3>2
  <2>4. SessionsFollow'
    <3>1. \A u \in Threads : pc[u] = "pushinv" => SameArm(u)
      BY <1>4, <1>8
    <3>2. QED
      BY <1>1, <1>4, <1>10, <2>2, <3>1, SessionFollowsKept DEF SessionsFollow
  <2>5. ASSUME NEW i \in Items PROVE Conserved(i)'
    <3>1. InChests(i)' = InChests(i)
      BY <1>4 DEF InChests
    <3>2. InInventories(i)' = InInventories(i)
      BY <1>4, <1>11, InventoriesSame DEF Has
    <3>3. t \in InMessages(i)' <=> t \in InMessages(i)
      BY <1>4, <1>7 DEF InMessages, Displaced
    <3>4. /\ \A u \in Threads \ {t} : u \in InMessages(i)' <=> u \in InMessages(i)
          /\ InMessages(i) \subseteq Threads /\ InMessages(i)' \subseteq Threads
      BY <1>8, MessageSame DEF InMessages
    <3>5. InMessages(i)' = InMessages(i)
      BY <3>3, <3>4
    <3>6. Conserved(i)
      BY <2>2 DEF AllConserved
    <3>7. QED
      BY <1>4, <3>1, <3>2, <3>5, <3>6, ConservedSame
  <2>6. OnceInEveryVersion'
    <3>1. ASSUME NEW i \in Items, NEW n \in Slots, st.val[n] = i
          PROVE  /\ i \notin lost /\ InMessages(i) = {}
                 /\ \A m \in Slots : st.val[m] = i => m = n
                 /\ \A c \in Chests, m \in Slots :
                      <<c, m>> \in InChests(i) => ChestRow(InitialSeed, c) = st.row
                 /\ \A p \in Players, m \in Slots :
                      <<p, m>> \in InInventories(i) => InvRow(p) = st.row
      <4>1. \A m \in Slots : st.val[m] = i => <<k, m>> \in InChests(i)
        BY <1>5, <1>6, InventoryIsThere DEF InChests
      <4>2. Conserved(i)
        BY <2>2 DEF AllConserved
      <4>3. PICK kn \in Chests \X Slots : i \notin lost /\ InOnly(i, FALSE, {}, {kn}, {})
        BY <3>1, <4>1, <4>2 DEF Conserved, InOnly
      <4>4. kn = <<k, n>>
        BY <3>1, <4>1, <4>3 DEF InOnly
      <4>5. \A m \in Slots : st.val[m] = i => m = n
        BY <4>1, <4>3, <4>4 DEF InOnly
      <4>6. \A c \in Chests, m \in Slots :
              <<c, m>> \in InChests(i) => ChestRow(InitialSeed, c) = st.row
        BY <1>6, <2>1, <4>3, <4>4 DEF InOnly
      <4>7. QED
        BY <4>3, <4>5, <4>6 DEF InOnly
    <3>2. QED
      BY <1>1, <1>4, <1>6, <2>1, <3>1, QueuedOnce
  <2>7. QED
    BY <2>3, <2>4, <2>5, <2>6 DEF WInv, ChestsFollow, AllConserved
<1>14. QED
  BY <1>11, <1>12, <1>13 DEF AInv

LEMMA PushInvMovesNothing ==
  ASSUME CInv, TInv', NEW t \in Threads, PushInv(t)
  PROVE  AInv' /\ (OneWorld' => WInv')
<1>1. /\ SInv /\ AInv /\ OverwritingLoses /\ (OneWorld => WInv) /\ TInv
      /\ InitialSeed \in usedSeeds /\ queue \in Seq(Stmt) /\ queue' \in Seq(Stmt)
  BY DEF CInv, SInv, BInv, FreshInv, TInv, TypeOK, SqlTypeOK
<1>2. PICK p \in Players : p = slotmsg[t].where
  BY <1>1 DEF PushInv, TInv, ArmInv
<1>3. PICK st : st = [row |-> InvRow(p), val |-> inv[p]]
  OBVIOUS
<1>4. /\ UNCHANGED <<chest, inv, hand, lost, slotmsg, wasthere, raced, usedSeeds, db>>
      /\ pc[t] = "pushinv" /\ pc' = [pc EXCEPT ![t] = "reply"]
      /\ queue' = Append(queue, st)
  BY <1>2, <1>3 DEF PushInv, worldVars, itemVars
<1>5. inv[p] \in Inventories /\ inv[p] # Absent
  BY <1>1, <1>2, <1>4, InventoryIsThere DEF TInv, ArmInv
<1>6. st \in Stmt /\ st.row = InvRow(p) /\ st.val = inv[p]
  BY <1>3, <1>5, RowsOfTables, ValsOfTables DEF Stmt, Vals
<1>7. pc'[t] = "reply" /\ \A u \in Threads \ {t} : pc'[u] = pc[u]
  BY <1>1, <1>4, PcSet
<1>8. \A u \in Threads \ {t} : SameArm(u)
  BY <1>4, <1>7 DEF SameArm
<1>9. \A row, v : row # InvRow(p) /\ Newest(row, v) => Newest(row, v)'
  BY <1>1, <1>4, <1>6, QueuedElsewhere
<1>10. ASSUME NEW q \in Players \ {p}
       PROVE  \A v : Newest(InvRow(q), v) => Newest(InvRow(q), v)'
  <2>1. PICK row : row = InvRow(q)
    OBVIOUS
  <2>2. \A v : Newest(row, v) => Newest(row, v)'
    BY <1>9, <2>1, RowsApart
  <2>3. QED
    BY <2>1, <2>2 DEF Newest
<1>11. Newest(InvRow(p), inv[p])'
  <2>1. PICK row, v : row = st.row /\ v = st.val
    OBVIOUS
  <2>2. LatestIn(queue', db, row, v)
    BY <1>1, <1>4, <1>6, <2>1, PushDecides
  <2>3. QED
    BY <1>4, <1>6, <2>1, <2>2 DEF Newest, LatestIs
<1>12. /\ SessionsStored'
       /\ \A q \in Players \ {p}, v \in Inventories :
            Newest(InvRow(q), v)' <=> Newest(InvRow(q), v)
  <2>1. \A q \in Players \ {p} : \E v \in Inventories : Newest(InvRow(q), v)'
    BY <1>1, <1>10, SessionRowKept DEF AInv
  <2>2. \E v \in Inventories : Newest(InvRow(p), v)'
    <3>1. PICK v \in Inventories : v = inv[p]
      BY <1>5
    <3>2. Newest(InvRow(p), v)'
      BY <1>4, <1>11, <3>1 DEF Newest
    <3>3. QED
      BY <3>2
  <2>3. SessionsStored'
    BY <2>1, <2>2 DEF SessionsStored
  <2>4. QED
    BY <1>1, <1>10, <2>3, SessionRowKept DEF AInv
<1>13. EmptyMessage' /\ Displacing'
  <2>1. EmptyMessage'
    BY <1>1, <1>4, <1>7 DEF AInv, EmptyMessage
  <2>2. DisplacedBy(t)'
    BY <1>7 DEF DisplacedBy
  <2>3. QED
    BY <1>1, <1>4, <1>8, <2>1, <2>2, OthersDisplace DEF AInv
<1>14. ASSUME OneWorld' PROVE WInv'
  <2>1. WInv
    BY <1>1, <1>4, <1>14 DEF OneWorld
  <2>2. ChestsFollow /\ SessionsFollow /\ AllConserved
    BY <2>1 DEF WInv
  <2>3. ASSUME NEW k \in Chests PROVE ChestFollows(k)'
    <3>1. PICK row : row = ChestRow(InitialSeed, k)
      OBVIOUS
    <3>2. row # InvRow(p)
      BY <3>1, RowsApart
    <3>3. \A v : Newest(row, v) => Newest(row, v)'
      BY <1>9, <3>2
    <3>4. \A v \in Inventories \cup {Absent} :
            Newest(ChestRow(InitialSeed, k), v) => Newest(ChestRow(InitialSeed, k), v)'
      BY <3>1, <3>3 DEF Newest
    <3>5. \A u \in Threads : pc[u] = "pushchest" => SameArm(u)
      BY <1>4, <1>8
    <3>6. ChestFollows(k) /\ chest'[k] = chest[k]
      BY <1>4, <2>2 DEF ChestsFollow
    <3>7. QED
      BY <1>1, <3>4, <3>5, <3>6, ChestFollowsKept
  <2>4. ASSUME NEW q \in Players PROVE SessionFollows(q)'
    <3>1. CASE q = p
      BY <1>11, <3>1 DEF SessionFollows
    <3>2. CASE q # p
      <4>1. \A u \in Threads : pc[u] = "pushinv" /\ slotmsg[u].where = q => SameArm(u)
        BY <1>2, <1>8, <3>2
      <4>2. SessionFollows(q) /\ inv'[q] = inv[q]
        BY <1>4, <2>2 DEF SessionsFollow
      <4>3. QED
        BY <1>1, <1>10, <3>2, <4>1, <4>2, SessionFollowsKept
    <3>3. QED
      BY <3>1, <3>2
  <2>5. ASSUME NEW i \in Items PROVE Conserved(i)'
    <3>1. InChests(i)' = InChests(i)
      BY <1>4 DEF InChests
    <3>2. \A q \in Players, v \in Inventories : Has(q, v)' <=> Has(q, v)
      <4>1. \A v : (Has(p, v)' <=> v = inv[p]) /\ (Has(p, v) <=> v = inv[p])
        BY <1>4, <1>5 DEF Has
      <4>2. \A q \in Players \ {p}, v \in Inventories : Has(q, v)' <=> Has(q, v)
        BY <1>4, <1>12 DEF Has
      <4>3. QED
        BY <4>1, <4>2
    <3>3. InInventories(i)' = InInventories(i)
      BY <3>2, InventoriesSame
    <3>4. t \in InMessages(i)' <=> t \in InMessages(i)
      BY <1>4, <1>7 DEF InMessages, Displaced
    <3>5. /\ \A u \in Threads \ {t} : u \in InMessages(i)' <=> u \in InMessages(i)
          /\ InMessages(i) \subseteq Threads /\ InMessages(i)' \subseteq Threads
      BY <1>8, MessageSame DEF InMessages
    <3>6. InMessages(i)' = InMessages(i)
      BY <3>4, <3>5
    <3>7. Conserved(i)
      BY <2>2 DEF AllConserved
    <3>8. QED
      BY <1>4, <3>1, <3>3, <3>6, <3>7, ConservedSame
  <2>6. OnceInEveryVersion'
    <3>1. ASSUME NEW i \in Items, NEW n \in Slots, st.val[n] = i
          PROVE  /\ i \notin lost /\ InMessages(i) = {}
                 /\ \A m \in Slots : st.val[m] = i => m = n
                 /\ \A c \in Chests, m \in Slots :
                      <<c, m>> \in InChests(i) => ChestRow(InitialSeed, c) = st.row
                 /\ \A q \in Players, m \in Slots :
                      <<q, m>> \in InInventories(i) => InvRow(q) = st.row
      <4>1. \A m \in Slots : st.val[m] = i => <<p, m>> \in InInventories(i)
        BY <1>5, <1>6, InInventoriesHas DEF Has
      <4>2. Conserved(i)
        BY <2>2 DEF AllConserved
      <4>3. PICK pn \in Players \X Slots : i \notin lost /\ InOnly(i, FALSE, {}, {}, {pn})
        BY <3>1, <4>1, <4>2 DEF Conserved, InOnly
      <4>4. pn = <<p, n>>
        BY <3>1, <4>1, <4>3 DEF InOnly
      <4>5. \A m \in Slots : st.val[m] = i => m = n
        BY <4>1, <4>3, <4>4 DEF InOnly
      <4>6. \A q \in Players, m \in Slots :
              <<q, m>> \in InInventories(i) => InvRow(q) = st.row
        BY <1>6, <4>3, <4>4 DEF InOnly
      <4>7. QED
        BY <4>3, <4>5, <4>6 DEF InOnly
    <3>2. QED
      BY <1>1, <1>4, <1>6, <2>1, <3>1, QueuedOnce
  <2>7. QED
    BY <2>3, <2>4, <2>5, <2>6 DEF WInv, ChestsFollow, SessionsFollow, AllConserved
<1>15. QED
  BY <1>12, <1>13, <1>14 DEF AInv

----------------------------------------------------------------------------
(* Starts.  Memory is what the tables hold, which is their only version.   *)

Started ==
  /\ queue = <<>> /\ db \in [Rows -> Vals \cup {Absent}]
  /\ \A r \in Rows : db[r] \in ValsOf(r) \cup {Absent}
  /\ chest = LoadedChests(db) /\ inv = [p \in Players |-> Absent]
  /\ pc = EachThread("idle")

ChestsOnDisk(i) == {kn \in Chests \X Slots :
  /\ db[ChestRow(InitialSeed, kn[1])] # Absent
  /\ db[ChestRow(InitialSeed, kn[1])][kn[2]] = i}
InvsOnDisk(i) == {pn \in Players \X Slots : LoadedInv(db, pn[1])[pn[2]] = i}

StartedInv ==
  /\ AInv /\ OverwritingLoses /\ ChestsFollow /\ SessionsFollow
  /\ \A i \in Items :
       /\ InMessages(i) = {}
       /\ InChests(i) = ChestsOnDisk(i) /\ InInventories(i) = InvsOnDisk(i)

LEMMA StartFollows == Started => StartedInv
<1> SUFFICES ASSUME Started PROVE StartedInv
  OBVIOUS
<1>1. Len(queue) = 0
  BY EmptySeq, Zenon DEF Started
<1>2. \A row, v : LatestIs(row, v) <=> db[row] = v
  BY <1>1 DEF LatestIs, LatestIn
<1>3. /\ \A t \in Threads : pc[t] = "idle"
      /\ \A p \in Players : inv[p] = Absent
      /\ \A k \in Chests : chest[k] = db[ChestRow(InitialSeed, k)]
  BY DEF Started, EachThread, LoadedChests
<1>4. ASSUME NEW p \in Players
      PROVE  /\ LoadedInv(db, p) \in Inventories
             /\ \A v \in Inventories : Newest(InvRow(p), v) <=> v = LoadedInv(db, p)
  <2>1. db[InvRow(p)] \in Inventories \cup {Absent}
    BY RowsOfTables, ValsOfTables DEF Started
  <2>2. QED
    BY <1>2, <2>1, InventoryIsThere DEF Newest, LoadedInv
<1>5. AInv
  BY <1>3, <1>4 DEF AInv, EmptyMessage, Displacing, SessionsStored
<1>6. OverwritingLoses
  BY <1>3 DEF OverwritingLoses
<1>7. ChestsFollow
  BY <1>2, <1>3 DEF ChestsFollow, ChestFollows, Newest
<1>8. SessionsFollow
  BY <1>3 DEF SessionsFollow, SessionFollows
<1>9. ASSUME NEW i \in Items
      PROVE  /\ InMessages(i) = {}
             /\ InChests(i) = ChestsOnDisk(i) /\ InInventories(i) = InvsOnDisk(i)
  <2>1. InMessages(i) = {}
    BY <1>3 DEF InMessages
  <2>2. InChests(i) = ChestsOnDisk(i)
    BY <1>3 DEF InChests, ChestsOnDisk
  <2>3. \A p \in Players, v \in Inventories : Has(p, v) <=> v = LoadedInv(db, p)
    BY <1>3, <1>4 DEF Has
  <2>4. InInventories(i) = InvsOnDisk(i)
    BY <1>4, <2>3, InInventoriesHas DEF InvsOnDisk
  <2>5. QED
    BY <2>1, <2>2, <2>4
<1>10. QED
  BY <1>5, <1>6, <1>7, <1>8, <1>9 DEF StartedInv

LEMMA StartFollowsNext == Started' => StartedInv'
BY StartFollows, PTL

(* In the version that is on disk a stack is in one place at most.         *)
LEMMA OnDiskOnce ==
  ASSUME TInv, OnceInEveryVersion, NEW i \in Items
  PROVE  \/ ChestsOnDisk(i) = {} /\ InvsOnDisk(i) = {}
         \/ \E kn \in Chests \X Slots : ChestsOnDisk(i) = {kn} /\ InvsOnDisk(i) = {}
         \/ \E pn \in Players \X Slots : ChestsOnDisk(i) = {} /\ InvsOnDisk(i) = {pn}
<1>1. 0 \in 0..Len(queue)
  BY LenProperties DEF TInv, TypeOK, SqlTypeOK
<1>2. \A row, v : Version(0, row, v) <=> db[row] = v
  BY DEF Version, Holds
<1>3. ASSUME NEW kn \in ChestsOnDisk(i)
      PROVE  /\ kn \in Chests \X Slots
             /\ ChestRow(InitialSeed, kn[1]) \in ItemRows
             /\ Held(0, ChestRow(InitialSeed, kn[1]), kn[2], i)
  <2>1. /\ kn \in Chests \X Slots /\ db[ChestRow(InitialSeed, kn[1])] # Absent
        /\ db[ChestRow(InitialSeed, kn[1])][kn[2]] = i
    BY DEF ChestsOnDisk
  <2>2. db[ChestRow(InitialSeed, kn[1])] \in Inventories
    BY <2>1, RowsOfTables, ValsOfTables, StoreAssumption DEF TInv, TypeOK, SqlTypeOK
  <2>3. QED
    BY <1>2, <2>1, <2>2, ItemRowsAreRows DEF Held
<1>4. ASSUME NEW pn \in InvsOnDisk(i)
      PROVE  /\ pn \in Players \X Slots /\ InvRow(pn[1]) \in ItemRows
             /\ Held(0, InvRow(pn[1]), pn[2], i)
  <2>1. pn \in Players \X Slots /\ LoadedInv(db, pn[1])[pn[2]] = i
    BY DEF InvsOnDisk
  <2>2. EmptyInv[pn[2]] # i
    BY <2>1, InventoryIsThere DEF EmptyInv
  <2>3. db[InvRow(pn[1])] # Absent /\ db[InvRow(pn[1])][pn[2]] = i
    BY <2>1, <2>2 DEF LoadedInv
  <2>4. db[InvRow(pn[1])] \in Inventories
    BY <2>1, <2>3, RowsOfTables, ValsOfTables DEF TInv, TypeOK, SqlTypeOK
  <2>5. QED
    BY <1>2, <2>1, <2>3, <2>4, ItemRowsAreRows DEF Held
<1>5. \A a, b \in ChestsOnDisk(i) : a = b
  <2>1. ASSUME NEW a \in ChestsOnDisk(i), NEW b \in ChestsOnDisk(i) PROVE a = b
    <3>1. ChestRow(InitialSeed, a[1]) = ChestRow(InitialSeed, b[1]) /\ a[2] = b[2]
      BY <1>1, <1>3 DEF OnceInEveryVersion
    <3>2. QED
      BY <1>3, <3>1, RowsApart
  <2>2. QED
    BY <2>1
<1>6. \A a, b \in InvsOnDisk(i) : a = b
  <2>1. ASSUME NEW a \in InvsOnDisk(i), NEW b \in InvsOnDisk(i) PROVE a = b
    <3>1. InvRow(a[1]) = InvRow(b[1]) /\ a[2] = b[2]
      BY <1>1, <1>4 DEF OnceInEveryVersion
    <3>2. QED
      BY <1>4, <3>1, RowsApart
  <2>2. QED
    BY <2>1
<1>7. \A a \in ChestsOnDisk(i), b \in InvsOnDisk(i) : FALSE
  <2>1. ASSUME NEW a \in ChestsOnDisk(i), NEW b \in InvsOnDisk(i) PROVE FALSE
    <3>1. ChestRow(InitialSeed, a[1]) = InvRow(b[1])
      BY <1>1, <1>3, <1>4 DEF OnceInEveryVersion
    <3>2. QED
      BY <3>1, RowsApart
  <2>2. QED
    BY <2>1
<1>8. QED
  BY <1>3, <1>4, <1>5, <1>6, <1>7

LEMMA ItemsOnDiskAre ==
  ASSUME NEW i \in Items
  PROVE  i \in ItemsOnDisk(db) <=> ChestsOnDisk(i) # {} \/ InvsOnDisk(i) # {}
<1>1. \A v : i \in ItemsIn(v) <=> \E n \in Slots : v[n] = i
  BY InventoryIsThere DEF ItemsIn
<1>2. i \in ItemsOnDisk(db) <=>
        \/ \E k \in Chests : /\ db[ChestRow(InitialSeed, k)] # Absent
                             /\ i \in ItemsIn(db[ChestRow(InitialSeed, k)])
        \/ \E p \in Players : i \in ItemsIn(LoadedInv(db, p))
  BY DEF ItemsOnDisk
<1>3. ChestsOnDisk(i) # {} <=>
        \E k \in Chests, n \in Slots : /\ db[ChestRow(InitialSeed, k)] # Absent
                                       /\ db[ChestRow(InitialSeed, k)][n] = i
  <2>1. ASSUME NEW kn \in ChestsOnDisk(i)
        PROVE  \E k \in Chests, n \in Slots : /\ db[ChestRow(InitialSeed, k)] # Absent
                                             /\ db[ChestRow(InitialSeed, k)][n] = i
    <3>1. /\ kn[1] \in Chests /\ kn[2] \in Slots
          /\ db[ChestRow(InitialSeed, kn[1])] # Absent
          /\ db[ChestRow(InitialSeed, kn[1])][kn[2]] = i
      BY DEF ChestsOnDisk
    <3>2. QED
      BY <3>1
  <2>2. ASSUME NEW k \in Chests, NEW n \in Slots,
               db[ChestRow(InitialSeed, k)] # Absent,
               db[ChestRow(InitialSeed, k)][n] = i
        PROVE  <<k, n>> \in ChestsOnDisk(i)
    BY <2>2 DEF ChestsOnDisk
  <2>3. QED
    BY <2>1, <2>2
<1>4. InvsOnDisk(i) # {} <=> \E p \in Players, n \in Slots : LoadedInv(db, p)[n] = i
  <2>1. ASSUME NEW pn \in InvsOnDisk(i)
        PROVE  \E p \in Players, n \in Slots : LoadedInv(db, p)[n] = i
    <3>1. pn[1] \in Players /\ pn[2] \in Slots /\ LoadedInv(db, pn[1])[pn[2]] = i
      BY DEF InvsOnDisk
    <3>2. QED
      BY <3>1
  <2>2. ASSUME NEW p \in Players, NEW n \in Slots, LoadedInv(db, p)[n] = i
        PROVE  <<p, n>> \in InvsOnDisk(i)
    BY <2>2 DEF InvsOnDisk
  <2>3. QED
    BY <2>1, <2>2
<1>5. QED
  BY <1>1, <1>2, <1>3, <1>4

LEMMA RestartConserves ==
  ASSUME CInv, TInv', Restart
  PROVE  AInv' /\ OverwritingLoses' /\ (OneWorld' => WInv')
<1>1. TInv /\ InitialSeed \in usedSeeds /\ (OneWorld => WInv)
  BY DEF CInv, SInv, BInv, FreshInv
<1>2. /\ queue' = <<>> /\ UNCHANGED <<db, usedSeeds, raced>>
      /\ hand' = {} /\ lost' = Items \ ItemsOnDisk(db)
      /\ chest' = LoadedChests(db) /\ inv' = [p \in Players |-> Absent]
      /\ pc' = EachThread("idle")
  BY DEF Restart
<1>3. Started'
  <2>1. db' \in [Rows -> Vals \cup {Absent}] /\ \A r \in Rows : db'[r] \in ValsOf(r) \cup {Absent}
    BY <1>1, <1>2 DEF TInv, TypeOK, SqlTypeOK
  <2>2. LoadedChests(db)' = LoadedChests(db)
    BY <1>2
  <2>3. EachThread("idle")' = EachThread("idle")
    BY DEF EachThread
  <2>4. QED
    BY <1>2, <2>1, <2>2, <2>3 DEF Started
<1>4. StartedInv'
  BY <1>3, StartFollowsNext
<1>5. ASSUME OneWorld' PROVE WInv'
  <2>1. OnceInEveryVersion
    BY <1>1, <1>2, <1>5 DEF OneWorld, WInv
  <2>2. OnceInEveryVersion'
    <3>1. Len(queue') = 0 /\ 0 \in 0..Len(queue)
      BY <1>1, <1>2, EmptySeq, LenProperties DEF TInv, TypeOK, SqlTypeOK
    <3>2. \A row, v : Version(0, row, v)' => Version(0, row, v)
      BY <1>2 DEF Version, Holds
    <3>3. \A m \in 0..Len(queue') : m = 0
      BY <3>1
    <3>4. QED
      BY <2>1, <3>1, <3>2, <3>3, OlderVersions
  <2>3. ASSUME NEW i \in Items PROVE Conserved(i)'
    <3>1. /\ InMessages(i)' = {}
          /\ InChests(i)' = ChestsOnDisk(i) /\ InInventories(i)' = InvsOnDisk(i)
      <4>1. ChestsOnDisk(i)' = ChestsOnDisk(i) /\ InvsOnDisk(i)' = InvsOnDisk(i)
        BY <1>2 DEF ChestsOnDisk, InvsOnDisk, LoadedInv
      <4>2. QED
        BY <1>4, <4>1 DEF StartedInv
    <3>2. i \notin hand'
          /\ (i \in lost' <=> ChestsOnDisk(i) = {} /\ InvsOnDisk(i) = {})
      BY <1>2, ItemsOnDiskAre
    <3>3. CASE ChestsOnDisk(i) = {} /\ InvsOnDisk(i) = {}
      BY <3>1, <3>2, <3>3 DEF Conserved, InOnly
    <3>4. ASSUME NEW kn \in Chests \X Slots, ChestsOnDisk(i) = {kn}, InvsOnDisk(i) = {}
          PROVE  Conserved(i)'
      BY <3>1, <3>2, <3>4 DEF Conserved, InOnly
    <3>5. ASSUME NEW pn \in Players \X Slots, ChestsOnDisk(i) = {}, InvsOnDisk(i) = {pn}
          PROVE  Conserved(i)'
      BY <3>1, <3>2, <3>5 DEF Conserved, InOnly
    <3>6. QED
      BY <1>1, <2>1, <3>3, <3>4, <3>5, OnDiskOnce
  <2>4. QED
    BY <1>4, <2>2, <2>3 DEF StartedInv, WInv, AllConserved
<1>6. QED
  BY <1>4, <1>5 DEF StartedInv

LEMMA InitConserves == Init => CInv
<1> SUFFICES ASSUME Init PROVE CInv
  OBVIOUS
<1>1. SInv /\ TInv
  BY InitBlocks, StartSaves DEF Init, SInv, BInv
<1>2. /\ \A r \in Rows : db[r] = Absent
      /\ hand = Items /\ lost = {} /\ queue = <<>>
  BY DEF Init
<1>3. StartedInv
  <2>1. Started
    BY <1>1 DEF Init, Started, TInv, TypeOK, SqlTypeOK
  <2>2. QED
    BY <2>1, StartFollows
<1>4. OnceInEveryVersion
  <2>1. Len(queue) = 0
    BY <1>2, EmptySeq, Zenon
  <2>2. \A m \in 0..Len(queue), r \in ItemRows, v \in Inventories : ~Version(m, r, v)
    BY <1>2, <2>1, ItemRowsAreRows, InventoryIsThere DEF Version, Holds
  <2>3. QED
    BY <2>2 DEF OnceInEveryVersion, Held
<1>5. ASSUME NEW i \in Items PROVE Conserved(i)
  <2>1. ChestsOnDisk(i) = {}
    BY <1>2, RowsOfTables, StoreAssumption DEF ChestsOnDisk
  <2>2. InvsOnDisk(i) = {}
    BY <1>2, RowsOfTables, InventoryIsThere DEF InvsOnDisk, LoadedInv, EmptyInv
  <2>3. QED
    BY <1>2, <1>3, <2>1, <2>2 DEF StartedInv, Conserved, InOnly
<1>6. QED
  BY <1>1, <1>3, <1>4, <1>5 DEF StartedInv, CInv, WInv, AllConserved

----------------------------------------------------------------------------
(* What is overwritten is counted as lost with the step that overwrites it.*)

SameOverwriting(t) ==
  pc'[t] \in {"pushchest", "pushinv"} =>
    pc[t] = pc'[t] /\ slotmsg'[t] = slotmsg[t] /\ wasthere'[t] = wasthere[t]

LEMMA OverwritingKept ==
  ASSUME OverwritingLoses, lost \subseteq lost', NEW t \in Threads, SameOverwriting(t),
         pc'[t] \in {"pushchest", "pushinv"}
  PROVE  Overwritten(t)' \subseteq lost'
<1>1. /\ pc[t] \in {"pushchest", "pushinv"}
      /\ slotmsg'[t] = slotmsg[t] /\ wasthere'[t] = wasthere[t]
  BY DEF SameOverwriting
<1>2. Overwritten(t)' = Overwritten(t)
  BY <1>1 DEF Overwritten
<1>3. Overwritten(t) \subseteq lost
  BY <1>1 DEF OverwritingLoses
<1>4. QED
  BY <1>2, <1>3

LEMMA NothingOverwritten ==
  ASSUME OverwritingLoses, lost \subseteq lost', \A t \in Threads : SameOverwriting(t)
  PROVE  OverwritingLoses'
BY OverwritingKept DEF OverwritingLoses

LEMMA OneThreadOverwrites ==
  ASSUME TInv, OverwritingLoses, lost \subseteq lost', NEW t \in Threads, NEW a,
         pc' = [pc EXCEPT ![t] = a], a \notin {"pushchest", "pushinv"},
         \A u \in Threads \ {t} : slotmsg'[u] = slotmsg[u] /\ wasthere'[u] = wasthere[u]
  PROVE  OverwritingLoses'
<1>1. pc'[t] = a /\ \A u \in Threads \ {t} : pc'[u] = pc[u]
  BY PcSet
<1>2. \A u \in Threads : SameOverwriting(u)
  BY <1>1 DEF SameOverwriting
<1>3. QED
  BY <1>2, NothingOverwritten

LEMMA ReceiveOverwritesNothing ==
  ASSUME TInv, OverwritingLoses, NEW t \in Threads, Receive(t)
  PROVE  OverwritingLoses'
<1>1. slotmsg \in [Threads -> SlotMsg]
  BY DEF TInv, TypeOK, ItemTypeOK
<1>2. UNCHANGED <<lost, wasthere>>
  BY DEF Receive, ReceiveBlockSet, ReceiveMultiBlockSet, ReceiveTakeoff,
     ReceiveChestSlot, ReceiveInvSlot, ReceivePlayerUpdate, ReceiveEdits, ReceiveSlot,
     itemVars
<1>3. PICK a \in {"block", "takeoff", "chest", "inv", "player"} :
        /\ pc' = [pc EXCEPT ![t] = a]
        /\ \A u \in Threads \ {t} : slotmsg'[u] = slotmsg[u]
  <2>1. CASE ReceiveBlockSet(t) \/ ReceiveMultiBlockSet(t) \/ ReceiveTakeoff(t)
    BY <2>1 DEF ReceiveBlockSet, ReceiveMultiBlockSet, ReceiveTakeoff, ReceiveEdits,
       Handle, itemVars
  <2>2. CASE ReceiveChestSlot(t) \/ ReceiveInvSlot(t)
    BY <1>1, <2>2 DEF ReceiveChestSlot, ReceiveInvSlot, ReceiveSlot, Handle
  <2>3. CASE ReceivePlayerUpdate(t)
    BY <1>1, <2>3 DEF ReceivePlayerUpdate, Handle
  <2>4. QED
    BY <2>1, <2>2, <2>3 DEF Receive
<1>4. QED
  BY <1>2, <1>3, OneThreadOverwrites

LEMMA BlockStepsOverwriteNothing ==
  ASSUME TInv, OverwritingLoses, NEW t \in Threads,
         \/ BeginEdit(t) \/ SetBlock(t) \/ PushBlock(t) \/ BeginTakeoff(t)
         \/ SaveBlock(t) \/ EndTakeoff(t) \/ TakeoffPanics(t) \/ CountPosition(t)
  PROVE  OverwritingLoses'
<1>1. UNCHANGED <<lost, slotmsg, wasthere>>
  BY DEF BeginEdit, SetBlock, PushBlock, BeginTakeoff, SaveBlock, EndTakeoff,
     TakeoffPanics, CountPosition, itemVars
<1>2. \/ UNCHANGED pc
      \/ \E a \in {"edit", "save", "idle", "dead"} : pc' = [pc EXCEPT ![t] = a]
  <2>1. CASE BeginEdit(t) \/ SetBlock(t) \/ PushBlock(t) \/ CountPosition(t)
    BY <2>1 DEF BeginEdit, SetBlock, PushBlock, CountPosition
  <2>2. CASE BeginTakeoff(t) \/ SaveBlock(t) \/ EndTakeoff(t) \/ TakeoffPanics(t)
    BY <2>2 DEF BeginTakeoff, SaveBlock, EndTakeoff, TakeoffPanics
  <2>3. QED
    BY <2>1, <2>2
<1>3. CASE UNCHANGED pc
  BY <1>1, <1>3, NothingOverwritten DEF SameOverwriting
<1>4. QED
  BY <1>1, <1>2, <1>3, OneThreadOverwrites

LEMMA SlotStepsOverwriteNothing ==
  ASSUME TInv, OverwritingLoses, NEW t \in Threads,
         \/ ReadChest(t) \/ PushChest(t) \/ ReadInv(t) \/ PushInv(t) \/ Reply(t)
         \/ Panics(t, "inv") \/ Panics(t, "player")
  PROVE  OverwritingLoses'
<1>1. wasthere \in [Threads -> Items \cup {Empty}]
  BY DEF TInv, TypeOK, ItemTypeOK
<1>2. /\ lost \subseteq lost' /\ UNCHANGED slotmsg
      /\ \A u \in Threads \ {t} : wasthere'[u] = wasthere[u]
  <2>1. CASE ReadChest(t) \/ PushChest(t) \/ ReadInv(t) \/ PushInv(t)
    BY <1>1, <2>1 DEF ReadChest, PushChest, ReadInv, PushInv, itemVars
  <2>2. CASE Reply(t) \/ Panics(t, "inv") \/ Panics(t, "player")
    BY <1>1, <2>2 DEF Reply, Panics
  <2>3. QED
    BY <2>1, <2>2
<1>3. PICK a \in {"setchest", "setinv", "reply", "idle", "dead"} : pc' = [pc EXCEPT ![t] = a]
  <2>1. CASE ReadChest(t) \/ PushChest(t) \/ ReadInv(t) \/ PushInv(t)
    BY <2>1 DEF ReadChest, PushChest, ReadInv, PushInv
  <2>2. CASE Reply(t) \/ Panics(t, "inv") \/ Panics(t, "player")
    BY <2>2 DEF Reply, Panics
  <2>3. QED
    BY <2>1, <2>2
<1>4. QED
  BY <1>2, <1>3, OneThreadOverwrites

LEMMA WritesLoseTheOverwritten ==
  ASSUME TInv, OverwritingLoses, NEW t \in Threads, WriteChest(t) \/ WriteInv(t)
  PROVE  OverwritingLoses'
<1>1. /\ lost' = lost \cup Overwritten(t) /\ UNCHANGED <<slotmsg, wasthere>>
      /\ \E a : pc' = [pc EXCEPT ![t] = a]
  BY DEF WriteChest, WriteInv
<1>2. \A u \in Threads \ {t} : pc'[u] = pc[u]
  BY <1>1, PcSet
<1>3. Overwritten(t)' = Overwritten(t)
  BY <1>1 DEF Overwritten
<1>4. ASSUME NEW u \in Threads, pc'[u] \in {"pushchest", "pushinv"}
      PROVE  Overwritten(u)' \subseteq lost'
  <2>1. CASE u = t
    BY <1>1, <1>3, <2>1
  <2>2. CASE u # t
    <3>1. SameOverwriting(u) /\ lost \subseteq lost'
      BY <1>1, <1>2, <2>2 DEF SameOverwriting
    <3>2. QED
      BY <1>4, <3>1, OverwritingKept
  <2>3. QED
    BY <2>1, <2>2
<1>5. QED
  BY <1>4 DEF OverwritingLoses

LEMMA OtherStepsOverwriteNothing ==
  ASSUME TInv, OverwritingLoses, Sessions \/ SqlStep \/ UNCHANGED vars
  PROVE  OverwritingLoses'
<1>1. UNCHANGED <<lost, slotmsg, wasthere, pc>>
  BY DEF Sessions, LoadInv, InsertSession, RemoveSession, SqlStep, SqlPop, SqlCommit,
     WriteRow, SqlRetry, SqlPanic, vars, worldVars, itemVars
<1>2. QED
  BY <1>1, NothingOverwritten DEF SameOverwriting

LEMMA ThreadsConserve ==
  ASSUME CInv, TInv', NEW t \in Threads, Receive(t) \/ Work(t) \/ TakeoffPanics(t)
  PROVE  AInv' /\ OverwritingLoses' /\ (OneWorld' => WInv')
<1>1. TInv /\ OverwritingLoses
  BY DEF CInv, SInv, BInv
<1>2. OverwritingLoses'
  BY <1>1, ReceiveOverwritesNothing, BlockStepsOverwriteNothing,
     SlotStepsOverwriteNothing, WritesLoseTheOverwritten DEF Work
<1>3. CASE Receive(t)
  <2>1. ASSUME NEW k, ReceiveSlot(t, "ChestSlot", "chest", k)
        PROVE  AInv' /\ (OneWorld' => WInv')
    BY <2>1, ReceiveSlotMoves
  <2>2. ASSUME NEW p, ReceiveSlot(t, "InvSlot", "inv", p)
        PROVE  AInv' /\ (OneWorld' => WInv')
    BY <2>2, ReceiveSlotMoves
  <2>3. QED
    BY <1>2, <1>3, <2>1, <2>2, MessagesMoveNothing
       DEF Receive, ReceiveChestSlot, ReceiveInvSlot
<1>4. CASE Work(t) \/ TakeoffPanics(t)
  BY <1>2, <1>4, BlocksMoveNothing, MessagesMoveNothing, ReadChestMovesNothing,
     ReadInvMovesNothing, ReplyMoves, PanicsLoses, WriteChestMoves, WriteInvMoves,
     PushChestMovesNothing, PushInvMovesNothing DEF Work
<1>5. QED
  BY <1>3, <1>4

LEMMA StepConserves == CInv /\ [Next]_vars => CInv'
<1> SUFFICES ASSUME CInv, [Next]_vars PROVE CInv'
  OBVIOUS
<1>1. TInv /\ OverwritingLoses /\ SInv'
  BY StepSaves DEF CInv, SInv, BInv
<1>2. TInv'
  BY <1>1 DEF SInv, BInv
<1>3. CASE Sessions \/ SqlStep \/ UNCHANGED vars
  BY <1>1, <1>2, <1>3, OtherStepsOverwriteNothing, SqlMovesNothing,
     InsertAndRemoveMoveNothing DEF Sessions, CInv
<1>4. CASE Restart
  BY <1>1, <1>2, <1>4, RestartConserves DEF CInv
<1>5. CASE \E t \in Threads : Receive(t) \/ Work(t) \/ TakeoffPanics(t)
  BY <1>1, <1>2, <1>5, ThreadsConserve DEF CInv
<1>6. QED
  BY <1>3, <1>4, <1>5 DEF Next

LEMMA ConservedInductively == Spec => []CInv
BY InitConserves, StepConserves, PTL DEF Spec

----------------------------------------------------------------------------
(* Counting: at most one place holds the stack.                            *)

LEMMA ConservedMeansOneCopy ==
  ASSUME NEW i, Conserved(i)
  PROVE  Copies(i) = IF i \in lost THEN 0 ELSE 1
<1>1. Cardinality({}) = 0
  BY FS_EmptySet
<1>2. \A x : Cardinality({x}) = 1
  BY FS_Singleton
<1>3. CASE i \in lost
  <2>1. /\ i \notin hand
        /\ InMessages(i) = {} /\ InChests(i) = {} /\ InInventories(i) = {}
    BY <1>3 DEF Conserved, InOnly
  <2>2. QED
    BY <1>1, <1>3, <2>1 DEF Copies
<1>4. CASE i \notin lost
  <2>1. CASE InOnly(i, TRUE, {}, {}, {})
    BY <1>1, <1>4, <2>1 DEF Copies, InOnly
  <2>2. ASSUME NEW t, InOnly(i, FALSE, {t}, {}, {})
        PROVE  Copies(i) = 1
    <3>1. /\ Cardinality(InMessages(i)) = 1
          /\ Cardinality(InChests(i)) = 0
          /\ Cardinality(InInventories(i)) = 0
          /\ i \notin hand
      BY <1>1, <1>2, <2>2 DEF InOnly
    <3>2. QED
      BY <3>1 DEF Copies
  <2>3. ASSUME NEW kn, InOnly(i, FALSE, {}, {kn}, {})
        PROVE  Copies(i) = 1
    <3>1. /\ Cardinality(InMessages(i)) = 0
          /\ Cardinality(InChests(i)) = 1
          /\ Cardinality(InInventories(i)) = 0
          /\ i \notin hand
      BY <1>1, <1>2, <2>3 DEF InOnly
    <3>2. QED
      BY <3>1 DEF Copies
  <2>4. ASSUME NEW pn, InOnly(i, FALSE, {}, {}, {pn})
        PROVE  Copies(i) = 1
    <3>1. /\ Cardinality(InMessages(i)) = 0
          /\ Cardinality(InChests(i)) = 0
          /\ Cardinality(InInventories(i)) = 1
          /\ i \notin hand
      BY <1>1, <1>2, <2>4 DEF InOnly
    <3>2. QED
      BY <3>1 DEF Copies
  <2>5. QED
    BY <1>4, <2>1, <2>2, <2>3, <2>4 DEF Conserved
<1>5. QED
  BY <1>3, <1>4

LEMMA StacksAreConserved == ASSUME CInv PROVE ItemsConserved
<1>1. OneWorld => AllConserved
  BY DEF CInv, WInv
<1>2. QED
  BY <1>1, ConservedMeansOneCopy DEF AllConserved, OneWorld, ItemsConserved

LEMMA StacksOnDiskOnce == ASSUME CInv PROVE DiskNeverDuplicates
<1>1. TInv /\ (OneWorld => OnceInEveryVersion)
  BY DEF CInv, SInv, BInv, WInv
<1>2. Cardinality({}) = 0 /\ \A x : Cardinality({x}) = 1
  BY FS_EmptySet, FS_Singleton
<1>3. ASSUME OneWorld, NEW i \in Items PROVE OnDisk(i) <= 1
  <2>1. OnDisk(i) = Cardinality(ChestsOnDisk(i)) + Cardinality(InvsOnDisk(i))
    BY DEF OnDisk, ChestsOnDisk, InvsOnDisk
  <2>2. CASE ChestsOnDisk(i) = {} /\ InvsOnDisk(i) = {}
    BY <1>2, <2>1, <2>2
  <2>3. ASSUME NEW kn, ChestsOnDisk(i) = {kn}, InvsOnDisk(i) = {} PROVE OnDisk(i) <= 1
    <3>1. Cardinality(ChestsOnDisk(i)) = 1 /\ Cardinality(InvsOnDisk(i)) = 0
      BY <1>2, <2>3
    <3>2. QED
      BY <2>1, <3>1
  <2>4. ASSUME NEW pn, ChestsOnDisk(i) = {}, InvsOnDisk(i) = {pn} PROVE OnDisk(i) <= 1
    <3>1. Cardinality(ChestsOnDisk(i)) = 0 /\ Cardinality(InvsOnDisk(i)) = 1
      BY <1>2, <2>4
    <3>2. QED
      BY <2>1, <3>1
  <2>5. \/ ChestsOnDisk(i) = {} /\ InvsOnDisk(i) = {}
        \/ \E kn \in Chests \X Slots : ChestsOnDisk(i) = {kn} /\ InvsOnDisk(i) = {}
        \/ \E pn \in Players \X Slots : ChestsOnDisk(i) = {} /\ InvsOnDisk(i) = {pn}
    BY <1>1, <1>3, OnDiskOnce
  <2>6. QED
    BY <2>2, <2>3, <2>4, <2>5
<1>4. QED
  BY <1>3 DEF OneWorld, DiskNeverDuplicates

(* Players who exchange stacks with the same chests and inventories at the *)
(* same time, under the entry lock of the chest and the clients mutex of   *)
(* handle_client, lose and double none: each stack is in exactly one place,*)
(* or was overwritten by an update that asked for nothing back, or went    *)
(* with a crash.  A session opened on an outdated inventory and a take-off *)
(* are the only two ways out.                                              *)
THEOREM StacksAlwaysConserved == Spec => []ItemsConserved
<1>1. CInv => ItemsConserved
  BY StacksAreConserved
<1>2. QED
  BY <1>1, ConservedInductively, PTL

(* Wherever the SQL thread is in its queue, and so wherever a crash finds  *)
(* it, the database holds no stack twice: a stack leaves its old row before*)
(* it is in its new one.                                                   *)
THEOREM DiskNeverHasAStackTwice == Spec => []DiskNeverDuplicates
<1>1. CInv => DiskNeverDuplicates
  BY StacksOnDiskOnce
<1>2. QED
  BY <1>1, ConservedInductively, PTL

----------------------------------------------------------------------------
(* The store keeps its promise.  Every step of the server adds a version   *)
(* of the tables at the end, takes the oldest one away, repeats one, or    *)
(* leaves them alone.  What follows says how the rows still to be written  *)
(* make the versions, and then what each step does to those rows.          *)

LEMMA HoldsOnce ==
  ASSUME NEW q, NEW d, NEW m \in Nat, NEW row, NEW v, NEW w,
         Holds(q, d, m, row, v), Holds(q, d, m, row, w)
  PROVE  v = w
<1>1. CASE \A i \in 1..m : q[i].row # row
  BY <1>1 DEF Holds
<1>2. ASSUME NEW i \in 1..m, q[i].row = row, q[i].val = v,
             \A j \in 1..m : j > i => q[j].row # row
      PROVE  v = w
  <2>1. PICK j \in 1..m : /\ q[j].row = row /\ q[j].val = w
                          /\ \A l \in 1..m : l > j => q[l].row # row
    BY <1>2 DEF Holds
  <2>2. ~(i > j) /\ ~(j > i)
    BY <1>2, <2>1
  <2>3. i = j
    BY <2>2
  <2>4. QED
    BY <1>2, <2>1, <2>3
<1>3. QED
  BY <1>1, <1>2 DEF Holds

LEMMA TheElement == ASSUME NEW x PROVE ElementOf({x}) = x
BY DEF ElementOf

LEMMA TableHolds ==
  ASSUME NEW q, NEW d, NEW m \in Nat, NEW sd \in Seeds, NEW s \in Spots,
         NEW v \in Blocks \cup {Absent}, Holds(q, d, m, UdmRow(sd, s), v)
  PROVE  TablesAfter(q, d, m)[<<sd, s>>] = v
<1>1. {w \in Blocks \cup {Absent} : Holds(q, d, m, UdmRow(sd, s), w)} = {v}
  BY HoldsOnce
<1>2. TablesAfter(q, d, m)[<<sd, s>>] =
        ElementOf({w \in Blocks \cup {Absent} : Holds(q, d, m, UdmRow(sd, s), w)})
  BY DEF TablesAfter
<1>3. QED
  BY <1>1, <1>2, TheElement

(* The same rows and values make the same tables, and the same but for one *)
(* make the same but for one.                                              *)
LEMMA SameButOne ==
  ASSUME NEW q, NEW d, NEW m \in Nat, NEW q2, NEW d2, NEW m2 \in Nat,
         NEW sd \in Seeds, NEW s \in Spots, NEW b \in Blocks \cup {Absent},
         Holds(q2, d2, m2, UdmRow(sd, s), b),
         \A se \in Seeds, z \in Spots : \A v :
           UdmRow(se, z) # UdmRow(sd, s) =>
             (Holds(q2, d2, m2, UdmRow(se, z), v) <=> Holds(q, d, m, UdmRow(se, z), v))
  PROVE  TablesAfter(q2, d2, m2) = [TablesAfter(q, d, m) EXCEPT ![<<sd, s>>] = b]
<1> DEFINE S(r) == {v \in Blocks \cup {Absent} : Holds(q, d, m, UdmRow(r[1], r[2]), v)}
           T(r) == {v \in Blocks \cup {Absent} : Holds(q2, d2, m2, UdmRow(r[1], r[2]), v)}
<1>1. TablesAfter(q, d, m) = [r \in Seeds \X Spots |-> ElementOf(S(r))]
  BY DEF TablesAfter
<1>2. TablesAfter(q2, d2, m2) = [r \in Seeds \X Spots |-> ElementOf(T(r))]
  BY DEF TablesAfter
<1>3. ASSUME NEW r \in Seeds \X Spots, r # <<sd, s>>
      PROVE  T(r) = S(r)
  <2>1. r = <<r[1], r[2]>> /\ r[1] \in Seeds /\ r[2] \in Spots
    OBVIOUS
  <2>2. UdmRow(r[1], r[2]) # UdmRow(sd, s)
    <3>1. ~(r[1] = sd /\ r[2] = s)
      BY <1>3, <2>1
    <3>2. QED
      BY <3>1 DEF UdmRow
  <2>3. \A v : Holds(q2, d2, m2, UdmRow(r[1], r[2]), v)
                 <=> Holds(q, d, m, UdmRow(r[1], r[2]), v)
    BY <2>1, <2>2
  <2>4. QED
    BY <2>3
<1>4. ElementOf(T(<<sd, s>>)) = b
  <2>1. TablesAfter(q2, d2, m2)[<<sd, s>>] = b
    BY TableHolds
  <2>2. <<sd, s>> \in Seeds \X Spots
    OBVIOUS
  <2> HIDE DEF T
  <2>3. QED
    BY <1>2, <2>1, <2>2
<1>5. PICK f : f = TablesAfter(q, d, m)
  OBVIOUS
<1>6. PICK g : g = TablesAfter(q2, d2, m2)
  OBVIOUS
<1>7. \A r \in Seeds \X Spots : g[r] = IF r = <<sd, s>> THEN b ELSE f[r]
  <2> HIDE DEF S, T
  <2>1. \A r \in Seeds \X Spots : f[r] = ElementOf(S(r)) /\ g[r] = ElementOf(T(r))
    BY <1>1, <1>2, <1>5, <1>6
  <2>2. QED
    BY <1>3, <1>4, <2>1
<1>8. /\ f = [r \in Seeds \X Spots |-> f[r]]
      /\ g = [r \in Seeds \X Spots |-> g[r]]
  BY <1>5, <1>6 DEF TablesAfter
<1>9. QED
  BY <1>5, <1>6, <1>7, <1>8

LEMMA SameTable ==
  ASSUME NEW q, NEW d, NEW m \in Nat, NEW q2, NEW d2, NEW m2 \in Nat,
         \A se \in Seeds, z \in Spots : \A v :
           Holds(q2, d2, m2, UdmRow(se, z), v) <=> Holds(q, d, m, UdmRow(se, z), v)
  PROVE  TablesAfter(q2, d2, m2) = TablesAfter(q, d, m)
<1> DEFINE S(r) == {v \in Blocks \cup {Absent} : Holds(q, d, m, UdmRow(r[1], r[2]), v)}
           T(r) == {v \in Blocks \cup {Absent} : Holds(q2, d2, m2, UdmRow(r[1], r[2]), v)}
<1>1. TablesAfter(q, d, m) = [r \in Seeds \X Spots |-> ElementOf(S(r))]
  BY DEF TablesAfter
<1>2. TablesAfter(q2, d2, m2) = [r \in Seeds \X Spots |-> ElementOf(T(r))]
  BY DEF TablesAfter
<1>3. \A r \in Seeds \X Spots : T(r) = S(r)
  OBVIOUS
<1> HIDE DEF S, T
<1>4. QED
  BY <1>1, <1>2, <1>3

(* What the rows hold, row by row.                                         *)
LEMMA HoldsPrefix ==
  ASSUME NEW q, NEW q2, NEW d, NEW m \in Nat, \A i \in 1..m : q2[i] = q[i]
  PROVE  \A row, v : Holds(q2, d, m, row, v) <=> Holds(q, d, m, row, v)
BY DEF Holds

LEMMA HoldsLast ==
  ASSUME NEW q, NEW d, NEW m \in Nat, NEW st, q[m + 1] = st
  PROVE  /\ Holds(q, d, m + 1, st.row, st.val)
         /\ \A row, v : row # st.row =>
              (Holds(q, d, m + 1, row, v) <=> Holds(q, d, m, row, v))
<1>1. m + 1 \in 1..(m + 1) /\ \A j \in 1..(m + 1) : ~(j > m + 1)
  OBVIOUS
<1>2. Holds(q, d, m + 1, st.row, st.val)
  BY <1>1 DEF Holds
<1>3. ASSUME NEW row, NEW v, row # st.row
      PROVE  Holds(q, d, m + 1, row, v) <=> Holds(q, d, m, row, v)
  <2>1. \A i \in 1..(m + 1) : i \in 1..m \/ i = m + 1
    OBVIOUS
  <2>2. \A i \in 1..m : i \in 1..(m + 1)
    OBVIOUS
  <2>3. q[m + 1].row # row
    BY <1>3
  <2>4. (\A i \in 1..(m + 1) : q[i].row # row) <=> (\A i \in 1..m : q[i].row # row)
    BY <2>1, <2>2, <2>3
  <2>5. ASSUME NEW i \in 1..m
        PROVE  (\A j \in 1..(m + 1) : j > i => q[j].row # row)
               <=> (\A j \in 1..m : j > i => q[j].row # row)
    BY <2>1, <2>2, <2>3
  <2>6. QED
    BY <2>1, <2>2, <2>3, <2>4, <2>5 DEF Holds
<1>4. QED
  BY <1>2, <1>3

(* A row put in at k + 1 counts for itself alone.                          *)
LEMMA HoldsInserted ==
  ASSUME NEW q, NEW q2, NEW d, NEW k \in Nat, NEW m \in Nat, k <= m,
         \A i \in 1..k : q2[i] = q[i],
         \A i \in (k + 1)..m : q2[i + 1] = q[i],
         NEW row, NEW v, q2[k + 1].row # row
  PROVE  Holds(q2, d, m + 1, row, v) <=> Holds(q, d, m, row, v)
<1>1. \A j \in 1..(m + 1) : j \in 1..k \/ j = k + 1 \/ j - 1 \in (k + 1)..m
  OBVIOUS
<1>2. \A j \in 1..m : j \in 1..k \/ j \in (k + 1)..m
  OBVIOUS
<1>3. \A j \in (k + 2)..(m + 1) : j - 1 \in (k + 1)..m /\ (j - 1) + 1 = j
  OBVIOUS
<1>4. \A j \in (k + 2)..(m + 1) : q2[j] = q[j - 1]
  BY <1>3
<1>5. (\A i \in 1..(m + 1) : q2[i].row # row) <=> (\A i \in 1..m : q[i].row # row)
  <2>1. ASSUME \A i \in 1..(m + 1) : q2[i].row # row, NEW i \in 1..m
        PROVE  q[i].row # row
    <3>1. CASE i \in 1..k
      BY <2>1, <3>1
    <3>2. CASE i \in (k + 1)..m
      <4>1. i + 1 \in 1..(m + 1) /\ q2[i + 1] = q[i]
        BY <3>2
      <4>2. QED
        BY <2>1, <4>1
    <3>3. QED
      BY <1>2, <3>1, <3>2
  <2>2. ASSUME \A i \in 1..m : q[i].row # row, NEW i \in 1..(m + 1)
        PROVE  q2[i].row # row
    <3>1. CASE i \in 1..k
      BY <2>2, <3>1
    <3>2. CASE i \in (k + 2)..(m + 1)
      BY <1>4, <2>2, <3>2
    <3>3. QED
      BY <3>1, <3>2
  <2>3. QED
    BY <2>1, <2>2
<1>6. ASSUME NEW i \in 1..(m + 1), q2[i].row = row, q2[i].val = v,
             \A j \in 1..(m + 1) : j > i => q2[j].row # row
      PROVE  Holds(q, d, m, row, v)
  <2>1. CASE i \in 1..k
    <3>1. ASSUME NEW j \in 1..m, j > i PROVE q[j].row # row
      <4>1. CASE j \in 1..k
        BY <1>6, <3>1, <4>1
      <4>2. CASE j \in (k + 1)..m
        <5>1. j + 1 \in 1..(m + 1) /\ j + 1 > i /\ q2[j + 1] = q[j]
          BY <3>1, <4>2
        <5>2. QED
          BY <1>6, <5>1
      <4>3. QED
        BY <1>2, <4>1, <4>2
    <3>2. i \in 1..m /\ q[i] = q2[i]
      BY <2>1
    <3>3. QED
      BY <1>6, <3>1, <3>2 DEF Holds
  <2>2. CASE i \in (k + 2)..(m + 1)
    <3>1. i - 1 \in 1..m /\ q[i - 1] = q2[i]
      BY <1>4, <2>2
    <3>2. ASSUME NEW j \in 1..m, j > i - 1 PROVE q[j].row # row
      <4>1. j \in (k + 1)..m /\ j + 1 \in 1..(m + 1) /\ j + 1 > i
        BY <2>2, <3>2
      <4>2. q2[j + 1] = q[j]
        BY <4>1
      <4>3. QED
        BY <1>6, <4>1, <4>2
    <3>3. QED
      BY <1>6, <3>1, <3>2 DEF Holds
  <2>3. QED
    BY <1>6, <2>1, <2>2
<1>7. ASSUME NEW i \in 1..m, q[i].row = row, q[i].val = v,
             \A j \in 1..m : j > i => q[j].row # row
      PROVE  Holds(q2, d, m + 1, row, v)
  <2>1. CASE i \in 1..k
    <3>1. ASSUME NEW j \in 1..(m + 1), j > i PROVE q2[j].row # row
      <4>1. CASE j \in 1..k
        BY <1>7, <3>1, <4>1
      <4>2. CASE j \in (k + 2)..(m + 1)
        <5>1. j - 1 \in 1..m /\ j - 1 > i /\ q2[j] = q[j - 1]
          BY <1>4, <2>1, <4>2
        <5>2. QED
          BY <1>7, <5>1
      <4>3. QED
        BY <4>1, <4>2
    <3>2. i \in 1..(m + 1) /\ q[i] = q2[i]
      BY <2>1
    <3>3. QED
      BY <1>7, <3>1, <3>2 DEF Holds
  <2>2. CASE i \in (k + 1)..m
    <3>1. i + 1 \in 1..(m + 1) /\ q2[i + 1] = q[i]
      BY <2>2
    <3>2. ASSUME NEW j \in 1..(m + 1), j > i + 1 PROVE q2[j].row # row
      <4>1. j \in (k + 2)..(m + 1) /\ j - 1 \in 1..m /\ j - 1 > i
        BY <2>2, <3>2
      <4>2. q2[j] = q[j - 1]
        BY <1>4, <4>1
      <4>3. QED
        BY <1>7, <4>1, <4>2
    <3>3. QED
      BY <1>7, <3>1, <3>2 DEF Holds
  <2>3. QED
    BY <1>2, <2>1, <2>2
<1>8. QED
  BY <1>5, <1>6, <1>7 DEF Holds

(* Writing the first row takes it off the queue and into the table.        *)
LEMMA HoldsWritten ==
  ASSUME NEW q, NEW q2, NEW d, NEW e, NEW m \in Nat, NEW row, NEW v,
         \A i \in 1..m : q2[i] = q[i + 1],
         q[1].row = row => e[row] = q[1].val,
         q[1].row # row => e[row] = d[row]
  PROVE  Holds(q2, e, m, row, v) <=> Holds(q, d, m + 1, row, v)
<1>1. \A j \in 2..(m + 1) : j - 1 \in 1..m /\ (j - 1) + 1 = j
  OBVIOUS
<1>2. \A j \in 2..(m + 1) : q[j] = q2[j - 1]
  BY <1>1
<1>3. \A j \in 1..(m + 1) : j = 1 \/ j \in 2..(m + 1)
  OBVIOUS
<1>4. 1 \in 1..(m + 1)
  OBVIOUS
<1>5. (\A j \in 2..(m + 1) : q[j].row # row) <=> (\A i \in 1..m : q2[i].row # row)
  <2>1. ASSUME \A j \in 2..(m + 1) : q[j].row # row, NEW i \in 1..m
        PROVE  q2[i].row # row
    <3>1. i + 1 \in 2..(m + 1) /\ q2[i] = q[i + 1]
      OBVIOUS
    <3>2. QED
      BY <2>1, <3>1
  <2>2. ASSUME \A i \in 1..m : q2[i].row # row, NEW j \in 2..(m + 1)
        PROVE  q[j].row # row
    BY <1>1, <1>2, <2>2
  <2>3. QED
    BY <2>1, <2>2
<1>6. ASSUME NEW i \in 1..m, q2[i].row = row, q2[i].val = v,
             \A j \in 1..m : j > i => q2[j].row # row
      PROVE  Holds(q, d, m + 1, row, v)
  <2>1. i + 1 \in 1..(m + 1) /\ q[i + 1] = q2[i]
    OBVIOUS
  <2>2. ASSUME NEW j \in 1..(m + 1), j > i + 1 PROVE q[j].row # row
    <3>1. j \in 2..(m + 1) /\ j - 1 \in 1..m /\ j - 1 > i
      BY <2>2
    <3>2. QED
      BY <1>2, <1>6, <3>1
  <2>3. QED
    BY <1>6, <2>1, <2>2 DEF Holds
<1>7. ASSUME NEW i \in 2..(m + 1), q[i].row = row, q[i].val = v,
             \A j \in 1..(m + 1) : j > i => q[j].row # row
      PROVE  Holds(q2, e, m, row, v)
  <2>1. i - 1 \in 1..m /\ q2[i - 1] = q[i]
    BY <1>1, <1>2
  <2>2. ASSUME NEW j \in 1..m, j > i - 1 PROVE q2[j].row # row
    <3>1. j + 1 \in 1..(m + 1) /\ j + 1 > i /\ q2[j] = q[j + 1]
      BY <2>2
    <3>2. QED
      BY <1>7, <3>1
  <2>3. QED
    BY <1>7, <2>1, <2>2 DEF Holds
<1>8. ASSUME \A i \in 1..m : q2[i].row # row, e[row] = v
      PROVE  Holds(q, d, m + 1, row, v)
  <2>1. \A j \in 2..(m + 1) : q[j].row # row
    BY <1>5, <1>8
  <2>2. CASE q[1].row = row
    <3>1. q[1].val = v /\ \A j \in 1..(m + 1) : j > 1 => q[j].row # row
      BY <1>3, <1>8, <2>1, <2>2
    <3>2. QED
      BY <1>4, <2>2, <3>1 DEF Holds
  <2>3. CASE q[1].row # row
    BY <1>3, <1>8, <2>1, <2>3 DEF Holds
  <2>4. QED
    BY <2>2, <2>3
<1>9. ASSUME q[1].row = row, q[1].val = v, \A j \in 1..(m + 1) : j > 1 => q[j].row # row
      PROVE  Holds(q2, e, m, row, v)
  <2>1. \A j \in 2..(m + 1) : q[j].row # row
    BY <1>9
  <2>2. QED
    BY <1>5, <1>9, <2>1 DEF Holds
<1>10. ASSUME \A j \in 1..(m + 1) : q[j].row # row, d[row] = v
       PROVE  Holds(q2, e, m, row, v)
  <2>1. \A j \in 2..(m + 1) : q[j].row # row
    BY <1>10
  <2>2. QED
    BY <1>4, <1>5, <1>10, <2>1 DEF Holds
<1>11. QED
  BY <1>3, <1>6, <1>7, <1>8, <1>9, <1>10 DEF Holds

----------------------------------------------------------------------------
(* The versions, when the rows still to be written change.                 *)

Tabs == [Seeds \X Spots -> {ElementOf(S) : S \in SUBSET (Blocks \cup {Absent})}]

LEMMA TablesAreTabs ==
  ASSUME NEW q, NEW d, NEW m PROVE TablesAfter(q, d, m) \in Tabs
<1>1. ASSUME NEW r \in Seeds \X Spots
      PROVE  ElementOf({v \in Blocks \cup {Absent} : Holds(q, d, m, UdmRow(r[1], r[2]), v)})
               \in {ElementOf(S) : S \in SUBSET (Blocks \cup {Absent})}
  <2>1. {v \in Blocks \cup {Absent} : Holds(q, d, m, UdmRow(r[1], r[2]), v)}
           \in SUBSET (Blocks \cup {Absent})
    OBVIOUS
  <2>2. QED
    BY <2>1
<1>2. QED
  BY <1>1 DEF TablesAfter, Tabs

LEMMA VersionsAre ==
  ASSUME NEW q \in Seq(Stmt), NEW d
  PROVE  /\ VersionsOf(q, d) \in Seq(Tabs)
         /\ Len(VersionsOf(q, d)) = Len(q) + 1 /\ Len(q) \in Nat
         /\ \A n \in 1..(Len(q) + 1) : VersionsOf(q, d)[n] = TablesAfter(q, d, n - 1)
<1>1. PICK len \in Nat : len = Len(q)
  BY LenProperties
<1>2. PICK f : f = VersionsOf(q, d)
  OBVIOUS
<1>3. f = [n \in 1..(len + 1) |-> TablesAfter(q, d, n - 1)]
  BY <1>1, <1>2 DEF VersionsOf
<1>4. f \in [1..(len + 1) -> Tabs] /\ len + 1 \in Nat
  BY <1>3, TablesAreTabs
<1>5. f \in Seq(Tabs)
  BY <1>4, SeqDef
<1>6. Len(f) = len + 1
  <2>1. DOMAIN f = 1..(len + 1) /\ DOMAIN f = 1..Len(f) /\ Len(f) \in Nat
    BY <1>3, <1>5, LenProperties
  <2>2. QED
    BY <2>1
<1>7. QED
  BY <1>1, <1>2, <1>3, <1>5, <1>6

LEMMA VersionAppended ==
  ASSUME NEW q \in Seq(Stmt), NEW q2 \in Seq(Stmt), NEW d,
         NEW sd \in Seeds, NEW s \in Spots, NEW b \in Blocks,
         Len(q2) = Len(q) + 1, \A i \in 1..Len(q) : q2[i] = q[i],
         q2[Len(q) + 1] = [row |-> UdmRow(sd, s), val |-> b],
         NEW vs, vs = VersionsOf(q, d)
  PROVE  VersionsOf(q2, d) = Append(vs, [vs[Len(vs)] EXCEPT ![<<sd, s>>] = b])
<1>1. PICK len \in Nat : len = Len(q)
  BY LenProperties
<1>2. PICK w : w = VersionsOf(q2, d)
  OBVIOUS
<1>3. /\ vs \in Seq(Tabs) /\ Len(vs) = len + 1
      /\ \A n \in 1..(len + 1) : vs[n] = TablesAfter(q, d, n - 1)
  BY <1>1, VersionsAre
<1>4. /\ w \in Seq(Tabs) /\ Len(w) = len + 2
      /\ \A n \in 1..(len + 2) : w[n] = TablesAfter(q2, d, n - 1)
  BY <1>1, <1>2, VersionsAre
<1>5. ASSUME NEW n \in 1..(len + 1) PROVE w[n] = vs[n]
  <2>1. \A i \in 1..(n - 1) : q2[i] = q[i]
    BY <1>1
  <2>2. TablesAfter(q2, d, n - 1) = TablesAfter(q, d, n - 1)
    BY <2>1, HoldsPrefix, SameTable
  <2>3. QED
    BY <1>3, <1>4, <2>2
<1>6. w[len + 2] = [vs[len + 1] EXCEPT ![<<sd, s>>] = b]
  <2>1. PICK st : st = [row |-> UdmRow(sd, s), val |-> b]
    OBVIOUS
  <2>2. /\ Holds(q2, d, len + 1, UdmRow(sd, s), b)
        /\ \A row, v : row # UdmRow(sd, s) =>
             (Holds(q2, d, len + 1, row, v) <=> Holds(q2, d, len, row, v))
    BY <1>1, <2>1, HoldsLast
  <2>3. \A row, v : Holds(q2, d, len, row, v) <=> Holds(q, d, len, row, v)
    BY <1>1, HoldsPrefix
  <2>4. TablesAfter(q2, d, len + 1) = [TablesAfter(q, d, len) EXCEPT ![<<sd, s>>] = b]
    BY <2>2, <2>3, SameButOne, SMTT(60)
  <2>5. w[len + 2] = TablesAfter(q2, d, len + 1) /\ vs[len + 1] = TablesAfter(q, d, len)
    BY <1>3, <1>4
  <2>6. QED
    BY <2>4, <2>5
<1>7. PICK x : x = [vs[len + 1] EXCEPT ![<<sd, s>>] = b]
  OBVIOUS
<1>8. x \in Tabs /\ len + 2 \in 1..Len(w)
  BY <1>4, <1>6, <1>7, ElementOfSeq
<1>9. w = Append(vs, x)
  <2>1. /\ Append(vs, x) \in Seq(Tabs) /\ Len(Append(vs, x)) = len + 2
        /\ \A i \in 1..(len + 1) : Append(vs, x)[i] = vs[i]
        /\ Append(vs, x)[len + 2] = x
    BY <1>3, <1>8, AppendProperties
  <2>2. \A i \in 1..Len(w) : w[i] = Append(vs, x)[i]
    BY <1>4, <1>5, <1>6, <1>7, <2>1
  <2>3. QED
    BY <1>4, <2>1, <2>2, SeqEqual
<1>10. QED
  BY <1>2, <1>3, <1>7, <1>9

LEMMA VersionRepeated ==
  ASSUME NEW q \in Seq(Stmt), NEW q2 \in Seq(Stmt), NEW d, NEW k \in 0..Len(q),
         Len(q2) = Len(q) + 1, \A i \in 1..k : q2[i] = q[i],
         \A i \in (k + 1)..Len(q) : q2[i + 1] = q[i],
         \A sd \in Seeds, s \in Spots : q2[k + 1].row # UdmRow(sd, s),
         NEW vs, vs = VersionsOf(q, d)
  PROVE  /\ k + 1 \in 1..Len(vs)
         /\ VersionsOf(q2, d) = [i \in 1..(Len(vs) + 1) |->
                                   vs[IF i <= k + 1 THEN i ELSE i - 1]]
<1>1. PICK len \in Nat : len = Len(q)
  BY LenProperties
<1>2. PICK w : w = VersionsOf(q2, d)
  OBVIOUS
<1>3. /\ Len(vs) = len + 1
      /\ \A n \in 1..(len + 1) : vs[n] = TablesAfter(q, d, n - 1)
  BY <1>1, VersionsAre
<1>4. /\ w = [n \in 1..(len + 2) |-> TablesAfter(q2, d, n - 1)]
  BY <1>1, <1>2 DEF VersionsOf
<1>5. ASSUME NEW n \in 1..(k + 1) PROVE TablesAfter(q2, d, n - 1) = vs[n]
  <2>1. \A i \in 1..(n - 1) : q2[i] = q[i]
    OBVIOUS
  <2>2. TablesAfter(q2, d, n - 1) = TablesAfter(q, d, n - 1)
    BY <2>1, HoldsPrefix, SameTable
  <2>3. QED
    BY <1>1, <1>3, <2>2
<1>6. ASSUME NEW n \in (k + 2)..(len + 2) PROVE TablesAfter(q2, d, n - 1) = vs[n - 1]
  <2>1. PICK m \in Nat : m = n - 2 /\ k <= m /\ m <= len
    BY <1>1
  <2>2. \A i \in (k + 1)..m : q2[i + 1] = q[i]
    BY <1>1, <2>1
  <2>3. ASSUME NEW se \in Seeds, NEW z \in Spots, NEW v
        PROVE  Holds(q2, d, m + 1, UdmRow(se, z), v) <=> Holds(q, d, m, UdmRow(se, z), v)
    <3>1. q2[k + 1].row # UdmRow(se, z) /\ k \in Nat
      BY <1>1
    <3>2. \A i \in 1..k : q2[i] = q[i]
      OBVIOUS
    <3>3. k <= m /\ m \in Nat
      BY <2>1
    <3> HIDE DEF Holds
    <3>4. QED
      BY <2>2, <3>1, <3>2, <3>3, HoldsInserted, Zenon
  <2>4. TablesAfter(q2, d, m + 1) = TablesAfter(q, d, m)
    BY <2>3, SameTable
  <2>5. n - 1 = m + 1 /\ n - 1 \in 1..(len + 1) /\ (n - 1) - 1 = m
    BY <2>1
  <2>6. QED
    BY <1>3, <2>4, <2>5
<1>7. w = [n \in 1..(len + 2) |-> vs[IF n <= k + 1 THEN n ELSE n - 1]]
  <2>1. \A n \in 1..(len + 2) :
          TablesAfter(q2, d, n - 1) = vs[IF n <= k + 1 THEN n ELSE n - 1]
    BY <1>1, <1>5, <1>6
  <2>2. QED
    BY <1>4, <2>1
<1>8. QED
  BY <1>1, <1>2, <1>3, <1>7

LEMMA VersionWritten ==
  ASSUME NEW q \in Seq(Stmt), q # <<>>, NEW d, NEW e,
         \A row \in Rows : /\ q[1].row = row => e[row] = q[1].val
                           /\ q[1].row # row => e[row] = d[row],
         NEW vs, vs = VersionsOf(q, d)
  PROVE  Len(vs) > 1 /\ VersionsOf(Tail(q), e) = Tail(vs)
<1>1. PICK len \in Nat : Len(q) = len + 1
  <2>1. Len(q) \in Nat \ {0}
    BY EmptySeq
  <2>2. QED
    BY <2>1
<1>2. PICK q2 : q2 = Tail(q)
  OBVIOUS
<1>3. q2 \in Seq(Stmt) /\ Len(q2) = len /\ \A i \in 1..len : q2[i] = q[i + 1]
  BY <1>1, <1>2, HeadTailProperties
<1>4. PICK w : w = VersionsOf(q2, e)
  OBVIOUS
<1>5. /\ vs \in Seq(Tabs) /\ Len(vs) = len + 2
      /\ \A n \in 1..(len + 2) : vs[n] = TablesAfter(q, d, n - 1)
  BY <1>1, VersionsAre
<1>6. /\ w \in Seq(Tabs) /\ Len(w) = len + 1
      /\ \A n \in 1..(len + 1) : w[n] = TablesAfter(q2, e, n - 1)
  BY <1>3, <1>4, VersionsAre
<1>7. ASSUME NEW n \in 1..(len + 1) PROVE w[n] = vs[n + 1]
  <2>1. PICK m \in Nat : m = n - 1 /\ m <= len
    OBVIOUS
  <2>2. \A i \in 1..m : q2[i] = q[i + 1]
    BY <1>3, <2>1
  <2>3. \A se \in Seeds, z \in Spots : UdmRow(se, z) \in Rows
    BY RowsOfTables
  <2>4. \A se \in Seeds, z \in Spots : \A v :
          Holds(q2, e, m, UdmRow(se, z), v) <=> Holds(q, d, m + 1, UdmRow(se, z), v)
    BY <2>2, <2>3, HoldsWritten
  <2>5. TablesAfter(q2, e, m) = TablesAfter(q, d, m + 1)
    BY <2>4, SameTable
  <2>6. n + 1 \in 1..(len + 2) /\ (n + 1) - 1 = m + 1 /\ n - 1 = m
    BY <2>1
  <2>7. QED
    BY <1>5, <1>6, <2>5, <2>6
<1>8. vs # <<>>
  <2>1. Len(<<>>) = 0
    BY EmptySeq, Zenon
  <2>2. QED
    BY <1>5, <2>1
<1>9. /\ Tail(vs) \in Seq(Tabs) /\ Len(Tail(vs)) = len + 1
      /\ \A i \in 1..(len + 1) : Tail(vs)[i] = vs[i + 1]
  BY <1>5, <1>8, HeadTailProperties
<1>10. w = Tail(vs)
  BY <1>6, <1>7, <1>9, SeqEqual
<1>11. QED
  BY <1>2, <1>4, <1>5, <1>10

LEMMA VersionsCarried ==
  ASSUME NEW q \in Seq(Stmt), NEW d, NEW e, NEW sd \in Seeds, NEW s \in Spots,
         NEW b \in Blocks \cup {Absent},
         \A i \in 1..Len(q) : q[i].row # UdmRow(sd, s),
         e[UdmRow(sd, s)] = b,
         \A row \in Rows : row # UdmRow(sd, s) => e[row] = d[row],
         NEW vs, vs = VersionsOf(q, d)
  PROVE  VersionsOf(q, e) = [i \in 1..Len(vs) |-> [vs[i] EXCEPT ![<<sd, s>>] = b]]
<1>1. PICK len \in Nat : len = Len(q)
  BY LenProperties
<1>2. /\ Len(vs) = len + 1
      /\ \A n \in 1..(len + 1) : vs[n] = TablesAfter(q, d, n - 1)
  BY <1>1, VersionsAre
<1>3. ASSUME NEW n \in 1..(len + 1)
      PROVE  TablesAfter(q, e, n - 1) = [vs[n] EXCEPT ![<<sd, s>>] = b]
  <2>1. PICK m \in Nat : m = n - 1 /\ m <= len
    OBVIOUS
  <2>2. \A i \in 1..m : q[i].row # UdmRow(sd, s)
    BY <1>1, <2>1
  <2>3. Holds(q, e, m, UdmRow(sd, s), b)
    BY <2>2 DEF Holds
  <2>4. ASSUME NEW se \in Seeds, NEW z \in Spots, NEW v, UdmRow(se, z) # UdmRow(sd, s)
        PROVE  Holds(q, e, m, UdmRow(se, z), v) <=> Holds(q, d, m, UdmRow(se, z), v)
    <3>1. e[UdmRow(se, z)] = d[UdmRow(se, z)]
      BY <2>4, RowsOfTables
    <3>2. QED
      BY <3>1 DEF Holds
  <2>5. TablesAfter(q, e, m) = [TablesAfter(q, d, m) EXCEPT ![<<sd, s>>] = b]
    BY <2>3, <2>4, SameButOne
  <2>6. QED
    BY <1>2, <2>1, <2>5
<1>4. VersionsOf(q, e) = [n \in 1..(len + 1) |-> TablesAfter(q, e, n - 1)]
  BY <1>1 DEF VersionsOf
<1>5. QED
  BY <1>2, <1>3, <1>4

LEMMA VersionsOfEmptyTable ==
  ASSUME NEW q \in Seq(Stmt), NEW d, NEW sd \in Seeds, NEW s \in Spots,
         \A i \in 1..Len(q) : q[i].row # UdmRow(sd, s),
         d[UdmRow(sd, s)] = Absent, NEW i \in 1..Len(VersionsOf(q, d))
  PROVE  VersionsOf(q, d)[i][<<sd, s>>] = Absent
<1>1. PICK len \in Nat : len = Len(q)
  BY LenProperties
<1>2. PICK m \in Nat : m = i - 1 /\ m <= len /\ VersionsOf(q, d)[i] = TablesAfter(q, d, m)
  BY <1>1, VersionsAre
<1>3. \A j \in 1..m : q[j].row # UdmRow(sd, s)
  BY <1>1, <1>2
<1>4. Holds(q, d, m, UdmRow(sd, s), Absent)
  BY <1>3 DEF Holds
<1>5. QED
  BY <1>2, <1>4, TableHolds

LEMMA FirstVersion ==
  ASSUME NEW q \in Seq(Stmt), NEW d, NEW vs, vs = VersionsOf(q, d)
  PROVE  /\ VersionsOf(<<>>, d) = <<vs[1]>>
         /\ \A sd \in Seeds, s \in Spots :
              d[UdmRow(sd, s)] \in Blocks \cup {Absent} =>
                vs[1][<<sd, s>>] = d[UdmRow(sd, s)]
<1>1. PICK len \in Nat : len = Len(q)
  BY LenProperties
<1>2. vs[1] = TablesAfter(q, d, 0)
  BY <1>1, VersionsAre
<1>3. PICK w : w = VersionsOf(<<>>, d)
  OBVIOUS
<1>4. <<>> \in Seq(Stmt) /\ Len(<<>>) = 0
  BY EmptySeq
<1>5. w \in Seq(Tabs) /\ Len(w) = 1 /\ w[1] = TablesAfter(<<>>, d, 0)
  <2>1. PICK q0 \in Seq(Stmt) : q0 = <<>> /\ Len(q0) = 0
    BY <1>4
  <2>2. /\ w \in Seq(Tabs) /\ Len(w) = Len(q0) + 1
        /\ \A n \in 1..(Len(q0) + 1) : w[n] = TablesAfter(q0, d, n - 1)
    <3>1. w = VersionsOf(q0, d)
      BY <1>3, <2>1
    <3>2. QED
      BY <3>1, VersionsAre
  <2>3. Len(w) = 1 /\ w[1] = TablesAfter(q0, d, 1 - 1)
    BY <2>1, <2>2
  <2>4. w[1] = TablesAfter(q0, d, 0)
    BY <2>3
  <2>5. QED
    BY <2>1, <2>2, <2>3, <2>4
<1>6. TablesAfter(<<>>, d, 0) = TablesAfter(q, d, 0)
  <2>1. \A row, v : Holds(<<>>, d, 0, row, v) <=> Holds(q, d, 0, row, v)
    BY DEF Holds
  <2>2. QED
    BY <2>1, SameTable
<1>7. w = <<vs[1]>>
  <2>1. vs[1] \in Tabs
    BY <1>2, TablesAreTabs
  <2>2. <<vs[1]>> \in Seq(Tabs) /\ Len(<<vs[1]>>) = 1 /\ <<vs[1]>>[1] = vs[1]
    BY <2>1
  <2>3. QED
    BY <1>2, <1>5, <1>6, <2>2, SeqEqual
<1>8. ASSUME NEW sd \in Seeds, NEW s \in Spots, d[UdmRow(sd, s)] \in Blocks \cup {Absent}
      PROVE  vs[1][<<sd, s>>] = d[UdmRow(sd, s)]
  <2>1. Holds(q, d, 0, UdmRow(sd, s), d[UdmRow(sd, s)])
    BY DEF Holds
  <2>2. QED
    BY <1>2, <1>8, <2>1, TableHolds
<1>9. QED
  BY <1>3, <1>7, <1>8

----------------------------------------------------------------------------
(* A take-off writes a spot only while its row in the new table is empty.  *)

SaveInv ==
  \A s \in toSave : udm[s] # Absent /\ db[UdmRow(seed, s)] = Absent

KInv == BInv /\ SaveInv

LEMMA SavesLeft ==
  ASSUME SaveInv, UNCHANGED <<seed, udm>>, toSave' \subseteq toSave,
         \A s \in toSave' : db'[UdmRow(seed, s)] = db[UdmRow(seed, s)]
  PROVE  SaveInv'
BY DEF SaveInv

LEMMA WorkKeepsSaves ==
  ASSUME BInv, SaveInv, NEW t \in Threads, Receive(t) \/ Work(t) \/ TakeoffPanics(t)
  PROVE  SaveInv'
<1>1. CASE \/ ReceiveBlockSet(t) \/ ReceiveMultiBlockSet(t)
  BY <1>1, SavesLeft DEF ReceiveBlockSet, ReceiveMultiBlockSet, ReceiveEdits, sqlVars
<1>2. CASE \/ ReceiveTakeoff(t) \/ ReceiveChestSlot(t) \/ ReceiveInvSlot(t)
           \/ ReceivePlayerUpdate(t)
  BY <1>2, SavesLeft
     DEF ReceiveTakeoff, ReceiveChestSlot, ReceiveInvSlot, ReceiveSlot,
         ReceivePlayerUpdate, sqlVars, worldVars
<1>3. CASE BeginEdit(t) \/ EndTakeoff(t) \/ PushBlock(t)
  BY <1>3, SavesLeft DEF BeginEdit, EndTakeoff, PushBlock, sqlVars, worldVars
<1>4. CASE SetBlock(t)
  <2>1. pc[t] = "edit" /\ toSave' = toSave
    BY <1>4 DEF SetBlock
  <2>2. csysLock = t
    BY <2>1 DEF BInv, HolderInv
  <2>3. toSave = {}
    BY <2>1, <2>2 DEF BInv, HolderInv
  <2>4. QED
    BY <2>1, <2>3 DEF SaveInv
<1>5. CASE BeginTakeoff(t)
  <2>1. PICK sd \in Seeds \ usedSeeds : seed' = sd
    BY <1>5 DEF BeginTakeoff
  <2>2. UNCHANGED <<udm, db>> /\ toSave' = {s \in Spots : udm[s] # Absent}
    BY <1>5 DEF BeginTakeoff, sqlVars
  <2>3. \A s \in Spots : db[UdmRow(sd, s)] = Absent
    BY DEF BInv, FreshInv
  <2>4. QED
    BY <2>1, <2>2, <2>3 DEF SaveInv
<1>6. CASE SaveBlock(t)
  <2>1. PICK s \in toSave : /\ db' = [db EXCEPT ![UdmRow(seed, s)] = udm[s]]
                            /\ toSave' = toSave \ {s}
    BY <1>6 DEF SaveBlock
  <2>2. UNCHANGED <<seed, udm>>
    BY <1>6 DEF SaveBlock
  <2>3. ASSUME NEW z \in toSave' PROVE db'[UdmRow(seed, z)] = db[UdmRow(seed, z)]
    <3>1. z # s
      BY <2>1
    <3>2. UdmRow(seed, z) # UdmRow(seed, s)
      BY <3>1, UdmRowInjective
    <3>3. z \in Spots /\ seed \in Seeds /\ DOMAIN db = Rows
      BY <2>1 DEF BInv, TInv, TypeOK, WorldTypeOK, SqlTypeOK
    <3>4. UdmRow(seed, z) \in DOMAIN db
      BY <3>3, RowsOfTables
    <3>5. PICK r : r = UdmRow(seed, z)
      OBVIOUS
    <3>6. db'[r] = db[r]
      BY <2>1, <3>2, <3>4, <3>5
    <3>7. QED
      BY <3>5, <3>6
  <2>4. QED
    BY <2>1, <2>2, <2>3, SavesLeft
<1>7. CASE \/ ReadChest(t) \/ WriteChest(t) \/ Reply(t) \/ PushChest(t)
  BY <1>7, SavesLeft DEF ReadChest, WriteChest, Reply, PushChest, sqlVars, worldVars
<1>8. CASE \/ ReadInv(t) \/ WriteInv(t) \/ PushInv(t) \/ CountPosition(t)
           \/ Panics(t, "inv") \/ Panics(t, "player")
  BY <1>8, SavesLeft
     DEF ReadInv, WriteInv, PushInv, CountPosition, Panics, sqlVars, worldVars
<1>9. CASE TakeoffPanics(t)
  BY <1>9, SavesLeft DEF TakeoffPanics
<1>10. QED
  BY <1>1, <1>2, <1>3, <1>4, <1>5, <1>6, <1>7, <1>8, <1>9 DEF Receive, Work

LEMMA SqlKeepsSaves ==
  ASSUME BInv, SaveInv, SqlStep
  PROVE  SaveInv'
<1>1. CASE SqlPop \/ SqlRetry \/ SqlPanic
  BY <1>1, SavesLeft DEF SqlPop, SqlRetry, SqlPanic, worldVars
<1>2. CASE SqlCommit
  <2>1. /\ db' = [db EXCEPT ![queue[1].row] = queue[1].val]
        /\ UNCHANGED <<seed, udm, toSave>> /\ sql = "executing"
    BY <1>2 DEF SqlCommit, WriteRow, worldVars
  <2>2. queue \in Seq(Stmt) /\ queue # <<>>
    BY <2>1 DEF BInv, TInv, TypeOK, SqlTypeOK, SqlInv
  <2>3. 1 \in 1..Len(queue)
    BY <2>2, EmptySeq
  <2>4. ASSUME NEW s \in toSave' PROVE db'[UdmRow(seed, s)] = db[UdmRow(seed, s)]
    <3>1. queue[1].row # UdmRow(seed, s)
      BY <2>1, <2>3 DEF BInv, FreshInv, NotQueued
    <3>2. s \in Spots /\ seed \in Seeds /\ DOMAIN db = Rows
      BY <2>1 DEF BInv, TInv, TypeOK, WorldTypeOK, SqlTypeOK
    <3>3. PICK r \in Rows : r = UdmRow(seed, s)
      BY <3>2, RowsOfTables
    <3>4. db'[r] = db[r]
      BY <2>1, <3>1, <3>2, <3>3
    <3>5. QED
      BY <3>3, <3>4
  <2>5. QED
    BY <2>1, <2>4, SavesLeft
<1>3. QED
  BY <1>1, <1>2 DEF SqlStep

LEMMA StepKeepsSaves == KInv /\ [Next]_vars => KInv'
<1> SUFFICES ASSUME BInv, SaveInv, [Next]_vars PROVE BInv' /\ SaveInv'
  BY DEF KInv
<1>1. BInv'
  BY StepBlocks
<1>2. CASE Sessions
  BY <1>1, <1>2, SavesLeft
     DEF Sessions, LoadInv, InsertSession, RemoveSession, sqlVars, worldVars
<1>3. CASE Restart
  BY <1>1, <1>3 DEF Restart, SaveInv
<1>4. CASE UNCHANGED vars
  BY <1>1, <1>4, SavesLeft DEF vars, sqlVars, worldVars
<1>5. QED
  BY <1>1, <1>2, <1>3, <1>4, WorkKeepsSaves, SqlKeepsSaves DEF Next

LEMMA BlocksInductively == Spec => []KInv
<1>1. Init => KInv
  BY InitBlocks DEF KInv, SaveInv, Init
<1>2. QED
  BY <1>1, StepKeepsSaves, PTL DEF Spec

----------------------------------------------------------------------------
(* The rows still to be written.                                           *)

LEMMA BlockRowsAre ==
  ASSUME NEW sd \in Seeds, NEW edits \in Seq(Edit), NEW n \in Nat, n <= Len(edits)
  PROVE  /\ BlockRows(sd, edits, n) \in Seq(Stmt)
         /\ Len(BlockRows(sd, edits, n)) = n
         /\ \A i \in 1..n : BlockRows(sd, edits, n)[i] =
              [row |-> UdmRow(sd, edits[i].spot), val |-> edits[i].block]
<1>1. PICK f : f = BlockRows(sd, edits, n)
  OBVIOUS
<1>2. f = [i \in 1..n |-> [row |-> UdmRow(sd, edits[i].spot), val |-> edits[i].block]]
  BY <1>1 DEF BlockRows
<1>3. ASSUME NEW i \in 1..n
      PROVE  [row |-> UdmRow(sd, edits[i].spot), val |-> edits[i].block] \in Stmt
  <2>1. i \in 1..Len(edits)
    BY LenProperties
  <2>2. edits[i] \in Edit
    BY <2>1, ElementOfSeq
  <2>3. edits[i].spot \in Spots /\ edits[i].block \in Blocks
    BY <2>2 DEF Edit
  <2>4. QED
    BY <2>3, RowsOfTables, ValsOfTables DEF Stmt, Vals
<1>4. f \in [1..n -> Stmt]
  BY <1>2, <1>3
<1>5. f \in Seq(Stmt)
  BY <1>4, SeqDef
<1>6. Len(f) = n
  <2>1. DOMAIN f = 1..n /\ DOMAIN f = 1..Len(f) /\ Len(f) \in Nat
    BY <1>4, <1>5, LenProperties
  <2>2. QED
    BY <2>1
<1>7. QED
  BY <1>1, <1>2, <1>5, <1>6

LEMMA NoBlockRows ==
  ASSUME NEW sd, NEW edits, NEW n \in Int, n <= 0
  PROVE  BlockRows(sd, edits, n) = <<>>
<1>1. PICK f : f = BlockRows(sd, edits, n)
  OBVIOUS
<1>2. f = [i \in 1..n |-> [row |-> UdmRow(sd, edits[i].spot), val |-> edits[i].block]]
  BY <1>1 DEF BlockRows
<1>3. f \in [1..0 -> Stmt]
  BY <1>2
<1>4. f \in Seq(Stmt)
  BY <1>3, SeqDef
<1>5. DOMAIN f = 1..0 /\ DOMAIN f = 1..Len(f) /\ Len(f) \in Nat
  BY <1>3, <1>4, LenProperties
<1>6. Len(f) = 0
  BY <1>5
<1>7. QED
  BY <1>1, <1>4, <1>6, EmptySeq

(* Two queues, one after the other.                                        *)
LEMMA RowsInTurn ==
  ASSUME NEW q \in Seq(Stmt), NEW r \in Seq(Stmt)
  PROVE  /\ q \o r \in Seq(Stmt) /\ Len(q \o r) = Len(q) + Len(r)
         /\ \A i \in 1..Len(q) : (q \o r)[i] = q[i]
         /\ \A i \in 1..Len(r) : (q \o r)[Len(q) + i] = r[i]
<1>0. PICK p : p = q \o r
  OBVIOUS
<1>1. PICK m \in Nat : m = Len(q)
  BY LenProperties
<1>2. PICK n \in Nat : n = Len(r)
  BY LenProperties
<1>3. /\ p \in Seq(Stmt) /\ Len(p) = m + n
      /\ \A i \in 1..(m + n) : p[i] = IF i <= m THEN q[i] ELSE r[i - m]
  BY <1>0, <1>1, <1>2, ConcatProperties
<1>4. \A i \in 1..m : p[i] = q[i]
  BY <1>3
<1>5. ASSUME NEW i \in 1..n PROVE p[m + i] = r[i]
  <2>1. m + i \in 1..(m + n) /\ ~(m + i <= m) /\ (m + i) - m = i
    OBVIOUS
  <2>2. QED
    BY <1>3, <2>1
<1>6. QED
  BY <1>0, <1>1, <1>2, <1>3, <1>4, <1>5

(* A thread inside csys.write() has made between none and all of its       *)
(* changes without queueing their rows; on a take-off it has made none.    *)
LEMMA RowsHeld ==
  ASSUME BInv
  PROVE  /\ seed \in Seeds /\ queue \in Seq(Stmt)
         /\ csysLock = Free => MadeNotQueued = <<>>
         /\ csysLock # Free => csysLock \in Threads
         /\ \A t \in Threads :
              /\ csysLock = t <=> pc[t] \in {"edit", "save"}
              /\ pc[t] = "save" => MadeNotQueued = <<>>
              /\ pc[t] = "edit" =>
                   /\ MadeNotQueued = BlockRows(seed, pushes[t], Made(t))
                   /\ Made(t) \in Nat /\ Made(t) <= Len(pushes[t])
                   /\ Made(t) + Len(sets[t]) = Len(pushes[t])
                   /\ sets[t] \in Seq(Edit) /\ pushes[t] \in Seq(Edit)
<1>1. /\ seed \in Seeds /\ queue \in Seq(Stmt)
      /\ csysLock \in Threads \cup {Free}
      /\ \A t \in Threads : sets[t] \in Seq(Edit) /\ pushes[t] \in Seq(Edit)
  BY DEF BInv, TInv, TypeOK, WorldTypeOK, SqlTypeOK, LockTypeOK
<1>2. csysLock = Free => MadeNotQueued = <<>>
  BY DEF MadeNotQueued
<1>3. ASSUME NEW t \in Threads
      PROVE  /\ csysLock = t <=> pc[t] \in {"edit", "save"}
             /\ pc[t] = "save" => MadeNotQueued = <<>>
             /\ pc[t] = "edit" =>
                  /\ MadeNotQueued = BlockRows(seed, pushes[t], Made(t))
                  /\ Made(t) \in Nat /\ Made(t) <= Len(pushes[t])
                  /\ Made(t) + Len(sets[t]) = Len(pushes[t])
  <2>1. csysLock = t <=> pc[t] \in {"edit", "save"}
    BY DEF BInv, HolderInv
  <2>2. PICK m \in Nat : m = Len(sets[t])
    BY <1>1, LenProperties
  <2>3. PICK n \in Nat : n = Len(pushes[t])
    BY <1>1, LenProperties
  <2>4. Made(t) = n - m
    BY <2>2, <2>3 DEF Made
  <2>5. csysLock = t => MadeNotQueued = BlockRows(seed, pushes[t], Made(t))
    BY StoreAssumption DEF MadeNotQueued
  <2>6. ASSUME pc[t] = "save" PROVE MadeNotQueued = <<>>
    <3>1. pushes[t] = <<>> /\ csysLock = t
      BY <2>1, <2>6 DEF BInv, HolderInv
    <3>2. n = 0
      BY <2>3, <3>1, EmptySeq
    <3>3. PICK k \in Int : k = Made(t) /\ k <= 0
      BY <2>4, <3>2
    <3>4. BlockRows(seed, pushes[t], k) = <<>>
      BY <3>3, NoBlockRows
    <3>5. MadeNotQueued = BlockRows(seed, pushes[t], k)
      BY <2>5, <3>1, <3>3
    <3>6. QED
      BY <3>4, <3>5
  <2>7. ASSUME pc[t] = "edit"
        PROVE  /\ MadeNotQueued = BlockRows(seed, pushes[t], Made(t))
               /\ Made(t) \in Nat /\ Made(t) <= Len(pushes[t])
               /\ Made(t) + Len(sets[t]) = Len(pushes[t])
    <3>1. Made(t) >= 0
      BY <2>7 DEF BInv, EditInv
    <3>2. csysLock = t
      BY <2>1, <2>7
    <3>3. PICK k : k = Made(t)
      OBVIOUS
    <3>4. k \in Nat /\ k <= n /\ k + m = n
      BY <2>4, <3>1, <3>3
    <3>5. Made(t) \in Nat /\ Made(t) <= Len(pushes[t]) /\ Made(t) + Len(sets[t]) = Len(pushes[t])
      BY <2>2, <2>3, <3>3, <3>4
    <3>6. QED
      BY <2>5, <3>2, <3>5, Zenon
  <2>8. QED
    BY <2>1, <2>6, <2>7
<1>4. QED
  BY <1>1, <1>2, <1>3

PendingTypeOK ==
  MadeNotQueued \in Seq(Stmt) /\ queue \in Seq(Stmt) /\ Pending \in Seq(Stmt)

LEMMA RowsTyped == BInv => PendingTypeOK
<1> SUFFICES ASSUME BInv PROVE PendingTypeOK
  OBVIOUS
<1>1. <<>> \in Seq(Stmt)
  BY EmptySeq
<1>2. CASE csysLock = Free
  <2>1. MadeNotQueued = <<>>
    BY <1>2, RowsHeld
  <2>2. QED
    BY <1>1, <2>1, RowsHeld, RowsInTurn DEF PendingTypeOK, Pending
<1>3. ASSUME NEW t \in Threads, csysLock = t PROVE PendingTypeOK
  <2>1. ASSUME pc[t] = "save" PROVE MadeNotQueued \in Seq(Stmt)
    <3>1. MadeNotQueued = <<>>
      BY <2>1, RowsHeld
    <3>2. QED
      BY <1>1, <3>1
  <2>2. ASSUME pc[t] = "edit" PROVE MadeNotQueued \in Seq(Stmt)
    <3>1. /\ MadeNotQueued = BlockRows(seed, pushes[t], Made(t))
          /\ Made(t) \in Nat /\ Made(t) <= Len(pushes[t])
          /\ pushes[t] \in Seq(Edit) /\ seed \in Seeds
      BY <2>2, RowsHeld
    <3>2. QED
      BY <3>1, BlockRowsAre
  <2>3. pc[t] \in {"edit", "save"} /\ queue \in Seq(Stmt)
    BY <1>3, RowsHeld
  <2>4. QED
    BY <2>1, <2>2, <2>3, RowsInTurn DEF PendingTypeOK, Pending
<1>4. QED
  BY <1>2, <1>3, RowsHeld

LEMMA RowsTypedNext == BInv' => PendingTypeOK'
BY RowsTyped, PTL

(* Whoever saves a take-off's blocks has made no changes of its own.       *)
SavesOnly == \A t \in Threads : pc[t] = "save" => MadeNotQueued = <<>>

LEMMA SavingMakesNone == BInv => SavesOnly
BY RowsHeld DEF SavesOnly

LEMMA SavingMakesNoneNext == BInv' => SavesOnly'
BY SavingMakesNone, PTL

LEMMA SavingHoldsNone ==
  ASSUME BInv', NEW t \in Threads, pc'[t] = "save" PROVE MadeNotQueued' = <<>>
BY SavingMakesNoneNext DEF SavesOnly


LEMMA HandedOn ==
  ASSUME NEW q \in Seq(Stmt), NEW r \in Seq(Stmt), NEW s \in Seq(Stmt), NEW n \in Nat,
         Len(r) = n + 1, Len(s) = n, \A i \in 1..n : s[i] = r[i + 1]
  PROVE  Append(q, r[1]) \o s = q \o r
<1>0. PICK q2 : q2 = Append(q, r[1])
  OBVIOUS
<1>1. PICK m \in Nat : m = Len(q)
  BY LenProperties
<1>2. r[1] \in Stmt
  BY ElementOfSeq
<1>3. /\ q2 \in Seq(Stmt) /\ Len(q2) = m + 1
      /\ \A i \in 1..m : q2[i] = q[i]
      /\ q2[m + 1] = r[1]
  BY <1>0, <1>1, <1>2, AppendProperties
<1>4. PICK p : p = q \o r
  OBVIOUS
<1>5. PICK p2 : p2 = q2 \o s
  OBVIOUS
<1>6. /\ p \in Seq(Stmt) /\ Len(p) = m + (n + 1)
      /\ \A i \in 1..m : p[i] = q[i]
      /\ \A i \in 1..(n + 1) : p[m + i] = r[i]
  <2>1. /\ q \o r \in Seq(Stmt) /\ Len(q \o r) = Len(q) + Len(r)
        /\ \A i \in 1..Len(q) : (q \o r)[i] = q[i]
        /\ \A i \in 1..Len(r) : (q \o r)[Len(q) + i] = r[i]
    BY <1>1, <1>4, RowsInTurn
  <2>2. QED
    BY <1>1, <1>4, <2>1
<1>7. /\ p2 \in Seq(Stmt) /\ Len(p2) = (m + 1) + n
      /\ \A i \in 1..(m + 1) : p2[i] = q2[i]
      /\ \A i \in 1..n : p2[(m + 1) + i] = s[i]
  <2>1. /\ q2 \o s \in Seq(Stmt) /\ Len(q2 \o s) = Len(q2) + Len(s)
        /\ \A i \in 1..Len(q2) : (q2 \o s)[i] = q2[i]
        /\ \A i \in 1..Len(s) : (q2 \o s)[Len(q2) + i] = s[i]
    BY <1>3, <1>5, RowsInTurn
  <2>2. QED
    BY <1>3, <1>5, <2>1
<1>8. ASSUME NEW i \in 1..((m + 1) + n) PROVE p2[i] = p[i]
  <2>1. CASE i \in 1..m
    BY <1>3, <1>6, <1>7, <2>1
  <2>2. CASE i = m + 1
    <3>1. p[m + 1] = r[1] /\ p2[m + 1] = r[1]
      BY <1>3, <1>6, <1>7
    <3>2. QED
      BY <2>2, <3>1
  <2>3. CASE i \in (m + 2)..(m + 1 + n)
    <3>1. PICK k \in 1..n : i = (m + 1) + k
      <4>1. i - (m + 1) \in 1..n /\ i = (m + 1) + (i - (m + 1))
        BY <2>3
      <4>2. QED
        BY <4>1
    <3>2. k + 1 \in 1..(n + 1) /\ (m + 1) + k = m + (k + 1)
      OBVIOUS
    <3>3. p2[i] = s[k] /\ p[i] = r[k + 1]
      BY <1>6, <1>7, <3>1, <3>2
    <3>4. QED
      BY <3>3
  <2>4. QED
    BY <2>1, <2>2, <2>3
<1>9. QED
  BY <1>0, <1>4, <1>5, <1>6, <1>7, <1>8, SeqEqual

LEMMA PutIn ==
  ASSUME NEW q \in Seq(Stmt), NEW r \in Seq(Stmt), NEW st \in Stmt,
         NEW p, p = q \o r, NEW p2, p2 = Append(q, st) \o r
  PROVE  /\ p \in Seq(Stmt) /\ p2 \in Seq(Stmt) /\ Len(p2) = Len(p) + 1
         /\ Len(q) \in 0..Len(p)
         /\ \A i \in 1..Len(q) : p2[i] = p[i]
         /\ p2[Len(q) + 1] = st
         /\ \A i \in (Len(q) + 1)..Len(p) : p2[i + 1] = p[i]
<1>1. PICK m \in Nat : m = Len(q)
  BY LenProperties
<1>2. PICK n \in Nat : n = Len(r)
  BY LenProperties
<1>3. PICK q2 : q2 = Append(q, st)
  OBVIOUS
<1>4. /\ q2 \in Seq(Stmt) /\ Len(q2) = m + 1
      /\ \A i \in 1..m : q2[i] = q[i]
      /\ q2[m + 1] = st
  BY <1>1, <1>3, AppendProperties
<1>5. /\ p \in Seq(Stmt) /\ Len(p) = m + n
      /\ \A i \in 1..m : p[i] = q[i]
      /\ \A i \in 1..n : p[m + i] = r[i]
  <2>1. /\ q \o r \in Seq(Stmt) /\ Len(q \o r) = Len(q) + Len(r)
        /\ \A i \in 1..Len(q) : (q \o r)[i] = q[i]
        /\ \A i \in 1..Len(r) : (q \o r)[Len(q) + i] = r[i]
    BY <1>1, <1>2, RowsInTurn
  <2>2. QED
    BY <1>1, <1>2, <2>1
<1>6. /\ p2 \in Seq(Stmt) /\ Len(p2) = (m + 1) + n
      /\ \A i \in 1..(m + 1) : p2[i] = q2[i]
      /\ \A i \in 1..n : p2[(m + 1) + i] = r[i]
  <2>1. /\ q2 \o r \in Seq(Stmt) /\ Len(q2 \o r) = Len(q2) + Len(r)
        /\ \A i \in 1..Len(q2) : (q2 \o r)[i] = q2[i]
        /\ \A i \in 1..Len(r) : (q2 \o r)[Len(q2) + i] = r[i]
    BY <1>2, <1>3, <1>4, RowsInTurn
  <2>2. QED
    BY <1>2, <1>3, <1>4, <2>1
<1>7. ASSUME NEW i \in (m + 1)..(m + n) PROVE p2[i + 1] = p[i]
  <2>1. PICK k \in 1..n : i = m + k
    <3>1. i - m \in 1..n /\ i = m + (i - m)
      OBVIOUS
    <3>2. QED
      BY <3>1
  <2>2. i + 1 = (m + 1) + k
    BY <2>1
  <2>3. QED
    BY <1>5, <1>6, <2>1, <2>2
<1>8. ASSUME NEW i \in 1..m PROVE p2[i] = p[i]
  <2>1. i \in 1..(m + 1)
    OBVIOUS
  <2>2. p2[i] = q2[i]
    BY <1>6, <2>1
  <2>3. q2[i] = q[i]
    BY <1>4
  <2>4. p[i] = q[i]
    BY <1>5
  <2>5. QED
    BY <2>2, <2>3, <2>4
<1>9. p2[m + 1] = st
  <2>1. m + 1 \in 1..(m + 1)
    OBVIOUS
  <2>2. p2[m + 1] = q2[m + 1]
    BY <1>6, <2>1
  <2>3. QED
    BY <1>4, <2>2
<1>10. QED
  BY <1>1, <1>5, <1>6, <1>7, <1>8, <1>9

LEMMA FirstTaken ==
  ASSUME NEW q \in Seq(Stmt), q # <<>>, NEW r \in Seq(Stmt), NEW p, p = q \o r
  PROVE  p # <<>> /\ p[1] = q[1] /\ Tail(q) \o r = Tail(p)
<1>1. PICK m \in Nat : Len(q) = m + 1
  <2>1. Len(q) \in Nat \ {0}
    BY EmptySeq
  <2>2. PICK l \in Nat \ {0} : l = Len(q)
    BY <2>1
  <2>3. l - 1 \in Nat /\ Len(q) = (l - 1) + 1
    BY <2>2
  <2>4. QED
    BY <2>3
<1>2. PICK n \in Nat : n = Len(r)
  BY LenProperties
<1>3. PICK q2 : q2 = Tail(q)
  OBVIOUS
<1>4. q2 \in Seq(Stmt) /\ Len(q2) = m /\ \A i \in 1..m : q2[i] = q[i + 1]
  BY <1>1, <1>3, HeadTailProperties
<1>5. /\ p \in Seq(Stmt) /\ Len(p) = (m + 1) + n
      /\ \A i \in 1..(m + 1) : p[i] = q[i]
      /\ \A i \in 1..n : p[(m + 1) + i] = r[i]
  <2>1. /\ q \o r \in Seq(Stmt) /\ Len(q \o r) = Len(q) + Len(r)
        /\ \A i \in 1..Len(q) : (q \o r)[i] = q[i]
        /\ \A i \in 1..Len(r) : (q \o r)[Len(q) + i] = r[i]
    BY <1>1, <1>2, RowsInTurn
  <2>2. QED
    BY <1>1, <1>2, <2>1
<1>6. p # <<>>
  <2>1. Len(<<>>) = 0
    BY EmptySeq, Zenon
  <2>2. QED
    BY <1>5, <2>1
<1>7. PICK p2 : p2 = q2 \o r
  OBVIOUS
<1>8. /\ p2 \in Seq(Stmt) /\ Len(p2) = m + n
      /\ \A i \in 1..m : p2[i] = q2[i]
      /\ \A i \in 1..n : p2[m + i] = r[i]
  <2>1. /\ q2 \o r \in Seq(Stmt) /\ Len(q2 \o r) = Len(q2) + Len(r)
        /\ \A i \in 1..Len(q2) : (q2 \o r)[i] = q2[i]
        /\ \A i \in 1..Len(r) : (q2 \o r)[Len(q2) + i] = r[i]
    BY <1>2, <1>4, <1>7, RowsInTurn
  <2>2. QED
    BY <1>2, <1>4, <1>7, <2>1
<1>9. PICK p3 : p3 = Tail(p)
  OBVIOUS
<1>10. p3 \in Seq(Stmt) /\ Len(p3) = m + n /\ \A i \in 1..(m + n) : p3[i] = p[i + 1]
  BY <1>5, <1>6, <1>9, HeadTailProperties
<1>11. ASSUME NEW i \in 1..(m + n) PROVE p2[i] = p3[i]
  <2>1. CASE i \in 1..m
    <3>1. i + 1 \in 1..(m + 1)
      BY <2>1
    <3>2. QED
      BY <1>4, <1>5, <1>8, <1>10, <2>1, <3>1
  <2>2. CASE i \in (m + 1)..(m + n)
    <3>1. PICK k \in 1..n : i = m + k
      <4>1. i - m \in 1..n /\ i = m + (i - m)
        BY <2>2
      <4>2. QED
        BY <4>1
    <3>2. i + 1 = (m + 1) + k
      BY <3>1
    <3>3. QED
      BY <1>5, <1>8, <1>10, <3>1, <3>2
  <2>3. QED
    BY <2>1, <2>2
<1>12. p2 = p3
  BY <1>8, <1>10, <1>11, SeqEqual
<1>13. p[1] = q[1]
  BY <1>5
<1>14. QED
  BY <1>3, <1>6, <1>7, <1>9, <1>12, <1>13

----------------------------------------------------------------------------
(* The steps, one by one.                                                  *)

Unseen == UNCHANGED <<udm, seed, Versions>>

LEMMA RowsStay ==
  ASSUME UNCHANGED <<udm, seed, db>>, Pending' = Pending
  PROVE  Unseen
BY DEF Unseen, Versions

LEMMA HeldRowsStay ==
  ASSUME UNCHANGED <<seed, csysLock>>,
         csysLock # Free =>
           sets'[csysLock] = sets[csysLock] /\ pushes'[csysLock] = pushes[csysLock]
  PROVE  MadeNotQueued' = MadeNotQueued
BY DEF MadeNotQueued, Made

LEMMA NothingNew ==
  ASSUME UNCHANGED <<udm, seed, db, csysLock, queue>>,
         csysLock # Free =>
           sets'[csysLock] = sets[csysLock] /\ pushes'[csysLock] = pushes[csysLock]
  PROVE  Unseen
<1>1. MadeNotQueued' = MadeNotQueued
  BY HeldRowsStay
<1>2. Pending' = Pending
  BY <1>1 DEF Pending
<1>3. QED
  BY <1>2, RowsStay

LEMMA LockPassed ==
  ASSUME UNCHANGED <<udm, seed, db, queue>>,
         MadeNotQueued = <<>>, MadeNotQueued' = <<>>
  PROVE  Unseen
<1>1. Pending' = Pending
  BY DEF Pending
<1>2. QED
  BY <1>1, RowsStay

LEMMA OtherRowPromises ==
  ASSUME BInv, UNCHANGED <<udm, seed, db, csysLock, sets, pushes>>,
         NEW st \in Stmt, queue' = Append(queue, st),
         \A sd \in Seeds, s \in Spots : st.row # UdmRow(sd, s)
  PROVE  Promise!Next
<1>1. MadeNotQueued' = MadeNotQueued
  BY HeldRowsStay
<1>2. MadeNotQueued \in Seq(Stmt) /\ queue \in Seq(Stmt)
  BY RowsTyped DEF PendingTypeOK
<1>3. PICK p : p = Pending
  OBVIOUS
<1>4. PICK p2 : p2 = Pending'
  OBVIOUS
<1>5. p = queue \o MadeNotQueued /\ p2 = Append(queue, st) \o MadeNotQueued
  BY <1>1, <1>3, <1>4 DEF Pending
<1>6. PICK k : k = Len(queue)
  OBVIOUS
<1>7. /\ p \in Seq(Stmt) /\ p2 \in Seq(Stmt) /\ Len(p2) = Len(p) + 1
      /\ k \in 0..Len(p)
      /\ \A i \in 1..k : p2[i] = p[i]
      /\ p2[k + 1] = st
      /\ \A i \in (k + 1)..Len(p) : p2[i + 1] = p[i]
  BY <1>2, <1>5, <1>6, PutIn
<1>8. PICK vs : vs = Versions
  OBVIOUS
<1>9. vs = VersionsOf(p, db) /\ Versions' = VersionsOf(p2, db)
  BY <1>3, <1>4, <1>8 DEF Versions
<1>10. PICK n : n = k + 1
  OBVIOUS
<1>11. /\ n \in 1..Len(vs)
       /\ VersionsOf(p2, db) = [i \in 1..(Len(vs) + 1) |-> vs[IF i <= n THEN i ELSE i - 1]]
  BY <1>7, <1>9, <1>10, VersionRepeated, SMTT(60)
<1>12. n \in 1..Len(Versions) /\ Promise!OtherRow(n)
  BY <1>8, <1>9, <1>11 DEF Promise!OtherRow
<1>13. QED
  BY <1>12 DEF Promise!Next

LEMMA PushBlockPromises ==
  ASSUME BInv, BInv', NEW t \in Threads, PushBlock(t)
  PROVE  Unseen
<1>1. /\ pc[t] = "edit" /\ sets[t] = <<>>
      /\ queue' = Append(queue, [row |-> UdmRow(seed, Head(pushes[t]).spot),
                                 val |-> Head(pushes[t]).block])
      /\ pushes' = [pushes EXCEPT ![t] = Tail(@)]
      /\ UNCHANGED <<seed, udm, sets, db>>
      /\ IF Len(pushes[t]) = 1 THEN csysLock' = Free ELSE csysLock' = csysLock
  BY DEF PushBlock
<1>2. PICK ps : ps = pushes[t]
  OBVIOUS
<1>3. /\ csysLock = t /\ ps \in Seq(Edit) /\ ps # <<>>
      /\ seed \in Seeds /\ queue \in Seq(Stmt)
  BY <1>1, <1>2, RowsHeld DEF BInv, TInv, ArmInv
<1>4. PICK n \in Nat : Len(ps) = n + 1
  <2>1. PICK l \in Nat \ {0} : l = Len(ps)
    BY <1>3, EmptySeq
  <2>2. l - 1 \in Nat /\ Len(ps) = (l - 1) + 1
    BY <2>1
  <2>3. QED
    BY <2>2
<1>5. Len(sets[t]) = 0
  BY <1>1, EmptySeq
<1>6. MadeNotQueued = BlockRows(seed, ps, n + 1)
  <2>1. Made(t) = n + 1
    BY <1>2, <1>4, <1>5 DEF Made
  <2>2. QED
    BY <1>1, <1>2, <2>1, RowsHeld
<1>7. PICK r : r = BlockRows(seed, ps, n + 1)
  OBVIOUS
<1>8. /\ r \in Seq(Stmt) /\ Len(r) = n + 1
      /\ \A i \in 1..(n + 1) : r[i] = [row |-> UdmRow(seed, ps[i].spot), val |-> ps[i].block]
  <2>1. PICK k \in Nat : k = n + 1 /\ k <= Len(ps)
    BY <1>4
  <2>2. /\ BlockRows(seed, ps, k) \in Seq(Stmt) /\ Len(BlockRows(seed, ps, k)) = k
        /\ \A i \in 1..k : BlockRows(seed, ps, k)[i] =
             [row |-> UdmRow(seed, ps[i].spot), val |-> ps[i].block]
    BY <1>3, <2>1, BlockRowsAre
  <2>3. QED
    BY <1>7, <2>1, <2>2
<1>9. PICK ps2 : ps2 = Tail(ps)
  OBVIOUS
<1>10. ps2 \in Seq(Edit) /\ Len(ps2) = n /\ \A i \in 1..n : ps2[i] = ps[i + 1]
  BY <1>3, <1>4, <1>9, HeadTailProperties
<1>11. PICK s : s = BlockRows(seed, ps2, n)
  OBVIOUS
<1>12. /\ s \in Seq(Stmt) /\ Len(s) = n
       /\ \A i \in 1..n : s[i] = [row |-> UdmRow(seed, ps2[i].spot), val |-> ps2[i].block]
  BY <1>3, <1>10, <1>11, BlockRowsAre
<1>13. \A i \in 1..n : s[i] = r[i + 1]
  <2>1. \A i \in 1..n : i + 1 \in 1..(n + 1)
    OBVIOUS
  <2>2. QED
    BY <1>8, <1>10, <1>12, <2>1
<1>14. MadeNotQueued' = s
  <2>1. pushes'[t] = ps2
    BY <1>1, <1>2, <1>9 DEF BInv, TInv, TypeOK, WorldTypeOK
  <2>2. CASE n = 0
    <3>1. csysLock' = Free
      BY <1>1, <1>2, <1>4, <2>2
    <3>2. MadeNotQueued' = <<>>
      BY <3>1 DEF MadeNotQueued
    <3>3. QED
      BY <1>12, <2>2, <3>2, EmptySeq
  <2>3. CASE n # 0
    <3>1. csysLock' = t /\ t # Free
      BY <1>1, <1>2, <1>3, <1>4, <2>3, StoreAssumption
    <3>2. Made(t)' = n
      <4>1. sets'[t] = sets[t]
        BY <1>1
      <4>2. Len(sets'[t]) = 0 /\ Len(pushes'[t]) = n
        BY <1>5, <1>10, <2>1, <4>1
      <4>3. QED
        BY <4>2 DEF Made
    <3>3. MadeNotQueued' = BlockRows(seed', pushes'[t], Made(t)')
      BY <3>1 DEF MadeNotQueued
    <3>4. QED
      BY <1>1, <1>11, <2>1, <3>2, <3>3
  <2>4. QED
    BY <2>2, <2>3
<1>15. queue' = Append(queue, r[1])
  <2>1. r[1] = [row |-> UdmRow(seed, ps[1].spot), val |-> ps[1].block] /\ Head(ps) = ps[1]
    BY <1>8
  <2>2. QED
    BY <1>1, <1>2, <2>1
<1>16. Append(queue, r[1]) \o s = queue \o r
  BY <1>3, <1>8, <1>12, <1>13, HandedOn
<1>17. Pending' = Pending
  BY <1>6, <1>7, <1>14, <1>15, <1>16 DEF Pending
<1>18. QED
  BY <1>1, <1>17, RowsStay

LEMMA RowMade ==
  ASSUME NEW q \in Seq(Stmt), NEW r \in Seq(Stmt), NEW s \in Seq(Stmt), NEW n \in Nat,
         Len(r) = n, Len(s) = n + 1, \A i \in 1..n : s[i] = r[i]
  PROVE  /\ q \o r \in Seq(Stmt) /\ q \o s \in Seq(Stmt)
         /\ Len(q \o s) = Len(q \o r) + 1
         /\ \A i \in 1..Len(q \o r) : (q \o s)[i] = (q \o r)[i]
         /\ (q \o s)[Len(q \o r) + 1] = s[n + 1]
<1> PICK p : p = q \o r
  OBVIOUS
<1> PICK p2 : p2 = q \o s
  OBVIOUS
<1>1. PICK m \in Nat : m = Len(q)
  BY LenProperties
<1>2. /\ p \in Seq(Stmt) /\ Len(p) = m + n
      /\ \A i \in 1..m : p[i] = q[i]
      /\ \A i \in 1..n : p[m + i] = r[i]
  <2>1. /\ q \o r \in Seq(Stmt) /\ Len(q \o r) = Len(q) + Len(r)
        /\ \A i \in 1..Len(q) : (q \o r)[i] = q[i]
        /\ \A i \in 1..Len(r) : (q \o r)[Len(q) + i] = r[i]
    BY RowsInTurn
  <2>2. QED
    BY <1>1, <2>1
<1>3. /\ p2 \in Seq(Stmt) /\ Len(p2) = m + (n + 1)
      /\ \A i \in 1..m : p2[i] = q[i]
      /\ \A i \in 1..(n + 1) : p2[m + i] = s[i]
  <2>1. /\ q \o s \in Seq(Stmt) /\ Len(q \o s) = Len(q) + Len(s)
        /\ \A i \in 1..Len(q) : (q \o s)[i] = q[i]
        /\ \A i \in 1..Len(s) : (q \o s)[Len(q) + i] = s[i]
    BY RowsInTurn
  <2>2. QED
    BY <1>1, <2>1
<1>4. ASSUME NEW i \in 1..(m + n) PROVE p2[i] = p[i]
  <2>1. CASE i \in 1..m
    BY <1>2, <1>3, <2>1
  <2>2. CASE i \in (m + 1)..(m + n)
    <3>1. PICK k \in 1..n : i = m + k
      <4>1. i - m \in 1..n /\ i = m + (i - m)
        BY <2>2
      <4>2. QED
        BY <4>1
    <3>2. k \in 1..(n + 1)
      OBVIOUS
    <3>3. QED
      BY <1>2, <1>3, <3>1, <3>2
  <2>3. i \in 1..m \/ i \in (m + 1)..(m + n)
    OBVIOUS
  <2>4. QED
    BY <2>1, <2>2, <2>3
<1>5. p2[(m + n) + 1] = s[n + 1]
  <2>1. n + 1 \in 1..(n + 1) /\ (m + n) + 1 = m + (n + 1)
    OBVIOUS
  <2>2. QED
    BY <1>3, <2>1
<1>6. QED
  BY <1>2, <1>3, <1>4, <1>5

LEMMA SetBlockPromises ==
  ASSUME BInv, BInv', NEW t \in Threads, SetBlock(t)
  PROVE  Promise!Next
<1>1. /\ pc[t] = "edit" /\ sets[t] # <<>>
      /\ udm' = [udm EXCEPT ![Head(sets[t]).spot] = Head(sets[t]).block]
      /\ sets' = [sets EXCEPT ![t] = Tail(@)]
      /\ UNCHANGED <<seed, pushes, csysLock, queue, db>>
  BY DEF SetBlock, lockVars, sqlVars
<1>2. PICK ps : ps = pushes[t]
  OBVIOUS
<1>3. PICK n \in Nat : n = Made(t)
  BY <1>1, RowsHeld
<1>4. /\ csysLock = t /\ ps \in Seq(Edit) /\ sets[t] \in Seq(Edit)
      /\ seed \in Seeds /\ queue \in Seq(Stmt)
      /\ MadeNotQueued = BlockRows(seed, ps, n)
      /\ n + Len(sets[t]) = Len(ps)
  BY <1>1, <1>2, <1>3, RowsHeld
<1>5. PICK l \in Nat \ {0} : l = Len(sets[t])
  BY <1>1, <1>4, EmptySeq
<1>6. n + 1 <= Len(ps) /\ n <= Len(ps)
  BY <1>4, <1>5
<1>7. PICK e : e = Head(sets[t])
  OBVIOUS
<1>8. e = ps[n + 1] /\ e.spot \in Spots /\ e.block \in Blocks
  <2>1. e = sets[t][1] /\ 1 \in 1..Len(sets[t])
    BY <1>5, <1>7
  <2>2. sets[t][1] = ps[1 + n]
    BY <1>1, <1>2, <1>3, <2>1 DEF BInv, EditInv
  <2>3. e \in Edit
    BY <1>1, <1>4, <1>7, HeadTailProperties
  <2>4. 1 + n = n + 1
    OBVIOUS
  <2>5. QED
    BY <2>1, <2>2, <2>3, <2>4 DEF Edit
<1>9. PICK r : r = BlockRows(seed, ps, n)
  OBVIOUS
<1>10. /\ r \in Seq(Stmt) /\ Len(r) = n
       /\ \A i \in 1..n : r[i] = [row |-> UdmRow(seed, ps[i].spot), val |-> ps[i].block]
  BY <1>4, <1>6, <1>9, BlockRowsAre
<1>11. PICK s : s = BlockRows(seed, ps, n + 1)
  OBVIOUS
<1>12. /\ s \in Seq(Stmt) /\ Len(s) = n + 1
       /\ \A i \in 1..(n + 1) : s[i] = [row |-> UdmRow(seed, ps[i].spot), val |-> ps[i].block]
  <2>1. PICK k \in Nat : k = n + 1 /\ k <= Len(ps)
    BY <1>6
  <2>2. /\ BlockRows(seed, ps, k) \in Seq(Stmt) /\ Len(BlockRows(seed, ps, k)) = k
        /\ \A i \in 1..k : BlockRows(seed, ps, k)[i] =
             [row |-> UdmRow(seed, ps[i].spot), val |-> ps[i].block]
    BY <1>4, <2>1, BlockRowsAre
  <2>3. QED
    BY <1>11, <2>1, <2>2
<1>13. \A i \in 1..n : s[i] = r[i]
  <2>1. \A i \in 1..n : i \in 1..(n + 1)
    OBVIOUS
  <2>2. QED
    BY <1>10, <1>12, <2>1
<1>14. MadeNotQueued' = s
  <2>1. sets'[t] = Tail(sets[t])
    BY <1>1 DEF BInv, TInv, TypeOK, WorldTypeOK
  <2>2. Len(sets'[t]) = l - 1
    BY <1>1, <1>4, <1>5, <2>1, HeadTailProperties
  <2>3. Len(pushes'[t]) = n + l
    BY <1>1, <1>2, <1>4, <1>5
  <2>4. Made(t)' = n + 1
    BY <2>2, <2>3 DEF Made
  <2>5. csysLock' = t /\ t # Free
    BY <1>1, <1>4, StoreAssumption
  <2>6. MadeNotQueued' = BlockRows(seed', pushes'[t], Made(t)')
    BY <2>5 DEF MadeNotQueued
  <2>7. QED
    BY <1>1, <1>2, <1>11, <2>4, <2>6
<1>15. PICK p : p = Pending
  OBVIOUS
<1>16. PICK p2 : p2 = Pending'
  OBVIOUS
<1>17. p = queue \o r /\ p2 = queue \o s
  BY <1>1, <1>4, <1>9, <1>14, <1>15, <1>16 DEF Pending
<1>18. /\ p \in Seq(Stmt) /\ p2 \in Seq(Stmt) /\ Len(p2) = Len(p) + 1
       /\ \A i \in 1..Len(p) : p2[i] = p[i]
       /\ p2[Len(p) + 1] = s[n + 1]
  <2>1. PICK q \in Seq(Stmt) : q = queue
    BY <1>4
  <2>2. r \in Seq(Stmt) /\ Len(r) = n /\ s \in Seq(Stmt) /\ Len(s) = n + 1
    BY <1>10, <1>12
  <2>3. /\ q \o r \in Seq(Stmt) /\ q \o s \in Seq(Stmt)
        /\ Len(q \o s) = Len(q \o r) + 1
        /\ \A i \in 1..Len(q \o r) : (q \o s)[i] = (q \o r)[i]
        /\ (q \o s)[Len(q \o r) + 1] = s[n + 1]
    BY <1>13, <2>2, RowMade
  <2>4. QED
    BY <1>17, <2>1, <2>3
<1>19. s[n + 1] = [row |-> UdmRow(seed, e.spot), val |-> e.block]
  <2>1. n + 1 \in 1..(n + 1)
    OBVIOUS
  <2>2. QED
    BY <1>8, <1>12, <2>1
<1>20. PICK vs : vs = Versions
  OBVIOUS
<1>21. vs = VersionsOf(p, db) /\ Versions' = VersionsOf(p2, db)
  BY <1>1, <1>15, <1>16, <1>20 DEF Versions
<1>22. VersionsOf(p2, db) = Append(vs, [vs[Len(vs)] EXCEPT ![<<seed, e.spot>>] = e.block])
  <2>1. PICK sd \in Seeds : sd = seed
    BY <1>4
  <2>2. PICK z \in Spots : z = e.spot
    BY <1>8
  <2>3. PICK b \in Blocks : b = e.block
    BY <1>8
  <2>4. /\ p \in Seq(Stmt) /\ p2 \in Seq(Stmt) /\ Len(p2) = Len(p) + 1
        /\ \A i \in 1..Len(p) : p2[i] = p[i]
        /\ p2[Len(p) + 1] = [row |-> UdmRow(sd, z), val |-> b]
    BY <1>18, <1>19, <2>1, <2>2, <2>3
  <2>5. vs = VersionsOf(p, db)
    BY <1>21
  <2>6. VersionsOf(p2, db) = Append(vs, [vs[Len(vs)] EXCEPT ![<<sd, z>>] = b])
    BY <2>4, <2>5, VersionAppended
  <2>7. QED
    BY <2>1, <2>2, <2>3, <2>6
<1>23. Promise!Change(e.spot, e.block)
  BY <1>1, <1>7, <1>20, <1>21, <1>22 DEF Promise!Change, Promise!Newest
<1>24. QED
  BY <1>8, <1>23 DEF Promise!Next

LEMMA CommitPromises ==
  ASSUME BInv, SqlCommit
  PROVE  Promise!Next
<1>1. queue \in Seq(Stmt) /\ MadeNotQueued \in Seq(Stmt) /\ queue # <<>>
  BY RowsTyped DEF PendingTypeOK, SqlCommit, WriteRow, BInv, TInv, SqlInv
<1>2. /\ db' = [db EXCEPT ![queue[1].row] = queue[1].val]
      /\ queue' = SubSeq(queue, 1, 1 - 1) \o SubSeq(queue, 1 + 1, Len(queue))
      /\ UNCHANGED <<seed, udm, csysLock, sets, pushes>>
  BY DEF SqlCommit, WriteRow, worldVars, lockVars
<1>3. queue' = Tail(queue)
  BY <1>1, <1>2, HeadRemoved
<1>4. MadeNotQueued' = MadeNotQueued
  BY <1>2, HeldRowsStay
<1>5. PICK p : p = Pending
  OBVIOUS
<1>6. p = queue \o MadeNotQueued /\ p \in Seq(Stmt)
  BY <1>5, RowsTyped DEF Pending, PendingTypeOK
<1>7. p # <<>> /\ p[1] = queue[1] /\ Tail(queue) \o MadeNotQueued = Tail(p)
  BY <1>1, <1>6, FirstTaken
<1>8. Pending' = Tail(p)
  BY <1>3, <1>4, <1>7 DEF Pending
<1>9. \A row \in Rows : /\ p[1].row = row => db'[row] = p[1].val
                        /\ p[1].row # row => db'[row] = db[row]
  BY <1>2, <1>7 DEF BInv, TInv, TypeOK, SqlTypeOK
<1>10. PICK vs : vs = Versions
  OBVIOUS
<1>11. vs = VersionsOf(p, db) /\ Versions' = VersionsOf(Tail(p), db')
  BY <1>5, <1>8, <1>10 DEF Versions
<1>12. Len(vs) > 1 /\ VersionsOf(Tail(p), db') = Tail(vs)
  <2>1. PICK e : e = db'
    OBVIOUS
  <2>2. \A row \in Rows : /\ p[1].row = row => e[row] = p[1].val
                          /\ p[1].row # row => e[row] = db[row]
    BY <1>9, <2>1
  <2>3. Len(vs) > 1 /\ VersionsOf(Tail(p), e) = Tail(vs)
    <3>1. vs = VersionsOf(p, db) /\ p \in Seq(Stmt) /\ p # <<>>
      BY <1>6, <1>7, <1>11
    <3>2. QED
      BY <2>2, <3>1, VersionWritten, Zenon
  <2>4. QED
    BY <2>1, <2>3
<1>13. Promise!BecomeDurable
  BY <1>2, <1>10, <1>11, <1>12 DEF Promise!BecomeDurable
<1>14. QED
  BY <1>13 DEF Promise!Next

LEMMA RestartPromises ==
  ASSUME BInv, Restart
  PROVE  Promise!Next
<1>1. /\ UNCHANGED db /\ seed' = InitialSeed /\ queue' = <<>> /\ csysLock' = Free
      /\ udm' = [s \in Spots |-> db[UdmRow(InitialSeed, s)]]
  BY DEF Restart, LoadedWorld
<1>2. PICK p : p = Pending
  OBVIOUS
<1>3. p \in Seq(Stmt)
  BY <1>2, RowsTyped DEF PendingTypeOK
<1>4. Pending' = <<>>
  <2>1. MadeNotQueued' = <<>>
    BY <1>1 DEF MadeNotQueued
  <2>2. <<>> \o <<>> = <<>>
    BY EmptySeq, ConcatEmptySeq
  <2>3. QED
    BY <1>1, <2>1, <2>2 DEF Pending
<1>5. PICK vs : vs = Versions
  OBVIOUS
<1>6. vs = VersionsOf(p, db) /\ Versions' = VersionsOf(<<>>, db)
  BY <1>1, <1>2, <1>4, <1>5 DEF Versions
<1>7. /\ VersionsOf(<<>>, db) = <<vs[1]>>
      /\ \A sd \in Seeds, s \in Spots :
           db[UdmRow(sd, s)] \in Blocks \cup {Absent} =>
             vs[1][<<sd, s>>] = db[UdmRow(sd, s)]
  BY <1>3, <1>6, FirstVersion
<1>8. ASSUME NEW s \in Spots PROVE vs[1][<<InitialSeed, s>>] = db[UdmRow(InitialSeed, s)]
  <2>1. InitialSeed \in Seeds /\ UdmRow(InitialSeed, s) \in Rows
    BY StoreAssumption, RowsOfTables
  <2>2. ValsOf(UdmRow(InitialSeed, s)) = Blocks
    BY ValsOfTables
  <2>3. db[UdmRow(InitialSeed, s)] \in Blocks \cup {Absent}
    BY <2>1, <2>2 DEF BInv, TInv, TypeOK, SqlTypeOK
  <2>4. QED
    BY <1>7, <2>1, <2>3
<1>9. udm' = [s \in Spots |-> vs[1][<<InitialSeed, s>>]]
  BY <1>1, <1>8
<1>10. Promise!Crash
  BY <1>1, <1>5, <1>6, <1>7, <1>9 DEF Promise!Crash
<1>11. QED
  BY <1>10 DEF Promise!Next

(* On a take-off nothing waits but the queue.                              *)
LEMMA OnlyQueue ==
  ASSUME BInv, MadeNotQueued = <<>>
  PROVE  Pending = queue /\ queue \in Seq(Stmt)
BY RowsTyped, ConcatEmptySeq DEF Pending, PendingTypeOK

LEMMA BeginTakeoffPromises ==
  ASSUME BInv, BInv', NEW t \in Threads, BeginTakeoff(t)
  PROVE  Promise!Next
<1>1. PICK sd \in Seeds \ usedSeeds : seed' = sd
  BY DEF BeginTakeoff
<1>2. /\ pc[t] = "takeoff" /\ csysLock = Free /\ csysLock' = t
      /\ pc' = [pc EXCEPT ![t] = "save"]
      /\ UNCHANGED <<udm, queue, db>>
  BY DEF BeginTakeoff, CsysFree, sqlVars
<1>3. MadeNotQueued = <<>>
  BY <1>2, RowsHeld
<1>4. MadeNotQueued' = <<>>
  <2>1. pc'[t] = "save"
    BY <1>2 DEF BInv, TInv, TypeOK
  <2>2. QED
    BY <2>1, SavingHoldsNone
<1>5. Pending = queue /\ queue \in Seq(Stmt) /\ Pending' = Pending
  BY <1>2, <1>3, <1>4, OnlyQueue DEF Pending
<1>6. PICK vs : vs = Versions
  OBVIOUS
<1>7. vs = VersionsOf(queue, db) /\ Versions' = vs
  BY <1>2, <1>5, <1>6 DEF Versions
<1>8. ASSUME NEW i \in 1..Len(vs), NEW s \in Spots PROVE vs[i][<<sd, s>>] = Absent
  <2>1. /\ \A j \in 1..Len(queue) : queue[j].row # UdmRow(sd, s)
        /\ db[UdmRow(sd, s)] = Absent
    BY <1>1 DEF BInv, FreshInv, NotQueued
  <2>2. QED
    BY <1>5, <1>7, <2>1, VersionsOfEmptyTable
<1>9. Promise!LeaveFor(sd)
  BY <1>1, <1>2, <1>6, <1>7, <1>8 DEF Promise!LeaveFor
<1>10. QED
  BY <1>9 DEF Promise!Next

LEMMA SaveBlockPromises ==
  ASSUME BInv, BInv', SaveInv, NEW t \in Threads, SaveBlock(t)
  PROVE  Promise!Next
<1>1. PICK s \in toSave : db' = [db EXCEPT ![UdmRow(seed, s)] = udm[s]]
  BY DEF SaveBlock
<1>2. pc[t] = "save" /\ UNCHANGED <<pc, seed, udm, queue>>
  BY DEF SaveBlock
<1>3. MadeNotQueued = <<>> /\ MadeNotQueued' = <<>>
  <2>1. pc'[t] = "save"
    BY <1>2
  <2>2. QED
    BY <1>2, <2>1, RowsHeld, SavingHoldsNone
<1>4. Pending = queue /\ queue \in Seq(Stmt) /\ Pending' = queue
  BY <1>2, <1>3, OnlyQueue DEF Pending
<1>5. /\ s \in Spots /\ seed \in Seeds /\ udm[s] \in Blocks \cup {Absent}
      /\ DOMAIN db = Rows
  BY <1>1 DEF BInv, TInv, TypeOK, WorldTypeOK, SqlTypeOK
<1>6. /\ udm[s] # Absent /\ db[UdmRow(seed, s)] = Absent
      /\ \A j \in 1..Len(queue) : queue[j].row # UdmRow(seed, s)
  BY <1>1 DEF SaveInv, BInv, FreshInv, NotQueued
<1>7. PICK vs : vs = Versions
  OBVIOUS
<1>8. PICK e : e = db'
  OBVIOUS
<1>9. vs = VersionsOf(queue, db) /\ Versions' = VersionsOf(queue, e)
  BY <1>4, <1>7, <1>8 DEF Versions
<1>10. \A i \in 1..Len(vs) : vs[i][<<seed, s>>] = Absent
  BY <1>4, <1>5, <1>6, <1>9, VersionsOfEmptyTable
<1>11. VersionsOf(queue, e) = [i \in 1..Len(vs) |-> [vs[i] EXCEPT ![<<seed, s>>] = udm[s]]]
  <2>1. PICK r \in Rows : r = UdmRow(seed, s)
    BY <1>5, RowsOfTables
  <2>2. e[r] = udm[s] /\ \A row \in Rows : row # r => e[row] = db[row]
    BY <1>1, <1>5, <1>8, <2>1
  <2>3. PICK b \in Blocks \cup {Absent} : b = udm[s]
    BY <1>5
  <2>4. VersionsOf(queue, e) = [i \in 1..Len(vs) |-> [vs[i] EXCEPT ![<<seed, s>>] = b]]
    BY <1>4, <1>5, <1>6, <1>9, <2>1, <2>2, <2>3, VersionsCarried
  <2>5. QED
    BY <2>3, <2>4
<1>12. Promise!CarryOver(s)
  BY <1>2, <1>6, <1>7, <1>9, <1>10, <1>11 DEF Promise!CarryOver
<1>13. QED
  BY <1>5, <1>12 DEF Promise!Next

(* The other handlers, the sessions and the SQL thread before it commits.  *)
LEMMA EditsReceived ==
  ASSUME BInv, NEW t \in Threads, ReceiveBlockSet(t) \/ ReceiveMultiBlockSet(t)
  PROVE  Unseen
<1>1. PICK edits : /\ pc[t] = "idle"
                   /\ sets' = [sets EXCEPT ![t] = edits]
                   /\ pushes' = [pushes EXCEPT ![t] = edits]
                   /\ UNCHANGED <<udm, seed, db, csysLock, queue>>
  BY DEF ReceiveBlockSet, ReceiveMultiBlockSet, ReceiveEdits, Handle, lockVars, sqlVars
<1>2. csysLock # Free => csysLock \in Threads /\ csysLock # t
  BY <1>1, RowsHeld
<1>3. /\ DOMAIN sets = Threads /\ DOMAIN pushes = Threads
  BY DEF BInv, TInv, TypeOK, WorldTypeOK
<1>4. csysLock # Free =>
        sets'[csysLock] = sets[csysLock] /\ pushes'[csysLock] = pushes[csysLock]
  BY <1>1, <1>2, <1>3
<1>5. QED
  BY <1>1, <1>4, NothingNew

LEMMA ReceiptsUnseen ==
  ASSUME BInv, NEW t \in Threads, Receive(t)
  PROVE  Unseen
<1>1. CASE ReceiveBlockSet(t) \/ ReceiveMultiBlockSet(t)
  BY <1>1, EditsReceived
<1>2. CASE \/ ReceiveTakeoff(t) \/ ReceiveChestSlot(t) \/ ReceiveInvSlot(t)
           \/ ReceivePlayerUpdate(t)
  BY <1>2, NothingNew
     DEF ReceiveTakeoff, ReceiveChestSlot, ReceiveInvSlot, ReceiveSlot,
         ReceivePlayerUpdate, worldVars, lockVars, sqlVars
<1>3. QED
  BY <1>1, <1>2 DEF Receive

LEMMA LockStepsUnseen ==
  ASSUME BInv, BInv', NEW t \in Threads,
         BeginEdit(t) \/ EndTakeoff(t) \/ TakeoffPanics(t)
  PROVE  Unseen
<1>1. CASE BeginEdit(t)
  <2>1. /\ pc[t] = "block" /\ csysLock = Free /\ csysLock' = t
        /\ UNCHANGED <<seed, udm, sets, pushes, queue, db>>
    BY <1>1 DEF BeginEdit, CsysFree, worldVars, sqlVars
  <2>2. MadeNotQueued = <<>>
    BY <2>1, RowsHeld
  <2>3. PICK l \in Nat : l = Len(pushes[t])
    BY LenProperties DEF BInv, TInv, TypeOK, WorldTypeOK
  <2>4. sets[t] = pushes[t]
    BY <2>1 DEF BInv, EditInv
  <2>5. Len(sets'[t]) = l /\ Len(pushes'[t]) = l
    BY <2>1, <2>3, <2>4
  <2>6. Made(t)' = 0
    BY <2>5 DEF Made
  <2>7. MadeNotQueued' = BlockRows(seed', pushes'[t], Made(t)')
    BY <2>1, StoreAssumption DEF MadeNotQueued
  <2>8. MadeNotQueued' = <<>>
    BY <2>6, <2>7, NoBlockRows
  <2>9. QED
    BY <2>1, <2>2, <2>8, LockPassed
<1>2. CASE EndTakeoff(t) \/ TakeoffPanics(t)
  <2>1. /\ pc[t] = "save" /\ csysLock' = Free
        /\ UNCHANGED <<seed, udm, queue, db>>
    BY <1>2 DEF EndTakeoff, TakeoffPanics, worldVars, sqlVars
  <2>2. MadeNotQueued = <<>>
    BY <2>1, RowsHeld
  <2>3. MadeNotQueued' = <<>>
    BY <2>1 DEF MadeNotQueued
  <2>4. QED
    BY <2>1, <2>2, <2>3, LockPassed
<1>3. QED
  BY <1>1, <1>2

LEMMA ItemStepsPromise ==
  ASSUME BInv, NEW t \in Threads,
         \/ ReadChest(t) \/ WriteChest(t) \/ PushChest(t) \/ Reply(t)
         \/ ReadInv(t) \/ WriteInv(t) \/ PushInv(t) \/ CountPosition(t)
         \/ Panics(t, "inv") \/ Panics(t, "player")
  PROVE  Promise!Next \/ Unseen
<1>1. CASE \/ ReadChest(t) \/ WriteChest(t) \/ Reply(t) \/ ReadInv(t)
           \/ WriteInv(t) \/ Panics(t, "inv") \/ Panics(t, "player")
  BY <1>1, NothingNew
     DEF ReadChest, WriteChest, Reply, ReadInv, WriteInv, Panics, worldVars, lockVars,
         sqlVars
<1>2. CASE PushChest(t)
  <2>1. PICK k : k = slotmsg[t].where
    OBVIOUS
  <2>2. PICK st : st = [row |-> ChestRow(seedread[t], k), val |-> chest[k]]
    OBVIOUS
  <2>3. /\ pc[t] = "pushchest" /\ queue' = Append(queue, st)
        /\ UNCHANGED <<udm, seed, db, csysLock, sets, pushes>>
    BY <1>2, <2>1, <2>2 DEF PushChest, worldVars
  <2>4. st \in Stmt
    <3>1. k \in Chests /\ chest[k] \in Inventories /\ seedread[t] \in Seeds
      BY <2>1, <2>3 DEF BInv, TInv, ArmInv, TypeOK, ItemTypeOK
    <3>2. QED
      BY <2>2, <3>1, RowsOfTables, ValsOfTables DEF Stmt, Vals
  <2>5. \A sd \in Seeds, s \in Spots : st.row # UdmRow(sd, s)
    BY <2>2, UdmRowInjective
  <2>6. QED
    BY <2>3, <2>4, <2>5, OtherRowPromises
<1>3. CASE PushInv(t)
  <2>1. PICK p : p = slotmsg[t].where
    OBVIOUS
  <2>2. PICK st : st = [row |-> InvRow(p), val |-> inv[p]]
    OBVIOUS
  <2>3. /\ pc[t] = "pushinv" /\ queue' = Append(queue, st)
        /\ UNCHANGED <<udm, seed, db, csysLock, sets, pushes>>
    BY <1>3, <2>1, <2>2 DEF PushInv, worldVars
  <2>4. st \in Stmt
    <3>1. p \in Players /\ inv[p] \in Inventories
      BY <2>1, <2>3 DEF BInv, TInv, ArmInv
    <3>2. QED
      BY <2>2, <3>1, RowsOfTables, ValsOfTables DEF Stmt, Vals
  <2>5. \A sd \in Seeds, s \in Spots : st.row # UdmRow(sd, s)
    BY <2>2, UdmRowInjective
  <2>6. QED
    BY <2>3, <2>4, <2>5, OtherRowPromises
<1>4. CASE CountPosition(t)
  <2>1. PICK p : p = slotmsg[t].where
    OBVIOUS
  <2>2. PICK st : st = [row |-> PosRow(p), val |-> Position]
    OBVIOUS
  <2>3. /\ pc[t] = "player" /\ (queue' = Append(queue, st) \/ queue' = queue)
        /\ UNCHANGED <<udm, seed, db, csysLock, sets, pushes>>
    BY <1>4, <2>1, <2>2 DEF CountPosition, worldVars, lockVars
  <2>4. st \in Stmt
    <3>1. p \in Players
      BY <2>1, <2>3 DEF BInv, TInv, ArmInv
    <3>2. QED
      BY <2>2, <3>1, RowsOfTables, ValsOfTables DEF Stmt, Vals
  <2>5. \A sd \in Seeds, s \in Spots : st.row # UdmRow(sd, s)
    BY <2>2, UdmRowInjective
  <2>6. CASE queue' = queue
    BY <2>3, <2>6, NothingNew
  <2>7. CASE queue' = Append(queue, st)
    BY <2>3, <2>4, <2>5, <2>7, OtherRowPromises
  <2>8. QED
    BY <2>3, <2>6, <2>7
<1>5. QED
  BY <1>1, <1>2, <1>3, <1>4

LEMMA StepKeepsPromise ==
  KInv /\ [Next]_vars => [Promise!Next]_<<udm, seed, Versions>>
<1> SUFFICES ASSUME KInv, [Next]_vars PROVE Promise!Next \/ Unseen
  BY DEF Unseen
<1>1. BInv /\ BInv' /\ SaveInv
  BY StepBlocks DEF KInv
<1>2. ASSUME NEW t \in Threads, Receive(t) \/ Work(t) \/ TakeoffPanics(t)
      PROVE  Promise!Next \/ Unseen
  <2>1. CASE Receive(t)
    BY <1>1, <2>1, ReceiptsUnseen
  <2>2. CASE BeginEdit(t) \/ EndTakeoff(t) \/ TakeoffPanics(t)
    BY <1>1, <2>2, LockStepsUnseen
  <2>3. CASE SetBlock(t) \/ PushBlock(t) \/ BeginTakeoff(t) \/ SaveBlock(t)
    BY <1>1, <2>3, SetBlockPromises, PushBlockPromises, BeginTakeoffPromises,
       SaveBlockPromises
  <2>4. CASE Work(t) /\ ~(BeginEdit(t) \/ EndTakeoff(t) \/ SetBlock(t) \/ PushBlock(t)
                           \/ BeginTakeoff(t) \/ SaveBlock(t))
    BY <1>1, <2>4, ItemStepsPromise DEF Work
  <2>5. QED
    BY <1>2, <2>1, <2>2, <2>3, <2>4
<1>3. CASE Sessions
  BY <1>3, NothingNew
     DEF Sessions, LoadInv, InsertSession, RemoveSession, worldVars, lockVars, sqlVars
<1>4. CASE SqlPop \/ SqlRetry \/ SqlPanic
  BY <1>4, NothingNew DEF SqlPop, SqlRetry, SqlPanic, worldVars, lockVars
<1>5. CASE SqlCommit
  BY <1>1, <1>5, CommitPromises
<1>6. CASE Restart
  BY <1>1, <1>6, RestartPromises
<1>7. CASE UNCHANGED vars
  BY <1>7, NothingNew DEF vars, worldVars, lockVars, sqlVars
<1>8. QED
  BY <1>2, <1>3, <1>4, <1>5, <1>6, <1>7 DEF Next, SqlStep

LEMMA InitKeepsPromise == Init => Promise!Init
<1> SUFFICES ASSUME Init PROVE Promise!Init
  OBVIOUS
<1>1. /\ db = [r \in Rows |-> Absent] /\ seed = InitialSeed
      /\ queue = <<>> /\ csysLock = Free
      /\ udm = [s \in Spots |-> db[UdmRow(InitialSeed, s)]]
  BY DEF Init, LoadedWorld
<1>2. udm = [s \in Spots |-> Absent]
  BY <1>1, RowsOfTables, StoreAssumption
<1>3. PICK q \in Seq(Stmt) : q = <<>> /\ Len(q) = 0
  BY EmptySeq
<1>4. Pending = q
  <2>1. MadeNotQueued = <<>>
    BY <1>1 DEF MadeNotQueued
  <2>2. QED
    BY <1>1, <1>3, <2>1, ConcatEmptySeq DEF Pending
<1>5. PICK vs : vs = VersionsOf(q, db)
  OBVIOUS
<1>6. vs \in Seq(Tabs) /\ Len(vs) = 1 /\ vs[1] = TablesAfter(q, db, 0)
  <2>1. /\ vs \in Seq(Tabs) /\ Len(vs) = Len(q) + 1
        /\ \A n \in 1..(Len(q) + 1) : vs[n] = TablesAfter(q, db, n - 1)
    BY <1>3, <1>5, VersionsAre
  <2>2. QED
    BY <1>3, <2>1
<1>7. \A r \in Seeds \X Spots : vs[1][r] = Absent
  <2>1. ASSUME NEW sd \in Seeds, NEW s \in Spots PROVE vs[1][<<sd, s>>] = Absent
    <3>1. UdmRow(sd, s) \in Rows
      BY RowsOfTables
    <3>2. db[UdmRow(sd, s)] = Absent
      BY <1>1, <3>1
    <3>3. \A i \in 1..Len(q) : q[i].row # UdmRow(sd, s)
      BY <1>3
    <3>4. 1 \in 1..Len(vs)
      BY <1>6
    <3>5. QED
      BY <1>5, <3>2, <3>3, <3>4, VersionsOfEmptyTable
  <2>2. QED
    BY <2>1
<1>8. vs[1] = [r \in Seeds \X Spots |-> Absent]
  BY <1>6, <1>7 DEF TablesAfter
<1>9. vs = <<[r \in Seeds \X Spots |-> Absent]>>
  <2>1. PICK x : x = vs[1]
    OBVIOUS
  <2>2. x \in Tabs
    BY <1>6, <2>1, TablesAreTabs
  <2>3. <<x>> \in Seq(Tabs) /\ Len(<<x>>) = 1 /\ <<x>>[1] = x
    BY <2>2
  <2>4. vs = <<x>>
    BY <1>6, <2>1, <2>3, SeqEqual
  <2>5. QED
    BY <1>8, <2>1, <2>4
<1>10. QED
  BY <1>1, <1>2, <1>4, <1>5, <1>9 DEF Promise!Init, Versions

(* Whatever the threads, the retries, the take-offs and the crashes, the   *)
(* tables go through the versions that the changes made, in the order in   *)
(* which they were made, and a restart shows the oldest version that is    *)
(* not superseded on disk: never a change without the ones before it.      *)
THEOREM StoreKeepsItsPromise == Spec => KeepsPromise
<1>1. Init => Promise!Init
  BY InitKeepsPromise
<1>2. KInv /\ [Next]_vars => [Promise!Next]_<<udm, seed, Versions>>
  BY StepKeepsPromise
<1>3. QED
  BY <1>1, <1>2, BlocksInductively, PTL DEF Spec, KeepsPromise, Promise!Spec
=============================================================================
