----------------------------- MODULE WorldStore -----------------------------
(***************************************************************************)
(* The shared world of the game server and its way to disk.                *)
(*                                                                         *)
(* Every connection has a thread that runs handle_client                   *)
(* (binaries/server/src/main.rs).  A message that changes the world, a     *)
(* chest or an inventory changes the copy in memory under a lock (csys,    *)
(* the DashMap entry of the chest, or the clients mutex) and, before the   *)
(* lock is released, pushes one row per change on queued_sql.  One SQL     *)
(* thread pops the rows and writes them to SQLite.  Nothing waits for that *)
(* thread, so a crash loses what is still queued, and the next start loads *)
(* what the database holds for the initial seed.                           *)
(*                                                                         *)
(* A step is a stretch of code that touches one shared object.  What the   *)
(* threads send back to the clients is not in this module.                 *)
(***************************************************************************)
EXTENDS Naturals, Sequences, FiniteSets

CONSTANTS
  Threads,      \* the handle_client threads
  Spots,        \* block positions
  Blocks,       \* block words (id and state bits)
  Chests,       \* positions that hold a chest
  Players,      \* client ids
  Slots,        \* slot numbers of an inventory or a chest
  Items,        \* the stacks, each with an identity of its own
  Seeds,        \* the seeds a run may draw
  InitialSeed,  \* 34481915: the seed every start loads
  Absent,       \* no row, no entry, no session
  Empty,        \* the slot (0, 0)
  Free,         \* a lock nobody holds
  Position,     \* a saved position: which one decides nothing here
  MaxRetries,   \* 30: handlesql gives a statement up after this many retries
  SavePosLimit, \* 10: a position is saved when saveposcounter exceeds this
  Kinds,        \* the message kinds the clients send in this instance
  MaxJobs,      \* bound: messages handled in a run
  MaxRestarts   \* bound: crashes of the server process

ASSUME StoreAssumption ==
  /\ InitialSeed \in Seeds
  /\ Absent \notin Blocks /\ Absent \notin [Slots -> Items \cup {Empty}]
  /\ Free \notin Threads
  /\ Empty \notin Items
  /\ MaxRetries \in Nat
  /\ SavePosLimit \in Nat
  /\ MaxJobs \in Nat
  /\ MaxRestarts \in Nat
  /\ Kinds \subseteq {"BlockSet", "MultiBlockSet", "RequestTakeoff",
                      "ChestSlot", "InvSlot", "PlayerUpdate"}

VARIABLES
  seed,       \* CURRSEED
  planet,     \* csys.planet_type
  udm,        \* USERDATAMAP: the blocks placed by players
  chest,      \* chest_reg: what each chest holds
  inv,        \* clients[id].inv, Absent while the id has no session
  saveposcounter, \* clients[id].saveposcounter
  csysLock,   \* the thread inside csys.write()
  entryLock,  \* per chest, the thread that holds its DashMap entry
  clientsLock,\* the thread inside clients.lock()
  pc,         \* where each thread is in the match on message_type
  sets,       \* per thread, the block changes still to be made
  pushes,     \* per thread, the block rows still to be queued
  slotmsg,    \* per thread, the slot update being handled
  wasthere,   \* per thread, the stack the update displaced
  seedread,   \* per thread, CURRSEED as the chest update read it
  toSave,     \* the blocks a take-off has still to write to the new table
  login,      \* the inventory the accept loop has read, or Absent
  hand,       \* the stacks on the clients' mouse slots
  queue,      \* queued_sql, with the row being executed still at the head
  sql,        \* the SQL thread: idle, executing the head, or dead
  retries,    \* retries of the row being executed
  db,         \* the committed rows of the files db and chestdb
  usedSeeds,  \* history: the seeds that were CURRSEED at some time
  unsaved,    \* history: the spots a failed take-off left out of the table
  lost,       \* history: stacks overwritten, in a reply that reached nobody,
              \* or gone with a crash
  touched,    \* history: sessions that have changed their inventory
  raced,      \* history: a session was opened on an outdated inventory
  jobs, restarts

lockVars == <<csysLock, entryLock, clientsLock>>
worldVars == <<seed, planet, udm, sets, pushes, toSave, usedSeeds, unsaved>>
itemVars == <<chest, inv, saveposcounter, slotmsg, wasthere, seedread, login,
              hand, lost, touched, raced>>
sqlVars == <<queue, sql, retries, db>>
vars == <<worldVars, itemVars, lockVars, sqlVars, pc, jobs, restarts>>

----------------------------------------------------------------------------
(* Rows and values.                                                        *)

NoSeed == "any"   \* the tables invs and poses are shared by all worlds
UdmRow(sd, s)   == <<"userdatamap", sd, s>>
ChestRow(sd, k) == <<"chest_registry", sd, k>>
InvRow(p)       == <<"invs", NoSeed, p>>
PosRow(p)       == <<"poses", NoSeed, p>>
Rows == ({"userdatamap"} \X Seeds \X Spots)
          \cup ({"chest_registry"} \X Seeds \X Chests)
          \cup ({"invs", "poses"} \X {NoSeed} \X Players)

Inventories == [Slots -> Items \cup {Empty}]
EmptyInv == [i \in Slots |-> Empty]

(* What a row of each table holds, and the rows with their values.         *)
ValsOf(row) == CASE row[1] = "userdatamap" -> Blocks
                 [] row[1] = "poses" -> {Position}
                 [] OTHER -> Inventories
Vals == Blocks \cup Inventories \cup {Position}
Stmt == {st \in [row : Rows, val : Vals] : st.val \in ValsOf(st.row)}
Edit == [spot : Spots, block : Blocks]

(* The value that row has once every row of q is written over d: the last  *)
(* one queued wins.                                                        *)
LatestIn(q, d, row, v) ==
  \/ \E i \in 1..Len(q) :
       /\ q[i].row = row /\ q[i].val = v
       /\ \A j \in 1..Len(q) : j > i => q[j].row # row
  \/ /\ \A i \in 1..Len(q) : q[i].row # row
     /\ d[row] = v

LatestIs(row, v) == LatestIn(queue, db, row, v)

----------------------------------------------------------------------------
(* Start-up: main loads the world of the initial seed and its chests; the  *)
(* sessions and the queue start empty.                                     *)

LoadedWorld(d) == [s \in Spots |-> d[UdmRow(InitialSeed, s)]]
LoadedChests(d) == [k \in Chests |-> d[ChestRow(InitialSeed, k)]]

(* What the accept loop reads for a player: STARTINGITEMS without a row.   *)
LoadedInv(d, p) == IF d[InvRow(p)] = Absent THEN EmptyInv ELSE d[InvRow(p)]

ItemsIn(i) == {i[n] : n \in Slots} \ {Empty}
ItemsOnDisk(d) ==
  UNION ({ItemsIn(d[ChestRow(InitialSeed, k)]) :
            k \in {c \in Chests : d[ChestRow(InitialSeed, c)] # Absent}}
         \cup {ItemsIn(LoadedInv(d, p)) : p \in Players})

NoMsg == [where |-> Absent, slot |-> Absent, item |-> Empty, bo |-> FALSE]
SlotMsg == [where : Chests \cup Players \cup {Absent}, slot : Slots \cup {Absent},
            item : Items \cup {Empty}, bo : BOOLEAN]

EachThread(v) == [t \in Threads |-> v]

(* A new installation: empty tables, and the stacks in the players' hands. *)
Init ==
  /\ db = [r \in Rows |-> Absent]
  /\ seed = InitialSeed /\ planet = 0
  /\ udm = LoadedWorld(db) /\ chest = LoadedChests(db)
  /\ inv = [p \in Players |-> Absent]
  /\ saveposcounter = [p \in Players |-> 0]
  /\ csysLock = Free /\ clientsLock = Free
  /\ entryLock = [k \in Chests |-> Free]
  /\ pc = EachThread("idle")
  /\ sets = EachThread(<<>>) /\ pushes = EachThread(<<>>)
  /\ slotmsg = EachThread(NoMsg) /\ wasthere = EachThread(Empty)
  /\ seedread = EachThread(InitialSeed)
  /\ toSave = {} /\ login = Absent
  /\ queue = <<>> /\ sql = "idle" /\ retries = 0
  /\ hand = Items /\ lost = {} /\ touched = {} /\ raced = FALSE
  /\ usedSeeds = {InitialSeed} /\ unsaved = {}
  /\ jobs = 0 /\ restarts = 0

(* The process dies at any point and is started again.  A stack on a mouse *)
(* slot is stored nowhere: a client connects once, when it starts.  What   *)
(* an outdated session wrote stays written (raced).                        *)
Restart ==
  /\ restarts < MaxRestarts
  /\ restarts' = restarts + 1
  /\ seed' = InitialSeed /\ planet' = 0
  /\ udm' = LoadedWorld(db) /\ chest' = LoadedChests(db)
  /\ inv' = [p \in Players |-> Absent]
  /\ saveposcounter' = [p \in Players |-> 0]
  /\ csysLock' = Free /\ clientsLock' = Free
  /\ entryLock' = [k \in Chests |-> Free]
  /\ pc' = EachThread("idle")
  /\ sets' = EachThread(<<>>) /\ pushes' = EachThread(<<>>)
  /\ slotmsg' = EachThread(NoMsg) /\ wasthere' = EachThread(Empty)
  /\ seedread' = EachThread(InitialSeed)
  /\ toSave' = {} /\ login' = Absent
  /\ queue' = <<>> /\ sql' = "idle" /\ retries' = 0
  /\ hand' = {} /\ lost' = Items \ ItemsOnDisk(db)
  /\ touched' = {} /\ unsaved' = {}
  /\ UNCHANGED <<db, usedSeeds, raced, jobs>>

----------------------------------------------------------------------------
(* The locks.  A definition whose name ends in a bug's description is that *)
(* bug planted in the definition after it: the properties below must not   *)
(* survive it.                                                             *)

CsysFree_ReadLock == TRUE
CsysFree == csysLock = Free

EntryFree_NoGuard(k) == TRUE
EntryFree(k) == entryLock[k] = Free

ClientsFree == clientsLock = Free

----------------------------------------------------------------------------
(* A message arrives: the thread enters the arm of its kind.               *)

Handle(t, kind, arm) ==
  /\ kind \in Kinds
  /\ pc[t] = "idle" /\ jobs < MaxJobs
  /\ jobs' = jobs + 1
  /\ pc' = [pc EXCEPT ![t] = arm]

ReceiveEdits(t, kind, edits) ==
  /\ Handle(t, kind, "block")
  /\ sets' = [sets EXCEPT ![t] = edits]
  /\ pushes' = [pushes EXCEPT ![t] = edits]
  /\ UNCHANGED <<seed, planet, udm, toSave, usedSeeds, unsaved, itemVars,
                 lockVars, sqlVars, restarts>>

ReceiveBlockSet(t) ==
  \E e \in Edit : ReceiveEdits(t, "BlockSet", <<e>>)

(* The two halves of a door, one above the other.                          *)
ReceiveMultiBlockSet(t) ==
  \E e1, e2 \in Edit : /\ e1.spot # e2.spot
                       /\ ReceiveEdits(t, "MultiBlockSet", <<e1, e2>>)

ReceiveTakeoff(t) ==
  /\ Handle(t, "RequestTakeoff", "takeoff")
  /\ UNCHANGED <<worldVars, itemVars, lockVars, sqlVars, restarts>>

(* ChestInvUpdate: the client puts the stack of its mouse slot, or nothing *)
(* (an id of 0), in a slot and asks (bo) for what was there.               *)
ReceiveSlot(t, kind, arm, where) ==
  /\ Handle(t, kind, arm)
  /\ \E n \in Slots, i \in hand \cup {Empty}, b \in BOOLEAN :
       /\ slotmsg' = [slotmsg EXCEPT ![t] =
                        [where |-> where, slot |-> n, item |-> i, bo |-> b]]
       /\ hand' = hand \ {i}
  /\ UNCHANGED <<worldVars, chest, inv, saveposcounter, wasthere, seedread,
                 login, lost, touched, raced, lockVars, sqlVars, restarts>>

ReceiveChestSlot(t) == \E k \in Chests : ReceiveSlot(t, "ChestSlot", "chest", k)

ReceiveInvSlot(t) ==
  \E p \in {q \in Players : inv[q] # Absent} : ReceiveSlot(t, "InvSlot", "inv", p)

ReceivePlayerUpdate(t) ==
  /\ Handle(t, "PlayerUpdate", "player")
  /\ \E p \in {q \in Players : inv[q] # Absent} :
       slotmsg' = [slotmsg EXCEPT ![t] = [NoMsg EXCEPT !.where = p]]
  /\ UNCHANGED <<worldVars, chest, inv, saveposcounter, wasthere, seedread,
                 login, hand, lost, touched, raced, lockVars, sqlVars, restarts>>

----------------------------------------------------------------------------
(* BlockSet and MultiBlockSet, under csys.write().                         *)

BeginEdit(t) ==
  /\ pc[t] = "block" /\ CsysFree
  /\ csysLock' = t
  /\ pc' = [pc EXCEPT ![t] = "edit"]
  /\ UNCHANGED <<worldVars, itemVars, entryLock, clientsLock, sqlVars, jobs,
                 restarts>>

SetBlock(t) ==
  /\ pc[t] = "edit" /\ sets[t] # <<>>
  /\ udm' = [udm EXCEPT ![Head(sets[t]).spot] = Head(sets[t]).block]
  /\ sets' = [sets EXCEPT ![t] = Tail(@)]
  /\ UNCHANGED <<seed, planet, pushes, toSave, usedSeeds, unsaved, itemVars,
                 lockVars, sqlVars, pc, jobs, restarts>>

(* The row carries CURRSEED as read under the lock; the lock is released   *)
(* with the last row.                                                      *)
PushBlock(t) ==
  /\ pc[t] = "edit" /\ sets[t] = <<>>
  /\ LET e == Head(pushes[t])
     IN /\ queue' = Append(queue, [row |-> UdmRow(seed, e.spot),
                                   val |-> e.block])
        /\ unsaved' = unsaved \ {e.spot}
  /\ pushes' = [pushes EXCEPT ![t] = Tail(@)]
  /\ IF Len(pushes[t]) = 1
       THEN /\ csysLock' = Free
            /\ pc' = [pc EXCEPT ![t] = "idle"]
       ELSE UNCHANGED <<csysLock, pc>>
  /\ UNCHANGED <<seed, planet, udm, sets, toSave, usedSeeds, itemVars,
                 entryLock, clientsLock, sql, retries, db, jobs, restarts>>

----------------------------------------------------------------------------
(* RequestTakeoff, under csys.write(): ChunkSystem::reset changes the seed *)
(* and the noise type and leaves USERDATAMAP alone; then every entry of it *)
(* is written, one statement at a time, to the table of the new seed.  The *)
(* seed is a random u32: one that was never used.                          *)

BeginTakeoff(t) ==
  /\ pc[t] = "takeoff" /\ CsysFree
  /\ \E sd \in Seeds \ usedSeeds :
       /\ seed' = sd
       /\ usedSeeds' = usedSeeds \cup {sd}
  /\ planet' = (planet + 1) % 2
  /\ toSave' = {s \in Spots : udm[s] # Absent}
  /\ unsaved' = {}
  /\ csysLock' = t
  /\ pc' = [pc EXCEPT ![t] = "save"]
  /\ UNCHANGED <<udm, sets, pushes, itemVars, entryLock, clientsLock, sqlVars,
                 jobs, restarts>>

SaveBlock(t) ==
  /\ pc[t] = "save"
  /\ \E s \in toSave :
       /\ db' = [db EXCEPT ![UdmRow(seed, s)] = udm[s]]
       /\ toSave' = toSave \ {s}
  /\ UNCHANGED <<seed, planet, udm, sets, pushes, usedSeeds, unsaved, itemVars,
                 lockVars, queue, sql, retries, pc, jobs, restarts>>

EndTakeoff(t) ==
  /\ pc[t] = "save" /\ toSave = {}
  /\ csysLock' = Free
  /\ pc' = [pc EXCEPT ![t] = "idle"]
  /\ UNCHANGED <<worldVars, itemVars, entryLock, clientsLock, sqlVars, jobs,
                 restarts>>

(* A statement fails: the unwrap in save_current_world_to_file ends the    *)
(* thread, and unwinding releases the lock.                                *)
TakeoffPanics(t) ==
  /\ pc[t] = "save" /\ toSave # {}
  /\ unsaved' = toSave
  /\ toSave' = {}
  /\ csysLock' = Free
  /\ pc' = [pc EXCEPT ![t] = "dead"]
  /\ UNCHANGED <<seed, planet, udm, sets, pushes, usedSeeds, itemVars,
                 entryLock, clientsLock, sqlVars, jobs, restarts>>

----------------------------------------------------------------------------
(* ChestInvUpdate on a chest, under its chest_reg entry.  CURRSEED is read *)
(* outside the csys lock, a moment before the row is pushed.               *)

Displaced_Always(t) == wasthere[t]
Displaced(t) == IF slotmsg[t].bo THEN wasthere[t] ELSE Empty
Overwritten(t) == (IF slotmsg[t].bo THEN {} ELSE {wasthere[t]}) \ {Empty}

ReadChest(t) ==
  LET k == slotmsg[t].where
      held == IF chest[k] = Absent THEN EmptyInv ELSE chest[k]
  IN /\ pc[t] = "chest" /\ EntryFree(k)
     /\ entryLock' = [entryLock EXCEPT ![k] = t]
     /\ chest' = [chest EXCEPT ![k] = held]
     /\ wasthere' = [wasthere EXCEPT ![t] = held[slotmsg[t].slot]]
     /\ pc' = [pc EXCEPT ![t] = "setchest"]
     /\ UNCHANGED <<worldVars, inv, saveposcounter, slotmsg, seedread, login,
                    hand, lost, touched, raced, csysLock, clientsLock, sqlVars,
                    jobs, restarts>>

WriteChest(t) ==
  LET k == slotmsg[t].where
  IN /\ pc[t] = "setchest"
     /\ chest' = [chest EXCEPT ![k][slotmsg[t].slot] = slotmsg[t].item]
     /\ seedread' = [seedread EXCEPT ![t] = seed]
     /\ lost' = lost \cup Overwritten(t)
     /\ pc' = [pc EXCEPT ![t] = "pushchest"]
     /\ UNCHANGED <<worldVars, inv, saveposcounter, slotmsg, wasthere, login,
                    hand, touched, raced, lockVars, sqlVars, jobs, restarts>>

PushChest(t) ==
  LET k == slotmsg[t].where
  IN /\ pc[t] = "pushchest"
     /\ queue' = Append(queue, [row |-> ChestRow(seedread[t], k),
                                val |-> chest[k]])
     /\ entryLock' = [entryLock EXCEPT ![k] = Free]
     /\ pc' = [pc EXCEPT ![t] = "reply"]
     /\ UNCHANGED <<worldVars, itemVars, csysLock, clientsLock, sql, retries,
                    db, jobs, restarts>>

(* The displaced stack travels back to the player in the rebroadcast under *)
(* clients.lock().  A session that has gone or is not ready is passed over *)
(* and the error of the non-blocking write_all is dropped: then the stack  *)
(* is in neither place.                                                    *)
HasSession(t) ==
  \E p \in Players : inv[p] # Absent /\ slotmsg[t].where \in Chests \cup {p}

Reply(t) ==
  LET back == {Displaced(t)} \ {Empty}
  IN /\ pc[t] = "reply" /\ ClientsFree
     /\ \/ HasSession(t) /\ hand' = hand \cup back /\ UNCHANGED lost
        \/ lost' = lost \cup back /\ UNCHANGED hand
     /\ wasthere' = [wasthere EXCEPT ![t] = Empty]
     /\ pc' = [pc EXCEPT ![t] = "idle"]
     /\ UNCHANGED <<worldVars, chest, inv, saveposcounter, slotmsg, seedread,
                    login, touched, raced, lockVars, sqlVars, jobs, restarts>>

----------------------------------------------------------------------------
(* ChestInvUpdate on the player's own inventory and PlayerUpdate, under    *)
(* clients.lock().  Both unwrap clients.get(id): without a session the     *)
(* thread ends there.                                                      *)

Panics_Waits(t, arm) == FALSE
Panics(t, arm) ==
  /\ pc[t] = arm /\ ClientsFree
  /\ inv[slotmsg[t].where] = Absent
  /\ pc' = [pc EXCEPT ![t] = "dead"]
  /\ lost' = lost \cup ({slotmsg[t].item} \ {Empty})
  /\ UNCHANGED <<worldVars, chest, inv, saveposcounter, slotmsg, wasthere,
                 seedread, login, hand, touched, raced, lockVars, sqlVars, jobs,
                 restarts>>

ReadInv(t) ==
  LET p == slotmsg[t].where
  IN /\ pc[t] = "inv" /\ ClientsFree
     /\ inv[p] # Absent
     /\ clientsLock' = t
     /\ wasthere' = [wasthere EXCEPT ![t] = inv[p][slotmsg[t].slot]]
     /\ pc' = [pc EXCEPT ![t] = "setinv"]
     /\ UNCHANGED <<worldVars, chest, inv, saveposcounter, slotmsg, seedread,
                    login, hand, lost, touched, raced, csysLock, entryLock,
                    sqlVars, jobs, restarts>>

WriteInv(t) ==
  LET p == slotmsg[t].where
  IN /\ pc[t] = "setinv"
     /\ inv' = [inv EXCEPT ![p][slotmsg[t].slot] = slotmsg[t].item]
     /\ touched' = touched \cup {p}
     /\ lost' = lost \cup Overwritten(t)
     /\ pc' = [pc EXCEPT ![t] = "pushinv"]
     /\ UNCHANGED <<worldVars, chest, saveposcounter, slotmsg, wasthere,
                    seedread, login, hand, raced, lockVars, sqlVars, jobs,
                    restarts>>

PushInv(t) ==
  LET p == slotmsg[t].where
  IN /\ pc[t] = "pushinv"
     /\ queue' = Append(queue, [row |-> InvRow(p), val |-> inv[p]])
     /\ clientsLock' = Free
     /\ pc' = [pc EXCEPT ![t] = "reply"]
     /\ UNCHANGED <<worldVars, itemVars, csysLock, entryLock, sql, retries, db,
                    jobs, restarts>>

CountPosition(t) ==
  LET p == slotmsg[t].where
      due == saveposcounter[p] > SavePosLimit
  IN /\ pc[t] = "player" /\ ClientsFree
     /\ inv[p] # Absent
     /\ saveposcounter' = [saveposcounter EXCEPT ![p] = IF due THEN 0 ELSE @ + 1]
     /\ queue' = IF due THEN Append(queue, [row |-> PosRow(p), val |-> Position])
                        ELSE queue
     /\ pc' = [pc EXCEPT ![t] = "idle"]
     /\ UNCHANGED <<worldVars, chest, inv, slotmsg, wasthere, seedread, login,
                    hand, lost, touched, raced, lockVars, sql, retries, db,
                    jobs, restarts>>

----------------------------------------------------------------------------
(* The accept loop (the main thread) reads the inventory of the greeting's *)
(* id from chestdb and only later inserts the session, in place of one     *)
(* with the same id; a handler removes the session of a client that left.  *)

LoadInv(p) ==
  /\ login = Absent
  /\ login' = [id |-> p, inv |-> LoadedInv(db, p)]
  /\ UNCHANGED <<worldVars, chest, inv, saveposcounter, slotmsg, wasthere,
                 seedread, hand, lost, touched, raced, lockVars, sqlVars, pc,
                 jobs, restarts>>

Current(p, i) ==
  \/ LatestIs(InvRow(p), i)
  \/ i = EmptyInv /\ LatestIs(InvRow(p), Absent)

InsertSession ==
  /\ login # Absent /\ ClientsFree
  /\ inv' = [inv EXCEPT ![login.id] = login.inv]
  /\ saveposcounter' = [saveposcounter EXCEPT ![login.id] = 0]
  /\ touched' = touched \ {login.id}
  /\ raced' = (raced \/ ~Current(login.id, login.inv))
  /\ login' = Absent
  /\ UNCHANGED <<worldVars, chest, slotmsg, wasthere, seedread, hand, lost,
                 lockVars, sqlVars, pc, jobs, restarts>>

RemoveSession(p) ==
  /\ inv[p] # Absent /\ ClientsFree
  /\ inv' = [inv EXCEPT ![p] = Absent]
  /\ touched' = touched \ {p}
  /\ UNCHANGED <<worldVars, chest, saveposcounter, slotmsg, wasthere, seedread,
                 login, hand, lost, raced, lockVars, sqlVars, pc, jobs, restarts>>

----------------------------------------------------------------------------
(* The SQL thread: handlesql on one row after the other.                   *)

SqlPop ==
  /\ sql = "idle" /\ queue # <<>>
  /\ sql' = "executing" /\ retries' = 0
  /\ UNCHANGED <<worldVars, itemVars, lockVars, queue, db, pc, jobs, restarts>>

(* The row at position i is written and leaves the queue.                  *)
WriteRow(i) ==
  /\ sql = "executing"
  /\ db' = [db EXCEPT ![queue[i].row] = queue[i].val]
  /\ queue' = SubSeq(queue, 1, i - 1) \o SubSeq(queue, i + 1, Len(queue))
  /\ sql' = "idle" /\ retries' = 0
  /\ UNCHANGED <<worldVars, itemVars, lockVars, pc, jobs, restarts>>

SqlCommit_NewestFirst == WriteRow(Len(queue))
SqlCommit == WriteRow(1)

GivesUp_OneLate(n) == n > MaxRetries + 1
GivesUp(n) == n > MaxRetries

SqlRetry_SkipsRow ==
  /\ sql = "executing"
  /\ queue' = Tail(queue)
  /\ sql' = "idle" /\ retries' = 0
  /\ UNCHANGED <<worldVars, itemVars, lockVars, db, pc, jobs, restarts>>

SqlRetry_Recounts ==
  /\ sql = "executing"
  /\ sql' = "idle" /\ retries' = 0
  /\ UNCHANGED <<worldVars, itemVars, lockVars, queue, db, pc, jobs, restarts>>

(* The statement fails and is tried again; past MaxRetries the thread      *)
(* panics and nothing is ever written again.                               *)
SqlRetry ==
  /\ sql = "executing"
  /\ retries' = retries + 1
  /\ sql' = IF GivesUp(retries') THEN "dead" ELSE sql
  /\ UNCHANGED <<worldVars, itemVars, lockVars, queue, db, pc, jobs, restarts>>

(* An unwrap fails (open, CREATE TABLE, prepare): no retry.                *)
SqlPanic ==
  /\ sql = "executing"
  /\ sql' = "dead"
  /\ UNCHANGED <<worldVars, itemVars, lockVars, queue, retries, db, pc, jobs,
                 restarts>>

----------------------------------------------------------------------------

Receive(t) ==
  \/ ReceiveBlockSet(t) \/ ReceiveMultiBlockSet(t) \/ ReceiveTakeoff(t)
  \/ ReceiveChestSlot(t) \/ ReceiveInvSlot(t) \/ ReceivePlayerUpdate(t)

(* The steps a thread takes on its own once it has a message.              *)
Work(t) ==
  \/ BeginEdit(t) \/ SetBlock(t) \/ PushBlock(t)
  \/ BeginTakeoff(t) \/ SaveBlock(t) \/ EndTakeoff(t)
  \/ ReadChest(t) \/ WriteChest(t) \/ PushChest(t) \/ Reply(t)
  \/ ReadInv(t) \/ WriteInv(t) \/ PushInv(t) \/ CountPosition(t)
  \/ Panics(t, "inv") \/ Panics(t, "player")

Sessions == (\E p \in Players : LoadInv(p) \/ RemoveSession(p)) \/ InsertSession

SqlStep == SqlPop \/ SqlCommit \/ SqlRetry \/ SqlPanic

Next ==
  \/ \E t \in Threads : Receive(t) \/ Work(t) \/ TakeoffPanics(t)
  \/ Sessions
  \/ SqlStep
  \/ Restart

Spec == Init /\ [][Next]_vars

(* The operating system runs every thread; handlers and statements that    *)
(* can go on do go on.  Messages, players, failures and crashes owe        *)
(* nothing.                                                                *)
Fairness ==
  /\ \A t \in Threads : WF_vars(Work(t))
  /\ WF_vars(SqlPop) /\ WF_vars(SqlStep)

FairSpec == Spec /\ Fairness

----------------------------------------------------------------------------
(* Properties.                                                             *)

PCs == {"idle", "dead", "block", "edit", "takeoff", "save", "chest",
        "setchest", "pushchest", "inv", "setinv", "pushinv", "reply", "player"}

(* Every variable has its type, whatever the handlers and the SQL thread   *)
(* do; in particular handlesql stops counting retries when it gives up,    *)
(* and every row holds values of its table.                                *)
WorldTypeOK ==
  /\ seed \in Seeds /\ usedSeeds \in SUBSET Seeds
  /\ planet \in {0, 1}
  /\ udm \in [Spots -> Blocks \cup {Absent}]
  /\ sets \in [Threads -> Seq(Edit)] /\ pushes \in [Threads -> Seq(Edit)]
  /\ toSave \in SUBSET Spots /\ unsaved \in SUBSET Spots

ItemTypeOK ==
  /\ chest \in [Chests -> Inventories \cup {Absent}]
  /\ inv \in [Players -> Inventories \cup {Absent}]
  /\ saveposcounter \in [Players -> 0..(SavePosLimit + 1)]
  /\ slotmsg \in [Threads -> SlotMsg]
  /\ wasthere \in [Threads -> Items \cup {Empty}]
  /\ seedread \in [Threads -> Seeds]
  /\ login \in [id : Players, inv : Inventories] \cup {Absent}
  /\ hand \in SUBSET Items /\ lost \in SUBSET Items
  /\ touched \in SUBSET Players /\ raced \in BOOLEAN

LockTypeOK ==
  /\ csysLock \in Threads \cup {Free}
  /\ entryLock \in [Chests -> Threads \cup {Free}]
  /\ clientsLock \in Threads \cup {Free}

SqlTypeOK ==
  /\ queue \in Seq(Stmt)
  /\ sql \in {"idle", "executing", "dead"}
  /\ retries \in 0..(MaxRetries + 1)
  /\ db \in [Rows -> Vals \cup {Absent}]
  /\ \A r \in Rows : db[r] \in ValsOf(r) \cup {Absent}

TypeOK ==
  /\ WorldTypeOK /\ ItemTypeOK /\ LockTypeOK /\ SqlTypeOK
  /\ pc \in [Threads -> PCs]
  /\ jobs \in Nat /\ restarts \in Nat

(* Whoever is inside csys.write() has nothing left to do to spot s.        *)
Settled(s) ==
  \/ csysLock = Free
  \/ /\ s \notin toSave
     /\ \A i \in 1..Len(pushes[csysLock]) : pushes[csysLock][i].spot # s

(* The table of the current seed, with the queue written over it, is the   *)
(* map of placed blocks: whatever the order in which the handlers got the  *)
(* lock, a queue that drains leaves on disk the block every player sees.   *)
(* A spot that a failed take-off left out is the only exception, until it  *)
(* is edited again.                                                        *)
BlocksRecoverable ==
  \A s \in Spots \ unsaved :
    Settled(s) => LatestIs(UdmRow(seed, s), udm[s])

(* The same for a chest nobody is changing and for the inventory of a      *)
(* session that has changed it: the last snapshot queued, or the row in    *)
(* the table of one of the worlds, holds every concurrent change made to   *)
(* it.                                                                     *)
ChestsRecoverable ==
  \A k \in Chests :
    entryLock[k] = Free =>
      \E sd \in usedSeeds : LatestIs(ChestRow(sd, k), chest[k])

InventoriesRecoverable ==
  \A p \in touched :
    clientsLock = Free => LatestIs(InvRow(p), inv[p])

SnapshotsRecoverable == ChestsRecoverable /\ InventoriesRecoverable

(* The places a stack can be in: a mouse slot, a message being handled, a  *)
(* chest, the inventory of a session or, without one, the inventory the    *)
(* next session will load.                                                 *)
InMessages(i) == { t \in Threads :
  \/ pc[t] \in {"chest", "setchest", "inv", "setinv"} /\ slotmsg[t].item = i
  \/ pc[t] \in {"pushchest", "pushinv", "reply"} /\ Displaced(t) = i }
InChests(i) == { kn \in Chests \X Slots :
  chest[kn[1]] # Absent /\ chest[kn[1]][kn[2]] = i }
InInventories(i) == { pn \in Players \X Slots :
  \E v \in Inventories : /\ v[pn[2]] = i
                         /\ IF inv[pn[1]] # Absent THEN inv[pn[1]] = v
                                                   ELSE Current(pn[1], v) }
Copies(i) ==
  Cardinality(InMessages(i)) + Cardinality(InChests(i))
    + Cardinality(InInventories(i)) + (IF i \in hand THEN 1 ELSE 0)

(* Players who exchange stacks with the same slots at the same time        *)
(* never duplicate one, and lose one only in the ways lost records: it was *)
(* overwritten by an update that asked for nothing back (bo), the reply    *)
(* that carried it found no ready session or no room in the stream, the    *)
(* thread of the update ended for want of a session, or the process        *)
(* crashed.  Every other stack is in exactly one place.  Only a session    *)
(* opened on an outdated inventory, or the chests of another world, can    *)
(* break this.                                                             *)
ItemsConserved ==
  (~raced /\ usedSeeds = {InitialSeed}) =>
    \A i \in Items : Copies(i) = IF i \in lost THEN 0 ELSE 1

(* Whatever the moment of a crash, no stack is on disk twice: a stack      *)
(* leaves its old place in the database before it is in its new one.       *)
OnDisk(i) ==
  Cardinality({kn \in Chests \X Slots :
     /\ db[ChestRow(InitialSeed, kn[1])] # Absent
     /\ db[ChestRow(InitialSeed, kn[1])][kn[2]] = i})
  + Cardinality({pn \in Players \X Slots : LoadedInv(db, pn[1])[pn[2]] = i})
DiskNeverDuplicates ==
  (~raced /\ usedSeeds = {InitialSeed}) => \A i \in Items : OnDisk(i) <= 1

(* The SQL thread keeps emptying the queue, unless it has died.            *)
QueueDrains == []<>(queue = <<>> \/ sql = "dead")

(* A handler gets through every message, whoever holds the locks and       *)
(* whatever fails around it.                                               *)
Resting(t) == pc[t] \in {"idle", "dead"}
HandlersFinish == \A t \in Threads : []<>Resting(t)
=============================================================================
