# Distant Garden in TLA+

Distant Garden (`voxelland` in its sources) is a voxel game: a client with a
single-player mode, and a server that keeps a shared world in memory and in
SQLite. This directory models the parts of it whose correctness depends on the
order in which things happen, checks them with TLC on small instances and proves
what matters most with TLAPS.

Line numbers refer to this repository. `main.rs` is
`binaries/server/src/main.rs`; `game.rs`, `chunk.rs` and the others are in
`lib/src`.

At this commit the networking is being rewritten: the message types the server
program uses are commented out in `server_types.rs`, and `newserver.rs` and
`newclient.rs`, which will take over on top of `core/jeffy_quintet`, receive
messages and do nothing with them yet. The server is modelled as `main.rs` has
it, which is the only place where its behaviour is written down, and
`jeffy_quintet`, the library the new one will run on, as it is.

## The system

| Component | State | Operations | Interacts with |
|---|---|---|---|
| Message handlers (`handle_client`, one thread per connection) | place in the loop, the message in hand | one arm per message type, then the rebroadcast | all shared objects of the server |
| World (`ChunkSystem` behind an `RwLock`) | `CURRSEED`, planet type, `USERDATAMAP` | `set_block`, `reset`, `save_current_world_to_file`, `load_world_from_file`, `blockat` | handlers, start-up |
| Chests (`chest_reg`, a `DashMap`) | what each chest holds | take and put a slot, load | handlers, start-up |
| Sessions (`clients`, a map behind a mutex) | per id: stream, inventory, ready flag, counters | insert, look up, update, remove | accept loop, handlers |
| Streams (non-blocking TCP, each behind a mutex) | bytes in flight both ways | read one message, `write_all`, blocking world transfer | handlers of every connection |
| SQL queue and thread (`queued_sql`, `handlesql`) | queued rows, retries | pop, execute, retry, panic | handlers push, SQLite stores |
| Accept loop (main thread) | the connection being greeted | greeting, load of the inventory, insert, spawn | sessions, SQLite |
| Single player (`Game`, `Drops`) | inventory row, mouse slot, chests, drops, crafting list, world, health | clicks, keys, one frame | the local `ChunkSystem` |
| Physics of the player (`Game::update_movement_and_physics`, `CollCage`) | position and velocity, what the cage has read, the clocks of a fall, health | one frame, keys, blocks set under way | the local `ChunkSystem`, single player |
| Window loop (`WindowAndKeyContext`, `Game::keyboard`, `Game::mouse_button`) | who has the mouse, open windows and menu pages, bindings, actions that are on, the settings file | one turn of drawing and events, rebinding, save and load | single player, the settings file |
| Chunk queues (`chunk.rs`, `attend_chunk_queues`, `attend_needed_spots`) | facades, `takencare`, four queues of requests, two of finished meshes, geobank, chunk memories | request, move and rebuild, rebuild, upload | two systems that may run in parallel, the main thread |
| Light (`chunk.rs`) | lightmap: rays per block and origin | take back, flood, look for intercepted light | the rebuilds, blocks set by the main thread |
| Automata (`do_automata`) | queue of change sets | look for water that moves, queue changes | a thread of its own, both chunk systems |
| `jeffy_quintet` channels | per channel a bounded queue, a close signal and a task | open, close, send, receive, finish | tasks of one connection, the peer |
| `jeffy_quintet` client connection | connection states, slots of channels, the id that is awaited | connect, reconnect, disconnect, drop, one update per frame | its tasks, the server |
| `jeffy_quintet` server endpoint | clients, opened channels, ids, the default channel | start, stop, accept, disconnect one or all, open and close channels, one update per frame | tasks of every client |
| Certificates (`jeffy_quintet`) | the endpoint's certificate and key files, the client's file of known hosts | load or make a certificate, trust on first use, ask the application | connections that begin |

What makes each of them hard:

* **World, chests, inventories.** A change is made in memory under one of three
  different locks (the world's, the chest's, the sessions') and becomes a row in
  one common queue. Nobody waits for the row to be written. The thread that
  writes it retries, gives up or panics; the process may die at any point.
  Correct means: memory, queue and tables tell the same story; a crash cuts the
  story short and never changes its order; no stack of items is duplicated or
  lost by players who touch the same slots.
* **Sessions and streams.** Every handler writes to every stream. Correct means:
  nothing gets into the middle of a transfer, joiners are left alone until they
  are ready, all clients see edits in one order, a client that leaves is
  forgotten, and no client can stop the others.
* **Single player.** One thread, so there are no interleavings, but many small
  handlers change the same slots and blocks, each with its own early returns.
  Correct means: no sequence of clicks duplicates or loses items or leaves a
  malformed slot, and none tears a door but in build mode, which stamps models
  over whatever is there and pays for nothing.
* **Physics of the player.** A frame corrects its move with what the frame before
  read, and a fall is timed by several clocks, each reset in another branch.
  Correct means: a landing costs what this fall earned, and the health stays in
  its range.
* **Window loop.** The flags of the windows are read once per turn and used for
  every event of it; bindings move between two maps. Correct means: the mouse
  always finds back to the game, an action is on while its key is held and off
  afterwards, and no rebinding or restart leaves an action without an input.
* **Chunk queues and light.** Blocks change at any time, also while the mesh or
  the light of their chunk is being made, and a facade may be on its way to
  another chunk. Correct means: in the end what is drawn is what is there, every
  chunk near the player is drawn once, and light is where the blocks let it be.
* **`jeffy_quintet`.** Every connection has half a dozen tasks that learn of its
  end in different orders, while the synchronous side acts on what it was told a
  frame ago. Correct means: each type of channel keeps its promise, a close waits
  for what is queued and completes, connects and disconnects are announced once
  and in pairs, and both sides agree on channels and ids.
* **Certificates.** Files rewritten in place, by several connections at once and
  by a process that may end between two writes. Correct means: what was trusted
  is kept, and a changed certificate is never taken silently.

`PROJECT.json` lists every component with what is modelled of it, the hazards of
the code at their lines with the properties that cover them, and for each
definition the lines it models.

## Modules

| Module | What it is |
|---|---|
| `WorldStore` | the server's world, chests and inventories, their locks, the SQL queue and thread, sessions as far as they carry an inventory, crash and restart |
| `PrefixStore` | what the server promises about its worlds, in seven actions |
| `WorldPromise` | the refinement mapping from `WorldStore` to `PrefixStore` |
| `WorldStoreProofs` | theorems about `WorldStore` |
| `Sessions` | the accept loop, the `clients` map, the handler's loop, the streams and the rebroadcast |
| `SessionsProofs` | theorems about `Sessions` |
| `Inventory` | the single player's slots, crafting, chests, drops, doors, stamped models, food and death |
| `Player` | how the player stands, jumps, swims, climbs, falls and is hurt in a column of blocks |
| `Controls` | the window loop: windows, menu pages, the mouse, keys, bindings and their file |
| `ClientProofs` | theorems about `Player` and about `Controls` |
| `ChunkRebuild` | the client's facades, rebuild queues, the two systems that attend them, and the upload of meshes |
| `ChunkRebuildProofs` | theorems about `ChunkRebuild` |
| `Light` | light passes over chunks while blocks and patches of blocks are set, and what the faces of the meshes show of it |
| `GameProofs` | theorems about `Inventory` and about `Light` |
| `QuintetChannels` | one end of a `jeffy_quintet` connection with the tasks of its channels |
| `ChannelPromise` | what the three types of channels promise, in four actions |
| `QuintetChannelsProofs` | theorems about `QuintetChannels`, among them that it implements `ChannelPromise` |
| `QuintetConnections` | the client's connections and the server's endpoint, their tables and updates, and the tasks between them as far as they start and end |
| `QuintetConnectionsProofs` | theorems about `QuintetConnections` |
| `Certificates` | the files of certificates and known hosts, trust on first use |
| `CertificatesProofs` | theorems about `Certificates` |
| `MC...` | small instances: `MCWorldBlocks`, `MCWorldItems`, `MCSessions`, `MCSessionsLive`, `MCCraft`, `MCPlayer`, `MCControls`, `MCChunkRebuild`, `MCLight`, `MCQuintetChannels`, `MCQuintetConnections`, `MCCertificates` |

### WorldStore

A step is a stretch of code that touches one shared object. A thread takes a
message (`Receive...`, any message a client may send), enters the arm of its kind
and goes through it:

* `BlockSet`, `MultiBlockSet` (350-376): `BeginEdit` takes `csys.write()`, one
  `SetBlock` per block, one `PushBlock` per row; the lock goes with the last row.
* `RequestTakeoff` (377-387): `BeginTakeoff` is `ChunkSystem::reset`, which
  changes seed and planet and leaves `USERDATAMAP` alone; `SaveBlock` writes one
  block to the table of the new seed, `EndTakeoff` releases the lock,
  `TakeoffPanics` is an `unwrap` in the middle. A take-off draws a random `u32`:
  it is taken to be one that was never drawn before.
* `ChestInvUpdate` on a chest (219-243): `ReadChest`, `WriteChest`, `PushChest`
  under the entry of the chest; `CURRSEED` is read in the middle, without the
  world's lock. On the own inventory (244-258): `ReadInv`, `WriteInv`, `PushInv`
  under the sessions' lock, or `Panics` when the session is gone. `Reply` is the
  part of the rebroadcast that brings the displaced stack back to the player, or
  fails to: a session that has gone or is not ready is passed over (438), and the
  error of the non-blocking write is dropped (441).
* `PlayerUpdate` (262-288): `CountPosition`, or `Panics`.

The SQL thread is `SqlPop`, `SqlCommit`, `SqlRetry`, `SqlPanic`. A row stays at
the head of `queue` while it is executed. The accept loop is `LoadInv` and
`InsertSession`; `RemoveSession` is the end of a handler. `Restart` is a crash of
the process and `main` up to the first connection (518-554).

Abstractions: a block, a position and a stack are model values. A stack has an
identity, which the program does not give it; this is how losing and duplicating
one can be said. Clients put the stack of their mouse slot, or nothing, into a
slot. The stacks of `STARTINGITEMS`, which every new id is given, have no
identity: for `ItemsConserved` a new inventory is empty. Tables are `db`, a
function from rows (table, seed, key) to values. A crash is one of the process,
not of the machine (`PRAGMA synchronous = OFF` promises nothing for the latter).
History variables: `usedSeeds`, `unsaved` (what a failed take-off left out),
`touched`, `raced` (a session was opened on an outdated inventory) and `lost`. A
stack is `lost` in one of four ways, and `ItemsConserved` says that there is no
fifth: an update that asks for nothing back overwrites it, the reply that carries
it reaches nobody, the thread of its update ends for want of a session, or the
process crashes. The second and the third are faults of the code which no document
denies, so they are hazards in `PROJECT.json` and not findings. A restart forgets
all of them but `usedSeeds` and `raced`: a stack that an outdated session has
doubled may have reached the disk, and a new start loads it twice.

### PrefixStore

The abstract store has the live world, its seed and a sequence of `versions` of
the tables: the first is durable, the last is what the tables become. `Change`
appends a version, `BecomeDurable` drops the oldest, `Crash` keeps only it.
`LeaveFor` and `CarryOver` are a take-off. A row of a chest, an inventory or a
position changes no table of blocks: while it waits in the queue it repeats the
version before it (`OtherRow`), and that version can be anywhere in the sequence,
since such a row is queued without the lock of the world and may overtake those of
changes already made. `WorldPromise` instantiates the store with `live <- udm` and
`versions <- Versions`: version n has the first n - 1 rows of `Pending` written over
the database, and `Pending` is the queue followed by the rows of the changes that
the holder of the lock has made and not queued yet.

### Sessions

A handler's turn is `Lookup` (its stream, by id), `Read` (a message, nothing, or
the end of the file), the arm of the message, then `BeginSend`, one `SendTo` per
ready session, `EndSend`, and `Remove` if it is to stop. `Accept` and `Refuse`
are the accept loop. A stream is what its client sent and nobody read (`inbox`),
the writes that fill its buffer (`unread`), and the history `wire` of what the
client can read. `Write` is `write_all` on a non-blocking stream: it fits, or
nothing is written, or a part is, and then the rest of the stream is garbage
(`torn`); the error is ignored, as in the code. `RequestUdm` (133-159) blocks:
its two writes wait for room, with the stream locked. `RequestSeed` (205) and
`RequestUdm` unwrap, and a thread that panics leaves its session behind.

"Edit" stands for all messages that are only handed on. `Requests` selects the
kinds an instance sends, `Recorded` the kinds `wire` keeps, `Leavers` the clients
that may leave. `RequestPt` has the form of `ReqChestReg`, two answers under a
lock each, and is left out. A thread that finds no session spins; spinning has no
step.

Two weaknesses of the protocol are outside the model. A read is taken as one
message (101): two messages in one segment become one, and a message cut in two
becomes two that do not parse. And the header and the file of `ReqChestReg` are
written under separate locks 20 ms apart (189), so a broadcast may come between
them once the client is ready; `JoinsWell` speaks of the world transfer and of
what comes before a client's own first `PlayerUpdate`.

`PlayerUpdate` (267-270) makes ready whatever session its id has at the moment. A
thread of an older connection, which has read its message before a second
connection replaced the session, so makes the new one ready too soon, and
broadcasts come to a client that still waits for its files. `updated` are the
connections a `PlayerUpdate` of their own was handled of, `early` those made ready
by another. `JoinsWell` has three parts: `UdmWhole` (nothing comes between the
header of a world file and the file), `JoinUndisturbed` (broadcasts only to
`updated` or `early` connections), and `EarlyOnlyByTwins` (the exception needs an
id that was served twice at a time).

### Inventory

One action per click, key or frame, each with everything it does, including the
new list of recipes where the code makes one (and not where it does not):
`CraftOne`, `CraftAll` (with ctrl), `UpdateInventory`, `CraftKey`,
`CloseCrafting`, `Exit`, `PickUp`, `Break`, `UseDoor`, `UseChest`, `UseTable`,
`UseNothing`, `Place`, `BuildKey`, `Build`, `ClickChest`, `ClickInv`,
`TakeDamage`. `UpdateInventory` is a frame: the flag `inventory.dirty` is set from
the start and never reset, so every frame makes the list anew, whether crafting is
open or not. Ids and recipes are the game's. `Games` are the columns a game begins
with and the deaths and stamps it has behind it; a game with a crystal, one with
logs, one with bamboo and one in which a model is stamped keep the instance small.
The world is a column of blocks with rock above and below it: all that crafting,
doors and crystals need is what is above and below. Directions and pairs of doors
(which only decide how a door looks) and multiplayer (in which these handlers
change nothing at this commit) are left out. The player's position is left out
too: a player may reach any block of the column. The list of recipes of the recipe
book is left out; `recipe.0.len() - 2` (game.rs 2313) underflows for a recipe of
one ingredient.

In build mode (`BuildKey`, 7833) a right click stamps the model that is shown
(`Build`, 7698-7726): its blocks replace whatever stands there, half a door too, and
nothing is taken from the inventory. The game's models (1213-1222) consist of the
ids 5, 8, 11, 20, 43 and 44, none of them a door; `Builds` is any set of models
without doors. Two properties have exceptions for it, and only for it.
`DoorsWhole` is an action property: a step tears a door only by stamping over its
other half, or by changing a half torn before that looks for its other half there,
as breaking and toggling do (`OtherHalf`): half a door beside a new one breaks it.
`NothingFromNothing` exempts the ids of the model that was stamped. A door is
counted by its lower half, and by its upper one where the lower is missing, so a
half that is left counts as the door it gives when broken.

Crafting all of a recipe (with ctrl) into a row without room for the result loses
one set of ingredients. `craft_in_local_inv` (game.rs 3212-3284) speaks of "an
imaginary clone" at 3232, but subtracts from the row that becomes the player's.
`CraftAllLosesOneAtMost` bounds the damage, `CraftIsAllOrNothing` shows that a
single craft is right. The loop (`while morepossible`, 3289) is the function
`AfterRounds`; `Rounds` is a number of turns after which it has always ended, since
each turn but the last takes at least one of any of the ingredients.

`InventoryAssumption` is what the handlers take for granted of the game's tables:
worlds are generated and models drawn without doors; a recipe of `recipes.rs` has
ingredients, names an id once and never what it makes; what can be eaten cannot be
placed, and what is turned to the player or is a door can (`blockinfo.rs`); where
leaves and crystals exist, so do the apples and the red crystals they drop.
`Damages` are those that fit in the `i8` that `take_damage` casts them to; the
others are in `Player`.

### Player

One action, `PhysicsFrame`, is `update_movement_and_physics` in its order: what
the player is in (`Within`), the clocks of the fall (`FallClock`), the jump, the
forces, the velocity, the correction of the move by what the cage read a frame ago
(`Known`, `OnFloor`, `UnderRoof`), landing (`Land`) or not (`Fly`), and the cage
read anew. Between frames the player presses keys (`Press`), eats (`Eat`) and
breaks or places a block (`Change`). Of the velocity the sign is kept, of the
position the block of the feet, of the time the half seconds; whether a frame ends
one, whether the lower feet are a block lower, and whether a move crosses into the
next block are choices. `take_damage` and its casts between `u8` and `i8` are
computed as they are: a damage of 128 to 148 overflows the subtraction (a panic in
a debug build, a wrap and a death in a release build, the latter being modelled),
one of 149 and more heals. `wrapped` records that it happened, and `HealthInRange`
says that nothing else leads out of the range.

What the properties taught: who crouches while the ground goes away hovers, and is
not seen to leave the ground (game.rs reads `CROUCHING` in both branches), so the
clock of such a fall may be paid for later (`late`); a jump goes on after water
ended it; a death resets neither the jump nor `grounded`; the cage is that of the
place of death for one frame after it; and a fall that goes on because the floor
broke at the moment of the landing has no free beginning, since a landing resets
`time_tfs_at_3` and leaves `time_falling_scalar` (`SoFar`).

Left out: horizontal movement, conveyors, sprinting, models to stand on, a block
placed into the player, the fader of the field of view.

### Controls

A turn of `WindowAndKeyContext::run` is `Frame` (the flags of the open windows are
read), at most one click in what is drawn (`ClickLink`, `ClickClose`,
`ClickBinding`, `NoClick`), then events (`KeyEvent`, `ButtonEvent`, `ListenEvent`),
which are handled by what `Frame` read, `seen`, and by what imgui keeps for itself,
`captured`. `Keyboard` is `Game::keyboard`, `AfterEscape` the loop's own treatment
of Escape, `MouseButton` the handler of the buttons with `CastPlaceRay` under it.
`Focus` is `set_mouse_focused`, which saves the bindings each time. `ListenEvent`
gives the awaited input the binding of the row that was clicked. `End` and
`Restart` are the program's end and its next start with `LoadMisc`, which puts the
toggle of the build mode on the key B whenever B has nothing.

History variable `missed`: actions whose release or change of binding the game did
not see, because a menu, a chest, imgui or the rebinding had the event; such an
action stays on until its input is pressed and released again. This is how the
code works, and `OnMeansHeld` says that nothing else leaves an action on.

Outside the model, and weak in the code: a left click outside the crafting window
takes the mouse while crafting stays open (windowandkey.rs 1196-1207; the window
then has the cursor hidden, and the player closes it with a key); "Exit/Menu" moved
from Escape to another key opens the menu without freeing the cursor (1321-1337);
`save_misc` truncates the file before it writes it. Sliders, scrolling, full
screen and the main menu before a game are left out.

### ChunkRebuild

`attend_chunk_queues` (Q), `attend_needed_spots` (N) and the main thread take
turns at every point where one can see what another did. `rebuild_index` is
`Lock` (of the chunk, held to the end; the geometry is cleared and the light pass
made), `Read` (the blocks become a mesh; the geometry is locked) and `Finish` (the
mesh is announced, and `takencare` gets an entry if the spot has none). Q follows
an `agenda`: which queue each of its nested loops pops next. N makes a `plan`, a
list of needed spots each with a facade, and before each spot looks at the queues
(`YieldTo...`, `GenFirst`). `move_and_rebuild` is `Move`, which removes the old
entry, and `Place`, which waits for the lock of the chunk and generates it. The
main thread's `set_block_and_queue_rerender` is `SetBlock` and `QueueRerender`; a
frame uploads one user mesh, one geo mesh, then the other user meshes.

A mesh is a spot and the version of what it shows; chunks are a row; `Stamped` and
`Glow` say which chunks the models and lights of a chunk reach, since generation
and light queue requests for them. Faces that depend on a neighbour chunk are in
`Light`. What water does is not modelled: `Automaton` queues a change of any
served chunk, `DrainAutomata` applies any part of them. `missed`, `raced` and
`overtaken` record the three ways a mesh goes wrong, so that `MeshesCatchUp` and
`EntriesAreTrue` can say that there is no fourth:

* the block was set while no facade served its chunk, that is, while it was moved
  or first built: `queue_rerender` finds nobody to ask;
* two meshes of one index waited in both queues of finished meshes: they are not
  uploaded in the order in which they were built;
* Q was rebuilding a facade when N removed its entry: the end of the rebuild puts
  the entry back, and N takes the spot for served ever after.

These are faults of the code which no document denies, so they are hazards in
`PROJECT.json` and not findings.

### Light

`rays[o][c]` is the ray of the light at `o` in cell `c`: its value and the
directions in which it went on. A pass is `StartPass` (the lights that have rays
in the chunk, and those that stand in it), a `Depropagate` or `Propagate` per
light, each of which holds the lightmap's lock throughout, and `EndPass`, with
the rebuild of the chunk. To take a light back reads nothing but the lightmap, so
it is one step: the rays on the `Trail` that the recorded directions leave go. To
flood reads the blocks, so it is a walk of one `Visit` per turn of the loop, with
the code's stack, `visited` and the comparison that makes a spot be visited again
(`Improves`). `walk` is that walk and the lock of the lightmap at once: nobody else
reads or writes the rays until the walk is over (`Free`). Spots pushed in one turn
have one value and are kept as a set; the order in which they are popped is fixed.
The main thread asks the lightmap in `QueueRerender`, after the block was set.
Blocks are of seven kinds, one for each answer the code's three tests give (air,
glass, ladder, stone, lamp and torch) and crystal, which is as stone is and breaks
with all that touch it. Ladders and torches are drawn as models, lit
at their own spot; the others have faces lit by the spot in front of them
(`FacesOf`).
`blockat` takes no lock, so a block may change between two turns of a flood, and
does here; it may also change in the middle of a mesh, of the search for sources, or
between two neighbours at which `QueueRerender` looks. Those are one step each here:
whatever such a step saw of the old block, the request that follows the change is
the same. Requests are sets; their order is in `ChunkRebuild`.

`LightAssumption` is what the chunks' geometry grants: neighbours are mutual, each
cell has a neighbour in its own chunk (a chunk is 15 by 15 by 200 blocks), and a
light has a value between 2 and 15.

Two handlers set blocks without asking the lightmap, nor for the chunks of the
neighbours: `delete_block_recursively` with `cast_break_ray` (game.rs 6168-6220), for
crystals, and build mode (7698-7726). `BreakCrystals` and `Stamp` begin such a patch,
`SetNext` sets one block of it, in any order and with the workers in between, and
`QueuePatch` asks to rebuild the meshes of the chunks the blocks stand in. They
leave light and meshes stale until something else asks. Three history variables
record what is stale, so that the properties can say that nothing else is:

* `crossed`: lights past which a light was set or taken, which skips the search for
  light that is intercepted (chunk.rs 1026), or past which a block of a patch changed
  whether light goes through. Such a light keeps shining as before until a pass is
  made over it. This is an exception of `LightIsExact`.
* `overlaid`: spots where a model took or set a light, until a pass begins over
  their chunk. The light of a lamp that was stamped over shines on. This is an
  exception of `LightIsExact`.
* `unseen`: faces of other chunks towards a block of a patch, until those chunks are
  rebuilt. They may be missing. This is the exception of `ShownIsLit`.

TLC finds each of the three needed. `ShownIsLit` otherwise says that no visible face
is missing, and that those towards spots of the same chunk show the lightmap's
light: `propagate_light_origin` does not implicate a chunk of which the light only
strikes an opaque block (1321-1351), so a face across a border may stay dark.

Left out are two more writers of blocks, doors that are toggled (6938) and automata
(508): they exchange a block for one that answers the three tests as it does.

### QuintetChannels and ChannelPromise

One end of a connection: the owner (`OpenChannel`, `CloseChannel`, `SendPayload`,
`Disconnect`, `Drop`), the spawner of the channels' tasks (`Start`, `Spawn`,
`StopSpawning`, `Join`), a task per channel (`OpenStream`, `Transmit`, `Stop`,
`Finish`) and, for unordered channels, per message (`Help`); the reading tasks of
the other end (`ReadStream`) and its owner (`Take`, `PeerCloses`). A run plays the
end of a client and that of an endpoint, which differ in when they subscribe to
the close signal and in whether the owner outlives a disconnect.

The signal is a tokio broadcast: who subscribes after it was sent does not hear it
(`deaf`, `spawnerDeaf`), except through the end of the sender. That is the one
reason for which a close does not complete (`Unheard`): a client that disconnects
while its channel's request is still queued, or before its link is there, and keeps
the `Connection`. A payload is one that fits, one too big for a datagram, one of
exactly the longest length, which the encoder lets pass and the decoder refuses
(codec.rs 58 and 108: the decoder counts the channel id in), or a longer one.

`ChannelPromise` is the promise of `ChannelType` (channels.rs 34-45) as the two
programs see it: what one queued and what the other took. It is instantiated with
the channels opened so far and with `got` for what was received.

### QuintetConnections

The two synchronous objects and their updates: a client with several connections
(`open_connection`, `reconnect`, `disconnect`, `close_connection`,
`update_sync_client`) and an endpoint (`start_endpoint`, `stop_endpoint`, disconnect of
one client or all, `open_channel`, `close_channel`, the default channel,
`update_sync_server`). Between them, per attempt to connect, the tasks of both ends
as far as they start, tell of an end and end; foreign clients are links without a
client of ours. An instance plays several `Casts`: how many connections, attempts
of ours, attempts of others, and turns, a turn being what a program or the network
does of its own accord. An endpoint is started only where none runs: to start one
over a running one, which the code allows, replaces it, and is a `stop_endpoint` and a
start.

What the code does, stated in the model as history or exception: an open or close
of a channel stops half-way at a client whose queue is full or whose channel is
already closed (`torn`; server.rs 722 and 747), after which the id is lost or the
channel stays open for some; a connection told `Connected` after it was told the
end, or after `disconnect()` while that news was queued, thinks it is connected to
a dead link for ever (`revived`; client.rs 305-307 against connection.rs 533).
Outside the model: more than 100 opened channels refuse every new client
(server.rs 769); a broadcast or a send to a group stops at the first client that
fails; `close_all_connections` stops at the first error (client.rs 277-287); the
path of `LostConnection` does not count a disconnect in the statistics; a failing
bind.

### Certificates

The endpoint: `StartEndpoint`, `WriteCertificate`, `WriteKey` (each write truncates
first), and `StopsOrEnds` at any step. The client, per connection: `Configure` (the
file is loaded), `Verify`, `DialFails`, `Answer` (the application's action, or the
event that is dropped unanswered), `CreateFile`, `BeginLine`, `EndLine`,
`TrustUpdate`; `Abandon` is `close_connection` meanwhile, `Restart` an end of the
program at any point.

Each connection writes back the whole file as it loaded it, plus one line. So a
line stored meanwhile by another is lost, two writers at once mix their lines, and
an end in the middle leaves a torn line, which the next `load` refuses and the task
panics on; the `Connection` then stays `Connecting`. A torn certificate file makes
the endpoint panic at every start. These are the exceptions `lost` and `unsure`, and the
"panicked" of `AttemptsEnd`. `NeverSilently` speaks of configurations that do not say
to trust a changed certificate. A store in memory, skipped verification, certificate
authorities and fingerprints are left out.

## What is checked

Each of the properties is stated in a comment above its definition. Every one of
them has a planted bug (a definition such as `GivesUp_OneLate`, just before the
definition it would replace) under which TLC finds it violated; `PROJECT.json`
lists them under `mutants`.

| Run | Instance | States | What it shows |
|---|---|---|---|
| `WorldBlocks` | 2 threads, 2 spots, 2 blocks, 2 seeds, 3 messages, 1 retry, 1 crash | 139 thousand | `TypeOK`; `BlocksRecoverable`: tables plus queue are the map; `KeepsPromise`: refinement of `PrefixStore` |
| `WorldItems` | 2 threads, a chest and a player with one slot, 1 stack, 1 seed, 1 crash | 956 thousand | `SnapshotsRecoverable`: what was queued for chests and inventories is what they hold; `ItemsConserved`: every stack in one place or lost in a way that is named; `DiskNeverDuplicates`; under fairness `QueueDrains`, `HandlersFinish` |
| `Sessions` | 2 connections, 2 ids, 4 messages of 4 kinds, room for 2 writes | 5.5 million | `JoinsWell`: nothing gets into a transfer, nor before a joiner's first `PlayerUpdate` but by a twin; `OnlyTwinsLoseSession`; `SameOrder`: no two clients see two broadcasts in opposite orders |
| `SessionsLive` | the same with room for 1 write and 2 messages, one client may leave at any moment | 194 thousand | `DepartedAreRemoved`, `MapComesFree` under fairness |
| `Craft` | a row of 2 slots, a chest of 1, stacks of 8, four games in a column of 3, 1 stamp of 2 models, 1 death | 376 thousand | `TypeOK`: no malformed slot; `DoorsWhole`, `CraftIsAllOrNothing`, `CraftAllLosesOneAtMost`, `NothingFromNothing` |
| `Player` | 5 columns of 5 blocks with water, a ladder, jump blocks, a bouncy block, a trampoline; 1 block changed | 431 thousand | `HealthInRange`, `DamageIsTheFall` |
| `Controls` | 4 keys, 2 buttons, 2 of them held at a time, 1 binding changed, 2 starts | 3.7 million | `BindingsWhole`, `BackInPlay`, `OnMeansHeld` |
| `ChunkRebuild` | 3 chunks in a row, 3 facades, radius 1, models and light that reach the next chunk, 1 change, 1 step of the player | 1.0 million | `MeshesCatchUp`, `EntriesAreTrue`; `AllIsServed` under fairness: every chunk near the player is served and the queues are empty in the end |
| `Light` | a floor of 4 by 2 cells, 2 chunks, seven kinds of blocks, light that reaches 4 cells, 2 changes: blocks set at three of the cells, two crystals, two models, also in the middle of a flood, 2 workers | 323 thousand | `LightIsExact`, `ShownIsLit` |
| `QuintetChannels` | a client's end with 2 channels, an endpoint's with 1, every type, 2 ids, queues and windows of 1, 2 payloads | 800 thousand | `ClosesAfterSending`; `KeepsPromise`: refinement of `ChannelPromise`; `CloseCompletes` under fairness |
| `QuintetConnections` | four casts of 2 attempts: a connection that reconnects, two connections, one and a foreign one, two foreign ones; 2 endpoints, 2 channel ids | 1.0 million | `EventsPaired`, `DisconnectNeverFails`, `ChannelsAgree`, `IdsAgree`; `EndsAreNoticed` under fairness |
| `Certificates` | 2 endpoints, one of which saves its certificate, 2 configurations, 2 connections, 2 certificates per endpoint, 1 restart of the client | 1.5 million | `StoreKeeps`, `SavedAreNotChanged`, `NeverSilently`; `AttemptsEnd` under fairness |

Modules state a `TypeOK` each; only the runs of the table list theirs in which it
says more than that a variable has its type (in `Inventory`, that no slot is
malformed) or in which it is proved.

Why the bounds are enough. The interesting cases of the server need two threads
that overlap, two keys, so that a wrong order between keys shows, and two values.
Three messages give an edit, a second one that overtakes it, and a take-off
between them; four give two clients that each became ready and each sent an edit.
One crash is enough because a restart starts from the tables alone, and histories
before it are arbitrary. `MaxRetries` is 1 or 0 and not 30, `SavePosLimit` 0 and
not 10: nothing compares them with anything else. A send buffer of one message is
full as soon as anything is in it; with two, two broadcasts can be on their way to
each client, which is what an order is about. A row of two slots is full as soon
as a second item is picked up, and stacks of 8 (`MaxStack`, 999 in the game) are
reached by crafting the logs. Three facades are one more than the two chunks that
are needed at a time, so a step of the player moves one while others are being
built, and all three races of `ChunkRebuild` occur with one change. The light's
floor is large enough that a spot is reached first by a detour and again by a
shorter way, and that light goes round a corner through the other chunk and back;
the player sets blocks at three of its cells (`Editable`), on both sides of the
border: at a lamp beside the border and at the two spots across it round which its
light goes, one of them a crystal. One of the two models covers the lamp and a spot
of the other chunk. A stamp and a change after it are enough for each of the three
exceptions and for a pass that ends one. One stamp is enough to leave half a door,
and one log gives the two doors this takes.

In `Player` the column is low, and falls are long all the same: how many half
seconds a block of air takes is open, and `MaxAloft` of 13 is the first at which
the damage leaves an `i8`. In `Controls` a first start and a second one are all
there are, since a start depends on the file alone, and one changed binding can
take the place of any other, that of Escape included. In `QuintetChannels` a queue
of one is full with one payload, and a second payload is enough to overtake the
first, to be queued behind a close, or to follow one that ends its stream. In
`QuintetConnections` two links are the least with which the ids, the tables of
channels and the news of an old link can be taken for those of a new one, and two
endpoints the least with which a client of a stopped one can reach its successor's
queue. In `Certificates` two hosts are the least with which a rewrite can lose
another host's line, and two certificates the least with which one changes.

Deadlock is checked in `ChunkRebuild`, whose systems never stop, in `Player` and in
`Controls`, where there is always a next frame (or a program that has ended). It is
not checked in the other runs: they stop when their messages, attempts or edits
are used up, and clicks may come to an end.

`CONSTANTS` are given values in the `.cfg` files; symmetry is used for threads,
spots, blocks, connections, ids and workers in runs without liveness.

### Fairness

`WorldItems`: weak fairness of each handler's own steps and of the SQL thread.
The operating system runs every thread, and a lock is always released after
finitely many steps of its holder, in the code by the end of a block or by
unwinding. New messages, failed statements, crashes and connections are not fair.
A statement that fails on and on is covered by the retry limit.

`SessionsLive`: strong fairness of the steps that wait for a mutex, because other
threads take the same mutex again and again; `parking_lot` documents its mutexes
to be eventually fair, which is this. Weak fairness of the steps that wait for
nobody, and of a client that reads what it was sent. The latter is an assumption
on the clients, and it is needed: a client that stops reading during
`RequestUdm`, without closing its connection, keeps its stream locked, the next
broadcast waits for it with the map locked, and the server stands still.

`ChunkRebuild`: weak fairness of each system, which the app runs in every update
(game.rs 1143-1144), and of the frames. The player and the automata are not fair.
Its liveness is about what happens once the player stands still and nothing
changes any more, which the bounds bring about.

`QuintetChannels`: weak fairness of every task, which tokio polls when it is woken,
of the handshake, which succeeds or times out, and of the other end, which reads
what has arrived. Owners are not fair: nobody has to open, send or close.

`QuintetConnections`: weak fairness of both update systems, which bevy runs every
frame, of the tasks and of the handshake. The programs and the network are not.

`Certificates`: weak fairness of each connection's task. A dial times out; an event
that nobody answers is dropped by the second update after it, and with it the
sender of the answer.

## What is proved

In `WorldStoreProofs`, for every value of the constants that satisfies
`StoreAssumption` (the markers `Absent`, `Free` and `Empty` are not values, the
bounds are naturals, `Kinds` are message kinds):

* `TypeCorrect`: `Spec => []TypeOK`.
* `BlocksAlwaysRecoverable`: `Spec => []BlocksRecoverable`. Whatever the number
  of handlers, spots and crashes, the table of the current seed with the queue
  written over it is the map of placed blocks.
* `SnapshotsAlwaysRecoverable`: `Spec => []SnapshotsRecoverable`. The same for
  chests and for inventories.
* `StacksAlwaysConserved`: `Spec => []ItemsConserved`.
* `DiskNeverHasAStackTwice`: `Spec => []DiskNeverDuplicates`.
* `StoreKeepsItsPromise`: `Spec => KeepsPromise`, the refinement of `PrefixStore`.

`TypeOK` is not inductive: a handler in the middle of an arm relies on what its
earlier steps left behind. `TInv` adds `ArmInv` (in the arms of a chest or an
inventory, the message names one, and while it holds the lock the chest or the
session is there; in those of a block or an edit there are rows to push) and
`SqlInv` (while a row is executed the queue is not empty and at most `MaxRetries`
attempts were made).

`BlocksRecoverable` speaks of settled spots only; to be inductive it needs to say
what a spot looks like while a thread is at work on it. `BInv` consists of
`HolderInv` (a thread is inside an edit or a take-off exactly if it holds
`csysLock`), `EditInv` (the changes still to be made are the last of the rows still
to be pushed, and the blocks of those already made are in the map) and
`FreshInv` (no row, queued or stored, belongs to a seed not yet used, so the table
a take-off begins to fill is empty, and the blocks in `toSave` have no queued row).
From there each action is a case. The lemmas say what pushing a row, removing the
head of the queue and committing it do to the latest value of a row
(`PushDecides`, `HeadRemoved`, `CommitKeepsLatest`), that rows of different tables
are different (`RowsOfTables`, `UdmRowInjective`), and that a restart loads values
of the right type (`LoadedTypes`).

`SnapshotsRecoverable` says nothing of a chest or an inventory while its lock is
held, and there are many of them; what survives the release of one lock must not
depend on the others. `SInv` therefore says of each that it is recoverable or that
some thread is changing this very one (`ChestsSaved`, `InvsSaved`), that such a
thread has the chest's entry, and that the seed it read without the world's lock is
one of a world there was (`EntryInv`). It is relative to `BInv`.

The two theorems about stacks rest on `CInv`, which is `SInv` and two orders. In
memory: an arm holds the lock of the chest or the session from the moment it reads
what it displaces until its row is queued, so what it displaces is still there when
it writes (`Displacing`), the stack it carries and the stack in the slot change
places in one step, and what is overwritten for nothing is counted as lost by then
(`OverwritingLoses`). What was displaced is in the message until `Reply`, which puts
it into the player's hand or counts it as lost, whichever way the code goes.
`Conserved` says of each stack where it is, as one of the sets
`InMessages`, `InChests` and `InInventories` and nothing in the others. On the way
to disk: `Version(m, row, v)` is what a row holds once the first m rows of the queue
are written, and no version has a stack in two slots (`OnceInEveryVersion`). A commit
drops the oldest version; a push appends one, and this is where the orders meet: the
last version is what memory holds, but for the slot of a change whose row is still
to be queued, where it has what the change displaced (`ChestsFollow`,
`SessionsFollow`, `Newest`). So the stack that a push brings to disk was nowhere in
the last version, or was in the slot the push overwrites (`QueuedOnce`). Since any
number of slots changes hands at once, `Newest` is about whole rows. A start loads
version 0, in which a stack is at most once (`OnDiskOnce`), and sessions that come
later read what the queue will make of their row unless `raced`. The parts of `CInv`
but `SInv` were checked by TLC first, also with four messages instead of three (6.6
million states), which found that a restart must not forget `raced`; the longer
history is what it took, and the run's own bound would not have shown it.

The refinement is a case for each action under `KInv`, which is `BInv` and
`SaveInv`: what a take-off has still to save is placed, and its row in the new table
is empty. The mapping replays the queue, but no recursion is needed: `Holds(q, d, m,
row, v)` says what the last of the first m rows of q that names a row leaves there,
so the lemmas about it are about indices. `HoldsLast`, `HoldsInserted` and
`HoldsWritten` say what a row at the end, a row put in between and the commit of the
first row do to one row of the tables; `VersionAppended`, `VersionRepeated`,
`VersionWritten`, `VersionsCarried` and `FirstVersion` say the same of the sequence
of tables, and are the steps `Change`, `OtherRow`, `BecomeDurable`, `CarryOver` and
`Crash`. `PushBlock`, which moves the first row of a change from the holder to the
queue, leaves `Pending` as it is (`HandedOn`) and is a stutter, as are all steps that
take or pass the lock. `FreshInv` is what makes `LeaveFor` go to an empty table.

In `SessionsProofs`, for any number of connections, ids, messages and places in the
send buffers that satisfies `SessionsAssumption` (the markers are not values, a
header of a world file is only recorded together with the file):

* `TypeCorrect`: `Spec => []TypeOK`.
* `SessionsLast`: `Spec => []OnlyTwinsLoseSession`.
* `JoiningIsSafe`: `Spec => []JoinsWell`. The world file comes whole, and
  broadcasts only after a client's own first `PlayerUpdate`, unless its id is a
  doubled one.
* `OneOrder`: `Spec => []SameOrder`.

All four rest on `SessInv`, which says what a thread relies on between its steps:
`TurnInv` (the stream it found greeted with its id, a stream nobody greeted on is
empty), `LockInv` (a lock is held exactly by the thread that is where the lock is
taken) and `MapInv` (a session's stream greeted with its id, and the sessions still
to be written to are in the map, ready). Each action keeps it, one lemma per action.
Relative to it, five further invariants are inductive:

* `TwinInv`: two running threads with one id make the id a doubled one; hence the
  thread that removes a session is the last that needs it.
* `UdmInv`: a header that is last on its stream still belongs to a thread that holds
  the stream and can write the file, or to a client that has left. A writer that
  finds the stream free cannot come in between (`FreeOfTransfers`).
* `JoinInv`: a session is ready only if its connection is `updated` or `early`, and
  only sessions that are ready get broadcasts.
* `EarlyInv`: a thread in a turn of its loop holds the stream of the session of its
  id, unless the id is a doubled one; so only then does its `PlayerUpdate` make
  another connection's session ready. `JoinsWell` is `UdmInv`, `JoinInv` and this.
* `OrderInv`: a message has one place to be, an inbox or a thread (`Numbered`), is at
  most once on a wire, and while it is being sent it is the last on every wire that
  has it (`Heard`). So the message a thread adds to a wire (`SentOrder`) comes after
  all others there, and is followed by none on any other wire.

In `ClientProofs`, about `Player`, for every column of blocks and every bound that
satisfies `PlayerAssumption`:

* `PlayerTypeCorrect`: `PlayerSpec => []PlayerTypeOK`.
* `HealthStaysInRange`: `PlayerSpec => []HealthInRange`.
* `LandingCostsTheFall`: `PlayerSpec => DamageIsTheFall`.

The first two of them follow from what a cast and a damage do to an `i8`
(`SignedIsI8`, `HurtIsI8`). The third needs `ClockInv`: the clock the damage is read
from is what the time since the fall began has earned, or time is left over from
another fall; a player on the ground or in a jump does not fall. `ClocksAgree` shows
that one frame moves both times on together, and `LandKeeps` and `FlyKeeps` that the
frame's end keeps the relation. The proof found what the instance did not have at
first: a fall through a floor that breaks at the landing (see `Player` above); the
fifth column and `SoFar` come from it.

In `GameProofs`, about `Inventory`, for rows and chests of any length, columns of
any height, any games, recipes and lists of ids that satisfy `InventoryAssumption`
(above):

* `TypeCorrect`: `Spec => []TypeOK`.
* `DoorsAlwaysWhole`: `Spec => DoorsWhole`.
* `CraftsAllOrNothing`: `Spec => CraftIsAllOrNothing`.
* `CraftAllLosesOne`: `Spec => CraftAllLosesOneAtMost`.
* `NothingComesFromNothing`: `Spec => NothingFromNothing`.

`TypeOK` and `DoorsWhole` speak of what can be seen; a handler relies on more.
`IInv`, which TLC checked first, adds that only a door has an upper half
(`Upright`; since the upper half of a door is not counted as another one), that
every chest, opened or not yet, is a row of well-formed stacks or absent, that
each drop lies there at least once (`BagOK`), and that the open chest has been
opened.

For `DoorsWhole` each action says which doors are torn after it (`MayBeTorn`). What
it does to the world is one of a few things, and the lemmas `TornAfter`,
`TornEmptied`, `TornWithout`, `TornToggled`, `TornWithBlock` and `TornWithDoor` are
these, stated of a world and not of an action. A door that is whole is the other
half of its other half (`OtherOfOther`), so what empties or toggles both cannot tear
a third. The first exception comes from the stamp (`BuildTears`), the second from
what a half torn before takes for its other half (`BreakTears`, `UseDoorTears`).

What is counted is a sum: of a row, along a recursive function (`Sums`), and of
chests and drops, along a fold over a set (`SumOver`). `RecursionExists` shows, by
the least counterexample, that a recursion along 0..n has a solution; from it come
`SumsStep` and `AfterRoundsStep`. `FoldTakesAny` shows that a sum over a set does not
depend on the order in which the fold chooses, hence that changing one term changes
the sum by as much (`SumChanges`, `SumGrows`, `SumShrinks`); so does `SumsChange` for
a row, and `BagGrows` and `BagShrinks` say it of drops.

`SubtractedIs` is the heart of crafting: taking a need from the first slots that
hold it takes exactly that need in all, whatever it is spread over. With
`WithResultIs` a craft is `Done`: what it changed, counted in sets of ingredients
and results. `RoundsDone` counts the turns of crafting all: k of them made k results
of k sets, and the turn that finds no slot, the last, is the one that loses a set.
`RoundsEnd` shows that the loop has ended after `Rounds`: otherwise each turn took
one of an ingredient of which there were fewer than that.

`NothingFromNothing` compares the sums of five places before and after each action
(`Justified`). Most actions move a stack, and one lemma per action says from where
to where. A click on a slot keeps the sum of it and the mouse, whether it merges
or swaps. What is placed was in the hand, and of what gives way to it there is
less, not more. In crafting the sum that grows is that of the result, and an
ingredient shrank. What is broken counted before it falls, also when it is half a
door: an upper half begins to count only if the lower half below it is changed
(`BuiltBefore`), and of a door that is broken, whole or torn, one that counted
goes (`DoorEmptied`), even if an upper half above it then begins to count
(`StandingExchanged`). A stamp may add what is in its model, and nothing else
(`StandingStamped`).

In `GameProofs`, about `Light`, for any cells with their neighbours and chunks, any
world, any value of a light, any workers, any models, and any number of blocks and
patches set anywhere, that satisfy `LightAssumption`:

* `LightTypeCorrect`: `LightSpec => []LightTypeOK`.
* `LightAlwaysExact`: `LightSpec => []LightIsExact`.
* `ShownAlwaysLit`: `LightSpec => []ShownIsLit`.

Both properties speak of the moment when all passes are made, and what makes them
true is under way until then; `LightInv` says at every moment what is true already
and who will see to the rest. `WalkInv` is the structure. The rays of a light hang
together (`LinkInv`): each but the first comes from a neighbour's that is recorded to
go on to it with two more, which is why taking back along the directions finds all
of them (`TrailMeetsAll`), even after the blocks between have changed. No two passes
are over one chunk (`PassInv`). The chunks of a patch under way are those that will
be asked for (`PatchInv`). A flood has visited the cells that have a ray or are
on its stack, and each of the latter comes from a ray (`FloodInv`).

`RightInv` is about one ray and its neighbours, not about distances. A ray of
value more than 1 in a cell through which light goes on gives each neighbour a ray
of two less at least, or the flood under way has such a visit on its stack
(`Gets`); in any other cell it goes nowhere. Where that does not hold, the main
thread has just changed the block and has yet to ask, or the chunk of the light is
asked for, or the pass is about to take the light back, or its way changed and
nobody asks (`crossed`): for a patch, a ray in the cell that is set means that its
light is `Nearby` (`RayIsNearby`), which is why `crossed` has all that are
concerned. The step that carries the proof is `VisitRight`: a turn reads one
block, which may be another than the one the flood before it saw, and leaves right
what it visits. What it skips has as much light already, which is the comparison a
planted bug drops. With nothing under way all rays are right, and
`RightRaysAreExact` shows, by induction on the number of steps, that rays that are
right cell by cell are those of the distances: a cell has a ray of `Bright - 2k`
or more just when it is reached in k steps. `LightsInv` says the same of whole
lights: a light has rays or is about to get them, anything else has none or is
about to lose them, unless it is `overlaid`. `MeshInv` says that a mesh is right,
but for the `unseen` faces, or its chunk is still to be rebuilt: asked for, about
to be asked for, alone or with a patch, being passed over, or among the implicated
of a pass. So `ShownIsLit` rests on what implicates a chunk: each ray that changes
at a spot through which light goes.

In `CertificatesProofs`, for any hosts, connections, configurations and restarts
that satisfy `CertificatesAssumption`:

* `TypeCorrect`: `Spec => []TypeOK`.
* `TheStoreKeeps`: `Spec => []StoreKeeps`.
* `SavedNeverChange`: `Spec => []SavedAreNotChanged`.
* `NeverTakenSilently`: `Spec => NeverSilently`.

They share one inductive invariant, `CertInv`. `FilesInv` is the order of the two
files of an endpoint: the key file is begun when the certificate file is complete,
and a complete one belongs to it. `SeenInv` says of an endpoint that saves its
certificate that whatever anybody has seen of it, in the file of known hosts, in a
copy of it, in a connection or among the lines still to be written, is what both its
files hold. `CopyInv` says that the copy a connection decides by is right but for the
hosts it is unsure of, and `WriterInv` that a single writer has written what it has
not still to write, so that what it leaves behind is its copy. The steps of a
connection that does not write are one lemma (`AttemptMoves`) and its uses; those
that write, the end of the program and the endpoint's steps are a lemma each.

In `QuintetChannelsProofs`, for any plan of channels, sizes of payloads, queues,
windows and ids that satisfies `ChannelsAssumption`:

* `TypeCorrect`: `Spec => []TypeOK`.
* `ClosesOnlyAfterSending`: `Spec => []ClosesAfterSending`.
* `ChannelsKeepTheirPromise`: `Spec => KeepsPromise`, the refinement of
  `ChannelPromise`.

`ClosesAfterSending` is about payloads that were wasted, and a payload is wasted
when the link closes. `CloseInv` adds whose fault that can be: the link is closed by
a loss or by the spawner, and the spawner is done only when every task has finished
(`LinkInv`); a task belongs to an opened channel, and a request to one that has no
task yet (`TaskInv`). For the refinement one must know where each payload is.
`FlowInv` says it for each type of channel. An ordered channel is a line (`Line`):
what was taken, received, written and queued follow each other in the order of
sending, nothing that can be encoded is missing before what was written, and
nothing at all as long as the stream is whole. In the others (`Heap`) every payload
is in one place, be it taken, received, written, in the hands of a helping task or
queued. So what the owner takes is the next of its line, or was not taken before;
every other step is a stutter, an `Open` or a `Send` of `ChannelPromise`.

In `QuintetConnectionsProofs`, for any casts, endpoints, ids and sizes of the
control queues that satisfy `ConnectionsAssumption`:

* `TypeCorrect`: `Spec => []TypeOK`.
* `EventsAlwaysPaired`: `Spec => []EventsPaired`.
* `DisconnectAlwaysSucceeds`: `Spec => []DisconnectNeverFails`.
* `ChannelsAlwaysAgree`: `Spec => []ChannelsAgree`.
* `IdsAlwaysAgree`: `Spec => []IdsAgree`.

One invariant, `IInv`, carries all of them, since each leans on the others.
`QueueInv` says that the endpoint's queue announces a link once, and only while the
task of the link waits to be accepted: this is why nobody is counted as connected
twice, also across a stop and a start of the endpoint. `ClientsInv` ties the table
of clients to what became of their tasks and keeps ids below the counter that makes
them. `ToldInv` follows the news `Connected` from the queue of an attempt to the
state of the connection, so that the id it leads to is that of the link it came
from.

In `ClientProofs`, about `Controls`, for any keys, buttons, default bindings and
any number of rebindings and starts that satisfy `ControlsAssumption` (the default
bindings give each action of the game one input; keys and buttons are finitely
many):

* `NoBindingIsLost`: `Spec => []BindingsWhole`.
* `AlwaysBackInPlay`: `Spec => []BackInPlay`.
* `NothingStaysOn`: `Spec => []OnMeansHeld`.

`ControlsInv` says that the bindings are whole, those in the file too if there is
one, that the rows the menu shows and the one being asked for are bindings in force
(`GameFits`, `AskInv`: a second row bound meanwhile would leave the first without an
input), and that a loaded game has a window open or has the mouse and the bindings
in the file. That the loop handles an event by what it saw at the start of the turn
needs no invariant: every step keeps it whatever was seen.

In `ChunkRebuildProofs`, for any row of chunks, facades, radius, reach of models and
lights, and any number of changes and steps of the player that satisfy
`ChunkRebuildAssumption` (more facades than spots that can be needed, as
chunk.rs 387-405 makes them):

* `EntriesAlwaysTrue`: `Spec => []EntriesAreTrue`.
* `MeshesAlwaysCatchUp`: `Spec => []MeshesCatchUp`.

`RebuildInv` has a part per question. What an entry is worth between the steps of
two systems is `EntryInv`: a facade that has a spot has an entry, but while N moves
it (`HomeInv`), so N, which plans only spots without an entry, plans spots where no
facade is (`PlanInv`), and while it places a facade, whatever entry that facade still
has is one of those that came back (`PlaceInv`). A chunk's lock is held by one system
at a time, and what it ends with is a mesh of the facade's own spot (`LockInv`).
`MeshesCatchUp` speaks of the moment when all is quiet; `BankInv` says for every
moment that a mesh is the world at its spot or that somebody still has to rebuild it
(`Behind`: asked for, about to be read, about to be placed, or changed by a thread
that has yet to ask), and `ShownInv` that the last finished mesh of an index is what
the bank holds, or is drawn. `MeshesCatchUp` is `BankInv` and `ShownInv` with the
queues empty. That a change which nobody was asked about is `missed` and nothing
else is the step `ChangeNoticed`.

All safety invariants and action properties of the runs are proved, and so are the
refinements of `PrefixStore` and `ChannelPromise`. Only model-checked is liveness
under fairness, which is out of the prover's reach: `QueueDrains`,
`HandlersFinish`, `DepartedAreRemoved`, `MapComesFree`, `AllIsServed`,
`CloseCompletes`, `EndsAreNoticed`, `AttemptsEnd`.

## What is not modelled

Terrain, the ship and the take-off of the client, what water does, mobs and models,
rendering and audio, the loops of `newserver.rs` and `newclient.rs`, which do
nothing yet, and the crates the binaries do not use: see `components` in
`PROJECT.json` for each of them and the reason. The functions that save and load
the single player's game (game.rs 2010-2153, 3608-3700) and `takeoff_ship` are
never called at this commit.

Of the chunks: the second dimension, facades that are taken from the corners of
the square when all are in use (game.rs 999), the loading screen's own rebuild
(chunk.rs 882-973), and a take-off, which leaves the lightmap as it was. Of the
server: the byte stream below messages, what a client does with what it receives,
`RequestPt`, and mob messages (switched off by an `if false`). What is left out of
each other part is said in its section above.

The server as a whole, `WorldStore` and `Sessions` together, is not checked: the
product is beyond a run of TLC. That two edits may be broadcast in another order
than the one in which they were applied, since a handler releases `csys` before it
takes `clients` (main.rs 358), is therefore told among the hazards and covered by no
property.

## Plan

1. `GameServer`: `WorldStore` and `Sessions` composed, abstracted to one spot, one
   edit per client and no SQL. Do the clients' views converge to the map? A joiner's
   copy of `db` misses what is queued and what is broadcast before its first
   `PlayerUpdate`.
2. `Automata`: water that moves by change sets of two blocks, each of which
   expects a block that another set may have changed; take-off and loading of the
   client around `ChunkRebuild` and `Light`.
3. An abstract specification of `Sessions` for the composed server of 1.
