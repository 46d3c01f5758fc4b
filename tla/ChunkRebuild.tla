---------------------------- MODULE ChunkRebuild ----------------------------
(***************************************************************************)
(* How the client keeps the meshes on the screen in step with the blocks   *)
(* (chunk.rs, game.rs).  A fixed bank of facades, each with its geometry   *)
(* and its buffers, serves the spots around the player; takencare says     *)
(* which facade serves which spot.  Three threads work on them:            *)
(*   Q  the system attend_chunk_queues, which rebuilds what was requested; *)
(*   N  the system attend_needed_spots, which moves a facade to every spot *)
(*      near the player that none serves, and rebuilds now and then;       *)
(*   main, which sets blocks and, each frame, uploads finished meshes.     *)
(* Neither system has parameters: the executor may run them in parallel.   *)
(* All three hold csys.read(), which excludes none of them.                *)
(*                                                                         *)
(* A mesh is the spot and the version of the blocks and of the light it    *)
(* shows; faces that a chunk shows because of its neighbours' blocks are   *)
(* left out.  Spots are a row.  background_rebuild_requests is left out:   *)
(* every caller has user_power.                                            *)
(***************************************************************************)
EXTENDS Integers, FiniteSets, SequencesExt

CONSTANTS
  Spots,       \* chunk positions
  Indices,     \* indices of chunks, geobank and memories
  Radius,      \* csys.radius
  Start,       \* where the player begins
  Nowhere,     \* CHUNKPOSDEFAULT
  Stamped,     \* the spots that the models placed in a chunk reach
  Glow,        \* the other spots that the lights in a chunk shine into
  MaxChanges,  \* bound: blocks the player sets and the automata change
  MaxWalks     \* bound: chunk borders the player crosses

ASSUME ChunkRebuildAssumption ==
  /\ Spots \subseteq Int /\ IsFiniteSet(Spots) /\ Start \in Spots
  /\ Indices \subseteq Nat /\ IsFiniteSet(Indices)
  /\ Radius \in Nat \ {0}
  /\ Cardinality(Indices) > 2 * Radius  \* more facades than needed spots
  /\ Nowhere \notin Spots
  /\ Stamped \in [Spots -> SUBSET Spots] /\ Glow \in [Spots -> SUBSET Spots]

VARIABLES
  world,     \* per spot, the version of its blocks and light
  stamped,   \* the spots whose models have been placed
  lit,       \* hashadinitiallightpass
  facade,    \* chunks: per index, its spot and whether it was ever built
  takencare, \* the index that serves a spot
  requests,  \* the light, user and gen queues of indices to rebuild
  automata,  \* AUTOMATA_QUEUED_CHANGES, each by the spot it changes
  bank,      \* geobank: per index, the mesh last built
  ready,     \* the finished user and geo queues
  memory,    \* chunk_memories: per index, the position and length it draws
  vbo,       \* per index, the data last uploaded
  player,    \* the spot the player is in
  job,       \* per system, the rebuild it is in
  agenda,    \* of Q: the pops still to make in this update
  implic,    \* of Q: the spots of changes applied and not yet requested
  plan,      \* of N: the spots it has still to serve, and with which index
  main,      \* where the main thread is, and what it has to request
  changes, walks, \* how often blocks changed, and the player walked
  missed,    \* history: spots changed while no facade served them
  raced,     \* history: spots whose rebuild ended after they were given up
  overtaken  \* history: indices with a mesh finished in both queues

blockVars == <<world, stamped, lit>>
meshVars == <<memory, vbo>>
boundVars == <<changes, walks>>
vars == <<blockVars, facade, takencare, requests, automata, bank, ready,
          meshVars, player, job, agenda, implic, plan, main, boundVars,
          missed, raced, overtaken>>

Systems == {"Q", "N"}
Mesh(p, version) == [pos |-> p, version |-> version]
Blank == Mesh(Nowhere, 0)
Idle == [step |-> "idle"]
Rebuild(g, power, light) ==
  [step |-> "lock", index |-> g, power |-> power, light |-> light]
Resting == [step |-> "frame"]

Served == DOMAIN takencare
Near(p) == {q \in Spots : q - p \in {-1, 1}}
Building(t, g) == job[t].step \in {"read", "finish"} /\ job[t].index = g

(* An update of attend_chunk_queues: each loop pops its own queue until it *)
(* is empty, and after each rebuild once those that must not wait.         *)
Update == <<"automata", "lights", "users", "gens">>
Pops == [lights |-> "light", light |-> "light", users |-> "user",
         user |-> "user", gens |-> "gen"]
After == [lights |-> <<"automata", "lights">>, light |-> <<"automata">>,
          users |-> <<"light", "users">>, user |-> <<>>,
          gens |-> <<"user", "light", "gens">>]
NextPop == IF Len(agenda) = 1 THEN Update ELSE Tail(agenda)

Init ==
  /\ world = [p \in Spots |-> 0]
  /\ stamped = {} /\ lit = {}
  /\ facade = [g \in Indices |-> [pos |-> Nowhere, used |-> FALSE]]
  /\ takencare = <<>>
  /\ requests = [q \in {"light", "user", "gen"} |-> <<>>]
  /\ automata = <<>>
  /\ bank = [g \in Indices |-> Blank]
  /\ ready = [q \in {"user", "geo"} |-> <<>>]
  /\ memory = [g \in Indices |-> Blank]
  /\ vbo = [g \in Indices |-> Blank]
  /\ player = Start
  /\ job = [t \in Systems |-> Idle]
  /\ agenda = Update /\ implic = {} /\ plan = <<>> /\ main = Resting
  /\ changes = 0 /\ walks = 0
  /\ missed = {} /\ raced = {} /\ overtaken = {}

(* queue_rerender_with_key for the spots S: nobody is asked to rebuild a   *)
(* spot that no facade serves.                                             *)
Requested(reqs, q, S) ==
  [reqs EXCEPT ![q] = @ \o SetToSeq({takencare[p] : p \in S \cap Served})]
Changed(S) == [p \in Spots |-> IF p \in S THEN world[p] + 1 ELSE world[p]]

---------------------------------------------------------------------------
(* rebuild_index, by either system.  The chunk's lock is held to the end.  *)

(* lightpass_on_chunk: light that reaches other spots changes them.        *)
LightpassOnChunk(p) ==
  /\ lit' = lit \cup {p}
  /\ world' = Changed(Glow[p])
  /\ requests' = Requested(requests, "user", Glow[p])
  /\ missed' = missed \cup (Glow[p] \ Served)

Lock(t) ==
  LET g == job[t].index IN
  /\ job[t].step = "lock"
  /\ \A u \in Systems : ~Building(u, g)
  /\ facade' = [facade EXCEPT ![g].used = TRUE]
  /\ job' = [job EXCEPT ![t] = [@ EXCEPT !.step = "read"]]
  /\ bank' = [bank EXCEPT ![g] = Blank]
  /\ IF job[t].light
     THEN LightpassOnChunk(facade[g].pos)
     ELSE UNCHANGED <<lit, world, requests, missed>>
  /\ UNCHANGED <<stamped, takencare, automata, ready, meshVars, player, agenda,
                 implic, plan, main, boundVars, raced, overtaken>>

(* With the geometry locked, the blocks of the chunk become its mesh.      *)
Read(t) ==
  LET g == job[t].index  p == facade[g].pos IN
  /\ job[t].step = "read"
  /\ bank' = [bank EXCEPT ![g] = Mesh(p, world[p])]
  /\ job' = [job EXCEPT ![t].step = "finish"]
  /\ missed' = missed \ {p}
  /\ UNCHANGED <<blockVars, facade, takencare, requests, automata, ready,
                 meshVars, player, agenda, implic, plan, main, boundVars,
                 raced, overtaken>>

(* Planted bug: a chunk that was moved gets no new entry.                  *)
Finish_NoEntry(t) ==
  LET g == job[t].index  q == IF job[t].power THEN "user" ELSE "geo" IN
  /\ job[t].step = "finish"
  /\ ready' = [ready EXCEPT ![q] = Append(@, [index |-> g, mesh |-> bank[g]])]
  /\ job' = [job EXCEPT ![t] = Idle]
  /\ UNCHANGED <<blockVars, facade, takencare, requests, automata, bank, meshVars,
                 player, agenda, implic, plan, main, boundVars, missed, raced,
                 overtaken>>
Finish(t) ==
  LET g == job[t].index
      q == IF job[t].power THEN "user" ELSE "geo"
      In(queue) == \E i \in DOMAIN ready[queue] : ready[queue][i].index = g
  IN
  /\ job[t].step = "finish"
  /\ ready' = [ready EXCEPT ![q] = Append(@, [index |-> g, mesh |-> bank[g]])]
  /\ overtaken' = IF In(IF q = "user" THEN "geo" ELSE "user") THEN overtaken \cup {g}
                  ELSE IF In(q) THEN overtaken ELSE overtaken \ {g}
  /\ takencare' = [p \in Served \cup {bank[g].pos} |->
                     IF p \in Served THEN takencare[p] ELSE g]
  /\ raced' = IF job["N"].step = "place" /\ job["N"].index = g
              THEN raced \cup {bank[g].pos} ELSE raced
  /\ job' = [job EXCEPT ![t] = Idle]
  /\ UNCHANGED <<blockVars, facade, requests, automata, bank, meshVars, player,
                 agenda, implic, plan, main, boundVars, missed>>

---------------------------------------------------------------------------
(* Q: attend_chunk_queues.                                                 *)

QReady == job["Q"] = Idle /\ implic = {}

Pop ==
  LET k == Head(agenda) IN
  /\ QReady /\ k # "automata"
  /\ IF requests[Pops[k]] = <<>>
     THEN /\ agenda' = NextPop
          /\ UNCHANGED <<requests, job>>
     ELSE /\ requests' = [requests EXCEPT ![Pops[k]] = Tail(@)]
          /\ job' = [job EXCEPT !["Q"] =
                       Rebuild(Head(requests[Pops[k]]), TRUE, Pops[k] = "light")]
          /\ agenda' = IF After[k] \o Tail(agenda) = <<>> THEN Update
                       ELSE After[k] \o Tail(agenda)
  /\ UNCHANGED <<blockVars, facade, takencare, automata, bank, ready, meshVars,
                 player, implic, plan, main, boundVars, missed, raced, overtaken>>

(* All queued changes: those that find the block they expect are applied.  *)
DrainAutomata ==
  /\ QReady /\ Head(agenda) = "automata"
  /\ \E S \in SUBSET ToSet(automata) : implic' = S /\ world' = Changed(S)
  /\ automata' = <<>>
  /\ agenda' = NextPop
  /\ UNCHANGED <<stamped, lit, facade, takencare, requests, bank, ready, meshVars,
                 player, job, plan, main, boundVars, missed, raced, overtaken>>

(* Planted bug: applied changes are not followed by a request.             *)
RequestImplicated_Silent ==
  /\ implic # {}
  /\ implic' = {}
  /\ UNCHANGED <<blockVars, facade, takencare, requests, automata, bank, ready,
                 meshVars, player, job, agenda, plan, main, boundVars, missed,
                 raced, overtaken>>
RequestImplicated ==
  /\ implic # {}
  /\ requests' = Requested(requests, "user", implic)
  /\ missed' = missed \cup (implic \ Served)
  /\ implic' = {}
  /\ UNCHANGED <<blockVars, facade, takencare, automata, bank, ready, meshVars,
                 player, job, agenda, plan, main, boundVars, raced, overtaken>>

---------------------------------------------------------------------------
(* N: attend_needed_spots.                                                 *)

Square == {p \in Spots : p - player \in (-Radius)..(Radius - 1)}
Dist(p) == IF p < player THEN player - p ELSE p - player
Distant(g) == ~facade[g].used \/ Dist(facade[g].pos) >= 2 * Radius

(* The one way to list the members of S in an order.                       *)
InOrder(S, Before(_, _)) ==
  {s \in [1..Cardinality(S) -> S] :
     \A i, j \in 1..Cardinality(S) : i < j => Before(s[i], s[j])}

(* Nearest spots first; facades whose lock is free, unused or distant ones *)
(* first.                                                                  *)
Nearer(p, q) == Dist(p) < Dist(q) \/ (Dist(p) = Dist(q) /\ p < q)
NeededSpots == InOrder(Square \ Served, Nearer)

Preferred(g, h) == IF Distant(g) = Distant(h) THEN g < h ELSE Distant(g)
SortedFacades ==
  InOrder({g \in Indices : \A t \in Systems : ~Building(t, g)}, Preferred)

NReady == job["N"] = Idle

MakePlan ==
  /\ NReady /\ plan = <<>>
  /\ Square \ Served # {}
  /\ \E needed \in NeededSpots, facades \in SortedFacades :
       plan' = [i \in DOMAIN needed |->
                  [spot |-> needed[i], index |-> facades[i], gen |-> TRUE]]
  /\ UNCHANGED <<blockVars, facade, takencare, requests, automata, bank, ready,
                 meshVars, player, job, agenda, implic, main, boundVars,
                 missed, raced, overtaken>>

NTake(q, rest) ==
  /\ requests[q] # <<>>
  /\ requests' = [requests EXCEPT ![q] = Tail(@)]
  /\ job' = [job EXCEPT !["N"] = Rebuild(Head(requests[q]), TRUE, q = "light")]
  /\ plan' = rest
  /\ UNCHANGED <<blockVars, facade, takencare, automata, bank, ready, meshVars,
                 player, agenda, implic, main, boundVars, missed, raced, overtaken>>

(* Before each spot, whatever waits goes first and ends this round: only a *)
(* gen request lets it go on, and is looked for once per spot.             *)
YieldToAutomata ==
  /\ NReady /\ plan # <<>> /\ plan[1].gen /\ automata # <<>>
  /\ automata' = Append(Tail(automata), Head(automata))
  /\ plan' = <<>>
  /\ UNCHANGED <<blockVars, facade, takencare, requests, bank, ready, meshVars,
                 player, job, agenda, implic, main, boundVars, missed, raced,
                 overtaken>>
YieldToUser ==
  /\ NReady /\ plan # <<>> /\ plan[1].gen /\ automata = <<>>
  /\ NTake("user", <<>>)
YieldToLight ==
  /\ NReady /\ plan # <<>> /\ plan[1].gen /\ automata = <<>>
  /\ requests["user"] = <<>>
  /\ NTake("light", <<>>)
GenFirst ==
  /\ NReady /\ plan # <<>> /\ plan[1].gen /\ automata = <<>>
  /\ requests["user"] = <<>> /\ requests["light"] = <<>>
  /\ NTake("gen", [plan EXCEPT ![1].gen = FALSE])

(* Planted bug: the old entry of a moved facade is not removed.            *)
Move_KeepsEntry ==
  /\ NReady /\ plan # <<>>
  /\ plan[1].gen => /\ automata = <<>>
                    /\ \A q \in DOMAIN requests : requests[q] = <<>>
  /\ LET g == plan[1].index IN
     /\ plan[1].spot \notin Served
     /\ job' = [job EXCEPT !["N"] =
                  [step |-> "place", index |-> g, spot |-> plan[1].spot]]
  /\ plan' = Tail(plan)
  /\ UNCHANGED <<blockVars, facade, takencare, requests, automata, bank, ready, meshVars,
                 player, agenda, implic, main, boundVars, missed, raced,
                 overtaken>>

(* move_and_rebuild, up to where it needs the lock of the chunk.  Its other *)
(* branch, for a spot that is served, is never taken: only N itself makes  *)
(* entries for spots that it has planned.                                  *)
Move ==
  /\ NReady /\ plan # <<>>
  /\ plan[1].gen => /\ automata = <<>>
                    /\ \A q \in DOMAIN requests : requests[q] = <<>>
  /\ LET g == plan[1].index  old == facade[g].pos IN
     /\ plan[1].spot \notin Served
     /\ takencare' = [p \in Served \ {old} |-> takencare[p]]
     /\ job' = [job EXCEPT !["N"] =
                  [step |-> "place", index |-> g, spot |-> plan[1].spot]]
  /\ plan' = Tail(plan)
  /\ UNCHANGED <<blockVars, facade, requests, automata, bank, ready, meshVars,
                 player, agenda, implic, main, boundVars, missed, raced,
                 overtaken>>

(* generate_chunk: the models, placed once more, are the same blocks.      *)
GenerateChunk(p) ==
  /\ stamped' = stamped \cup {p}
  /\ world' = Changed(IF p \in stamped THEN {} ELSE Stamped[p])
  /\ requests' = Requested(requests, "gen", Stamped[p])

(* The rest of move_and_rebuild, up to its rebuild_index.                  *)
Place ==
  LET g == job["N"].index  p == job["N"].spot IN
  /\ job["N"].step = "place"
  /\ ~Building("Q", g)
  /\ facade' = [facade EXCEPT ![g].pos = p]
  /\ GenerateChunk(p)
  /\ job' = [job EXCEPT !["N"] = Rebuild(g, FALSE, p \notin lit)]
  /\ UNCHANGED <<lit, takencare, automata, bank, ready, meshVars, player, agenda,
                 implic, plan, main, boundVars, missed, raced, overtaken>>

---------------------------------------------------------------------------
(* The main thread.                                                        *)

(* set_block_and_queue_rerender, first half: the block is set.  It may be  *)
(* at a border, with neighbours in another chunk, and, if it is no light,  *)
(* stand in the light of other chunks, which the lightmap tells.           *)
SetBlock ==
  /\ main = Resting /\ changes < MaxChanges
  /\ \E p \in Square, light \in BOOLEAN :
       \E neighbs \in {{p}} \cup {{p, q} : q \in Near(p)},
          intercepts \in {{}, IF light THEN {} ELSE {q \in Spots : p \in Glow[q]}} :
         /\ world' = Changed({p})
         /\ main' = [step |-> "request", spot |-> p, light |-> light,
                     neighbs |-> neighbs, intercepts |-> intercepts]
  /\ changes' = changes + 1
  /\ UNCHANGED <<stamped, lit, facade, takencare, requests, automata, bank, ready,
                 meshVars, player, job, agenda, implic, plan, walks, missed, raced, overtaken>>

(* Second half: whoever serves the spots now is asked to rebuild.          *)
QueueRerender ==
  /\ main.step = "request"
  /\ requests' = Requested(Requested(requests, "light", main.intercepts),
                           IF main.light THEN "light" ELSE "user", main.neighbs)
  /\ missed' = missed \cup ({main.spot} \ Served)
  /\ main' = Resting
  /\ UNCHANGED <<blockVars, facade, takencare, automata, bank, ready, meshVars,
                 player, job, agenda, implic, plan, boundVars, raced, overtaken>>

(* An upload waits while the geometry is locked; position and length come  *)
(* from the message, the data from the bank.                               *)
Upload(q) ==
  LET g == Head(ready[q]).index IN
  /\ \A t \in Systems : ~(job[t].step = "finish" /\ job[t].index = g)
  /\ memory' = [memory EXCEPT ![g] = Head(ready[q]).mesh]
  /\ vbo' = [vbo EXCEPT ![g] = bank[g]]
  /\ ready' = [ready EXCEPT ![q] = Tail(@)]

FrameUser ==
  /\ main = Resting
  /\ \E q \in DOMAIN ready : ready[q] # <<>>
  /\ IF ready["user"] = <<>> THEN UNCHANGED <<meshVars, ready>> ELSE Upload("user")
  /\ main' = [step |-> "geo"]
  /\ UNCHANGED <<blockVars, facade, takencare, requests, automata, bank, player,
                 job, agenda, implic, plan, boundVars, missed, raced, overtaken>>

FrameGeo ==
  /\ main.step = "geo"
  /\ IF ready["geo"] = <<>>
     THEN UNCHANGED <<meshVars, ready>> /\ main' = Resting
     ELSE Upload("geo") /\ main' = [step |-> "users"]
  /\ UNCHANGED <<blockVars, facade, takencare, requests, automata, bank, player,
                 job, agenda, implic, plan, boundVars, missed, raced, overtaken>>

FrameUsers ==
  /\ main.step = "users"
  /\ IF ready["user"] = <<>>
     THEN UNCHANGED <<meshVars, ready>> /\ main' = Resting
     ELSE Upload("user") /\ UNCHANGED main
  /\ UNCHANGED <<blockVars, facade, takencare, requests, automata, bank, player,
                 job, agenda, implic, plan, boundVars, missed, raced, overtaken>>

Walk ==
  /\ walks < MaxWalks
  /\ player' \in Near(player)
  /\ walks' = walks + 1
  /\ UNCHANGED <<blockVars, facade, takencare, requests, automata, bank, ready,
                 meshVars, job, agenda, implic, plan, main, changes, missed, raced, overtaken>>

(* The thread of do_automata.  The queue is a static mut without a lock: a *)
(* change that the race loses is one of those DrainAutomata may not apply, *)
(* and one popped twice no longer finds the block it expects.              *)
Automaton ==
  /\ changes < MaxChanges
  /\ \E p \in Served : automata' = Append(automata, p)
  /\ changes' = changes + 1
  /\ UNCHANGED <<blockVars, facade, takencare, requests, bank, ready, meshVars,
                 player, job, agenda, implic, plan, main, walks,
                 missed, raced, overtaken>>

---------------------------------------------------------------------------
RebuildIndex(t) == Lock(t) \/ Read(t) \/ Finish(t)
AttendChunkQueues == RebuildIndex("Q") \/ Pop \/ DrainAutomata \/ RequestImplicated
AttendNeededSpots ==
  \/ RebuildIndex("N") \/ MakePlan \/ Move \/ Place
  \/ YieldToAutomata \/ YieldToUser \/ YieldToLight \/ GenFirst
Frame == FrameUser \/ FrameGeo \/ FrameUsers \/ QueueRerender

Next == AttendChunkQueues \/ AttendNeededSpots \/ Frame \/ SetBlock \/ Walk \/ Automaton

Spec == Init /\ [][Next]_vars

(* The systems run in every update and the main thread in every frame.     *)
Fairness == WF_vars(AttendChunkQueues) /\ WF_vars(AttendNeededSpots) /\ WF_vars(Frame)
FairSpec == Spec /\ Fairness

---------------------------------------------------------------------------
Meshes == [pos : Spots \cup {Nowhere}, version : Nat]

(* Indices, spots and meshes are what they should be.                      *)
TypeOK ==
  /\ world \in [Spots -> Nat]
  /\ lit \subseteq Spots /\ stamped \subseteq Spots
  /\ facade \in [Indices -> [pos : Spots \cup {Nowhere}, used : BOOLEAN]]
  /\ Served \subseteq Spots /\ \A p \in Served : takencare[p] \in Indices
  /\ \A q \in DOMAIN requests : ToSet(requests[q]) \subseteq Indices
  /\ ToSet(automata) \subseteq Spots
  /\ \A q \in DOMAIN ready : ToSet(ready[q]) \subseteq [index : Indices, mesh : Meshes]
  /\ bank \in [Indices -> Meshes] /\ memory \in [Indices -> Meshes]
  /\ vbo \in [Indices -> Meshes]
  /\ \A t \in Systems : job[t] = Idle \/ job[t].index \in Indices

(* Nothing is requested, being built or waiting to be uploaded.            *)
Quiet ==
  /\ \A q \in DOMAIN requests : requests[q] = <<>>
  /\ \A q \in DOMAIN ready : ready[q] = <<>>
  /\ \A t \in Systems : job[t] = Idle
  /\ implic = {} /\ main = Resting

(* Once everything requested is done, what is drawn for a spot is what is  *)
(* there: its position, its length and its data.  There are three ways to  *)
(* get it wrong, and no other: the block was set while the chunk was being *)
(* moved or built for the first time (queue_rerender finds no entry), two  *)
(* meshes of an index were in the two finished queues, which the main      *)
(* thread does not empty in the order they were filled, or the spot was    *)
(* given up during a rebuild.                                              *)
MeshesCatchUp ==
  Quiet => \A p \in Served \ (missed \cup raced) :
             takencare[p] \in overtaken
               \/ /\ memory[takencare[p]] = Mesh(p, world[p])
                  /\ vbo[takencare[p]] = Mesh(p, world[p])

(* An entry of takencare names a facade that is at the spot, unless Q was  *)
(* rebuilding the facade when N took it away: then the end of the rebuild  *)
(* brings the old entry back, and N never serves that spot again.          *)
(* No two facades draw the same spot.                                      *)
EntriesAreTrue ==
  /\ \A p \in Served : facade[takencare[p]].pos = p \/ p \in raced
  /\ \A g, h \in Indices :
       facade[g].pos = facade[h].pos => g = h \/ facade[g].pos = Nowhere

(* When the player stands still and the automata rest, every spot of the   *)
(* square around the player gets an entry, however often the queues made N *)
(* give up its round.                                                      *)
(* And every request is served, and every finished mesh uploaded, however  *)
(* the queues wait for each other.                                         *)
AllIsServed == <>[](Square \subseteq Served) /\ []<>Quiet
=============================================================================
