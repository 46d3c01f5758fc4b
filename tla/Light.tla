------------------------------- MODULE Light -------------------------------
(***************************************************************************)
(* The light of lamps and torches in the client's world (chunk.rs).  The   *)
(* lightmap keeps, per block, a ray for every light that reaches it: its   *)
(* value and the directions in which it went on, so that the light can be  *)
(* taken back along them after the blocks have changed.  A light pass over *)
(* a chunk takes back all the light that begins there and floods it anew.  *)
(*                                                                         *)
(* The main thread sets blocks.  For one block that the player breaks or   *)
(* places it asks for the light passes that the block calls for; for the   *)
(* blocks of a patch of crystals, or of a model that the build mode        *)
(* stamps, it only asks to rebuild the chunks they stand in.  The workers, *)
(* which are the two systems of ChunkRebuild, make the passes and rebuild  *)
(* the meshes.  Requests are sets here: their order, and chunks that come  *)
(* and go, are in ChunkRebuild.  A light has one colour.  Automata and     *)
(* doors are left out: they exchange blocks that light passes for others   *)
(* that it passes, and blocks that it does not for others that it does not.*)
(***************************************************************************)
EXTENDS Integers, Sequences, FiniteSetsExt

CONSTANTS
  Cells,     \* the spots of the world
  Neighbors, \* Cube::get_neighbors, per cell
  ChunkOf,   \* spot_to_chunk_pos
  World,     \* the blocks at the start
  Bright,    \* the value at a light
  Workers,   \* the systems that attend the requests
  Editable,  \* bound: spots where the player sets blocks
  Models,    \* what a model can stamp: blocks by spot
  MaxEdits,  \* bound: how often the player sets blocks
  None

(* One block of each kind the code tells apart: glass is transparent, a    *)
(* ladder semi-transparent, a lamp a light, a torch a transparent light; a *)
(* crystal is opaque as stone is, and breaks with all that touch it.       *)
Kinds == {"air", "glass", "ladder", "stone", "crystal", "lamp", "torch"}

ASSUME LightAssumption ==
  /\ Neighbors \in [Cells -> SUBSET Cells]
  /\ \A c, d \in Cells : c \in Neighbors[d] <=> d \in Neighbors[c]
  /\ \A c \in Cells : \E d \in Neighbors[c] : ChunkOf[d] = ChunkOf[c]
  /\ World \in [Cells -> Kinds]
  /\ MaxEdits \in Nat
  /\ \A b \in Models : DOMAIN b \subseteq Cells /\ b \in [DOMAIN b -> Kinds]
  /\ None \notin Cells /\ \A c \in Cells : ChunkOf[c] # None
  /\ Bright \in 2..15 /\ Editable \subseteq Cells

VARIABLES
  blocks,   \* the maps of blocks
  rays,     \* the lightmap, per origin: the rays of its light by cell
  lightReq, \* chunks in light_rebuild_requests
  userReq,  \* chunks in user_rebuild_requests
  pass,     \* per worker, the light pass it makes
  shown,    \* per chunk, the faces of its mesh and the light on them
  walk,     \* who has locked the lightmap, and the flood it makes
  main,     \* the block the main thread has set and not yet asked for
  patch,    \* the blocks it is setting without asking for light
  edits,    \* how often blocks were set
  crossed,  \* history: lights whose way changed without a pass over them
  overlaid, \* history: spots of lights that were set or taken like that
  unseen    \* history: faces of other chunks towards blocks set like that

quietVars == <<patch, overlaid, unseen>>
lightVars == <<blocks, rays, lightReq, userReq, pass, walk, shown, main, edits,
               crossed, patch, overlaid, unseen>>

Chunks == {ChunkOf[c] : c \in Cells}
Idle == [chunk |-> None, existing |-> {}, sources |-> {}, imp |-> {}]
NoBlock == [cell |-> None, old |-> "air", new |-> "air"]
NoPatch == [todo |-> <<>>, chunks |-> {}]
NoWalk == [worker |-> None, origin |-> None, stack |-> <<>>, visited |-> {}]

IsLight(block) == block \in {"lamp", "torch"}
IsTransparent(block) == block \in {"glass", "torch"}
IsSemiTransparent(block) == block = "ladder"
Passes(block) ==
  block = "air" \/ IsTransparent(block) \/ IsSemiTransparent(block)
LightAt(c) ==
  {<<o, rays[o][c].value>> : o \in {a \in Cells : c \in DOMAIN rays[a]}}

---------------------------------------------------------------------------
(* depropagate_light_origin: light is taken back along the directions in   *)
(* which it went on, from the light itself.  The lightmap stays locked and *)
(* nothing else is read, so this is one step.                              *)

FollowsRays(o, s) == \A c \in s \cap DOMAIN rays[o] : rays[o][c].dirs \subseteq s
Trail(o) ==
  LET closed == {s \in SUBSET Cells : o \in s /\ FollowsRays(o, s)}
  IN {c \in Cells : \A s \in closed : c \in s}
TakenBack(o) == [c \in DOMAIN rays[o] \ Trail(o) |-> rays[o][c]]

(* propagate_light_origin walks with a stack of what is still to visit.    *)
(* Spots that are pushed together have one value; in which order they are  *)
(* visited is fixed, as in get_neighbors, and no property depends on it.   *)

ValueIn(r, c) == IF c \in DOMAIN r THEN r[c].value ELSE 0
DirsIn(r, c) == IF c \in DOMAIN r THEN r[c].dirs ELSE {}
GoesOn(c, o) == Passes(blocks[c]) \/ c = o
Reduced(value) == Max({value - 2, 0})

(* Planted bug: a cell that was visited is never visited again.            *)
Improves_Once(r, c, value, visited) == c \notin visited
(* A cell is visited again when it gets more light than it had.            *)
Improves(r, c, value, visited) == c \notin visited \/ ValueIn(r, c) < value

WithRay(r, c, ray) == [d \in DOMAIN r \cup {c} |-> IF d = c THEN ray ELSE r[d]]
Here(r, c, value) ==
  [value |-> Max({value, ValueIn(r, c)}), dirs |-> DirsIn(r, c)]
Onward(o, c, value) ==
  LET r == WithRay(rays[o], c, Here(rays[o], c, value))
  IN IF GoesOn(c, o) /\ value > 1
     THEN {d \in Neighbors[c] : Improves(r, d, Reduced(value), walk.visited)}
     ELSE {}
Push(stack, cells, value) ==
  IF cells = {} THEN stack ELSE <<[cells |-> cells, value |-> value]>> \o stack

---------------------------------------------------------------------------
LightInit ==
  /\ blocks = World
  /\ rays = [o \in Cells |-> <<>>]
  /\ lightReq = Chunks /\ userReq = {}
  /\ pass = [w \in Workers |-> Idle]
  /\ shown = [k \in Chunks |-> <<>>]
  /\ main = NoBlock /\ edits = 0
  /\ walk = NoWalk
  /\ patch = NoPatch /\ crossed = {} /\ overlaid = {} /\ unseen = {}

Free == walk = NoWalk
Locked(k) == \E w \in Workers : pass[w].chunk = k

(* The sources: lights that have rays in the chunk and begin in it, and    *)
(* the lights that stand in it.                                            *)
StartPass(w) ==
  /\ Free /\ pass[w] = Idle
  /\ \E k \in lightReq :
       /\ ~Locked(k)
       /\ lightReq' = lightReq \ {k}
       /\ LET inside == {c \in Cells : ChunkOf[c] = k} IN
          pass' = [pass EXCEPT ![w] =
            [chunk |-> k,
             existing |-> {o \in inside : \E c \in inside : c \in DOMAIN rays[o]},
             sources |-> {c \in inside : IsLight(blocks[c])},
             imp |-> {}]]
       /\ overlaid' = {o \in overlaid : ChunkOf[o] # k}
  /\ UNCHANGED <<blocks, rays, userReq, walk, shown, main, edits, crossed,
                 patch, unseen>>

Depropagate(w) ==
  /\ Free /\ pass[w] # Idle
  /\ \E o \in pass[w].existing :
       /\ rays' = [rays EXCEPT ![o] = TakenBack(o)]
       /\ pass' = [pass EXCEPT ![w].existing = @ \ {o},
                               ![w].imp = @ \cup {ChunkOf[c] : c \in Trail(o)}]
  /\ UNCHANGED <<blocks, lightReq, userReq, walk, shown, main, edits, crossed,
                 quietVars>>

Propagate(w) ==
  /\ Free /\ pass[w] # Idle /\ pass[w].existing = {}
  /\ \E o \in pass[w].sources :
       /\ walk' = [worker |-> w, origin |-> o, visited |-> {o},
                   stack |-> <<[cells |-> {o}, value |-> Bright]>>]
       /\ pass' = [pass EXCEPT ![w].sources = @ \ {o}]
       /\ crossed' = crossed \ {o}
  /\ UNCHANGED <<blocks, rays, lightReq, userReq, shown, main, edits, quietVars>>

(* One turn of the walk.  It reads the block here, which the main thread   *)
(* may set meanwhile; light goes on from it to the spots it improves.      *)
Visit ==
  /\ ~Free
  /\ LET o == walk.origin
         w == walk.worker
         top == Head(walk.stack)
         value == top.value
         c == CHOOSE d \in top.cells : TRUE
         rest == Push(Tail(walk.stack), top.cells \ {c}, value)
         next == Onward(o, c, value)
         stack == Push(rest, next, Reduced(value))
         ray == [Here(rays[o], c, value) EXCEPT !.dirs = @ \cup next]
     IN /\ rays' = [rays EXCEPT ![o] = WithRay(rays[o], c, ray)]
        /\ pass' = [pass EXCEPT ![w].imp =
                      IF GoesOn(c, o) THEN @ \cup {ChunkOf[c]} ELSE @]
        /\ walk' = IF stack = <<>> THEN NoWalk
                   ELSE [walk EXCEPT !.stack = stack, !.visited = @ \cup next]
  /\ UNCHANGED <<blocks, lightReq, userReq, shown, main, edits, crossed, quietVars>>

(* The faces of a mesh: from a cube of the chunk to a spot where it can be *)
(* seen, in whichever chunk; on each, the light at that spot.  Other       *)
(* models are drawn whole, in the light of their own spot.                 *)
IsModel(block) == block \in {"ladder", "torch"}
Visible(c, d) ==
  \/ blocks[c] = "glass" /\ (blocks[d] = "air" \/ IsSemiTransparent(blocks[d]))
  \/ blocks[c] \in {"stone", "crystal", "lamp"} /\ Passes(blocks[d])
ModelsOf(k) == {<<c, c>> : c \in {d \in Cells : ChunkOf[d] = k /\ IsModel(blocks[d])}}
FacesOf(k) ==
  ModelsOf(k) \cup
  {f \in Cells \X Cells :
     /\ ChunkOf[f[1]] = k /\ f[2] \in Neighbors[f[1]] /\ Visible(f[1], f[2])}
(* A chunk that is rebuilt sees its own faces as they are.                 *)
Seen(k) == {f \in unseen : ChunkOf[f[1]] = k}
Faces(k) == [f \in FacesOf(k) |-> LightAt(f[2])]

(* Planted bug: chunks that were implicated keep their meshes.             *)
ToRebuild_None(p) == {}
ToRebuild(p) == p.imp \ {p.chunk}
(* The other chunks that were implicated are to be rebuilt, and this chunk *)
(* is rebuilt at once.                                                     *)
EndPass(w) ==
  /\ Free /\ pass[w] # Idle /\ pass[w].existing = {} /\ pass[w].sources = {}
  /\ userReq' = userReq \cup ToRebuild(pass[w])
  /\ shown' = [shown EXCEPT ![pass[w].chunk] = Faces(pass[w].chunk)]
  /\ unseen' = unseen \ Seen(pass[w].chunk)
  /\ pass' = [pass EXCEPT ![w] = Idle]
  /\ UNCHANGED <<blocks, rays, lightReq, walk, main, edits, crossed, patch, overlaid>>

RebuildIndex(w) ==
  /\ Free /\ pass[w] = Idle
  /\ \E k \in userReq :
       /\ ~Locked(k)
       /\ userReq' = userReq \ {k}
       /\ shown' = [shown EXCEPT ![k] = Faces(k)]
       /\ unseen' = unseen \ Seen(k)
  /\ UNCHANGED <<blocks, rays, lightReq, pass, walk, main, edits, crossed,
                 patch, overlaid>>

---------------------------------------------------------------------------
(* set_block_and_queue_rerender: first the block is set; crystals are not  *)
(* among what the player can hold, and are broken by the patch ...         *)
AtRest == main = NoBlock /\ patch = NoPatch
SetBlock ==
  /\ AtRest /\ edits < MaxEdits
  /\ \E c \in Editable : \E b \in Kinds \ {blocks[c]} :
       /\ "crystal" \notin {b, blocks[c]}
       /\ blocks[c] = "air" \/ b = "air"
       /\ blocks' = [blocks EXCEPT ![c] = b]
       /\ main' = [cell |-> c, old |-> blocks[c], new |-> b]
  /\ edits' = edits + 1
  /\ UNCHANGED <<rays, lightReq, userReq, pass, walk, shown, crossed, quietVars>>

(* ... then the lightmap is asked whose light comes past it, unless it is  *)
(* a light itself or something transparent, and the rebuild is requested:  *)
(* of the neighbours' chunks too when a block was broken.                  *)
Nearby(c) == {o \in Cells : Neighbors[c] \cap DOMAIN rays[o] # {}}

Targets(c, block) ==
  IF block = "air" THEN {ChunkOf[d] : d \in Neighbors[c]} ELSE {ChunkOf[c]}

Implicated(c, block) ==
  IF IsTransparent(block) THEN {} ELSE {ChunkOf[o] : o \in Nearby(c)}

QueueRerender ==
  LET c == main.cell
      light == IsLight(main.new) \/ IsLight(main.old)
      implicated == IF light THEN {} ELSE Implicated(c, main.new)
      targets == Targets(c, main.new)
  IN
  /\ main # NoBlock
  /\ light \/ IsTransparent(main.new) \/ Free
  /\ lightReq' = lightReq \cup implicated \cup IF light THEN targets ELSE {}
  /\ userReq' = userReq \cup IF light THEN {} ELSE targets
  /\ crossed' = IF light THEN crossed \cup Nearby(c) ELSE crossed
  /\ main' = NoBlock
  /\ UNCHANGED <<blocks, rays, pass, walk, shown, edits, quietVars>>

(* delete_block_recursively: all the crystals that touch the one that was  *)
(* hit become air; cast_break_ray then asks to rebuild their chunks.       *)
CrystalSpots == {c \in Cells : blocks[c] = "crystal"}
Touching(c) ==
  LET closed == {s \in SUBSET CrystalSpots :
                   c \in s /\ \A d \in s : Neighbors[d] \cap CrystalSpots \subseteq s}
  IN {d \in CrystalSpots : \A s \in closed : d \in s}

SetAll(b) ==
  /\ AtRest /\ edits < MaxEdits
  /\ patch' = [todo |-> b, chunks |-> {ChunkOf[c] : c \in DOMAIN b}]
  /\ edits' = edits + 1
  /\ UNCHANGED <<blocks, rays, lightReq, userReq, pass, walk, shown, main, crossed,
                 overlaid, unseen>>
BreakCrystals ==
  \E c \in Editable \cap CrystalSpots : SetAll([d \in Touching(c) |-> "air"])
(* The build mode sets every block of its model, whatever stands there.    *)
Stamp == \E b \in Models : SetAll(b)

(* Either way the blocks are set one by one.  Then their own chunks are to *)
(* be rebuilt; nothing is asked of the lightmap, nor for chunks across a   *)
(* border of theirs.                                                       *)
Across(c) == {d \in Neighbors[c] : ChunkOf[d] # ChunkOf[c]}
SetNext ==
  /\ \E c \in DOMAIN patch.todo :
       LET new == patch.todo[c]
           light == IsLight(new) \/ IsLight(blocks[c])
       IN
       /\ blocks' = [blocks EXCEPT ![c] = new]
       /\ patch' = [patch EXCEPT !.todo = [d \in DOMAIN @ \ {c} |-> @[d]]]
       /\ crossed' = IF Passes(new) # Passes(blocks[c])
                       THEN crossed \cup Nearby(c) ELSE crossed
       /\ overlaid' = IF light THEN overlaid \cup {c} ELSE overlaid
       /\ unseen' = unseen \cup (Across(c) \X {c})
  /\ UNCHANGED <<rays, lightReq, userReq, pass, walk, shown, main, edits>>

QueuePatch ==
  /\ patch # NoPatch /\ DOMAIN patch.todo = {}
  /\ userReq' = userReq \cup patch.chunks
  /\ patch' = NoPatch
  /\ UNCHANGED <<blocks, rays, lightReq, pass, walk, shown, main, edits, crossed,
                 overlaid, unseen>>

LightNext ==
  \/ SetBlock \/ QueueRerender \/ Visit
  \/ BreakCrystals \/ Stamp \/ SetNext \/ QueuePatch
  \/ \E w \in Workers :
       \/ StartPass(w) \/ Depropagate(w) \/ Propagate(w)
       \/ EndPass(w) \/ RebuildIndex(w)

LightSpec == LightInit /\ [][LightNext]_lightVars
---------------------------------------------------------------------------
(* Types; a ray has a value that a light can have after some steps.        *)
Steps == Bright \div 2
Levels == {Bright - 2 * k : k \in 0..Steps}
Rays == [value : Levels, dirs : SUBSET Cells]
BlockMaps == UNION {[s -> Kinds] : s \in SUBSET Cells}
RayMaps == UNION {[s -> Rays] : s \in SUBSET Cells}
Meshes ==
  UNION {[s -> SUBSET (Cells \X Levels)] : s \in SUBSET (Cells \X Cells)}
Groups == [cells : SUBSET Cells, value : Levels]
LightPasses == [chunk : Chunks \cup {None}, existing : SUBSET Cells,
                sources : SUBSET Cells, imp : SUBSET Chunks]

LightTypeOK ==
  /\ blocks \in [Cells -> Kinds]
  /\ rays \in [Cells -> RayMaps]
  /\ lightReq \subseteq Chunks /\ userReq \subseteq Chunks
  /\ pass \in [Workers -> LightPasses]
  /\ walk \in [worker : Workers \cup {None}, origin : Cells \cup {None},
               stack : Seq(Groups), visited : SUBSET Cells]
  /\ shown \in [Chunks -> Meshes]
  /\ main \in [cell : Cells \cup {None}, old : Kinds, new : Kinds]
  /\ edits \in 0..MaxEdits
  /\ patch \in [todo : BlockMaps, chunks : SUBSET Chunks]
  /\ crossed \subseteq Cells /\ overlaid \subseteq Cells /\ unseen \subseteq Cells \X Cells

(* What a light at o should give, by distance: the cells after k steps     *)
(* that go on only through blocks that light passes.                       *)
Reach(o) ==
  LET reach[k \in 0..Steps] ==
        IF k = 0 THEN {o}
        ELSE reach[k - 1] \cup
               UNION {Neighbors[c] : c \in {d \in reach[k - 1] : GoesOn(d, o)}}
  IN reach
Distance(o, c) ==
  CHOOSE k \in 0..Steps : c \in Reach(o)[k] /\ (k = 0 \/ c \notin Reach(o)[k - 1])
Value(o, c) == Bright - 2 * Distance(o, c)

PassesDone ==
  AtRest /\ lightReq = {} /\ \A w \in Workers : pass[w] = Idle

(* When every requested pass is made, no light is left of a light that is  *)
(* gone, and every light shines exactly as far as the blocks let it,       *)
(* whatever was set while passes were under way.  The exceptions: a light  *)
(* past which another light was set or taken (only the chunk of the latter *)
(* is passed over then), or past which crystals were broken or a model was *)
(* stamped, keeps shining as before until a pass is made over it; and a    *)
(* light that a model was stamped over shines on until its chunk has one.  *)
LightIsExact ==
  PassesDone =>
    \A o \in Cells \ overlaid :
      IF ~IsLight(blocks[o]) THEN DOMAIN rays[o] = {}
      ELSE \/ o \in crossed
           \/ /\ DOMAIN rays[o] = Reach(o)[Steps]
              /\ \A c \in DOMAIN rays[o] : rays[o][c].value = Value(o, c)

(* When the meshes are rebuilt too, no face that can be seen is missing    *)
(* from them: breaking one block shows its neighbours, in every chunk.  The*)
(* exception: where crystals were broken or a model was stamped, the faces *)
(* of other chunks show when those are next rebuilt.  On the faces towards *)
(* the chunk's own spots they show the light of the lightmap, wherever it  *)
(* changed and from whichever chunk it came.  A face towards another       *)
(* chunk's spot has the light of the last rebuild: light that only strikes *)
(* an opaque block does not implicate the block's chunk.                   *)
Inner(k) == {f \in DOMAIN shown[k] : ChunkOf[f[2]] = k}
ShownIsLit ==
  PassesDone /\ userReq = {} =>
    \A k \in Chunks :
      /\ FacesOf(k) \ unseen \subseteq DOMAIN shown[k]
      /\ \A f \in Inner(k) : f \in FacesOf(k) /\ shown[k][f] = LightAt(f[2])
=============================================================================
