------------------------------- MODULE Player -------------------------------
(***************************************************************************)
(* How the player of the client stands, jumps, swims, climbs, falls and is *)
(* hurt (lib/src/game.rs update_movement_and_physics, take_damage,         *)
(* activate_jump_block; collisioncage.rs; camera.rs), in one column of     *)
(* blocks that the player also changes.                                    *)
(*                                                                         *)
(* A frame reads the blocks at the feet and the head, moves the player by  *)
(* a velocity of which only the sign is kept, corrects the move with the   *)
(* solid blocks that the collision cage read at the end of the frame       *)
(* before, and then reads the cage again.  Time is counted in half         *)
(* seconds: a frame ends one or it does not, so how long a fall through a  *)
(* block of air takes is open, and a low column stands for the high ones.  *)
(***************************************************************************)
EXTENDS Integers, FiniteSets

CONSTANTS
  Height,   \* the blocks of the column are 0..Height; 0 is never broken
  Columns,  \* the columns to begin with
  Spawn,    \* where the feet are at first and after a death
  Foods,    \* what the things a player eats are worth
  MaxAloft, \* bound: half seconds of falling at full speed
  MaxEdits  \* bound: blocks broken or placed

(* Jump blocks (40, 41) change into each other when somebody lands on      *)
(* them, a bouncy block (42) throws up who lands, a trampoline (46) who is *)
(* above it.                                                               *)
Solids == {"stone", "jump40", "jump41", "bouncy", "trampoline"}
Climbables == {"ladder"}
BlockKinds == Solids \cup Climbables \cup {"air", "water"}
Levels == 0..Height

ASSUME PlayerAssumption ==
  /\ Height \in Nat /\ Height >= 3 /\ Spawn \in 1..(Height - 1)
  /\ Columns \subseteq [Levels -> BlockKinds]
  /\ \A c \in Columns : c[0] \in Solids
                        /\ {c[Spawn], c[Spawn + 1]} \cap Solids = {}
  /\ Foods \subseteq 1..20 /\ MaxAloft \in Nat /\ MaxEdits \in Nat

VARIABLES
  column,   \* the block at each level
  feet,     \* the level of the block the feet are in; the head is above
  vy,       \* the sign of the vertical velocity
  resting,  \* the floor was touched in the last frame
  cage,     \* coll_cage.solid: where it was read, FLOOR and ROOF
  keys,     \* CROUCHING and controls.up
  within,   \* self.inwater, playerVars.in_climbable
  ground,   \* self.grounded, WAS_NOT_GROUNDED
  tramp,    \* TRAMPOLINE: it threw in the last half second
  jump,     \* jumping_up and current_jump_y
  fall,     \* time_falling_scalar in halves, time_tfs_at_3, WASFREEFALLING
  health,
  fallen,   \* history: half seconds of this fall, its free first included
  late,     \* history: time_tfs_at_3 is from a fall already over
  wrapped,  \* history: a damage did not fit in an i8
  edits

playerVars == <<column, feet, vy, resting, cage, keys, within, ground, tramp,
                jump, fall, health, fallen, late, wrapped, edits>>

(* Two of the boxes of the cage around the feet, update_readings and the   *)
(* predicate solid_pred.                                                   *)
Box(side, l) == IF side = "floor" THEN l - 1 ELSE l + 2
Solid(c, l) == l \in Levels /\ c[l] \in Solids
Readings(c, l) == [at |-> l, floor |-> Solid(c, Box("floor", l)),
                   roof |-> Solid(c, Box("roof", l))]

PlayerInit ==
  /\ column \in Columns /\ feet = Spawn /\ vy = 0 /\ resting = FALSE
  /\ cage = Readings(column, Spawn)
  /\ keys = [crouch |-> FALSE, up |-> FALSE]
  /\ within = [water |-> FALSE, climb |-> FALSE]
  /\ ground = [is |-> FALSE, wasNot |-> FALSE] /\ tramp = FALSE
  /\ jump = [up |-> FALSE, y |-> 0]
  /\ fall = [scalar |-> 2, at3 |-> 0, free |-> FALSE]
  /\ health = 20
  /\ fallen = 0 /\ late = FALSE /\ wrapped = FALSE
  /\ edits = 0

----------------------------------------------------------------------------
(* The parts of a frame.  A definition whose name ends in a bug's          *)
(* description is that bug planted in the definition after it.             *)

(* Into water with the feet, out of it when the lower feet are out; onto a *)
(* ladder with feet or head, off it when both are off.                     *)
Within(low) ==
  LET head == column[feet + 1]
      climbs(b) == b \in Climbables
  IN [water |-> /\ within.water \/ column[feet] = "water"
                /\ column[low] = "water",
      climb |-> /\ within.climb \/ climbs(column[feet]) \/ climbs(head)
                /\ climbs(column[low]) \/ climbs(head)]

(* Nobody falls who crouches where the ground has gone.                    *)
Grounded == ground.is /\ (cage.floor \/ keys.crouch)
WasNotGrounded == ground.wasNot \/ (~cage.floor /\ ~keys.crouch)

Falls(wet) == ~wet /\ ~Grounded /\ ~jump.up

Smaller(a, b) == IF a < b THEN a ELSE b

(* A landing ends a fall.  If the ground is gone in the next frame, the    *)
(* fall that begins then has had its beginning.                            *)
SoFar == IF ground.is THEN Smaller(1, fallen) ELSE fallen
Fallen(wet, tick) ==
  IF Falls(wet) THEN Smaller(SoFar + tick, MaxAloft + 1) ELSE 0

(* The clocks of a fall: at first the pull grows for two thirds of a       *)
(* second, and only the time after that is paid for.                       *)
FallClock_Dry(wet, tick) ==
  IF Falls(wet)
    THEN LET scalar == Smaller(6, fall.scalar + 3 * tick)
         IN [scalar |-> scalar, free |-> scalar = 6,
             at3 |-> IF scalar = 6 THEN fall.at3 + tick ELSE 0]
    ELSE [fall EXCEPT !.scalar = 2, !.free = FALSE]
FallClock(wet, tick) ==
  IF Falls(wet)
    THEN LET scalar == Smaller(6, fall.scalar + 3 * tick)
         IN [scalar |-> scalar, free |-> scalar = 6,
             at3 |-> IF scalar = 6 THEN fall.at3 + tick ELSE 0]
    ELSE [scalar |-> 2, free |-> FALSE,
          at3 |-> IF wet /\ fall.free THEN 0 ELSE fall.at3]

(* A jump lifts until the feet are 1.6 blocks above where it began.        *)
Lifting(wet) == ~wet /\ jump.up /\ feet <= jump.y + 1
Leaps(wet) == ~wet /\ keys.up /\ Grounded
Jump(wet) ==
  IF Leaps(wet) THEN [up |-> TRUE, y |-> feet]
  ELSE [jump EXCEPT !.up = @ /\ (wet \/ Lifting(wet))]

(* The signs of the forces: a trampoline, water or a ladder, gravity, the  *)
(* lift of a jump.  Without one the velocity goes to nothing.              *)
Thrown(tick) == column[feet - 1] = "trampoline" /\ (~tramp \/ tick = 1)
Pull(wet) ==
  (IF (wet /\ keys.up) \/ Lifting(wet) THEN {1} ELSE {})
    \cup (IF (wet /\ ~Grounded) \/ Falls(wet) THEN {-1} ELSE {})
Velocities(wet, tick) ==
  IF Thrown(tick) THEN {1}
  ELSE {vy} \cup (IF Pull(wet) = {} THEN {0} ELSE {})
         \cup {v \in {vy + f : f \in Pull(wet)} : v \in -1..1}

(* The floor and the roof the cage knows.                                  *)
Known == cage.at = feet
OnFloor == Known /\ cage.floor
UnderRoof == Known /\ cage.roof
(* The box of the player surely meets that of the floor when it is moved   *)
(* into it, or rests on it and is not moved up.                            *)
Touches(dy, v) == dy = -1 \/ (resting /\ v <= 0)

(* take_damage: u8 to i8, and the subtraction of an i8.                    *)
Signed(n) == IF n % 256 >= 128 THEN (n % 256) - 256 ELSE n % 256
Amount(at3) == Smaller(255, 10 * at3)
Hurt_Forgives(amount) ==
  LET left == Signed(health - Signed(amount))
  IN IF left <= 0 THEN 0 ELSE left
Hurt(amount) ==
  LET left == Signed(health - Signed(amount))
  IN IF left <= 0 THEN 20 ELSE left
Kills(amount) == Signed(health - Signed(amount)) <= 0

(* activate_jump_block, for who has just come down.                        *)
Activated(c, l) ==
  CASE c[l] = "jump40" -> [c EXCEPT ![l] = "jump41"]
    [] c[l] = "jump41" -> [c EXCEPT ![l] = "jump40"]
    [] OTHER -> c

----------------------------------------------------------------------------

(* The frame ends on the floor: the first time since the ground was left,  *)
(* jump blocks work and the fall is paid for.  Who dies starts again, with *)
(* the cage still where it was read.                                       *)
Land(wet, clock, v) ==
  LET down == WasNotGrounded
      paid == down /\ clock.at3 > 0
      dead == paid /\ Kills(Amount(clock.at3))
  IN /\ feet' = IF dead THEN Spawn ELSE feet
     /\ resting' = ~dead
     /\ vy' = CASE dead -> 0
                [] down /\ column[feet - 1] = "bouncy" -> 1
                [] OTHER -> v
     /\ cage' = Readings(column, feet)
     /\ column' = IF down THEN Activated(column, feet - 1) ELSE column
     /\ ground' = [is |-> TRUE, wasNot |-> FALSE]
     /\ jump' = Jump(wet)
     /\ fall' = [clock EXCEPT !.at3 = IF down THEN 0 ELSE @]
     /\ health' = IF paid THEN Hurt(Amount(clock.at3)) ELSE health
     /\ wrapped' = (wrapped \/ (paid /\ Amount(clock.at3) >= 128))
     /\ late' = (fall'.at3 > 0)

(* It ends in the air, or under a roof, which ends a jump.                 *)
Fly(wet, clock, v, dy) ==
  LET roof == UnderRoof /\ dy = 1
      at == IF roof THEN feet ELSE feet + dy
  IN /\ feet' = at /\ vy' = v /\ resting' = FALSE
     /\ cage' = Readings(column, at)
     /\ ground' = [is |-> Grounded /\ ~Leaps(wet) /\ ~roof,
                   wasNot |-> WasNotGrounded]
     /\ jump' = [Jump(wet) EXCEPT !.up = @ /\ ~roof]
     /\ fall' = clock
     /\ late' = (late /\ clock.at3 > 0)
     /\ UNCHANGED <<column, health, wrapped>>

(* tick: the frame ends a half second.  low: where a quarter of a block    *)
(* under the feet is.  Who has come to rest and is not thrown up touches   *)
(* the floor in every frame.                                               *)
PhysicsFrame(tick, low) ==
  LET in == Within(low)
      wet == in.water \/ in.climb
      clock == FallClock(wet, tick)
  IN /\ low = feet \/ ~resting
     /\ clock.at3 <= MaxAloft
     /\ within' = in
     /\ tramp' = IF Thrown(tick) THEN TRUE ELSE tramp /\ tick = 0
     /\ keys' = [keys EXCEPT !.up = @ /\ ~Leaps(wet)]
     /\ fallen' = Fallen(wet, tick)
     /\ \E v \in Velocities(wet, tick), move \in BOOLEAN :
          LET dy == IF move THEN v ELSE 0
          IN /\ feet + dy \in 1..(Height - 1)
             /\ \/ OnFloor /\ dy <= 0 /\ Land(wet, clock, v)
                \/ /\ ~(OnFloor /\ Touches(dy, v))
                   /\ Fly(wet, clock, v, dy)
     /\ UNCHANGED edits

----------------------------------------------------------------------------
(* What the player does between two frames.                                *)

Press(key) ==
  /\ keys' = [keys EXCEPT ![key] = ~@]
  /\ UNCHANGED <<column, feet, vy, resting, cage, within, ground, tramp, jump,
                 fall, health, fallen, late, wrapped, edits>>

(* cast_place_ray, of a food: its worth is added to an i8.                 *)
Eat(food) ==
  /\ health' = Smaller(20, Signed(health + food))
  /\ UNCHANGED <<column, feet, vy, resting, cage, keys, within, ground, tramp,
                 jump, fall, fallen, late, wrapped, edits>>

(* A block is broken, or one of stone set where the player is not.         *)
Change(l) ==
  /\ edits < MaxEdits /\ l > 0
  /\ \/ column[l] # "air" /\ column' = [column EXCEPT ![l] = "air"]
     \/ /\ column[l] \in {"air", "water"} /\ l \notin {feet, feet + 1}
        /\ column' = [column EXCEPT ![l] = "stone"]
  /\ edits' = edits + 1
  /\ UNCHANGED <<feet, vy, resting, cage, keys, within, ground, tramp, jump,
                 fall, health, fallen, late, wrapped>>

PlayerNext ==
  \/ \E tick \in {0, 1}, low \in {feet, feet - 1} : PhysicsFrame(tick, low)
  \/ \E key \in {"crouch", "up"} : Press(key)
  \/ \E food \in Foods : Eat(food)
  \/ \E l \in Levels : Change(l)

PlayerSpec == PlayerInit /\ [][PlayerNext]_playerVars

----------------------------------------------------------------------------
(* Properties.                                                             *)

PlayerTypeOK ==
  /\ column \in [Levels -> BlockKinds] /\ feet \in 1..(Height - 1)
  /\ vy \in -1..1 /\ resting \in BOOLEAN
  /\ cage \in [at : 1..(Height - 1), floor : BOOLEAN, roof : BOOLEAN]
  /\ keys \in [crouch : BOOLEAN, up : BOOLEAN]
  /\ within \in [water : BOOLEAN, climb : BOOLEAN]
  /\ ground \in [is : BOOLEAN, wasNot : BOOLEAN] /\ tramp \in BOOLEAN
  /\ jump \in [up : BOOLEAN, y : Levels]
  /\ fall \in [scalar : {2, 5, 6}, at3 : 0..MaxAloft, free : BOOLEAN]
  /\ health \in -128..127
  /\ fallen \in 0..(MaxAloft + 1) /\ late \in BOOLEAN /\ wrapped \in BOOLEAN
  /\ edits \in 0..MaxEdits

(* The player is alive and no healthier than full after every frame: a     *)
(* death gives the health back, and no sum leaves the i8, unless a fall    *)
(* was so long that its damage does not fit in one.                        *)
HealthInRange == ~wrapped => health \in 1..20

(* Coming down costs what this fall alone has earned, its beginning, while *)
(* the pull grows, excepted; nothing of a fall that water, a ladder        *)
(* or the ground broke, however the player jumped, crouched and changed    *)
(* blocks on the way.  Who leaves the ground crouched is not seen to leave *)
(* it and pays nothing then; that fall's time may be asked for later.      *)
DamageIsTheFall ==
  [][ground.wasNot /\ ~ground'.wasNot =>
       late \/ health' = IF fallen' >= 2 THEN Hurt(Amount(fallen' - 1))
                         ELSE health]_playerVars
=============================================================================
