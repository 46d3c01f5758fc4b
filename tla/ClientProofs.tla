---------------------------- MODULE ClientProofs ----------------------------
(***************************************************************************)
(* Theorems about the two parts of the client that answer to the keys: the *)
(* player who is moved (Player) and the window loop that hands the keys on *)
(* (Controls).                                                             *)
(*                                                                         *)
(* Player, for a column of any height and any number of blocks changed:    *)
(* its variables keep their types, the health stays in its range, and a    *)
(* landing costs what the fall has earned.                                 *)
(*                                                                         *)
(* Controls, for any keyboard and mouse, any bindings of a first start and *)
(* any number of changes and restarts: no action loses its key, the mouse  *)
(* is the game's whenever nothing is open, and nothing stays on after its  *)
(* key is up unless the release was not seen.                              *)
(***************************************************************************)
EXTENDS Controls, Player, FiniteSetTheorems, TLAPS

----------------------------------------------------------------------------
(* Casts and damage.                                                       *)

(* A cast to i8 gives an i8, and leaves alone what is one.                 *)
LEMMA SignedIsI8 ==
  ASSUME NEW n \in Int
  PROVE  /\ Signed(n) \in -128..127
         /\ n \in -128..127 => Signed(n) = n
<1>1. n % 256 \in 0..255
  BY Z3
<1>2. CASE n % 256 >= 128
  BY <1>1, <1>2 DEF Signed
<1>3. CASE n % 256 < 128
  BY <1>1, <1>3, SMTT(60) DEF Signed
<1> QED
  BY <1>1, <1>2, <1>3

(* A damage is an i8 whatever happens to it; one that fits in an i8 leaves *)
(* the player alive, at the latest after a death.                          *)
LEMMA HurtIsI8 ==
  ASSUME NEW amount \in 0..255, health \in -128..127
  PROVE  /\ Hurt(amount) \in -128..127
         /\ health \in 1..20 /\ amount < 128 => Hurt(amount) \in 1..20
<1>1. Signed(amount) \in -128..127 /\ (amount < 128 => Signed(amount) = amount)
  BY SignedIsI8
<1>2. health - Signed(amount) \in Int
  BY <1>1
<1>3. Signed(health - Signed(amount)) \in -128..127
  BY <1>2, SignedIsI8
<1>4. health \in 1..20 /\ amount < 128 =>
        Signed(health - Signed(amount)) = health - amount
  BY <1>1, <1>2, SignedIsI8
<1> QED
  BY <1>3, <1>4 DEF Hurt

LEMMA AmountIsU8 ==
  ASSUME NEW at3 \in Nat
  PROVE  Amount(at3) \in 0..255
BY DEF Amount, Smaller

----------------------------------------------------------------------------
(* The clocks of a fall: what a fall has earned follows from how long it   *)
(* is, unless time is left over from another.  A player on the ground, or  *)
(* in a jump, does not fall.                                               *)

Earned(n) == IF n >= 2 THEN n - 1 ELSE 0

ClockInv ==
  /\ fallen >= 2 => fall.scalar = 6
  /\ fallen = 1 => fall.scalar \in {5, 6}
  /\ fallen = 0 => fall.scalar = 2
  /\ fall.free <=> fall.scalar = 6
  /\ jump.up => fallen = 0
  /\ late => fall.at3 > 0
  /\ ~late => fall.at3 = IF ground.is THEN 0 ELSE Earned(fallen)

FallInv == PlayerTypeOK /\ ClockInv /\ HealthInRange

(* A frame moves the clocks on together.                                   *)
LEMMA ClocksAgree ==
  ASSUME FallInv, NEW wet \in BOOLEAN, NEW tick \in {0, 1},
         FallClock(wet, tick).at3 <= MaxAloft
  PROVE  LET clock == FallClock(wet, tick)
             n == Fallen(wet, tick)
         IN /\ clock \in [scalar : {2, 5, 6}, at3 : 0..MaxAloft, free : BOOLEAN]
            /\ n \in 0..(MaxAloft + 1)
            /\ n >= 2 => clock.scalar = 6
            /\ n = 1 => clock.scalar \in {5, 6}
            /\ n = 0 => clock.scalar = 2
            /\ clock.free <=> clock.scalar = 6
            /\ ~late => clock.at3 = Earned(n)
            /\ late /\ clock.at3 = 0 => n <= 1
            /\ Grounded \/ jump.up => n = 0
<1> DEFINE clock == FallClock(wet, tick)
           n == Fallen(wet, tick)
<1>1. /\ MaxAloft \in Nat
      /\ fall \in [scalar : {2, 5, 6}, at3 : 0..MaxAloft, free : BOOLEAN]
      /\ fallen \in Nat /\ fallen <= MaxAloft + 1
      /\ ground.is \in BOOLEAN /\ jump.up \in BOOLEAN
      /\ clock.at3 <= MaxAloft
  BY PlayerAssumption DEF PlayerAssumption, FallInv, PlayerTypeOK
<1>2. ClockInv
  BY DEF FallInv
<1>3. CASE Falls(wet)
  <2> DEFINE scalar == Smaller(6, fall.scalar + 3 * tick)
  <2>1. clock = [scalar |-> scalar, free |-> scalar = 6,
                 at3 |-> IF scalar = 6 THEN fall.at3 + tick ELSE 0]
    BY <1>3 DEF FallClock, Falls
  <2>2. /\ n = Smaller(SoFar + tick, MaxAloft + 1)
        /\ ~Grounded /\ ~jump.up
    BY <1>3 DEF Fallen, Falls
  <2>3. /\ SoFar \in Nat
        /\ SoFar >= 2 => fall.scalar = 6
        /\ SoFar = 1 => fall.scalar \in {5, 6}
        /\ SoFar = 0 => fall.scalar = 2
        /\ ~late => fall.at3 = Earned(SoFar)
    BY <1>1, <1>2 DEF ClockInv, SoFar, Smaller, Earned
  <2>4. /\ scalar = IF fall.scalar = 2 /\ tick = 0 THEN 2
                    ELSE IF fall.scalar = 2 \/ (fall.scalar = 5 /\ tick = 0) THEN 5
                    ELSE 6
        /\ fall.at3 + tick \in Nat
    BY <1>1 DEF Smaller
  <2> HIDE DEF clock, n, scalar
  <2>5. /\ clock \in [scalar : {2, 5, 6}, at3 : 0..MaxAloft, free : BOOLEAN]
        /\ clock.scalar = scalar /\ clock.free = (scalar = 6)
        /\ clock.at3 = IF scalar = 6 THEN fall.at3 + tick ELSE 0
    BY <1>1, <2>1, <2>4
  <2>6. n \in 0..(MaxAloft + 1) /\ n <= SoFar + tick
    BY <1>1, <2>2, <2>3 DEF Smaller
  <2>7. ~late => n = SoFar + tick
    BY <1>1, <2>2, <2>3, <2>4, <2>5 DEF Smaller, Earned
  <2>8. /\ n >= 2 => scalar = 6
        /\ n = 1 => scalar \in {5, 6}
        /\ n = 0 => scalar = 2
    BY <1>1, <2>2, <2>3, <2>4 DEF Smaller
  <2>9. ~late => clock.at3 = Earned(n)
    BY <1>1, <2>3, <2>4, <2>5, <2>7 DEF Earned
  <2>10. late /\ clock.at3 = 0 => n <= 1
    BY <1>1, <1>2, <2>3, <2>4, <2>5, <2>6 DEF ClockInv
  <2> QED
    BY <2>2, <2>5, <2>6, <2>8, <2>9, <2>10 DEF clock, n
<1>4. CASE ~Falls(wet)
  <2>1. /\ clock = [scalar |-> 2, free |-> FALSE,
                    at3 |-> IF wet /\ fall.free THEN 0 ELSE fall.at3]
        /\ n = 0
    BY <1>4 DEF FallClock, Fallen
  <2>2. wet \/ ground.is \/ jump.up
    BY <1>4 DEF Falls, Grounded
  <2> HIDE DEF clock, n
  <2>3. ~late => clock.at3 = 0
    BY <1>1, <1>2, <2>1, <2>2 DEF ClockInv, Earned
  <2> QED
    BY <1>1, <2>1, <2>3 DEF clock, n, Earned
<1> QED
  BY <1>3, <1>4

----------------------------------------------------------------------------
(* The steps.                                                              *)

LEMMA InitFallInv == PlayerInit => FallInv
<1> SUFFICES ASSUME PlayerInit
             PROVE  FallInv
  OBVIOUS
<1>1. /\ Height \in Nat /\ Height >= 3 /\ Spawn \in 1..(Height - 1)
      /\ Columns \subseteq [Levels -> BlockKinds]
      /\ MaxAloft \in Nat /\ MaxEdits \in Nat
  BY PlayerAssumption DEF PlayerAssumption
<1>2. column \in [Levels -> BlockKinds] /\ feet = Spawn
  BY <1>1 DEF PlayerInit
<1>3. cage \in [at : 1..(Height - 1), floor : BOOLEAN, roof : BOOLEAN]
  BY <1>1, <1>2 DEF PlayerInit, Readings, Solid
<1>4. PlayerTypeOK
  <2>1. 0 \in Levels
    BY <1>1 DEF Levels
  <2>2. /\ keys \in [crouch : BOOLEAN, up : BOOLEAN]
        /\ within \in [water : BOOLEAN, climb : BOOLEAN]
        /\ ground \in [is : BOOLEAN, wasNot : BOOLEAN]
        /\ jump \in [up : BOOLEAN, y : Levels]
    BY <2>1 DEF PlayerInit
  <2>3. fall \in [scalar : {2, 5, 6}, at3 : 0..MaxAloft, free : BOOLEAN]
    BY <1>1 DEF PlayerInit
  <2>4. /\ resting \in BOOLEAN /\ tramp \in BOOLEAN
        /\ late \in BOOLEAN /\ wrapped \in BOOLEAN
    BY DEF PlayerInit
  <2>5. /\ vy \in -1..1 /\ health \in -128..127
        /\ fallen \in 0..(MaxAloft + 1) /\ edits \in 0..MaxEdits
    BY <1>1 DEF PlayerInit
  <2> QED
    BY <1>1, <1>2, <1>3, <2>2, <2>3, <2>4, <2>5 DEF PlayerTypeOK
<1>5. ClockInv /\ HealthInRange
  BY DEF PlayerInit, ClockInv, HealthInRange, Earned
<1> QED
  BY <1>4, <1>5 DEF FallInv

(* A jump begins on the ground.                                            *)
LEMMA JumpGoesOn ==
  ASSUME PlayerTypeOK, NEW wet \in BOOLEAN
  PROVE  /\ Jump(wet) \in [up : BOOLEAN, y : Levels]
         /\ Jump(wet).up => Grounded \/ jump.up
<1>1. /\ Height \in Nat /\ feet \in 1..(Height - 1)
      /\ jump \in [up : BOOLEAN, y : Levels]
  BY PlayerAssumption DEF PlayerAssumption, PlayerTypeOK
<1>2. CASE Leaps(wet)
  BY <1>1, <1>2 DEF Jump, Leaps, Levels
<1>3. CASE ~Leaps(wet)
  <2>1. Jump(wet) = [jump EXCEPT !.up = @ /\ (wet \/ Lifting(wet))]
    BY <1>3 DEF Jump
  <2>2. (jump.up /\ (wet \/ Lifting(wet))) \in BOOLEAN
    BY Zenon
  <2> QED
    BY <1>1, <2>1, <2>2
<1> QED
  BY <1>2, <1>3

(* A frame that ends on the floor, and one that does not.                  *)
LEMMA LandKeeps ==
  ASSUME FallInv, NEW wet \in BOOLEAN, NEW tick \in {0, 1}, NEW v \in -1..1,
         FallClock(wet, tick).at3 <= MaxAloft,
         Land(wet, FallClock(wet, tick), v),
         fallen' = Fallen(wet, tick)
  PROVE  /\ column' \in [Levels -> BlockKinds] /\ feet' \in 1..(Height - 1)
         /\ vy' \in -1..1 /\ resting' \in BOOLEAN
         /\ cage' \in [at : 1..(Height - 1), floor : BOOLEAN, roof : BOOLEAN]
         /\ ground' \in [is : BOOLEAN, wasNot : BOOLEAN]
         /\ jump' \in [up : BOOLEAN, y : Levels]
         /\ fall' \in [scalar : {2, 5, 6}, at3 : 0..MaxAloft, free : BOOLEAN]
         /\ health' \in -128..127 /\ fallen' \in 0..(MaxAloft + 1)
         /\ late' \in BOOLEAN /\ wrapped' \in BOOLEAN
         /\ ClockInv' /\ HealthInRange'
<1> DEFINE clock == FallClock(wet, tick)
           n == Fallen(wet, tick)
<1>1. /\ Height \in Nat /\ Height >= 3 /\ Spawn \in 1..(Height - 1)
      /\ MaxAloft \in Nat
  BY PlayerAssumption DEF PlayerAssumption
<1>2. /\ clock \in [scalar : {2, 5, 6}, at3 : 0..MaxAloft, free : BOOLEAN]
      /\ n \in 0..(MaxAloft + 1)
      /\ n >= 2 => clock.scalar = 6
      /\ n = 1 => clock.scalar \in {5, 6}
      /\ n = 0 => clock.scalar = 2
      /\ clock.free <=> clock.scalar = 6
      /\ Grounded \/ jump.up => n = 0
  BY ClocksAgree
<1>3. PlayerTypeOK /\ HealthInRange
  BY DEF FallInv
<1>4. /\ column' \in [Levels -> BlockKinds] /\ feet' \in 1..(Height - 1)
      /\ vy' \in -1..1 /\ resting' \in BOOLEAN
      /\ cage' \in [at : 1..(Height - 1), floor : BOOLEAN, roof : BOOLEAN]
  <2>1. column' \in [Levels -> BlockKinds]
    BY <1>3 DEF Land, Activated, PlayerTypeOK, BlockKinds, Solids
  <2>2. /\ feet' \in 1..(Height - 1) /\ vy' \in -1..1 /\ resting' \in BOOLEAN
    BY <1>1, <1>3 DEF Land, PlayerTypeOK
  <2>3. cage' \in [at : 1..(Height - 1), floor : BOOLEAN, roof : BOOLEAN]
    BY <1>3 DEF Land, PlayerTypeOK, Readings, Solid
  <2> QED
    BY <2>1, <2>2, <2>3
<1>5. /\ ground' = [is |-> TRUE, wasNot |-> FALSE]
      /\ jump' = Jump(wet)
      /\ fall' = [clock EXCEPT !.at3 = IF WasNotGrounded THEN 0 ELSE @]
      /\ late' = (fall'.at3 > 0)
  BY DEF Land
<1>6. /\ jump' \in [up : BOOLEAN, y : Levels]
      /\ jump'.up => Grounded \/ jump.up
  BY <1>3, <1>5, JumpGoesOn
<1>7. /\ fall' \in [scalar : {2, 5, 6}, at3 : 0..MaxAloft, free : BOOLEAN]
      /\ fall'.scalar = clock.scalar /\ fall'.free = clock.free
      /\ late' \in BOOLEAN
  <2> HIDE DEF clock
  <2> QED
    BY <1>1, <1>2, <1>5
<1>8. /\ health' \in -128..127 /\ wrapped' \in BOOLEAN
      /\ HealthInRange'
  <2>1. clock.at3 \in Nat
    BY <1>1, <1>2
  <2> DEFINE amount == Amount(clock.at3)
             paid == WasNotGrounded /\ clock.at3 > 0
  <2>2. amount \in 0..255
    BY <2>1, AmountIsU8
  <2>3. /\ health' = IF paid THEN Hurt(amount) ELSE health
        /\ wrapped' = (wrapped \/ (paid /\ amount >= 128))
    BY DEF Land
  <2>4. health \in -128..127 /\ wrapped \in BOOLEAN
    BY <1>3 DEF PlayerTypeOK
  <2>5. /\ Hurt(amount) \in -128..127
        /\ health \in 1..20 /\ amount < 128 => Hurt(amount) \in 1..20
    BY <2>2, <2>4, HurtIsI8
  <2> HIDE DEF amount, paid
  <2>6. health' \in -128..127
    BY <2>3, <2>4, <2>5
  <2>7. wrapped' \in BOOLEAN
    BY <2>3, <2>4
  <2>8. ASSUME ~wrapped'
        PROVE  health' \in 1..20
    <3>0. ~wrapped /\ ~(paid /\ amount >= 128)
      BY <2>3, <2>8, Zenon
    <3>1. ~wrapped /\ (paid => amount < 128)
      BY <2>2, <3>0
    <3>2. health \in 1..20
      BY <1>3, <3>1 DEF HealthInRange
    <3> QED
      BY <2>3, <2>5, <3>1, <3>2
  <2> QED
    BY <2>6, <2>7, <2>8 DEF HealthInRange
<1>9. ClockInv'
  <2> HIDE DEF clock, n
  <2>1. fallen' = n
    BY DEF n
  <2>2. late' = (fall'.at3 > 0) /\ ground'.is
    BY <1>5
  <2>3. fall'.at3 \in Nat
    BY <1>1, <1>7
  <2>4. /\ late' => fall'.at3 > 0
        /\ ~late' => fall'.at3 = 0
    <3>1. /\ late' => fall'.at3 > 0
          /\ ~late' => ~(fall'.at3 > 0)
      BY <2>2, Zenon
    <3> QED
      BY <2>3, <3>1
  <2>5. jump'.up => fallen' = 0
    BY <1>2, <1>6, <2>1
  <2> QED
    BY <1>2, <1>7, <2>1, <2>2, <2>4, <2>5 DEF ClockInv
<1> QED
  BY <1>2, <1>4, <1>5, <1>6, <1>7, <1>8, <1>9

LEMMA FlyKeeps ==
  ASSUME FallInv, NEW wet \in BOOLEAN, NEW tick \in {0, 1}, NEW v \in -1..1,
         NEW dy \in -1..1, feet + dy \in 1..(Height - 1),
         FallClock(wet, tick).at3 <= MaxAloft,
         Fly(wet, FallClock(wet, tick), v, dy),
         fallen' = Fallen(wet, tick)
  PROVE  /\ column' \in [Levels -> BlockKinds] /\ feet' \in 1..(Height - 1)
         /\ vy' \in -1..1 /\ resting' \in BOOLEAN
         /\ cage' \in [at : 1..(Height - 1), floor : BOOLEAN, roof : BOOLEAN]
         /\ ground' \in [is : BOOLEAN, wasNot : BOOLEAN]
         /\ jump' \in [up : BOOLEAN, y : Levels]
         /\ fall' \in [scalar : {2, 5, 6}, at3 : 0..MaxAloft, free : BOOLEAN]
         /\ health' \in -128..127 /\ fallen' \in 0..(MaxAloft + 1)
         /\ late' \in BOOLEAN /\ wrapped' \in BOOLEAN
         /\ ClockInv' /\ HealthInRange'
<1> DEFINE clock == FallClock(wet, tick)
           n == Fallen(wet, tick)
           roof == UnderRoof /\ dy = 1
           at == IF roof THEN feet ELSE feet + dy
<1>1. Height \in Nat /\ Height >= 3 /\ MaxAloft \in Nat
  BY PlayerAssumption DEF PlayerAssumption
<1>2. /\ clock \in [scalar : {2, 5, 6}, at3 : 0..MaxAloft, free : BOOLEAN]
      /\ n \in 0..(MaxAloft + 1)
      /\ n >= 2 => clock.scalar = 6
      /\ n = 1 => clock.scalar \in {5, 6}
      /\ n = 0 => clock.scalar = 2
      /\ clock.free <=> clock.scalar = 6
      /\ ~late => clock.at3 = Earned(n)
      /\ late /\ clock.at3 = 0 => n <= 1
      /\ Grounded \/ jump.up => n = 0
  BY ClocksAgree
<1>3. PlayerTypeOK /\ HealthInRange
  BY DEF FallInv
<1>4. /\ feet' = at /\ vy' = v /\ resting' = FALSE
      /\ cage' = Readings(column, at)
      /\ ground' = [is |-> Grounded /\ ~Leaps(wet) /\ ~roof,
                    wasNot |-> WasNotGrounded]
      /\ jump' = [Jump(wet) EXCEPT !.up = @ /\ ~roof]
      /\ fall' = clock
      /\ late' = (late /\ clock.at3 > 0)
      /\ column' = column /\ health' = health /\ wrapped' = wrapped
  BY DEF Fly
<1>5. at \in 1..(Height - 1)
  BY <1>3 DEF PlayerTypeOK
<1> HIDE DEF clock, n, roof, at
<1>6. cage' \in [at : 1..(Height - 1), floor : BOOLEAN, roof : BOOLEAN]
  BY <1>4, <1>5 DEF Readings, Solid
<1>7. /\ Jump(wet) \in [up : BOOLEAN, y : Levels]
      /\ Jump(wet).up => Grounded \/ jump.up
  BY <1>3, JumpGoesOn
<1>8. /\ jump' \in [up : BOOLEAN, y : Levels]
      /\ jump'.up => Grounded \/ jump.up
  BY <1>4, <1>7
<1>9. /\ ground' \in [is : BOOLEAN, wasNot : BOOLEAN]
      /\ ground'.is => Grounded
  BY <1>3, <1>4 DEF Grounded, WasNotGrounded, PlayerTypeOK
<1>10. fallen' = n
  BY DEF n
<1>11. /\ late' => late /\ clock.at3 > 0
       /\ ~late' => ~late \/ ~(clock.at3 > 0)
  BY <1>4, Zenon
<1>12. ClockInv'
  <2>1. clock.at3 \in Nat /\ n \in Nat
    BY <1>1, <1>2
  <2>2. ~late' => clock.at3 = Earned(n)
    BY <1>2, <1>11, <2>1 DEF Earned
  <2>3. ground'.is \/ jump'.up => n = 0
    BY <1>2, <1>8, <1>9
  <2> QED
    BY <1>2, <1>4, <1>10, <1>11, <2>1, <2>2, <2>3 DEF ClockInv, Earned
<1>13. late' \in BOOLEAN
  BY <1>4, Zenon
<1>14. HealthInRange'
  BY <1>3, <1>4 DEF HealthInRange
<1> QED
  BY <1>2, <1>3, <1>4, <1>5, <1>6, <1>8, <1>9, <1>10, <1>12, <1>13, <1>14 DEF PlayerTypeOK

LEMMA PhysicsKeeps ==
  ASSUME FallInv, NEW tick \in {0, 1}, NEW low \in {feet, feet - 1},
         PhysicsFrame(tick, low)
  PROVE  FallInv'
<1> DEFINE in == Within(low)
           wet == in.water \/ in.climb
           clock == FallClock(wet, tick)
<1>1. PlayerTypeOK
  BY DEF FallInv
<1>2. in \in [water : BOOLEAN, climb : BOOLEAN] /\ wet \in BOOLEAN
  BY <1>1 DEF Within, PlayerTypeOK
<1>3. /\ clock.at3 <= MaxAloft
      /\ within' = in
      /\ tramp' = IF Thrown(tick) THEN TRUE ELSE tramp /\ tick = 0
      /\ keys' = [keys EXCEPT !.up = @ /\ ~Leaps(wet)]
      /\ fallen' = Fallen(wet, tick)
      /\ edits' = edits
  BY DEF PhysicsFrame
<1>4. PICK v \in Velocities(wet, tick), move \in BOOLEAN :
        LET dy == IF move THEN v ELSE 0
        IN /\ feet + dy \in 1..(Height - 1)
           /\ \/ OnFloor /\ dy <= 0 /\ Land(wet, clock, v)
              \/ /\ ~(OnFloor /\ Touches(dy, v))
                 /\ Fly(wet, clock, v, dy)
  BY DEF PhysicsFrame
<1>5. v \in -1..1
  BY <1>1, <1>4 DEF Velocities, PlayerTypeOK
<1> DEFINE dy == IF move THEN v ELSE 0
<1>6. dy \in -1..1 /\ feet + dy \in 1..(Height - 1)
  BY <1>4, <1>5
<1>7. /\ within' \in [water : BOOLEAN, climb : BOOLEAN]
      /\ tramp' \in BOOLEAN /\ edits' \in 0..MaxEdits
      /\ keys' \in [crouch : BOOLEAN, up : BOOLEAN]
  <2>1. tramp' \in BOOLEAN
    BY <1>1, <1>3, Zenon DEF PlayerTypeOK
  <2> QED
    BY <1>1, <1>2, <1>3, <2>1 DEF PlayerTypeOK, Leaps, Grounded
<1> HIDE DEF wet, clock, dy
<1>8. CASE Land(wet, clock, v)
  BY <1>2, <1>3, <1>5, <1>7, <1>8, LandKeeps, ZenonT(60) DEF FallInv, PlayerTypeOK, clock
<1>9. CASE Fly(wet, clock, v, dy)
  BY <1>2, <1>3, <1>5, <1>6, <1>7, <1>9, FlyKeeps, ZenonT(60) DEF FallInv, PlayerTypeOK, clock
<1> QED
  BY <1>4, <1>8, <1>9 DEF dy

LEMMA PlayerStepKeeps == FallInv /\ [PlayerNext]_playerVars => FallInv'
<1> SUFFICES ASSUME FallInv, [PlayerNext]_playerVars
             PROVE  FallInv'
  OBVIOUS
<1>1. PlayerTypeOK /\ ClockInv /\ HealthInRange
  BY DEF FallInv
<1>2. ASSUME NEW tick \in {0, 1}, NEW low \in {feet, feet - 1}, PhysicsFrame(tick, low)
      PROVE  FallInv'
  BY <1>2, PhysicsKeeps
<1>3. ASSUME NEW key \in {"crouch", "up"}, Press(key)
      PROVE  FallInv'
  <2>1. keys' \in [crouch : BOOLEAN, up : BOOLEAN]
    <3>1. keys \in [crouch : BOOLEAN, up : BOOLEAN]
      BY <1>1 DEF PlayerTypeOK
    <3>2. keys' = [keys EXCEPT ![key] = ~@]
      BY <1>3 DEF Press
    <3>3. CASE key = "crouch"
      BY <3>1, <3>2, <3>3
    <3>4. CASE key = "up"
      BY <3>1, <3>2, <3>4
    <3> QED
      BY <1>3, <3>3, <3>4
  <2> QED
    BY <1>1, <1>3, <2>1 DEF Press, FallInv, PlayerTypeOK, ClockInv, HealthInRange
<1>4. ASSUME NEW food \in Foods, Eat(food)
      PROVE  FallInv'
  <2>1. food \in 1..20 /\ health \in -128..127
    BY <1>1, PlayerAssumption DEF PlayerAssumption, PlayerTypeOK
  <2>2. /\ Signed(health + food) \in -128..127
        /\ health \in 1..20 => Signed(health + food) = health + food
    BY <2>1, SignedIsI8
  <2>3. health' = Smaller(20, Signed(health + food))
    BY <1>4 DEF Eat
  <2>4. /\ health' \in -128..127
        /\ health \in 1..20 => health' \in 1..20
    BY <2>1, <2>2, <2>3 DEF Smaller
  <2> QED
    BY <1>1, <1>4, <2>4 DEF Eat, FallInv, PlayerTypeOK, ClockInv, HealthInRange
<1>5. ASSUME NEW l \in Levels, Change(l)
      PROVE  FallInv'
  <2>1. column' \in [Levels -> BlockKinds]
    BY <1>1, <1>5 DEF Change, PlayerTypeOK, BlockKinds, Solids
  <2>2. edits' \in 0..MaxEdits
    BY <1>1, <1>5, PlayerAssumption DEF Change, PlayerTypeOK, PlayerAssumption
  <2> QED
    BY <1>1, <1>5, <2>1, <2>2 DEF Change, FallInv, PlayerTypeOK, ClockInv, HealthInRange
<1>6. CASE UNCHANGED playerVars
  BY <1>1, <1>6 DEF playerVars, FallInv, PlayerTypeOK, ClockInv, HealthInRange
<1> QED
  BY <1>2, <1>3, <1>4, <1>5, <1>6 DEF PlayerNext

LEMMA FallAlways == PlayerSpec => []FallInv
BY InitFallInv, PlayerStepKeeps, PTL DEF PlayerSpec

----------------------------------------------------------------------------
(* The theorems.                                                           *)

(* The variables keep their types: the player stays within the column, and *)
(* the clocks of a fall within their bounds (update_movement_and_physics). *)
THEOREM PlayerTypeCorrect == PlayerSpec => []PlayerTypeOK
<1>1. FallInv => PlayerTypeOK
  BY DEF FallInv
<1> QED
  BY <1>1, FallAlways, PTL

(* However the player falls, eats and dies, the health is between 1 and 20 *)
(* unless a damage did not fit in the i8 it is cast to (take_damage).      *)
THEOREM HealthStaysInRange == PlayerSpec => []HealthInRange
<1>1. FallInv => HealthInRange
  BY DEF FallInv
<1> QED
  BY <1>1, FallAlways, PTL

(* A landing costs what this fall has earned: the clock that take_damage   *)
(* is paid from was reset by whatever broke an earlier fall.               *)
THEOREM LandingCostsTheFall == PlayerSpec => DamageIsTheFall
<1> DEFINE Costs == ground.wasNot /\ ~ground'.wasNot =>
             late \/ health' = IF fallen' >= 2 THEN Hurt(Amount(fallen' - 1))
                               ELSE health
<1>1. FallInv /\ [PlayerNext]_playerVars => [Costs]_playerVars
  <2> SUFFICES ASSUME FallInv, PlayerNext, ground.wasNot, ~ground'.wasNot, ~late
               PROVE  health' = IF fallen' >= 2 THEN Hurt(Amount(fallen' - 1))
                                ELSE health
    OBVIOUS
  <2>1. PICK tick \in {0, 1}, low \in {feet, feet - 1} : PhysicsFrame(tick, low)
    BY DEF PlayerNext, Press, Eat, Change
  <2> DEFINE in == Within(low)
             wet == in.water \/ in.climb
             clock == FallClock(wet, tick)
  <2>2. wet \in BOOLEAN
    BY DEF Within, FallInv, PlayerTypeOK
  <2>3. clock.at3 <= MaxAloft /\ fallen' = Fallen(wet, tick)
    BY <2>1 DEF PhysicsFrame
  <2>4. PICK v \in Velocities(wet, tick), dy \in Int :
          Land(wet, clock, v) \/ Fly(wet, clock, v, dy)
    <3>1. \A v \in Velocities(wet, tick) : v \in Int
      BY DEF Velocities, FallInv, PlayerTypeOK
    <3> QED
      BY <2>1, <3>1 DEF PhysicsFrame
  <2>5. WasNotGrounded
    BY DEF WasNotGrounded
  <2>6. Land(wet, clock, v)
    BY <2>4, <2>5 DEF Fly
  <2>7. health' = IF clock.at3 > 0 THEN Hurt(Amount(clock.at3)) ELSE health
    BY <2>5, <2>6 DEF Land
  <2>8. /\ clock.at3 = Earned(fallen')
        /\ fallen' \in 0..(MaxAloft + 1)
    BY <2>2, <2>3, ClocksAgree
  <2>9. MaxAloft \in Nat
    BY PlayerAssumption DEF PlayerAssumption
  <2> QED
    BY <2>7, <2>8, <2>9 DEF Earned
<1> QED
  BY <1>1, FallAlways, PTL DEF PlayerSpec, DamageIsTheFall

----------------------------------------------------------------------------
(* The window loop.                                                        *)

(* What each step relies on.                                               *)

Bindings == [Inputs -> Actions \cup {Absent}]
Games ==
  [windows : SUBSET Windows, loading : BOOLEAN, page : Pages,
   rows : SUBSET (Inputs \X Actions), focused : BOOLEAN,
   uncap : BOOLEAN, on : SUBSET Holding, building : BOOLEAN,
   file : Bindings \cup {Absent}]

(* Bindings that give every action of the game exactly one input, of the   *)
(* kind it takes.                                                          *)
Bound(b, a) == {i \in Inputs : b[i] = a}
OfItsKind(b, a) == \A i \in Inputs : b[i] = a => (i \in Keys <=> a \in KeyActions)
Whole(b) ==
  /\ b \in Bindings
  /\ \A a \in KeyActions \cup MouseActions :
       Cardinality(Bound(b, a)) = 1 /\ OfItsKind(b, a)

(* The mouse is the game's and the bindings b are in the file.             *)
Settled(g, b) == g.focused /\ g.file = b

(* A game while the bindings are b: its menu shows bindings that exist,    *)
(* the file is whole, and once loaded, it is settled or a window is open.  *)
GameFits(g, b) ==
  /\ g \in Games
  /\ g.rows \subseteq Rows(b)
  /\ g.file = Absent \/ Whole(g.file)
  /\ g.loading \/ g.windows # {} \/ Settled(g, b)

(* Something is on with reason.                                            *)
Accounted(on, unseen, b, down) ==
  \A a \in on : a \in unseen \/ \E i \in down : b[i] = a

AskInv == asking # Absent => asking \in Rows(binds)

ControlsInv ==
  /\ Whole(binds) /\ GameFits(game, binds) /\ AskInv
  /\ seen \subseteq Windows /\ captured \subseteq {"keyboard", "mouse"}
  /\ turn \in {"frame", "draw", "events", "over"}
  /\ held \subseteq Inputs /\ missed \subseteq Actions
  /\ rebinds \in 0..MaxRebinds /\ starts \in 1..MaxStarts
  /\ Accounted(game.on, missed, binds, held)

----------------------------------------------------------------------------
(* The bindings.                                                           *)

LEMMA ActionsDiffer ==
  /\ Toggle \notin KeyActions \cup MouseActions
  /\ Absent \notin Actions
  /\ Holding \subseteq KeyActions \cup MouseActions
  /\ Holding \subseteq Actions
  /\ KeyActions \cap MouseActions = {}
  /\ "Forward" \in KeyActions /\ "Break/Attack" \in MouseActions
BY ControlsAssumption
DEF ControlsAssumption, Toggle, KeyActions, MouseActions, Actions, Holding

LEMMA InputsFinite == IsFiniteSet(Inputs)
BY ControlsAssumption, FS_Union DEF ControlsAssumption, Inputs

LEMMA OneBound ==
  ASSUME NEW b, NEW a
  PROVE  Cardinality(Bound(b, a)) = 1 <=> \E i : Bound(b, a) = {i}
<1>1. IsFiniteSet(Bound(b, a))
  BY InputsFinite, FS_Subset DEF Bound
<1> QED BY <1>1, FS_Singleton

LEMMA FirstBindsWhole == Whole(FirstBinds)
<1>1. FirstBinds \in Bindings
  BY ControlsAssumption DEF ControlsAssumption, FirstBinds, Bindings, Inputs, Actions
<1>2. ASSUME NEW a \in KeyActions
      PROVE  Cardinality(Bound(FirstBinds, a)) = 1 /\ OfItsKind(FirstBinds, a)
  <2>1. Bound(FirstBinds, a) = {k \in Keys : DefaultKeys[k] = a}
    BY <1>2, ControlsAssumption, ActionsDiffer
    DEF ControlsAssumption, FirstBinds, Bound, Inputs, Actions
  <2>2. OfItsKind(FirstBinds, a)
    BY <1>2, ControlsAssumption, ActionsDiffer
    DEF ControlsAssumption, FirstBinds, OfItsKind, Inputs, Actions
  <2> QED BY <2>1, <2>2, ControlsAssumption DEF ControlsAssumption
<1>3. ASSUME NEW a \in MouseActions
      PROVE  Cardinality(Bound(FirstBinds, a)) = 1 /\ OfItsKind(FirstBinds, a)
  <2>1. Bound(FirstBinds, a) = {k \in Buttons : DefaultButtons[k] = a}
    BY <1>3, ControlsAssumption, ActionsDiffer
    DEF ControlsAssumption, FirstBinds, Bound, Inputs, Actions
  <2>2. OfItsKind(FirstBinds, a)
    BY <1>3, ControlsAssumption, ActionsDiffer
    DEF ControlsAssumption, FirstBinds, OfItsKind, Inputs, Actions
  <2> QED BY <2>1, <2>2, ControlsAssumption DEF ControlsAssumption
<1> QED BY <1>1, <1>2, <1>3 DEF Whole

(* A binding that moves to an unbound input of the same kind is not lost.  *)
LEMMA MovedWhole ==
  ASSUME NEW b, Whole(b), NEW i \in Inputs, NEW r \in Rows(b),
         r[2] \in Actions, b[i] = Absent, SameKind(i, r[1])
  PROVE  Whole([b EXCEPT ![r[1]] = Absent, ![i] = r[2]])
<1> DEFINE c == [b EXCEPT ![r[1]] = Absent, ![i] = r[2]]
<1>1. b \in Bindings /\ DOMAIN b = Inputs
  BY DEF Whole, Bindings
<1>2. r[1] \in Inputs /\ b[r[1]] = r[2] /\ r[1] # i
  BY ActionsDiffer DEF Rows
<1>3. c \in Bindings /\ c[i] = r[2] /\ c[r[1]] = Absent
  BY <1>1, <1>2 DEF Bindings
<1>4. \A j \in Inputs \ {i, r[1]} : c[j] = b[j]
  BY <1>1
<1>5. ASSUME NEW a \in KeyActions \cup MouseActions
      PROVE  Cardinality(Bound(c, a)) = 1 /\ OfItsKind(c, a)
  <2>1. a # Absent
    BY ActionsDiffer DEF Actions
  <2>2. Cardinality(Bound(b, a)) = 1 /\ OfItsKind(b, a)
    BY DEF Whole
  <2>3. CASE a = r[2]
    <3>1. \E j : Bound(b, a) = {j}
      BY <2>2, OneBound
    <3>2. Bound(b, a) = {r[1]}
      BY <3>1, <1>2, <2>3 DEF Bound
    <3>3. Bound(c, a) = {i}
      BY <3>2, <1>2, <1>3, <1>4, <2>1, <2>3 DEF Bound
    <3>4. OfItsKind(c, a)
      BY <3>3, <2>2, <1>2, <2>3 DEF OfItsKind, Bound, SameKind
    <3> QED BY <3>3, <3>4, OneBound
  <2>4. CASE a # r[2]
    <3>1. Bound(c, a) = Bound(b, a)
      BY <1>2, <1>3, <1>4, <2>1, <2>4 DEF Bound
    <3>2. OfItsKind(c, a)
      BY <3>1, <2>2 DEF OfItsKind, Bound
    <3> QED BY <3>1, <3>2, <2>2
  <2> QED BY <2>3, <2>4
<1> QED BY <1>3, <1>5 DEF Whole

(* A file that is read again: only the build mode may have been added.     *)
LEMMA LoadedWhole ==
  ASSUME NEW b, Whole(b)
  PROVE  Whole(LoadMisc(b))
<1>1. b \in Bindings /\ DOMAIN b = Inputs /\ B \in Inputs
  BY ControlsAssumption DEF Whole, Bindings, ControlsAssumption, Inputs
<1>2. LoadMisc(b) \in Bindings
  BY <1>1 DEF LoadMisc, Bindings, Actions
<1>3. \A j \in Inputs : LoadMisc(b)[j] = b[j]
        \/ (b[j] = Absent /\ LoadMisc(b)[j] = Toggle)
  BY <1>1 DEF LoadMisc
<1>4. ASSUME NEW a \in KeyActions \cup MouseActions
      PROVE  Cardinality(Bound(LoadMisc(b), a)) = 1 /\ OfItsKind(LoadMisc(b), a)
  <2>1. a # Absent /\ a # Toggle
    BY ActionsDiffer DEF Actions
  <2>2. Bound(LoadMisc(b), a) = Bound(b, a)
    BY <1>3, <2>1 DEF Bound
  <2>3. Cardinality(Bound(b, a)) = 1 /\ OfItsKind(b, a)
    BY DEF Whole
  <2>4. OfItsKind(LoadMisc(b), a)
    BY <2>2, <2>3 DEF OfItsKind, Bound
  <2> QED BY <2>2, <2>3, <2>4
<1> QED BY <1>2, <1>4 DEF Whole
----------------------------------------------------------------------------
(* The handlers, while the bindings are whole.  Each one gives a game that *)
(* fits the bindings and leaves alone what it is not about.                *)

(* What a handler that only moves windows and the mouse keeps.             *)
Keeps(g, h) == h.on = g.on /\ h.loading = g.loading /\ h.building = g.building

LEMMA FocusTaken ==
  ASSUME Whole(binds), NEW g \in Games, g.rows \subseteq Rows(binds)
  PROVE  GameFits(Focus(g, TRUE), binds) /\ Keeps(g, Focus(g, TRUE))
         /\ Focus(g, TRUE).windows = g.windows
BY DEF Focus, GameFits, Games, Settled, Whole, Keeps

LEMMA FocusGiven ==
  ASSUME Whole(binds), NEW g \in Games, g.rows \subseteq Rows(binds),
         g.windows # {}
  PROVE  GameFits(Focus(g, FALSE), binds) /\ Keeps(g, Focus(g, FALSE))
BY DEF Focus, GameFits, Games, Whole, Keeps

LEMMA CloseFits ==
  ASSUME Whole(binds), NEW g, GameFits(g, binds), NEW w
  PROVE  /\ GameFits(Close(g, w), binds) /\ Keeps(g, Close(g, w))
         /\ Settled(Close(g, w), binds)
<1> DEFINE h == [g EXCEPT !.windows = @ \ {w}, !.uncap = TRUE]
<1>1. h \in Games /\ h.rows = g.rows /\ Keeps(g, h)
  BY DEF GameFits, Games, Keeps
<1>2. GameFits(Focus(h, TRUE), binds) /\ Keeps(h, Focus(h, TRUE))
  BY <1>1, FocusTaken DEF GameFits
<1>3. Settled(Focus(h, TRUE), binds)
  BY <1>1 DEF Settled, Focus, Games
<1> QED BY <1>1, <1>2, <1>3 DEF Close, Keeps

LEMMA OpenFits ==
  ASSUME Whole(binds), NEW g, GameFits(g, binds), NEW w \in Windows
  PROVE  GameFits(Open(g, w), binds) /\ Keeps(g, Open(g, w))
<1> DEFINE h == [g EXCEPT !.windows = @ \cup {w}]
<1>1. h \in Games /\ h.rows = g.rows /\ Keeps(g, h) /\ h.windows # {}
  BY DEF GameFits, Games, Keeps
<1>2. GameFits(Focus(h, FALSE), binds) /\ Keeps(h, Focus(h, FALSE))
  BY <1>1, FocusGiven DEF GameFits
<1> QED BY <1>1, <1>2 DEF Open, Keeps

LEMMA RowsTyped ==
  ASSUME NEW b, Whole(b)
  PROVE  Rows(b) \subseteq Inputs \X Actions
BY DEF Rows, Whole, Bindings

LEMMA PageFits ==
  ASSUME Whole(binds), NEW g, GameFits(g, binds), NEW p \in Pages
  PROVE  /\ GameFits(Page(g, p), binds) /\ Keeps(g, Page(g, p))
         /\ Page(g, p).windows # {}
<1>1. (IF p = "bindingsmenu" THEN Rows(binds) ELSE {}) \subseteq Rows(binds)
  OBVIOUS
<1>2. PICK r : r = (IF p = "bindingsmenu" THEN Rows(binds) ELSE {})
  OBVIOUS
<1>3. r \subseteq Inputs \X Actions /\ r \subseteq Rows(binds)
  BY <1>1, <1>2, RowsTyped
<1>4. Page(g, p) = [g EXCEPT !.page = p, !.windows = @ \cup {"menu"}, !.rows = r]
  BY <1>2 DEF Page
<1> QED BY <1>3, <1>4 DEF GameFits, Games, Keeps, Windows

(* After a change of the bindings the menu is open, with the new ones.     *)
LEMMA RelistFits ==
  ASSUME NEW b, Whole(b), NEW c, Whole(c), NEW g, GameFits(g, b)
  PROVE  GameFits(Relist(g, c), c) /\ Keeps(g, Relist(g, c))
<1>1. PICK r : r = Rows(c)
  OBVIOUS
<1>2. r \subseteq Inputs \X Actions
  BY <1>1, RowsTyped
<1>3. Relist(g, c) =
        [g EXCEPT !.page = "bindingsmenu", !.windows = @ \cup {"menu"}, !.rows = r]
  BY <1>1 DEF Relist
<1>4. g \in Games /\ (g.file = Absent \/ Whole(g.file))
  BY DEF GameFits
<1>p. PICK p \in Pages : p = "bindingsmenu"
  BY DEF Pages
<1>w. PICK w : w = g.windows \cup {"menu"}
  OBVIOUS
<1>k. w \in SUBSET Windows
  BY <1>4, <1>w DEF Games, Windows
<1>r. Relist(g, c) = [g EXCEPT !.page = p, !.windows = w, !.rows = r]
  BY <1>3, <1>p, <1>w
<1>5. Relist(g, c) \in Games
  BY <1>2, <1>4, <1>k, <1>r DEF Games
<1>e. Keeps(g, Relist(g, c))
  BY <1>4, <1>r DEF Games, Keeps
<1>6. /\ Relist(g, c).rows = Rows(c) /\ Relist(g, c).file = g.file
      /\ Relist(g, c).windows # {}
  BY <1>1, <1>3, <1>4 DEF Games
<1> QED BY <1>4, <1>5, <1>e, <1>6 DEF GameFits

LEMMA ExitMenuFits ==
  ASSUME Whole(binds), NEW g, GameFits(g, binds)
  PROVE  GameFits(ExitMenu(g), binds) /\ Keeps(g, ExitMenu(g))
<1>1. CASE g.windows = {}
  BY <1>1, PageFits DEF ExitMenu, Pages
<1>2. CASE g.windows # {}
  <2>1. PICK h : h = Focus(g, TRUE)
    OBVIOUS
  <2>2. GameFits(h, binds) /\ Keeps(g, h) /\ Settled(h, binds)
    BY <2>1, FocusTaken DEF GameFits, Settled, Focus, Games
  <2>3. ExitMenu(g) = [h EXCEPT !.windows = {}, !.uncap = TRUE]
    BY <1>2, <2>1 DEF ExitMenu
  <2> QED BY <2>2, <2>3 DEF GameFits, Games, Keeps, Settled
<1> QED BY <1>1, <1>2

LEMMA HoldFits ==
  ASSUME NEW g, GameFits(g, binds), NEW a \in Holding, NEW down \in BOOLEAN
  PROVE  /\ GameFits(Hold(g, a, down), binds)
         /\ Hold(g, a, down).on = IF down THEN g.on \cup {a} ELSE g.on \ {a}
         /\ Hold(g, a, down).windows = g.windows
<1>1. PICK s : s = IF down THEN g.on \cup {a} ELSE g.on \ {a}
  OBVIOUS
<1>2. s \subseteq Holding
  BY <1>1 DEF GameFits, Games
<1>3. Hold(g, a, down) = [g EXCEPT !.on = s]
  BY <1>1 DEF Hold
<1> QED BY <1>1, <1>2, <1>3 DEF GameFits, Games, Settled

LEMMA AfterEscapeFits ==
  ASSUME Whole(binds), NEW g, GameFits(g, binds)
  PROVE  GameFits(AfterEscape(g), binds) /\ Keeps(g, AfterEscape(g))
<1>1. CASE "menu" \in g.windows
  BY <1>1, FocusGiven DEF AfterEscape, GameFits
<1>2. CASE "menu" \notin g.windows
  BY <1>2, FocusTaken DEF AfterEscape, GameFits
<1> QED BY <1>1, <1>2

(* What a key or a button turns on and off.                                *)
Switched(g, h, action, down) ==
  h.on = IF action \in Holding
         THEN IF down THEN g.on \cup {action} ELSE g.on \ {action}
         ELSE g.on

LEMMA KeyboardFits ==
  ASSUME Whole(binds), NEW g, GameFits(g, binds), NEW a, a # "Break/Attack",
         NEW how \in {"press", "repeat", "release"}
  PROVE  /\ GameFits(Keyboard(g, a, how), binds)
         /\ Switched(g, Keyboard(g, a, how), a, how # "release")
<1>1. CASE a = Toggle /\ how = "press"
  <2>1. Keyboard(g, a, how) = [g EXCEPT !.building = ~@]
    BY ONLY <1>1, Zenon DEF Keyboard, Toggle
  <2> QED BY <1>1, <2>1
      DEF GameFits, Games, Settled, Switched, Toggle, Holding
<1>2. CASE a = "Exit/Menu" /\ how = "press"
  <2>1. Keyboard(g, a, how) = ExitMenu(g)
    BY <1>2 DEF Keyboard, Toggle
  <2> QED BY <1>2, <2>1, ExitMenuFits DEF Keeps, Switched, Holding
<1>3. CASE a = "Forward"
  <2>1. Keyboard(g, a, how) = Hold(g, a, how # "release")
    <3>1. ASSUME NEW x, NEW y, NEW z, NEW u, NEW v
          PROVE  (CASE a = Toggle /\ how = "press" -> x
                    [] a = "Exit/Menu" /\ how = "press" -> y
                    [] a = "Forward" -> z
                    [] a = "Craft" /\ how = "press" -> u
                    [] OTHER -> v) = z
      BY <1>3, ZenonT(20) DEF Toggle
    <3> QED BY <3>1 DEF Keyboard, Toggle
  <2>2. CASE how = "release"
    <3>1. Keyboard(g, a, how) = Hold(g, "Forward", FALSE)
      BY <1>3, <2>1, <2>2
    <3> QED BY <1>3, <2>2, <3>1, HoldFits DEF Switched, Holding
  <2>3. CASE how # "release"
    <3>1. Keyboard(g, a, how) = Hold(g, "Forward", TRUE)
      BY <1>3, <2>1, <2>3
    <3>2. PICK h : h = Hold(g, "Forward", TRUE)
      OBVIOUS
    <3>3. GameFits(h, binds) /\ h.on = g.on \cup {"Forward"}
      BY <3>2, HoldFits DEF Holding
    <3>4. Switched(g, h, "Forward", TRUE)
      BY <3>3 DEF Switched, Holding
    <3>5. Switched(g, h, "Forward", how # "release")
      BY <3>4, <2>3 DEF Switched
    <3> QED BY <1>3, <3>1, <3>2, <3>3, <3>5
  <2> QED BY <2>2, <2>3
<1>4. CASE a = "Craft" /\ how = "press"
  <2>1. Keyboard(g, a, how) = Open(g, "craft")
    BY <1>4 DEF Keyboard, Toggle
  <2> QED BY <1>4, <2>1, OpenFits DEF Keeps, Switched, Holding, Windows
<1>5. CASE /\ ~(a \in {Toggle, "Exit/Menu", "Craft"} /\ how = "press")
           /\ a # "Forward"
  <2>1. Keyboard(g, a, how) = g
    BY <1>5 DEF Keyboard
  <2> QED BY <1>5, <2>1 DEF Switched, Holding
<1> QED BY <1>1, <1>2, <1>3, <1>4, <1>5

LEMMA MouseButtonFits ==
  ASSUME Whole(binds), NEW g, GameFits(g, binds), NEW a, a # "Forward",
         NEW how \in {"press", "release"}, NEW target,
         "chest" \notin g.windows
  PROVE  /\ GameFits(MouseButton(g, a, how, target), binds)
         /\ Switched(g, MouseButton(g, a, how, target), a, how = "press")
<1>1. CASE a = "Break/Attack"
  <2>1. MouseButton(g, a, how, target) = Hold(g, a, how = "press")
    BY <1>1 DEF MouseButton
  <2> QED BY <1>1, <2>1, HoldFits DEF Switched, Holding
<1>2. CASE a = "Place/Use" /\ how = "press" /\ ~g.building
  <2>1. MouseButton(g, a, how, target) = CastPlaceRay(g, target)
    BY <1>2 DEF MouseButton
  <2>2. GameFits(CastPlaceRay(g, target), binds) /\ Keeps(g, CastPlaceRay(g, target))
    BY OpenFits DEF CastPlaceRay, Windows, Keeps
  <2> QED BY <1>2, <2>1, <2>2 DEF Switched, Keeps, Holding
<1>3. CASE a # "Break/Attack" /\ ~(a = "Place/Use" /\ how = "press" /\ ~g.building)
  <2>1. MouseButton(g, a, how, target) = g
    BY <1>3 DEF MouseButton
  <2> QED BY <1>3, <2>1 DEF Switched, Holding
<1> QED BY <1>1, <1>2, <1>3
----------------------------------------------------------------------------
(* The steps.                                                              *)

LEMMA InitControls == Init => ControlsInv
<1> SUFFICES ASSUME Init PROVE ControlsInv
  OBVIOUS
<1>1. Whole(binds)
  BY FirstBindsWhole DEF Init
<1>2. GameFits(game, binds)
  BY DEF Init, Started, GameFits, Games, Windows, Pages
<1>3. AskInv
  BY DEF Init, AskInv
<1>4. Accounted(game.on, missed, binds, held)
  BY DEF Init, Started, Accounted
<1> QED BY <1>1, <1>2, <1>3, <1>4, ControlsAssumption
    DEF Init, ControlsInv, ControlsAssumption

(* A step that leaves the bindings, the inputs and what is on alone.       *)
LEMMA QuietStep ==
  ASSUME ControlsInv, UNCHANGED <<binds, rebinds, starts, inputVars>>,
         GameFits(game', binds), game'.on = game.on,
         asking' = Absent \/ asking' \in Rows(binds),
         seen' \subseteq Windows, captured' \subseteq {"keyboard", "mouse"},
         turn' \in {"frame", "draw", "events", "over"}
  PROVE  ControlsInv'
<1>1. Whole(binds') /\ GameFits(game', binds')
  BY DEF ControlsInv
<1>2. AskInv'
  BY DEF AskInv, Rows
<1>3. Accounted(game'.on, missed', binds', held')
  BY DEF ControlsInv, inputVars, Accounted
<1> QED BY <1>1, <1>2, <1>3 DEF ControlsInv, inputVars

LEMMA FrameKeeps == ASSUME ControlsInv, Frame PROVE ControlsInv'
<1>1. GameFits(game, binds)
  BY DEF ControlsInv
<1>2. GameFits(game', binds) /\ game'.on = game.on
  BY <1>1 DEF Frame, GameFits, Games, Settled
<1>3. seen' \subseteq Windows
  BY <1>1 DEF Frame, GameFits, Games
<1>4. captured' \subseteq {"keyboard", "mouse"}
  <2>1. CASE "craft" \in game.windows /\ "menu" \notin game.windows
    BY <2>1 DEF Frame
  <2>2. CASE ~("craft" \in game.windows /\ "menu" \notin game.windows)
    BY <2>2 DEF Frame, ControlsInv
  <2> QED BY <2>1, <2>2
<1>5. turn' \in {"draw", "events"}
  BY DEF Frame
<1>6. asking' = Absent \/ asking' \in Rows(binds)
  BY DEF Frame, ControlsInv, AskInv
<1> QED BY <1>2, <1>3, <1>4, <1>5, <1>6, QuietStep DEF Frame, inputVars

LEMMA ClickKeeps == ASSUME ControlsInv, Click PROVE ControlsInv'
<1>1. Whole(binds) /\ GameFits(game, binds)
  BY DEF ControlsInv
<1>2. ASSUME NEW g, GameFits(g, binds), g.on = game.on, Clicked(g),
             asking' = Absent \/ asking' \in Rows(binds)
      PROVE  ControlsInv'
  <2>1. game' = [g EXCEPT !.uncap = TRUE]
    BY <1>2 DEF Clicked
  <2>2. GameFits(game', binds) /\ game'.on = game.on
    BY <1>2, <2>1 DEF GameFits, Games, Settled
  <2> QED BY <1>2, <2>2, QuietStep DEF Clicked, ControlsInv
<1>3. CASE ClickLink
  <2>1. PICK page \in Links(game.page) : Clicked(Page(game, page))
    BY <1>3 DEF ClickLink
  <2>2. page \in Pages
    BY <2>1 DEF Links, Pages
  <2>3. asking' = Absent \/ asking' \in Rows(binds)
    BY <1>3 DEF ClickLink, ControlsInv, AskInv
  <2>4. GameFits(Page(game, page), binds) /\ Page(game, page).on = game.on
    BY <1>1, <2>2, PageFits DEF Keeps
  <2> QED BY <1>2, <2>1, <2>3, <2>4
<1>4. CASE ClickClose
  <2>1. asking' = Absent \/ asking' \in Rows(binds)
    BY <1>4 DEF ClickClose, ControlsInv, AskInv
  <2>2. GameFits(Close(game, "menu"), binds) /\ Close(game, "menu").on = game.on
    BY <1>1, CloseFits DEF Keeps
  <2> QED BY <1>2, <1>4, <2>1, <2>2 DEF ClickClose
<1>5. CASE ClickBinding
  <2>1. asking' \in Rows(binds)
    BY <1>1, <1>5 DEF ClickBinding, GameFits
  <2> QED BY <1>1, <1>2, <1>5, <2>1 DEF ClickBinding
<1>6. CASE NoClick
  <2>1. asking' = Absent \/ asking' \in Rows(binds)
    BY <1>6 DEF NoClick, ControlsInv, AskInv
  <2> QED BY <1>1, <1>6, <2>1, QuietStep DEF NoClick, ControlsInv
<1> QED BY <1>3, <1>4, <1>5, <1>6 DEF Click

LEMMA LoadedKeeps == ASSUME ControlsInv, Loaded PROVE ControlsInv'
<1>1. Whole(binds) /\ GameFits(game, binds)
  BY DEF ControlsInv
<1>2. PICK g : g = Close(game, "menu")
  OBVIOUS
<1>3. GameFits(g, binds) /\ g.on = game.on /\ Settled(g, binds)
  BY <1>1, <1>2, CloseFits DEF Keeps
<1>4. game' = [g EXCEPT !.loading = FALSE]
  BY <1>2 DEF Loaded
<1>5. GameFits(game', binds) /\ game'.on = game.on
  BY <1>3, <1>4 DEF GameFits, Games, Settled
<1>6. asking' = Absent \/ asking' \in Rows(binds)
  BY DEF Loaded, ControlsInv, AskInv
<1> QED BY <1>5, <1>6, QuietStep DEF Loaded, ControlsInv

LEMMA EndKeeps == ASSUME ControlsInv, End PROVE ControlsInv'
<1>1. asking' = Absent \/ asking' \in Rows(binds)
  BY DEF End, ControlsInv, AskInv
<1> QED BY <1>1, QuietStep DEF End, ControlsInv

LEMMA RestartKeeps == ASSUME ControlsInv, Restart PROVE ControlsInv'
<1>1. game.file = Absent \/ Whole(game.file)
  BY DEF ControlsInv, GameFits
<1>2. Whole(binds')
  BY <1>1, FirstBindsWhole, LoadedWhole DEF Restart
<1>3. PICK misc : misc = IF game.file = Absent THEN Absent ELSE binds'
  OBVIOUS
<1>4. misc = Absent \/ Whole(misc)
  BY <1>2, <1>3
<1>5. game' = Started(misc)
  BY <1>3 DEF Restart
<1>6. GameFits(game', binds') /\ game'.on = {}
  BY <1>4, <1>5 DEF Started, GameFits, Games, Whole, Windows, Pages
<1>7. Accounted(game'.on, missed', binds', held')
  BY <1>6 DEF Accounted
<1>8. AskInv'
  BY DEF Restart, AskInv
<1>9. starts' \in 1..MaxStarts
  BY ControlsAssumption DEF Restart, ControlsInv, ControlsAssumption
<1> QED BY <1>2, <1>6, <1>7, <1>8, <1>9 DEF Restart, ControlsInv
(* An event that leaves the bindings alone keeps what is on accounted for: *)
(* what it switches on is down, and of what stays on and comes up, the     *)
(* release is noted.                                                       *)
LEMMA EventStep ==
  ASSUME ControlsInv, NEW i \in Inputs, NEW how, Happens(i, how),
         GameFits(game', binds), UNCHANGED <<binds, loopVars>>,
         missed' \subseteq Actions, Accounted(game'.on, missed', binds, held')
  PROVE  ControlsInv'
<1>1. Whole(binds') /\ GameFits(game', binds')
  BY DEF ControlsInv, loopVars
<1>2. AskInv'
  BY DEF AskInv, Rows, ControlsInv, loopVars
<1>3. held' \subseteq Inputs
  BY DEF Happens, ControlsInv
<1>4. Accounted(game'.on, missed', binds', held')
  BY DEF Accounted, loopVars
<1> QED BY <1>1, <1>2, <1>3, <1>4 DEF ControlsInv, loopVars

(* The game does not hear of the input.                                    *)
LEMMA Unheard ==
  ASSUME ControlsInv, NEW i \in Inputs, NEW how, Happens(i, how),
         Forget(Lost(i, how))
  PROVE  missed' \subseteq Actions /\ Accounted(game.on, missed', binds, held')
<1>1. missed' \subseteq Actions
  BY ActionsDiffer DEF Forget, ControlsInv
<1>2. ASSUME NEW a \in game.on
      PROVE  a \in missed' \/ \E j \in held' : binds[j] = a
  <2>1. a \in Holding
    BY DEF ControlsInv, GameFits, Games
  <2>2. CASE a \in missed
    BY <2>2 DEF Forget
  <2>3. CASE a \notin missed
    <3>1. PICK j \in held : binds[j] = a
      BY <2>3 DEF ControlsInv, Accounted
    <3>2. CASE how = "release" /\ j = i
      BY <2>1, <3>1, <3>2 DEF Forget, Lost
    <3>3. CASE ~(how = "release" /\ j = i)
      BY <3>1, <3>3 DEF Happens
    <3> QED BY <3>2, <3>3
  <2> QED BY <2>2, <2>3
<1> QED BY <1>1, <1>2 DEF Accounted

(* The input keeps its window to itself: it is not a release.              *)
LEMMA StaysDown ==
  ASSUME ControlsInv, NEW i \in Inputs, NEW how, Happens(i, how),
         how # "release"
  PROVE  Accounted(game.on, missed, binds, held')
BY DEF Happens, ControlsInv, Accounted

(* The game hears of the input and switches the action of it.              *)
LEMMA Heard ==
  ASSUME ControlsInv, NEW i \in Inputs, NEW how, Happens(i, how),
         NEW h, NEW down, Switched(game, h, binds[i], down),
         down <=> how # "release", missed' = missed \ {binds[i]}
  PROVE  missed' \subseteq Actions /\ Accounted(h.on, missed', binds, held')
<1>1. missed' \subseteq Actions
  BY DEF ControlsInv
<1>2. ASSUME NEW a \in h.on
      PROVE  a \in missed' \/ \E j \in held' : binds[j] = a
  <2>1. CASE a = binds[i]
    <3>1. how # "release"
      <4>1. ASSUME ~down PROVE FALSE
        <5>1. CASE binds[i] \in Holding
          BY <2>1, <4>1, <5>1 DEF Switched
        <5>2. CASE binds[i] \notin Holding
          BY <2>1, <5>2 DEF Switched, ControlsInv, GameFits, Games
        <5> QED BY <5>1, <5>2
      <4> QED BY <4>1
    <3> QED BY <2>1, <3>1 DEF Happens
  <2>2. CASE a # binds[i]
    <3>1. a \in game.on
      BY <2>2 DEF Switched
    <3>2. CASE a \in missed
      BY <2>2, <3>2
    <3>3. CASE a \notin missed
      <4>1. PICK j \in held : binds[j] = a
        BY <3>1, <3>3 DEF ControlsInv, Accounted
      <4> QED BY <2>2, <4>1 DEF Happens
    <3> QED BY <3>2, <3>3
  <2> QED BY <2>1, <2>2
<1> QED BY <1>1, <1>2 DEF Accounted

(* A key never has an action of the mouse, nor a button one of the keys.   *)
LEMMA KindsHold ==
  ASSUME ControlsInv
  PROVE  /\ \A k \in Keys : binds[k] # "Break/Attack"
         /\ \A b \in Buttons : binds[b] # "Forward"
BY ControlsAssumption, ActionsDiffer
DEF ControlsInv, Whole, OfItsKind, ControlsAssumption, Inputs

LEMMA KeyKeeps ==
  ASSUME ControlsInv, NEW k \in Keys, NEW how \in {"press", "repeat", "release"},
         Key(k, how)
  PROVE  ControlsInv'
<1>1. Whole(binds) /\ GameFits(game, binds) /\ k \in Inputs
  BY DEF ControlsInv, Inputs
<1>2. Happens(k, how) /\ UNCHANGED <<binds, loopVars>>
  BY DEF Key
<1>3. CASE ClosesCraft(k, how) /\ game' = Close(game, "craft") /\ UNCHANGED missed
  <2>1. GameFits(game', binds) /\ game'.on = game.on
    BY <1>1, <1>3, CloseFits DEF Keeps
  <2>2. Accounted(game.on, missed, binds, held')
    BY <1>1, <1>2, <1>3, StaysDown DEF ClosesCraft
  <2> QED BY <1>1, <1>2, <1>3, <2>1, <2>2, EventStep DEF ControlsInv
<1>4. CASE ClosesMenu(k, how) /\ game' = Close(game, "menu") /\ UNCHANGED missed
  <2>1. GameFits(game', binds) /\ game'.on = game.on
    BY <1>1, <1>4, CloseFits DEF Keeps
  <2>2. Accounted(game.on, missed, binds, held')
    BY <1>1, <1>2, <1>4, StaysDown DEF ClosesMenu
  <2> QED BY <1>1, <1>2, <1>4, <2>1, <2>2, EventStep DEF ControlsInv
<1>5. CASE game' = ToGame(game, k, how) /\ missed' = missed \ {binds[k]}
  <2>1. PICK g : g = Keyboard(game, binds[k], how)
    OBVIOUS
  <2>2. GameFits(g, binds) /\ Switched(game, g, binds[k], how # "release")
    BY <1>1, <2>1, KeyboardFits, KindsHold
  <2>3. GameFits(game', binds) /\ game'.on = g.on
    BY <1>1, <1>5, <2>1, <2>2, AfterEscapeFits DEF ToGame, Keeps
  <2>4. PICK down : down = (how # "release")
    OBVIOUS
  <2>5. Switched(game, g, binds[k], down) /\ (down <=> how # "release")
    BY <2>2, <2>4
  <2>6. missed' \subseteq Actions /\ Accounted(g.on, missed', binds, held')
    BY <1>1, <1>2, <1>5, <2>5, Heard
  <2> QED BY <1>1, <1>2, <2>3, <2>6, EventStep
<1>6. CASE Forget(Lost(k, how)) /\ UNCHANGED game
  BY <1>1, <1>2, <1>6, Unheard, EventStep
<1> QED BY <1>3, <1>4, <1>5, <1>6 DEF Key

LEMMA ButtonKeeps ==
  ASSUME ControlsInv, NEW b \in Buttons, NEW how \in {"press", "release"},
         Button(b, how)
  PROVE  ControlsInv'
<1>1. Whole(binds) /\ GameFits(game, binds) /\ b \in Inputs
  BY DEF ControlsInv, Inputs
<1>2. Happens(b, how) /\ UNCHANGED <<binds, loopVars>>
  BY DEF Button
<1>3. PICK g : g = IF TakesMouse(b) THEN Focus(game, TRUE) ELSE game
  OBVIOUS
<1>4. GameFits(g, binds) /\ g.on = game.on /\ g.windows = game.windows
  <2>1. game \in Games /\ game.rows \subseteq Rows(binds)
    BY <1>1 DEF GameFits
  <2>2. CASE TakesMouse(b)
    BY <1>1, <1>3, <2>1, <2>2, FocusTaken DEF Keeps
  <2>3. CASE ~TakesMouse(b)
    BY <1>1, <1>3, <2>3
  <2> QED BY <2>2, <2>3
<1>5. CASE ~ButtonReaches
  BY <1>1, <1>2, <1>5, Unheard, EventStep DEF Button
<1>6. CASE ButtonReaches
  <2>1. PICK target \in Targets : game' = MouseButton(g, binds[b], how, target)
    BY <1>3, <1>6 DEF Button
  <2>2. CASE "chest" \in game.windows
    <3>1. game' = g
      BY <1>4, <2>1, <2>2 DEF MouseButton
    <3>2. Forget(Lost(b, how))
      BY <1>6, <2>2 DEF Button
    <3> QED BY <1>1, <1>2, <1>4, <3>1, <3>2, Unheard, EventStep
  <2>3. CASE "chest" \notin game.windows
    <3>1. GameFits(game', binds) /\ Switched(g, game', binds[b], how = "press")
      BY <1>1, <1>4, <2>1, <2>3, MouseButtonFits, KindsHold
    <3>2. missed' = missed \ {binds[b]}
      BY <1>6, <2>3 DEF Button
    <3>3. PICK down : down = (how = "press")
      OBVIOUS
    <3>4. Switched(game, game', binds[b], down) /\ (down <=> how # "release")
      BY <1>4, <3>1, <3>3 DEF Switched
    <3>5. missed' \subseteq Actions /\ Accounted(game'.on, missed', binds, held')
      BY <1>1, <1>2, <3>2, <3>4, Heard
    <3> QED BY <1>1, <1>2, <3>1, <3>5, EventStep
  <2> QED BY <2>2, <2>3
<1> QED BY <1>5, <1>6

LEMMA ListenKeeps ==
  ASSUME ControlsInv, NEW i \in Inputs, NEW how, Listen(i, how)
  PROVE  ControlsInv'
<1>1. Whole(binds) /\ GameFits(game, binds) /\ asking \in Rows(binds)
  BY DEF ControlsInv, AskInv, Listen
<1>2. Happens(i, how) /\ held' \subseteq Inputs
  BY DEF Listen, Happens, ControlsInv
<1>3. CASE SameKind(i, asking[1]) /\ Unbound(i)
  <2>1. asking[2] \in Actions /\ asking[1] \in Inputs /\ binds[asking[1]] = asking[2]
    BY <1>1 DEF Rows, Whole, Bindings
  <2>2. binds' = Rebound(i) /\ asking' = Absent
    BY <1>3 DEF Listen
  <2>3. Whole(binds')
    BY <1>1, <1>3, <2>1, <2>2, MovedWhole DEF Rebound, Unbound
  <2>4. game' = Relist(game, binds')
    BY <1>3 DEF Listen
  <2>5. GameFits(game', binds') /\ game'.on = game.on
    BY <1>1, <2>3, <2>4, RelistFits, SMTT(60) DEF Keeps
  <2>6. missed' = missed \cup ({asking[2], binds[i]} \cap Holding)
    BY <1>3 DEF Listen, Forget
  <2>7. ASSUME NEW a \in game.on, a \notin missed'
        PROVE  \E j \in held' : binds'[j] = a
    <3>1. a \in Holding /\ a # asking[2] /\ a # Absent
      BY <1>1, <2>6, <2>7, ActionsDiffer DEF GameFits, Games
    <3>2. PICK j \in held : binds[j] = a
      BY <2>6, <2>7 DEF ControlsInv, Accounted
    <3>3. j # asking[1] /\ j # i
      BY <1>3, <2>1, <3>1, <3>2 DEF Unbound
    <3>d. j \in DOMAIN binds
      BY <1>1, <3>2 DEF Whole, Bindings, ControlsInv
    <3>4. binds'[j] = a
      BY <2>2, <3>2, <3>3, <3>d DEF Rebound
    <3> QED BY <1>2, <3>2, <3>3, <3>4 DEF Happens
  <2>8. Accounted(game'.on, missed', binds', held')
    BY <2>5, <2>7 DEF Accounted
  <2>9. missed' \subseteq Actions
    BY <2>6, ActionsDiffer DEF ControlsInv
  <2>10. rebinds' \in 0..MaxRebinds /\ UNCHANGED <<seen, captured, turn, starts>>
    BY <1>3, ControlsAssumption DEF Listen, ControlsInv, ControlsAssumption
  <2> QED BY <1>2, <2>2, <2>3, <2>5, <2>8, <2>9, <2>10 DEF ControlsInv, AskInv
<1>4. CASE ~(SameKind(i, asking[1]) /\ Unbound(i))
  <2>1. Forget(Lost(i, how)) /\ UNCHANGED <<game, binds, rebinds>>
    BY <1>4 DEF Listen
  <2>2. missed' \subseteq Actions /\ Accounted(game.on, missed', binds, held')
    BY <1>2, <2>1, Unheard
  <2>3. Accounted(game'.on, missed', binds', held')
    BY <2>1, <2>2
  <2>4. AskInv'
    BY <2>1 DEF Listen, ControlsInv, AskInv, Rows
  <2>5. Whole(binds') /\ GameFits(game', binds')
    BY <1>1, <2>1
  <2> QED BY <1>2, <2>1, <2>2, <2>3, <2>4, <2>5 DEF ControlsInv, Listen
<1> QED BY <1>3, <1>4

LEMMA NextControls == ControlsInv /\ [Next]_vars => ControlsInv'
<1> SUFFICES ASSUME ControlsInv, [Next]_vars PROVE ControlsInv'
  OBVIOUS
<1>1. CASE KeyEvent
  BY <1>1, KeyKeeps DEF KeyEvent
<1>2. CASE ButtonEvent
  BY <1>2, ButtonKeeps DEF ButtonEvent
<1>3. CASE ListenEvent
  BY <1>3, ListenKeeps DEF ListenEvent, Inputs
<1>4. CASE UNCHANGED vars
  <2>1. asking' = Absent \/ asking' \in Rows(binds)
    BY <1>4 DEF vars, loopVars, ControlsInv, AskInv
  <2> QED BY <1>4, <2>1, QuietStep DEF vars, loopVars, ControlsInv
<1> QED BY <1>1, <1>2, <1>3, <1>4, FrameKeeps, ClickKeeps, LoadedKeeps, EndKeeps,
           RestartKeeps DEF Next

LEMMA ControlsKept == Spec => []ControlsInv
BY InitControls, NextControls, PTL DEF Spec

----------------------------------------------------------------------------

(* However the player rebinds and restarts, every action of the game has   *)
(* exactly one input, of its kind (windowandkey.rs run, statics.rs         *)
(* load_misc).                                                             *)
THEOREM NoBindingIsLost == Spec => []BindingsWhole
<1>1. ControlsInv => BindingsWhole
  BY DEF ControlsInv, Whole, Bound, OfItsKind, BindingsWhole
<1> QED BY <1>1, ControlsKept, PTL

(* With nothing open, the mouse is the game's and the file has the         *)
(* bindings, whichever windows were closed by whatever input               *)
(* (windowandkey.rs run, game.rs set_mouse_focused).                       *)
THEOREM AlwaysBackInPlay == Spec => []BackInPlay
<1>1. ControlsInv => BackInPlay
  BY DEF ControlsInv, GameFits, Settled, BackInPlay, InPlay
<1> QED BY <1>1, ControlsKept, PTL

(* Nothing stays on after its key is up unless the game could not see the  *)
(* release (game.rs keyboard, mouse_button).                               *)
THEOREM NothingStaysOn == Spec => []OnMeansHeld
<1>1. ControlsInv => OnMeansHeld
  BY DEF ControlsInv, Accounted, OnMeansHeld
<1> QED BY <1>1, ControlsKept, PTL

=============================================================================
