------------------------ MODULE ChunkRebuildProofs ------------------------
(***************************************************************************)
(* Theorems about ChunkRebuild, for any spots, facades and radius, any     *)
(* reach of models and lights, and any number of changes and of steps of   *)
(* the player: an entry of takencare names the facade at its spot, and a   *)
(* mesh on the screen catches up with the blocks, but for the three races  *)
(* that the history variables name.                                        *)
(***************************************************************************)
EXTENDS ChunkRebuild, FiniteSetTheorems, SequenceTheorems, TLAPS

----------------------------------------------------------------------------
(* What each step relies on.                                               *)

Queues == {"light", "user", "gen"}
Finished == {"user", "geo"}
Kinds == {"automata", "lights", "light", "users", "user", "gens"}

Rebuilds == [step : {"lock", "read", "finish"}, index : Indices,
             power : BOOLEAN, light : BOOLEAN]
Places == [step : {"place"}, index : Indices, spot : Spots]
Readies == [index : Indices, mesh : Meshes]
Visits == [spot : Spots, index : Indices, gen : BOOLEAN]
Rerenders == [step : {"request"}, spot : Spots, light : BOOLEAN,
              neighbs : SUBSET Spots, intercepts : SUBSET Spots]

WorldType ==
  /\ world \in [Spots -> Nat]
  /\ facade \in [Indices -> [pos : Spots \cup {Nowhere}, used : BOOLEAN]]
  /\ Served \subseteq Spots
  /\ takencare \in [Served -> Indices]
  /\ player \in Spots
QueueType ==
  /\ requests \in [Queues -> Seq(Indices)]
  /\ automata \in Seq(Spots)
  /\ ready \in [Finished -> Seq(Readies)]
  /\ plan \in Seq(Visits)
MeshType ==
  /\ bank \in [Indices -> Meshes]
  /\ memory \in [Indices -> Meshes]
  /\ vbo \in [Indices -> Meshes]
StepType ==
  /\ job \in [Systems -> {Idle} \cup Rebuilds \cup Places]
  /\ job["Q"] \in {Idle} \cup Rebuilds
  /\ agenda \in Seq(Kinds) /\ agenda # <<>>
  /\ implic \subseteq Spots
  /\ main \in {Resting, [step |-> "geo"], [step |-> "users"]} \cup Rerenders
  /\ main.step = "request" => main.spot \in main.neighbs
Types == WorldType /\ QueueType /\ MeshType /\ StepType

(* A system is at one of the given steps of index g.                       *)
AtStep(t, g, steps) == job[t].step \in steps /\ job[t].index = g
Placing(g) == AtStep("N", g, {"place"})
ToBuild(g) == \E t \in Systems : AtStep(t, g, {"lock", "read"})
Asked(g) == \E q \in Queues : g \in ToSet(requests[q])

(* Whatever is asked for has been given a spot.                            *)
HasSpot(g) == facade[g].pos # Nowhere
AskedInv ==
  \A g \in Indices :
    Asked(g) \/ (\E t \in Systems : AtStep(t, g, {"lock", "read", "finish"})) =>
      HasSpot(g)
EntriesPlaced == \A p \in Served : HasSpot(takencare[p])

(* Only one system has the lock of a chunk, and what it finishes is a mesh *)
(* of the spot the chunk is at.                                            *)
LockInv ==
  /\ \A g \in Indices : ~(Building("Q", g) /\ Building("N", g))
  /\ \A t \in Systems, g \in Indices :
       AtStep(t, g, {"finish"}) => bank[g].pos = facade[g].pos

(* A facade has an entry for its spot, but while N moves it there.         *)
Moving(g) ==
  \/ Placing(g)
  \/ AtStep("N", g, {"lock", "read", "finish"}) /\ ~job["N"].power
HomeInv == \A g \in Indices : ~HasSpot(g) \/ facade[g].pos \in Served \/ Moving(g)

(* The spots N is going to serve are served by nobody and no facade is     *)
(* there, and it has forgotten the spot that the facade comes from.        *)
Vacant(p) == p \notin Served /\ \A g \in Indices : facade[g].pos # p
PlanInv ==
  /\ \A i \in DOMAIN plan : Vacant(plan[i].spot)
  /\ \A i, j \in DOMAIN plan : plan[i].spot = plan[j].spot => i = j
PlaceInv ==
  \A g \in Indices : Placing(g) =>
    /\ Vacant(job["N"].spot)
    /\ \A i \in DOMAIN plan : plan[i].spot # job["N"].spot
    /\ \A p \in Served : takencare[p] = g => p \in raced

(* The mesh of a facade is the world at its spot, or it will be rebuilt.   *)
Behind(g) ==
  \/ Asked(g) \/ ToBuild(g) \/ Placing(g)
  \/ facade[g].pos \in implic
  \/ main.step = "request" /\ main.spot = facade[g].pos
BankInv ==
  \A g \in Indices :
    \/ ~HasSpot(g) \/ facade[g].pos \in missed \cup raced \/ Behind(g)
    \/ bank[g] = Mesh(facade[g].pos, world[facade[g].pos])

(* The last mesh of an index in a finished queue is the one in the bank.   *)
InQueue(q, g) == \E i \in DOMAIN ready[q] : ready[q][i].index = g
LastIs(q, g) ==
  \E i \in DOMAIN ready[q] :
    /\ ready[q][i].index = g /\ ready[q][i].mesh = bank[g]
    /\ \A j \in DOMAIN ready[q] : j > i => ready[q][j].index # g
Shown(g) ==
  /\ \A q \in Finished : ~InQueue(q, g)
  /\ memory[g] = bank[g] /\ vbo[g] = bank[g]
ShownInv ==
  \A g \in Indices \ overtaken :
    /\ ~(InQueue("user", g) /\ InQueue("geo", g))
    /\ \/ \E t \in Systems : Building(t, g)
       \/ \E q \in Finished : LastIs(q, g)
       \/ Shown(g)

EntryInv == /\ AskedInv /\ EntriesPlaced /\ LockInv /\ HomeInv
            /\ PlanInv /\ PlaceInv /\ EntriesAreTrue
RebuildInv == Types /\ EntryInv /\ BankInv /\ ShownInv
----------------------------------------------------------------------------
(* Sequences, and the requests.                                            *)

LEMMA ToSetTail ==
  ASSUME NEW S, NEW s \in Seq(S), s # <<>>
  PROVE  /\ Head(s) \in S /\ Tail(s) \in Seq(S)
         /\ ToSet(s) = {Head(s)} \cup ToSet(Tail(s))
<1>1. /\ Head(s) \in S /\ Tail(s) \in Seq(S) /\ Len(s) \in Nat \ {0}
      /\ Len(Tail(s)) = Len(s) - 1 /\ Head(s) = s[1]
      /\ \A i \in 1..Len(Tail(s)) : Tail(s)[i] = s[i + 1]
  BY HeadTailProperties, LenProperties, EmptySeq
<1>2. DOMAIN s = 1..Len(s) /\ DOMAIN Tail(s) = 1..Len(Tail(s))
  BY <1>1, LenProperties
<1>3. ASSUME NEW x \in ToSet(s) PROVE x = Head(s) \/ x \in ToSet(Tail(s))
  <2>1. PICK i \in 1..Len(s) : s[i] = x
    BY <1>2 DEF ToSet
  <2>2. CASE i = 1
    BY <1>1, <2>1, <2>2
  <2>3. CASE i # 1
    <3>1. i - 1 \in 1..Len(Tail(s)) /\ (i - 1) + 1 = i
      BY <1>1, <2>3
    <3>2. Tail(s)[i - 1] = x
      BY <1>1, <2>1, <3>1
    <3> QED BY <1>2, <3>1, <3>2 DEF ToSet
  <2> QED BY <2>2, <2>3
<1>4. ToSet(Tail(s)) \subseteq ToSet(s)
  <2>1. ASSUME NEW i \in 1..Len(Tail(s)) PROVE i + 1 \in 1..Len(s) /\ Tail(s)[i] = s[i + 1]
    BY <1>1
  <2> QED BY <1>2, <2>1 DEF ToSet
<1>5. Head(s) \in ToSet(s)
  BY <1>1, <1>2 DEF ToSet
<1> QED BY <1>1, <1>3, <1>4, <1>5

LEMMA ToSetConcat ==
  ASSUME NEW S, NEW s \in Seq(S), NEW t \in Seq(S)
  PROVE  s \o t \in Seq(S) /\ ToSet(s \o t) = ToSet(s) \cup ToSet(t)
<1>1. /\ s \o t \in Seq(S) /\ Len(s \o t) = Len(s) + Len(t)
      /\ Len(s) \in Nat /\ Len(t) \in Nat
      /\ \A i \in 1..Len(s) + Len(t) :
           (s \o t)[i] = IF i <= Len(s) THEN s[i] ELSE t[i - Len(s)]
  BY ConcatProperties, LenProperties
<1>2. /\ DOMAIN s = 1..Len(s) /\ DOMAIN t = 1..Len(t)
      /\ DOMAIN (s \o t) = 1..(Len(s) + Len(t))
  BY <1>1, LenProperties
<1>3. ASSUME NEW x \in ToSet(s \o t) PROVE x \in ToSet(s) \cup ToSet(t)
  <2>1. PICK i \in 1..(Len(s) + Len(t)) : (s \o t)[i] = x
    BY <1>2 DEF ToSet
  <2>2. CASE i <= Len(s)
    BY <1>1, <1>2, <2>1, <2>2 DEF ToSet
  <2>3. CASE ~(i <= Len(s))
    <3>1. i - Len(s) \in 1..Len(t) /\ t[i - Len(s)] = x
      BY <1>1, <2>1, <2>3
    <3> QED BY <1>2, <3>1 DEF ToSet
  <2> QED BY <2>2, <2>3
<1>4. ASSUME NEW x \in ToSet(s) PROVE x \in ToSet(s \o t)
  <2>1. PICK i \in 1..Len(s) : s[i] = x
    BY <1>2 DEF ToSet
  <2>2. i \in 1..(Len(s) + Len(t)) /\ (s \o t)[i] = x
    BY <1>1, <2>1
  <2> QED BY <1>2, <2>2 DEF ToSet
<1>5. ASSUME NEW x \in ToSet(t) PROVE x \in ToSet(s \o t)
  <2>1. PICK i \in 1..Len(t) : t[i] = x
    BY <1>2 DEF ToSet
  <2>2. i + Len(s) \in 1..(Len(s) + Len(t)) /\ (s \o t)[i + Len(s)] = x
    BY <1>1, <2>1
  <2> QED BY <1>2, <2>2 DEF ToSet
<1> QED BY <1>1, <1>3, <1>4, <1>5

LEMMA SetToSeqOf ==
  ASSUME NEW S, NEW T, T \subseteq S, IsFiniteSet(T)
  PROVE  SetToSeq(T) \in Seq(S) /\ ToSet(SetToSeq(T)) = T
<1>1. Cardinality(T) \in Nat /\ ExistsBijection(1..Cardinality(T), T)
  BY FS_CardinalityType
<1>2. PICK b : b \in Bijection(1..Cardinality(T), T)
  BY <1>1 DEF ExistsBijection
<1>3. b \in [1..Cardinality(T) -> T] /\ IsInjective(b)
  BY <1>2 DEF Bijection, Injection, IsInjective
<1>4. PICK f : f = SetToSeq(T)
  OBVIOUS
<1>5. f \in [1..Cardinality(T) -> T] /\ IsInjective(f)
  BY <1>3, <1>4 DEF SetToSeq
<1>6. f \in Injection(1..Cardinality(T), T)
  BY <1>5 DEF Injection, IsInjective
<1>7. Cardinality(1..Cardinality(T)) = Cardinality(T)
  BY <1>1, FS_Interval
<1>8. f \in Surjection(1..Cardinality(T), T)
  BY <1>6, <1>7, FS_Injection
<1>9. ToSet(f) = T
  BY <1>5, <1>8 DEF Surjection, ToSet
<1>10. f \in Seq(S)
  BY <1>1, <1>5
<1> QED BY <1>4, <1>9, <1>10

(* Who serves a spot of S is asked, and nobody else.                       *)
OnlyFor(S, old, new) ==
  \A r \in Queues : \A g \in ToSet(new[r]) :
    g \in ToSet(old[r]) \/ \E p \in S \cap Served : takencare[p] = g
LEMMA RequestedAre ==
  ASSUME takencare \in [Served -> Indices],
         NEW reqs \in [Queues -> Seq(Indices)], NEW q \in Queues, NEW S
  PROVE  /\ Requested(reqs, q, S) \in [Queues -> Seq(Indices)]
         /\ \A r \in Queues : ToSet(reqs[r]) \subseteq ToSet(Requested(reqs, q, S)[r])
         /\ \A p \in S \cap Served : takencare[p] \in ToSet(Requested(reqs, q, S)[q])
         /\ OnlyFor(S, reqs, Requested(reqs, q, S))
<1> DEFINE T == {takencare[p] : p \in S \cap Served}
<1>1. T \subseteq Indices /\ IsFiniteSet(T)
  <2>1. T \subseteq Indices
    OBVIOUS
  <2> QED BY <2>1, FS_Subset, ChunkRebuildAssumption DEF ChunkRebuildAssumption
<1>2. PICK t : t = SetToSeq(T)
  OBVIOUS
<1>3. t \in Seq(Indices) /\ ToSet(t) = T
  BY <1>1, <1>2, SetToSeqOf
<1>4. PICK new : new = Requested(reqs, q, S)
  OBVIOUS
<1>5. new = [reqs EXCEPT ![q] = reqs[q] \o t]
  BY <1>2, <1>4 DEF Requested
<1>6. reqs[q] \o t \in Seq(Indices) /\ ToSet(reqs[q] \o t) = ToSet(reqs[q]) \cup T
  BY <1>3, ToSetConcat
<1>7. new \in [Queues -> Seq(Indices)]
  BY <1>5, <1>6
<1>8. new[q] = reqs[q] \o t /\ \A r \in Queues \ {q} : new[r] = reqs[r]
  BY <1>5
<1>9. \A r \in Queues : ToSet(reqs[r]) \subseteq ToSet(new[r])
  BY <1>6, <1>8
<1>10. \A p \in S \cap Served : takencare[p] \in ToSet(new[q])
  BY <1>6, <1>8
<1>11. OnlyFor(S, reqs, new)
  BY <1>6, <1>8, ZenonT(60) DEF OnlyFor
<1> QED BY <1>4, <1>7, <1>9, <1>10, <1>11
----------------------------------------------------------------------------
(* What a system is doing.                                                 *)

LEMMA JobFields ==
  ASSUME StepType, NEW t \in Systems
  PROVE  /\ job[t].step \in {"idle", "lock", "read", "finish", "place"}
         /\ job[t].step = "idle" <=> job[t] = Idle
         /\ job[t].step \in {"lock", "read", "finish"} =>
              job[t] \in Rebuilds /\ job[t].index \in Indices /\ job[t].power \in BOOLEAN
         /\ job[t].step = "place" =>
              /\ t = "N" /\ job[t] \in Places
              /\ job[t].index \in Indices /\ job[t].spot \in Spots
<1>1. CASE job[t] = Idle
  BY <1>1 DEF Idle
<1>2. CASE job[t] \in Rebuilds
  BY <1>2 DEF Rebuilds, Idle
<1>3. CASE job[t] \in Places
  <2>1. t = "N"
    BY <1>3 DEF StepType, Places, Rebuilds, Idle, Systems
  <2> QED BY <1>3, <2>1 DEF Places, Idle
<1> QED BY <1>1, <1>2, <1>3 DEF StepType

(* A rebuild that goes on, or begins.                                      *)
LEMMA RebuildTyped ==
  ASSUME NEW g \in Indices, NEW power \in BOOLEAN, NEW light \in BOOLEAN
  PROVE  /\ Rebuild(g, power, light) \in Rebuilds
         /\ Rebuild(g, power, light).step = "lock"
         /\ Rebuild(g, power, light).index = g
         /\ Rebuild(g, power, light).power = power
BY DEF Rebuild, Rebuilds

LEMMA RebuildGoesOn ==
  ASSUME NEW r \in Rebuilds, NEW s \in {"lock", "read", "finish"}
  PROVE  /\ [r EXCEPT !.step = s] \in Rebuilds
         /\ [r EXCEPT !.step = s].step = s
         /\ [r EXCEPT !.step = s].index = r.index
         /\ [r EXCEPT !.step = s].power = r.power
BY DEF Rebuilds

LEMMA MainTyped ==
  ASSUME StepType
  PROVE  /\ main.step \in {"frame", "geo", "users", "request"}
         /\ main.step = "frame" <=> main = Resting
         /\ main.step = "request" => main \in Rerenders
BY DEF StepType, Resting, Rerenders

(* While nobody has anything more to do with an index, nothing is asked.   *)
LEMMA AskedIs ==
  ASSUME NEW old \in [Queues -> Seq(Indices)], NEW q \in Queues, old[q] # <<>>
  PROVE  /\ Head(old[q]) \in Indices
         /\ [old EXCEPT ![q] = Tail(@)] \in [Queues -> Seq(Indices)]
         /\ \A r \in Queues : ToSet([old EXCEPT ![q] = Tail(@)][r]) \subseteq ToSet(old[r])
         /\ Head(old[q]) \in ToSet(old[q])
         /\ \A r \in Queues : \A g \in ToSet(old[r]) :
              g = Head(old[q]) \/ g \in ToSet([old EXCEPT ![q] = Tail(@)][r])
<1>1. old[q] \in Seq(Indices)
  OBVIOUS
<1>2. /\ Head(old[q]) \in Indices /\ Tail(old[q]) \in Seq(Indices)
      /\ ToSet(old[q]) = {Head(old[q])} \cup ToSet(Tail(old[q]))
  BY <1>1, ToSetTail
<1>3. PICK new : new = [old EXCEPT ![q] = Tail(@)]
  OBVIOUS
<1>4. new[q] = Tail(old[q]) /\ \A r \in Queues \ {q} : new[r] = old[r]
  BY <1>3
<1>5. new \in [Queues -> Seq(Indices)]
  BY <1>2, <1>3
<1>6. \A r \in Queues : ToSet(new[r]) \subseteq ToSet(old[r])
  BY <1>2, <1>4
<1>7. \A r \in Queues : \A g \in ToSet(old[r]) : g = Head(old[q]) \/ g \in ToSet(new[r])
  BY <1>2, <1>4
<1> QED BY <1>2, <1>3, <1>5, <1>6, <1>7

LEMMA InitRebuild == Init => RebuildInv
<1> SUFFICES ASSUME Init PROVE RebuildInv
  OBVIOUS
<1>1. \A g \in Indices : facade[g].pos = Nowhere
  BY DEF Init
<1>2. \A t \in Systems : job[t] = Idle
  BY DEF Init
<1>3. Idle.step = "idle"
  BY DEF Idle
<1>4. \A q \in Queues : ToSet(requests[q]) = {}
  BY DEF Init, Queues, ToSet
<1>5. Served = {}
  BY DEF Init, Served
<1>t. Types
  <2>1. WorldType
    BY <1>5, ChunkRebuildAssumption DEF Init, WorldType, ChunkRebuildAssumption, Served
  <2>2. QueueType
    BY DEF Init, QueueType, Queues, Finished
  <2>3. MeshType
    BY DEF Init, MeshType, Meshes, Blank, Mesh
  <2>4. StepType
    <3>1. Update \in Seq(Kinds) /\ Update # <<>>
      BY DEF Update, Kinds
    <3>2. job \in [Systems -> {Idle} \cup Rebuilds \cup Places] /\ job["Q"] = Idle
      BY DEF Init, Systems
    <3>3. main = Resting /\ main.step = "frame"
      BY DEF Init, Resting
    <3> QED BY <3>1, <3>2, <3>3 DEF Init, StepType
  <2> QED BY <2>1, <2>2, <2>3, <2>4 DEF Types
<1>6. "N" \in Systems /\ "Q" \in Systems
  BY DEF Systems
<1>a. AskedInv
  BY <1>2, <1>3, <1>4 DEF AskedInv, Asked, AtStep
<1>b. EntriesPlaced
  BY <1>5 DEF EntriesPlaced
<1>c. LockInv
  BY <1>2, <1>3, <1>6 DEF LockInv, Building, AtStep
<1>d. HomeInv
  BY <1>1 DEF HomeInv, HasSpot
<1>e. PlanInv
  BY DEF Init, PlanInv
<1>f. PlaceInv
  BY <1>2, <1>3, <1>6 DEF PlaceInv, Placing, AtStep
<1>g. EntriesAreTrue
  BY <1>1, <1>5 DEF EntriesAreTrue
<1>h. BankInv
  BY <1>1 DEF BankInv, HasSpot
<1>i. ShownInv
  BY DEF Init, ShownInv, InQueue, Shown, Finished
<1> QED BY <1>t, <1>a, <1>b, <1>c, <1>d, <1>e, <1>f, <1>g, <1>h, <1>i
    DEF RebuildInv, EntryInv
----------------------------------------------------------------------------
(* Steps that leave takencare, the facades' spots and the jobs alone, and  *)
(* add nothing to the plan, keep what is true of entries.                  *)

(* The plan loses spots, or forgets that it may still look for requests.   *)
FewerVisits ==
  /\ plan' \in Seq(Visits)
  /\ DOMAIN plan' \subseteq DOMAIN plan
  /\ \A i \in DOMAIN plan' : plan'[i].spot = plan[i].spot

SamePlaces == \A g \in Indices : facade'[g].pos = facade[g].pos

LEMMA EntriesStay ==
  ASSUME RebuildInv, SamePlaces, UNCHANGED <<takencare, job, raced>>, FewerVisits,
         \A g \in Indices : Asked(g)' => Asked(g) \/ \E p \in Served : takencare[p] = g,
         \A t \in Systems, g \in Indices :
           AtStep(t, g, {"finish"}) => bank'[g].pos = bank[g].pos
  PROVE  EntryInv'
<1> USE DEF RebuildInv, EntryInv, SamePlaces
<1>1. Served' = Served
  BY DEF Served
<1>2. AskedInv'
  BY DEF AskedInv, EntriesPlaced, AtStep, HasSpot
<1>3. EntriesPlaced'
  BY <1>1 DEF EntriesPlaced, HasSpot, Types, WorldType
<1>4. LockInv'
  BY DEF LockInv, Building, AtStep
<1>5. HomeInv'
  BY <1>1 DEF HomeInv, HasSpot, Moving, Placing, AtStep
<1>6. PlanInv'
  BY <1>1 DEF PlanInv, Vacant, FewerVisits
<1>7. PlaceInv'
  BY <1>1 DEF PlaceInv, Vacant, Placing, AtStep, FewerVisits
<1>8. EntriesAreTrue'
  BY <1>1 DEF EntriesAreTrue, Types, WorldType
<1> QED BY <1>2, <1>3, <1>4, <1>5, <1>6, <1>7, <1>8

(* A step that touches neither the meshes nor what is at work keeps what   *)
(* is shown.                                                               *)
LEMMA ShownStays ==
  ASSUME ShownInv, UNCHANGED <<overtaken, bank, ready, meshVars>>,
         \A t \in Systems, g \in Indices : Building(t, g) => Building(t, g)'
  PROVE  ShownInv'
BY DEF ShownInv, meshVars, InQueue, LastIs, Shown

----------------------------------------------------------------------------
(* Lock.                                                                   *)

(* What a step adds to the requests: those who serve the spots S.          *)
AsksOf(S) ==
  /\ requests' \in [Queues -> Seq(Indices)]
  /\ \A r \in Queues : ToSet(requests[r]) \subseteq ToSet(requests'[r])
  /\ \A p \in S \cap Served : \E r \in Queues : takencare[p] \in ToSet(requests'[r])
  /\ \A r \in Queues : \A g \in ToSet(requests'[r]) :
       g \in ToSet(requests[r]) \/ \E p \in Served : takencare[p] = g

LEMMA RequestedAsks ==
  ASSUME Types, NEW q \in Queues, NEW S, requests' = Requested(requests, q, S)
  PROVE  AsksOf(S)
<1>1. takencare \in [Served -> Indices] /\ requests \in [Queues -> Seq(Indices)]
  BY DEF Types, WorldType, QueueType
<1>2. PICK new : new = Requested(requests, q, S)
  OBVIOUS
<1>3. new \in [Queues -> Seq(Indices)]
  BY <1>1, <1>2, RequestedAre
<1>4. \A r \in Queues : ToSet(requests[r]) \subseteq ToSet(new[r])
  BY <1>1, <1>2, RequestedAre
<1>5. \A p \in S \cap Served : takencare[p] \in ToSet(new[q])
  BY <1>1, <1>2, RequestedAre
<1>6. OnlyFor(S, requests, new)
  BY <1>1, <1>2, RequestedAre
<1> QED BY <1>2, <1>3, <1>4, <1>5, <1>6 DEF AsksOf, OnlyFor

LEMMA AsksNobody ==
  ASSUME Types, UNCHANGED requests
  PROVE  AsksOf({})
BY DEF Types, QueueType, AsksOf

LEMMA ChangedTyped ==
  ASSUME world \in [Spots -> Nat], NEW S
  PROVE  /\ Changed(S) \in [Spots -> Nat]
         /\ \A p \in Spots \ S : Changed(S)[p] = world[p]
BY DEF Changed

(* The world changes at the spots S: who serves them is asked, and where   *)
(* nobody does, it is missed.                                              *)
ChangesAt(S) ==
  /\ world' \in [Spots -> Nat]
  /\ \A p \in Spots \ S : world'[p] = world[p]
  /\ AsksOf(S)

LEMMA LightpassIs ==
  ASSUME Types, NEW p \in Spots, LightpassOnChunk(p)
  PROVE  /\ ChangesAt(Glow[p]) /\ missed' = missed \cup (Glow[p] \ Served)
<1>1. AsksOf(Glow[p])
  BY RequestedAsks DEF LightpassOnChunk, Queues
<1>2. world' = Changed(Glow[p]) /\ world \in [Spots -> Nat]
  BY DEF LightpassOnChunk, Types, WorldType
<1> QED BY <1>1, <1>2, ChangedTyped DEF ChangesAt, LightpassOnChunk

(* Who serves a spot that changes is the facade at the spot, and is asked. *)
LEMMA ChangeNoticed ==
  ASSUME RebuildInv, NEW S, AsksOf(S), NEW g \in Indices, HasSpot(g),
         facade[g].pos \in S \cap Served, facade[g].pos \notin raced
  PROVE  Asked(g)'
<1>1. PICK p : p = facade[g].pos
  OBVIOUS
<1>2. facade[takencare[p]].pos = p /\ takencare[p] \in Indices
  BY <1>1 DEF RebuildInv, EntryInv, EntriesAreTrue, Types, WorldType
<1>3. takencare[p] = g
  BY <1>1, <1>2 DEF RebuildInv, EntryInv, EntriesAreTrue, HasSpot
<1> QED BY <1>1, <1>3 DEF AsksOf, Asked

LEMMA LockIs ==
  ASSUME RebuildInv, NEW t \in Systems, Lock(t)
  PROVE  \E g \in Indices, S \in SUBSET Spots :
           /\ g = job[t].index /\ HasSpot(g) /\ job[t] \in Rebuilds
           /\ job[t].step = "lock" /\ \A u \in Systems : ~Building(u, g)
           /\ job' = [job EXCEPT ![t] = [@ EXCEPT !.step = "read"]]
           /\ facade' = [facade EXCEPT ![g].used = TRUE]
           /\ bank' = [bank EXCEPT ![g] = Blank]
           /\ ChangesAt(S) /\ missed' = missed \cup (S \ Served)
           /\ lit' \subseteq lit \cup Spots
<1> USE DEF RebuildInv
<1>1. StepType /\ job[t].step = "lock"
  BY DEF Types, Lock
<1>2. job[t] \in Rebuilds /\ job[t].index \in Indices
  BY <1>1, JobFields
<1>3. HasSpot(job[t].index)
  BY <1>1, <1>2 DEF EntryInv, AskedInv, AtStep
<1>4. facade[job[t].index].pos \in Spots
  BY <1>2, <1>3 DEF HasSpot, Types, WorldType
<1>5. \E S \in SUBSET Spots : ChangesAt(S) /\ missed' = missed \cup (S \ Served)
                             /\ lit' \subseteq lit \cup Spots
  <2>1. CASE job[t].light
    <3>1. LightpassOnChunk(facade[job[t].index].pos)
      BY <2>1 DEF Lock
    <3>2. Glow[facade[job[t].index].pos] \in SUBSET Spots
      BY <1>4, ChunkRebuildAssumption DEF ChunkRebuildAssumption
    <3> QED BY <1>4, <3>1, <3>2, LightpassIs DEF LightpassOnChunk
  <2>2. CASE ~job[t].light
    <3>1. UNCHANGED <<lit, world, requests, missed>>
      BY <2>2 DEF Lock
    <3>2. ChangesAt({}) /\ missed' = missed \cup ({} \ Served)
      BY <3>1, AsksNobody DEF ChangesAt, Types, WorldType
    <3> QED BY <3>1, <3>2
  <2> QED BY <2>1, <2>2
<1> QED BY <1>1, <1>2, <1>3, <1>5 DEF Lock
LEMMA LockKeeps ==
  ASSUME RebuildInv, NEW t \in Systems, Lock(t)
  PROVE  RebuildInv'
<1>1. PICK g \in Indices, S \in SUBSET Spots :
        /\ g = job[t].index /\ HasSpot(g) /\ job[t] \in Rebuilds
        /\ job[t].step = "lock" /\ \A u \in Systems : ~Building(u, g)
        /\ job' = [job EXCEPT ![t] = [@ EXCEPT !.step = "read"]]
        /\ facade' = [facade EXCEPT ![g].used = TRUE]
        /\ bank' = [bank EXCEPT ![g] = Blank]
        /\ ChangesAt(S) /\ missed' = missed \cup (S \ Served)
        /\ lit' \subseteq lit \cup Spots
  BY LockIs
<1>2. Types /\ EntryInv /\ BankInv /\ ShownInv
  BY DEF RebuildInv
<1>3. /\ job' \in [Systems -> {Idle} \cup Rebuilds \cup Places]
      /\ job'["Q"] \in {Idle} \cup Rebuilds
      /\ job'[t].step = "read" /\ job'[t].index = g /\ job'[t].power = job[t].power
      /\ \A u \in Systems \ {t} : job'[u] = job[u]
  <2>1. PICK r : r = [job[t] EXCEPT !.step = "read"]
    OBVIOUS
  <2>2. r \in Rebuilds /\ r.step = "read" /\ r.index = g /\ r.power = job[t].power
    BY <1>1, <2>1, RebuildGoesOn
  <2>3. job' = [job EXCEPT ![t] = r]
    BY <1>1, <2>1
  <2> QED BY <1>2, <2>2, <2>3 DEF Types, StepType, Systems
<1>4. /\ facade' \in [Indices -> [pos : Spots \cup {Nowhere}, used : BOOLEAN]]
      /\ SamePlaces
  BY <1>1, <1>2, ZenonT(60) DEF Types, WorldType, SamePlaces
<1>5. /\ bank' \in [Indices -> Meshes]
      /\ \A h \in Indices \ {g} : bank'[h] = bank[h]
  <2>1. Blank \in Meshes
    BY DEF Blank, Mesh, Meshes
  <2> QED BY <1>1, <1>2, <2>1 DEF Types, MeshType
<1>6. UNCHANGED <<stamped, takencare, automata, ready, memory, vbo, player,
                  agenda, implic, plan, main, raced, overtaken>>
  BY DEF Lock, meshVars
<1>7. Served' = Served
  BY <1>6 DEF Served
<1>8. \A u \in Systems \ {t}, h \in Indices : AtStep(u, h, {"finish"}) => h # g
  BY <1>1 DEF AtStep, Building
<1>t. Types'
  <2>1. WorldType'
    BY <1>1, <1>2, <1>4, <1>6, <1>7 DEF Types, WorldType, ChangesAt
  <2>2. QueueType'
    BY <1>1, <1>2, <1>6 DEF Types, QueueType, ChangesAt, AsksOf
  <2>3. MeshType'
    BY <1>2, <1>5, <1>6 DEF Types, MeshType
  <2>4. StepType'
    BY <1>2, <1>3, <1>6 DEF Types, StepType
  <2> QED BY <2>1, <2>2, <2>3, <2>4 DEF Types
<1>a. ASSUME NEW h \in Indices
      PROVE  Asked(h)' => Asked(h) \/ \E p \in Served : takencare[p] = h
  BY <1>1 DEF ChangesAt, AsksOf, Asked
<1>b. AskedInv'
  <2>1. ASSUME NEW h \in Indices, Asked(h)' PROVE HasSpot(h)
    BY <1>2, <1>a, <2>1 DEF EntryInv, AskedInv, EntriesPlaced
  <2>2. ASSUME NEW h \in Indices, NEW u \in Systems,
               AtStep(u, h, {"lock", "read", "finish"})'
        PROVE  HasSpot(h)
    <3>1. CASE u = t
      BY <1>1, <1>3, <2>2, <3>1 DEF AtStep
    <3>2. CASE u # t
      BY <1>2, <1>3, <2>2, <3>2 DEF EntryInv, AskedInv, AtStep
    <3> QED BY <3>1, <3>2
  <2> QED BY <1>4, <2>1, <2>2 DEF AskedInv, SamePlaces, HasSpot
<1>c. EntriesPlaced'
  BY <1>2, <1>4, <1>6, <1>7
  DEF EntryInv, EntriesPlaced, HasSpot, SamePlaces, Types, WorldType
<1>d. LockInv'
  <2>1. ASSUME NEW h \in Indices PROVE ~(Building("Q", h)' /\ Building("N", h)')
    BY <1>1, <1>2, <1>3 DEF EntryInv, LockInv, Building, Systems
  <2>2. ASSUME NEW u \in Systems, NEW h \in Indices, AtStep(u, h, {"finish"})'
        PROVE  bank'[h].pos = facade'[h].pos
    <3>1. u # t /\ AtStep(u, h, {"finish"})
      BY <1>3, <2>2 DEF AtStep
    <3>2. h # g
      BY <1>8, <3>1
    <3> QED BY <1>2, <1>4, <1>5, <3>1, <3>2 DEF EntryInv, LockInv, SamePlaces
  <2> QED BY <2>1, <2>2 DEF LockInv
<1>e. \A h \in Indices : Moving(h) <=> Moving(h)'
  BY <1>1, <1>3 DEF Moving, Placing, AtStep, Systems
<1>f. \A h \in Indices : Placing(h) <=> Placing(h)'
  BY <1>1, <1>3 DEF Placing, AtStep, Systems
<1>g. HomeInv'
  BY <1>2, <1>4, <1>7, <1>e DEF EntryInv, HomeInv, HasSpot, SamePlaces
<1>h. PlanInv'
  BY <1>2, <1>4, <1>6, <1>7 DEF EntryInv, PlanInv, Vacant, SamePlaces
<1>i. PlaceInv'
  <2>1. ASSUME NEW h \in Indices, Placing(h)' PROVE Placing(h) /\ job'["N"] = job["N"]
    BY <1>f, <1>1, <1>3, <2>1 DEF Placing, AtStep, Systems
  <2> QED BY <1>2, <1>4, <1>6, <1>7, <2>1
      DEF EntryInv, PlaceInv, Vacant, SamePlaces
<1>j. EntriesAreTrue'
  BY <1>2, <1>4, <1>6, <1>7 DEF EntryInv, EntriesAreTrue, SamePlaces, Types, WorldType
<1>k. BankInv'
  <2> SUFFICES ASSUME NEW h \in Indices, HasSpot(h)',
                      facade'[h].pos \notin missed' \cup raced', ~Behind(h)'
               PROVE  bank'[h] = Mesh(facade'[h].pos, world'[facade'[h].pos])
    BY DEF BankInv
  <2>1. h # g
    BY <1>3 DEF Behind, ToBuild, AtStep
  <2>2. PICK p : p = facade[h].pos /\ p = facade'[h].pos
    BY <1>4 DEF SamePlaces
  <2>3. p \in Spots /\ p \notin missed \cup raced /\ HasSpot(h)
    BY <1>1, <1>2, <1>6, <2>2 DEF HasSpot, Types, WorldType
  <2>4. ~Asked(h)' /\ ~Asked(h)
    BY <1>1 DEF Behind, ChangesAt, AsksOf, Asked
  <2>5. ~Behind(h)
    <3>1. ASSUME ToBuild(h) PROVE FALSE
      <4>1. PICK u \in Systems : AtStep(u, h, {"lock", "read"})
        BY <3>1 DEF ToBuild
      <4>2. u # t
        BY <1>1, <2>1, <4>1 DEF AtStep
      <4>3. AtStep(u, h, {"lock", "read"})'
        BY <1>3, <4>1, <4>2 DEF AtStep
      <4> QED BY <4>3 DEF Behind, ToBuild
    <3> QED BY <1>6, <1>f, <2>2, <2>4, <3>1 DEF Behind
  <2>6. bank[h] = Mesh(p, world[p])
    BY <1>2, <2>2, <2>3, <2>5 DEF BankInv
  <2>7. p \notin S
    <3>1. ASSUME p \in S PROVE FALSE
      <4>1. p \in Served
        BY <1>1, <2>2, <3>1
      <4> QED BY <1>1, <2>2, <2>3, <2>4, <3>1, <4>1, ChangeNoticed DEF ChangesAt
    <3> QED BY <3>1
  <2>8. world'[p] = world[p]
    BY <1>1, <2>3, <2>7 DEF ChangesAt
  <2> QED BY <1>5, <2>1, <2>2, <2>6, <2>8
<1>l. ShownInv'
  <2> SUFFICES ASSUME NEW h \in Indices \ overtaken'
               PROVE  /\ ~(InQueue("user", h)' /\ InQueue("geo", h)')
                      /\ \/ \E u \in Systems : Building(u, h)'
                         \/ \E q \in Finished : LastIs(q, h)'
                         \/ Shown(h)'
    BY DEF ShownInv
  <2>1. ~(InQueue("user", h)' /\ InQueue("geo", h)')
    BY <1>2, <1>6 DEF ShownInv, InQueue
  <2>2. CASE h = g
    BY <1>3, <2>1, <2>2 DEF Building
  <2>3. CASE h # g
    <3>1. CASE \E u \in Systems : Building(u, h)
      BY <1>1, <1>3, <2>1, <2>3, <3>1 DEF Building
    <3>2. CASE \E q \in Finished : LastIs(q, h)
      BY <1>5, <1>6, <2>1, <2>3, <3>2 DEF LastIs
    <3>3. CASE Shown(h)
      BY <1>5, <1>6, <2>1, <2>3, <3>3 DEF Shown, InQueue
    <3> QED BY <1>2, <1>6, <3>1, <3>2, <3>3 DEF ShownInv
  <2> QED BY <2>2, <2>3
<1> QED BY <1>t, <1>b, <1>c, <1>d, <1>g, <1>h, <1>i, <1>j, <1>k, <1>l
    DEF RebuildInv, EntryInv
----------------------------------------------------------------------------
(* Read and Finish.                                                        *)

(* Two systems never build the same facade.                                *)
LEMMA BuildsAlone ==
  ASSUME LockInv, NEW t \in Systems, NEW u \in Systems, t # u,
         NEW g \in Indices, Building(t, g)
  PROVE  ~Building(u, g)
BY DEF LockInv, Systems

LEMMA ReadIs ==
  ASSUME RebuildInv, NEW t \in Systems, Read(t)
  PROVE  \E g \in Indices, p \in Spots :
           /\ g = job[t].index /\ p = facade[g].pos /\ HasSpot(g)
           /\ job[t] \in Rebuilds /\ Building(t, g) /\ job[t].step = "read"
           /\ job' = [job EXCEPT ![t] = [@ EXCEPT !.step = "finish"]]
           /\ bank' = [bank EXCEPT ![g] = Mesh(p, world[p])]
           /\ missed' = missed \ {p}
<1> USE DEF RebuildInv
<1>1. StepType /\ job[t].step = "read"
  BY DEF Types, Read
<1>2. job[t] \in Rebuilds /\ job[t].index \in Indices
  BY <1>1, JobFields
<1>3. HasSpot(job[t].index)
  BY <1>1, <1>2 DEF EntryInv, AskedInv, AtStep
<1>4. facade[job[t].index].pos \in Spots
  BY <1>2, <1>3 DEF HasSpot, Types, WorldType
<1> QED BY <1>1, <1>2, <1>3, <1>4 DEF Read, Building

LEMMA ReadKeeps ==
  ASSUME RebuildInv, NEW t \in Systems, Read(t)
  PROVE  RebuildInv'
<1>1. PICK g \in Indices, p \in Spots :
        /\ g = job[t].index /\ p = facade[g].pos /\ HasSpot(g)
        /\ job[t] \in Rebuilds /\ Building(t, g) /\ job[t].step = "read"
        /\ job' = [job EXCEPT ![t] = [@ EXCEPT !.step = "finish"]]
        /\ bank' = [bank EXCEPT ![g] = Mesh(p, world[p])]
        /\ missed' = missed \ {p}
  BY ReadIs
<1>2. Types /\ EntryInv /\ BankInv /\ ShownInv
  BY DEF RebuildInv
<1>3. /\ job' \in [Systems -> {Idle} \cup Rebuilds \cup Places]
      /\ job'["Q"] \in {Idle} \cup Rebuilds
      /\ job'[t].step = "finish" /\ job'[t].index = g /\ job'[t].power = job[t].power
      /\ \A u \in Systems \ {t} : job'[u] = job[u]
  <2>1. PICK r : r = [job[t] EXCEPT !.step = "finish"]
    OBVIOUS
  <2>2. r \in Rebuilds /\ r.step = "finish" /\ r.index = g /\ r.power = job[t].power
    BY <1>1, <2>1, RebuildGoesOn
  <2>3. job' = [job EXCEPT ![t] = r]
    BY <1>1, <2>1
  <2> QED BY <1>2, <2>2, <2>3 DEF Types, StepType, Systems
<1>5. /\ bank' \in [Indices -> Meshes]
      /\ bank'[g] = Mesh(p, world[p]) /\ bank'[g].pos = p
      /\ \A h \in Indices \ {g} : bank'[h] = bank[h]
  <2>1. Mesh(p, world[p]) \in Meshes /\ Mesh(p, world[p]).pos = p
    BY <1>2 DEF Mesh, Meshes, Types, WorldType
  <2> QED BY <1>1, <1>2, <2>1 DEF Types, MeshType
<1>6. UNCHANGED <<world, stamped, lit, facade, requests, takencare, automata,
                  ready, memory, vbo, player, agenda, implic, plan, main,
                  raced, overtaken>>
  BY DEF Read, meshVars, blockVars
<1>7. Served' = Served
  BY <1>6 DEF Served
<1>8. \A u \in Systems \ {t} : ~Building(u, g)
  BY <1>1, <1>2, BuildsAlone DEF EntryInv
<1>t. Types'
  <2>1. WorldType'
    BY <1>2, <1>6, <1>7 DEF Types, WorldType
  <2>2. QueueType'
    BY <1>2, <1>6 DEF Types, QueueType
  <2>3. MeshType'
    BY <1>2, <1>5, <1>6 DEF Types, MeshType
  <2>4. StepType'
    BY <1>2, <1>3, <1>6 DEF Types, StepType
  <2> QED BY <2>1, <2>2, <2>3, <2>4 DEF Types
<1>b. AskedInv'
  <2>1. ASSUME NEW h \in Indices, Asked(h)' PROVE HasSpot(h)
    BY <1>2, <1>6, <2>1 DEF EntryInv, AskedInv, Asked
  <2>2. ASSUME NEW h \in Indices, NEW u \in Systems,
               AtStep(u, h, {"lock", "read", "finish"})'
        PROVE  HasSpot(h)
    <3>1. CASE u = t
      BY <1>1, <1>3, <2>2, <3>1 DEF AtStep
    <3>2. CASE u # t
      BY <1>2, <1>3, <2>2, <3>2 DEF EntryInv, AskedInv, AtStep
    <3> QED BY <3>1, <3>2
  <2> QED BY <1>6, <2>1, <2>2 DEF AskedInv, HasSpot
<1>c. EntriesPlaced'
  BY <1>2, <1>6, <1>7 DEF EntryInv, EntriesPlaced, HasSpot
<1>d. LockInv'
  <2>1. ASSUME NEW h \in Indices PROVE ~(Building("Q", h)' /\ Building("N", h)')
    BY <1>1, <1>2, <1>3, <1>8 DEF EntryInv, LockInv, Building, Systems
  <2>2. ASSUME NEW u \in Systems, NEW h \in Indices, AtStep(u, h, {"finish"})'
        PROVE  bank'[h].pos = facade'[h].pos
    <3>1. CASE u = t
      BY <1>1, <1>3, <1>5, <1>6, <2>2, <3>1 DEF AtStep
    <3>2. CASE u # t
      <4>1. AtStep(u, h, {"finish"}) /\ Building(u, h)
        BY <1>3, <2>2, <3>2 DEF AtStep, Building
      <4>2. h # g
        BY <1>8, <3>2, <4>1
      <4> QED BY <1>2, <1>5, <1>6, <4>1, <4>2 DEF EntryInv, LockInv
    <3> QED BY <3>1, <3>2
  <2> QED BY <2>1, <2>2 DEF LockInv
<1>e. \A h \in Indices : Moving(h) <=> Moving(h)'
  BY <1>1, <1>3 DEF Moving, Placing, AtStep, Systems
<1>f. \A h \in Indices : Placing(h) <=> Placing(h)'
  BY <1>1, <1>3 DEF Placing, AtStep, Systems
<1>g. HomeInv'
  BY <1>2, <1>6, <1>7, <1>e DEF EntryInv, HomeInv, HasSpot
<1>h. PlanInv'
  BY <1>2, <1>6, <1>7 DEF EntryInv, PlanInv, Vacant
<1>i. PlaceInv'
  <2>1. ASSUME NEW h \in Indices, Placing(h)' PROVE Placing(h) /\ job'["N"] = job["N"]
    BY <1>f, <1>1, <1>3, <2>1 DEF Placing, AtStep, Systems
  <2> QED BY <1>2, <1>6, <1>7, <2>1 DEF EntryInv, PlaceInv, Vacant
<1>j. EntriesAreTrue'
  BY <1>2, <1>6, <1>7 DEF EntryInv, EntriesAreTrue
<1>k. BankInv'
  <2> SUFFICES ASSUME NEW h \in Indices, HasSpot(h)',
                      facade'[h].pos \notin missed' \cup raced', ~Behind(h)'
               PROVE  bank'[h] = Mesh(facade'[h].pos, world'[facade'[h].pos])
    BY DEF BankInv
  <2>1. CASE h = g
    BY <1>1, <1>5, <1>6, <2>1
  <2>2. CASE h # g
    <3>1. facade[h].pos # p /\ HasSpot(h)
      BY <1>1, <1>2, <1>6, <2>2 DEF EntryInv, EntriesAreTrue, HasSpot
    <3>2. facade[h].pos \notin missed \cup raced
      BY <1>1, <1>6, <3>1
    <3>3. ~Behind(h)
      <4>1. ASSUME ToBuild(h) PROVE FALSE
        <5>1. PICK u \in Systems : AtStep(u, h, {"lock", "read"})
          BY <4>1 DEF ToBuild
        <5>2. u # t
          BY <1>1, <2>2, <5>1 DEF AtStep
        <5>3. AtStep(u, h, {"lock", "read"})'
          BY <1>3, <5>1, <5>2 DEF AtStep
        <5> QED BY <5>3 DEF Behind, ToBuild
      <4> QED BY <1>6, <1>f, <4>1 DEF Behind, Asked
    <3>4. bank[h] = Mesh(facade[h].pos, world[facade[h].pos])
      BY <1>2, <3>1, <3>2, <3>3 DEF BankInv
    <3> QED BY <1>5, <1>6, <2>2, <3>4
  <2> QED BY <2>1, <2>2
<1>l. ShownInv'
  <2> SUFFICES ASSUME NEW h \in Indices \ overtaken'
               PROVE  /\ ~(InQueue("user", h)' /\ InQueue("geo", h)')
                      /\ \/ \E u \in Systems : Building(u, h)'
                         \/ \E q \in Finished : LastIs(q, h)'
                         \/ Shown(h)'
    BY DEF ShownInv
  <2>1. ~(InQueue("user", h)' /\ InQueue("geo", h)')
    BY <1>2, <1>6 DEF ShownInv, InQueue
  <2>2. CASE h = g
    BY <1>3, <2>1, <2>2 DEF Building
  <2>3. CASE h # g
    <3>1. CASE \E u \in Systems : Building(u, h)
      BY <1>1, <1>3, <2>1, <2>3, <3>1 DEF Building
    <3>2. CASE \E q \in Finished : LastIs(q, h)
      BY <1>5, <1>6, <2>1, <2>3, <3>2 DEF LastIs
    <3>3. CASE Shown(h)
      BY <1>5, <1>6, <2>1, <2>3, <3>3 DEF Shown, InQueue
    <3> QED BY <1>2, <1>6, <3>1, <3>2, <3>3 DEF ShownInv
  <2> QED BY <2>2, <2>3
<1> QED BY <1>t, <1>b, <1>c, <1>d, <1>g, <1>h, <1>i, <1>j, <1>k, <1>l
    DEF RebuildInv, EntryInv
(* A sequence with one more element.                                       *)
LEMMA AppendedAt ==
  ASSUME NEW S, NEW s \in Seq(S), NEW e \in S
  PROVE  /\ Append(s, e) \in Seq(S)
         /\ Len(s) \in Nat /\ DOMAIN s = 1..Len(s)
         /\ DOMAIN Append(s, e) = 1..(Len(s) + 1)
         /\ Append(s, e)[Len(s) + 1] = e
         /\ \A i \in 1..Len(s) : Append(s, e)[i] = s[i]
BY AppendProperties, LenProperties

LEMMA FinishIs ==
  ASSUME RebuildInv, NEW t \in Systems, Finish(t)
  PROVE  \E g \in Indices, p \in Spots, q \in Finished :
           /\ g = job[t].index /\ p = facade[g].pos /\ p = bank[g].pos
           /\ job[t] \in Rebuilds /\ Building(t, g) /\ job[t].step = "finish"
           /\ job' = [job EXCEPT ![t] = Idle]
           /\ ready' = [ready EXCEPT ![q] =
                          Append(@, [index |-> g, mesh |-> bank[g]])]
           /\ overtaken' = IF InQueue(IF q = "user" THEN "geo" ELSE "user", g)
                             THEN overtaken \cup {g}
                           ELSE IF InQueue(q, g) THEN overtaken ELSE overtaken \ {g}
           /\ takencare' = [x \in Served \cup {p} |->
                             IF x \in Served THEN takencare[x] ELSE g]
           /\ raced' = IF Placing(g) THEN raced \cup {p} ELSE raced
<1> USE DEF RebuildInv
<1>1. StepType /\ job[t].step = "finish"
  BY DEF Types, Finish
<1>2. job[t] \in Rebuilds /\ job[t].index \in Indices
  BY <1>1, JobFields
<1>3. HasSpot(job[t].index)
  BY <1>1, <1>2 DEF EntryInv, AskedInv, AtStep
<1>4. facade[job[t].index].pos \in Spots
  BY <1>2, <1>3 DEF HasSpot, Types, WorldType
<1>5. bank[job[t].index].pos = facade[job[t].index].pos
  BY <1>1, <1>2 DEF EntryInv, LockInv, AtStep
<1>6. PICK q \in Finished : q = IF job[t].power THEN "user" ELSE "geo"
  BY DEF Finished
<1>7. ready' = [ready EXCEPT ![q] =
                  Append(@, [index |-> job[t].index, mesh |-> bank[job[t].index]])]
  BY <1>6 DEF Finish
<1>8. overtaken' = IF InQueue(IF q = "user" THEN "geo" ELSE "user", job[t].index)
                     THEN overtaken \cup {job[t].index}
                   ELSE IF InQueue(q, job[t].index) THEN overtaken
                   ELSE overtaken \ {job[t].index}
  BY <1>6 DEF Finish, InQueue
<1>9. raced' = IF Placing(job[t].index)
               THEN raced \cup {bank[job[t].index].pos} ELSE raced
  BY DEF Finish, Placing, AtStep
<1>10. takencare' = [x \in Served \cup {bank[job[t].index].pos} |->
                       IF x \in Served THEN takencare[x] ELSE job[t].index]
  BY DEF Finish
<1>11. job' = [job EXCEPT ![t] = Idle] /\ Building(t, job[t].index)
  BY <1>1 DEF Finish, Building
<1> QED BY <1>1, <1>2, <1>4, <1>5, <1>7, <1>8, <1>9, <1>10, <1>11

LEMMA FinishKeeps ==
  ASSUME RebuildInv, NEW t \in Systems, Finish(t)
  PROVE  RebuildInv'
<1>1. PICK g \in Indices, p \in Spots, q \in Finished :
        /\ g = job[t].index /\ p = facade[g].pos /\ p = bank[g].pos
        /\ job[t] \in Rebuilds /\ Building(t, g) /\ job[t].step = "finish"
        /\ job' = [job EXCEPT ![t] = Idle]
        /\ ready' = [ready EXCEPT ![q] =
                       Append(@, [index |-> g, mesh |-> bank[g]])]
        /\ overtaken' = IF InQueue(IF q = "user" THEN "geo" ELSE "user", g)
                          THEN overtaken \cup {g}
                        ELSE IF InQueue(q, g) THEN overtaken ELSE overtaken \ {g}
        /\ takencare' = [x \in Served \cup {p} |->
                             IF x \in Served THEN takencare[x] ELSE g]
        /\ raced' = IF Placing(g) THEN raced \cup {p} ELSE raced
  BY FinishIs
<1>2. Types /\ EntryInv /\ BankInv /\ ShownInv
  BY DEF RebuildInv
<1>3. /\ job' \in [Systems -> {Idle} \cup Rebuilds \cup Places]
      /\ job'["Q"] \in {Idle} \cup Rebuilds
      /\ job'[t].step = "idle"
      /\ \A u \in Systems \ {t} : job'[u] = job[u]
  BY <1>1, <1>2 DEF Types, StepType, Systems, Idle
<1>4. UNCHANGED <<world, stamped, lit, facade, requests, automata, bank,
                  memory, vbo, player, agenda, implic, plan, main, missed>>
  BY DEF Finish, meshVars, blockVars
<1>5. /\ Served' = Served \cup {p}
      /\ \A p2 \in Served : takencare'[p2] = takencare[p2]
      /\ p \notin Served => takencare'[p] = g
  BY <1>1 DEF Served
<1>6. \A u \in Systems \ {t} : ~Building(u, g)
  BY <1>1, <1>2, BuildsAlone DEF EntryInv
<1>7. p # Nowhere
  BY ChunkRebuildAssumption DEF ChunkRebuildAssumption
<1>8. PICK e : e = [index |-> g, mesh |-> bank[g]]
  OBVIOUS
<1>9. e \in Readies /\ e.index = g /\ e.mesh = bank[g]
  BY <1>2, <1>8 DEF Readies, Types, MeshType
<1>10. /\ ready[q] \in Seq(Readies) /\ ready'[q] = Append(ready[q], e)
       /\ \A r \in Finished \ {q} : ready'[r] = ready[r]
       /\ ready' \in [Finished -> Seq(Readies)]
  <2>1. ready \in [Finished -> Seq(Readies)]
    BY <1>2 DEF Types, QueueType
  <2>2. Append(ready[q], e) \in Seq(Readies)
    BY <1>9, <2>1, AppendedAt
  <2> QED BY <1>1, <1>8, <2>1, <2>2
<1>11. /\ Len(ready[q]) \in Nat /\ DOMAIN ready[q] = 1..Len(ready[q])
       /\ DOMAIN ready'[q] = 1..(Len(ready[q]) + 1)
       /\ ready'[q][Len(ready[q]) + 1] = e
       /\ \A i \in 1..Len(ready[q]) : ready'[q][i] = ready[q][i]
  BY <1>9, <1>10, AppendedAt
<1>t. Types'
  <2>1. WorldType'
    <3>1. takencare' \in [Served' -> Indices]
      BY <1>1, <1>2, <1>5 DEF Types, WorldType
    <3> QED BY <1>2, <1>4, <1>5, <3>1 DEF Types, WorldType
  <2>2. QueueType'
    BY <1>2, <1>4, <1>10 DEF Types, QueueType
  <2>3. MeshType'
    BY <1>2, <1>4 DEF Types, MeshType
  <2>4. StepType'
    BY <1>2, <1>3, <1>4 DEF Types, StepType
  <2> QED BY <2>1, <2>2, <2>3, <2>4 DEF Types
<1>b. AskedInv'
  <2>1. ASSUME NEW h \in Indices, Asked(h)' PROVE HasSpot(h)
    BY <1>2, <1>4, <2>1 DEF EntryInv, AskedInv, Asked
  <2>2. ASSUME NEW h \in Indices, NEW u \in Systems,
               AtStep(u, h, {"lock", "read", "finish"})'
        PROVE  HasSpot(h)
    BY <1>2, <1>3, <2>2 DEF EntryInv, AskedInv, AtStep
  <2> QED BY <1>4, <2>1, <2>2 DEF AskedInv, HasSpot
<1>c. EntriesPlaced'
  BY <1>1, <1>2, <1>4, <1>5, <1>7 DEF EntryInv, EntriesPlaced, HasSpot
<1>d. LockInv'
  <2>1. ASSUME NEW h \in Indices PROVE ~(Building("Q", h)' /\ Building("N", h)')
    BY <1>2, <1>3 DEF EntryInv, LockInv, Building, Systems
  <2>2. ASSUME NEW u \in Systems, NEW h \in Indices, AtStep(u, h, {"finish"})'
        PROVE  bank'[h].pos = facade'[h].pos
    BY <1>2, <1>3, <1>4, <2>2 DEF EntryInv, LockInv, AtStep
  <2> QED BY <2>1, <2>2 DEF LockInv
<1>f. \A h \in Indices : Placing(h) <=> Placing(h)'
  BY <1>1, <1>3 DEF Placing, AtStep, Systems
<1>e. ASSUME NEW h \in Indices, Moving(h), h # g PROVE Moving(h)'
  BY <1>1, <1>3, <1>e, <1>f DEF Moving, AtStep, Systems
<1>g. HomeInv'
  <2> SUFFICES ASSUME NEW h \in Indices, HasSpot(h)'
               PROVE  facade'[h].pos \in Served' \/ Moving(h)'
    BY DEF HomeInv
  <2>1. CASE h = g
    BY <1>1, <1>4, <1>5, <2>1
  <2>2. CASE h # g
    BY <1>2, <1>4, <1>5, <1>e, <2>2 DEF EntryInv, HomeInv, HasSpot
  <2> QED BY <2>1, <2>2
<1>v. ASSUME NEW p2, Vacant(p2) PROVE Vacant(p2)'
  BY <1>1, <1>4, <1>5, <1>v DEF Vacant
<1>h. PlanInv'
  BY <1>2, <1>4, <1>v DEF EntryInv, PlanInv
<1>i. PlaceInv'
  <2> SUFFICES ASSUME NEW h \in Indices, Placing(h)'
               PROVE  /\ Vacant(job["N"].spot)' /\ job'["N"] = job["N"]
                      /\ \A i \in DOMAIN plan : plan[i].spot # job["N"].spot
                      /\ \A p2 \in Served' : takencare'[p2] = h => p2 \in raced'
    BY <1>4 DEF PlaceInv
  <2>1. Placing(h) /\ job'["N"] = job["N"]
    BY <1>f, <1>1, <1>3 DEF Placing, AtStep, Systems
  <2>2. /\ Vacant(job["N"].spot)
        /\ \A i \in DOMAIN plan : plan[i].spot # job["N"].spot
        /\ \A p2 \in Served : takencare[p2] = h => p2 \in raced
    BY <1>2, <2>1 DEF EntryInv, PlaceInv
  <2>p. PICK s : s = job["N"].spot
    OBVIOUS
  <2>3. Vacant(s)'
    BY <1>v, <2>2, <2>p
  <2>4. ASSUME NEW p2 \in Served', takencare'[p2] = h PROVE p2 \in raced'
    <3>1. CASE p2 \in Served
      BY <1>1, <1>5, <2>2, <2>4, <3>1
    <3>2. CASE p2 \notin Served
      <4>1. p2 = p /\ h = g
        BY <1>5, <2>4, <3>2
      <4> QED BY <1>1, <2>1, <4>1
    <3> QED BY <3>1, <3>2
  <2>5. Vacant(job["N"].spot)'
    BY <2>1, <2>3, <2>p
  <2> QED BY <2>1, <2>2, <2>4, <2>5
<1>j. EntriesAreTrue'
  BY <1>1, <1>2, <1>4, <1>5 DEF EntryInv, EntriesAreTrue, Types, WorldType
<1>k. BankInv'
  <2> SUFFICES ASSUME NEW h \in Indices, HasSpot(h)',
                      facade'[h].pos \notin missed' \cup raced', ~Behind(h)'
               PROVE  bank'[h] = Mesh(facade'[h].pos, world'[facade'[h].pos])
    BY DEF BankInv
  <2>1. facade[h].pos \notin missed \cup raced /\ HasSpot(h)
    BY <1>1, <1>4 DEF HasSpot
  <2>2. ~Behind(h)
    <3>1. ASSUME ToBuild(h) PROVE FALSE
      <4>1. PICK u \in Systems : AtStep(u, h, {"lock", "read"})
        BY <3>1 DEF ToBuild
      <4>2. AtStep(u, h, {"lock", "read"})'
        BY <1>1, <1>3, <4>1 DEF AtStep
      <4> QED BY <4>2 DEF Behind, ToBuild
    <3> QED BY <1>4, <1>f, <3>1 DEF Behind, Asked
  <2> QED BY <1>2, <1>4, <2>1, <2>2 DEF BankInv
<1>l. ShownInv'
  <2> SUFFICES ASSUME NEW h \in Indices \ overtaken'
               PROVE  /\ ~(InQueue("user", h)' /\ InQueue("geo", h)')
                      /\ \/ \E u \in Systems : Building(u, h)'
                         \/ \E r \in Finished : LastIs(r, h)'
                         \/ Shown(h)'
    BY DEF ShownInv
  <2>1. CASE h = g
    <3>1. ~InQueue(IF q = "user" THEN "geo" ELSE "user", g)
      BY <1>1, <2>1
    <3>2. \A r \in Finished \ {q} : ~InQueue(r, g)
      BY <3>1 DEF Finished
    <3>3. \A r \in Finished \ {q} : ~InQueue(r, g)'
      BY <1>10, <3>2 DEF InQueue
    <3>4. ~(InQueue("user", g)' /\ InQueue("geo", g)')
      BY <3>3 DEF Finished
    <3>5. LastIs(q, g)'
      BY <1>4, <1>9, <1>11 DEF LastIs
    <3> QED BY <2>1, <3>4, <3>5
  <2>2. CASE h # g
    <3>1. h \notin overtaken
      BY <1>1, <2>2
    <3>2. \A r \in Finished : InQueue(r, h)' <=> InQueue(r, h)
      <4>1. InQueue(q, h)' <=> InQueue(q, h)
        BY <1>9, <1>11, <2>2, SMTT(60) DEF InQueue
      <4> QED BY <1>10, <4>1 DEF InQueue
    <3>3. ~(InQueue("user", h)' /\ InQueue("geo", h)')
      BY <1>2, <3>1, <3>2 DEF ShownInv, Finished
    <3>4. CASE \E u \in Systems : Building(u, h)
      BY <1>1, <1>3, <2>2, <3>3, <3>4 DEF Building
    <3>5. CASE \E r \in Finished : LastIs(r, h)
      <4>1. PICK r \in Finished : LastIs(r, h)
        BY <3>5
      <4>2. CASE r = q
        <5>1. PICK i \in 1..Len(ready[q]) :
                /\ ready[q][i].index = h /\ ready[q][i].mesh = bank[h]
                /\ \A j \in 1..Len(ready[q]) : j > i => ready[q][j].index # h
          BY <1>11, <4>1, <4>2 DEF LastIs
        <5>2. i \in DOMAIN ready'[q] /\ ready'[q][i] = ready[q][i]
          BY <1>11, <5>1
        <5>3. \A j \in DOMAIN ready'[q] : j > i => ready'[q][j].index # h
          BY <1>9, <1>11, <2>2, <5>1
        <5>4. LastIs(q, h)'
          BY <1>4, <5>1, <5>2, <5>3 DEF LastIs
        <5> QED BY <3>3, <5>4
      <4>3. CASE r # q
        <5>1. LastIs(r, h)'
          BY <1>4, <1>10, <4>1, <4>3 DEF LastIs
        <5> QED BY <3>3, <5>1
      <4> QED BY <4>2, <4>3
    <3>6. CASE Shown(h)
      <4>1. Shown(h)'
        BY <1>4, <3>2, <3>6 DEF Shown
      <4> QED BY <3>3, <4>1
    <3> QED BY <1>2, <3>1, <3>4, <3>5, <3>6 DEF ShownInv
  <2> QED BY <2>1, <2>2
<1> QED BY <1>t, <1>b, <1>c, <1>d, <1>g, <1>h, <1>i, <1>j, <1>k, <1>l
    DEF RebuildInv, EntryInv
----------------------------------------------------------------------------
(* A system takes a request.                                               *)

Takes(t, q, light) ==
  /\ job[t] = Idle /\ requests[q] # <<>>
  /\ requests' = [requests EXCEPT ![q] = Tail(@)]
  /\ job' = [job EXCEPT ![t] = Rebuild(Head(requests[q]), TRUE, light)]
  /\ UNCHANGED <<blockVars, facade, takencare, automata, bank, ready, meshVars,
                 player, implic, main, missed, raced, overtaken>>
  /\ FewerVisits /\ agenda' \in Seq(Kinds) /\ agenda' # <<>>

LEMMA TakesKeeps ==
  ASSUME RebuildInv, NEW t \in Systems, NEW q \in Queues, NEW light \in BOOLEAN,
         Takes(t, q, light)
  PROVE  RebuildInv'
<1>2. Types /\ EntryInv /\ BankInv /\ ShownInv
  BY DEF RebuildInv
<1>1. PICK g : g = Head(requests[q])
  OBVIOUS
<1>3. /\ g \in Indices /\ requests' \in [Queues -> Seq(Indices)]
      /\ \A r \in Queues : ToSet(requests'[r]) \subseteq ToSet(requests[r])
      /\ Asked(g)
      /\ \A r \in Queues : \A h \in ToSet(requests[r]) :
           h = g \/ h \in ToSet(requests'[r])
  <2>1. requests \in [Queues -> Seq(Indices)] /\ requests[q] # <<>>
    BY <1>2 DEF Types, QueueType, Takes
  <2>2. PICK new : new = [requests EXCEPT ![q] = Tail(@)]
    OBVIOUS
  <2>3. requests' = new
    BY <2>2 DEF Takes
  <2>4. g \in Indices /\ new \in [Queues -> Seq(Indices)] /\ g \in ToSet(requests[q])
    BY <1>1, <2>1, <2>2, AskedIs
  <2>5. \A r \in Queues : ToSet(new[r]) \subseteq ToSet(requests[r])
    BY <2>1, <2>2, AskedIs
  <2>6. \A r \in Queues : \A h \in ToSet(requests[r]) : h = g \/ h \in ToSet(new[r])
    BY <1>1, <2>1, <2>2, AskedIs
  <2> QED BY <2>3, <2>4, <2>5, <2>6 DEF Asked
<1>4. /\ job' \in [Systems -> {Idle} \cup Rebuilds \cup Places]
      /\ job'["Q"] \in {Idle} \cup Rebuilds
      /\ job'[t].step = "lock" /\ job'[t].index = g /\ job'[t].power = TRUE
      /\ \A u \in Systems \ {t} : job'[u] = job[u]
  <2>1. PICK r : r = Rebuild(g, TRUE, light)
    OBVIOUS
  <2>2. r \in Rebuilds /\ r.step = "lock" /\ r.index = g /\ r.power = TRUE
    BY <1>3, <2>1, RebuildTyped
  <2>3. job' = [job EXCEPT ![t] = r]
    BY <1>1, <2>1 DEF Takes
  <2> QED BY <1>2, <2>2, <2>3 DEF Types, StepType, Systems
<1>5. job[t].step = "idle"
  BY DEF Takes, Idle
<1>6. /\ UNCHANGED <<world, stamped, lit, facade, takencare, automata, bank,
                     ready, memory, vbo, player, implic, main, missed, raced,
                     overtaken>>
      /\ FewerVisits /\ agenda' \in Seq(Kinds) /\ agenda' # <<>>
  BY DEF Takes, meshVars, blockVars
<1>7. Served' = Served
  BY <1>6 DEF Served
<1>t. Types'
  <2>1. WorldType'
    BY <1>2, <1>6, <1>7 DEF Types, WorldType
  <2>2. QueueType'
    BY <1>2, <1>3, <1>6 DEF Types, QueueType, FewerVisits
  <2>3. MeshType'
    BY <1>2, <1>6 DEF Types, MeshType
  <2>4. StepType'
    BY <1>2, <1>4, <1>6 DEF Types, StepType
  <2> QED BY <2>1, <2>2, <2>3, <2>4 DEF Types
<1>b. AskedInv'
  <2>1. ASSUME NEW h \in Indices, Asked(h)' PROVE HasSpot(h)
    BY <1>2, <1>3, <2>1 DEF EntryInv, AskedInv, Asked
  <2>2. ASSUME NEW h \in Indices, NEW u \in Systems,
               AtStep(u, h, {"lock", "read", "finish"})'
        PROVE  HasSpot(h)
    <3>1. CASE u = t
      BY <1>2, <1>3, <1>4, <2>2, <3>1 DEF EntryInv, AskedInv, AtStep
    <3>2. CASE u # t
      BY <1>2, <1>4, <2>2, <3>2 DEF EntryInv, AskedInv, AtStep
    <3> QED BY <3>1, <3>2
  <2> QED BY <1>6, <2>1, <2>2 DEF AskedInv, HasSpot
<1>c. EntriesPlaced'
  BY <1>2, <1>6, <1>7 DEF EntryInv, EntriesPlaced, HasSpot
<1>d. LockInv'
  <2>1. ASSUME NEW h \in Indices PROVE ~(Building("Q", h)' /\ Building("N", h)')
    BY <1>2, <1>4 DEF EntryInv, LockInv, Building, Systems
  <2>2. ASSUME NEW u \in Systems, NEW h \in Indices, AtStep(u, h, {"finish"})'
        PROVE  bank'[h].pos = facade'[h].pos
    BY <1>2, <1>4, <1>6, <2>2 DEF EntryInv, LockInv, AtStep
  <2> QED BY <2>1, <2>2 DEF LockInv
<1>f. ASSUME NEW h \in Indices
      PROVE  (Placing(h) <=> Placing(h)') /\ (Moving(h) <=> Moving(h)')
  <2>1. CASE t = "N"
    BY <1>4, <1>5, <2>1 DEF Moving, Placing, AtStep
  <2>2. CASE t = "Q"
    BY <1>4, <2>2 DEF Moving, Placing, AtStep, Systems
  <2> QED BY <2>1, <2>2 DEF Systems
<1>g. HomeInv'
  BY <1>2, <1>6, <1>7, <1>f DEF EntryInv, HomeInv, HasSpot
<1>h. PlanInv'
  BY <1>2, <1>6, <1>7 DEF EntryInv, PlanInv, Vacant, FewerVisits
<1>i. PlaceInv'
  <2>1. ASSUME NEW h \in Indices, Placing(h)' PROVE Placing(h) /\ job'["N"] = job["N"]
    <3>1. Placing(h)
      BY <1>f, <2>1
    <3>2. t # "N"
      BY <1>5, <3>1 DEF Placing, AtStep
    <3> QED BY <1>4, <3>1, <3>2 DEF Systems
  <2> QED BY <1>2, <1>6, <1>7, <2>1 DEF EntryInv, PlaceInv, Vacant, FewerVisits
<1>j. EntriesAreTrue'
  BY <1>2, <1>6, <1>7 DEF EntryInv, EntriesAreTrue
<1>k. BankInv'
  <2> SUFFICES ASSUME NEW h \in Indices, HasSpot(h)',
                      facade'[h].pos \notin missed' \cup raced', ~Behind(h)'
               PROVE  bank'[h] = Mesh(facade'[h].pos, world'[facade'[h].pos])
    BY DEF BankInv
  <2>1. h # g
    BY <1>4 DEF Behind, ToBuild, AtStep
  <2>2. ~ToBuild(h)
    <3>1. ASSUME ToBuild(h) PROVE FALSE
      <4>1. PICK u \in Systems : AtStep(u, h, {"lock", "read"})
        BY <3>1 DEF ToBuild
      <4>2. u # t
        BY <1>5, <4>1 DEF AtStep
      <4>3. AtStep(u, h, {"lock", "read"})'
        BY <1>4, <4>1, <4>2 DEF AtStep
      <4> QED BY <4>3 DEF Behind, ToBuild
    <3> QED BY <3>1
  <2>3. ~Asked(h)
    BY <1>3, <2>1 DEF Behind, Asked
  <2>4. ~Behind(h)
    BY <1>6, <1>f, <2>2, <2>3 DEF Behind
  <2> QED BY <1>2, <1>6, <2>4 DEF BankInv, HasSpot
<1>l. ShownInv'
  <2>1. ASSUME NEW u \in Systems, NEW h \in Indices, Building(u, h)
        PROVE  Building(u, h)'
    BY <1>4, <1>5, <2>1 DEF Building
  <2> QED BY <1>2, <1>6, <2>1, ShownStays DEF meshVars
<1> QED BY <1>t, <1>b, <1>c, <1>d, <1>g, <1>h, <1>i, <1>j, <1>k, <1>l
    DEF RebuildInv, EntryInv
LEMMA SamePlan == Types /\ UNCHANGED plan => FewerVisits
BY DEF Types, QueueType, FewerVisits

(* What is left of an update.                                              *)
LEMMA AgendaTyped ==
  ASSUME Types
  PROVE  /\ Head(agenda) \in Kinds
         /\ NextPop \in Seq(Kinds) /\ NextPop # <<>>
         /\ Head(agenda) # "automata" =>
              /\ Pops[Head(agenda)] \in Queues
              /\ After[Head(agenda)] \o Tail(agenda) \in Seq(Kinds)
<1>1. agenda \in Seq(Kinds) /\ agenda # <<>>
  BY DEF Types, StepType
<1>2. /\ Head(agenda) \in Kinds /\ Tail(agenda) \in Seq(Kinds)
      /\ Len(agenda) \in Nat \ {0} /\ Len(Tail(agenda)) = Len(agenda) - 1
  BY <1>1, HeadTailProperties, LenProperties, EmptySeq
<1>3. Update \in Seq(Kinds) /\ Update # <<>>
  BY DEF Update, Kinds
<1>4. NextPop \in Seq(Kinds) /\ NextPop # <<>>
  <2>1. CASE Len(agenda) = 1
    BY <1>3, <2>1 DEF NextPop
  <2>2. CASE Len(agenda) # 1
    <3>1. Len(Tail(agenda)) # 0
      BY <1>2, <2>2
    <3>2. Tail(agenda) # <<>>
      BY <1>2, <3>1, EmptySeq
    <3> QED BY <1>2, <2>2, <3>2 DEF NextPop
  <2> QED BY <2>1, <2>2
<1>5. ASSUME NEW k \in Kinds, k # "automata"
      PROVE  Pops[k] \in Queues /\ After[k] \in Seq(Kinds)
  <2>1. Pops[k] \in Queues
    BY <1>5 DEF Pops, Kinds, Queues
  <2>2. /\ After["lights"] = <<"automata", "lights">> /\ After["light"] = <<"automata">>
        /\ After["users"] = <<"light", "users">> /\ After["user"] = <<>>
        /\ After["gens"] = <<"user", "light", "gens">>
    BY DEF After
  <2>3. /\ <<"automata", "lights">> \in Seq(Kinds) /\ <<"automata">> \in Seq(Kinds)
        /\ <<"light", "users">> \in Seq(Kinds) /\ <<>> \in Seq(Kinds)
        /\ <<"user", "light", "gens">> \in Seq(Kinds)
    BY DEF Kinds
  <2>4. k \in {"lights", "light", "users", "user", "gens"}
    BY <1>5 DEF Kinds
  <2> QED BY <2>1, <2>2, <2>3, <2>4
<1>6. ASSUME Head(agenda) # "automata"
      PROVE  After[Head(agenda)] \o Tail(agenda) \in Seq(Kinds)
  BY <1>2, <1>5, <1>6, ConcatProperties
<1> QED BY <1>2, <1>4, <1>5, <1>6

(* A step on variables that no invariant relates: only types matter.       *)
LEMMA NothingElse ==
  ASSUME RebuildInv, Types', FewerVisits,
         UNCHANGED <<world, facade, takencare, requests, bank, ready, meshVars,
                     job, implic, main, missed, raced, overtaken>>
  PROVE  RebuildInv'
<1>1. EntryInv'
  <2>1. SamePlaces
    BY DEF SamePlaces
  <2>2. \A g \in Indices : Asked(g)' => Asked(g)
    BY DEF Asked
  <2> QED BY <2>1, <2>2, EntriesStay
<1>2. BankInv'
  BY DEF RebuildInv, BankInv, HasSpot, Behind, Asked, ToBuild, Placing, AtStep
<1>3. ShownInv'
  BY ShownStays DEF RebuildInv, Building
<1> QED BY <1>1, <1>2, <1>3 DEF RebuildInv

LEMMA PopKeeps == ASSUME RebuildInv, Pop PROVE RebuildInv'
<1>1. Types /\ job["Q"] = Idle /\ Head(agenda) # "automata"
  BY DEF RebuildInv, Pop, QReady
<1>2. PICK q \in Queues : q = Pops[Head(agenda)]
  BY <1>1, AgendaTyped
<1>3. FewerVisits
  BY <1>1, SamePlan DEF Pop
<1>4. CASE requests[q] = <<>>
  <2>1. agenda' = NextPop /\ UNCHANGED <<requests, job>>
    BY <1>2, <1>4 DEF Pop
  <2>2. Types'
    <3>1. WorldType' /\ QueueType'
      BY <1>1, <2>1 DEF Pop, Types, WorldType, QueueType, Served, blockVars
    <3>2. MeshType'
      BY <1>1 DEF Pop, Types, MeshType, meshVars
    <3>3. StepType'
      BY <1>1, <2>1, AgendaTyped DEF Pop, Types, StepType
    <3> QED BY <3>1, <3>2, <3>3 DEF Types
  <2> QED BY <1>3, <2>1, <2>2, NothingElse DEF Pop, blockVars
<1>5. CASE requests[q] # <<>>
  <2>1. PICK light \in BOOLEAN : light = (q = "light")
    OBVIOUS
  <2>2. /\ requests' = [requests EXCEPT ![q] = Tail(@)]
        /\ job' = [job EXCEPT !["Q"] = Rebuild(Head(requests[q]), TRUE, light)]
    BY <1>2, <1>5, <2>1 DEF Pop
  <2>3. agenda' \in Seq(Kinds) /\ agenda' # <<>>
    <3>1. Update \in Seq(Kinds) /\ Update # <<>>
      BY DEF Update, Kinds
    <3> QED BY <1>1, <1>2, <1>5, <3>1, AgendaTyped DEF Pop
  <2>4. Takes("Q", q, light)
    BY <1>1, <1>3, <1>5, <2>2, <2>3 DEF Takes, Pop
  <2> QED BY <2>4, TakesKeeps DEF Systems
<1> QED BY <1>4, <1>5

(* The three ways in which N serves a request before it goes on.           *)
LEMMA NTakeKeeps ==
  ASSUME RebuildInv, NReady, NEW q \in Queues, NEW rest, NTake(q, rest),
         FewerVisits
  PROVE  RebuildInv'
<1>1. PICK light \in BOOLEAN : light = (q = "light")
  OBVIOUS
<1>2. job' = [job EXCEPT !["N"] = Rebuild(Head(requests[q]), TRUE, light)]
  BY <1>1 DEF NTake
<1>3. agenda' \in Seq(Kinds) /\ agenda' # <<>>
  BY DEF NTake, RebuildInv, Types, StepType
<1>4. Takes("N", q, light)
  BY <1>2, <1>3 DEF Takes, NTake, NReady
<1> QED BY <1>4, TakesKeeps DEF Systems

LEMMA NoVisits == plan' = <<>> => FewerVisits
BY DEF FewerVisits

LEMMA YieldsKeep ==
  ASSUME RebuildInv, YieldToUser \/ YieldToLight \/ GenFirst
  PROVE  RebuildInv'
<1>1. CASE YieldToUser
  <2>1. NReady /\ NTake("user", <<>>) /\ plan' = <<>>
    BY <1>1 DEF YieldToUser, NTake
  <2> QED BY <2>1, NoVisits, NTakeKeeps DEF Queues
<1>2. CASE YieldToLight
  <2>1. NReady /\ NTake("light", <<>>) /\ plan' = <<>>
    BY <1>2 DEF YieldToLight, NTake
  <2> QED BY <2>1, NoVisits, NTakeKeeps DEF Queues
<1>3. CASE GenFirst
  <2>1. /\ NReady /\ plan # <<>>
        /\ NTake("gen", [plan EXCEPT ![1].gen = FALSE])
        /\ plan' = [plan EXCEPT ![1].gen = FALSE]
    BY <1>3 DEF GenFirst, NTake
  <2>2. plan \in Seq(Visits) /\ 1 \in DOMAIN plan
    <3>1. plan \in Seq(Visits)
      BY DEF RebuildInv, Types, QueueType
    <3>2. Len(plan) \in Nat \ {0} /\ DOMAIN plan = 1..Len(plan)
      BY <2>1, <3>1, LenProperties, EmptySeq
    <3> QED BY <3>1, <3>2
  <2>3. PICK v : v = [plan[1] EXCEPT !.gen = FALSE]
    OBVIOUS
  <2>4. plan[1] \in Visits
    BY <2>2, ElementOfSeq
  <2>5. v \in Visits /\ v.spot = plan[1].spot
    BY <2>3, <2>4 DEF Visits
  <2>6. plan' = [plan EXCEPT ![1] = v]
    BY <2>1, <2>3
  <2>7. plan' \in Seq(Visits)
    BY <2>2, <2>5, <2>6
  <2>8. FewerVisits
    BY <2>2, <2>5, <2>6, <2>7 DEF FewerVisits
  <2> QED BY <2>1, <2>8, NTakeKeeps DEF Queues
<1> QED BY <1>1, <1>2, <1>3

LEMMA YieldToAutomataKeeps ==
  ASSUME RebuildInv, YieldToAutomata
  PROVE  RebuildInv'
<1>1. plan' = <<>> /\ automata # <<>>
      /\ automata' = Append(Tail(automata), Head(automata))
  BY DEF YieldToAutomata
<1>2. automata' \in Seq(Spots)
  <2>1. automata \in Seq(Spots)
    BY DEF RebuildInv, Types, QueueType
  <2>2. Head(automata) \in Spots /\ Tail(automata) \in Seq(Spots)
    BY <1>1, <2>1, ToSetTail
  <2> QED BY <1>1, <2>2, AppendProperties
<1>3. FewerVisits
  BY <1>1, NoVisits
<1>4. Types'
  <2>1. WorldType' /\ QueueType'
    BY <1>2, <1>3
    DEF YieldToAutomata, RebuildInv, Types, WorldType, QueueType, Served, blockVars,
        FewerVisits
  <2>2. MeshType' /\ StepType'
    BY DEF YieldToAutomata, RebuildInv, Types, MeshType, StepType, meshVars
  <2> QED BY <2>1, <2>2 DEF Types
<1> QED BY <1>3, <1>4, NothingElse DEF YieldToAutomata, blockVars

LEMMA WalkKeeps == ASSUME RebuildInv, Walk PROVE RebuildInv'
<1>1. FewerVisits
  BY SamePlan DEF Walk, RebuildInv
<1>2. Types'
  <2>1. player' \in Spots
    BY DEF Walk, Near
  <2>2. WorldType' /\ QueueType'
    BY <2>1 DEF Walk, RebuildInv, Types, WorldType, QueueType, Served, blockVars
  <2>3. MeshType' /\ StepType'
    BY DEF Walk, RebuildInv, Types, MeshType, StepType, meshVars
  <2> QED BY <2>2, <2>3 DEF Types
<1> QED BY <1>1, <1>2, NothingElse DEF Walk, blockVars

LEMMA AutomatonKeeps == ASSUME RebuildInv, Automaton PROVE RebuildInv'
<1>1. FewerVisits
  BY SamePlan DEF Automaton, RebuildInv
<1>2. Types'
  <2>1. PICK p \in Served : automata' = Append(automata, p)
    BY DEF Automaton
  <2>2. automata' \in Seq(Spots)
    BY <2>1, AppendProperties DEF RebuildInv, Types, QueueType, WorldType
  <2>3. WorldType' /\ QueueType'
    BY <2>2 DEF Automaton, RebuildInv, Types, WorldType, QueueType, Served, blockVars
  <2>4. MeshType' /\ StepType'
    BY DEF Automaton, RebuildInv, Types, MeshType, StepType, meshVars
  <2> QED BY <2>3, <2>4 DEF Types
<1> QED BY <1>1, <1>2, NothingElse DEF Automaton, blockVars
----------------------------------------------------------------------------
(* Blocks change, and who serves the spots is asked to rebuild.            *)

LEMMA DrainKeeps == ASSUME RebuildInv, DrainAutomata PROVE RebuildInv'
<1>1. Types /\ EntryInv /\ BankInv /\ ShownInv /\ implic = {}
  BY DEF RebuildInv, DrainAutomata, QReady
<1>2. PICK S \in SUBSET ToSet(automata) : implic' = S /\ world' = Changed(S)
  BY DEF DrainAutomata
<1>3. S \subseteq Spots
  BY <1>1 DEF Types, QueueType, ToSet
<1>4. world' \in [Spots -> Nat] /\ \A p \in Spots \ S : world'[p] = world[p]
  BY <1>1, <1>2, ChangedTyped DEF Types, WorldType
<1>5. UNCHANGED <<facade, takencare, requests, bank, ready, memory, vbo, player,
                  job, plan, main, missed, raced, overtaken>>
  BY DEF DrainAutomata, meshVars
<1>6. FewerVisits /\ SamePlaces
  BY <1>1, <1>5, SamePlan DEF SamePlaces
<1>t. Types'
  <2>1. automata' \in Seq(Spots)
    BY DEF DrainAutomata
  <2>2. agenda' \in Seq(Kinds) /\ agenda' # <<>>
    BY <1>1, AgendaTyped DEF DrainAutomata
  <2>3. WorldType' /\ QueueType'
    BY <1>1, <1>4, <1>5, <2>1 DEF Types, WorldType, QueueType, Served
  <2>4. MeshType'
    BY <1>1, <1>5 DEF Types, MeshType
  <2>5. StepType'
    BY <1>1, <1>2, <1>3, <1>5, <2>2 DEF Types, StepType
  <2> QED BY <2>3, <2>4, <2>5 DEF Types
<1>7. EntryInv'
  <2>1. \A g \in Indices : Asked(g)' => Asked(g)
    BY <1>5 DEF Asked
  <2> QED BY <1>5, <1>6, <2>1, EntriesStay
<1>8. BankInv'
  <2> SUFFICES ASSUME NEW h \in Indices, HasSpot(h)',
                      facade'[h].pos \notin missed' \cup raced', ~Behind(h)'
               PROVE  bank'[h] = Mesh(facade'[h].pos, world'[facade'[h].pos])
    BY DEF BankInv
  <2>1. facade[h].pos \notin S /\ facade[h].pos \in Spots
    BY <1>1, <1>2, <1>5 DEF Behind, HasSpot, Types, WorldType
  <2>2. ~Behind(h)
    BY <1>1, <1>5 DEF Behind, Asked, ToBuild, Placing, AtStep
  <2> QED BY <1>1, <1>4, <1>5, <2>1, <2>2 DEF BankInv, HasSpot
<1>9. ShownInv'
  BY <1>1, <1>5, ShownStays DEF meshVars, Building
<1> QED BY <1>t, <1>7, <1>8, <1>9 DEF RebuildInv

(* The spots S are asked for, and what nobody serves there is missed.      *)
LEMMA AskingKeeps ==
  ASSUME RebuildInv, Types', NEW S, AsksOf(S),
         UNCHANGED <<world, facade, takencare, bank, ready, meshVars, job, plan,
                     raced, overtaken>>,
         missed \subseteq missed', implic' \subseteq implic,
         \A p \in implic \ implic' : p \in S /\ (p \in missed' \/ p \in Served),
         main' = main \/ main'.step # "request",
         main' # main /\ main.step = "request" =>
           main.spot \in S /\ (main.spot \in missed' \/ main.spot \in Served)
  PROVE  RebuildInv'
<1>1. Types /\ EntryInv /\ BankInv /\ ShownInv
  BY DEF RebuildInv
<1>2. FewerVisits /\ SamePlaces
  BY <1>1, SamePlan DEF SamePlaces
<1>3. EntryInv'
  <2>1. ASSUME NEW g \in Indices, Asked(g)'
        PROVE  Asked(g) \/ \E p \in Served : takencare[p] = g
    BY <2>1 DEF Asked, AsksOf
  <2> QED BY <1>2, <2>1, EntriesStay
<1>4. BankInv'
  <2> SUFFICES ASSUME NEW h \in Indices, HasSpot(h)',
                      facade'[h].pos \notin missed' \cup raced', ~Behind(h)'
               PROVE  bank'[h] = Mesh(facade'[h].pos, world'[facade'[h].pos])
    BY DEF BankInv
  <2>1. PICK p : p = facade[h].pos
    OBVIOUS
  <2>2. HasSpot(h) /\ p \in Spots /\ p \notin missed \cup raced /\ p \notin missed'
    BY <1>1, <2>1 DEF HasSpot, Types, WorldType
  <2>3. ~Asked(h) /\ ~Asked(h)'
    BY DEF Behind, Asked, AsksOf
  <2>4. p \in Served => p \notin S
    BY <2>1, <2>2, <2>3, ChangeNoticed
  <2>5. p \notin implic
    BY <2>1, <2>2, <2>4 DEF Behind
  <2>6. ~(main.step = "request" /\ main.spot = p)
    BY <2>1, <2>2, <2>4 DEF Behind
  <2>7. ~ToBuild(h) /\ ~Placing(h)
    BY DEF Behind, ToBuild, Placing, AtStep
  <2>8. ~Behind(h)
    BY <2>1, <2>3, <2>5, <2>6, <2>7 DEF Behind
  <2> QED BY <1>1, <2>1, <2>2, <2>8 DEF BankInv
<1>5. ShownInv'
  BY <1>1, ShownStays DEF Building
<1> QED BY <1>3, <1>4, <1>5 DEF RebuildInv

LEMMA RequestImplicatedKeeps ==
  ASSUME RebuildInv, RequestImplicated
  PROVE  RebuildInv'
<1>1. Types
  BY DEF RebuildInv
<1>2. AsksOf(implic)
  BY <1>1, RequestedAsks DEF RequestImplicated, Queues
<1>3. UNCHANGED <<world, facade, takencare, automata, bank, ready, meshVars,
                  player, job, agenda, plan, main, raced, overtaken>>
  BY DEF RequestImplicated, blockVars
<1>4. Types'
  <2>1. WorldType' /\ QueueType'
    BY <1>1, <1>2, <1>3 DEF Types, WorldType, QueueType, Served, AsksOf
  <2>2. MeshType'
    BY <1>1, <1>3 DEF Types, MeshType, meshVars
  <2>3. StepType'
    BY <1>1, <1>3 DEF Types, StepType, RequestImplicated
  <2> QED BY <2>1, <2>2, <2>3 DEF Types
<1>5. implic' = {} /\ missed' = missed \cup (implic \ Served)
  BY DEF RequestImplicated
<1> QED BY <1>2, <1>3, <1>4, <1>5, AskingKeeps

LEMMA QueueRerenderKeeps ==
  ASSUME RebuildInv, QueueRerender
  PROVE  RebuildInv'
<1>1. Types /\ main \in Rerenders /\ main.spot \in main.neighbs
  BY MainTyped DEF RebuildInv, QueueRerender, Types, StepType
<1>2. PICK mid : mid = Requested(requests, "light", main.intercepts)
  OBVIOUS
<1>3. PICK q \in Queues : q = IF main.light THEN "light" ELSE "user"
  BY DEF Queues
<1>4. requests' = Requested(mid, q, main.neighbs)
  BY <1>2, <1>3 DEF QueueRerender
<1>5. takencare \in [Served -> Indices] /\ requests \in [Queues -> Seq(Indices)]
  BY <1>1 DEF Types, WorldType, QueueType
<1>6. /\ mid \in [Queues -> Seq(Indices)]
      /\ \A r \in Queues : ToSet(requests[r]) \subseteq ToSet(mid[r])
  BY <1>2, <1>5, RequestedAre DEF Queues
<1>7. OnlyFor(main.intercepts, requests, mid)
  BY <1>2, <1>5, RequestedAre DEF Queues
<1>8. PICK new : new = Requested(mid, q, main.neighbs)
  OBVIOUS
<1>9. new \in [Queues -> Seq(Indices)]
  BY <1>5, <1>6, <1>8, RequestedAre
<1>10. \A r \in Queues : ToSet(mid[r]) \subseteq ToSet(new[r])
  BY <1>5, <1>6, <1>8, RequestedAre
<1>11. \A p \in main.neighbs \cap Served : takencare[p] \in ToSet(new[q])
  BY <1>5, <1>6, <1>8, RequestedAre
<1>12. OnlyFor(main.neighbs, mid, new)
  BY <1>5, <1>6, <1>8, RequestedAre
<1>13. AsksOf(main.neighbs)
  <2>1. \A r \in Queues : ToSet(requests[r]) \subseteq ToSet(new[r])
    BY <1>6, <1>10
  <2>2. \A r \in Queues : \A g \in ToSet(new[r]) :
          g \in ToSet(requests[r]) \/ \E p \in Served : takencare[p] = g
    BY <1>7, <1>12 DEF OnlyFor
  <2> QED BY <1>4, <1>8, <1>9, <1>11, <2>1, <2>2 DEF AsksOf
<1>14. UNCHANGED <<world, facade, takencare, automata, bank, ready, meshVars,
                   player, job, agenda, implic, plan, raced, overtaken>>
  BY DEF QueueRerender, blockVars
<1>15. main' = Resting /\ main'.step # "request"
  BY DEF QueueRerender, Resting
<1>16. Types'
  <2>1. WorldType' /\ QueueType'
    BY <1>1, <1>13, <1>14 DEF Types, WorldType, QueueType, Served, AsksOf
  <2>2. MeshType'
    BY <1>1, <1>14 DEF Types, MeshType, meshVars
  <2>3. StepType'
    BY <1>1, <1>14, <1>15 DEF Types, StepType
  <2> QED BY <2>1, <2>2, <2>3 DEF Types
<1>17. missed' = missed \cup ({main.spot} \ Served)
  BY DEF QueueRerender
<1> QED BY <1>1, <1>13, <1>14, <1>15, <1>16, <1>17, AskingKeeps

LEMMA SetBlockKeeps == ASSUME RebuildInv, SetBlock PROVE RebuildInv'
<1>1. Types /\ EntryInv /\ BankInv /\ ShownInv
  BY DEF RebuildInv
<1>2. PICK p \in Square, light \in BOOLEAN :
        \E neighbs \in {{p}} \cup {{p, q} : q \in Near(p)},
           intercepts \in {{}, IF light THEN {} ELSE {q \in Spots : p \in Glow[q]}} :
          /\ world' = Changed({p})
          /\ main' = [step |-> "request", spot |-> p, light |-> light,
                      neighbs |-> neighbs, intercepts |-> intercepts]
  BY DEF SetBlock
<1>3. PICK neighbs \in {{p}} \cup {{p, q} : q \in Near(p)},
           intercepts \in {{}, IF light THEN {} ELSE {q \in Spots : p \in Glow[q]}} :
        /\ world' = Changed({p})
        /\ main' = [step |-> "request", spot |-> p, light |-> light,
                    neighbs |-> neighbs, intercepts |-> intercepts]
  BY <1>2
<1>4. p \in Spots /\ neighbs \subseteq Spots /\ p \in neighbs /\ intercepts \subseteq Spots
  BY DEF Square, Near
<1>5. /\ main' \in Rerenders /\ main'.step = "request" /\ main'.spot = p
      /\ main'.neighbs = neighbs
  BY <1>3, <1>4 DEF Rerenders
<1>6. world' \in [Spots -> Nat] /\ \A q \in Spots \ {p} : world'[q] = world[q]
  BY <1>1, <1>3, ChangedTyped DEF Types, WorldType
<1>7. UNCHANGED <<facade, takencare, requests, automata, bank, ready, memory, vbo,
                  player, job, agenda, implic, plan, missed, raced, overtaken>>
  BY DEF SetBlock, meshVars
<1>t. Types'
  <2>1. WorldType' /\ QueueType'
    BY <1>1, <1>6, <1>7 DEF Types, WorldType, QueueType, Served
  <2>2. MeshType'
    BY <1>1, <1>7 DEF Types, MeshType
  <2>3. StepType'
    BY <1>1, <1>4, <1>5, <1>7 DEF Types, StepType
  <2> QED BY <2>1, <2>2, <2>3 DEF Types
<1>8. EntryInv'
  <2>1. \A g \in Indices : Asked(g)' => Asked(g)
    BY <1>7 DEF Asked
  <2>2. FewerVisits /\ SamePlaces
    BY <1>1, <1>7, SamePlan DEF SamePlaces
  <2> QED BY <1>7, <2>1, <2>2, EntriesStay
<1>9. BankInv'
  <2> SUFFICES ASSUME NEW h \in Indices, HasSpot(h)',
                      facade'[h].pos \notin missed' \cup raced', ~Behind(h)'
               PROVE  bank'[h] = Mesh(facade'[h].pos, world'[facade'[h].pos])
    BY DEF BankInv
  <2>1. facade[h].pos # p /\ facade[h].pos \in Spots
    BY <1>1, <1>5, <1>7 DEF Behind, HasSpot, Types, WorldType
  <2>2. main.step # "request"
    BY DEF SetBlock, Resting
  <2>3. ~Behind(h)
    BY <1>7, <2>2 DEF Behind, Asked, ToBuild, Placing, AtStep
  <2> QED BY <1>1, <1>6, <1>7, <2>1, <2>3 DEF BankInv, HasSpot
<1>10. ShownInv'
  BY <1>1, <1>7, ShownStays DEF meshVars, Building
<1> QED BY <1>t, <1>8, <1>9, <1>10 DEF RebuildInv
----------------------------------------------------------------------------
(* A frame uploads the first finished mesh of a queue.                     *)

FrameOnly ==
  /\ main.step # "request"
  /\ main' \in {Resting, [step |-> "geo"], [step |-> "users"]}
  /\ UNCHANGED <<blockVars, facade, takencare, requests, automata, bank, player,
                 job, agenda, implic, plan, boundVars, missed, raced, overtaken>>

LEMMA FrameTypes ==
  ASSUME RebuildInv, FrameOnly, ready' \in [Finished -> Seq(Readies)],
         memory' \in [Indices -> Meshes], vbo' \in [Indices -> Meshes]
  PROVE  Types' /\ EntryInv' /\ BankInv'
<1>1. Types /\ EntryInv /\ BankInv
  BY DEF RebuildInv
<1>2. main'.step # "request"
  BY DEF FrameOnly, Resting
<1>3. Types'
  <2>1. WorldType' /\ QueueType'
    BY <1>1 DEF FrameOnly, Types, WorldType, QueueType, Served, blockVars
  <2>2. MeshType'
    BY <1>1 DEF FrameOnly, Types, MeshType
  <2>3. StepType'
    BY <1>1, <1>2 DEF FrameOnly, Types, StepType
  <2> QED BY <2>1, <2>2, <2>3 DEF Types
<1>4. EntryInv'
  <2>1. FewerVisits /\ SamePlaces
    BY <1>1, SamePlan DEF FrameOnly, SamePlaces
  <2>2. \A g \in Indices : Asked(g)' => Asked(g)
    BY DEF FrameOnly, Asked
  <2> QED BY <2>1, <2>2, EntriesStay DEF FrameOnly
<1>5. BankInv'
  <2>1. \A h \in Indices : Behind(h) => Behind(h)'
    BY DEF FrameOnly, Behind, Asked, ToBuild, Placing, AtStep
  <2> QED BY <1>1, <2>1 DEF FrameOnly, BankInv, HasSpot, blockVars
<1> QED BY <1>3, <1>4, <1>5

LEMMA NoUploadKeeps ==
  ASSUME RebuildInv, FrameOnly, UNCHANGED <<meshVars, ready>>
  PROVE  RebuildInv'
<1>1. Types' /\ EntryInv' /\ BankInv'
  BY FrameTypes DEF RebuildInv, Types, QueueType, MeshType, meshVars
<1>2. ShownInv'
  BY ShownStays DEF RebuildInv, FrameOnly, Building
<1> QED BY <1>1, <1>2 DEF RebuildInv

LEMMA UploadKeeps ==
  ASSUME RebuildInv, FrameOnly, NEW q \in Finished, ready[q] # <<>>, Upload(q)
  PROVE  RebuildInv'
<1>1. Types /\ ShownInv
  BY DEF RebuildInv
<1>2. PICK s : s = ready[q]
  OBVIOUS
<1>3. /\ s \in Seq(Readies) /\ Head(s) \in Readies /\ Tail(s) \in Seq(Readies)
      /\ Len(s) \in Nat \ {0} /\ Len(Tail(s)) = Len(s) - 1 /\ Head(s) = s[1]
      /\ \A i \in 1..Len(Tail(s)) : Tail(s)[i] = s[i + 1]
      /\ DOMAIN s = 1..Len(s) /\ DOMAIN Tail(s) = 1..Len(Tail(s))
  <2>1. s \in Seq(Readies) /\ s # <<>>
    BY <1>1, <1>2 DEF Types, QueueType
  <2> QED BY <2>1, HeadTailProperties, LenProperties, EmptySeq
<1>4. PICK g \in Indices : g = s[1].index /\ s[1].mesh \in Meshes
  BY <1>3 DEF Readies
<1>5. /\ memory' = [memory EXCEPT ![g] = s[1].mesh]
      /\ vbo' = [vbo EXCEPT ![g] = bank[g]]
      /\ ready' = [ready EXCEPT ![q] = Tail(s)]
      /\ \A t \in Systems : ~(job[t].step = "finish" /\ job[t].index = g)
  BY <1>2, <1>3, <1>4 DEF Upload
<1>6. /\ ready' \in [Finished -> Seq(Readies)]
      /\ ready'[q] = Tail(s) /\ \A r \in Finished \ {q} : ready'[r] = ready[r]
  BY <1>1, <1>3, <1>5 DEF Types, QueueType
<1>7. /\ memory' \in [Indices -> Meshes] /\ vbo' \in [Indices -> Meshes]
      /\ memory'[g] = s[1].mesh /\ vbo'[g] = bank[g]
      /\ \A h \in Indices \ {g} : memory'[h] = memory[h] /\ vbo'[h] = vbo[h]
  BY <1>1, <1>4, <1>5 DEF Types, MeshType
<1>8. UNCHANGED <<bank, job, overtaken>>
  BY DEF FrameOnly
<1>9. \A r \in Finished, h \in Indices : InQueue(r, h)' => InQueue(r, h)
  <2>1. ASSUME NEW h \in Indices, InQueue(q, h)' PROVE InQueue(q, h)
    <3>1. PICK i \in 1..Len(Tail(s)) : Tail(s)[i].index = h
      BY <1>3, <1>6, <2>1 DEF InQueue
    <3>2. i + 1 \in 1..Len(s) /\ s[i + 1].index = h
      BY <1>3, <3>1
    <3> QED BY <1>2, <1>3, <3>2 DEF InQueue
  <2> QED BY <1>6, <2>1 DEF InQueue
<1>10. InQueue(q, g)
  BY <1>2, <1>3, <1>4 DEF InQueue
(* A mesh that is last and not first stays last.                           *)
<1>11. ASSUME NEW h \in Indices, NEW i \in DOMAIN s, i # 1,
              s[i].index = h, s[i].mesh = bank[h],
              \A j \in DOMAIN s : j > i => s[j].index # h
       PROVE  LastIs(q, h)'
  <2>1. i - 1 \in 1..Len(Tail(s)) /\ (i - 1) + 1 = i
    BY <1>3, <1>11
  <2>2. Tail(s)[i - 1] = s[i]
    BY <1>3, <2>1
  <2>3. ASSUME NEW j \in 1..Len(Tail(s)), j > i - 1 PROVE Tail(s)[j].index # h
    <3>1. j + 1 \in DOMAIN s /\ j + 1 > i /\ Tail(s)[j] = s[j + 1]
      BY <1>3, <2>1, <2>3
    <3> QED BY <1>11, <3>1
  <2> QED BY <1>3, <1>6, <1>8, <1>11, <2>1, <2>2, <2>3 DEF LastIs
<1>l. ShownInv'
  <2> SUFFICES ASSUME NEW h \in Indices \ overtaken'
               PROVE  /\ ~(InQueue("user", h)' /\ InQueue("geo", h)')
                      /\ \/ \E u \in Systems : Building(u, h)'
                         \/ \E r \in Finished : LastIs(r, h)'
                         \/ Shown(h)'
    BY DEF ShownInv
  <2>1. h \notin overtaken
    BY <1>8
  <2>2. ~(InQueue("user", h) /\ InQueue("geo", h))
    BY <1>1, <2>1 DEF ShownInv
  <2>3. ~(InQueue("user", h)' /\ InQueue("geo", h)')
    BY <1>9, <2>2 DEF Finished
  <2>4. CASE \E u \in Systems : Building(u, h)
    BY <1>8, <2>3, <2>4 DEF Building
  <2>5. CASE \E r \in Finished : LastIs(r, h)
    <3>1. PICK r \in Finished : LastIs(r, h)
      BY <2>5
    <3>2. CASE r # q
      <4>1. h # g
        <5>1. InQueue(r, h)
          BY <3>1 DEF LastIs, InQueue
        <5> QED BY <1>10, <2>2, <3>2, <5>1 DEF Finished
      <4>2. LastIs(r, h)'
        BY <1>6, <1>8, <3>1, <3>2 DEF LastIs
      <4> QED BY <2>3, <4>2
    <3>3. CASE r = q
      <4>1. PICK i \in DOMAIN s :
              /\ s[i].index = h /\ s[i].mesh = bank[h]
              /\ \A j \in DOMAIN s : j > i => s[j].index # h
        BY <1>2, <3>1, <3>3 DEF LastIs
      <4>2. CASE i # 1
        <5>1. LastIs(q, h)'
          BY <1>11, <4>1, <4>2
        <5> QED BY <2>3, <5>1
      <4>3. CASE i = 1
        <5>1. h = g
          BY <1>4, <4>1, <4>3
        <5>2. ~InQueue(q, h)'
          <6>1. ASSUME NEW j \in 1..Len(Tail(s)) PROVE Tail(s)[j].index # h
            <7>1. j + 1 \in DOMAIN s /\ j + 1 > 1 /\ Tail(s)[j] = s[j + 1]
              BY <1>3
            <7> QED BY <4>1, <4>3, <7>1
          <6> QED BY <1>3, <1>6, <6>1 DEF InQueue
        <5>3. \A r2 \in Finished : ~InQueue(r2, h)'
          BY <1>9, <1>10, <2>2, <5>1, <5>2 DEF Finished
        <5>4. Shown(h)'
          BY <1>7, <1>8, <4>1, <4>3, <5>1, <5>3 DEF Shown
        <5> QED BY <2>3, <5>4
      <4> QED BY <4>2, <4>3
    <3> QED BY <3>2, <3>3
  <2>6. CASE Shown(h)
    <3>1. h # g
      BY <1>10, <2>6 DEF Shown
    <3>2. Shown(h)'
      BY <1>7, <1>8, <1>9, <2>6, <3>1 DEF Shown
    <3> QED BY <2>3, <3>2
  <2> QED BY <1>1, <2>1, <2>4, <2>5, <2>6 DEF ShownInv
<1> QED BY <1>6, <1>7, <1>l, FrameTypes DEF RebuildInv

LEMMA FrameKeeps ==
  ASSUME RebuildInv, FrameUser \/ FrameGeo \/ FrameUsers
  PROVE  RebuildInv'
<1>1. "user" \in Finished /\ "geo" \in Finished
  BY DEF Finished
<1>2. CASE FrameUser
  <2>1. FrameOnly
    BY <1>2 DEF FrameUser, FrameOnly, Resting
  <2> QED BY <1>1, <1>2, <2>1, NoUploadKeeps, UploadKeeps DEF FrameUser
<1>3. CASE FrameGeo
  <2>1. FrameOnly
    BY <1>3 DEF FrameGeo, FrameOnly
  <2> QED BY <1>1, <1>3, <2>1, NoUploadKeeps, UploadKeeps DEF FrameGeo
<1>4. CASE FrameUsers
  <2>1. main' = main => main' = [step |-> "users"]
    <3>1. main \in {Resting, [step |-> "geo"], [step |-> "users"]} \cup Rerenders
      BY DEF RebuildInv, Types, StepType
    <3> QED BY <1>4, <3>1 DEF FrameUsers, Resting, Rerenders
  <2>2. FrameOnly
    BY <1>4, <2>1 DEF FrameUsers, FrameOnly
  <2> QED BY <1>1, <1>4, <2>2, NoUploadKeeps, UploadKeeps DEF FrameUsers
<1> QED BY <1>2, <1>3, <1>4
----------------------------------------------------------------------------
(* MakePlan.  The spots it plans are different ones, and there are facades *)
(* enough for them.                                                        *)

LEMMA NearerOrders ==
  ASSUME Types
  PROVE  \A p \in Spots : ~Nearer(p, p)
<1>1. Spots \subseteq Int /\ player \in Int
  BY ChunkRebuildAssumption DEF ChunkRebuildAssumption, Types, WorldType
<1>2. \A p \in Spots : Dist(p) \in Int
  BY <1>1 DEF Dist
<1> QED BY <1>1, <1>2 DEF Nearer

LEMMA NeededAre ==
  ASSUME Types, NEW needed \in NeededSpots
  PROVE  /\ needed \in [1..Cardinality(Square \ Served) -> Square \ Served]
         /\ \A i, j \in 1..Cardinality(Square \ Served) :
              needed[i] = needed[j] => i = j
<1> DEFINE n == Cardinality(Square \ Served)
<1>1. /\ needed \in [1..n -> Square \ Served]
      /\ \A i, j \in 1..n : i < j => Nearer(needed[i], needed[j])
  BY DEF NeededSpots, InOrder
<1>2. Square \ Served \subseteq Spots
  BY DEF Square
<1>3. ASSUME NEW i \in 1..n, NEW j \in 1..n, needed[i] = needed[j] PROVE i = j
  <2>1. needed[i] \in Spots /\ needed[j] \in Spots
    BY <1>1, <1>2
  <2>2. ~(i < j) /\ ~(j < i)
    BY <1>1, <1>3, <2>1, NearerOrders
  <2>3. i \in Int /\ j \in Int
    OBVIOUS
  <2> QED BY <2>2, <2>3
<1> QED BY <1>1, <1>3

LEMMA SquareIsSmall ==
  ASSUME Types
  PROVE  /\ IsFiniteSet(Square \ Served)
         /\ Cardinality(Square \ Served) \in Nat
         /\ Cardinality(Square \ Served) <= 2 * Radius
<1>1. Spots \subseteq Int /\ player \in Int /\ Radius \in Nat \ {0} /\ IsFiniteSet(Spots)
  BY ChunkRebuildAssumption DEF ChunkRebuildAssumption, Types, WorldType
<1> DEFINE S == Square \ Served
           f == [p \in S |-> p - player + Radius + 1]
<1>2. S \in SUBSET Spots /\ IsFiniteSet(S)
  BY <1>1, FS_Subset DEF Square
<1>3. \A p \in S : f[p] \in 1..(2 * Radius)
  BY <1>1 DEF Square
<1>4. ASSUME NEW p \in S, NEW q \in S, f[p] = f[q] PROVE p = q
  <2>1. p \in Int /\ q \in Int
    BY <1>1, <1>2
  <2>2. p - player + Radius + 1 = q - player + Radius + 1
    BY <1>4
  <2> QED BY <1>1, <2>1, <2>2
<1>5. f \in Injection(S, 1..(2 * Radius))
  BY <1>3, <1>4 DEF Injection, IsInjective
<1>6. 1 \in Int /\ 2 * Radius \in Int /\ ~(1 > 2 * Radius)
  BY <1>1
<1>7. IsFiniteSet(1..(2 * Radius)) /\ Cardinality(1..(2 * Radius)) = 2 * Radius - 1 + 1
  BY <1>6, FS_Interval
<1>8. Cardinality(S) <= Cardinality(1..(2 * Radius))
  BY <1>5, <1>7, FS_Injection
<1> QED BY <1>1, <1>2, <1>7, <1>8, FS_CardinalityType

LEMMA FacadesAre ==
  ASSUME RebuildInv, NReady, NEW facades \in SortedFacades
  PROVE  \A i \in 1..Cardinality(Square \ Served) : facades[i] \in Indices
<1> DEFINE free == {g \in Indices : \A t \in Systems : ~Building(t, g)}
           taken == job["Q"].index
<1>1. /\ IsFiniteSet(Indices) /\ Cardinality(Indices) > 2 * Radius
      /\ Radius \in Nat \ {0} /\ Cardinality(Indices) \in Nat
  BY ChunkRebuildAssumption, FS_CardinalityType DEF ChunkRebuildAssumption
<1>2. Indices \ {taken} \subseteq free
  BY DEF Building, Systems, NReady, Idle
<1>3. /\ IsFiniteSet(Indices \ {taken})
      /\ Cardinality(Indices \ {taken}) >= Cardinality(Indices) - 1
  BY <1>1, FS_RemoveElement
<1>4. IsFiniteSet(free) /\ Cardinality(free) \in Nat
  <2>1. free \in SUBSET Indices
    OBVIOUS
  <2> QED BY <1>1, <2>1, FS_Subset, FS_CardinalityType
<1>5. Cardinality(Indices \ {taken}) <= Cardinality(free)
  BY <1>2, <1>4, FS_Subset
<1>6. Cardinality(Indices \ {taken}) \in Nat
  BY <1>3, FS_CardinalityType
<1>7. Types
  BY DEF RebuildInv
<1>8. Cardinality(Square \ Served) <= Cardinality(free)
  <2>1. /\ Cardinality(Square \ Served) \in Nat
        /\ Cardinality(Square \ Served) <= 2 * Radius
    BY <1>7, SquareIsSmall
  <2> HIDE DEF free
  <2> QED BY <1>1, <1>3, <1>4, <1>5, <1>6, <2>1
<1>9. facades \in [1..Cardinality(free) -> free]
  BY DEF SortedFacades, InOrder
<1>10. Cardinality(Square \ Served) \in Nat
  BY <1>7, SquareIsSmall
<1>11. \A i \in 1..Cardinality(Square \ Served) : i \in 1..Cardinality(free)
  <2> HIDE DEF free
  <2> QED BY <1>4, <1>8, <1>10
<1> QED BY <1>9, <1>11

LEMMA MakePlanIs ==
  ASSUME RebuildInv, MakePlan
  PROVE  /\ plan' \in Seq(Visits)
         /\ \A i \in DOMAIN plan' : plan'[i].spot \in Spots \ Served
         /\ \A i, j \in DOMAIN plan' : plan'[i].spot = plan'[j].spot => i = j
<1>1. Types /\ NReady
  BY DEF RebuildInv, MakePlan
<1>2. PICK needed \in NeededSpots, facades \in SortedFacades :
        plan' = [i \in DOMAIN needed |->
                   [spot |-> needed[i], index |-> facades[i], gen |-> TRUE]]
  BY DEF MakePlan
<1>3. PICK n : n = Cardinality(Square \ Served)
  OBVIOUS
<1>4. n \in Nat
  BY <1>1, <1>3, SquareIsSmall
<1>5. /\ needed \in [1..n -> Square \ Served]
      /\ \A i, j \in 1..n : needed[i] = needed[j] => i = j
  BY <1>1, <1>3, NeededAre
<1>6. \A i \in 1..n : facades[i] \in Indices
  BY <1>1, <1>3, FacadesAre
<1>7. Square \subseteq Spots
  BY DEF Square
<1>8. /\ DOMAIN plan' = 1..n
      /\ \A i \in 1..n :
           plan'[i] = [spot |-> needed[i], index |-> facades[i], gen |-> TRUE]
  BY <1>2, <1>5
<1>9. plan' \in [1..n -> Visits]
  BY <1>2, <1>5, <1>6, <1>7 DEF Visits
<1>10. plan' \in Seq(Visits)
  BY <1>4, <1>9
<1> QED BY <1>5, <1>7, <1>8, <1>10

LEMMA MakePlanKeeps == ASSUME RebuildInv, MakePlan PROVE RebuildInv'
<1>1. Types /\ EntryInv /\ BankInv /\ ShownInv
  BY DEF RebuildInv
<1>2. UNCHANGED <<world, stamped, lit, facade, takencare, requests, automata,
                  bank, ready, memory, vbo, player, job, agenda, implic, main,
                  missed, raced, overtaken>>
  BY DEF MakePlan, blockVars, meshVars
<1>3. /\ plan' \in Seq(Visits)
      /\ \A i \in DOMAIN plan' : plan'[i].spot \in Spots \ Served
      /\ \A i, j \in DOMAIN plan' : plan'[i].spot = plan'[j].spot => i = j
  BY MakePlanIs
<1>4. job["N"].step = "idle"
  BY DEF MakePlan, NReady, Idle
<1>5. Served' = Served
  BY <1>2 DEF Served
<1>6. ASSUME NEW p \in Spots \ Served PROVE Vacant(p)
  <2>1. \A g \in Indices : ~Moving(g)
    BY <1>4 DEF Moving, Placing, AtStep
  <2>2. p # Nowhere
    BY ChunkRebuildAssumption DEF ChunkRebuildAssumption
  <2> QED BY <1>1, <2>1, <2>2 DEF EntryInv, HomeInv, HasSpot, Vacant
<1>t. Types'
  BY <1>1, <1>2, <1>3, <1>5
  DEF Types, WorldType, QueueType, MeshType, StepType
<1>a. AskedInv' /\ EntriesPlaced' /\ LockInv' /\ HomeInv' /\ EntriesAreTrue'
  BY <1>1, <1>2, <1>5
  DEF EntryInv, AskedInv, EntriesPlaced, LockInv, HomeInv, EntriesAreTrue,
      Asked, AtStep, HasSpot, Building, Moving, Placing
<1>b. PlanInv'
  <2>1. \A p : Vacant(p) => p \notin Served' /\ \A g \in Indices : facade'[g].pos # p
    BY <1>2, <1>5 DEF Vacant
  <2> QED BY <1>3, <1>6, <2>1 DEF PlanInv, Vacant
<1>c. PlaceInv'
  BY <1>2, <1>4 DEF PlaceInv, Placing, AtStep
<1>d. BankInv'
  BY <1>1, <1>2
  DEF BankInv, HasSpot, Behind, Asked, ToBuild, Placing, AtStep
<1>e. ShownInv'
  BY <1>1, <1>2, ShownStays DEF Building, meshVars
<1> QED BY <1>t, <1>a, <1>b, <1>c, <1>d, <1>e DEF RebuildInv, EntryInv
----------------------------------------------------------------------------
(* Move.  The entry of the spot the facade comes from is forgotten.        *)

LEMMA MoveIs ==
  ASSUME RebuildInv, Move
  PROVE  \E g \in Indices, s \in Spots :
           /\ Vacant(s) /\ \A i \in DOMAIN plan' : plan'[i].spot # s
           /\ \A i \in DOMAIN plan' : Vacant(plan'[i].spot)
           /\ \A i, j \in DOMAIN plan' : plan'[i].spot = plan'[j].spot => i = j
           /\ plan' \in Seq(Visits)
           /\ takencare' = [p \in Served \ {facade[g].pos} |-> takencare[p]]
           /\ job' = [job EXCEPT !["N"] = [step |-> "place", index |-> g, spot |-> s]]
<1>1. Types /\ PlanInv
  BY DEF RebuildInv, EntryInv
<1>2. plan \in Seq(Visits) /\ plan # <<>>
  BY <1>1 DEF Types, QueueType, Move
<1>3. /\ Tail(plan) \in Seq(Visits) /\ Len(plan) \in Nat \ {0}
      /\ DOMAIN plan = 1..Len(plan) /\ DOMAIN Tail(plan) = 1..(Len(plan) - 1)
      /\ \A i \in 1..(Len(plan) - 1) : Tail(plan)[i] = plan[i + 1]
  <2>1. Len(plan) \in Nat /\ Len(plan) # 0
    BY <1>2, LenProperties, EmptySeq
  <2>2. /\ Tail(plan) \in Seq(Visits) /\ Len(Tail(plan)) = Len(plan) - 1
        /\ \A i \in 1..Len(Tail(plan)) : Tail(plan)[i] = plan[i + 1]
    BY <1>2, HeadTailProperties
  <2> QED BY <1>2, <2>1, <2>2, LenProperties
<1>4. 1 \in DOMAIN plan /\ plan[1] \in Visits
  BY <1>2, <1>3, ElementOfSeq
<1>5. PICK g, s : g = plan[1].index /\ s = plan[1].spot
  OBVIOUS
<1>6. g \in Indices /\ s \in Spots
  BY <1>4, <1>5 DEF Visits
<1>7. Vacant(s)
  BY <1>1, <1>4, <1>5 DEF PlanInv
<1>8. plan' = Tail(plan)
  BY DEF Move
<1>9. ASSUME NEW i \in DOMAIN plan'
      PROVE  /\ i + 1 \in DOMAIN plan /\ i + 1 # 1 /\ i \in Nat
             /\ plan'[i] = plan[i + 1]
  BY <1>3, <1>8
<1>10. \A i \in DOMAIN plan' : plan'[i].spot # s /\ Vacant(plan'[i].spot)
  BY <1>1, <1>4, <1>5, <1>9 DEF PlanInv
<1>11. ASSUME NEW i \in DOMAIN plan', NEW j \in DOMAIN plan',
              plan'[i].spot = plan'[j].spot
       PROVE  i = j
  <2>1. i + 1 = j + 1
    BY <1>1, <1>9, <1>11 DEF PlanInv
  <2> QED BY <1>9, <2>1
<1>12. /\ takencare' = [p \in Served \ {facade[g].pos} |-> takencare[p]]
       /\ job' = [job EXCEPT !["N"] = [step |-> "place", index |-> g, spot |-> s]]
  BY <1>5 DEF Move
<1> QED BY <1>3, <1>6, <1>7, <1>8, <1>10, <1>11, <1>12

LEMMA MoveKeeps == ASSUME RebuildInv, Move PROVE RebuildInv'
<1>1. PICK g \in Indices, s \in Spots :
        /\ Vacant(s) /\ \A i \in DOMAIN plan' : plan'[i].spot # s
        /\ \A i \in DOMAIN plan' : Vacant(plan'[i].spot)
        /\ \A i, j \in DOMAIN plan' : plan'[i].spot = plan'[j].spot => i = j
        /\ plan' \in Seq(Visits)
        /\ takencare' = [p \in Served \ {facade[g].pos} |-> takencare[p]]
        /\ job' = [job EXCEPT !["N"] = [step |-> "place", index |-> g, spot |-> s]]
  BY MoveIs
<1>2. Types /\ EntryInv /\ BankInv /\ ShownInv
  BY DEF RebuildInv
<1>3. UNCHANGED <<world, stamped, lit, facade, requests, automata, bank, ready,
                  memory, vbo, player, agenda, implic, main, missed, raced,
                  overtaken>>
  BY DEF Move, blockVars, meshVars
<1>4. job["N"].step = "idle"
  BY DEF Move, NReady, Idle
<1>5. /\ job' \in [Systems -> {Idle} \cup Rebuilds \cup Places]
      /\ job'["Q"] = job["Q"]
      /\ job'["N"].step = "place" /\ job'["N"].index = g /\ job'["N"].spot = s
  <2>1. PICK r : r = [step |-> "place", index |-> g, spot |-> s]
    OBVIOUS
  <2>2. r \in Places /\ r.step = "place" /\ r.index = g /\ r.spot = s
    BY <2>1 DEF Places
  <2>3. job' = [job EXCEPT !["N"] = r]
    BY <1>1, <2>1
  <2> QED BY <1>2, <2>2, <2>3 DEF Types, StepType, Systems
<1>6. Served' = Served \ {facade[g].pos} /\ \A p \in Served' : takencare'[p] = takencare[p]
  BY <1>1 DEF Served
<1>t. Types'
  <2>1. WorldType'
    <3>1. takencare' \in [Served' -> Indices]
      BY <1>1, <1>2, <1>6 DEF Types, WorldType
    <3> QED BY <1>2, <1>3, <1>6, <3>1 DEF Types, WorldType
  <2>2. QueueType'
    BY <1>1, <1>2, <1>3 DEF Types, QueueType
  <2>3. MeshType'
    BY <1>2, <1>3 DEF Types, MeshType
  <2>4. StepType'
    BY <1>2, <1>3, <1>5 DEF Types, StepType
  <2> QED BY <2>1, <2>2, <2>3, <2>4 DEF Types
<1>a. AskedInv'
  <2>1. ASSUME NEW h \in Indices, NEW u \in Systems,
               AtStep(u, h, {"lock", "read", "finish"})'
        PROVE  AtStep(u, h, {"lock", "read", "finish"})
    BY <1>5, <2>1 DEF AtStep, Systems
  <2> QED BY <1>2, <1>3, <2>1 DEF EntryInv, AskedInv, Asked, HasSpot
<1>b. EntriesPlaced'
  BY <1>2, <1>3, <1>6 DEF EntryInv, EntriesPlaced, HasSpot
<1>c. LockInv'
  <2>1. ASSUME NEW h \in Indices PROVE ~Building("N", h)'
    BY <1>5 DEF Building
  <2>2. ASSUME NEW u \in Systems, NEW h \in Indices, AtStep(u, h, {"finish"})'
        PROVE  AtStep(u, h, {"finish"})
    BY <1>5, <2>2 DEF AtStep, Systems
  <2> QED BY <1>2, <1>3, <2>1, <2>2 DEF EntryInv, LockInv
<1>d. HomeInv'
  <2> SUFFICES ASSUME NEW h \in Indices, HasSpot(h)
               PROVE  facade[h].pos \in Served' \/ Moving(h)'
    BY <1>3 DEF HomeInv, HasSpot
  <2>1. facade[h].pos \in Served
    BY <1>2, <1>4 DEF EntryInv, HomeInv, Moving, Placing, AtStep
  <2>2. CASE facade[h].pos = facade[g].pos
    <3>1. h = g
      BY <1>2, <2>2 DEF EntryInv, EntriesAreTrue, HasSpot
    <3> QED BY <1>5, <3>1 DEF Moving, Placing, AtStep
  <2>3. CASE facade[h].pos # facade[g].pos
    BY <1>6, <2>1, <2>3
  <2> QED BY <2>2, <2>3
<1>v. \A p \in Spots : Vacant(p) => Vacant(p)'
  BY <1>3, <1>6 DEF Vacant
<1>e. PlanInv'
  BY <1>1, <1>3, <1>6 DEF PlanInv, Vacant
<1>f. PlaceInv'
  <2> SUFFICES ASSUME NEW h \in Indices, Placing(h)'
               PROVE  /\ Vacant(job["N"].spot)'
                      /\ \A i \in DOMAIN plan' : plan'[i].spot # job'["N"].spot
                      /\ \A p \in Served' : takencare'[p] = h => p \in raced'
    BY DEF PlaceInv
  <2>1. h = g
    BY <1>5 DEF Placing, AtStep
  <2>2. Vacant(s)'
    BY <1>1, <1>v
  <2>3. Vacant(job["N"].spot)'
    BY <1>5, <2>2
  <2>4. ASSUME NEW p \in Served', takencare'[p] = g PROVE p \in raced
    BY <1>2, <1>6, <2>4 DEF EntryInv, EntriesAreTrue
  <2> QED BY <1>1, <1>3, <1>5, <2>1, <2>3, <2>4
<1>g. EntriesAreTrue'
  BY <1>2, <1>3, <1>6 DEF EntryInv, EntriesAreTrue
<1>h. BankInv'
  <2> SUFFICES ASSUME NEW h \in Indices, Behind(h) PROVE Behind(h)'
    BY <1>2, <1>3 DEF BankInv, HasSpot
  <2>1. ~Placing(h) /\ (ToBuild(h) => ToBuild(h)')
    BY <1>4, <1>5 DEF Placing, ToBuild, AtStep, Systems
  <2> QED BY <1>3, <2>1 DEF Behind, Asked
<1>i. ShownInv'
  <2>1. \A u \in Systems, h \in Indices : Building(u, h) => Building(u, h)'
    BY <1>4, <1>5 DEF Building, Systems
  <2> QED BY <1>2, <1>3, <2>1, ShownStays DEF meshVars
<1> QED BY <1>t, <1>a, <1>b, <1>c, <1>d, <1>e, <1>f, <1>g, <1>h, <1>i
    DEF RebuildInv, EntryInv
----------------------------------------------------------------------------
(* Place.  Nobody serves the spots where the models change a mesh, or who  *)
(* does is asked to rebuild it.                                            *)

LEMMA PlaceIs ==
  ASSUME RebuildInv, Place
  PROVE  \E g \in Indices, s \in Spots, S \in SUBSET Spots, light \in BOOLEAN :
           /\ Placing(g) /\ ~Building("Q", g) /\ s = job["N"].spot
           /\ facade' = [facade EXCEPT ![g].pos = s]
           /\ ChangesAt(S)
           /\ job' = [job EXCEPT !["N"] = Rebuild(g, FALSE, light)]
<1>1. Types /\ StepType /\ "N" \in Systems
  BY DEF RebuildInv, Types, Systems
<1>2. PICK g, s : g = job["N"].index /\ s = job["N"].spot
  OBVIOUS
<1>3. job["N"].step = "place" /\ ~Building("Q", g) /\ facade' = [facade EXCEPT ![g].pos = s]
  BY <1>2 DEF Place
<1>4. g \in Indices /\ s \in Spots
  BY <1>1, <1>2, <1>3, JobFields
<1>5. GenerateChunk(s)
  BY <1>2 DEF Place
<1>6. Stamped[s] \in SUBSET Spots
  BY <1>4, ChunkRebuildAssumption DEF ChunkRebuildAssumption
<1>7. AsksOf(Stamped[s])
  BY <1>1, <1>5, RequestedAsks DEF GenerateChunk, Queues
<1>8. PICK T : T = IF s \in stamped THEN {} ELSE Stamped[s]
  OBVIOUS
<1>9. world' = Changed(T) /\ T \subseteq Stamped[s] /\ world \in [Spots -> Nat]
  BY <1>1, <1>5, <1>8 DEF GenerateChunk, Types, WorldType
<1>10. ChangesAt(Stamped[s])
  BY <1>7, <1>9, ChangedTyped DEF ChangesAt
<1>11. PICK light \in BOOLEAN : light = (s \notin lit)
  OBVIOUS
<1>12. job' = [job EXCEPT !["N"] = Rebuild(g, FALSE, light)]
  BY <1>2, <1>11 DEF Place
<1>13. Placing(g)
  BY <1>2, <1>3 DEF Placing, AtStep
<1> QED BY <1>2, <1>3, <1>4, <1>6, <1>10, <1>12, <1>13

LEMMA PlaceKeeps == ASSUME RebuildInv, Place PROVE RebuildInv'
<1>1. PICK g \in Indices, s \in Spots, S \in SUBSET Spots, light \in BOOLEAN :
        /\ Placing(g) /\ ~Building("Q", g) /\ s = job["N"].spot
        /\ facade' = [facade EXCEPT ![g].pos = s]
        /\ ChangesAt(S)
        /\ job' = [job EXCEPT !["N"] = Rebuild(g, FALSE, light)]
  BY PlaceIs
<1>2. Types /\ EntryInv /\ BankInv /\ ShownInv
  BY DEF RebuildInv
<1>3. UNCHANGED <<lit, takencare, automata, bank, ready, memory, vbo, player,
                  agenda, implic, plan, main, missed, raced, overtaken>>
  BY DEF Place, meshVars
<1>4. job["N"].step = "place" /\ job["N"].index = g
  BY <1>1 DEF Placing, AtStep
<1>5. /\ job' \in [Systems -> {Idle} \cup Rebuilds \cup Places]
      /\ job'["Q"] = job["Q"]
      /\ job'["N"].step = "lock" /\ job'["N"].index = g /\ job'["N"].power = FALSE
  <2>1. PICK power \in BOOLEAN : power = FALSE
    OBVIOUS
  <2>2. PICK r : r = Rebuild(g, power, light)
    OBVIOUS
  <2>3. r \in Rebuilds /\ r.step = "lock" /\ r.index = g /\ r.power = power
    BY <1>1, <2>2, RebuildTyped
  <2>4. job' = [job EXCEPT !["N"] = r]
    BY <1>1, <2>1, <2>2
  <2> QED BY <1>2, <2>1, <2>3, <2>4 DEF Types, StepType, Systems
<1>6. /\ facade' \in [Indices -> [pos : Spots \cup {Nowhere}, used : BOOLEAN]]
      /\ facade'[g].pos = s /\ \A h \in Indices \ {g} : facade'[h].pos = facade[h].pos
  BY <1>1, <1>2 DEF Types, WorldType
<1>7. Served' = Served /\ s # Nowhere
  BY <1>3, ChunkRebuildAssumption DEF Served, ChunkRebuildAssumption
<1>8. /\ Vacant(s) /\ \A i \in DOMAIN plan : plan[i].spot # s
      /\ \A p \in Served : takencare[p] = g => p \in raced
  BY <1>1, <1>2 DEF EntryInv, PlaceInv
<1>t. Types'
  <2>1. WorldType'
    BY <1>1, <1>2, <1>3, <1>6, <1>7 DEF Types, WorldType, ChangesAt
  <2>2. QueueType'
    BY <1>1, <1>2, <1>3 DEF Types, QueueType, ChangesAt, AsksOf
  <2>3. MeshType'
    BY <1>2, <1>3 DEF Types, MeshType
  <2>4. StepType'
    BY <1>2, <1>3, <1>5 DEF Types, StepType
  <2> QED BY <2>1, <2>2, <2>3, <2>4 DEF Types
<1>a. \A h \in Indices : HasSpot(h) => HasSpot(h)'
  BY <1>6, <1>7 DEF HasSpot
<1>b. AskedInv'
  <2>1. ASSUME NEW h \in Indices, Asked(h)' PROVE HasSpot(h)
    <3>1. Asked(h) \/ \E p \in Served : takencare[p] = h
      BY <1>1, <2>1 DEF ChangesAt, AsksOf, Asked
    <3> QED BY <1>2, <3>1 DEF EntryInv, AskedInv, EntriesPlaced
  <2>2. ASSUME NEW h \in Indices, NEW u \in Systems,
               AtStep(u, h, {"lock", "read", "finish"})', h # g
        PROVE  HasSpot(h)
    <3>1. u = "Q" /\ AtStep(u, h, {"lock", "read", "finish"})
      BY <1>5, <2>2 DEF AtStep, Systems
    <3> QED BY <1>2, <2>2, <3>1 DEF EntryInv, AskedInv
  <2>3. HasSpot(g)'
    BY <1>6, <1>7 DEF HasSpot
  <2> QED BY <1>a, <2>1, <2>2, <2>3 DEF AskedInv
<1>c. EntriesPlaced'
  BY <1>2, <1>3, <1>7, <1>a DEF EntryInv, EntriesPlaced, Types, WorldType
<1>d. LockInv'
  <2>1. ASSUME NEW h \in Indices PROVE ~Building("N", h)'
    BY <1>5 DEF Building
  <2>2. ASSUME NEW u \in Systems, NEW h \in Indices, AtStep(u, h, {"finish"})'
        PROVE  AtStep(u, h, {"finish"}) /\ h # g
    BY <1>1, <1>5, <2>2 DEF AtStep, Building, Systems
  <2> QED BY <1>2, <1>3, <1>6, <2>1, <2>2 DEF EntryInv, LockInv
<1>e. \A h \in Indices : Moving(h) => h = g
  BY <1>4 DEF Moving, Placing, AtStep
<1>f. HomeInv'
  <2>1. Moving(g)'
    BY <1>5 DEF Moving, AtStep
  <2>2. ASSUME NEW h \in Indices \ {g}, HasSpot(h)' PROVE facade'[h].pos \in Served'
    BY <1>2, <1>6, <1>7, <1>e, <2>2 DEF EntryInv, HomeInv, HasSpot
  <2> QED BY <2>1, <2>2 DEF HomeInv
<1>g. PlanInv'
  BY <1>2, <1>3, <1>6, <1>7, <1>8 DEF EntryInv, PlanInv, Vacant
<1>h. PlaceInv'
  BY <1>5 DEF PlaceInv, Placing, AtStep
<1>i. EntriesAreTrue'
  <2>1. ASSUME NEW p \in Served' PROVE facade'[takencare'[p]].pos = p \/ p \in raced'
    <3>1. CASE takencare[p] = g
      BY <1>3, <1>7, <1>8, <2>1, <3>1
    <3>2. CASE takencare[p] # g
      BY <1>2, <1>3, <1>6, <1>7, <2>1, <3>2
      DEF EntryInv, EntriesAreTrue, Types, WorldType
    <3> QED BY <3>1, <3>2
  <2>2. ASSUME NEW h \in Indices, NEW k \in Indices, facade'[h].pos = facade'[k].pos
        PROVE  h = k \/ facade'[h].pos = Nowhere
    <3>1. \A m \in Indices : facade[m].pos # s
      BY <1>8 DEF Vacant
    <3>2. CASE h = g
      BY <1>6, <2>2, <3>1, <3>2
    <3>3. CASE k = g
      BY <1>6, <2>2, <3>1, <3>3
    <3>4. CASE h # g /\ k # g
      BY <1>2, <1>6, <2>2, <3>4 DEF EntryInv, EntriesAreTrue
    <3> QED BY <3>2, <3>3, <3>4
  <2> QED BY <2>1, <2>2 DEF EntriesAreTrue
<1>j. BankInv'
  <2> SUFFICES ASSUME NEW h \in Indices, HasSpot(h)',
                      facade'[h].pos \notin missed' \cup raced', ~Behind(h)'
               PROVE  bank'[h] = Mesh(facade'[h].pos, world'[facade'[h].pos])
    BY DEF BankInv
  <2>1. h # g
    <3>1. AtStep("N", g, {"lock", "read"})'
      BY <1>5 DEF AtStep
    <3>2. ToBuild(g)'
      BY <3>1 DEF ToBuild, Systems
    <3> QED BY <3>2 DEF Behind
  <2>2. PICK p : p = facade[h].pos /\ p = facade'[h].pos
    BY <1>6, <2>1
  <2>3. p \in Spots /\ p \notin missed \cup raced /\ HasSpot(h)
    BY <1>2, <1>3, <2>2 DEF HasSpot, Types, WorldType
  <2>4. ~Asked(h)' /\ ~Asked(h)
    BY <1>1 DEF Behind, ChangesAt, AsksOf, Asked
  <2>5. ~Behind(h)
    <3>1. ~ToBuild(h)
      <4>1. ASSUME NEW u \in Systems, AtStep(u, h, {"lock", "read"})
            PROVE  AtStep(u, h, {"lock", "read"})'
        BY <1>4, <1>5, <4>1 DEF AtStep, Systems
      <4> QED BY <4>1 DEF Behind, ToBuild
    <3>2. ~Placing(h)
      BY <1>4, <2>1 DEF Placing, AtStep
    <3> QED BY <1>3, <2>2, <2>4, <3>1, <3>2 DEF Behind
  <2>6. bank[h] = Mesh(p, world[p])
    BY <1>2, <2>2, <2>3, <2>5 DEF BankInv
  <2>7. ASSUME p \in S PROVE FALSE
    <3>1. p \in Served
      BY <1>2, <1>e, <2>1, <2>2, <2>3 DEF EntryInv, HomeInv
    <3> QED BY <1>1, <2>2, <2>3, <2>4, <2>7, <3>1, ChangeNoticed DEF ChangesAt
  <2>8. world'[p] = world[p]
    BY <1>1, <2>3, <2>7 DEF ChangesAt
  <2> QED BY <1>3, <2>2, <2>6, <2>8
<1>k. ShownInv'
  <2>1. \A u \in Systems, h \in Indices : Building(u, h) => Building(u, h)'
    BY <1>4, <1>5 DEF Building, Systems
  <2> QED BY <1>2, <1>3, <2>1, ShownStays DEF meshVars
<1> QED BY <1>t, <1>b, <1>c, <1>d, <1>f, <1>g, <1>h, <1>i, <1>j, <1>k
    DEF RebuildInv, EntryInv
----------------------------------------------------------------------------
(* The theorems.                                                           *)

LEMMA StutterKeeps == ASSUME RebuildInv, UNCHANGED vars PROVE RebuildInv'
<1>1. UNCHANGED <<world, stamped, lit, facade, takencare, requests, automata,
                  bank, ready, memory, vbo, player, job, agenda, implic, plan,
                  main, missed, raced, overtaken>>
  BY DEF vars, blockVars, meshVars
<1>2. FewerVisits
  BY <1>1, SamePlan DEF RebuildInv
<1>3. Types'
  <2>1. WorldType' /\ QueueType'
    BY <1>1 DEF RebuildInv, Types, WorldType, QueueType, Served
  <2>2. MeshType' /\ StepType'
    BY <1>1 DEF RebuildInv, Types, MeshType, StepType
  <2> QED BY <2>1, <2>2 DEF Types
<1> QED BY <1>1, <1>2, <1>3, NothingElse DEF meshVars

LEMMA NextKeeps == ASSUME RebuildInv, Next PROVE RebuildInv'
<1>1. ASSUME NEW t \in Systems, RebuildIndex(t) PROVE RebuildInv'
  BY <1>1, LockKeeps, ReadKeeps, FinishKeeps DEF RebuildIndex
<1>2. CASE AttendChunkQueues
  BY <1>1, <1>2, PopKeeps, DrainKeeps, RequestImplicatedKeeps
  DEF AttendChunkQueues, Systems
<1>3. CASE AttendNeededSpots
  BY <1>1, <1>3, MakePlanKeeps, MoveKeeps, PlaceKeeps, YieldToAutomataKeeps, YieldsKeep
  DEF AttendNeededSpots, Systems
<1>4. CASE Frame
  BY <1>4, FrameKeeps, QueueRerenderKeeps DEF Frame
<1>5. CASE SetBlock \/ Walk \/ Automaton
  BY <1>5, SetBlockKeeps, WalkKeeps, AutomatonKeeps
<1> QED BY <1>2, <1>3, <1>4, <1>5 DEF Next

LEMMA RebuildKept == Spec => []RebuildInv
<1>1. RebuildInv /\ [Next]_vars => RebuildInv'
  BY NextKeeps, StutterKeeps
<1> QED BY <1>1, InitRebuild, PTL DEF Spec

(* Whichever facade attend_needed_spots picks and whatever both systems    *)
(* are rebuilding meanwhile, takencare names a facade at the spot, and two *)
(* facades never draw the same spot, unless a rebuild of                   *)
(* attend_chunk_queues ended after its facade was taken away.              *)
THEOREM EntriesAlwaysTrue == Spec => []EntriesAreTrue
<1>1. RebuildInv => EntriesAreTrue
  BY DEF RebuildInv, EntryInv
<1> QED BY <1>1, RebuildKept, PTL

LEMMA QuietMeans ==
  ASSUME RebuildInv, Quiet, NEW p \in Served \ (missed \cup raced)
  PROVE  takencare[p] \in overtaken
           \/ /\ memory[takencare[p]] = Mesh(p, world[p])
              /\ vbo[takencare[p]] = Mesh(p, world[p])
<1>1. Types /\ EntryInv /\ BankInv /\ ShownInv
  BY DEF RebuildInv
<1>2. PICK g \in Indices : g = takencare[p]
  BY <1>1 DEF Types, WorldType
<1>3. facade[g].pos = p /\ HasSpot(g)
  BY <1>1, <1>2 DEF EntryInv, EntriesAreTrue, EntriesPlaced
<1>4. \A q \in Queues : requests[q] = <<>>
  BY <1>1 DEF Quiet, Types, QueueType
<1>5. \A q \in Finished : ready[q] = <<>>
  BY <1>1 DEF Quiet, Types, QueueType
<1>6. \A t \in Systems : job[t].step = "idle"
  BY DEF Quiet, Idle
<1>7. ~Behind(g)
  <2>1. ~Asked(g)
    BY <1>4 DEF Asked, ToSet
  <2>2. ~ToBuild(g) /\ ~Placing(g)
    BY <1>6 DEF ToBuild, Placing, AtStep, Systems
  <2>3. implic = {} /\ main.step # "request"
    BY DEF Quiet, Resting
  <2> QED BY <2>1, <2>2, <2>3 DEF Behind
<1>8. bank[g] = Mesh(p, world[p])
  BY <1>1, <1>3, <1>7 DEF BankInv
<1>9. \A q \in Finished : ~LastIs(q, g)
  BY <1>5 DEF LastIs
<1>10. \A t \in Systems : ~Building(t, g)
  BY <1>6 DEF Building
<1>11. g \in overtaken \/ Shown(g)
  BY <1>1, <1>9, <1>10 DEF ShownInv
<1> QED BY <1>2, <1>8, <1>11 DEF Shown

(* When the queues of requests and of finished meshes are empty, what the  *)
(* graphics card draws for a spot, position, length and data, is the       *)
(* blocks and the light that are there, but for the spots and the indices  *)
(* that met one of the three races.                                        *)
THEOREM MeshesAlwaysCatchUp == Spec => []MeshesCatchUp
<1>1. RebuildInv => MeshesCatchUp
  BY QuietMeans DEF MeshesCatchUp
<1> QED BY <1>1, RebuildKept, PTL
=============================================================================
