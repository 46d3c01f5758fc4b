----------------------------- MODULE GameProofs -----------------------------
(***************************************************************************)
(* Theorems about the world of the client: what the single player does to  *)
(* it (Inventory) and how it is lit (Light).                               *)
(*                                                                         *)
(* Inventory, for rows and chests of any length, any column, any recipes   *)
(* that name an id once: every slot stays well-formed, only a model that   *)
(* is stamped tears a door, one craft takes and gives everything or        *)
(* nothing, crafting all loses one set of ingredients at most, and nothing *)
(* but a stamp is made from nothing.                                       *)
(*                                                                         *)
(* Light, for any world, any number of workers and any number of blocks    *)
(* and patches set: when the passes are made every light shines exactly as *)
(* far as the blocks let it, and when the meshes are rebuilt they show it, *)
(* but for what was set without asking for either.                         *)
(***************************************************************************)
EXTENDS Inventory, Light, FiniteSetTheorems, WellFoundedInduction, SequenceTheorems,
        TLAPS

----------------------------------------------------------------------------
(* Induction: the least counterexample, among naturals and among finite    *)
(* sets.                                                                   *)

LEMMA NatOrder == IsWellFoundedOn({p \in Nat \X Nat : p[1] < p[2]}, Nat)
BY NatLessThanWellFounded DEF OpToRel

LEMMA LeastNat ==
  ASSUME NEW T, T \subseteq Nat, T # {}
  PROVE  \E n \in T : \A m \in T : n <= m
<1>1. PICK n \in T : \A m \in T : <<m, n>> \notin {p \in Nat \X Nat : p[1] < p[2]}
  BY NatOrder, WFMin
<1>2. ASSUME NEW m \in T PROVE n <= m
  <2>1. m \in Nat /\ n \in Nat /\ <<m, n>> \in Nat \X Nat
    OBVIOUS
  <2>2. ~(m < n)
    BY <1>1, <2>1
  <2> QED
    BY <2>1, <2>2
<1>3. QED
  BY <1>2

LEMMA LeastSet ==
  ASSUME NEW T, T # {}, \A s \in T : IsFiniteSet(s)
  PROVE  \E s \in T : \A t \in T : Cardinality(s) <= Cardinality(t)
<1> DEFINE sizes == {Cardinality(s) : s \in T}
<1>1. sizes \subseteq Nat /\ sizes # {}
  BY FS_CardinalityType
<1>2. PICK n \in sizes : \A m \in sizes : n <= m
  BY <1>1, LeastNat
<1> QED
  BY <1>2

----------------------------------------------------------------------------
(* Recursion over 0..n.                                                    *)

Follows(g, n, S, base, F) ==
  /\ g \in [0..n -> S] /\ g[0] = base
  /\ \A j \in 1..n : g[j] = F[j][g[j - 1]]

LEMMA RecursionExists ==
  ASSUME NEW n \in Nat, NEW S, NEW base \in S, NEW F \in [1..n -> [S -> S]]
  PROVE  \E g : Follows(g, n, S, base, F)
<1> DEFINE Is(g, k) == \A j \in 0..k : g[j] = IF j = 0 THEN base ELSE F[j][g[j - 1]]
           T == {k \in 0..n : ~ \E g \in [0..k -> S] : Is(g, k)}
<1>1. ASSUME T # {} PROVE FALSE
  <2>0. T \subseteq Nat
    OBVIOUS
  <2> HIDE DEF T
  <2>1. PICK k \in T : \A m \in T : k <= m
    BY <1>1, <2>0, LeastNat
  <2> USE DEF T
  <2>2. k # 0
    <3>1. PICK f : f = [j \in 0..0 |-> base]
      OBVIOUS
    <3>2. f \in [0..0 -> S] /\ f[0] = base /\ \A j \in 0..0 : j = 0
      BY <3>1
    <3>3. Is(f, 0)
      BY <3>2
    <3> HIDE DEF Is
    <3>4. 0 \notin T
      BY <3>2, <3>3 DEF T
    <3> HIDE DEF T
    <3> QED
      BY <2>1, <3>4
  <2>3. k - 1 \in 0..n /\ k - 1 \notin T /\ k \in 1..n
    <3>1. k \in 0..n
      BY <2>1
    <3> HIDE DEF T
    <3>2. k - 1 \in 0..n /\ k \in 1..n /\ ~(k <= k - 1)
      BY <2>2, <3>1
    <3> QED
      BY <2>1, <3>2
  <2>4. PICK g \in [0..(k - 1) -> S] : Is(g, k - 1)
    BY <2>3
  <2>5. PICK h : h = [j \in 0..k |-> IF j = k THEN F[k][g[k - 1]] ELSE g[j]]
    OBVIOUS
  <2>6. g[k - 1] \in S /\ F[k] \in [S -> S]
    BY <2>3
  <2>7. h \in [0..k -> S]
    BY <2>3, <2>5, <2>6
  <2>8. Is(h, k)
    <3> SUFFICES ASSUME NEW j \in 0..k
                 PROVE  h[j] = IF j = 0 THEN base ELSE F[j][h[j - 1]]
      OBVIOUS
    <3>1. CASE j = k
      BY <2>2, <2>3, <2>5, <3>1
    <3>2. CASE j # k
      <4>1. j \in 0..(k - 1) /\ h[j] = g[j]
        BY <2>3, <2>5, <3>2
      <4>2. j # 0 => h[j - 1] = g[j - 1]
        BY <2>3, <2>5, <4>1
      <4> QED
        BY <2>4, <4>1, <4>2
    <3> QED
      BY <3>1, <3>2
  <2> QED
    BY <2>1, <2>7, <2>8
<1>2. PICK g \in [0..n -> S] : Is(g, n)
  BY <1>1
<1>3. g[0] = base
  BY <1>2
<1>4. ASSUME NEW j \in 1..n PROVE g[j] = F[j][g[j - 1]]
  BY <1>2
<1> QED
  BY <1>3, <1>4 DEF Follows

----------------------------------------------------------------------------
(* The sums of the first numbers of a row.                                 *)

LEMMA SumsStep ==
  ASSUME NEW n \in Nat, NEW row, \A k \in 1..n : row[k] \in Nat
  PROVE  /\ Sums(row, n)[0] = 0
         /\ \A k \in 1..n : Sums(row, n)[k] = Sums(row, n)[k - 1] + row[k]
         /\ \A k \in 0..n : Sums(row, n)[k] \in Nat
<1> DEFINE sum == Sums(row, n)
<1>1. \E f : f = [k \in 0..n |-> IF k = 0 THEN 0 ELSE f[k - 1] + row[k]]
  <2>1. PICK F : F = [j \in 1..n |-> [x \in Nat |-> x + row[j]]]
    OBVIOUS
  <2>2. F \in [1..n -> [Nat -> Nat]] /\ 0 \in Nat
    <3>1. ASSUME NEW j \in 1..n PROVE [x \in Nat |-> x + row[j]] \in [Nat -> Nat]
      <4>1. PICK m \in Nat : m = row[j]
        OBVIOUS
      <4>2. \A x \in Nat : x + m \in Nat
        OBVIOUS
      <4> QED
        BY <4>1, <4>2
    <3> QED
      BY <2>1, <3>1
  <2>3. PICK g : Follows(g, n, Nat, 0, F)
    BY <2>2, RecursionExists
  <2>4. ASSUME NEW j \in 0..n
        PROVE  g[j] = IF j = 0 THEN 0 ELSE g[j - 1] + row[j]
    <3>1. CASE j = 0
      BY <2>3, <3>1 DEF Follows
    <3>2. CASE j # 0
      <4>1. j \in 1..n /\ j - 1 \in 0..n
        BY <3>2
      <4>2. g[j - 1] \in Nat /\ F[j][g[j - 1]] = g[j - 1] + row[j]
        BY <2>1, <2>3, <4>1 DEF Follows
      <4> QED
        BY <2>3, <3>2, <4>1, <4>2 DEF Follows
    <3> QED
      BY <3>1, <3>2
  <2> QED
    BY <2>3, <2>4, SMTT(60) DEF Follows
<1>2. sum = [k \in 0..n |-> IF k = 0 THEN 0 ELSE sum[k - 1] + row[k]]
  BY <1>1 DEF Sums
<1> HIDE DEF sum
<1>3. sum[0] = 0 /\ \A k \in 1..n : sum[k] = sum[k - 1] + row[k]
  BY <1>2
<1>4. \A k \in 0..n : sum[k] \in Nat
  <2> DEFINE T == {k \in 0..n : sum[k] \notin Nat}
  <2>1. ASSUME T # {} PROVE FALSE
    <3>0. T \subseteq Nat
      OBVIOUS
    <3> HIDE DEF T
    <3>1. PICK k \in T : \A m \in T : k <= m
      BY <2>1, <3>0, LeastNat
    <3> USE DEF T
    <3>2. k # 0
      BY <1>3, <3>1
    <3>3. k \in 1..n /\ k - 1 \in 0..n /\ k - 1 \notin T
      BY <3>1, <3>2
    <3> QED
      BY <1>3, <3>1, <3>3
  <2> QED
    BY <2>1
<1> QED
  BY <1>3, <1>4 DEF sum

----------------------------------------------------------------------------
(* The sum of a function over its domain does not depend on the order in   *)
(* which the elements are chosen.                                          *)

AnyOf(s) == CHOOSE x \in s : TRUE
IsFold(g, w, S) ==
  g = [s \in SUBSET S |-> IF s = {} THEN 0 ELSE w[AnyOf(s)] + g[s \ {AnyOf(s)}]]

TheFold(w, S) == CHOOSE g : IsFold(g, w, S)

LEMMA AnyIsIn == ASSUME NEW s, s # {} PROVE AnyOf(s) \in s
BY DEF AnyOf

LEMMA FoldExists ==
  ASSUME NEW S, IsFiniteSet(S), NEW w \in [S -> Nat]
  PROVE  IsFold(TheFold(w, S), w, S)
<1>1. PICK F : F = [j \in 1..Cardinality(S) |-> [h \in [SUBSET S -> Nat] |->
                 [s \in SUBSET S |-> IF s = {} THEN 0
                                     ELSE w[AnyOf(s)] + h[s \ {AnyOf(s)}]]]]
  OBVIOUS
<1>2. PICK zero : zero = [s \in SUBSET S |-> 0]
  OBVIOUS
<1>3. PICK H : H = [SUBSET S -> Nat]
  OBVIOUS
<1>4. zero \in H /\ Cardinality(S) \in Nat
  BY <1>2, <1>3, FS_CardinalityType
<1>5. ASSUME NEW h \in H
      PROVE  [s \in SUBSET S |-> IF s = {} THEN 0
                                 ELSE w[AnyOf(s)] + h[s \ {AnyOf(s)}]] \in H
  <2>1. ASSUME NEW s \in SUBSET S, s # {}
        PROVE  w[AnyOf(s)] + h[s \ {AnyOf(s)}] \in Nat
    <3>1. AnyOf(s) \in S /\ s \ {AnyOf(s)} \in SUBSET S
      BY <2>1, AnyIsIn
    <3>2. w[AnyOf(s)] \in Nat /\ h[s \ {AnyOf(s)}] \in Nat
      BY <1>3, <3>1
    <3> QED
      BY <3>2
  <2> QED
    BY <1>3, <2>1
<1>6. F \in [1..Cardinality(S) -> [H -> H]]
  BY <1>1, <1>3, <1>5
<1>7. PICK f : Follows(f, Cardinality(S), H, zero, F)
  BY <1>4, <1>6, RecursionExists
<1>8. PICK g : g = [s \in SUBSET S |-> f[Cardinality(s)][s]]
  OBVIOUS
<1>9. ASSUME NEW s \in SUBSET S
      PROVE  g[s] = IF s = {} THEN 0 ELSE w[AnyOf(s)] + g[s \ {AnyOf(s)}]
  <2>1. CASE s = {}
    <3>1. Cardinality(s) = 0
      BY <2>1, FS_EmptySet
    <3> QED
      BY <1>2, <1>7, <1>8, <2>1, <3>1 DEF Follows
  <2>2. CASE s # {}
    <3>1. AnyOf(s) \in s
      BY <2>2, AnyIsIn
    <3>2. /\ IsFiniteSet(s) /\ Cardinality(s) \in Nat
          /\ Cardinality(s) <= Cardinality(S)
      BY FS_Subset, FS_CardinalityType
    <3>3. Cardinality(s \ {AnyOf(s)}) = Cardinality(s) - 1
      BY <3>1, <3>2, FS_RemoveElement
    <3>4. Cardinality(s) # 0
      BY <2>2, <3>2, FS_EmptySet
    <3> DEFINE c == Cardinality(s)
    <3>5. c \in 1..Cardinality(S) /\ c - 1 \in 0..Cardinality(S)
      BY <1>4, <3>2, <3>4
    <3>6. f[c] = F[c][f[c - 1]] /\ f[c - 1] \in [SUBSET S -> Nat]
      BY <1>3, <1>7, <3>5 DEF Follows
    <3>7. f[c][s] = w[AnyOf(s)] + f[c - 1][s \ {AnyOf(s)}]
      BY <1>1, <2>2, <3>5, <3>6
    <3>8. g[s \ {AnyOf(s)}] = f[c - 1][s \ {AnyOf(s)}] /\ g[s] = f[c][s]
      BY <1>8, <3>3
    <3> QED
      BY <2>2, <3>7, <3>8
  <2> QED
    BY <2>1, <2>2
<1>10. IsFold(g, w, S)
  BY <1>8, <1>9 DEF IsFold
<1> QED
  BY <1>10 DEF TheFold

LEMMA FoldStep ==
  ASSUME NEW S, NEW w, NEW g, IsFold(g, w, S)
  PROVE  /\ g[{}] = 0
         /\ \A s \in SUBSET S : s # {} => g[s] = w[AnyOf(s)] + g[s \ {AnyOf(s)}]
BY DEF IsFold

LEMMA FoldIsNat ==
  ASSUME NEW S, IsFiniteSet(S), NEW w \in [S -> Nat], NEW g, IsFold(g, w, S)
  PROVE  \A s \in SUBSET S : g[s] \in Nat
<1> DEFINE T == {s \in SUBSET S : g[s] \notin Nat}
<1>1. ASSUME T # {} PROVE FALSE
  <2>1. \A s \in T : IsFiniteSet(s)
    BY FS_Subset
  <2> HIDE DEF T
  <2>2. PICK s \in T : \A t \in T : Cardinality(s) <= Cardinality(t)
    BY <1>1, <2>1, LeastSet
  <2> USE DEF T
  <2>3. s # {}
    <3>1. g[{}] = 0
      BY DEF IsFold
    <3>2. g[s] \notin Nat
      OBVIOUS
    <3> QED
      BY <3>1, <3>2
  <2>4. AnyOf(s) \in s /\ Cardinality(s) \in Nat
    BY <2>1, <2>3, AnyIsIn, FS_CardinalityType
  <2>5. Cardinality(s \ {AnyOf(s)}) = Cardinality(s) - 1
    BY <2>1, <2>4, FS_RemoveElement
  <2>6. s \ {AnyOf(s)} \notin T
    BY <2>2, <2>4, <2>5
  <2>7. g[s \ {AnyOf(s)}] \in Nat /\ w[AnyOf(s)] \in Nat
    BY <2>4, <2>6
  <2>8. g[s] = w[AnyOf(s)] + g[s \ {AnyOf(s)}]
    <3>1. s \in SUBSET S
      OBVIOUS
    <3>2. \A t \in SUBSET S : t # {} => g[t] = w[AnyOf(t)] + g[t \ {AnyOf(t)}]
      BY DEF IsFold
    <3> QED
      BY <2>3, <3>1, <3>2
  <2> QED
    BY <2>7, <2>8
<1> QED
  BY <1>1

LEMMA FoldTakesAny ==
  ASSUME NEW S, IsFiniteSet(S), NEW w \in [S -> Nat], NEW g, IsFold(g, w, S)
  PROVE  \A s \in SUBSET S : \A x \in s : g[s] = w[x] + g[s \ {x}]
<1> DEFINE T == {s \in SUBSET S : \E x \in s : g[s] # w[x] + g[s \ {x}]}
<1>1. ASSUME T # {} PROVE FALSE
  <2>1. \A s \in T : IsFiniteSet(s)
    BY FS_Subset
  <2> HIDE DEF T
  <2>2. PICK s \in T : \A t \in T : Cardinality(s) <= Cardinality(t)
    BY <1>1, <2>1, LeastSet
  <2> USE DEF T
  <2>3. PICK x \in s : g[s] # w[x] + g[s \ {x}]
    OBVIOUS
  <2>4. PICK c : c = AnyOf(s)
    OBVIOUS
  <2>5. c \in s /\ g[s] = w[c] + g[s \ {c}] /\ x # c
    <3>1. s # {} /\ c \in s
      BY <2>4, AnyIsIn
    <3>2. g[s] = w[c] + g[s \ {c}]
      BY <2>4, <3>1, FoldStep
    <3> QED
      BY <2>3, <3>1, <3>2
  <2>6. ASSUME NEW y \in s, NEW z \in s, y # z
        PROVE  g[s \ {y}] = w[z] + g[(s \ {y}) \ {z}]
    <3>1. Cardinality(s \ {y}) = Cardinality(s) - 1 /\ Cardinality(s) \in Nat
      BY <2>1, FS_RemoveElement, FS_CardinalityType
    <3>2. s \ {y} \notin T
      BY <2>2, <3>1
    <3> QED
      BY <2>6, <3>2
  <2>7. g[s \ {c}] = w[x] + g[(s \ {c}) \ {x}]
    BY <2>5, <2>6
  <2>8. g[s \ {x}] = w[c] + g[(s \ {x}) \ {c}]
    BY <2>5, <2>6
  <2>9. (s \ {c}) \ {x} = (s \ {x}) \ {c}
    OBVIOUS
  <2>10. w[x] \in Nat /\ w[c] \in Nat /\ g[(s \ {x}) \ {c}] \in Nat
    BY <2>5, FoldIsNat
  <2>11. PICK rest \in Nat : rest = g[(s \ {x}) \ {c}]
    BY <2>10
  <2>12. g[s \ {c}] = w[x] + rest /\ g[s \ {x}] = w[c] + rest
    BY <2>7, <2>8, <2>9, <2>11
  <2>13. g[s] = w[x] + g[s \ {x}]
    BY <2>5, <2>10, <2>12
  <2> QED
    BY <2>3, <2>13
<1> QED
  BY <1>1

LEMMA FoldsAgree ==
  ASSUME NEW S, IsFiniteSet(S), NEW w, NEW g, IsFold(g, w, S),
         NEW R, NEW u, NEW h, IsFold(h, u, R), S \subseteq R,
         \A x \in S : w[x] = u[x]
  PROVE  \A s \in SUBSET S : g[s] = h[s]
<1> DEFINE T == {s \in SUBSET S : g[s] # h[s]}
<1>1. ASSUME T # {} PROVE FALSE
  <2>1. \A s \in T : IsFiniteSet(s)
    BY FS_Subset
  <2> HIDE DEF T
  <2>2. PICK s \in T : \A t \in T : Cardinality(s) <= Cardinality(t)
    BY <1>1, <2>1, LeastSet
  <2> USE DEF T
  <2>3. s # {}
    <3>1. g[{}] = 0 /\ h[{}] = 0
      BY DEF IsFold
    <3>2. g[s] # h[s]
      OBVIOUS
    <3> QED
      BY <3>1, <3>2
  <2>4. AnyOf(s) \in s /\ Cardinality(s) \in Nat
    BY <2>1, <2>3, AnyIsIn, FS_CardinalityType
  <2>5. Cardinality(s \ {AnyOf(s)}) = Cardinality(s) - 1
    BY <2>1, <2>4, FS_RemoveElement
  <2>6. s \ {AnyOf(s)} \notin T
    BY <2>2, <2>4, <2>5
  <2>7. g[s \ {AnyOf(s)}] = h[s \ {AnyOf(s)}] /\ w[AnyOf(s)] = u[AnyOf(s)]
    BY <2>4, <2>6
  <2>8. g[s] = w[AnyOf(s)] + g[s \ {AnyOf(s)}]
    <3>1. s \in SUBSET S
      OBVIOUS
    <3>2. \A t \in SUBSET S : t # {} => g[t] = w[AnyOf(t)] + g[t \ {AnyOf(t)}]
      BY DEF IsFold
    <3> QED
      BY <2>3, <3>1, <3>2
  <2>9. h[s] = u[AnyOf(s)] + h[s \ {AnyOf(s)}]
    <3>1. s \in SUBSET R
      OBVIOUS
    <3>2. \A t \in SUBSET R : t # {} => h[t] = u[AnyOf(t)] + h[t \ {AnyOf(t)}]
      BY DEF IsFold
    <3> QED
      BY <2>3, <3>1, <3>2
  <2> QED
    BY <2>7, <2>8, <2>9
<1> QED
  BY <1>1

LEMMA SumIsFold ==
  ASSUME NEW S, IsFiniteSet(S), NEW w \in [S -> Nat]
  PROVE  \E g : IsFold(g, w, S) /\ SumOver(w) = g[S]
<1>1. IsFold(TheFold(w, S), w, S)
  BY FoldExists
<1>2. DOMAIN w = S
  OBVIOUS
<1>3. SumOver(w) = TheFold(w, S)[S]
  BY <1>2 DEF SumOver, MapThenSumSet, MapThenFoldSet, AnyOf, IsFold, TheFold
<1> QED
  BY <1>1, <1>3

LEMMA SumIsNat ==
  ASSUME NEW S, IsFiniteSet(S), NEW w \in [S -> Nat]
  PROVE  SumOver(w) \in Nat
BY SumIsFold, FoldIsNat

LEMMA SumOfNone ==
  ASSUME NEW w \in [{} -> Nat]
  PROVE  SumOver(w) = 0
<1>1. IsFiniteSet({})
  BY FS_EmptySet
<1>2. PICK g : IsFold(g, w, {}) /\ SumOver(w) = g[{}]
  BY <1>1, SumIsFold
<1> QED
  BY <1>2, FoldStep

(* One element is taken out.                                               *)
LEMMA SumPart ==
  ASSUME NEW S, IsFiniteSet(S), NEW w \in [S -> Nat], NEW x \in S
  PROVE  SumOver(w) = w[x] + SumOver([y \in S \ {x} |-> w[y]])
<1>1. PICK u : u = [y \in S \ {x} |-> w[y]]
  OBVIOUS
<1>2. u \in [S \ {x} -> Nat] /\ IsFiniteSet(S \ {x})
  BY <1>1, FS_RemoveElement
<1>3. PICK g : IsFold(g, w, S) /\ SumOver(w) = g[S]
  BY SumIsFold
<1>4. PICK h : IsFold(h, u, S \ {x}) /\ SumOver(u) = h[S \ {x}]
  BY <1>2, SumIsFold
<1>5. g[S] = w[x] + g[S \ {x}]
  BY <1>3, FoldTakesAny
<1>6. S \ {x} \subseteq S /\ \A y \in S \ {x} : u[y] = w[y]
  BY <1>1
<1>7. h[S \ {x}] = g[S \ {x}]
  BY <1>2, <1>3, <1>4, <1>6, FoldsAgree
<1> QED
  BY <1>1, <1>3, <1>4, <1>5, <1>7

(* One value is changed.                                                   *)
LEMMA SumChanges ==
  ASSUME NEW S, IsFiniteSet(S), NEW w \in [S -> Nat], NEW u \in [S -> Nat],
         NEW x \in S, \A y \in S \ {x} : u[y] = w[y]
  PROVE  SumOver(u) = SumOver(w) - w[x] + u[x]
<1>1. SumOver(w) = w[x] + SumOver([y \in S \ {x} |-> w[y]])
  BY SumPart
<1>2. SumOver(u) = u[x] + SumOver([y \in S \ {x} |-> u[y]])
  BY SumPart
<1>3. [y \in S \ {x} |-> w[y]] = [y \in S \ {x} |-> u[y]]
  OBVIOUS
<1>4. PICK rest : rest = SumOver([y \in S \ {x} |-> w[y]])
  OBVIOUS
<1>5. [y \in S \ {x} |-> w[y]] \in [S \ {x} -> Nat] /\ IsFiniteSet(S \ {x})
  BY FS_RemoveElement
<1>6. rest \in Nat
  BY <1>4, <1>5, SumIsNat
<1>7. w[x] \in Nat /\ u[x] \in Nat
  OBVIOUS
<1> QED
  BY <1>1, <1>2, <1>3, <1>4, <1>6, <1>7

(* One element is added.                                                   *)
LEMMA SumGrows ==
  ASSUME NEW S, IsFiniteSet(S), NEW w \in [S -> Nat], NEW x, x \notin S,
         NEW T, T = S \cup {x}, NEW u \in [T -> Nat], \A y \in S : u[y] = w[y]
  PROVE  SumOver(u) = SumOver(w) + u[x]
<1>1. IsFiniteSet(S \cup {x})
  BY FS_AddElement
<1>2. SumOver(u) = u[x] + SumOver([y \in (S \cup {x}) \ {x} |-> u[y]])
  BY <1>1, SumPart
<1>3. [y \in (S \cup {x}) \ {x} |-> u[y]] = w
  OBVIOUS
<1>4. SumOver(w) \in Nat /\ u[x] \in Nat
  BY SumIsNat
<1> QED
  BY <1>2, <1>3, <1>4

(* One element is left out.                                                *)
LEMMA SumShrinks ==
  ASSUME NEW S, IsFiniteSet(S), NEW w \in [S -> Nat], NEW x \in S,
         NEW T, T = S \ {x}, NEW u \in [T -> Nat], \A y \in T : u[y] = w[y]
  PROVE  SumOver(w) = SumOver(u) + w[x]
<1>1. SumOver(w) = w[x] + SumOver([y \in S \ {x} |-> w[y]])
  BY SumPart
<1>2. [y \in S \ {x} |-> w[y]] = u
  OBVIOUS
<1>3. IsFiniteSet(T)
  BY FS_RemoveElement
<1>4. SumOver(u) \in Nat /\ w[x] \in Nat
  BY <1>3, SumIsNat
<1> QED
  BY <1>1, <1>2, <1>4

----------------------------------------------------------------------------
(* The sums of the first numbers of a row, by induction over its length.   *)

LEMMA UpTo ==
  ASSUME NEW n \in Nat, NEW T, 0 \in T, \A k \in 1..n : k - 1 \in T => k \in T
  PROVE  \A k \in 0..n : k \in T
<1>1. PICK U : U = {k \in 0..n : k \notin T}
  OBVIOUS
<1>2. ASSUME U # {} PROVE FALSE
  <2>1. U \subseteq Nat
    BY <1>1
  <2>2. PICK k \in U : \A m \in U : k <= m
    BY <1>2, <2>1, LeastNat
  <2>3. k \in 1..n /\ k - 1 \in 0..n /\ k \notin T
    BY <1>1, <2>2
  <2>4. k - 1 \notin U
    BY <2>2, <2>3
  <2> QED
    BY <1>1, <2>3, <2>4
<1> QED
  BY <1>1, <1>2

NatRow(f, n) == \A k \in 1..n : f[k] \in Nat

LEMMA SumsOfNothing ==
  ASSUME NEW n \in Nat, NEW f, \A k \in 1..n : f[k] = 0
  PROVE  \A k \in 0..n : Sums(f, n)[k] = 0
<1>1. PICK T : T = {k \in 0..n : Sums(f, n)[k] = 0}
  OBVIOUS
<1>2. /\ Sums(f, n)[0] = 0
      /\ \A k \in 1..n : Sums(f, n)[k] = Sums(f, n)[k - 1] + f[k]
  BY SumsStep
<1>3. ASSUME NEW k \in 1..n, k - 1 \in T PROVE k \in T
  BY <1>1, <1>2, <1>3
<1>4. 0 \in T
  BY <1>1, <1>2
<1> QED
  BY <1>1, <1>3, <1>4, UpTo

LEMMA SumsChange ==
  ASSUME NEW n \in Nat, NEW f, NatRow(f, n), NEW g, NatRow(g, n),
         NEW s \in 1..n, \A k \in (1..n) \ {s} : g[k] = f[k]
  PROVE  Sums(g, n)[n] = Sums(f, n)[n] - f[s] + g[s]
<1>1. PICK F : F = Sums(f, n)
  OBVIOUS
<1>2. PICK G : G = Sums(g, n)
  OBVIOUS
<1>3. /\ F[0] = 0
      /\ \A k \in 1..n : F[k] = F[k - 1] + f[k]
      /\ \A k \in 0..n : F[k] \in Nat
  BY <1>1, SumsStep DEF NatRow
<1>4. /\ G[0] = 0
      /\ \A k \in 1..n : G[k] = G[k - 1] + g[k]
      /\ \A k \in 0..n : G[k] \in Nat
  BY <1>2, SumsStep DEF NatRow
<1>5. PICK T : T = {k \in 0..n : G[k] = IF k < s THEN F[k] ELSE F[k] - f[s] + g[s]}
  OBVIOUS
<1>6. 0 \in T
  BY <1>3, <1>4, <1>5
<1>7. ASSUME NEW k \in 1..n, k - 1 \in T PROVE k \in T
  <2>1. /\ F[k] = F[k - 1] + f[k] /\ G[k] = G[k - 1] + g[k]
        /\ F[k - 1] \in Nat /\ G[k - 1] \in Nat
        /\ f[k] \in Nat /\ g[k] \in Nat /\ f[s] \in Nat /\ g[s] \in Nat
    BY <1>3, <1>4 DEF NatRow
  <2>2. G[k - 1] = IF k - 1 < s THEN F[k - 1] ELSE F[k - 1] - f[s] + g[s]
    BY <1>5, <1>7
  <2>3. CASE k < s
    BY <1>5, <2>1, <2>2, <2>3
  <2>4. CASE k = s
    BY <1>5, <2>1, <2>2, <2>4
  <2>5. CASE k > s
    BY <1>5, <2>1, <2>2, <2>5
  <2> QED
    BY <2>3, <2>4, <2>5
<1>8. n \in T
  BY <1>6, <1>7, UpTo
<1> QED
  BY <1>1, <1>2, <1>5, <1>8

(* What is left of a row of which the first N are taken.                   *)
LEMMA SumsTaken ==
  ASSUME NEW n \in Nat, NEW f, NatRow(f, n), NEW g, NatRow(g, n), NEW N \in Nat,
         \A k \in 1..n :
           g[k] = IF Sums(f, n)[k - 1] >= N THEN f[k]
                  ELSE IF Sums(f, n)[k - 1] + f[k] >= N
                         THEN Sums(f, n)[k - 1] + f[k] - N
                         ELSE 0
  PROVE  Sums(g, n)[n] = IF Sums(f, n)[n] >= N THEN Sums(f, n)[n] - N ELSE 0
<1>1. PICK F : F = Sums(f, n)
  OBVIOUS
<1>2. PICK G : G = Sums(g, n)
  OBVIOUS
<1>3. /\ F[0] = 0
      /\ \A k \in 1..n : F[k] = F[k - 1] + f[k]
      /\ \A k \in 0..n : F[k] \in Nat
  BY <1>1, SumsStep DEF NatRow
<1>4. /\ G[0] = 0
      /\ \A k \in 1..n : G[k] = G[k - 1] + g[k]
      /\ \A k \in 0..n : G[k] \in Nat
  BY <1>2, SumsStep DEF NatRow
<1>5. PICK T : T = {k \in 0..n : G[k] = IF F[k] >= N THEN F[k] - N ELSE 0}
  OBVIOUS
<1>6. 0 \in T
  BY <1>3, <1>4, <1>5
<1>7. ASSUME NEW k \in 1..n, k - 1 \in T PROVE k \in T
  <2>1. /\ F[k] = F[k - 1] + f[k] /\ G[k] = G[k - 1] + g[k]
        /\ F[k - 1] \in Nat /\ G[k - 1] \in Nat
        /\ f[k] \in Nat /\ g[k] \in Nat
    BY <1>3, <1>4 DEF NatRow
  <2>2. G[k - 1] = IF F[k - 1] >= N THEN F[k - 1] - N ELSE 0
    BY <1>5, <1>7
  <2>3. g[k] = IF F[k - 1] >= N THEN f[k]
               ELSE IF F[k - 1] + f[k] >= N THEN F[k - 1] + f[k] - N ELSE 0
    BY <1>1
  <2>4. G[k] = IF F[k] >= N THEN F[k] - N ELSE 0
    BY <2>1, <2>2, <2>3
  <2> QED
    BY <1>5, <2>4
<1>8. n \in T
  BY <1>6, <1>7, UpTo
<1> QED
  BY <1>1, <1>2, <1>5, <1>8

----------------------------------------------------------------------------
(* The least and the greatest of a few numbers.                            *)

LEMMA MinOfTwo ==
  ASSUME NEW a \in Int, NEW b \in Int
  PROVE  Min({a, b}) = IF a <= b THEN a ELSE b
BY DEF Min

LEMMA MaxOfTwo ==
  ASSUME NEW a \in Int, NEW b \in Int
  PROVE  Max({a, b}) = IF a <= b THEN b ELSE a
BY DEF Max

LEMMA MinIsIn ==
  ASSUME NEW S, S \subseteq Nat, S # {}
  PROVE  Min(S) \in S
<1>1. PICK n \in S : \A m \in S : n <= m
  BY LeastNat
<1> QED
  BY <1>1 DEF Min

----------------------------------------------------------------------------
(* Rows of slots.                                                          *)

GoodStacks == {st \in Stacks : WellFormed(st)}

LEMMA GoodStack ==
  ASSUME NEW st \in GoodStacks
  PROVE  /\ st.id \in Ids \cup {0} /\ st.n \in Nat /\ (st.id = 0 <=> st.n = 0)
         /\ st = Stack(st.id, st.n)
BY DEF GoodStacks, Stacks, WellFormed, Stack

LEMMA MakeStack ==
  ASSUME NEW id \in Ids, NEW n \in Nat, n > 0
  PROVE  Stack(id, n) \in GoodStacks
BY InventoryAssumption DEF InventoryAssumption, GoodStacks, Stacks, WellFormed, Stack

LEMMA NothingGood ==
  /\ Nothing \in GoodStacks
  /\ \A id : OfId(Nothing, id) = 0
BY DEF GoodStacks, Stacks, WellFormed, Stack, Nothing, OfId

LEMMA OfIdIsNat ==
  ASSUME NEW st \in GoodStacks, NEW id
  PROVE  OfId(st, id) \in Nat
BY GoodStack DEF OfId

LEMMA RowLen ==
  ASSUME NEW n \in Nat, NEW S, NEW v \in [1..n -> S]
  PROVE  Len(v) = n
<1>1. v \in Seq(S)
  BY SeqDef
<1>2. DOMAIN v = 1..Len(v) /\ Len(v) \in Nat
  BY <1>1, LenProperties
<1> QED
  BY <1>2

LEMMA CountsOfRow ==
  ASSUME NEW n \in Nat, NEW v \in [1..n -> GoodStacks], NEW id
  PROVE  /\ NatRow(Counts(v, id), n)
         /\ \A i \in 1..n : Counts(v, id)[i] = OfId(v[i], id)
         /\ Len(v) = n
         /\ Amount(v, id) = Sums(Counts(v, id), n)[n]
         /\ Amount(v, id) \in Nat
<1>1. Len(v) = n
  BY RowLen
<1>2. \A i \in 1..n : Counts(v, id)[i] = OfId(v[i], id)
  BY DEF Counts
<1>3. NatRow(Counts(v, id), n)
  BY <1>2, OfIdIsNat DEF NatRow
<1>4. Amount(v, id) = Sums(Counts(v, id), n)[n]
  BY <1>1 DEF Amount, AmountUpTo
<1>5. Sums(Counts(v, id), n)[n] \in Nat
  BY <1>3, SumsStep DEF NatRow
<1> QED
  BY <1>1, <1>2, <1>3, <1>4, <1>5

(* One slot is set.                                                        *)
LEMMA AmountChanges ==
  ASSUME NEW n \in Nat, NEW v \in [1..n -> GoodStacks], NEW s \in 1..n,
         NEW w \in [1..n -> GoodStacks], \A k \in (1..n) \ {s} : w[k] = v[k],
         NEW id
  PROVE  Amount(w, id) = Amount(v, id) - OfId(v[s], id) + OfId(w[s], id)
<1>1. /\ NatRow(Counts(v, id), n) /\ NatRow(Counts(w, id), n)
      /\ \A i \in 1..n : Counts(v, id)[i] = OfId(v[i], id)
      /\ \A i \in 1..n : Counts(w, id)[i] = OfId(w[i], id)
      /\ Amount(v, id) = Sums(Counts(v, id), n)[n]
      /\ Amount(w, id) = Sums(Counts(w, id), n)[n]
  BY CountsOfRow
<1>2. \A k \in (1..n) \ {s} : Counts(w, id)[k] = Counts(v, id)[k]
  BY <1>1
<1>3. Sums(Counts(w, id), n)[n] =
        Sums(Counts(v, id), n)[n] - Counts(v, id)[s] + Counts(w, id)[s]
  BY <1>1, <1>2, SumsChange
<1> QED
  BY <1>1, <1>3

----------------------------------------------------------------------------
(* Crafting once.                                                          *)

LEMMA RecipeFacts ==
  ASSUME NEW r \in Recipes
  PROVE  /\ r.makes.id \in Ids /\ r.makes.n \in Nat /\ r.makes.n > 0
         /\ r.needs # {}
         /\ \A need \in r.needs : /\ need.id \notin {0, r.makes.id}
                                  /\ need.id \in Ids
                                  /\ need.n \in Nat /\ need.n > 0
         /\ \A s, t \in r.needs : s.id = t.id => s = t
<1>1. /\ r.needs \subseteq Stacks /\ r.makes \in Stacks
      /\ r.needs # {} /\ r.makes.id # 0 /\ r.makes.n > 0
      /\ \A s \in r.needs : s.id \notin {0, r.makes.id} /\ s.n > 0
      /\ \A s, t \in r.needs : s.id = t.id => s = t
  BY InventoryAssumption DEF InventoryAssumption
<1>2. \A st \in Stacks : st.id \in Ids \cup {0} /\ st.n \in Nat
  BY DEF Stacks
<1> QED
  BY <1>1, <1>2

LEMMA NeededIs ==
  ASSUME NEW r \in Recipes
  PROVE  /\ \A need \in r.needs : Needed(r, need.id) = need.n
         /\ \A id : Needed(r, id) \in Nat
         /\ \A id : (\A need \in r.needs : need.id # id) => Needed(r, id) = 0
<1>1. ASSUME NEW need \in r.needs PROVE Needed(r, need.id) = need.n
  <2>1. PICK other : other = CHOOSE t \in r.needs : t.id = need.id
    OBVIOUS
  <2>2. other \in r.needs /\ other.id = need.id
    BY <2>1
  <2>3. other = need
    BY <2>2, RecipeFacts
  <2> QED
    BY <2>1, <2>3 DEF Needed
<1>2. ASSUME NEW id, \A need \in r.needs : need.id # id PROVE Needed(r, id) = 0
  BY <1>2 DEF Needed
<1>3. ASSUME NEW id PROVE Needed(r, id) \in Nat
  <2>1. CASE \A need \in r.needs : need.id # id
    BY <1>2, <2>1
  <2>2. ASSUME NEW need \in r.needs, need.id = id PROVE Needed(r, id) \in Nat
    BY <1>1, <2>2, RecipeFacts
  <2> QED
    BY <2>1, <2>2
<1> QED
  BY <1>1, <1>2, <1>3

(* What is taken from a slot, as the rest that stays in it.                *)
Rest(held, before, needed) ==
  IF before >= needed THEN held
  ELSE IF before + held >= needed THEN before + held - needed ELSE 0
RestOf(stack, left) == IF left = 0 THEN Nothing ELSE Stack(stack.id, left)

LEMMA SlotLeft ==
  ASSUME NEW n \in Nat, NEW v \in [1..n -> GoodStacks], NEW r \in Recipes,
         NEW i \in 1..n, NEW id, id = v[i].id
  PROVE  /\ Rest(v[i].n, Sums(Counts(v, id), n)[i - 1], Needed(r, id)) \in Nat
         /\ Subtracted(v, r)[i] =
              RestOf(v[i], Rest(v[i].n, Sums(Counts(v, id), n)[i - 1], Needed(r, id)))
<1>1. /\ NatRow(Counts(v, id), n) /\ Len(v) = n
  BY CountsOfRow
<1>2. Sums(Counts(v, id), n)[i - 1] \in Nat
  <2>1. i - 1 \in 0..n
    OBVIOUS
  <2>2. \A k \in 0..n : Sums(Counts(v, id), n)[k] \in Nat
    BY <1>1, SumsStep DEF NatRow
  <2> QED
    BY <2>1, <2>2
<1>3. PICK b \in Nat : b = Sums(Counts(v, id), n)[i - 1]
  BY <1>2
<1>4. PICK N \in Nat : N = Needed(r, id)
  BY NeededIs
<1>5. v[i].n \in Nat
  BY GoodStack
<1>6. Taken(v, r, i) = Min({v[i].n, Max({0, N - b})})
  BY <1>1, <1>3, <1>4 DEF Taken, AmountUpTo
<1>7. Max({0, N - b}) = IF 0 <= N - b THEN N - b ELSE 0
  BY MaxOfTwo
<1>8. PICK m \in Nat : m = Max({0, N - b}) /\ m = IF b >= N THEN 0 ELSE N - b
  BY <1>7
<1>9. Min({v[i].n, m}) = IF v[i].n <= m THEN v[i].n ELSE m
  BY <1>5, MinOfTwo
<1>10. v[i].n - Taken(v, r, i) = Rest(v[i].n, b, N)
  BY <1>5, <1>6, <1>8, <1>9 DEF Rest
<1>11. Rest(v[i].n, b, N) \in Nat
  BY <1>5 DEF Rest
<1>12. Subtracted(v, r)[i] = RestOf(v[i], v[i].n - Taken(v, r, i))
  BY DEF Subtracted, RestOf
<1> QED
  BY <1>3, <1>4, <1>10, <1>11, <1>12

LEMMA SubtractedRow ==
  ASSUME NEW n \in Nat, NEW v \in [1..n -> GoodStacks], NEW r \in Recipes
  PROVE  Subtracted(v, r) \in [1..n -> GoodStacks]
<1>1. ASSUME NEW i \in 1..n PROVE Subtracted(v, r)[i] \in GoodStacks
  <2>0. PICK left \in Nat :
          /\ left = Rest(v[i].n, Sums(Counts(v, v[i].id), n)[i - 1], Needed(r, v[i].id))
          /\ Subtracted(v, r)[i] = RestOf(v[i], left)
    BY SlotLeft
  <2>1. left <= v[i].n /\ Subtracted(v, r)[i] = RestOf(v[i], left)
    <3>1. Sums(Counts(v, v[i].id), n)[i - 1] \in Nat
      <4>1. i - 1 \in 0..n
        OBVIOUS
      <4> QED
        BY <4>1, CountsOfRow, SumsStep DEF NatRow
    <3>2. v[i].n \in Nat /\ Needed(r, v[i].id) \in Nat
      BY GoodStack, NeededIs
    <3> QED
      BY <2>0, <3>1, <3>2 DEF Rest
  <2>2. v[i].id \in Ids \cup {0} /\ v[i].n \in Nat /\ (v[i].id = 0 <=> v[i].n = 0)
    BY GoodStack
  <2>3. CASE left = 0
    BY <2>1, <2>3, NothingGood DEF RestOf
  <2>4. CASE left # 0
    <3>1. v[i].id \in Ids /\ left > 0
      BY <2>1, <2>2, <2>4
    <3> QED
      BY <2>1, <2>4, <3>1, MakeStack DEF RestOf
  <2> QED
    BY <2>3, <2>4
<1>2. Subtracted(v, r) = [i \in 1..n |-> Subtracted(v, r)[i]]
  BY DEF Subtracted
<1> QED
  BY <1>1, <1>2

LEMMA AmountSubtracted ==
  ASSUME NEW n \in Nat, NEW v \in [1..n -> GoodStacks], NEW r \in Recipes,
         NEW id, id # 0
  PROVE  Amount(Subtracted(v, r), id) =
           IF Amount(v, id) >= Needed(r, id) THEN Amount(v, id) - Needed(r, id)
           ELSE 0
<1>1. PICK w : w = Subtracted(v, r)
  OBVIOUS
<1>2. w \in [1..n -> GoodStacks]
  BY <1>1, SubtractedRow
<1>3. PICK f : f = Counts(v, id)
  OBVIOUS
<1>4. PICK g : g = Counts(w, id)
  OBVIOUS
<1>5. PICK N \in Nat : N = Needed(r, id)
  BY NeededIs
<1>6. /\ NatRow(f, n) /\ NatRow(g, n)
      /\ \A i \in 1..n : f[i] = OfId(v[i], id) /\ g[i] = OfId(w[i], id)
      /\ Amount(v, id) = Sums(f, n)[n] /\ Amount(w, id) = Sums(g, n)[n]
  BY <1>2, <1>3, <1>4, CountsOfRow
<1>7. ASSUME NEW k \in 1..n
      PROVE  g[k] = IF Sums(f, n)[k - 1] >= N THEN f[k]
                    ELSE IF Sums(f, n)[k - 1] + f[k] >= N
                           THEN Sums(f, n)[k - 1] + f[k] - N
                           ELSE 0
  <2>1. f[k] = OfId(v[k], id) /\ g[k] = OfId(w[k], id)
    BY <1>6
  <2>2. PICK b \in Nat : b = Sums(f, n)[k - 1]
    <3>1. k - 1 \in 0..n
      OBVIOUS
    <3> QED
      BY <1>6, <3>1, SumsStep DEF NatRow
  <2>3. CASE v[k].id = id
    <3>0. /\ Rest(v[k].n, Sums(Counts(v, id), n)[k - 1], Needed(r, id)) \in Nat
          /\ Subtracted(v, r)[k] =
               RestOf(v[k], Rest(v[k].n, Sums(Counts(v, id), n)[k - 1], Needed(r, id)))
      <4>1. /\ Rest(v[k].n, Sums(Counts(v, v[k].id), n)[k - 1], Needed(r, v[k].id))
                 \in Nat
            /\ Subtracted(v, r)[k] =
                 RestOf(v[k], Rest(v[k].n, Sums(Counts(v, v[k].id), n)[k - 1],
                                   Needed(r, v[k].id)))
        BY SlotLeft
      <4> QED
        BY <2>3, <4>1
    <3>1. PICK left \in Nat :
            left = Rest(v[k].n, b, N) /\ w[k] = RestOf(v[k], left)
      <4>1. Sums(Counts(v, id), n)[k - 1] = b /\ Needed(r, id) = N
        BY <1>3, <1>5, <2>2
      <4>2. Rest(v[k].n, b, N) \in Nat /\ w[k] = RestOf(v[k], Rest(v[k].n, b, N))
        BY <1>1, <3>0, <4>1
      <4> QED
        BY <4>2
    <3>2. OfId(w[k], id) = left
      BY <2>3, <3>1, NothingGood DEF OfId, RestOf, Stack
    <3>3. OfId(v[k], id) = v[k].n
      BY <2>3 DEF OfId
    <3> QED
      BY <2>1, <2>2, <3>1, <3>2, <3>3 DEF Rest
  <2>4. CASE v[k].id # id
    <3>1. w[k].id \in {0, v[k].id}
      BY <1>1 DEF Subtracted, Nothing, Stack
    <3>2. OfId(v[k], id) = 0 /\ OfId(w[k], id) = 0
      BY <2>4, <3>1 DEF OfId
    <3> QED
      BY <1>5, <2>1, <2>2, <3>2
  <2> QED
    BY <2>3, <2>4
<1>8. Sums(g, n)[n] = IF Sums(f, n)[n] >= N THEN Sums(f, n)[n] - N ELSE 0
  BY <1>6, <1>7, SumsTaken
<1> QED
  BY <1>1, <1>5, <1>6, <1>8

(* What lies between two rows, counted in crafts of r: the needs of spent  *)
(* and the result of made; there is as much of everything else.            *)
Done(n, v, w, r, spent, made) ==
  /\ w \in [1..n -> GoodStacks]
  /\ \A need \in r.needs : Amount(w, need.id) = Amount(v, need.id) - spent * need.n
  /\ Amount(w, r.makes.id) = Amount(v, r.makes.id) + made * r.makes.n
  /\ \A id : (id \notin {0, r.makes.id} /\ \A need \in r.needs : need.id # id)
               => Amount(w, id) = Amount(v, id)

LEMMA DoneNothing ==
  ASSUME NEW n \in Nat, NEW v \in [1..n -> GoodStacks], NEW r \in Recipes
  PROVE  Done(n, v, v, r, 0, 0)
<1>1. \A id : Amount(v, id) \in Nat
  BY CountsOfRow
<1>2. r.makes.n \in Nat /\ \A need \in r.needs : need.n \in Nat
  BY RecipeFacts
<1> QED
  BY <1>1, <1>2 DEF Done

LEMMA DoneMore ==
  ASSUME NEW n \in Nat, NEW u \in [1..n -> GoodStacks],
         NEW v \in [1..n -> GoodStacks], NEW w, NEW r \in Recipes,
         NEW a \in Nat, NEW b \in Nat, NEW c \in 0..1, NEW d \in 0..1,
         Done(n, u, v, r, a, b), Done(n, v, w, r, c, d)
  PROVE  Done(n, u, w, r, a + c, b + d)
<1>1. w \in [1..n -> GoodStacks]
  BY DEF Done
<1>2. \A id : Amount(u, id) \in Nat /\ Amount(v, id) \in Nat /\ Amount(w, id) \in Nat
  BY <1>1, CountsOfRow
<1>3. r.makes.n \in Nat /\ \A need \in r.needs : need.n \in Nat
  BY RecipeFacts
<1>4. ASSUME NEW x \in Nat, NEW m \in Nat, NEW y \in 0..1
      PROVE  (m + y) * x = m * x + y * x
  <2>1. CASE y = 0
    BY <2>1
  <2>2. CASE y = 1
    BY <2>2
  <2> QED
    BY <2>1, <2>2
<1>5. ASSUME NEW x \in Nat, NEW m \in Nat PROVE m * x \in Nat
  OBVIOUS
<1>6. ASSUME NEW need \in r.needs
      PROVE  Amount(w, need.id) = Amount(u, need.id) - (a + c) * need.n
  <2>1. /\ Amount(w, need.id) = Amount(v, need.id) - c * need.n
        /\ Amount(v, need.id) = Amount(u, need.id) - a * need.n
    BY DEF Done
  <2>2. need.n \in Nat
    BY <1>3
  <2>3. (a + c) * need.n = a * need.n + c * need.n
    BY <1>4, <2>2
  <2>4. a * need.n \in Nat /\ c * need.n \in Nat
    BY <1>5, <2>2
  <2> QED
    BY <1>2, <2>1, <2>3, <2>4
<1>7. Amount(w, r.makes.id) = Amount(u, r.makes.id) + (b + d) * r.makes.n
  <2>1. /\ Amount(w, r.makes.id) = Amount(v, r.makes.id) + d * r.makes.n
        /\ Amount(v, r.makes.id) = Amount(u, r.makes.id) + b * r.makes.n
    BY DEF Done
  <2>2. (b + d) * r.makes.n = b * r.makes.n + d * r.makes.n
    BY <1>3, <1>4
  <2>3. PICK x \in Nat : x = b * r.makes.n
    BY <1>3, <1>5
  <2>4. PICK y \in Nat : y = d * r.makes.n
    BY <1>3, <1>5
  <2>5. (b + d) * r.makes.n = x + y
    BY <2>2, <2>3, <2>4
  <2>6. /\ Amount(w, r.makes.id) = Amount(v, r.makes.id) + y
        /\ Amount(v, r.makes.id) = Amount(u, r.makes.id) + x
    BY <2>1, <2>3, <2>4
  <2> QED
    BY <1>2, <2>5, <2>6
<1>8. \A id : (id \notin {0, r.makes.id} /\ \A need \in r.needs : need.id # id)
                => Amount(w, id) = Amount(u, id)
  BY DEF Done
<1> QED
  BY <1>1, <1>6, <1>7, <1>8 DEF Done

LEMMA SubtractedIs ==
  ASSUME NEW n \in Nat, NEW v \in [1..n -> GoodStacks], NEW r \in Recipes,
         HasIngredients(v, r)
  PROVE  Done(n, v, Subtracted(v, r), r, 1, 0)
<1>1. \A id : Amount(v, id) \in Nat
  BY CountsOfRow
<1>2. \A id : id # 0 =>
        Amount(Subtracted(v, r), id) =
          IF Amount(v, id) >= Needed(r, id) THEN Amount(v, id) - Needed(r, id)
          ELSE 0
  BY AmountSubtracted
<1>3. ASSUME NEW need \in r.needs
      PROVE  Amount(Subtracted(v, r), need.id) = Amount(v, need.id) - 1 * need.n
  <2>1. need.id # 0 /\ need.n \in Nat /\ Needed(r, need.id) = need.n
    BY RecipeFacts, NeededIs
  <2>2. Amount(v, need.id) >= need.n
    BY DEF HasIngredients
  <2> QED
    BY <1>1, <1>2, <2>1, <2>2
<1>4. ASSUME NEW id, id # 0, \A need \in r.needs : need.id # id
      PROVE  Amount(Subtracted(v, r), id) = Amount(v, id)
  <2>1. Needed(r, id) = 0
    BY <1>4, NeededIs
  <2> QED
    BY <1>1, <1>2, <1>4, <2>1
<1>5. Amount(Subtracted(v, r), r.makes.id) = Amount(v, r.makes.id)
  <2>1. r.makes.id # 0 /\ \A need \in r.needs : need.id # r.makes.id
    BY RecipeFacts, InventoryAssumption DEF InventoryAssumption
  <2> QED
    BY <1>4, <2>1
<1>6. r.makes.n \in Nat
  BY RecipeFacts
<1>7. Subtracted(v, r) \in [1..n -> GoodStacks]
  BY SubtractedRow
<1> QED
  BY <1>1, <1>3, <1>4, <1>5, <1>6, <1>7 DEF Done

LEMMA WithResultIs ==
  ASSUME NEW n \in Nat, NEW v \in [1..n -> GoodStacks], NEW r \in Recipes,
         ResultSlots(v, r) # {}
  PROVE  Done(n, v, WithResult(v, r), r, 0, 1)
<1>1. PICK slot \in 1..n : slot = Min(ResultSlots(v, r)) /\ v[slot].id \in {0, r.makes.id}
  <2>1. ResultSlots(v, r) \subseteq 1..n
    BY DEF ResultSlots
  <2>2. Min(ResultSlots(v, r)) \in ResultSlots(v, r)
    BY <2>1, MinIsIn
  <2> QED
    BY <2>1, <2>2 DEF ResultSlots
<1>2. PICK st : st = Stack(r.makes.id, v[slot].n + r.makes.n)
  OBVIOUS
<1>3. r.makes.id \in Ids /\ r.makes.n \in Nat /\ r.makes.n > 0 /\ r.makes.id # 0
  BY RecipeFacts, InventoryAssumption DEF InventoryAssumption
<1>4. v[slot].n \in Nat /\ (v[slot].id = 0 <=> v[slot].n = 0)
  BY GoodStack
<1>5. st \in GoodStacks
  BY <1>2, <1>3, <1>4, MakeStack
<1>6. PICK w : w = [v EXCEPT ![slot] = st]
  OBVIOUS
<1>7. WithResult(v, r) = w
  BY <1>1, <1>2, <1>6 DEF WithResult, SetInInventory
<1>8. /\ w \in [1..n -> GoodStacks]
      /\ \A id : Amount(w, id) = Amount(v, id) - OfId(v[slot], id) + OfId(st, id)
  <2>1. w \in [1..n -> GoodStacks] /\ w[slot] = st
    BY <1>5, <1>6
  <2>2. \A k \in (1..n) \ {slot} : w[k] = v[k]
    BY <1>6
  <2> QED
    BY <2>1, <2>2, AmountChanges
<1>9. \A id : Amount(v, id) \in Nat
  BY CountsOfRow
<1>10. OfId(v[slot], r.makes.id) = v[slot].n
  BY <1>1, <1>4 DEF OfId
<1>11. OfId(st, r.makes.id) = v[slot].n + r.makes.n
  BY <1>2 DEF OfId, Stack
<1>12. Amount(w, r.makes.id) = Amount(v, r.makes.id) + 1 * r.makes.n
  BY <1>3, <1>4, <1>8, <1>9, <1>10, <1>11
<1>13. ASSUME NEW id, id \notin {0, r.makes.id} PROVE Amount(w, id) = Amount(v, id)
  <2>1. OfId(v[slot], id) = 0 /\ OfId(st, id) = 0
    BY <1>1, <1>2, <1>13 DEF OfId, Stack
  <2> QED
    BY <1>8, <1>9, <2>1
<1>14. \A need \in r.needs : need.id \notin {0, r.makes.id} /\ need.n \in Nat
  BY RecipeFacts
<1>15. \A need \in r.needs : Amount(w, need.id) = Amount(v, need.id) - 0 * need.n
  BY <1>9, <1>13, <1>14
<1> QED
  BY <1>7, <1>8, <1>12, <1>13, <1>15 DEF Done

LEMMA CraftedOneIs ==
  ASSUME NEW n \in Nat, NEW v \in [1..n -> GoodStacks], NEW r \in Recipes
  PROVE  \/ Done(n, v, CraftedOne(v, r), r, 0, 0)
         \/ Done(n, v, CraftedOne(v, r), r, 1, 1)
<1>1. CASE HasIngredients(v, r) /\ Fits(v, r)
  <2>1. PICK w : w = Subtracted(v, r)
    OBVIOUS
  <2>2. Done(n, v, w, r, 1, 0) /\ w \in [1..n -> GoodStacks]
    BY <1>1, <2>1, SubtractedIs, SubtractedRow
  <2>3. Done(n, w, WithResult(w, r), r, 0, 1)
    BY <1>1, <2>1, <2>2, WithResultIs DEF Fits
  <2>4. Done(n, v, WithResult(w, r), r, 1 + 0, 0 + 1)
    BY <2>2, <2>3, DoneMore
  <2> QED
    BY <1>1, <2>1, <2>4 DEF CraftedOne
<1>2. CASE ~(HasIngredients(v, r) /\ Fits(v, r))
  BY <1>2, DoneNothing DEF CraftedOne
<1> QED
  BY <1>1, <1>2

----------------------------------------------------------------------------
(* Crafting all there is to craft: the loop and its end.                   *)

LEMMA RoundIs ==
  ASSUME NEW n \in Nat, NEW v \in [1..n -> GoodStacks], NEW r \in Recipes,
         NEW x, x = [inv |-> v, more |-> TRUE]
  PROVE  \/ CraftRound(x, r) = [inv |-> v, more |-> FALSE]
         \/ \E w \in [1..n -> GoodStacks] :
              \/ /\ CraftRound(x, r) = [inv |-> w, more |-> TRUE]
                 /\ Done(n, v, w, r, 1, 1)
              \/ /\ CraftRound(x, r) = [inv |-> w, more |-> FALSE]
                 /\ Done(n, v, w, r, 1, 0)
<1>1. CASE ~HasIngredients(v, r)
  BY <1>1 DEF CraftRound
<1>2. CASE HasIngredients(v, r)
  <2>1. PICK w : w = Subtracted(v, r)
    OBVIOUS
  <2>2. Done(n, v, w, r, 1, 0) /\ w \in [1..n -> GoodStacks]
    BY <1>2, <2>1, SubtractedIs, SubtractedRow
  <2>3. CASE Fits(v, r)
    <3>1. PICK u : u = WithResult(w, r)
      OBVIOUS
    <3>2. Done(n, w, u, r, 0, 1)
      BY <2>1, <2>2, <2>3, <3>1, WithResultIs DEF Fits
    <3>3. u \in [1..n -> GoodStacks]
      BY <3>2 DEF Done
    <3>4. Done(n, v, u, r, 1 + 0, 0 + 1)
      BY <2>2, <3>2, DoneMore
    <3>5. CraftRound(x, r) = [inv |-> u, more |-> TRUE]
      BY <1>2, <2>1, <2>3, <3>1 DEF CraftRound
    <3>6. Done(n, v, u, r, 1, 1)
      <4>1. 1 + 0 = 1 /\ 0 + 1 = 1
        OBVIOUS
      <4> QED
        BY <3>4, <4>1
    <3> QED
      BY <3>3, <3>5, <3>6
  <2>4. CASE ~Fits(v, r)
    <3>1. CraftRound(x, r) = [inv |-> w, more |-> FALSE]
      BY <1>2, <2>1, <2>4 DEF CraftRound
    <3> QED
      BY <2>2, <3>1
  <2> QED
    BY <2>3, <2>4
<1> QED
  BY <1>1, <1>2

(* The rows after each round, with the mark that there is to be another.   *)
States(n) == [inv : [1..n -> GoodStacks], more : BOOLEAN]
NextRound(x, r) == IF x.more THEN CraftRound(x, r) ELSE x

LEMMA NextRoundIs ==
  ASSUME NEW n \in Nat, NEW x \in States(n), NEW r \in Recipes
  PROVE  NextRound(x, r) \in States(n)
<1>1. x.inv \in [1..n -> GoodStacks] /\ x = [inv |-> x.inv, more |-> x.more]
      /\ x.more \in BOOLEAN
  BY DEF States
<1>2. CASE x.more = TRUE
  <2>1. PICK w \in [1..n -> GoodStacks], more \in BOOLEAN :
          CraftRound(x, r) = [inv |-> w, more |-> more]
    <3>1. PICK v \in [1..n -> GoodStacks] : x = [inv |-> v, more |-> TRUE]
      BY <1>1, <1>2
    <3>2. \/ CraftRound(x, r) = [inv |-> v, more |-> FALSE]
          \/ \E u \in [1..n -> GoodStacks] :
               \/ /\ CraftRound(x, r) = [inv |-> u, more |-> TRUE]
                  /\ Done(n, v, u, r, 1, 1)
               \/ /\ CraftRound(x, r) = [inv |-> u, more |-> FALSE]
                  /\ Done(n, v, u, r, 1, 0)
      BY <3>1, RoundIs
    <3> QED
      BY <3>2
  <2>2. [inv |-> w, more |-> more] \in States(n)
    BY DEF States
  <2> QED
    BY <1>2, <2>1, <2>2 DEF NextRound
<1>3. CASE x.more = FALSE
  BY <1>3 DEF NextRound
<1> QED
  BY <1>1, <1>2, <1>3

LEMMA RoundsAreNat ==
  ASSUME NEW n \in Nat, NEW v \in [1..n -> GoodStacks], NEW r \in Recipes
  PROVE  Rounds(v, r) \in Nat \ {0}
<1>1. \A id : Amount(v, id) \in Nat
  BY CountsOfRow
<1>2. Amount(v, (CHOOSE need \in r.needs : TRUE).id) \in Nat
  BY <1>1
<1> QED
  BY <1>2 DEF Rounds

LEMMA AfterRoundsStep ==
  ASSUME NEW n \in Nat, NEW v \in [1..n -> GoodStacks], NEW r \in Recipes
  PROVE  /\ AfterRounds(v, r)[0] = [inv |-> v, more |-> TRUE]
         /\ \A k \in 1..Rounds(v, r) :
              AfterRounds(v, r)[k] = NextRound(AfterRounds(v, r)[k - 1], r)
<1> DEFINE after == AfterRounds(v, r)
<1>1. PICK K \in Nat : K = Rounds(v, r)
  BY RoundsAreNat
<1>2. PICK start : start = [inv |-> v, more |-> TRUE]
  OBVIOUS
<1>3. start \in States(n)
  BY <1>2 DEF States
<1>4. \E f : f = [k \in 0..K |-> IF k = 0 THEN start ELSE NextRound(f[k - 1], r)]
  <2>1. PICK F : F = [j \in 1..K |-> [x \in States(n) |-> NextRound(x, r)]]
    OBVIOUS
  <2>2. F \in [1..K -> [States(n) -> States(n)]]
    BY <2>1, NextRoundIs
  <2>3. PICK g : Follows(g, K, States(n), start, F)
    BY <1>3, <2>2, RecursionExists
  <2>4. ASSUME NEW j \in 0..K
        PROVE  g[j] = IF j = 0 THEN start ELSE NextRound(g[j - 1], r)
    <3>1. CASE j = 0
      BY <2>3, <3>1 DEF Follows
    <3>2. CASE j # 0
      <4>1. j \in 1..K /\ j - 1 \in 0..K
        BY <3>2
      <4>2. g[j - 1] \in States(n)
        BY <2>3, <4>1 DEF Follows
      <4>3. F[j][g[j - 1]] = NextRound(g[j - 1], r)
        <5>1. F[j] = [x \in States(n) |-> NextRound(x, r)]
          BY <2>1, <4>1
        <5> QED
          BY <4>2, <5>1
      <4> QED
        BY <2>3, <3>2, <4>1, <4>3 DEF Follows
    <3> QED
      BY <3>1, <3>2
  <2> QED
    BY <2>3, <2>4 DEF Follows
<1>5. after = [k \in 0..K |-> IF k = 0 THEN start ELSE NextRound(after[k - 1], r)]
  <2>1. after = CHOOSE f : f = [k \in 0..K |-> IF k = 0 THEN start
                                               ELSE NextRound(f[k - 1], r)]
    BY <1>1, <1>2 DEF AfterRounds, NextRound
  <2> QED
    BY <1>4, <2>1
<1> HIDE DEF after
<1>6. after[0] = start /\ \A k \in 1..K : after[k] = NextRound(after[k - 1], r)
  BY <1>5
<1> QED
  BY <1>1, <1>2, <1>6 DEF after

(* After k rounds: every round that was not the last made one.             *)
RoundsDone(n, v, r, x, k) ==
  /\ x \in States(n)
  /\ x.more => Done(n, v, x.inv, r, k, k)
  /\ ~x.more => \E j \in 0..k : \/ Done(n, v, x.inv, r, j, j)
                                \/ Done(n, v, x.inv, r, j + 1, j)

LEMMA NextRoundCrafts ==
  ASSUME NEW n \in Nat, NEW v \in [1..n -> GoodStacks], NEW r \in Recipes,
         NEW k \in Nat, NEW x, RoundsDone(n, v, r, x, k)
  PROVE  RoundsDone(n, v, r, NextRound(x, r), k + 1)
<1>1. x \in States(n) /\ NextRound(x, r) \in States(n)
  BY NextRoundIs DEF RoundsDone
<1>2. CASE x.more = FALSE
  <2>1. NextRound(x, r) = x
    BY <1>2 DEF NextRound
  <2>2. PICK j \in 0..k : \/ Done(n, v, x.inv, r, j, j)
                          \/ Done(n, v, x.inv, r, j + 1, j)
    BY <1>2 DEF RoundsDone
  <2>3. j \in 0..(k + 1)
    OBVIOUS
  <2> QED
    BY <1>1, <1>2, <2>1, <2>2, <2>3 DEF RoundsDone
<1>3. CASE x.more = TRUE
  <2>1. PICK w \in [1..n -> GoodStacks] : w = x.inv
    BY <1>1 DEF States
  <2>2. x = [inv |-> w, more |-> TRUE]
    BY <1>1, <1>3, <2>1 DEF States
  <2>3. Done(n, v, w, r, k, k)
    BY <1>3, <2>1 DEF RoundsDone
  <2>4. PICK y : y = NextRound(x, r)
    OBVIOUS
  <2>5. y = CraftRound(x, r)
    BY <1>3, <2>4 DEF NextRound
  <2>6. \/ y = [inv |-> w, more |-> FALSE]
        \/ \E u \in [1..n -> GoodStacks] :
             \/ y = [inv |-> u, more |-> TRUE] /\ Done(n, w, u, r, 1, 1)
             \/ y = [inv |-> u, more |-> FALSE] /\ Done(n, w, u, r, 1, 0)
    BY <2>2, <2>5, RoundIs
  <2>7. CASE y = [inv |-> w, more |-> FALSE]
    <3>1. y.inv = w /\ y.more = FALSE /\ k \in 0..(k + 1)
      BY <2>7
    <3> QED
      BY <1>1, <2>3, <2>4, <3>1 DEF RoundsDone
  <2>8. ASSUME NEW u \in [1..n -> GoodStacks],
               y = [inv |-> u, more |-> TRUE], Done(n, w, u, r, 1, 1)
        PROVE  RoundsDone(n, v, r, y, k + 1)
    <3>1. Done(n, v, u, r, k + 1, k + 1)
      BY <2>3, <2>8, DoneMore
    <3>2. y.inv = u /\ y.more = TRUE
      BY <2>8
    <3> QED
      BY <1>1, <2>4, <3>1, <3>2 DEF RoundsDone
  <2>9. ASSUME NEW u \in [1..n -> GoodStacks],
               y = [inv |-> u, more |-> FALSE], Done(n, w, u, r, 1, 0)
        PROVE  RoundsDone(n, v, r, y, k + 1)
    <3>1. Done(n, v, u, r, k + 1, k + 0) /\ k + 0 = k
      BY <2>3, <2>9, DoneMore
    <3>2. y.inv = u /\ y.more = FALSE /\ k \in 0..(k + 1)
      BY <2>9
    <3> QED
      BY <1>1, <2>4, <3>1, <3>2 DEF RoundsDone
  <2> QED
    BY <2>4, <2>6, <2>7, <2>8, <2>9
<1> QED
  BY <1>1, <1>2, <1>3 DEF States

LEMMA AfterRoundsCraft ==
  ASSUME NEW n \in Nat, NEW v \in [1..n -> GoodStacks], NEW r \in Recipes,
         NEW K \in Nat, K = Rounds(v, r)
  PROVE  RoundsDone(n, v, r, AfterRounds(v, r)[K], K)
<1>1. PICK T : T = {k \in 0..K : RoundsDone(n, v, r, AfterRounds(v, r)[k], k)}
  OBVIOUS
<1>2. 0 \in T
  <2>1. PICK x : x = [inv |-> v, more |-> TRUE]
    OBVIOUS
  <2>2. x \in States(n) /\ x.more = TRUE /\ x.inv = v
    BY <2>1 DEF States
  <2>3. RoundsDone(n, v, r, x, 0)
    BY <2>2, DoneNothing DEF RoundsDone
  <2>4. AfterRounds(v, r)[0] = x
    BY <2>1, AfterRoundsStep
  <2> QED
    BY <1>1, <2>3, <2>4
<1>3. ASSUME NEW k \in 1..K, k - 1 \in T PROVE k \in T
  <2>1. PICK x : x = AfterRounds(v, r)[k - 1]
    OBVIOUS
  <2>2. RoundsDone(n, v, r, x, k - 1) /\ k - 1 \in Nat
    BY <1>1, <1>3, <2>1
  <2>3. RoundsDone(n, v, r, NextRound(x, r), (k - 1) + 1) /\ (k - 1) + 1 = k
    BY <2>2, NextRoundCrafts
  <2>4. AfterRounds(v, r)[k] = NextRound(x, r)
    BY <2>1, AfterRoundsStep
  <2> QED
    BY <1>1, <2>3, <2>4
<1>4. \A k \in 0..K : k \in T
  BY <1>2, <1>3, UpTo
<1>5. K \in T
  BY <1>4
<1> QED
  BY <1>1, <1>5

(* The loop of craft_in_local_inv ends: Rounds is as long as it can be,    *)
(* because each round but the last takes one at least of every need.       *)
LEMMA RoundsEnd ==
  ASSUME NEW n \in Nat, NEW v \in [1..n -> GoodStacks], NEW r \in Recipes
  PROVE  ~AfterRounds(v, r)[Rounds(v, r)].more
<1>1. PICK K \in Nat \ {0} : K = Rounds(v, r)
  BY RoundsAreNat
<1>2. PICK x : x = AfterRounds(v, r)[K]
  OBVIOUS
<1>3. RoundsDone(n, v, r, x, K)
  BY <1>1, <1>2, AfterRoundsCraft
<1>4. PICK need \in r.needs : need = CHOOSE t \in r.needs : TRUE
  BY RecipeFacts
<1>5. K = 1 + Amount(v, need.id)
  BY <1>1, <1>4 DEF Rounds
<1>6. ASSUME x.more PROVE FALSE
  <2>1. Done(n, v, x.inv, r, K, K) /\ x.inv \in [1..n -> GoodStacks]
    BY <1>3, <1>6 DEF RoundsDone, States
  <2>2. PICK a \in Nat : a = Amount(v, need.id)
    BY CountsOfRow
  <2>3. PICK b \in Nat : b = Amount(x.inv, need.id)
    BY <2>1, CountsOfRow
  <2>4. PICK m \in Nat \ {0} : m = need.n
    BY RecipeFacts
  <2>5. b = a - K * m
    BY <2>1, <2>2, <2>3, <2>4 DEF Done
  <2>6. K * m >= K
    OBVIOUS
  <2>7. K = 1 + a
    BY <1>5, <2>2
  <2>8. PICK Km \in Nat : Km = K * m
    OBVIOUS
  <2> QED
    BY <2>5, <2>6, <2>7, <2>8
<1> QED
  BY <1>1, <1>2, <1>6

LEMMA CraftedAllIs ==
  ASSUME NEW n \in Nat, NEW v \in [1..n -> GoodStacks], NEW r \in Recipes
  PROVE  \E k \in 0..Rounds(v, r) : \/ Done(n, v, CraftedAll(v, r), r, k, k)
                                    \/ Done(n, v, CraftedAll(v, r), r, k + 1, k)
<1>1. PICK K \in Nat : K = Rounds(v, r)
  BY RoundsAreNat
<1>2. PICK x : x = AfterRounds(v, r)[K]
  OBVIOUS
<1>3. RoundsDone(n, v, r, x, K)
  BY <1>1, <1>2, AfterRoundsCraft
<1>4. ~x.more
  BY <1>1, <1>2, RoundsEnd
<1>5. x.inv = CraftedAll(v, r)
  BY <1>1, <1>2 DEF CraftedAll
<1> QED
  BY <1>1, <1>3, <1>4, <1>5 DEF RoundsDone

----------------------------------------------------------------------------
(* Doors: each half finds the other, or the door is torn.                  *)

Other(w, s) == IF w[s].top THEN s - 1 ELSE s + 1
Paired(w, s) == /\ Other(w, s) \in Spots
                /\ w[Other(w, s)].id = Door
                /\ w[Other(w, s)].top = ~w[s].top
                /\ w[Other(w, s)].open = w[s].open
TornIn(w, s) == w[s].id = Door /\ ~Paired(w, s)

LEMMA TornIs ==
  ASSUME NEW s \in Spots
  PROVE  Torn(s) <=> TornIn(world, s)
<1>1. CASE Other(world, s) \in Spots
  BY <1>1 DEF Torn, TornIn, Partner, Other, Paired, At
<1>2. CASE Other(world, s) \notin Spots
  BY <1>2 DEF Torn, TornIn, Partner, Other, Paired, At, Plain, Table, Door
<1> QED
  BY <1>1, <1>2

LEMMA TornIsNext ==
  ASSUME NEW s \in Spots
  PROVE  Torn(s)' <=> TornIn(world', s)
<1>1. CASE Other(world', s) \in Spots
  BY <1>1 DEF Torn, TornIn, Partner, Other, Paired, At, Spots
<1>2. CASE Other(world', s) \notin Spots
  <2>1. Partner(s)' = Other(world', s)
    BY DEF Partner, Other
  <2>2. At(Partner(s))'.id = Table
    BY <1>2, <2>1 DEF At, Plain
  <2>3. At(Partner(s))'.id # Door
    BY <2>2 DEF Table, Door
  <2>4. Torn(s)' <=> world'[s].id = Door
    BY <2>3 DEF Torn
  <2> QED
    BY <1>2, <2>4 DEF TornIn, Paired
<1> QED
  BY <1>1, <1>2

LEMMA OtherOfOther ==
  ASSUME NEW w \in [Spots -> Blocks], NEW s \in Spots, Paired(w, s)
  PROVE  /\ Other(w, s) \in Spots /\ Other(w, s) # s
         /\ Other(w, Other(w, s)) = s
<1>1. w[s].top \in BOOLEAN /\ s \in Int /\ Other(w, s) \in Spots
      /\ w[Other(w, s)].top = ~w[s].top
  BY DEF Paired, Blocks, Spots
<1>2. CASE w[s].top
  <2>1. Other(w, s) = s - 1 /\ w[s - 1].top = FALSE
    BY <1>1, <1>2 DEF Other
  <2> QED
    BY <1>1, <2>1 DEF Other
<1>3. CASE ~w[s].top
  <2>1. Other(w, s) = s + 1 /\ w[s + 1].top = TRUE
    BY <1>1, <1>3 DEF Other
  <2> QED
    BY <1>1, <2>1 DEF Other
<1> QED
  BY <1>1, <1>2, <1>3

(* A door that was whole and is torn has stayed where it is, and its other *)
(* half was changed.                                                       *)
LEMMA TornAfter ==
  ASSUME NEW w, NEW changed, NEW u, NEW s \in Spots,
         s \notin changed, \A t \in Spots \ changed : u[t] = w[t],
         TornIn(u, s), ~TornIn(w, s)
  PROVE  w[s].id = Door /\ Paired(w, s) /\ Other(w, s) \in changed
<1>1. u[s] = w[s]
  OBVIOUS
<1>2. w[s].id = Door /\ Paired(w, s)
  BY <1>1 DEF TornIn
<1>3. ASSUME Other(w, s) \notin changed PROVE FALSE
  <2>1. Other(w, s) \in Spots \ changed
    BY <1>2, <1>3 DEF Paired
  <2>2. u[Other(w, s)] = w[Other(w, s)] /\ Other(u, s) = Other(w, s)
    BY <1>1, <2>1 DEF Other
  <2>3. Paired(u, s)
    BY <1>1, <1>2, <2>1, <2>2 DEF Paired
  <2> QED
    BY <2>3 DEF TornIn
<1> QED
  BY <1>2, <1>3

(* What a click on a door at t may tear, when both spots change: the door  *)
(* whose half stands where t looks for its own.                            *)
MayTear(w, t, s) == /\ TornIn(w, t)
                    /\ Other(w, t) \in {s, Other(w, s)}

LEMMA TornWithAnother ==
  ASSUME NEW w \in [Spots -> Blocks], NEW t \in Spots, w[t].id = Door,
         NEW s \in Spots, w[s].id = Door, Paired(w, s),
         s \in {t, Other(w, t)} \/ Other(w, s) \in {t, Other(w, t)},
         {s, Other(w, s)} # {t, Other(w, t)}
  PROVE  MayTear(w, t, s)
<1>1. PICK p \in Spots : p = Other(w, s) /\ Other(w, p) = s
  BY OtherOfOther
<1>2. t # s /\ t # p
  BY <1>1
<1>3. Other(w, t) \in {s, p}
  BY <1>1, <1>2
<1>4. ~Paired(w, t)
  <2>1. SUFFICES ASSUME Paired(w, t) PROVE FALSE
    OBVIOUS
  <2>2. Other(w, Other(w, t)) = t
    BY <2>1, OtherOfOther
  <2> QED
    BY <1>1, <1>2, <1>3, <2>2
<1> QED
  BY <1>1, <1>3, <1>4 DEF MayTear, TornIn

(* Blocks are broken.                                                      *)
Emptied(w, gone) == [t \in Spots |-> IF t \in gone THEN Air ELSE w[t]]

LEMMA TornEmptied ==
  ASSUME NEW w, NEW gone, NEW s \in Spots,
         TornIn(Emptied(w, gone), s), ~TornIn(w, s)
  PROVE  /\ w[s].id = Door /\ Paired(w, s) /\ s \notin gone
         /\ Other(w, s) \in gone
<1>1. PICK u : u = Emptied(w, gone)
  OBVIOUS
<1>2. s \notin gone
  BY <1>1 DEF Emptied, TornIn, Air, Plain, Door
<1>3. \A t \in Spots \ gone : u[t] = w[t]
  BY <1>1 DEF Emptied
<1> QED
  BY <1>1, <1>2, <1>3, TornAfter

LEMMA TornWithoutDoor ==
  ASSUME NEW w \in [Spots -> Blocks], NEW t \in Spots, w[t].id = Door,
         NEW s \in Spots, TornIn(Emptied(w, {t, Other(w, t)}), s), ~TornIn(w, s)
  PROVE  MayTear(w, t, s)
<1>1. PICK gone : gone = {t, Other(w, t)}
  OBVIOUS
<1>2. /\ w[s].id = Door /\ Paired(w, s) /\ s \notin gone
      /\ Other(w, s) \in gone
  BY <1>1, TornEmptied
<1>3. {s, Other(w, s)} # gone
  BY <1>2
<1> QED
  BY <1>1, <1>2, <1>3, TornWithAnother

(* Nothing that is no door takes a door with it.                           *)
LEMMA TornWithout ==
  ASSUME NEW w, NEW gone, \A t \in gone : t \in Spots /\ w[t].id # Door,
         NEW s \in Spots, TornIn(Emptied(w, gone), s)
  PROVE  TornIn(w, s)
<1>1. SUFFICES ASSUME ~TornIn(w, s) PROVE FALSE
  OBVIOUS
<1>2. Paired(w, s) /\ Other(w, s) \in gone
  BY <1>1, TornEmptied
<1> QED
  BY <1>2 DEF Paired

(* A door is opened or closed.                                             *)
Toggled(w, both) ==
  [t \in Spots |-> IF t \in both THEN [w[t] EXCEPT !.open = ~@] ELSE w[t]]

LEMMA ToggledIs ==
  ASSUME NEW w \in [Spots -> Blocks], NEW both
  PROVE  /\ Toggled(w, both) \in [Spots -> Blocks]
         /\ \A t \in Spots : /\ Toggled(w, both)[t].id = w[t].id
                             /\ Toggled(w, both)[t].top = w[t].top
         /\ \A t \in Spots \cap both : Toggled(w, both)[t].open = ~w[t].open
         /\ \A t \in Spots \ both : Toggled(w, both)[t] = w[t]
<1>1. PICK u : u = Toggled(w, both)
  OBVIOUS
<1>2. ASSUME NEW t \in Spots
      PROVE  /\ u[t] \in Blocks /\ u[t].id = w[t].id /\ u[t].top = w[t].top
             /\ t \in both => u[t].open = ~w[t].open
             /\ t \notin both => u[t] = w[t]
  <2>1. w[t] \in Blocks
    OBVIOUS
  <2>2. u[t] = IF t \in both THEN [w[t] EXCEPT !.open = ~@] ELSE w[t]
    BY <1>1 DEF Toggled
  <2> QED
    BY <2>1, <2>2 DEF Blocks
<1>3. u \in [Spots -> Blocks]
  BY <1>1, <1>2 DEF Toggled
<1> QED
  BY <1>1, <1>2, <1>3

LEMMA TornToggled ==
  ASSUME NEW w \in [Spots -> Blocks], NEW t \in Spots, w[t].id = Door,
         NEW s \in Spots, TornIn(Toggled(w, {t, Other(w, t)}), s), ~TornIn(w, s)
  PROVE  MayTear(w, t, s)
<1>1. PICK both : both = {t, Other(w, t)}
  OBVIOUS
<1>2. PICK u : u = Toggled(w, both)
  OBVIOUS
<1>3. /\ \A x \in Spots : u[x].id = w[x].id /\ u[x].top = w[x].top
      /\ \A x \in Spots \cap both : u[x].open = ~w[x].open
      /\ \A x \in Spots \ both : u[x] = w[x]
  BY <1>2, ToggledIs
<1>4. w[s].id = Door /\ Paired(w, s) /\ ~Paired(u, s)
  BY <1>1, <1>2, <1>3 DEF TornIn
<1>5. PICK p \in Spots : p = Other(w, s)
  BY <1>4 DEF Paired
<1>6. Other(u, s) = p
  BY <1>3, <1>5 DEF Other
<1>7. u[p].open # u[s].open
  BY <1>3, <1>4, <1>5, <1>6 DEF Paired
<1>8. w[p].open = w[s].open
  BY <1>4, <1>5 DEF Paired
<1>9. s \in both <=> p \notin both
  <2>1. CASE s \in both /\ p \in both
    BY <1>3, <1>7, <1>8, <2>1
  <2>2. CASE s \notin both /\ p \notin both
    BY <1>3, <1>7, <1>8, <2>2
  <2> QED
    BY <2>1, <2>2
<1> QED
  BY <1>1, <1>4, <1>5, <1>9, TornWithAnother

(* A block or a door is put where there was none.                          *)
LEMMA TornWithBlock ==
  ASSUME NEW w \in [Spots -> Blocks], NEW t \in Spots, w[t].id # Door,
         NEW id, id # Door, NEW u, u = [w EXCEPT ![t] = Plain(id)],
         NEW s \in Spots, TornIn(u, s)
  PROVE  TornIn(w, s)
<1>1. SUFFICES ASSUME ~TornIn(w, s) PROVE FALSE
  OBVIOUS
<1>2. u[t].id # Door /\ \A x \in Spots \ {t} : u[x] = w[x]
  BY DEF Plain
<1>3. s \notin {t}
  BY <1>2 DEF TornIn
<1>4. Paired(w, s) /\ Other(w, s) \in {t}
  BY <1>1, <1>2, <1>3, TornAfter
<1> QED
  BY <1>4 DEF Paired

LEMMA TornWithDoor ==
  ASSUME NEW w \in [Spots -> Blocks], NEW t \in Spots, w[t].id # Door,
         t + 1 \in Spots, w[t + 1].id # Door,
         NEW u, u[t] = DoorHalf(FALSE), u[t + 1] = DoorHalf(TRUE),
         \A x \in Spots \ {t, t + 1} : u[x] = w[x],
         NEW s \in Spots, TornIn(u, s)
  PROVE  TornIn(w, s)
<1>0. t \in Int /\ t # t + 1 /\ (t + 1) - 1 = t
  BY DEF Spots
<1>1. /\ u[t].id = Door /\ u[t].top = FALSE /\ u[t].open = FALSE
      /\ u[t + 1].id = Door /\ u[t + 1].top = TRUE /\ u[t + 1].open = FALSE
  BY DEF DoorHalf
<1>2. Other(u, t) = t + 1 /\ Other(u, t + 1) = t
  BY <1>0, <1>1 DEF Other
<1>3. Paired(u, t) /\ Paired(u, t + 1)
  BY <1>1, <1>2 DEF Paired
<1>5. SUFFICES ASSUME ~TornIn(w, s) PROVE FALSE
  OBVIOUS
<1>6. s \notin {t, t + 1}
  BY <1>3 DEF TornIn
<1>7. Paired(w, s) /\ Other(w, s) \in {t, t + 1}
  <2>1. PICK both : both = {t, t + 1}
    OBVIOUS
  <2>2. s \notin both /\ \A x \in Spots \ both : u[x] = w[x]
    BY <1>6, <2>1
  <2>3. Paired(w, s) /\ Other(w, s) \in both
    BY <1>5, <2>2, TornAfter
  <2> QED
    BY <2>1, <2>3
<1> QED
  BY <1>7 DEF Paired

----------------------------------------------------------------------------
(* The bag of drops, and what it holds of an id.                           *)

BagOK(d) == /\ d \in [DOMAIN d -> Nat \ {0}]
            /\ DOMAIN d \subseteq GoodStacks /\ IsFiniteSet(DOMAIN d)
Weights(d, id) == [st \in DOMAIN d |-> d[st] * OfId(st, id)]
Lying(d, id) == SumOver(Weights(d, id))

LEMMA WeightsAre ==
  ASSUME NEW d, BagOK(d), NEW id
  PROVE  Weights(d, id) \in [DOMAIN d -> Nat] /\ Lying(d, id) \in Nat
<1>1. ASSUME NEW st \in DOMAIN d PROVE d[st] * OfId(st, id) \in Nat
  <2>1. PICK a \in Nat : a = d[st]
    BY DEF BagOK
  <2>2. PICK b \in Nat : b = OfId(st, id)
    BY OfIdIsNat DEF BagOK
  <2> QED
    BY <2>1, <2>2
<1>2. Weights(d, id) \in [DOMAIN d -> Nat]
  BY <1>1 DEF Weights
<1>3. IsFiniteSet(DOMAIN d)
  BY DEF BagOK
<1> QED
  BY <1>2, <1>3, SumIsNat DEF Lying

LEMMA BagsJoin ==
  ASSUME NEW d, BagOK(d), NEW e, BagOK(e)
  PROVE  BagOK(d (+) e)
<1>1. DOMAIN (d (+) e) = DOMAIN d \cup DOMAIN e
  BY DEF (+)
<1>2. IsFiniteSet(DOMAIN d \cup DOMAIN e)
  BY FS_Union DEF BagOK
<1>3. ASSUME NEW x \in DOMAIN d \cup DOMAIN e PROVE (d (+) e)[x] \in Nat \ {0}
  <2>1. (d (+) e)[x] =   (IF x \in DOMAIN d THEN d[x] ELSE 0)
                       + (IF x \in DOMAIN e THEN e[x] ELSE 0)
    BY DEF (+)
  <2>2. x \in DOMAIN d => d[x] \in Nat \ {0}
    BY DEF BagOK
  <2>3. x \in DOMAIN e => e[x] \in Nat \ {0}
    BY DEF BagOK
  <2>4. CASE x \in DOMAIN d
    BY <2>1, <2>2, <2>3, <2>4
  <2>5. CASE x \notin DOMAIN d
    BY <1>3, <2>1, <2>2, <2>3, <2>5
  <2> QED
    BY <2>4, <2>5
<1>4. d (+) e \in [DOMAIN d \cup DOMAIN e -> Nat \ {0}]
  BY <1>3 DEF (+)
<1> QED
  BY <1>1, <1>2, <1>4 DEF BagOK

LEMMA BagGrows ==
  ASSUME NEW d, BagOK(d), NEW st \in GoodStacks, NEW e, e = d (+) SetToBag({st})
  PROVE  BagOK(e) /\ \A id : Lying(e, id) = Lying(d, id) + OfId(st, id)
<1>1. PICK one : one = SetToBag({st})
  OBVIOUS
<1>2. DOMAIN one = {st} /\ one[st] = 1 /\ one \in [{st} -> Nat \ {0}]
  BY <1>1 DEF SetToBag
<1>3. BagOK(one)
  <2>1. IsFiniteSet({st}) /\ {st} \subseteq GoodStacks
    BY FS_Singleton
  <2> QED
    BY <1>2, <2>1 DEF BagOK
<1>4. BagOK(e)
  BY <1>1, <1>3, BagsJoin
<1>5. /\ DOMAIN e = DOMAIN d \cup {st}
      /\ e[st] = (IF st \in DOMAIN d THEN d[st] ELSE 0) + 1
      /\ \A x \in DOMAIN d \ {st} : e[x] = d[x] + 0
  BY <1>1, <1>2 DEF (+)
<1>6. \A x \in DOMAIN d : d[x] \in Nat
  BY DEF BagOK
<1>7. \A x \in DOMAIN d \ {st} : e[x] = d[x]
  BY <1>5, <1>6
<1>8. ASSUME NEW id PROVE Lying(e, id) = Lying(d, id) + OfId(st, id)
  <2>1. PICK w \in [DOMAIN d -> Nat] : w = Weights(d, id)
    BY WeightsAre
  <2>2. PICK u \in [DOMAIN e -> Nat] : u = Weights(e, id)
    BY <1>4, WeightsAre
  <2>3. PICK x \in Nat : x = OfId(st, id)
    BY OfIdIsNat
  <2>4. \A y \in DOMAIN d \ {st} : u[y] = w[y]
    BY <1>5, <1>7, <2>1, <2>2 DEF Weights
  <2>5. u[st] = e[st] * x
    BY <1>5, <2>2, <2>3 DEF Weights
  <2>6. SumOver(w) \in Nat
    BY <2>1, SumIsNat DEF BagOK
  <2>7. CASE st \in DOMAIN d
    <3>1. PICK m \in Nat : m = d[st]
      BY <1>6, <2>7
    <3>2. w[st] = m * x /\ u[st] = (m + 1) * x
      BY <1>5, <2>1, <2>3, <2>5, <2>7, <3>1 DEF Weights
    <3>3. (m + 1) * x = m * x + x /\ m * x \in Nat
      OBVIOUS
    <3>4. IsFiniteSet(DOMAIN d)
      BY DEF BagOK
    <3>5. u \in [DOMAIN d -> Nat]
      BY <1>5, <2>7
    <3>6. SumOver(u) = SumOver(w) - w[st] + u[st]
      BY <2>4, <2>7, <3>4, <3>5, SumChanges
    <3> QED
      BY <2>1, <2>2, <2>3, <2>6, <3>2, <3>3, <3>6 DEF Lying
  <2>8. CASE st \notin DOMAIN d
    <3>1. u[st] = x
      BY <1>5, <2>5, <2>8
    <3>2. \A y \in DOMAIN d : u[y] = w[y]
      BY <2>4, <2>8
    <3>3. IsFiniteSet(DOMAIN d)
      BY DEF BagOK
    <3>4. SumOver(u) = SumOver(w) + u[st]
      BY <1>5, <2>8, <3>2, <3>3, SumGrows
    <3> QED
      BY <2>1, <2>2, <2>3, <3>1, <3>4 DEF Lying
  <2> QED
    BY <2>7, <2>8
<1> QED
  BY <1>4, <1>8

LEMMA BagShrinks ==
  ASSUME NEW d, BagOK(d), NEW st \in DOMAIN d, NEW e, e = d (-) SetToBag({st})
  PROVE  BagOK(e) /\ \A id : Lying(d, id) = Lying(e, id) + OfId(st, id)
<1>1. PICK m \in Nat \ {0} : m = d[st]
  BY DEF BagOK
<1>2. \A x \in DOMAIN d : d[x] \in Nat \ {0}
  BY DEF BagOK
<1>3. PICK less : less = [x \in DOMAIN d |-> IF x \in {st} THEN d[x] - 1 ELSE d[x]]
  OBVIOUS
<1>4. e = [x \in {y \in DOMAIN d : less[y] > 0} |-> less[x]]
  <2>1. DOMAIN SetToBag({st}) = {st} /\ SetToBag({st})[st] = 1
    BY DEF SetToBag
  <2>2. less = [x \in DOMAIN d |-> IF x \in DOMAIN SetToBag({st})
                                     THEN d[x] - SetToBag({st})[x] ELSE d[x]]
    BY <1>3, <2>1
  <2>3. DOMAIN less = DOMAIN d
    BY <1>3
  <2> QED
    BY <2>2, <2>3 DEF (-)
<1>5. less[st] = m - 1 /\ \A x \in DOMAIN d \ {st} : less[x] = d[x]
  BY <1>1, <1>3
<1>6. DOMAIN e = IF m = 1 THEN DOMAIN d \ {st} ELSE DOMAIN d
  BY <1>2, <1>4, <1>5
<1>7. /\ \A x \in DOMAIN d \ {st} : x \in DOMAIN e /\ e[x] = d[x]
      /\ m # 1 => e[st] = m - 1
  BY <1>2, <1>4, <1>5, <1>6
<1>8. BagOK(e)
  <2>1. IsFiniteSet(DOMAIN e) /\ DOMAIN e \subseteq GoodStacks
    BY <1>6, FS_RemoveElement DEF BagOK
  <2>2. ASSUME NEW x \in DOMAIN e PROVE e[x] \in Nat \ {0}
    <3>1. CASE x = st
      <4>1. m # 1 /\ e[st] = m - 1
        BY <1>6, <1>7, <3>1
      <4> QED
        BY <1>1, <3>1, <4>1
    <3>2. CASE x # st
      <4>1. x \in DOMAIN d \ {st}
        BY <1>6, <3>2
      <4> QED
        BY <1>2, <1>7, <4>1
    <3> QED
      BY <3>1, <3>2
  <2>3. e = [x \in DOMAIN e |-> e[x]]
    BY <1>4, Zenon
  <2>4. e \in [DOMAIN e -> Nat \ {0}]
    BY <2>2, <2>3
  <2> QED
    BY <2>1, <2>4 DEF BagOK
<1>9. ASSUME NEW id PROVE Lying(d, id) = Lying(e, id) + OfId(st, id)
  <2>1. PICK w \in [DOMAIN d -> Nat] : w = Weights(d, id)
    BY WeightsAre
  <2>2. PICK u \in [DOMAIN e -> Nat] : u = Weights(e, id)
    BY <1>8, WeightsAre
  <2>3. PICK x \in Nat : x = OfId(st, id)
    BY OfIdIsNat DEF BagOK
  <2>4. \A y \in DOMAIN d \ {st} : u[y] = w[y]
    BY <1>7, <2>1, <2>2 DEF Weights
  <2>5. w[st] = m * x
    BY <1>1, <2>1, <2>3 DEF Weights
  <2>6. SumOver(w) \in Nat /\ SumOver(u) \in Nat
    BY <1>8, <2>1, <2>2, SumIsNat DEF BagOK
  <2>7. CASE m # 1
    <3>0. IsFiniteSet(DOMAIN d)
      BY DEF BagOK
    <3>1. DOMAIN e = DOMAIN d /\ u \in [DOMAIN d -> Nat]
      BY <1>6, <2>7
    <3>2. u[st] = (m - 1) * x
      BY <1>7, <2>2, <2>3, <2>7, <3>1 DEF Weights
    <3>3. SumOver(u) = SumOver(w) - w[st] + u[st]
      BY <2>4, <3>0, <3>1, SumChanges, ZenonT(40)
    <3>4. (m - 1) * x = m * x - x /\ m * x \in Nat
      OBVIOUS
    <3> QED
      BY <2>1, <2>2, <2>3, <2>5, <2>6, <3>2, <3>3, <3>4 DEF Lying
  <2>8. CASE m = 1
    <3>1. DOMAIN e = DOMAIN d \ {st} /\ IsFiniteSet(DOMAIN e)
      BY <1>6, <1>8, <2>8 DEF BagOK
    <3>2. IsFiniteSet(DOMAIN d)
      BY DEF BagOK
    <3>3. \A y \in DOMAIN e : u[y] = w[y]
      BY <2>4, <3>1
    <3>4. SumOver(w) = SumOver(u) + w[st]
      BY <3>1, <3>2, <3>3, SumShrinks
    <3>5. w[st] = x
      BY <2>5, <2>8
    <3> QED
      BY <2>1, <2>2, <2>3, <3>4, <3>5 DEF Lying
  <2> QED
    BY <2>7, <2>8
<1> QED
  BY <1>8, <1>9

----------------------------------------------------------------------------
(* What the handlers do to a row and to the mouse.                         *)

Row == [1..RowLength -> GoodStacks]
ChestRow == [1..ChestLength -> GoodStacks]

LEMMA Lengths == RowLength \in Nat /\ ChestLength \in Nat
BY InventoryAssumption DEF InventoryAssumption

LEMMA AmountIsNat ==
  ASSUME NEW n \in Nat, NEW v \in [1..n -> GoodStacks], NEW id
  PROVE  Amount(v, id) \in Nat
BY CountsOfRow

LEMMA LoseOneIs ==
  ASSUME NEW v \in Row, NEW i \in 1..RowLength, v[i].n > 0
  PROVE  /\ LoseOne(v, i, v[i]) \in Row
         /\ \A id : Amount(LoseOne(v, i, v[i]), id) =
                      Amount(v, id) - (IF id = v[i].id THEN 1 ELSE 0)
<1>1. v[i].id \in Ids /\ v[i].n \in Nat \ {0}
  BY GoodStack DEF Row
<1>2. PICK st : st = IF v[i].n = 1 THEN Nothing ELSE Stack(v[i].id, v[i].n - 1)
  OBVIOUS
<1>3. st \in GoodStacks
  <2>1. CASE v[i].n = 1
    BY <1>2, <2>1, NothingGood
  <2>2. CASE v[i].n # 1
    <3>1. v[i].n - 1 \in Nat /\ v[i].n - 1 > 0
      BY <1>1, <2>2
    <3> QED
      BY <1>1, <1>2, <2>2, <3>1, MakeStack
  <2> QED
    BY <2>1, <2>2
<1>4. PICK w : w = LoseOne(v, i, v[i])
  OBVIOUS
<1>5. w = [v EXCEPT ![i] = st]
  BY <1>2, <1>4 DEF LoseOne
<1>6. /\ w \in [1..RowLength -> GoodStacks]
      /\ \A id : Amount(w, id) = Amount(v, id) - OfId(v[i], id) + OfId(st, id)
  <2>1. w \in [1..RowLength -> GoodStacks] /\ w[i] = st
    BY <1>3, <1>5 DEF Row
  <2>2. \A k \in (1..RowLength) \ {i} : w[k] = v[k]
    BY <1>5 DEF Row
  <2>3. v \in [1..RowLength -> GoodStacks]
    BY DEF Row
  <2>4. \A id : Amount(w, id) = Amount(v, id) - OfId(v[i], id) + OfId(w[i], id)
    BY <2>1, <2>2, <2>3, AmountChanges, Lengths
  <2> QED
    BY <2>1, <2>4
<1>7. ASSUME NEW id
      PROVE  Amount(w, id) = Amount(v, id) - (IF id = v[i].id THEN 1 ELSE 0)
  <2>1. PICK a \in Nat : a = Amount(v, id)
    BY AmountIsNat, Lengths DEF Row
  <2>2. CASE id = v[i].id
    <3>1. OfId(v[i], id) = v[i].n /\ OfId(st, id) = v[i].n - 1
      BY <1>1, <1>2, <2>2 DEF OfId, Nothing, Stack
    <3> QED
      BY <1>1, <1>6, <2>1, <2>2, <3>1
  <2>3. CASE id # v[i].id
    <3>1. OfId(v[i], id) = 0 /\ OfId(st, id) = 0
      BY <1>2, <2>3 DEF OfId, Nothing, Stack
    <3> QED
      BY <1>6, <2>1, <2>3, <3>1
  <2> QED
    BY <2>2, <2>3
<1> QED
  BY <1>4, <1>6, <1>7 DEF Row

(* Food in the hand is one less, and never the last slot of something else.*)
LEMMA EatIs ==
  ASSUME NEW v \in Row, NEW i \in 1..RowLength, NEW held, Eat(v, i, held),
         held.id \in Foods => v[i] = held, health \in 1..20
  PROVE  /\ inv' \in Row
         /\ \A id : Amount(inv', id) \in Nat /\ Amount(inv', id) <= Amount(v, id)
         /\ health' \in 1..20
<1>1. \A id : Amount(v, id) \in Nat
  BY AmountIsNat, Lengths DEF Row
<1>2. CASE held.id \in Foods
  <2>1. v[i] = held /\ held.id # 0
    BY <1>2, InventoryAssumption DEF InventoryAssumption
  <2>2. v[i].n > 0
    BY <2>1, GoodStack DEF Row
  <2>3. inv' = LoseOne(v, i, v[i]) /\ health' = Min({health + 6, 20})
    BY <1>2, <2>1 DEF Eat
  <2>4. inv' \in Row
    BY <2>2, <2>3, LoseOneIs
  <2>5. ASSUME NEW id PROVE Amount(inv', id) \in Nat /\ Amount(inv', id) <= Amount(v, id)
    <3>1. Amount(inv', id) = Amount(v, id) - (IF id = v[i].id THEN 1 ELSE 0)
      BY <2>2, <2>3, LoseOneIs
    <3>2. Amount(inv', id) \in Nat
      BY <2>4, AmountIsNat, Lengths DEF Row
    <3> QED
      BY <1>1, <3>1, <3>2
  <2>6. health + 6 \in Int /\ Min({health + 6, 20}) = IF health + 6 <= 20 THEN health + 6 ELSE 20
    BY MinOfTwo
  <2>7. health' \in 1..20
    BY <2>3, <2>6
  <2> QED
    BY <2>4, <2>5, <2>7
<1>3. CASE held.id \notin Foods
  BY <1>1, <1>3 DEF Eat
<1> QED
  BY <1>2, <1>3

(* A click moves stacks about and loses none of them.                      *)
LEMMA ClickedIs ==
  ASSUME NEW slot \in GoodStacks, mouse \in GoodStacks
  PROVE  /\ Clicked(slot).slot \in GoodStacks /\ Clicked(slot).mouse \in GoodStacks
         /\ \A id : OfId(Clicked(slot).slot, id) + OfId(Clicked(slot).mouse, id) =
                      OfId(slot, id) + OfId(mouse, id)
<1>1. CASE slot.id = mouse.id
  <2>1. PICK st : st = Stack(slot.id, slot.n + mouse.n)
    OBVIOUS
  <2>2. Clicked(slot).slot = st /\ Clicked(slot).mouse = Nothing
    BY <1>1, <2>1 DEF Clicked, Merge
  <2>3. /\ slot.id \in Ids \cup {0} /\ slot.n \in Nat /\ (slot.id = 0 <=> slot.n = 0)
        /\ mouse.n \in Nat /\ (mouse.id = 0 <=> mouse.n = 0)
    BY GoodStack
  <2>4. st \in GoodStacks
    BY <1>1, <2>1, <2>3 DEF GoodStacks, Stacks, WellFormed, Stack
  <2>5. \A id : OfId(st, id) + OfId(Nothing, id) = OfId(slot, id) + OfId(mouse, id)
    BY <1>1, <2>1, <2>3 DEF OfId, Nothing, Stack
  <2> QED
    BY <2>2, <2>4, <2>5, NothingGood
<1>2. CASE slot.id # mouse.id
  <2>1. Clicked(slot).slot = mouse /\ Clicked(slot).mouse = slot
    BY <1>2 DEF Clicked
  <2>2. \A id : OfId(slot, id) \in Nat /\ OfId(mouse, id) \in Nat
    BY OfIdIsNat
  <2> QED
    BY <2>1, <2>2
<1> QED
  BY <1>1, <1>2

----------------------------------------------------------------------------
(* The inductive invariant.                                                *)

Upright(w) == /\ w \in [Spots -> Blocks]
              /\ \A s \in Spots : w[s].id # Door => ~w[s].top
WorldInv == Upright(world)
ItemsInv == /\ inv \in Row /\ mouse \in GoodStacks
            /\ chests \in [Spots -> ChestRow \cup {Absent}]
            /\ BagOK(drops)
ScreenInv == /\ openChest \in Opened \cup {Absent}
             /\ crafting \in BOOLEAN /\ smallTable \in BOOLEAN /\ building \in BOOLEAN
             /\ offered \subseteq Recipes
LifeInv == health \in 1..20 /\ deaths \in 0..MaxDeaths /\ stamps \in 0..MaxStamps
IInv == WorldInv /\ ItemsInv /\ ScreenInv /\ LifeInv

LEMMA AbsentIsNoChest == Absent \notin ChestRow
<1>1. GoodStacks \subseteq Stacks
  BY DEF GoodStacks
<1> QED
  BY <1>1, InventoryAssumption DEF InventoryAssumption, ChestRow

LEMMA IInvTypes == IInv => TypeOK
<1> SUFFICES ASSUME IInv PROVE TypeOK
  OBVIOUS
<1>2. \A s \in Spots : chests[s] # Absent => chests[s] \in ChestRow
  BY DEF IInv, ItemsInv
<1>3. ASSUME NEW st \in AllStacks PROVE st \in GoodStacks
  <2>1. CASE \E i \in 1..RowLength : st = inv[i]
    BY <2>1 DEF IInv, ItemsInv, Row
  <2>2. CASE st = mouse
    BY <2>2 DEF IInv, ItemsInv
  <2>3. CASE st \in DOMAIN drops
    BY <2>3 DEF IInv, ItemsInv, BagOK
  <2>4. CASE \E s \in Spots, k \in 1..ChestLength : chests[s] # Absent /\ st = chests[s][k]
    BY <1>2, <2>4 DEF ChestRow
  <2> QED
    BY <1>3, <2>1, <2>2, <2>3, <2>4 DEF AllStacks, BagToSet
<1>4. \A st \in AllStacks : st \in Stacks /\ WellFormed(st)
  BY <1>3 DEF GoodStacks
<1>5. DOMAIN inv = 1..RowLength
  BY DEF IInv, ItemsInv, Row
<1>6. /\ openChest \in {s \in Spots : chests[s] # Absent} \cup {Absent}
      /\ crafting \in BOOLEAN /\ smallTable \in BOOLEAN /\ building \in BOOLEAN
      /\ offered \subseteq Recipes
  BY DEF IInv, ScreenInv, Opened
<1>7. health \in 1..20 /\ deaths \in 0..MaxDeaths /\ stamps \in 0..MaxStamps
  BY DEF IInv, LifeInv
<1>8. world \in [Spots -> Blocks]
  BY DEF IInv, WorldInv, Upright
<1> QED
  BY <1>4, <1>5, <1>6, <1>7, <1>8 DEF TypeOK

LEMMA InitIInv == Init => IInv
<1> SUFFICES ASSUME Init PROVE IInv
  OBVIOUS
<1>1. PICK game \in Games : /\ world = [s \in Spots |-> Plain(game.column[s])]
                            /\ deaths = game.deaths /\ stamps = game.stamps
  BY DEF Init
<1>2. /\ game.column \in [Spots -> (Ids \cup {0}) \ {Door}]
      /\ game.deaths \in 0..MaxDeaths /\ game.stamps \in 0..MaxStamps
  BY InventoryAssumption DEF InventoryAssumption
<1>3. ASSUME NEW s \in Spots
      PROVE  world[s] \in Blocks /\ world[s].id # Door /\ ~world[s].top
  <2>1. game.column[s] \in Ids \cup {0} /\ game.column[s] # Door
    BY <1>2
  <2> QED
    BY <1>1, <2>1 DEF Plain, Blocks
<1>4. WorldInv
  <2>1. world \in [Spots -> Blocks]
    BY <1>1, <1>3
  <2> QED
    BY <1>3, <2>1 DEF WorldInv, Upright
<1>5. ItemsInv
  <2>1. StartingItems \in Row
    BY InventoryAssumption DEF InventoryAssumption, Row, GoodStacks
  <2>2. BagOK(EmptyBag)
    BY FS_EmptySet DEF BagOK, EmptyBag, SetToBag
  <2> QED
    BY <2>1, <2>2, NothingGood DEF Init, ItemsInv
<1>6. ScreenInv
  BY DEF Init, ScreenInv
<1>7. LifeInv
  <2>1. deaths \in 0..MaxDeaths /\ stamps \in 0..MaxStamps
    BY <1>1, <1>2
  <2>2. health = 20
    BY DEF Init
  <2> QED
    BY <2>1, <2>2 DEF LifeInv
<1> QED
  BY <1>4, <1>5, <1>6, <1>7 DEF IInv

LEMMA AffordableAre == \A v, small : Affordable(v, small) \subseteq Recipes
BY DEF Affordable

LEMMA CraftIInv ==
  ASSUME IInv, NEW r \in Recipes, CraftOne(r) \/ CraftAll(r)
  PROVE  IInv'
<1>1. inv \in [1..RowLength -> GoodStacks] /\ RowLength \in Nat
  BY Lengths DEF IInv, ItemsInv, Row
<1>2. CraftedOne(inv, r) \in Row
  BY <1>1, CraftedOneIs DEF Done, Row
<1>3. CraftedAll(inv, r) \in Row
  BY <1>1, CraftedAllIs DEF Done, Row
<1>4. inv' \in Row /\ offered' \subseteq Recipes
  BY <1>2, <1>3, AffordableAre DEF CraftOne, CraftAll, Craft
<1>5. UNCHANGED <<world, mouse, chests, drops, screenVars, lifeVars>>
  BY DEF CraftOne, CraftAll, Craft
<1>6. ItemsInv'
  BY <1>4, <1>5 DEF IInv, ItemsInv
<1>7. WorldInv' /\ ScreenInv' /\ LifeInv'
  BY <1>4, <1>5 DEF IInv, WorldInv, ScreenInv, LifeInv, Opened, screenVars, lifeVars
<1> QED
  BY <1>6, <1>7 DEF IInv

(* The keys and the frame touch nothing but the screens.                   *)
LEMMA ScreensIInv ==
  ASSUME IInv, UpdateInventory \/ CraftKey \/ CloseCrafting \/ Exit \/ BuildKey
  PROVE  IInv'
<1>1. UNCHANGED <<world, itemVars, lifeVars>>
  BY DEF UpdateInventory, CraftKey, CloseCrafting, Exit, BuildKey
<1>2. ScreenInv'
  BY <1>1, AffordableAre
  DEF UpdateInventory, CraftKey, CloseCrafting, Exit, BuildKey, IInv, ScreenInv,
      Opened, itemVars, screenVars
<1>3. WorldInv' /\ ItemsInv' /\ LifeInv'
  BY <1>1 DEF IInv, WorldInv, ItemsInv, LifeInv, itemVars, lifeVars
<1> QED
  BY <1>2, <1>3 DEF IInv

(* Drops.                                                                  *)
LEMMA SlotForDrop ==
  ASSUME NEW n \in Nat, NEW v \in [1..n -> GoodStacks], NEW id,
         SlotsFor(v, id) # {}
  PROVE  \E i \in 1..n : i = Min(SlotsFor(v, id)) /\ v[i].id \in {0, id}
<1>1. SlotsFor(v, id) \subseteq 1..n
  BY DEF SlotsFor
<1>2. Min(SlotsFor(v, id)) \in SlotsFor(v, id)
  BY <1>1, MinIsIn
<1>3. \A i \in SlotsFor(v, id) : v[i].id \in {0, id}
  BY DEF SlotsFor
<1> QED
  BY <1>1, <1>2, <1>3

(* What was picked up is in the row, and no more than that.                *)
LEMMA PickUpRow ==
  ASSUME ItemsInv, NEW stack \in DOMAIN drops, PickUp(stack)
  PROVE  /\ inv' \in Row
         /\ \A id : id # 0 => Amount(inv', id) = Amount(inv, id) + OfId(stack, id)
<1>1. inv \in [1..RowLength -> GoodStacks] /\ RowLength \in Nat
  BY Lengths DEF ItemsInv, Row
<1>2. stack \in GoodStacks
  BY DEF ItemsInv, BagOK
<1>3. PICK i \in 1..RowLength : /\ i = Min(SlotsFor(inv, stack.id))
                                /\ inv[i].id \in {0, stack.id}
  BY <1>1, SlotForDrop DEF PickUp
<1>4. PICK st : st = Stack(stack.id, inv[i].n + stack.n)
  OBVIOUS
<1>5. inv' = [inv EXCEPT ![i] = st]
  BY <1>3, <1>4 DEF PickUp
<1>6. /\ stack.id \in Ids \cup {0} /\ stack.n \in Nat /\ (stack.id = 0 <=> stack.n = 0)
      /\ inv[i].n \in Nat /\ (inv[i].id = 0 <=> inv[i].n = 0)
  BY <1>1, <1>2, GoodStack
<1>7. st \in GoodStacks
  BY <1>3, <1>4, <1>6 DEF GoodStacks, Stacks, WellFormed, Stack
<1>8. inv' \in [1..RowLength -> GoodStacks] /\ inv'[i] = st
  BY <1>1, <1>5, <1>7
<1>9. \A k \in (1..RowLength) \ {i} : inv'[k] = inv[k]
  BY <1>1, <1>5
<1>10. ASSUME NEW id, id # 0 PROVE Amount(inv', id) = Amount(inv, id) + OfId(stack, id)
  <2>1. Amount(inv', id) = Amount(inv, id) - OfId(inv[i], id) + OfId(inv'[i], id)
    BY <1>1, <1>8, <1>9, AmountChanges
  <2>2. PICK a \in Nat : a = Amount(inv, id)
    BY <1>1, AmountIsNat
  <2>3. CASE id = stack.id
    <3>1. OfId(inv[i], id) = inv[i].n
      BY <1>3, <1>6, <1>10, <2>3 DEF OfId
    <3>2. OfId(st, id) = inv[i].n + stack.n /\ OfId(stack, id) = stack.n
      BY <1>4, <2>3 DEF OfId, Stack
    <3> QED
      BY <1>6, <1>8, <2>1, <2>2, <3>1, <3>2
  <2>4. CASE id # stack.id
    <3>1. OfId(inv[i], id) = 0 /\ OfId(st, id) = 0 /\ OfId(stack, id) = 0
      BY <1>3, <1>4, <1>10, <2>4 DEF OfId, Stack
    <3> QED
      BY <1>8, <2>1, <2>2, <3>1
  <2> QED
    BY <2>3, <2>4
<1> QED
  BY <1>8, <1>10 DEF Row

LEMMA PickUpIInv ==
  ASSUME IInv, NEW stack \in DOMAIN drops, PickUp(stack)
  PROVE  IInv'
<1>1. inv' \in Row
  BY PickUpRow DEF IInv
<1>2. BagOK(drops')
  BY BagShrinks DEF PickUp, IInv, ItemsInv
<1>3. UNCHANGED <<world, mouse, chests, screenVars, lifeVars>>
  BY DEF PickUp
<1>4. offered' \subseteq Recipes
  BY AffordableAre DEF PickUp
<1>5. ItemsInv'
  BY <1>1, <1>2, <1>3 DEF IInv, ItemsInv
<1>6. WorldInv' /\ ScreenInv' /\ LifeInv'
  BY <1>3, <1>4 DEF IInv, WorldInv, ScreenInv, LifeInv, Opened, screenVars, lifeVars
<1> QED
  BY <1>5, <1>6 DEF IInv

(* Breaking.                                                               *)
Gone(s) == CASE world[s].id = Crystals -> Patch(s)
             [] world[s].id = Door -> {s, OtherHalf(s)}
             [] OTHER -> {s}

LEMMA PatchIs ==
  ASSUME NEW s \in Spots, world[s].id = Crystals
  PROVE  /\ s \in Patch(s)
         /\ \A t \in Patch(s) : t \in Spots /\ world[t].id = Crystals
<1>1. ASSUME NEW t \in Patch(s) PROVE t \in Spots /\ world[t].id = Crystals
  <2>1. t \in Spots /\ \A u \in Min({s, t})..Max({s, t}) : world[u].id = Crystals
    BY DEF Patch
  <2>2. s \in Int /\ t \in Int
    BY <2>1 DEF Spots
  <2>3. t \in Min({s, t})..Max({s, t})
    BY <2>2, MinOfTwo, MaxOfTwo
  <2> QED
    BY <2>1, <2>3
<1>2. s \in Patch(s)
  <2>1. s \in Int
    BY DEF Spots
  <2>2. Min({s, s}) = s /\ Max({s, s}) = s
    BY <2>1, MinOfTwo, MaxOfTwo
  <2>3. \A u \in s..s : u = s
    BY <2>1
  <2> QED
    BY <2>2, <2>3 DEF Patch
<1> QED
  BY <1>1, <1>2

LEMMA OtherHalfIs ==
  ASSUME NEW s
  PROVE  OtherHalf(s) = Other(world, s)
BY DEF OtherHalf, Other

LEMMA BreakWorld ==
  ASSUME NEW s \in Spots, Break(s)
  PROVE  /\ world' = Emptied(world, Gone(s))
         /\ \E st \in {Stack(what, 1) : what \in IF world[s].id = Crystals
                                                   THEN {RedCrystal}
                                                   ELSE Dropped(world[s].id)} :
              drops' = drops (+) SetToBag({st})
         /\ world[s].id # 0
         /\ UNCHANGED <<inv, mouse, chests, screenVars, offered, lifeVars>>
BY DEF Break, Emptied, Gone, Drop, Solid

LEMMA BrokenStack ==
  ASSUME WorldInv, NEW s \in Spots, world[s].id # 0,
         NEW what \in IF world[s].id = Crystals THEN {RedCrystal}
                                                ELSE Dropped(world[s].id)
  PROVE  Stack(what, 1) \in GoodStacks
<1>1. world[s].id \in Ids
  BY DEF WorldInv, Upright, Blocks
<1>2. what \in Ids
  BY <1>1, InventoryAssumption DEF InventoryAssumption, Dropped
<1> QED
  BY <1>2, MakeStack

LEMMA BreakIInv ==
  ASSUME IInv, NEW s \in Spots, Break(s)
  PROVE  IInv'
<1>1. world \in [Spots -> Blocks] /\ Upright(world) /\ WorldInv
  BY DEF IInv, WorldInv, Upright
<1>2. UNCHANGED <<inv, mouse, chests, screenVars, offered, lifeVars>>
  BY BreakWorld
<1>4. Upright(Emptied(world, Gone(s)))
  <2>1. Air \in Blocks /\ ~Air.top
    BY DEF Air, Plain, Blocks
  <2> QED
    BY <1>1, <2>1 DEF Emptied, Upright
<1>5. WorldInv'
  BY <1>4, BreakWorld DEF WorldInv
<1>6. BagOK(drops')
  <2>1. PICK st \in GoodStacks : drops' = drops (+) SetToBag({st})
    BY <1>1, BreakWorld, BrokenStack
  <2> QED
    BY <2>1, BagGrows DEF IInv, ItemsInv
<1>7. ItemsInv' /\ ScreenInv' /\ LifeInv'
  BY <1>2, <1>6 DEF IInv, ItemsInv, ScreenInv, LifeInv, Opened, screenVars, lifeVars
<1> QED
  BY <1>5, <1>7 DEF IInv

(* Using what is in the hand: the row and the health.                      *)
LEMMA UseEats ==
  ASSUME IInv, NEW i \in 1..RowLength, Eat(inv, i, inv[i])
  PROVE  /\ inv' \in Row /\ health' \in 1..20
         /\ \A id : Amount(inv', id) \in Nat /\ Amount(inv', id) <= Amount(inv, id)
BY EatIs DEF IInv, ItemsInv, LifeInv

LEMMA UseDoorIInv ==
  ASSUME IInv, NEW i \in 1..RowLength, NEW s \in Spots, UseDoor(s, i)
  PROVE  IInv'
<1>1. world \in [Spots -> Blocks] /\ Upright(world)
  BY DEF IInv, WorldInv, Upright
<1>2. world[s].id = Door /\ world' = Toggled(world, {s, Other(world, s)})
  BY OtherHalfIs DEF UseDoor, Toggled
<1>3. Upright(world')
  BY <1>1, <1>2, ToggledIs DEF Upright
<1>5. inv' \in Row /\ health' \in 1..20
  BY UseEats DEF UseDoor
<1>6. UNCHANGED <<mouse, chests, drops, screenVars, offered, deaths, stamps>>
  BY DEF UseDoor
<1>7. WorldInv'
  BY <1>3 DEF WorldInv
<1>8. ItemsInv' /\ ScreenInv' /\ LifeInv'
  BY <1>5, <1>6 DEF IInv, ItemsInv, ScreenInv, LifeInv, Opened, screenVars
<1> QED
  BY <1>7, <1>8 DEF IInv

LEMMA EmptyChestIs ==
  /\ EmptyChest \in ChestRow
  /\ \A id : Amount(EmptyChest, id) = 0
<1>1. EmptyChest \in ChestRow
  BY NothingGood DEF EmptyChest, ChestRow
<1>2. ASSUME NEW id PROVE Amount(EmptyChest, id) = 0
  <2>1. PICK f : f = Counts(EmptyChest, id)
    OBVIOUS
  <2>2. /\ \A k \in 1..ChestLength : f[k] = OfId(EmptyChest[k], id)
        /\ Amount(EmptyChest, id) = Sums(f, ChestLength)[ChestLength]
    BY <1>1, <2>1, CountsOfRow, Lengths DEF ChestRow
  <2>3. \A k \in 1..ChestLength : f[k] = 0
    BY <2>2, NothingGood DEF EmptyChest
  <2> QED
    BY <2>2, <2>3, SumsOfNothing, Lengths
<1> QED
  BY <1>1, <1>2

LEMMA UseChestIInv ==
  ASSUME IInv, NEW i \in 1..RowLength, NEW s \in Spots, UseChest(s, i)
  PROVE  IInv'
<1>1. UNCHANGED <<world, mouse, drops, crafting, smallTable, building, deaths,
                stamps>>
  BY DEF UseChest
<1>2. inv' \in Row /\ health' \in 1..20
  BY UseEats DEF UseChest
<1>3. /\ chests' \in [Spots -> ChestRow \cup {Absent}]
      /\ chests'[s] # Absent
  <2>1. chests \in [Spots -> ChestRow \cup {Absent}]
    BY DEF IInv, ItemsInv
  <2>2. chests' = [chests EXCEPT ![s] = IF chests[s] = Absent THEN EmptyChest ELSE chests[s]]
    BY DEF UseChest
  <2>3. EmptyChest \in ChestRow /\ EmptyChest # Absent
    BY EmptyChestIs, AbsentIsNoChest
  <2> QED
    BY <2>1, <2>2, <2>3
<1>4. openChest' = s /\ offered' \subseteq Recipes
  BY AffordableAre DEF UseChest
<1>5. ScreenInv'
  <2>1. openChest' \in Opened'
    BY <1>3, <1>4 DEF Opened
  <2> QED
    BY <1>1, <1>4, <2>1 DEF IInv, ScreenInv
<1>6. WorldInv' /\ ItemsInv' /\ LifeInv'
  BY <1>1, <1>2, <1>3 DEF IInv, WorldInv, ItemsInv, LifeInv
<1> QED
  BY <1>5, <1>6 DEF IInv

LEMMA UseTableIInv ==
  ASSUME IInv, NEW i \in 1..RowLength,
         UseNothing(i) \/ \E s \in Spots : UseTable(s, i)
  PROVE  IInv'
<1>1. UNCHANGED <<world, mouse, chests, drops, openChest, building, offered,
                deaths, stamps>>
  BY DEF UseTable, UseNothing, screenVars
<1>2. inv' \in Row /\ health' \in 1..20
  BY UseEats DEF UseTable, UseNothing
<1>3. crafting' \in BOOLEAN /\ smallTable' \in BOOLEAN
  BY DEF UseTable, UseNothing, screenVars, IInv, ScreenInv
<1>4. ScreenInv'
  BY <1>1, <1>3 DEF IInv, ScreenInv, Opened
<1>5. WorldInv' /\ ItemsInv' /\ LifeInv'
  BY <1>1, <1>2 DEF IInv, WorldInv, ItemsInv, LifeInv
<1> QED
  BY <1>4, <1>5 DEF IInv

(* A block is put, or a door, or nothing at all.                           *)
LEMMA WithBlockIs ==
  ASSUME WorldInv, NEW s \in Spots, world[s].id \in Overwritable,
         NEW id \in Ids
  PROVE  \/ WithBlock(id, s) = world
         \/ /\ id # Door /\ id \notin NonPlaceable
            /\ WithBlock(id, s) = [world EXCEPT ![s] = Plain(id)]
         \/ /\ id = Door /\ s + 1 \in Spots /\ world[s + 1] = Air
            /\ WithBlock(id, s) = [world EXCEPT ![s] = DoorHalf(FALSE),
                                                ![s + 1] = DoorHalf(TRUE)]
<1>1. CASE id = Door
  <2>1. CASE DoorFits(s)
    <3>1. At(s + 1) = Air
      BY <2>1 DEF DoorFits
    <3>2. s + 1 \in Spots /\ world[s + 1] = Air
      BY <3>1 DEF At, Air, Plain, Table
    <3> QED
      BY <1>1, <2>1, <3>2 DEF WithBlock, WithDoor
  <2>2. CASE ~DoorFits(s)
    BY <1>1, <2>2 DEF WithBlock, WithDoor
  <2> QED
    BY <2>1, <2>2
<1>2. CASE id # Door
  BY <1>2, InventoryAssumption DEF InventoryAssumption, WithBlock, Placeable
<1> QED
  BY <1>1, <1>2

LEMMA PlaceRow ==
  ASSUME IInv, NEW s \in Spots, NEW i \in 1..RowLength, Place(s, i)
  PROVE  /\ inv' \in Row /\ health' \in 1..20
         /\ inv[i].id \in Ids
         /\ \A id : Amount(inv', id) \in Nat /\ Amount(inv', id) <= Amount(inv, id)
         /\ inv[i].id \notin NonPlaceable =>
              Amount(inv', inv[i].id) = Amount(inv, inv[i].id) - 1
<1>1. inv \in Row /\ health \in 1..20 /\ inv[i].n > 0
  BY DEF Place, IInv, ItemsInv, LifeInv
<1>2. inv[i].id \in Ids
  BY <1>1, GoodStack DEF Row
<1>3. \A id : Amount(inv, id) \in Nat
  BY <1>1, AmountIsNat, Lengths DEF Row
<1>4. CASE inv[i].id \in NonPlaceable
  <2>1. Eat(inv, i, inv[i])
    BY <1>4 DEF Place, Placeable
  <2> QED
    BY <1>2, <1>4, <2>1, UseEats
<1>5. CASE inv[i].id \notin NonPlaceable
  <2>1. inv[i].id \notin Foods
    BY <1>5, InventoryAssumption DEF InventoryAssumption
  <2>2. inv' = LoseOne(inv, i, inv[i]) /\ health' = health
    BY <1>5, <2>1 DEF Place, Placeable, Eat
  <2>3. /\ inv' \in Row
        /\ \A id : Amount(inv', id) =
                     Amount(inv, id) - (IF id = inv[i].id THEN 1 ELSE 0)
    BY <1>1, <2>2, LoseOneIs
  <2>4. \A id : Amount(inv', id) \in Nat
    BY <2>3, AmountIsNat, Lengths DEF Row
  <2>5. \A id : Amount(inv', id) <= Amount(inv, id)
    BY <1>3, <2>3, <2>4
  <2>6. Amount(inv', inv[i].id) = Amount(inv, inv[i].id) - 1
    BY <2>3
  <2> QED
    BY <1>1, <1>2, <2>2, <2>3, <2>4, <2>5, <2>6
<1> QED
  BY <1>4, <1>5

LEMMA PlaceIInv ==
  ASSUME IInv, NEW s \in Spots, NEW i \in 1..RowLength, Place(s, i)
  PROVE  IInv'
<1>1. world \in [Spots -> Blocks] /\ Upright(world) /\ WorldInv
  BY DEF IInv, WorldInv, Upright
<1>2. PICK id \in Ids : id = inv[i].id
  BY PlaceRow
<1>3. /\ world[s].id \in Overwritable /\ world' = WithBlock(id, s)
      /\ UNCHANGED <<mouse, chests, drops, screenVars, offered, deaths, stamps>>
  BY <1>2 DEF Place
<1>5. WorldInv'
  <2>1. CASE world' = world
    BY <1>1, <2>1 DEF WorldInv
  <2>2. CASE id # Door /\ world' = [world EXCEPT ![s] = Plain(id)]
    <3>1. Plain(id) \in Blocks /\ ~Plain(id).top
      BY DEF Plain, Blocks
    <3>2. Upright(world')
      BY <1>1, <2>2, <3>1 DEF Upright
    <3> QED
      BY <3>2 DEF WorldInv
  <2>3. CASE /\ id = Door /\ s + 1 \in Spots /\ world[s + 1] = Air
             /\ world' = [world EXCEPT ![s] = DoorHalf(FALSE), ![s + 1] = DoorHalf(TRUE)]
    <3>1. \A top \in BOOLEAN : DoorHalf(top) \in Blocks /\ DoorHalf(top).id = Door
      BY <1>2, <2>3 DEF DoorHalf, Blocks
    <3>2. Upright(world')
      BY <1>1, <2>3, <3>1 DEF Upright
    <3> QED
      BY <3>2 DEF WorldInv
  <2> QED
    BY <1>1, <1>2, <1>3, <2>1, <2>2, <2>3, WithBlockIs
<1>6. inv' \in Row /\ health' \in 1..20
  BY PlaceRow
<1>7. ItemsInv' /\ ScreenInv' /\ LifeInv'
  BY <1>3, <1>6 DEF IInv, ItemsInv, ScreenInv, LifeInv, Opened, screenVars
<1> QED
  BY <1>5, <1>7 DEF IInv

(* Clicks into an open chest.                                              *)
LEMMA ClickChestIs ==
  ASSUME ItemsInv, NEW k \in 1..ChestLength, ClickChest(k), openChest \in Opened
  PROVE  /\ chests' \in [Spots -> ChestRow \cup {Absent}]
         /\ openChest \in Spots /\ chests[openChest] \in ChestRow
         /\ chests'[openChest] \in ChestRow
         /\ \A s \in Spots \ {openChest} : chests'[s] = chests[s]
         /\ mouse' \in GoodStacks
         /\ \A id : Amount(chests'[openChest], id) + OfId(mouse', id) =
                      Amount(chests[openChest], id) + OfId(mouse, id)
<1>1. PICK c : c = openChest
  OBVIOUS
<1>2. c \in Spots /\ chests[c] \in ChestRow
  BY <1>1 DEF Opened, ItemsInv
<1>3. PICK v : v = chests[c]
  OBVIOUS
<1>4. v \in [1..ChestLength -> GoodStacks] /\ v[k] \in GoodStacks
  BY <1>2, <1>3 DEF ChestRow
<1>5. PICK st : st = Clicked(v[k]).slot
  OBVIOUS
<1>6. /\ st \in GoodStacks /\ mouse' \in GoodStacks
      /\ \A id : OfId(st, id) + OfId(mouse', id) = OfId(v[k], id) + OfId(mouse, id)
  <2>1. mouse' = Clicked(v[k]).mouse
    BY <1>1, <1>3 DEF ClickChest, AfterClick
  <2>2. mouse \in GoodStacks
    BY DEF ItemsInv
  <2> QED
    BY <1>4, <1>5, <2>1, <2>2, ClickedIs
<1>7. PICK w : w = [v EXCEPT ![k] = st]
  OBVIOUS
<1>8. w \in [1..ChestLength -> GoodStacks] /\ w[k] = st
  BY <1>4, <1>6, <1>7
<1>9. \A j \in (1..ChestLength) \ {k} : w[j] = v[j]
  BY <1>4, <1>7
<1>10. chests' = [chests EXCEPT ![c] = w]
  BY <1>1, <1>3, <1>5, <1>7 DEF ClickChest
<1>11. chests \in [Spots -> ChestRow \cup {Absent}] /\ w \in ChestRow
  BY <1>8 DEF ItemsInv, ChestRow
<1>12. /\ chests' \in [Spots -> ChestRow \cup {Absent}] /\ chests'[c] = w
       /\ \A s \in Spots \ {c} : chests'[s] = chests[s]
  BY <1>2, <1>10, <1>11
<1>13. ASSUME NEW id
       PROVE  Amount(w, id) + OfId(mouse', id) = Amount(v, id) + OfId(mouse, id)
  <2>1. Amount(w, id) = Amount(v, id) - OfId(v[k], id) + OfId(w[k], id)
    BY <1>4, <1>8, <1>9, AmountChanges, Lengths
  <2>2. PICK a \in Nat : a = Amount(v, id)
    BY <1>4, AmountIsNat, Lengths
  <2>3. /\ OfId(v[k], id) \in Nat /\ OfId(st, id) \in Nat
        /\ OfId(mouse, id) \in Nat /\ OfId(mouse', id) \in Nat
    BY <1>4, <1>6, OfIdIsNat DEF ItemsInv
  <2>4. OfId(st, id) + OfId(mouse', id) = OfId(v[k], id) + OfId(mouse, id)
    BY <1>6
  <2>5. PICK x \in Nat : x = OfId(v[k], id)
    BY <2>3
  <2>6. PICK y \in Nat : y = OfId(st, id)
    BY <2>3
  <2>7. Amount(w, id) = a - x + y
    BY <1>8, <2>1, <2>2, <2>5, <2>6
  <2>8. y + OfId(mouse', id) = x + OfId(mouse, id)
    BY <2>4, <2>5, <2>6
  <2> QED
    BY <2>2, <2>3, <2>7, <2>8
<1> QED
  BY <1>1, <1>2, <1>3, <1>6, <1>11, <1>12, <1>13

LEMMA ClickChestIInv ==
  ASSUME IInv, NEW k \in 1..ChestLength, ClickChest(k)
  PROVE  IInv'
<1>1. openChest \in Opened
  BY DEF ClickChest, IInv, ScreenInv
<1>2. /\ chests' \in [Spots -> ChestRow \cup {Absent}]
      /\ chests'[openChest] \in ChestRow
      /\ \A s \in Spots \ {openChest} : chests'[s] = chests[s]
      /\ mouse' \in GoodStacks
  BY <1>1, ClickChestIs DEF IInv
<1>3. UNCHANGED <<world, inv, drops, screenVars, lifeVars>>
  BY DEF ClickChest
<1>4. offered' \subseteq Recipes
  BY AffordableAre DEF ClickChest, AfterClick, IInv, ScreenInv
<1>5. openChest' \in Opened'
  <2>1. openChest' = openChest /\ openChest \in Spots
    BY <1>1, <1>3 DEF screenVars, Opened
  <2> QED
    BY <1>2, <2>1, AbsentIsNoChest DEF Opened
<1>6. ScreenInv'
  BY <1>3, <1>4, <1>5 DEF IInv, ScreenInv, screenVars
<1>7. WorldInv' /\ ItemsInv' /\ LifeInv'
  BY <1>2, <1>3 DEF IInv, WorldInv, ItemsInv, LifeInv, lifeVars
<1> QED
  BY <1>6, <1>7 DEF IInv

LEMMA ClickInvIs ==
  ASSUME ItemsInv, NEW i \in 1..RowLength, ClickInv(i)
  PROVE  /\ inv' \in Row /\ mouse' \in GoodStacks
         /\ \A id : Amount(inv', id) + OfId(mouse', id) =
                      Amount(inv, id) + OfId(mouse, id)
<1>1. inv \in [1..RowLength -> GoodStacks] /\ inv[i] \in GoodStacks
  BY DEF ItemsInv, Row
<1>2. PICK st : st = Clicked(inv[i]).slot
  OBVIOUS
<1>3. /\ st \in GoodStacks /\ mouse' \in GoodStacks
      /\ \A id : OfId(st, id) + OfId(mouse', id) = OfId(inv[i], id) + OfId(mouse, id)
  <2>1. mouse' = Clicked(inv[i]).mouse
    BY DEF ClickInv, AfterClick
  <2>2. mouse \in GoodStacks
    BY DEF ItemsInv
  <2> QED
    BY <1>1, <1>2, <2>1, <2>2, ClickedIs
<1>4. inv' = [inv EXCEPT ![i] = st]
  BY <1>2 DEF ClickInv
<1>5. inv' \in [1..RowLength -> GoodStacks] /\ inv'[i] = st
  BY <1>1, <1>3, <1>4
<1>6. \A j \in (1..RowLength) \ {i} : inv'[j] = inv[j]
  BY <1>1, <1>4
<1>7. ASSUME NEW id
      PROVE  Amount(inv', id) + OfId(mouse', id) = Amount(inv, id) + OfId(mouse, id)
  <2>1. Amount(inv', id) = Amount(inv, id) - OfId(inv[i], id) + OfId(inv'[i], id)
    BY <1>1, <1>5, <1>6, AmountChanges, Lengths
  <2>2. PICK a \in Nat : a = Amount(inv, id)
    BY <1>1, AmountIsNat, Lengths
  <2>3. /\ OfId(inv[i], id) \in Nat /\ OfId(st, id) \in Nat
        /\ OfId(mouse, id) \in Nat /\ OfId(mouse', id) \in Nat
    BY <1>1, <1>3, OfIdIsNat DEF ItemsInv
  <2>4. OfId(st, id) + OfId(mouse', id) = OfId(inv[i], id) + OfId(mouse, id)
    BY <1>3
  <2>5. PICK x \in Nat : x = OfId(inv[i], id)
    BY <2>3
  <2>6. PICK y \in Nat : y = OfId(st, id)
    BY <2>3
  <2>7. Amount(inv', id) = a - x + y
    BY <1>5, <2>1, <2>2, <2>5, <2>6
  <2>8. y + OfId(mouse', id) = x + OfId(mouse, id)
    BY <2>4, <2>5, <2>6
  <2> QED
    BY <2>2, <2>3, <2>7, <2>8
<1> QED
  BY <1>3, <1>5, <1>7 DEF Row

LEMMA ClickInvIInv ==
  ASSUME IInv, NEW i \in 1..RowLength, ClickInv(i)
  PROVE  IInv'
<1>1. inv' \in Row /\ mouse' \in GoodStacks
  BY ClickInvIs DEF IInv
<1>2. UNCHANGED <<world, chests, drops, screenVars, lifeVars>>
  BY DEF ClickInv
<1>3. offered' \subseteq Recipes
  BY AffordableAre DEF ClickInv, AfterClick, IInv, ScreenInv
<1>4. ScreenInv'
  BY <1>2, <1>3 DEF IInv, ScreenInv, Opened, screenVars
<1>5. WorldInv' /\ ItemsInv' /\ LifeInv'
  BY <1>1, <1>2 DEF IInv, WorldInv, ItemsInv, LifeInv, lifeVars
<1> QED
  BY <1>4, <1>5 DEF IInv

(* A player who dies leaves the stacks of the row on the ground.           *)
LEMMA DroppedStack ==
  ASSUME NEW st \in GoodStacks, NEW d \in AsDrops(st)
  PROVE  d \in GoodStacks
<1>1. PICK id \in Dropped(st.id) : d = Stack(id, st.n)
  BY DEF AsDrops
<1>2. st.id \in Ids \cup {0} /\ st.n \in Nat /\ (st.id = 0 <=> st.n = 0)
  BY GoodStack
<1>3. CASE st.id = Leaves
  <2>1. id \in Ids /\ st.n > 0
    BY <1>1, <1>2, <1>3, InventoryAssumption
    DEF InventoryAssumption, Dropped, Leaves
  <2> QED
    BY <1>1, <1>2, <2>1, MakeStack
<1>4. CASE st.id # Leaves
  <2>1. id = st.id
    BY <1>1, <1>4 DEF Dropped
  <2> QED
    BY <1>1, <2>1, GoodStack
<1> QED
  BY <1>3, <1>4

LEMMA SlotBagOK ==
  ASSUME NEW v \in Row
  PROVE  BagOK(SlotBag(v))
<1>1. DOMAIN v = 1..RowLength /\ IsFiniteSet(1..RowLength)
  BY FS_Interval, Lengths DEF Row
<1>2. DOMAIN SlotBag(v) = {v[i] : i \in 1..RowLength}
  BY <1>1 DEF SlotBag
<1>3. IsFiniteSet({v[i] : i \in 1..RowLength})
  <2>1. v \in Surjection(1..RowLength, {v[i] : i \in 1..RowLength})
    BY DEF Surjection, Row
  <2> QED
    BY <1>1, <2>1, FS_Surjection
<1>4. ASSUME NEW st \in {v[i] : i \in 1..RowLength}
      PROVE  SlotBag(v)[st] \in Nat \ {0}
  <2>1. PICK S : S = {i \in 1..RowLength : v[i] = st}
    OBVIOUS
  <2>2. S \subseteq 1..RowLength /\ S # {}
    BY <1>4, <2>1
  <2>3. IsFiniteSet(S)
    BY <1>1, <2>2, FS_Subset
  <2>4. Cardinality(S) \in Nat /\ Cardinality(S) # 0
    BY <2>2, <2>3, FS_CardinalityType, FS_EmptySet
  <2>5. SlotBag(v)[st] = Cardinality(S)
    BY <1>1, <1>4, <2>1 DEF SlotBag
  <2> QED
    BY <2>4, <2>5
<1>5. SlotBag(v) \in [DOMAIN SlotBag(v) -> Nat \ {0}]
  <2>1. SlotBag(v) = [st \in DOMAIN SlotBag(v) |-> SlotBag(v)[st]]
    BY DEF SlotBag
  <2> QED
    BY <1>2, <1>4, <2>1
<1>6. {v[i] : i \in 1..RowLength} \subseteq GoodStacks
  BY DEF Row
<1> QED
  BY <1>2, <1>3, <1>5, <1>6 DEF BagOK

LEMMA TakeDamageIInv ==
  ASSUME IInv, NEW amount \in Damages, TakeDamage(amount)
  PROVE  IInv'
<1>1. UNCHANGED <<world, mouse, chests, screenVars, offered, stamps>>
  BY DEF TakeDamage
<1>2. WorldInv' /\ ScreenInv'
  BY <1>1 DEF IInv, WorldInv, ScreenInv, Opened, screenVars
<1>3. CASE Hurt(amount) > 0
  <2>1. health' = Hurt(amount) /\ UNCHANGED <<inv, drops, deaths>>
    BY <1>3 DEF TakeDamage
  <2>2. health \in 1..20 /\ amount \in 0..127
    BY InventoryAssumption DEF InventoryAssumption, IInv, LifeInv
  <2>3. health - amount \in Int
    BY <2>2
  <2>4. Hurt(amount) = IF health - amount <= 0 THEN 0 ELSE health - amount
    BY <2>3, MaxOfTwo DEF Hurt
  <2>5. health' \in 1..20
    BY <1>3, <2>1, <2>2, <2>4
  <2> QED
    BY <1>1, <1>2, <2>1, <2>5 DEF IInv, ItemsInv, LifeInv
<1>4. CASE ~(Hurt(amount) > 0)
  <2>1. /\ deaths < MaxDeaths /\ deaths' = deaths + 1 /\ health' = 20
        /\ inv' = StartingItems
    BY <1>4 DEF TakeDamage
  <2>2. LifeInv'
    <3>1. deaths \in 0..MaxDeaths /\ MaxDeaths \in Nat
      BY InventoryAssumption DEF InventoryAssumption, IInv, LifeInv
    <3> QED
      BY <1>1, <2>1, <3>1 DEF IInv, LifeInv
  <2>3. inv' \in Row
    BY <2>1, InventoryAssumption DEF InventoryAssumption, Row, GoodStacks
  <2>4. PICK v \in DroppedRows : drops' = drops (+) SlotBag(v)
    BY <1>4 DEF TakeDamage
  <2>5. v \in Row
    <3>1. \A i \in 1..RowLength : inv[i] \in GoodStacks /\ v[i] \in AsDrops(inv[i])
      BY <2>4 DEF DroppedRows, IInv, ItemsInv, Row
    <3>2. \A i \in 1..RowLength : v[i] \in GoodStacks
      BY <3>1, DroppedStack
    <3> QED
      BY <2>4, <3>2 DEF DroppedRows, Row
  <2>6. BagOK(drops')
    BY <2>4, <2>5, SlotBagOK, BagsJoin DEF IInv, ItemsInv
  <2>7. ItemsInv'
    BY <1>1, <2>3, <2>6 DEF IInv, ItemsInv
  <2> QED
    BY <1>2, <2>2, <2>7 DEF IInv
<1> QED
  BY <1>3, <1>4

(* A model is stamped.                                                     *)
LEMMA StampedIs ==
  ASSUME NEW b \in Builds
  PROVE  /\ \A s \in Spots : Stamped(b)[s] = IF s \in DOMAIN b THEN Plain(b[s])
                                                             ELSE world[s]
         /\ \A s \in DOMAIN b : /\ s \in Spots /\ b[s] \in Ids
                                 /\ b[s] # Door /\ b[s] # 0
BY InventoryAssumption DEF InventoryAssumption, Stamped

LEMMA BuildIInv ==
  ASSUME IInv, NEW b \in Builds, Build(b)
  PROVE  IInv'
<1>1. world' = Stamped(b) /\ UNCHANGED <<itemVars, screenVars, offered, health, deaths>>
  BY DEF Build
<1>2. world \in [Spots -> Blocks] /\ Upright(world)
  BY DEF IInv, WorldInv, Upright
<1>3. ASSUME NEW s \in Spots
      PROVE  world'[s] \in Blocks /\ (world'[s].id # Door => ~world'[s].top)
  <2>1. CASE s \in DOMAIN b
    <3>1. world'[s] = Plain(b[s]) /\ b[s] \in Ids
      BY <1>1, <2>1, StampedIs
    <3> QED
      BY <3>1 DEF Plain, Blocks
  <2>2. CASE s \notin DOMAIN b
    BY <1>1, <1>2, <2>2, StampedIs DEF Upright
  <2> QED
    BY <2>1, <2>2
<1>4. WorldInv'
  BY <1>1, <1>3 DEF WorldInv, Upright, Stamped
<1>5. stamps' \in 0..MaxStamps
  BY InventoryAssumption DEF InventoryAssumption, IInv, LifeInv, Build
<1>6. ItemsInv' /\ ScreenInv' /\ LifeInv'
  BY <1>1, <1>5
  DEF IInv, ItemsInv, ScreenInv, LifeInv, Opened, itemVars, screenVars
<1> QED
  BY <1>4, <1>6 DEF IInv

LEMMA StepIInv == IInv /\ [Next]_vars => IInv'
<1> SUFFICES ASSUME IInv, [Next]_vars PROVE IInv'
  OBVIOUS
<1>1. CASE UNCHANGED vars
  BY <1>1
  DEF vars, itemVars, screenVars, lifeVars, IInv, WorldInv, ItemsInv, ScreenInv,
      LifeInv, Opened
<1>2. CASE Crafts
  BY <1>2, CraftIInv DEF Crafts
<1>3. CASE UpdateInventory \/ CraftKey \/ CloseCrafting \/ Exit \/ BuildKey
  BY <1>3, ScreensIInv
<1>4. CASE \E stack \in BagToSet(drops) : PickUp(stack)
  BY <1>4, PickUpIInv DEF BagToSet
<1>5. CASE \E s \in Spots : Break(s)
  BY <1>5, BreakIInv
<1>6. CASE Uses
  <2>1. PICK i \in 1..RowLength :
          \/ UseNothing(i)
          \/ \E s \in Spots : UseDoor(s, i) \/ UseChest(s, i) \/ UseTable(s, i)
                                \/ Place(s, i)
    BY <1>6 DEF Uses
  <2>2. CASE UseNothing(i)
    BY <2>2, UseTableIInv
  <2>3. ASSUME NEW s \in Spots,
               UseDoor(s, i) \/ UseChest(s, i) \/ UseTable(s, i) \/ Place(s, i)
        PROVE  IInv'
    BY <2>3, UseDoorIInv, UseChestIInv, UseTableIInv, PlaceIInv
  <2> QED
    BY <2>1, <2>2, <2>3
<1>7. CASE Clicks
  BY <1>7, ClickChestIInv, ClickInvIInv DEF Clicks
<1>8. CASE \E amount \in Damages : TakeDamage(amount)
  BY <1>8, TakeDamageIInv
<1>9. CASE \E b \in Builds : Build(b)
  BY <1>9, BuildIInv
<1> QED
  BY <1>1, <1>2, <1>3, <1>4, <1>5, <1>6, <1>7, <1>8, <1>9 DEF Next

(* What every handler of the single player may rely on: nothing but a door *)
(* has a top, slots and drops are well-formed, and the open chest is one   *)
(* that has been opened.                                                   *)
THEOREM Invariance == Spec => []IInv
BY InitIInv, StepIInv, PTL DEF Spec

(* Every stack in a slot, in a chest, on the mouse and on the ground has a *)
(* known id and a count, or neither, after any clicks, meals, deaths and   *)
(* crafting, however long the row and the chests.                          *)
THEOREM TypeCorrect == Spec => []TypeOK
<1>1. IInv => TypeOK
  BY IInvTypes
<1> QED
  BY <1>1, Invariance, PTL

(* Why a door is torn after a step.                                        *)
MayBeTorn(s) ==
  \/ TornIn(world, s)
  \/ \E b \in Builds : Build(b) /\ Other(world, s) \in DOMAIN b
  \/ \E t \in Spots : MayTear(world, t, s) /\ world'[t] # world[t]

LEMMA BreakTears ==
  ASSUME IInv, NEW t \in Spots, Break(t), NEW s \in Spots, TornIn(world', s)
  PROVE  MayBeTorn(s)
<1>1. world \in [Spots -> Blocks] /\ world' = Emptied(world, Gone(t))
  BY BreakWorld DEF IInv, WorldInv, Upright
<1>2. CASE world[t].id = Crystals
  <2>1. Gone(t) = Patch(t)
    BY <1>2 DEF Gone, Crystals, Door
  <2>2. \A x \in Patch(t) : x \in Spots /\ world[x].id # Door
    BY <1>2, PatchIs DEF Crystals, Door
  <2> QED
    BY <1>1, <2>1, <2>2, TornWithout DEF MayBeTorn
<1>3. CASE world[t].id = Door
  <2>1. Gone(t) = {t, Other(world, t)}
    BY <1>3, OtherHalfIs DEF Gone, Crystals, Door
  <2>2. TornIn(world, s) \/ MayTear(world, t, s)
    BY <1>1, <1>3, <2>1, TornWithoutDoor
  <2>3. world'[t] # world[t]
    BY <1>1, <1>3, <2>1 DEF Emptied, Air, Plain, Door
  <2> QED
    BY <2>2, <2>3 DEF MayBeTorn
<1>4. CASE world[t].id \notin {Crystals, Door}
  <2>1. Gone(t) = {t}
    BY <1>4 DEF Gone
  <2> QED
    BY <1>1, <1>4, <2>1, TornWithout DEF MayBeTorn
<1> QED
  BY <1>2, <1>3, <1>4

LEMMA UseDoorTears ==
  ASSUME IInv, NEW i \in 1..RowLength, NEW t \in Spots, UseDoor(t, i),
         NEW s \in Spots, TornIn(world', s)
  PROVE  MayBeTorn(s)
<1>1. world \in [Spots -> Blocks]
  BY DEF IInv, WorldInv, Upright
<1>2. world[t].id = Door /\ world' = Toggled(world, {t, Other(world, t)})
  BY OtherHalfIs DEF UseDoor, Toggled
<1>3. TornIn(world, s) \/ MayTear(world, t, s)
  BY <1>1, <1>2, TornToggled
<1>4. world'[t].open = ~world[t].open /\ world[t].open \in BOOLEAN
  BY <1>1, <1>2, ToggledIs DEF Blocks
<1> QED
  BY <1>3, <1>4 DEF MayBeTorn

LEMMA PlaceTears ==
  ASSUME IInv, NEW i \in 1..RowLength, NEW t \in Spots, Place(t, i),
         NEW s \in Spots, TornIn(world', s)
  PROVE  MayBeTorn(s)
<1>1. world \in [Spots -> Blocks] /\ WorldInv
  BY DEF IInv, WorldInv, Upright
<1>2. PICK id \in Ids : id = inv[i].id
  BY PlaceRow
<1>3. world[t].id \in Overwritable /\ world' = WithBlock(id, t)
  BY <1>2 DEF Place
<1>4. world[t].id # Door
  BY <1>3, InventoryAssumption DEF InventoryAssumption
<1>5. CASE world' = world
  BY <1>5 DEF MayBeTorn
<1>6. CASE id # Door /\ world' = [world EXCEPT ![t] = Plain(id)]
  BY <1>1, <1>4, <1>6, TornWithBlock DEF MayBeTorn
<1>7. CASE /\ t + 1 \in Spots /\ world[t + 1] = Air
           /\ world' = [world EXCEPT ![t] = DoorHalf(FALSE), ![t + 1] = DoorHalf(TRUE)]
  <2>1. world[t + 1].id # Door
    BY <1>7 DEF Air, Plain, Door
  <2>2. /\ world'[t] = DoorHalf(FALSE) /\ world'[t + 1] = DoorHalf(TRUE)
        /\ \A x \in Spots \ {t, t + 1} : world'[x] = world[x]
    <3>1. t # t + 1
      BY DEF Spots
    <3> QED
      BY <1>1, <1>7, <3>1
  <2>3. TornIn(world, s)
    BY <1>1, <1>4, <1>7, <2>1, <2>2, TornWithDoor
  <2> QED
    BY <2>3 DEF MayBeTorn
<1> QED
  BY <1>1, <1>2, <1>3, <1>5, <1>6, <1>7, WithBlockIs

LEMMA BuildTears ==
  ASSUME IInv, NEW b \in Builds, Build(b), NEW s \in Spots, TornIn(world', s)
  PROVE  MayBeTorn(s)
<1>1. /\ \A x \in Spots \ DOMAIN b : world'[x] = world[x]
      /\ \A x \in DOMAIN b : world'[x].id # Door
  <2>1. world' = Stamped(b)
    BY DEF Build
  <2>2. ASSUME NEW x \in DOMAIN b PROVE world'[x].id # Door
    <3>1. world'[x] = Plain(b[x]) /\ b[x] # Door
      BY <2>1, StampedIs
    <3> QED
      BY <3>1 DEF Plain
  <2> QED
    BY <2>1, <2>2, StampedIs
<1>2. s \notin DOMAIN b
  BY <1>1 DEF TornIn
<1>3. TornIn(world, s) \/ Other(world, s) \in DOMAIN b
  BY <1>1, <1>2, TornAfter
<1> QED
  BY <1>3 DEF MayBeTorn

LEMMA StepTears ==
  ASSUME IInv, Next, NEW s \in Spots, TornIn(world', s)
  PROVE  MayBeTorn(s)
<1>1. CASE UNCHANGED world
  BY <1>1 DEF MayBeTorn
<1>2. CASE \E t \in Spots : Break(t)
  BY <1>2, BreakTears
<1>3. CASE Uses
  <2>1. PICK i \in 1..RowLength :
          \/ UseNothing(i)
          \/ \E t \in Spots : UseDoor(t, i) \/ UseChest(t, i) \/ UseTable(t, i)
                                \/ Place(t, i)
    BY <1>3 DEF Uses
  <2>2. CASE UseNothing(i) \/ \E t \in Spots : UseChest(t, i) \/ UseTable(t, i)
    BY <1>1, <2>2 DEF UseNothing, UseChest, UseTable
  <2>3. CASE \E t \in Spots : UseDoor(t, i) \/ Place(t, i)
    BY <2>3, UseDoorTears, PlaceTears
  <2> QED
    BY <2>1, <2>2, <2>3
<1>4. CASE \E b \in Builds : Build(b)
  BY <1>4, BuildTears
<1>5. CASE Crafts \/ Clicks
  BY <1>1, <1>5
  DEF Crafts, CraftOne, CraftAll, Craft, Clicks, ClickChest, ClickInv
<1>6. CASE UpdateInventory \/ CraftKey \/ CloseCrafting \/ Exit \/ BuildKey
  BY <1>1, <1>6 DEF UpdateInventory, CraftKey, CloseCrafting, Exit, BuildKey
<1>7. CASE \/ \E stack \in BagToSet(drops) : PickUp(stack)
           \/ \E amount \in Damages : TakeDamage(amount)
  BY <1>1, <1>7 DEF PickUp, TakeDamage
<1> QED
  BY <1>2, <1>3, <1>4, <1>5, <1>6, <1>7 DEF Next

(* No sequence of placing, breaking and toggling tears a whole door, in    *)
(* columns of any height: it takes a model stamped over one of its halves, *)
(* or a click on half a door that takes one of them for its own.           *)
THEOREM DoorsAlwaysWhole == Spec => DoorsWhole
<1>1. ASSUME IInv, Next, NEW s \in Spots, Torn(s)'
      PROVE  \/ Torn(s)
             \/ \E b \in Builds : Build(b) /\ Partner(s) \in DOMAIN b
             \/ \E t \in Spots : /\ Torn(t) /\ world'[t] # world[t]
                                 /\ Partner(t) \in {s, Partner(s)}
  <2>1. MayBeTorn(s)
    BY <1>1, TornIsNext, StepTears
  <2>2. \A t \in Spots : (Torn(t) <=> TornIn(world, t)) /\ Partner(t) = Other(world, t)
    BY TornIs DEF Partner, Other
  <2> QED
    BY <2>1, <2>2 DEF MayBeTorn, MayTear
<1>2. IInv /\ [Next]_vars =>
        [\A s \in Spots : Torn(s)' =>
           \/ Torn(s)
           \/ \E b \in Builds : Build(b) /\ Partner(s) \in DOMAIN b
           \/ \E t \in Spots : /\ Torn(t) /\ world'[t] # world[t]
                               /\ Partner(t) \in {s, Partner(s)}]_world
  <2>1. UNCHANGED vars => UNCHANGED world
    BY DEF vars
  <2> QED
    BY <1>1, <2>1
<1> QED
  BY <1>2, Invariance, PTL DEF DoorsWhole, Spec

----------------------------------------------------------------------------
(* Crafting, as the player sees it.                                        *)

LEMMA DoneIsCrafted ==
  ASSUME NEW r \in Recipes, NEW a \in Nat, NEW b \in Nat, inv \in Row,
         Done(RowLength, inv, inv', r, a, b)
  PROVE  Crafted(r, a, b)
<1>1. inv' \in Row
  BY DEF Done, Row
<1>2. \A id : Amount(inv, id) \in Nat /\ Amount(inv', id) \in Nat
  BY <1>1, AmountIsNat, Lengths DEF Row
<1>3. ASSUME NEW need \in r.needs
      PROVE  Amount(inv, need.id) - Amount(inv', need.id) = a * need.n
  <2>1. need.n \in Nat
    BY RecipeFacts
  <2>2. PICK x \in Nat : x = a * need.n
    BY <2>1
  <2>3. Amount(inv', need.id) = Amount(inv, need.id) - x
    BY <2>2 DEF Done
  <2> QED
    BY <1>2, <2>2, <2>3
<1>4. Amount(inv', r.makes.id) - Amount(inv, r.makes.id) = b * r.makes.n
  <2>1. PICK x \in Nat : x = b * r.makes.n
    BY RecipeFacts
  <2>2. Amount(inv', r.makes.id) = Amount(inv, r.makes.id) + x
    BY <2>1 DEF Done
  <2> QED
    BY <1>2, <2>1, <2>2
<1> QED
  BY <1>3, <1>4 DEF Crafted

LEMMA CraftOneDone ==
  ASSUME IInv, NEW r \in Recipes, CraftOne(r)
  PROVE  \/ Done(RowLength, inv, inv', r, 0, 0)
         \/ Done(RowLength, inv, inv', r, 1, 1)
BY CraftedOneIs, Lengths DEF IInv, ItemsInv, Row, CraftOne, Craft

LEMMA CraftAllDone ==
  ASSUME IInv, NEW r \in Recipes, CraftAll(r)
  PROVE  \E k \in 0..Rounds(inv, r) : \/ Done(RowLength, inv, inv', r, k, k)
                                      \/ Done(RowLength, inv, inv', r, k + 1, k)
BY CraftedAllIs, Lengths DEF IInv, ItemsInv, Row, CraftAll, Craft

(* A click on a recipe takes every ingredient and gives the result, or     *)
(* changes nothing, for every row and every recipe, and whatever the list  *)
(* says: it may be out of date.                                            *)
THEOREM CraftsAllOrNothing == Spec => CraftIsAllOrNothing
<1>1. ASSUME IInv, NEW r \in Recipes, CraftOne(r)
      PROVE  Crafted(r, 0, 0) \/ Crafted(r, 1, 1)
  <2>1. inv \in Row
    BY <1>1 DEF IInv, ItemsInv
  <2> QED
    BY <1>1, <2>1, CraftOneDone, DoneIsCrafted
<1>2. IInv => \A r \in Recipes : CraftOne(r) => Crafted(r, 0, 0) \/ Crafted(r, 1, 1)
  BY <1>1
<1> QED
  BY <1>2, Invariance, PTL DEF CraftIsAllOrNothing

(* Crafting all there is to craft loses the ingredients of one result at   *)
(* most: those for which there was no slot.                                *)
THEOREM CraftAllLosesOne == Spec => CraftAllLosesOneAtMost
<1>1. ASSUME IInv, NEW r \in Recipes, CraftAll(r)
      PROVE  \E k \in 0..Rounds(inv, r) : Crafted(r, k, k) \/ Crafted(r, k + 1, k)
  <2>1. inv \in Row
    BY <1>1 DEF IInv, ItemsInv
  <2>2. PICK k \in 0..Rounds(inv, r) : \/ Done(RowLength, inv, inv', r, k, k)
                                       \/ Done(RowLength, inv, inv', r, k + 1, k)
    BY <1>1, CraftAllDone
  <2>3. k \in Nat /\ k + 1 \in Nat
    OBVIOUS
  <2>4. Crafted(r, k, k) \/ Crafted(r, k + 1, k)
    BY <2>1, <2>2, <2>3, DoneIsCrafted
  <2> QED
    BY <2>4
<1>2. IInv => \A r \in Recipes : CraftAll(r) =>
        \E k \in 0..Rounds(inv, r) : Crafted(r, k, k) \/ Crafted(r, k + 1, k)
  BY <1>1
<1> QED
  BY <1>2, Invariance, PTL DEF CraftAllLosesOneAtMost

----------------------------------------------------------------------------
(* Nothing from nothing: what there is of an id, place by place.           *)

Over(w, s) == /\ w[s].top /\ s - 1 \in Spots
              /\ w[s - 1].id = Door /\ ~w[s - 1].top
Built(w, id) == {s \in Spots : w[s].id = id /\ ~Over(w, s)}
Standing(w, id) == Cardinality(Built(w, id))
InUse(c) == {s \in Spots : c[s] # Absent}
StoredIn(c, id) == [s \in InUse(c) |-> Amount(c[s], id)]
Stored(c, id) == SumOver(StoredIn(c, id))

LEMMA InWorldIs ==
  ASSUME NEW id
  PROVE  InWorld(id) = Standing(world, id) /\ InWorld(id)' = Standing(world', id)
<1>1. ASSUME NEW s \in Spots PROVE OverLower(s) <=> Over(world, s)
  <2>1. CASE s - 1 \in Spots
    BY <2>1 DEF OverLower, Over, At
  <2>2. CASE s - 1 \notin Spots
    BY <2>2 DEF OverLower, Over, At, Plain, Table, Door
  <2> QED
    BY <2>1, <2>2
<1>2. ASSUME NEW s \in Spots PROVE OverLower(s)' <=> Over(world', s)
  <2>1. CASE s - 1 \in Spots
    BY <2>1 DEF OverLower, Over, At, Spots
  <2>2. CASE s - 1 \notin Spots
    BY <2>2 DEF OverLower, Over, At, Spots, Plain, Table, Door
  <2> QED
    BY <2>1, <2>2
<1>3. {s \in Spots : world[s].id = id /\ ~OverLower(s)} = Built(world, id)
  BY <1>1 DEF Built
<1>4. {s \in Spots : world[s].id = id /\ ~OverLower(s)}' = Built(world', id)
  BY <1>2 DEF Built, Spots
<1> QED
  BY <1>3, <1>4 DEF InWorld, Standing

LEMMA TotalIs ==
  ASSUME NEW id
  PROVE  Total(id) = Standing(world, id) + Amount(inv, id) + OfId(mouse, id)
                       + Stored(chests, id) + Lying(drops, id)
BY InWorldIs
DEF Total, InChests, OnGround, Opened, BagToSet, InUse, StoredIn, Stored, Weights,
    Lying

LEMMA SpotsFinite == IsFiniteSet(Spots) /\ \A S : S \subseteq Spots => IsFiniteSet(S)
<1>1. IsFiniteSet(Spots)
  BY FS_Interval, InventoryAssumption DEF InventoryAssumption, Spots
<1> QED
  BY <1>1, FS_Subset

LEMMA BuiltFinite ==
  ASSUME NEW w, NEW id
  PROVE  /\ Built(w, id) \subseteq Spots /\ IsFiniteSet(Built(w, id))
         /\ Standing(w, id) \in Nat
<1>1. Built(w, id) \subseteq Spots
  BY DEF Built
<1>2. IsFiniteSet(Built(w, id))
  BY <1>1, SpotsFinite
<1> QED
  BY <1>1, <1>2, FS_CardinalityType DEF Standing

LEMMA StoredFacts ==
  ASSUME NEW c \in [Spots -> ChestRow \cup {Absent}], NEW id
  PROVE  /\ IsFiniteSet(InUse(c)) /\ StoredIn(c, id) \in [InUse(c) -> Nat]
         /\ Stored(c, id) \in Nat
<1>1. InUse(c) \subseteq Spots
  BY DEF InUse
<1>2. IsFiniteSet(InUse(c))
  BY <1>1, SpotsFinite
<1>3. ASSUME NEW s \in InUse(c) PROVE Amount(c[s], id) \in Nat
  <2>1. c[s] \in [1..ChestLength -> GoodStacks]
    BY <1>3 DEF InUse, ChestRow
  <2> QED
    BY <2>1, AmountIsNat, Lengths
<1>4. StoredIn(c, id) \in [InUse(c) -> Nat]
  BY <1>3 DEF StoredIn
<1> QED
  BY <1>2, <1>4, SumIsNat DEF Stored

LEMMA PlacesAreNat ==
  ASSUME ItemsInv, NEW id
  PROVE  /\ Standing(world, id) \in Nat /\ Amount(inv, id) \in Nat
         /\ OfId(mouse, id) \in Nat /\ Stored(chests, id) \in Nat
         /\ Lying(drops, id) \in Nat
<1>1. Standing(world, id) \in Nat
  BY BuiltFinite
<1>2. Amount(inv, id) \in Nat
  BY AmountIsNat, Lengths DEF ItemsInv, Row
<1>3. OfId(mouse, id) \in Nat
  BY OfIdIsNat DEF ItemsInv
<1>4. Stored(chests, id) \in Nat
  BY StoredFacts DEF ItemsInv
<1>5. Lying(drops, id) \in Nat
  BY WeightsAre DEF ItemsInv
<1> QED
  BY <1>1, <1>2, <1>3, <1>4, <1>5

(* The same of the next state.                                             *)
LEMMA NextTotal ==
  ASSUME ItemsInv', NEW id
  PROVE  /\ Total(id)' = Standing(world', id) + Amount(inv', id) + OfId(mouse', id)
                           + Stored(chests', id) + Lying(drops', id)
         /\ Standing(world', id) \in Nat /\ Amount(inv', id) \in Nat
         /\ OfId(mouse', id) \in Nat /\ Stored(chests', id) \in Nat
         /\ Lying(drops', id) \in Nat
<1>1. Total(id)' = Standing(world', id) + Amount(inv', id) + OfId(mouse', id)
                     + Stored(chests', id) + Lying(drops', id)
  BY InWorldIs
  DEF Total, InChests, OnGround, Opened, BagToSet, InUse, StoredIn, Stored, Weights,
      Lying
<1>2. Standing(world', id) \in Nat
  BY BuiltFinite
<1>3. Amount(inv', id) \in Nat
  BY AmountIsNat, Lengths DEF ItemsInv, Row
<1>4. OfId(mouse', id) \in Nat
  BY OfIdIsNat DEF ItemsInv
<1>5. Stored(chests', id) \in Nat
  BY StoredFacts DEF ItemsInv
<1>6. Lying(drops', id) \in Nat
  BY WeightsAre DEF ItemsInv
<1> QED
  BY <1>1, <1>2, <1>3, <1>4, <1>5, <1>6

(* If no place gained, there is no more; if one place lost, there is less. *)
LEMMA NoMore ==
  ASSUME ItemsInv, ItemsInv', NEW id,
           Standing(world', id) + Amount(inv', id) + OfId(mouse', id)
             + Stored(chests', id) + Lying(drops', id)
         <= Standing(world, id) + Amount(inv, id) + OfId(mouse, id)
             + Stored(chests, id) + Lying(drops, id)
  PROVE  ~(Total(id)' > Total(id))
<1>1. PICK x \in Nat : x = Total(id)
  BY TotalIs, PlacesAreNat
<1>2. PICK y \in Nat : y = Total(id)'
  BY NextTotal
<1>3. y <= x
  BY <1>1, <1>2, TotalIs, NextTotal
<1> QED
  BY <1>1, <1>2, <1>3

LEMMA Less ==
  ASSUME ItemsInv, ItemsInv', NEW id,
           Standing(world', id) + Amount(inv', id) + OfId(mouse', id)
             + Stored(chests', id) + Lying(drops', id)
         < Standing(world, id) + Amount(inv, id) + OfId(mouse, id)
             + Stored(chests, id) + Lying(drops, id)
  PROVE  Total(id)' < Total(id)
BY TotalIs, NextTotal

(* A step that is not out of nothing.                                      *)
Justified == \A id : id # 0 /\ Total(id)' > Total(id) =>
               \/ \E source \in Sources(id) : Total(source)' < Total(source)
               \/ \E b \in Builds : Build(b) /\ id \in {b[s] : s \in DOMAIN b}

LEMMA DoneNoGain ==
  ASSUME NEW r \in Recipes, NEW v \in Row, NEW w, NEW a \in Nat, NEW b \in Nat,
         b <= a, Done(RowLength, v, w, r, a, b), NEW id, id # 0
  PROVE  \/ Amount(w, id) <= Amount(v, id)
         \/ /\ id = r.makes.id
            /\ \A need \in r.needs : Amount(w, need.id) < Amount(v, need.id)
<1>1. \A x : Amount(v, x) \in Nat /\ Amount(w, x) \in Nat
  BY AmountIsNat, Lengths DEF Done, Row
<1>2. ASSUME NEW need \in r.needs
      PROVE  /\ Amount(w, need.id) <= Amount(v, need.id)
             /\ a > 0 => Amount(w, need.id) < Amount(v, need.id)
  <2>1. PICK m \in Nat \ {0} : m = need.n
    BY RecipeFacts
  <2>2. PICK x \in Nat : x = a * m
    OBVIOUS
  <2>3. a > 0 => x > 0
    BY <2>2
  <2>4. Amount(w, need.id) = Amount(v, need.id) - x
    BY <2>1, <2>2 DEF Done
  <2> QED
    BY <1>1, <2>2, <2>3, <2>4
<1>3. CASE \E need \in r.needs : need.id = id
  BY <1>2, <1>3
<1>4. CASE id = r.makes.id
  <2>1. CASE a = 0
    <3>1. b = 0 /\ r.makes.n \in Nat
      BY <2>1, RecipeFacts
    <3>2. Amount(w, id) = Amount(v, id) + 0 * r.makes.n
      BY <1>4, <3>1 DEF Done
    <3> QED
      BY <1>1, <3>1, <3>2
  <2>2. CASE a # 0
    BY <1>2, <1>4, <2>2
  <2> QED
    BY <2>1, <2>2
<1>5. CASE id # r.makes.id /\ ~\E need \in r.needs : need.id = id
  <2>1. Amount(w, id) = Amount(v, id)
    BY <1>5 DEF Done
  <2> QED
    BY <1>1, <2>1
<1> QED
  BY <1>3, <1>4, <1>5

LEMMA CraftJustified ==
  ASSUME IInv, NEW r \in Recipes, CraftOne(r) \/ CraftAll(r)
  PROVE  Justified
<1>1. inv \in Row /\ ItemsInv
  BY DEF IInv, ItemsInv
<1>2. ItemsInv'
  BY CraftIInv DEF IInv
<1>3. UNCHANGED <<world, mouse, chests, drops>>
  BY DEF CraftOne, CraftAll, Craft
<1>4. PICK a \in Nat, b \in Nat : b <= a /\ Done(RowLength, inv, inv', r, a, b)
  <2>1. CASE CraftOne(r)
    BY <2>1, CraftOneDone
  <2>2. CASE CraftAll(r)
    <3>1. PICK k \in 0..Rounds(inv, r) : \/ Done(RowLength, inv, inv', r, k, k)
                                         \/ Done(RowLength, inv, inv', r, k + 1, k)
      BY <2>2, CraftAllDone
    <3>2. k \in Nat /\ k + 1 \in Nat /\ k <= k /\ k <= k + 1
      OBVIOUS
    <3> QED
      BY <3>1, <3>2
  <2> QED
    BY <2>1, <2>2
<1>5. ASSUME NEW id
      PROVE  /\ Amount(inv', id) <= Amount(inv, id) => ~(Total(id)' > Total(id))
             /\ Amount(inv', id) < Amount(inv, id) => Total(id)' < Total(id)
  <2>1. PICK x \in Nat : x = Standing(world, id) + OfId(mouse, id)
                               + Stored(chests, id) + Lying(drops, id)
    BY <1>1, PlacesAreNat
  <2>2. PICK p \in Nat : p = Amount(inv, id)
    BY <1>1, PlacesAreNat
  <2>3. PICK q \in Nat : q = Amount(inv', id)
    BY <1>2, NextTotal
  <2>4. Total(id) = x + p
    BY <1>1, <2>1, <2>2, TotalIs, PlacesAreNat
  <2>5. Total(id)' = x + q
    BY <1>1, <1>2, <1>3, <2>1, <2>3, NextTotal, PlacesAreNat
  <2> QED
    BY <2>2, <2>3, <2>4, <2>5
<1>6. ASSUME NEW id, id # 0, Total(id)' > Total(id)
      PROVE  \E source \in Sources(id) : Total(source)' < Total(source)
  <2>1. ~(Amount(inv', id) <= Amount(inv, id))
    BY <1>5, <1>6
  <2>2. /\ id = r.makes.id
        /\ \A need \in r.needs : Amount(inv', need.id) < Amount(inv, need.id)
    BY <1>1, <1>4, <1>6, <2>1, DoneNoGain
  <2>3. PICK need \in r.needs : TRUE
    BY RecipeFacts
  <2>4. need.id \in Sources(id)
    BY <2>2 DEF Sources
  <2> QED
    BY <1>5, <2>2, <2>4
<1> QED
  BY <1>6 DEF Justified

(* Nothing that the totals count is touched.                               *)
LEMMA IdleJustified ==
  ASSUME UNCHANGED <<world, inv, mouse, chests, drops>>, ItemsInv
  PROVE  Justified
<1>1. ASSUME NEW id PROVE Total(id)' = Total(id) /\ Total(id) \in Nat
  <2>1. ItemsInv'
    BY DEF ItemsInv
  <2> QED
    BY <2>1, TotalIs, NextTotal, PlacesAreNat
<1>2. \A id : ~(Total(id)' > Total(id))
  BY <1>1
<1> QED
  BY <1>2 DEF Justified

LEMMA PickUpJustified ==
  ASSUME IInv, NEW stack \in DOMAIN drops, PickUp(stack)
  PROVE  Justified
<1>1. ItemsInv /\ ItemsInv'
  BY PickUpIInv DEF IInv
<1>2. UNCHANGED <<world, mouse, chests>> /\ drops' = drops (-) SetToBag({stack})
  BY DEF PickUp
<1>3. ASSUME NEW id, id # 0 PROVE ~(Total(id)' > Total(id))
  <2>1. Amount(inv', id) = Amount(inv, id) + OfId(stack, id)
    BY <1>1, <1>3, PickUpRow
  <2>2. Lying(drops, id) = Lying(drops', id) + OfId(stack, id)
    BY <1>1, <1>2, BagShrinks DEF ItemsInv
  <2>3. PICK y \in Nat : y = OfId(stack, id)
    BY <1>1, OfIdIsNat DEF ItemsInv, BagOK
  <2>4. PICK x \in Nat : x = Standing(world, id) + OfId(mouse, id) + Stored(chests, id)
    BY <1>1, PlacesAreNat
  <2>5. PICK p \in Nat : p = Amount(inv, id)
    BY <1>1, PlacesAreNat
  <2>6. PICK q \in Nat : q = Lying(drops', id)
    BY <1>1, NextTotal
  <2>7. Total(id) = x + p + (q + y)
    BY <1>1, <2>2, <2>3, <2>4, <2>5, <2>6, TotalIs, PlacesAreNat
  <2>8. Total(id)' = x + (p + y) + q
    BY <1>1, <1>2, <2>1, <2>3, <2>4, <2>5, <2>6, NextTotal, PlacesAreNat
  <2> QED
    BY <2>7, <2>8
<1> QED
  BY <1>3 DEF Justified

(* How the sets of blocks that count compare.                              *)
LEMMA StandingNoMore ==
  ASSUME NEW w, NEW u, NEW id, Built(u, id) \subseteq Built(w, id)
  PROVE  Standing(u, id) <= Standing(w, id)
BY BuiltFinite, FS_Subset DEF Standing

LEMMA StandingLess ==
  ASSUME NEW w, NEW u, NEW id, NEW y \in Built(w, id),
         Built(u, id) \subseteq Built(w, id) \ {y}
  PROVE  Standing(u, id) < Standing(w, id)
<1>1. Standing(u, id) <= Standing(w, id)
  BY StandingNoMore
<1>2. Standing(u, id) # Standing(w, id)
  BY BuiltFinite, FS_Subset DEF Standing
<1>3. Standing(u, id) \in Nat /\ Standing(w, id) \in Nat
  BY BuiltFinite
<1> QED
  BY <1>1, <1>2, <1>3

LEMMA StandingExchanged ==
  ASSUME NEW w, NEW u, NEW id, NEW x \in Built(w, id), NEW y \in Built(w, id), x # y,
         NEW z, Built(u, id) \subseteq ((Built(w, id) \ {x}) \ {y}) \cup {z}
  PROVE  Standing(u, id) < Standing(w, id)
<1>1. PICK W : W = Built(w, id)
  OBVIOUS
<1>2. PICK V : V = (W \ {x}) \ {y}
  OBVIOUS
<1>3. IsFiniteSet(W) /\ Cardinality(W) \in Nat
  BY <1>1, BuiltFinite DEF Standing
<1>4. IsFiniteSet(W \ {x}) /\ Cardinality(W \ {x}) = Cardinality(W) - 1
  BY <1>1, <1>3, FS_RemoveElement
<1>5. IsFiniteSet(V) /\ Cardinality(V) = Cardinality(W) - 2
  <2>1. y \in W \ {x}
    BY <1>1
  <2>2. IsFiniteSet(V) /\ Cardinality(V) = Cardinality(W \ {x}) - 1
    BY <1>2, <1>4, <2>1, FS_RemoveElement
  <2> QED
    BY <1>3, <1>4, <2>2
<1>6. IsFiniteSet(V \cup {z}) /\ Cardinality(V \cup {z}) <= Cardinality(W) - 1
  <2>1. CASE z \in V
    <3>1. V \cup {z} = V
      BY <2>1
    <3> QED
      BY <1>3, <1>5, <3>1
  <2>2. CASE z \notin V
    <3>1. IsFiniteSet(V \cup {z}) /\ Cardinality(V \cup {z}) = Cardinality(V) + 1
      BY <1>5, <2>2, FS_AddElement
    <3> QED
      BY <1>3, <1>5, <3>1
  <2> QED
    BY <2>1, <2>2
<1>7. Cardinality(Built(u, id)) <= Cardinality(V \cup {z})
  BY <1>1, <1>2, <1>6, FS_Subset
<1>8. Cardinality(V \cup {z}) \in Nat /\ Cardinality(Built(u, id)) \in Nat
  BY <1>6, BuiltFinite, FS_CardinalityType DEF Standing
<1> QED
  BY <1>1, <1>3, <1>6, <1>7, <1>8 DEF Standing

(* Where nothing but what was there before counts: an upper half begins to *)
(* count only if the lower half below it is changed.                       *)
LEMMA BuiltBefore ==
  ASSUME NEW w, Upright(w), NEW u, NEW id, NEW s \in Built(u, id), u[s] = w[s],
         id = Door /\ w[s].top /\ s - 1 \in Spots
           /\ w[s - 1].id = Door /\ ~w[s - 1].top => u[s - 1] = w[s - 1]
  PROVE  s \in Built(w, id)
<1>1. s \in Spots /\ w[s].id = id /\ ~Over(u, s)
  BY DEF Built
<1>2. ASSUME Over(w, s) PROVE FALSE
  <2>1. id = Door
    BY <1>1, <1>2 DEF Over, Upright
  <2>2. u[s - 1] = w[s - 1]
    BY <1>2, <2>1 DEF Over
  <2> QED
    BY <1>1, <1>2, <2>2 DEF Over
<1> QED
  BY <1>1, <1>2 DEF Built

(* Breaking takes what stood there out of the world.                       *)
LEMMA BuiltEmptied ==
  ASSUME NEW w, NEW gone, NEW id, id # 0, NEW s \in Built(Emptied(w, gone), id)
  PROVE  s \in Spots /\ s \notin gone /\ Emptied(w, gone)[s] = w[s]
BY DEF Built, Emptied, Air, Plain

LEMMA StandingEmptied ==
  ASSUME NEW w, Upright(w), NEW gone, NEW id, id # 0,
         id # Door \/ \A s \in gone \cap Spots : w[s].id # Door
  PROVE  /\ Standing(Emptied(w, gone), id) <= Standing(w, id)
         /\ (\E s \in gone : s \in Spots /\ w[s].id = id)
              => Standing(Emptied(w, gone), id) < Standing(w, id)
<1>1. PICK u : u = Emptied(w, gone)
  OBVIOUS
<1>2. ASSUME NEW s \in Built(u, id) PROVE s \in Built(w, id) /\ s \notin gone
  <2>1. s \in Spots /\ s \notin gone /\ u[s] = w[s]
    BY <1>1, <1>2, BuiltEmptied
  <2>2. ASSUME id = Door, s - 1 \in Spots, w[s - 1].id = Door
        PROVE  u[s - 1] = w[s - 1]
    BY <1>1, <2>2 DEF Emptied
  <2> QED
    BY <1>2, <2>1, <2>2, BuiltBefore
<1>3. Standing(u, id) <= Standing(w, id)
  BY <1>2, StandingNoMore
<1>4. ASSUME NEW s \in gone, s \in Spots, w[s].id = id
      PROVE  Standing(u, id) < Standing(w, id)
  <2>1. id # Door
    BY <1>4
  <2>2. s \in Built(w, id)
    BY <1>4, <2>1 DEF Built, Over, Upright
  <2>3. Built(u, id) \subseteq Built(w, id) \ {s}
    BY <1>2, <1>4
  <2> QED
    BY <2>2, <2>3, StandingLess
<1> QED
  BY <1>1, <1>3, <1>4

(* Of a door, whole or torn, one that counts is gone.                      *)
LEMMA DoorEmptied ==
  ASSUME NEW w \in [Spots -> Blocks], Upright(w), NEW s \in Spots, w[s].id = Door
  PROVE  Standing(Emptied(w, {s, Other(w, s)}), Door) < Standing(w, Door)
<1>1. PICK o : o = Other(w, s)
  OBVIOUS
<1>2. PICK u : u = Emptied(w, {s, o})
  OBVIOUS
<1>3. s \in Int /\ w[s].top \in BOOLEAN
  BY DEF Spots, Blocks
<1>4. ASSUME NEW x \in Built(u, Door)
      PROVE  /\ x \in Int /\ x \notin {s, o} /\ u[x] = w[x]
             /\ x \in Built(w, Door) \/ (/\ x - 1 \in {s, o} /\ w[x].top
                                        /\ w[x - 1].id = Door /\ ~w[x - 1].top)
  <2>1. x \in Spots /\ x \notin {s, o} /\ u[x] = w[x]
    BY <1>2, <1>4, BuiltEmptied DEF Door
  <2>2. x - 1 \in Spots /\ x - 1 \notin {s, o} => u[x - 1] = w[x - 1]
    BY <1>2 DEF Emptied
  <2>3. CASE x \in Built(w, Door)
    BY <2>1, <2>3 DEF Spots
  <2>4. CASE x \notin Built(w, Door)
    <3>1. /\ w[x].top /\ x - 1 \in Spots /\ w[x - 1].id = Door /\ ~w[x - 1].top
          /\ u[x - 1] # w[x - 1]
      BY <1>4, <2>1, <2>4, BuiltBefore
    <3> QED
      BY <2>1, <2>2, <3>1 DEF Spots
  <2> QED
    BY <2>3, <2>4
<1>5. CASE ~w[s].top
  <2>1. o = s + 1
    BY <1>1, <1>5 DEF Other
  <2>2. s \in Built(w, Door)
    BY <1>5 DEF Built, Over
  <2>3. CASE o \in Spots /\ w[o].id = Door /\ ~w[o].top
    <3>1. o \in Built(w, Door) /\ s # o
      BY <1>3, <2>1, <2>3 DEF Built, Over
    <3>2. ASSUME NEW x \in Built(u, Door)
          PROVE  x \in ((Built(w, Door) \ {s}) \ {o}) \cup {s + 2}
      BY <1>3, <1>4, <2>1
    <3> QED
      BY <1>1, <1>2, <2>2, <3>1, <3>2, StandingExchanged
  <2>4. CASE ~(o \in Spots /\ w[o].id = Door /\ ~w[o].top)
    <3>1. ASSUME NEW x \in Built(u, Door) PROVE x \in Built(w, Door) \ {s}
      <4>1. x # s /\ x # s + 1 /\ x \in Int /\ x \in Spots
        BY <1>4, <2>1 DEF Built
      <4>2. ASSUME x - 1 = o, w[x - 1].id = Door, ~w[x - 1].top PROVE FALSE
        <5>1. o \in Spots
          BY <1>3, <2>1, <4>1, <4>2, InventoryAssumption DEF InventoryAssumption, Spots
        <5> QED
          BY <2>4, <4>2, <5>1
      <4> QED
        BY <1>3, <1>4, <4>1, <4>2
    <3> QED
      BY <1>1, <1>2, <2>2, <3>1, StandingLess
  <2> QED
    BY <2>3, <2>4
<1>6. CASE w[s].top
  <2>1. o = s - 1
    BY <1>1, <1>6 DEF Other
  <2>2. CASE Over(w, s)
    <3>1. o \in Built(w, Door)
      BY <2>1, <2>2 DEF Built, Over
    <3>2. ASSUME NEW x \in Built(u, Door) PROVE x \in Built(w, Door) \ {o}
      BY <1>3, <1>4, <1>6, <2>1
    <3> QED
      BY <1>1, <1>2, <3>1, <3>2, StandingLess
  <2>3. CASE ~Over(w, s)
    <3>1. s \in Built(w, Door)
      BY <2>3 DEF Built
    <3>2. ASSUME NEW x \in Built(u, Door) PROVE x \in Built(w, Door) \ {s}
      BY <1>3, <1>4, <1>6, <2>1
    <3> QED
      BY <1>1, <1>2, <3>1, <3>2, StandingLess
  <2> QED
    BY <2>2, <2>3
<1> QED
  BY <1>3, <1>5, <1>6

LEMMA StandingBroken ==
  ASSUME WorldInv, NEW s \in Spots, world[s].id # 0
  PROVE  /\ \A id : id # 0 =>
              Standing(Emptied(world, Gone(s)), id) <= Standing(world, id)
         /\ Standing(Emptied(world, Gone(s)), world[s].id) < Standing(world, world[s].id)
<1>1. world \in [Spots -> Blocks] /\ Upright(world)
  BY DEF WorldInv, Upright
<1>2. CASE world[s].id = Door
  <2>1. Gone(s) = {s, Other(world, s)}
    BY <1>2, OtherHalfIs DEF Gone, Crystals, Door
  <2>2. Standing(Emptied(world, Gone(s)), Door) < Standing(world, Door)
    BY <1>1, <1>2, <2>1, DoorEmptied
  <2>3. \A id : id # 0 /\ id # Door =>
          Standing(Emptied(world, Gone(s)), id) <= Standing(world, id)
    BY <1>1, StandingEmptied
  <2>4. \A id : Standing(Emptied(world, Gone(s)), id) \in Nat /\ Standing(world, id) \in Nat
    BY BuiltFinite
  <2> QED
    BY <1>2, <2>2, <2>3, <2>4
<1>3. CASE world[s].id # Door
  <2>1. s \in Gone(s) /\ \A t \in Gone(s) \cap Spots : world[t].id # Door
    <3>1. CASE world[s].id = Crystals
      BY <1>3, <3>1, PatchIs DEF Gone, Crystals, Door
    <3>2. CASE world[s].id # Crystals
      BY <1>3, <3>2 DEF Gone
    <3> QED
      BY <3>1, <3>2
  <2> QED
    BY <1>1, <2>1, StandingEmptied
<1> QED
  BY <1>2, <1>3

LEMMA BreakJustified ==
  ASSUME IInv, NEW s \in Spots, Break(s)
  PROVE  Justified
<1>1. ItemsInv /\ ItemsInv' /\ WorldInv /\ world \in [Spots -> Blocks]
  BY BreakIInv DEF IInv, WorldInv, Upright
<1>2. UNCHANGED <<inv, mouse, chests>> /\ world' = Emptied(world, Gone(s))
  BY BreakWorld
<1>3. PICK what \in IF world[s].id = Crystals THEN {RedCrystal}
                                              ELSE Dropped(world[s].id) :
        drops' = drops (+) SetToBag({Stack(what, 1)})
  BY BreakWorld
<1>4. PICK b : b = world[s].id
  OBVIOUS
<1>5. b # 0
  BY <1>4, BreakWorld
<1>6. Stack(what, 1) \in GoodStacks
  BY <1>1, <1>4, <1>5, BrokenStack
<1>7. \A id : Lying(drops', id) = Lying(drops, id) + OfId(Stack(what, 1), id)
  BY <1>1, <1>3, <1>6, BagGrows DEF ItemsInv
<1>8. \A id : OfId(Stack(what, 1), id) = IF id = what THEN 1 ELSE 0
  BY DEF OfId, Stack
<1>9. \A id : id # 0 => Standing(world', id) <= Standing(world, id)
  BY <1>1, <1>2, <1>4, <1>5, StandingBroken
<1>10. Standing(world', b) < Standing(world, b)
  BY <1>1, <1>2, <1>4, <1>5, StandingBroken
<1>11. ASSUME NEW id, id # 0
       PROVE  /\ id # what \/ id = b => ~(Total(id)' > Total(id))
              /\ id = b /\ id # what => Total(id)' < Total(id)
  <2>1. PICK x \in Nat : x = Amount(inv, id) + OfId(mouse, id) + Stored(chests, id)
    BY <1>1, PlacesAreNat
  <2>2. PICK p \in Nat : p = Standing(world, id)
    BY <1>1, PlacesAreNat
  <2>3. PICK q \in Nat : q = Standing(world', id)
    BY <1>1, NextTotal
  <2>4. PICK y \in Nat : y = Lying(drops, id)
    BY <1>1, PlacesAreNat
  <2>5. PICK z \in Nat : z = IF id = what THEN 1 ELSE 0
    OBVIOUS
  <2>6. Total(id) = x + p + y
    BY <1>1, <2>1, <2>2, <2>4, TotalIs, PlacesAreNat
  <2>7. Total(id)' = x + q + (y + z)
    BY <1>1, <1>2, <1>7, <1>8, <2>1, <2>3, <2>4, <2>5, NextTotal, PlacesAreNat
  <2>8. q <= p /\ (id = b => q < p)
    BY <1>9, <1>10, <1>11, <2>2, <2>3
  <2>9. id = b => q + 1 <= p
    BY <2>8
  <2> QED
    BY <2>5, <2>6, <2>7, <2>8, <2>9
<1>12. ASSUME NEW id, id # 0, Total(id)' > Total(id)
       PROVE  \E source \in Sources(id) : Total(source)' < Total(source)
  <2>1. id = what /\ id # b
    BY <1>11, <1>12
  <2>2. Total(b)' < Total(b)
    BY <1>5, <1>11, <2>1
  <2>3. b \in Sources(id)
    <3>1. CASE b = Crystals
      <4>1. id = RedCrystal
        BY <1>4, <2>1, <3>1
      <4> QED
        BY <3>1, <4>1 DEF Sources
    <3>2. CASE b # Crystals
      <4>1. what \in Dropped(b)
        BY <1>4, <3>2
      <4>2. b = Leaves /\ id = Apple
        BY <2>1, <4>1 DEF Dropped
      <4> QED
        BY <4>2 DEF Sources
    <3> QED
      BY <3>1, <3>2
  <2> QED
    BY <2>2, <2>3
<1> QED
  BY <1>12 DEF Justified

(* Opening or closing a door leaves the totals alone, and eating lowers    *)
(* them.                                                                   *)
LEMMA EatingJustified ==
  ASSUME ItemsInv, ItemsInv', UNCHANGED <<mouse, drops>>,
         \A id : id # 0 => /\ Standing(world', id) = Standing(world, id)
                           /\ Stored(chests', id) = Stored(chests, id)
                           /\ Amount(inv', id) <= Amount(inv, id)
  PROVE  Justified
<1>1. ASSUME NEW id, id # 0 PROVE ~(Total(id)' > Total(id))
  <2>1. PICK x \in Nat : x = Standing(world, id) + OfId(mouse, id)
                               + Stored(chests, id) + Lying(drops, id)
    BY PlacesAreNat
  <2>2. PICK p \in Nat : p = Amount(inv, id)
    BY PlacesAreNat
  <2>3. PICK q \in Nat : q = Amount(inv', id)
    BY NextTotal
  <2>4. Total(id) = x + p
    BY <2>1, <2>2, TotalIs, PlacesAreNat
  <2>5. Total(id)' = x + q
    BY <1>1, <2>1, <2>3, NextTotal, PlacesAreNat
  <2>6. q <= p
    BY <1>1, <2>2, <2>3
  <2> QED
    BY <2>4, <2>5, <2>6
<1> QED
  BY <1>1 DEF Justified

LEMMA UseDoorJustified ==
  ASSUME IInv, NEW i \in 1..RowLength, NEW s \in Spots, UseDoor(s, i)
  PROVE  Justified
<1>1. ItemsInv /\ ItemsInv' /\ world \in [Spots -> Blocks]
  BY UseDoorIInv DEF IInv, WorldInv, Upright
<1>2. UNCHANGED <<mouse, chests, drops>>
  BY DEF UseDoor
<1>3. world' = Toggled(world, {s, Other(world, s)})
  BY OtherHalfIs DEF UseDoor, Toggled
<1>4. \A t \in Spots : world'[t].id = world[t].id /\ world'[t].top = world[t].top
  BY <1>1, <1>3, ToggledIs
<1>5. \A id : Standing(world', id) = Standing(world, id)
  BY <1>4 DEF Standing, Built, Over
<1>6. \A id : Amount(inv', id) <= Amount(inv, id)
  BY UseEats DEF UseDoor
<1> QED
  BY <1>1, <1>2, <1>5, <1>6, EatingJustified

LEMMA UseChestJustified ==
  ASSUME IInv, NEW i \in 1..RowLength, NEW s \in Spots, UseChest(s, i)
  PROVE  Justified
<1>1. ItemsInv /\ ItemsInv' /\ chests \in [Spots -> ChestRow \cup {Absent}]
  BY UseChestIInv DEF IInv, ItemsInv
<1>2. UNCHANGED <<world, mouse, drops>>
  BY DEF UseChest
<1>3. chests' = [chests EXCEPT ![s] = IF chests[s] = Absent THEN EmptyChest ELSE chests[s]]
  BY DEF UseChest
<1>4. ASSUME NEW id PROVE Stored(chests', id) = Stored(chests, id)
  <2>1. CASE chests[s] # Absent
    <3>1. chests' = chests
      BY <1>1, <1>3, <2>1
    <3> QED
      BY <3>1
  <2>2. CASE chests[s] = Absent
    <3>1. EmptyChest # Absent /\ Amount(EmptyChest, id) = 0
      BY EmptyChestIs, AbsentIsNoChest
    <3>2. chests'[s] = EmptyChest /\ \A t \in Spots \ {s} : chests'[t] = chests[t]
      BY <1>1, <1>3, <2>2
    <3>3. PICK S : S = InUse(chests)
      OBVIOUS
    <3>4. PICK T : T = InUse(chests')
      OBVIOUS
    <3>5. s \notin S /\ T = S \cup {s}
      BY <2>2, <3>1, <3>2, <3>3, <3>4 DEF InUse
    <3>6. PICK w : w = StoredIn(chests, id)
      OBVIOUS
    <3>7. PICK u : u = StoredIn(chests', id)
      OBVIOUS
    <3>8. IsFiniteSet(S) /\ w \in [S -> Nat] /\ SumOver(w) \in Nat
      BY <1>1, <3>3, <3>6, StoredFacts DEF Stored
    <3>9. u \in [T -> Nat] /\ IsFiniteSet(T)
      BY <1>1, <3>4, <3>7, StoredFacts DEF ItemsInv
    <3>10. u[s] = 0
      BY <3>1, <3>2, <3>4, <3>5, <3>7 DEF StoredIn
    <3>11. \A t \in S : u[t] = w[t]
      BY <3>2, <3>3, <3>4, <3>5, <3>6, <3>7 DEF StoredIn, InUse
    <3>12. SumOver(u) = SumOver(w) + u[s]
      BY <3>5, <3>8, <3>9, <3>11, SumGrows
    <3> QED
      BY <3>6, <3>7, <3>8, <3>10, <3>12 DEF Stored
  <2> QED
    BY <2>1, <2>2
<1>5. \A id : Amount(inv', id) <= Amount(inv, id)
  BY UseEats DEF UseChest
<1> QED
  BY <1>1, <1>2, <1>4, <1>5, EatingJustified

LEMMA UseTableJustified ==
  ASSUME IInv, NEW i \in 1..RowLength,
         UseNothing(i) \/ \E s \in Spots : UseTable(s, i)
  PROVE  Justified
<1>1. ItemsInv /\ ItemsInv'
  BY UseTableIInv DEF IInv
<1>2. UNCHANGED <<world, mouse, chests, drops>>
  BY DEF UseTable, UseNothing
<1>3. \A id : Amount(inv', id) <= Amount(inv, id)
  BY UseEats DEF UseTable, UseNothing
<1> QED
  BY <1>1, <1>2, <1>3, EatingJustified

(* What is placed stands in the world once, a door too.                    *)
LEMMA StandingOneMore ==
  ASSUME NEW w, NEW u, NEW s, NEW id, Built(u, id) \subseteq Built(w, id) \cup {s}
  PROVE  Standing(u, id) <= Standing(w, id) + 1
<1>1. IsFiniteSet(Built(w, id))
  BY BuiltFinite
<1>2. /\ IsFiniteSet(Built(w, id) \cup {s})
      /\ Cardinality(Built(w, id) \cup {s}) <= Cardinality(Built(w, id)) + 1
  <2>1. PICK n \in Nat : n = Cardinality(Built(w, id))
    BY <1>1, FS_CardinalityType
  <2>2. CASE s \in Built(w, id)
    <3>1. Built(w, id) \cup {s} = Built(w, id)
      BY <2>2
    <3> QED
      BY <1>1, <2>1, <3>1
  <2>3. CASE s \notin Built(w, id)
    <3>1. /\ IsFiniteSet(Built(w, id) \cup {s})
          /\ Cardinality(Built(w, id) \cup {s}) = Cardinality(Built(w, id)) + 1
      BY <1>1, <2>3, FS_AddElement
    <3> QED
      BY <2>1, <3>1
  <2> QED
    BY <2>2, <2>3
<1>3. PICK more : more = Built(w, id) \cup {s}
  OBVIOUS
<1>4. Cardinality(Built(u, id)) <= Cardinality(more)
  BY <1>2, <1>3, FS_Subset
<1>5. Cardinality(Built(u, id)) \in Nat /\ Cardinality(Built(w, id)) \in Nat
  BY BuiltFinite DEF Standing
<1>6. Cardinality(more) \in Nat
  BY <1>2, <1>3, FS_CardinalityType
<1> QED
  BY <1>2, <1>3, <1>4, <1>5, <1>6 DEF Standing

LEMMA PlaceJustified ==
  ASSUME IInv, NEW s \in Spots, NEW i \in 1..RowLength, Place(s, i)
  PROVE  Justified
<1>1. ItemsInv /\ ItemsInv' /\ WorldInv /\ world \in [Spots -> Blocks]
  BY PlaceIInv DEF IInv, WorldInv, Upright
<1>2. PICK held \in Ids : held = inv[i].id
  BY PlaceRow
<1>3. /\ world[s].id \in Overwritable /\ world' = WithBlock(held, s)
      /\ UNCHANGED <<mouse, chests, drops>>
  BY <1>2 DEF Place
<1>4. \A id : Amount(inv', id) <= Amount(inv, id)
  BY PlaceRow
<1>0. Upright(world) /\ world[s].id # Door
  BY <1>1, <1>3, InventoryAssumption DEF InventoryAssumption, WorldInv
<1>5. /\ \A id : id \notin {0, held} => Standing(world', id) <= Standing(world, id)
      /\ Standing(world', held) <= Standing(world, held) + 1
      /\ held \in NonPlaceable => Standing(world', held) <= Standing(world, held)
  <2>1. CASE world' = world
    <3>1. \A id : Standing(world', id) = Standing(world, id) /\ Standing(world, id) \in Nat
      BY <2>1, BuiltFinite
    <3> QED
      BY <3>1
  <2>2. CASE held \notin NonPlaceable /\ world' = [world EXCEPT ![s] = Plain(held)]
    <3>0. world'[s].id = held /\ \A t \in Spots \ {s} : world'[t] = world[t]
      BY <1>1, <2>2 DEF Plain
    <3>1. \A id : id # held => Built(world', id) \subseteq Built(world, id)
      BY <1>1, <1>0, <3>0, BuiltBefore DEF Built
    <3>2. Built(world', held) \subseteq Built(world, held) \cup {s}
      BY <1>1, <1>0, <3>0, BuiltBefore DEF Built
    <3> QED
      BY <2>2, <3>1, <3>2, StandingNoMore, StandingOneMore
  <2>3. CASE /\ held = Door /\ s + 1 \in Spots /\ world[s + 1] = Air
             /\ world' = [world EXCEPT ![s] = DoorHalf(FALSE), ![s + 1] = DoorHalf(TRUE)]
    <3>1. held \notin NonPlaceable
      BY <2>3, InventoryAssumption DEF InventoryAssumption
    <3>2. s # s + 1
      BY DEF Spots
    <3>3. /\ world'[s] = DoorHalf(FALSE) /\ world'[s + 1] = DoorHalf(TRUE)
          /\ \A t \in Spots \ {s, s + 1} : world'[t] = world[t]
      BY <1>1, <2>3, <3>2
    <3>4. ASSUME NEW id, id # Door, NEW t \in Built(world', id)
          PROVE  t \in Built(world, id)
      <4>1. t \in Spots /\ t \notin {s, s + 1} /\ world'[t] = world[t]
        BY <3>3, <3>4 DEF Built, DoorHalf
      <4> QED
        BY <1>0, <3>4, <4>1, BuiltBefore
    <3>5. s + 1 \notin Built(world', Door)
      <4>1. s \in Int /\ (s + 1) - 1 = s
        BY DEF Spots
      <4> QED
        BY <3>3, <4>1 DEF Built, Over, DoorHalf
    <3>6. Built(world', Door) \subseteq Built(world, Door) \cup {s}
      <4>1. world[s + 1].id # Door
        BY <2>3 DEF Air, Plain, Door
      <4> QED
        BY <1>1, <1>0, <3>3, <3>5, <4>1, BuiltBefore DEF Built
    <3> QED
      BY <2>3, <3>1, <3>4, <3>6, StandingNoMore, StandingOneMore
  <2> QED
    BY <1>1, <1>3, <2>1, <2>2, <2>3, WithBlockIs
<1>6. held \notin NonPlaceable => Amount(inv', held) = Amount(inv, held) - 1
  BY <1>2, PlaceRow
<1>7. ASSUME NEW id, id # 0 PROVE ~(Total(id)' > Total(id))
  <2>1. PICK x \in Nat : x = OfId(mouse, id) + Stored(chests, id) + Lying(drops, id)
    BY <1>1, PlacesAreNat
  <2>2. PICK p \in Nat : p = Standing(world, id)
    BY <1>1, PlacesAreNat
  <2>3. PICK q \in Nat : q = Standing(world', id)
    BY <1>1, NextTotal
  <2>4. PICK y \in Nat : y = Amount(inv, id)
    BY <1>1, PlacesAreNat
  <2>5. PICK z \in Nat : z = Amount(inv', id)
    BY <1>1, NextTotal
  <2>6. Total(id) = x + p + y
    BY <1>1, <2>1, <2>2, <2>4, TotalIs, PlacesAreNat
  <2>7. Total(id)' = x + q + z
    BY <1>1, <1>3, <2>1, <2>3, <2>5, NextTotal, PlacesAreNat
  <2>8. q + z <= p + y
    <3>1. z <= y
      BY <1>4, <2>4, <2>5
    <3>2. CASE id # held \/ held \in NonPlaceable
      <4>1. q <= p
        BY <1>5, <1>7, <2>2, <2>3, <3>2
      <4> QED
        BY <3>1, <4>1
    <3>3. CASE id = held /\ held \notin NonPlaceable
      <4>1. q <= p + 1 /\ z = y - 1
        BY <1>5, <1>6, <2>2, <2>3, <2>4, <2>5, <3>3
      <4> QED
        BY <4>1
    <3> QED
      BY <3>2, <3>3
  <2> QED
    BY <2>6, <2>7, <2>8
<1> QED
  BY <1>7 DEF Justified

(* A click moves stacks between the mouse and one row.                     *)
LEMMA MovingJustified ==
  ASSUME ItemsInv, ItemsInv', UNCHANGED <<world, drops>>,
         \A id :   Amount(inv', id) + Stored(chests', id) + OfId(mouse', id)
                 = Amount(inv, id) + Stored(chests, id) + OfId(mouse, id)
  PROVE  Justified
<1>1. ASSUME NEW id PROVE ~(Total(id)' > Total(id))
  <2>1. PICK x \in Nat : x = Standing(world, id) + Lying(drops, id)
    BY PlacesAreNat
  <2>2. PICK p \in Nat : p = Amount(inv, id) + Stored(chests, id) + OfId(mouse, id)
    BY PlacesAreNat
  <2>3. Total(id) = x + p
    BY <2>1, <2>2, TotalIs, PlacesAreNat
  <2>4. PICK q \in Nat : q = Amount(inv', id) + Stored(chests', id) + OfId(mouse', id)
    BY NextTotal
  <2>5. Total(id)' = x + q
    BY <2>1, <2>4, NextTotal, PlacesAreNat
  <2>6. q = p
    BY <2>2, <2>4
  <2> QED
    BY <2>3, <2>5, <2>6
<1> QED
  BY <1>1 DEF Justified

LEMMA ClickInvJustified ==
  ASSUME IInv, NEW i \in 1..RowLength, ClickInv(i)
  PROVE  Justified
<1>1. ItemsInv /\ ItemsInv'
  BY ClickInvIInv DEF IInv
<1>2. UNCHANGED <<world, chests, drops>>
  BY DEF ClickInv
<1>3. ASSUME NEW id
      PROVE    Amount(inv', id) + Stored(chests', id) + OfId(mouse', id)
             = Amount(inv, id) + Stored(chests, id) + OfId(mouse, id)
  <2>1. Amount(inv', id) + OfId(mouse', id) = Amount(inv, id) + OfId(mouse, id)
    BY <1>1, ClickInvIs
  <2>2. Stored(chests', id) = Stored(chests, id) /\ Stored(chests, id) \in Nat
    BY <1>1, <1>2, PlacesAreNat
  <2>3. /\ Amount(inv, id) \in Nat /\ OfId(mouse, id) \in Nat
        /\ Amount(inv', id) \in Nat /\ OfId(mouse', id) \in Nat
    BY <1>1, PlacesAreNat, NextTotal
  <2> QED
    BY <2>1, <2>2, <2>3
<1> QED
  BY <1>1, <1>2, <1>3, MovingJustified

LEMMA ClickChestJustified ==
  ASSUME IInv, NEW k \in 1..ChestLength, ClickChest(k)
  PROVE  Justified
<1>1. ItemsInv /\ ItemsInv' /\ chests \in [Spots -> ChestRow \cup {Absent}]
  BY ClickChestIInv DEF IInv, ItemsInv
<1>2. UNCHANGED <<world, inv, drops>>
  BY DEF ClickChest
<1>3. openChest \in Opened
  BY DEF ClickChest, IInv, ScreenInv
<1>4. PICK c \in Spots : c = openChest /\ chests[c] # Absent
  BY <1>3 DEF Opened
<1>5. /\ chests' \in [Spots -> ChestRow \cup {Absent}]
      /\ chests[c] \in ChestRow /\ chests'[c] \in ChestRow
      /\ \A s \in Spots \ {c} : chests'[s] = chests[s]
      /\ \A id : Amount(chests'[c], id) + OfId(mouse', id) =
                   Amount(chests[c], id) + OfId(mouse, id)
  BY <1>1, <1>3, <1>4, ClickChestIs
<1>6. ASSUME NEW id
      PROVE    Amount(inv', id) + Stored(chests', id) + OfId(mouse', id)
             = Amount(inv, id) + Stored(chests, id) + OfId(mouse, id)
  <2>1. PICK S : S = InUse(chests)
    OBVIOUS
  <2>2. InUse(chests') = S
    BY <1>4, <1>5, <2>1, AbsentIsNoChest DEF InUse
  <2>3. PICK w : w = StoredIn(chests, id)
    OBVIOUS
  <2>4. PICK u : u = StoredIn(chests', id)
    OBVIOUS
  <2>5. IsFiniteSet(S) /\ w \in [S -> Nat] /\ SumOver(w) \in Nat
    BY <1>1, <2>1, <2>3, StoredFacts DEF Stored
  <2>6. u \in [S -> Nat]
    BY <1>5, <2>2, <2>4, StoredFacts
  <2>7. c \in S /\ w[c] = Amount(chests[c], id) /\ u[c] = Amount(chests'[c], id)
    BY <1>4, <2>1, <2>2, <2>3, <2>4 DEF StoredIn, InUse
  <2>8. \A s \in S \ {c} : u[s] = w[s]
    BY <1>5, <2>1, <2>2, <2>3, <2>4 DEF StoredIn, InUse
  <2>9. SumOver(u) = SumOver(w) - w[c] + u[c]
    BY <2>5, <2>6, <2>7, <2>8, SumChanges
  <2>10. w[c] \in Nat /\ u[c] \in Nat
    BY <2>5, <2>6, <2>7
  <2>11. PICK m \in Nat : m = OfId(mouse, id)
    BY <1>1, PlacesAreNat
  <2>12. PICK n \in Nat : n = OfId(mouse', id)
    BY <1>1, NextTotal
  <2>13. u[c] + n = w[c] + m
    BY <1>5, <2>7, <2>11, <2>12
  <2>14. Stored(chests', id) = SumOver(u) /\ Stored(chests, id) = SumOver(w)
    BY <2>3, <2>4 DEF Stored
  <2>15. Amount(inv', id) = Amount(inv, id) /\ Amount(inv, id) \in Nat
    BY <1>1, <1>2, PlacesAreNat
  <2> QED
    BY <2>5, <2>9, <2>10, <2>11, <2>12, <2>13, <2>14, <2>15
<1> QED
  BY <1>1, <1>2, <1>6, MovingJustified

(* A stamp adds blocks of its own ids alone: an upper half that begins to  *)
(* count stands for the lower half that was stamped over.                  *)
LEMMA StandingStamped ==
  ASSUME NEW w, Upright(w), NEW b \in Builds, NEW u,
         \A s \in DOMAIN b : u[s] = Plain(b[s]),
         \A s \in Spots \ DOMAIN b : u[s] = w[s],
         NEW id, id \notin {b[s] : s \in DOMAIN b}
  PROVE  Standing(u, id) <= Standing(w, id)
<1>1. ASSUME NEW s \in Built(u, id)
      PROVE  s \in Spots /\ s \notin DOMAIN b /\ u[s] = w[s]
  <2>1. s \in Spots /\ u[s].id = id
    BY DEF Built
  <2>2. ASSUME s \in DOMAIN b PROVE FALSE
    <3>1. u[s].id = b[s]
      <4>1. u[s] = Plain(b[s])
        BY <2>2
      <4> QED
        BY <4>1 DEF Plain
    <3>2. b[s] \in {b[x] : x \in DOMAIN b}
      BY <2>2
    <3> QED
      BY <2>1, <3>1, <3>2
  <2> QED
    BY <2>1, <2>2
<1>2. CASE id # Door
  <2>1. Built(u, id) \subseteq Built(w, id)
    BY <1>1, <1>2, BuiltBefore
  <2> QED
    BY <2>1, StandingNoMore
<1>3. CASE id = Door
  <2> DEFINE lower(s) == IF s \in Built(w, id) THEN s ELSE s - 1
  <2>1. ASSUME NEW s \in Built(u, id), s \notin Built(w, id)
        PROVE  s - 1 \in Built(w, id) /\ s - 1 \notin Built(u, id)
    <3>1. s \in Spots /\ u[s] = w[s] /\ w[s].id = Door
      BY <1>1, <1>3, <2>1 DEF Built
    <3>2. Over(w, s) /\ ~Over(u, s)
      BY <1>3, <2>1, <3>1 DEF Built
    <3>3. s - 1 \in Built(w, id)
      BY <1>3, <3>2 DEF Built, Over
    <3>4. s - 1 \in DOMAIN b
      BY <3>1, <3>2 DEF Over
    <3> QED
      BY <1>1, <3>3, <3>4
  <2>2. PICK g : g = [s \in Built(u, id) |-> lower(s)]
    OBVIOUS
  <2>3. g \in [Built(u, id) -> Built(w, id)]
    BY <2>1, <2>2
  <2>4. ASSUME NEW s \in Built(u, id), NEW t \in Built(u, id), g[s] = g[t]
        PROVE  s = t
    <3>1. s \in Int /\ t \in Int
      BY <1>1 DEF Spots
    <3> QED
      BY <2>1, <2>2, <2>4, <3>1
  <2>5. g \in Injection(Built(u, id), Built(w, id))
    BY <2>3, <2>4 DEF Injection, IsInjective
  <2> QED
    BY <2>5, BuiltFinite, FS_Injection DEF Standing
<1> QED
  BY <1>2, <1>3

LEMMA BuildJustified ==
  ASSUME IInv, NEW b \in Builds, Build(b)
  PROVE  Justified
<1>1. ItemsInv /\ ItemsInv' /\ Upright(world)
  BY BuildIInv DEF IInv, WorldInv
<1>2. UNCHANGED <<inv, mouse, chests, drops>>
  BY DEF Build, itemVars
<1>3. /\ \A s \in DOMAIN b : world'[s] = Plain(b[s])
      /\ \A s \in Spots \ DOMAIN b : world'[s] = world[s]
  BY StampedIs DEF Build
<1>4. ASSUME NEW id, id \notin {b[s] : s \in DOMAIN b} PROVE ~(Total(id)' > Total(id))
  <2>1. PICK x \in Nat : x = Amount(inv, id) + OfId(mouse, id)
                               + Stored(chests, id) + Lying(drops, id)
    BY <1>1, PlacesAreNat
  <2>2. PICK p \in Nat : p = Standing(world, id)
    BY <1>1, PlacesAreNat
  <2>3. PICK q \in Nat : q = Standing(world', id)
    BY <1>1, NextTotal
  <2>4. q <= p
    BY <1>1, <1>3, <1>4, <2>2, <2>3, StandingStamped
  <2>5. Total(id) = x + p
    BY <1>1, <2>1, <2>2, TotalIs, PlacesAreNat
  <2>6. Total(id)' = x + q
    BY <1>1, <1>2, <2>1, <2>3, NextTotal, PlacesAreNat
  <2> QED
    BY <2>4, <2>5, <2>6
<1> QED
  BY <1>4 DEF Justified

LEMMA StepJustified ==
  ASSUME IInv, [Next]_vars, deaths' = deaths
  PROVE  Justified
<1>1. CASE UNCHANGED vars
  BY <1>1, IdleJustified DEF vars, itemVars, IInv
<1>2. CASE Crafts
  BY <1>2, CraftJustified DEF Crafts
<1>3. CASE UpdateInventory \/ CraftKey \/ CloseCrafting \/ Exit \/ BuildKey
  <2>1. UNCHANGED <<world, inv, mouse, chests, drops>>
    BY <1>3 DEF UpdateInventory, CraftKey, CloseCrafting, Exit, BuildKey, itemVars
  <2> QED
    BY <2>1, IdleJustified DEF IInv
<1>4. CASE \E stack \in BagToSet(drops) : PickUp(stack)
  BY <1>4, PickUpJustified DEF BagToSet
<1>5. CASE \E s \in Spots : Break(s)
  BY <1>5, BreakJustified
<1>6. CASE Uses
  <2>1. PICK i \in 1..RowLength :
          \/ UseNothing(i)
          \/ \E s \in Spots : UseDoor(s, i) \/ UseChest(s, i) \/ UseTable(s, i)
                                \/ Place(s, i)
    BY <1>6 DEF Uses
  <2>2. CASE UseNothing(i)
    BY <2>2, UseTableJustified
  <2>3. ASSUME NEW s \in Spots,
               UseDoor(s, i) \/ UseChest(s, i) \/ UseTable(s, i) \/ Place(s, i)
        PROVE  Justified
    BY <2>3, UseDoorJustified, UseChestJustified, UseTableJustified, PlaceJustified
  <2> QED
    BY <2>1, <2>2, <2>3
<1>7. CASE Clicks
  BY <1>7, ClickChestJustified, ClickInvJustified DEF Clicks
<1>8. CASE \E amount \in Damages : TakeDamage(amount)
  <2>1. PICK amount \in Damages : TakeDamage(amount)
    BY <1>8
  <2>2. deaths # deaths + 1
    BY InventoryAssumption DEF InventoryAssumption, IInv, LifeInv
  <2>3. UNCHANGED <<world, inv, mouse, chests, drops>>
    BY <2>1, <2>2 DEF TakeDamage
  <2> QED
    BY <2>3, IdleJustified DEF IInv
<1>9. CASE \E b \in Builds : Build(b)
  BY <1>9, BuildJustified
<1> QED
  BY <1>1, <1>2, <1>3, <1>4, <1>5, <1>6, <1>7, <1>8, <1>9 DEF Next

(* Short of a new life, there is never more of an id in the world, the     *)
(* slots, the chests, on the mouse and on the ground than before, unless it*)
(* was crafted or came out of crystals or leaves, of which there is then   *)
(* less, or is in a model that was stamped: no other click, key or meal    *)
(* duplicates anything, and half a door gives no second one.               *)
THEOREM NothingComesFromNothing == Spec => NothingFromNothing
<1>1. IInv /\ [Next]_vars =>
        [deaths' = deaths =>
           \A id \in InPlay' \ {0} : Total(id)' > Total(id) =>
             \/ \E source \in Sources(id) : Total(source)' < Total(source)
             \/ \E b \in Builds : Build(b) /\ id \in {b[s] : s \in DOMAIN b}
          ]_<<world, itemVars>>
  BY StepJustified DEF Justified
<1> QED
  BY <1>1, Invariance, PTL DEF NothingFromNothing, Spec

----------------------------------------------------------------------------
(* Light: values, rays and the stack of a walk.                            *)

LEMMA LevelFacts ==
  /\ Bright \in Levels /\ Levels \subseteq Nat
  /\ \A v \in Levels : v <= Bright
  /\ \A v \in Levels : v > 1 => Reduced(v) = v - 2 /\ v - 2 \in Levels
<1>1. Bright \in Nat /\ Bright >= 2 /\ Bright <= 15 /\ Steps \in Nat
      /\ 2 * Steps <= Bright /\ Bright <= 2 * Steps + 1
  BY LightAssumption DEF Steps
<1>2. \A k \in 0..Steps : Bright - 2 * k \in Nat /\ Bright - 2 * k <= Bright
  BY <1>1
<1>3. Levels \subseteq Nat /\ \A v \in Levels : v <= Bright
  BY <1>2 DEF Levels
<1>4. Bright \in Levels
  BY <1>1, Bright = Bright - 2 * 0 DEF Levels
<1>5. ASSUME NEW v \in Levels, v > 1 PROVE Reduced(v) = v - 2 /\ v - 2 \in Levels
  <2>1. PICK k \in 0..Steps : v = Bright - 2 * k
    BY DEF Levels
  <2>2. k + 1 \in 0..Steps /\ v - 2 = Bright - 2 * (k + 1)
    BY <1>1, <1>5, <2>1
  <2>3. v - 2 \in Levels
    BY <2>2 DEF Levels
  <2>4. v - 2 \in Nat
    BY <1>3, <2>3
  <2>5. Max({v - 2, 0}) = v - 2
    <3>1. v - 2 \in {v - 2, 0} /\ \A y \in {v - 2, 0} : v - 2 >= y
      BY <2>4
    <3>2. \A x \in {v - 2, 0} : (\A y \in {v - 2, 0} : x >= y) => x = v - 2
      BY <2>4
    <3> QED
      BY <3>1, <3>2 DEF Max
  <2> QED
    BY <2>3, <2>5 DEF Reduced
<1> QED
  BY <1>3, <1>4, <1>5

LEMMA HigherLevel ==
  ASSUME NEW u \in Nat, NEW v \in Nat
  PROVE  /\ Max({u, v}) \in {u, v} /\ Max({u, v}) >= u /\ Max({u, v}) >= v
<1>1. \E x \in {u, v} : \A y \in {u, v} : x >= y
  <2>1. CASE u >= v
    BY <2>1
  <2>2. CASE ~(u >= v)
    BY <2>2
  <2> QED
    BY <2>1, <2>2
<1> QED
  BY <1>1 DEF Max

(* What is still to visit.                                                 *)
OnStack(s, c, v) == \E i \in 1..Len(s) : c \in s[i].cells /\ v = s[i].value
Stacked(s) == s \in Seq(Groups) /\ \A i \in 1..Len(s) : s[i].cells # {}

(* The second list is the first with some spots more, or one less.         *)
Lengthens(t, s, cells, v) ==
  \A d, u : OnStack(s, d, u) <=> OnStack(t, d, u) \/ (d \in cells /\ u = v)
Shortens(s, t, c, v) ==
  \A d, u : /\ OnStack(t, d, u) => OnStack(s, d, u)
            /\ OnStack(s, d, u) => OnStack(t, d, u) \/ (d = c /\ u = v)

LEMMA PushIs ==
  ASSUME NEW s, Stacked(s), NEW cells \in SUBSET Cells, NEW v \in Levels
  PROVE  /\ Stacked(Push(s, cells, v))
         /\ \A c, u : OnStack(Push(s, cells, v), c, u)
                        <=> OnStack(s, c, u) \/ (c \in cells /\ u = v)
         /\ Push(s, cells, v) = <<>> <=> s = <<>> /\ cells = {}
<1>1. CASE cells = {}
  BY <1>1 DEF Push
<1>2. CASE cells # {}
  <2> DEFINE g == [cells |-> cells, value |-> v]
             t == <<g>> \o s
  <2>1. g \in Groups /\ s \in Seq(Groups)
    BY DEF Groups, Stacked
  <2>2. t \in Seq(Groups) /\ Len(t) = Len(s) + 1 /\ t[1] = g
        /\ \A i \in 1..Len(s) : t[i + 1] = s[i]
    BY <2>1
  <2>3. \A i \in 1..Len(t) : i = 1 \/ (i - 1 \in 1..Len(s) /\ t[i] = s[i - 1])
    BY <2>1, <2>2
  <2>4. Stacked(t)
    BY <1>2, <2>2, <2>3 DEF Stacked
  <2>5. ASSUME NEW c, NEW u
        PROVE  OnStack(t, c, u) <=> OnStack(s, c, u) \/ (c \in cells /\ u = v)
    <3>1. ASSUME OnStack(t, c, u) PROVE OnStack(s, c, u) \/ (c \in cells /\ u = v)
      BY <2>2, <2>3, <3>1 DEF OnStack
    <3>2. ASSUME OnStack(s, c, u) PROVE OnStack(t, c, u)
      <4>1. PICK i \in 1..Len(s) : c \in s[i].cells /\ u = s[i].value
        BY <3>2 DEF OnStack
      <4>2. i + 1 \in 1..Len(t) /\ t[i + 1] = s[i]
        BY <2>1, <2>2
      <4> QED
        BY <4>1, <4>2 DEF OnStack
    <3>3. ASSUME c \in cells /\ u = v PROVE OnStack(t, c, u)
      <4>1. 1 \in 1..Len(t) /\ t[1].cells = cells /\ t[1].value = v
        BY <2>1, <2>2
      <4> QED
        BY <3>3, <4>1 DEF OnStack
    <3> QED
      BY <3>1, <3>2, <3>3
  <2>6. t # <<>>
    BY <2>1, <2>2
  <2> QED
    BY <1>2, <2>4, <2>5, <2>6 DEF Push
<1> QED
  BY <1>1, <1>2

LEMMA PopKeeps ==
  ASSUME NEW s, Stacked(s), s # <<>>, NEW t, NEW g, t = Tail(s), g = Head(s)
  PROVE  /\ g.value \in Levels /\ g.cells \in SUBSET Cells /\ Stacked(t)
         /\ Lengthens(t, s, g.cells, g.value)
<1>1. s \in Seq(Groups) /\ Len(s) > 0 /\ 1 \in 1..Len(s) /\ g = s[1]
  BY DEF Stacked
<1>2. g \in Groups
  BY <1>1
<1>3. g.value \in Levels /\ g.cells \in SUBSET Cells
  BY <1>2 DEF Groups
<1>4. /\ t \in Seq(Groups) /\ Len(t) = Len(s) - 1
      /\ \A i \in 1..Len(t) : t[i] = s[i + 1]
  BY <1>1
<1>5. Stacked(t)
  BY <1>1, <1>4 DEF Stacked
<1>6. ASSUME NEW d, NEW u
      PROVE  OnStack(s, d, u) <=> OnStack(t, d, u) \/ (d \in g.cells /\ u = g.value)
  <2>1. ASSUME OnStack(s, d, u)
        PROVE  OnStack(t, d, u) \/ (d \in g.cells /\ u = g.value)
    <3>1. PICK i \in 1..Len(s) : d \in s[i].cells /\ u = s[i].value
      BY <2>1 DEF OnStack
    <3>2. CASE i = 1
      BY <1>1, <3>1, <3>2
    <3>3. CASE i # 1
      <4>1. i - 1 \in 1..Len(t) /\ t[i - 1] = s[i]
        BY <1>1, <1>4, <3>3
      <4> QED
        BY <3>1, <4>1 DEF OnStack
    <3> QED
      BY <3>2, <3>3
  <2>2. ASSUME OnStack(t, d, u) PROVE OnStack(s, d, u)
    <3>1. PICK i \in 1..Len(t) : d \in t[i].cells /\ u = t[i].value
      BY <2>2 DEF OnStack
    <3>2. i + 1 \in 1..Len(s) /\ t[i] = s[i + 1]
      BY <1>1, <1>4
    <3> QED
      BY <3>1, <3>2 DEF OnStack
  <2>3. d \in g.cells /\ u = g.value => OnStack(s, d, u)
    BY <1>1 DEF OnStack
  <2> QED
    BY <2>1, <2>2, <2>3
<1> QED
  BY <1>3, <1>5, <1>6 DEF Lengthens

LEMMA PopIs ==
  ASSUME NEW s, Stacked(s), s # <<>>, NEW c, NEW g, g = Head(s), c \in g.cells,
         NEW rest, rest = Push(Tail(s), g.cells \ {c}, g.value)
  PROVE  /\ g.value \in Levels /\ g.cells \subseteq Cells
         /\ Stacked(rest)
         /\ OnStack(s, c, g.value)
         /\ Shortens(s, rest, c, g.value)
<1>1. PICK t : t = Tail(s)
  OBVIOUS
<1>2. g.value \in Levels /\ g.cells \in SUBSET Cells /\ Stacked(t)
  BY <1>1, PopKeeps
<1>3. Lengthens(t, s, g.cells, g.value)
  BY <1>1, PopKeeps
<1>4. rest = Push(t, g.cells \ {c}, g.value) /\ g.cells \ {c} \in SUBSET Cells
  BY <1>1, <1>2
<1>5. Stacked(rest)
  <2>1. Stacked(Push(t, g.cells \ {c}, g.value))
    BY <1>2, <1>4, PushIs
  <2> QED
    BY <1>4, <2>1
<1>6. \A e, x : OnStack(rest, e, x) <=> OnStack(t, e, x) \/ (e \in g.cells \ {c} /\ x = g.value)
  BY <1>2, <1>4, PushIs
<1>7. OnStack(s, c, g.value)
  BY <1>3 DEF Lengthens
<1>8. Shortens(s, rest, c, g.value)
  BY <1>3, <1>6 DEF Lengthens, Shortens
<1> QED
  BY <1>2, <1>5, <1>7, <1>8

LEMMA NothingOnStack == \A c, v : ~OnStack(<<>>, c, v)
BY DEF OnStack

LEMMA SomethingOnStack ==
  ASSUME NEW s, Stacked(s), s # <<>>
  PROVE  Head(s).cells # {}
<1>1. s \in Seq(Groups) /\ 1 \in 1..Len(s) /\ Head(s) = s[1]
  BY DEF Stacked
<1> QED
  BY <1>1 DEF Stacked

----------------------------------------------------------------------------
(* How far a light reaches, and what that says of its rays.                *)

Wider(near, o) == near \cup UNION {Neighbors[c] : c \in {d \in near : GoesOn(d, o)}}

LEMMA WiderIs ==
  ASSUME NEW near \in SUBSET Cells, NEW o
  PROVE  Wider(near, o) \in SUBSET Cells
BY LightAssumption DEF Wider

LEMMA ReachStep ==
  ASSUME NEW o \in Cells
  PROVE  /\ Reach(o)[0] = {o}
         /\ \A k \in 1..Steps : Reach(o)[k] = Wider(Reach(o)[k - 1], o)
<1> DEFINE reach == Reach(o)
<1>1. Steps \in Nat
  BY LightAssumption DEF Steps
<1>2. \E f : f = [k \in 0..Steps |-> IF k = 0 THEN {o} ELSE Wider(f[k - 1], o)]
  <2>1. PICK F : F = [j \in 1..Steps |-> [near \in SUBSET Cells |-> Wider(near, o)]]
    OBVIOUS
  <2>2. F \in [1..Steps -> [SUBSET Cells -> SUBSET Cells]] /\ {o} \in SUBSET Cells
    BY <2>1, WiderIs
  <2>3. PICK g : Follows(g, Steps, SUBSET Cells, {o}, F)
    BY <1>1, <2>2, RecursionExists
  <2>4. ASSUME NEW j \in 0..Steps
        PROVE  g[j] = IF j = 0 THEN {o} ELSE Wider(g[j - 1], o)
    <3>1. CASE j = 0
      BY <2>3, <3>1 DEF Follows
    <3>2. CASE j # 0
      <4>1. j \in 1..Steps /\ j - 1 \in 0..Steps
        BY <1>1, <3>2
      <4>2. g[j - 1] \in SUBSET Cells
        BY <2>3, <4>1 DEF Follows
      <4>3. F[j][g[j - 1]] = Wider(g[j - 1], o)
        <5>1. F[j] = [near \in SUBSET Cells |-> Wider(near, o)]
          BY <2>1, <4>1
        <5> QED
          BY <4>2, <5>1
      <4> QED
        BY <2>3, <3>2, <4>1, <4>3 DEF Follows
    <3> QED
      BY <3>1, <3>2
  <2> QED
    BY <2>3, <2>4 DEF Follows
<1>3. reach = [k \in 0..Steps |-> IF k = 0 THEN {o} ELSE Wider(reach[k - 1], o)]
  <2>1. reach = CHOOSE f : f = [k \in 0..Steps |-> IF k = 0 THEN {o}
                                                   ELSE Wider(f[k - 1], o)]
    BY DEF Reach, Wider
  <2> QED
    BY <1>2, <2>1
<1> HIDE DEF reach
<1>4. reach[0] = {o} /\ \A k \in 1..Steps : reach[k] = Wider(reach[k - 1], o)
  <2>1. \A k \in 0..Steps : reach[k] = IF k = 0 THEN {o} ELSE Wider(reach[k - 1], o)
    BY <1>3
  <2>2. 0 \in 0..Steps /\ \A k \in 1..Steps : k \in 0..Steps /\ k # 0
    BY <1>1
  <2> QED
    BY <2>1, <2>2
<1> QED
  BY <1>4 DEF reach

(* Locally right: light goes on from where it can with two less, and comes *)
(* from somewhere with two more.                                           *)
FromRay(r, c, v) == \E p \in DOMAIN r : c \in r[p].dirs /\ v + 2 <= r[p].value
RightRays(o, r) ==
  /\ o \in DOMAIN r /\ r[o].value = Bright
  /\ \A c \in DOMAIN r : r[c].dirs \subseteq Neighbors[c]
  /\ \A c \in DOMAIN r \ {o} : FromRay(r, c, r[c].value)
  /\ \A p \in DOMAIN r :
       IF GoesOn(p, o)
         THEN r[p].value > 1 => \A d \in Neighbors[p] : /\ d \in DOMAIN r
                                                      /\ r[d].value >= r[p].value - 2
         ELSE r[p].dirs = {}

LEMMA RayMapIs ==
  ASSUME NEW r \in RayMaps
  PROVE  /\ DOMAIN r \subseteq Cells
         /\ \A c \in DOMAIN r : /\ r[c].value \in Levels /\ r[c].value \in Nat
                                /\ r[c].value <= Bright /\ r[c].dirs \subseteq Cells
<1>1. PICK s \in SUBSET Cells : r \in [s -> Rays]
  BY DEF RayMaps
<1>2. DOMAIN r = s /\ \A c \in s : r[c].value \in Levels /\ r[c].dirs \subseteq Cells
  BY <1>1 DEF Rays
<1> QED
  BY <1>2, LevelFacts

LEMMA RightRaysReach ==
  ASSUME NEW o \in Cells, NEW r \in RayMaps, RightRays(o, r), NEW k \in 0..Steps
  PROVE  Reach(o)[k] = {c \in DOMAIN r : r[c].value >= Bright - 2 * k}
<1> DEFINE Near(j) == {c \in DOMAIN r : r[c].value >= Bright - 2 * j}
           T == {j \in 0..Steps : Reach(o)[j] # Near(j)}
<1>0. Steps \in Nat /\ Bright \in Nat /\ 2 * Steps <= Bright
  BY LightAssumption DEF Steps
<1>1. ASSUME T # {} PROVE FALSE
  <2>0. T \subseteq Nat
    BY <1>0
  <2> HIDE DEF T
  <2>1. PICK j \in T : \A m \in T : j <= m
    BY <1>1, <2>0, LeastNat
  <2> USE DEF T
  <2>2. j # 0
    <3>1. SUFFICES ASSUME j = 0 PROVE FALSE
      OBVIOUS
    <3>2. Reach(o)[0] = {o}
      BY ReachStep
    <3>3. o \in Near(0)
      BY <1>0 DEF RightRays
    <3>4. ASSUME NEW c \in Near(0), c # o PROVE FALSE
      <4>1. PICK p \in DOMAIN r : r[c].value + 2 <= r[p].value
        BY <3>4 DEF RightRays, FromRay
      <4> QED
        BY <1>0, <4>1, RayMapIs
    <3> QED
      BY <2>1, <3>1, <3>2, <3>3, <3>4
  <2>3. PICK i : i = j - 1
    OBVIOUS
  <2>4. j \in 1..Steps /\ i \in 0..Steps /\ j = i + 1 /\ i \notin T
    BY <1>0, <2>1, <2>2, <2>3
  <2>5. Reach(o)[i] = Near(i) /\ Reach(o)[j] = Wider(Reach(o)[i], o)
    BY <2>3, <2>4, ReachStep
  <2>6. Bright - 2 * i >= 2 /\ Bright - 2 * j = Bright - 2 * i - 2 /\ Bright - 2 * i \in Nat
    BY <1>0, <2>4
  <2>7. ASSUME NEW c \in Wider(Near(i), o) PROVE c \in Near(j)
    <3>1. CASE c \in Near(i)
      BY <2>6, <3>1, RayMapIs
    <3>2. CASE c \notin Near(i)
      <4>1. PICK p \in Near(i) : GoesOn(p, o) /\ c \in Neighbors[p]
        BY <2>7, <3>2 DEF Wider
      <4>2. r[p].value \in Nat /\ r[p].value >= 2 /\ r[p].value >= Bright - 2 * i
        BY <2>6, RayMapIs
      <4>3. c \in DOMAIN r /\ r[c].value >= r[p].value - 2
        BY <4>1, <4>2 DEF RightRays
      <4> QED
        BY <2>6, <4>2, <4>3, RayMapIs
    <3> QED
      BY <3>1, <3>2
  <2>8. ASSUME NEW c \in Near(j) PROVE c \in Wider(Near(i), o)
    <3>1. CASE c = o
      <4>1. o \in DOMAIN r /\ r[o].value = Bright /\ Bright >= Bright - 2 * i
        BY <1>0, <2>4 DEF RightRays
      <4> QED
        BY <3>1, <4>1 DEF Wider
    <3>2. CASE c # o
      <4>1. PICK p \in DOMAIN r : c \in r[p].dirs /\ r[c].value + 2 <= r[p].value
        BY <3>2 DEF RightRays, FromRay
      <4>2. p \in Near(i)
        BY <2>6, <4>1, RayMapIs
      <4>3. GoesOn(p, o) /\ c \in Neighbors[p]
        BY <4>1 DEF RightRays
      <4> QED
        BY <4>2, <4>3 DEF Wider
    <3> QED
      BY <3>1, <3>2
  <2>9. Reach(o)[j] = Near(j)
    BY <2>5, <2>7, <2>8 DEF Wider
  <2> QED
    BY <2>1, <2>9
<1> QED
  BY <1>1

LEMMA RightRaysAreExact ==
  ASSUME NEW o \in Cells, NEW r \in RayMaps, RightRays(o, r)
  PROVE  /\ DOMAIN r = Reach(o)[Steps]
         /\ \A c \in DOMAIN r : r[c].value = Value(o, c)
<1>0. Steps \in Nat /\ Bright \in Nat /\ 2 * Steps <= Bright /\ Steps \in 0..Steps
  BY LightAssumption DEF Steps
<1>1. \A c \in DOMAIN r : \E k \in 0..Steps : r[c].value = Bright - 2 * k
  BY RayMapIs DEF Levels
<1>2. ASSUME NEW c \in DOMAIN r PROVE c \in Reach(o)[Steps]
  <2>1. PICK k \in 0..Steps : r[c].value = Bright - 2 * k
    BY <1>1
  <2>2. r[c].value >= Bright - 2 * Steps
    BY <1>0, <2>1
  <2> QED
    BY <1>0, <2>2, RightRaysReach
<1>3. DOMAIN r = Reach(o)[Steps]
  BY <1>0, <1>2, RightRaysReach
<1>4. ASSUME NEW c \in DOMAIN r PROVE r[c].value = Value(o, c)
  <2>1. PICK k \in 0..Steps : r[c].value = Bright - 2 * k
    BY <1>1
  <2>2. ASSUME NEW j \in 0..Steps PROVE c \in Reach(o)[j] <=> j >= k
    <3>1. c \in Reach(o)[j] <=> r[c].value >= Bright - 2 * j
      BY RightRaysReach
    <3> QED
      BY <1>0, <2>1, <3>1
  <2>3. ASSUME NEW j \in 0..Steps
        PROVE  (c \in Reach(o)[j] /\ (j = 0 \/ c \notin Reach(o)[j - 1])) <=> j = k
    <3>1. CASE j = 0
      BY <1>0, <2>1, <2>2, <3>1
    <3>2. CASE j # 0
      <4>1. j - 1 \in 0..Steps
        BY <1>0, <3>2
      <4> QED
        BY <1>0, <2>2, <3>2, <4>1
    <3> QED
      BY <3>1, <3>2
  <2>4. Distance(o, c) = k
    BY <2>3 DEF Distance
  <2> QED
    BY <2>1, <2>4 DEF Value
<1> QED
  BY <1>3, <1>4

----------------------------------------------------------------------------
(* The inductive invariant.  The rays of a light hang together; a pass has *)
(* a chunk of its own; a walk knows what it has visited and what it has    *)
(* still to visit, each coming from a ray; and what the main thread has    *)
(* set is what stands there.                                               *)

Linked(o, r) ==
  /\ DOMAIN r # {} => o \in DOMAIN r /\ r[o].value = Bright
  /\ \A c \in DOMAIN r : r[c].dirs \subseteq Neighbors[c]
  /\ \A c \in DOMAIN r \ {o} : FromRay(r, c, r[c].value)
LinkInv == \A o \in Cells : Linked(o, rays[o])

PassInv ==
  \A w \in Workers :
    IF pass[w].chunk = None THEN pass[w] = Idle
    ELSE /\ \A o \in pass[w].existing \cup pass[w].sources : ChunkOf[o] = pass[w].chunk
         /\ \A v \in Workers : pass[v].chunk = pass[w].chunk => v = w
         /\ \A o \in pass[w].sources : DOMAIN rays[o] = {} \/ o \in pass[w].existing

Walking(o, w) ==
  /\ w \in Workers /\ pass[w].chunk = ChunkOf[o]
  /\ pass[w].existing = {} /\ o \notin pass[w].sources
  /\ walk.stack # <<>>
  /\ walk.visited = DOMAIN rays[o] \cup {c \in Cells : \E v \in Levels : OnStack(walk.stack, c, v)}
  /\ \A c \in Cells, v \in Levels :
       OnStack(walk.stack, c, v) => (c = o /\ v = Bright) \/ FromRay(rays[o], c, v)
FloodInv ==
  /\ Stacked(walk.stack)
  /\ IF walk.origin = None THEN walk = NoWalk ELSE Walking(walk.origin, walk.worker)

MainInv ==
  IF main.cell = None THEN main = NoBlock
  ELSE /\ main.old # main.new /\ "air" \in {main.old, main.new}
       /\ blocks[main.cell] = main.new /\ patch = NoPatch
PatchInv == \A c \in DOMAIN patch.todo : ChunkOf[c] \in patch.chunks

(* A ray is right where it is, or will be if the walk over it goes on; if  *)
(* not, the block there was just set, or the light is to be passed over.   *)
Flooding(o) == walk.origin = o
Gets(o, d, v) ==
  \/ d \in DOMAIN rays[o] /\ rays[o][d].value >= v
  \/ Flooding(o) /\ \E u \in Levels : u >= v /\ OnStack(walk.stack, d, u)
Right(o, p) ==
  IF GoesOn(p, o)
    THEN rays[o][p].value > 1 =>
           \A d \in Neighbors[p] : Gets(o, d, rays[o][p].value - 2)
    ELSE rays[o][p].dirs = {}
Changed(o, p) == p # o /\ main.cell = p /\ (Passes(main.old) <=> ~Passes(main.new))
Leaving(o) == \E w \in Workers : o \in pass[w].existing
RightInv ==
  \A o \in Cells : \A p \in DOMAIN rays[o] :
    Right(o, p) \/ Changed(o, p) \/ o \in crossed \/ ChunkOf[o] \in lightReq \/ Leaving(o)

(* A light has rays or is about to get them; what is no light has none, or *)
(* is about to lose them; or else it was just set, its chunk is asked for, *)
(* or it was set with a patch.                                             *)
Coming(o) == Flooding(o) \/ \E w \in Workers : o \in pass[w].sources
LightMoved(o) == main.cell = o /\ (IsLight(main.old) \/ IsLight(main.new))
LightsInv ==
  \A o \in Cells :
    \/ LightMoved(o) \/ ChunkOf[o] \in lightReq \/ o \in overlaid
    \/ IF IsLight(blocks[o]) THEN Coming(o) \/ (DOMAIN rays[o] # {} /\ ~Leaving(o))
                             ELSE ~Coming(o) /\ (DOMAIN rays[o] = {} \/ Leaving(o))

(* A mesh is right, or its chunk is still to be rebuilt.                   *)
MeshOK(k) ==
  /\ FacesOf(k) \ unseen \subseteq DOMAIN shown[k]
  /\ \A f \in Inner(k) : f \in FacesOf(k) /\ shown[k][f] = LightAt(f[2])
ToBeRebuilt(k) ==
  \/ k \in userReq \/ k \in lightReq \/ k \in patch.chunks
  \/ main.cell # None /\ k \in Targets(main.cell, main.new)
  \/ \E w \in Workers : pass[w].chunk = k \/ k \in pass[w].imp
MeshInv == \A k \in Chunks : MeshOK(k) \/ ToBeRebuilt(k)

WalkInv == LightTypeOK /\ LinkInv /\ PassInv /\ FloodInv /\ MainInv /\ PatchInv
LightInv == WalkInv /\ RightInv /\ LightsInv /\ MeshInv

----------------------------------------------------------------------------
(* The structure is kept.                                                  *)

LEMMA ChunkFacts ==
  /\ None \notin Cells /\ None \notin Chunks
  /\ \A c \in Cells : ChunkOf[c] \in Chunks /\ ChunkOf[c] # None
  /\ \A c \in Cells : Neighbors[c] \subseteq Cells
  /\ \A k \in Chunks : \E c \in Cells : k = ChunkOf[c]
BY LightAssumption DEF Chunks

LEMMA EmptyMaps ==
  <<>> \in RayMaps /\ <<>> \in Meshes /\ <<>> \in BlockMaps /\ DOMAIN <<>> = {}
<1>1. <<>> \in [{} -> Rays]
  OBVIOUS
<1>2. <<>> \in [{} -> SUBSET (Cells \X Levels)]
  OBVIOUS
<1>3. {} \in SUBSET Cells /\ {} \in SUBSET (Cells \X Cells)
  OBVIOUS
<1>4. <<>> \in [{} -> Kinds]
  OBVIOUS
<1> QED
  BY <1>1, <1>2, <1>3, <1>4 DEF RayMaps, Meshes, BlockMaps

LEMMA LightInitWalk == LightInit => WalkInv
<1> SUFFICES ASSUME LightInit PROVE WalkInv
  OBVIOUS
<1>1. LightTypeOK
  <2>1. rays \in [Cells -> RayMaps] /\ shown \in [Chunks -> Meshes]
    BY EmptyMaps DEF LightInit
  <2>2. blocks \in [Cells -> Kinds] /\ edits \in 0..MaxEdits
    BY LightAssumption DEF LightInit
  <2>3. main \in [cell : Cells \cup {None}, old : Kinds, new : Kinds]
    BY DEF LightInit, NoBlock, Kinds
  <2>4. <<>> \in Seq(Groups)
    OBVIOUS
  <2>5. walk \in [worker : Workers \cup {None}, origin : Cells \cup {None},
                  stack : Seq(Groups), visited : SUBSET Cells]
    BY <2>4 DEF LightInit, NoWalk
  <2>6. pass \in [Workers -> LightPasses]
    BY DEF LightInit, Idle, LightPasses
  <2>7. patch \in [todo : BlockMaps, chunks : SUBSET Chunks]
    BY EmptyMaps DEF LightInit, NoPatch
  <2> QED
    BY <2>1, <2>2, <2>3, <2>5, <2>6, <2>7 DEF LightInit, LightTypeOK
<1>2. LinkInv
  BY EmptyMaps DEF LightInit, LinkInv, Linked
<1>3. PassInv
  BY DEF LightInit, PassInv, Idle
<1>4. FloodInv
  <2>1. <<>> \in Seq(Groups) /\ Len(<<>>) = 0
    OBVIOUS
  <2>2. Stacked(<<>>)
    BY <2>1 DEF Stacked
  <2> QED
    BY <2>2 DEF LightInit, FloodInv, NoWalk
<1>5. MainInv /\ PatchInv
  BY EmptyMaps DEF LightInit, MainInv, PatchInv, NoBlock, NoPatch
<1> QED
  BY <1>1, <1>2, <1>3, <1>4, <1>5 DEF WalkInv

LEMMA LightInitInv == LightInit => LightInv
<1> SUFFICES ASSUME LightInit PROVE LightInv
  OBVIOUS
<1>1. WalkInv
  BY LightInitWalk
<1>2. RightInv
  BY EmptyMaps DEF LightInit, RightInv
<1>3. LightsInv
  BY ChunkFacts DEF LightInit, LightsInv
<1>4. MeshInv
  BY DEF LightInit, MeshInv, ToBeRebuilt
<1> QED
  BY <1>1, <1>2, <1>3, <1>4 DEF LightInv

(* Who is at work.                                                         *)
LEMMA AtWork ==
  ASSUME WalkInv
  PROVE  /\ Free <=> walk.origin = None
         /\ Free => \A o \in Cells : ~Flooding(o)
         /\ \A w \in Workers : pass[w] = Idle <=> pass[w].chunk = None
         /\ \A w \in Workers : pass[w] = Idle => pass[w].existing = {} /\ pass[w].sources = {}
         /\ main = NoBlock <=> main.cell = None
         /\ ~Free => walk.origin \in Cells /\ Walking(walk.origin, walk.worker)
<1>1. Free <=> walk.origin = None
  BY DEF WalkInv, FloodInv, Free, NoWalk
<1>2. ASSUME Free PROVE \A o \in Cells : ~Flooding(o)
  BY <1>1, <1>2, ChunkFacts DEF Flooding
<1>3. \A w \in Workers : pass[w] = Idle <=> pass[w].chunk = None
  BY DEF WalkInv, PassInv, Idle
<1>4. \A w \in Workers : pass[w] = Idle => pass[w].existing = {} /\ pass[w].sources = {}
  BY DEF Idle
<1>5. main = NoBlock <=> main.cell = None
  BY DEF WalkInv, MainInv, NoBlock
<1>6. ASSUME ~Free PROVE walk.origin \in Cells /\ Walking(walk.origin, walk.worker)
  BY <1>1, <1>6 DEF WalkInv, FloodInv, LightTypeOK
<1> QED
  BY <1>1, <1>2, <1>3, <1>4, <1>5, <1>6

Sets(c, b) ==
  /\ main.cell = None /\ b # blocks[c] /\ (blocks[c] = "air" \/ b = "air")
  /\ blocks' = [blocks EXCEPT ![c] = b]
  /\ main' = [cell |-> c, old |-> blocks[c], new |-> b]
  /\ edits' = edits + 1 /\ edits' \in 0..MaxEdits
  /\ patch = NoPatch
  /\ UNCHANGED <<rays, lightReq, userReq, pass, walk, shown, crossed, patch, overlaid,
                 unseen>>

LEMMA SetBlockIs ==
  ASSUME WalkInv, SetBlock
  PROVE  \E c \in Cells, b \in Kinds : Sets(c, b)
<1>1. main.cell = None /\ patch = NoPatch
  BY AtWork DEF SetBlock, AtRest
<1>2. edits' \in 0..MaxEdits
  BY LightAssumption DEF SetBlock, WalkInv, LightTypeOK
<1> QED
  BY <1>1, <1>2, LightAssumption DEF SetBlock, Sets, quietVars

LEMMA SetBlockWalk ==
  ASSUME WalkInv, SetBlock
  PROVE  WalkInv'
<1>1. PICK c \in Cells, b \in Kinds : Sets(c, b)
  BY SetBlockIs
<1> USE DEF Sets
<1>2. LightTypeOK'
  BY <1>1 DEF WalkInv, LightTypeOK
<1>3. LinkInv' /\ PassInv' /\ FloodInv' /\ PatchInv'
  BY <1>1 DEF WalkInv, LinkInv, PassInv, FloodInv, Walking, PatchInv
<1>4. MainInv'
  BY <1>1, ChunkFacts DEF WalkInv, LightTypeOK, MainInv
<1> QED
  BY <1>2, <1>3, <1>4 DEF WalkInv

Queues ==
  /\ main.cell \in Cells /\ main' = NoBlock
  /\ IF IsLight(main.new) \/ IsLight(main.old)
       THEN /\ lightReq' = lightReq \cup Targets(main.cell, main.new)
            /\ userReq' = userReq /\ crossed' = crossed \cup Nearby(main.cell)
       ELSE /\ lightReq' = lightReq \cup Implicated(main.cell, main.new)
            /\ userReq' = userReq \cup Targets(main.cell, main.new)
            /\ crossed' = crossed
  /\ UNCHANGED <<blocks, rays, pass, walk, shown, edits, patch, overlaid, unseen>>
  /\ Targets(main.cell, main.new) \subseteq Chunks
  /\ Implicated(main.cell, main.new) \subseteq Chunks
  /\ Nearby(main.cell) \subseteq Cells
  /\ ChunkOf[main.cell] \in Targets(main.cell, main.new)

LEMMA QueueRerenderIs ==
  ASSUME WalkInv, QueueRerender
  PROVE  Queues
<1>1. main.cell \in Cells
  BY AtWork DEF QueueRerender, WalkInv, LightTypeOK
<1>2. IF IsLight(main.new) \/ IsLight(main.old)
        THEN /\ lightReq' = lightReq \cup Targets(main.cell, main.new)
             /\ userReq' = userReq /\ crossed' = crossed \cup Nearby(main.cell)
        ELSE /\ lightReq' = lightReq \cup Implicated(main.cell, main.new)
             /\ userReq' = userReq \cup Targets(main.cell, main.new)
             /\ crossed' = crossed
  BY DEF QueueRerender
<1>3. Targets(main.cell, main.new) \subseteq Chunks
  BY <1>1, ChunkFacts DEF Targets
<1>4. Nearby(main.cell) \subseteq Cells
  BY DEF Nearby
<1>5. Implicated(main.cell, main.new) \subseteq Chunks
  BY <1>4, ChunkFacts DEF Implicated
<1>6. ChunkOf[main.cell] \in Targets(main.cell, main.new)
  BY <1>1, LightAssumption DEF Targets
<1> QED
  BY <1>1, <1>2, <1>3, <1>4, <1>5, <1>6 DEF QueueRerender, Queues, quietVars

LEMMA QueueRerenderWalk ==
  ASSUME WalkInv, QueueRerender
  PROVE  WalkInv'
<1>1. /\ main' = NoBlock
      /\ UNCHANGED <<blocks, rays, pass, walk, shown, edits, patch, overlaid, unseen>>
      /\ lightReq' \subseteq Chunks /\ userReq' \subseteq Chunks /\ crossed' \subseteq Cells
  BY QueueRerenderIs DEF WalkInv, LightTypeOK, Queues
<1>2. LightTypeOK'
  <2>1. main' \in [cell : Cells \cup {None}, old : Kinds, new : Kinds]
    BY <1>1 DEF NoBlock, Kinds
  <2> QED
    BY <1>1, <2>1 DEF WalkInv, LightTypeOK
<1>3. LinkInv' /\ PassInv' /\ FloodInv' /\ PatchInv'
  BY <1>1 DEF WalkInv, LinkInv, PassInv, FloodInv, Walking, PatchInv
<1>4. MainInv'
  BY <1>1 DEF MainInv, NoBlock
<1> QED
  BY <1>2, <1>3, <1>4 DEF WalkInv

(* A patch: crystals that break, or a model that is stamped.               *)
Gathers ==
  /\ main.cell = None /\ patch' \in [todo : BlockMaps, chunks : SUBSET Chunks]
  /\ \A c \in DOMAIN patch'.todo : ChunkOf[c] \in patch'.chunks
  /\ patch.chunks = {}
  /\ edits' \in 0..MaxEdits
  /\ UNCHANGED <<blocks, rays, lightReq, userReq, pass, walk, shown, main, crossed,
                 overlaid, unseen>>

LEMMA SetAllIs ==
  ASSUME WalkInv, NEW b \in BlockMaps, SetAll(b)
  PROVE  Gathers
<1>1. main.cell = None /\ patch = NoPatch
  BY AtWork DEF SetAll, AtRest
<1>2. edits' \in 0..MaxEdits
  BY LightAssumption DEF SetAll, WalkInv, LightTypeOK
<1>3. DOMAIN b \subseteq Cells
  BY DEF BlockMaps
<1>4. {ChunkOf[c] : c \in DOMAIN b} \subseteq Chunks
  BY <1>3, ChunkFacts
<1> QED
  BY <1>1, <1>2, <1>4 DEF SetAll, Gathers, NoPatch

LEMMA GathersIs ==
  ASSUME WalkInv, BreakCrystals \/ Stamp
  PROVE  Gathers
<1>1. CASE BreakCrystals
  <2>1. PICK c \in Cells : SetAll([d \in Touching(c) |-> "air"])
    BY <1>1 DEF BreakCrystals, CrystalSpots
  <2>2. Touching(c) \in SUBSET Cells
    BY DEF Touching, CrystalSpots
  <2>3. [d \in Touching(c) |-> "air"] \in [Touching(c) -> Kinds]
    BY DEF Kinds
  <2>4. [d \in Touching(c) |-> "air"] \in BlockMaps
    BY <2>2, <2>3 DEF BlockMaps
  <2> QED
    BY <2>1, <2>4, SetAllIs
<1>2. CASE Stamp
  <2>1. PICK b \in Models : SetAll(b)
    BY <1>2 DEF Stamp
  <2>2. DOMAIN b \in SUBSET Cells /\ b \in [DOMAIN b -> Kinds]
    BY LightAssumption
  <2>3. b \in BlockMaps
    BY <2>2 DEF BlockMaps
  <2> QED
    BY <2>1, <2>3, SetAllIs
<1> QED
  BY <1>1, <1>2

LEMMA PatchWalk ==
  ASSUME WalkInv, BreakCrystals \/ Stamp
  PROVE  WalkInv'
<1>1. Gathers
  BY GathersIs
<1> USE DEF Gathers
<1>2. LightTypeOK'
  BY <1>1 DEF WalkInv, LightTypeOK
<1>3. LinkInv' /\ PassInv' /\ FloodInv'
  BY <1>1 DEF WalkInv, LinkInv, PassInv, FloodInv, Walking
<1>4. MainInv' /\ PatchInv'
  BY <1>1 DEF WalkInv, MainInv, PatchInv
<1> QED
  BY <1>2, <1>3, <1>4 DEF WalkInv

Alters(c, b) ==
  /\ main.cell = None /\ c \in DOMAIN patch.todo
  /\ blocks' = [blocks EXCEPT ![c] = b]
  /\ ChunkOf[c] \in patch.chunks
  /\ patch' \in [todo : BlockMaps, chunks : SUBSET Chunks]
  /\ DOMAIN patch'.todo \subseteq DOMAIN patch.todo /\ patch'.chunks = patch.chunks
  /\ Passes(b) # Passes(blocks[c]) => crossed' = crossed \cup Nearby(c)
  /\ Passes(b) = Passes(blocks[c]) => crossed' = crossed
  /\ overlaid' = IF IsLight(b) \/ IsLight(blocks[c]) THEN overlaid \cup {c} ELSE overlaid
  /\ unseen' = unseen \cup (Across(c) \X {c})
  /\ UNCHANGED <<rays, lightReq, userReq, pass, walk, shown, main, edits>>

LEMMA SetNextIs ==
  ASSUME WalkInv, SetNext
  PROVE  \E c \in Cells, b \in Kinds : Alters(c, b)
<1>1. PICK c \in DOMAIN patch.todo :
        /\ blocks' = [blocks EXCEPT ![c] = patch.todo[c]]
        /\ patch' = [patch EXCEPT !.todo = [d \in DOMAIN @ \ {c} |-> @[d]]]
        /\ crossed' = IF Passes(patch.todo[c]) # Passes(blocks[c])
                        THEN crossed \cup Nearby(c) ELSE crossed
        /\ overlaid' = IF IsLight(patch.todo[c]) \/ IsLight(blocks[c])
                         THEN overlaid \cup {c} ELSE overlaid
        /\ unseen' = unseen \cup (Across(c) \X {c})
  BY DEF SetNext
<1>2. patch \in [todo : BlockMaps, chunks : SUBSET Chunks]
  BY DEF WalkInv, LightTypeOK
<1>3. PICK t : t = patch.todo
  OBVIOUS
<1>4. t \in BlockMaps /\ c \in DOMAIN t
  BY <1>1, <1>2, <1>3
<1>5. PICK s \in SUBSET Cells : t \in [s -> Kinds]
  BY <1>4 DEF BlockMaps
<1>6. c \in Cells /\ t[c] \in Kinds
  BY <1>4, <1>5
<1>7. PICK r : r = [d \in DOMAIN t \ {c} |-> t[d]]
  OBVIOUS
<1>8. r \in BlockMaps /\ DOMAIN r \subseteq DOMAIN t
  <2>1. r \in [s \ {c} -> Kinds] /\ s \ {c} \in SUBSET Cells
    BY <1>5, <1>7
  <2> QED
    BY <1>7, <2>1 DEF BlockMaps
<1>9. patch' = [patch EXCEPT !.todo = r]
  BY <1>1, <1>3, <1>7
<1>10. patch'.todo = r /\ patch'.chunks = patch.chunks
       /\ patch' \in [todo : BlockMaps, chunks : SUBSET Chunks]
  BY <1>2, <1>8, <1>9
<1>11. ChunkOf[c] \in patch.chunks
  BY DEF WalkInv, PatchInv
<1>12. main.cell = None
  BY EmptyMaps DEF WalkInv, MainInv, NoPatch
<1>13. UNCHANGED <<rays, lightReq, userReq, pass, walk, shown, main, edits>>
  BY DEF SetNext
<1>14. Alters(c, t[c])
  BY <1>1, <1>3, <1>8, <1>10, <1>11, <1>12, <1>13 DEF Alters
<1> QED
  BY <1>6, <1>14

LEMMA SetNextWalk ==
  ASSUME WalkInv, SetNext
  PROVE  WalkInv'
<1>1. PICK c \in Cells, b \in Kinds : Alters(c, b)
  BY SetNextIs
<1> USE DEF Alters
<1>2. LightTypeOK'
  <2>1. Nearby(c) \subseteq Cells /\ Across(c) \X {c} \subseteq Cells \X Cells
    BY ChunkFacts DEF Nearby, Across
  <2>2. crossed' \subseteq Cells
    BY <1>1, <2>1 DEF WalkInv, LightTypeOK
  <2>3. overlaid' \subseteq Cells /\ unseen' \subseteq Cells \X Cells
    BY <1>1, <2>1 DEF WalkInv, LightTypeOK
  <2>4. blocks' \in [Cells -> Kinds]
    BY <1>1 DEF WalkInv, LightTypeOK
  <2> QED
    BY <1>1, <2>2, <2>3, <2>4 DEF WalkInv, LightTypeOK
<1>3. LinkInv' /\ PassInv' /\ FloodInv'
  BY <1>1 DEF WalkInv, LinkInv, PassInv, FloodInv, Walking
<1>4. MainInv' /\ PatchInv'
  BY <1>1 DEF WalkInv, MainInv, PatchInv
<1> QED
  BY <1>2, <1>3, <1>4 DEF WalkInv

Requests ==
  /\ DOMAIN patch.todo = {} /\ patch' = NoPatch
  /\ userReq' = userReq \cup patch.chunks /\ patch.chunks \subseteq Chunks
  /\ UNCHANGED <<blocks, rays, lightReq, pass, walk, shown, main, edits, crossed,
                 overlaid, unseen>>

LEMMA QueuePatchIs ==
  ASSUME WalkInv, QueuePatch
  PROVE  Requests
BY DEF QueuePatch, Requests, WalkInv, LightTypeOK

LEMMA QueuePatchWalk ==
  ASSUME WalkInv, QueuePatch
  PROVE  WalkInv'
<1>1. Requests
  BY QueuePatchIs
<1> USE DEF Requests
<1>2. LightTypeOK'
  BY <1>1, EmptyMaps DEF WalkInv, LightTypeOK, NoPatch
<1>3. LinkInv' /\ PassInv' /\ FloodInv'
  BY <1>1 DEF WalkInv, LinkInv, PassInv, FloodInv, Walking
<1>4. MainInv' /\ PatchInv'
  BY <1>1, EmptyMaps DEF WalkInv, MainInv, PatchInv, NoPatch
<1> QED
  BY <1>2, <1>3, <1>4 DEF WalkInv

Inside(k) == {c \in Cells : ChunkOf[c] = k}

Starts(w, k) ==
  /\ Free /\ pass[w] = Idle /\ k \in lightReq
  /\ \A v \in Workers : pass[v].chunk # k
  /\ lightReq' = lightReq \ {k}
  /\ pass' = [pass EXCEPT ![w] =
       [chunk |-> k,
        existing |-> {o \in Inside(k) : \E c \in Inside(k) : c \in DOMAIN rays[o]},
        sources |-> {c \in Inside(k) : IsLight(blocks[c])},
        imp |-> {}]]
  /\ \A o \in Inside(k) : DOMAIN rays[o] # {} =>
                           \E c \in Inside(k) : c \in DOMAIN rays[o]
  /\ overlaid' = {o \in overlaid : ChunkOf[o] # k}
  /\ UNCHANGED <<blocks, rays, userReq, walk, shown, main, edits, crossed, patch, unseen>>

LEMMA StartPassIs ==
  ASSUME WalkInv, NEW w \in Workers, StartPass(w)
  PROVE  \E k \in Chunks : Starts(w, k)
<1>1. PICK k \in lightReq :
           /\ ~Locked(k)
           /\ lightReq' = lightReq \ {k}
           /\ pass' = [pass EXCEPT ![w] =
                [chunk |-> k,
                 existing |-> {o \in Inside(k) : \E c \in Inside(k) : c \in DOMAIN rays[o]},
                 sources |-> {c \in Inside(k) : IsLight(blocks[c])},
                 imp |-> {}]]
           /\ overlaid' = {o \in overlaid : ChunkOf[o] # k}
  BY DEF StartPass, Inside
<1>2. k \in Chunks
  BY DEF WalkInv, LightTypeOK
<1>3. \A o \in Inside(k) : DOMAIN rays[o] # {} => o \in DOMAIN rays[o]
  BY DEF WalkInv, LinkInv, Linked, Inside
<1> QED
  BY <1>1, <1>2, <1>3 DEF StartPass, Locked, Starts

LEMMA StartPassWalk ==
  ASSUME WalkInv, NEW w \in Workers, StartPass(w)
  PROVE  WalkInv'
<1>1. PICK k \in Chunks : Starts(w, k)
  BY StartPassIs
<1> USE DEF Starts
<1>2. PICK q : q = [chunk |-> k,
                 existing |-> {o \in Inside(k) : \E c \in Inside(k) : c \in DOMAIN rays[o]},
                 sources |-> {c \in Inside(k) : IsLight(blocks[c])},
                 imp |-> {}]
  OBVIOUS
<1>3. q \in LightPasses
  BY <1>2 DEF Inside, LightPasses
<1>4. pass' = [pass EXCEPT ![w] = q]
  BY <1>1, <1>2
<1>5. LightTypeOK'
  BY <1>1, <1>3, <1>4, ZenonT(60) DEF WalkInv, LightTypeOK
<1>6. LinkInv' /\ MainInv' /\ PatchInv'
  BY <1>1 DEF WalkInv, LinkInv, MainInv, PatchInv
<1>7. pass'[w] = q /\ \A v \in Workers : v # w => pass'[v] = pass[v]
  BY <1>4 DEF WalkInv, LightTypeOK
<1>8. PassInv'
  <2> SUFFICES ASSUME NEW v \in Workers
               PROVE  IF pass'[v].chunk = None THEN pass'[v] = Idle
                      ELSE /\ \A o \in pass'[v].existing \cup pass'[v].sources :
                                ChunkOf[o] = pass'[v].chunk
                           /\ \A u \in Workers : pass'[u].chunk = pass'[v].chunk => u = v
                           /\ \A o \in pass'[v].sources :
                                DOMAIN rays'[o] = {} \/ o \in pass'[v].existing
    BY DEF PassInv
  <2>1. CASE v = w
    <3>1. pass'[v] = q /\ q.chunk = k /\ k # None
      BY <1>2, <1>7, <2>1, ChunkFacts
    <3>2. \A o \in q.existing \cup q.sources : ChunkOf[o] = k
      BY <1>2 DEF Inside
    <3>3. \A u \in Workers : pass'[u].chunk = k => u = w
      BY <1>1, <1>7
    <3>4. \A o \in q.sources : DOMAIN rays[o] = {} \/ o \in q.existing
      BY <1>1, <1>2
    <3> QED
      BY <1>1, <2>1, <3>1, <3>2, <3>3, <3>4
  <2>2. CASE v # w
    <3>1. pass'[v] = pass[v] /\ pass[v].chunk # k
      BY <1>1, <1>7, <2>2
    <3>2. \A u \in Workers : pass'[u].chunk = pass[v].chunk => pass[u].chunk = pass[v].chunk
      BY <1>2, <1>7, <3>1
    <3> QED
      BY <1>1, <3>1, <3>2 DEF WalkInv, PassInv
  <2> QED
    BY <2>1, <2>2
<1>9. FloodInv'
  BY <1>1, AtWork DEF WalkInv, FloodInv
<1> QED
  BY <1>5, <1>6, <1>8, <1>9 DEF WalkInv

(* Following the directions from the light leads to each of its rays: one  *)
(* that was not met would have come from a brighter one that was not met.  *)
LEMMA TrailMeetsAll ==
  ASSUME NEW o \in Cells, NEW r \in RayMaps, Linked(o, r), NEW s, o \in s,
         \A c \in s \cap DOMAIN r : r[c].dirs \subseteq s
  PROVE  DOMAIN r \subseteq s
<1> DEFINE missed == DOMAIN r \ s
           dark == {Bright - r[c].value : c \in missed}
<1>1. SUFFICES ASSUME missed # {} PROVE FALSE
  OBVIOUS
<1>2. Bright \in Nat
  BY LightAssumption
<1>3. dark \subseteq Nat /\ dark # {}
  BY <1>1, <1>2, RayMapIs
<1> HIDE DEF dark
<1>4. PICK n \in dark : \A m \in dark : n <= m
  BY <1>3, LeastNat
<1> USE DEF dark
<1>5. PICK c \in missed : n = Bright - r[c].value
  BY <1>4
<1>6. PICK p \in DOMAIN r : c \in r[p].dirs /\ r[c].value + 2 <= r[p].value
  BY <1>5 DEF Linked, FromRay
<1>7. p \in missed
  BY <1>5, <1>6
<1>8. Bright - r[p].value \in dark
  BY <1>7
<1>9. n <= Bright - r[p].value
  BY <1>4, <1>8
<1> QED
  BY <1>2, <1>5, <1>6, <1>9, RayMapIs

LEMMA TakenBackIs ==
  ASSUME WalkInv, NEW o \in Cells
  PROVE  /\ DOMAIN TakenBack(o) = {} /\ TakenBack(o) \in RayMaps
         /\ Trail(o) \subseteq Cells /\ DOMAIN rays[o] \subseteq Trail(o)
<1>1. rays[o] \in RayMaps /\ Linked(o, rays[o])
  BY DEF WalkInv, LightTypeOK, LinkInv
<1>2. \A s \in SUBSET Cells : o \in s /\ FollowsRays(o, s) => DOMAIN rays[o] \subseteq s
  BY <1>1, TrailMeetsAll DEF FollowsRays
<1>3. DOMAIN rays[o] \subseteq Cells
  BY <1>1, RayMapIs
<1>4. DOMAIN rays[o] \subseteq Trail(o)
  BY <1>2, <1>3 DEF Trail
<1>5. DOMAIN TakenBack(o) = {}
  BY <1>4 DEF TakenBack
<1>6. TakenBack(o) \in [{} -> Rays]
  BY <1>4 DEF TakenBack
<1>7. {} \in SUBSET Cells
  OBVIOUS
<1>8. TakenBack(o) \in RayMaps
  BY <1>6, <1>7 DEF RayMaps
<1> QED
  BY <1>4, <1>5, <1>8 DEF Trail

Darkens(w, o, dark, q) ==
  /\ Free /\ o \in Cells /\ pass[w].chunk # None /\ ChunkOf[o] = pass[w].chunk
  /\ DOMAIN dark = {}
  /\ rays' = [rays EXCEPT ![o] = dark]
  /\ pass' = [pass EXCEPT ![w] = q]
  /\ q.chunk = pass[w].chunk /\ q.sources = pass[w].sources
  /\ q.existing = pass[w].existing \ {o}
  /\ pass[w].imp \subseteq q.imp
  /\ \A c \in DOMAIN rays[o] : ChunkOf[c] \in q.imp
  /\ UNCHANGED <<blocks, lightReq, userReq, walk, shown, main, edits, crossed, patch,
                 overlaid, unseen>>

LEMMA DepropagateIs ==
  ASSUME WalkInv, NEW w \in Workers, Depropagate(w)
  PROVE  \E o \in pass[w].existing, dark \in RayMaps, q \in LightPasses : Darkens(w, o, dark, q)
<1>1. PICK o \in pass[w].existing :
        /\ rays' = [rays EXCEPT ![o] = TakenBack(o)]
        /\ pass' = [pass EXCEPT ![w].existing = @ \ {o},
                                ![w].imp = @ \cup {ChunkOf[c] : c \in Trail(o)}]
  BY DEF Depropagate
<1>2. pass[w] \in LightPasses
  BY DEF WalkInv, LightTypeOK
<1>3. o \in Cells /\ pass[w].chunk # None /\ ChunkOf[o] = pass[w].chunk
  BY <1>2, AtWork DEF Depropagate, WalkInv, PassInv, LightPasses
<1>4. PICK q : q = [pass[w] EXCEPT !.existing = @ \ {o},
                                   !.imp = @ \cup {ChunkOf[c] : c \in Trail(o)}]
  OBVIOUS
<1>5. /\ q \in LightPasses
      /\ q.chunk = pass[w].chunk /\ q.sources = pass[w].sources
      /\ q.existing = pass[w].existing \ {o}
      /\ q.imp = pass[w].imp \cup {ChunkOf[c] : c \in Trail(o)}
  <2>1. {ChunkOf[c] : c \in Trail(o)} \subseteq Chunks
    BY <1>3, TakenBackIs, ChunkFacts
  <2> QED
    BY <1>2, <1>4, <2>1 DEF LightPasses
<1>6. pass' = [pass EXCEPT ![w] = q]
  BY <1>1, <1>4
<1>7. \A c \in DOMAIN rays[o] : ChunkOf[c] \in q.imp
  BY <1>3, <1>5, TakenBackIs
<1>8. DOMAIN TakenBack(o) = {} /\ TakenBack(o) \in RayMaps
  BY <1>3, TakenBackIs
<1> QED
  BY <1>1, <1>3, <1>5, <1>6, <1>7, <1>8 DEF Depropagate, Darkens, quietVars

(* What only shrinks the lists of a pass, or empties the rays of lights    *)
(* on them, keeps the passes apart.                                        *)
LEMMA PassShrinks ==
  ASSUME WalkInv, NEW w \in Workers, NEW q, pass' = [pass EXCEPT ![w] = q],
         pass[w].chunk # None, q.chunk = pass[w].chunk,
         q.sources \subseteq pass[w].sources, q.existing \subseteq pass[w].existing,
         \A o \in q.sources : DOMAIN rays'[o] = {} \/ o \in q.existing,
         \A v \in Workers \ {w} : \A o \in pass[v].sources :
           DOMAIN rays'[o] = {} \/ DOMAIN rays'[o] = DOMAIN rays[o]
  PROVE  PassInv'
<1>1. pass'[w] = q /\ \A v \in Workers : v # w => pass'[v] = pass[v]
  BY DEF WalkInv, LightTypeOK
<1>2. \A v \in Workers : pass'[v].chunk = pass[v].chunk
  BY <1>1
<1> SUFFICES ASSUME NEW v \in Workers
             PROVE  IF pass'[v].chunk = None THEN pass'[v] = Idle
                    ELSE /\ \A o \in pass'[v].existing \cup pass'[v].sources :
                              ChunkOf[o] = pass'[v].chunk
                         /\ \A u \in Workers : pass'[u].chunk = pass'[v].chunk => u = v
                         /\ \A o \in pass'[v].sources :
                              DOMAIN rays'[o] = {} \/ o \in pass'[v].existing
  BY DEF PassInv
<1>3. CASE v = w
  BY <1>1, <1>2, <1>3 DEF WalkInv, PassInv
<1>4. CASE v # w
  BY <1>1, <1>2, <1>4 DEF WalkInv, PassInv
<1> QED
  BY <1>3, <1>4

LEMMA DepropagateWalk ==
  ASSUME WalkInv, NEW w \in Workers, Depropagate(w)
  PROVE  WalkInv'
<1>1. PICK o \in pass[w].existing, dark \in RayMaps, q \in LightPasses : Darkens(w, o, dark, q)
  BY DepropagateIs
<1> USE DEF Darkens
<1>2. rays' \in [Cells -> RayMaps] /\ rays'[o] = dark
      /\ \A a \in Cells : a # o => rays'[a] = rays[a]
  BY <1>1 DEF WalkInv, LightTypeOK
<1>3. LightTypeOK'
  BY <1>1, <1>2 DEF WalkInv, LightTypeOK
<1>4. LinkInv'
  <2>1. Linked(o, dark)
    BY <1>1 DEF Linked
  <2>2. \A a \in Cells : Linked(a, rays'[a])
    BY <1>2, <2>1 DEF WalkInv, LinkInv
  <2> QED
    BY <2>2 DEF LinkInv
<1>5. PassInv'
  <2>1. \A a \in Cells : DOMAIN rays'[a] = {} \/ DOMAIN rays'[a] = DOMAIN rays[a]
    BY <1>1, <1>2
  <2>2. \A v \in Workers : pass[v].sources \subseteq Cells
    BY DEF WalkInv, LightTypeOK, LightPasses
  <2>3. \A a \in q.sources : DOMAIN rays'[a] = {} \/ a \in q.existing
    BY <1>1, <1>2, <2>2 DEF WalkInv, PassInv
  <2> QED
    BY <1>1, <2>1, <2>2, <2>3, PassShrinks
<1>6. FloodInv' /\ MainInv' /\ PatchInv'
  BY <1>1, AtWork DEF WalkInv, FloodInv, MainInv, PatchInv
<1> QED
  BY <1>3, <1>4, <1>5, <1>6 DEF WalkInv

Kindles(w, o, q) ==
  /\ Free /\ o \in Cells /\ pass[w].chunk # None /\ ChunkOf[o] = pass[w].chunk
  /\ pass[w].existing = {} /\ DOMAIN rays[o] = {}
  /\ walk' = [worker |-> w, origin |-> o, visited |-> {o},
              stack |-> <<[cells |-> {o}, value |-> Bright]>>]
  /\ pass' = [pass EXCEPT ![w] = q]
  /\ q.chunk = pass[w].chunk /\ q.existing = {} /\ q.imp = pass[w].imp
  /\ q.sources = pass[w].sources \ {o}
  /\ crossed' = crossed \ {o}
  /\ UNCHANGED <<blocks, rays, lightReq, userReq, shown, main, edits, patch, overlaid,
                 unseen>>

LEMMA PropagateIs ==
  ASSUME WalkInv, NEW w \in Workers, Propagate(w)
  PROVE  \E o \in pass[w].sources, q \in LightPasses : Kindles(w, o, q)
<1>1. PICK o \in pass[w].sources :
           /\ walk' = [worker |-> w, origin |-> o, visited |-> {o},
                       stack |-> <<[cells |-> {o}, value |-> Bright]>>]
           /\ pass' = [pass EXCEPT ![w].sources = @ \ {o}]
           /\ crossed' = crossed \ {o}
  BY DEF Propagate
<1>2. pass[w] \in LightPasses
      /\ pass[w].existing = {}
  BY DEF WalkInv, LightTypeOK, Propagate
<1>3. o \in Cells /\ pass[w].chunk # None /\ ChunkOf[o] = pass[w].chunk
      /\ DOMAIN rays[o] = {}
  BY <1>2, AtWork DEF Propagate, WalkInv, PassInv, LightPasses
<1>4. PICK q : q = [pass[w] EXCEPT !.sources = @ \ {o}]
  OBVIOUS
<1>5. /\ q \in LightPasses
      /\ q.chunk = pass[w].chunk /\ q.existing = {} /\ q.imp = pass[w].imp
      /\ q.sources = pass[w].sources \ {o}
  BY <1>2, <1>4 DEF LightPasses
<1>6. pass' = [pass EXCEPT ![w] = q]
  BY <1>1, <1>4
<1> QED
  BY <1>1, <1>2, <1>3, <1>5, <1>6 DEF Propagate, Kindles, quietVars

LEMMA FirstOnStack ==
  ASSUME NEW o \in Cells, NEW s, s = <<[cells |-> {o}, value |-> Bright]>>
  PROVE  Stacked(s) /\ s # <<>> /\ \A c, u : OnStack(s, c, u) <=> c = o /\ u = Bright
<1>1. <<>> \in Seq(Groups) /\ Len(<<>>) = 0 /\ {o} \in SUBSET Cells
  OBVIOUS
<1>2. Stacked(<<>>)
  BY <1>1 DEF Stacked
<1>3. s = Push(<<>>, {o}, Bright)
  <2>1. {o} # {} /\ [cells |-> {o}, value |-> Bright] \in Groups
    BY LevelFacts DEF Groups
  <2>2. <<[cells |-> {o}, value |-> Bright]>> \o <<>> = <<[cells |-> {o}, value |-> Bright]>>
    <3>1. PICK g \in Groups : g = [cells |-> {o}, value |-> Bright]
      BY <2>1
    <3>2. <<g>> \in Seq(Groups)
      BY <3>1
    <3>3. <<g>> \o <<>> = <<g>>
      BY <3>2, ConcatEmptySeq
    <3> QED
      BY <3>1, <3>3
  <2> QED
    BY <2>1, <2>2 DEF Push
<1>4. Stacked(s) /\ s # <<>>
  <2>1. Stacked(Push(<<>>, {o}, Bright))
    BY <1>1, <1>2, LevelFacts, PushIs
  <2>2. s # <<>>
    OBVIOUS
  <2> QED
    BY <1>3, <2>1, <2>2
<1>5. \A c, u : OnStack(Push(<<>>, {o}, Bright), c, u)
                  <=> OnStack(<<>>, c, u) \/ (c \in {o} /\ u = Bright)
  BY <1>1, <1>2, LevelFacts, PushIs
<1>6. ASSUME NEW c, NEW u PROVE OnStack(s, c, u) <=> c = o /\ u = Bright
  <2>1. OnStack(s, c, u) <=> OnStack(<<>>, c, u) \/ (c \in {o} /\ u = Bright)
    BY <1>3, <1>5
  <2>2. ~OnStack(<<>>, c, u)
    BY NothingOnStack
  <2> QED
    BY <2>1, <2>2
<1> QED
  BY <1>4, <1>6

LEMMA PropagateWalk ==
  ASSUME WalkInv, NEW w \in Workers, Propagate(w)
  PROVE  WalkInv'
<1>1. PICK o \in pass[w].sources, q \in LightPasses : Kindles(w, o, q)
  BY PropagateIs
<1> USE DEF Kindles
<1>2. PICK s : s = <<[cells |-> {o}, value |-> Bright]>>
  OBVIOUS
<1>3. Stacked(s) /\ s # <<>> /\ \A c, u : OnStack(s, c, u) <=> c = o /\ u = Bright
  BY <1>1, <1>2, FirstOnStack
<1>4. walk' = [worker |-> w, origin |-> o, visited |-> {o}, stack |-> s]
  BY <1>1, <1>2
<1>5. LightTypeOK'
  <2>1. walk' \in [worker : Workers \cup {None}, origin : Cells \cup {None},
                   stack : Seq(Groups), visited : SUBSET Cells]
    <3>1. s \in Seq(Groups) /\ {o} \in SUBSET Cells /\ o \in Cells
      BY <1>1, <1>3 DEF Stacked
    <3> QED
      BY <1>4, <3>1
  <2> QED
    BY <1>1, <2>1 DEF WalkInv, LightTypeOK
<1>6. LinkInv' /\ MainInv' /\ PatchInv'
  BY <1>1 DEF WalkInv, LinkInv, MainInv, PatchInv
<1>7. PassInv'
  <2>1. \A a \in q.sources : DOMAIN rays'[a] = {} \/ a \in q.existing
    BY <1>1 DEF WalkInv, PassInv
  <2> QED
    BY <1>1, <2>1, PassShrinks
<1>8. FloodInv'
  <2>1. walk'.origin = o /\ walk'.worker = w /\ walk'.stack = s /\ walk'.visited = {o}
    BY <1>4
  <2>2. pass'[w] = q
    BY <1>1 DEF WalkInv, LightTypeOK
  <2>3. DOMAIN rays'[o] = {}
    BY <1>1
  <2>4. {c \in Cells : \E v \in Levels : OnStack(s, c, v)} = {o}
    <3>1. \A c \in Cells : (\E v \in Levels : OnStack(s, c, v)) <=> c = o
      BY <1>3, LevelFacts
    <3> QED
      BY <1>1, <3>1
  <2>5. {o} = DOMAIN rays'[o] \cup {c \in Cells : \E v \in Levels : OnStack(s, c, v)}
    BY <2>3, <2>4
  <2>6. \A c \in Cells, v \in Levels : OnStack(s, c, v) => c = o /\ v = Bright
    BY <1>3
  <2>7. pass'[w].chunk = ChunkOf[o] /\ pass'[w].existing = {} /\ o \notin pass'[w].sources
    BY <1>1, <2>2
  <2>8. Walking(o, w)'
    BY <1>3, <2>1, <2>5, <2>6, <2>7 DEF Walking
  <2>9. o # None
    BY <1>1, ChunkFacts
  <2> QED
    BY <1>3, <2>1, <2>8, <2>9 DEF FloodInv
<1> QED
  BY <1>5, <1>6, <1>7, <1>8 DEF WalkInv

LEMMA FacesAre ==
  ASSUME LightTypeOK, NEW k
  PROVE  Faces(k) \in Meshes /\ DOMAIN Faces(k) = FacesOf(k)
<1>1. \A c : LightAt(c) \in SUBSET (Cells \X Levels)
  BY RayMapIs DEF LightTypeOK, LightAt
<1>2. FacesOf(k) \in SUBSET (Cells \X Cells)
  BY DEF FacesOf, ModelsOf
<1>3. Faces(k) \in [FacesOf(k) -> SUBSET (Cells \X Levels)]
  BY <1>1 DEF Faces
<1> QED
  BY <1>2, <1>3 DEF Meshes

Ends(w, k) ==
  /\ Free /\ k = pass[w].chunk /\ k # None
  /\ pass[w].existing = {} /\ pass[w].sources = {}
  /\ userReq' = userReq \cup (pass[w].imp \ {k})
  /\ shown' = [shown EXCEPT ![k] = Faces(k)]
  /\ unseen' = unseen \ Seen(k)
  /\ pass' = [pass EXCEPT ![w] = Idle]
  /\ UNCHANGED <<blocks, rays, lightReq, walk, main, edits, crossed, patch, overlaid>>

LEMMA EndPassIs ==
  ASSUME WalkInv, NEW w \in Workers, EndPass(w)
  PROVE  \E k \in Chunks : Ends(w, k)
<1>1. pass[w].chunk # None /\ pass[w].chunk \in Chunks
  BY AtWork DEF EndPass, WalkInv, LightTypeOK, LightPasses
<1> QED
  BY <1>1 DEF EndPass, ToRebuild, Ends

LEMMA EndPassWalk ==
  ASSUME WalkInv, NEW w \in Workers, EndPass(w)
  PROVE  WalkInv'
<1>1. PICK k \in Chunks : Ends(w, k)
  BY EndPassIs
<1> USE DEF Ends
<1>2. pass'[w] = Idle /\ \A v \in Workers : v # w => pass'[v] = pass[v]
  BY <1>1 DEF WalkInv, LightTypeOK
<1>3. LightTypeOK'
  <2>1. Faces(k) \in Meshes
    BY FacesAre DEF WalkInv
  <2>2. Idle \in LightPasses
    BY DEF Idle, LightPasses
  <2>3. pass[w].imp \subseteq Chunks
    BY DEF WalkInv, LightTypeOK, LightPasses
  <2> QED
    BY <1>1, <2>1, <2>2, <2>3 DEF WalkInv, LightTypeOK
<1>4. LinkInv' /\ MainInv' /\ PatchInv'
  BY <1>1 DEF WalkInv, LinkInv, MainInv, PatchInv
<1>5. PassInv'
  <2> SUFFICES ASSUME NEW v \in Workers
               PROVE  IF pass'[v].chunk = None THEN pass'[v] = Idle
                      ELSE /\ \A o \in pass'[v].existing \cup pass'[v].sources :
                                ChunkOf[o] = pass'[v].chunk
                           /\ \A u \in Workers : pass'[u].chunk = pass'[v].chunk => u = v
                           /\ \A o \in pass'[v].sources :
                                DOMAIN rays'[o] = {} \/ o \in pass'[v].existing
    BY DEF PassInv
  <2>1. CASE v = w
    BY <1>2, <2>1 DEF Idle
  <2>2. CASE v # w
    <3>1. pass'[v] = pass[v] /\ pass'[w].chunk = None
      BY <1>2, <2>2 DEF Idle
    <3>2. pass[v].chunk # None =>
            \A u \in Workers : pass'[u].chunk = pass[v].chunk => pass[u].chunk = pass[v].chunk
      BY <1>2, <3>1
    <3> QED
      BY <1>1, <3>1, <3>2 DEF WalkInv, PassInv
  <2> QED
    BY <2>1, <2>2
<1>6. FloodInv'
  BY <1>1, AtWork DEF WalkInv, FloodInv
<1> QED
  BY <1>3, <1>4, <1>5, <1>6 DEF WalkInv

Rebuilds(k) ==
  /\ userReq' = userReq \ {k}
  /\ shown' = [shown EXCEPT ![k] = Faces(k)]
  /\ unseen' = unseen \ Seen(k)
  /\ UNCHANGED <<blocks, rays, lightReq, pass, walk, main, edits, crossed, patch, overlaid>>

LEMMA RebuildIndexIs ==
  ASSUME WalkInv, NEW w \in Workers, RebuildIndex(w)
  PROVE  \E k \in Chunks : Rebuilds(k)
BY DEF RebuildIndex, WalkInv, LightTypeOK, Rebuilds

LEMMA RebuildIndexWalk ==
  ASSUME WalkInv, NEW w \in Workers, RebuildIndex(w)
  PROVE  WalkInv'
<1>1. PICK k \in Chunks : Rebuilds(k)
  BY RebuildIndexIs
<1> USE DEF Rebuilds
<1>2. Faces(k) \in Meshes
  BY FacesAre DEF WalkInv
<1>3. LightTypeOK'
  BY <1>1, <1>2 DEF WalkInv, LightTypeOK
<1> QED
  BY <1>1, <1>3 DEF WalkInv, LinkInv, PassInv, FloodInv, Walking, MainInv, PatchInv

----------------------------------------------------------------------------
(* One turn of the walk: a light at o, whose rays are made in the pass of  *)
(* w, comes to c with value v and goes on to the spots of next; ray is     *)
(* what c has then, stack what is still to visit.                          *)
Turn(o, w, c, v, next, ray, stack, q) ==
  /\ ~Free /\ walk.origin = o /\ Walking(o, w) /\ pass[w].chunk # None
  /\ OnStack(walk.stack, c, v)
  /\ next \subseteq Neighbors[c] /\ (next # {} => GoesOn(c, o) /\ v > 1)
  /\ GoesOn(c, o) /\ v > 1 =>
       \A d \in Neighbors[c] \ next :
         /\ d \in walk.visited
         /\ d \in DOMAIN rays'[o] => rays'[o][d].value >= v - 2
         /\ d \notin DOMAIN rays'[o] => v - 2 <= 0
  /\ ray \in Rays /\ ray.value >= v
  /\ c \in DOMAIN rays[o] => /\ ray.value >= rays[o][c].value
                             /\ ray.value = v \/ ray.value = rays[o][c].value
                             /\ ray.dirs = rays[o][c].dirs \cup next
  /\ c \notin DOMAIN rays[o] => ray.value = v /\ ray.dirs = next
  /\ rays' = [rays EXCEPT ![o] = WithRay(rays[o], c, ray)]
  /\ pass' = [pass EXCEPT ![w] = q]
  /\ q \in LightPasses
  /\ q.chunk = pass[w].chunk /\ q.sources = pass[w].sources
  /\ q.existing = pass[w].existing /\ pass[w].imp \subseteq q.imp
  /\ GoesOn(c, o) => ChunkOf[c] \in q.imp
  /\ Stacked(stack)
  /\ \A d, u : OnStack(stack, d, u) =>
                 OnStack(walk.stack, d, u) \/ (d \in next /\ u = v - 2)
  /\ \A d, u : OnStack(walk.stack, d, u) =>
                 OnStack(stack, d, u) \/ (d = c /\ u = v)
  /\ \A d \in next : OnStack(stack, d, v - 2)
  /\ stack = <<>> => walk' = NoWalk
  /\ stack # <<>> => /\ walk'.origin = o /\ walk'.worker = w /\ walk'.stack = stack
                     /\ walk'.visited = walk.visited \cup next
  /\ walk' \in [worker : Workers \cup {None}, origin : Cells \cup {None},
                stack : Seq(Groups), visited : SUBSET Cells]
  /\ UNCHANGED <<blocks, lightReq, userReq, shown, main, edits, crossed, patch, overlaid,
                 unseen>>

LEMMA WithRayIs ==
  ASSUME NEW r \in RayMaps, NEW c \in Cells,
         NEW ray \in Rays
  PROVE  /\ WithRay(r, c, ray) \in RayMaps
         /\ DOMAIN WithRay(r, c, ray) = DOMAIN r \cup {c}
         /\ WithRay(r, c, ray)[c] = ray
         /\ \A d \in DOMAIN r : d # c => WithRay(r, c, ray)[d] = r[d]
<1>1. PICK s \in SUBSET Cells : r \in [s -> Rays]
  BY DEF RayMaps
<1>2. WithRay(r, c, ray) \in [s \cup {c} -> Rays]
  BY <1>1 DEF WithRay
<1>3. s \cup {c} \in SUBSET Cells
  OBVIOUS
<1>4. WithRay(r, c, ray) \in RayMaps
  BY <1>2, <1>3 DEF RayMaps
<1> QED
  BY <1>1, <1>4 DEF WithRay

LEMMA VisitIs ==
  ASSUME WalkInv, Visit
  PROVE  \E o \in Cells, w \in Workers, c \in Cells, v \in Levels,
            next \in SUBSET Cells, ray \in Rays, stack \in Seq(Groups), q \in LightPasses :
              Turn(o, w, c, v, next, ray, stack, q)
<1> DEFINE o == walk.origin
           w == walk.worker
           top == Head(walk.stack)
           v == top.value
           c == CHOOSE d \in top.cells : TRUE
           rest == Push(Tail(walk.stack), top.cells \ {c}, v)
           r == rays[o]
           here == Here(r, c, v)
           next == Onward(o, c, v)
           stack == Push(rest, next, Reduced(v))
           ray == [here EXCEPT !.dirs = @ \cup next]
           q == [pass[w] EXCEPT !.imp =
                   IF GoesOn(c, o) THEN @ \cup {ChunkOf[c]} ELSE @]
<1>1. o = walk.origin /\ w = walk.worker /\ top = Head(walk.stack)
  OBVIOUS
<1>2. v = top.value /\ c = CHOOSE d \in top.cells : TRUE
  OBVIOUS
<1>3. r = rays[o] /\ rest = Push(Tail(walk.stack), top.cells \ {c}, v)
  OBVIOUS
<1>4. here = [value |-> Max({v, ValueIn(r, c)}), dirs |-> DirsIn(r, c)]
  BY DEF Here
<1>5. next = IF GoesOn(c, o) /\ v > 1
             THEN {d \in Neighbors[c] :
                     Improves(WithRay(r, c, here), d, Reduced(v), walk.visited)}
             ELSE {}
  BY DEF Onward
<1>6. /\ stack = Push(rest, next, Reduced(v))
      /\ ray = [here EXCEPT !.dirs = @ \cup next]
      /\ q = [pass[w] EXCEPT !.imp =
                IF GoesOn(c, o) THEN @ \cup {ChunkOf[c]} ELSE @]
  OBVIOUS
<1>7. /\ rays' = [rays EXCEPT ![o] = WithRay(r, c, ray)]
      /\ pass' = [pass EXCEPT ![w] = q]
      /\ walk' = IF stack = <<>> THEN NoWalk
                 ELSE [walk EXCEPT !.stack = stack, !.visited = @ \cup next]
      /\ UNCHANGED <<blocks, lightReq, userReq, shown, main, edits, crossed, patch,
                     overlaid, unseen>>
      /\ ~Free
  <2>1. rays' = [rays EXCEPT ![o] = WithRay(r, c, ray)]
    BY DEF Visit
  <2>2. pass' = [pass EXCEPT ![w].imp =
                   IF GoesOn(c, o) THEN @ \cup {ChunkOf[c]} ELSE @]
    BY DEF Visit
  <2>3. walk' = IF stack = <<>> THEN NoWalk
                ELSE [walk EXCEPT !.stack = stack, !.visited = @ \cup next]
    BY DEF Visit
  <2>4. /\ UNCHANGED <<blocks, lightReq, userReq, shown, main, edits, crossed, patch,
                       overlaid, unseen>>
        /\ ~Free
    BY DEF Visit, quietVars
  <2> HIDE DEF o, w, top, v, c, rest, r, here, next, stack, ray, q
  <2>5. pass' = [pass EXCEPT ![w] = q]
    BY <1>6, <2>2
  <2> QED
    BY <2>1, <2>3, <2>4, <2>5
<1> HIDE DEF o, w, top, v, c, rest, r, here, next, stack, ray, q
<1>8. o \in Cells /\ w \in Workers /\ Walking(o, w) /\ pass[w].chunk # None
  BY <1>1, <1>7, AtWork, ChunkFacts DEF Walking
<1>9. Stacked(walk.stack) /\ walk.stack # <<>>
  BY <1>8 DEF WalkInv, FloodInv, Walking
<1>10. c \in top.cells
  BY <1>1, <1>2, <1>9, SomethingOnStack
<1>11. /\ v \in Levels /\ c \in Cells /\ Stacked(rest) /\ OnStack(walk.stack, c, v)
       /\ \A d, u : /\ OnStack(rest, d, u) => OnStack(walk.stack, d, u)
                    /\ OnStack(walk.stack, d, u) => OnStack(rest, d, u) \/ (d = c /\ u = v)
  <2>1. PICK s : s = walk.stack
    OBVIOUS
  <2>2. /\ Stacked(s) /\ s # <<>> /\ c \in top.cells /\ top = Head(s) /\ v = top.value
        /\ rest = Push(Tail(s), top.cells \ {c}, top.value)
    BY <1>1, <1>2, <1>3, <1>9, <1>10, <2>1
  <2>3. /\ top.value \in Levels /\ top.cells \subseteq Cells
        /\ Stacked(rest)
        /\ OnStack(s, c, top.value)
        /\ Shortens(s, rest, c, top.value)
    BY <2>2, PopIs
  <2> QED
    BY <2>1, <2>2, <2>3 DEF Shortens
<1>12. r \in RayMaps /\ Linked(o, r)
  BY <1>3, <1>8 DEF WalkInv, LightTypeOK, LinkInv
<1>13. /\ here \in Rays /\ here.value >= v
       /\ c \in DOMAIN r => /\ here.value >= r[c].value /\ here.dirs = r[c].dirs
                            /\ here.value = v \/ here.value = r[c].value
       /\ c \notin DOMAIN r => here.value = v /\ here.dirs = {}
  <2>1. v \in Nat
    BY <1>11, LevelFacts
  <2>2. CASE c \in DOMAIN r
    <3>1. r[c].value \in Levels /\ r[c].value \in Nat /\ r[c].dirs \subseteq Cells
      BY <1>12, <2>2, RayMapIs
    <3>2. here = [value |-> Max({v, r[c].value}), dirs |-> r[c].dirs]
      BY <1>4, <2>2 DEF ValueIn, DirsIn
    <3>3. Max({v, r[c].value}) \in {v, r[c].value} /\ Max({v, r[c].value}) >= v
          /\ Max({v, r[c].value}) >= r[c].value
      BY <2>1, <3>1, HigherLevel
    <3>4. here.value = Max({v, r[c].value}) /\ here.dirs = r[c].dirs
      BY <3>2
    <3> HIDE DEF Max
    <3>5. Max({v, r[c].value}) \in Levels
      BY <1>11, <3>1, <3>3
    <3> QED
      BY <2>2, <3>1, <3>2, <3>3, <3>4, <3>5 DEF Rays
  <2>3. CASE c \notin DOMAIN r
    <3>1. here = [value |-> Max({v, 0}), dirs |-> {}]
      BY <1>4, <2>3 DEF ValueIn, DirsIn
    <3>2. Max({v, 0}) = v
      BY <2>1, HigherLevel
    <3> QED
      BY <1>11, <2>1, <2>3, <3>1, <3>2 DEF Rays
  <2> QED
    BY <2>2, <2>3
<1>14. next \subseteq Neighbors[c] /\ next \subseteq Cells /\ (next # {} => GoesOn(c, o) /\ v > 1)
  BY <1>5, <1>11, ChunkFacts
<1>15. ray \in Rays /\ ray.value = here.value
       /\ ray.dirs = here.dirs \cup next
  BY <1>6, <1>13, <1>14 DEF Rays
<1>16. /\ Stacked(stack)
       /\ \A d, u : OnStack(stack, d, u) <=> OnStack(rest, d, u) \/ (d \in next /\ u = v - 2)
  <2>1. CASE next = {}
    BY <1>6, <1>11, <2>1 DEF Push
  <2>2. CASE next # {}
    <3>1. Reduced(v) = v - 2 /\ v - 2 \in Levels
      BY <1>11, <1>14, <2>2, LevelFacts
    <3>2. stack = Push(rest, next, v - 2)
      BY <1>6, <3>1
    <3>3. next \in SUBSET Cells
      BY <1>14
    <3>4. Stacked(rest) /\ v - 2 \in Levels
      BY <1>11, <3>1
    <3>5. Stacked(Push(rest, next, v - 2))
      BY <3>3, <3>4, PushIs
    <3>6. \A d, u : OnStack(Push(rest, next, v - 2), d, u)
                      <=> OnStack(rest, d, u) \/ (d \in next /\ u = v - 2)
      BY <3>3, <3>4, PushIs
    <3> QED
      BY <3>2, <3>5, <3>6
  <2> QED
    BY <2>1, <2>2
<1>17. rays'[o] = WithRay(r, c, ray)
  BY <1>7, <1>8 DEF WalkInv, LightTypeOK
<1>18. ASSUME GoesOn(c, o), v > 1, NEW d \in Neighbors[c] \ next
       PROVE  /\ d \in walk.visited
              /\ d \in DOMAIN rays'[o] => rays'[o][d].value >= v - 2
              /\ d \notin DOMAIN rays'[o] => v - 2 <= 0
  <2>1. Reduced(v) = v - 2 /\ v - 2 \in Nat
    BY <1>11, <1>18, LevelFacts
  <2>2. ~Improves(WithRay(r, c, here), d, v - 2, walk.visited)
    BY <1>5, <1>18, <2>1
  <2>3. d \in walk.visited /\ ~(ValueIn(WithRay(r, c, here), d) < v - 2)
    BY <2>2 DEF Improves
  <2>4. /\ DOMAIN WithRay(r, c, here) = DOMAIN r \cup {c} /\ WithRay(r, c, here)[c] = here
        /\ \A e \in DOMAIN r : e # c => WithRay(r, c, here)[e] = r[e]
    BY <1>11, <1>12, <1>13, WithRayIs
  <2>5. /\ DOMAIN WithRay(r, c, ray) = DOMAIN r \cup {c} /\ WithRay(r, c, ray)[c] = ray
        /\ \A e \in DOMAIN r : e # c => WithRay(r, c, ray)[e] = r[e]
    <3>1. WithRay(r, c, ray)
            = [e \in DOMAIN r \cup {c} |-> IF e = c THEN ray ELSE r[e]]
      BY DEF WithRay
    <3> QED
      BY <3>1
  <2>6. CASE d \in DOMAIN r \cup {c}
    <3>1. ValueIn(WithRay(r, c, here), d) = rays'[o][d].value
      BY <1>15, <1>17, <2>4, <2>5, <2>6 DEF ValueIn
    <3>2. rays'[o][d].value \in Nat
      BY <1>12, <1>15, <1>17, <2>5, <2>6, RayMapIs, LevelFacts DEF Rays
    <3> QED
      BY <1>17, <2>1, <2>3, <2>5, <2>6, <3>1, <3>2
  <2>7. CASE d \notin DOMAIN r \cup {c}
    <3>1. ValueIn(WithRay(r, c, here), d) = 0
      BY <2>4, <2>7 DEF ValueIn
    <3> QED
      BY <1>17, <2>1, <2>3, <2>5, <2>7, <3>1
  <2> QED
    BY <2>6, <2>7
<1>19. /\ q \in LightPasses
       /\ q.chunk = pass[w].chunk /\ q.sources = pass[w].sources
       /\ q.existing = pass[w].existing /\ pass[w].imp \subseteq q.imp
       /\ GoesOn(c, o) => ChunkOf[c] \in q.imp
  <2>1. pass[w] \in LightPasses
    BY <1>8 DEF WalkInv, LightTypeOK
  <2> QED
    BY <1>6, <1>11, <2>1, ChunkFacts DEF LightPasses
<1>20. walk \in [worker : Workers \cup {None}, origin : Cells \cup {None},
                stack : Seq(Groups), visited : SUBSET Cells]
  BY DEF WalkInv, LightTypeOK
<1>21. stack # <<>> => /\ walk'.origin = o /\ walk'.worker = w /\ walk'.stack = stack
                       /\ walk'.visited = walk.visited \cup next
  BY <1>1, <1>7, <1>20
<1>22. walk' \in [worker : Workers \cup {None}, origin : Cells \cup {None},
                  stack : Seq(Groups), visited : SUBSET Cells]
  <2>1. CASE stack = <<>>
    <3>1. <<>> \in Seq(Groups)
      OBVIOUS
    <3> QED
      BY <1>7, <2>1, <3>1 DEF NoWalk
  <2>2. CASE stack # <<>>
    <3>1. stack \in Seq(Groups)
      BY <1>16 DEF Stacked
    <3> QED
      BY <1>7, <1>14, <1>20, <2>2, <3>1
  <2> QED
    BY <2>1, <2>2
<1>23. Turn(o, w, c, v, next, ray, stack, q)
  <2>1. /\ c \in DOMAIN rays[o] => /\ ray.value >= rays[o][c].value
                                   /\ ray.value = v \/ ray.value = rays[o][c].value
                                   /\ ray.dirs = rays[o][c].dirs \cup next
        /\ c \notin DOMAIN rays[o] => ray.value = v /\ ray.dirs = next
        /\ ray.value >= v
    BY <1>3, <1>13, <1>15
  <2>2. /\ \A d, u : OnStack(stack, d, u) =>
                       OnStack(walk.stack, d, u) \/ (d \in next /\ u = v - 2)
        /\ \A d, u : OnStack(walk.stack, d, u) =>
                       OnStack(stack, d, u) \/ (d = c /\ u = v)
        /\ \A d \in next : OnStack(stack, d, v - 2)
    BY <1>11, <1>16
  <2>3. stack = <<>> => walk' = NoWalk
    BY <1>7
  <2>4. rays' = [rays EXCEPT ![o] = WithRay(rays[o], c, ray)]
    BY <1>3, <1>7
  <2> QED
    BY <1>1, <1>7, <1>8, <1>11, <1>14, <1>15, <1>16, <1>18, <1>19, <1>21, <1>22,
       <2>1, <2>2, <2>3, <2>4 DEF Turn
<1>24. stack \in Seq(Groups) /\ next \in SUBSET Cells
  BY <1>14, <1>16 DEF Stacked
<1> QED
  BY <1>8, <1>11, <1>15, <1>19, <1>23, <1>24

(* What has come from a ray still does when there are more of them.        *)
LEMMA FromRayKept ==
  ASSUME NEW r, NEW t \in RayMaps, NEW d, NEW u \in Nat, FromRay(r, d, u),
         r \in RayMaps, DOMAIN r \subseteq DOMAIN t,
         \A p \in DOMAIN r : r[p].value <= t[p].value /\ r[p].dirs \subseteq t[p].dirs
  PROVE  FromRay(t, d, u)
<1>1. PICK p \in DOMAIN r : d \in r[p].dirs /\ u + 2 <= r[p].value
  BY DEF FromRay
<1>2. p \in DOMAIN t /\ r[p].value \in Nat /\ t[p].value \in Nat
  BY <1>1, RayMapIs
<1>3. d \in t[p].dirs /\ u + 2 <= t[p].value
  BY <1>1, <1>2
<1> QED
  BY <1>2, <1>3 DEF FromRay

(* The turn gives the light more rays and takes none away.                 *)
LEMMA TurnGrows ==
  ASSUME WalkInv, NEW o \in Cells, NEW w \in Workers, NEW c \in Cells, NEW v \in Levels,
         NEW next, NEW ray, NEW stack, NEW q, Turn(o, w, c, v, next, ray, stack, q)
  PROVE  /\ rays[o] \in RayMaps /\ rays'[o] \in RayMaps
         /\ \A a \in Cells : a # o => rays'[a] = rays[a]
         /\ rays' \in [Cells -> RayMaps]
         /\ DOMAIN rays'[o] = DOMAIN rays[o] \cup {c} /\ rays'[o][c] = ray
         /\ \A p \in DOMAIN rays[o] : p # c => rays'[o][p] = rays[o][p]
         /\ \A p \in DOMAIN rays[o] : /\ rays[o][p].value <= rays'[o][p].value
                                      /\ rays[o][p].dirs \subseteq rays'[o][p].dirs
<1>1. rays[o] \in RayMaps /\ rays \in [Cells -> RayMaps]
  BY DEF WalkInv, LightTypeOK
<1>2. ray \in Rays
      /\ rays' = [rays EXCEPT ![o] = WithRay(rays[o], c, ray)]
      /\ (c \in DOMAIN rays[o] => /\ ray.value >= rays[o][c].value
                                  /\ ray.dirs = rays[o][c].dirs \cup next)
  BY DEF Turn
<1>3. rays'[o] = WithRay(rays[o], c, ray)
  BY <1>1, <1>2
<1>4. /\ rays'[o] \in RayMaps
      /\ DOMAIN rays'[o] = DOMAIN rays[o] \cup {c} /\ rays'[o][c] = ray
      /\ \A p \in DOMAIN rays[o] : p # c => rays'[o][p] = rays[o][p]
  <2>1. PICK r : r = rays[o]
    OBVIOUS
  <2>2. r \in RayMaps /\ ray \in Rays
    BY <1>1, <1>2, <2>1
  <2>3. /\ WithRay(r, c, ray) \in RayMaps
        /\ DOMAIN WithRay(r, c, ray) = DOMAIN r \cup {c}
        /\ WithRay(r, c, ray)[c] = ray
        /\ \A d \in DOMAIN r : d # c => WithRay(r, c, ray)[d] = r[d]
    BY <2>2, WithRayIs
  <2> QED
    BY <1>3, <2>1, <2>3
<1>5. ASSUME NEW p \in DOMAIN rays[o]
      PROVE  /\ rays[o][p].value <= rays'[o][p].value
             /\ rays[o][p].dirs \subseteq rays'[o][p].dirs
  <2>1. CASE p = c
    <3>1. rays[o][c].value \in Nat /\ ray.value \in Nat
      BY <1>1, <1>2, <1>5, <2>1, RayMapIs, LevelFacts DEF Rays
    <3> QED
      BY <1>2, <1>4, <1>5, <2>1, <3>1
  <2>2. CASE p # c
    <3>1. rays[o][p].value \in Nat
      BY <1>1, <1>5, RayMapIs
    <3> QED
      BY <1>4, <1>5, <2>2, <3>1
  <2> QED
    BY <2>1, <2>2
<1>6. rays' \in [Cells -> RayMaps] /\ \A a \in Cells : a # o => rays'[a] = rays[a]
  BY <1>1, <1>2, <1>3, <1>4
<1> QED
  BY <1>1, <1>4, <1>5, <1>6

LEMMA VisitWalk ==
  ASSUME WalkInv, Visit
  PROVE  WalkInv'
<1>1. PICK o \in Cells, w \in Workers, c \in Cells, v \in Levels,
           next \in SUBSET Cells, ray \in Rays, stack \in Seq(Groups), q \in LightPasses :
             Turn(o, w, c, v, next, ray, stack, q)
  BY VisitIs
<1>2. /\ rays[o] \in RayMaps /\ rays'[o] \in RayMaps
      /\ \A a \in Cells : a # o => rays'[a] = rays[a]
      /\ rays' \in [Cells -> RayMaps]
      /\ DOMAIN rays'[o] = DOMAIN rays[o] \cup {c} /\ rays'[o][c] = ray
      /\ \A p \in DOMAIN rays[o] : p # c => rays'[o][p] = rays[o][p]
      /\ \A p \in DOMAIN rays[o] : /\ rays[o][p].value <= rays'[o][p].value
                                   /\ rays[o][p].dirs \subseteq rays'[o][p].dirs
  BY <1>1, TurnGrows
<1>3. LightTypeOK'
  <2>1. /\ pass' = [pass EXCEPT ![w] = q]
        /\ q \in LightPasses
        /\ walk' \in [worker : Workers \cup {None}, origin : Cells \cup {None},
                      stack : Seq(Groups), visited : SUBSET Cells]
        /\ UNCHANGED <<blocks, lightReq, userReq, shown, main, edits, crossed, patch,
                     overlaid, unseen>>
    BY <1>1 DEF Turn
  <2> QED
    BY <1>2, <2>1 DEF WalkInv, LightTypeOK
<1>4. /\ Walking(o, w) /\ walk.origin = o /\ OnStack(walk.stack, c, v)
      /\ next \subseteq Neighbors[c] /\ (next # {} => v > 1)
      /\ ray \in Rays /\ ray.value >= v
      /\ c \in DOMAIN rays[o] => /\ ray.value = v \/ ray.value = rays[o][c].value
                                 /\ ray.dirs = rays[o][c].dirs \cup next
      /\ c \notin DOMAIN rays[o] => ray.value = v /\ ray.dirs = next
  BY <1>1 DEF Turn
<1>5. v \in Nat /\ v <= Bright /\ Bright \in Nat /\ ray.value \in Nat /\ ray.value <= Bright
  BY <1>4, LevelFacts DEF Rays
<1>6. \A d : \A u \in Nat : FromRay(rays[o], d, u) => FromRay(rays'[o], d, u)
  BY <1>2, FromRayKept
<1>7. (c = o /\ v = Bright) \/ FromRay(rays[o], c, v)
  BY <1>4 DEF Walking
<1>8. Linked(o, rays[o])
  BY DEF WalkInv, LinkInv
<1>9. Linked(o, rays'[o])
  <2>1. o \in DOMAIN rays'[o] /\ rays'[o][o].value = Bright
    <3>1. CASE DOMAIN rays[o] = {}
      <4>1. c = o /\ v = Bright
        BY <1>7, <3>1 DEF FromRay
      <4> QED
        BY <1>2, <1>4, <1>5, <4>1
    <3>2. CASE DOMAIN rays[o] # {}
      <4>1. o \in DOMAIN rays[o] /\ rays[o][o].value = Bright
        BY <1>8, <3>2 DEF Linked
      <4> QED
        BY <1>2, <1>4, <1>5, <4>1
    <3> QED
      BY <3>1, <3>2
  <2>2. ASSUME NEW d \in DOMAIN rays'[o] PROVE rays'[o][d].dirs \subseteq Neighbors[d]
    BY <1>2, <1>4, <1>8 DEF Linked
  <2>3. ASSUME NEW d \in DOMAIN rays'[o] \ {o}
        PROVE  FromRay(rays'[o], d, rays'[o][d].value)
    <3>1. d \in DOMAIN rays[o] => FromRay(rays[o], d, rays[o][d].value)
                                  /\ rays[o][d].value \in Nat
      BY <1>2, <1>8, <2>3, RayMapIs DEF Linked
    <3>2. CASE d # c
      BY <1>2, <1>6, <2>3, <3>1, <3>2
    <3>3. CASE d = c
      <4>1. FromRay(rays[o], c, v)
        BY <1>7, <2>3, <3>3
      <4> QED
        BY <1>2, <1>4, <1>5, <1>6, <3>1, <3>3, <4>1
    <3> QED
      BY <3>2, <3>3
  <2> QED
    BY <2>1, <2>2, <2>3 DEF Linked
<1>10. LinkInv'
  BY <1>2, <1>9 DEF WalkInv, LinkInv
<1>11. PassInv'
  <2>1. /\ pass' = [pass EXCEPT ![w] = q] /\ pass[w].chunk # None
        /\ q.chunk = pass[w].chunk /\ q.sources = pass[w].sources
        /\ q.existing = pass[w].existing
    BY <1>1 DEF Turn
  <2>2. \A a \in pass[w].sources : a # o
    BY <1>4 DEF Walking
  <2>3. \A x \in Workers : pass[x].sources \subseteq Cells
    BY DEF WalkInv, LightTypeOK, LightPasses
  <2>4. \A a \in q.sources : DOMAIN rays'[a] = {} \/ a \in q.existing
    BY <1>2, <2>1, <2>2, <2>3 DEF WalkInv, PassInv
  <2>5. ASSUME NEW x \in Workers \ {w}, NEW a \in pass[x].sources
        PROVE  DOMAIN rays'[a] = {} \/ DOMAIN rays'[a] = DOMAIN rays[a]
    <3>1. pass[x].chunk # None
      BY <2>5, AtWork
    <3>2. ChunkOf[a] = pass[x].chunk /\ pass[w].chunk # pass[x].chunk
      BY <2>5, <3>1 DEF WalkInv, PassInv
    <3>3. a # o
      BY <1>4, <3>2 DEF Walking
    <3> QED
      BY <1>2, <2>3, <3>3
  <2> QED
    BY <2>1, <2>4, <2>5, PassShrinks
<1>12. MainInv' /\ PatchInv'
  BY <1>1 DEF Turn, WalkInv, MainInv, PatchInv
<1>13. FloodInv'
  <2>1. /\ Stacked(stack)
        /\ \A d, u : OnStack(stack, d, u) =>
                       OnStack(walk.stack, d, u) \/ (d \in next /\ u = v - 2)
        /\ \A d, u : OnStack(walk.stack, d, u) =>
                       OnStack(stack, d, u) \/ (d = c /\ u = v)
        /\ \A d \in next : OnStack(stack, d, v - 2)
        /\ stack = <<>> => walk' = NoWalk
        /\ stack # <<>> => /\ walk'.origin = o /\ walk'.worker = w /\ walk'.stack = stack
                           /\ walk'.visited = walk.visited \cup next
    BY <1>1 DEF Turn
  <2>2. CASE stack = <<>>
    <3>1. walk' = NoWalk /\ walk'.stack = stack /\ walk'.origin = None
      BY <2>1, <2>2 DEF NoWalk
    <3> QED
      BY <2>1, <3>1 DEF FloodInv
  <2>3. CASE stack # <<>>
    <3>1. /\ walk'.origin = o /\ walk'.worker = w /\ walk'.stack = stack
          /\ walk'.visited = walk.visited \cup next
      BY <2>1, <2>3
    <3>2. pass'[w].chunk = ChunkOf[o] /\ pass'[w].existing = {} /\ o \notin pass'[w].sources
      BY <1>1, <1>4 DEF Turn, Walking, WalkInv, LightTypeOK
    <3> DEFINE waiting(s) == {d \in Cells : \E u \in Levels : OnStack(s, d, u)}
    <3>3. walk.visited = DOMAIN rays[o] \cup waiting(walk.stack)
      BY <1>4 DEF Walking
    <3>4. next # {} => v - 2 \in Levels
      BY <1>4, LevelFacts
    <3>5. next \subseteq Cells
      BY <1>4, ChunkFacts
    <3>6. walk.visited \cup next = DOMAIN rays'[o] \cup waiting(stack)
      <4>1. waiting(walk.stack) \subseteq waiting(stack) \cup {c}
        BY <2>1
      <4>2. waiting(stack) \subseteq waiting(walk.stack) \cup next
        BY <2>1
      <4>3. next \subseteq waiting(stack)
        BY <2>1, <3>4, <3>5
      <4>4. c \in waiting(walk.stack)
        BY <1>4
      <4> HIDE DEF waiting
      <4> QED
        BY <1>2, <3>3, <4>1, <4>2, <4>3, <4>4
    <3>7. ASSUME NEW d \in Cells, NEW u \in Levels, OnStack(stack, d, u)
          PROVE  (d = o /\ u = Bright) \/ FromRay(rays'[o], d, u)
      <4>1. CASE OnStack(walk.stack, d, u)
        <5>1. (d = o /\ u = Bright) \/ FromRay(rays[o], d, u)
          BY <1>4, <4>1 DEF Walking
        <5>2. u \in Nat
          BY LevelFacts
        <5> QED
          BY <1>6, <5>1, <5>2
      <4>2. CASE d \in next /\ u = v - 2
        <5>1. d \in ray.dirs /\ u + 2 <= ray.value
          BY <1>4, <1>5, <4>2
        <5> QED
          BY <1>2, <5>1 DEF FromRay
      <4> QED
        BY <2>1, <3>7, <4>1, <4>2
    <3>8. Walking(o, w)'
      BY <2>3, <3>1, <3>2, <3>6, <3>7 DEF Walking
    <3>9. o # None
      BY ChunkFacts
    <3> QED
      BY <2>1, <3>1, <3>8, <3>9 DEF FloodInv
  <2> QED
    BY <2>2, <2>3
<1> QED
  BY <1>3, <1>10, <1>11, <1>12, <1>13 DEF WalkInv

----------------------------------------------------------------------------
(* The rays stay right.                                                    *)

LEMMA LightRays ==
  ASSUME WalkInv, NEW o \in Cells
  PROVE  /\ rays[o] \in RayMaps /\ DOMAIN rays[o] \subseteq Cells
         /\ \A p \in DOMAIN rays[o] : rays[o][p].value \in Levels /\ rays[o][p].value \in Nat
BY RayMapIs DEF WalkInv, LightTypeOK

LEMMA RightStays ==
  ASSUME NEW o, NEW p, GoesOn(p, o)' <=> GoesOn(p, o), rays'[o] = rays[o],
         ~Flooding(o) \/ walk' = walk, Right(o, p)
  PROVE  Right(o, p)'
BY DEF Right, Gets, Flooding

LEMMA SetBlockRight ==
  ASSUME WalkInv, RightInv, SetBlock
  PROVE  RightInv'
<1>1. PICK c \in Cells, b \in Kinds : Sets(c, b)
  BY SetBlockIs
<1> USE DEF Sets
<1>2. blocks \in [Cells -> Kinds]
  BY DEF WalkInv, LightTypeOK
<1> SUFFICES ASSUME NEW o \in Cells, NEW p \in DOMAIN rays'[o]
             PROVE  (Right(o, p) \/ Changed(o, p) \/ o \in crossed
                       \/ ChunkOf[o] \in lightReq \/ Leaving(o))'
  BY DEF RightInv
<1>3. p \in DOMAIN rays[o] /\ p \in Cells
  BY <1>1, LightRays
<1>4. Right(o, p) \/ o \in crossed \/ ChunkOf[o] \in lightReq \/ Leaving(o)
  BY <1>1, <1>3, ChunkFacts DEF RightInv, Changed
<1>5. CASE Right(o, p)
  <2>1. CASE GoesOn(p, o)' <=> GoesOn(p, o)
    BY <1>1, <1>5, <2>1, RightStays
  <2>2. CASE ~(GoesOn(p, o)' <=> GoesOn(p, o))
    <3>1. p # o /\ p = c /\ (Passes(blocks[c]) <=> ~Passes(b))
      BY <1>1, <1>2, <1>3, <2>2 DEF GoesOn
    <3>2. Changed(o, p)'
      BY <1>1, <3>1 DEF Changed
    <3> QED
      BY <3>2
  <2> QED
    BY <2>1, <2>2
<1>6. CASE o \in crossed \/ ChunkOf[o] \in lightReq \/ Leaving(o)
  BY <1>1, <1>6 DEF Leaving
<1> QED
  BY <1>4, <1>5, <1>6

(* A ray in the block that is set came from a neighbour of it: the light   *)
(* is one that the history knows.                                          *)
LEMMA RayIsNearby ==
  ASSUME WalkInv, NEW o \in Cells, NEW p \in DOMAIN rays[o], p # o
  PROVE  o \in Nearby(p)
<1>1. PICK s \in DOMAIN rays[o] : p \in rays[o][s].dirs
  BY DEF WalkInv, LinkInv, Linked, FromRay
<1>2. p \in Neighbors[s] /\ s \in Cells /\ p \in Cells
  BY <1>1, LightRays DEF WalkInv, LinkInv, Linked
<1>3. s \in Neighbors[p]
  BY <1>2, LightAssumption
<1> QED
  BY <1>1, <1>3 DEF Nearby

LEMMA QueueRerenderRight ==
  ASSUME WalkInv, RightInv, QueueRerender
  PROVE  RightInv'
<1>1. /\ main.cell \in Cells /\ main' = NoBlock
      /\ IF IsLight(main.new) \/ IsLight(main.old)
           THEN /\ lightReq' = lightReq \cup Targets(main.cell, main.new)
                /\ userReq' = userReq /\ crossed' = crossed \cup Nearby(main.cell)
           ELSE /\ lightReq' = lightReq \cup Implicated(main.cell, main.new)
                /\ userReq' = userReq \cup Targets(main.cell, main.new)
                /\ crossed' = crossed
      /\ UNCHANGED <<blocks, rays, pass, walk, shown, edits>>
  BY QueueRerenderIs DEF Queues
<1> SUFFICES ASSUME NEW o \in Cells, NEW p \in DOMAIN rays'[o]
             PROVE  (Right(o, p) \/ Changed(o, p) \/ o \in crossed
                       \/ ChunkOf[o] \in lightReq \/ Leaving(o))'
  BY DEF RightInv
<1>2. p \in DOMAIN rays[o] /\ p \in Cells
  BY <1>1, LightRays
<1>3. Right(o, p) \/ Changed(o, p) \/ o \in crossed \/ ChunkOf[o] \in lightReq \/ Leaving(o)
  BY <1>2 DEF RightInv
<1>4. CASE Right(o, p)
  BY <1>1, <1>4, RightStays DEF GoesOn
<1>5. CASE Changed(o, p)
  <2>1. p = main.cell /\ p # o /\ (Passes(main.old) <=> ~Passes(main.new))
    BY <1>5 DEF Changed
  <2>2. o \in Nearby(main.cell)
    BY <1>2, <2>1, RayIsNearby
  <2>3. CASE IsLight(main.new) \/ IsLight(main.old)
    BY <1>1, <2>2, <2>3
  <2>4. CASE ~(IsLight(main.new) \/ IsLight(main.old))
    <3>1. "air" \in {main.old, main.new}
      BY <1>1, ChunkFacts DEF WalkInv, MainInv
    <3>2. ~IsTransparent(main.new)
      BY <2>1, <3>1 DEF Passes, IsTransparent
    <3>3. ChunkOf[o] \in Implicated(main.cell, main.new)
      BY <2>2, <3>2 DEF Implicated
    <3> QED
      BY <1>1, <2>4, <3>3
  <2> QED
    BY <2>3, <2>4
<1>6. CASE o \in crossed \/ ChunkOf[o] \in lightReq \/ Leaving(o)
  BY <1>1, <1>6 DEF Leaving
<1> QED
  BY <1>3, <1>4, <1>5, <1>6

LEMMA PatchRight ==
  ASSUME WalkInv, RightInv, BreakCrystals \/ Stamp
  PROVE  RightInv'
<1>1. UNCHANGED <<blocks, rays, lightReq, pass, walk, main, crossed>>
  BY GathersIs DEF Gathers
<1> QED
  BY <1>1 DEF RightInv, Right, GoesOn, Gets, Flooding, Changed, Leaving

LEMMA QueuePatchRight ==
  ASSUME WalkInv, RightInv, QueuePatch
  PROVE  RightInv'
<1>1. UNCHANGED <<blocks, rays, lightReq, pass, walk, main, crossed>>
  BY QueuePatchIs DEF Requests
<1> QED
  BY <1>1 DEF RightInv, Right, GoesOn, Gets, Flooding, Changed, Leaving

LEMMA SetNextRight ==
  ASSUME WalkInv, RightInv, SetNext
  PROVE  RightInv'
<1>1. PICK c \in Cells, b \in Kinds : Alters(c, b)
  BY SetNextIs
<1> USE DEF Alters
<1>2. blocks \in [Cells -> Kinds]
  BY DEF WalkInv, LightTypeOK
<1> SUFFICES ASSUME NEW o \in Cells, NEW p \in DOMAIN rays'[o]
             PROVE  (Right(o, p) \/ Changed(o, p) \/ o \in crossed
                       \/ ChunkOf[o] \in lightReq \/ Leaving(o))'
  BY DEF RightInv
<1>3. p \in DOMAIN rays[o] /\ p \in Cells
  BY <1>1, LightRays
<1>4. Right(o, p) \/ o \in crossed \/ ChunkOf[o] \in lightReq \/ Leaving(o)
  BY <1>1, <1>3, ChunkFacts DEF RightInv, Changed
<1>5. CASE Right(o, p)
  <2>1. CASE GoesOn(p, o)' <=> GoesOn(p, o)
    BY <1>1, <1>5, <2>1, RightStays
  <2>2. CASE ~(GoesOn(p, o)' <=> GoesOn(p, o))
    <3>1. p # o /\ p = c /\ Passes(b) # Passes(blocks[c])
      BY <1>1, <1>2, <1>3, <2>2 DEF GoesOn
    <3>2. o \in crossed'
      BY <1>1, <1>3, <3>1, RayIsNearby
    <3> QED
      BY <3>2
  <2> QED
    BY <2>1, <2>2
<1>6. CASE o \in crossed \/ ChunkOf[o] \in lightReq \/ Leaving(o)
  <2>1. crossed \subseteq crossed'
    BY <1>1
  <2> QED
    BY <1>1, <1>6, <2>1 DEF Leaving
<1> QED
  BY <1>4, <1>5, <1>6

LEMMA StartPassRight ==
  ASSUME WalkInv, RightInv, NEW w \in Workers, StartPass(w)
  PROVE  RightInv'
<1>1. PICK k \in Chunks : Starts(w, k)
  BY StartPassIs
<1> USE DEF Starts
<1>2. /\ pass'[w].existing = {o \in Inside(k) : \E c \in Inside(k) : c \in DOMAIN rays[o]}
      /\ \A v \in Workers : v # w => pass'[v] = pass[v]
      /\ pass[w].existing = {}
  BY <1>1 DEF WalkInv, LightTypeOK, Idle
<1> SUFFICES ASSUME NEW o \in Cells, NEW p \in DOMAIN rays'[o]
             PROVE  (Right(o, p) \/ Changed(o, p) \/ o \in crossed
                       \/ ChunkOf[o] \in lightReq \/ Leaving(o))'
  BY DEF RightInv
<1>3. p \in DOMAIN rays[o]
  BY <1>1
<1>4. Right(o, p) \/ Changed(o, p) \/ o \in crossed \/ ChunkOf[o] \in lightReq \/ Leaving(o)
  BY <1>3 DEF RightInv
<1>5. CASE Right(o, p)
  BY <1>1, <1>5, RightStays DEF GoesOn
<1>6. CASE Changed(o, p) \/ o \in crossed
  BY <1>1, <1>6 DEF Changed
<1>7. CASE ChunkOf[o] \in lightReq
  <2>1. CASE ChunkOf[o] = k
    <3>1. o \in pass'[w].existing
      BY <1>1, <1>2, <1>3, <2>1 DEF Inside
    <3> QED
      BY <3>1 DEF Leaving
  <2>2. CASE ChunkOf[o] # k
    BY <1>1, <1>7, <2>2
  <2> QED
    BY <2>1, <2>2
<1>8. CASE Leaving(o)
  BY <1>2, <1>8 DEF Leaving
<1> QED
  BY <1>4, <1>5, <1>6, <1>7, <1>8

LEMMA DepropagateRight ==
  ASSUME WalkInv, RightInv, NEW w \in Workers, Depropagate(w)
  PROVE  RightInv'
<1>1. PICK a \in pass[w].existing, dark \in RayMaps, q \in LightPasses : Darkens(w, a, dark, q)
  BY DepropagateIs
<1> USE DEF Darkens
<1>2. rays'[a] = dark /\ \A o \in Cells : o # a => rays'[o] = rays[o]
  BY <1>1 DEF WalkInv, LightTypeOK
<1>3. pass'[w].existing = pass[w].existing \ {a} /\ \A v \in Workers : v # w => pass'[v] = pass[v]
  BY <1>1 DEF WalkInv, LightTypeOK
<1> SUFFICES ASSUME NEW o \in Cells, NEW p \in DOMAIN rays'[o]
             PROVE  (Right(o, p) \/ Changed(o, p) \/ o \in crossed
                       \/ ChunkOf[o] \in lightReq \/ Leaving(o))'
  BY DEF RightInv
<1>4. o # a /\ rays'[o] = rays[o] /\ p \in DOMAIN rays[o]
  BY <1>1, <1>2
<1>5. Right(o, p) \/ Changed(o, p) \/ o \in crossed \/ ChunkOf[o] \in lightReq \/ Leaving(o)
  BY <1>4 DEF RightInv
<1>6. CASE Right(o, p)
  BY <1>1, <1>4, <1>6, RightStays DEF GoesOn
<1>7. CASE Changed(o, p) \/ o \in crossed \/ ChunkOf[o] \in lightReq
  BY <1>1, <1>7 DEF Changed
<1>8. CASE Leaving(o)
  BY <1>3, <1>4, <1>8 DEF Leaving
<1> QED
  BY <1>5, <1>6, <1>7, <1>8

LEMMA PropagateRight ==
  ASSUME WalkInv, RightInv, NEW w \in Workers, Propagate(w)
  PROVE  RightInv'
<1>1. PICK a \in pass[w].sources, q \in LightPasses : Kindles(w, a, q)
  BY PropagateIs
<1> USE DEF Kindles
<1>2. \A v \in Workers : pass'[v].existing = pass[v].existing
  BY <1>1 DEF WalkInv, LightTypeOK
<1> SUFFICES ASSUME NEW o \in Cells, NEW p \in DOMAIN rays'[o]
             PROVE  (Right(o, p) \/ Changed(o, p) \/ o \in crossed
                       \/ ChunkOf[o] \in lightReq \/ Leaving(o))'
  BY DEF RightInv
<1>3. o # a /\ p \in DOMAIN rays[o] /\ ~Flooding(o)
  BY <1>1, AtWork
<1>4. Right(o, p) \/ Changed(o, p) \/ o \in crossed \/ ChunkOf[o] \in lightReq \/ Leaving(o)
  BY <1>3 DEF RightInv
<1>5. CASE Right(o, p)
  BY <1>1, <1>3, <1>5, RightStays DEF GoesOn
<1>6. CASE Changed(o, p) \/ o \in crossed \/ ChunkOf[o] \in lightReq
  BY <1>1, <1>3, <1>6 DEF Changed
<1>7. CASE Leaving(o)
  BY <1>2, <1>7 DEF Leaving
<1> QED
  BY <1>4, <1>5, <1>6, <1>7

LEMMA EndPassRight ==
  ASSUME WalkInv, RightInv, NEW w \in Workers, EndPass(w)
  PROVE  RightInv'
<1>1. /\ pass[w].existing = {} /\ pass' = [pass EXCEPT ![w] = Idle]
      /\ UNCHANGED <<blocks, rays, lightReq, walk, main, edits, crossed, overlaid>>
  BY EndPassIs DEF Ends
<1>2. \A v \in Workers : pass'[v].existing = pass[v].existing
  BY <1>1 DEF WalkInv, LightTypeOK, Idle
<1> SUFFICES ASSUME NEW o \in Cells, NEW p \in DOMAIN rays'[o]
             PROVE  (Right(o, p) \/ Changed(o, p) \/ o \in crossed
                       \/ ChunkOf[o] \in lightReq \/ Leaving(o))'
  BY DEF RightInv
<1>3. Right(o, p) \/ Changed(o, p) \/ o \in crossed \/ ChunkOf[o] \in lightReq \/ Leaving(o)
  BY <1>1 DEF RightInv
<1>4. CASE Right(o, p)
  BY <1>1, <1>4, RightStays DEF GoesOn
<1>5. CASE Changed(o, p) \/ o \in crossed \/ ChunkOf[o] \in lightReq \/ Leaving(o)
  BY <1>1, <1>2, <1>5 DEF Changed, Leaving
<1> QED
  BY <1>3, <1>4, <1>5

LEMMA RebuildIndexRight ==
  ASSUME WalkInv, RightInv, NEW w \in Workers, RebuildIndex(w)
  PROVE  RightInv'
<1>1. UNCHANGED <<blocks, rays, lightReq, pass, walk, main, edits, crossed, overlaid>>
  BY RebuildIndexIs DEF Rebuilds
<1> QED
  BY <1>1 DEF RightInv, Right, GoesOn, Gets, Flooding, Changed, Leaving

(* The turn makes its ray right, and takes no ray's light from it.         *)
LEMMA TurnGets ==
  ASSUME WalkInv, NEW o \in Cells, NEW w \in Workers, NEW c \in Cells, NEW v \in Levels,
         NEW next, NEW ray, NEW stack, NEW q, Turn(o, w, c, v, next, ray, stack, q)
  PROVE  /\ \A d, u : OnStack(stack, d, u) => Flooding(o)' /\ OnStack(walk'.stack, d, u)
         /\ \A d : \A u \in Nat : Gets(o, d, u) => Gets(o, d, u)'
         /\ GoesOn(c, o) /\ v > 1 => \A d \in Neighbors[c] : Gets(o, d, v - 2)'
<1>1. /\ rays[o] \in RayMaps /\ rays'[o] \in RayMaps
      /\ DOMAIN rays'[o] = DOMAIN rays[o] \cup {c} /\ rays'[o][c] = ray
      /\ \A p \in DOMAIN rays[o] : rays[o][p].value <= rays'[o][p].value
  BY TurnGrows
<1>2. /\ \A d, u : OnStack(walk.stack, d, u) => OnStack(stack, d, u) \/ (d = c /\ u = v)
      /\ \A d \in next : OnStack(stack, d, v - 2)
      /\ stack # <<>> => walk'.origin = o /\ walk'.stack = stack
      /\ Walking(o, w) /\ ray.value >= v
      /\ ray \in Rays /\ next \subseteq Neighbors[c]
  BY DEF Turn
<1>3. ASSUME NEW d, NEW u, OnStack(stack, d, u)
      PROVE  Flooding(o)' /\ OnStack(walk'.stack, d, u)
  <2>1. stack # <<>>
    BY <1>3, NothingOnStack
  <2> QED
    BY <1>2, <1>3, <2>1 DEF Flooding
<1>4. \A p \in DOMAIN rays[o] : rays[o][p].value \in Nat /\ rays'[o][p].value \in Nat
  BY <1>1, RayMapIs
<1>5. v \in Nat /\ ray.value \in Nat
  BY <1>2, LevelFacts DEF Rays
<1>6. ASSUME NEW d, NEW u \in Nat, Gets(o, d, u) PROVE Gets(o, d, u)'
  <2>1. CASE d \in DOMAIN rays[o] /\ rays[o][d].value >= u
    <3>1. d \in DOMAIN rays'[o] /\ rays'[o][d].value >= u
      BY <1>1, <1>4, <2>1
    <3> QED
      BY <3>1 DEF Gets
  <2>2. CASE \E x \in Levels : x >= u /\ OnStack(walk.stack, d, x)
    <3>1. PICK x \in Levels : x >= u /\ OnStack(walk.stack, d, x)
      BY <2>2
    <3>2. CASE OnStack(stack, d, x)
      BY <1>3, <3>1, <3>2 DEF Gets
    <3>3. CASE d = c /\ x = v
      <4>1. c \in DOMAIN rays'[o] /\ rays'[o][c].value >= u
        BY <1>1, <1>2, <1>5, <3>1, <3>3
      <4> QED
        BY <3>3, <4>1 DEF Gets
    <3> QED
      BY <1>2, <3>1, <3>2, <3>3
  <2> QED
    BY <1>6, <2>1, <2>2 DEF Gets
<1>7. ASSUME GoesOn(c, o), v > 1, NEW d \in Neighbors[c] PROVE Gets(o, d, v - 2)'
  <2>1. v - 2 \in Levels
    BY <1>7, LevelFacts
  <2>2. CASE d \in next
    <3>1. OnStack(stack, d, v - 2)
      BY <1>2, <2>2
    <3>2. Flooding(o)' /\ OnStack(walk'.stack, d, v - 2)
      BY <1>3, <3>1
    <3> QED
      BY <1>5, <2>1, <3>2 DEF Gets
  <2>3. CASE d \notin next
    <3>1. /\ d \in walk.visited
          /\ d \in DOMAIN rays'[o] => rays'[o][d].value >= v - 2
          /\ d \notin DOMAIN rays'[o] => v - 2 <= 0
      BY <1>7, <2>3 DEF Turn
    <3>2. CASE d \in DOMAIN rays'[o]
      BY <3>1, <3>2 DEF Gets
    <3>3. CASE d \notin DOMAIN rays'[o]
      <4>1. PICK u \in Levels : OnStack(walk.stack, d, u)
        BY <1>1, <1>2, <3>1, <3>3 DEF Walking
      <4>2. OnStack(stack, d, u)
        BY <1>1, <1>2, <3>3, <4>1
      <4>3. Flooding(o)' /\ OnStack(walk'.stack, d, u)
        BY <1>3, <4>2
      <4>4. u \in Nat
        BY LevelFacts
      <4>5. u >= v - 2
        BY <1>5, <3>1, <3>3, <4>4
      <4> QED
        BY <4>3, <4>5 DEF Gets
    <3> QED
      BY <3>2, <3>3
  <2> QED
    BY <2>2, <2>3
<1> QED
  BY <1>3, <1>6, <1>7

LEMMA VisitRight ==
  ASSUME WalkInv, RightInv, Visit
  PROVE  RightInv'
<1>1. PICK o \in Cells, w \in Workers, c \in Cells, v \in Levels,
           next \in SUBSET Cells, ray \in Rays, stack \in Seq(Groups), q \in LightPasses :
             Turn(o, w, c, v, next, ray, stack, q)
  BY VisitIs
<1>2. /\ rays[o] \in RayMaps
      /\ \A a \in Cells : a # o => rays'[a] = rays[a]
      /\ DOMAIN rays'[o] = DOMAIN rays[o] \cup {c} /\ rays'[o][c] = ray
      /\ \A p \in DOMAIN rays[o] : p # c => rays'[o][p] = rays[o][p]
  BY <1>1, TurnGrows
<1>3. /\ walk.origin = o /\ blocks' = blocks /\ main' = main
      /\ lightReq' = lightReq /\ crossed' = crossed
      /\ next # {} => GoesOn(c, o)
      /\ c \in DOMAIN rays[o] => /\ ray.value = v \/ ray.value = rays[o][c].value
                                 /\ ray.dirs = rays[o][c].dirs \cup next
      /\ c \notin DOMAIN rays[o] => ray.value = v /\ ray.dirs = next
  BY <1>1 DEF Turn
<1>4. \A x \in Workers : pass'[x].existing = pass[x].existing
  BY <1>1 DEF Turn, WalkInv, LightTypeOK
<1>5. /\ \A d : \A u \in Nat : Gets(o, d, u) => Gets(o, d, u)'
      /\ GoesOn(c, o) /\ v > 1 => \A d \in Neighbors[c] : Gets(o, d, v - 2)'
  BY <1>1, TurnGets
<1> SUFFICES ASSUME NEW a \in Cells, NEW p \in DOMAIN rays'[a]
             PROVE  (Right(a, p) \/ Changed(a, p) \/ a \in crossed
                       \/ ChunkOf[a] \in lightReq \/ Leaving(a))'
  BY DEF RightInv
<1>6. ASSUME Changed(a, p) \/ a \in crossed \/ ChunkOf[a] \in lightReq \/ Leaving(a)
      PROVE  (Changed(a, p) \/ a \in crossed \/ ChunkOf[a] \in lightReq \/ Leaving(a))'
  BY <1>3, <1>4, <1>6 DEF Changed, Leaving
<1>7. GoesOn(p, a)' <=> GoesOn(p, a)
  BY <1>3 DEF GoesOn
<1>8. CASE a # o
  <2>1. rays'[a] = rays[a] /\ ~Flooding(a)
    BY <1>2, <1>3, <1>8 DEF Flooding
  <2>2. Right(a, p) => Right(a, p)'
    BY <1>7, <2>1, RightStays
  <2> QED
    BY <1>6, <2>1, <2>2 DEF RightInv
<1>9. CASE a = o /\ p \in DOMAIN rays[o] /\ rays'[o][p].value = rays[o][p].value
          /\ rays'[o][p].dirs = rays[o][p].dirs
  <2>1. ASSUME Right(o, p) PROVE Right(o, p)'
    <3>1. rays[o][p].value \in Nat
      BY <1>2, <1>9, RayMapIs
    <3>2. CASE GoesOn(p, o)
      <4>1. SUFFICES ASSUME rays[o][p].value > 1, NEW d \in Neighbors[p]
                     PROVE  Gets(o, d, rays[o][p].value - 2)'
        BY <1>7, <1>9, <3>2 DEF Right
      <4>2. Gets(o, d, rays[o][p].value - 2)
        BY <2>1, <3>2, <4>1 DEF Right
      <4>3. rays[o][p].value - 2 \in Nat
        BY <3>1, <4>1
      <4>4. PICK u \in Nat : u = rays[o][p].value - 2
        BY <4>3
      <4>5. Gets(o, d, u)'
        BY <1>5, <4>2, <4>4
      <4> QED
        BY <1>9, <4>4, <4>5
    <3>3. CASE ~GoesOn(p, o)
      BY <1>7, <1>9, <2>1, <3>3 DEF Right
    <3> QED
      BY <3>2, <3>3
  <2> QED
    BY <1>6, <1>9, <2>1 DEF RightInv
<1>10. CASE a = o /\ p = c /\ GoesOn(c, o) /\ ray.value = v
  <2>1. Right(o, c)'
    BY <1>2, <1>5, <1>7, <1>10 DEF Right
  <2> QED
    BY <1>10, <2>1
<1>11. CASE a = o /\ p = c /\ c \notin DOMAIN rays[o] /\ ~GoesOn(c, o)
  <2>1. ray.dirs = {}
    BY <1>3, <1>11
  <2>2. Right(o, c)'
    BY <1>2, <1>7, <1>11, <2>1 DEF Right
  <2> QED
    BY <1>11, <2>2
<1>12. CASE a = o /\ p = c /\ c \in DOMAIN rays[o] /\ ~GoesOn(c, o)
  <2>1. ray.dirs = rays[o][c].dirs
    BY <1>3, <1>12
  <2>2. Right(o, c) => Right(o, c)'
    BY <1>2, <1>7, <1>12, <2>1 DEF Right
  <2> QED
    BY <1>6, <1>12, <2>2 DEF RightInv
<1>13. CASE a = o /\ p = c /\ GoesOn(c, o) /\ ray.value # v
  <2>1. c \in DOMAIN rays[o] /\ ray.value = rays[o][c].value
    BY <1>3, <1>13
  <2>2. ASSUME Right(o, c) PROVE Right(o, c)'
    <3>1. SUFFICES ASSUME ray.value > 1, NEW d \in Neighbors[c]
                   PROVE  Gets(o, d, ray.value - 2)'
      BY <1>2, <1>7, <1>13 DEF Right
    <3>2. Gets(o, d, ray.value - 2)
      BY <1>13, <2>1, <2>2, <3>1 DEF Right
    <3>3. ray.value - 2 \in Nat
      BY <1>2, <2>1, <3>1, RayMapIs
    <3> QED
      BY <1>5, <3>2, <3>3
  <2> QED
    BY <1>6, <1>13, <2>1, <2>2 DEF RightInv
<1> QED
  BY <1>2, <1>8, <1>9, <1>10, <1>11, <1>12, <1>13

----------------------------------------------------------------------------
(* Every light is lit, and nothing else.                                   *)

Settled(o) ==
  IF IsLight(blocks[o]) THEN Coming(o) \/ (DOMAIN rays[o] # {} /\ ~Leaving(o))
                        ELSE ~Coming(o) /\ (DOMAIN rays[o] = {} \/ Leaving(o))

Excused(o) == ChunkOf[o] \in lightReq \/ o \in overlaid

LEMMA LightsAre ==
  LightsInv <=> \A o \in Cells : LightMoved(o) \/ Excused(o) \/ Settled(o)
BY DEF LightsInv, Excused, Settled

LEMMA LightsAreNext ==
  LightsInv' <=>
    \A o \in Cells : LightMoved(o)' \/ Excused(o)' \/ Settled(o)'
BY DEF LightsInv, Excused, Settled

LEMMA SetBlockLights ==
  ASSUME WalkInv, LightsInv, SetBlock
  PROVE  LightsInv'
<1>1. PICK c \in Cells, b \in Kinds : Sets(c, b)
  BY SetBlockIs
<1> USE DEF Sets
<1>2. blocks \in [Cells -> Kinds]
  BY DEF WalkInv, LightTypeOK
<1> SUFFICES ASSUME NEW o \in Cells
             PROVE  LightMoved(o)' \/ Excused(o)' \/ Settled(o)'
  BY LightsAreNext
<1>3. Excused(o) \/ Settled(o)
  BY <1>1, LightsAre, ChunkFacts DEF LightMoved
<1>4. CASE IsLight(blocks'[o]) <=> IsLight(blocks[o])
  BY <1>1, <1>3, <1>4 DEF Settled, Coming, Leaving, Flooding, Excused
<1>5. CASE ~(IsLight(blocks'[o]) <=> IsLight(blocks[o]))
  <2>1. o = c /\ (IsLight(blocks[c]) \/ IsLight(b))
    BY <1>1, <1>2, <1>5
  <2> QED
    BY <1>1, <2>1 DEF LightMoved
<1> QED
  BY <1>4, <1>5

LEMMA QueueRerenderLights ==
  ASSUME WalkInv, LightsInv, QueueRerender
  PROVE  LightsInv'
<1>1. /\ main.cell \in Cells
      /\ IF IsLight(main.new) \/ IsLight(main.old)
           THEN /\ lightReq' = lightReq \cup Targets(main.cell, main.new)
                /\ userReq' = userReq /\ crossed' = crossed \cup Nearby(main.cell)
           ELSE /\ lightReq' = lightReq \cup Implicated(main.cell, main.new)
                /\ userReq' = userReq \cup Targets(main.cell, main.new)
                /\ crossed' = crossed
      /\ UNCHANGED <<blocks, rays, pass, walk, shown, edits, overlaid>>
      /\ ChunkOf[main.cell] \in Targets(main.cell, main.new)
  BY QueueRerenderIs DEF Queues
<1> SUFFICES ASSUME NEW o \in Cells
             PROVE  LightMoved(o)' \/ Excused(o)' \/ Settled(o)'
  BY LightsAreNext
<1>2. LightMoved(o) \/ Excused(o) \/ Settled(o)
  BY LightsAre
<1>3. CASE LightMoved(o)
  BY <1>1, <1>3 DEF LightMoved, Excused
<1>4. CASE Excused(o)
  BY <1>1, <1>4 DEF Excused
<1>5. CASE Settled(o)
  BY <1>1, <1>5 DEF Settled, Coming, Leaving, Flooding
<1> QED
  BY <1>2, <1>3, <1>4, <1>5

LEMMA PatchLights ==
  ASSUME WalkInv, LightsInv, BreakCrystals \/ Stamp
  PROVE  LightsInv'
<1>1. UNCHANGED <<blocks, rays, lightReq, pass, walk, main, overlaid>>
  BY GathersIs DEF Gathers
<1> QED
  BY <1>1 DEF LightsInv, LightMoved, Coming, Leaving, Flooding

LEMMA QueuePatchLights ==
  ASSUME WalkInv, LightsInv, QueuePatch
  PROVE  LightsInv'
<1>1. UNCHANGED <<blocks, rays, lightReq, pass, walk, main, overlaid>>
  BY QueuePatchIs DEF Requests
<1> QED
  BY <1>1 DEF LightsInv, LightMoved, Coming, Leaving, Flooding

LEMMA SetNextLights ==
  ASSUME WalkInv, LightsInv, SetNext
  PROVE  LightsInv'
<1>1. PICK c \in Cells, b \in Kinds : Alters(c, b)
  BY SetNextIs
<1> USE DEF Alters
<1>2. blocks \in [Cells -> Kinds]
  BY DEF WalkInv, LightTypeOK
<1> SUFFICES ASSUME NEW o \in Cells
             PROVE  LightMoved(o)' \/ Excused(o)' \/ Settled(o)'
  BY LightsAreNext
<1>3. Excused(o) \/ Settled(o)
  BY <1>1, LightsAre, ChunkFacts DEF LightMoved
<1>4. CASE Excused(o)
  BY <1>1, <1>4 DEF Excused
<1>5. CASE Settled(o) /\ (IsLight(blocks'[o]) <=> IsLight(blocks[o]))
  BY <1>1, <1>5 DEF Settled, Coming, Leaving, Flooding
<1>6. CASE ~(IsLight(blocks'[o]) <=> IsLight(blocks[o]))
  <2>1. o = c /\ (IsLight(blocks[c]) \/ IsLight(b))
    BY <1>1, <1>2, <1>6
  <2> QED
    BY <1>1, <2>1 DEF Excused
<1> QED
  BY <1>3, <1>4, <1>5, <1>6

LEMMA StartPassLights ==
  ASSUME WalkInv, LightsInv, NEW w \in Workers, StartPass(w)
  PROVE  LightsInv'
<1>1. PICK k \in Chunks : Starts(w, k)
  BY StartPassIs
<1> USE DEF Starts
<1>2. /\ pass'[w].existing = {o \in Inside(k) : \E c \in Inside(k) : c \in DOMAIN rays[o]}
      /\ pass'[w].sources = {c \in Inside(k) : IsLight(blocks[c])}
      /\ \A v \in Workers : v # w => pass'[v] = pass[v]
      /\ pass[w].existing = {} /\ pass[w].sources = {}
  BY <1>1 DEF WalkInv, LightTypeOK, Idle
<1>3. \A o \in Cells : ~Flooding(o) /\ ~Flooding(o)'
  BY <1>1, AtWork DEF Flooding
<1> SUFFICES ASSUME NEW o \in Cells
             PROVE  LightMoved(o)' \/ Excused(o)' \/ Settled(o)'
  BY LightsAreNext
<1>4. LightMoved(o) \/ Excused(o) \/ Settled(o)
  BY LightsAre
<1>5. CASE ChunkOf[o] = k
  <2>1. o \in Inside(k)
    BY <1>5 DEF Inside
  <2>2. CASE IsLight(blocks[o])
    <3>1. Coming(o)'
      BY <1>2, <2>1, <2>2 DEF Coming
    <3> QED
      BY <1>1, <2>2, <3>1 DEF Settled
  <2>3. CASE ~IsLight(blocks[o])
    <3>1. ASSUME NEW v \in Workers, o \in pass'[v].sources PROVE FALSE
      <4>1. CASE v = w
        BY <1>2, <2>3, <3>1, <4>1
      <4>2. CASE v # w
        <5>1. o \in pass[v].sources /\ pass[v].chunk # None
          BY <1>2, <3>1, <4>2, AtWork
        <5>2. pass[v].chunk = k
          BY <1>5, <5>1 DEF WalkInv, PassInv
        <5> QED
          BY <1>1, <5>2
      <4> QED
        BY <4>1, <4>2
    <3>2. ~Coming(o)'
      BY <1>3, <3>1 DEF Coming
    <3>3. DOMAIN rays'[o] = {} \/ Leaving(o)'
      BY <1>1, <1>2, <2>1 DEF Leaving
    <3> QED
      BY <1>1, <2>3, <3>2, <3>3 DEF Settled
  <2> QED
    BY <2>2, <2>3
<1>6. CASE ChunkOf[o] # k
  <2>1. \A v \in Workers : /\ o \in pass'[v].existing <=> o \in pass[v].existing
                           /\ o \in pass'[v].sources <=> o \in pass[v].sources
    BY <1>2, <1>6 DEF Inside
  <2>2. Settled(o) => Settled(o)'
    BY <1>1, <1>3, <2>1 DEF Settled, Coming, Leaving
  <2> QED
    BY <1>1, <1>4, <1>6, <2>2 DEF LightMoved, Excused
<1> QED
  BY <1>5, <1>6

LEMMA DepropagateLights ==
  ASSUME WalkInv, LightsInv, NEW w \in Workers, Depropagate(w)
  PROVE  LightsInv'
<1>1. PICK a \in pass[w].existing, dark \in RayMaps, q \in LightPasses : Darkens(w, a, dark, q)
  BY DepropagateIs
<1> USE DEF Darkens
<1>2. rays'[a] = dark /\ \A o \in Cells : o # a => rays'[o] = rays[o]
  BY <1>1 DEF WalkInv, LightTypeOK
<1>3. /\ pass'[w].existing = pass[w].existing \ {a}
      /\ \A v \in Workers : v # w => pass'[v] = pass[v]
      /\ \A v \in Workers : pass'[v].sources = pass[v].sources
  BY <1>1 DEF WalkInv, LightTypeOK
<1> SUFFICES ASSUME NEW o \in Cells
             PROVE  LightMoved(o)' \/ Excused(o)' \/ Settled(o)'
  BY LightsAreNext
<1>4. LightMoved(o) \/ Excused(o) \/ Settled(o)
  BY LightsAre
<1>5. Coming(o)' <=> Coming(o)
  BY <1>1, <1>3 DEF Coming, Flooding
<1>6. CASE o = a
  <2>1. Leaving(o) /\ DOMAIN rays'[o] = {}
    BY <1>1, <1>2, <1>6 DEF Leaving
  <2>2. Settled(o) => Settled(o)'
    BY <1>1, <1>5, <2>1 DEF Settled
  <2> QED
    BY <1>1, <1>4, <2>2 DEF LightMoved, Excused
<1>7. CASE o # a
  <2>1. Leaving(o)' <=> Leaving(o)
    BY <1>3, <1>7 DEF Leaving
  <2>2. Settled(o) => Settled(o)'
    BY <1>1, <1>2, <1>5, <1>7, <2>1 DEF Settled
  <2> QED
    BY <1>1, <1>4, <2>2 DEF LightMoved, Excused
<1> QED
  BY <1>6, <1>7

LEMMA PropagateLights ==
  ASSUME WalkInv, LightsInv, NEW w \in Workers, Propagate(w)
  PROVE  LightsInv'
<1>1. PICK a \in pass[w].sources, q \in LightPasses : Kindles(w, a, q)
  BY PropagateIs
<1> USE DEF Kindles
<1>2. /\ \A v \in Workers : pass'[v].existing = pass[v].existing
      /\ \A v \in Workers : v # w => pass'[v] = pass[v]
      /\ pass'[w].sources = pass[w].sources \ {a}
  BY <1>1 DEF WalkInv, LightTypeOK
<1> SUFFICES ASSUME NEW o \in Cells
             PROVE  LightMoved(o)' \/ Excused(o)' \/ Settled(o)'
  BY LightsAreNext
<1>3. LightMoved(o) \/ Excused(o) \/ Settled(o)
  BY LightsAre
<1>4. Leaving(o)' <=> Leaving(o)
  BY <1>2 DEF Leaving
<1>5. Coming(o)' <=> Coming(o)
  <2>1. CASE o = a
    BY <1>1, <2>1 DEF Coming, Flooding
  <2>2. CASE o # a
    <3>1. ~Flooding(o) /\ ~Flooding(o)'
      BY <1>1, <2>2, AtWork DEF Flooding
    <3>2. \A v \in Workers : o \in pass'[v].sources <=> o \in pass[v].sources
      BY <1>2, <2>2
    <3> QED
      BY <3>1, <3>2 DEF Coming
  <2> QED
    BY <2>1, <2>2
<1>6. Settled(o) => Settled(o)'
  BY <1>1, <1>4, <1>5 DEF Settled
<1> QED
  BY <1>1, <1>3, <1>6 DEF LightMoved, Excused

LEMMA VisitLights ==
  ASSUME WalkInv, LightsInv, Visit
  PROVE  LightsInv'
<1>1. PICK o \in Cells, w \in Workers, c \in Cells, v \in Levels,
           next \in SUBSET Cells, ray \in Rays, stack \in Seq(Groups), q \in LightPasses :
             Turn(o, w, c, v, next, ray, stack, q)
  BY VisitIs
<1>2. /\ \A a \in Cells : a # o => rays'[a] = rays[a]
      /\ DOMAIN rays'[o] = DOMAIN rays[o] \cup {c}
  BY <1>1, TurnGrows
<1>3. /\ walk.origin = o /\ blocks' = blocks /\ main' = main /\ lightReq' = lightReq
      /\ overlaid' = overlaid
      /\ stack = <<>> => walk' = NoWalk
      /\ stack # <<>> => walk'.origin = o
      /\ Walking(o, w) /\ pass[w].chunk # None
  BY <1>1 DEF Turn
<1>4. \A x \in Workers : /\ pass'[x].existing = pass[x].existing
                         /\ pass'[x].sources = pass[x].sources
  BY <1>1 DEF Turn, WalkInv, LightTypeOK
<1> SUFFICES ASSUME NEW a \in Cells
             PROVE  LightMoved(a)' \/ Excused(a)' \/ Settled(a)'
  BY LightsAreNext
<1>5. LightMoved(a) \/ Excused(a) \/ Settled(a)
  BY LightsAre
<1>6. Leaving(a)' <=> Leaving(a)
  BY <1>4 DEF Leaving
<1>7. CASE a = o
  <2>1. Coming(o)
    BY <1>3 DEF Coming, Flooding
  <2>2. ASSUME Leaving(o) PROVE FALSE
    <3>1. PICK x \in Workers : o \in pass[x].existing
      BY <2>2 DEF Leaving
    <3>2. pass[x].chunk # None
      BY <3>1, AtWork
    <3>3. pass[x].chunk = pass[w].chunk
      BY <1>3, <3>1, <3>2 DEF WalkInv, PassInv, Walking
    <3>4. x = w
      BY <1>3, <3>3 DEF WalkInv, PassInv
    <3> QED
      BY <1>3, <3>1, <3>4 DEF Walking
  <2>3. IsLight(blocks[o]) => Settled(o)'
    BY <1>2, <1>3, <1>6, <1>7, <2>2 DEF Settled
  <2>4. ~IsLight(blocks[o]) => ~Settled(o)
    BY <2>1 DEF Settled
  <2> QED
    BY <1>3, <1>5, <1>7, <2>3, <2>4 DEF LightMoved, Excused
<1>8. CASE a # o
  <2>1. ~Flooding(a) /\ ~Flooding(a)'
    BY <1>3, <1>8, ChunkFacts DEF Flooding, NoWalk
  <2>2. Coming(a)' <=> Coming(a)
    BY <1>4, <2>1 DEF Coming
  <2>3. Settled(a) => Settled(a)'
    BY <1>2, <1>3, <1>6, <1>8, <2>2 DEF Settled
  <2> QED
    BY <1>3, <1>5, <2>3 DEF LightMoved, Excused
<1> QED
  BY <1>7, <1>8

LEMMA EndPassLights ==
  ASSUME WalkInv, LightsInv, NEW w \in Workers, EndPass(w)
  PROVE  LightsInv'
<1>1. /\ pass[w].existing = {} /\ pass[w].sources = {} /\ pass' = [pass EXCEPT ![w] = Idle]
      /\ UNCHANGED <<blocks, rays, lightReq, walk, main, edits, crossed, overlaid>>
  BY EndPassIs DEF Ends
<1>2. \A v \in Workers : /\ pass'[v].existing = pass[v].existing
                         /\ pass'[v].sources = pass[v].sources
  BY <1>1 DEF WalkInv, LightTypeOK, Idle
<1> SUFFICES ASSUME NEW o \in Cells
             PROVE  LightMoved(o)' \/ Excused(o)' \/ Settled(o)'
  BY LightsAreNext
<1>3. LightMoved(o) \/ Excused(o) \/ Settled(o)
  BY LightsAre
<1>4. Settled(o) => Settled(o)'
  BY <1>1, <1>2 DEF Settled, Coming, Leaving, Flooding
<1> QED
  BY <1>1, <1>3, <1>4 DEF LightMoved, Excused

LEMMA RebuildIndexLights ==
  ASSUME WalkInv, LightsInv, NEW w \in Workers, RebuildIndex(w)
  PROVE  LightsInv'
<1>1. UNCHANGED <<blocks, rays, lightReq, pass, walk, main, edits, crossed, overlaid>>
  BY RebuildIndexIs DEF Rebuilds
<1> QED
  BY <1>1 DEF LightsInv, LightMoved, Coming, Leaving, Flooding

----------------------------------------------------------------------------
(* The meshes are right or asked for.                                      *)

IsFace(k, c, d) ==
  /\ ChunkOf[c] = k
  /\ (c = d /\ IsModel(blocks[c])) \/ (d \in Neighbors[c] /\ Visible(c, d))

LEMMA FacesOfIs ==
  ASSUME NEW k
  PROVE  /\ \A f \in FacesOf(k) : f \in Cells \X Cells
         /\ \A c, d \in Cells : <<c, d>> \in FacesOf(k) <=> IsFace(k, c, d)
<1>1. \A f \in FacesOf(k) : f \in Cells \X Cells
  BY DEF FacesOf, ModelsOf
<1>2. ASSUME NEW c \in Cells, NEW d \in Cells
      PROVE  <<c, d>> \in FacesOf(k) <=> IsFace(k, c, d)
  <2>1. <<c, d>> \in ModelsOf(k) <=> c = d /\ ChunkOf[c] = k /\ IsModel(blocks[c])
    BY DEF ModelsOf
  <2>2. <<c, d>>[1] = c /\ <<c, d>>[2] = d
    OBVIOUS
  <2> QED
    BY <2>1, <2>2 DEF FacesOf, IsFace
<1> QED
  BY <1>1, <1>2

LEMMA FacesOfNext ==
  ASSUME NEW k
  PROVE  /\ \A f \in FacesOf(k)' : f \in Cells \X Cells
         /\ \A c, d \in Cells : <<c, d>> \in FacesOf(k)' <=> IsFace(k, c, d)'
<1>1. \A f \in FacesOf(k)' : f \in Cells \X Cells
  BY DEF FacesOf, ModelsOf
<1>2. ASSUME NEW c \in Cells, NEW d \in Cells
      PROVE  <<c, d>> \in FacesOf(k)' <=> IsFace(k, c, d)'
  <2>1. <<c, d>> \in ModelsOf(k)' <=> c = d /\ ChunkOf[c] = k /\ IsModel(blocks'[c])
    BY DEF ModelsOf
  <2>2. <<c, d>>[1] = c /\ <<c, d>>[2] = d
    OBVIOUS
  <2> QED
    BY <2>1, <2>2 DEF FacesOf, IsFace
<1> QED
  BY <1>1, <1>2

(* A mesh stays right when nothing has changed near it.                    *)
LEMMA MeshStays ==
  ASSUME NEW k, MeshOK(k), blocks' = blocks, shown'[k] = shown[k],
         \A f \in unseen \ unseen' : ChunkOf[f[1]] # k,
         \A f \in FacesOf(k) : ChunkOf[f[2]] = k => LightAt(f[2])' = LightAt(f[2])
  PROVE  MeshOK(k)'
<1>1. FacesOf(k)' = FacesOf(k)
  BY DEF FacesOf, ModelsOf, Visible
<1>2. Inner(k)' = Inner(k)
  BY DEF Inner
<1>3. FacesOf(k) \ unseen \subseteq DOMAIN shown[k]
      /\ \A f \in Inner(k) : f \in FacesOf(k) /\ shown[k][f] = LightAt(f[2])
  BY DEF MeshOK
<1>4. ASSUME NEW f \in Inner(k)' PROVE f \in FacesOf(k)' /\ shown'[k][f] = LightAt(f[2])'
  <2>1. f \in FacesOf(k) /\ shown[k][f] = LightAt(f[2]) /\ ChunkOf[f[2]] = k
    BY <1>2, <1>3, <1>4 DEF Inner
  <2> QED
    BY <1>1, <2>1
<1>5. FacesOf(k)' \ unseen' \subseteq DOMAIN shown'[k]
  <2>1. ASSUME NEW f \in FacesOf(k) PROVE ChunkOf[f[1]] = k
    BY <2>1 DEF FacesOf, ModelsOf
  <2> QED
    BY <1>1, <1>3, <2>1
<1> QED
  BY <1>4, <1>5 DEF MeshOK

LEMMA LightSame ==
  ASSUME NEW d, \A o \in Cells : /\ d \in DOMAIN rays'[o] <=> d \in DOMAIN rays[o]
                                 /\ d \in DOMAIN rays[o] => rays'[o][d] = rays[o][d]
  PROVE  LightAt(d)' = LightAt(d)
BY DEF LightAt

LEMMA SetBlockMesh ==
  ASSUME WalkInv, MeshInv, SetBlock
  PROVE  MeshInv'
<1>1. PICK c \in Cells, b \in Kinds : Sets(c, b)
  BY SetBlockIs
<1> USE DEF Sets
<1>2. blocks \in [Cells -> Kinds]
  BY DEF WalkInv, LightTypeOK
<1>3. \A d \in Cells : d # c => blocks'[d] = blocks[d]
  BY <1>1, <1>2
<1> SUFFICES ASSUME NEW k \in Chunks PROVE MeshOK(k)' \/ ToBeRebuilt(k)'
  BY DEF MeshInv
<1>4. CASE k \in Targets(c, b)
  <2>1. main'.cell = c /\ main'.new = b /\ c # None
    BY <1>1, ChunkFacts
  <2>2. Targets(main.cell, main.new)' = Targets(c, b)
    BY <2>1 DEF Targets
  <2> QED
    BY <1>4, <2>1, <2>2 DEF ToBeRebuilt
<1>5. CASE ToBeRebuilt(k)
  BY <1>1, <1>5 DEF ToBeRebuilt
<1>6. CASE MeshOK(k) /\ k \notin Targets(c, b)
  <2>1. FacesOf(k) \ unseen \subseteq DOMAIN shown[k]
        /\ \A f \in Inner(k) : f \in FacesOf(k) /\ shown[k][f] = LightAt(f[2])
    BY <1>6 DEF MeshOK
  <2>2. ChunkOf[c] # k
    BY <1>6, LightAssumption DEF Targets
  <2>3. ASSUME NEW x \in Cells, NEW y \in Cells, IsFace(k, x, y)' PROVE IsFace(k, x, y)
    <3>1. x # c /\ blocks'[x] = blocks[x]
      BY <1>3, <2>2, <2>3 DEF IsFace
    <3>2. CASE y # c
      BY <1>3, <2>3, <3>1, <3>2 DEF IsFace, Visible
    <3>3. CASE y = c
      <4>1. y \in Neighbors[x] /\ Visible(x, y)' /\ ChunkOf[x] = k
        BY <2>3, <3>1, <3>3 DEF IsFace
      <4>2. x \in Neighbors[c]
        BY <3>3, <4>1, LightAssumption
      <4>3. b # "air"
        BY <1>6, <4>1, <4>2 DEF Targets
      <4>4. blocks[c] = "air"
        BY <1>1, <4>3
      <4>5. Visible(x, y)
        BY <3>1, <3>3, <4>1, <4>4 DEF Visible, Passes
      <4> QED
        BY <4>1, <4>5 DEF IsFace
    <3> QED
      BY <3>2, <3>3
  <2>4. FacesOf(k)' \ unseen' \subseteq DOMAIN shown'[k]
    <3>1. ASSUME NEW f \in FacesOf(k)' PROVE f \in FacesOf(k)
      <4>1. PICK x \in Cells, y \in Cells : f = <<x, y>>
        BY <3>1, FacesOfNext
      <4> QED
        BY <2>3, <3>1, <4>1, FacesOfIs, FacesOfNext
    <3> QED
      BY <1>1, <2>1, <3>1
  <2>5. ASSUME NEW f \in Inner(k)'
        PROVE  f \in FacesOf(k)' /\ shown'[k][f] = LightAt(f[2])'
    <3>1. f \in Inner(k)
      BY <1>1, <2>5 DEF Inner
    <3>2. f \in FacesOf(k) /\ shown[k][f] = LightAt(f[2]) /\ ChunkOf[f[2]] = k
      BY <2>1, <3>1 DEF Inner
    <3>3. PICK x \in Cells, y \in Cells : f = <<x, y>>
      BY <3>2, FacesOfIs
    <3>4. IsFace(k, x, y) /\ ChunkOf[x] = k /\ ChunkOf[y] = k
      BY <3>2, <3>3, FacesOfIs DEF IsFace
    <3>5. blocks'[x] = blocks[x] /\ blocks'[y] = blocks[y]
      BY <1>3, <2>2, <3>4
    <3>6. IsFace(k, x, y)'
      BY <3>4, <3>5 DEF IsFace, Visible
    <3>7. LightAt(f[2])' = LightAt(f[2])
      BY <1>1 DEF LightAt
    <3> QED
      BY <1>1, <3>2, <3>3, <3>6, <3>7, FacesOfNext
  <2> QED
    BY <2>4, <2>5 DEF MeshOK
<1> QED
  BY <1>4, <1>5, <1>6 DEF MeshInv

LEMMA QueueRerenderMesh ==
  ASSUME WalkInv, MeshInv, QueueRerender
  PROVE  MeshInv'
<1>1. /\ main.cell \in Cells /\ main' = NoBlock
      /\ lightReq \subseteq lightReq' /\ userReq \subseteq userReq'
      /\ Targets(main.cell, main.new) \subseteq lightReq' \cup userReq'
      /\ UNCHANGED <<blocks, rays, pass, walk, shown, edits, patch, unseen>>
  BY QueueRerenderIs DEF Queues
<1> SUFFICES ASSUME NEW k \in Chunks PROVE MeshOK(k)' \/ ToBeRebuilt(k)'
  BY DEF MeshInv
<1>2. CASE MeshOK(k)
  <2>1. \A f : LightAt(f[2])' = LightAt(f[2])
    BY <1>1 DEF LightAt
  <2> QED
    BY <1>1, <1>2, <2>1, MeshStays
<1>3. CASE ToBeRebuilt(k)
  BY <1>1, <1>3 DEF ToBeRebuilt
<1> QED
  BY <1>2, <1>3 DEF MeshInv

LEMMA PatchMesh ==
  ASSUME WalkInv, MeshInv, BreakCrystals \/ Stamp
  PROVE  MeshInv'
<1>1. /\ patch.chunks = {}
      /\ UNCHANGED <<blocks, rays, lightReq, userReq, pass, walk, shown, main, unseen>>
  BY GathersIs DEF Gathers
<1> SUFFICES ASSUME NEW k \in Chunks PROVE MeshOK(k)' \/ ToBeRebuilt(k)'
  BY DEF MeshInv
<1>2. CASE MeshOK(k)
  <2>1. \A f : LightAt(f[2])' = LightAt(f[2])
    BY <1>1 DEF LightAt
  <2> QED
    BY <1>1, <1>2, <2>1, MeshStays
<1>3. CASE ToBeRebuilt(k)
  BY <1>1, <1>3 DEF ToBeRebuilt
<1> QED
  BY <1>2, <1>3 DEF MeshInv

LEMMA QueuePatchMesh ==
  ASSUME WalkInv, MeshInv, QueuePatch
  PROVE  MeshInv'
<1>1. /\ userReq' = userReq \cup patch.chunks
      /\ UNCHANGED <<blocks, rays, lightReq, pass, walk, shown, main, unseen>>
  BY QueuePatchIs DEF Requests
<1> SUFFICES ASSUME NEW k \in Chunks PROVE MeshOK(k)' \/ ToBeRebuilt(k)'
  BY DEF MeshInv
<1>2. CASE MeshOK(k)
  <2>1. \A f : LightAt(f[2])' = LightAt(f[2])
    BY <1>1 DEF LightAt
  <2> QED
    BY <1>1, <1>2, <2>1, MeshStays
<1>3. CASE ToBeRebuilt(k)
  BY <1>1, <1>3 DEF ToBeRebuilt
<1> QED
  BY <1>2, <1>3 DEF MeshInv

(* The block's own chunk is to be rebuilt; of any other chunk, only faces  *)
(* towards the block can have changed, and the history knows them.         *)
LEMMA SetNextMesh ==
  ASSUME WalkInv, MeshInv, SetNext
  PROVE  MeshInv'
<1>1. PICK c \in Cells, b \in Kinds : Alters(c, b)
  BY SetNextIs
<1> USE DEF Alters
<1>2. \A d \in Cells : d # c => blocks'[d] = blocks[d]
  BY <1>1 DEF WalkInv, LightTypeOK
<1> SUFFICES ASSUME NEW k \in Chunks PROVE MeshOK(k)' \/ ToBeRebuilt(k)'
  BY DEF MeshInv
<1>3. CASE ToBeRebuilt(k)
  BY <1>1, <1>3 DEF ToBeRebuilt
<1>4. CASE MeshOK(k) /\ ChunkOf[c] # k
  <2>1. FacesOf(k) \ unseen \subseteq DOMAIN shown[k]
        /\ \A f \in Inner(k) : f \in FacesOf(k) /\ shown[k][f] = LightAt(f[2])
    BY <1>4 DEF MeshOK
  <2>2. ASSUME NEW x \in Cells, NEW y \in Cells, IsFace(k, x, y)', <<x, y>> \notin unseen'
        PROVE  IsFace(k, x, y)
    <3>1. x # c /\ blocks'[x] = blocks[x] /\ ChunkOf[x] = k
      BY <1>2, <1>4, <2>2 DEF IsFace
    <3>2. CASE y # c
      BY <1>2, <2>2, <3>1, <3>2 DEF IsFace, Visible
    <3>3. CASE y = c
      <4>1. y \in Neighbors[x]
        BY <2>2, <3>1, <3>3 DEF IsFace
      <4>2. x \in Across(c)
        BY <1>4, <3>1, <3>3, <4>1, LightAssumption DEF Across
      <4> QED
        BY <1>1, <2>2, <3>3, <4>2
    <3> QED
      BY <3>2, <3>3
  <2>3. ASSUME NEW f \in FacesOf(k)' \ unseen' PROVE f \in DOMAIN shown'[k]
    <3>1. PICK x \in Cells, y \in Cells : f = <<x, y>>
      BY <2>3, FacesOfNext
    <3>2. f \in FacesOf(k)
      BY <2>2, <2>3, <3>1, FacesOfIs, FacesOfNext
    <3>3. f \notin unseen
      BY <1>1, <2>3
    <3> QED
      BY <1>1, <2>1, <3>2, <3>3
  <2>4. ASSUME NEW f \in Inner(k)'
        PROVE  f \in FacesOf(k)' /\ shown'[k][f] = LightAt(f[2])'
    <3>1. f \in Inner(k)
      BY <1>1, <2>4 DEF Inner
    <3>2. f \in FacesOf(k) /\ shown[k][f] = LightAt(f[2]) /\ ChunkOf[f[2]] = k
      BY <2>1, <3>1 DEF Inner
    <3>3. PICK x \in Cells, y \in Cells : f = <<x, y>>
      BY <3>2, FacesOfIs
    <3>4. IsFace(k, x, y) /\ ChunkOf[x] = k /\ ChunkOf[y] = k
      BY <3>2, <3>3, FacesOfIs DEF IsFace
    <3>5. blocks'[x] = blocks[x] /\ blocks'[y] = blocks[y]
      BY <1>2, <1>4, <3>4
    <3>6. IsFace(k, x, y)'
      BY <3>4, <3>5 DEF IsFace, Visible
    <3>7. LightAt(f[2])' = LightAt(f[2])
      BY <1>1 DEF LightAt
    <3> QED
      BY <1>1, <3>2, <3>3, <3>6, <3>7, FacesOfNext
  <2> QED
    BY <2>3, <2>4 DEF MeshOK
<1>5. CASE ChunkOf[c] = k
  BY <1>1, <1>5 DEF ToBeRebuilt
<1> QED
  BY <1>3, <1>4, <1>5 DEF MeshInv

LEMMA StartPassMesh ==
  ASSUME WalkInv, MeshInv, NEW w \in Workers, StartPass(w)
  PROVE  MeshInv'
<1>1. PICK j \in Chunks : Starts(w, j)
  BY StartPassIs
<1> USE DEF Starts
<1>2. /\ pass'[w].chunk = j /\ \A v \in Workers : v # w => pass'[v] = pass[v]
      /\ pass[w].chunk = None /\ pass[w].imp = {}
  BY <1>1 DEF WalkInv, LightTypeOK, Idle
<1> SUFFICES ASSUME NEW k \in Chunks PROVE MeshOK(k)' \/ ToBeRebuilt(k)'
  BY DEF MeshInv
<1>3. CASE MeshOK(k)
  <2>1. \A f : LightAt(f[2])' = LightAt(f[2])
    BY <1>1 DEF LightAt
  <2> QED
    BY <1>1, <1>3, <2>1, MeshStays
<1>4. CASE k = j
  BY <1>2, <1>4 DEF ToBeRebuilt
<1>5. CASE ToBeRebuilt(k) /\ k # j
  <2>1. \A v \in Workers : pass[v].chunk = k \/ k \in pass[v].imp => pass'[v] = pass[v]
    BY <1>2, ChunkFacts
  <2>2. (\E v \in Workers : pass[v].chunk = k \/ k \in pass[v].imp)
          => \E v \in Workers : pass'[v].chunk = k \/ k \in pass'[v].imp
    BY <2>1
  <2> QED
    BY <1>1, <1>5, <2>2 DEF ToBeRebuilt
<1> QED
  BY <1>3, <1>4, <1>5 DEF MeshInv

LEMMA DepropagateMesh ==
  ASSUME WalkInv, MeshInv, NEW w \in Workers, Depropagate(w)
  PROVE  MeshInv'
<1>1. PICK a \in pass[w].existing, dark \in RayMaps, q \in LightPasses : Darkens(w, a, dark, q)
  BY DepropagateIs
<1> USE DEF Darkens
<1>2. rays'[a] = dark /\ \A o \in Cells : o # a => rays'[o] = rays[o]
  BY <1>1 DEF WalkInv, LightTypeOK
<1>3. /\ pass'[w] = q /\ \A v \in Workers : v # w => pass'[v] = pass[v]
  BY <1>1 DEF WalkInv, LightTypeOK
<1> SUFFICES ASSUME NEW k \in Chunks PROVE MeshOK(k)' \/ ToBeRebuilt(k)'
  BY DEF MeshInv
<1>4. CASE ToBeRebuilt(k)
  <2>1. \A v \in Workers : pass'[v].chunk = pass[v].chunk /\ pass[v].imp \subseteq pass'[v].imp
    BY <1>1, <1>3
  <2> QED
    BY <1>1, <1>4, <2>1 DEF ToBeRebuilt
<1>5. CASE k \in q.imp
  BY <1>3, <1>5 DEF ToBeRebuilt
<1>6. CASE MeshOK(k) /\ k \notin q.imp
  <2>1. ASSUME NEW d, ChunkOf[d] = k PROVE LightAt(d)' = LightAt(d)
    <3>1. d \notin DOMAIN rays[a]
      BY <1>1, <1>6, <2>1
    <3>2. \A o \in Cells : /\ d \in DOMAIN rays'[o] <=> d \in DOMAIN rays[o]
                           /\ d \in DOMAIN rays[o] => rays'[o][d] = rays[o][d]
      BY <1>1, <1>2, <3>1
    <3> QED
      BY <3>2, LightSame
  <2> QED
    BY <1>1, <1>6, <2>1, MeshStays
<1> QED
  BY <1>4, <1>5, <1>6 DEF MeshInv

LEMMA PropagateMesh ==
  ASSUME WalkInv, MeshInv, NEW w \in Workers, Propagate(w)
  PROVE  MeshInv'
<1>1. PICK a \in pass[w].sources, q \in LightPasses : Kindles(w, a, q)
  BY PropagateIs
<1> USE DEF Kindles
<1>2. \A v \in Workers : pass'[v].chunk = pass[v].chunk /\ pass'[v].imp = pass[v].imp
  BY <1>1 DEF WalkInv, LightTypeOK
<1> SUFFICES ASSUME NEW k \in Chunks PROVE MeshOK(k)' \/ ToBeRebuilt(k)'
  BY DEF MeshInv
<1>3. CASE MeshOK(k)
  <2>1. \A f : LightAt(f[2])' = LightAt(f[2])
    BY <1>1 DEF LightAt
  <2> QED
    BY <1>1, <1>3, <2>1, MeshStays
<1>4. CASE ToBeRebuilt(k)
  BY <1>1, <1>2, <1>4 DEF ToBeRebuilt
<1> QED
  BY <1>3, <1>4 DEF MeshInv

(* Light that does not go on from c is not on a face there: what can be    *)
(* seen is where light passes.                                             *)
LEMMA VisitMesh ==
  ASSUME WalkInv, MeshInv, Visit
  PROVE  MeshInv'
<1>1. PICK o \in Cells, w \in Workers, c \in Cells, v \in Levels,
           next \in SUBSET Cells, ray \in Rays, stack \in Seq(Groups), q \in LightPasses :
             Turn(o, w, c, v, next, ray, stack, q)
  BY VisitIs
<1>2. /\ \A a \in Cells : a # o => rays'[a] = rays[a]
      /\ DOMAIN rays'[o] = DOMAIN rays[o] \cup {c}
      /\ \A p \in DOMAIN rays[o] : p # c => rays'[o][p] = rays[o][p]
  BY <1>1, TurnGrows
<1>3. /\ GoesOn(c, o) => ChunkOf[c] \in q.imp
      /\ UNCHANGED <<blocks, lightReq, userReq, shown, main, edits, crossed, patch,
                     overlaid, unseen>>
      /\ q.chunk = pass[w].chunk /\ pass[w].imp \subseteq q.imp
      /\ pass' = [pass EXCEPT ![w] = q]
  BY <1>1 DEF Turn
<1>4. /\ pass'[w] = q /\ \A x \in Workers : x # w => pass'[x] = pass[x]
  BY <1>3 DEF WalkInv, LightTypeOK
<1> SUFFICES ASSUME NEW k \in Chunks PROVE MeshOK(k)' \/ ToBeRebuilt(k)'
  BY DEF MeshInv
<1>5. CASE ToBeRebuilt(k)
  <2>1. \A x \in Workers : pass'[x].chunk = pass[x].chunk /\ pass[x].imp \subseteq pass'[x].imp
    BY <1>3, <1>4
  <2> QED
    BY <1>3, <1>5, <2>1 DEF ToBeRebuilt
<1>6. CASE k \in q.imp
  BY <1>4, <1>6 DEF ToBeRebuilt
<1>7. CASE MeshOK(k) /\ k \notin q.imp
  <2>1. ASSUME NEW f \in FacesOf(k), ChunkOf[f[2]] = k PROVE LightAt(f[2])' = LightAt(f[2])
    <3>1. PICK x \in Cells, y \in Cells : f = <<x, y>>
      BY <2>1, FacesOfIs
    <3>2. IsFace(k, x, y) /\ f[2] = y
      BY <2>1, <3>1, FacesOfIs
    <3>3. y # c
      <4>1. SUFFICES ASSUME y = c PROVE FALSE
        OBVIOUS
      <4>2. ~Passes(blocks[c])
        BY <1>3, <1>7, <2>1, <3>2, <4>1 DEF GoesOn
      <4> QED
        BY <3>2, <4>1, <4>2 DEF IsFace, IsModel, Visible, Passes, IsTransparent,
                                IsSemiTransparent
    <3>4. \A a \in Cells : /\ y \in DOMAIN rays'[a] <=> y \in DOMAIN rays[a]
                           /\ y \in DOMAIN rays[a] => rays'[a][y] = rays[a][y]
      BY <1>2, <3>3
    <3> QED
      BY <3>2, <3>4, LightSame
  <2> QED
    BY <1>3, <1>7, <2>1, MeshStays
<1> QED
  BY <1>5, <1>6, <1>7 DEF MeshInv

(* A mesh that is rebuilt is right.                                        *)
LEMMA RebuiltMesh ==
  ASSUME NEW k, LightTypeOK, shown'[k] = Faces(k), blocks' = blocks, rays' = rays
  PROVE  MeshOK(k)'
<1>1. FacesOf(k)' = FacesOf(k)
  BY DEF FacesOf, ModelsOf, Visible
<1>2. \A d : LightAt(d)' = LightAt(d)
  BY DEF LightAt
<1>3. DOMAIN shown'[k] = FacesOf(k) /\ \A f \in FacesOf(k) : shown'[k][f] = LightAt(f[2])
  BY DEF Faces
<1>4. Inner(k)' \subseteq FacesOf(k)
  BY <1>3 DEF Inner
<1> QED
  BY <1>1, <1>2, <1>3, <1>4 DEF MeshOK

LEMMA EndPassMesh ==
  ASSUME WalkInv, MeshInv, NEW w \in Workers, EndPass(w)
  PROVE  MeshInv'
<1>1. PICK j \in Chunks : Ends(w, j)
  BY EndPassIs
<1> USE DEF Ends
<1>2. \A v \in Workers : v # w => pass'[v] = pass[v]
  BY <1>1 DEF WalkInv, LightTypeOK
<1>3. shown'[j] = Faces(j) /\ \A k \in Chunks : k # j => shown'[k] = shown[k]
  BY <1>1 DEF WalkInv, LightTypeOK
<1> SUFFICES ASSUME NEW k \in Chunks PROVE MeshOK(k)' \/ ToBeRebuilt(k)'
  BY DEF MeshInv
<1>4. CASE k = j
  BY <1>1, <1>3, <1>4, RebuiltMesh DEF WalkInv
<1>5. CASE k # j /\ MeshOK(k)
  <2>1. \A f : LightAt(f[2])' = LightAt(f[2])
    BY <1>1 DEF LightAt
  <2>2. \A f \in unseen \ unseen' : ChunkOf[f[1]] # k
    BY <1>1, <1>5 DEF Seen
  <2> QED
    BY <1>1, <1>3, <1>5, <2>1, <2>2, MeshStays
<1>6. CASE k # j /\ ToBeRebuilt(k)
  <2>1. CASE k \in userReq \/ k \in lightReq \/ k \in patch.chunks
             \/ (main.cell # None /\ k \in Targets(main.cell, main.new))
    BY <1>1, <2>1 DEF ToBeRebuilt
  <2>2. CASE \E v \in Workers : pass[v].chunk = k \/ k \in pass[v].imp
    <3>1. PICK v \in Workers : pass[v].chunk = k \/ k \in pass[v].imp
      BY <2>2
    <3>2. CASE v = w
      BY <1>1, <1>6, <3>1, <3>2 DEF ToBeRebuilt
    <3>3. CASE v # w
      BY <1>2, <3>1, <3>3 DEF ToBeRebuilt
    <3> QED
      BY <3>2, <3>3
  <2> QED
    BY <1>6, <2>1, <2>2 DEF ToBeRebuilt
<1> QED
  BY <1>4, <1>5, <1>6 DEF MeshInv

LEMMA RebuildIndexMesh ==
  ASSUME WalkInv, MeshInv, NEW w \in Workers, RebuildIndex(w)
  PROVE  MeshInv'
<1>1. PICK j \in Chunks : Rebuilds(j)
  BY RebuildIndexIs
<1> USE DEF Rebuilds
<1>2. shown'[j] = Faces(j) /\ \A k \in Chunks : k # j => shown'[k] = shown[k]
  BY <1>1 DEF WalkInv, LightTypeOK
<1> SUFFICES ASSUME NEW k \in Chunks PROVE MeshOK(k)' \/ ToBeRebuilt(k)'
  BY DEF MeshInv
<1>3. CASE k = j
  BY <1>1, <1>2, <1>3, RebuiltMesh DEF WalkInv
<1>4. CASE k # j /\ MeshOK(k)
  <2>1. \A f : LightAt(f[2])' = LightAt(f[2])
    BY <1>1 DEF LightAt
  <2>2. \A f \in unseen \ unseen' : ChunkOf[f[1]] # k
    BY <1>1, <1>4 DEF Seen
  <2> QED
    BY <1>1, <1>2, <1>4, <2>1, <2>2, MeshStays
<1>5. CASE k # j /\ ToBeRebuilt(k)
  BY <1>1, <1>5 DEF ToBeRebuilt
<1> QED
  BY <1>3, <1>4, <1>5 DEF MeshInv

----------------------------------------------------------------------------
LEMMA LightNextInv ==
  ASSUME LightInv, [LightNext]_lightVars
  PROVE  LightInv'
<1>1. WalkInv /\ RightInv /\ LightsInv /\ MeshInv
  BY DEF LightInv
<1>2. CASE SetBlock
  BY <1>1, <1>2, SetBlockWalk, SetBlockRight, SetBlockLights, SetBlockMesh DEF LightInv
<1>3. CASE QueueRerender
  BY <1>1, <1>3, QueueRerenderWalk, QueueRerenderRight, QueueRerenderLights,
     QueueRerenderMesh DEF LightInv
<1>4. CASE Visit
  BY <1>1, <1>4, VisitWalk, VisitRight, VisitLights, VisitMesh DEF LightInv
<1>5. CASE \E w \in Workers : StartPass(w)
  BY <1>1, <1>5, StartPassWalk, StartPassRight, StartPassLights, StartPassMesh DEF LightInv
<1>6. CASE \E w \in Workers : Depropagate(w)
  BY <1>1, <1>6, DepropagateWalk, DepropagateRight, DepropagateLights,
     DepropagateMesh DEF LightInv
<1>7. CASE \E w \in Workers : Propagate(w)
  BY <1>1, <1>7, PropagateWalk, PropagateRight, PropagateLights, PropagateMesh DEF LightInv
<1>8. CASE \E w \in Workers : EndPass(w)
  BY <1>1, <1>8, EndPassWalk, EndPassRight, EndPassLights, EndPassMesh DEF LightInv
<1>9. CASE \E w \in Workers : RebuildIndex(w)
  BY <1>1, <1>9, RebuildIndexWalk, RebuildIndexRight, RebuildIndexLights,
     RebuildIndexMesh DEF LightInv
<1>10. CASE BreakCrystals \/ Stamp
  BY <1>1, <1>10, PatchWalk, PatchRight, PatchLights, PatchMesh DEF LightInv
<1>11. CASE SetNext
  BY <1>1, <1>11, SetNextWalk, SetNextRight, SetNextLights, SetNextMesh DEF LightInv
<1>12. CASE QueuePatch
  BY <1>1, <1>12, QueuePatchWalk, QueuePatchRight, QueuePatchLights,
     QueuePatchMesh DEF LightInv
<1>13. CASE UNCHANGED lightVars
  <2> USE <1>13 DEF lightVars
  <2>1. WalkInv'
    BY <1>1 DEF WalkInv, LightTypeOK, LinkInv, PassInv, FloodInv, Walking, MainInv,
                PatchInv
  <2>2. RightInv'
    BY <1>1 DEF RightInv, Right, GoesOn, Gets, Flooding, Changed, Leaving
  <2>3. LightsInv'
    BY <1>1 DEF LightsInv, LightMoved, Coming, Leaving, Flooding
  <2>4. MeshInv'
    <3> SUFFICES ASSUME NEW k \in Chunks PROVE MeshOK(k)' \/ ToBeRebuilt(k)'
      BY DEF MeshInv
    <3>1. \A f : LightAt(f[2])' = LightAt(f[2])
      BY DEF LightAt
    <3>2. MeshOK(k) => MeshOK(k)'
      BY <3>1, MeshStays
    <3>3. ToBeRebuilt(k) => ToBeRebuilt(k)'
      BY DEF ToBeRebuilt
    <3> QED
      BY <1>1, <3>2, <3>3 DEF MeshInv
  <2> QED
    BY <2>1, <2>2, <2>3, <2>4 DEF LightInv
<1> QED
  BY <1>2, <1>3, <1>4, <1>5, <1>6, <1>7, <1>8, <1>9, <1>10, <1>11,
     <1>12, <1>13 DEF LightNext

(* The light pass keeps its promise of each light in every reachable       *)
(* state: its rays are right, or the reason that they are not is known.    *)
THEOREM LightInvariance == LightSpec => []LightInv
<1>1. LightInit => LightInv
  BY LightInitInv
<1>2. LightInv /\ [LightNext]_lightVars => LightInv'
  BY LightNextInv
<1> QED
  BY <1>1, <1>2, PTL DEF LightSpec

(* Every reachable state has its types: values in rays are those a light   *)
(* can have after some steps, and requests and passes are of chunks.       *)
THEOREM LightTypeCorrect == LightSpec => []LightTypeOK
<1>1. LightInv => LightTypeOK
  BY DEF LightInv, WalkInv
<1> QED
  BY <1>1, LightInvariance, PTL

LEMMA NothingUnderWay ==
  ASSUME LightInv, PassesDone
  PROVE  /\ Free /\ main.cell = None /\ lightReq = {} /\ patch.chunks = {}
         /\ \A w \in Workers : /\ pass[w].chunk = None /\ pass[w].imp = {}
                               /\ pass[w].existing = {} /\ pass[w].sources = {}
<1>1. /\ main.cell = None /\ lightReq = {} /\ patch.chunks = {}
      /\ \A w \in Workers : /\ pass[w].chunk = None /\ pass[w].imp = {}
                            /\ pass[w].existing = {} /\ pass[w].sources = {}
  BY DEF PassesDone, AtRest, NoPatch, NoBlock, Idle
<1>2. ASSUME ~Free PROVE FALSE
  <2>1. walk.origin \in Cells /\ Walking(walk.origin, walk.worker)
    BY <1>2, AtWork DEF LightInv
  <2> QED
    BY <1>1, <2>1, ChunkFacts DEF Walking
<1> QED
  BY <1>1, <1>2

LEMMA ExactWhenDone == LightInv => LightIsExact
<1> SUFFICES ASSUME LightInv, PassesDone, NEW o \in Cells \ overlaid
             PROVE  IF ~IsLight(blocks[o]) THEN DOMAIN rays[o] = {}
                    ELSE \/ o \in crossed
                         \/ /\ DOMAIN rays[o] = Reach(o)[Steps]
                            /\ \A c \in DOMAIN rays[o] : rays[o][c].value = Value(o, c)
  BY DEF LightIsExact
<1>1. WalkInv /\ RightInv /\ LightsInv
  BY DEF LightInv
<1>2. /\ Free /\ main.cell = None /\ lightReq = {}
      /\ \A w \in Workers : /\ pass[w].chunk = None /\ pass[w].imp = {}
                            /\ pass[w].existing = {} /\ pass[w].sources = {}
  BY NothingUnderWay
<1>3. ~Flooding(o) /\ ~Coming(o) /\ ~Leaving(o) /\ ~LightMoved(o)
      /\ \A p \in Cells : ~Changed(o, p)
  BY <1>1, <1>2, AtWork, ChunkFacts DEF Coming, Leaving, LightMoved, Changed
<1>4. IF IsLight(blocks[o]) THEN DOMAIN rays[o] # {} ELSE DOMAIN rays[o] = {}
  BY <1>1, <1>2, <1>3 DEF LightsInv
<1>5. ASSUME IsLight(blocks[o]), o \notin crossed
      PROVE  /\ DOMAIN rays[o] = Reach(o)[Steps]
             /\ \A c \in DOMAIN rays[o] : rays[o][c].value = Value(o, c)
  <2>1. PICK r : r = rays[o]
    OBVIOUS
  <2>2. r \in RayMaps /\ DOMAIN r \subseteq Cells /\ Linked(o, r) /\ DOMAIN r # {}
    BY <1>1, <1>4, <1>5, <2>1, LightRays DEF WalkInv, LinkInv
  <2>3. \A p \in DOMAIN r : Right(o, p)
    BY <1>1, <1>2, <1>3, <1>5, <2>1, <2>2 DEF RightInv
  <2>4. \A p \in DOMAIN r :
          IF GoesOn(p, o)
            THEN r[p].value > 1 => \A d \in Neighbors[p] : /\ d \in DOMAIN r
                                                         /\ r[d].value >= r[p].value - 2
            ELSE r[p].dirs = {}
    BY <1>3, <2>1, <2>3 DEF Right, Gets
  <2>5. RightRays(o, r)
    BY <2>2, <2>4 DEF RightRays, Linked
  <2> QED
    BY <2>1, <2>2, <2>5, RightRaysAreExact
<1> QED
  BY <1>4, <1>5

(* When every requested pass is made, each light shines exactly as far as  *)
(* the blocks let it and nothing else gives light, whatever was set while  *)
(* the passes were under way, but for lights past which a light or a patch *)
(* was set, or that a model was stamped over, since their last pass.       *)
THEOREM LightAlwaysExact == LightSpec => []LightIsExact
BY LightInvariance, ExactWhenDone, PTL

LEMMA LitWhenDone == LightInv => ShownIsLit
<1> SUFFICES ASSUME LightInv, PassesDone, userReq = {}, NEW k \in Chunks
             PROVE  MeshOK(k)
  BY DEF ShownIsLit, MeshOK
<1>1. /\ main.cell = None /\ lightReq = {} /\ patch.chunks = {}
      /\ \A w \in Workers : pass[w].chunk = None /\ pass[w].imp = {}
  BY NothingUnderWay
<1>2. ~ToBeRebuilt(k)
  BY <1>1, ChunkFacts DEF ToBeRebuilt
<1> QED
  BY <1>2 DEF LightInv, MeshInv

(* When the meshes are rebuilt too, no face that can be seen is missing,   *)
(* but for faces of other chunks towards a patch set since they were built,*)
(* and the faces towards a chunk's own spots show the lightmap's light.    *)
THEOREM ShownAlwaysLit == LightSpec => []ShownIsLit
BY LightInvariance, LitWhenDone, PTL

=============================================================================
