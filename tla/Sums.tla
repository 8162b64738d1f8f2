-------------------------------- MODULE Sums --------------------------------
(* Induction and finite sums, for the proofs of the other modules.         *)
(*                                                                         *)
(* Induction is stated for a set rather than for a predicate: a set of     *)
(* naturals with 0 that is closed under successor holds all of them.       *)
EXTENDS Integers, FiniteSets, FiniteSetTheorems, TLAPS

(* If n were not in S, moving the members of S up by one would map 0..n    *)
(* into 1..n without a collision.                                          *)
LEMMA Induction ==
  ASSUME NEW S, 0 \in S, \A n \in Nat : n \in S => n + 1 \in S
  PROVE  Nat \subseteq S
<1> SUFFICES ASSUME NEW n \in Nat, n \notin S PROVE FALSE
  OBVIOUS
<1> DEFINE f == [x \in 0..n |-> IF x \in S THEN x + 1 ELSE x]
<1>1. f \in [0..n -> 1..n]
  <2>1. ASSUME NEW x \in 0..n PROVE (IF x \in S THEN x + 1 ELSE x) \in 1..n
    <3>1. CASE x \in S
      <4>1. x # n BY <3>1
      <4>2. x + 1 \in 1..n BY <4>1
      <4>3. QED BY <3>1, <4>2
    <3>2. CASE x \notin S
      <4>1. x # 0 BY <3>2
      <4>2. x \in 1..n BY <4>1
      <4>3. QED BY <3>2, <4>2
    <3>3. QED BY <3>1, <3>2
  <2>2. QED BY <2>1
<1>2. \A x, y \in 0..n : x # y => f[x] # f[y] 
  <2>1. SUFFICES ASSUME NEW x \in 0..n, NEW y \in 0..n, x # y, f[x] = f[y] PROVE FALSE
    OBVIOUS
  <2>2. x \in Nat /\ y \in Nat OBVIOUS
  <2>3. f[x] = (IF x \in S THEN x + 1 ELSE x) /\ f[y] = (IF y \in S THEN y + 1 ELSE y) OBVIOUS
  <2>4. QED BY <2>1, <2>2, <2>3
<1>3. IsFiniteSet(0..n) /\ Cardinality(0..n) = n + 1 /\ IsFiniteSet(1..n) /\ Cardinality(1..n) = n
  <2>1. 0 \in Int /\ 1 \in Int /\ n \in Int OBVIOUS
  <2>2. IsFiniteSet(0..n) /\ Cardinality(0..n) = IF 0 > n THEN 0 ELSE n - 0 + 1 BY <2>1, FS_Interval
  <2>3. IsFiniteSet(1..n) /\ Cardinality(1..n) = IF 1 > n THEN 0 ELSE n - 1 + 1 BY <2>1, FS_Interval
  <2>4. QED BY <2>2, <2>3
<1>4. Cardinality(1..n) < Cardinality(0..n) BY <1>3
<1> HIDE DEF f
<1>5. QED BY <1>1, <1>2, <1>3, <1>4, FS_PigeonHole

-----------------------------------------------------------------------------
(* Sums.  SumFunctionOnSet is a recursive function of the subsets of its   *)
(* index set; what it computes is shown by way of a function on subsets    *)
(* that grows by f[x] with every x, whatever the order.                    *)

PickOf(s) == CHOOSE x \in s : TRUE

IsSum(h, f, S) ==
  h = [s \in SUBSET S |-> IF s = {} THEN 0 ELSE f[PickOf(s)] + h[s \ {PickOf(s)}]]

Additive(H, f, S) ==
  /\ H \in [SUBSET S -> Int]
  /\ H[{}] = 0
  /\ \A s \in SUBSET S : \A x \in S \ s : H[s \cup {x}] = H[s] + f[x]

LEMMA SumIsChosen ==
  ASSUME NEW f, NEW S
  PROVE  SumFunctionOnSet(f, S) = (CHOOSE h : IsSum(h, f, S))[S]
BY DEF SumFunctionOnSet, FoldFunctionOnSet, MapThenFoldSet, IsSum, PickOf

LEMMA OneLess ==
  ASSUME NEW T, IsFiniteSet(T), NEW y \in T, NEW n \in Nat, Cardinality(T) = n + 1
  PROVE  Cardinality(T \ {y}) = n
<1>1. Cardinality(T \ {y}) = IF y \in T THEN Cardinality(T) - 1 ELSE Cardinality(T)
  BY FS_RemoveElement
<1>2. QED BY <1>1

LEMMA AdditiveExists ==
  ASSUME NEW U, IsFiniteSet(U), NEW f, \A x \in U : f[x] \in Int
  PROVE  \E H : Additive(H, f, U)
<1> DEFINE K == {n \in Nat : \A T \in SUBSET U : Cardinality(T) = n => \E H : Additive(H, f, T)}
<1>1. 0 \in K
  <2> SUFFICES ASSUME NEW T \in SUBSET U, Cardinality(T) = 0 PROVE \E H : Additive(H, f, T)
    OBVIOUS
  <2>1. IsFiniteSet(T) BY FS_Subset
  <2>2. T = {} BY <2>1, FS_EmptySet
  <2> DEFINE H == [s \in SUBSET T |-> 0]
  <2>3. Additive(H, f, T) BY <2>2 DEF Additive
  <2>4. QED BY <2>3
<1>2. ASSUME NEW n \in Nat, n \in K PROVE n + 1 \in K
  <2> SUFFICES ASSUME NEW T \in SUBSET U, Cardinality(T) = n + 1 PROVE \E H : Additive(H, f, T)
    OBVIOUS
  <2>1. IsFiniteSet(T) BY FS_Subset
  <2>2. T # {} BY <2>1, FS_EmptySet
  <2>3. PICK y \in T : TRUE BY <2>2
  <2>4. Cardinality(T \ {y}) = n BY <2>1, <2>3, OneLess
  <2>5. PICK G : Additive(G, f, T \ {y}) BY <1>2, <2>4
  <2>6. /\ G \in [SUBSET (T \ {y}) -> Int] /\ G[{}] = 0 /\ f[y] \in Int
        /\ \A s \in SUBSET (T \ {y}) : \A x \in (T \ {y}) \ s : G[s \cup {x}] = G[s] + f[x]
    BY <2>5 DEF Additive
  <2> DEFINE H == [s \in SUBSET T |-> G[s \ {y}] + (IF y \in s THEN f[y] ELSE 0)]
  <2>7. H \in [SUBSET T -> Int]
    <3>1. \A s \in SUBSET T : G[s \ {y}] \in Int
      <4>1. \A s \in SUBSET T : s \ {y} \in SUBSET (T \ {y}) OBVIOUS
      <4>2. QED BY <2>6, <4>1
    <3>2. \A s \in SUBSET T : G[s \ {y}] + (IF y \in s THEN f[y] ELSE 0) \in Int BY <2>6, <3>1
    <3>3. QED BY <3>2
  <2>8. H[{}] = 0
    <3>1. {} \ {y} = {} /\ {} \in SUBSET T /\ y \notin {} OBVIOUS
    <3>2. QED BY <2>6, <3>1
  <2>9. ASSUME NEW s \in SUBSET T, NEW x \in T \ s PROVE H[s \cup {x}] = H[s] + f[x]
    <3>0. /\ s \cup {x} \in SUBSET T /\ s \ {y} \in SUBSET (T \ {y})
          /\ G[s \ {y}] \in Int /\ f[x] \in Int
      <4>1. s \cup {x} \in SUBSET T /\ s \ {y} \in SUBSET (T \ {y}) OBVIOUS
      <4>2. G[s \ {y}] \in Int BY <2>6, <4>1
      <4>3. x \in U OBVIOUS
      <4>4. QED BY <4>1, <4>2, <4>3
    <3>1. CASE x = y
      <4>1. (s \cup {x}) \ {y} = s \ {y} /\ y \in s \cup {x} /\ y \notin s BY <3>1
      <4>2. H[s \cup {x}] = G[s \ {y}] + f[y] BY <3>0, <4>1
      <4>3. H[s] = G[s \ {y}] + 0 BY <3>0, <4>1
      <4>4. QED BY <3>0, <3>1, <4>2, <4>3
    <3>2. CASE x # y
      <4>1. (s \cup {x}) \ {y} = (s \ {y}) \cup {x} /\ (y \in s \cup {x} <=> y \in s) BY <3>2
      <4>2. x \in (T \ {y}) \ (s \ {y}) BY <3>2
      <4>3. G[(s \ {y}) \cup {x}] = G[s \ {y}] + f[x] BY <2>6, <3>0, <4>2
      <4>4. H[s \cup {x}] = G[(s \ {y}) \cup {x}] + (IF y \in s THEN f[y] ELSE 0)
        BY <3>0, <4>1
      <4>5. H[s] = G[s \ {y}] + (IF y \in s THEN f[y] ELSE 0) BY <3>0
      <4>6. QED BY <2>6, <3>0, <4>3, <4>4, <4>5
    <3>3. QED BY <3>1, <3>2
  <2> HIDE DEF H
  <2>10. Additive(H, f, T) BY <2>7, <2>8, <2>9 DEF Additive
  <2>11. QED BY <2>10
<1>3. Nat \subseteq K
  <2> HIDE DEF K
  <2>1. QED BY <1>1, <1>2, Induction
<1>4. Cardinality(U) \in Nat BY FS_CardinalityType
<1>5. QED BY <1>3, <1>4

(* The sum is the value of any such function.                              *)
LEMMA SumIsAdditive ==
  ASSUME NEW U, IsFiniteSet(U), NEW f, NEW H, Additive(H, f, U), NEW T \in SUBSET U,
         \A x \in U : f[x] \in Int
  PROVE  SumFunctionOnSet(f, T) = H[T]
<1>1. \A s \in SUBSET U : s # {} => PickOf(s) \in s BY DEF PickOf
<1>2. ASSUME NEW s \in SUBSET U, s # {}
      PROVE  H[s] = f[PickOf(s)] + H[s \ {PickOf(s)}]
  <2>1. PickOf(s) \in U \ (s \ {PickOf(s)}) /\ s \ {PickOf(s)} \in SUBSET U
        /\ (s \ {PickOf(s)}) \cup {PickOf(s)} = s
    BY <1>1, <1>2
  <2>2. H[s] = H[s \ {PickOf(s)}] + f[PickOf(s)] /\ H[s \ {PickOf(s)}] \in Int
    BY <2>1 DEF Additive
  <2>3. f[PickOf(s)] \in Int BY <2>1
  <2>4. QED BY <2>2, <2>3
<1> DEFINE G == [s \in SUBSET T |-> H[s]]
<1>3. IsSum(G, f, T)
  <2> DEFINE E(s) == IF s = {} THEN 0 ELSE f[PickOf(s)] + G[s \ {PickOf(s)}]
  <2>1. ASSUME NEW s \in SUBSET T PROVE H[s] = E(s)
    <3>1. CASE s = {} BY <3>1 DEF Additive
    <3>2. CASE s # {}
      <4>1. s \in SUBSET U /\ s \ {PickOf(s)} \in SUBSET T OBVIOUS
      <4>2. G[s \ {PickOf(s)}] = H[s \ {PickOf(s)}] BY <4>1
      <4> HIDE DEF G
      <4>3. QED BY <1>2, <3>2, <4>1, <4>2
    <3>3. QED BY <3>1, <3>2
  <2>2. G = [s \in SUBSET T |-> E(s)]
    <3> HIDE DEF E
    <3>1. QED BY <2>1
  <2>3. QED BY <2>2 DEF IsSum
<1>4. ASSUME NEW h, IsSum(h, f, T) PROVE h[T] = H[T]
  <2> DEFINE K == {n \in Nat : \A s \in SUBSET T : Cardinality(s) = n => h[s] = H[s]}
  <2>0. \A s \in SUBSET T : IsFiniteSet(s) /\ s \in SUBSET U
    <3>1. \A s \in SUBSET T : s \in SUBSET U OBVIOUS
    <3>2. QED BY <3>1, FS_Subset
  <2>1. 0 \in K
    <3> SUFFICES ASSUME NEW s \in SUBSET T, Cardinality(s) = 0 PROVE h[s] = H[s]
      OBVIOUS
    <3>1. s = {} BY <2>0, FS_EmptySet
    <3>2. h[s] = 0 BY <1>4, <3>1 DEF IsSum
    <3>3. QED BY <3>1, <3>2 DEF Additive
  <2>2. ASSUME NEW n \in Nat, n \in K PROVE n + 1 \in K
    <3> SUFFICES ASSUME NEW s \in SUBSET T, Cardinality(s) = n + 1 PROVE h[s] = H[s]
      OBVIOUS
    <3>1. s # {} BY <2>0, FS_EmptySet
    <3>2. PickOf(s) \in s BY <1>1, <2>0, <3>1
    <3>3. Cardinality(s \ {PickOf(s)}) = n BY <2>0, <3>2, OneLess
    <3>4. s \ {PickOf(s)} \in SUBSET T OBVIOUS
    <3>5. h[s \ {PickOf(s)}] = H[s \ {PickOf(s)}] BY <2>2, <3>3, <3>4
    <3>6. h[s] = f[PickOf(s)] + h[s \ {PickOf(s)}] BY <1>4, <3>1 DEF IsSum
    <3>7. QED BY <1>2, <2>0, <3>1, <3>5, <3>6
  <2>3. Nat \subseteq K
    <3> HIDE DEF K
    <3>1. QED BY <2>1, <2>2, Induction
  <2>4. T \in SUBSET T /\ Cardinality(T) \in Nat BY <2>0, FS_CardinalityType
  <2>5. QED BY <2>3, <2>4
<1>5. IsSum(CHOOSE h : IsSum(h, f, T), f, T)
  <2> HIDE DEF G
  <2>1. QED BY <1>3
<1>6. QED BY <1>4, <1>5, SumIsChosen

LEMMA SumEmpty == ASSUME NEW f PROVE SumFunctionOnSet(f, {}) = 0
<1>1. IsFiniteSet({}) BY FS_EmptySet
<1>2. PICK H : Additive(H, f, {}) BY <1>1, AdditiveExists
<1>3. SumFunctionOnSet(f, {}) = H[{}] BY <1>1, <1>2, SumIsAdditive
<1>4. QED BY <1>2, <1>3 DEF Additive

LEMMA SumAdd ==
  ASSUME NEW S, IsFiniteSet(S), NEW x, x \notin S, NEW f, \A y \in S \cup {x} : f[y] \in Int
  PROVE  /\ SumFunctionOnSet(f, S) \in Int
         /\ SumFunctionOnSet(f, S \cup {x}) = SumFunctionOnSet(f, S) + f[x]
<1> DEFINE U == S \cup {x}
<1>1. IsFiniteSet(U) BY FS_AddElement
<1>2. PICK H : Additive(H, f, U) BY <1>1, AdditiveExists
<1>3. S \in SUBSET U /\ U \in SUBSET U /\ x \in U \ S OBVIOUS
<1>4. SumFunctionOnSet(f, S) = H[S] /\ SumFunctionOnSet(f, U) = H[U]
  <2> HIDE DEF U
  <2>1. \A y \in U : f[y] \in Int BY DEF U
  <2>2. QED BY <1>1, <1>2, <1>3, <2>1, SumIsAdditive
<1>5. H[U] = H[S] + f[x] /\ H[S] \in Int BY <1>2, <1>3 DEF Additive
<1>6. QED BY <1>4, <1>5

LEMMA SumType ==
  ASSUME NEW S, IsFiniteSet(S), NEW f, \A y \in S : f[y] \in Int
  PROVE  SumFunctionOnSet(f, S) \in Int
<1>1. PICK H : Additive(H, f, S) BY AdditiveExists
<1>2. S \in SUBSET S OBVIOUS
<1>3. SumFunctionOnSet(f, S) = H[S] BY <1>1, <1>2, SumIsAdditive
<1>4. QED BY <1>1, <1>2, <1>3 DEF Additive

(* A larger summand makes no smaller sum, and equal ones the same sum.     *)
LEMMA SumMonotone ==
  ASSUME NEW S, IsFiniteSet(S), NEW f, NEW g,
         \A y \in S : f[y] \in Int /\ g[y] \in Int /\ f[y] <= g[y]
  PROVE  SumFunctionOnSet(f, S) <= SumFunctionOnSet(g, S)
<1> DEFINE K == {n \in Nat : \A T \in SUBSET S : Cardinality(T) = n =>
                   SumFunctionOnSet(f, T) <= SumFunctionOnSet(g, T)}
<1>0. \A T \in SUBSET S : IsFiniteSet(T) BY FS_Subset
<1>1. 0 \in K
  <2> SUFFICES ASSUME NEW T \in SUBSET S, Cardinality(T) = 0
               PROVE  SumFunctionOnSet(f, T) <= SumFunctionOnSet(g, T)
    OBVIOUS
  <2>1. T = {} BY <1>0, FS_EmptySet
  <2>2. QED BY <2>1, SumEmpty
<1>2. ASSUME NEW n \in Nat, n \in K PROVE n + 1 \in K
  <2> SUFFICES ASSUME NEW T \in SUBSET S, Cardinality(T) = n + 1
               PROVE  SumFunctionOnSet(f, T) <= SumFunctionOnSet(g, T)
    OBVIOUS
  <2>1. T # {} BY <1>0, FS_EmptySet
  <2>2. PICK y \in T : TRUE BY <2>1
  <2> DEFINE R == T \ {y}
  <2>3. R \in SUBSET S /\ y \notin R /\ R \cup {y} = T BY <2>2
  <2>4. Cardinality(R) = n BY <1>0, <2>2, OneLess
  <2>5. SumFunctionOnSet(f, R) <= SumFunctionOnSet(g, R) BY <1>2, <2>3, <2>4
  <2>6. \A z \in R \cup {y} : f[z] \in Int /\ g[z] \in Int BY <2>3
  <2> HIDE DEF R
  <2>7. /\ SumFunctionOnSet(f, R) \in Int
        /\ SumFunctionOnSet(f, T) = SumFunctionOnSet(f, R) + f[y]
    BY <1>0, <2>3, <2>6, SumAdd
  <2>8. /\ SumFunctionOnSet(g, R) \in Int
        /\ SumFunctionOnSet(g, T) = SumFunctionOnSet(g, R) + g[y]
    BY <1>0, <2>3, <2>6, SumAdd
  <2>9. f[y] \in Int /\ g[y] \in Int /\ f[y] <= g[y] BY <2>2
  <2>10. QED BY <2>5, <2>7, <2>8, <2>9
<1>3. Nat \subseteq K
  <2> HIDE DEF K
  <2>1. QED BY <1>1, <1>2, Induction
<1>4. S \in SUBSET S /\ Cardinality(S) \in Nat BY FS_CardinalityType
<1>5. QED BY <1>3, <1>4

LEMMA SumSame ==
  ASSUME NEW S, IsFiniteSet(S), NEW f, NEW g, \A y \in S : f[y] \in Int /\ f[y] = g[y]
  PROVE  SumFunctionOnSet(f, S) = SumFunctionOnSet(g, S)
<1>1. SumFunctionOnSet(f, S) <= SumFunctionOnSet(g, S) BY SumMonotone
<1>2. SumFunctionOnSet(g, S) <= SumFunctionOnSet(f, S) BY SumMonotone
<1>3. SumFunctionOnSet(f, S) \in Int BY SumType
<1>4. SumFunctionOnSet(g, S) \in Int BY SumType
<1>5. QED BY <1>1, <1>2, <1>3, <1>4

LEMMA SumZero ==
  ASSUME NEW S, IsFiniteSet(S), NEW f, \A y \in S : f[y] = 0
  PROVE  SumFunctionOnSet(f, S) = 0
<1> DEFINE H == [s \in SUBSET S |-> 0]
<1>1. Additive(H, f, S) BY DEF Additive
<1>2. S \in SUBSET S /\ H[S] = 0 OBVIOUS
<1> HIDE DEF H
<1>3. QED BY <1>1, <1>2, SumIsAdditive

LEMMA SumRemove ==
  ASSUME NEW S, IsFiniteSet(S), NEW x \in S, NEW f, \A y \in S : f[y] \in Int
  PROVE  SumFunctionOnSet(f, S \ {x}) = SumFunctionOnSet(f, S) - f[x]
<1> DEFINE R == S \ {x}
<1>1. IsFiniteSet(R) /\ x \notin R /\ R \cup {x} = S BY FS_RemoveElement
<1>2. \A y \in R \cup {x} : f[y] \in Int BY <1>1
<1> HIDE DEF R
<1>3. SumFunctionOnSet(f, R) \in Int /\ SumFunctionOnSet(f, S) = SumFunctionOnSet(f, R) + f[x]
  BY <1>1, <1>2, SumAdd
<1>4. f[x] \in Int OBVIOUS
<1>5. QED BY <1>3, <1>4 DEF R

LEMMA SumNonNegative ==
  ASSUME NEW S, IsFiniteSet(S), NEW f, \A y \in S : f[y] \in Nat
  PROVE  SumFunctionOnSet(f, S) \in Nat
<1> DEFINE K == {n \in Nat : \A T \in SUBSET S : Cardinality(T) = n => SumFunctionOnSet(f, T) >= 0}
<1>0. \A T \in SUBSET S : IsFiniteSet(T) BY FS_Subset
<1>1. 0 \in K
  <2> SUFFICES ASSUME NEW T \in SUBSET S, Cardinality(T) = 0 PROVE SumFunctionOnSet(f, T) >= 0
    OBVIOUS
  <2>1. T = {} BY <1>0, FS_EmptySet
  <2>2. QED BY <2>1, SumEmpty
<1>2. ASSUME NEW n \in Nat, n \in K PROVE n + 1 \in K
  <2> SUFFICES ASSUME NEW T \in SUBSET S, Cardinality(T) = n + 1
               PROVE  SumFunctionOnSet(f, T) >= 0
    OBVIOUS
  <2>1. T # {} BY <1>0, FS_EmptySet
  <2>2. PICK y \in T : TRUE BY <2>1
  <2> DEFINE R == T \ {y}
  <2>3. R \in SUBSET S /\ y \notin R /\ R \cup {y} = T BY <2>2
  <2>4. Cardinality(R) = n BY <1>0, <2>2, OneLess
  <2>5. SumFunctionOnSet(f, R) >= 0 BY <1>2, <2>3, <2>4
  <2>6. \A z \in R \cup {y} : f[z] \in Int BY <2>3
  <2> HIDE DEF R
  <2>7. /\ SumFunctionOnSet(f, R) \in Int
        /\ SumFunctionOnSet(f, T) = SumFunctionOnSet(f, R) + f[y]
    BY <1>0, <2>3, <2>6, SumAdd
  <2>8. f[y] \in Nat BY <2>2
  <2>9. QED BY <2>5, <2>7, <2>8
<1>3. Nat \subseteq K
  <2> HIDE DEF K
  <2>1. QED BY <1>1, <1>2, Induction
<1>4. S \in SUBSET S /\ Cardinality(S) \in Nat BY FS_CardinalityType
<1>5. SumFunctionOnSet(f, S) >= 0 BY <1>3, <1>4
<1>6. SumFunctionOnSet(f, S) \in Int BY SumType
<1>7. QED BY <1>5, <1>6

LEMMA SumDisjoint ==
  ASSUME NEW S, IsFiniteSet(S), NEW T, IsFiniteSet(T), S \cap T = {},
         NEW f, \A y \in S \cup T : f[y] \in Int
  PROVE  SumFunctionOnSet(f, S \cup T) = SumFunctionOnSet(f, S) + SumFunctionOnSet(f, T)
<1> DEFINE K == {n \in Nat : \A U \in SUBSET T : Cardinality(U) = n =>
                   SumFunctionOnSet(f, S \cup U) = SumFunctionOnSet(f, S) + SumFunctionOnSet(f, U)}
<1>0. \A U \in SUBSET T : IsFiniteSet(U) /\ IsFiniteSet(S \cup U) BY FS_Subset, FS_Union
<1>s. SumFunctionOnSet(f, S) \in Int BY SumType
<1>1. 0 \in K
  <2> SUFFICES ASSUME NEW U \in SUBSET T, Cardinality(U) = 0
               PROVE  SumFunctionOnSet(f, S \cup U) = SumFunctionOnSet(f, S) + SumFunctionOnSet(f, U)
    OBVIOUS
  <2>1. U = {} BY <1>0, FS_EmptySet
  <2>2. S \cup U = S BY <2>1
  <2>3. QED BY <1>s, <2>1, <2>2, SumEmpty
<1>2. ASSUME NEW n \in Nat, n \in K PROVE n + 1 \in K
  <2> SUFFICES ASSUME NEW U \in SUBSET T, Cardinality(U) = n + 1
               PROVE  SumFunctionOnSet(f, S \cup U) = SumFunctionOnSet(f, S) + SumFunctionOnSet(f, U)
    OBVIOUS
  <2>1. U # {} BY <1>0, FS_EmptySet
  <2>2. PICK y \in U : TRUE BY <2>1
  <2> DEFINE R == U \ {y}
  <2> DEFINE Q == S \cup R
  <2>3. R \in SUBSET T /\ y \notin R /\ R \cup {y} = U /\ y \notin Q /\ Q \cup {y} = S \cup U BY <2>2
  <2>4. Cardinality(R) = n BY <1>0, <2>2, OneLess
  <2>5. SumFunctionOnSet(f, Q) = SumFunctionOnSet(f, S) + SumFunctionOnSet(f, R)
    BY <1>2, <2>3, <2>4
  <2>6. IsFiniteSet(R) /\ IsFiniteSet(Q) BY <1>0, <2>3
  <2>7. (\A z \in R \cup {y} : f[z] \in Int) /\ (\A z \in Q \cup {y} : f[z] \in Int) BY <2>3
  <2> HIDE DEF R, Q
  <2>8. /\ SumFunctionOnSet(f, R) \in Int
        /\ SumFunctionOnSet(f, U) = SumFunctionOnSet(f, R) + f[y]
    BY <2>3, <2>6, <2>7, SumAdd
  <2>9. /\ SumFunctionOnSet(f, Q) \in Int
        /\ SumFunctionOnSet(f, S \cup U) = SumFunctionOnSet(f, Q) + f[y]
    BY <2>3, <2>6, <2>7, SumAdd
  <2>10. f[y] \in Int BY <2>7
  <2>11. QED BY <1>s, <2>5, <2>8, <2>9, <2>10
<1>3. Nat \subseteq K
  <2> HIDE DEF K
  <2>1. QED BY <1>1, <1>2, Induction
<1>4. T \in SUBSET T /\ Cardinality(T) \in Nat BY FS_CardinalityType
<1>5. QED BY <1>3, <1>4

LEMMA SumSubset ==
  ASSUME NEW S, IsFiniteSet(S), NEW T \in SUBSET S, NEW f, \A y \in S : f[y] \in Nat
  PROVE  SumFunctionOnSet(f, T) <= SumFunctionOnSet(f, S)
<1> DEFINE R == S \ T
<1>1. IsFiniteSet(T) /\ IsFiniteSet(R) /\ T \cap R = {} /\ T \cup R = S
  <2>1. R \in SUBSET S OBVIOUS
  <2>2. QED BY <2>1, FS_Subset
<1>2. (\A y \in T : f[y] \in Nat) /\ (\A y \in R : f[y] \in Nat) /\ \A y \in T \cup R : f[y] \in Int
  OBVIOUS
<1> HIDE DEF R
<1>3. SumFunctionOnSet(f, S) = SumFunctionOnSet(f, T) + SumFunctionOnSet(f, R)
  BY <1>1, <1>2, SumDisjoint
<1>4. SumFunctionOnSet(f, T) \in Nat BY <1>1, <1>2, SumNonNegative
<1>5. SumFunctionOnSet(f, R) \in Nat BY <1>1, <1>2, SumNonNegative
<1>6. QED BY <1>3, <1>4, <1>5

(* The sum of a function of which one value is larger by d.                *)
LEMMA SumChange ==
  ASSUME NEW S, IsFiniteSet(S), NEW x \in S, NEW d \in Int, NEW f, NEW g,
         \A y \in S : f[y] \in Int, \A y \in S \ {x} : g[y] = f[y], g[x] = f[x] + d
  PROVE  SumFunctionOnSet(g, S) = SumFunctionOnSet(f, S) + d
<1> DEFINE R == S \ {x}
<1>1. IsFiniteSet(R) /\ x \notin R /\ R \cup {x} = S BY FS_RemoveElement
<1>2. (\A y \in R : f[y] \in Int /\ f[y] = g[y]) /\ g[x] \in Int /\ f[x] \in Int /\ g[x] = f[x] + d
  BY <1>1
<1> HIDE DEF R
<1>3. /\ SumFunctionOnSet(f, R) \in Int
      /\ SumFunctionOnSet(f, S) = SumFunctionOnSet(f, R) + f[x]
  BY <1>1, <1>2, SumAdd
<1>4. SumFunctionOnSet(g, S) = SumFunctionOnSet(g, R) + g[x]
  <2>1. \A y \in R \cup {x} : g[y] \in Int BY <1>2
  <2>2. QED BY <1>1, <2>1, SumAdd
<1>5. SumFunctionOnSet(f, R) = SumFunctionOnSet(g, R) BY <1>1, <1>2, SumSame
<1>6. QED BY <1>2, <1>3, <1>4, <1>5

(* Summing class by class: p names the class of every index.               *)
LEMMA SumByClass ==
  ASSUME NEW S, IsFiniteSet(S), NEW C, IsFiniteSet(C), NEW p \in [S -> C],
         NEW f, \A y \in S : f[y] \in Int
  PROVE  SumFunctionOnSet(f, S)
         = SumFunctionOnSet([c \in C |-> SumFunctionOnSet(f, {y \in S : p[y] = c})], C)
<1> DEFINE Class(U, c) == {y \in U : p[y] = c}
           Of(U) == [c \in C |-> SumFunctionOnSet(f, Class(U, c))]
           K == {n \in Nat : \A U \in SUBSET S : Cardinality(U) = n =>
                   SumFunctionOnSet(f, U) = SumFunctionOnSet(Of(U), C)}
<1>0. \A U \in SUBSET S : IsFiniteSet(U) BY FS_Subset
<1>t. \A U \in SUBSET S, c \in C : IsFiniteSet(Class(U, c)) /\ SumFunctionOnSet(f, Class(U, c)) \in Int
  <2> SUFFICES ASSUME NEW U \in SUBSET S, NEW c \in C
               PROVE  IsFiniteSet(Class(U, c)) /\ SumFunctionOnSet(f, Class(U, c)) \in Int
    OBVIOUS
  <2>1. Class(U, c) \in SUBSET S /\ \A y \in Class(U, c) : f[y] \in Int OBVIOUS
  <2> HIDE DEF Class
  <2>2. IsFiniteSet(Class(U, c)) BY <1>0, <2>1
  <2>3. QED BY <2>1, <2>2, SumType
<1>1. 0 \in K
  <2> SUFFICES ASSUME NEW U \in SUBSET S, Cardinality(U) = 0
               PROVE  SumFunctionOnSet(f, U) = SumFunctionOnSet(Of(U), C)
    OBVIOUS
  <2>1. U = {} BY <1>0, FS_EmptySet
  <2>2. \A c \in C : Class(U, c) = {} BY <2>1
  <2>3. \A c \in C : Of(U)[c] = 0 BY <2>2, SumEmpty
  <2>4. SumFunctionOnSet(f, U) = 0 BY <2>1, SumEmpty
  <2>5. SumFunctionOnSet(Of(U), C) = 0
    <3> HIDE DEF Of
    <3>1. QED BY <2>3, SumZero
  <2>6. QED BY <2>4, <2>5
<1>2. ASSUME NEW n \in Nat, n \in K PROVE n + 1 \in K
  <2> SUFFICES ASSUME NEW U \in SUBSET S, Cardinality(U) = n + 1
               PROVE  SumFunctionOnSet(f, U) = SumFunctionOnSet(Of(U), C)
    OBVIOUS
  <2>1. U # {} BY <1>0, FS_EmptySet
  <2>2. PICK y \in U : TRUE BY <2>1
  <2> DEFINE R == U \ {y}
  <2>3. R \in SUBSET S /\ y \notin R /\ R \cup {y} = U /\ p[y] \in C BY <2>2
  <2>4. Cardinality(R) = n BY <1>0, <2>2, OneLess
  <2>5. SumFunctionOnSet(f, R) = SumFunctionOnSet(Of(R), C) BY <1>2, <2>3, <2>4
  <2>6. \A z \in R \cup {y} : f[z] \in Int BY <2>3
  <2>7. /\ SumFunctionOnSet(f, R) \in Int
        /\ SumFunctionOnSet(f, U) = SumFunctionOnSet(f, R) + f[y]
    <3> HIDE DEF R
    <3>1. QED BY <1>0, <2>3, <2>6, SumAdd
  <2>8. \A c \in C \ {p[y]} : Class(U, c) = Class(R, c) BY <2>3
  <2>9. Class(U, p[y]) = Class(R, p[y]) \cup {y} /\ y \notin Class(R, p[y])
        /\ \A z \in Class(R, p[y]) \cup {y} : f[z] \in Int
    BY <2>3, <2>6
  <2>10. IsFiniteSet(Class(R, p[y])) BY <1>t, <2>3
  <2>11. \A c \in C : Of(R)[c] = SumFunctionOnSet(f, Class(R, c))
                      /\ Of(U)[c] = SumFunctionOnSet(f, Class(U, c))
    OBVIOUS
  <2> HIDE DEF R, Class, Of
  <2>12. SumFunctionOnSet(f, Class(U, p[y])) = SumFunctionOnSet(f, Class(R, p[y])) + f[y]
    <3> DEFINE Q == Class(R, p[y])
    <3>1. Class(U, p[y]) = Q \cup {y} /\ y \notin Q /\ IsFiniteSet(Q)
          /\ \A z \in Q \cup {y} : f[z] \in Int
      BY <2>9, <2>10
    <3> HIDE DEF Q
    <3>2. SumFunctionOnSet(f, Q \cup {y}) = SumFunctionOnSet(f, Q) + f[y] BY ONLY <3>1, SumAdd
    <3>3. QED BY <3>1, <3>2 DEF Q
  <2>13. /\ \A c \in C : Of(R)[c] \in Int
         /\ \A c \in C \ {p[y]} : Of(U)[c] = Of(R)[c]
         /\ Of(U)[p[y]] = Of(R)[p[y]] + f[y]
    BY <1>t, <2>3, <2>8, <2>11, <2>12
  <2>14. f[y] \in Int BY <2>6
  <2>15. SumFunctionOnSet(Of(U), C) = SumFunctionOnSet(Of(R), C) + f[y]
    BY <2>3, <2>13, <2>14, SumChange
  <2>16. QED BY <2>5, <2>7, <2>15
<1>3. Nat \subseteq K
  <2> HIDE DEF K
  <2>1. QED BY <1>1, <1>2, Induction
<1>4. S \in SUBSET S /\ Cardinality(S) \in Nat BY FS_CardinalityType
<1>5. SumFunctionOnSet(f, S) = SumFunctionOnSet(Of(S), C) BY <1>3, <1>4
<1>6. QED BY <1>5

(* The sum of the first k values of s, found at another place of f.        *)
LEMMA SumShift ==
  ASSUME NEW n \in Nat, NEW k \in Nat, NEW s, NEW f,
         \A i \in 1..k : s[i] \in Int /\ f[n + i] = s[i]
  PROVE  SumFunctionOnSet(f, (n + 1)..(n + k)) = SumFunctionOnSet(s, 1..k)
<1> DEFINE A(m) == (n + 1)..(n + m)
           K == {m \in Nat : m <= k => SumFunctionOnSet(f, A(m)) = SumFunctionOnSet(s, 1..m)}
<1>1. 0 \in K
  <2>1. A(0) = {} /\ 1..0 = {} OBVIOUS
  <2> HIDE DEF A
  <2>2. SumFunctionOnSet(f, A(0)) = 0 /\ SumFunctionOnSet(s, 1..0) = 0 BY <2>1, SumEmpty
  <2>3. QED BY <2>2
<1>2. ASSUME NEW m \in Nat, m \in K PROVE m + 1 \in K
  <2> SUFFICES ASSUME m + 1 <= k
               PROVE  SumFunctionOnSet(f, A(m + 1)) = SumFunctionOnSet(s, 1..(m + 1))
    OBVIOUS
  <2>0. SumFunctionOnSet(f, A(m)) = SumFunctionOnSet(s, 1..m) BY <1>2
  <2>1. /\ A(m + 1) = A(m) \cup {n + m + 1} /\ n + m + 1 \notin A(m)
        /\ \A y \in A(m) \cup {n + m + 1} : f[y] \in Int
    <3>1. A(m + 1) = A(m) \cup {n + m + 1} /\ n + m + 1 \notin A(m) OBVIOUS
    <3>2. ASSUME NEW y \in A(m) \cup {n + m + 1} PROVE f[y] \in Int
      <4>1. y - n \in 1..k /\ n + (y - n) = y OBVIOUS
      <4>2. QED BY <4>1
    <3>3. QED BY <3>1, <3>2
  <2>2. /\ 1..(m + 1) = (1..m) \cup {m + 1} /\ m + 1 \notin 1..m
        /\ \A y \in (1..m) \cup {m + 1} : s[y] \in Int
    OBVIOUS
  <2>3. IsFiniteSet(A(m)) /\ IsFiniteSet(1..m)
    <3>1. n + 1 \in Int /\ n + m \in Int /\ 1 \in Int /\ m \in Int OBVIOUS
    <3>2. QED BY <3>1, FS_Interval
  <2>4. f[n + m + 1] = s[m + 1] /\ s[m + 1] \in Int
    <3>1. m + 1 \in 1..k /\ n + (m + 1) = n + m + 1 OBVIOUS
    <3>2. QED BY <3>1
  <2> HIDE DEF A
  <2>5. SumFunctionOnSet(f, A(m + 1)) = SumFunctionOnSet(f, A(m)) + f[n + m + 1]
    <3> DEFINE x == n + m + 1
               Q == A(m)
    <3>1. /\ A(m + 1) = Q \cup {x} /\ x \notin Q /\ IsFiniteSet(Q)
          /\ \A y \in Q \cup {x} : f[y] \in Int
      BY <2>1, <2>3
    <3> HIDE DEF x, Q
    <3>2. SumFunctionOnSet(f, Q \cup {x}) = SumFunctionOnSet(f, Q) + f[x] BY ONLY <3>1, SumAdd
    <3>3. QED BY <3>1, <3>2 DEF x, Q
  <2>6. SumFunctionOnSet(s, 1..(m + 1)) = SumFunctionOnSet(s, 1..m) + s[m + 1]
    <3> DEFINE x == m + 1
               Q == 1..m
    <3>1. /\ 1..(m + 1) = Q \cup {x} /\ x \notin Q /\ IsFiniteSet(Q)
          /\ \A y \in Q \cup {x} : s[y] \in Int
      BY <2>2, <2>3
    <3> HIDE DEF x, Q
    <3>2. SumFunctionOnSet(s, Q \cup {x}) = SumFunctionOnSet(s, Q) + s[x] BY ONLY <3>1, SumAdd
    <3>3. QED BY <3>1, <3>2 DEF x, Q
  <2>7. QED BY <2>0, <2>4, <2>5, <2>6
<1>3. Nat \subseteq K
  <2> HIDE DEF K
  <2>1. QED BY <1>1, <1>2, Induction
<1>4. QED BY <1>3

(* A set of naturals that is not empty has a least member.                 *)
LEMMA Least ==
  ASSUME NEW S \in SUBSET Nat, S # {}
  PROVE  \E m \in S : \A k \in S : m <= k
<1> SUFFICES ASSUME \A m \in S : \E k \in S : k < m PROVE FALSE
  OBVIOUS
<1> DEFINE K == {n \in Nat : \A k \in S : k >= n}
<1>1. 0 \in K OBVIOUS
<1>2. ASSUME NEW n \in Nat, n \in K PROVE n + 1 \in K
  <2>1. n \notin S BY <1>2
  <2>2. \A k \in S : k >= n + 1 BY <1>2, <2>1
  <2>3. QED BY <2>2
<1> HIDE DEF K
<1>3. Nat \subseteq K BY <1>1, <1>2, Induction
<1>4. PICK m : m \in S OBVIOUS
<1>5. m + 1 \in K BY <1>3, <1>4
<1>6. QED BY <1>4, <1>5 DEF K

=============================================================================
