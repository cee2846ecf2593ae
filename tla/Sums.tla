-------------------------------- MODULE Sums --------------------------------
(***************************************************************************)
(* What the proofs need to know of the sum of a function's values          *)
(* (SumFunction of the community modules).  It is defined by recursion     *)
(* over the subsets of the domain, so every fact goes by induction; the    *)
(* two induction principles are stated for a set, of the numbers or of the *)
(* subsets for which a fact holds, and rest on the well-foundedness of <.  *)
(***************************************************************************)
EXTENDS Integers, FiniteSets, Functions, FiniteSetTheorems, WellFoundedInduction, TLAPS

(* A set that contains 0 and the successor of each of its numbers contains *)
(* all natural numbers.                                                    *)
LEMMA Induction ==
  ASSUME NEW G, 0 \in G, \A n \in Nat : n \in G => n + 1 \in G
  PROVE  Nat \subseteq G
<1> DEFINE C == Nat \ G
<1> SUFFICES ASSUME C # {} PROVE FALSE
  OBVIOUS
<1>1. PICK n \in C : \A m \in C : ~(<<m, n>> \in OpToRel(<, Nat))
  <2>1. C \subseteq Nat
    OBVIOUS
  <2> HIDE DEF C
  <2> QED
    BY <2>1, NatLessThanWellFounded, WFMin, Zenon
<1>2. \A l, m \in Nat : l < m => <<l, m>> \in OpToRel(<, Nat)
  BY DEF OpToRel
<1>3. n # 0 /\ n \in Nat
  OBVIOUS
<1>4. n - 1 \in Nat /\ n - 1 < n
  BY <1>3
<1>5. n - 1 \in G
  BY <1>1, <1>2, <1>3, <1>4
<1>6. (n - 1) + 1 \in G
  BY <1>4, <1>5
<1> QED
  BY <1>3, <1>6

(* The element a sum over T starts with, and the rest.                     *)
Chosen(T) == CHOOSE x \in T : TRUE
Rest(T) == T \ {Chosen(T)}

(* The chosen member of a set is one of its members ...                    *)
LEMMA ChosenInside ==
  ASSUME NEW T, T # {}
  PROVE  Chosen(T) \in T
BY DEF Chosen

(* ... and without it a finite set is smaller by one.                      *)
LEMMA RestSmaller ==
  ASSUME NEW T, IsFiniteSet(T), T # {}
  PROVE  IsFiniteSet(Rest(T)) /\ Cardinality(Rest(T)) = Cardinality(T) - 1
BY ChosenInside, FS_RemoveElement DEF Rest

(* A set that contains the empty set, and a subset of S if it contains the *)
(* rest of it, contains all of them.                                       *)
LEMMA SubsetInduction ==
  ASSUME NEW S, IsFiniteSet(S), NEW G, {} \in G,
         \A T \in SUBSET S : T # {} /\ Rest(T) \in G => T \in G
  PROVE  SUBSET S \subseteq G
<1> DEFINE N == {n \in Nat : \A T \in SUBSET S : Cardinality(T) = n => T \in G}
<1>1. \A T \in SUBSET S : IsFiniteSet(T) /\ Cardinality(T) \in Nat
  BY FS_Subset, FS_CardinalityType
<1>2. 0 \in N
  BY <1>1, FS_EmptySet
<1>3. ASSUME NEW n \in Nat, n \in N
      PROVE  n + 1 \in N
  <2> SUFFICES ASSUME NEW T \in SUBSET S, Cardinality(T) = n + 1
               PROVE  T \in G
    OBVIOUS
  <2>1. T # {}
    BY FS_EmptySet
  <2>2. Rest(T) \in SUBSET S /\ Cardinality(Rest(T)) = n
    <3>1. Cardinality(Rest(T)) = (n + 1) - 1
      BY <1>1, <2>1, RestSmaller
    <3> QED
      BY <3>1 DEF Rest
  <2>3. Rest(T) \in G
    BY <1>3, <2>2
  <2> QED
    BY <2>1, <2>3
<1>4. Nat \subseteq N
  <2> HIDE DEF N
  <2> QED
    BY <1>2, <1>3, Induction
<1> QED
  BY <1>1, <1>4

(* g gives the sum of f over T in terms of that over the rest of T.        *)
SumsUp(f, g, T) == g[T] = IF T = {} THEN 0 ELSE f[Chosen(T)] + g[Rest(T)]

(* The sums of f over all subsets of its finite domain exist.              *)
LEMMA SumsExist ==
  ASSUME NEW S, IsFiniteSet(S), NEW f \in [S -> Int]
  PROVE  \E g \in [SUBSET S -> Int] : \A T \in SUBSET S : SumsUp(f, g, T)
<1> DEFINE N == {k \in Nat : \E g \in [SUBSET S -> Int] :
                   \A T \in SUBSET S : Cardinality(T) <= k => SumsUp(f, g, T)}
<1>1. \A T \in SUBSET S : IsFiniteSet(T) /\ Cardinality(T) \in Nat /\ Cardinality(T) <= Cardinality(S)
  BY FS_Subset, FS_CardinalityType
<1>2. 0 \in N
  <2>1. [T \in SUBSET S |-> 0] \in [SUBSET S -> Int]
    OBVIOUS
  <2>2. \A T \in SUBSET S : Cardinality(T) <= 0 => SumsUp(f, [U \in SUBSET S |-> 0], T)
    BY <1>1, FS_EmptySet DEF SumsUp
  <2> QED
    BY <2>1, <2>2
<1>3. ASSUME NEW k \in Nat, k \in N
      PROVE  k + 1 \in N
  <2>1. PICK g \in [SUBSET S -> Int] :
               \A T \in SUBSET S : Cardinality(T) <= k => SumsUp(f, g, T)
    BY <1>3
  <2> DEFINE h == [T \in SUBSET S |-> IF T = {} THEN 0 ELSE f[Chosen(T)] + g[Rest(T)]]
  <2>2. ASSUME NEW T \in SUBSET S, T # {}
        PROVE  Chosen(T) \in S /\ Rest(T) \in SUBSET S
    BY <2>2, ChosenInside DEF Rest
  <2>3. h \in [SUBSET S -> Int]
    BY <2>2
  <2>4. ASSUME NEW T \in SUBSET S, Cardinality(T) <= k + 1
        PROVE  SumsUp(f, h, T)
    <3>1. CASE T = {}
      BY <3>1 DEF SumsUp
    <3>2. CASE T # {}
      <4>1. Rest(T) \in SUBSET S /\ Cardinality(Rest(T)) <= k
        BY <1>1, <2>2, <2>4, <3>2, RestSmaller
      <4>2. g[Rest(T)] = h[Rest(T)]
        BY <2>1, <4>1 DEF SumsUp
      <4> QED
        BY <3>2, <4>1, <4>2 DEF SumsUp
    <3> QED
      BY <3>1, <3>2
  <2>5. k + 1 \in Nat
    OBVIOUS
  <2> HIDE DEF h
  <2> QED
    BY <2>3, <2>4, <2>5
<1>4. Nat \subseteq N
  <2> HIDE DEF N
  <2> QED
    BY <1>2, <1>3, Induction
<1>5. PICK g \in [SUBSET S -> Int] :
        \A T \in SUBSET S : Cardinality(T) <= Cardinality(S) => SumsUp(f, g, T)
  <2>1. Cardinality(S) \in Nat
    BY FS_CardinalityType
  <2> QED
    BY <1>4, <2>1
<1> QED
  BY <1>1, <1>5

(* SumFunction is what one of these functions gives for the whole domain.  *)
LEMMA SumDefined ==
  ASSUME NEW S, IsFiniteSet(S), NEW f \in [S -> Int]
  PROVE  \E g \in [SUBSET S -> Int] : /\ \A T \in SUBSET S : SumsUp(f, g, T)
                                      /\ SumFunction(f) = g[S]
<1> DEFINE Def(g) == [s \in SUBSET S |->
                        IF s = {} THEN 0
                        ELSE f[CHOOSE x \in s : TRUE] + g[s \ {CHOOSE x \in s : TRUE}]]
           sum == CHOOSE g : g = Def(g)
<1>1. PICK g \in [SUBSET S -> Int] : \A T \in SUBSET S : SumsUp(f, g, T)
  BY SumsExist
<1>2. g = Def(g)
  BY <1>1 DEF SumsUp, Chosen, Rest
<1>3. sum = Def(sum)
  <2> HIDE DEF Def
  <2> QED
    BY <1>2
<1>4. SumFunction(f) = sum[S]
  <2>1. DOMAIN f = S
    OBVIOUS
  <2> QED
    BY <2>1 DEF SumFunction, SumFunctionOnSet, FoldFunctionOnSet, MapThenFoldSet
<1> HIDE DEF sum
<1>5. \A T \in SUBSET S : SumsUp(f, sum, T)
  BY <1>3 DEF SumsUp, Chosen, Rest
<1> DEFINE G == {T \in SUBSET S : sum[T] \in Int}
<1>6. {} \in G
  <2>1. sum[{}] = 0
    BY <1>5 DEF SumsUp
  <2> QED
    BY <2>1
<1>7. ASSUME NEW T \in SUBSET S, T # {}, Rest(T) \in G
      PROVE  T \in G
  <2>1. Chosen(T) \in S
    BY <1>7, ChosenInside
  <2>2. sum[T] = f[Chosen(T)] + sum[Rest(T)]
    BY <1>5, <1>7 DEF SumsUp
  <2> QED
    BY <1>7, <2>1, <2>2
<1>8. SUBSET S \subseteq G
  <2> HIDE DEF G
  <2> QED
    BY <1>6, <1>7, SubsetInduction
<1>9. sum \in [SUBSET S -> Int]
  <2>1. sum = [T \in SUBSET S |-> sum[T]]
    BY <1>3
  <2> QED
    BY <1>8, <2>1
<1> QED
  BY <1>4, <1>5, <1>9

(* A sum of integers is one.                                               *)
LEMMA SumOfInts ==
  ASSUME NEW S, IsFiniteSet(S), NEW f \in [S -> Int]
  PROVE  SumFunction(f) \in Int
<1>1. PICK g \in [SUBSET S -> Int] : SumFunction(f) = g[S]
  BY SumDefined
<1> QED
  BY <1>1

(* When the values of two functions differ in one place only, so much do   *)
(* their sums.                                                             *)
LEMMA SumUpdate ==
  ASSUME NEW S, IsFiniteSet(S), NEW f \in [S -> Int], NEW g \in [S -> Int],
         NEW t \in S, \A x \in S \ {t} : f[x] = g[x]
  PROVE  SumFunction(g) = SumFunction(f) + g[t] - f[t]
<1>1. PICK a \in [SUBSET S -> Int] : (\A T \in SUBSET S : SumsUp(f, a, T)) /\ SumFunction(f) = a[S]
  BY SumDefined
<1>2. PICK b \in [SUBSET S -> Int] : (\A T \in SUBSET S : SumsUp(g, b, T)) /\ SumFunction(g) = b[S]
  BY SumDefined
<1> DEFINE G == {T \in SUBSET S : b[T] = IF t \in T THEN a[T] + g[t] - f[t] ELSE a[T]}
<1>3. {} \in G
  BY <1>1, <1>2 DEF SumsUp
<1>4. ASSUME NEW T \in SUBSET S, T # {}, Rest(T) \in G
      PROVE  T \in G
  <2>1. Chosen(T) \in T /\ Chosen(T) \in S
    BY <1>4, ChosenInside
  <2>2. a[T] = f[Chosen(T)] + a[Rest(T)] /\ b[T] = g[Chosen(T)] + b[Rest(T)]
    BY <1>1, <1>2, <1>4 DEF SumsUp
  <2>3. a[Rest(T)] \in Int /\ b[Rest(T)] \in Int
    BY <1>4
  <2>4. f[Chosen(T)] \in Int /\ g[Chosen(T)] \in Int /\ f[t] \in Int /\ g[t] \in Int
    BY <2>1
  <2>5. CASE Chosen(T) = t
    <3>1. t \in T /\ t \notin Rest(T)
      BY <2>1, <2>5 DEF Rest
    <3> QED
      BY <1>4, <2>2, <2>3, <2>4, <2>5, <3>1
  <2>6. CASE Chosen(T) # t
    <3>1. f[Chosen(T)] = g[Chosen(T)] /\ (t \in Rest(T) <=> t \in T)
      BY <2>1, <2>6 DEF Rest
    <3> QED
      BY <1>4, <2>2, <2>3, <2>4, <3>1
  <2> QED
    BY <2>5, <2>6
<1>5. SUBSET S \subseteq G
  <2> HIDE DEF G
  <2> QED
    BY <1>3, <1>4, SubsetInduction
<1> QED
  BY <1>1, <1>2, <1>5

(* The sum of natural numbers is one, at least as large as each of them.   *)
LEMMA SumOfNats ==
  ASSUME NEW S, IsFiniteSet(S), NEW f \in [S -> Nat]
  PROVE  SumFunction(f) \in Nat /\ \A x \in S : f[x] <= SumFunction(f)
<1>1. PICK a \in [SUBSET S -> Int] : (\A T \in SUBSET S : SumsUp(f, a, T)) /\ SumFunction(f) = a[S]
  <2>1. f \in [S -> Int]
    OBVIOUS
  <2> QED
    BY <2>1, SumDefined
<1> DEFINE G == {T \in SUBSET S : a[T] >= 0 /\ \A x \in T : f[x] <= a[T]}
<1>2. {} \in G
  BY <1>1 DEF SumsUp
<1>3. ASSUME NEW T \in SUBSET S, T # {}, Rest(T) \in G
      PROVE  T \in G
  <2>1. Chosen(T) \in S /\ \A x \in T : x = Chosen(T) \/ x \in Rest(T)
    BY <1>3, ChosenInside DEF Rest
  <2>2. a[T] = f[Chosen(T)] + a[Rest(T)] /\ a[Rest(T)] \in Int
    BY <1>1, <1>3 DEF SumsUp
  <2>3. f[Chosen(T)] \in Nat /\ \A x \in T : f[x] \in Nat
    BY <2>1
  <2>4. a[Rest(T)] >= 0 /\ \A x \in Rest(T) : f[x] <= a[Rest(T)]
    BY <1>3
  <2>5. \A x \in T : f[x] <= a[T]
    BY <2>1, <2>2, <2>3, <2>4
  <2> QED
    BY <2>2, <2>3, <2>4, <2>5
<1>4. SUBSET S \subseteq G
  <2> HIDE DEF G
  <2> QED
    BY <1>2, <1>3, SubsetInduction
<1> QED
  BY <1>1, <1>4

(* A sum of equal numbers is their product.                                *)
LEMMA SumOfEqual ==
  ASSUME NEW S, IsFiniteSet(S), NEW n \in Nat
  PROVE  SumFunction([x \in S |-> n]) = Cardinality(S) * n
<1> DEFINE f == [x \in S |-> n]
<1>1. PICK a \in [SUBSET S -> Int] : (\A T \in SUBSET S : SumsUp(f, a, T)) /\ SumFunction(f) = a[S]
  <2>1. f \in [S -> Int]
    OBVIOUS
  <2> HIDE DEF f
  <2> QED
    BY <2>1, SumDefined
<1>2. \A T \in SUBSET S : IsFiniteSet(T) /\ Cardinality(T) \in Nat
  BY FS_Subset, FS_CardinalityType
<1> DEFINE G == {T \in SUBSET S : a[T] = Cardinality(T) * n}
<1>3. {} \in G
  BY <1>1, FS_EmptySet DEF SumsUp
<1>4. ASSUME NEW T \in SUBSET S, T # {}, Rest(T) \in G
      PROVE  T \in G
  <2>1. Chosen(T) \in S /\ Cardinality(Rest(T)) = Cardinality(T) - 1
    BY <1>2, <1>4, ChosenInside, RestSmaller
  <2>2. a[T] = n + a[Rest(T)]
    BY <1>1, <1>4, <2>1 DEF SumsUp
  <2>3. a[Rest(T)] = (Cardinality(T) - 1) * n
    BY <1>4, <2>1
  <2>4. Cardinality(T) \in Nat
    BY <1>2
  <2>5. n + (Cardinality(T) - 1) * n = Cardinality(T) * n
    BY <2>4
  <2> QED
    BY <2>2, <2>3, <2>5
<1>5. SUBSET S \subseteq G
  <2> HIDE DEF G
  <2> QED
    BY <1>3, <1>4, SubsetInduction
<1> QED
  BY <1>1, <1>5
=============================================================================
