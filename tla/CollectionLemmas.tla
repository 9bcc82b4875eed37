-------------------------- MODULE CollectionLemmas --------------------------
(***************************************************************************)
(* What the operators of module Collections return, for every argument.    *)
(* The proofs about the components cite these by name.                     *)
(***************************************************************************)
EXTENDS Collections, FiniteSetTheorems, SequenceTheorems,
        WellFoundedInduction, TLAPS

\* A set of natural numbers has a smallest element.  With it an induction
\* over the natural numbers is a contradiction from a smallest exception.
LEMMA SmallestElement ==
  ASSUME NEW S \in SUBSET Nat, S # {}
  PROVE  \E m \in S : \A k \in S : m <= k
<1> DEFINE R == OpToRel(<, Nat)
<1>1. IsWellFoundedOn(R, Nat)
  BY NatLessThanWellFounded
<1>2. \A x, y \in Nat : y < x => <<y, x>> \in R
  BY DEF OpToRel
<1> HIDE DEF R
<1>3. PICK m \in S : \A k \in S : ~ (<<k, m>> \in R)
  BY <1>1, WFMin
<1>4. \A k \in S : k \in Nat /\ m \in Nat
  OBVIOUS
<1>5. \A k \in S : ~(k < m)
  BY <1>2, <1>3, <1>4
<1> QED
  BY <1>4, <1>5

\* A set that holds 0 and with a number its successor holds every number.
LEMMA SetInduction ==
  ASSUME NEW S, 0 \in S, \A n \in Nat : n \in S => n + 1 \in S
  PROVE  Nat \subseteq S
<1> SUFFICES ASSUME Nat \ S # {} PROVE FALSE
  OBVIOUS
<1> DEFINE T == Nat \ S
<1>1. T \in SUBSET Nat /\ T # {}
  OBVIOUS
<1> HIDE DEF T
<1>2. PICK m \in T : \A k \in T : m <= k
  BY <1>1, SmallestElement
<1> QED
  BY <1>1, <1>2 DEF T

\* Finitely many natural numbers have a largest one.
LEMMA LargestElement ==
  ASSUME NEW S \in SUBSET Nat, S # {}, IsFiniteSet(S)
  PROVE  \E m \in S : \A k \in S : k <= m
<1> DEFINE HasLargest(T) == \E m \in T : \A k \in T : k <= m
           Sizes == {n \in Nat : \A T \in SUBSET Nat :
                       IsFiniteSet(T) /\ Cardinality(T) = n /\ T # {} => HasLargest(T)}
<1>1. 0 \in Sizes
  BY FS_EmptySet
<1>2. ASSUME NEW n \in Nat, n \in Sizes
      PROVE  n + 1 \in Sizes
  <2> SUFFICES ASSUME NEW T \in SUBSET Nat, IsFiniteSet(T), Cardinality(T) = n + 1, T # {}
               PROVE  HasLargest(T)
    OBVIOUS
  <2>1. PICK x \in T : TRUE
    OBVIOUS
  <2>2. /\ IsFiniteSet(T \ {x})
        /\ Cardinality(T \ {x}) = n
        /\ T \ {x} \in SUBSET Nat
    <3>1. IsFiniteSet(T \ {x}) /\ Cardinality(T \ {x}) = Cardinality(T) - 1
      BY FS_RemoveElement
    <3> QED
      BY <3>1
  <2>3. CASE T \ {x} = {}
    <3>1. \A k \in T : k = x
      BY <2>3
    <3>2. x <= x
      OBVIOUS
    <3> QED
      BY <3>1, <3>2
  <2>4. CASE T \ {x} # {}
    <3>1. PICK m \in T \ {x} : \A k \in T \ {x} : k <= m
      BY <1>2, <2>2, <2>4
    <3>2. CASE m <= x
      <4>1. \A k \in T : k <= x
        BY <3>1, <3>2
      <4> QED
        BY <4>1
    <3>3. CASE x <= m
      <4>1. \A k \in T : k <= m
        BY <3>1, <3>3
      <4> QED
        BY <3>1, <4>1
    <3> QED
      BY <3>2, <3>3
  <2> QED
    BY <2>3, <2>4
<1> HIDE DEF Sizes
<1>3. Nat \subseteq Sizes
  BY <1>1, <1>2, SetInduction
<1>4. Cardinality(S) \in Sizes
  BY <1>3, FS_CardinalityType
<1> QED
  BY <1>4 DEF Sizes

\* The units of finitely many elements of finite weight are finitely many.
LEMMA UnitsFinite ==
  ASSUME NEW S, IsFiniteSet(S), NEW w, \A x \in S : w[x] \in Nat
  PROVE  IsFiniteSet(Units(S, w))
<1> DEFINE f == [x \in S |-> {x} \X (1..w[x])]
           T == {{x} \X (1..w[x]) : x \in S}
<1>1. f \in Surjection(S, T)
  BY DEF Surjection
<1>2. IsFiniteSet(T)
  BY <1>1, FS_Surjection
<1>3. \A U \in T : IsFiniteSet(U)
  <2> SUFFICES ASSUME NEW x \in S
               PROVE  IsFiniteSet({x} \X (1..w[x]))
    OBVIOUS
  <2>1. IsFiniteSet({x})
    BY FS_Singleton
  <2>2. IsFiniteSet(1..w[x])
    BY FS_Interval
  <2> QED
    BY <2>1, <2>2, FS_Product
<1> QED
  BY <1>2, <1>3, FS_UNION DEF Units

\* A weight is a natural number.
LEMMA WeightType ==
  ASSUME NEW S, IsFiniteSet(S), NEW w, \A x \in S : w[x] \in Nat
  PROVE  Weight(S, w) \in Nat
BY UnitsFinite, FS_CardinalityType DEF Weight

\* Nothing weighs nothing.
LEMMA WeightEmpty ==
  ASSUME NEW w
  PROVE  Weight({}, w) = 0
<1>1. Units({}, w) = {}
  BY DEF Units
<1> QED
  BY <1>1, FS_EmptySet DEF Weight

\* One element weighs its own weight.
LEMMA WeightSingleton ==
  ASSUME NEW x, NEW w, w[x] \in Nat
  PROVE  Weight({x}, w) = w[x]
<1>1. Units({x}, w) = {x} \X (1..w[x])
  BY DEF Units
<1>2. IsFiniteSet({x}) /\ Cardinality({x}) = 1
  BY FS_Singleton
<1>3. IsFiniteSet(1..w[x]) /\ Cardinality(1..w[x]) = w[x]
  BY FS_Interval, SMTT(30)
<1>4. Cardinality({x} \X (1..w[x])) = Cardinality({x}) * Cardinality(1..w[x])
  BY <1>2, <1>3, FS_Product
<1>5. Weight({x}, w) = Cardinality({x}) * Cardinality(1..w[x])
  BY <1>1, <1>4, Zenon DEF Weight
<1>6. Weight({x}, w) = 1 * w[x]
  BY <1>2, <1>3, <1>5, Zenon
<1> QED
  BY <1>6

\* Weights add up over disjoint sets.
LEMMA WeightUnion ==
  ASSUME NEW S, IsFiniteSet(S), NEW T, IsFiniteSet(T), S \cap T = {},
         NEW w, \A x \in S \cup T : w[x] \in Nat
  PROVE  Weight(S \cup T, w) = Weight(S, w) + Weight(T, w)
<1>1. Units(S \cup T, w) = Units(S, w) \cup Units(T, w)
  BY DEF Units
<1>2. Units(S, w) \cap Units(T, w) = {}
  BY DEF Units
<1>3. IsFiniteSet(Units(S, w)) /\ IsFiniteSet(Units(T, w))
  BY UnitsFinite
<1>4. Cardinality({}) = 0
  BY FS_EmptySet
<1>5. Cardinality(Units(S, w)) \in Nat /\ Cardinality(Units(T, w)) \in Nat
  BY <1>3, FS_CardinalityType
<1>6. Cardinality(Units(S, w) \cup Units(T, w)) =
        Cardinality(Units(S, w)) + Cardinality(Units(T, w))
          - Cardinality(Units(S, w) \cap Units(T, w))
  BY <1>3, FS_Union
<1>7. Weight(S \cup T, w) = Weight(S, w) + Weight(T, w) - 0
  BY <1>1, <1>2, <1>4, <1>6, Zenon DEF Weight
<1>8. Weight(S, w) \in Nat /\ Weight(T, w) \in Nat
  BY <1>5 DEF Weight
<1> QED
  BY <1>7, <1>8

\* Taking a subset away takes its weight away.
LEMMA WeightDifference ==
  ASSUME NEW S, IsFiniteSet(S), NEW T \in SUBSET S,
         NEW w, \A x \in S : w[x] \in Nat
  PROVE  /\ Weight(S, w) = Weight(S \ T, w) + Weight(T, w)
         /\ Weight(S \ T, w) = SaturatingSub(Weight(S, w), Weight(T, w))
<1>1. IsFiniteSet(T) /\ IsFiniteSet(S \ T)
  BY FS_Subset, FS_Difference
<1>2. (S \ T) \cup T = S /\ (S \ T) \cap T = {}
  OBVIOUS
<1>3. Weight(S, w) = Weight(S \ T, w) + Weight(T, w)
  <2>1. Weight((S \ T) \cup T, w) = Weight(S \ T, w) + Weight(T, w)
    BY <1>1, <1>2, WeightUnion
  <2> QED
    BY <2>1, <1>2
<1>4. Weight(S \ T, w) \in Nat /\ Weight(T, w) \in Nat
  BY <1>1, WeightType
<1> QED
  BY <1>3, <1>4 DEF SaturatingSub

\* What weighs nothing each weighs nothing together.
LEMMA WeightOfNothing ==
  ASSUME NEW S, NEW w, \A x \in S : w[x] = 0
  PROVE  Weight(S, w) = 0
<1>1. Units(S, w) = {}
  BY DEF Units
<1> QED
  BY <1>1, FS_EmptySet DEF Weight

\* Only the weights of the set's own elements count.
LEMMA WeightAgrees ==
  ASSUME NEW S, NEW v, NEW w, \A x \in S : v[x] = w[x]
  PROVE  Weight(S, v) = Weight(S, w)
<1>1. {{x} \X (1..v[x]) : x \in S} = {{x} \X (1..w[x]) : x \in S}
  OBVIOUS
<1> QED
  BY <1>1 DEF Weight, Units

\* The weight of a set after the weight of one element y changes.
LEMMA WeightChange ==
  ASSUME NEW S, IsFiniteSet(S), NEW y \in S,
         NEW v, NEW w, \A x \in S : v[x] \in Nat /\ w[x] \in Nat,
         \A x \in S \ {y} : v[x] = w[x]
  PROVE  /\ Weight(S, v) \in Nat /\ v[y] <= Weight(S, v)
         /\ Weight(S, w) = Weight(S, v) - v[y] + w[y]
<1>1. Weight(S, v) = Weight(S \ {y}, v) + Weight({y}, v)
  BY WeightDifference
<1>2. Weight(S, w) = Weight(S \ {y}, w) + Weight({y}, w)
  BY WeightDifference
<1>3. Weight(S \ {y}, v) = Weight(S \ {y}, w)
  BY WeightAgrees
<1>4. Weight({y}, v) = v[y] /\ Weight({y}, w) = w[y] /\ v[y] \in Nat /\ w[y] \in Nat
  BY WeightSingleton
<1>5. Weight(S \ {y}, v) \in Nat
  <2>1. IsFiniteSet(S \ {y})
    BY FS_Subset
  <2> QED
    BY <2>1, WeightType
<1> QED
  BY <1>1, <1>2, <1>3, <1>4, <1>5

\* The weight of a set that gains an element y.
LEMMA WeightGain ==
  ASSUME NEW S, IsFiniteSet(S), NEW y, y \notin S,
         NEW w, \A x \in S \cup {y} : w[x] \in Nat
  PROVE  Weight(S \cup {y}, w) = Weight(S, w) + w[y]
<1>1. IsFiniteSet({y}) /\ S \cap {y} = {}
  BY FS_Singleton
<1>2. Weight(S \cup {y}, w) = Weight(S, w) + Weight({y}, w)
  BY <1>1, WeightUnion
<1> QED
  BY <1>2, WeightSingleton

\* Ranks number finitely many naturals from 1 on.
LEMMA RankNumbers ==
  ASSUME NEW K \in SUBSET Nat, IsFiniteSet(K)
  PROVE  /\ Cardinality(K) \in Nat
         /\ \A i \in K : Rank(K, i) \in 1..Cardinality(K)
         /\ \A i, j \in K : Rank(K, i) = Rank(K, j) => i = j
         /\ \A j \in 1..Cardinality(K) : \E i \in K : Rank(K, i) = j
<1>1. Cardinality(K) \in Nat
  BY FS_CardinalityType
<1> DEFINE upto(i) == {k \in K : k <= i}
           rank == [i \in K |-> Rank(K, i)]
           n == Cardinality(K)
<1>2. \A i \in K : /\ IsFiniteSet(upto(i))
                   /\ Cardinality(upto(i)) \in 1..n
  <2> SUFFICES ASSUME NEW i \in K
               PROVE  IsFiniteSet(upto(i)) /\ Cardinality(upto(i)) \in 1..n
    OBVIOUS
  <2>1. upto(i) \in SUBSET K /\ upto(i) # {}
    OBVIOUS
  <2>2. IsFiniteSet(upto(i)) /\ Cardinality(upto(i)) <= n
    BY <2>1, FS_Subset
  <2>3. Cardinality(upto(i)) \in Nat /\ Cardinality(upto(i)) # 0
    BY <2>1, <2>2, FS_CardinalityType, FS_EmptySet
  <2> QED
    BY <2>2, <2>3, <1>1
<1>3. \A i \in K, j \in K : rank[i] = rank[j] => i = j
  <2> SUFFICES ASSUME NEW i \in K, NEW j \in K, i < j
               PROVE  Cardinality(upto(i)) # Cardinality(upto(j))
    BY DEF Rank
  <2>1. i \in Nat /\ j \in Nat /\ \A k \in K : k \in Nat
    OBVIOUS
  <2>2. (\A k \in K : k <= i => k <= j) /\ j <= j /\ ~(j <= i)
    BY <2>1
  <2>3. upto(i) \in SUBSET upto(j) /\ j \in upto(j) /\ j \notin upto(i)
    BY <2>2, Zenon
  <2>4. IsFiniteSet(upto(j))
    BY <1>2
  <2> QED
    BY <2>3, <2>4, FS_Subset
<1>4. rank \in Injection(K, 1..n)
  BY <1>2, <1>3 DEF Rank, Injection, IsInjective
<1>5. IsFiniteSet(1..n) /\ Cardinality(1..n) = n
  BY <1>1, FS_Interval
<1>6. rank \in Surjection(K, 1..n)
  BY <1>1, <1>4, <1>5, FS_Injection
<1>7. \A i \in K : Rank(K, i) \in 1..n
  BY <1>2 DEF Rank
<1>8. \A j \in 1..n : \E i \in K : Rank(K, i) = j
  BY <1>6 DEF Surjection
<1> QED
  BY <1>1, <1>3, <1>7, <1>8

\* What retain keeps stands at the positions K, one by one.
LEMMA RetainAtBijection ==
  ASSUME NEW s, Len(s) \in Nat, NEW K \in SUBSET (1..Len(s))
  PROVE  /\ IsFiniteSet(K) /\ Cardinality(K) \in Nat
         /\ \E at \in [1..Cardinality(K) -> K] :
              /\ \A i \in K : \E j \in 1..Cardinality(K) : at[j] = i
              /\ \A i, j \in 1..Cardinality(K) : at[i] = at[j] => i = j
              /\ RetainAt(s, K) = [j \in 1..Cardinality(K) |-> s[at[j]]]
<1>1. IsFiniteSet(K) /\ K \in SUBSET Nat
  <2>1. IsFiniteSet(1..Len(s))
    BY FS_Interval
  <2>2. IsFiniteSet(K)
    BY <2>1, FS_Subset
  <2> QED
    BY <2>2
<1> DEFINE n == Cardinality(K)
           at == [j \in 1..n |-> CHOOSE i \in K : Rank(K, i) = j]
<1>2. /\ n \in Nat
      /\ \A i \in K : Rank(K, i) \in 1..n
      /\ \A i, j \in K : Rank(K, i) = Rank(K, j) => i = j
      /\ \A j \in 1..n : \E i \in K : Rank(K, i) = j
  BY <1>1, RankNumbers
<1>3. \A j \in 1..n : at[j] \in K /\ Rank(K, at[j]) = j
  BY <1>2
<1>4. RetainAt(s, K) = [j \in 1..n |-> s[at[j]]]
  BY DEF RetainAt
<1>5. at \in [1..n -> K]
  BY <1>3
<1> HIDE DEF at
<1>6. \A i \in K : \E j \in 1..n : at[j] = i
  <2> SUFFICES ASSUME NEW i \in K
               PROVE  \E j \in 1..n : at[j] = i
    OBVIOUS
  <2>1. Rank(K, i) \in 1..n
    BY <1>2
  <2>2. at[Rank(K, i)] = i
    BY <2>1, <1>2, <1>3
  <2> QED
    BY <2>1, <2>2
<1>7. \A i, j \in 1..n : at[i] = at[j] => i = j
  BY <1>3
<1> HIDE DEF n
<1> QED
  BY <1>1, <1>2, <1>4, <1>5, <1>6, <1>7 DEF n

\* Retaining positions of a sequence yields a sequence of the elements at
\* those positions: none is lost and none is made up.
LEMMA RetainAtProperties ==
  ASSUME NEW A, NEW s \in Seq(A), NEW K \in SUBSET (1..Len(s))
  PROVE  /\ RetainAt(s, K) \in Seq(A)
         /\ \A i \in K : \E j \in 1..Len(RetainAt(s, K)) : RetainAt(s, K)[j] = s[i]
         /\ \A j \in 1..Len(RetainAt(s, K)) : \E i \in K : RetainAt(s, K)[j] = s[i]
<1> DEFINE n == Cardinality(K)
<1>1. Len(s) \in Nat
  BY LenProperties
<1>2. n \in Nat
  BY <1>1, RetainAtBijection
<1>3. PICK at \in [1..n -> K] :
        /\ \A i \in K : \E j \in 1..n : at[j] = i
        /\ \A i, j \in 1..n : at[i] = at[j] => i = j
        /\ RetainAt(s, K) = [j \in 1..n |-> s[at[j]]]
  <2>1. \E at \in [1..Cardinality(K) -> K] :
          /\ \A i \in K : \E j \in 1..Cardinality(K) : at[j] = i
          /\ \A i, j \in 1..Cardinality(K) : at[i] = at[j] => i = j
          /\ RetainAt(s, K) = [j \in 1..Cardinality(K) |-> s[at[j]]]
    BY <1>1, RetainAtBijection
  <2> QED
    BY <2>1
<1> HIDE DEF n
<1>4. \A i \in K : s[i] \in A
  BY ElementOfSeq
<1>5. RetainAt(s, K) \in [1..n -> A]
  BY <1>3, <1>4
<1>6. RetainAt(s, K) \in Seq(A) /\ Len(RetainAt(s, K)) = n
  BY <1>2, <1>5, SeqDef, LenProperties
<1>7. \A i \in K : \E j \in 1..n : RetainAt(s, K)[j] = s[i]
  BY <1>3
<1>8. \A j \in 1..n : \E i \in K : RetainAt(s, K)[j] = s[i]
  BY <1>3, ZenonT(60)
<1> QED
  BY <1>6, <1>7, <1>8

\* Division and remainder of an integer by a positive number.
LEMMA DivMod ==
  ASSUME NEW a \in Int, NEW b \in Nat \ {0}
  PROVE  /\ a \div b \in Int /\ a % b \in Nat /\ a % b < b
         /\ a = b * (a \div b) + (a % b)
<1>1. a \div b \in Int /\ a % b \in Int
  OBVIOUS
<1>2. 0 <= a % b /\ a % b < b
  OBVIOUS
<1>3. a = b * (a \div b) + (a % b)
  OBVIOUS
<1> QED
  BY <1>1, <1>2, <1>3

\* Whole multiples divide without remainder.
LEMMA Multiple ==
  ASSUME NEW q \in Int, NEW b \in Nat \ {0}
  PROVE  (b * q) \div b = q /\ (b * q) % b = 0
OBVIOUS

\* A larger factor gives a larger product.
LEMMA TimesMonotone ==
  ASSUME NEW c \in Nat, NEW a \in Int, NEW b \in Int, a <= b
  PROVE  c * a <= c * b
<1> DEFINE d == b - a
<1>1. d \in Nat /\ b = a + d
  OBVIOUS
<1> HIDE DEF d
<1>2. c * d >= 0 /\ c * (a + d) = c * a + c * d
  BY <1>1
<1> QED
  BY <1>1, <1>2

\* A remainder of less than the divisor.
LEMMA ModOfSmall ==
  ASSUME NEW a \in Nat, NEW b \in Nat \ {0}, a < b
  PROVE  a % b = a
OBVIOUS

\* The elements that fewer than count others come before, in a strict order: at
\* most count, and all of them if fewer.
LEMMA FirstInOrder ==
  ASSUME NEW S, IsFiniteSet(S), NEW before \in [S -> SUBSET S], NEW count \in Nat,
         \A x \in S : x \notin before[x],
         \A x, y \in S : x # y => x \in before[y] \/ y \in before[x],
         \A x, y, z \in S : x \in before[y] /\ y \in before[z] => x \in before[z],
         NEW N \in SUBSET S, \A x \in S : x \in N <=> Cardinality(before[x]) < count
  PROVE  Cardinality(N) <= count /\ (Cardinality(N) < count => N = S)
<1> DEFINE rank(x) == Cardinality(before[x])
<1>0. \A x \in S : x \in N <=> rank(x) < count
  OBVIOUS
<1>1. \A x \in S : IsFiniteSet(before[x]) /\ rank(x) \in Nat
  <2> SUFFICES ASSUME NEW x \in S PROVE IsFiniteSet(before[x]) /\ rank(x) \in Nat
    OBVIOUS
  <2>1. before[x] \in SUBSET S
    OBVIOUS
  <2>2. IsFiniteSet(before[x])
    BY <2>1, FS_Subset
  <2> QED
    BY <2>2, FS_CardinalityType
<1>2. ASSUME NEW x \in S, NEW y \in S, x \in before[y]
      PROVE  rank(x) < rank(y)
  <2>1. before[x] \in SUBSET before[y] /\ x \in before[y] /\ x \notin before[x]
    BY <1>2
  <2>2. before[x] # before[y]
    BY <2>1
  <2>3. rank(x) <= rank(y) /\ rank(x) # rank(y)
    BY <1>1, <2>1, <2>2, FS_Subset
  <2> QED
    BY <1>1, <2>3
<1>3. \A x, y \in S : rank(x) = rank(y) => x = y
  <2> SUFFICES ASSUME NEW x \in S, NEW y \in S, x # y PROVE rank(x) # rank(y)
    OBVIOUS
  <2>1. x \in before[y] \/ y \in before[x]
    OBVIOUS
  <2>2. rank(x) < rank(y) \/ rank(y) < rank(x)
    <3> HIDE DEF rank
    <3> QED
      BY <1>2, <2>1
  <2>3. rank(x) \in Nat /\ rank(y) \in Nat
    BY <1>1
  <2> HIDE DEF rank
  <2> QED
    BY <2>2, <2>3
<1>4. IsFiniteSet(N) /\ Cardinality(N) \in Nat
  <2>1. IsFiniteSet(N)
    BY FS_Subset
  <2> QED
    BY <2>1, FS_CardinalityType
<1>5. Cardinality(N) <= count
  <2> DEFINE f == [x \in N |-> rank(x)]
             I == 0..(count - 1)
  <2>1. IsFiniteSet(I) /\ Cardinality(I) = count
    BY FS_Interval
  <2>2. \A x \in N : rank(x) \in I
    BY <1>0, <1>1
  <2>3. f \in [N -> I]
    BY <2>2
  <2>4. \A x, y \in N : f[x] = f[y] => x = y
    BY <1>3
  <2>5. f \in Injection(N, I)
    BY <2>3, <2>4 DEF Injection, IsInjective
  <2> HIDE DEF f, I
  <2>6. Cardinality(N) <= Cardinality(I)
    BY <2>1, <2>5, FS_Injection
  <2> QED
    BY <2>1, <2>6
<1>6. ASSUME N # S PROVE count <= Cardinality(N)
  <2> DEFINE late == {rank(x) : x \in S \ N}
  <2>1. late \in SUBSET Nat /\ late # {}
    BY <1>1, <1>6
  <2> HIDE DEF late
  <2>2. PICK k \in late : \A j \in late : k <= j
    BY <2>1, SmallestElement
  <2>3. PICK x \in S \ N : k = rank(x)
    BY <2>2 DEF late
  <2>4. \A y \in S \ N : rank(x) <= rank(y)
    BY <2>2, <2>3 DEF late
  <2>5. \A m \in before[x] : m \in N
    <3> SUFFICES ASSUME NEW m \in before[x], m \notin N PROVE FALSE
      OBVIOUS
    <3>1. m \in S
      BY <2>3
    <3>2. rank(m) < rank(x)
      BY <1>2, <2>3, <3>1
    <3> QED
      BY <1>1, <2>3, <2>4, <3>1, <3>2
  <2>6. rank(x) <= Cardinality(N)
    <3>1. before[x] \in SUBSET N
      BY <2>5
    <3> QED
      BY <1>4, <3>1, FS_Subset
  <2>7. rank(x) \in Nat /\ ~ (rank(x) < count)
    BY <1>0, <1>1, <2>3
  <2> QED
    BY <1>4, <2>6, <2>7
<1>7. Cardinality(N) < count => N = S
  BY <1>4, <1>6
<1> QED
  BY <1>5, <1>7

\* The recurrence behind SumTo has a solution.
LEMMA SumExists ==
  ASSUME NEW f, NEW n \in Nat
  PROVE  \E s : s = [i \in 0..n |-> IF i = 0 THEN 0 ELSE s[i - 1] + f[i]]
<1> DEFINE IsSum(s, k) == s = [i \in 0..k |-> IF i = 0 THEN 0 ELSE s[i - 1] + f[i]]
           Lengths == {k \in Nat : \E s : IsSum(s, k)}
<1>1. 0 \in Lengths
  <2> DEFINE s == [i \in 0..0 |-> 0]
  <2>1. IsSum(s, 0)
    OBVIOUS
  <2> QED
    BY <2>1
<1>2. ASSUME NEW k \in Nat, k \in Lengths
      PROVE  k + 1 \in Lengths
  <2>1. PICK s : IsSum(s, k)
    BY <1>2
  <2> DEFINE t == [i \in 0..(k + 1) |-> IF i <= k THEN s[i] ELSE s[k] + f[k + 1]]
  <2>2. \A i \in 0..k : s[i] = IF i = 0 THEN 0 ELSE s[i - 1] + f[i]
    BY <2>1
  <2>3. \A i \in 0..(k + 1) : t[i] = IF i = 0 THEN 0 ELSE t[i - 1] + f[i]
    <3> SUFFICES ASSUME NEW i \in 0..(k + 1)
                 PROVE  t[i] = IF i = 0 THEN 0 ELSE t[i - 1] + f[i]
      OBVIOUS
    <3>1. CASE i = 0
      BY <2>2, <3>1
    <3>2. CASE i \in 1..k
      BY <2>2, <3>2
    <3>3. CASE i = k + 1
      BY <3>3
    <3> QED
      BY <3>1, <3>2, <3>3
  <2>4. IsSum(t, k + 1)
    BY <2>3
  <2>5. k + 1 \in Nat
    OBVIOUS
  <2> HIDE DEF t
  <2> QED
    BY <2>4, <2>5
<1> HIDE DEF Lengths
<1>3. Nat \subseteq Lengths
  BY <1>1, <1>2, SetInduction
<1> QED
  BY <1>3 DEF Lengths

\* A solution of the recurrence is made of sums.
LEMMA SumUnfolds ==
  ASSUME NEW f, NEW n \in Nat, \A i \in 1..n : f[i] \in Int
  PROVE  /\ SumTo(f, 0) = 0
         /\ SumTo(f, n) \in Int
         /\ n > 0 => SumTo(f, n) = SumTo(f, n - 1) + f[n]
<1> DEFINE IsSum(s, k) == s = [i \in 0..k |-> IF i = 0 THEN 0 ELSE s[i - 1] + f[i]]
<1>1. ASSUME NEW k \in Nat
      PROVE  \E s : IsSum(s, k) /\ SumTo(f, k) = s[k]
  <2> DEFINE s == CHOOSE u : IsSum(u, k)
  <2>1. IsSum(s, k)
    BY SumExists
  <2>2. SumTo(f, k) = s[k]
    BY DEF SumTo
  <2> HIDE DEF s
  <2> QED
    BY <2>1, <2>2
<1>2. ASSUME NEW k \in Nat, NEW m \in Nat, NEW s, NEW t, IsSum(s, k), IsSum(t, m)
      PROVE  \A i \in Nat : i <= k /\ i <= m => s[i] = t[i]
  <2> DEFINE Same == {i \in Nat : i <= k /\ i <= m => s[i] = t[i]}
  <2>1. 0 \in Same
    BY <1>2
  <2>2. ASSUME NEW i \in Nat, i \in Same PROVE i + 1 \in Same
    <3> SUFFICES ASSUME i + 1 <= k, i + 1 <= m PROVE s[i + 1] = t[i + 1]
      OBVIOUS
    <3>1. s[i + 1] = s[i] + f[i + 1]
      BY <1>2
    <3>2. t[i + 1] = t[i] + f[i + 1]
      BY <1>2
    <3> QED
      BY <2>2, <3>1, <3>2
  <2> HIDE DEF Same
  <2>3. Nat \subseteq Same
    BY <2>1, <2>2, SetInduction
  <2> QED
    BY <2>3 DEF Same
<1>3. PICK s : IsSum(s, n) /\ SumTo(f, n) = s[n]
  BY <1>1
<1>4. SumTo(f, 0) = 0
  <2>1. PICK t : IsSum(t, 0) /\ SumTo(f, 0) = t[0]
    BY <1>1
  <2> QED
    BY <2>1
<1>5. \A i \in Nat : i <= n => s[i] \in Int
  <2> DEFINE Good == {i \in Nat : i <= n => s[i] \in Int}
  <2>1. 0 \in Good
    BY <1>3
  <2>2. ASSUME NEW i \in Nat, i \in Good PROVE i + 1 \in Good
    <3> SUFFICES ASSUME i + 1 <= n PROVE s[i + 1] \in Int
      OBVIOUS
    <3>1. s[i + 1] = s[i] + f[i + 1] /\ s[i] \in Int /\ f[i + 1] \in Int
      BY <1>3, <2>2
    <3> QED
      BY <3>1
  <2> HIDE DEF Good
  <2>3. Nat \subseteq Good
    BY <2>1, <2>2, SetInduction
  <2> QED
    BY <2>3 DEF Good
<1>6. ASSUME n > 0 PROVE SumTo(f, n) = SumTo(f, n - 1) + f[n]
  <2>1. n - 1 \in Nat
    BY <1>6
  <2>2. PICK t : IsSum(t, n - 1) /\ SumTo(f, n - 1) = t[n - 1]
    BY <1>1, <2>1
  <2>3. s[n - 1] = t[n - 1]
    <3> HIDE DEF IsSum
    <3>1. \A i \in Nat : i <= n /\ i <= n - 1 => s[i] = t[i]
      BY <1>2, <1>3, <2>1, <2>2
    <3> QED
      BY <2>1, <3>1
  <2>4. s[n] = s[n - 1] + f[n]
    BY <1>3, <1>6
  <2> QED
    BY <1>3, <2>2, <2>3, <2>4
<1> QED
  BY <1>3, <1>4, <1>5, <1>6

\* A sum is the weight of the positions.
LEMMA SumIsWeight ==
  ASSUME NEW f, NEW n \in Nat, \A i \in 1..n : f[i] \in Nat
  PROVE  SumTo(f, n) = Weight(1..n, f)
<1> DEFINE Good == {k \in Nat : k <= n => SumTo(f, k) = Weight(1..k, f)}
<1>1. 0 \in Good
  <2>1. 1..0 = {}
    OBVIOUS
  <2> QED
    BY <2>1, SumUnfolds, WeightEmpty
<1>2. ASSUME NEW k \in Nat, k \in Good PROVE k + 1 \in Good
  <2> SUFFICES ASSUME k + 1 <= n PROVE SumTo(f, k + 1) = Weight(1..(k + 1), f)
    OBVIOUS
  <2>1. SumTo(f, k + 1) = SumTo(f, k) + f[k + 1]
    <3>1. /\ k + 1 \in Nat /\ k + 1 > 0 /\ (k + 1) - 1 = k
          /\ \A i \in 1..(k + 1) : f[i] \in Int
      OBVIOUS
    <3> QED
      BY <3>1, SumUnfolds
  <2>2. 1..(k + 1) = (1..k) \cup {k + 1} /\ k + 1 \notin 1..k
    OBVIOUS
  <2>3. IsFiniteSet(1..k)
    BY FS_Interval
  <2>4. \A x \in (1..k) \cup {k + 1} : f[x] \in Nat
    OBVIOUS
  <2>5. Weight((1..k) \cup {k + 1}, f) = Weight(1..k, f) + f[k + 1]
    BY <2>2, <2>3, <2>4, WeightGain, ZenonT(60)
  <2>6. SumTo(f, k) = Weight(1..k, f)
    BY <1>2
  <2>7. Weight(1..(k + 1), f) = Weight(1..k, f) + f[k + 1]
    BY <2>2, <2>5, Zenon
  <2> QED
    BY <2>1, <2>6, <2>7, Zenon
<1> HIDE DEF Good
<1>3. Nat \subseteq Good
  BY <1>1, <1>2, SetInduction
<1> QED
  BY <1>3 DEF Good

\* Weight does not depend on what the elements are called.
LEMMA WeightBijection ==
  ASSUME NEW S, IsFiniteSet(S), NEW T, NEW at \in [S -> T],
         \A y \in T : \E x \in S : at[x] = y,
         \A x, y \in S : at[x] = at[y] => x = y,
         NEW v, NEW w, \A x \in S : v[x] \in Nat /\ v[x] = w[at[x]]
  PROVE  Weight(S, v) = Weight(T, w)
<1> DEFINE f == [u \in Units(S, v) |-> <<at[u[1]], u[2]>>]
<1>1. \A u \in Units(S, v) : u[1] \in S /\ u[2] \in 1..v[u[1]] /\ u = <<u[1], u[2]>>
  BY DEF Units
<1>2. \A x \in S : \A k \in 1..v[x] : <<x, k>> \in Units(S, v)
  BY DEF Units
<1>3. \A u \in Units(T, w) : u[1] \in T /\ u[2] \in 1..w[u[1]] /\ u = <<u[1], u[2]>>
  BY DEF Units
<1>4. \A x \in T : \A k \in 1..w[x] : <<x, k>> \in Units(T, w)
  BY DEF Units
<1>5. f \in [Units(S, v) -> Units(T, w)]
  BY <1>1, <1>4
<1>6. \A a, b \in Units(S, v) : f[a] = f[b] => a = b
  BY <1>1
<1>7. \A b \in Units(T, w) : \E a \in Units(S, v) : f[a] = b
  <2> SUFFICES ASSUME NEW b \in Units(T, w)
               PROVE  \E a \in Units(S, v) : f[a] = b
    OBVIOUS
  <2>1. PICK x \in S : at[x] = b[1]
    BY <1>3
  <2>2. <<x, b[2]>> \in Units(S, v)
    BY <1>2, <1>3, <2>1
  <2>3. f[<<x, b[2]>>] = b
    BY <1>3, <2>1, <2>2
  <2> QED
    BY <2>2, <2>3
<1>8. IsFiniteSet(Units(S, v))
  BY UnitsFinite
<1> HIDE DEF f
<1>9. ExistsBijection(Units(S, v), Units(T, w))
  BY <1>5, <1>6, <1>7 DEF ExistsBijection, Bijection, Injection, Surjection, IsInjective
<1> QED
  BY <1>8, <1>9, FS_Bijection DEF Weight

\* What retain keeps weighs as much as the whole, if the rest weighs nothing.
LEMMA RetainAtWeight ==
  ASSUME NEW s, Len(s) \in Nat, NEW K \in SUBSET (1..Len(s)), NEW v, NEW w
  PROVE  (/\ \A i \in 1..Len(s) : w[i] \in Nat
          /\ \A i \in (1..Len(s)) \ K : w[i] = 0
          /\ \A j \in 1..Len(RetainAt(s, K)) : v[j] \in Nat
          /\ \A j \in 1..Len(RetainAt(s, K)), i \in K :
               RetainAt(s, K)[j] = s[i] => v[j] = w[i])
         => Weight(1..Len(RetainAt(s, K)), v) = Weight(1..Len(s), w)
<1>0. SUFFICES ASSUME /\ \A i \in 1..Len(s) : w[i] \in Nat
                      /\ \A i \in (1..Len(s)) \ K : w[i] = 0,
                      \A j \in 1..Len(RetainAt(s, K)) : v[j] \in Nat,
                      \A j \in 1..Len(RetainAt(s, K)), i \in K :
                        RetainAt(s, K)[j] = s[i] => v[j] = w[i]
               PROVE  Weight(1..Len(RetainAt(s, K)), v) = Weight(1..Len(s), w)
  OBVIOUS
<1> DEFINE r == RetainAt(s, K)
           m == Cardinality(K)
           D == 1..m
           n == Len(s)
<1>1. IsFiniteSet(K) /\ m \in Nat
  BY RetainAtBijection
<1>2. PICK at \in [1..Cardinality(K) -> K] :
              /\ \A i \in K : \E j \in 1..Cardinality(K) : at[j] = i
              /\ \A i, j \in 1..Cardinality(K) : at[i] = at[j] => i = j
              /\ r = [j \in 1..Cardinality(K) |-> s[at[j]]]
  BY RetainAtBijection
<1> HIDE DEF m
<1>3. Len(r) = m
  BY <1>1, <1>2, LenProperties DEF m
<1>4. IsFiniteSet(D)
  BY <1>1, FS_Interval
<1>5. \A j \in D : v[j] \in Nat /\ v[j] = w[at[j]]
  BY <1>0, <1>2, <1>3 DEF m
<1> HIDE DEF D
<1>6. /\ at \in [D -> K]
      /\ \A i \in K : \E j \in D : at[j] = i
      /\ \A i, j \in D : at[i] = at[j] => i = j
  BY <1>2 DEF D, m
<1>7. Weight(D, v) = Weight(K, w)
  <2> DEFINE T == K
             g == at
  <2>1. /\ g \in [D -> T]
        /\ \A y \in T : \E x \in D : g[x] = y
        /\ \A x, y \in D : g[x] = g[y] => x = y
        /\ \A x \in D : v[x] \in Nat /\ v[x] = w[g[x]]
    BY <1>5, <1>6
  <2> HIDE DEF T, g
  <2>2. Weight(D, v) = Weight(T, w)
    BY <1>4, <2>1, WeightBijection
  <2> QED
    BY <2>2 DEF T
<1>8. Weight((1..n) \ K, w) = 0
  BY <1>0, WeightOfNothing
<1>9. IsFiniteSet(1..n)
  BY FS_Interval
<1>10. Weight(1..n, w) = Weight((1..n) \ K, w) + Weight(K, w)
  BY <1>0, <1>9, WeightDifference, ZenonT(60)
<1>11. Weight(K, w) \in Nat
  BY <1>0, <1>1, WeightType
<1> QED
  BY <1>3, <1>7, <1>8, <1>10, <1>11 DEF D

\* Only the summands count.
LEMMA SumAgrees ==
  ASSUME NEW n \in Nat, NEW f, NEW g, \A i \in 1..n : f[i] \in Nat /\ f[i] = g[i]
  PROVE  SumTo(f, n) = SumTo(g, n) /\ SumTo(f, n) \in Nat
<1>1. SumTo(f, n) = Weight(1..n, f) /\ SumTo(g, n) = Weight(1..n, g)
  BY SumIsWeight
<1>2. IsFiniteSet(1..n)
  BY FS_Interval
<1>3. Weight(1..n, f) = Weight(1..n, g)
  BY WeightAgrees
<1>4. Weight(1..n, f) \in Nat
  BY <1>2, WeightType
<1> QED
  BY <1>1, <1>3, <1>4

\* The recurrence behind Shr has a solution.
LEMMA ShrExists ==
  ASSUME NEW n \in Nat, NEW k \in Nat
  PROVE  \E s : s = [i \in 0..k |-> IF i = 0 THEN n ELSE s[i - 1] \div 2]
<1> DEFINE IsShr(s, m) == s = [i \in 0..m |-> IF i = 0 THEN n ELSE s[i - 1] \div 2]
           Lengths == {m \in Nat : \E s : IsShr(s, m)}
<1>1. 0 \in Lengths
  <2> DEFINE s == [i \in 0..0 |-> n]
  <2>1. IsShr(s, 0)
    OBVIOUS
  <2> QED
    BY <2>1
<1>2. ASSUME NEW m \in Nat, m \in Lengths
      PROVE  m + 1 \in Lengths
  <2>1. PICK s : IsShr(s, m)
    BY <1>2
  <2> DEFINE t == [i \in 0..(m + 1) |-> IF i <= m THEN s[i] ELSE s[m] \div 2]
  <2>2. \A i \in 0..m : s[i] = IF i = 0 THEN n ELSE s[i - 1] \div 2
    BY <2>1
  <2>3. \A i \in 0..(m + 1) : t[i] = IF i = 0 THEN n ELSE t[i - 1] \div 2
    <3> SUFFICES ASSUME NEW i \in 0..(m + 1)
                 PROVE  t[i] = IF i = 0 THEN n ELSE t[i - 1] \div 2
      OBVIOUS
    <3>1. CASE i = 0
      BY <2>2, <3>1
    <3>2. CASE i \in 1..m
      BY <2>2, <3>2
    <3>3. CASE i = m + 1
      BY <3>3
    <3> QED
      BY <3>1, <3>2, <3>3
  <2>4. IsShr(t, m + 1)
    BY <2>3
  <2>5. m + 1 \in Nat
    OBVIOUS
  <2> HIDE DEF t
  <2> QED
    BY <2>4, <2>5
<1> HIDE DEF Lengths
<1>3. Nat \subseteq Lengths
  BY <1>1, <1>2, SetInduction
<1> QED
  BY <1>3 DEF Lengths

\* Shifting halves, once for each place.
LEMMA ShrUnfolds ==
  ASSUME NEW n \in Nat
  PROVE  /\ Shr(n, 0) = n
         /\ \A k \in Nat : Shr(n, k) \in Nat /\ Shr(n, k + 1) = Shr(n, k) \div 2
<1> DEFINE IsShr(s, m) == s = [i \in 0..m |-> IF i = 0 THEN n ELSE s[i - 1] \div 2]
<1>1. ASSUME NEW k \in Nat
      PROVE  \E s : IsShr(s, k) /\ Shr(n, k) = s[k]
  <2> DEFINE s == CHOOSE u : IsShr(u, k)
  <2>1. IsShr(s, k)
    BY ShrExists
  <2>2. Shr(n, k) = s[k]
    BY DEF Shr
  <2> HIDE DEF s
  <2> QED
    BY <2>1, <2>2
<1>2. ASSUME NEW k \in Nat, NEW s, NEW t, IsShr(s, k), IsShr(t, k + 1)
      PROVE  \A i \in Nat : i <= k => s[i] = t[i] /\ s[i] \in Nat
  <2> DEFINE Same == {i \in Nat : i <= k => s[i] = t[i] /\ s[i] \in Nat}
  <2>1. 0 \in Same
    BY <1>2
  <2>2. ASSUME NEW i \in Nat, i \in Same PROVE i + 1 \in Same
    <3> SUFFICES ASSUME i + 1 <= k PROVE s[i + 1] = t[i + 1] /\ s[i + 1] \in Nat
      OBVIOUS
    <3>1. s[i + 1] = s[i] \div 2
      BY <1>2
    <3>2. t[i + 1] = t[i] \div 2
      BY <1>2
    <3>3. s[i] = t[i] /\ s[i] \in Nat
      BY <2>2
    <3> QED
      BY <3>1, <3>2, <3>3
  <2> HIDE DEF Same
  <2>3. Nat \subseteq Same
    BY <2>1, <2>2, SetInduction
  <2> QED
    BY <2>3 DEF Same
<1>3. Shr(n, 0) = n
  <2>1. PICK t : IsShr(t, 0) /\ Shr(n, 0) = t[0]
    BY <1>1
  <2> QED
    BY <2>1
<1>4. ASSUME NEW k \in Nat
      PROVE  Shr(n, k) \in Nat /\ Shr(n, k + 1) = Shr(n, k) \div 2
  <2>1. PICK s : IsShr(s, k) /\ Shr(n, k) = s[k]
    BY <1>1
  <2>2. PICK t : IsShr(t, k + 1) /\ Shr(n, k + 1) = t[k + 1]
    <3>1. k + 1 \in Nat
      OBVIOUS
    <3> HIDE DEF IsShr
    <3> QED
      BY <1>1, <3>1
  <2>3. t[k + 1] = t[k] \div 2
    BY <2>2
  <2> HIDE DEF IsShr
  <2>4. s[k] = t[k] /\ s[k] \in Nat
    BY <1>2, <2>1, <2>2
  <2> QED
    BY <2>1, <2>2, <2>3, <2>4
<1> QED
  BY <1>3, <1>4
=============================================================================
