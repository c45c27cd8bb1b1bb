-------------------------- MODULE ArithmeticProofs --------------------------
(***************************************************************************)
(* Facts about least elements, remainders and sums over finite sets that   *)
(* the proofs about several components share.                              *)
(*                                                                         *)
(* An induction is made by looking at a least counterexample: a number     *)
(* (MinIsLeast) or a set no element of which can be left out (Minimal).    *)
(***************************************************************************)
EXTENDS Sums, FiniteSetTheorems, TLAPS

(***************************************************************************)
(* A natural number below the modulus is its own remainder.                *)
(***************************************************************************)
LEMMA SmallMod ==
  ASSUME NEW m \in Nat \ {0}, NEW a \in 0 .. m - 1
  PROVE  a % m = a
OBVIOUS

(***************************************************************************)
(* Every remainder modulo m is a natural number below m.                   *)
(***************************************************************************)
LEMMA ModRange ==
  ASSUME NEW m \in Nat \ {0}, NEW a \in Int
  PROVE  a % m \in 0 .. m - 1
OBVIOUS

(***************************************************************************)
(* A set of natural numbers that is not empty has a least element, which   *)
(* Min returns.                                                            *)
(***************************************************************************)
LEMMA MinIsLeast ==
  ASSUME NEW S \in SUBSET Nat, S # {}
  PROVE  /\ Min(S) \in S
         /\ \A y \in S : Min(S) <= y
<1> DEFINE Less == {p \in Nat \X Nat : p[1] < p[2]}
<1>1. OpToRel(<, Nat) = Less
  BY Zenon DEF OpToRel
<1>2. PICK x \in S : \A y \in S : <<y, x>> \notin Less
  <2> HIDE DEF Less
  <2>1. IsWellFoundedOn(Less, Nat)
    BY <1>1, NatLessThanWellFounded, Zenon
  <2>2. QED
    BY <2>1, WFMin, Zenon
<1>3. ASSUME NEW y \in S
      PROVE  x <= y
  <2>1. x \in Nat /\ y \in Nat
    OBVIOUS
  <2>2. y < x => <<y, x>> \in Less
    BY <2>1
  <2>3. QED
    BY <1>2, <2>1, <2>2
<1>4. QED
  BY <1>3 DEF Min

(***************************************************************************)
(* A set of natural numbers that is not empty and has a bound has a        *)
(* greatest element, which Max returns.                                    *)
(***************************************************************************)
LEMMA MaxIsGreatest ==
  ASSUME NEW S \in SUBSET Nat, S # {}, NEW b \in Nat, \A x \in S : x <= b
  PROVE  /\ Max(S) \in S
         /\ \A y \in S : y <= Max(S)
<1> DEFINE D == {d \in Nat : d <= b /\ b - d \in S}
<1>1. D # {}
  <2>1. PICK x \in S : TRUE
    OBVIOUS
  <2>2. x \in Nat /\ x <= b
    OBVIOUS
  <2>3. b - x \in Nat /\ b - x <= b /\ b - (b - x) = x
    BY <2>2
  <2>4. QED
    BY <2>1, <2>3
<1>2. Min(D) \in D /\ \A d \in D : Min(D) <= d
  <2>1. D \in SUBSET Nat
    OBVIOUS
  <2> HIDE DEF D
  <2>2. QED
    BY <1>1, <2>1, MinIsLeast
<1> DEFINE x == b - Min(D)
<1>3. x \in S
  BY <1>2
<1>4. ASSUME NEW y \in S
      PROVE  y <= x
  <2>1. y \in Nat /\ y <= b
    OBVIOUS
  <2>2. b - y \in Nat /\ b - y <= b /\ b - (b - y) = y
    BY <2>1
  <2>3. b - y \in D
    BY <2>2
  <2>4. Min(D) \in Nat /\ Min(D) <= b - y
    BY <1>2, <2>3
  <2>5. QED
    BY <2>1, <2>4
<1>5. QED
  BY <1>3, <1>4 DEF Max

(***************************************************************************)
(* A family of subsets of a finite set, if not empty, has a member that is *)
(* no longer one without any of its elements.                              *)
(***************************************************************************)
LEMMA Minimal ==
  ASSUME NEW S, IsFiniteSet(S), NEW B \in SUBSET (SUBSET S), B # {}
  PROVE  \E T \in B : IsFiniteSet(T) /\ \A x \in T : T \ {x} \notin B
<1> DEFINE C == {n \in Nat : \E T \in B : Cardinality(T) = n}
<1>1. ASSUME NEW T \in B
      PROVE  IsFiniteSet(T) /\ Cardinality(T) \in Nat
  BY FS_Subset, FS_CardinalityType
<1>2. C \in SUBSET Nat /\ C # {}
  BY <1>1
<1>3. Min(C) \in C /\ \A n \in C : Min(C) <= n
  <2> HIDE DEF C
  <2>1. QED
    BY <1>2, MinIsLeast
<1>4. PICK T \in B : Cardinality(T) = Min(C)
  BY <1>3
<1>5. ASSUME NEW x \in T, T \ {x} \in B
      PROVE  FALSE
  <2>1. Cardinality(T \ {x}) = Cardinality(T) - 1
    BY <1>1, FS_RemoveElement
  <2>2. Cardinality(T \ {x}) \in C
    BY <1>1, <1>5
  <2>3. Cardinality(T) \in Nat /\ Cardinality(T) <= Cardinality(T \ {x})
    BY <1>1, <1>3, <1>4, <2>2
  <2>4. QED
    BY <2>1, <2>3
<1>6. QED
  BY <1>1, <1>5
-----------------------------------------------------------------------------

(* The definition of SumOver unfolded: it takes the elements one by one in *)
(* the order of CHOOSE.                                                    *)
Any(T) == CHOOSE x \in T : TRUE

Unfolds(w, S, g) ==
  \A T \in SUBSET S : g[T] = IF T = {} THEN 0 ELSE w[Any(T)] + g[T \ {Any(T)}]

Body(w, S, g) ==
  [T \in SUBSET S |-> IF T = {} THEN 0 ELSE w[Any(T)] + g[T \ {Any(T)}]]

Iterated(w, S) == CHOOSE g : g = Body(w, S, g)

LEMMA SumIsIterated ==
  ASSUME NEW w, NEW S
  PROVE  SumOver(w, S) = Iterated(w, S)[S]
BY Zenon DEF SumOver, MapThenSumSet, MapThenFoldSet, Iterated, Body, Any

(***************************************************************************)
(* The recursive function SumOver is made from exists.                     *)
(***************************************************************************)
LEMMA IteratedUnfolds ==
  ASSUME NEW w, NEW S, IsFiniteSet(S)
  PROVE  Unfolds(w, S, Iterated(w, S))
<1> DEFINE UpTo(n, g) ==
             \A T \in SUBSET S : Cardinality(T) <= n =>
                g[T] = IF T = {} THEN 0 ELSE w[Any(T)] + g[T \ {Any(T)}]
           Bad == {n \in Nat : ~ \E g : UpTo(n, g)}
<1>1. ASSUME NEW T \in SUBSET S
      PROVE  /\ IsFiniteSet(T) /\ Cardinality(T) \in Nat
             /\ Cardinality(T) <= Cardinality(S)
             /\ Cardinality(T) = 0 <=> T = {}
             /\ T # {} => /\ Any(T) \in T
                          /\ T \ {Any(T)} \in SUBSET S
                          /\ Cardinality(T \ {Any(T)}) = Cardinality(T) - 1
  BY FS_Subset, FS_CardinalityType, FS_EmptySet, FS_RemoveElement DEF Any
<1>2. Bad = {}
  <2> SUFFICES ASSUME Bad # {}
               PROVE  FALSE
    OBVIOUS
  <2> DEFINE n == Min(Bad)
  <2>1. n \in Bad /\ \A m \in Bad : n <= m
    <3>1. Bad \in SUBSET Nat
      OBVIOUS
    <3> HIDE DEF Bad
    <3>2. QED
      BY <3>1, MinIsLeast
  <2>2. n \in Nat
    BY <2>1
  <2>3. n # 0
    <3> SUFFICES ASSUME n = 0
                 PROVE  FALSE
      OBVIOUS
    <3>1. ~ \E g : UpTo(0, g)
      BY <2>1
    <3>2. ASSUME NEW T \in SUBSET S, Cardinality(T) <= 0
          PROVE  T = {}
      <4>1. Cardinality(T) \in Nat /\ (Cardinality(T) = 0 <=> T = {})
        BY <1>1
      <4>2. QED
        BY <3>2, <4>1
    <3>3. UpTo(0, [T \in SUBSET S |-> 0])
      BY <3>2
    <3>4. QED
      BY <3>1, <3>3
  <2>4. n - 1 \in Nat /\ n - 1 \notin Bad
    <3> HIDE DEF Bad
    <3>1. QED
      BY <2>1, <2>2, <2>3
  <2>5. PICK g : UpTo(n - 1, g)
    BY <2>4
  <2> DEFINE h == [T \in SUBSET S |->
                     IF Cardinality(T) <= n - 1 THEN g[T]
                     ELSE w[Any(T)] + g[T \ {Any(T)}]]
  <2>6. UpTo(n, h)
    <3> SUFFICES ASSUME NEW T \in SUBSET S, Cardinality(T) <= n
                 PROVE  h[T] = IF T = {} THEN 0 ELSE w[Any(T)] + h[T \ {Any(T)}]
      OBVIOUS
    <3> HIDE DEF n
    <3>1. CASE T = {}
      <4>1. Cardinality(T) <= n - 1
        BY <2>2, <2>3, <3>1, FS_EmptySet
      <4>2. QED
        BY <2>5, <3>1, <4>1
    <3>2. CASE T # {}
      <4>1. /\ T \ {Any(T)} \in SUBSET S
            /\ Cardinality(T \ {Any(T)}) <= n - 1
        BY <1>1, <2>2, <3>2
      <4>2. h[T \ {Any(T)}] = g[T \ {Any(T)}]
        BY <4>1
      <4>3. h[T] = w[Any(T)] + g[T \ {Any(T)}]
        BY <2>5, <3>2
      <4>4. QED
        BY <3>2, <4>2, <4>3
    <3>3. QED
      BY <3>1, <3>2
  <2>7. QED
    BY <2>1, <2>6
<1>3. PICK g : UpTo(Cardinality(S), g)
  BY <1>1, <1>2
<1> DEFINE h == [T \in SUBSET S |-> g[T]]
<1>4. h = Body(w, S, h)
  <2>1. ASSUME NEW T \in SUBSET S
        PROVE  h[T] = Body(w, S, h)[T]
    BY <1>1, <1>3 DEF Body
  <2>2. QED
    BY <2>1 DEF Body
<1>5. Iterated(w, S) = Body(w, S, Iterated(w, S))
  BY <1>4, Zenon DEF Iterated
<1>6. QED
  BY <1>5 DEF Body, Unfolds

(***************************************************************************)
(* Two functions that unfold as SumOver does agree.                        *)
(***************************************************************************)
LEMMA UnfoldsOnce ==
  ASSUME NEW w, NEW S, IsFiniteSet(S), NEW g, NEW h,
         Unfolds(w, S, g), Unfolds(w, S, h)
  PROVE  g[S] = h[S]
<1> DEFINE B == {T \in SUBSET S : g[T] # h[T]}
<1>1. B = {}
  <2> SUFFICES ASSUME B # {}
               PROVE  FALSE
    OBVIOUS
  <2>1. PICK T \in B : \A x \in T : T \ {x} \notin B
    <3>1. B \in SUBSET (SUBSET S)
      OBVIOUS
    <3> HIDE DEF B
    <3>2. QED
      BY <3>1, Minimal
  <2>2. CASE T = {}
    BY <2>2 DEF Unfolds
  <2>3. CASE T # {}
    <3>1. Any(T) \in T
      BY <2>3 DEF Any
    <3>2. g[T \ {Any(T)}] = h[T \ {Any(T)}]
      BY <2>1, <3>1
    <3>3. QED
      BY <2>3, <3>2 DEF Unfolds
  <2>4. QED
    BY <2>2, <2>3
<1>2. QED
  BY <1>1

(***************************************************************************)
(* The sum over no element is 0, and over others it is that of one of them *)
(* and the sum of the rest.                                                *)
(***************************************************************************)
LEMMA SumUnfolds ==
  ASSUME NEW w, NEW S, IsFiniteSet(S)
  PROVE  SumOver(w, S) = IF S = {} THEN 0 ELSE w[Any(S)] + SumOver(w, S \ {Any(S)})
<1>1. Unfolds(w, S, Iterated(w, S))
  BY IteratedUnfolds
<1>2. CASE S = {}
  BY <1>1, <1>2, SumIsIterated DEF Unfolds
<1>3. CASE S # {}
  <2> DEFINE R == S \ {Any(S)}
  <2>1. IsFiniteSet(R)
    BY FS_RemoveElement
  <2>2. Unfolds(w, R, Iterated(w, R))
    BY <2>1, IteratedUnfolds
  <2>3. Unfolds(w, R, Iterated(w, S))
    BY <1>1 DEF Unfolds
  <2> HIDE DEF R
  <2>4. Iterated(w, S)[R] = Iterated(w, R)[R]
    BY <2>1, <2>2, <2>3, UnfoldsOnce, Zenon
  <2>5. Iterated(w, S)[S] = w[Any(S)] + Iterated(w, S)[R]
    BY <1>1, <1>3 DEF Unfolds, R
  <2>6. QED
    BY <1>3, <2>4, <2>5, SumIsIterated DEF R
<1>4. QED
  BY <1>2, <1>3

LEMMA SumEmpty ==
  ASSUME NEW w
  PROVE  SumOver(w, {}) = 0
BY SumUnfolds, FS_EmptySet
-----------------------------------------------------------------------------
(***************************************************************************)
(* A sum of natural numbers is one.                                        *)
(***************************************************************************)
LEMMA SumIsNat ==
  ASSUME NEW S, IsFiniteSet(S), NEW w, \A x \in S : w[x] \in Nat
  PROVE  SumOver(w, S) \in Nat
<1> DEFINE B == {T \in SUBSET S : SumOver(w, T) \notin Nat}
<1>1. B = {}
  <2> SUFFICES ASSUME B # {}
               PROVE  FALSE
    OBVIOUS
  <2>1. PICK T \in B : IsFiniteSet(T) /\ \A x \in T : T \ {x} \notin B
    <3>1. B \in SUBSET (SUBSET S)
      OBVIOUS
    <3> HIDE DEF B
    <3>2. QED
      BY <3>1, Minimal
  <2>2. T # {} => /\ w[Any(T)] \in Nat
                  /\ SumOver(w, T \ {Any(T)}) \in Nat
    BY <2>1 DEF Any
  <2>3. SumOver(w, T) \in Nat
    BY <2>1, <2>2, SumUnfolds
  <2>4. QED
    BY <2>3
<1>2. QED
  BY <1>1

(***************************************************************************)
(* Any element may be taken first.                                         *)
(***************************************************************************)
LEMMA SumRemove ==
  ASSUME NEW S, IsFiniteSet(S), NEW w, \A x \in S : w[x] \in Nat, NEW y \in S
  PROVE  SumOver(w, S) = w[y] + SumOver(w, S \ {y})
<1> DEFINE B == {T \in SUBSET S :
                   \E z \in T : SumOver(w, T) # w[z] + SumOver(w, T \ {z})}
<1>1. B = {}
  <2> SUFFICES ASSUME B # {}
               PROVE  FALSE
    OBVIOUS
  <2>1. PICK T \in B : IsFiniteSet(T) /\ \A x \in T : T \ {x} \notin B
    <3>1. B \in SUBSET (SUBSET S)
      OBVIOUS
    <3> HIDE DEF B
    <3>2. QED
      BY <3>1, Minimal
  <2>2. PICK z \in T : SumOver(w, T) # w[z] + SumOver(w, T \ {z})
    BY <2>1
  <2> DEFINE a == Any(T)
             R == T \ {a, z}
  <2>3. a \in T
    BY DEF Any
  <2>4. SumOver(w, T) = w[a] + SumOver(w, T \ {a})
    BY <2>1, SumUnfolds
  <2> HIDE DEF a
  <2>5. a # z
    BY <2>2, <2>4
  <2>6. (T \ {a}) \ {z} = R /\ (T \ {z}) \ {a} = R
    OBVIOUS
  <2>7. SumOver(w, T \ {a}) = w[z] + SumOver(w, R)
    <3>1. z \in T \ {a} /\ T \ {a} \in SUBSET S /\ T \ {a} \notin B
      BY <2>1, <2>3, <2>5
    <3>2. QED
      BY <2>6, <3>1
  <2>8. SumOver(w, T \ {z}) = w[a] + SumOver(w, R)
    <3>1. a \in T \ {z} /\ T \ {z} \in SUBSET S /\ T \ {z} \notin B
      BY <2>1, <2>3, <2>5
    <3>2. QED
      BY <2>6, <3>1
  <2>9. w[a] \in Nat /\ w[z] \in Nat /\ SumOver(w, R) \in Nat
    <3>1. R \in SUBSET S /\ \A x \in R : w[x] \in Nat
      OBVIOUS
    <3>2. IsFiniteSet(R)
      BY <3>1, FS_Subset
    <3>3. QED
      BY <2>3, <3>1, <3>2, SumIsNat
  <2>10. QED
    BY <2>2, <2>4, <2>7, <2>8, <2>9
<1>2. QED
  BY <1>1

(***************************************************************************)
(* A sum depends on the values at its elements only.                       *)
(***************************************************************************)
LEMMA SumSame ==
  ASSUME NEW S, IsFiniteSet(S), NEW v, NEW w, \A x \in S : v[x] = w[x]
  PROVE  SumOver(v, S) = SumOver(w, S)
<1> DEFINE B == {T \in SUBSET S : SumOver(v, T) # SumOver(w, T)}
<1>1. B = {}
  <2> SUFFICES ASSUME B # {}
               PROVE  FALSE
    OBVIOUS
  <2>1. PICK T \in B : IsFiniteSet(T) /\ \A x \in T : T \ {x} \notin B
    <3>1. B \in SUBSET (SUBSET S)
      OBVIOUS
    <3> HIDE DEF B
    <3>2. QED
      BY <3>1, Minimal
  <2>2. T # {} => /\ v[Any(T)] = w[Any(T)]
                  /\ SumOver(v, T \ {Any(T)}) = SumOver(w, T \ {Any(T)})
    BY <2>1 DEF Any
  <2>3. SumOver(v, T) = SumOver(w, T)
    BY <2>1, <2>2, SumUnfolds
  <2>4. QED
    BY <2>3
<1>2. QED
  BY <1>1

(***************************************************************************)
(* Elements of value 0 may be left out, and leaving out others makes a sum *)
(* no greater.                                                             *)
(***************************************************************************)
LEMMA SumOfSubset ==
  ASSUME NEW S, IsFiniteSet(S), NEW w, \A x \in S : w[x] \in Nat,
         NEW R \in SUBSET S
  PROVE  /\ SumOver(w, R) <= SumOver(w, S)
         /\ (\A x \in S \ R : w[x] = 0) => SumOver(w, R) = SumOver(w, S)
<1> DEFINE Fine(T) == /\ SumOver(w, R) <= SumOver(w, T)
                      /\ (\A x \in S \ R : w[x] = 0) => SumOver(w, R) = SumOver(w, T)
           B == {T \in SUBSET S : R \subseteq T /\ ~ Fine(T)}
<1>1. B = {}
  <2> SUFFICES ASSUME B # {}
               PROVE  FALSE
    OBVIOUS
  <2>1. PICK T \in B : IsFiniteSet(T) /\ \A x \in T : T \ {x} \notin B
    <3>1. B \in SUBSET (SUBSET S)
      OBVIOUS
    <3> HIDE DEF B
    <3>2. QED
      BY <3>1, Minimal
  <2>2. SumOver(w, R) \in Nat /\ IsFiniteSet(R)
    BY FS_Subset, SumIsNat
  <2>3. T # R
    BY <2>1, <2>2
  <2>4. PICK x \in T : x \notin R
    BY <2>1, <2>3
  <2>5. T \ {x} \in SUBSET S /\ R \subseteq T \ {x}
    BY <2>1, <2>4
  <2>6. Fine(T \ {x})
    BY <2>1, <2>5
  <2>7. SumOver(w, T) = w[x] + SumOver(w, T \ {x})
    BY <2>1, SumRemove
  <2>8. SumOver(w, T \ {x}) \in Nat /\ w[x] \in Nat
    BY <2>1, <2>5, FS_Subset, SumIsNat
  <2>9. Fine(T)
    BY <2>2, <2>4, <2>6, <2>7, <2>8
  <2>10. QED
    BY <2>1, <2>9
<1>2. Fine(S)
  BY <1>1
<1>3. QED
  BY <1>2

(***************************************************************************)
(* Every term is at most the sum, and a sum that is not 0 has a term that  *)
(* is not.                                                                 *)
(***************************************************************************)
LEMMA SumBoundsTerms ==
  ASSUME NEW S, IsFiniteSet(S), NEW w, \A x \in S : w[x] \in Nat
  PROVE  /\ \A x \in S : w[x] <= SumOver(w, S)
         /\ SumOver(w, S) > 0 => \E x \in S : w[x] > 0
<1>1. ASSUME NEW x \in S
      PROVE  w[x] <= SumOver(w, S)
  <2>1. SumOver(w, S) = w[x] + SumOver(w, S \ {x})
    BY SumRemove
  <2>2. SumOver(w, S \ {x}) \in Nat
    BY FS_RemoveElement, SumIsNat
  <2>3. QED
    BY <2>1, <2>2
<1>2. ASSUME \A x \in S : ~ w[x] > 0
      PROVE  SumOver(w, S) = 0
  <2>1. \A x \in S \ {} : w[x] = 0
    BY <1>2
  <2>2. SumOver(w, {}) = SumOver(w, S)
    BY <2>1, SumOfSubset
  <2>3. QED
    BY <2>2, SumEmpty
<1>3. QED
  BY <1>1, <1>2

(***************************************************************************)
(* The sum of equal terms.                                                 *)
(***************************************************************************)
LEMMA SumConstant ==
  ASSUME NEW S, IsFiniteSet(S), NEW w, NEW k \in Nat, \A x \in S : w[x] = k
  PROVE  SumOver(w, S) = Cardinality(S) * k
<1> DEFINE B == {T \in SUBSET S : SumOver(w, T) # Cardinality(T) * k}
<1>1. B = {}
  <2> SUFFICES ASSUME B # {}
               PROVE  FALSE
    OBVIOUS
  <2>1. PICK T \in B : IsFiniteSet(T) /\ \A x \in T : T \ {x} \notin B
    <3>1. B \in SUBSET (SUBSET S)
      OBVIOUS
    <3> HIDE DEF B
    <3>2. QED
      BY <3>1, Minimal
  <2>2. CASE T = {}
    BY <2>1, <2>2, SumEmpty, FS_EmptySet
  <2>3. CASE T # {}
    <3> DEFINE R == T \ {Any(T)}
               n == Cardinality(R)
    <3>1. Any(T) \in T
      BY <2>3 DEF Any
    <3>2. SumOver(w, R) = n * k
      BY <2>1, <3>1
    <3>3. SumOver(w, T) = k + SumOver(w, R)
      BY <2>1, <2>3, <3>1, SumUnfolds
    <3>4. n \in Nat /\ Cardinality(T) = n + 1
      <4>1. IsFiniteSet(R) /\ n = Cardinality(T) - 1
        BY <2>1, <3>1, FS_RemoveElement
      <4>2. n \in Nat /\ Cardinality(T) \in Nat
        BY <2>1, <4>1, FS_CardinalityType
      <4>3. QED
        BY <4>1, <4>2
    <3> HIDE DEF n
    <3>5. (n + 1) * k = k + n * k
      BY <3>4
    <3>6. QED
      BY <2>1, <3>2, <3>3, <3>4, <3>5
  <2>4. QED
    BY <2>2, <2>3
<1>2. QED
  BY <1>1

(***************************************************************************)
(* The elements may be named by others, one to one.                        *)
(***************************************************************************)
LEMMA SumRenamed ==
  ASSUME NEW S, IsFiniteSet(S), NEW v, NEW w, NEW f,
         \A x \in S : v[x] = w[f[x]] /\ w[f[x]] \in Nat,
         \A x, y \in S : f[x] = f[y] => x = y
  PROVE  SumOver(v, S) = SumOver(w, {f[x] : x \in S})
<1> DEFINE Image(T) == {f[x] : x \in T}
           B == {T \in SUBSET S : SumOver(v, T) # SumOver(w, Image(T))}
<1>1. ASSUME NEW T \in SUBSET S
      PROVE  IsFiniteSet(Image(T))
  <2>1. IsFiniteSet(T)
    BY FS_Subset
  <2>2. [x \in T |-> f[x]] \in Surjection(T, Image(T))
    BY DEF Surjection
  <2>3. QED
    BY <2>1, <2>2, FS_Surjection
<1>2. B = {}
  <2> SUFFICES ASSUME B # {}
               PROVE  FALSE
    OBVIOUS
  <2>1. PICK T \in B : IsFiniteSet(T) /\ \A x \in T : T \ {x} \notin B
    <3>1. B \in SUBSET (SUBSET S)
      OBVIOUS
    <3> HIDE DEF B
    <3>2. QED
      BY <3>1, Minimal
  <2>2. CASE T = {}
    <3>1. Image(T) = {}
      BY <2>2
    <3>2. QED
      BY <2>1, <2>2, <3>1, SumEmpty
  <2>3. CASE T # {}
    <3> DEFINE a == Any(T)
               R == T \ {a}
    <3>1. a \in T
      BY <2>3 DEF Any
    <3>2. SumOver(v, R) = SumOver(w, Image(R))
      BY <2>1, <3>1
    <3>3. SumOver(v, T) = v[a] + SumOver(v, R)
      BY <2>1, <2>3, SumUnfolds
    <3> HIDE DEF a
    <3>4. f[a] \in Image(T) /\ Image(T) \ {f[a]} = Image(R)
      BY <2>1, <3>1
    <3>5. IsFiniteSet(Image(T)) /\ \A y \in Image(T) : w[y] \in Nat
      BY <1>1, <2>1
    <3>6. SumOver(w, Image(T)) = w[f[a]] + SumOver(w, Image(R))
      <4> DEFINE I == Image(T)
      <4> HIDE DEF I
      <4>1. SumOver(w, I) = w[f[a]] + SumOver(w, I \ {f[a]})
        BY <3>4, <3>5, SumRemove DEF I
      <4>2. QED
        BY <3>4, <4>1 DEF I
    <3>7. v[a] = w[f[a]]
      BY <2>1, <3>1
    <3>8. QED
      BY <2>1, <3>2, <3>3, <3>6, <3>7
  <2>4. QED
    BY <2>2, <2>3
<1>3. QED
  BY <1>2

(***************************************************************************)
(* The sum over S is that of the sums over the classes a makes of S.       *)
(***************************************************************************)
LEMMA SumOfParts ==
  ASSUME NEW S, IsFiniteSet(S), NEW w, \A x \in S : w[x] \in Nat,
         NEW C, IsFiniteSet(C), NEW a, \A x \in S : a[x] \in C
  PROVE  SumOver([c \in C |-> SumOver(w, {x \in S : a[x] = c})], C) = SumOver(w, S)
<1> DEFINE Class(T, c) == {x \in T : a[x] = c}
           Sums(T) == [c \in C |-> SumOver(w, Class(T, c))]
           B == {T \in SUBSET S : SumOver(Sums(T), C) # SumOver(w, T)}
<1>1. ASSUME NEW T \in SUBSET S
      PROVE  \A c \in C : Sums(T)[c] \in Nat
  <2> SUFFICES ASSUME NEW c \in C
               PROVE  SumOver(w, Class(T, c)) \in Nat
    OBVIOUS
  <2>1. Class(T, c) \in SUBSET S
    OBVIOUS
  <2>2. IsFiniteSet(Class(T, c)) /\ \A x \in Class(T, c) : w[x] \in Nat
    BY <2>1, FS_Subset
  <2> HIDE DEF Class
  <2>3. QED
    BY <2>2, SumIsNat
<1>2. B = {}
  <2> SUFFICES ASSUME B # {}
               PROVE  FALSE
    OBVIOUS
  <2>1. PICK T \in B : IsFiniteSet(T) /\ \A x \in T : T \ {x} \notin B
    <3>1. B \in SUBSET (SUBSET S)
      OBVIOUS
    <3> HIDE DEF B
    <3>2. QED
      BY <3>1, Minimal
  <2>2. CASE T = {}
    <3>1. \A c \in C : Class(T, c) = {}
      BY <2>2
    <3>2. \A c \in C : Sums(T)[c] = 0
      BY <3>1, SumEmpty
    <3>3. SumOver(Sums(T), C) = SumOver(Sums(T), {})
      <4> HIDE DEF Sums
      <4>1. SumOver(Sums(T), {}) = SumOver(Sums(T), C)
        BY <3>2, SumOfSubset
      <4>2. QED
        BY <4>1
    <3>4. SumOver(Sums(T), C) = SumOver(w, T)
      BY <2>2, <3>3, SumEmpty
    <3>5. QED
      BY <2>1, <3>4
  <2>3. CASE T # {}
    <3>1. PICK x \in T : TRUE
      BY <2>3
    <3> DEFINE R == T \ {x}
               d == a[x]
    <3>2. d \in C /\ w[x] \in Nat
      BY <2>1
    <3>3. SumOver(Sums(R), C) = SumOver(w, R)
      BY <2>1, <3>1
    <3>4. SumOver(w, T) = w[x] + SumOver(w, R)
      <4>1. \A y \in T : w[y] \in Nat
        BY <2>1
      <4>2. QED
        BY <2>1, <4>1, SumRemove
    <3>5. Sums(T)[d] = w[x] + Sums(R)[d]
      <4>1. Class(T, d) \ {x} = Class(R, d) /\ x \in Class(T, d)
        OBVIOUS
      <4>2. IsFiniteSet(Class(T, d)) /\ \A y \in Class(T, d) : w[y] \in Nat
        BY <2>1, FS_Subset
      <4>3. SumOver(w, Class(T, d)) = w[x] + SumOver(w, Class(R, d))
        <5> DEFINE D == Class(T, d)
        <5> HIDE DEF D
        <5>1. SumOver(w, D) = w[x] + SumOver(w, D \ {x})
          BY <4>1, <4>2, SumRemove DEF D
        <5>2. QED
          BY <4>1, <5>1 DEF D
      <4>4. QED
        BY <3>2, <4>3
    <3>6. \A c \in C \ {d} : Sums(T)[c] = Sums(R)[c]
      <4>1. \A c \in C \ {d} : Class(T, c) = Class(R, c)
        OBVIOUS
      <4>2. QED
        BY <4>1
    <3>7. \A c \in C : Sums(T)[c] \in Nat /\ Sums(R)[c] \in Nat
      <4>1. T \in SUBSET S /\ R \in SUBSET S
        BY <2>1
      <4> HIDE DEF Sums, R
      <4>2. QED
        BY <1>1, <4>1
    <3>8. IsFiniteSet(C \ {d})
      BY FS_RemoveElement
    <3> DEFINE t == Sums(T)
               r == Sums(R)
               D == C \ {d}
    <3>9. /\ \A c \in C : t[c] \in Nat /\ r[c] \in Nat
          /\ \A c \in D : t[c] = r[c]
          /\ t[d] = w[x] + r[d]
          /\ SumOver(r, C) = SumOver(w, R)
      BY <3>3, <3>5, <3>6, <3>7
    <3> HIDE DEF t, r, d
    <3>10. SumOver(t, C) = t[d] + SumOver(t, D) /\ SumOver(r, C) = r[d] + SumOver(r, D)
      <4> HIDE DEF Sums
      <4>1. SumOver(t, C) = t[d] + SumOver(t, D)
        BY <3>2, <3>9, SumRemove
      <4>2. SumOver(r, C) = r[d] + SumOver(r, D)
        BY <3>2, <3>9, SumRemove
      <4>3. QED
        BY <4>1, <4>2
    <3>11. SumOver(t, D) = SumOver(r, D)
      BY <3>8, <3>9, SumSame
    <3>12. SumOver(r, D) \in Nat /\ r[d] \in Nat
      BY <3>2, <3>8, <3>9, SumIsNat
    <3>13. SumOver(t, C) = SumOver(w, T)
      BY <3>2, <3>4, <3>9, <3>10, <3>11, <3>12
    <3>14. QED
      BY <2>1, <3>13 DEF t
  <2>4. QED
    BY <2>2, <2>3
<1>3. QED
  BY <1>2

(***************************************************************************)
(* The same, of classes K[c] and sums v[c] given by name.                  *)
(***************************************************************************)
LEMMA SumOfClasses ==
  ASSUME NEW S, IsFiniteSet(S), NEW w, \A x \in S : w[x] \in Nat,
         NEW C, IsFiniteSet(C), NEW a, \A x \in S : a[x] \in C,
         NEW K \in [C -> SUBSET S], \A c \in C, x \in S : x \in K[c] <=> a[x] = c,
         NEW v, \A c \in C : v[c] = SumOver(w, K[c])
  PROVE  SumOver(v, C) = SumOver(w, S)
<1> DEFINE u == [c \in C |-> SumOver(w, {x \in S : a[x] = c})]
<1>1. SumOver(u, C) = SumOver(w, S)
  BY SumOfParts
<1>2. \A c \in C : u[c] = v[c]
  <2>1. \A c \in C : {x \in S : a[x] = c} = K[c]
    OBVIOUS
  <2>2. QED
    BY <2>1
<1> HIDE DEF u
<1>3. SumOver(u, C) = SumOver(v, C)
  BY <1>2, SumSame
<1>4. QED
  BY <1>1, <1>3
=============================================================================
