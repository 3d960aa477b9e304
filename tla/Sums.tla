--------------------------------- MODULE Sums ---------------------------------
(***************************************************************************)
(* Sums over finite sets, for the proofs of the other modules: what         *)
(* SumFunctionOnSet is, when one term changes, is added or taken out.       *)
(*                                                                         *)
(* The provers cannot instantiate an induction theorem that takes an        *)
(* operator, so induction is over a set T of numbers, from the well-founded *)
(* order of Nat; and they see a recursive definition only through the       *)
(* equation of a function on the subsets of S, written Sums below.          *)
(***************************************************************************)
EXTENDS Integers, FiniteSets, Functions, FiniteSetTheorems, WellFoundedInduction, TLAPS

(* Every set of numbers that is not empty has a least one.                  *)
LEMMA LeastNumber ==
  ASSUME NEW T, T \subseteq Nat, T # {}
  PROVE  \E n \in T : \A m \in T : n <= m
<1> DEFINE R == {ss \in Nat \X Nat : ss[1] < ss[2]}
<1>1. IsWellFoundedOn(R, Nat)  BY NatLessThanWellFounded DEF OpToRel
<1>2. PICK x \in T : \A y \in T : ~ (<<y, x>> \in R)  BY <1>1, WFMin
<1>3. ASSUME NEW m \in T PROVE x <= m
  <2>1. x \in Nat /\ m \in Nat  OBVIOUS
  <2>2. ~ (<<m, x>> \in R)  BY <1>2
  <2>3. ~ (m < x)  BY <2>1, <2>2
  <2> QED  BY <2>1, <2>3
<1> QED  BY <1>3

(* Induction over a set of numbers.                                         *)
LEMMA SetInduction ==
  ASSUME NEW T, 0 \in T, \A n \in Nat : n \in T => n + 1 \in T
  PROVE  \A n \in Nat : n \in T
<1> DEFINE U == Nat \ T
<1>1. SUFFICES ASSUME U # {} PROVE FALSE  OBVIOUS
<1>2. PICK n \in U : \A m \in U : n <= m  BY <1>1, LeastNumber
<1>3. n # 0 /\ n - 1 \in Nat  BY <1>2
<1>4. n - 1 \in T  BY <1>2, <1>3
<1> QED  BY <1>2, <1>3, <1>4

-----------------------------------------------------------------------------
(* g[A] is the sum of f over A, for every subset A of S.                    *)
AnyOf(A) == CHOOSE x \in A : TRUE

Unfolded(f, g, A) ==
  IF A = {} THEN 0 ELSE f[AnyOf(A)] + g[A \ {AnyOf(A)}]

Sums(f, S, g) ==
  g = [A \in SUBSET S |-> Unfolded(f, g, A)]

(* What is left of a set without one of its elements.                       *)
LEMMA SmallerSet ==
  ASSUME NEW A, IsFiniteSet(A), NEW x \in A
  PROVE  /\ IsFiniteSet(A \ {x})
         /\ Cardinality(A) \in Nat \ {0}
         /\ Cardinality(A \ {x}) \in Nat
         /\ Cardinality(A \ {x}) = Cardinality(A) - 1
<1>1. IsFiniteSet(A \ {x}) /\ Cardinality(A \ {x}) = Cardinality(A) - 1  BY FS_RemoveElement
<1>2. Cardinality(A) \in Nat /\ Cardinality(A \ {x}) \in Nat  BY <1>1, FS_CardinalityType
<1> QED  BY <1>1, <1>2

(* The equation of a sum, at one subset.                                    *)
LEMMA SumsAt ==
  ASSUME NEW f, NEW S, NEW g, Sums(f, S, g), NEW A \in SUBSET S
  PROVE  g[A] = Unfolded(f, g, A)
BY DEF Sums

(* The element that is taken out first is one of the set.                   *)
LEMMA AnyOfIn == ASSUME NEW A, A # {} PROVE AnyOf(A) \in A  BY DEF AnyOf

(* There is such a function: it is built for larger and larger subsets.     *)
LEMMA SumsExist ==
  ASSUME NEW S, IsFiniteSet(S), NEW f, \A x \in S : f[x] \in Int
  PROVE  \E g : Sums(f, S, g)
<1> DEFINE Body(g, A) == Unfolded(f, g, A)
           UpTo(n) == \E g : g = [A \in SUBSET S |-> g[A]] /\ \A A \in SUBSET S : Cardinality(A) <= n => g[A] = Body(g, A)
           T == {n \in Nat : UpTo(n)}
<1>0. \A A \in SUBSET S : IsFiniteSet(A) /\ Cardinality(A) \in Nat  BY FS_Subset, FS_CardinalityType
<1>1. 0 \in T
  <2> DEFINE g == [A \in SUBSET S |-> 0]
  <2>1. \A A \in SUBSET S : Cardinality(A) <= 0 => A = {}  BY <1>0, FS_EmptySet
  <2>2. \A A \in SUBSET S : Cardinality(A) <= 0 => g[A] = Body(g, A)  BY <2>1 DEF Unfolded
  <2>3. g = [A \in SUBSET S |-> g[A]]  OBVIOUS
  <2> HIDE DEF g, Body
  <2> QED  BY <2>2, <2>3
<1>2. ASSUME NEW n \in Nat, n \in T PROVE n + 1 \in T
  <2>1. PICK g : g = [A \in SUBSET S |-> g[A]] /\ \A A \in SUBSET S : Cardinality(A) <= n => g[A] = Body(g, A)
    BY <1>2
  <2> DEFINE h == [A \in SUBSET S |-> IF Cardinality(A) <= n THEN g[A] ELSE Body(g, A)]
  <2>2. ASSUME NEW A \in SUBSET S, Cardinality(A) <= n + 1 PROVE h[A] = Body(h, A)
    <3>1. CASE A = {}
      <4>1. Cardinality(A) <= n  BY <3>1, FS_EmptySet
      <4>2. h[A] = g[A] /\ g[A] = Body(g, A)  BY <4>1, <2>1
      <4> QED  BY <4>2, <3>1 DEF Unfolded
    <3>2. CASE A # {}
      <4> DEFINE x == AnyOf(A)
                 B == A \ {x}
      <4>1. x \in A  BY <3>2, AnyOfIn
      <4>2. Cardinality(B) = Cardinality(A) - 1 /\ Cardinality(B) \in Nat /\ B \in SUBSET S
        BY <4>1, <1>0, SmallerSet
      <4>3. Cardinality(B) <= n  BY <4>2, <2>2, <1>0
      <4>4. h[B] = g[B]  BY <4>2, <4>3
      <4>5. h[A] = Body(g, A)
        <5>1. CASE Cardinality(A) <= n  BY <5>1, <2>1
        <5>2. CASE ~(Cardinality(A) <= n)  BY <5>2
        <5> QED  BY <5>1, <5>2
      <4> QED  BY <4>4, <4>5, <3>2 DEF Unfolded
    <3> QED  BY <3>1, <3>2
  <2>3. h = [A \in SUBSET S |-> h[A]]  OBVIOUS
  <2>4. UpTo(n + 1)
    <3> HIDE DEF h, Body
    <3> QED  BY <2>2, <2>3
  <2> HIDE DEF UpTo
  <2> QED  BY <2>4
<1> HIDE DEF T
<1>3. Cardinality(S) \in T  BY <1>0, <1>1, <1>2, SetInduction
<1>4. PICK g : g = [A \in SUBSET S |-> g[A]] /\ \A A \in SUBSET S : Cardinality(A) <= Cardinality(S) => g[A] = Body(g, A)
  BY <1>3 DEF T
<1>5. \A A \in SUBSET S : Cardinality(A) <= Cardinality(S)  BY FS_Subset
<1>6. g = [A \in SUBSET S |-> Body(g, A)]
  <2> HIDE DEF Body
  <2> QED BY <1>4, <1>5
<1> QED  BY <1>6 DEF Sums

(* The sum over A depends only on the terms of A.                           *)
LEMMA SumsAgree ==
  ASSUME NEW S1, NEW f1, NEW g1, Sums(f1, S1, g1),
         NEW S2, NEW f2, NEW g2, Sums(f2, S2, g2),
         NEW A, IsFiniteSet(A), A \subseteq S1, A \subseteq S2, \A x \in A : f1[x] = f2[x]
  PROVE  g1[A] = g2[A]
<1> DEFINE T == {n \in Nat : \A B \in SUBSET A : Cardinality(B) = n => g1[B] = g2[B]}
<1>0. \A B \in SUBSET A : IsFiniteSet(B) /\ Cardinality(B) \in Nat  BY FS_Subset, FS_CardinalityType
<1>1. 0 \in T
  <2>1. \A B \in SUBSET A : Cardinality(B) = 0 => B = {}  BY <1>0, FS_EmptySet
  <2>2. g1[{}] = 0 /\ g2[{}] = 0  BY SumsAt DEF Unfolded
  <2> QED  BY <2>1, <2>2
<1>2. ASSUME NEW n \in Nat, n \in T PROVE n + 1 \in T
  <2>1. ASSUME NEW B \in SUBSET A, Cardinality(B) = n + 1 PROVE g1[B] = g2[B]
    <3> DEFINE x == AnyOf(B)
    <3>0. B \in SUBSET S1 /\ B \in SUBSET S2  OBVIOUS
    <3>1. B # {}  BY <2>1, FS_EmptySet
    <3>2. x \in B  BY <3>1, AnyOfIn
    <3>3. Cardinality(B \ {x}) = n /\ B \ {x} \in SUBSET A  BY <3>2, <2>1, <1>0, SmallerSet
    <3>4. g1[B \ {x}] = g2[B \ {x}]  BY <3>3, <1>2
    <3>5. g1[B] = f1[x] + g1[B \ {x}]
      <4>1. g1[B] = Unfolded(f1, g1, B)  BY <3>0, SumsAt
      <4> QED  BY <4>1, <3>1 DEF Unfolded
    <3>6. g2[B] = f2[x] + g2[B \ {x}]
      <4>1. g2[B] = Unfolded(f2, g2, B)  BY <3>0, SumsAt
      <4> QED  BY <4>1, <3>1 DEF Unfolded
    <3>7. f1[x] = f2[x]  BY <3>2
    <3> HIDE DEF x
    <3> QED  BY <3>4, <3>5, <3>6, <3>7
  <2> QED  BY <2>1
<1> HIDE DEF T
<1>3. Cardinality(A) \in T  BY <1>0, <1>1, <1>2, SetInduction
<1> QED  BY <1>3 DEF T

(* A sum of integers is an integer.                                         *)
LEMMA SumsType ==
  ASSUME NEW S, NEW f, NEW g, Sums(f, S, g),
         NEW A \in SUBSET S, IsFiniteSet(A), \A x \in A : f[x] \in Int
  PROVE  g[A] \in Int
<1> DEFINE T == {n \in Nat : \A B \in SUBSET A : Cardinality(B) = n => g[B] \in Int}
<1>0. \A B \in SUBSET A : IsFiniteSet(B) /\ Cardinality(B) \in Nat  BY FS_Subset, FS_CardinalityType
<1>1. 0 \in T
  <2>1. \A B \in SUBSET A : Cardinality(B) = 0 => B = {}  BY <1>0, FS_EmptySet
  <2>2. g[{}] = 0  BY SumsAt DEF Unfolded
  <2> QED  BY <2>1, <2>2
<1>2. ASSUME NEW n \in Nat, n \in T PROVE n + 1 \in T
  <2>1. ASSUME NEW B \in SUBSET A, Cardinality(B) = n + 1 PROVE g[B] \in Int
    <3> DEFINE x == AnyOf(B)
    <3>0. B \in SUBSET S  OBVIOUS
    <3>1. B # {}  BY <2>1, FS_EmptySet
    <3>2. x \in B  BY <3>1, AnyOfIn
    <3>3. Cardinality(B \ {x}) = n /\ B \ {x} \in SUBSET A  BY <3>2, <2>1, <1>0, SmallerSet
    <3>4. g[B \ {x}] \in Int  BY <3>3, <1>2
    <3>5. g[B] = f[x] + g[B \ {x}]
      <4>1. g[B] = Unfolded(f, g, B)  BY <3>0, SumsAt
      <4> QED  BY <4>1, <3>1 DEF Unfolded
    <3>7. f[x] \in Int  BY <3>2
    <3> HIDE DEF x
    <3> QED  BY <3>4, <3>5, <3>7
  <2> QED  BY <2>1
<1> HIDE DEF T
<1>3. Cardinality(A) \in T  BY <1>0, <1>1, <1>2, SetInduction
<1> QED  BY <1>3 DEF T

(* The order does not matter: any element may be taken out first.           *)
LEMMA SumsSplit ==
  ASSUME NEW S, NEW f, NEW g, Sums(f, S, g),
         NEW A \in SUBSET S, IsFiniteSet(A), \A x \in A : f[x] \in Int,
         NEW a \in A
  PROVE  g[A] = f[a] + g[A \ {a}]
<1> DEFINE T == {n \in Nat : \A B \in SUBSET A : Cardinality(B) = n => \A y \in B : g[B] = f[y] + g[B \ {y}]}
<1>0. \A B \in SUBSET A : IsFiniteSet(B) /\ Cardinality(B) \in Nat  BY FS_Subset, FS_CardinalityType
<1>1. 0 \in T
  <2>1. \A B \in SUBSET A : Cardinality(B) = 0 => B = {}  BY <1>0, FS_EmptySet
  <2> QED  BY <2>1
<1>2. ASSUME NEW n \in Nat, n \in T PROVE n + 1 \in T
  <2>1. ASSUME NEW B \in SUBSET A, Cardinality(B) = n + 1, NEW y \in B PROVE g[B] = f[y] + g[B \ {y}]
    <3> DEFINE x == AnyOf(B)
               C == B \ {x}
               D == B \ {y}
               E == C \ {y}
    <3>1. B # {} /\ x \in B /\ B \in SUBSET S  BY AnyOfIn
    <3>2. g[B] = f[x] + g[C]
      <4>1. g[B] = Unfolded(f, g, B)  BY <3>1, SumsAt
      <4> QED  BY <4>1, <3>1 DEF Unfolded
    <3>3. CASE x = y  BY <3>2, <3>3
    <3>4. CASE x # y
      <4>1. Cardinality(C) = n /\ Cardinality(D) = n /\ C \in SUBSET A /\ D \in SUBSET A
        BY <3>1, <2>1, <1>0, SmallerSet
      <4>2. y \in C /\ x \in D /\ D \ {x} = E  BY <3>1, <3>4
      <4>3. g[C] = f[y] + g[E]  BY <4>1, <4>2, <1>2
      <4>4. g[D] = f[x] + g[D \ {x}]  BY <4>1, <4>2, <1>2
      <4>7. g[D \ {x}] = g[E]  BY <4>2
      <4>5. f[x] \in Int /\ f[y] \in Int  BY <3>1
      <4>6. g[E] \in Int
        <5>1. IsFiniteSet(E) /\ E \in SUBSET S /\ \A z \in E : f[z] \in Int  BY <1>0
        <5> HIDE DEF E
        <5> QED  BY <5>1, SumsType
      <4>8. \A p, q, r \in Int : p + (q + r) = q + (p + r)  OBVIOUS
      <4>9. g[B] = f[x] + (f[y] + g[E])  BY <3>2, <4>3
      <4>10. f[y] + g[D] = f[y] + (f[x] + g[E])  BY <4>4, <4>7
      <4>11. g[D] = g[B \ {y}]  OBVIOUS
      <4> HIDE DEF x, C, D, E
      <4> QED  BY <4>5, <4>6, <4>8, <4>9, <4>10, <4>11
    <3> QED  BY <3>3, <3>4
  <2> QED  BY <2>1
<1> HIDE DEF T
<1>3. Cardinality(A) \in T  BY <1>0, <1>1, <1>2, SetInduction
<1> QED  BY <1>3 DEF T


-----------------------------------------------------------------------------
(* SumFunctionOnSet is such a sum. *)

SumsOf(f, S) == CHOOSE g : Sums(f, S, g)

(* The recursive definition of the library is such a function.              *)
LEMMA SumUnfold ==
  ASSUME NEW f, NEW S, IsFiniteSet(S), \A x \in S : f[x] \in Int
  PROVE  \E g : Sums(f, S, g) /\ SumFunctionOnSet(f, S) = g[S]
<1>1. SumFunctionOnSet(f, S) = SumsOf(f, S)[S]
  BY DEF SumFunctionOnSet, FoldFunctionOnSet, MapThenFoldSet, SumsOf, Sums, Unfolded, AnyOf
<1>2. \E g : Sums(f, S, g)  BY SumsExist
<1>3. Sums(f, S, SumsOf(f, S))  BY <1>2 DEF SumsOf
<1> QED  BY <1>1, <1>3

(* Nothing adds up to 0.                                                    *)
THEOREM SumEmpty == ASSUME NEW f PROVE SumFunctionOnSet(f, {}) = 0
<1>1. IsFiniteSet({})  BY FS_EmptySet
<1>2. PICK g : Sums(f, {}, g) /\ SumFunctionOnSet(f, {}) = g[{}]  BY <1>1, SumUnfold
<1> QED  BY <1>2, SumsAt DEF Unfolded

(* A sum of integers is an integer.                                         *)
THEOREM SumType ==
  ASSUME NEW f, NEW S, IsFiniteSet(S), \A x \in S : f[x] \in Int
  PROVE  SumFunctionOnSet(f, S) \in Int
<1>1. PICK g : Sums(f, S, g) /\ SumFunctionOnSet(f, S) = g[S]  BY SumUnfold
<1> QED  BY <1>1, SumsType

(* Equal terms have equal sums.                                             *)
THEOREM SumEqual ==
  ASSUME NEW f, NEW h, NEW S, IsFiniteSet(S), \A x \in S : f[x] \in Int /\ h[x] = f[x]
  PROVE  SumFunctionOnSet(h, S) = SumFunctionOnSet(f, S)
<1>1. PICK g : Sums(f, S, g) /\ SumFunctionOnSet(f, S) = g[S]  BY SumUnfold
<1>2. PICK k : Sums(h, S, k) /\ SumFunctionOnSet(h, S) = k[S]  BY SumUnfold
<1> QED  BY <1>1, <1>2, SumsAgree

(* One term taken out, whichever it is.                                     *)
THEOREM SumTakeOne ==
  ASSUME NEW f, NEW S, IsFiniteSet(S), \A x \in S : f[x] \in Int, NEW a \in S
  PROVE  SumFunctionOnSet(f, S) = f[a] + SumFunctionOnSet(f, S \ {a})
<1> DEFINE R == S \ {a}
<1>1. IsFiniteSet(R) /\ R \subseteq S /\ \A x \in R : f[x] \in Int  BY FS_Subset
<1>2. PICK g : Sums(f, S, g) /\ SumFunctionOnSet(f, S) = g[S]  BY SumUnfold
<1>3. PICK k : Sums(f, R, k) /\ SumFunctionOnSet(f, R) = k[R]
  <2> HIDE DEF R
  <2> QED  BY <1>1, SumUnfold
<1>4. g[S] = f[a] + g[R]  BY <1>2, SumsSplit
<1>5. g[R] = k[R]
  <2> HIDE DEF R
  <2> QED  BY <1>1, <1>2, <1>3, SumsAgree
<1> QED  BY <1>2, <1>3, <1>4, <1>5

(* One term changed: the sum changes by as much.                            *)
THEOREM SumChangeOne ==
  ASSUME NEW f, NEW h, NEW S, IsFiniteSet(S), \A x \in S : f[x] \in Int /\ h[x] \in Int,
         NEW a \in S, \A x \in S \ {a} : h[x] = f[x]
  PROVE  SumFunctionOnSet(h, S) = SumFunctionOnSet(f, S) + (h[a] - f[a])
<1> DEFINE R == S \ {a}
<1>1. IsFiniteSet(R) /\ \A x \in R : f[x] \in Int /\ h[x] = f[x]  BY FS_Subset
<1>2. SumFunctionOnSet(h, R) = SumFunctionOnSet(f, R) /\ SumFunctionOnSet(f, R) \in Int
  <2> HIDE DEF R
  <2> QED  BY <1>1, SumEqual, SumType
<1>3. SumFunctionOnSet(f, S) = f[a] + SumFunctionOnSet(f, R)  BY SumTakeOne
<1>4. SumFunctionOnSet(h, S) = h[a] + SumFunctionOnSet(h, R)  BY SumTakeOne
<1>5. f[a] \in Int /\ h[a] \in Int  OBVIOUS
<1> HIDE DEF R
<1> QED  BY <1>2, <1>3, <1>4, <1>5

(* One term more.                                                           *)
THEOREM SumAddOne ==
  ASSUME NEW f, NEW S, IsFiniteSet(S), NEW a, a \notin S, \A x \in S \cup {a} : f[x] \in Int
  PROVE  SumFunctionOnSet(f, S \cup {a}) = f[a] + SumFunctionOnSet(f, S)
<1> DEFINE R == S \cup {a}
<1>1. IsFiniteSet(R) /\ a \in R /\ R \ {a} = S /\ \A x \in R : f[x] \in Int  BY FS_AddElement
<1>2. SumFunctionOnSet(f, R) = f[a] + SumFunctionOnSet(f, R \ {a})
  <2> HIDE DEF R
  <2> QED  BY <1>1, SumTakeOne
<1> QED  BY <1>1, <1>2

(* Zeros add up to 0.                                                       *)
THEOREM SumZero ==
  ASSUME NEW f, NEW S, IsFiniteSet(S), \A x \in S : f[x] = 0
  PROVE  SumFunctionOnSet(f, S) = 0
<1> DEFINE T == {n \in Nat : \A B \in SUBSET S : Cardinality(B) = n => SumFunctionOnSet(f, B) = 0}
<1>0. \A B \in SUBSET S : IsFiniteSet(B) /\ Cardinality(B) \in Nat  BY FS_Subset, FS_CardinalityType
<1>1. 0 \in T
  <2>1. \A B \in SUBSET S : Cardinality(B) = 0 => B = {}  BY <1>0, FS_EmptySet
  <2> QED  BY <2>1, SumEmpty
<1>2. ASSUME NEW n \in Nat, n \in T PROVE n + 1 \in T
  <2>1. ASSUME NEW B \in SUBSET S, Cardinality(B) = n + 1 PROVE SumFunctionOnSet(f, B) = 0
    <3>1. PICK x : x \in B  BY <1>0, <2>1, FS_EmptySet
    <3>2. Cardinality(B \ {x}) = n /\ B \ {x} \in SUBSET S  BY <1>0, <2>1, <3>1, SmallerSet
    <3>3. SumFunctionOnSet(f, B \ {x}) = 0  BY <1>2, <3>2
    <3>4. \A y \in B : f[y] \in Int  OBVIOUS
    <3>5. SumFunctionOnSet(f, B) = f[x] + SumFunctionOnSet(f, B \ {x})
      BY <1>0, <3>1, <3>4, SumTakeOne
    <3> QED  BY <3>1, <3>3, <3>5
  <2> QED  BY <2>1
<1> HIDE DEF T
<1>3. Cardinality(S) \in T  BY <1>0, <1>1, <1>2, SetInduction
<1> QED  BY <1>3 DEF T

(* Numbers that are not negative have a sum that is not.                    *)
THEOREM SumNat ==
  ASSUME NEW f, NEW S, IsFiniteSet(S), \A x \in S : f[x] \in Nat
  PROVE  SumFunctionOnSet(f, S) \in Nat
<1> DEFINE T == {n \in Nat : \A B \in SUBSET S : Cardinality(B) = n => SumFunctionOnSet(f, B) \in Nat}
<1>0. \A B \in SUBSET S : IsFiniteSet(B) /\ Cardinality(B) \in Nat  BY FS_Subset, FS_CardinalityType
<1>1. 0 \in T
  <2>1. \A B \in SUBSET S : Cardinality(B) = 0 => B = {}  BY <1>0, FS_EmptySet
  <2> QED  BY <2>1, SumEmpty
<1>2. ASSUME NEW n \in Nat, n \in T PROVE n + 1 \in T
  <2>1. ASSUME NEW B \in SUBSET S, Cardinality(B) = n + 1 PROVE SumFunctionOnSet(f, B) \in Nat
    <3>1. PICK x : x \in B  BY <1>0, <2>1, FS_EmptySet
    <3>2. Cardinality(B \ {x}) = n /\ B \ {x} \in SUBSET S  BY <1>0, <2>1, <3>1, SmallerSet
    <3>3. SumFunctionOnSet(f, B \ {x}) \in Nat  BY <1>2, <3>2
    <3>4. (\A y \in B : f[y] \in Int) /\ f[x] \in Nat  BY <3>1
    <3>5. SumFunctionOnSet(f, B) = f[x] + SumFunctionOnSet(f, B \ {x})
      BY <1>0, <3>1, <3>4, SumTakeOne
    <3> QED  BY <3>3, <3>4, <3>5
  <2> QED  BY <2>1
<1> HIDE DEF T
<1>3. Cardinality(S) \in T  BY <1>0, <1>1, <1>2, SetInduction
<1> QED  BY <1>3 DEF T

(* Larger terms have a larger sum.                                          *)
THEOREM SumAtMost ==
  ASSUME NEW f, NEW h, NEW S, IsFiniteSet(S),
         \A x \in S : f[x] \in Int /\ h[x] \in Int /\ f[x] <= h[x]
  PROVE  SumFunctionOnSet(f, S) <= SumFunctionOnSet(h, S)
<1> DEFINE T == {n \in Nat : \A B \in SUBSET S : Cardinality(B) = n =>
                               SumFunctionOnSet(f, B) <= SumFunctionOnSet(h, B)}
<1>0. \A B \in SUBSET S : IsFiniteSet(B) /\ Cardinality(B) \in Nat  BY FS_Subset, FS_CardinalityType
<1>1. 0 \in T
  <2>1. \A B \in SUBSET S : Cardinality(B) = 0 => B = {}  BY <1>0, FS_EmptySet
  <2> QED  BY <2>1, SumEmpty
<1>2. ASSUME NEW n \in Nat, n \in T PROVE n + 1 \in T
  <2>1. ASSUME NEW B \in SUBSET S, Cardinality(B) = n + 1
        PROVE  SumFunctionOnSet(f, B) <= SumFunctionOnSet(h, B)
    <3>1. PICK x : x \in B  BY <1>0, <2>1, FS_EmptySet
    <3>0. IsFiniteSet(B)  BY <1>0
    <3>a. Cardinality(B \ {x}) = Cardinality(B) - 1  BY <3>0, <3>1, SmallerSet
    <3> DEFINE C == B \ {x}
    <3>2. Cardinality(C) = n /\ C \in SUBSET S  BY <2>1, <3>a
    <3>3. SumFunctionOnSet(f, C) <= SumFunctionOnSet(h, C)  BY <1>2, <3>2
    <3>4. \A y \in B : f[y] \in Int /\ h[y] \in Int  OBVIOUS
    <3>5. SumFunctionOnSet(f, B) = f[x] + SumFunctionOnSet(f, C)  BY <1>0, <3>1, <3>4, SumTakeOne
    <3>6. SumFunctionOnSet(h, B) = h[x] + SumFunctionOnSet(h, C)  BY <1>0, <3>1, <3>4, SumTakeOne
    <3>7. SumFunctionOnSet(f, C) \in Int /\ SumFunctionOnSet(h, C) \in Int
      <4>1. IsFiniteSet(C) /\ \A y \in C : f[y] \in Int /\ h[y] \in Int  BY <1>0, <3>2
      <4> QED  BY <4>1, SumType
    <3>8. f[x] \in Int /\ h[x] \in Int /\ f[x] <= h[x]  BY <3>1
    <3> HIDE DEF C
    <3> QED  BY <3>3, <3>5, <3>6, <3>7, <3>8
  <2> QED  BY <2>1
<1> HIDE DEF T
<1>3. Cardinality(S) \in T  BY <1>0, <1>1, <1>2, SetInduction
<1> QED  BY <1>3 DEF T

(* Terms that are zero may be left out.                                     *)
THEOREM SumOfSupport ==
  ASSUME NEW f, NEW S, IsFiniteSet(S), NEW A \in SUBSET S,
         \A x \in S : f[x] \in Int, \A x \in S \ A : f[x] = 0
  PROVE  SumFunctionOnSet(f, S) = SumFunctionOnSet(f, A)
<1> DEFINE T == {n \in Nat : \A B \in SUBSET S : Cardinality(B) = n =>
                               SumFunctionOnSet(f, B) = SumFunctionOnSet(f, B \cap A)}
<1>0. \A B \in SUBSET S : IsFiniteSet(B) /\ Cardinality(B) \in Nat  BY FS_Subset, FS_CardinalityType
<1>1. 0 \in T
  <2>1. \A B \in SUBSET S : Cardinality(B) = 0 => B = {} /\ B \cap A = {}  BY <1>0, FS_EmptySet
  <2> QED  BY <2>1
<1>2. ASSUME NEW n \in Nat, n \in T PROVE n + 1 \in T
  <2>1. ASSUME NEW B \in SUBSET S, Cardinality(B) = n + 1
        PROVE  SumFunctionOnSet(f, B) = SumFunctionOnSet(f, B \cap A)
    <3>1. PICK x : x \in B  BY <1>0, <2>1, FS_EmptySet
    <3> DEFINE C == B \ {x}
               D == B \cap A
    <3>2. Cardinality(C) = n /\ C \in SUBSET S  BY <1>0, <2>1, <3>1, SmallerSet
    <3>3. SumFunctionOnSet(f, C) = SumFunctionOnSet(f, C \cap A)  BY <1>2, <3>2
    <3>4. SumFunctionOnSet(f, B) = f[x] + SumFunctionOnSet(f, C)  BY <1>0, <3>1, SumTakeOne
    <3>5. CASE x \in A
      <4>1. IsFiniteSet(D) /\ x \in D /\ \A y \in D : f[y] \in Int  BY <1>0, <3>1, <3>5
      <4>2. SumFunctionOnSet(f, D) = f[x] + SumFunctionOnSet(f, D \ {x})  BY <4>1, SumTakeOne
      <4>3. D \ {x} = C \cap A  OBVIOUS
      <4> QED  BY <3>3, <3>4, <4>2, <4>3
    <3>6. CASE x \notin A
      <4>1. f[x] = 0 /\ C \cap A = D  BY <3>1, <3>6
      <4>2. SumFunctionOnSet(f, C) \in Int
        <5>1. IsFiniteSet(C) /\ \A y \in C : f[y] \in Int  BY <1>0, <3>2
        <5> QED  BY <5>1, SumType
      <4> HIDE DEF C, D
      <4>3. f[x] + SumFunctionOnSet(f, C) = SumFunctionOnSet(f, C)  BY <4>1, <4>2
      <4>4. SumFunctionOnSet(f, B) = SumFunctionOnSet(f, D)  BY <3>3, <3>4, <4>1, <4>3
      <4> QED  BY <4>4 DEF D
    <3> QED  BY <3>5, <3>6
  <2> QED  BY <2>1
<1> HIDE DEF T
<1>3. Cardinality(S) \in T  BY <1>0, <1>1, <1>2, SetInduction
<1>4. SumFunctionOnSet(f, S) = SumFunctionOnSet(f, S \cap A)  BY <1>3 DEF T
<1>5. S \cap A = A  OBVIOUS
<1> QED  BY <1>4, <1>5

(* More terms, none of them negative, make no smaller sum.                  *)
THEOREM SumGrows ==
  ASSUME NEW f, NEW S, IsFiniteSet(S), \A x \in S : f[x] \in Nat, NEW A \in SUBSET S
  PROVE  SumFunctionOnSet(f, A) <= SumFunctionOnSet(f, S)
<1> DEFINE T == {n \in Nat : \A B \in SUBSET S : Cardinality(B) = n =>
                               SumFunctionOnSet(f, B \cap A) <= SumFunctionOnSet(f, B)}
<1>0. \A B \in SUBSET S : /\ IsFiniteSet(B) /\ Cardinality(B) \in Nat
                          /\ SumFunctionOnSet(f, B) \in Nat
  <2>1. \A B \in SUBSET S : IsFiniteSet(B) /\ Cardinality(B) \in Nat  BY FS_Subset, FS_CardinalityType
  <2>2. ASSUME NEW B \in SUBSET S PROVE SumFunctionOnSet(f, B) \in Nat  BY <2>1, SumNat
  <2> QED  BY <2>1, <2>2
<1>1. 0 \in T
  <2>1. \A B \in SUBSET S : Cardinality(B) = 0 => B = {} /\ B \cap A = {}  BY <1>0, FS_EmptySet
  <2> QED  BY <2>1, SumEmpty
<1>2. ASSUME NEW n \in Nat, n \in T PROVE n + 1 \in T
  <2>1. ASSUME NEW B \in SUBSET S, Cardinality(B) = n + 1
        PROVE  SumFunctionOnSet(f, B \cap A) <= SumFunctionOnSet(f, B)
    <3>1. PICK x : x \in B  BY <1>0, <2>1, FS_EmptySet
    <3> DEFINE C == B \ {x}
               D == B \cap A
               E == C \cap A
    <3>2. Cardinality(C) = n /\ C \in SUBSET S  BY <1>0, <2>1, <3>1, SmallerSet
    <3>3. SumFunctionOnSet(f, E) <= SumFunctionOnSet(f, C)  BY <1>2, <3>2
    <3>4. \A y \in B : f[y] \in Int  OBVIOUS
    <3>5. SumFunctionOnSet(f, B) = f[x] + SumFunctionOnSet(f, C)  BY <1>0, <3>1, <3>4, SumTakeOne
    <3>6. f[x] \in Nat /\ SumFunctionOnSet(f, C) \in Nat /\ SumFunctionOnSet(f, E) \in Nat
      BY <1>0, <3>1, <3>2
    <3>7. CASE x \in A
      <4>1. IsFiniteSet(D) /\ x \in D /\ \A y \in D : f[y] \in Int  BY <1>0, <3>1, <3>4, <3>7
      <4>2. SumFunctionOnSet(f, D) = f[x] + SumFunctionOnSet(f, D \ {x})  BY <4>1, SumTakeOne
      <4>3. D \ {x} = E  OBVIOUS
      <4> HIDE DEF C, D, E
      <4>4. SumFunctionOnSet(f, D) <= SumFunctionOnSet(f, B)  BY <3>3, <3>5, <3>6, <4>2, <4>3
      <4> QED  BY <4>4 DEF D
    <3>8. CASE x \notin A
      <4>1. E = D  BY <3>8
      <4> HIDE DEF C, D, E
      <4>2. SumFunctionOnSet(f, D) <= SumFunctionOnSet(f, B)  BY <3>3, <3>5, <3>6, <4>1
      <4> QED  BY <4>2 DEF D
    <3> QED  BY <3>7, <3>8
  <2> QED  BY <2>1
<1> HIDE DEF T
<1>3. Cardinality(S) \in T  BY <1>0, <1>1, <1>2, SetInduction
<1>4. SumFunctionOnSet(f, S \cap A) <= SumFunctionOnSet(f, S)  BY <1>3 DEF T
<1>5. S \cap A = A  OBVIOUS
<1> QED  BY <1>4, <1>5

(* A finite set of numbers that is not empty has a largest one.             *)
LEMMA LargestNumber ==
  ASSUME NEW S, IsFiniteSet(S), S \subseteq Int, S # {}
  PROVE  \E m \in S : \A k \in S : k <= m
<1> DEFINE T == {n \in Nat : \A B \in SUBSET S : Cardinality(B) = n + 1 =>
                               \E m \in B : \A k \in B : k <= m}
<1>0. \A B \in SUBSET S : IsFiniteSet(B) /\ Cardinality(B) \in Nat  BY FS_Subset, FS_CardinalityType
<1>1. 0 \in T
  <2>1. ASSUME NEW B \in SUBSET S, Cardinality(B) = 0 + 1 PROVE \E m \in B : \A k \in B : k <= m
    <3>1. PICK x : x \in B  BY <1>0, <2>1, FS_EmptySet
    <3>2. Cardinality(B \ {x}) = 0 /\ IsFiniteSet(B \ {x})  BY <1>0, <2>1, <3>1, SmallerSet
    <3>3. B \ {x} = {}  BY <3>2, FS_EmptySet
    <3> QED  BY <3>1, <3>3
  <2> QED  BY <2>1
<1>2. ASSUME NEW n \in Nat, n \in T PROVE n + 1 \in T
  <2>1. ASSUME NEW B \in SUBSET S, Cardinality(B) = (n + 1) + 1
        PROVE  \E m \in B : \A k \in B : k <= m
    <3>1. PICK x : x \in B  BY <1>0, <2>1, FS_EmptySet
    <3>2. Cardinality(B \ {x}) = n + 1 /\ B \ {x} \in SUBSET S  BY <1>0, <2>1, <3>1, SmallerSet
    <3>3. PICK m \in B \ {x} : \A k \in B \ {x} : k <= m  BY <1>2, <3>2
    <3>4. m \in Int /\ x \in Int /\ B \subseteq Int  BY <3>1, <3>3
    <3>5. CASE x <= m  BY <3>3, <3>4, <3>5
    <3>6. CASE ~(x <= m)
      <4>1. \A k \in B : k <= x
        <5>1. ASSUME NEW k \in B PROVE k <= x
          <6>1. k = x \/ k <= m  BY <3>3
          <6> QED  BY <3>4, <3>6, <6>1
        <5> QED  BY <5>1
      <4> QED  BY <3>1, <4>1
    <3> QED  BY <3>5, <3>6
  <2> QED  BY <2>1
<1> HIDE DEF T
<1>3. Cardinality(S) # 0 /\ Cardinality(S) \in Nat  BY <1>0, FS_EmptySet
<1>4. Cardinality(S) - 1 \in Nat  BY <1>3
<1>5. \A n \in Nat : n \in T  BY <1>1, <1>2, SetInduction
<1>6. Cardinality(S) - 1 \in T  BY <1>4, <1>5
<1>7. (Cardinality(S) - 1) + 1 = Cardinality(S)  BY <1>3
<1>8. PICK c \in T : c + 1 = Cardinality(S)  BY <1>6, <1>7
<1>9. S \in SUBSET S  OBVIOUS
<1> QED  BY <1>8, <1>9 DEF T

===============================================================================
