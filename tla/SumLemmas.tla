------------------------------ MODULE SumLemmas ------------------------------
(***************************************************************************)
(* What SumFunctionOnSet of the community modules computes on finite sets. *)
(* Its fold takes the elements in an order CHOOSE fixes; that the order    *)
(* does not matter is shown by induction on the size of the set, which is  *)
(* stated with sets, so that no theorem takes an operator as parameter.    *)
(* The last lemma is about sets of at most one element.                    *)
(***************************************************************************)
EXTENDS Integers, FiniteSets, Functions, FiniteSetTheorems, WellFoundedInduction, TLAPS

\* Induction over the natural numbers, for a set of them.
LEMMA NatSetInduction ==
    ASSUME NEW G, 0 \in G, \A n \in Nat : n \in G => n + 1 \in G
    PROVE  \A n \in Nat : n \in G
<1> DEFINE T == {n \in Nat : n \notin G}
<1> SUFFICES ASSUME T # {} PROVE FALSE
  OBVIOUS
<1>1. \A a, b \in Nat : a < b => <<a, b>> \in OpToRel(<, Nat)
  <2>1. \A a, b \in Nat : a < b => <<a, b>> \in {ss \in Nat \X Nat : ss[1] < ss[2]}
    OBVIOUS
  <2> QED
    BY <2>1, Zenon DEF OpToRel
<1>2. T \subseteq Nat /\ \A n \in T : n \notin G
  OBVIOUS
<1>3. \A n \in Nat : n \notin T => n \in G
  OBVIOUS
<1> HIDE DEF T
<1>4. \E t \in T : \A u \in T : ~(<<u, t>> \in OpToRel(<, Nat))
  BY <1>2, NatLessThanWellFounded, WFMin, Zenon
<1>5. PICK t \in T : \A u \in T : ~(u < t)
  BY <1>1, <1>2, <1>4, Zenon
<1>6. t \in Nat /\ t # 0
  BY <1>2
<1>7. t - 1 \in Nat /\ t - 1 < t
  BY <1>6
<1>8. t - 1 \in G
  BY <1>3, <1>5, <1>7
<1> QED
  BY <1>2, <1>6, <1>7, <1>8

\* Induction over the subsets of a finite set, for a set of them.
LEMMA SubsetInduction ==
    ASSUME NEW S, IsFiniteSet(S), NEW G, {} \in G,
           \A T \in SUBSET S, x \in S : T \in G /\ x \notin T => T \cup {x} \in G
    PROVE  \A T \in SUBSET S : T \in G
<1> DEFINE H == {n \in Nat : \A T \in SUBSET S : Cardinality(T) = n => T \in G}
<1>1. \A T \in SUBSET S : IsFiniteSet(T) /\ Cardinality(T) \in Nat
  BY FS_Subset, FS_CardinalityType
<1>2. 0 \in H
  BY <1>1, FS_EmptySet
<1>3. ASSUME NEW n \in Nat, n \in H PROVE n + 1 \in H
  <2> SUFFICES ASSUME NEW T \in SUBSET S, Cardinality(T) = n + 1 PROVE T \in G
    OBVIOUS
  <2>1. T # {}
    <3>1. Cardinality({}) = 0 /\ n + 1 # 0
      BY FS_EmptySet
    <3> QED
      BY <3>1
  <2>2. PICK x : x \in T
    BY <2>1
  <2>3. Cardinality(T \ {x}) = n
    <3>1. IsFiniteSet(T)
      BY <1>1
    <3>2. Cardinality(T \ {x}) = Cardinality(T) - 1
      BY <2>2, <3>1, FS_RemoveElement
    <3> QED
      BY <3>2
  <2>4. T \ {x} \in SUBSET S /\ x \in S /\ (T \ {x}) \cup {x} = T
    BY <2>2
  <2>5. T \ {x} \in G
    BY <1>3, <2>3, <2>4
  <2> QED
    BY <2>4, <2>5
<1> HIDE DEF H
<1>4. \A n \in Nat : n \in H
  BY <1>2, <1>3, NatSetInduction
<1> QED
  BY <1>1, <1>4 DEF H
-----------------------------------------------------------------------------
First(s) == CHOOSE x \in s : TRUE

\* f adds up amount over the subsets of S in the order of First.
Adds(f, amount, S) ==
    f = [s \in SUBSET S |-> IF s = {} THEN 0 ELSE amount[First(s)] + f[s \ {First(s)}]]

LEMMA FirstIn == \A s : s # {} => First(s) \in s
  BY DEF First

\* Up to a size there is a function that adds up.
AddsUpTo(n, f, amount, S) ==
    \A s \in SUBSET S : Cardinality(s) <= n =>
        f[s] = IF s = {} THEN 0 ELSE amount[First(s)] + f[s \ {First(s)}]

LEMMA AdderExists ==
    ASSUME NEW S, IsFiniteSet(S), NEW amount
    PROVE  \E f : Adds(f, amount, S)
<1> DEFINE H == {n \in Nat : \E f : AddsUpTo(n, f, amount, S)}
<1>1. \A s \in SUBSET S : IsFiniteSet(s) /\ Cardinality(s) \in Nat
  BY FS_Subset, FS_CardinalityType
<1>2. \A s \in SUBSET S : Cardinality(s) = 0 <=> s = {}
  BY <1>1, FS_EmptySet
<1>3. \A s \in SUBSET S : s # {} =>
         s \ {First(s)} \in SUBSET S /\ Cardinality(s \ {First(s)}) = Cardinality(s) - 1
  BY <1>1, FirstIn, FS_RemoveElement
<1>4. 0 \in H
  <2>1. AddsUpTo(0, [s \in SUBSET S |-> 0], amount, S)
    BY <1>1, <1>2 DEF AddsUpTo
  <2> QED
    BY <2>1
<1>5. ASSUME NEW n \in Nat, n \in H PROVE n + 1 \in H
  <2>1. PICK f : AddsUpTo(n, f, amount, S)
    BY <1>5
  <2> DEFINE g == [s \in SUBSET S |-> IF s = {} THEN 0 ELSE amount[First(s)] + f[s \ {First(s)}]]
  <2>2. ASSUME NEW s \in SUBSET S, Cardinality(s) <= n PROVE g[s] = f[s]
    BY <2>1, <2>2 DEF AddsUpTo
  <2>3. ASSUME NEW s \in SUBSET S, Cardinality(s) <= n + 1
        PROVE  g[s] = IF s = {} THEN 0 ELSE amount[First(s)] + g[s \ {First(s)}]
    <3>1. CASE s = {}
      BY <3>1
    <3>2. CASE s # {}
      <4>1. s \ {First(s)} \in SUBSET S /\ Cardinality(s \ {First(s)}) <= n
        BY <1>1, <1>3, <2>3, <3>2
      <4> QED
        BY <2>2, <3>2, <4>1
    <3> QED
      BY <3>1, <3>2
  <2> HIDE DEF g
  <2>4. AddsUpTo(n + 1, g, amount, S)
    BY <2>3 DEF AddsUpTo
  <2> QED
    BY <2>4
<1> HIDE DEF H
<1>6. Cardinality(S) \in H
  BY <1>1, <1>4, <1>5, NatSetInduction
<1>7. PICK f : AddsUpTo(Cardinality(S), f, amount, S)
  BY <1>6 DEF H
<1> DEFINE g == [s \in SUBSET S |-> f[s]]
<1>8. \A s \in SUBSET S : Cardinality(s) <= Cardinality(S)
  BY FS_Subset
<1>9. g = [s \in SUBSET S |-> IF s = {} THEN 0 ELSE amount[First(s)] + g[s \ {First(s)}]]
  <2>1. ASSUME NEW s \in SUBSET S
        PROVE  f[s] = IF s = {} THEN 0 ELSE amount[First(s)] + g[s \ {First(s)}]
    <3>1. f[s] = IF s = {} THEN 0 ELSE amount[First(s)] + f[s \ {First(s)}]
      BY <1>7, <1>8 DEF AddsUpTo
    <3>2. s \ {First(s)} \in SUBSET S
      OBVIOUS
    <3> QED
      BY <3>1, <3>2
  <2> QED
    BY <2>1
<1> HIDE DEF g
<1> QED
  BY <1>9 DEF Adds

\* The sum is that of a function that adds up.
LEMMA SumIsAdded ==
    ASSUME NEW S, IsFiniteSet(S), NEW amount
    PROVE  \E f : Adds(f, amount, S) /\ SumFunctionOnSet(amount, S) = f[S]
<1>1. PICK f : Adds(f, amount, S)
  BY AdderExists
<1> DEFINE g == CHOOSE f_1 : Adds(f_1, amount, S)
<1>2. Adds(g, amount, S)
  BY <1>1
<1>3. SumFunctionOnSet(amount, S) = g[S]
  BY DEF SumFunctionOnSet, FoldFunctionOnSet, MapThenFoldSet, Adds, First
<1> HIDE DEF g
<1> QED
  BY <1>2, <1>3

LEMMA AddsLess ==
    ASSUME NEW S, IsFiniteSet(S), NEW s \in SUBSET S, NEW x \in s
    PROVE  /\ s \ {x} \in SUBSET S /\ Cardinality(s) \in Nat
           /\ Cardinality(s \ {x}) = Cardinality(s) - 1
<1>1. IsFiniteSet(s)
  BY FS_Subset
<1>2. Cardinality(s) \in Nat
  BY <1>1, FS_CardinalityType
<1>3. Cardinality(s \ {x}) = Cardinality(s) - 1
  BY <1>1, FS_RemoveElement
<1> QED
  BY <1>2, <1>3

\* Induction over the size of the subsets of S.
LEMMA SizeInduction ==
    ASSUME NEW S, IsFiniteSet(S), NEW G, {} \in G,
           \A s \in SUBSET S : s # {} /\ (\A x \in s : s \ {x} \in G) => s \in G
    PROVE  \A s \in SUBSET S : s \in G
<1> DEFINE H == {n \in Nat : \A s \in SUBSET S : Cardinality(s) = n => s \in G}
<1>1. \A s \in SUBSET S : IsFiniteSet(s) /\ Cardinality(s) \in Nat
  BY FS_Subset, FS_CardinalityType
<1>2. \A s \in SUBSET S : Cardinality(s) = 0 => s = {}
  <2> HIDE DEF H
  <2> QED
    BY <1>1, FS_EmptySet
<1>3. 0 \in H
  BY <1>2
<1>4. ASSUME NEW n \in Nat, n \in H PROVE n + 1 \in H
  <2> SUFFICES ASSUME NEW s \in SUBSET S, Cardinality(s) = n + 1 PROVE s \in G
    OBVIOUS
  <2>1. s # {}
    <3>1. Cardinality({}) = 0 /\ n + 1 # 0
      BY FS_EmptySet
    <3> QED
      BY <3>1
  <2>2. ASSUME NEW x \in s PROVE s \ {x} \in G
    <3>1. s \ {x} \in SUBSET S /\ Cardinality(s \ {x}) = n
      BY AddsLess
    <3> QED
      BY <1>4, <3>1
  <2> QED
    BY <2>1, <2>2
<1> HIDE DEF H
<1>5. \A n \in Nat : n \in H
  BY <1>3, <1>4, NatSetInduction
<1> QED
  BY <1>1, <1>5 DEF H

\* What adds up integers is an integer.
LEMMA AddsIntegers ==
    ASSUME NEW S, IsFiniteSet(S), NEW amount, \A x \in S : amount[x] \in Int,
           NEW f, Adds(f, amount, S)
    PROVE  \A s \in SUBSET S : f[s] \in Int
<1> DEFINE G == {s \in SUBSET S : f[s] \in Int}
<1>1. \A s \in SUBSET S : f[s] = IF s = {} THEN 0 ELSE amount[First(s)] + f[s \ {First(s)}]
  BY DEF Adds
<1>2. {} \in G
  BY <1>1
<1>3. ASSUME NEW s \in SUBSET S, s # {}, \A x \in s : s \ {x} \in G PROVE s \in G
  <2>1. PICK c \in s : c = First(s)
    BY <1>3, FirstIn
  <2>2. f[s] = amount[c] + f[s \ {c}]
    BY <1>1, <1>3, <2>1
  <2>3. amount[c] \in Int /\ f[s \ {c}] \in Int
    BY <1>3, <2>1
  <2> QED
    BY <2>2, <2>3
<1> HIDE DEF G
<1>4. \A s \in SUBSET S : s \in G
  BY <1>2, <1>3, SizeInduction
<1> QED
  BY <1>4 DEF G

\* Any element can come first.
LEMMA AnyComesFirst ==
    ASSUME NEW S, IsFiniteSet(S), NEW amount, \A x \in S : amount[x] \in Int,
           NEW f, Adds(f, amount, S)
    PROVE  \A s \in SUBSET S : \A x \in s : f[s] = amount[x] + f[s \ {x}]
<1> DEFINE G == {s \in SUBSET S : \A x \in s : f[s] = amount[x] + f[s \ {x}]}
<1>1. \A s \in SUBSET S : f[s] = IF s = {} THEN 0 ELSE amount[First(s)] + f[s \ {First(s)}]
  BY DEF Adds
<1>2. \A s \in SUBSET S : f[s] \in Int
  BY AddsIntegers
<1>3. {} \in G
  OBVIOUS
<1>4. ASSUME NEW s \in SUBSET S, s # {}, \A x \in s : s \ {x} \in G PROVE s \in G
  <2>1. PICK c : c = First(s)
    OBVIOUS
  <2>2. c \in s /\ f[s] = amount[c] + f[s \ {c}]
    BY <1>1, <1>4, <2>1, FirstIn
  <2>3. ASSUME NEW x \in s, x # c PROVE f[s] = amount[x] + f[s \ {x}]
    <3>1. f[s \ {c}] = amount[x] + f[(s \ {c}) \ {x}]
      BY <1>4, <2>2, <2>3
    <3>2. f[s \ {x}] = amount[c] + f[(s \ {x}) \ {c}]
      BY <1>4, <2>2, <2>3
    <3>3. (s \ {c}) \ {x} = (s \ {x}) \ {c}
      OBVIOUS
    <3>4. f[(s \ {x}) \ {c}] \in Int
      BY <1>2
    <3>5. amount[c] \in Int /\ amount[x] \in Int
      BY <2>2
    <3>6. PICK r \in Int : r = f[(s \ {x}) \ {c}]
      BY <3>4
    <3>7. f[s \ {c}] = amount[x] + r
      BY <3>1, <3>3, <3>6
    <3>8. f[s \ {x}] = amount[c] + r
      BY <3>2, <3>6
    <3>9. f[s] = amount[c] + (amount[x] + r)
      BY <2>2, <3>7
    <3> HIDE DEF G
    <3>10. amount[c] + (amount[x] + r) = amount[x] + (amount[c] + r)
      BY <3>5, <3>6
    <3> QED
      BY <3>8, <3>9, <3>10
  <2> QED
    BY <2>2, <2>3
<1> HIDE DEF G
<1>5. \A s \in SUBSET S : s \in G
  BY <1>3, <1>4, SizeInduction
<1> QED
  BY <1>5 DEF G
-----------------------------------------------------------------------------
(***************************************************************************)
(* What the proofs about budgets use.                                      *)
(***************************************************************************)
LEMMA SumEmpty == ASSUME NEW amount PROVE SumFunctionOnSet(amount, {}) = 0
<1>1. IsFiniteSet({})
  BY FS_EmptySet
<1>2. PICK f : Adds(f, amount, {}) /\ SumFunctionOnSet(amount, {}) = f[{}]
  BY <1>1, SumIsAdded
<1> QED
  BY <1>2 DEF Adds

\* The sum over a subset is what the function that adds up says of it.
LEMMA SumOfSubset ==
    ASSUME NEW S, IsFiniteSet(S), NEW amount, NEW f, Adds(f, amount, S)
    PROVE  \A T \in SUBSET S : SumFunctionOnSet(amount, T) = f[T]
<1> SUFFICES ASSUME NEW T \in SUBSET S PROVE SumFunctionOnSet(amount, T) = f[T]
  OBVIOUS
<1>1. IsFiniteSet(T)
  BY FS_Subset
<1>2. PICK g : Adds(g, amount, T) /\ SumFunctionOnSet(amount, T) = g[T]
  BY <1>1, SumIsAdded
<1> DEFINE G == {s \in SUBSET T : g[s] = f[s]}
<1>3. \A s \in SUBSET S : f[s] = IF s = {} THEN 0 ELSE amount[First(s)] + f[s \ {First(s)}]
  BY DEF Adds
<1>4. \A s \in SUBSET T : g[s] = IF s = {} THEN 0 ELSE amount[First(s)] + g[s \ {First(s)}]
  BY <1>2 DEF Adds
<1>5. {} \in G
  BY <1>3, <1>4
<1>6. ASSUME NEW s \in SUBSET T, s # {}, \A x \in s : s \ {x} \in G PROVE s \in G
  <2>1. PICK c \in s : c = First(s)
    BY <1>6, FirstIn
  <2>2. g[s \ {c}] = f[s \ {c}]
    BY <1>6
  <2>3. g[s] = amount[c] + g[s \ {c}] /\ f[s] = amount[c] + f[s \ {c}]
    BY <1>3, <1>4, <1>6, <2>1
  <2> QED
    BY <2>2, <2>3
<1> HIDE DEF G
<1>7. \A s \in SUBSET T : s \in G
  BY <1>1, <1>5, <1>6, SizeInduction
<1>8. T \in G
  BY <1>7
<1> QED
  BY <1>2, <1>8 DEF G

LEMMA SumInteger ==
    ASSUME NEW S, IsFiniteSet(S), NEW amount, \A x \in S : amount[x] \in Int
    PROVE  SumFunctionOnSet(amount, S) \in Int
<1>1. PICK f : Adds(f, amount, S) /\ SumFunctionOnSet(amount, S) = f[S]
  BY SumIsAdded
<1>2. f[S] \in Int
  BY <1>1, AddsIntegers
<1> QED
  BY <1>1, <1>2

\* One element more adds its amount.
LEMMA SumAdd ==
    ASSUME NEW S, IsFiniteSet(S), NEW amount, \A x \in S : amount[x] \in Int,
           NEW x, x \notin S, amount[x] \in Int
    PROVE  SumFunctionOnSet(amount, S \cup {x}) = SumFunctionOnSet(amount, S) + amount[x]
<1> DEFINE T == S \cup {x}
<1>1. IsFiniteSet(T) /\ S \in SUBSET T /\ x \in T /\ T \ {x} = S
  BY FS_AddElement
<1>2. \A y \in T : amount[y] \in Int
  OBVIOUS
<1> HIDE DEF T
<1>3. PICK f : Adds(f, amount, T) /\ SumFunctionOnSet(amount, T) = f[T]
  BY <1>1, SumIsAdded
<1>4. f[T] = amount[x] + f[S]
  BY <1>1, <1>2, <1>3, AnyComesFirst
<1>5. SumFunctionOnSet(amount, S) = f[S] /\ f[S] \in Int
  BY <1>1, <1>2, <1>3, SumOfSubset, AddsIntegers
<1> QED
  BY <1>3, <1>4, <1>5 DEF T

\* The sum depends on the amounts in the set only.
LEMMA SumSame ==
    ASSUME NEW S, IsFiniteSet(S), NEW amount, NEW other,
           \A x \in S : amount[x] \in Int /\ other[x] = amount[x]
    PROVE  SumFunctionOnSet(other, S) = SumFunctionOnSet(amount, S)
<1> DEFINE G == {T \in SUBSET S : SumFunctionOnSet(other, T) = SumFunctionOnSet(amount, T)}
<1>1. {} \in G
  BY SumEmpty
<1>2. ASSUME NEW T \in SUBSET S, NEW x \in S, T \in G, x \notin T PROVE T \cup {x} \in G
  <2>1. IsFiniteSet(T)
    BY FS_Subset
  <2>2. /\ SumFunctionOnSet(other, T \cup {x}) = SumFunctionOnSet(other, T) + other[x]
        /\ SumFunctionOnSet(amount, T \cup {x}) = SumFunctionOnSet(amount, T) + amount[x]
    BY <1>2, <2>1, SumAdd
  <2> QED
    BY <1>2, <2>2
<1> HIDE DEF G
<1>3. \A T \in SUBSET S : T \in G
  BY <1>1, <1>2, SubsetInduction
<1>4. S \in G
  BY <1>3
<1> QED
  BY <1>4 DEF G

\* Two sets apart.
LEMMA SumUnion ==
    ASSUME NEW S, IsFiniteSet(S), NEW R, IsFiniteSet(R), R \cap S = {}, NEW amount,
           \A x \in S \cup R : amount[x] \in Int
    PROVE  SumFunctionOnSet(amount, R \cup S) =
              SumFunctionOnSet(amount, R) + SumFunctionOnSet(amount, S)
<1> DEFINE G == {T \in SUBSET S : SumFunctionOnSet(amount, R \cup T) =
                                     SumFunctionOnSet(amount, R) + SumFunctionOnSet(amount, T)}
<1>0. SumFunctionOnSet(amount, R) \in Int
  BY SumInteger
<1>1. {} \in G
  <2>1. SumFunctionOnSet(amount, {}) = 0 /\ R \cup {} = R
    BY SumEmpty
  <2> QED
    BY <1>0, <2>1
<1>2. ASSUME NEW T \in SUBSET S, NEW x \in S, T \in G, x \notin T PROVE T \cup {x} \in G
  <2>1. IsFiniteSet(T) /\ IsFiniteSet(R \cup T)
    BY FS_Subset, FS_Union
  <2>2. x \notin R \cup T /\ (R \cup T) \cup {x} = R \cup (T \cup {x})
    BY <1>2
  <2>3. SumFunctionOnSet(amount, (R \cup T) \cup {x}) =
          SumFunctionOnSet(amount, R \cup T) + amount[x]
    BY <2>1, <2>2, SumAdd
  <2>4. SumFunctionOnSet(amount, T \cup {x}) = SumFunctionOnSet(amount, T) + amount[x]
    BY <1>2, <2>1, SumAdd
  <2>5. SumFunctionOnSet(amount, T) \in Int
    BY <2>1, SumInteger
  <2>6. SumFunctionOnSet(amount, R \cup (T \cup {x})) =
          SumFunctionOnSet(amount, R) + SumFunctionOnSet(amount, T \cup {x})
    <3>1. PICK r \in Int : r = SumFunctionOnSet(amount, R)
      BY <1>0
    <3>2. PICK t \in Int : t = SumFunctionOnSet(amount, T)
      BY <2>5
    <3>3. SumFunctionOnSet(amount, R \cup T) = r + t
      BY <1>2, <3>1, <3>2
    <3>4. SumFunctionOnSet(amount, R \cup (T \cup {x})) = (r + t) + amount[x]
      BY <2>2, <2>3, <3>3
    <3>5. SumFunctionOnSet(amount, T \cup {x}) = t + amount[x]
      BY <2>4, <3>2
    <3>6. (r + t) + amount[x] = r + (t + amount[x])
      OBVIOUS
    <3> QED
      BY <3>1, <3>4, <3>5, <3>6
  <2> QED
    BY <2>6
<1> HIDE DEF G
<1>3. \A T \in SUBSET S : T \in G
  BY <1>1, <1>2, SubsetInduction
<1>4. S \in G
  BY <1>3
<1> QED
  BY <1>4 DEF G

LEMMA SumNatural ==
    ASSUME NEW S, IsFiniteSet(S), NEW amount, \A x \in S : amount[x] \in Nat
    PROVE  SumFunctionOnSet(amount, S) \in Nat
<1> DEFINE G == {T \in SUBSET S : SumFunctionOnSet(amount, T) \in Nat}
<1>1. {} \in G
  BY SumEmpty
<1>2. ASSUME NEW T \in SUBSET S, NEW x \in S, T \in G, x \notin T PROVE T \cup {x} \in G
  <2>1. IsFiniteSet(T)
    BY FS_Subset
  <2>2. SumFunctionOnSet(amount, T \cup {x}) = SumFunctionOnSet(amount, T) + amount[x]
    BY <1>2, <2>1, SumAdd
  <2>3. PICK n \in Nat : n = SumFunctionOnSet(amount, T)
    BY <1>2
  <2>4. n + amount[x] \in Nat
    OBVIOUS
  <2> QED
    BY <2>2, <2>3, <2>4
<1> HIDE DEF G
<1>3. \A T \in SUBSET S : T \in G
  BY <1>1, <1>2, SubsetInduction
<1>4. S \in G
  BY <1>3
<1> QED
  BY <1>4 DEF G

\* A part adds up to no more than the whole.
LEMMA SumMonotone ==
    ASSUME NEW S, IsFiniteSet(S), NEW amount, \A x \in S : amount[x] \in Nat,
           NEW T \in SUBSET S
    PROVE  SumFunctionOnSet(amount, T) <= SumFunctionOnSet(amount, S)
<1>1. IsFiniteSet(T) /\ IsFiniteSet(S \ T) /\ T \cap (S \ T) = {} /\ T \cup (S \ T) = S
  <2>1. S \ T \in SUBSET S
    OBVIOUS
  <2> QED
    BY <2>1, FS_Subset
<1>2. SumFunctionOnSet(amount, T \cup (S \ T)) =
        SumFunctionOnSet(amount, T) + SumFunctionOnSet(amount, S \ T)
  BY <1>1, SumUnion
<1>3. PICK t \in Nat : t = SumFunctionOnSet(amount, T)
  BY <1>1, SumNatural
<1>4. PICK r \in Nat : r = SumFunctionOnSet(amount, S \ T)
  BY <1>1, SumNatural
<1>5. SumFunctionOnSet(amount, S) = t + r
  BY <1>1, <1>2, <1>3, <1>4
<1>6. t <= t + r
  OBVIOUS
<1> QED
  BY <1>3, <1>5, <1>6

\* The sum is the same under other names, if no two elements share one.
LEMMA SumRenamed ==
    ASSUME NEW S, IsFiniteSet(S), NEW amount, NEW other, NEW name,
           \A x \in S : amount[x] \in Int /\ other[name[x]] = amount[x],
           \A x, y \in S : name[x] = name[y] => x = y
    PROVE  /\ IsFiniteSet({name[x] : x \in S})
           /\ SumFunctionOnSet(other, {name[x] : x \in S}) = SumFunctionOnSet(amount, S)
<1> DEFINE Named(T) == {name[x] : x \in T}
           G == {T \in SUBSET S : /\ IsFiniteSet(Named(T))
                                  /\ SumFunctionOnSet(other, Named(T)) =
                                        SumFunctionOnSet(amount, T)}
<1>1. {} \in G
  <2>1. Named({}) = {} /\ IsFiniteSet({})
    BY FS_EmptySet
  <2>2. SumFunctionOnSet(other, {}) = 0 /\ SumFunctionOnSet(amount, {}) = 0
    BY SumEmpty
  <2> HIDE DEF Named
  <2> QED
    BY <2>1, <2>2
<1>2. ASSUME NEW T \in SUBSET S, NEW x \in S, T \in G, x \notin T PROVE T \cup {x} \in G
  <2>1. Named(T \cup {x}) = Named(T) \cup {name[x]} /\ name[x] \notin Named(T)
    BY <1>2
  <2>2. \A y \in Named(T) : other[y] \in Int
    OBVIOUS
  <2>3. IsFiniteSet(T)
    BY FS_Subset
  <2> HIDE DEF Named
  <2>4. IsFiniteSet(Named(T)) /\ SumFunctionOnSet(other, Named(T)) = SumFunctionOnSet(amount, T)
    BY <1>2
  <2>5. IsFiniteSet(Named(T) \cup {name[x]})
    BY <2>4, FS_AddElement
  <2>6. SumFunctionOnSet(other, Named(T) \cup {name[x]}) =
          SumFunctionOnSet(other, Named(T)) + other[name[x]]
    BY <2>1, <2>2, <2>4, SumAdd
  <2>7. SumFunctionOnSet(amount, T \cup {x}) = SumFunctionOnSet(amount, T) + amount[x]
    BY <1>2, <2>3, SumAdd
  <2>8. SumFunctionOnSet(other, Named(T \cup {x})) = SumFunctionOnSet(amount, T \cup {x})
    BY <2>1, <2>4, <2>6, <2>7
  <2>9. IsFiniteSet(Named(T \cup {x}))
    BY <2>1, <2>5
  <2> QED
    BY <2>8, <2>9
<1> HIDE DEF G
<1>3. \A T \in SUBSET S : T \in G
  BY <1>1, <1>2, SubsetInduction
<1>4. S \in G
  BY <1>3
<1> QED
  BY <1>4 DEF G

\* A set with at most one element has at most the cardinality one.
Single(S) == \A x, y \in S : x = y

LEMMA SingleCardinality == ASSUME NEW S, Single(S) PROVE IsFiniteSet(S) /\ Cardinality(S) <= 1
<1>1. CASE S = {}
  BY <1>1, FS_EmptySet
<1>2. CASE S # {}
  <2>1. PICK x \in S : TRUE
    BY <1>2
  <2>2. S = {x}
    BY <2>1 DEF Single
  <2>3. IsFiniteSet({x}) /\ Cardinality({x}) = 1
    BY FS_Singleton
  <2> QED BY <2>2, <2>3
<1> QED BY <1>1, <1>2
==============================================================================
