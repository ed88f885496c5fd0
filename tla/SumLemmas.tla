----------------------------- MODULE SumLemmas -----------------------------
(***************************************************************************)
(* Facts about SumFunctionOnSet(f, S), the sum of f[x] over a finite set S *)
(* in an order that is not specified: the value does not depend on the     *)
(* order, and changes as one would expect when f or S does.                *)
(*                                                                         *)
(* The sum is defined by recursion over the subsets of S, so each fact     *)
(* comes from an induction over their cardinality, in the form that a set  *)
(* of natural numbers closed under successor is Nat.                       *)
(***************************************************************************)
EXTENDS Integers, FiniteSets, Functions, FiniteSetTheorems, WellFoundedInduction, TLAPS

\* A set of natural numbers with 0 and the successor of each member is Nat.
LEMMA NatSetInduction ==
    ASSUME NEW T, 0 \in T, \A n \in Nat : n \in T => n + 1 \in T
    PROVE  Nat \subseteq T
<1> SUFFICES ASSUME Nat \ T # {} PROVE FALSE
  OBVIOUS
<1>1. PICK m \in Nat \ T : \A k \in Nat \ T : ~(<<k, m>> \in OpToRel(<, Nat))
  <2>1. Nat \ T \subseteq Nat
    OBVIOUS
  <2> QED BY <2>1, NatLessThanWellFounded, WFMin
<1>2. m # 0 /\ m - 1 \in Nat /\ m - 1 < m
  OBVIOUS
<1>3. m - 1 \in T
  BY <1>1, <1>2 DEF OpToRel
<1>4. (m - 1) + 1 \in T
  BY <1>2, <1>3
<1> QED BY <1>2, <1>4

\* The subsets of S with at most n elements.
UpTo(S, n) == {s \in SUBSET S : Cardinality(s) <= n}

\* Subsets of a finite set are finite, and one element less is one less.
LEMMA UpToStep ==
    ASSUME NEW S, IsFiniteSet(S)
    PROVE  /\ UpTo(S, 0) = {{}}
           /\ UpTo(S, Cardinality(S)) = SUBSET S
           /\ Cardinality(S) \in Nat
           /\ \A n \in Nat : \A s \in UpTo(S, n + 1) : \A x \in s : s \ {x} \in UpTo(S, n)
           /\ \A n \in Nat : UpTo(S, n) \subseteq UpTo(S, n + 1)
<1>1. Cardinality(S) \in Nat
  BY FS_CardinalityType
<1>2. \A s \in SUBSET S : IsFiniteSet(s) /\ Cardinality(s) \in Nat
                            /\ Cardinality(s) <= Cardinality(S)
  BY FS_Subset, FS_CardinalityType
<1>3. UpTo(S, 0) = {{}}
  BY <1>2, FS_EmptySet DEF UpTo
<1>4. UpTo(S, Cardinality(S)) = SUBSET S
  BY <1>2 DEF UpTo
<1>5. ASSUME NEW n \in Nat, NEW s \in UpTo(S, n + 1), NEW x \in s
      PROVE  s \ {x} \in UpTo(S, n)
  <2>1. Cardinality(s \ {x}) = Cardinality(s) - 1
    BY <1>2, FS_RemoveElement DEF UpTo
  <2> QED BY <1>2, <2>1 DEF UpTo
<1>6. \A n \in Nat : UpTo(S, n) \subseteq UpTo(S, n + 1)
  BY <1>2 DEF UpTo
<1> QED BY <1>1, <1>3, <1>4, <1>5, <1>6

-----------------------------------------------------------------------------
(* The recursive function exists.                                          *)

\* The element of s that the recursion takes first.
Pick(s) == CHOOSE x \in s : TRUE

\* What the function of the recursion is at s, if it is h below s.
NextSum(f, h, s) == IF s = {} THEN 0 ELSE f[Pick(s)] + h[s \ {Pick(s)}]

\* h is the function of the recursion on the sets of D.
IsSum(h, f, D) == h = [s \in D |-> NextSum(f, h, s)]

\* On the subsets with at most n elements for every n, hence on all.
LEMMA SumExists ==
    ASSUME NEW f, NEW S, IsFiniteSet(S)
    PROVE  \E h : IsSum(h, f, SUBSET S)
<1> DEFINE T == {n \in Nat : \E h : IsSum(h, f, UpTo(S, n))}
<1>1. 0 \in T
  <2>1. IsSum([s \in UpTo(S, 0) |-> 0], f, UpTo(S, 0))
    BY UpToStep DEF IsSum, NextSum
  <2> QED BY <2>1
<1>2. ASSUME NEW n \in Nat, n \in T PROVE n + 1 \in T
  <2>1. PICK h : IsSum(h, f, UpTo(S, n))
    BY <1>2
  <2> DEFINE g == [s \in UpTo(S, n + 1) |-> NextSum(f, h, s)]
  <2>2. \A s \in UpTo(S, n) : g[s] = h[s]
    BY <2>1, UpToStep DEF IsSum
  <2>3. ASSUME NEW s \in UpTo(S, n + 1) PROVE NextSum(f, h, s) = NextSum(f, g, s)
    <3>1. CASE s = {}
      BY <3>1 DEF NextSum
    <3>2. CASE s # {}
      <4>1. Pick(s) \in s
        BY <3>2 DEF Pick
      <4>2. s \ {Pick(s)} \in UpTo(S, n)
        BY <4>1, UpToStep
      <4> HIDE DEF g
      <4> QED BY <3>2, <4>2, <2>2 DEF NextSum
    <3> QED BY <3>1, <3>2
  <2>4. IsSum(g, f, UpTo(S, n + 1))
    <3> DEFINE k == [s \in UpTo(S, n + 1) |-> NextSum(f, g, s)]
    <3>1. g = k
      <4> HIDE DEF NextSum
      <4> QED BY <2>3
    <3> QED BY <3>1 DEF IsSum
  <2> QED BY <2>4
<1>3. Nat \subseteq T
  <2> HIDE DEF T
  <2> QED BY <1>1, <1>2, NatSetInduction
<1>4. Cardinality(S) \in T
  <2> HIDE DEF T
  <2> QED BY <1>3, UpToStep
<1>5. \E h : IsSum(h, f, UpTo(S, Cardinality(S)))
  BY <1>4
<1>6. UpTo(S, Cardinality(S)) = SUBSET S
  BY UpToStep
<1> QED BY <1>5, <1>6, Zenon

\* The sum is a value of the recursive function.
LEMMA SumIsSum ==
    ASSUME NEW f, NEW S, IsFiniteSet(S)
    PROVE  \E h : IsSum(h, f, SUBSET S) /\ SumFunctionOnSet(f, S) = h[S]
<1>1. \E h : h = [s \in SUBSET S |->
                    IF s = {} THEN 0
                    ELSE f[CHOOSE x \in s : TRUE] + h[s \ {CHOOSE x \in s : TRUE}]]
  <2>1. PICK h : IsSum(h, f, SUBSET S)
    BY SumExists
  <2> QED BY <2>1, Zenon DEF IsSum, NextSum, Pick
<1> QED BY <1>1, Zenon
           DEF SumFunctionOnSet, FoldFunctionOnSet, MapThenFoldSet, IsSum, NextSum, Pick

-----------------------------------------------------------------------------
(* What the recursive function computes.                                   *)

\* f and g have the same values on R.
Agree(f, g, R) == \A x \in R : f[x] = g[x]

\* Two such functions agree, also over different domains and for different
\* summands that agree there.
LEMMA SumsAgree ==
    ASSUME NEW f, NEW g, NEW S, NEW R, NEW h, NEW k,
           IsSum(h, f, SUBSET S), IsSum(k, g, SUBSET R),
           Agree(f, g, R), IsFiniteSet(S), R \in SUBSET S
    PROVE  h[R] = k[R]
<1> DEFINE T == {n \in Nat : \A s \in UpTo(R, n) : h[s] = k[s]}
<1>0. IsFiniteSet(R)
  BY FS_Subset
<1>1. 0 \in T
  BY <1>0, UpToStep DEF IsSum, NextSum
<1>2. ASSUME NEW n \in Nat, n \in T PROVE n + 1 \in T
  <2>1. ASSUME NEW s \in UpTo(R, n + 1) PROVE h[s] = k[s]
    <3>0. s \in SUBSET R /\ s \in SUBSET S
      BY DEF UpTo
    <3>1. h[s] = NextSum(f, h, s) /\ k[s] = NextSum(g, k, s)
      <4> HIDE DEF NextSum
      <4> QED BY <3>0 DEF IsSum
    <3>2. CASE s = {}
      BY <3>1, <3>2 DEF NextSum
    <3>3. CASE s # {}
      <4>1. Pick(s) \in s
        BY <3>3 DEF Pick
      <4>2. h[s \ {Pick(s)}] = k[s \ {Pick(s)}]
        BY <1>0, <1>2, <4>1, UpToStep
      <4>3. f[Pick(s)] = g[Pick(s)]
        BY <3>0, <4>1 DEF Agree
      <4> QED BY <3>1, <3>3, <4>2, <4>3 DEF NextSum
    <3> QED BY <3>2, <3>3
  <2> QED BY <2>1
<1>3. Nat \subseteq T
  <2> HIDE DEF T
  <2> QED BY <1>1, <1>2, NatSetInduction
<1>4. Cardinality(R) \in T
  <2> HIDE DEF T
  <2> QED BY <1>0, <1>3, UpToStep
<1> QED BY <1>0, <1>4, UpToStep

\* The sum of a part is a value of the function of the whole.
LEMMA PartIsSum ==
    ASSUME NEW f, NEW S, IsFiniteSet(S), NEW h, IsSum(h, f, SUBSET S), NEW R \in SUBSET S
    PROVE  SumFunctionOnSet(f, R) = h[R]
<1>1. IsFiniteSet(R)
  BY FS_Subset
<1>2. PICK k : IsSum(k, f, SUBSET R) /\ SumFunctionOnSet(f, R) = k[R]
  BY <1>1, SumIsSum
<1>3. Agree(f, f, R)
  BY DEF Agree
<1>4. h[R] = k[R]
  BY <1>2, <1>3, SumsAgree
<1> QED BY <1>2, <1>4

\* The sum stays in any set of numbers that holds 0 and the summands and is
\* closed under addition.
LEMMA SumStaysIn ==
    ASSUME NEW D, NEW S, NEW f, IsFiniteSet(S),
           0 \in D, \A x \in D : \A y \in D : x + y \in D, \A x \in S : f[x] \in D
    PROVE  SumFunctionOnSet(f, S) \in D
<1>1. PICK h : IsSum(h, f, SUBSET S) /\ SumFunctionOnSet(f, S) = h[S]
  BY SumIsSum
<1> DEFINE T == {n \in Nat : \A s \in UpTo(S, n) : h[s] \in D}
<1>2. 0 \in T
  BY <1>1, UpToStep DEF IsSum, NextSum
<1>3. ASSUME NEW n \in Nat, n \in T PROVE n + 1 \in T
  <2>1. ASSUME NEW s \in UpTo(S, n + 1) PROVE h[s] \in D
    <3>0. s \in SUBSET S
      BY DEF UpTo
    <3>1. h[s] = NextSum(f, h, s)
      <4> HIDE DEF NextSum
      <4> QED BY <1>1, <3>0 DEF IsSum
    <3>2. CASE s = {}
      BY <3>1, <3>2 DEF NextSum
    <3>3. CASE s # {}
      <4>1. Pick(s) \in s /\ Pick(s) \in S
        BY <3>0, <3>3 DEF Pick
      <4>2. h[s \ {Pick(s)}] \in D
        BY <1>3, <4>1, UpToStep
      <4> QED BY <3>1, <3>3, <4>1, <4>2 DEF NextSum
    <3> QED BY <3>2, <3>3
  <2> QED BY <2>1
<1>4. Nat \subseteq T
  <2> HIDE DEF T
  <2> QED BY <1>2, <1>3, NatSetInduction
<1>5. Cardinality(S) \in T
  <2> HIDE DEF T
  <2> QED BY <1>4, UpToStep
<1> QED BY <1>1, <1>5, UpToStep

\* A sum of integers is an integer.
LEMMA SumType ==
    ASSUME NEW S, IsFiniteSet(S), NEW f, \A x \in S : f[x] \in Int
    PROVE  SumFunctionOnSet(f, S) \in Int
<1>1. 0 \in Int /\ \A x \in Int : \A y \in Int : x + y \in Int
  OBVIOUS
<1> QED BY <1>1, SumStaysIn

\* Whichever element is taken out first, the value is the same.
LEMMA AnyFirst ==
    ASSUME NEW f, NEW S, NEW h, NEW a,
           IsSum(h, f, SUBSET S), IsFiniteSet(S), \A x \in S : f[x] \in Int, a \in S
    PROVE  h[S] = f[a] + h[S \ {a}]
<1>0. \A s \in SUBSET S : h[s] \in Int
  <2>1. ASSUME NEW s \in SUBSET S PROVE h[s] \in Int
    <3>1. IsFiniteSet(s) /\ h[s] = SumFunctionOnSet(f, s)
      BY FS_Subset, PartIsSum
    <3> QED BY <3>1, SumType
  <2> QED BY <2>1
<1> DEFINE T == {n \in Nat : \A s \in UpTo(S, n) : \A x \in s : h[s] = f[x] + h[s \ {x}]}
<1>1. 0 \in T
  BY UpToStep
<1>2. ASSUME NEW n \in Nat, n \in T PROVE n + 1 \in T
  <2>1. ASSUME NEW s \in UpTo(S, n + 1), NEW x \in s PROVE h[s] = f[x] + h[s \ {x}]
    <3>0. s \in SUBSET S
      BY DEF UpTo
    <3> DEFINE y == Pick(s)
    <3>1. y \in s
      BY DEF Pick
    <3>2. h[s] = f[y] + h[s \ {y}]
      <4>1. h[s] = NextSum(f, h, s)
        <5> HIDE DEF NextSum
        <5> QED BY <3>0 DEF IsSum
      <4> QED BY <4>1 DEF NextSum
    <3> HIDE DEF y
    <3>3. CASE x = y
      BY <3>2, <3>3
    <3>4. CASE x # y
      <4>1. s \ {x} \in UpTo(S, n) /\ s \ {y} \in UpTo(S, n)
        BY <3>1, UpToStep
      <4>2. x \in s \ {y} /\ y \in s \ {x} /\ (s \ {x}) \ {y} = (s \ {y}) \ {x}
        BY <3>1, <3>4
      <4>3. h[s \ {y}] = f[x] + h[(s \ {y}) \ {x}] /\ h[s \ {x}] = f[y] + h[(s \ {x}) \ {y}]
        BY <1>2, <4>1, <4>2
      <4>4. f[x] \in Int /\ f[y] \in Int /\ h[(s \ {y}) \ {x}] \in Int
        BY <1>0, <3>0, <3>1
      <4>5. h[s \ {x}] = f[y] + h[(s \ {y}) \ {x}]
        BY <4>2, <4>3, Zenon
      <4> QED BY <3>2, <4>3, <4>4, <4>5
    <3> QED BY <3>3, <3>4
  <2> QED BY <2>1
<1>3. Nat \subseteq T
  <2> HIDE DEF T
  <2> QED BY <1>1, <1>2, NatSetInduction
<1>4. Cardinality(S) \in T
  <2> HIDE DEF T
  <2> QED BY <1>3, UpToStep
<1> QED BY <1>4, UpToStep

-----------------------------------------------------------------------------
(* The facts to cite.                                                      *)

\* Nothing adds up to 0.
LEMMA SumEmpty == ASSUME NEW f PROVE SumFunctionOnSet(f, {}) = 0
<1>1. PICK h : IsSum(h, f, SUBSET {}) /\ SumFunctionOnSet(f, {}) = h[{}]
  BY SumIsSum, FS_EmptySet
<1> QED BY <1>1 DEF IsSum, NextSum

\* A sum of natural numbers is one.
LEMMA SumNat ==
    ASSUME NEW S, IsFiniteSet(S), NEW f, \A x \in S : f[x] \in Nat
    PROVE  SumFunctionOnSet(f, S) \in Nat
<1>1. 0 \in Nat /\ \A x \in Nat : \A y \in Nat : x + y \in Nat
  OBVIOUS
<1> QED BY <1>1, SumStaysIn

\* One element is taken out of the sum.
LEMMA SumTakeOut ==
    ASSUME NEW S, IsFiniteSet(S), NEW f, \A x \in S : f[x] \in Int, NEW a \in S
    PROVE  SumFunctionOnSet(f, S) = f[a] + SumFunctionOnSet(f, S \ {a})
<1>1. PICK h : IsSum(h, f, SUBSET S) /\ SumFunctionOnSet(f, S) = h[S]
  BY SumIsSum
<1>2. SumFunctionOnSet(f, S \ {a}) = h[S \ {a}]
  BY <1>1, PartIsSum
<1>3. h[S] = f[a] + h[S \ {a}]
  BY <1>1, AnyFirst
<1> QED BY <1>1, <1>2, <1>3

\* The sum depends on the summands only.
LEMMA SumSame ==
    ASSUME NEW S, IsFiniteSet(S), NEW f, NEW g, \A x \in S : f[x] = g[x]
    PROVE  SumFunctionOnSet(f, S) = SumFunctionOnSet(g, S)
<1>1. PICK h : IsSum(h, f, SUBSET S) /\ SumFunctionOnSet(f, S) = h[S]
  BY SumIsSum
<1>2. PICK k : IsSum(k, g, SUBSET S) /\ SumFunctionOnSet(g, S) = k[S]
  BY SumIsSum
<1>3. Agree(f, g, S)
  BY DEF Agree
<1>4. h[S] = k[S]
  BY <1>1, <1>2, <1>3, SumsAgree
<1> QED BY <1>1, <1>2, <1>4

\* When one summand changes, the sum changes by as much.
LEMMA SumChange ==
    ASSUME NEW S, IsFiniteSet(S), NEW a \in S,
           NEW f, \A x \in S : f[x] \in Int, NEW g, g[a] \in Int,
           \A x \in S \ {a} : g[x] = f[x]
    PROVE  SumFunctionOnSet(g, S) = SumFunctionOnSet(f, S) - f[a] + g[a]
<1>0. IsFiniteSet(S \ {a})
  BY FS_RemoveElement
<1>1. SumFunctionOnSet(f, S) = f[a] + SumFunctionOnSet(f, S \ {a})
  BY SumTakeOut
<1>2. SumFunctionOnSet(g, S) = g[a] + SumFunctionOnSet(g, S \ {a})
  <2>1. \A x \in S : g[x] \in Int
    OBVIOUS
  <2> QED BY <2>1, SumTakeOut
<1>3. SumFunctionOnSet(g, S \ {a}) = SumFunctionOnSet(f, S \ {a})
  BY <1>0, SumSame
<1>4. SumFunctionOnSet(f, S \ {a}) \in Int
  BY <1>0, SumType
<1> QED BY <1>1, <1>2, <1>3, <1>4

\* When an element joins the set, the sum grows by its summand.
LEMMA SumJoin ==
    ASSUME NEW S, IsFiniteSet(S), NEW a, a \notin S,
           NEW f, \A x \in S \cup {a} : f[x] \in Int
    PROVE  SumFunctionOnSet(f, S \cup {a}) = SumFunctionOnSet(f, S) + f[a]
<1>1. IsFiniteSet(S \cup {a}) /\ (S \cup {a}) \ {a} = S /\ a \in S \cup {a}
  BY FS_AddElement
<1>2. SumFunctionOnSet(f, S \cup {a}) = f[a] + SumFunctionOnSet(f, (S \cup {a}) \ {a})
  BY <1>1, SumTakeOut
<1>3. SumFunctionOnSet(f, S) \in Int
  BY SumType
<1>4. SumFunctionOnSet(f, S \cup {a}) = f[a] + SumFunctionOnSet(f, S)
  BY <1>1, <1>2, Zenon
<1>5. f[a] \in Int
  OBVIOUS
<1> QED BY <1>3, <1>4, <1>5

\* A sum of zeros is zero.
LEMMA SumZero ==
    ASSUME NEW S, IsFiniteSet(S), NEW f, \A x \in S : f[x] = 0
    PROVE  SumFunctionOnSet(f, S) = 0
<1>1. \A x \in S : f[x] \in {0}
  OBVIOUS
<1>2. 0 \in {0} /\ \A x \in {0} : \A y \in {0} : x + y \in {0}
  OBVIOUS
<1>3. SumFunctionOnSet(f, S) \in {0}
  <2> DEFINE D == {0}
  <2>1. 0 \in D /\ (\A x \in D : \A y \in D : x + y \in D) /\ \A x \in S : f[x] \in D
    BY <1>1, <1>2
  <2> HIDE DEF D
  <2>2. SumFunctionOnSet(f, S) \in D
    BY <2>1, SumStaysIn
  <2> QED BY <2>2 DEF D
<1> QED BY <1>3

\* The sum of the sums of two functions is that of their values' sums.
LEMMA SumAdd ==
    ASSUME NEW S, IsFiniteSet(S), NEW f, NEW g, NEW h,
           \A x \in S : f[x] \in Int /\ g[x] \in Int /\ h[x] = f[x] + g[x]
    PROVE  SumFunctionOnSet(h, S) = SumFunctionOnSet(f, S) + SumFunctionOnSet(g, S)
<1> DEFINE Adds(s) == SumFunctionOnSet(h, s) = SumFunctionOnSet(f, s) + SumFunctionOnSet(g, s)
           T == {n \in Nat : \A s \in UpTo(S, n) : Adds(s)}
<1>1. Adds({})
  BY SumEmpty
<1>2. ASSUME NEW n \in Nat, n \in T, NEW s \in UpTo(S, n + 1) PROVE Adds(s)
  <2>1. CASE s = {}
    BY <1>1, <2>1
  <2>2. CASE s # {}
    <3>1. PICK x \in s : TRUE
      BY <2>2
    <3> DEFINE q == s \ {x}
    <3>2. q \in UpTo(S, n) /\ s \in SUBSET S
      BY <3>1, UpToStep DEF UpTo
    <3>3. IsFiniteSet(s) /\ IsFiniteSet(q)
      BY <3>2, FS_Subset
    <3>4. Adds(q)
      BY <1>2, <3>2
    <3>5. \A y \in s : f[y] \in Int /\ g[y] \in Int /\ h[y] = f[y] + g[y] /\ h[y] \in Int
      BY <3>2
    <3>6. /\ SumFunctionOnSet(f, s) = f[x] + SumFunctionOnSet(f, q)
          /\ SumFunctionOnSet(g, s) = g[x] + SumFunctionOnSet(g, q)
          /\ SumFunctionOnSet(h, s) = h[x] + SumFunctionOnSet(h, q)
      BY <3>1, <3>3, <3>5, SumTakeOut
    <3>7. SumFunctionOnSet(f, q) \in Int /\ SumFunctionOnSet(g, q) \in Int
      BY <3>3, <3>5, SumType
    <3> HIDE DEF q
    <3> QED BY <3>1, <3>4, <3>5, <3>6, <3>7
  <2> QED BY <2>1, <2>2
<1>3. 0 \in T
  BY <1>1, UpToStep
<1>4. \A n \in Nat : n \in T => n + 1 \in T
  <2> HIDE DEF Adds
  <2> QED BY <1>2
<1>5. Cardinality(S) \in T
  <2> HIDE DEF T
  <2> QED BY <1>3, <1>4, NatSetInduction, UpToStep
<1>6. S \in UpTo(S, Cardinality(S))
  BY UpToStep
<1> QED BY <1>5, <1>6

\* The sum over two disjoint sets is that of their sums.
LEMMA SumDisjoint ==
    ASSUME NEW S, NEW R, NEW f, IsFiniteSet(S), IsFiniteSet(R), S \cap R = {},
           \A x \in S \cup R : f[x] \in Int
    PROVE  SumFunctionOnSet(f, S \cup R) = SumFunctionOnSet(f, S) + SumFunctionOnSet(f, R)
<1> DEFINE Adds(r) == SumFunctionOnSet(f, S \cup r) = SumFunctionOnSet(f, S) + SumFunctionOnSet(f, r)
           T == {n \in Nat : \A r \in UpTo(R, n) : Adds(r)}
<1>1. Adds({})
  <2>1. SumFunctionOnSet(f, S) \in Int
    BY SumType
  <2> QED BY <2>1, SumEmpty
<1>2. ASSUME NEW n \in Nat, n \in T, NEW r \in UpTo(R, n + 1) PROVE Adds(r)
  <2>1. CASE r = {}
    BY <1>1, <2>1
  <2>2. CASE r # {}
    <3>1. PICK x \in r : TRUE
      BY <2>2
    <3> DEFINE q == r \ {x}
    <3>2. q \in UpTo(R, n) /\ r \in SUBSET R
      BY <3>1, UpToStep DEF UpTo
    <3>3. IsFiniteSet(q) /\ IsFiniteSet(S \cup q)
      BY <3>2, FS_Subset, FS_Union
    <3>4. Adds(q)
      BY <1>2, <3>2
    <3>5. r = q \cup {x} /\ S \cup r = (S \cup q) \cup {x} /\ x \notin q /\ x \notin S \cup q
      BY <3>1, <3>2
    <3>6. \A y \in (S \cup q) \cup {x} : f[y] \in Int
      BY <3>1, <3>2
    <3> HIDE DEF q
    <3>7. SumFunctionOnSet(f, S \cup r) = SumFunctionOnSet(f, S \cup q) + f[x]
      BY <3>3, <3>5, <3>6, SumJoin
    <3>8. SumFunctionOnSet(f, r) = SumFunctionOnSet(f, q) + f[x]
      BY <3>3, <3>5, <3>6, SumJoin
    <3>9. SumFunctionOnSet(f, S) \in Int /\ SumFunctionOnSet(f, q) \in Int /\ f[x] \in Int
      BY <3>3, <3>6, SumType
    <3> QED BY <3>4, <3>7, <3>8, <3>9
  <2> QED BY <2>1, <2>2
<1>3. 0 \in T
  BY <1>1, UpToStep
<1>4. \A n \in Nat : n \in T => n + 1 \in T
  BY <1>2
<1>5. Cardinality(R) \in T
  <2> HIDE DEF T
  <2> QED BY <1>3, <1>4, NatSetInduction, UpToStep
<1>6. R \in UpTo(R, Cardinality(R))
  BY UpToStep
<1> QED BY <1>5, <1>6

\* The sum of natural numbers over a part is at most that over the whole.
LEMMA SumPart ==
    ASSUME NEW S, IsFiniteSet(S), NEW R \in SUBSET S, NEW f, \A x \in S : f[x] \in Nat
    PROVE  SumFunctionOnSet(f, R) <= SumFunctionOnSet(f, S)
<1> DEFINE Q == S \ R
<1>1. IsFiniteSet(R) /\ IsFiniteSet(Q)
  BY FS_Subset
<1>2. S = R \cup Q /\ R \cap Q = {}
  OBVIOUS
<1> HIDE DEF Q
<1>3. \A x \in R \cup Q : f[x] \in Nat
  BY <1>2
<1>4. SumFunctionOnSet(f, R) \in Nat /\ SumFunctionOnSet(f, Q) \in Nat
  BY <1>1, <1>3, SumNat
<1>5. SumFunctionOnSet(f, R \cup Q) = SumFunctionOnSet(f, R) + SumFunctionOnSet(f, Q)
  BY <1>1, <1>2, <1>3, SumDisjoint
<1> QED BY <1>2, <1>4, <1>5

\* Some element of a finite set has the largest value of a function to Nat.
LEMMA LargestExists ==
    ASSUME NEW S, IsFiniteSet(S), S # {}, NEW f, \A x \in S : f[x] \in Nat
    PROVE  \E x \in S : \A y \in S : f[y] <= f[x]
<1> DEFINE Has(s) == s = {} \/ \E x \in s : \A y \in s : f[y] <= f[x]
           T == {n \in Nat : \A s \in UpTo(S, n) : Has(s)}
<1>1. ASSUME NEW n \in Nat, n \in T, NEW s \in UpTo(S, n + 1) PROVE Has(s)
  <2>1. CASE s = {}
    BY <2>1
  <2>2. CASE s # {}
    <3>1. PICK x \in s : TRUE
      BY <2>2
    <3>2. s \ {x} \in UpTo(S, n) /\ s \in SUBSET S
      BY <3>1, UpToStep DEF UpTo
    <3>3. CASE s \ {x} = {}
      <4>1. \A y \in s : y = x
        BY <3>3
      <4>2. f[x] \in Nat
        BY <3>1, <3>2
      <4> QED BY <3>1, <4>1, <4>2
    <3>4. CASE s \ {x} # {}
      <4>1. PICK z \in s \ {x} : \A y \in s \ {x} : f[y] <= f[z]
        BY <1>1, <3>2, <3>4
      <4>2. \A y \in s : f[y] \in Nat
        BY <3>2
      <4>3. CASE f[x] <= f[z]
        BY <4>1, <4>3
      <4>4. CASE ~(f[x] <= f[z])
        BY <3>1, <4>1, <4>2, <4>4
      <4> QED BY <4>3, <4>4
    <3> QED BY <3>3, <3>4
  <2> QED BY <2>1, <2>2
<1>2. 0 \in T
  BY UpToStep
<1>3. \A n \in Nat : n \in T => n + 1 \in T
  <2> HIDE DEF Has
  <2> QED BY <1>1
<1>4. Cardinality(S) \in T
  <2> HIDE DEF T
  <2> QED BY <1>2, <1>3, NatSetInduction, UpToStep
<1>5. S \in UpTo(S, Cardinality(S))
  BY UpToStep
<1> QED BY <1>4, <1>5
=============================================================================
