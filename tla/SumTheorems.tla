---------------------------- MODULE SumTheorems -----------------------------
(***************************************************************************)
(* Facts about the sum of a function over a finite set, as the community   *)
(* module Functions defines it, for the proofs that money is conserved.    *)
(*                                                                         *)
(* SumFunctionOnSet takes the elements of the set one by one, in an order  *)
(* that CHOOSE fixes.  First that recursion is shown to have a solution,   *)
(* by induction on the size of the sets, then not to depend on the order.  *)
(* The induction is the principle of the least number, for a set of        *)
(* numbers or of sets, so no operator is a parameter of it.  The same      *)
(* induction gives folds through the states of a system (FoldExists) and   *)
(* functions that go on from one number to the next (RecursionExists).     *)
(***************************************************************************)
EXTENDS Integers, FiniteSets, Functions, FiniteSetTheorems, WellFoundedInduction, TLAPS

-----------------------------------------------------------------------------
(***************************************************************************)
(* Induction.                                                              *)
(***************************************************************************)
\* A set of naturals that has an element has a least one.
LEMMA LeastNatural ==
    ASSUME NEW T, T \subseteq Nat, T # {}
    PROVE  \E n \in T : \A m \in T : n <= m
<1>1. PICK n \in T : \A m \in T : <<m, n>> \notin OpToRel(<, Nat)
    BY NatLessThanWellFounded, WFMin
<1>2. ASSUME NEW m \in T PROVE n <= m
    <2>1. m \in Nat /\ n \in Nat /\ ~(m < n)
        BY <1>1 DEF OpToRel
    <2>. QED
        BY <2>1
<1>. QED
    BY <1>2

\* One that has a bound has a greatest one.
LEMMA GreatestNatural ==
    ASSUME NEW T, T \subseteq Nat, T # {}, NEW K \in Nat, \A m \in T : m <= K
    PROVE  \E n \in T : \A m \in T : m <= n
<1>. DEFINE G == {K - m : m \in T}
<1>1. G \subseteq Nat
    OBVIOUS
<1>2. G # {}
    <2>1. PICK m : m \in T
        OBVIOUS
    <2>2. K - m \in G
        BY <2>1
    <2>. QED
        BY <2>2
<1>3. PICK g \in G : \A x \in G : g <= x
    BY <1>1, <1>2, LeastNatural
<1>4. PICK n \in T : g = K - n
    BY <1>3
<1>5. ASSUME NEW m \in T PROVE m <= n
    <2>1. K - m \in G
        OBVIOUS
    <2>2. K - n <= K - m /\ m \in Nat /\ n \in Nat
        BY <1>3, <1>4, <2>1
    <2>. QED
        BY <2>2
<1>. QED
    BY <1>5

\* The numbers up to n.
LEMMA IntervalSize ==
    ASSUME NEW n \in Nat
    PROVE  /\ IsFiniteSet(1..n) /\ Cardinality(1..n) = n
           /\ IsFiniteSet(0..n) /\ Cardinality(0..n) = n + 1
<1>1. IsFiniteSet(1..n) /\ Cardinality(1..n) = IF 1 > n THEN 0 ELSE n - 1 + 1
    BY FS_Interval
<1>2. IsFiniteSet(0..n) /\ Cardinality(0..n) = IF 0 > n THEN 0 ELSE n - 0 + 1
    BY FS_Interval
<1>3. (IF 1 > n THEN 0 ELSE n - 1 + 1) = n /\ (IF 0 > n THEN 0 ELSE n - 0 + 1) = n + 1
    OBVIOUS
<1>. QED
    BY <1>1, <1>2, <1>3

\* A set that holds 0 and with every natural the next holds all of them.
LEMMA NatSetInduction ==
    ASSUME NEW G, 0 \in G, \A n \in Nat : n \in G => n + 1 \in G
    PROVE  Nat \subseteq G
<1>. SUFFICES ASSUME Nat \ G # {} PROVE FALSE
    OBVIOUS
<1>1. PICK n \in Nat \ G : \A m \in Nat \ G : n <= m
    BY LeastNatural
<1>2. n - 1 \in Nat /\ n - 1 \in G
    BY <1>1
<1>. QED
    BY <1>2

\* A family that holds the empty set, and with every part of S also the part and
\* one more element, holds S.
LEMMA SetInduction ==
    ASSUME NEW S, IsFiniteSet(S), NEW G, {} \in G,
           \A T \in SUBSET S : \A x \in S \ T : T \in G => T \cup {x} \in G
    PROVE  S \in G
<1>. DEFINE sizes == {n \in Nat : \A T \in SUBSET S : Cardinality(T) = n => T \in G}
<1>1. \A T \in SUBSET S : IsFiniteSet(T) /\ Cardinality(T) \in Nat
    BY FS_Subset, FS_CardinalityType
<1>2. 0 \in sizes
    BY <1>1, FS_EmptySet
<1>3. ASSUME NEW n \in Nat, n \in sizes PROVE n + 1 \in sizes
    <2>1. ASSUME NEW T \in SUBSET S, Cardinality(T) = n + 1 PROVE T \in G
        <3>1. T # {}
            BY <1>1, <2>1, FS_EmptySet
        <3>2. PICK x : x \in T
            BY <3>1
        <3>3. Cardinality(T \ {x}) = n
            <4>1. Cardinality(T \ {x}) = Cardinality(T) - 1
                BY <1>1, <3>2, FS_RemoveElement
            <4>. QED
                BY <2>1, <4>1
        <3>4. T \ {x} \in G /\ x \in S \ (T \ {x}) /\ T \ {x} \in SUBSET S
            BY <1>3, <3>2, <3>3
        <3>5. (T \ {x}) \cup {x} \in G
            BY <3>4
        <3>6. (T \ {x}) \cup {x} = T
            BY <3>2
        <3>. QED
            BY <3>5, <3>6
    <2>. QED
        BY <2>1
<1>. HIDE DEF sizes
<1>4. Nat \subseteq sizes
    BY <1>2, <1>3, NatSetInduction
<1>5. Cardinality(S) \in sizes
    BY <1>1, <1>4
<1>. QED
    BY <1>5 DEF sizes

-----------------------------------------------------------------------------
(***************************************************************************)
(* The recursion.                                                          *)
(***************************************************************************)
Pick(s) == CHOOSE x \in s : TRUE

SumStep(f, g, s) == IF s = {} THEN 0 ELSE f[Pick(s)] + g[s \ {Pick(s)}]

Solution(f, S) == CHOOSE g : g = [s \in SUBSET S |-> SumStep(f, g, s)]

\* SumFunctionOnSet is the value of the recursion's solution.
LEMMA SumIsSolution ==
    ASSUME NEW f, NEW S
    PROVE  SumFunctionOnSet(f, S) = Solution(f, S)[S]
BY DEF SumFunctionOnSet, FoldFunctionOnSet, MapThenFoldSet, Solution, SumStep, Pick

\* One element of a set with fewer elements left.
LEMMA Smaller ==
    ASSUME NEW S, IsFiniteSet(S), NEW n \in Nat, NEW s \in SUBSET S,
           Cardinality(s) <= n + 1, NEW x \in s
    PROVE  s \ {x} \in SUBSET S /\ Cardinality(s \ {x}) <= n
<1>1. IsFiniteSet(s)
    BY FS_Subset
<1>2. Cardinality(s) \in Nat
    BY <1>1, FS_CardinalityType
<1>3. Cardinality(s \ {x}) = Cardinality(s) - 1
    BY <1>1, FS_RemoveElement
<1>. QED
    BY <1>2, <1>3

LEMMA PickIn == ASSUME NEW s, s # {} PROVE Pick(s) \in s
BY DEF Pick

\* The recursion has a solution: on sets of up to n elements for every n, so on
\* all subsets of a finite set.
LEMMA SolutionExists ==
    ASSUME NEW f, NEW S, IsFiniteSet(S)
    PROVE  Solution(f, S) = [s \in SUBSET S |-> SumStep(f, Solution(f, S), s)]
<1>. DEFINE Solves(g, n) == \A s \in SUBSET S : Cardinality(s) <= n => g[s] = SumStep(f, g, s)
            IsMap(g) == g = [s \in SUBSET S |-> g[s]]
            solved == {n \in Nat : \E g : IsMap(g) /\ Solves(g, n)}
<1>1. 0 \in solved
    <2>. DEFINE g == [s \in SUBSET S |-> 0]
    <2>1. ASSUME NEW s \in SUBSET S, Cardinality(s) <= 0 PROVE g[s] = SumStep(f, g, s)
        <3>1. IsFiniteSet(s)
            BY FS_Subset
        <3>2. Cardinality(s) = 0
            BY <2>1, <3>1, FS_CardinalityType
        <3>3. s = {}
            BY <3>1, <3>2, FS_EmptySet
        <3>. QED
            BY <3>3 DEF SumStep
    <2>2. IsMap(g)
        OBVIOUS
    <2>. QED
        BY <2>1, <2>2
<1>2. ASSUME NEW n \in Nat, n \in solved PROVE n + 1 \in solved
    <2>1. PICK g : IsMap(g) /\ Solves(g, n)
        BY <1>2
    <2>. DEFINE h == [s \in SUBSET S |-> SumStep(f, g, s)]
    <2>2. ASSUME NEW s \in SUBSET S, Cardinality(s) <= n PROVE h[s] = g[s]
        BY <2>1, <2>2
    <2>3. ASSUME NEW s \in SUBSET S, Cardinality(s) <= n + 1 PROVE h[s] = SumStep(f, h, s)
        <3>1. h[s] = SumStep(f, g, s)
            OBVIOUS
        <3>. HIDE DEF h
        <3>2. CASE s = {}
            BY <3>1, <3>2 DEF SumStep
        <3>3. CASE s # {}
            <4>1. s \ {Pick(s)} \in SUBSET S /\ Cardinality(s \ {Pick(s)}) <= n
                BY <2>3, <3>3, PickIn, Smaller
            <4>2. h[s \ {Pick(s)}] = g[s \ {Pick(s)}]
                BY <2>2, <4>1
            <4>. QED
                BY <3>1, <4>2 DEF SumStep
        <3>. QED
            BY <3>2, <3>3
    <2>4. IsMap(h) /\ Solves(h, n + 1)
        BY <2>3
    <2>5. n + 1 \in Nat
        OBVIOUS
    <2>. QED
        BY <2>4, <2>5
<1>3. Nat \subseteq solved
    <2>. HIDE DEF solved
    <2>. QED
        BY <1>1, <1>2, NatSetInduction
<1>4. Cardinality(S) \in Nat
    BY FS_CardinalityType
<1>5. PICK g : IsMap(g) /\ Solves(g, Cardinality(S))
    BY <1>3, <1>4
<1>6. \A s \in SUBSET S : Cardinality(s) <= Cardinality(S)
    BY FS_Subset
<1>7. g = [s \in SUBSET S |-> SumStep(f, g, s)]
    <2>1. \A s \in SUBSET S : g[s] = SumStep(f, g, s)
        BY <1>5, <1>6
    <2>2. g = [s \in SUBSET S |-> g[s]]
        BY <1>5
    <2>. QED
        BY <2>1, <2>2
<1>. QED
    BY <1>7 DEF Solution

\* What a solution is on a set.
LEMMA SolutionStep ==
    ASSUME NEW f, NEW S, IsFiniteSet(S), NEW s \in SUBSET S
    PROVE  /\ s = {} => Solution(f, S)[s] = 0
           /\ s # {} => /\ Pick(s) \in s
                        /\ Solution(f, S)[s] = f[Pick(s)] + Solution(f, S)[s \ {Pick(s)}]
<1>. DEFINE a == Solution(f, S)
<1>1. a = [t \in SUBSET S |-> SumStep(f, a, t)]
    BY SolutionExists
<1>. HIDE DEF a
<1>2. a[s] = SumStep(f, a, s)
    BY <1>1
<1>3. /\ s = {} => a[s] = 0
      /\ s # {} => Pick(s) \in s /\ a[s] = f[Pick(s)] + a[s \ {Pick(s)}]
    BY <1>2, PickIn DEF SumStep
<1>. QED
    BY <1>3 DEF a

\* A solution on a part of the set, for a function that agrees there.
LEMMA SolutionAgrees ==
    ASSUME NEW S, IsFiniteSet(S), NEW T \in SUBSET S, NEW f, NEW g, \A x \in T : f[x] = g[x]
    PROVE  Solution(f, S)[T] = SumFunctionOnSet(g, T)
<1>. DEFINE a == Solution(f, S)
            b == Solution(g, T)
            agree == {n \in Nat : \A s \in SUBSET T : Cardinality(s) <= n => a[s] = b[s]}
<1>0. IsFiniteSet(T)
    BY FS_Subset
<1>1. ASSUME NEW s \in SUBSET T
      PROVE  /\ s = {} => a[s] = 0 /\ b[s] = 0
             /\ s # {} => /\ a[s] = f[Pick(s)] + a[s \ {Pick(s)}]
                          /\ b[s] = g[Pick(s)] + b[s \ {Pick(s)}]
    <2>1. s \in SUBSET S
        OBVIOUS
    <2>2. /\ s = {} => a[s] = 0
          /\ s # {} => a[s] = f[Pick(s)] + a[s \ {Pick(s)}]
        BY ONLY IsFiniteSet(S), <2>1, SolutionStep
    <2>3. /\ s = {} => b[s] = 0
          /\ s # {} => b[s] = g[Pick(s)] + b[s \ {Pick(s)}]
        BY <1>0, SolutionStep
    <2>. QED
        BY <2>2, <2>3
<1>. HIDE DEF a, b
<1>2. 0 \in agree
    <2>1. ASSUME NEW s \in SUBSET T, Cardinality(s) <= 0 PROVE s = {}
        <3>1. IsFiniteSet(s)
            BY <1>0, FS_Subset
        <3>2. Cardinality(s) = 0
            BY <2>1, <3>1, FS_CardinalityType
        <3>. QED
            BY <3>1, <3>2, FS_EmptySet
    <2>. QED
        BY <1>1, <2>1
<1>3. ASSUME NEW n \in Nat, n \in agree PROVE n + 1 \in agree
    <2>1. ASSUME NEW s \in SUBSET T, Cardinality(s) <= n + 1 PROVE a[s] = b[s]
        <3>1. CASE s = {}
            BY <1>1, <3>1
        <3>2. CASE s # {}
            <4>1. Pick(s) \in s
                BY <3>2, PickIn
            <4>2. s \ {Pick(s)} \in SUBSET T /\ Cardinality(s \ {Pick(s)}) <= n
                BY <1>0, <2>1, <4>1, Smaller
            <4>3. a[s \ {Pick(s)}] = b[s \ {Pick(s)}]
                BY <1>3, <4>2
            <4>4. f[Pick(s)] = g[Pick(s)]
                BY <4>1
            <4>. QED
                BY <1>1, <3>2, <4>3, <4>4
        <3>. QED
            BY <3>1, <3>2
    <2>2. n + 1 \in Nat
        OBVIOUS
    <2>. QED
        BY <2>1, <2>2
<1>. HIDE DEF agree
<1>4. Nat \subseteq agree
    BY <1>2, <1>3, NatSetInduction
<1>5. Cardinality(T) \in Nat
    BY <1>0, FS_CardinalityType
<1>6. a[T] = b[T]
    BY <1>4, <1>5 DEF agree
<1>7. SumFunctionOnSet(g, T) = b[T]
    BY SumIsSolution DEF b
<1>. QED
    BY <1>6, <1>7 DEF a

\* The sum is an integer, and any element can be taken out first.
LEMMA SolutionOrder ==
    ASSUME NEW S, IsFiniteSet(S), NEW f, \A x \in S : f[x] \in Int
    PROVE  \A s \in SUBSET S :
              /\ Solution(f, S)[s] \in Int
              /\ \A x \in s : Solution(f, S)[s] = f[x] + Solution(f, S)[s \ {x}]
<1>. DEFINE a == Solution(f, S)
            Right(s) == a[s] \in Int /\ \A x \in s : a[s] = f[x] + a[s \ {x}]
            right == {n \in Nat : \A s \in SUBSET S : Cardinality(s) <= n => Right(s)}
<1>1. ASSUME NEW s \in SUBSET S
      PROVE  /\ s = {} => a[s] = 0
             /\ s # {} => Pick(s) \in s /\ a[s] = f[Pick(s)] + a[s \ {Pick(s)}]
    BY ONLY IsFiniteSet(S), SolutionStep
<1>. HIDE DEF a
<1>2. 0 \in right
    <2>1. ASSUME NEW s \in SUBSET S, Cardinality(s) <= 0 PROVE s = {}
        <3>1. IsFiniteSet(s)
            BY FS_Subset
        <3>2. Cardinality(s) = 0
            BY <2>1, <3>1, FS_CardinalityType
        <3>. QED
            BY <3>1, <3>2, FS_EmptySet
    <2>2. a[{}] = 0
        BY <1>1
    <2>3. Right({})
        BY <2>2
    <2>. HIDE DEF Right
    <2>. QED
        BY <2>1, <2>3
<1>3. ASSUME NEW n \in Nat, n \in right PROVE n + 1 \in right
    <2>1. ASSUME NEW s \in SUBSET S, Cardinality(s) <= n + 1 PROVE Right(s)
        <3>1. CASE s = {}
            <4>1. a[s] = 0
                BY <1>1, <3>1
            <4>. QED
                BY <3>1, <4>1
        <3>2. CASE s # {}
            <4>. DEFINE c == Pick(s)
            <4>1. c \in s /\ a[s] = f[c] + a[s \ {c}]
                BY <1>1, <3>2
            <4>. HIDE DEF c
            <4>2. \A x \in s : /\ s \ {x} \in SUBSET S /\ Cardinality(s \ {x}) <= n
                BY <2>1, Smaller
            <4>3. \A x \in s : Right(s \ {x})
                BY <1>3, <4>2
            <4>4. f[c] \in Int /\ a[s \ {c}] \in Int
                BY <4>1, <4>3
            <4>5. ASSUME NEW x \in s PROVE a[s] = f[x] + a[s \ {x}]
                <5>1. CASE x = c
                    BY <4>1, <5>1
                <5>2. CASE x # c
                    <6>1. a[s \ {c}] = f[x] + a[(s \ {c}) \ {x}]
                        BY <4>1, <4>3, <5>2
                    <6>2. a[s \ {x}] = f[c] + a[(s \ {x}) \ {c}]
                        BY <4>1, <4>3, <5>2
                    <6>3. (s \ {x}) \ {c} = (s \ {c}) \ {x}
                        OBVIOUS
                    <6>4. (s \ {c}) \ {x} \in SUBSET S /\ Cardinality((s \ {c}) \ {x}) <= n
                        <7>1. n <= n + 1 /\ s \ {c} \in SUBSET S /\ x \in s \ {c}
                            BY <5>2
                        <7>2. Cardinality(s \ {c}) \in Nat
                            BY <7>1, FS_Subset, FS_CardinalityType
                        <7>3. Cardinality(s \ {c}) <= n + 1
                            BY <4>1, <4>2, <7>2
                        <7>. QED
                            BY <7>1, <7>3, Smaller
                    <6>5. Right((s \ {c}) \ {x})
                        BY <1>3, <6>4
                    <6>. DEFINE rest == a[(s \ {c}) \ {x}]
                    <6>6. rest \in Int /\ f[x] \in Int
                        BY <6>5
                    <6>7. a[s \ {c}] = f[x] + rest /\ a[s \ {x}] = f[c] + rest
                        BY <6>1, <6>2, <6>3
                    <6>. HIDE DEF rest
                    <6>. QED
                        BY <4>1, <4>4, <6>6, <6>7
                <5>. QED
                    BY <5>1, <5>2
            <4>. QED
                BY <4>1, <4>4, <4>5
        <3>. QED
            BY <3>1, <3>2
    <2>2. n + 1 \in Nat
        OBVIOUS
    <2>. QED
        BY <2>1, <2>2
<1>4. Nat \subseteq right
    <2>. HIDE DEF right
    <2>. QED
        BY <1>2, <1>3, NatSetInduction
<1>5. ASSUME NEW s \in SUBSET S PROVE Right(s)
    <2>1. Cardinality(s) \in Nat
        BY FS_Subset, FS_CardinalityType
    <2>2. Cardinality(s) \in right /\ Cardinality(s) <= Cardinality(s)
        BY <1>4, <2>1
    <2>. HIDE DEF Right
    <2>. QED
        BY <2>2
<1>. QED
    BY <1>5 DEF a

-----------------------------------------------------------------------------
(***************************************************************************)
(* Sums.                                                                   *)
(***************************************************************************)
LEMMA SumAgree ==
    ASSUME NEW S, IsFiniteSet(S), NEW f, NEW g, \A x \in S : f[x] = g[x]
    PROVE  SumFunctionOnSet(f, S) = SumFunctionOnSet(g, S)
<1>1. S \in SUBSET S
    OBVIOUS
<1>2. Solution(f, S)[S] = SumFunctionOnSet(g, S)
    BY <1>1, SolutionAgrees
<1>. QED
    BY <1>2, SumIsSolution

LEMMA SumEmpty == ASSUME NEW f PROVE SumFunctionOnSet(f, {}) = 0
<1>1. {} \in SUBSET {} /\ IsFiniteSet({})
    BY FS_EmptySet
<1>2. Solution(f, {})[{}] = 0
    BY <1>1, SolutionStep
<1>. QED
    BY <1>2, SumIsSolution

LEMMA SumInteger ==
    ASSUME NEW S, IsFiniteSet(S), NEW f, \A x \in S : f[x] \in Int
    PROVE  SumFunctionOnSet(f, S) \in Int
<1>1. S \in SUBSET S
    OBVIOUS
<1>2. Solution(f, S)[S] \in Int
    BY <1>1, SolutionOrder
<1>. QED
    BY <1>2, SumIsSolution

\* A sum is an element's value and the sum of the others.
LEMMA SumTake ==
    ASSUME NEW S, IsFiniteSet(S), NEW f, \A x \in S : f[x] \in Int, NEW x \in S
    PROVE  SumFunctionOnSet(f, S) = f[x] + SumFunctionOnSet(f, S \ {x})
<1>1. S \in SUBSET S /\ S \ {x} \in SUBSET S
    OBVIOUS
<1>2. Solution(f, S)[S] = f[x] + Solution(f, S)[S \ {x}]
    BY <1>1, SolutionOrder
<1>3. \A y \in S \ {x} : f[y] = f[y]
    OBVIOUS
<1>4. Solution(f, S)[S \ {x}] = SumFunctionOnSet(f, S \ {x})
    BY ONLY IsFiniteSet(S), <1>1, <1>3, SolutionAgrees
<1>. QED
    BY <1>2, <1>4, SumIsSolution

LEMMA SumAdd ==
    ASSUME NEW S, IsFiniteSet(S), NEW x, x \notin S, NEW f, \A y \in S \cup {x} : f[y] \in Int
    PROVE  SumFunctionOnSet(f, S \cup {x}) = f[x] + SumFunctionOnSet(f, S)
<1>1. IsFiniteSet(S \cup {x})
    BY FS_AddElement
<1>2. (S \cup {x}) \ {x} = S /\ x \in S \cup {x}
    OBVIOUS
<1>3. SumFunctionOnSet(f, S \cup {x}) = f[x] + SumFunctionOnSet(f, (S \cup {x}) \ {x})
    BY <1>1, <1>2, SumTake
<1>. QED
    BY <1>2, <1>3

\* A sum of naturals is one, and no part of it is more.
LEMMA SumNatural ==
    ASSUME NEW S, IsFiniteSet(S), NEW f, \A x \in S : f[x] \in Nat
    PROVE  /\ SumFunctionOnSet(f, S) \in Nat
           /\ \A x \in S : f[x] <= SumFunctionOnSet(f, S)
<1>. DEFINE G == {T \in SUBSET S : SumFunctionOnSet(f, T) \in Nat}
<1>1. {} \in G
    BY SumEmpty
<1>2. ASSUME NEW T \in SUBSET S, NEW x \in S \ T, T \in G PROVE T \cup {x} \in G
    <2>1. SumFunctionOnSet(f, T \cup {x}) = f[x] + SumFunctionOnSet(f, T)
        <3>1. IsFiniteSet(T) /\ x \notin T /\ \A y \in T \cup {x} : f[y] \in Int
            BY FS_Subset
        <3>. QED
            BY <3>1, SumAdd
    <2>2. f[x] \in Nat /\ SumFunctionOnSet(f, T) \in Nat
        BY <1>2
    <2>. QED
        BY <2>1, <2>2
<1>. HIDE DEF G
<1>3. \A T \in SUBSET S : T \in G
    <2>1. ASSUME NEW T \in SUBSET S PROVE T \in G
        <3>1. IsFiniteSet(T)
            BY FS_Subset
        <3>2. \A U \in SUBSET T : \A x \in T \ U : U \in G => U \cup {x} \in G
            BY <1>2
        <3>. QED
            BY <1>1, <3>1, <3>2, SetInduction
    <2>. QED
        BY <2>1
<1>4. SumFunctionOnSet(f, S) \in Nat
    BY <1>3 DEF G
<1>5. ASSUME NEW x \in S PROVE f[x] <= SumFunctionOnSet(f, S)
    <2>1. \A y \in S : f[y] \in Int
        OBVIOUS
    <2>2. SumFunctionOnSet(f, S) = f[x] + SumFunctionOnSet(f, S \ {x})
        BY <2>1, SumTake
    <2>3. SumFunctionOnSet(f, S \ {x}) \in Nat /\ f[x] \in Nat
        BY <1>3 DEF G
    <2>. QED
        BY <2>2, <2>3
<1>. QED
    BY <1>4, <1>5

\* The sum of two functions.
LEMMA SumPlus ==
    ASSUME NEW S, IsFiniteSet(S), NEW f, NEW g, NEW h,
           \A x \in S : f[x] \in Int /\ g[x] \in Int /\ h[x] = f[x] + g[x]
    PROVE  SumFunctionOnSet(h, S) = SumFunctionOnSet(f, S) + SumFunctionOnSet(g, S)
<1>. DEFINE G == {T \in SUBSET S :
                    SumFunctionOnSet(h, T) = SumFunctionOnSet(f, T) + SumFunctionOnSet(g, T)}
<1>0. \A x \in S : h[x] \in Int
    OBVIOUS
<1>1. {} \in G
    <2>1. SumFunctionOnSet(h, {}) = 0 /\ SumFunctionOnSet(f, {}) = 0 /\ SumFunctionOnSet(g, {}) = 0
        BY SumEmpty
    <2>. QED
        BY <2>1
<1>2. ASSUME NEW T \in SUBSET S, NEW x \in S \ T, T \in G PROVE T \cup {x} \in G
    <2>1. IsFiniteSet(T) /\ x \notin T
        BY FS_Subset
    <2>2. /\ \A y \in T \cup {x} : f[y] \in Int
          /\ \A y \in T \cup {x} : g[y] \in Int
          /\ \A y \in T \cup {x} : h[y] \in Int
        BY <1>0
    <2>3. /\ SumFunctionOnSet(f, T \cup {x}) = f[x] + SumFunctionOnSet(f, T)
          /\ SumFunctionOnSet(f, T) \in Int
        BY ONLY <2>1, <2>2, SumAdd, SumInteger
    <2>4. /\ SumFunctionOnSet(g, T \cup {x}) = g[x] + SumFunctionOnSet(g, T)
          /\ SumFunctionOnSet(g, T) \in Int
        BY ONLY <2>1, <2>2, SumAdd, SumInteger
    <2>5. SumFunctionOnSet(h, T \cup {x}) = h[x] + SumFunctionOnSet(h, T)
        BY ONLY <2>1, <2>2, SumAdd
    <2>6. h[x] = f[x] + g[x] /\ f[x] \in Int /\ g[x] \in Int
        OBVIOUS
    <2>7. SumFunctionOnSet(h, T) = SumFunctionOnSet(f, T) + SumFunctionOnSet(g, T)
        BY <1>2
    <2>. QED
        BY <2>3, <2>4, <2>5, <2>6, <2>7
<1>. HIDE DEF G
<1>3. S \in G
    BY <1>1, <1>2, SetInduction
<1>. QED
    BY <1>3 DEF G

\* One value only.
LEMMA SumSingle ==
    ASSUME NEW S, IsFiniteSet(S), NEW f, NEW x \in S, f[x] \in Int, \A y \in S \ {x} : f[y] = 0
    PROVE  SumFunctionOnSet(f, S) = f[x]
<1>1. \A y \in S : f[y] \in Int
    OBVIOUS
<1>2. SumFunctionOnSet(f, S) = f[x] + SumFunctionOnSet(f, S \ {x})
    BY <1>1, SumTake
<1>3. SumFunctionOnSet(f, S \ {x}) = 0
    <2>. DEFINE G == {T \in SUBSET (S \ {x}) : SumFunctionOnSet(f, T) = 0}
    <2>1. {} \in G
        BY SumEmpty
    <2>2. ASSUME NEW T \in SUBSET (S \ {x}), NEW y \in (S \ {x}) \ T, T \in G
          PROVE  T \cup {y} \in G
        <3>1. IsFiniteSet(T) /\ y \notin T /\ \A z \in T \cup {y} : f[z] \in Int
            BY <1>1, FS_Subset
        <3>2. SumFunctionOnSet(f, T \cup {y}) = f[y] + SumFunctionOnSet(f, T)
            BY <3>1, SumAdd
        <3>. QED
            BY <2>2, <3>2
    <2>3. IsFiniteSet(S \ {x})
        BY FS_Subset
    <2>. HIDE DEF G
    <2>4. S \ {x} \in G
        BY <2>1, <2>2, <2>3, SetInduction
    <2>. QED
        BY <2>4 DEF G
<1>. QED
    BY <1>2, <1>3

LEMMA SumZero ==
    ASSUME NEW S, IsFiniteSet(S), NEW f, \A x \in S : f[x] = 0
    PROVE  SumFunctionOnSet(f, S) = 0
<1>1. CASE S = {}
    BY <1>1, SumEmpty
<1>2. CASE S # {}
    <2>1. PICK x : x \in S
        BY <1>2
    <2>. QED
        BY <2>1, SumSingle
<1>. QED
    BY <1>1, <1>2

\* The sum over a set is that over a part and over the rest.
LEMMA SumSplit ==
    ASSUME NEW S, IsFiniteSet(S), NEW f, \A x \in S : f[x] \in Int, NEW P \in SUBSET S
    PROVE  SumFunctionOnSet(f, S) = SumFunctionOnSet(f, S \ P) + SumFunctionOnSet(f, P)
<1>. DEFINE G == {T \in SUBSET P :
                    SumFunctionOnSet(f, S) = SumFunctionOnSet(f, S \ T) + SumFunctionOnSet(f, T)}
<1>0. IsFiniteSet(P)
    BY FS_Subset
<1>1. {} \in G
    <2>1. SumFunctionOnSet(f, {}) = 0 /\ S \ {} = S
        BY SumEmpty
    <2>2. SumFunctionOnSet(f, S) \in Int
        BY SumInteger
    <2>. QED
        BY <2>1, <2>2
<1>2. ASSUME NEW T \in SUBSET P, NEW x \in P \ T, T \in G PROVE T \cup {x} \in G
    <2>1. /\ IsFiniteSet(T) /\ x \notin T /\ \A y \in T \cup {x} : f[y] \in Int
          /\ \A y \in T : f[y] \in Int
        BY <1>0, FS_Subset
    <2>2. /\ IsFiniteSet(S \ T) /\ x \in S \ T /\ \A y \in S \ T : f[y] \in Int
          /\ IsFiniteSet((S \ T) \ {x}) /\ \A y \in (S \ T) \ {x} : f[y] \in Int
        BY FS_Subset
    <2>3. SumFunctionOnSet(f, T \cup {x}) = f[x] + SumFunctionOnSet(f, T)
        BY <2>1, SumAdd
    <2>4. SumFunctionOnSet(f, S \ T) = f[x] + SumFunctionOnSet(f, (S \ T) \ {x})
        BY <2>2, SumTake
    <2>5. (S \ T) \ {x} = S \ (T \cup {x})
        OBVIOUS
    <2>6. SumFunctionOnSet(f, T) \in Int /\ SumFunctionOnSet(f, (S \ T) \ {x}) \in Int
        BY <2>1, <2>2, SumInteger
    <2>7. f[x] \in Int /\ SumFunctionOnSet(f, S) = SumFunctionOnSet(f, S \ T) + SumFunctionOnSet(f, T)
        BY <1>2
    <2>8. SumFunctionOnSet(f, S) =
             SumFunctionOnSet(f, (S \ T) \ {x}) + SumFunctionOnSet(f, T \cup {x})
        BY <2>3, <2>4, <2>6, <2>7
    <2>. QED
        BY <2>5, <2>8
<1>. HIDE DEF G
<1>3. P \in G
    BY <1>0, <1>1, <1>2, SetInduction
<1>. QED
    BY <1>3 DEF G

\* What is summed by owner first, and then over the owners.
LEMMA SumGrouped ==
    ASSUME NEW S, IsFiniteSet(S), NEW A, IsFiniteSet(A),
           NEW f, \A k \in S : f[k] \in Int,
           NEW owner, \A k \in S : owner[k] \in A
    PROVE  SumFunctionOnSet([a \in A |-> SumFunctionOnSet(f, {k \in S : owner[k] = a})], A)
             = SumFunctionOnSet(f, S)
<1>. DEFINE of(T, a) == {k \in T : owner[k] = a}
            byOwner(T) == [a \in A |-> SumFunctionOnSet(f, of(T, a))]
            G == {T \in SUBSET S : SumFunctionOnSet(byOwner(T), A) = SumFunctionOnSet(f, T)}
<1>1. {} \in G
    <2>1. \A a \in A : byOwner({})[a] = 0
        <3>1. \A a \in A : of({}, a) = {}
            OBVIOUS
        <3>. QED
            BY <3>1, SumEmpty
    <2>. HIDE DEF byOwner
    <2>2. SumFunctionOnSet(byOwner({}), A) = 0
        BY <2>1, SumZero
    <2>. QED
        BY <2>2, SumEmpty
<1>2. ASSUME NEW T \in SUBSET S, NEW x \in S \ T, T \in G PROVE T \cup {x} \in G
    <2>. DEFINE one == [a \in A |-> IF a = owner[x] THEN f[x] ELSE 0]
                old == byOwner(T)
                new == byOwner(T \cup {x})
    <2>1. IsFiniteSet(T) /\ x \notin T /\ f[x] \in Int /\ owner[x] \in A
        BY FS_Subset
    <2>2. ASSUME NEW a \in A
          PROVE  old[a] \in Int /\ one[a] \in Int /\ new[a] = old[a] + one[a]
        <3>1. IsFiniteSet(of(T, a)) /\ \A k \in of(T, a) : f[k] \in Int
            BY <2>1, FS_Subset
        <3>2. SumFunctionOnSet(f, of(T, a)) \in Int
            BY <3>1, SumInteger
        <3>3. CASE a = owner[x]
            <4>1. of(T \cup {x}, a) = of(T, a) \cup {x} /\ x \notin of(T, a)
                BY <2>1, <3>3
            <4>2. \A k \in of(T, a) \cup {x} : f[k] \in Int
                BY <2>1, <3>1
            <4>. HIDE DEF of
            <4>3. SumFunctionOnSet(f, of(T, a) \cup {x}) = f[x] + SumFunctionOnSet(f, of(T, a))
                BY <3>1, <4>1, <4>2, SumAdd
            <4>4. /\ old[a] = SumFunctionOnSet(f, of(T, a)) /\ one[a] = f[x]
                  /\ new[a] = SumFunctionOnSet(f, of(T, a) \cup {x})
                BY <3>3, <4>1
            <4>. HIDE DEF old, one, new
            <4>. QED
                BY <2>1, <3>2, <4>3, <4>4
        <3>4. CASE a # owner[x]
            <4>1. of(T \cup {x}, a) = of(T, a)
                BY <3>4
            <4>. HIDE DEF of
            <4>. QED
                BY <3>2, <3>4, <4>1
        <3>. QED
            BY <3>3, <3>4
    <2>3. one[owner[x]] = f[x] /\ \A a \in A \ {owner[x]} : one[a] = 0
        BY <2>1
    <2>. HIDE DEF one, old, new
    <2>4. SumFunctionOnSet(new, A) = SumFunctionOnSet(old, A) + SumFunctionOnSet(one, A)
        BY <2>2, SumPlus
    <2>5. SumFunctionOnSet(one, A) = f[x]
        BY ONLY IsFiniteSet(A), <2>1, <2>3, SumSingle
    <2>6. SumFunctionOnSet(old, A) = SumFunctionOnSet(f, T)
        BY <1>2 DEF old
    <2>7. /\ SumFunctionOnSet(f, T \cup {x}) = f[x] + SumFunctionOnSet(f, T)
          /\ SumFunctionOnSet(f, T) \in Int
        <3>1. \A y \in T \cup {x} : f[y] \in Int
            OBVIOUS
        <3>. QED
            BY ONLY <2>1, <3>1, SumAdd, SumInteger
    <2>8. SumFunctionOnSet(new, A) = SumFunctionOnSet(f, T \cup {x})
        BY <2>1, <2>4, <2>5, <2>6, <2>7
    <2>. QED
        BY <2>8 DEF new
<1>3. S \in G
    <2>. HIDE DEF G
    <2>. QED
        BY <1>1, <1>2, SetInduction
<1>. QED
    BY <1>3

\* Storing a value under a key, old or new.
LEMMA SumStore ==
    ASSUME NEW f, IsFiniteSet(DOMAIN f), \A x \in DOMAIN f : f[x] \in Int,
           NEW k, NEW v \in Int,
           NEW g, g = [x \in DOMAIN f \cup {k} |-> IF x = k THEN v ELSE f[x]]
    PROVE  /\ IsFiniteSet(DOMAIN g)
           /\ SumFunction(f) \in Int
           /\ k \in DOMAIN f => SumFunction(g) = SumFunction(f) - f[k] + v
           /\ k \notin DOMAIN f => SumFunction(g) = SumFunction(f) + v
<1>. DEFINE D == DOMAIN f
            rest == SumFunctionOnSet(f, D \ {k})
<1>1. DOMAIN g = D \cup {k} /\ g[k] = v /\ \A x \in D \ {k} : g[x] = f[x]
    OBVIOUS
<1>2. IsFiniteSet(D \cup {k}) /\ IsFiniteSet(D \ {k})
    BY FS_AddElement, FS_Subset
<1>3. rest \in Int
    BY <1>2, SumInteger
<1>4. SumFunctionOnSet(g, D \cup {k}) = v + rest
    <2>1. \A x \in D \cup {k} : g[x] \in Int
        BY <1>1
    <2>2. SumFunctionOnSet(g, D \cup {k}) = g[k] + SumFunctionOnSet(g, (D \cup {k}) \ {k})
        BY <1>2, <2>1, SumTake
    <2>3. (D \cup {k}) \ {k} = D \ {k}
        OBVIOUS
    <2>4. SumFunctionOnSet(g, D \ {k}) = rest
        BY <1>1, <1>2, SumAgree
    <2>. QED
        BY <1>1, <2>2, <2>3, <2>4
<1>5. k \in D => SumFunctionOnSet(f, D) = f[k] + rest
    BY SumTake
<1>6. k \notin D => D \ {k} = D
    OBVIOUS
<1>7. SumFunctionOnSet(f, D) \in Int
    BY SumInteger
<1>. HIDE DEF rest
<1>8. k \in D => SumFunctionOnSet(g, D \cup {k}) = SumFunctionOnSet(f, D) - f[k] + v
    BY <1>3, <1>4, <1>5
<1>9. k \notin D => SumFunctionOnSet(g, D \cup {k}) = SumFunctionOnSet(f, D) + v
    BY <1>3, <1>4, <1>6 DEF rest
<1>. QED
    BY <1>1, <1>2, <1>7, <1>8, <1>9 DEF SumFunction

\* Leaving keys out.
LEMMA SumDrop ==
    ASSUME NEW f, IsFiniteSet(DOMAIN f), \A x \in DOMAIN f : f[x] \in Int,
           NEW S \in SUBSET DOMAIN f,
           NEW g, g = [x \in DOMAIN f \ S |-> f[x]]
    PROVE  /\ IsFiniteSet(DOMAIN g)
           /\ SumFunction(g) \in Int
           /\ SumFunction(f) = SumFunction(g) + SumFunctionOnSet(f, S)
<1>1. DOMAIN g = DOMAIN f \ S /\ \A x \in DOMAIN f \ S : g[x] = f[x] /\ g[x] \in Int
    OBVIOUS
<1>2. IsFiniteSet(DOMAIN f \ S)
    BY FS_Subset
<1>3. SumFunctionOnSet(g, DOMAIN f \ S) = SumFunctionOnSet(f, DOMAIN f \ S)
    BY <1>1, <1>2, SumAgree
<1>4. SumFunctionOnSet(f, DOMAIN f) = SumFunctionOnSet(f, DOMAIN f \ S) + SumFunctionOnSet(f, S)
    BY SumSplit
<1>5. SumFunctionOnSet(g, DOMAIN f \ S) \in Int
    BY <1>1, <1>2, SumInteger
<1>. QED
    BY <1>1, <1>2, <1>3, <1>4, <1>5 DEF SumFunction

\* Leaving one key out.
LEMMA SumOfOne ==
    ASSUME NEW f, NEW x, f[x] \in Int
    PROVE  SumFunctionOnSet(f, {x}) = f[x]
<1>1. IsFiniteSet({x}) /\ x \in {x} /\ \A y \in {x} \ {x} : f[y] = 0
    BY FS_Singleton
<1>. QED
    BY <1>1, SumSingle

\* Two functions that differ at one element.
LEMMA SumChange ==
    ASSUME NEW S, IsFiniteSet(S), NEW f, NEW g, NEW k \in S,
           \A x \in S : f[x] \in Int, g[k] \in Int, \A x \in S \ {k} : g[x] = f[x]
    PROVE  /\ SumFunctionOnSet(f, S) \in Int
           /\ SumFunctionOnSet(g, S) = SumFunctionOnSet(f, S) - f[k] + g[k]
<1>1. \A x \in S : g[x] \in Int
    OBVIOUS
<1>2. IsFiniteSet(S \ {k}) /\ \A x \in S \ {k} : f[x] \in Int
    BY FS_Subset
<1>3. SumFunctionOnSet(f, S) = f[k] + SumFunctionOnSet(f, S \ {k})
    BY SumTake
<1>4. SumFunctionOnSet(g, S) = g[k] + SumFunctionOnSet(g, S \ {k})
    BY <1>1, SumTake
<1>5. SumFunctionOnSet(g, S \ {k}) = SumFunctionOnSet(f, S \ {k})
    BY <1>2, SumAgree
<1>6. SumFunctionOnSet(f, S \ {k}) \in Int /\ f[k] \in Int /\ SumFunctionOnSet(f, S) \in Int
    BY <1>2, SumInteger
<1>. QED
    BY <1>3, <1>4, <1>5, <1>6

\* What is nowhere more is not more in the sum.
LEMMA SumLess ==
    ASSUME NEW S, IsFiniteSet(S), NEW f, NEW g,
           \A x \in S : f[x] \in Int /\ g[x] \in Int /\ f[x] <= g[x]
    PROVE  SumFunctionOnSet(f, S) <= SumFunctionOnSet(g, S)
<1>. DEFINE d == [x \in S |-> g[x] - f[x]]
<1>1. \A x \in S : d[x] \in Nat /\ d[x] \in Int /\ f[x] \in Int /\ g[x] = f[x] + d[x]
    OBVIOUS
<1>. HIDE DEF d
<1>2. SumFunctionOnSet(g, S) = SumFunctionOnSet(f, S) + SumFunctionOnSet(d, S)
    BY <1>1, SumPlus
<1>3. SumFunctionOnSet(d, S) \in Nat
    BY <1>1, SumNatural
<1>4. SumFunctionOnSet(f, S) \in Int
    BY <1>1, SumInteger
<1>. QED
    BY <1>2, <1>3, <1>4

\* A factor of all values is one of the sum.
LEMMA SumTimes ==
    ASSUME NEW S, IsFiniteSet(S), NEW f, NEW g, NEW c \in Int,
           \A x \in S : f[x] \in Int /\ g[x] = c * f[x]
    PROVE  SumFunctionOnSet(g, S) = c * SumFunctionOnSet(f, S)
<1>. DEFINE G == {T \in SUBSET S : SumFunctionOnSet(g, T) = c * SumFunctionOnSet(f, T)}
<1>0. \A x \in S : f[x] \in Int /\ g[x] \in Int
    OBVIOUS
<1>1. {} \in G
    BY SumEmpty
<1>2. ASSUME NEW T \in SUBSET S, NEW x \in S \ T, T \in G PROVE T \cup {x} \in G
    <2>1. IsFiniteSet(T) /\ x \notin T /\ (\A y \in T \cup {x} : f[y] \in Int)
          /\ (\A y \in T \cup {x} : g[y] \in Int) /\ (\A y \in T : f[y] \in Int)
        BY <1>0, FS_Subset
    <2>2. SumFunctionOnSet(f, T \cup {x}) = f[x] + SumFunctionOnSet(f, T)
        BY <2>1, SumAdd
    <2>3. SumFunctionOnSet(g, T \cup {x}) = g[x] + SumFunctionOnSet(g, T)
        BY <2>1, SumAdd
    <2>4. SumFunctionOnSet(f, T) \in Int
        BY <2>1, SumInteger
    <2>5. SumFunctionOnSet(g, T) = c * SumFunctionOnSet(f, T) /\ g[x] = c * f[x] /\ f[x] \in Int
        BY <1>2
    <2>6. SumFunctionOnSet(g, T \cup {x}) = c * SumFunctionOnSet(f, T \cup {x})
        BY <2>2, <2>3, <2>4, <2>5
    <2>. QED
        BY <2>6
<1>. HIDE DEF G
<1>3. S \in G
    BY <1>1, <1>2, SetInduction
<1>. QED
    BY <1>3 DEF G

\* All values are the same.
LEMMA SumOfSame ==
    ASSUME NEW S, IsFiniteSet(S), NEW f, NEW c \in Int, \A x \in S : f[x] = c
    PROVE  SumFunctionOnSet(f, S) = Cardinality(S) * c /\ Cardinality(S) \in Nat
<1>. DEFINE G == {T \in SUBSET S : SumFunctionOnSet(f, T) = Cardinality(T) * c}
<1>1. {} \in G
    BY SumEmpty, FS_EmptySet
<1>2. ASSUME NEW T \in SUBSET S, NEW x \in S \ T, T \in G PROVE T \cup {x} \in G
    <2>1. IsFiniteSet(T) /\ x \notin T /\ (\A y \in T \cup {x} : f[y] \in Int)
        BY FS_Subset
    <2>2. SumFunctionOnSet(f, T \cup {x}) = f[x] + SumFunctionOnSet(f, T)
        BY <2>1, SumAdd
    <2>3. Cardinality(T \cup {x}) = Cardinality(T) + 1 /\ Cardinality(T) \in Nat
        BY <2>1, FS_AddElement, FS_CardinalityType
    <2>4. SumFunctionOnSet(f, T) = Cardinality(T) * c /\ f[x] = c
        BY <1>2
    <2>5. SumFunctionOnSet(f, T \cup {x}) = Cardinality(T \cup {x}) * c
        BY <2>2, <2>3, <2>4
    <2>. QED
        BY <2>5
<1>. HIDE DEF G
<1>3. S \in G
    BY <1>1, <1>2, SetInduction
<1>. QED
    BY <1>3, FS_CardinalityType DEF G

\* The sum of a table is over its domain.
LEMMA SumIs == ASSUME NEW S, NEW f, DOMAIN f = S PROVE SumFunction(f) = SumFunctionOnSet(f, S)
  BY DEF SumFunction

\* The sum of a table of naturals.
LEMMA SumType == ASSUME NEW S, IsFiniteSet(S), NEW f \in [S -> Nat]
                 PROVE  /\ SumFunction(f) = SumFunctionOnSet(f, S) /\ SumFunctionOnSet(f, S) \in Nat
                        /\ \A x \in S : f[x] <= SumFunctionOnSet(f, S)
  BY SumIs, SumNatural

\* One entry of a table changes.
LEMMA EntryChanges ==
  ASSUME NEW S, IsFiniteSet(S), NEW f \in [S -> Nat], NEW k \in S,
         NEW g \in [S -> Nat], \A x \in S \ {k} : g[x] = f[x]
  PROVE  /\ SumFunction(f) \in Nat /\ f[k] \in Nat /\ g[k] \in Nat
         /\ SumFunction(g) = SumFunction(f) - f[k] + g[k]
  <1>1. f[k] \in Nat /\ g[k] \in Nat /\ g[k] \in Int /\ (\A x \in S : f[x] \in Int)
    OBVIOUS
  <1>2. SumFunctionOnSet(g, S) = SumFunctionOnSet(f, S) - f[k] + g[k]
    BY <1>1, SumChange
  <1>3. SumFunction(g) = SumFunctionOnSet(g, S) /\ SumFunction(f) = SumFunctionOnSet(f, S)
        /\ SumFunctionOnSet(f, S) \in Nat
    BY <1>1, SumType
  <1> QED BY <1>1, <1>2, <1>3

\* What that does to the sum over a part of the table.
LEMMA PartChanges ==
  ASSUME NEW D, NEW f \in [D -> Nat], NEW k \in D,
         NEW g \in [D -> Nat], \A x \in D \ {k} : g[x] = f[x], NEW S \in SUBSET D, IsFiniteSet(S)
  PROVE  /\ SumFunctionOnSet(f, S) \in Nat /\ SumFunctionOnSet(g, S) \in Nat
         /\ k \in S => /\ f[k] <= SumFunctionOnSet(f, S)
                       /\ SumFunctionOnSet(g, S) = SumFunctionOnSet(f, S) + (g[k] - f[k])
         /\ k \notin S => SumFunctionOnSet(g, S) = SumFunctionOnSet(f, S)
  <1>1. (\A p \in S : f[p] \in Nat) /\ (\A p \in S : g[p] \in Nat) /\ (\A p \in S : f[p] \in Int)
        /\ (\A p \in S \ {k} : g[p] = f[p]) /\ f[k] \in Nat /\ g[k] \in Int
    OBVIOUS
  <1>2. SumFunctionOnSet(f, S) \in Nat /\ SumFunctionOnSet(g, S) \in Nat
        /\ \A p \in S : f[p] <= SumFunctionOnSet(f, S)
    BY <1>1, SumNatural
  <1>3. CASE k \in S
    <2>1. SumFunctionOnSet(g, S) = SumFunctionOnSet(f, S) - f[k] + g[k]
      BY <1>1, <1>3, SumChange
    <2> QED BY <1>1, <1>2, <1>3, <2>1
  <1>4. CASE k \notin S
    <2>1. \A p \in S : g[p] = f[p]
      BY <1>1, <1>4
    <2> QED BY <1>2, <1>4, <2>1, SumAgree
  <1> QED BY <1>3, <1>4

\* The sum of a table that has one value on a part and nothing elsewhere.
LEMMA SumOfPart ==
  ASSUME NEW S, IsFiniteSet(S), NEW P \in SUBSET S, NEW c \in Nat,
         NEW f, (\A x \in P : f[x] = c) /\ (\A x \in S \ P : f[x] = 0)
  PROVE  SumFunctionOnSet(f, S) = Cardinality(P) * c /\ Cardinality(P) \in Nat
  <1>1. IsFiniteSet(P) /\ IsFiniteSet(S \ P) /\ (\A x \in S : f[x] \in Int) /\ c \in Int
    BY FS_Subset
  <1>2. SumFunctionOnSet(f, S) = SumFunctionOnSet(f, S \ P) + SumFunctionOnSet(f, P)
    BY <1>1, SumSplit
  <1>3. SumFunctionOnSet(f, S \ P) = 0
    BY <1>1, SumZero
  <1>4. SumFunctionOnSet(f, P) = Cardinality(P) * c /\ Cardinality(P) \in Nat
    BY <1>1, SumOfSame
  <1> QED BY <1>1, <1>2, <1>3, <1>4

-----------------------------------------------------------------------------
(***************************************************************************)
(* A function on 0 .. N given by its value at 0 and a step exists.         *)
(***************************************************************************)
Steps(F, N, S) == F \in [1 .. N -> [S -> S]]

Iterates(g, base, F, N, S) ==
  g \in [0 .. N -> S] /\ g[0] = base /\ \A n \in 1 .. N : g[n] = F[n][g[n - 1]]

\* There is such a function.
LEMMA RecursionExists ==
  ASSUME NEW N \in Nat, NEW S, NEW base \in S, NEW F, Steps(F, N, S)
  PROVE  \E g : Iterates(g, base, F, N, S)
<1> DEFINE Solves(g, k) == g[0] = base /\ \A n \in 1 .. N : n <= k => g[n] = F[n][g[n - 1]]
           solved == {k \in Nat : \E g \in [0 .. N -> S] : Solves(g, k)}
<1>1. 0 \in solved
  <2> DEFINE g == [n \in 0 .. N |-> base]
  <2>1. g \in [0 .. N -> S] /\ Solves(g, 0)
    OBVIOUS
  <2> QED
    BY <2>1
<1>2. ASSUME NEW k \in Nat, k \in solved PROVE k + 1 \in solved
  <2>1. PICK g \in [0 .. N -> S] : Solves(g, k)
    BY <1>2
  <2>2. CASE k + 1 > N
    <3>1. Solves(g, k + 1) /\ k + 1 \in Nat
      BY <2>1, <2>2
    <3> HIDE DEF Solves
    <3> QED
      BY <3>1
  <2>3. CASE k + 1 <= N
    <3> DEFINE h == [g EXCEPT ![k + 1] = F[k + 1][g[k]]]
    <3>1. F[k + 1] \in [S -> S] /\ g[k] \in S
      BY <2>3 DEF Steps
    <3>2. h \in [0 .. N -> S]
      BY <3>1
    <3>3. h[k + 1] = F[k + 1][g[k]] /\ \A n \in 0 .. N : n # k + 1 => h[n] = g[n]
      BY <2>3
    <3> HIDE DEF h
    <3>4. ASSUME NEW n \in 1 .. N, n <= k + 1 PROVE h[n] = F[n][h[n - 1]]
      <4>1. n - 1 \in 0 .. N /\ n - 1 # k + 1 /\ n \in 0 .. N
        BY <3>4
      <4>2. h[n - 1] = g[n - 1]
        BY <3>3, <4>1
      <4>3. CASE n = k + 1
        <5>1. n - 1 = k
          BY <4>3
        <5> QED
          BY <3>3, <4>2, <4>3, <5>1
      <4>4. CASE n # k + 1
        <5>1. n <= k
          BY <3>4, <4>4
        <5> QED
          BY <2>1, <3>3, <4>1, <4>2, <4>4, <5>1
      <4> QED
        BY <4>3, <4>4
    <3>5. h[0] = base
      BY <2>1, <3>3
    <3>6. Solves(h, k + 1)
      BY <3>4, <3>5
    <3> QED
      BY <3>2, <3>6
  <2> QED
    BY <2>2, <2>3
<1>3. N \in solved
  <2> HIDE DEF solved
  <2> QED
    BY <1>1, <1>2, NatSetInduction
<1>4. PICK g \in [0 .. N -> S] : Solves(g, N)
  BY <1>3
<1>5. Iterates(g, base, F, N, S)
  BY <1>4 DEF Iterates
<1> QED
  BY <1>5

-----------------------------------------------------------------------------
(***************************************************************************)
(* Folds over a finite set.                                                *)
(***************************************************************************)
\* Elements are taken out of the set one by one: take[T] is the one taken out of T
\* and step[x] what is done for it.  The fold passes through states of X only.
FoldsTo(g, S, X, base, take, step) ==
    /\ g \in [SUBSET S -> X] /\ g[{}] = base
    /\ \A T \in SUBSET S : T # {} => g[T] = step[take[T]][g[T \ {take[T]}]]

\* There is such a fold.
LEMMA FoldExists ==
    ASSUME NEW S, IsFiniteSet(S), NEW X, NEW base \in X,
           NEW take, \A T \in SUBSET S : T # {} => take[T] \in T,
           NEW step \in [S -> [X -> X]]
    PROVE  \E g : FoldsTo(g, S, X, base, take, step)
<1>. DEFINE Solves(g, n) ==
                \A T \in SUBSET S : T # {} /\ Cardinality(T) <= n => g[T] = step[take[T]][g[T \ {take[T]}]]
            solved == {n \in Nat : \E g \in [SUBSET S -> X] : g[{}] = base /\ Solves(g, n)}
<1>0. \A T \in SUBSET S : IsFiniteSet(T) /\ Cardinality(T) \in Nat /\ (Cardinality(T) = 0 <=> T = {})
    BY FS_Subset, FS_CardinalityType, FS_EmptySet
<1>1. 0 \in solved
    <2>. DEFINE g == [T \in SUBSET S |-> base]
    <2>1. g \in [SUBSET S -> X] /\ g[{}] = base
        OBVIOUS
    <2>2. Solves(g, 0)
        BY <1>0
    <2>. QED
        BY <2>1, <2>2
<1>2. ASSUME NEW n \in Nat, n \in solved PROVE n + 1 \in solved
    <2>1. PICK g \in [SUBSET S -> X] : g[{}] = base /\ Solves(g, n)
        BY <1>2
    <2>. DEFINE h == [T \in SUBSET S |-> IF T # {} /\ Cardinality(T) = n + 1
                                         THEN step[take[T]][g[T \ {take[T]}]] ELSE g[T]]
    <2>2. h \in [SUBSET S -> X]
        <3>1. ASSUME NEW T \in SUBSET S, T # {} PROVE step[take[T]][g[T \ {take[T]}]] \in X
            <4>1. take[T] \in S /\ T \ {take[T]} \in SUBSET S
                BY <3>1
            <4>2. g[T \ {take[T]}] \in X /\ step[take[T]] \in [X -> X]
                BY <4>1
            <4>. QED
                BY <4>2
        <3>. QED
            BY <3>1
    <2>3. h[{}] = base
        BY <2>1
    <2>4. ASSUME NEW T \in SUBSET S, T # {}, Cardinality(T) <= n + 1
          PROVE  h[T] = step[take[T]][h[T \ {take[T]}]]
        <3>1. take[T] \in T /\ T \ {take[T]} \in SUBSET S
            BY <2>4
        <3>2. Cardinality(T \ {take[T]}) <= n
            BY <2>4, <3>1, Smaller
        <3>3. h[T \ {take[T]}] = g[T \ {take[T]}]
            BY <3>1, <3>2, <1>0
        <3>4. CASE Cardinality(T) = n + 1
            BY <3>3, <3>4, <2>4
        <3>5. CASE Cardinality(T) # n + 1
            <4>1. Cardinality(T) <= n
                BY <3>5, <2>4, <1>0
            <4>. QED
                BY <4>1, <3>3, <3>5, <2>1, <2>4
        <3>. QED
            BY <3>4, <3>5
    <2>5. Solves(h, n + 1)
        <3>. HIDE DEF h
        <3>. QED
            BY <2>4
    <2>. HIDE DEF h, Solves
    <2>6. n + 1 \in Nat
        OBVIOUS
    <2>. QED
        BY <2>2, <2>3, <2>5, <2>6
<1>3. Nat \subseteq solved
    <2>. HIDE DEF solved
    <2>. QED
        BY <1>1, <1>2, NatSetInduction
<1>4. Cardinality(S) \in Nat
    BY FS_CardinalityType
<1>5. PICK g \in [SUBSET S -> X] : g[{}] = base /\ Solves(g, Cardinality(S))
    BY <1>3, <1>4
<1>6. \A T \in SUBSET S : Cardinality(T) <= Cardinality(S)
    BY FS_Subset
<1>. QED
    BY <1>5, <1>6 DEF FoldsTo

-----------------------------------------------------------------------------
(***************************************************************************)
(* Arithmetic with products and quotients.                                 *)
(***************************************************************************)
\* A multiple of s that is smaller than s is none.
LEMMA SmallMultiple ==
  ASSUME NEW s \in Nat, s >= 1, NEW m \in Int, m * s < s, -s < m * s
  PROVE  m = 0
  <1>1. CASE m >= 1
    <2>1. m * s = s + (m - 1) * s /\ (m - 1) * s >= 0
      BY <1>1
    <2> QED BY <2>1
  <1>2. CASE m <= -1
    <2>1. m * s = -s + (m + 1) * s /\ (m + 1) * s <= 0
      BY <1>2
    <2> QED BY <2>1
  <1> QED BY <1>1, <1>2

\* n s and a rest: the quotient is n and the remainder the rest.
LEMMA DivMod ==
  ASSUME NEW s \in Nat, s >= 1, NEW n \in Nat, NEW r \in 0 .. s - 1
  PROVE  (n * s + r) \div s = n /\ (n * s + r) % s = r
  <1> DEFINE x == n * s + r
             q == x \div s
             t == x % s
  <1>1. x \in Nat /\ q \in Int /\ t \in 0 .. s - 1 /\ x = s * q + t
    OBVIOUS
  <1> HIDE DEF q, t
  <1>2. (n - q) * s = t - r
    BY <1>1
  <1>3. n - q = 0
    BY <1>1, <1>2, SmallMultiple
  <1> QED BY <1>1, <1>2, <1>3 DEF q, t

\* Counted from one, every number has its place in a row of s.
LEMMA Placed ==
  ASSUME NEW s \in Nat, s >= 1, NEW i \in Nat, i >= 1
  PROVE  \E b \in Nat, k \in 1 .. s : i = b * s + k
  <1>1. (i - 1) \div s \in Nat /\ (i - 1) % s \in 0 .. s - 1
        /\ i - 1 = s * ((i - 1) \div s) + ((i - 1) % s)
    OBVIOUS
  <1> DEFINE b == (i - 1) \div s
             k == ((i - 1) % s) + 1
  <1>2. b \in Nat /\ k \in 1 .. s /\ i = b * s + k
    BY <1>1
  <1> QED BY <1>2

\* A positive factor keeps the order.
LEMMA Monotone ==
  ASSUME NEW s \in Nat, s >= 1, NEW m \in Int, NEW n \in Int
  PROVE  /\ m <= n <=> m * s <= n * s
         /\ m < n <=> m * s < n * s
         /\ m = n <=> m * s = n * s
  <1>1. ASSUME NEW a \in Int, NEW b \in Int, a < b PROVE a * s < b * s
    <2>1. b * s = a * s + (b - a) * s /\ (b - a) * s >= s
      BY <1>1
    <2> QED BY <2>1
  <1> QED BY <1>1

\* Quotient and remainder.
LEMMA Divided ==
  ASSUME NEW s \in Nat, s >= 1, NEW n \in Nat
  PROVE  n \div s \in Nat /\ n % s \in 0 .. s - 1 /\ n = (n \div s) * s + (n % s)
  OBVIOUS
=============================================================================
