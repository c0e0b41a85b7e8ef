---------------------------- MODULE LibraryLemmas ----------------------------
(***************************************************************************)
(* Facts about the operators of the library that the models are built      *)
(* from: least elements and induction over the natural numbers and over    *)
(* finite sets, in a form that quantifies over sets instead of predicates; *)
(* remainders; Max and Min; SumFunctionOnSet, a fold whose recursion is    *)
(* shown here to do what it says; and queues without repetitions.          *)
(***************************************************************************)
EXTENDS Integers, Sequences, FiniteSets, Functions, FiniteSetsExt, SequencesExt,
        FiniteSetTheorems, WellFoundedInduction, TLAPS

-----------------------------------------------------------------------------
(* Induction                                                               *)

(* A set of natural numbers that is not empty has a least element.         *)
LEMMA NatMin ==
  ASSUME NEW T, T \subseteq Nat, T # {}
  PROVE  \E x \in T : \A y \in T : x <= y
<1> DEFINE R == OpToRel(<, Nat)
<1>1. IsWellFoundedOn(R, Nat)
  BY NatLessThanWellFounded
<1> HIDE DEF R
<1>2. PICK x \in T : \A y \in T : ~ (<<y, x>> \in R)
  BY <1>1, WFMin
<1>3. ASSUME NEW y \in T, y < x PROVE FALSE
  <2>1. <<y, x>> \in R
    BY <1>3 DEF R, OpToRel
  <2> QED BY <2>1, <1>2
<1> QED BY <1>3

(* Induction over the natural numbers, the property given as a set.        *)
LEMMA NatSetInduction ==
  ASSUME NEW P, 0 \in P, \A n \in Nat : n \in P => n + 1 \in P
  PROVE  Nat \subseteq P
<1> SUFFICES ASSUME Nat \ P # {} PROVE FALSE
  OBVIOUS
<1>1. PICK x \in Nat \ P : \A y \in Nat \ P : x <= y
  BY NatMin, Nat \ P \subseteq Nat
<1>2. x - 1 \in Nat
  BY <1>1
<1>3. x - 1 \in P
  BY <1>1, <1>2
<1>4. (x - 1) + 1 \in P
  BY <1>2, <1>3
<1> QED BY <1>1, <1>4

(* Induction over the subsets of a finite set, the property given as a     *)
(* family of sets.                                                         *)
LEMMA FiniteSetInduction ==
  ASSUME NEW S, IsFiniteSet(S), NEW P, {} \in P,
         \A s \in SUBSET S : \A x \in S \ s : s \in P => s \cup {x} \in P
  PROVE  S \in P
<1> DEFINE Q == {n \in Nat : \A s \in SUBSET S : Cardinality(s) = n => s \in P}
<1>1. \A s \in SUBSET S : IsFiniteSet(s) /\ Cardinality(s) \in Nat
  BY FS_Subset, FS_CardinalityType
<1>2. 0 \in Q
  BY <1>1, FS_EmptySet
<1>3. ASSUME NEW n \in Nat, n \in Q PROVE n + 1 \in Q
  <2> SUFFICES ASSUME NEW s \in SUBSET S, Cardinality(s) = n + 1 PROVE s \in P
    OBVIOUS
  <2>1. s # {}
    BY <1>1, FS_EmptySet
  <2>2. PICK x \in s : TRUE
    BY <2>1
  <2>3. Cardinality(s \ {x}) = n
    <3>1. IsFiniteSet(s) /\ Cardinality(s) \in Nat
      BY <1>1
    <3>2. Cardinality(s \ {x}) = Cardinality(s) - 1
      BY <2>2, <3>1, FS_RemoveElement
    <3> QED BY <3>2
  <2>4. s \ {x} \in P
    <3>1. s \ {x} \in SUBSET S
      OBVIOUS
    <3>2. \A t \in SUBSET S : Cardinality(t) = n => t \in P
      BY <1>3
    <3> QED BY <2>3, <3>1, <3>2
  <2>5. s = (s \ {x}) \cup {x}
    BY <2>2
  <2> QED BY <2>2, <2>4, <2>5
<1> HIDE DEF Q
<1>4. Nat \subseteq Q
  BY <1>2, <1>3, NatSetInduction
<1> QED BY <1>1, <1>4 DEF Q

-----------------------------------------------------------------------------
(* Arithmetic                                                              *)

(* Quotient and remainder.                                                 *)
LEMMA DivMod ==
  ASSUME NEW p \in Nat, NEW w \in Nat \ {0}
  PROVE  /\ p % w \in 0 .. w - 1 /\ p \div w \in Nat
         /\ p = w * (p \div w) + (p % w)
OBVIOUS

(* Two numbers less than w apart have different remainders.                *)
LEMMA ModDistinct ==
  ASSUME NEW w \in Nat \ {0}, NEW p \in Nat, NEW q \in Nat, p < q, q < p + w
  PROVE  p % w # q % w
<1>1. PICK a \in Nat : p = w * a + (p % w)
  BY DivMod
<1>2. PICK b \in Nat : q = w * b + (q % w)
  BY DivMod
<1> SUFFICES ASSUME p % w = q % w PROVE FALSE
  OBVIOUS
<1>3. w * (b - a) = q - p
  BY <1>1, <1>2, DivMod
<1>4. b - a >= 1
  BY <1>3
<1>5. w * (b - a) >= w
  BY <1>4
<1> QED BY <1>3, <1>5

(* Some number among the last w below c has a given remainder: its slot in *)
(* a ring of w slots.                                                      *)
LEMMA ModWitness ==
  ASSUME NEW w \in Nat \ {0}, NEW c \in Nat, NEW s \in 0 .. w - 1, s < c
  PROVE  \E p \in Nat : c - w <= p /\ p < c /\ p % w = s
<1> DEFINE d == c - 1 - s
           p == c - 1 - (d % w)
<1>1. d \in Nat
  OBVIOUS
<1>2. d % w \in 0 .. w - 1 /\ d \div w \in Nat /\ d = w * (d \div w) + (d % w)
  BY <1>1, DivMod
<1>3. d % w <= d
  BY <1>1, <1>2
<1>4. p \in Nat /\ c - w <= p /\ p < c /\ p = w * (d \div w) + s
  BY <1>1, <1>2, <1>3
<1>5. p % w = s
  <2> HIDE DEF d, p
  <2>1. p % w \in 0 .. w - 1 /\ p \div w \in Nat /\ p = w * (p \div w) + (p % w)
    BY <1>4, DivMod
  <2>2. w * ((p \div w) - (d \div w)) = s - (p % w)
    BY <1>2, <1>4, <2>1
  <2> DEFINE k == (p \div w) - (d \div w)
  <2>3. k \in Int /\ w * k = s - (p % w)
    BY <1>2, <2>1, <2>2
  <2> HIDE DEF k
  <2>4. ~ (k >= 1)
    <3>1. k >= 1 => w * k >= w
      BY <2>3
    <3> QED BY <2>1, <2>3, <3>1
  <2>5. ~ (k <= -1)
    <3>1. k <= -1 => w * k <= 0 - w
      BY <2>3
    <3>2. s - (p % w) > 0 - w
      BY <2>1
    <3>3. w * k \in Int /\ 0 - w \in Int
      BY <2>3
    <3> QED BY <2>3, <3>1, <3>2, <3>3
  <2>6. k = 0
    BY <2>3, <2>4, <2>5
  <2>7. w * k = 0
    BY <2>6
  <2> QED BY <2>1, <2>3, <2>7
<1> QED BY <1>4, <1>5

(* The larger of two numbers.                                              *)
LEMMA MaxPair ==
  ASSUME NEW a \in Int, NEW b \in Int
  PROVE  Max({a, b}) = IF a >= b THEN a ELSE b
BY DEF Max

(* The same for the smaller one.                                           *)
LEMMA MinPair ==
  ASSUME NEW a \in Int, NEW b \in Int
  PROVE  Min({a, b}) = IF a <= b THEN a ELSE b
BY DEF Min

(* Min of a set of natural numbers is its least element.                   *)
LEMMA MinNat ==
  ASSUME NEW T, T \subseteq Nat, T # {}
  PROVE  Min(T) \in T /\ \A y \in T : Min(T) <= y
<1>1. \E x \in T : \A y \in T : x =< y
  BY NatMin
<1> QED BY <1>1 DEF Min

(* Max of a bounded set of natural numbers is its greatest element.        *)
LEMMA MaxNat ==
  ASSUME NEW T, T \subseteq Nat, T # {}, NEW m \in Nat, \A y \in T : y <= m
  PROVE  Max(T) \in T /\ \A y \in T : y <= Max(T)
<1> DEFINE C == {m - y : y \in T}
<1>1. C \subseteq Nat
  OBVIOUS
<1>7. C # {}
  <2>1. PICK y \in T : TRUE
    OBVIOUS
  <2>2. m - y \in C
    OBVIOUS
  <2> QED BY <2>2
<1>2. PICK c \in C : \A d \in C : c <= d
  BY <1>1, <1>7, NatMin
<1>3. PICK x \in T : c = m - x
  BY <1>2
<1>4. ASSUME NEW y \in T PROVE x >= y
  <2>1. m - y \in C
    OBVIOUS
  <2>2. m - x <= m - y
    BY <1>2, <1>3, <2>1
  <2> QED BY <2>2
<1>5. \E z \in T : \A y \in T : z >= y
  BY <1>4
<1>6. Max(T) \in T /\ \A y \in T : Max(T) >= y
  BY <1>5 DEF Max
<1> QED BY <1>6

-----------------------------------------------------------------------------
(* Sums                                                                    *)

Pick(s) == CHOOSE x \in s : TRUE

(* One turn of the recursion of SumFunctionOnSet.                          *)
Turn(f, g, s) == IF s = {} THEN 0 ELSE f[Pick(s)] + g[s \ {Pick(s)}]

(* g is the recursive function of a sum over S.                            *)
IsIter(f, S, g) == g = [s \in SUBSET S |-> Turn(f, g, s)]

(* SumFunctionOnSet applies a function chosen to satisfy its recursion.    *)
LEMMA SumUnfold ==
  ASSUME NEW f, NEW S
  PROVE  SumFunctionOnSet(f, S) = (CHOOSE g : IsIter(f, S, g))[S]
BY DEF SumFunctionOnSet, FoldFunctionOnSet, MapThenFoldSet, IsIter, Turn, Pick

(* The element picked is one of the set, and what is left is smaller.      *)
LEMMA PickFacts ==
  ASSUME NEW s, IsFiniteSet(s), s # {}
  PROVE  /\ Pick(s) \in s /\ IsFiniteSet(s \ {Pick(s)})
         /\ Cardinality(s) \in Nat /\ Cardinality(s \ {Pick(s)}) \in Nat
         /\ Cardinality(s \ {Pick(s)}) = Cardinality(s) - 1
<1>1. Pick(s) \in s
  BY DEF Pick
<1>2. IsFiniteSet(s \ {Pick(s)}) /\ Cardinality(s \ {Pick(s)}) = Cardinality(s) - 1
  BY <1>1, FS_RemoveElement
<1> QED BY <1>1, <1>2, FS_CardinalityType

(* The recursion has a solution over a finite set.                         *)
LEMMA IterExists ==
  ASSUME NEW f, NEW S, IsFiniteSet(S)
  PROVE  IsIter(f, S, CHOOSE g : IsIter(f, S, g))
<1> DEFINE D(n) == {s \in SUBSET S : Cardinality(s) <= n}
           Q == {n \in Nat : \E g : g = [s \in D(n) |-> Turn(f, g, s)]}
<1>1. \A s \in SUBSET S : IsFiniteSet(s) /\ Cardinality(s) \in Nat
  BY FS_Subset, FS_CardinalityType
<1>2. 0 \in Q
  <2> DEFINE g == [s \in D(0) |-> 0]
  <2>1. ASSUME NEW s \in D(0) PROVE s = {}
    BY <1>1, FS_EmptySet
  <2>2. g = [s \in D(0) |-> Turn(f, g, s)]
    BY <2>1 DEF Turn
  <2> QED BY <2>2
<1>3. ASSUME NEW n \in Nat, n \in Q PROVE n + 1 \in Q
  <2>1. PICK g : g = [s \in D(n) |-> Turn(f, g, s)]
    BY <1>3
  <2> DEFINE h == [s \in D(n + 1) |-> Turn(f, g, s)]
  <2>2. ASSUME NEW s \in D(n + 1) PROVE Turn(f, g, s) = Turn(f, h, s)
    <3>1. CASE s = {}
      BY <3>1 DEF Turn
    <3>2. CASE s # {}
      <4> DEFINE t == s \ {Pick(s)}
      <4>1. s \in SUBSET S /\ Cardinality(s) <= n + 1
        OBVIOUS
      <4>2. t \in SUBSET S /\ Cardinality(t) <= n /\ Cardinality(t) <= n + 1
        BY <1>1, <3>2, <4>1, PickFacts
      <4>3. t \in D(n) /\ t \in D(n + 1)
        BY <4>2
      <4>4. g[t] = Turn(f, g, t)
        BY <2>1, <4>3
      <4>5. h[t] = Turn(f, g, t)
        BY <4>3
      <4> QED BY <3>2, <4>4, <4>5 DEF Turn
    <3> QED BY <3>1, <3>2
  <2>3. h = [s \in D(n + 1) |-> Turn(f, h, s)]
    BY <2>2
  <2> HIDE DEF h, D
  <2>4. \E k : k = [s \in D(n + 1) |-> Turn(f, k, s)]
    BY <2>3
  <2>5. n + 1 \in Nat
    OBVIOUS
  <2> QED BY <2>4, <2>5
<1> HIDE DEF Q
<1>4. Cardinality(S) \in Q
  BY <1>1, <1>2, <1>3, NatSetInduction
<1>5. D(Cardinality(S)) = SUBSET S
  BY FS_Subset
<1>6. \E g : IsIter(f, S, g)
  BY <1>4, <1>5 DEF Q, IsIter
<1> QED BY <1>6

(* Two solutions agree where both are defined.                             *)
LEMMA IterAgree ==
  ASSUME NEW f, NEW S, NEW T, NEW g, NEW h, IsIter(f, S, g), IsIter(f, T, h),
         NEW s, IsFiniteSet(s), s \in SUBSET S, s \in SUBSET T
  PROVE  g[s] = h[s]
<1> DEFINE Q == {n \in Nat : \A t \in SUBSET s : Cardinality(t) = n => g[t] = h[t]}
<1>1. \A t \in SUBSET s : IsFiniteSet(t) /\ Cardinality(t) \in Nat
  BY FS_Subset, FS_CardinalityType
<1>2. \A t \in SUBSET s : g[t] = Turn(f, g, t) /\ h[t] = Turn(f, h, t)
  <2> TAKE t \in SUBSET s
  <2>1. t \in SUBSET S /\ t \in SUBSET T
    OBVIOUS
  <2> QED BY <2>1 DEF IsIter
<1>3. 0 \in Q
  <2> SUFFICES ASSUME NEW t \in SUBSET s, Cardinality(t) = 0 PROVE g[t] = h[t]
    OBVIOUS
  <2>1. t = {}
    BY <1>1, FS_EmptySet
  <2> QED BY <1>2, <2>1 DEF Turn
<1>4. ASSUME NEW n \in Nat, n \in Q PROVE n + 1 \in Q
  <2> SUFFICES ASSUME NEW t \in SUBSET s, Cardinality(t) = n + 1 PROVE g[t] = h[t]
    OBVIOUS
  <2>1. t # {} /\ IsFiniteSet(t)
    BY <1>1, FS_EmptySet
  <2>2. t \ {Pick(t)} \in SUBSET s /\ Cardinality(t \ {Pick(t)}) = n
    BY <2>1, PickFacts
  <2>3. \A u \in SUBSET s : Cardinality(u) = n => g[u] = h[u]
    BY <1>4
  <2>4. g[t \ {Pick(t)}] = h[t \ {Pick(t)}]
    BY <2>2, <2>3
  <2> QED BY <1>2, <2>1, <2>4 DEF Turn
<1> HIDE DEF Q
<1>5. Cardinality(s) \in Q
  BY <1>1, <1>3, <1>4, NatSetInduction
<1> QED BY <1>5 DEF Q

(* The recursion, on the sums themselves.                                  *)
LEMMA SumRecursion ==
  ASSUME NEW f, NEW S, IsFiniteSet(S), S # {}
  PROVE  SumFunctionOnSet(f, S)
           = f[Pick(S)] + SumFunctionOnSet(f, S \ {Pick(S)})
<1> DEFINE R == S \ {Pick(S)}
           g == CHOOSE g : IsIter(f, S, g)
           h == CHOOSE h : IsIter(f, R, h)
<1>1. IsFiniteSet(R)
  BY PickFacts
<1>2. IsIter(f, S, g) /\ IsIter(f, R, h)
  BY <1>1, IterExists
<1>3. SumFunctionOnSet(f, S) = g[S] /\ SumFunctionOnSet(f, R) = h[R]
  BY SumUnfold
<1> HIDE DEF g, h
<1>4. g[S] = f[Pick(S)] + g[R]
  BY <1>2 DEF IsIter, Turn
<1>5. g[R] = h[R]
  BY <1>1, <1>2, IterAgree
<1> QED BY <1>3, <1>4, <1>5

(* The sum over no element is 0.                                           *)
LEMMA SumEmpty ==
  ASSUME NEW f
  PROVE  SumFunctionOnSet(f, {}) = 0
<1>1. IsIter(f, {}, CHOOSE g : IsIter(f, {}, g))
  BY FS_EmptySet, IterExists
<1> QED BY <1>1, SumUnfold DEF IsIter, Turn

(* A sum of integers is an integer.                                        *)
LEMMA SumType ==
  ASSUME NEW f, NEW S, IsFiniteSet(S), \A x \in S : f[x] \in Int
  PROVE  SumFunctionOnSet(f, S) \in Int
<1> DEFINE Q == {n \in Nat : \A s \in SUBSET S :
                   Cardinality(s) = n => SumFunctionOnSet(f, s) \in Int}
<1>1. \A s \in SUBSET S : IsFiniteSet(s) /\ Cardinality(s) \in Nat
  BY FS_Subset, FS_CardinalityType
<1>2. 0 \in Q
  BY <1>1, FS_EmptySet, SumEmpty
<1>3. ASSUME NEW n \in Nat, n \in Q PROVE n + 1 \in Q
  <2> SUFFICES ASSUME NEW s \in SUBSET S, Cardinality(s) = n + 1
               PROVE  SumFunctionOnSet(f, s) \in Int
    OBVIOUS
  <2>1. s # {} /\ IsFiniteSet(s)
    BY <1>1, FS_EmptySet
  <2>2. Pick(s) \in S /\ s \ {Pick(s)} \in SUBSET S /\ Cardinality(s \ {Pick(s)}) = n
    BY <2>1, PickFacts
  <2>3. \A t \in SUBSET S : Cardinality(t) = n => SumFunctionOnSet(f, t) \in Int
    BY <1>3
  <2>4. SumFunctionOnSet(f, s \ {Pick(s)}) \in Int /\ f[Pick(s)] \in Int
    BY <2>2, <2>3
  <2>5. SumFunctionOnSet(f, s) = f[Pick(s)] + SumFunctionOnSet(f, s \ {Pick(s)})
    BY <2>1, SumRecursion
  <2> QED BY <2>4, <2>5
<1> HIDE DEF Q
<1>4. Cardinality(S) \in Q
  BY <1>1, <1>2, <1>3, NatSetInduction
<1> QED BY <1>4 DEF Q

(* Any element may be taken out of a sum first.                            *)
LEMMA SumRemove ==
  ASSUME NEW f, NEW S, IsFiniteSet(S), \A x \in S : f[x] \in Int, NEW e \in S
  PROVE  SumFunctionOnSet(f, S) = f[e] + SumFunctionOnSet(f, S \ {e})
<1> DEFINE Sum(s) == SumFunctionOnSet(f, s)
           Q == {n \in Nat : \A s \in SUBSET S :
                   Cardinality(s) = n => \A x \in s : Sum(s) = f[x] + Sum(s \ {x})}
<1>1. \A s \in SUBSET S : IsFiniteSet(s) /\ Cardinality(s) \in Nat
  BY FS_Subset, FS_CardinalityType
<1>2. \A s \in SUBSET S : Sum(s) \in Int
  <2> TAKE s \in SUBSET S
  <2>1. IsFiniteSet(s) /\ \A x \in s : f[x] \in Int
    BY <1>1
  <2> QED BY <2>1, SumType
<1>3. \A s \in SUBSET S : s # {} => Sum(s) = f[Pick(s)] + Sum(s \ {Pick(s)})
  BY <1>1, SumRecursion
<1> HIDE DEF Sum
<1>4. 0 \in Q
  BY <1>1, FS_EmptySet
<1>5. ASSUME NEW n \in Nat, n \in Q PROVE n + 1 \in Q
  <2> SUFFICES ASSUME NEW s \in SUBSET S, Cardinality(s) = n + 1, NEW x \in s
               PROVE  Sum(s) = f[x] + Sum(s \ {x})
    OBVIOUS
  <2> DEFINE p == Pick(s)
  <2>1. p \in s /\ Cardinality(s \ {p}) = n /\ s # {}
    BY <1>1, PickFacts
  <2>2. CASE x = p
    BY <1>3, <2>1, <2>2
  <2>3. CASE x # p
    <3>1. Cardinality(s \ {x}) = n
      <4>1. IsFiniteSet(s) /\ Cardinality(s) \in Nat
        BY <1>1
      <4>2. Cardinality(s \ {x}) = Cardinality(s) - 1
        BY <4>1, FS_RemoveElement
      <4> QED BY <4>2
    <3>2. \A t \in SUBSET S : Cardinality(t) = n => \A y \in t : Sum(t) = f[y] + Sum(t \ {y})
      BY <1>5
    <3>3. Sum(s \ {p}) = f[x] + Sum((s \ {p}) \ {x})
      BY <2>1, <2>3, <3>2
    <3>4. Sum(s \ {x}) = f[p] + Sum((s \ {x}) \ {p})
      BY <2>1, <2>3, <3>1, <3>2
    <3>5. (s \ {p}) \ {x} = (s \ {x}) \ {p}
      OBVIOUS
    <3>6. Sum(s) = f[p] + Sum(s \ {p})
      BY <1>3, <2>1
    <3>7. f[p] \in Int /\ f[x] \in Int /\ Sum((s \ {x}) \ {p}) \in Int
      BY <1>2, <2>1
    <3>8. Sum(s \ {p}) = f[x] + Sum((s \ {x}) \ {p})
      BY <3>3, <3>5
    <3> HIDE DEF p
    <3>9. ASSUME NEW u \in Int, NEW v \in Int, NEW w \in Int
          PROVE  u + (v + w) = v + (u + w)
      OBVIOUS
    <3> QED BY <3>4, <3>6, <3>7, <3>8, <3>9
  <2> QED BY <2>2, <2>3
<1> HIDE DEF Q
<1>6. Cardinality(S) \in Q
  BY <1>1, <1>4, <1>5, NatSetInduction
<1>7. Sum(S) = f[e] + Sum(S \ {e})
  BY <1>6 DEF Q
<1> QED BY <1>7 DEF Sum

(* An element may be added to a sum.                                       *)
LEMMA SumAdd ==
  ASSUME NEW f, NEW S, IsFiniteSet(S), NEW e, e \notin S,
         \A x \in S \cup {e} : f[x] \in Int
  PROVE  SumFunctionOnSet(f, S \cup {e}) = f[e] + SumFunctionOnSet(f, S)
<1>1. IsFiniteSet(S \cup {e}) /\ e \in S \cup {e} /\ (S \cup {e}) \ {e} = S
  BY FS_AddElement
<1>2. SumFunctionOnSet(f, S \cup {e}) = f[e] + SumFunctionOnSet(f, (S \cup {e}) \ {e})
  BY <1>1, SumRemove
<1> QED BY <1>1, <1>2

(* A sum grows with its elements.                                          *)
LEMMA SumMonotone ==
  ASSUME NEW f, NEW g, NEW S, IsFiniteSet(S),
         \A x \in S : f[x] \in Int /\ g[x] \in Int /\ f[x] <= g[x]
  PROVE  SumFunctionOnSet(f, S) <= SumFunctionOnSet(g, S)
<1> DEFINE P == {s \in SUBSET S : SumFunctionOnSet(f, s) <= SumFunctionOnSet(g, s)}
<1>1. {} \in P
  BY SumEmpty
<1>2. ASSUME NEW s \in SUBSET S, NEW x \in S \ s, s \in P PROVE s \cup {x} \in P
  <2>1. IsFiniteSet(s)
    BY FS_Subset
  <2>2. /\ SumFunctionOnSet(f, s \cup {x}) = f[x] + SumFunctionOnSet(f, s)
        /\ SumFunctionOnSet(g, s \cup {x}) = g[x] + SumFunctionOnSet(g, s)
    BY <2>1, SumAdd
  <2>3. SumFunctionOnSet(f, s) \in Int /\ SumFunctionOnSet(g, s) \in Int
    BY <2>1, SumType
  <2> QED BY <1>2, <2>2, <2>3
<1> HIDE DEF P
<1>3. S \in P
  BY <1>1, <1>2, FiniteSetInduction
<1> QED BY <1>3 DEF P

(* A sum depends on the values of its elements only.                       *)
LEMMA SumCongruence ==
  ASSUME NEW f, NEW g, NEW S, IsFiniteSet(S),
         \A x \in S : f[x] \in Int /\ g[x] = f[x]
  PROVE  SumFunctionOnSet(f, S) = SumFunctionOnSet(g, S)
<1>1. SumFunctionOnSet(f, S) <= SumFunctionOnSet(g, S)
  BY SumMonotone
<1>2. SumFunctionOnSet(g, S) <= SumFunctionOnSet(f, S)
  BY SumMonotone
<1>3. SumFunctionOnSet(f, S) \in Int /\ SumFunctionOnSet(g, S) \in Int
  BY SumType
<1> QED BY <1>1, <1>2, <1>3

(* A sum of zeros is zero.                                                 *)
LEMMA SumZero ==
  ASSUME NEW f, NEW S, IsFiniteSet(S), \A x \in S : f[x] = 0
  PROVE  SumFunctionOnSet(f, S) = 0
<1> DEFINE P == {s \in SUBSET S : SumFunctionOnSet(f, s) = 0}
<1>1. {} \in P
  BY SumEmpty
<1>2. ASSUME NEW s \in SUBSET S, NEW x \in S \ s, s \in P PROVE s \cup {x} \in P
  <2>1. IsFiniteSet(s)
    BY FS_Subset
  <2>2. SumFunctionOnSet(f, s \cup {x}) = f[x] + SumFunctionOnSet(f, s)
    BY <2>1, SumAdd
  <2> QED BY <1>2, <2>2
<1> HIDE DEF P
<1>3. S \in P
  BY <1>1, <1>2, FiniteSetInduction
<1> QED BY <1>3 DEF P

(* The sum over a set is the sum over a part and over the rest.            *)
LEMMA SumSplit ==
  ASSUME NEW f, NEW S, IsFiniteSet(S), \A x \in S : f[x] \in Int, NEW T \in SUBSET S
  PROVE  SumFunctionOnSet(f, S) = SumFunctionOnSet(f, T) + SumFunctionOnSet(f, S \ T)
<1> DEFINE P == {s \in SUBSET T : SumFunctionOnSet(f, S)
                   = SumFunctionOnSet(f, s) + SumFunctionOnSet(f, S \ s)}
<1>1. IsFiniteSet(T) /\ \A s \in SUBSET S : IsFiniteSet(s)
  BY FS_Subset
<1>2. {} \in P
  <2>1. SumFunctionOnSet(f, S) \in Int
    BY SumType
  <2>2. S \ {} = S
    OBVIOUS
  <2> QED BY <2>1, <2>2, SumEmpty
<1>3. ASSUME NEW s \in SUBSET T, NEW x \in T \ s, s \in P PROVE s \cup {x} \in P
  <2>1. s \in SUBSET S /\ S \ s \in SUBSET S /\ x \in S \ s
        /\ (S \ s) \ {x} = S \ (s \cup {x}) /\ S \ (s \cup {x}) \in SUBSET S
    OBVIOUS
  <2>2. SumFunctionOnSet(f, s \cup {x}) = f[x] + SumFunctionOnSet(f, s)
    BY <1>1, <2>1, SumAdd
  <2>3. SumFunctionOnSet(f, S \ s) = f[x] + SumFunctionOnSet(f, (S \ s) \ {x})
    BY <1>1, <2>1, SumRemove
  <2>4. \A t \in SUBSET S : SumFunctionOnSet(f, t) \in Int
    BY <1>1, SumType
  <2>5. f[x] \in Int /\ SumFunctionOnSet(f, s) \in Int
        /\ SumFunctionOnSet(f, S \ (s \cup {x})) \in Int
    BY <2>1, <2>4
  <2>6. SumFunctionOnSet(f, S) = SumFunctionOnSet(f, s) + SumFunctionOnSet(f, S \ s)
    BY <1>3
  <2>7. SumFunctionOnSet(f, S)
          = SumFunctionOnSet(f, s) + (f[x] + SumFunctionOnSet(f, S \ (s \cup {x})))
    BY <2>1, <2>3, <2>6
  <2>8. ASSUME NEW u \in Int, NEW v \in Int, NEW w \in Int
        PROVE  u + (v + w) = (v + u) + w
    OBVIOUS
  <2>9. SumFunctionOnSet(f, S)
          = SumFunctionOnSet(f, s \cup {x}) + SumFunctionOnSet(f, S \ (s \cup {x}))
    BY <2>2, <2>5, <2>7, <2>8
  <2> QED BY <2>9
<1> HIDE DEF P
<1>4. T \in P
  BY <1>1, <1>2, <1>3, FiniteSetInduction
<1> QED BY <1>4 DEF P

(* A sum of naturals is a natural.                                         *)
LEMMA SumNat ==
  ASSUME NEW f, NEW S, IsFiniteSet(S), \A x \in S : f[x] \in Nat
  PROVE  SumFunctionOnSet(f, S) \in Nat
<1> DEFINE z == [x \in S |-> 0]
<1>1. SumFunctionOnSet(z, S) = 0
  BY SumZero
<1>2. SumFunctionOnSet(z, S) <= SumFunctionOnSet(f, S)
  BY SumMonotone
<1>3. SumFunctionOnSet(f, S) \in Int
  BY SumType
<1> QED BY <1>1, <1>2, <1>3

(* Values of at most c add up to at most c times their number.             *)
LEMMA SumBound ==
  ASSUME NEW f, NEW S, IsFiniteSet(S), NEW c \in Nat,
         \A x \in S : f[x] \in Int /\ f[x] <= c
  PROVE  SumFunctionOnSet(f, S) <= c * Cardinality(S)
<1> DEFINE P == {s \in SUBSET S : SumFunctionOnSet(f, s) <= c * Cardinality(s)}
<1>1. {} \in P
  BY SumEmpty, FS_EmptySet
<1>2. ASSUME NEW s \in SUBSET S, NEW x \in S \ s, s \in P PROVE s \cup {x} \in P
  <2>1. IsFiniteSet(s)
    BY FS_Subset
  <2>2. SumFunctionOnSet(f, s \cup {x}) = f[x] + SumFunctionOnSet(f, s)
    BY <2>1, SumAdd
  <2>3. SumFunctionOnSet(f, s) \in Int /\ f[x] \in Int /\ f[x] <= c
    BY <2>1, SumType
  <2>4. Cardinality(s \cup {x}) = Cardinality(s) + 1 /\ Cardinality(s) \in Nat
    BY <2>1, FS_AddElement, FS_CardinalityType
  <2>5. c * (Cardinality(s) + 1) = c * Cardinality(s) + c /\ c * Cardinality(s) \in Nat
    BY <2>4
  <2>6. SumFunctionOnSet(f, s) <= c * Cardinality(s)
    BY <1>2
  <2>7. SumFunctionOnSet(f, s \cup {x}) <= c * Cardinality(s \cup {x})
    BY <2>2, <2>3, <2>4, <2>5, <2>6
  <2> QED BY <2>7
<1> HIDE DEF P
<1>3. S \in P
  BY <1>1, <1>2, FiniteSetInduction
<1> QED BY <1>3 DEF P

(* A sum whose term e changes.                                             *)
LEMMA SumChange ==
  ASSUME NEW f, NEW g, NEW S, IsFiniteSet(S), NEW e \in S,
         \A x \in S : f[x] \in Int /\ g[x] \in Int,
         \A x \in S : x # e => g[x] = f[x]
  PROVE  SumFunctionOnSet(g, S) = (SumFunctionOnSet(f, S) - f[e]) + g[e]
<1> DEFINE R == S \ {e}
<1>1. IsFiniteSet(R) /\ \A x \in R : f[x] \in Int /\ g[x] = f[x]
  BY FS_Subset
<1> HIDE DEF R
<1>2. SumFunctionOnSet(f, R) = SumFunctionOnSet(g, R) /\ SumFunctionOnSet(f, R) \in Int
  BY <1>1, SumCongruence, SumType
<1>3. /\ SumFunctionOnSet(f, S) = f[e] + SumFunctionOnSet(f, R)
      /\ SumFunctionOnSet(g, S) = g[e] + SumFunctionOnSet(g, R)
  BY SumRemove DEF R
<1> QED BY <1>2, <1>3

(* A sum whose terms in T become zero.                                     *)
LEMMA SumClear ==
  ASSUME NEW f, NEW g, NEW S, IsFiniteSet(S), NEW T \in SUBSET S,
         \A x \in S : f[x] \in Int,
         \A x \in S : g[x] = IF x \in T THEN 0 ELSE f[x]
  PROVE  SumFunctionOnSet(g, S) + SumFunctionOnSet(f, T) = SumFunctionOnSet(f, S)
<1>1. IsFiniteSet(T) /\ IsFiniteSet(S \ T)
  BY FS_Subset
<1>2. \A x \in S : g[x] \in Int
  OBVIOUS
<1>3. SumFunctionOnSet(g, S) = SumFunctionOnSet(g, T) + SumFunctionOnSet(g, S \ T)
  BY <1>2, SumSplit
<1>4. SumFunctionOnSet(f, S) = SumFunctionOnSet(f, T) + SumFunctionOnSet(f, S \ T)
  BY SumSplit
<1>5. SumFunctionOnSet(g, T) = 0
  BY <1>1, SumZero
<1>6. SumFunctionOnSet(f, S \ T) = SumFunctionOnSet(g, S \ T)
  BY <1>1, SumCongruence
<1>7. SumFunctionOnSet(f, T) \in Int /\ SumFunctionOnSet(f, S \ T) \in Int
  BY <1>1, SumType
<1> QED BY <1>3, <1>4, <1>5, <1>6, <1>7

(* A sum over 1 .. i, one term longer.                                     *)
LEMMA SumInterval ==
  ASSUME NEW f, NEW i \in Nat, \A j \in 1 .. i + 1 : f[j] \in Int
  PROVE  SumFunctionOnSet(f, 1 .. i + 1) = f[i + 1] + SumFunctionOnSet(f, 1 .. i)
<1>1. 1 .. i + 1 = (1 .. i) \cup {i + 1} /\ i + 1 \notin 1 .. i
  OBVIOUS
<1>2. IsFiniteSet(1 .. i)
  BY FS_Interval
<1>3. \A j \in (1 .. i) \cup {i + 1} : f[j] \in Int
  BY <1>1
<1> QED BY <1>1, <1>2, <1>3, SumAdd

(* g is the integers f[1], ..., f[m + 1] without the first one.            *)
IsShift(f, g, m) ==
  /\ \A j \in 1 .. m + 1 : f[j] \in Int
  /\ \A j \in 1 .. m : g[j] = f[j + 1]

(* A sum over 1 .. i of shifted terms lacks the first one.                 *)
LEMMA SumShift ==
  ASSUME NEW f, NEW g, NEW m \in Nat, IsShift(f, g, m), NEW i \in 0 .. m
  PROVE  SumFunctionOnSet(f, 1 .. i + 1) = f[1] + SumFunctionOnSet(g, 1 .. i)
<1>0. (\A j \in 1 .. m + 1 : f[j] \in Int) /\ \A j \in 1 .. m : g[j] = f[j + 1]
  BY DEF IsShift
<1> USE <1>0
<1> DEFINE P == {k \in Nat : k <= m =>
                   SumFunctionOnSet(f, 1 .. k + 1) = f[1] + SumFunctionOnSet(g, 1 .. k)}
<1>1. 0 \in P
  <2>1. 1 .. 0 = {} /\ f[1] \in Int /\ \A j \in 1 .. 0 + 1 : f[j] \in Int
    OBVIOUS
  <2>2. SumFunctionOnSet(f, 1 .. 0 + 1) = f[0 + 1] + SumFunctionOnSet(f, 1 .. 0)
    BY <2>1, SumInterval
  <2> QED BY <2>1, <2>2, SumEmpty
<1>2. ASSUME NEW k \in Nat, k \in P PROVE k + 1 \in P
  <2> SUFFICES ASSUME k + 1 <= m
               PROVE  SumFunctionOnSet(f, 1 .. (k + 1) + 1)
                        = f[1] + SumFunctionOnSet(g, 1 .. k + 1)
    OBVIOUS
  <2>1. SumFunctionOnSet(f, 1 .. k + 1) = f[1] + SumFunctionOnSet(g, 1 .. k)
    BY <1>2
  <2>2. \A j \in 1 .. (k + 1) + 1 : f[j] \in Int
    OBVIOUS
  <2>3. \A j \in 1 .. k + 1 : g[j] \in Int /\ g[j] = f[j + 1]
    OBVIOUS
  <2>4. SumFunctionOnSet(f, 1 .. (k + 1) + 1)
          = f[(k + 1) + 1] + SumFunctionOnSet(f, 1 .. k + 1)
    BY <2>2, SumInterval
  <2>5. SumFunctionOnSet(g, 1 .. k + 1) = g[k + 1] + SumFunctionOnSet(g, 1 .. k)
    BY <2>3, SumInterval
  <2>6. IsFiniteSet(1 .. k) /\ \A j \in 1 .. k : g[j] \in Int
    BY <2>3, FS_Interval
  <2>7. SumFunctionOnSet(g, 1 .. k) \in Int
    BY <2>6, SumType
  <2>8. f[1] \in Int /\ g[k + 1] = f[(k + 1) + 1] /\ g[k + 1] \in Int
    BY <2>3
  <2> QED BY <2>1, <2>4, <2>5, <2>7, <2>8
<1> HIDE DEF P
<1>3. i \in P
  BY <1>1, <1>2, NatSetInduction
<1> QED BY <1>3 DEF P

(* A sum of naturals is at least each of its terms.                        *)
LEMMA SumTerm ==
  ASSUME NEW f, NEW S, IsFiniteSet(S), \A x \in S : f[x] \in Nat, NEW e \in S
  PROVE  f[e] <= SumFunctionOnSet(f, S)
<1>1. IsFiniteSet(S \ {e})
  BY FS_Subset
<1>2. SumFunctionOnSet(f, S \ {e}) \in Nat
  BY <1>1, SumNat
<1>3. SumFunctionOnSet(f, S) = f[e] + SumFunctionOnSet(f, S \ {e})
  BY SumRemove
<1> QED BY <1>2, <1>3

(* The sums of the first terms of a row of naturals: they never shrink,    *)
(* and each is at least every term in it.                                  *)
LEMMA PrefixSums ==
  ASSUME NEW f, NEW m \in Nat, \A j \in 1 .. m : f[j] \in Nat
  PROVE  /\ SumFunctionOnSet(f, 1 .. 0) = 0
         /\ \A i \in 0 .. m :
              /\ SumFunctionOnSet(f, 1 .. i) \in Nat
              /\ SumFunctionOnSet(f, 1 .. i) <= SumFunctionOnSet(f, 1 .. m)
              /\ \A j \in 1 .. i : f[j] <= SumFunctionOnSet(f, 1 .. i)
<1>1. 1 .. 0 = {}
  OBVIOUS
<1>2. ASSUME NEW i \in 0 .. m
      PROVE  /\ SumFunctionOnSet(f, 1 .. i) \in Nat
             /\ SumFunctionOnSet(f, 1 .. i) <= SumFunctionOnSet(f, 1 .. m)
             /\ \A j \in 1 .. i : f[j] <= SumFunctionOnSet(f, 1 .. i)
  <2>1. PICK S, T : S = 1 .. m /\ T = 1 .. i /\ T \in SUBSET S
    <3>1. 1 .. i \in SUBSET (1 .. m)
      OBVIOUS
    <3> QED BY <3>1
  <2>2. IsFiniteSet(S) /\ IsFiniteSet(T) /\ IsFiniteSet(S \ T)
    BY <2>1, FS_Interval, FS_Subset
  <2>3. /\ \A x \in S : f[x] \in Int /\ f[x] \in Nat
        /\ \A x \in T : f[x] \in Nat
        /\ \A x \in S \ T : f[x] \in Nat
    BY <2>1
  <2>4. SumFunctionOnSet(f, T) \in Nat /\ SumFunctionOnSet(f, S \ T) \in Nat
    BY <2>2, <2>3, SumNat
  <2>5. SumFunctionOnSet(f, S) = SumFunctionOnSet(f, T) + SumFunctionOnSet(f, S \ T)
    <3>1. \A x \in S : f[x] \in Int
      BY <2>3
    <3>2. T \in SUBSET S
      BY <2>1
    <3> QED BY ONLY <2>2, <3>1, <3>2, SumSplit
  <2>6. \A j \in T : f[j] <= SumFunctionOnSet(f, T)
    BY <2>2, <2>3, SumTerm
  <2> QED BY <2>1, <2>4, <2>5, <2>6
<1> QED BY <1>1, <1>2, SumEmpty

(* A term put behind the row f changes none of the sums of the first ones. *)
LEMMA PrefixSumsAppend ==
  ASSUME NEW f, NEW g, NEW m \in Nat, \A j \in 1 .. m : f[j] \in Nat,
         \A j \in 1 .. m : g[j] = f[j], g[m + 1] \in Nat
  PROVE  /\ \A i \in 0 .. m : SumFunctionOnSet(g, 1 .. i) = SumFunctionOnSet(f, 1 .. i)
         /\ SumFunctionOnSet(g, 1 .. m + 1) = g[m + 1] + SumFunctionOnSet(f, 1 .. m)
<1>1. ASSUME NEW i \in 0 .. m
      PROVE  SumFunctionOnSet(g, 1 .. i) = SumFunctionOnSet(f, 1 .. i)
  <2>1. IsFiniteSet(1 .. i)
    BY FS_Interval
  <2>2. \A x \in 1 .. i : f[x] \in Int /\ g[x] = f[x]
    OBVIOUS
  <2> QED BY <2>1, <2>2, SumCongruence
<1>2. \A j \in 1 .. m + 1 : g[j] \in Int
  <2>1. \A j \in 1 .. m + 1 : j \in 1 .. m \/ j = m + 1
    OBVIOUS
  <2> QED BY <2>1
<1>3. SumFunctionOnSet(g, 1 .. m + 1) = g[m + 1] + SumFunctionOnSet(g, 1 .. m)
  BY <1>2, SumInterval
<1>4. m \in 0 .. m
  OBVIOUS
<1> QED BY <1>1, <1>3, <1>4

-----------------------------------------------------------------------------
(* Queues                                                                  *)

(* The queue of one element.                                               *)
LEMMA SingleFacts ==
  ASSUME NEW e
  PROVE  ToSet(<<e>>) = {e} /\ IsInjective(<<e>>)
BY DEF ToSet, IsInjective

(* The elements of a queue are of its type.                                *)
LEMMA ToSetType ==
  ASSUME NEW T, NEW s \in Seq(T)
  PROVE  ToSet(s) \subseteq T /\ (s = <<>> <=> ToSet(s) = {})
<1>1. \A i \in DOMAIN s : s[i] \in T
  OBVIOUS
<1>2. DOMAIN s = {} <=> s = <<>>
  OBVIOUS
<1> QED BY <1>1, <1>2 DEF ToSet

(* Two queues, one after the other.                                        *)
LEMMA ConcatFacts ==
  ASSUME NEW T, NEW s \in Seq(T), NEW t \in Seq(T)
  PROVE  /\ s \o t \in Seq(T) /\ ToSet(s \o t) = ToSet(s) \cup ToSet(t)
         /\ IsInjective(s) /\ IsInjective(t) /\ ToSet(s) \cap ToSet(t) = {}
              => IsInjective(s \o t)
<1> DEFINE u == s \o t
<1>1. u \in Seq(T) /\ Len(u) = Len(s) + Len(t) /\ Len(s) \in Nat /\ Len(t) \in Nat
      /\ DOMAIN u = 1 .. Len(s) + Len(t) /\ DOMAIN s = 1 .. Len(s) /\ DOMAIN t = 1 .. Len(t)
  OBVIOUS
<1>2. \A i \in DOMAIN u : u[i] = IF i <= Len(s) THEN s[i] ELSE t[i - Len(s)]
  OBVIOUS
<1> HIDE DEF u
<1>3. ToSet(u) \subseteq ToSet(s) \cup ToSet(t)
  <2> SUFFICES ASSUME NEW i \in DOMAIN u PROVE u[i] \in ToSet(s) \cup ToSet(t)
    BY DEF ToSet
  <2>1. CASE i <= Len(s)
    BY <1>1, <1>2, <2>1 DEF ToSet
  <2>2. CASE ~ (i <= Len(s))
    <3>1. i - Len(s) \in DOMAIN t /\ u[i] = t[i - Len(s)]
      BY <1>1, <1>2, <2>2
    <3> QED BY <3>1 DEF ToSet
  <2> QED BY <2>1, <2>2
<1>4. ToSet(s) \subseteq ToSet(u)
  <2> SUFFICES ASSUME NEW i \in DOMAIN s PROVE s[i] \in ToSet(u)
    BY DEF ToSet
  <2>1. i \in DOMAIN u /\ u[i] = s[i]
    BY <1>1, <1>2
  <2> QED BY <2>1 DEF ToSet
<1>5. ToSet(t) \subseteq ToSet(u)
  <2> SUFFICES ASSUME NEW i \in DOMAIN t PROVE t[i] \in ToSet(u)
    BY DEF ToSet
  <2>1. Len(s) + i \in DOMAIN u /\ u[Len(s) + i] = t[i]
    BY <1>1, <1>2
  <2> QED BY <2>1 DEF ToSet
<1>6. ASSUME IsInjective(s), IsInjective(t), ToSet(s) \cap ToSet(t) = {}
      PROVE  IsInjective(u)
  <2> SUFFICES ASSUME NEW i \in DOMAIN u, NEW j \in DOMAIN u, u[i] = u[j] PROVE i = j
    BY DEF IsInjective
  <2>1. ASSUME NEW m \in DOMAIN u, NEW n \in DOMAIN u, m <= Len(s), ~ (n <= Len(s))
        PROVE  u[m] # u[n]
    <3>1. m \in DOMAIN s /\ n - Len(s) \in DOMAIN t /\ u[m] = s[m] /\ u[n] = t[n - Len(s)]
      BY <1>1, <1>2, <2>1
    <3>2. u[m] \in ToSet(s) /\ u[n] \in ToSet(t)
      BY <3>1 DEF ToSet
    <3> QED BY <1>6, <3>2
  <2>2. CASE i <= Len(s) /\ j <= Len(s)
    <3>1. i \in DOMAIN s /\ j \in DOMAIN s /\ s[i] = s[j]
      BY <1>1, <1>2, <2>2
    <3> QED BY <1>6, <3>1 DEF IsInjective
  <2>3. CASE ~ (i <= Len(s)) /\ ~ (j <= Len(s))
    <3>1. i - Len(s) \in DOMAIN t /\ j - Len(s) \in DOMAIN t /\ t[i - Len(s)] = t[j - Len(s)]
      BY <1>1, <1>2, <2>3
    <3>2. i - Len(s) = j - Len(s)
      BY <1>6, <3>1 DEF IsInjective
    <3> QED BY <1>1, <3>2
  <2> QED BY <2>1, <2>2, <2>3
<1>7. ToSet(u) = ToSet(s) \cup ToSet(t)
  BY <1>3, <1>4, <1>5
<1> QED BY <1>1, <1>6, <1>7 DEF u

(* A queue with one more element at its end.                               *)
LEMMA AppendFacts ==
  ASSUME NEW T, NEW s \in Seq(T), NEW e \in T
  PROVE  /\ Append(s, e) \in Seq(T) /\ ToSet(Append(s, e)) = ToSet(s) \cup {e}
         /\ Len(Append(s, e)) = Len(s) + 1
         /\ IsInjective(s) /\ e \notin ToSet(s) => IsInjective(Append(s, e))
<1>1. Append(s, e) = s \o <<e>> /\ <<e>> \in Seq(T)
  OBVIOUS
<1>2. Append(s, e) \in Seq(T) /\ Len(Append(s, e)) = Len(s) + 1
  OBVIOUS
<1>3. PICK t \in Seq(T) : t = <<e>>
  BY <1>1
<1>4. /\ ToSet(s \o t) = ToSet(s) \cup ToSet(t)
      /\ IsInjective(s) /\ IsInjective(t) /\ ToSet(s) \cap ToSet(t) = {} => IsInjective(s \o t)
  BY ConcatFacts
<1>5. ToSet(t) = {e} /\ IsInjective(t) /\ Append(s, e) = s \o t
  BY <1>1, <1>3, SingleFacts
<1>6. e \notin ToSet(s) => ToSet(s) \cap {e} = {}
  OBVIOUS
<1> QED BY <1>2, <1>4, <1>5, <1>6

(* A queue without its first element.                                      *)
LEMMA TailFacts ==
  ASSUME NEW T, NEW s \in Seq(T), s # <<>>
  PROVE  /\ Head(s) \in T /\ Tail(s) \in Seq(T) /\ Len(Tail(s)) = Len(s) - 1
         /\ ToSet(s) = {Head(s)} \cup ToSet(Tail(s))
         /\ IsInjective(s) => IsInjective(Tail(s)) /\ Head(s) \notin ToSet(Tail(s))
<1> DEFINE u == Tail(s)
<1>1. /\ Head(s) = s[1] /\ Len(s) \in Nat \ {0} /\ DOMAIN s = 1 .. Len(s)
      /\ u \in Seq(T) /\ Len(u) = Len(s) - 1 /\ DOMAIN u = 1 .. Len(s) - 1
      /\ s[1] \in T
  OBVIOUS
<1>2. \A i \in DOMAIN u : u[i] = s[i + 1]
  OBVIOUS
<1> HIDE DEF u
<1>3. ToSet(s) \subseteq {s[1]} \cup ToSet(u)
  <2> SUFFICES ASSUME NEW i \in DOMAIN s, i # 1 PROVE s[i] \in ToSet(u)
    BY DEF ToSet
  <2>1. i - 1 \in DOMAIN u /\ u[i - 1] = s[i]
    BY <1>1, <1>2
  <2> QED BY <2>1 DEF ToSet
<1>4. {s[1]} \cup ToSet(u) \subseteq ToSet(s)
  <2>1. ASSUME NEW i \in DOMAIN u PROVE u[i] \in ToSet(s)
    <3>1. i + 1 \in DOMAIN s /\ u[i] = s[i + 1]
      BY <1>1, <1>2
    <3> QED BY <3>1 DEF ToSet
  <2>2. 1 \in DOMAIN s
    BY <1>1
  <2> QED BY <2>1, <2>2 DEF ToSet
<1>5. ASSUME IsInjective(s) PROVE IsInjective(u) /\ s[1] \notin ToSet(u)
  <2>1. ASSUME NEW i \in DOMAIN u, NEW j \in DOMAIN u, u[i] = u[j] PROVE i = j
    <3>1. i + 1 \in DOMAIN s /\ j + 1 \in DOMAIN s /\ s[i + 1] = s[j + 1]
      BY <1>1, <1>2, <2>1
    <3>2. i + 1 = j + 1
      BY <1>5, <3>1 DEF IsInjective
    <3> QED BY <1>1, <3>2
  <2>2. ASSUME NEW i \in DOMAIN u PROVE u[i] # s[1]
    <3>1. i + 1 \in DOMAIN s /\ u[i] = s[i + 1] /\ 1 \in DOMAIN s /\ i + 1 # 1
      BY <1>1, <1>2
    <3> QED BY <1>5, <3>1 DEF IsInjective
  <2> QED BY <2>1, <2>2 DEF IsInjective, ToSet
<1>6. ToSet(s) = {s[1]} \cup ToSet(u)
  BY <1>3, <1>4
<1>7. /\ s[1] \in T /\ u \in Seq(T) /\ Len(u) = Len(s) - 1
      /\ ToSet(s) = {s[1]} \cup ToSet(u)
      /\ IsInjective(s) => IsInjective(u) /\ s[1] \notin ToSet(u)
  BY <1>1, <1>5, <1>6
<1>8. Head(s) = s[1] /\ Tail(s) = u
  BY <1>1 DEF u
<1> QED BY <1>7, <1>8
=============================================================================
