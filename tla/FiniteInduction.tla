-------------------------- MODULE FiniteInduction --------------------------
(* What the other proofs need of induction, as facts about sets: a set of    *)
(* natural numbers has a least element, and a greatest one when it is        *)
(* bounded; and the sum of a function over a finite domain, SumFunction, is  *)
(* the sum its order of choosing does not matter to.  Both rest on inclusion *)
(* being well founded on finite sets: a set of subsets has a minimal one.    *)
EXTENDS Integers, FiniteSetTheorems, Functions, TLAPS

-----------------------------------------------------------------------------
(* Extrema: what the CHOOSE of the oldest outbox row rests on.               *)

LEMMA LeastExists ==
  ASSUME NEW S, S \subseteq Nat, S # {}
  PROVE  \E m \in S : \A n \in S : m <= n
<1> DEFINE T == { 1 .. n : n \in S }
<1>1. T \subseteq FiniteSubsetsOf(Nat) /\ T # {}
  <2>1. \A n \in S : IsFiniteSet(1 .. n) /\ 1 .. n \subseteq Nat
    BY FS_Interval
  <2>2. QED
    BY <2>1 DEF FiniteSubsetsOf
<1>2. PICK t \in T : \A u \in T : ~ (<< u, t >> \in StrictSubsetOrdering(Nat))
  <2> HIDE DEF T
  <2>1. QED
    BY <1>1, FS_StrictSubsetOrderingWellFounded, WFMin
<1>3. PICK m \in S : t = 1 .. m
  OBVIOUS
<1>4. ASSUME NEW n \in S, ~ (m <= n)
      PROVE  FALSE
  <2>1. m \in Nat /\ n \in Nat /\ n < m
    BY <1>4
  <2>2. 1 .. n \subseteq 1 .. m /\ m \in 1 .. m /\ m \notin 1 .. n
    BY <2>1
  <2>3. << 1 .. n, 1 .. m >> \in StrictSubsetOrdering(Nat)
    BY <2>1, <2>2 DEF StrictSubsetOrdering
  <2>4. QED
    BY <1>2, <1>3, <2>3
<1>5. QED
  BY <1>4

\* Some element of S has the least value of f.
LEMMA LeastOf ==
  ASSUME NEW S, NEW f, \A x \in S : f[x] \in Nat, S # {}
  PROVE  \E x \in S : \A y \in S : f[x] <= f[y]
<1>1. { f[x] : x \in S } \subseteq Nat /\ { f[x] : x \in S } # {}
  OBVIOUS
<1>2. PICK m \in { f[x] : x \in S } : \A n \in { f[x] : x \in S } : m <= n
  BY <1>1, LeastExists
<1>3. QED
  BY <1>2

LEMMA GreatestExists ==
  ASSUME NEW S, S \subseteq Nat, S # {}, NEW b \in Nat, \A n \in S : n <= b
  PROVE  \E m \in S : \A n \in S : n <= m
<1>1. { b - n : n \in S } \subseteq Nat /\ { b - n : n \in S } # {}
  <2>1. \A n \in S : b - n \in Nat
    OBVIOUS
  <2>2. QED
    BY <2>1
<1>2. PICK k \in { b - n : n \in S } : \A j \in { b - n : n \in S } : k <= j
  BY <1>1, LeastExists
<1>3. PICK m \in S : k = b - m
  OBVIOUS
<1>4. \A n \in S : b - m <= b - n
  BY <1>2, <1>3
<1>5. QED
  BY <1>4

-----------------------------------------------------------------------------
(* Sums.  SumFunction(f) is iter[DOMAIN f] for the function iter that adds    *)
(* up any subset, one chosen element after the other.                        *)

\* Of a set of subsets of a finite set some one has no other of them in it.
LEMMA MinimalSubset ==
  ASSUME NEW S, IsFiniteSet(S), NEW B, B \subseteq SUBSET S, B # {}
  PROVE  \E b \in B : \A d \in B : ~ (d \subseteq b /\ d # b)
<1>1. B \subseteq FiniteSubsetsOf(S)
  BY FS_Subset DEF FiniteSubsetsOf
<1>2. PICK b \in B : \A d \in B : ~ (<< d, b >> \in StrictSubsetOrdering(S))
  BY <1>1, FS_StrictSubsetOrderingWellFounded, WFMin
<1>3. \A d \in B : d \subseteq b /\ d # b => << d, b >> \in StrictSubsetOrdering(S)
  BY DEF StrictSubsetOrdering
<1>4. \A d \in B : ~ (d \subseteq b /\ d # b)
  BY <1>2, <1>3
<1>5. QED
  BY <1>4

Picked(s) == CHOOSE x \in s : TRUE

\* What iter is at s, and a function that is that everywhere.
AddsUp(f, g, s) == IF s = {} THEN 0 ELSE f[Picked(s)] + g[s \ {Picked(s)}]
Iterates(f, g, S) == g = [s \in SUBSET S |-> AddsUp(f, g, s)]

LEMMA PickedIn == ASSUME NEW s, s # {} PROVE Picked(s) \in s
BY DEF Picked

LEMMA IterType ==
  ASSUME NEW S, IsFiniteSet(S), NEW f \in [S -> Int], NEW g, Iterates(f, g, S)
  PROVE  g \in [SUBSET S -> Int]
<1> DEFINE B == { s \in SUBSET S : g[s] \notin Int }
<1>1. CASE B # {}
  <2>1. PICK b \in B : \A d \in B : ~ (d \subseteq b /\ d # b)
    <3>1. B \subseteq SUBSET S
      OBVIOUS
    <3> HIDE DEF B
    <3>2. QED
      BY <1>1, <3>1, MinimalSubset
  <2>2. b \in SUBSET S /\ g[b] = AddsUp(f, g, b)
    BY DEF Iterates
  <2>3. b # {}
    BY <2>2 DEF AddsUp
  <2>4. Picked(b) \in b
    BY <2>3, PickedIn
  <2>5. b \ {Picked(b)} \notin B
    BY <2>1, <2>4
  <2>6. g[b \ {Picked(b)}] \in Int /\ f[Picked(b)] \in Int
    BY <2>2, <2>4, <2>5
  <2>7. QED
    BY <2>2, <2>3, <2>6 DEF AddsUp
<1>2. CASE B = {}
  BY <1>2 DEF Iterates
<1>3. QED
  BY <1>1, <1>2

\* There is no other such function, also over fewer indices.
LEMMA IterUnique ==
  ASSUME NEW S, NEW T, IsFiniteSet(S), T \subseteq S,
         NEW f \in [S -> Int], NEW g, Iterates(f, g, S),
         NEW e, \A x \in T : e[x] = f[x], NEW h, Iterates(e, h, T)
  PROVE  \A s \in SUBSET T : h[s] = g[s]
<1> DEFINE B == { s \in SUBSET T : h[s] # g[s] }
<1>1. CASE B # {}
  <2>1. PICK b \in B : \A d \in B : ~ (d \subseteq b /\ d # b)
    <3>1. B \subseteq SUBSET T /\ IsFiniteSet(T)
      BY FS_Subset
    <3> HIDE DEF B
    <3>2. QED
      BY <1>1, <3>1, MinimalSubset
  <2>2. b \in SUBSET T /\ h[b] = AddsUp(e, h, b) /\ g[b] = AddsUp(f, g, b)
    BY DEF Iterates
  <2>3. b # {}
    BY <2>2 DEF AddsUp
  <2>4. Picked(b) \in b
    BY <2>3, PickedIn
  <2>5. h[b \ {Picked(b)}] = g[b \ {Picked(b)}]
    BY <2>1, <2>2, <2>4
  <2>6. e[Picked(b)] = f[Picked(b)]
    BY <2>2, <2>4
  <2>7. QED
    BY <2>1, <2>2, <2>5, <2>6 DEF AddsUp
<1>2. QED
  BY <1>1

\* It exists: correct it on the subsets of one element more at a time.
LEMMA IterExists ==
  ASSUME NEW S, IsFiniteSet(S), NEW f \in [S -> Int]
  PROVE  \E g : Iterates(f, g, S)
<1> DEFINE Upto(n, g) == \A s \in SUBSET S : Cardinality(s) <= n => g[s] = AddsUp(f, g, s)
           B == { n \in Nat : ~ \E g : Upto(n, g) }
<1>1. \A s \in SUBSET S : Cardinality(s) \in Nat /\ IsFiniteSet(s)
  BY FS_Subset, FS_CardinalityType
<1>2. CASE B # {}
  <2>1. PICK n \in B : \A m \in B : n <= m
    <3> HIDE DEF Upto
    <3>1. QED
      BY <1>2, LeastExists
  <2>2. n # 0
    <3> SUFFICES \E g : Upto(0, g)
      BY <2>1
    <3> DEFINE g == [s \in SUBSET S |-> 0]
    <3>1. \A s \in SUBSET S : Cardinality(s) <= 0 => s = {}
      BY <1>1, FS_EmptySet
    <3>2. Upto(0, g)
      BY <3>1 DEF AddsUp
    <3>3. QED
      BY <3>2
  <2>3. n - 1 \in Nat /\ n - 1 \notin B
    <3> HIDE DEF Upto
    <3>1. QED
      BY <2>1, <2>2
  <2>4. PICK g : Upto(n - 1, g)
    <3> HIDE DEF Upto
    <3>1. QED
      BY <2>3
  <2> DEFINE h == [s \in SUBSET S |-> AddsUp(f, g, s)]
  <2>5. Upto(n, h)
    <3> SUFFICES ASSUME NEW s \in SUBSET S, Cardinality(s) <= n
                 PROVE  h[s] = AddsUp(f, h, s)
      OBVIOUS
    <3>1. CASE s = {}
      BY <3>1 DEF AddsUp
    <3>2. CASE s # {}
      <4> DEFINE r == s \ {Picked(s)}
      <4>1. r \in SUBSET S /\ Cardinality(r) = Cardinality(s) - 1
        BY <1>1, <3>2, PickedIn, FS_RemoveElement
      <4>2. Cardinality(r) <= n - 1
        BY <1>1, <2>1, <4>1
      <4>3. g[r] = AddsUp(f, g, r)
        BY <2>4, <4>1, <4>2
      <4>4. h[r] = g[r]
        BY <4>1, <4>3
      <4>5. QED
        BY <3>2, <4>4 DEF AddsUp
    <3>3. QED
      BY <3>1, <3>2
  <2>6. QED
    <3> HIDE DEF Upto, h
    <3>1. QED
      BY <2>1, <2>5
<1>3. CASE B = {}
  <2>1. PICK g : Upto(Cardinality(S), g)
    <3> HIDE DEF Upto
    <3>1. QED
      BY <1>1, <1>3
  <2>2. \A s \in SUBSET S : g[s] = AddsUp(f, g, s)
    BY <2>1, FS_Subset
  <2> DEFINE h == [s \in SUBSET S |-> g[s]]
  <2>3. \A s \in SUBSET S : h[s] = AddsUp(f, h, s)
    BY <2>2 DEF AddsUp
  <2>4. Iterates(f, h, S)
    BY <2>3 DEF Iterates
  <2>5. QED
    BY <2>4
<1>4. QED
  BY <1>2, <1>3

Iter(f, S) == CHOOSE g : Iterates(f, g, S)

LEMMA SumIsIter ==
  ASSUME NEW S, NEW f \in [S -> Int]
  PROVE  SumFunction(f) = Iter(f, S)[S]
<1>1. DOMAIN f = S
  OBVIOUS
<1>2. QED
  BY <1>1 DEF SumFunction, SumFunctionOnSet, FoldFunctionOnSet, MapThenFoldSet,
              Iter, Iterates, AddsUp, Picked

LEMMA IterIterates ==
  ASSUME NEW S, IsFiniteSet(S), NEW f \in [S -> Int]
  PROVE  Iterates(f, Iter(f, S), S)
BY IterExists DEF Iter

\* Every part of the domain is added up by the iter of the whole.
LEMMA SumOfPart ==
  ASSUME NEW S, IsFiniteSet(S), NEW f \in [S -> Int], NEW T \in SUBSET S
  PROVE  SumFunction([x \in T |-> f[x]]) = Iter(f, S)[T]
<1> DEFINE e == [x \in T |-> f[x]]
<1>1. IsFiniteSet(T) /\ e \in [T -> Int]
  BY FS_Subset
<1>2. Iterates(e, Iter(e, T), T) /\ Iterates(f, Iter(f, S), S)
  <2> HIDE DEF e
  <2>1. QED
    BY <1>1, IterIterates
<1>3. \A x \in T : e[x] = f[x]
  OBVIOUS
<1>4. Iter(e, T)[T] = Iter(f, S)[T]
  <2> HIDE DEF e
  <2>1. \A s \in SUBSET T : Iter(e, T)[s] = Iter(f, S)[s]
    BY <1>2, <1>3, IterUnique
  <2>2. QED
    BY <2>1
<1>5. SumFunction(e) = Iter(e, T)[T]
  <2> HIDE DEF e
  <2>1. QED
    BY <1>1, SumIsIter
<1>6. QED
  BY <1>4, <1>5

\* It does not matter which element is taken out first.
LEMMA IterRemove ==
  ASSUME NEW S, IsFiniteSet(S), NEW f \in [S -> Int], NEW g, Iterates(f, g, S)
  PROVE  \A s \in SUBSET S : \A x \in s : g[s] = f[x] + g[s \ {x}]
<1> DEFINE B == { s \in SUBSET S : \E x \in s : g[s] # f[x] + g[s \ {x}] }
<1>1. g \in [SUBSET S -> Int]
  BY IterType
<1>2. ASSUME NEW b \in B, \A d \in B : ~ (d \subseteq b /\ d # b)
      PROVE  FALSE
  <2>1. PICK x \in b : g[b] # f[x] + g[b \ {x}]
    OBVIOUS
  <2> DEFINE c == Picked(b)
  <2>2. b \in SUBSET S /\ c \in b /\ g[b] = f[c] + g[b \ {c}]
    BY PickedIn DEF Iterates, AddsUp
  <2>3. x # c
    BY <2>1, <2>2
  <2> HIDE DEF c
  <2>4. b \ {c} \notin B /\ b \ {x} \notin B
    BY <1>2, <2>2
  <2>5. g[b \ {c}] = f[x] + g[(b \ {c}) \ {x}]
    BY <2>2, <2>3, <2>4
  <2>6. g[b \ {x}] = f[c] + g[(b \ {x}) \ {c}]
    BY <2>2, <2>3, <2>4
  <2>7. (b \ {c}) \ {x} = (b \ {x}) \ {c}
    OBVIOUS
  <2>8. /\ f[x] \in Int /\ f[c] \in Int
        /\ g[(b \ {x}) \ {c}] \in Int
    BY <1>1, <2>2
  <2> DEFINE k == g[(b \ {x}) \ {c}]
             u == g[b \ {c}]
             v == g[b \ {x}]
             w == g[b]
  <2>9. u = f[x] + k /\ v = f[c] + k /\ w = f[c] + u /\ w # f[x] + v
    BY <2>1, <2>2, <2>5, <2>6, <2>7
  <2>10. f[x] \in Int /\ f[c] \in Int /\ k \in Int
    BY <2>8
  <2> HIDE DEF k, u, v, w
  <2>11. QED
    BY <2>9, <2>10
<1>3. B = {}
  <2> SUFFICES ASSUME B # {} PROVE FALSE
    OBVIOUS
  <2>1. B \subseteq SUBSET S
    OBVIOUS
  <2> HIDE DEF B
  <2>2. \E b \in B : \A d \in B : ~ (d \subseteq b /\ d # b)
    BY <2>1, MinimalSubset
  <2>3. QED
    BY <1>2, <2>2
<1>4. QED
  BY <1>3

-----------------------------------------------------------------------------
(* The sum of a function, as the other proofs use it. *)

LEMMA SumType ==
  ASSUME NEW S, IsFiniteSet(S), NEW f \in [S -> Int]
  PROVE  SumFunction(f) \in Int
<1>1. Iter(f, S) \in [SUBSET S -> Int]
  BY IterIterates, IterType
<1>2. QED
  BY <1>1, SumIsIter

LEMMA SumEmpty == ASSUME NEW f \in [{} -> Int] PROVE SumFunction(f) = 0
<1>1. IsFiniteSet({})
  BY FS_EmptySet
<1>2. Iterates(f, Iter(f, {}), {})
  BY <1>1, IterIterates
<1>3. QED
  BY <1>2, SumIsIter DEF Iterates, AddsUp

LEMMA SumZero ==
  ASSUME NEW S, IsFiniteSet(S), NEW f \in [S -> Int], \A x \in S : f[x] = 0
  PROVE  SumFunction(f) = 0
<1> DEFINE g == Iter(f, S)
           B == { s \in SUBSET S : g[s] # 0 }
<1>1. Iterates(f, g, S) /\ g \in [SUBSET S -> Int]
  BY IterIterates, IterType
<1>2. ASSUME NEW b \in B, \A d \in B : ~ (d \subseteq b /\ d # b)
      PROVE  FALSE
  <2> HIDE DEF g
  <2>1. b \in SUBSET S /\ g[b] # 0
    OBVIOUS
  <2>2. g[b] = AddsUp(f, g, b)
    BY <1>1, <2>1 DEF Iterates
  <2>3. b # {}
    BY <2>1, <2>2 DEF AddsUp
  <2> DEFINE x == Picked(b)
  <2>4. x \in b
    BY <2>3, PickedIn
  <2> HIDE DEF x
  <2>5. b \ {x} \in SUBSET S /\ b \ {x} \subseteq b /\ b \ {x} # b
    BY <2>1, <2>4
  <2>6. g[b \ {x}] = 0
    BY <1>2, <2>5
  <2>7. g[b] = f[x] + g[b \ {x}]
    BY <2>2, <2>3 DEF AddsUp, x
  <2>8. QED
    BY <2>1, <2>4, <2>6, <2>7
<1>3. B = {}
  <2>1. B \subseteq SUBSET S
    OBVIOUS
  <2> HIDE DEF B
  <2>2. QED
    BY <1>2, <2>1, MinimalSubset
<1>4. g[S] = 0
  BY <1>3
<1>5. QED
  BY <1>4, SumIsIter

\* Nothing negative adds up to nothing negative.
LEMMA SumNat ==
  ASSUME NEW S, IsFiniteSet(S), NEW f \in [S -> Nat]
  PROVE  SumFunction(f) \in Nat
<1> DEFINE g == Iter(f, S)
           B == { s \in SUBSET S : g[s] \notin Nat }
<1>1. f \in [S -> Int]
  OBVIOUS
<1>2. Iterates(f, g, S)
  BY <1>1, IterIterates
<1>3. ASSUME NEW b \in B, \A d \in B : ~ (d \subseteq b /\ d # b)
      PROVE  FALSE
  <2> HIDE DEF g
  <2>1. b \in SUBSET S /\ g[b] \notin Nat
    OBVIOUS
  <2>2. g[b] = AddsUp(f, g, b)
    BY <1>2, <2>1 DEF Iterates
  <2>3. b # {}
    BY <2>1, <2>2 DEF AddsUp
  <2> DEFINE x == Picked(b)
  <2>4. x \in b
    BY <2>3, PickedIn
  <2> HIDE DEF x
  <2>5. b \ {x} \in SUBSET S /\ b \ {x} \subseteq b /\ b \ {x} # b
    BY <2>1, <2>4
  <2>6. g[b \ {x}] \in Nat /\ f[x] \in Nat
    BY <1>3, <2>1, <2>4, <2>5
  <2>7. g[b] = f[x] + g[b \ {x}]
    BY <2>2, <2>3 DEF AddsUp, x
  <2>8. QED
    BY <2>1, <2>6, <2>7
<1>4. B = {}
  <2>1. B \subseteq SUBSET S
    OBVIOUS
  <2> HIDE DEF B
  <2>2. QED
    BY <1>3, <2>1, MinimalSubset
<1>5. g[S] \in Nat
  BY <1>4
<1>6. QED
  BY <1>1, <1>5, SumIsIter

LEMMA SumRemove ==
  ASSUME NEW S, IsFiniteSet(S), NEW f \in [S -> Int], NEW x \in S
  PROVE  SumFunction(f) = f[x] + SumFunction([y \in S \ {x} |-> f[y]])
<1> DEFINE g == Iter(f, S)
<1>1. Iterates(f, g, S)
  BY IterIterates
<1>2. g[S] = f[x] + g[S \ {x}]
  <2> HIDE DEF g
  <2>1. QED
    BY <1>1, IterRemove
<1>3. SumFunction(f) = g[S]
  BY SumIsIter
<1>4. SumFunction([y \in S \ {x} |-> f[y]]) = g[S \ {x}]
  BY SumOfPart
<1>5. QED
  BY <1>2, <1>3, <1>4

\* Changing one value changes the sum by as much.
LEMMA SumChange ==
  ASSUME NEW S, IsFiniteSet(S), NEW f \in [S -> Int], NEW e \in [S -> Int],
         NEW x \in S, \A y \in S \ {x} : e[y] = f[y]
  PROVE  SumFunction(e) = SumFunction(f) - f[x] + e[x]
<1> DEFINE r == [y \in S \ {x} |-> f[y]]
           t == [y \in S \ {x} |-> e[y]]
<1>1. r = t
  OBVIOUS
<1>2. SumFunction(f) = f[x] + SumFunction(r) /\ SumFunction(e) = e[x] + SumFunction(t)
  BY SumRemove
<1>3. SumFunction(r) \in Int
  <2>1. r \in [S \ {x} -> Int] /\ IsFiniteSet(S \ {x})
    BY FS_RemoveElement
  <2> HIDE DEF r
  <2>2. QED
    BY <2>1, SumType
<1>4. f[x] \in Int /\ e[x] \in Int
  OBVIOUS
<1> HIDE DEF r, t
<1>5. QED
  BY <1>1, <1>2, <1>3, <1>4

\* A term more: what a sum adds up to when something is put under its domain.
LEMMA SumAdd ==
  ASSUME NEW S, IsFiniteSet(S), NEW x, x \notin S, NEW f \in [S -> Int],
         NEW e \in [S \cup {x} -> Int], \A y \in S : e[y] = f[y]
  PROVE  SumFunction(e) = SumFunction(f) + e[x]
<1> DEFINE T == S \cup {x}
<1>1. IsFiniteSet(T) /\ x \in T /\ e \in [T -> Int]
  BY FS_AddElement
<1>2. [y \in T \ {x} |-> e[y]] = f
  OBVIOUS
<1>3. SumFunction(f) \in Int /\ e[x] \in Int
  BY SumType
<1> HIDE DEF T
<1>4. SumFunction(e) = e[x] + SumFunction([y \in T \ {x} |-> e[y]])
  BY <1>1, SumRemove
<1>5. QED
  BY <1>2, <1>3, <1>4
=============================================================================
