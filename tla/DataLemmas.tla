----------------------------- MODULE DataLemmas -----------------------------
(***************************************************************************)
(* Facts about sets of numbers that the proofs of several components use:  *)
(* least and greatest elements, counting, and sums over finite sets.       *)
(***************************************************************************)
EXTENDS Integers, FiniteSets, FiniteSetsExt, FiniteSetTheorems,
        WellFoundedInduction, TLAPS

\* A set of naturals with an element has a least one: Nat carries the well
\* founded order that the intervals 1..n inherit from strict inclusion.
LEMMA LeastExists ==
  ASSUME NEW S \in SUBSET Nat, S # {}
  PROVE  \E x \in S : \A y \in S : x <= y
<1> DEFINE Intervals == {1 .. n : n \in S}
           Smaller == StrictSubsetOrdering(Nat)
<1>1. Intervals \subseteq FiniteSubsetsOf(Nat)
  <2> SUFFICES ASSUME NEW n \in S
               PROVE  1 .. n \in SUBSET Nat /\ IsFiniteSet(1 .. n)
    BY DEF FiniteSubsetsOf
  <2>1. 1 \in Int /\ n \in Int
    OBVIOUS
  <2>2. IsFiniteSet(1 .. n)
    BY <2>1, FS_Interval
  <2> QED BY <2>2
<1>2. Intervals # {}
  BY Zenon
<1>3. IsWellFoundedOn(Smaller, FiniteSubsetsOf(Nat))
  BY FS_StrictSubsetOrderingWellFounded
<1> HIDE DEF Intervals, Smaller
<1>4. \E x \in Intervals : \A y \in Intervals : ~(<<y, x>> \in Smaller)
  BY <1>1, <1>2, <1>3, WFMin
<1> USE DEF Intervals, Smaller
<1>5. PICK n \in S : \A m \in S : ~(<<1 .. m, 1 .. n>> \in Smaller)
  BY <1>4, Zenon
<1>6. \A m \in S : n <= m
  <2> SUFFICES ASSUME NEW m \in S, m < n PROVE FALSE
    OBVIOUS
  <2>1. 1 .. m \subseteq 1 .. n
    OBVIOUS
  <2>2. n \in 1 .. n /\ n \notin 1 .. m
    OBVIOUS
  <2>3. <<1 .. m, 1 .. n>> \in Smaller
    BY <2>1, <2>2 DEF StrictSubsetOrdering
  <2> QED BY <2>3, <1>5
<1> QED BY <1>6

\* Min of FiniteSetsExt, as next_ready_after uses it.
LEMMA MinIsLeast ==
  ASSUME NEW S \in SUBSET Nat, S # {}
  PROVE  Min(S) \in S /\ \A y \in S : Min(S) <= y
BY LeastExists, Zenon DEF Min

\* Max of FiniteSetsExt, on a set of numbers up to n.
LEMMA MaxIsGreatest ==
  ASSUME NEW n \in Nat, NEW S \in SUBSET (0 .. n), S # {}
  PROVE  Max(S) \in S /\ \A y \in S : y <= Max(S)
<1> DEFINE Gaps == {n - x : x \in S}
<1>0. \A x \in S : x \in Int /\ n - x \in Nat
  OBVIOUS
<1>1. Gaps \in SUBSET Nat /\ Gaps # {}
  BY <1>0, Zenon
<1> HIDE DEF Gaps
<1>2. PICK g \in Gaps : \A h \in Gaps : g <= h
  BY <1>1, LeastExists
<1> USE DEF Gaps
<1>3. PICK x \in S : g = n - x
  BY Zenon
<1>4. \A y \in S : y <= x
  <2> TAKE y \in S
  <2>1. n - y \in Gaps
    BY Zenon
  <2>2. n - x <= n - y
    BY <2>1, <1>2, <1>3
  <2> QED BY <2>2, <1>0
<1>5. \E z \in S : \A y \in S : z >= y
  BY <1>4, <1>0
<1>6. Max(S) \in S /\ \A y \in S : Max(S) >= y
  BY <1>5, Zenon DEF Max
<1> QED BY <1>6, <1>0

\* An interval from 1 has as many elements as its end says.
LEMMA IntervalCardinality == \A n \in Nat : Cardinality(1 .. n) = n
<1> TAKE n \in Nat
<1>1. 1 \in Int /\ n \in Int
  OBVIOUS
<1>2. Cardinality(1 .. n) = IF 1 > n THEN 0 ELSE n - 1 + 1
  BY <1>1, FS_Interval
<1> QED BY <1>2

-----------------------------------------------------------------------------
(***************************************************************************)
(* Sums.  The folds of the library add up a finite set of numbers in an    *)
(* order of their own choice.  An order is a function c from the subsets s *)
(* of S to the element of s that is added last.                            *)
(***************************************************************************)

\* Induction over the subsets of a finite set: among the subsets for which a
\* statement fails there is one below which it fails for none.
LEMMA MinimalSubset ==
  ASSUME NEW S, IsFiniteSet(S), NEW Bad \in SUBSET (SUBSET S), Bad # {}
  PROVE  \E s \in Bad : \A t \in SUBSET s : t # s => t \notin Bad
<1> DEFINE Smaller == StrictSubsetOrdering(S)
<1>1. Bad \subseteq FiniteSubsetsOf(S)
  <2> SUFFICES ASSUME NEW s \in Bad PROVE IsFiniteSet(s) /\ s \in SUBSET S
    BY DEF FiniteSubsetsOf
  <2> QED BY FS_Subset
<1>2. IsWellFoundedOn(Smaller, FiniteSubsetsOf(S))
  BY FS_StrictSubsetOrderingWellFounded
<1> HIDE DEF Smaller
<1>3. PICK s \in Bad : \A t \in Bad : ~(<<t, s>> \in Smaller)
  BY <1>1, <1>2, WFMin
<1>4. \A t \in SUBSET s : t # s => t \notin Bad
  <2> SUFFICES ASSUME NEW t \in SUBSET s, t # s, t \in Bad PROVE FALSE
    OBVIOUS
  <2>1. <<t, s>> \in Smaller
    BY DEF Smaller, StrictSubsetOrdering
  <2> QED BY <2>1, <1>3
<1> QED BY <1>4

\* g adds up v over every subset of S, in the order c.
AddsUp(g, v, c, S) ==
  g = [s \in SUBSET S |-> IF s = {} THEN 0 ELSE v[c[s]] + g[s \ {c[s]}]]

Order(c, S) == \A s \in SUBSET S : s # {} => c[s] \in s

\* The value of a sum over s is the same in every set around s.
LEMMA SumsAgree ==
  ASSUME NEW v, NEW c, NEW S, IsFiniteSet(S), Order(c, S), NEW T \in SUBSET S,
         NEW g, AddsUp(g, v, c, S), NEW h, AddsUp(h, v, c, T)
  PROVE  \A s \in SUBSET T : g[s] = h[s]
<1> DEFINE Bad == {s \in SUBSET T : g[s] # h[s]}
<1> SUFFICES ASSUME Bad # {} PROVE FALSE
  OBVIOUS
<1>1. IsFiniteSet(T)
  BY FS_Subset
<1>2. Bad \in SUBSET (SUBSET T)
  OBVIOUS
<1> HIDE DEF Bad
<1>3. PICK s \in Bad : \A t \in SUBSET s : t # s => t \notin Bad
  BY <1>1, <1>2, MinimalSubset
<1>4. s \in SUBSET T /\ s \in SUBSET S /\ g[s] # h[s]
  BY <1>3 DEF Bad
<1>5. /\ g[s] = IF s = {} THEN 0 ELSE v[c[s]] + g[s \ {c[s]}]
      /\ h[s] = IF s = {} THEN 0 ELSE v[c[s]] + h[s \ {c[s]}]
  BY <1>4, Zenon DEF AddsUp
<1>6. s # {}
  BY <1>4, <1>5
<1>7. c[s] \in s
  BY <1>4, <1>6 DEF Order
<1>8. s \ {c[s]} \in SUBSET s /\ s \ {c[s]} # s
  BY <1>7
<1>9. s \ {c[s]} \notin Bad
  BY <1>3, <1>8
<1>10. g[s \ {c[s]}] = h[s \ {c[s]}]
  BY <1>4, <1>9 DEF Bad
<1> QED BY <1>4, <1>5, <1>6, <1>10

\* There is such a g.
LEMMA SumExists ==
  ASSUME NEW v, NEW c, NEW S, IsFiniteSet(S), Order(c, S)
  PROVE  \E g : AddsUp(g, v, c, S)
<1> DEFINE Bad == {T \in SUBSET S : ~ \E g : AddsUp(g, v, c, T)}
<1> SUFFICES ASSUME Bad # {} PROVE FALSE
  BY Zenon
<1>1. Bad \in SUBSET (SUBSET S)
  BY Zenon
<1> HIDE DEF Bad
<1>2. PICK T \in Bad : \A t \in SUBSET T : t # T => t \notin Bad
  BY <1>1, MinimalSubset
<1> DEFINE G(t) == CHOOSE g : AddsUp(g, v, c, t)
           rest(s) == s \ {c[s]}
           h == [s \in SUBSET T |-> IF s = {} THEN 0 ELSE v[c[s]] + G(rest(s))[rest(s)]]
<1>3. T \in SUBSET S /\ ~ \E g : AddsUp(g, v, c, T)
  BY <1>2, Zenon DEF Bad
<1>4. \A t \in SUBSET T : t # T => AddsUp(G(t), v, c, t)
  <2> TAKE t \in SUBSET T
  <2> HAVE t # T
  <2>1. t \notin Bad /\ t \in SUBSET S
    BY <1>2, <1>3
  <2>2. \E g : AddsUp(g, v, c, t)
    BY <2>1, Zenon DEF Bad
  <2> QED BY <2>2, Zenon
<1>5. \A s \in SUBSET T : s # {} =>
        c[s] \in s /\ rest(s) \in SUBSET s /\ rest(s) \in SUBSET T /\ rest(s) # T /\ rest(s) # s
  BY <1>3 DEF Order
<1> HIDE DEF G, rest
<1>6. \A t \in SUBSET T : t # T => h[t] = G(t)[t]
  <2> TAKE t \in SUBSET T
  <2> HAVE t # T
  <2>1. AddsUp(G(t), v, c, t)
    BY <1>4
  <2>2. G(t)[t] = IF t = {} THEN 0 ELSE v[c[t]] + G(t)[rest(t)]
    <3>1. t \in SUBSET t
      OBVIOUS
    <3> QED BY <3>1, <2>1, Zenon DEF AddsUp, rest
  <2>3. CASE t = {}
    BY <2>2, <2>3, Zenon
  <2>4. CASE t # {}
    <3>1. AddsUp(G(rest(t)), v, c, rest(t))
      BY <1>4, <1>5, <2>4
    <3>2. IsFiniteSet(t) /\ Order(c, t) /\ rest(t) \in SUBSET t
      BY <1>3, <1>5, <2>4, FS_Subset DEF Order
    <3> DEFINE u == rest(t)
               large == G(t)
               small == G(u)
    <3>3. AddsUp(large, v, c, t) /\ AddsUp(small, v, c, u) /\ u \in SUBSET t
      BY <3>1, <3>2, <2>1, Zenon
    <3> HIDE DEF u, large, small
    <3>4. \A s \in SUBSET u : large[s] = small[s]
      BY <3>2, <3>3, SumsAgree
    <3>5. large[u] = small[u]
      BY <3>4
    <3> USE DEF u, large, small
    <3>6. h[t] = v[c[t]] + G(rest(t))[rest(t)]
      BY <2>4, Zenon
    <3> QED BY <2>2, <2>4, <3>5, <3>6, Zenon
  <2> QED BY <2>3, <2>4
<1>7. AddsUp(h, v, c, T)
  <2>1. \A s \in SUBSET T : h[s] = IF s = {} THEN 0 ELSE v[c[s]] + h[rest(s)]
    <3> TAKE s \in SUBSET T
    <3>1. CASE s = {}
      BY <3>1, Zenon
    <3>2. CASE s # {}
      <4>1. h[rest(s)] = G(rest(s))[rest(s)]
        BY <3>2, <1>5, <1>6
      <4>2. h[s] = v[c[s]] + G(rest(s))[rest(s)]
        BY <3>2, Zenon
      <4> QED BY <3>2, <4>1, <4>2, Zenon
    <3> QED BY <3>1, <3>2
  <2>2. h = [s \in SUBSET T |-> h[s]]
    OBVIOUS
  <2> HIDE DEF h
  <2>3. h = [s \in SUBSET T |-> IF s = {} THEN 0 ELSE v[c[s]] + h[rest(s)]]
    BY <2>1, <2>2, Zenon
  <2> QED BY <2>3, Zenon DEF AddsUp, rest
<1> QED BY <1>3, <1>7, Zenon

\* Whatever the order, any element may be split off.
LEMMA SplitOff ==
  ASSUME NEW S, IsFiniteSet(S), NEW v, \A x \in S : v[x] \in Int,
         NEW c, Order(c, S), NEW g, AddsUp(g, v, c, S)
  PROVE  /\ g[{}] = 0
         /\ \A s \in SUBSET S : g[s] \in Int /\ \A x \in s : g[s] = v[x] + g[s \ {x}]
<1> DEFINE Splits(s) == g[s] \in Int /\ \A x \in s : g[s] = v[x] + g[s \ {x}]
           Bad == {s \in SUBSET S : ~Splits(s)}
<1>1. g[{}] = 0
  <2>1. {} \in SUBSET S
    OBVIOUS
  <2> QED BY <2>1, Zenon DEF AddsUp
<1> SUFFICES ASSUME Bad # {} PROVE FALSE
  BY <1>1, Zenon
<1>2. Bad \in SUBSET (SUBSET S)
  BY Zenon
<1> HIDE DEF Bad
<1>3. PICK s \in Bad : \A t \in SUBSET s : t # s => t \notin Bad
  BY <1>2, MinimalSubset
<1>4. s \in SUBSET S /\ ~Splits(s)
  BY <1>3, Zenon DEF Bad
<1>5. \A t \in SUBSET s : t # s => Splits(t)
  <2> TAKE t \in SUBSET s
  <2> HAVE t # s
  <2>1. t \notin Bad /\ t \in SUBSET S
    BY <1>3, <1>4
  <2> QED BY <2>1, Zenon DEF Bad
<1>6. s # {}
  <2> SUFFICES ASSUME s = {} PROVE FALSE
    OBVIOUS
  <2>1. g[s] \in Int
    BY <1>1
  <2> QED BY <2>1, <1>4
<1> DEFINE y == c[s]
<1>7. y \in s /\ g[s] = v[y] + g[s \ {y}]
  <2>1. y \in s
    BY <1>4, <1>6 DEF Order
  <2> QED BY <2>1, <1>4, <1>6, Zenon DEF AddsUp
<1> HIDE DEF y
<1>8. \A x \in s : v[x] \in Int /\ g[s \ {x}] \in Int
  <2> TAKE x \in s
  <2>1. s \ {x} \in SUBSET s /\ s \ {x} # s
    OBVIOUS
  <2> QED BY <2>1, <1>4, <1>5
<1>9. g[s] \in Int
  BY <1>7, <1>8
<1>10. ASSUME NEW x \in s, x # y
       PROVE  g[s] = v[x] + g[s \ {x}]
  <2> DEFINE t == s \ {x, y}
  <2>1. /\ s \ {y} \in SUBSET s /\ s \ {y} # s /\ x \in s \ {y} /\ (s \ {y}) \ {x} = t
        /\ s \ {x} \in SUBSET s /\ s \ {x} # s /\ y \in s \ {x} /\ (s \ {x}) \ {y} = t
    BY <1>7, <1>10
  <2> HIDE DEF t
  <2>2. g[s \ {y}] = v[x] + g[t] /\ g[s \ {x}] = v[y] + g[t]
    BY <2>1, <1>5
  <2>3. t \in SUBSET s /\ t # s
    BY <2>1
  <2>4. g[t] \in Int
    BY <2>3, <1>5
  <2> DEFINE a == v[x]
             b == v[y]
             d == g[t]
  <2>5. a \in Int /\ b \in Int /\ d \in Int
    BY <2>4, <1>7, <1>8
  <2>6. g[s] = b + (a + d) /\ v[x] + g[s \ {x}] = a + (b + d)
    BY <2>2, <1>7, Zenon
  <2> HIDE DEF a, b, d
  <2>7. b + (a + d) = a + (b + d)
    BY <2>5
  <2> QED BY <2>6, <2>7, Zenon
<1> QED BY <1>4, <1>7, <1>9, <1>10, Zenon

\* SumFunctionOnSet: the order is the one CHOOSE makes.
Chosen(S) == [s \in SUBSET S |-> CHOOSE x \in s : TRUE]

\* What it chooses from a subset.
LEMMA ChosenOf ==
  ASSUME NEW S, NEW s \in SUBSET S
  PROVE  Chosen(S)[s] = CHOOSE x \in s : TRUE
BY DEF Chosen

\* The library's sum is one that AddsUp, in that order.
LEMMA SumFunctionIsSum ==
  ASSUME NEW S, IsFiniteSet(S), NEW v
  PROVE  \E g : AddsUp(g, v, Chosen(S), S) /\ SumFunctionOnSet(v, S) = g[S]
<1> DEFINE pick(s) == CHOOSE x \in s : TRUE
           Body(g) == [s \in SUBSET S |->
                         IF s = {} THEN 0 ELSE v[pick(s)] + g[s \ {pick(s)}]]
           iter == CHOOSE g : g = Body(g)
<1>1. SumFunctionOnSet(v, S) = iter[S]
  BY Zenon DEF SumFunctionOnSet, FoldFunctionOnSet, MapThenFoldSet
<1>2. Order(Chosen(S), S)
  BY Zenon DEF Order, Chosen
<1>3. PICK g : AddsUp(g, v, Chosen(S), S)
  BY <1>2, SumExists
<1>4. \A f : Body(f) = [s \in SUBSET S |-> IF s = {} THEN 0
                         ELSE v[Chosen(S)[s]] + f[s \ {Chosen(S)[s]}]]
  <2> TAKE f
  <2>1. \A s \in SUBSET S : Chosen(S)[s] = pick(s)
    BY ChosenOf, Zenon
  <2> HIDE DEF pick
  <2>2. \A s \in SUBSET S :
          (IF s = {} THEN 0 ELSE v[pick(s)] + f[s \ {pick(s)}])
          = IF s = {} THEN 0 ELSE v[Chosen(S)[s]] + f[s \ {Chosen(S)[s]}]
    BY <2>1, Zenon
  <2> QED BY <2>2, Zenon
<1>5. g = Body(g)
  BY <1>3, <1>4, Zenon DEF AddsUp
<1>6. iter = Body(iter)
  BY <1>5, Zenon
<1>7. AddsUp(iter, v, Chosen(S), S)
  BY <1>4, <1>6, Zenon DEF AddsUp
<1> QED BY <1>1, <1>7, Zenon

\* The sum over a subset, from the sums over the subsets of S.
LEMMA SumFunctionOfSubset ==
  ASSUME NEW S, IsFiniteSet(S), NEW T \in SUBSET S, NEW v,
         NEW g, AddsUp(g, v, Chosen(S), S)
  PROVE  SumFunctionOnSet(v, T) = g[T]
<1> DEFINE c == Chosen(S)
<1>1. Order(c, S)
  BY Zenon DEF Order, Chosen
<1>2. IsFiniteSet(T)
  BY FS_Subset
<1>3. PICK h : AddsUp(h, v, Chosen(T), T) /\ SumFunctionOnSet(v, T) = h[T]
  BY <1>2, SumFunctionIsSum
<1>4. \A s \in SUBSET T : Chosen(T)[s] = c[s]
  <2> TAKE s \in SUBSET T
  <2>1. s \in SUBSET S
    OBVIOUS
  <2> DEFINE x == CHOOSE x \in s : TRUE
  <2>2. Chosen(T)[s] = x
    BY ChosenOf
  <2>3. Chosen(S)[s] = x
    BY <2>1, ChosenOf
  <2> QED BY <2>2, <2>3
<1>5. AddsUp(g, v, c, S)
  OBVIOUS
<1> HIDE DEF c
<1>6. AddsUp(h, v, c, T)
  <2>1. \A s \in SUBSET T :
          (IF s = {} THEN 0 ELSE v[Chosen(T)[s]] + h[s \ {Chosen(T)[s]}])
          = IF s = {} THEN 0 ELSE v[c[s]] + h[s \ {c[s]}]
    BY <1>4, Zenon
  <2> QED BY <1>3, <2>1, Zenon DEF AddsUp
<1>7. \A s \in SUBSET T : g[s] = h[s]
  BY <1>1, <1>5, <1>6, SumsAgree
<1> QED BY <1>3, <1>7

\* What the proofs use of SumFunctionOnSet.
LEMMA SumSplits ==
  ASSUME NEW S, IsFiniteSet(S), NEW v, \A x \in S : v[x] \in Int
  PROVE  /\ SumFunctionOnSet(v, {}) = 0
         /\ SumFunctionOnSet(v, S) \in Int
         /\ \A x \in S : SumFunctionOnSet(v, S) = v[x] + SumFunctionOnSet(v, S \ {x})
<1> DEFINE c == Chosen(S)
<1>1. Order(c, S)
  BY Zenon DEF Order, Chosen
<1>2. PICK g : AddsUp(g, v, c, S)
  BY SumFunctionIsSum
<1>3. \A T \in SUBSET S : SumFunctionOnSet(v, T) = g[T]
  BY <1>2, SumFunctionOfSubset
<1> HIDE DEF c
<1>4. /\ g[{}] = 0
      /\ \A s \in SUBSET S : g[s] \in Int /\ \A x \in s : g[s] = v[x] + g[s \ {x}]
  BY <1>1, <1>2, SplitOff
<1>5. {} \in SUBSET S /\ S \in SUBSET S /\ \A x \in S : S \ {x} \in SUBSET S
  OBVIOUS
<1> QED BY <1>3, <1>4, <1>5, Zenon

\* b takes the terms v over S to the terms w over T, one to one.
Reindexes(b, v, S, w, T) ==
  /\ \A x \in S : b[x] \in T /\ w[b[x]] = v[x]
  /\ \A x, y \in S : b[x] = b[y] => x = y
  /\ \A z \in T : \E x \in S : b[x] = z

\* A sum does not depend on how its terms are indexed.
LEMMA SumReindexed ==
  ASSUME NEW S, IsFiniteSet(S), NEW v, \A x \in S : v[x] \in Int,
         NEW T, IsFiniteSet(T), NEW w, NEW b, Reindexes(b, v, S, w, T)
  PROVE  SumFunctionOnSet(v, S) = SumFunctionOnSet(w, T)
<1> DEFINE image(s) == {b[x] : x \in s}
           Bad == {s \in SUBSET S : SumFunctionOnSet(v, s) # SumFunctionOnSet(w, image(s))}
<1>0. /\ \A x \in S : b[x] \in T /\ w[b[x]] = v[x]
      /\ \A x, y \in S : b[x] = b[y] => x = y
      /\ \A z \in T : \E x \in S : b[x] = z
  BY DEF Reindexes
<1>1. image(S) = T
  <2>1. \A z \in T : z \in image(S)
    BY <1>0
  <2>2. \A z \in image(S) : z \in T
    BY <1>0
  <2> QED BY <2>1, <2>2, Zenon
<1> SUFFICES ASSUME Bad # {} PROVE FALSE
  BY <1>1, Zenon
<1>2. Bad \in SUBSET (SUBSET S)
  BY Zenon
<1> HIDE DEF Bad
<1>3. PICK s \in Bad : \A t \in SUBSET s : t # s => t \notin Bad
  BY <1>2, MinimalSubset
<1>4. s \in SUBSET S /\ SumFunctionOnSet(v, s) # SumFunctionOnSet(w, image(s))
  BY <1>3, Zenon DEF Bad
<1>5. IsFiniteSet(s) /\ \A x \in s : v[x] \in Int
  BY <1>4, FS_Subset
<1>6. IsFiniteSet(image(s))
  <2>1. image(s) \subseteq T
    BY <1>0, <1>4
  <2> QED BY <2>1, FS_Subset
<1>7. \A z \in image(s) : w[z] \in Int
  BY <1>0, <1>4
<1> HIDE DEF image
<1>8. CASE s = {}
  <2>1. image(s) = {}
    BY <1>8 DEF image
  <2>2. SumFunctionOnSet(v, {}) = 0 /\ SumFunctionOnSet(w, {}) = 0
    BY <1>5, <1>6, <1>7, SumSplits
  <2> QED BY <1>4, <1>8, <2>1, <2>2
<1>9. CASE s # {}
  <2>1. PICK x \in s : TRUE
    BY <1>9
  <2> DEFINE t == s \ {x}
             z == b[x]
  <2>2. z \in image(s) /\ w[z] = v[x]
    BY <1>0, <1>4 DEF image
  <2>3. image(t) = image(s) \ {z}
    <3>1. \A y \in s : b[y] = z => y = x
      BY <1>0, <1>4
    <3>2. \A y \in t : b[y] \in image(s) /\ b[y] # z
      BY <3>1 DEF image
    <3>3. \A y \in s : b[y] # z => y \in t
      OBVIOUS
    <3> HIDE DEF z, t
    <3>4. \A q \in image(t) : q \in image(s) \ {z}
      BY <3>2 DEF image
    <3>5. \A q \in image(s) \ {z} : q \in image(t)
      BY <3>3 DEF image
    <3> QED BY <3>4, <3>5
  <2>4. t \in SUBSET s /\ t # s /\ t \in SUBSET S
    BY <1>4
  <2> HIDE DEF t, z
  <2>5. SumFunctionOnSet(v, t) = SumFunctionOnSet(w, image(t))
    BY <2>4, <1>3, Zenon DEF Bad
  <2>6. SumFunctionOnSet(v, s) = v[x] + SumFunctionOnSet(v, t)
    BY <1>5, SumSplits DEF t
  <2>7. SumFunctionOnSet(w, image(s)) = w[z] + SumFunctionOnSet(w, image(s) \ {z})
    BY <1>6, <1>7, <2>2, SumSplits
  <2> QED BY <1>4, <2>2, <2>3, <2>5, <2>6, <2>7, Zenon
<1> QED BY <1>8, <1>9

\* Sums keep an inequality between the terms.
LEMMA SumScaled ==
  ASSUME NEW S, IsFiniteSet(S), NEW v, NEW w, NEW m \in Int, NEW n \in Int,
         \A x \in S : v[x] \in Int /\ w[x] \in Int /\ v[x] * m <= n * w[x]
  PROVE  SumFunctionOnSet(v, S) * m <= n * SumFunctionOnSet(w, S)
<1> DEFINE V(s) == SumFunctionOnSet(v, s)
           W(s) == SumFunctionOnSet(w, s)
           Bad == {s \in SUBSET S : ~(V(s) * m <= n * W(s))}
<1> SUFFICES ASSUME Bad # {} PROVE FALSE
  BY Zenon
<1>2. Bad \in SUBSET (SUBSET S)
  BY Zenon
<1> HIDE DEF Bad
<1>3. PICK s \in Bad : \A t \in SUBSET s : t # s => t \notin Bad
  BY <1>2, MinimalSubset
<1>4. s \in SUBSET S /\ ~(V(s) * m <= n * W(s))
  BY <1>3, Zenon DEF Bad
<1>5. IsFiniteSet(s) /\ \A x \in s : v[x] \in Int /\ w[x] \in Int
  BY <1>4, FS_Subset
<1>6. /\ V({}) = 0 /\ W({}) = 0
      /\ \A x \in s : V(s) = v[x] + V(s \ {x}) /\ W(s) = w[x] + W(s \ {x})
  BY <1>5, SumSplits
<1>7. \A x \in s : V(s \ {x}) \in Int /\ W(s \ {x}) \in Int
  <2> TAKE x \in s
  <2>1. IsFiniteSet(s \ {x}) /\ \A y \in s \ {x} : v[y] \in Int /\ w[y] \in Int
    BY <1>5, FS_Subset
  <2> QED BY <2>1, SumSplits
<1> HIDE DEF V, W
<1>8. s # {}
  <2>1. 0 * m <= n * 0
    OBVIOUS
  <2> QED BY <2>1, <1>4, <1>6, Zenon
<1>9. PICK x \in s : TRUE
  BY <1>8
<1> DEFINE t == s \ {x}
<1>10. t \in SUBSET s /\ t # s /\ t \in SUBSET S /\ x \in S
  BY <1>4
<1> HIDE DEF t
<1>11. V(t) * m <= n * W(t)
  BY <1>10, <1>3, Zenon DEF Bad
<1> DEFINE a == v[x]
           b == w[x]
           c == V(t)
           d == W(t)
<1>12. /\ a \in Int /\ b \in Int /\ c \in Int /\ d \in Int
       /\ a * m <= n * b /\ c * m <= n * d
       /\ V(s) = a + c /\ W(s) = b + d
  BY <1>5, <1>6, <1>7, <1>10, <1>11 DEF t
<1> HIDE DEF a, b, c, d
<1>13. (a + c) * m = a * m + c * m /\ n * (b + d) = n * b + n * d
  BY <1>12
<1>14. a * m \in Int /\ c * m \in Int /\ n * b \in Int /\ n * d \in Int
  BY <1>12
<1>15. a * m + c * m <= n * b + n * d
  <2> DEFINE p == a * m
             q == c * m
             r == n * b
             u == n * d
  <2>1. p \in Int /\ q \in Int /\ r \in Int /\ u \in Int /\ p <= r /\ q <= u
    BY <1>12, <1>14, Zenon
  <2> HIDE DEF p, q, r, u
  <2>2. p + q <= r + u
    BY <2>1
  <2> QED BY <2>2 DEF p, q, r, u
<1> QED BY <1>4, <1>12, <1>13, <1>15, Zenon

\* Like AddsUp, with the next term on the other side.
AddsLeft(g, v, c, S) ==
  g = [s \in SUBSET S |-> IF s = {} THEN 0 ELSE g[s \ {c[s]}] + v[c[s]]]

\* A fold that takes the terms in the order c, on either side, is the sum.
LEMMA FoldIsSum ==
  ASSUME NEW S, IsFiniteSet(S), NEW v, \A x \in S : v[x] \in Int,
         NEW c, Order(c, S), NEW iter,
         AddsUp(iter, v, c, S) \/ AddsLeft(iter, v, c, S)
  PROVE  iter[S] = SumFunctionOnSet(v, S)
<1> DEFINE V(s) == SumFunctionOnSet(v, s)
           Bad == {s \in SUBSET S : iter[s] # V(s)}
<1>1. V({}) = 0
  BY SumSplits
<1>2. \A s \in SUBSET S : V(s) \in Int /\ \A x \in s : V(s) = v[x] + V(s \ {x})
  <2>1. ASSUME NEW s \in SUBSET S
        PROVE  IsFiniteSet(s) /\ \A x \in s : v[x] \in Int
    BY FS_Subset
  <2> QED BY <2>1, SumSplits, Zenon
<1> HIDE DEF V
<1> SUFFICES ASSUME Bad # {} PROVE FALSE
  <2>1. S \in SUBSET S
    OBVIOUS
  <2> QED BY <2>1, Zenon DEF V
<1>3. Bad \in SUBSET (SUBSET S)
  OBVIOUS
<1> HIDE DEF Bad
<1>4. PICK s \in Bad : \A t \in SUBSET s : t # s => t \notin Bad
  BY <1>3, MinimalSubset
<1>5. s \in SUBSET S /\ iter[s] # V(s)
  BY <1>4, Zenon DEF Bad
<1>6. s # {}
  <2> SUFFICES ASSUME s = {} PROVE iter[s] = 0
    BY <1>1, <1>5, Zenon
  <2>1. CASE AddsUp(iter, v, c, S)
    BY <2>1, <1>5, Zenon DEF AddsUp
  <2>2. CASE AddsLeft(iter, v, c, S)
    BY <2>2, <1>5, Zenon DEF AddsLeft
  <2> QED BY <2>1, <2>2
<1> DEFINE x == c[s]
           t == s \ {x}
<1>7. x \in s
  BY <1>5, <1>6, Zenon DEF Order
<1>8. t \in SUBSET s /\ t # s /\ t \in SUBSET S
  BY <1>5, <1>7
<1>9. iter[s] = v[x] + iter[t] \/ iter[s] = iter[t] + v[x]
  <2>1. CASE AddsUp(iter, v, c, S)
    BY <2>1, <1>5, <1>6, Zenon DEF AddsUp
  <2>2. CASE AddsLeft(iter, v, c, S)
    BY <2>2, <1>5, <1>6, Zenon DEF AddsLeft
  <2> QED BY <2>1, <2>2
<1>10. V(s) = v[x] + V(t) /\ V(t) \in Int /\ v[x] \in Int
  BY <1>2, <1>5, <1>7, <1>8
<1> HIDE DEF x, t
<1>11. iter[t] = V(t)
  BY <1>4, <1>8, Zenon DEF Bad
<1> QED BY <1>5, <1>9, <1>10, <1>11

\* Such folds exist: the recursive definitions of the library have a solution.
LEMMA FoldExists ==
  ASSUME NEW S, IsFiniteSet(S), NEW v, \A x \in S : v[x] \in Int, NEW c, Order(c, S)
  PROVE  (\E g : AddsUp(g, v, c, S)) /\ (\E g : AddsLeft(g, v, c, S))
<1>1. PICK g : AddsUp(g, v, c, S)
  BY SumExists
<1>2. g = [s \in SUBSET S |-> IF s = {} THEN 0 ELSE v[c[s]] + g[s \ {c[s]}]]
  BY <1>1, Zenon DEF AddsUp
<1>3. \A s \in SUBSET S : g[s] \in Int
  BY <1>1, SplitOff
<1>4. ASSUME NEW s \in SUBSET S, s # {}
      PROVE  v[c[s]] + g[s \ {c[s]}] = g[s \ {c[s]}] + v[c[s]]
  <2>1. c[s] \in S /\ s \ {c[s]} \in SUBSET S
    BY <1>4 DEF Order
  <2>2. v[c[s]] \in Int /\ g[s \ {c[s]}] \in Int
    BY <2>1, <1>3
  <2> QED BY <2>2
<1>5. \A s \in SUBSET S :
        (IF s = {} THEN 0 ELSE v[c[s]] + g[s \ {c[s]}])
        = IF s = {} THEN 0 ELSE g[s \ {c[s]}] + v[c[s]]
  BY <1>4, Zenon
<1>6. AddsLeft(g, v, c, S)
  BY <1>2, <1>5, Zenon DEF AddsLeft
<1> QED BY <1>1, <1>6, Zenon

-----------------------------------------------------------------------------
(* Sums of lists of numbers. *)

\* u is the list v of length n without its entry i.
Without(u, v, n, i) ==
  \A j \in 1 .. n - 1 : u[j] = IF j < i THEN v[j] ELSE v[j + 1]

\* Taking one number out takes it from the sum.
LEMMA SumWithout ==
  ASSUME NEW n \in Nat, NEW v, \A j \in 1 .. n : v[j] \in Int, NEW i \in 1 .. n,
         NEW u, Without(u, v, n, i)
  PROVE  SumFunctionOnSet(v, 1 .. n) = v[i] + SumFunctionOnSet(u, 1 .. n - 1)
<1> DEFINE S == 1 .. n - 1
           T == (1 .. n) \ {i}
           b == [j \in S |-> IF j < i THEN j ELSE j + 1]
<1>1. IsFiniteSet(1 .. n) /\ IsFiniteSet(S)
  BY FS_Interval
<1>2. SumFunctionOnSet(v, 1 .. n) = v[i] + SumFunctionOnSet(v, T)
  <2> DEFINE R == 1 .. n
  <2>1. IsFiniteSet(R) /\ i \in R /\ \A j \in R : v[j] \in Int
    BY <1>1
  <2> HIDE DEF R
  <2>2. SumFunctionOnSet(v, R) = v[i] + SumFunctionOnSet(v, R \ {i})
    BY <2>1, SumSplits, Zenon
  <2> QED BY <2>2 DEF R
<1>3. \A x \in S : b[x] = IF x < i THEN x ELSE x + 1
  BY Zenon
<1> HIDE DEF b
<1>4. \A x \in S : b[x] \in T /\ v[b[x]] = u[x] /\ u[x] \in Int
  <2> TAKE x \in S
  <2>1. CASE x < i
    BY <2>1, <1>3 DEF Without
  <2>2. CASE ~(x < i)
    BY <2>2, <1>3 DEF Without
  <2> QED BY <2>1, <2>2
<1>5. \A x, y \in S : b[x] = b[y] => x = y
  BY <1>3
<1>6. \A z \in T : \E x \in S : b[x] = z
  <2> TAKE z \in T
  <2>1. CASE z < i
    <3>1. z \in S /\ b[z] = z
      BY <2>1, <1>3
    <3> QED BY <3>1
  <2>2. CASE ~(z < i)
    <3>1. z - 1 \in S /\ b[z - 1] = z
      BY <2>2, <1>3
    <3> QED BY <3>1
  <2> QED BY <2>1, <2>2
<1>7. Reindexes(b, u, S, v, T) /\ \A x \in S : u[x] \in Int
  BY <1>4, <1>5, <1>6, Zenon DEF Reindexes
<1>8. IsFiniteSet(T)
  BY <1>1, FS_Subset
<1> HIDE DEF S, T
<1>9. SumFunctionOnSet(u, S) = SumFunctionOnSet(v, T)
  BY <1>1, <1>7, <1>8, SumReindexed
<1> QED BY <1>2, <1>9 DEF S

\* Changing one number changes the sum by as much.
LEMMA SumChanged ==
  ASSUME NEW n \in Nat, NEW v, \A j \in 1 .. n : v[j] \in Int, NEW i \in 1 .. n,
         NEW u, u[i] \in Int, \A j \in 1 .. n : j # i => u[j] = v[j]
  PROVE  SumFunctionOnSet(u, 1 .. n) = SumFunctionOnSet(v, 1 .. n) + (u[i] - v[i])
<1> DEFINE S == 1 .. n
           T == S \ {i}
           b == [x \in T |-> x]
<1>1. IsFiniteSet(S) /\ IsFiniteSet(T) /\ \A j \in S : u[j] \in Int
  <2>1. IsFiniteSet(S)
    BY FS_Interval
  <2>2. T \subseteq S
    OBVIOUS
  <2> QED BY <2>1, <2>2, FS_Subset
<1>2. /\ SumFunctionOnSet(u, S) = u[i] + SumFunctionOnSet(u, T)
      /\ SumFunctionOnSet(v, S) = v[i] + SumFunctionOnSet(v, T)
  <2>1. i \in S /\ \A j \in S : v[j] \in Int
    OBVIOUS
  <2> HIDE DEF S
  <2> QED BY <1>1, <2>1, SumSplits, Zenon
<1>3. SumFunctionOnSet(v, T) \in Int
  <2>1. \A j \in T : v[j] \in Int
    OBVIOUS
  <2> HIDE DEF T
  <2> QED BY <1>1, <2>1, SumSplits, Zenon
<1>4. SumFunctionOnSet(u, T) = SumFunctionOnSet(v, T)
  <2>1. \A x \in T : b[x] = x
    BY Zenon
  <2> HIDE DEF b
  <2>2. \A x \in T : u[x] \in Int /\ b[x] \in T /\ v[b[x]] = u[x]
    BY <2>1, <1>1
  <2>3. \A x, y \in T : b[x] = b[y] => x = y
    BY <2>1
  <2>4. \A z \in T : \E x \in T : b[x] = z
    BY <2>1
  <2>5. Reindexes(b, u, T, v, T) /\ \A x \in T : u[x] \in Int
    BY <2>2, <2>3, <2>4, Zenon DEF Reindexes
  <2> HIDE DEF T
  <2> QED BY <1>1, <2>5, SumReindexed
<1>5. v[i] \in Int /\ u[i] \in Int
  OBVIOUS
<1> HIDE DEF S, T
<1>6. SumFunctionOnSet(u, S) = SumFunctionOnSet(v, S) + (u[i] - v[i])
  BY <1>2, <1>3, <1>4, <1>5
<1> QED BY <1>6 DEF S

\* A sum of naturals is a natural and no smaller than any of its terms.
LEMMA SumOfNaturals ==
  ASSUME NEW S, IsFiniteSet(S), NEW v, \A x \in S : v[x] \in Nat
  PROVE  SumFunctionOnSet(v, S) \in Nat /\ \A x \in S : v[x] <= SumFunctionOnSet(v, S)
<1>1. ASSUME NEW T, IsFiniteSet(T), \A x \in T : v[x] \in Nat
      PROVE  SumFunctionOnSet(v, T) \in Nat
  <2> DEFINE z == [x \in T |-> 0]
  <2>1. \A x \in T : z[x] \in Int /\ v[x] \in Int /\ z[x] * 1 <= 1 * v[x] /\ z[x] * 1 <= 0 * v[x]
    BY <1>1
  <2>2. \A x \in T : v[x] \in Int /\ z[x] \in Int /\ v[x] * 0 <= 1 * z[x]
    BY <1>1
  <2> HIDE DEF z
  <2>3. SumFunctionOnSet(v, T) \in Int /\ SumFunctionOnSet(z, T) \in Int
    BY <1>1, <2>1, SumSplits
  <2>4. SumFunctionOnSet(z, T) * 1 <= 1 * SumFunctionOnSet(v, T)
    BY <1>1, <2>1, SumScaled
  <2>5. SumFunctionOnSet(v, T) * 0 <= 1 * SumFunctionOnSet(z, T)
    BY <1>1, <2>2, SumScaled
  <2> QED BY <2>3, <2>4, <2>5
<1>2. ASSUME NEW x \in S
      PROVE  v[x] <= SumFunctionOnSet(v, S)
  <2>1. IsFiniteSet(S \ {x}) /\ \A y \in S \ {x} : v[y] \in Nat
    BY FS_Subset
  <2>2. SumFunctionOnSet(v, S \ {x}) \in Nat
    BY <1>1, <2>1
  <2>3. SumFunctionOnSet(v, S) = v[x] + SumFunctionOnSet(v, S \ {x})
    BY SumSplits
  <2> QED BY <2>2, <2>3
<1> QED BY <1>1, <1>2

\* Leaving terms out makes a sum of naturals no larger.
LEMMA SumOfSubset ==
  ASSUME NEW T, IsFiniteSet(T), NEW w, \A x \in T : w[x] \in Nat, NEW R \in SUBSET T
  PROVE  SumFunctionOnSet(w, R) <= SumFunctionOnSet(w, T)
<1> DEFINE W(s) == SumFunctionOnSet(w, s)
           Bad == {U \in SUBSET (T \ R) : ~(W(R) <= W(R \cup U))}
<1>1. \A s \in SUBSET T : W(s) \in Nat /\ \A x \in s : W(s) = w[x] + W(s \ {x})
  <2> TAKE s \in SUBSET T
  <2>1. IsFiniteSet(s) /\ \A x \in s : w[x] \in Nat /\ w[x] \in Int
    BY FS_Subset
  <2> QED BY <2>1, SumOfNaturals, SumSplits
<1>2. T = R \cup (T \ R)
  OBVIOUS
<1> HIDE DEF W
<1> SUFFICES ASSUME Bad # {} PROVE FALSE
  <2>1. T \ R \in SUBSET (T \ R)
    OBVIOUS
  <2> QED BY <1>2, <2>1, Zenon DEF W
<1>3. Bad \in SUBSET (SUBSET (T \ R)) /\ IsFiniteSet(T \ R)
  BY FS_Subset
<1> HIDE DEF Bad
<1>4. PICK U \in Bad : \A u \in SUBSET U : u # U => u \notin Bad
  BY <1>3, MinimalSubset
<1>5. U \in SUBSET (T \ R) /\ ~(W(R) <= W(R \cup U))
  BY <1>4, Zenon DEF Bad
<1>6. U # {}
  <2> SUFFICES ASSUME U = {} PROVE FALSE
    OBVIOUS
  <2>1. R \cup U = R /\ W(R) \in Nat
    BY <1>1
  <2> QED BY <1>5, <2>1
<1>7. PICK x \in U : TRUE
  BY <1>6
<1> DEFINE u == U \ {x}
<1>8. /\ u \in SUBSET U /\ u # U /\ u \in SUBSET (T \ R)
      /\ x \in R \cup U /\ (R \cup U) \ {x} = R \cup u
      /\ R \cup U \in SUBSET T /\ R \cup u \in SUBSET T /\ x \in T
  BY <1>5
<1> HIDE DEF u
<1>9. W(R) <= W(R \cup u)
  BY <1>4, <1>8, Zenon DEF Bad
<1>10. W(R \cup U) = w[x] + W(R \cup u)
  BY <1>1, <1>8
<1>11. W(R) \in Nat /\ W(R \cup u) \in Nat /\ w[x] \in Nat
  BY <1>1, <1>8
<1> QED BY <1>5, <1>9, <1>10, <1>11

\* b takes the terms v over S to different terms of w over T.
LEMMA SumOfFewer ==
  ASSUME NEW S, IsFiniteSet(S), NEW v,
         NEW T, IsFiniteSet(T), NEW w, \A x \in T : w[x] \in Nat, NEW b,
         \A x \in S : b[x] \in T /\ w[b[x]] = v[x],
         \A x, y \in S : b[x] = b[y] => x = y
  PROVE  SumFunctionOnSet(v, S) <= SumFunctionOnSet(w, T)
<1> DEFINE R == {b[x] : x \in S}
<1>1. R \in SUBSET T /\ IsFiniteSet(R)
  BY FS_Subset
<1>2. Reindexes(b, v, S, w, R)
  BY DEF Reindexes
<1>3. \A x \in S : v[x] \in Int
  OBVIOUS
<1> HIDE DEF R
<1>4. SumFunctionOnSet(v, S) = SumFunctionOnSet(w, R)
  BY <1>1, <1>2, <1>3, SumReindexed
<1>5. SumFunctionOnSet(w, R) <= SumFunctionOnSet(w, T)
  BY <1>1, SumOfSubset
<1> QED BY <1>4, <1>5
=============================================================================
