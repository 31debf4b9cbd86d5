-------------------------------- MODULE Sums --------------------------------
(***************************************************************************)
(* Sums over finite sets, for the proofs that need them.                   *)
(*                                                                         *)
(* The fold of the community modules takes its elements in the order       *)
(* CHOOSE gives them; what is proved here is that the order does not       *)
(* matter, so that a sum changes by what is changed.  Induction over sets  *)
(* is by a smallest counterexample (Smallest), since the induction         *)
(* theorems of the library take an operator.                               *)
(***************************************************************************)
EXTENDS Integers, Functions, FiniteSets, FiniteSetTheorems, WellFoundedInduction, TLAPS

\* What the fold of SumFunctionOnSet is made of: g[s] is the sum of f over s.
Adds(f, S, g) ==
  g = [s \in SUBSET S |-> IF s = {} THEN 0
                          ELSE LET x == CHOOSE y \in s : TRUE IN f[x] + g[s \ {x}]]

\* The element the fold takes first.
First(s) == CHOOSE x \in s : TRUE

\* The sum, unfolded.
LEMMA SumUnfolds ==
  ASSUME NEW f, NEW S
  PROVE  SumFunctionOnSet(f, S) = (CHOOSE g : Adds(f, S, g))[S]
BY Zenon DEF SumFunctionOnSet, FoldFunctionOnSet, MapThenFoldSet, Adds

\* A nonempty set of naturals has a least element.
LEMMA LeastNatural ==
  ASSUME NEW T \in SUBSET Nat, T # {}
  PROVE  \E x \in T : \A y \in T : x <= y
<1> DEFINE less == {p \in Nat \X Nat : p[1] < p[2]}
<1>1. IsWellFoundedOn(less, Nat)
  BY NatLessThanWellFounded DEF OpToRel
<1> HIDE DEF less
<1>2. PICK x \in T : \A y \in T : ~ (<<y, x>> \in less)
  BY <1>1, WFMin
<1>3. ASSUME NEW y \in T PROVE x <= y
  <2>1. y < x => <<y, x>> \in less
    <3>1. <<y, x>> \in Nat \X Nat
      OBVIOUS
    <3> QED BY <3>1 DEF less
  <2> QED BY <1>2, <2>1
<1> QED BY <1>3

\* Of some finite sets, one is not larger than any of its proper subsets among them: there is
\* one none of whose proper subsets is among them.
LEMMA Smallest ==
  ASSUME NEW S, IsFiniteSet(S), NEW bad \in SUBSET SUBSET S, bad # {}
  PROVE  \E s \in bad : \A r \in SUBSET s : r # s => r \notin bad
<1> DEFINE sizes == {Cardinality(s) : s \in bad}
<1>1. \A s \in bad : IsFiniteSet(s) /\ Cardinality(s) \in Nat
  BY FS_Subset, FS_CardinalityType
<1>2. sizes \in SUBSET Nat /\ sizes # {}
  BY <1>1
<1>3. PICK n \in sizes : \A m \in sizes : n <= m
  BY <1>2, LeastNatural
<1>4. PICK s \in bad : n = Cardinality(s)
  BY <1>3
<1>5. ASSUME NEW r \in SUBSET s, r # s, r \in bad PROVE FALSE
  <2>1. Cardinality(r) < Cardinality(s)
    BY <1>1, <1>5, FS_Subset
  <2>2. Cardinality(s) <= Cardinality(r)
    BY <1>3, <1>4, <1>5
  <2> QED
    BY <1>1, <1>5, <2>1, <2>2
<1> QED
  BY <1>4, <1>5

\* What Adds says of the empty set, and of another.
LEMMA AddsNothing ==
  ASSUME NEW S, NEW f, NEW g, Adds(f, S, g)
  PROVE  g[{}] = 0
BY Zenon DEF Adds

LEMMA AddsFirst ==
  ASSUME NEW S, NEW f, NEW g, Adds(f, S, g), NEW s \in SUBSET S, s # {}
  PROVE  g[s] = f[First(s)] + g[s \ {First(s)}]
BY Zenon DEF Adds, First

LEMMA FirstIsIn ==
  ASSUME NEW s, s # {}
  PROVE  First(s) \in s /\ s \ {First(s)} \in SUBSET s /\ s \ {First(s)} # s
BY DEF First

\* The sum over a set is the same whatever larger set it is taken within, and depends on the
\* values at the set alone.
LEMMA Agree ==
  ASSUME NEW S, IsFiniteSet(S), NEW T \in SUBSET S, NEW e, NEW f, \A x \in T : e[x] = f[x],
         NEW g, Adds(f, S, g), NEW h, Adds(e, T, h)
  PROVE  \A s \in SUBSET T : g[s] = h[s]
<1> DEFINE bad == {s \in SUBSET T : g[s] # h[s]}
<1> SUFFICES ASSUME bad # {} PROVE FALSE
  OBVIOUS
<1>1. IsFiniteSet(T)
  BY FS_Subset
<1>2. \A s : s \in bad <=> s \in SUBSET T /\ g[s] # h[s]
  OBVIOUS
<1>3. bad \in SUBSET SUBSET T
  OBVIOUS
<1> HIDE DEF bad
<1>4. PICK s \in bad : \A r \in SUBSET s : r # s => r \notin bad
  BY <1>1, <1>3, Smallest
<1>5. s \in SUBSET S /\ s \in SUBSET T /\ g[s] # h[s]
  BY <1>2
<1>6. CASE s = {}
  <2>1. g[s] = 0 /\ h[s] = 0
    BY <1>6, AddsNothing, Zenon
  <2> QED
    BY <1>5, <2>1
<1>7. CASE s # {}
  <2>1. First(s) \in s /\ s \ {First(s)} \in SUBSET s /\ s \ {First(s)} # s
    BY <1>7, FirstIsIn
  <2>2. g[s] = f[First(s)] + g[s \ {First(s)}]
    BY <1>5, <1>7, AddsFirst
  <2>3. h[s] = e[First(s)] + h[s \ {First(s)}]
    <3>1. s \in SUBSET T
      BY <1>5
    <3> QED
      BY ONLY <3>1, <1>7, Adds(e, T, h), AddsFirst
  <2>4. g[s \ {First(s)}] = h[s \ {First(s)}]
    BY <1>2, <1>4, <1>5, <2>1
  <2> QED
    BY <1>5, <2>1, <2>2, <2>3, <2>4
<1> QED
  BY <1>6, <1>7

\* The function exists for every finite set.
LEMMA AddsExists ==
  ASSUME NEW S, IsFiniteSet(S), NEW f
  PROVE  \E g : Adds(f, S, g)
<1> DEFINE bad == {s \in SUBSET S : ~ \E g : Adds(f, s, g)}
<1> SUFFICES ASSUME bad # {} PROVE FALSE
  OBVIOUS
<1>1. \A s : s \in bad <=> s \in SUBSET S /\ ~ \E g : Adds(f, s, g)
  OBVIOUS
<1>2. bad \in SUBSET SUBSET S
  OBVIOUS
<1> HIDE DEF bad
<1>3. PICK T \in bad : \A r \in SUBSET T : r # T => r \notin bad
  BY <1>2, Smallest
<1>4. T \in SUBSET S /\ ~ \E g : Adds(f, T, g)
  BY <1>1
<1>5. ASSUME NEW r \in SUBSET T, r # T
      PROVE  IsFiniteSet(r) /\ \E g : Adds(f, r, g)
  BY <1>1, <1>3, <1>4, <1>5, FS_Subset
<1> DEFINE G(r) == CHOOSE g : Adds(f, r, g)
           Rest(s) == s \ {First(s)}
           new == [s \in SUBSET T |->
                     IF s = {} THEN 0 ELSE f[First(s)] + SumFunctionOnSet(f, Rest(s))]
<1>6. \A s \in SUBSET T : s # {} => /\ Rest(s) \in SUBSET T /\ Rest(s) # T
                                    /\ Rest(s) \in SUBSET s
  <2>1. \A s \in SUBSET T : s # {} => First(s) \in s
    BY DEF First
  <2> QED
    BY <2>1
<1>7. ASSUME NEW r \in SUBSET T, r # T PROVE Adds(f, r, G(r))
  BY <1>5, <1>7, Zenon
<1>8. \A r \in SUBSET T : r # T => SumFunctionOnSet(f, r) = G(r)[r]
  BY SumUnfolds, Zenon
<1> HIDE DEF G
<1>9. ASSUME NEW r \in SUBSET T, r # T PROVE new[r] = SumFunctionOnSet(f, r)
  <2>1. CASE r = {}
    <3>1. G(r)[r] = 0
      BY <1>7, <1>9, <2>1, AddsNothing, Zenon
    <3> QED
      BY <1>8, <1>9, <2>1, <3>1
  <2>2. CASE r # {}
    <3>1. G(r)[r] = f[First(r)] + G(r)[Rest(r)] /\ Rest(r) \in SUBSET r
      BY <1>7, <1>9, <2>2, AddsFirst
    <3>2. Rest(r) \in SUBSET T /\ Rest(r) # T
      BY <1>6, <1>9, <2>2
    <3> HIDE DEF Rest
    <3>3. IsFiniteSet(r) /\ Adds(f, r, G(r)) /\ Adds(f, Rest(r), G(Rest(r)))
      BY <1>5, <1>7, <1>9, <3>2
    <3>4. G(r)[Rest(r)] = G(Rest(r))[Rest(r)]
      BY <3>1, <3>3, Agree
    <3> QED
      BY <1>8, <1>9, <2>2, <3>1, <3>2, <3>4
  <2> QED
    BY <2>1, <2>2
<1>10. \A s \in SUBSET T : s # {} => new[Rest(s)] = SumFunctionOnSet(f, Rest(s))
  BY <1>6, <1>9
<1> HIDE DEF Rest
<1>11. new = [s \in SUBSET T |-> IF s = {} THEN 0 ELSE f[First(s)] + new[Rest(s)]]
  <2>1. \A s \in SUBSET T : new[s] = IF s = {} THEN 0 ELSE f[First(s)] + SumFunctionOnSet(f, Rest(s))
    OBVIOUS
  <2>2. \A s \in SUBSET T : new[s] = IF s = {} THEN 0 ELSE f[First(s)] + new[Rest(s)]
    BY <1>10, <2>1, Zenon
  <2>3. new = [s \in SUBSET T |-> new[s]]
    BY Zenon
  <2> HIDE DEF new
  <2> QED
    BY <2>2, <2>3
<1>12. Adds(f, T, new)
  <2> HIDE DEF new
  <2> QED
    BY <1>11, Zenon DEF Adds, First, Rest
<1> QED
  BY <1>4, <1>12

-----------------------------------------------------------------------------
(* What a sum is.                                                          *)

\* Whatever adds up f over S ends with its total.
LEMMA AddsToSum ==
  ASSUME NEW S, IsFiniteSet(S), NEW f, NEW g, Adds(f, S, g)
  PROVE  \A s \in SUBSET S : g[s] = SumFunctionOnSet(f, s)
<1> TAKE s \in SUBSET S
<1> DEFINE h == CHOOSE k : Adds(f, s, k)
<1>1. IsFiniteSet(s)
  BY FS_Subset
<1>2. Adds(f, s, h)
  BY <1>1, AddsExists, Zenon
<1>3. SumFunctionOnSet(f, s) = h[s]
  BY SumUnfolds, Zenon
<1> HIDE DEF h
<1>4. g[s] = h[s]
  BY <1>2, Agree
<1> QED
  BY <1>3, <1>4

\* Nothing adds up to nothing.
LEMMA SumOfNothing == \A f : SumFunctionOnSet(f, {}) = 0
<1> TAKE f
<1>1. IsFiniteSet({})
  BY FS_EmptySet
<1>2. PICK g : Adds(f, {}, g)
  BY <1>1, AddsExists
<1>3. g[{}] = 0
  BY <1>2, AddsNothing, Zenon
<1>4. {} \in SUBSET {}
  OBVIOUS
<1> QED
  BY <1>1, <1>2, <1>3, <1>4, AddsToSum

\* The first element, and the rest.
LEMMA SumFirst ==
  ASSUME NEW S, IsFiniteSet(S), S # {}, NEW f
  PROVE  SumFunctionOnSet(f, S) = f[First(S)] + SumFunctionOnSet(f, S \ {First(S)})
<1>1. PICK g : Adds(f, S, g)
  BY AddsExists
<1>2. S \in SUBSET S /\ S \ {First(S)} \in SUBSET S
  OBVIOUS
<1>3. g[S] = f[First(S)] + g[S \ {First(S)}]
  BY ONLY <1>1, <1>2, S # {}, AddsFirst
<1>4. g[S] = SumFunctionOnSet(f, S) /\ g[S \ {First(S)}] = SumFunctionOnSet(f, S \ {First(S)})
  BY <1>1, <1>2, AddsToSum
<1> QED
  BY <1>3, <1>4

\* Integers add up to an integer.
LEMMA SumType ==
  ASSUME NEW S, IsFiniteSet(S), NEW f, \A x \in S : f[x] \in Int
  PROVE  SumFunctionOnSet(f, S) \in Int
<1> DEFINE bad == {s \in SUBSET S : SumFunctionOnSet(f, s) \notin Int}
<1> SUFFICES ASSUME bad # {} PROVE FALSE
  OBVIOUS
<1>1. bad \in SUBSET SUBSET S /\ \A s : s \in bad <=> s \in SUBSET S /\ SumFunctionOnSet(f, s) \notin Int
  OBVIOUS
<1> HIDE DEF bad
<1>2. PICK s \in bad : \A r \in SUBSET s : r # s => r \notin bad
  BY <1>1, Smallest
<1>3. s \in SUBSET S /\ IsFiniteSet(s) /\ SumFunctionOnSet(f, s) \notin Int
  BY <1>1, FS_Subset
<1>4. s # {}
  BY <1>3, SumOfNothing
<1>5. First(s) \in s /\ s \ {First(s)} \in SUBSET s /\ s \ {First(s)} # s
  BY <1>4, FirstIsIn
<1>6. SumFunctionOnSet(f, s) = f[First(s)] + SumFunctionOnSet(f, s \ {First(s)})
  BY <1>3, <1>4, SumFirst
<1>7. SumFunctionOnSet(f, s \ {First(s)}) \in Int
  BY <1>1, <1>2, <1>3, <1>5
<1>8. f[First(s)] \in Int
  BY <1>3, <1>5
<1> QED
  BY <1>3, <1>6, <1>7, <1>8

\* Any element may be taken first.
LEMMA SumRemove ==
  ASSUME NEW S, IsFiniteSet(S), NEW f, \A x \in S : f[x] \in Int, NEW y \in S
  PROVE  SumFunctionOnSet(f, S) = f[y] + SumFunctionOnSet(f, S \ {y})
<1> DEFINE Bad(s) == \E z \in s : SumFunctionOnSet(f, s) # f[z] + SumFunctionOnSet(f, s \ {z})
           bad == {s \in SUBSET S : Bad(s)}
<1> SUFFICES ASSUME Bad(S) PROVE FALSE
  OBVIOUS
<1>1. bad \in SUBSET SUBSET S /\ bad # {} /\ \A s : s \in bad <=> s \in SUBSET S /\ Bad(s)
  OBVIOUS
<1> HIDE DEF bad
<1>2. PICK s \in bad : \A r \in SUBSET s : r # s => r \notin bad
  BY <1>1, Smallest
<1>3. s \in SUBSET S /\ IsFiniteSet(s) /\ Bad(s)
  BY <1>1, FS_Subset
<1>4. PICK z \in s : SumFunctionOnSet(f, s) # f[z] + SumFunctionOnSet(f, s \ {z})
  BY <1>3
<1> DEFINE x == First(s)
           q == s \ {x, z}
<1>5. x \in s /\ SumFunctionOnSet(f, s) = f[x] + SumFunctionOnSet(f, s \ {x})
  BY <1>3, FirstIsIn, SumFirst
<1> HIDE DEF x
<1>6. x # z
  BY <1>4, <1>5
<1>7. \A r \in SUBSET s : r # s => ~Bad(r)
  BY <1>1, <1>2, <1>3
<1>8. SumFunctionOnSet(f, s \ {x}) = f[z] + SumFunctionOnSet(f, q)
  <2>1. z \in s \ {x} /\ s \ {x} \in SUBSET s /\ s \ {x} # s /\ (s \ {x}) \ {z} = q
    BY <1>5, <1>6
  <2>2. ~Bad(s \ {x})
    BY <1>7, <2>1
  <2> QED
    BY <2>1, <2>2
<1>9. SumFunctionOnSet(f, s \ {z}) = f[x] + SumFunctionOnSet(f, q)
  <2>1. x \in s \ {z} /\ s \ {z} \in SUBSET s /\ s \ {z} # s /\ (s \ {z}) \ {x} = q
    BY <1>5, <1>6
  <2>2. ~Bad(s \ {z})
    BY <1>7, <2>1
  <2> QED
    BY <2>1, <2>2
<1>10. f[x] \in Int /\ f[z] \in Int /\ SumFunctionOnSet(f, q) \in Int
  <2>1. q \in SUBSET S /\ IsFiniteSet(q)
    BY <1>3, FS_Subset
  <2> QED
    BY <1>3, <1>5, <2>1, SumType
<1> QED
  BY <1>4, <1>5, <1>8, <1>9, <1>10

-----------------------------------------------------------------------------
(* How a sum changes.                                                      *)

\* A sum depends on what is summed alone.
LEMMA SumCongruent ==
  ASSUME NEW S, IsFiniteSet(S), NEW e, NEW f, \A x \in S : e[x] = f[x]
  PROVE  SumFunctionOnSet(e, S) = SumFunctionOnSet(f, S)
<1>1. PICK g : Adds(f, S, g)
  BY AddsExists
<1>2. PICK h : Adds(e, S, h)
  BY AddsExists
<1>3. S \in SUBSET S
  OBVIOUS
<1>4. \A s \in SUBSET S : g[s] = h[s]
  BY ONLY <1>1, <1>2, <1>3, IsFiniteSet(S), \A x \in S : e[x] = f[x], Agree
<1> QED
  BY <1>1, <1>2, <1>3, <1>4, AddsToSum

\* One more element.
LEMMA SumAdd ==
  ASSUME NEW S, IsFiniteSet(S), NEW y, y \notin S, NEW f, \A x \in S \cup {y} : f[x] \in Int
  PROVE  SumFunctionOnSet(f, S \cup {y}) = SumFunctionOnSet(f, S) + f[y]
<1>1. IsFiniteSet(S \cup {y}) /\ y \in S \cup {y} /\ (S \cup {y}) \ {y} = S
  BY FS_AddElement
<1>2. SumFunctionOnSet(f, S \cup {y}) = f[y] + SumFunctionOnSet(f, S)
  BY <1>1, SumRemove
<1>3. SumFunctionOnSet(f, S) \in Int
  BY SumType
<1> QED
  BY <1>2, <1>3

\* One element's value changed.
LEMMA SumChange ==
  ASSUME NEW S, IsFiniteSet(S), NEW y \in S, NEW e, NEW f,
         \A x \in S : e[x] \in Int /\ f[x] \in Int,
         \A x \in S : x # y => e[x] = f[x]
  PROVE  SumFunctionOnSet(e, S) = SumFunctionOnSet(f, S) + (e[y] - f[y])
<1>1. IsFiniteSet(S \ {y}) /\ S \ {y} \in SUBSET S
  BY FS_Subset
<1>2. SumFunctionOnSet(e, S) = e[y] + SumFunctionOnSet(e, S \ {y}) /\ SumFunctionOnSet(f, S) = f[y] + SumFunctionOnSet(f, S \ {y})
  BY SumRemove
<1>3. SumFunctionOnSet(e, S \ {y}) = SumFunctionOnSet(f, S \ {y})
  BY <1>1, SumCongruent
<1>4. SumFunctionOnSet(f, S \ {y}) \in Int
  BY <1>1, SumType
<1> QED
  BY <1>2, <1>3, <1>4

\* Zeros add up to nothing.
LEMMA SumOfZeros ==
  ASSUME NEW S, IsFiniteSet(S), NEW f, \A x \in S : f[x] = 0
  PROVE  SumFunctionOnSet(f, S) = 0
<1> DEFINE bad == {s \in SUBSET S : SumFunctionOnSet(f, s) # 0}
<1> SUFFICES ASSUME bad # {} PROVE FALSE
  OBVIOUS
<1>1. bad \in SUBSET SUBSET S /\ \A s : s \in bad <=> s \in SUBSET S /\ SumFunctionOnSet(f, s) # 0
  OBVIOUS
<1> HIDE DEF bad
<1>2. PICK s \in bad : \A r \in SUBSET s : r # s => r \notin bad
  BY <1>1, Smallest
<1>3. s \in SUBSET S /\ IsFiniteSet(s) /\ SumFunctionOnSet(f, s) # 0
  BY <1>1, FS_Subset
<1>4. s # {}
  BY <1>3, SumOfNothing
<1>5. First(s) \in s /\ s \ {First(s)} \in SUBSET s /\ s \ {First(s)} # s
  BY <1>4, FirstIsIn
<1>6. SumFunctionOnSet(f, s) = f[First(s)] + SumFunctionOnSet(f, s \ {First(s)})
  BY <1>3, <1>4, SumFirst
<1>7. SumFunctionOnSet(f, s \ {First(s)}) = 0
  BY <1>1, <1>2, <1>3, <1>5
<1>8. f[First(s)] = 0
  BY <1>3, <1>5
<1> QED
  BY <1>3, <1>6, <1>7, <1>8

\* One more element, and a function that says the same of the others.
LEMMA SumExtends ==
  ASSUME NEW S, IsFiniteSet(S), NEW y, y \notin S, NEW e, NEW f,
         \A x \in S \cup {y} : f[x] \in Int,
         \A x \in S : e[x] = f[x]
  PROVE  SumFunctionOnSet(f, S \cup {y}) = SumFunctionOnSet(e, S) + f[y]
<1>1. SumFunctionOnSet(f, S \cup {y}) = SumFunctionOnSet(f, S) + f[y]
  BY SumAdd
<1>2. SumFunctionOnSet(e, S) = SumFunctionOnSet(f, S)
  BY SumCongruent
<1> QED
  BY <1>1, <1>2

\* The sum of two functions is their sums' sum.
LEMMA SumOfBoth ==
  ASSUME NEW S, IsFiniteSet(S), NEW e, NEW f, NEW g,
         \A x \in S : f[x] \in Int /\ g[x] \in Int,
         \A x \in S : e[x] = f[x] + g[x]
  PROVE  SumFunctionOnSet(e, S) = SumFunctionOnSet(f, S) + SumFunctionOnSet(g, S)
<1> DEFINE Both(s) == SumFunctionOnSet(e, s) = SumFunctionOnSet(f, s) + SumFunctionOnSet(g, s)
           bad == {s \in SUBSET S : ~Both(s)}
<1> SUFFICES ASSUME bad # {} PROVE FALSE
  OBVIOUS
<1>1. bad \in SUBSET SUBSET S /\ \A s : s \in bad <=> s \in SUBSET S /\ ~Both(s)
  OBVIOUS
<1> HIDE DEF bad
<1>2. PICK s \in bad : \A r \in SUBSET s : r # s => r \notin bad
  BY <1>1, Smallest
<1>3. s \in SUBSET S /\ IsFiniteSet(s) /\ ~Both(s)
  BY <1>1, FS_Subset
<1>4. s # {}
  BY <1>3, SumOfNothing
<1> DEFINE x == First(s)
           q == s \ {x}
<1>5. x \in s /\ q \in SUBSET s /\ q # s
  BY <1>4, FirstIsIn
<1>6. /\ SumFunctionOnSet(e, s) = e[x] + SumFunctionOnSet(e, q)
      /\ SumFunctionOnSet(f, s) = f[x] + SumFunctionOnSet(f, q)
      /\ SumFunctionOnSet(g, s) = g[x] + SumFunctionOnSet(g, q)
  BY <1>3, <1>4, SumFirst
<1>7. e[x] = f[x] + g[x] /\ f[x] \in Int /\ g[x] \in Int
  BY <1>3, <1>5
<1> HIDE DEF x
<1>8. Both(q)
  BY <1>1, <1>2, <1>3, <1>5
<1>9. SumFunctionOnSet(f, q) \in Int /\ SumFunctionOnSet(g, q) \in Int
  <2>1. IsFiniteSet(q) /\ \A y \in q : f[y] \in Int /\ g[y] \in Int
    BY <1>3, <1>5, FS_Subset
  <2> QED
    BY <2>1, SumType
<1> HIDE DEF q
<1> QED
  BY <1>3, <1>6, <1>7, <1>8, <1>9

\* What is the same everywhere on T and nothing elsewhere adds up to a product.
LEMMA SumOfSame ==
  ASSUME NEW S, IsFiniteSet(S), NEW T \in SUBSET S, NEW k \in Int, NEW f,
         \A x \in S : f[x] = IF x \in T THEN k ELSE 0
  PROVE  SumFunctionOnSet(f, S) = Cardinality(T) * k
<1> DEFINE Product(s) == SumFunctionOnSet(f, s) = Cardinality(s \cap T) * k
           bad == {s \in SUBSET S : ~Product(s)}
<1> SUFFICES ASSUME bad # {} PROVE FALSE
  <2>1. S \cap T = T
    OBVIOUS
  <2> QED
    BY <2>1
<1>1. bad \in SUBSET SUBSET S /\ \A s : s \in bad <=> s \in SUBSET S /\ ~Product(s)
  OBVIOUS
<1> HIDE DEF bad
<1>2. PICK s \in bad : \A r \in SUBSET s : r # s => r \notin bad
  BY <1>1, Smallest
<1>3. s \in SUBSET S /\ IsFiniteSet(s) /\ ~Product(s)
  BY <1>1, FS_Subset
<1>4. s # {}
  <2>1. {} \cap T = {} /\ Cardinality({}) = 0 /\ 0 * k = 0
    BY FS_EmptySet
  <2> QED
    BY <1>3, <2>1, SumOfNothing
<1> DEFINE x == First(s)
           q == s \ {x}
<1>5. x \in s /\ q \in SUBSET s /\ q # s
  BY <1>4, FirstIsIn
<1>6. SumFunctionOnSet(f, s) = f[x] + SumFunctionOnSet(f, q)
  BY <1>3, <1>4, SumFirst
<1> HIDE DEF x
<1>7. Product(q)
  BY <1>1, <1>2, <1>3, <1>5
<1>8. IsFiniteSet(q \cap T) /\ Cardinality(q \cap T) \in Nat
  BY <1>3, <1>5, FS_Subset, FS_CardinalityType
<1>9. CASE x \in T
  <2>1. s \cap T = (q \cap T) \cup {x} /\ x \notin q \cap T
    BY <1>5, <1>9
  <2>2. Cardinality(s \cap T) = Cardinality(q \cap T) + 1
    BY <1>8, <2>1, FS_AddElement
  <2>3. f[x] = k
    BY <1>3, <1>5, <1>9
  <2>4. (Cardinality(q \cap T) + 1) * k = k + Cardinality(q \cap T) * k
    BY <1>8
  <2> HIDE DEF q
  <2> QED
    BY <1>3, <1>6, <1>7, <2>2, <2>3, <2>4
<1>10. CASE x \notin T
  <2>1. s \cap T = q \cap T
    BY <1>5, <1>10
  <2> DEFINE rest == Cardinality(q \cap T) * k
  <2>2. f[x] = 0 /\ rest \in Int
    BY <1>3, <1>5, <1>8, <1>10
  <2>3. SumFunctionOnSet(f, q) = rest
    BY <1>7
  <2> HIDE DEF rest
  <2>4. SumFunctionOnSet(f, s) = rest
    BY <1>6, <2>2, <2>3
  <2> QED
    BY <1>3, <2>1, <2>4 DEF rest
<1> QED
  BY <1>9, <1>10

\* An even share of n parts leaves less than n over.
LEMMA EvenShare ==
  ASSUME NEW a \in Nat, NEW n \in Nat, n > 0
  PROVE  a \div n \in Nat /\ n * (a \div n) <= a /\ a - n * (a \div n) <= n
<1>1. a \div n \in Nat
  OBVIOUS
<1>2. a = n * (a \div n) + (a % n)
  OBVIOUS
<1>3. a % n \in 0..(n - 1)
  OBVIOUS
<1> DEFINE product == n * (a \div n)
<1>4. product \in Int
  BY <1>1
<1>5. a = product + (a % n)
  BY <1>2
<1> HIDE DEF product
<1>6. product <= a /\ a - product <= n
  BY <1>3, <1>4, <1>5
<1> QED
  BY <1>1, <1>6 DEF product
=============================================================================
