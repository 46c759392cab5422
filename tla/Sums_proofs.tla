----------------------------- MODULE Sums_proofs -----------------------------
(***************************************************************************)
(* Lemmas about sums over finite sets.  Induction is by least              *)
(* counterexamples: the provers cannot instantiate a principle whose       *)
(* parameter is a predicate, but one whose parameter is the set of what    *)
(* satisfies it.                                                           *)
(***************************************************************************)
EXTENDS Sums, FiniteSetTheorems, TLAPS

One(s) == CHOOSE x \in s : TRUE

\* g gives the sum of f over each subset of S.
Adds(g, f, S) ==
  g = [s \in SUBSET S |-> IF s = {} THEN 0 ELSE f[One(s)] + g[s \ {One(s)}]]

Adding(f, S) == CHOOSE g : Adds(g, f, S)

LEMMA SumAdds == ASSUME NEW f, NEW S PROVE SumOf(f, S) = Adding(f, S)[S]
BY Zenon DEF SumOf, MapThenSumSet, MapThenFoldSet, Adding, Adds, One

------------------------------------------------------------------------------
(* Induction *)

\* What holds of every subset whose strict subsets it holds of, holds of S.
LEMMA SubsetsInduction ==
  ASSUME NEW S, IsFiniteSet(S), NEW G \in SUBSET SUBSET S,
         \A T \in SUBSET S : (\A U \in SUBSET T : U # T => U \in G) => T \in G
  PROVE  G = SUBSET S
<1> SUFFICES ASSUME (SUBSET S) \ G # {} PROVE FALSE
  OBVIOUS
<1>1. SUBSET S = FiniteSubsetsOf(S)
  BY FS_FiniteSubsetsOfFinite
<1>2. PICK T \in (SUBSET S) \ G :
        \A U \in (SUBSET S) \ G : ~ (<<U, T>> \in StrictSubsetOrdering(S))
  <2>1. IsWellFoundedOn(StrictSubsetOrdering(S), FiniteSubsetsOf(S))
    BY FS_StrictSubsetOrderingWellFounded
  <2>2. PICK B : B = (SUBSET S) \ G
    OBVIOUS
  <2>3. B \subseteq FiniteSubsetsOf(S) /\ B # {}
    BY <1>1, <2>2
  <2>4. \E T \in B : \A U \in B : ~ (<<U, T>> \in StrictSubsetOrdering(S))
    BY <2>1, <2>3, WFMin
  <2> QED
    BY <2>2, <2>4
<1>3. \A U \in SUBSET T : U # T => U \in G
  BY <1>2 DEF StrictSubsetOrdering
<1> QED
  BY <1>2, <1>3

\* Elements are added one by one.
LEMMA ElementsInduction ==
  ASSUME NEW S, IsFiniteSet(S), NEW G \in SUBSET SUBSET S, {} \in G,
         \A T \in SUBSET S : \A x \in T : T \ {x} \in G => T \in G
  PROVE  S \in G
<1>1. ASSUME NEW T \in SUBSET S, \A U \in SUBSET T : U # T => U \in G PROVE T \in G
  <2>1. CASE T = {}
    BY <2>1
  <2>2. CASE T # {}
    <3>1. PICK x \in T : TRUE
      BY <2>2
    <3>2. T \ {x} \in G
      BY <1>1, <3>1
    <3> QED
      BY <3>1, <3>2
  <2> QED
    BY <2>1, <2>2
<1> QED
  BY <1>1, SubsetsInduction

------------------------------------------------------------------------------
(* The recursion has exactly one solution. *)

LEMMA OneIn == ASSUME NEW s, s # {} PROVE One(s) \in s
BY Zenon DEF One

LEMMA AddsParts ==
  ASSUME NEW g, NEW f, NEW S, Adds(g, f, S)
  PROVE  /\ g[{}] = 0
         /\ \A s \in SUBSET S : s # {} => g[s] = f[One(s)] + g[s \ {One(s)}]
BY DEF Adds

LEMMA AddsOne ==
  ASSUME NEW g, NEW f, NEW S, Adds(g, f, S), S # {}
  PROVE  g[S] = f[One(S)] + g[S \ {One(S)}]
<1>1. S \in SUBSET S
  OBVIOUS
<1> QED
  BY <1>1, AddsParts

LEMMA AddsRestricted ==
  ASSUME NEW g, NEW f, NEW S, Adds(g, f, S), NEW U \in SUBSET S
  PROVE  Adds([s \in SUBSET U |-> g[s]], f, U)
<1> DEFINE h == [s \in SUBSET U |-> g[s]]
<1>1. g[{}] = 0 /\ \A s \in SUBSET S : s # {} => g[s] = f[One(s)] + g[s \ {One(s)}]
  BY AddsParts
<1>2. ASSUME NEW s \in SUBSET U
      PROVE  h[s] = IF s = {} THEN 0 ELSE f[One(s)] + h[s \ {One(s)}]
  <2>1. PICK r \in SUBSET U : r = s \ {One(s)}
    OBVIOUS
  <2>2. h[s] = g[s] /\ h[r] = g[r]
    OBVIOUS
  <2>3. s # {} => g[s] = f[One(s)] + g[r]
    BY <1>1, <2>1
  <2> HIDE DEF h
  <2> QED
    BY <1>1, <2>1, <2>2, <2>3
<1>3. h = [s \in SUBSET U |-> h[s]]
  OBVIOUS
<1> HIDE DEF h
<1>4. h = [s \in SUBSET U |-> IF s = {} THEN 0 ELSE f[One(s)] + h[s \ {One(s)}]]
  BY <1>2, <1>3
<1> QED
  BY <1>4 DEF Adds, h

Unique(f, T) ==
  /\ Adds(Adding(f, T), f, T)
  /\ \A g : Adds(g, f, T) => g = Adding(f, T)

LEMMA AddingUnique ==
  ASSUME NEW f, NEW S, IsFiniteSet(S) PROVE \A T \in SUBSET S : Unique(f, T)
<1> DEFINE G == {T \in SUBSET S : Unique(f, T)}
<1>1. ASSUME NEW T \in SUBSET S, \A U \in SUBSET T : U # T => U \in G PROVE T \in G
  <2>1. \A U \in SUBSET T : U # T => Unique(f, U)
    BY <1>1
  <2> HIDE DEF G
  <2>2. ASSUME NEW U \in SUBSET T, NEW g, Adds(g, f, U), NEW V \in SUBSET U, V # T
        PROVE  g[V] = SumOf(f, V)
    <3>1. PICK h : h = [s \in SUBSET V |-> g[s]]
      OBVIOUS
    <3>2. Adds(h, f, V)
      BY <2>2, <3>1, AddsRestricted
    <3>3. h = Adding(f, V)
      BY <2>1, <2>2, <3>2 DEF Unique
    <3>4. h[V] = g[V]
      BY <3>1
    <3> QED
      BY <3>3, <3>4, SumAdds
  <2>3. ASSUME NEW U \in SUBSET T, U # T, U # {}
        PROVE  SumOf(f, U) = f[One(U)] + SumOf(f, U \ {One(U)})
    <3>1. Adds(Adding(f, U), f, U)
      BY <2>1, <2>3 DEF Unique
    <3>2. PICK g : g = Adding(f, U)
      OBVIOUS
    <3>3. Adds(g, f, U)
      BY <3>1, <3>2
    <3>4. g[U] = SumOf(f, U)
      BY <2>2, <2>3, <3>3
    <3>5. g[U \ {One(U)}] = SumOf(f, U \ {One(U)})
      BY <2>2, <2>3, <3>3
    <3>6. g[U] = f[One(U)] + g[U \ {One(U)}]
      BY <2>3, <3>3, AddsOne
    <3> QED
      BY <3>4, <3>5, <3>6
  <2>4. T # {} => SumOf(f, {}) = 0
    <3> SUFFICES ASSUME T # {} PROVE SumOf(f, {}) = 0
      OBVIOUS
    <3>1. Adds(Adding(f, {}), f, {})
      BY <2>1 DEF Unique
    <3>2. PICK g : g = Adding(f, {})
      OBVIOUS
    <3>3. Adds(g, f, {}) /\ g[{}] = SumOf(f, {})
      BY <3>1, <3>2, SumAdds
    <3> QED
      BY <3>3, AddsParts
  <2>5. PICK H : H = [s \in SUBSET T |-> IF s = {} THEN 0
                                         ELSE f[One(s)] + SumOf(f, s \ {One(s)})]
    OBVIOUS
  <2>6. \A s \in SUBSET T : s # T => H[s] = SumOf(f, s)
    BY <2>3, <2>4, <2>5
  <2>7. Adds(H, f, T)
    <3>1. ASSUME NEW s \in SUBSET T, s # {} PROVE H[s] = f[One(s)] + H[s \ {One(s)}]
      <4>1. s \ {One(s)} \in SUBSET T /\ s \ {One(s)} # T
        BY <3>1, OneIn
      <4> QED
        BY <2>5, <2>6, <3>1, <4>1
    <3>2. \A s \in SUBSET T : H[s] = IF s = {} THEN 0 ELSE f[One(s)] + H[s \ {One(s)}]
      BY <2>5, <3>1
    <3>3. H = [s \in SUBSET T |-> H[s]]
      BY <2>5
    <3> QED
      BY <3>2, <3>3 DEF Adds
  <2>8. ASSUME NEW g, Adds(g, f, T) PROVE g = H
    <3>1. \A s \in SUBSET T : g[s] = H[s]
      <4>1. ASSUME NEW s \in SUBSET T PROVE g[s] = H[s]
        <5>1. CASE s # T
          BY <2>2, <2>6, <2>8, <5>1
        <5>2. CASE s = T /\ s = {}
          BY <2>5, <2>8, <5>2, AddsParts
        <5>3. CASE s = T /\ s # {}
          <6>1. PICK r \in SUBSET T : r = s \ {One(s)}
            OBVIOUS
          <6>2. r # T
            BY <5>3, <6>1, OneIn
          <6>3. g[r] = H[r]
            BY <2>2, <2>6, <2>8, <6>2
          <6>4. g[s] = f[One(s)] + g[r]
            BY <2>8, <5>3, <6>1, AddsOne
          <6>5. H[s] = f[One(s)] + H[r]
            BY <2>7, <5>3, <6>1, AddsOne
          <6> QED
            BY <6>3, <6>4, <6>5
        <5> QED
          BY <5>1, <5>2, <5>3
      <4> QED
        BY <4>1
    <3>2. g = [s \in SUBSET T |-> g[s]]
      BY <2>8 DEF Adds
    <3>3. H = [s \in SUBSET T |-> H[s]]
      BY <2>5
    <3> QED
      BY <3>1, <3>2, <3>3
  <2>9. Adds(Adding(f, T), f, T)
    BY <2>7 DEF Adding
  <2>10. \A g : Adds(g, f, T) => g = Adding(f, T)
    BY <2>8, <2>9
  <2> QED
    BY <2>9, <2>10 DEF Unique, G
<1>2. G \in SUBSET SUBSET S
  OBVIOUS
<1>3. G = SUBSET S
  <2> HIDE DEF G
  <2> QED
    BY <1>1, <1>2, SubsetsInduction
<1> QED
  BY <1>3

------------------------------------------------------------------------------
(* Sums of integers *)

\* f gives an integer for each element of S.
Ints(f, S) == \A x \in S : f[x] \in Int

LEMMA SumEmpty == ASSUME NEW f PROVE SumOf(f, {}) = 0
<1>1. {} \in SUBSET {} /\ IsFiniteSet({})
  BY FS_EmptySet
<1>2. Adds(Adding(f, {}), f, {})
  BY <1>1, AddingUnique DEF Unique
<1>3. PICK g : g = Adding(f, {})
  OBVIOUS
<1>4. Adds(g, f, {}) /\ SumOf(f, {}) = g[{}]
  BY <1>2, <1>3, SumAdds
<1> QED
  BY <1>4, AddsParts

LEMMA SumSolved ==
  ASSUME NEW f, NEW S, IsFiniteSet(S), NEW g, Adds(g, f, S), NEW T \in SUBSET S
  PROVE  g[T] = SumOf(f, T)
<1>1. PICK h : h = [s \in SUBSET T |-> g[s]]
  OBVIOUS
<1>2. Adds(h, f, T)
  BY <1>1, AddsRestricted
<1>3. h = Adding(f, T)
  BY <1>2, AddingUnique DEF Unique
<1> QED
  BY <1>1, <1>3, SumAdds

LEMMA SumOne ==
  ASSUME NEW f, NEW S, IsFiniteSet(S), S # {}
  PROVE  SumOf(f, S) = f[One(S)] + SumOf(f, S \ {One(S)})
<1>1. S \in SUBSET S
  OBVIOUS
<1>2. Adds(Adding(f, S), f, S)
  BY <1>1, AddingUnique DEF Unique
<1>3. PICK g : g = Adding(f, S)
  OBVIOUS
<1>4. Adds(g, f, S)
  BY <1>2, <1>3
<1>5. g[S] = SumOf(f, S) /\ g[S \ {One(S)}] = SumOf(f, S \ {One(S)})
  BY <1>4, SumSolved
<1> QED
  BY <1>4, <1>5, AddsOne

LEMMA SumTyped ==
  ASSUME NEW f, NEW S, IsFiniteSet(S), Ints(f, S)
  PROVE  SumOf(f, S) \in Int
<1> DEFINE G == {T \in SUBSET S : SumOf(f, T) \in Int}
<1>1. ASSUME NEW T \in SUBSET S, \A U \in SUBSET T : U # T => U \in G PROVE T \in G
  <2>1. CASE T = {}
    BY <2>1, SumEmpty
  <2>2. CASE T # {}
    <3>1. One(T) \in T /\ IsFiniteSet(T)
      BY <2>2, OneIn, FS_Subset
    <3>2. SumOf(f, T) = f[One(T)] + SumOf(f, T \ {One(T)})
      BY <2>2, <3>1, SumOne
    <3>3. T \ {One(T)} \in G
      BY <1>1, <3>1
    <3>4. f[One(T)] \in Int
      BY <3>1 DEF Ints
    <3> QED
      BY <3>2, <3>3, <3>4
  <2> QED
    BY <2>1, <2>2
<1>2. G \in SUBSET SUBSET S /\ S \in SUBSET S
  OBVIOUS
<1> HIDE DEF G
<1>3. G = SUBSET S
  BY <1>1, <1>2, SubsetsInduction
<1> QED
  BY <1>2, <1>3 DEF G

LEMMA SumRemove ==
  ASSUME NEW f, NEW S, IsFiniteSet(S), Ints(f, S), NEW x \in S
  PROVE  SumOf(f, S) = f[x] + SumOf(f, S \ {x})
<1> DEFINE G == {T \in SUBSET S : \A y \in T : SumOf(f, T) = f[y] + SumOf(f, T \ {y})}
<1>1. ASSUME NEW T \in SUBSET S, \A U \in SUBSET T : U # T => U \in G PROVE T \in G
  <2> SUFFICES ASSUME NEW y \in T PROVE SumOf(f, T) = f[y] + SumOf(f, T \ {y})
    OBVIOUS
  <2>1. PICK o \in T : o = One(T)
    BY OneIn
  <2>2. SumOf(f, T) = f[o] + SumOf(f, T \ {o})
    BY <2>1, SumOne, FS_Subset
  <2>3. CASE y = o
    BY <2>2, <2>3
  <2>4. CASE y # o
    <3>1. SumOf(f, T \ {o}) = f[y] + SumOf(f, (T \ {o}) \ {y})
      <4>1. T \ {o} \in G
        BY <1>1
      <4> QED
        BY <2>4, <4>1
    <3>2. SumOf(f, T \ {y}) = f[o] + SumOf(f, (T \ {y}) \ {o})
      <4>1. T \ {y} \in G
        BY <1>1
      <4> QED
        BY <2>4, <4>1
    <3>3. (T \ {o}) \ {y} = (T \ {y}) \ {o}
      OBVIOUS
    <3>4. PICK r \in Int : r = SumOf(f, (T \ {y}) \ {o})
      BY SumTyped, FS_Subset DEF Ints
    <3>5. SumOf(f, T) = f[o] + (f[y] + r) /\ SumOf(f, T \ {y}) = f[o] + r
      BY <2>2, <3>1, <3>2, <3>3, <3>4
    <3>6. f[y] \in Int /\ f[o] \in Int
      BY DEF Ints
    <3> QED
      BY <3>4, <3>5, <3>6
  <2> QED
    BY <2>3, <2>4
<1>2. G \in SUBSET SUBSET S /\ S \in SUBSET S
  OBVIOUS
<1> HIDE DEF G
<1>3. G = SUBSET S
  BY <1>1, <1>2, SubsetsInduction
<1> QED
  BY <1>2, <1>3 DEF G

LEMMA SumSame ==
  ASSUME NEW f, NEW g, NEW S, IsFiniteSet(S), \A x \in S : f[x] = g[x]
  PROVE  SumOf(f, S) = SumOf(g, S)
<1> DEFINE G == {T \in SUBSET S : SumOf(f, T) = SumOf(g, T)}
<1>1. ASSUME NEW T \in SUBSET S, \A U \in SUBSET T : U # T => U \in G PROVE T \in G
  <2>1. CASE T = {}
    BY <2>1, SumEmpty
  <2>2. CASE T # {}
    <3>1. PICK o \in T : o = One(T)
      BY <2>2, OneIn
    <3>2. T \ {o} \in G
      BY <1>1
    <3>3. /\ SumOf(f, T) = f[o] + SumOf(f, T \ {o})
          /\ SumOf(g, T) = g[o] + SumOf(g, T \ {o})
      BY <3>1, SumOne, FS_Subset
    <3> QED
      BY <3>2, <3>3
  <2> QED
    BY <2>1, <2>2
<1>2. G \in SUBSET SUBSET S /\ S \in SUBSET S
  OBVIOUS
<1> HIDE DEF G
<1>3. G = SUBSET S
  BY <1>1, <1>2, SubsetsInduction
<1> QED
  BY <1>2, <1>3 DEF G

\* The sum without x, and the sum of what is left, when x is taken out of T.
LEMMA SumParts ==
  ASSUME NEW f, NEW S, IsFiniteSet(S), Ints(f, S), NEW T \in SUBSET S, NEW x \in T
  PROVE  /\ SumOf(f, T) = f[x] + SumOf(f, T \ {x})
         /\ f[x] \in Int /\ SumOf(f, T) \in Int /\ SumOf(f, T \ {x}) \in Int
<1>1. IsFiniteSet(T) /\ IsFiniteSet(T \ {x}) /\ Ints(f, T) /\ Ints(f, T \ {x})
  BY FS_Subset DEF Ints
<1>2. f[x] \in Int
  BY DEF Ints
<1> QED
  BY <1>1, <1>2, SumRemove, SumTyped

LEMMA SumAdd ==
  ASSUME NEW f, NEW S, IsFiniteSet(S), Ints(f, S), NEW x, x \notin S, f[x] \in Int
  PROVE  SumOf(f, S \cup {x}) = SumOf(f, S) + f[x]
<1>1. PICK T : T = S \cup {x}
  OBVIOUS
<1>2. IsFiniteSet(T) /\ Ints(f, T) /\ x \in T /\ T \ {x} = S /\ T \in SUBSET T
  BY <1>1, FS_AddElement DEF Ints
<1>3. /\ SumOf(f, T) = f[x] + SumOf(f, T \ {x})
      /\ SumOf(f, T \ {x}) \in Int
  BY <1>2, SumParts
<1>4. PICK a \in Int : a = SumOf(f, S)
  BY <1>2, <1>3
<1>5. SumOf(f, S \cup {x}) = f[x] + a
  BY <1>1, <1>2, <1>3, <1>4
<1> QED
  BY <1>4, <1>5

LEMMA SumMonotone ==
  ASSUME NEW f, NEW g, NEW S, IsFiniteSet(S), Ints(f, S), Ints(g, S),
         \A x \in S : f[x] <= g[x]
  PROVE  SumOf(f, S) <= SumOf(g, S)
<1> DEFINE G == {T \in SUBSET S : SumOf(f, T) <= SumOf(g, T)}
<1>1. {} \in G
  BY SumEmpty
<1>2. ASSUME NEW T \in SUBSET S, NEW x \in T, T \ {x} \in G PROVE T \in G
  <2>1. /\ SumOf(f, T) = f[x] + SumOf(f, T \ {x})
        /\ f[x] \in Int /\ SumOf(f, T \ {x}) \in Int
    BY SumParts
  <2>2. /\ SumOf(g, T) = g[x] + SumOf(g, T \ {x})
        /\ g[x] \in Int /\ SumOf(g, T \ {x}) \in Int
    BY SumParts
  <2>3. f[x] <= g[x] /\ SumOf(f, T \ {x}) <= SumOf(g, T \ {x})
    BY <1>2
  <2> HIDE DEF G
  <2>4. SumOf(f, T) <= SumOf(g, T)
    BY <2>1, <2>2, <2>3
  <2> QED
    BY <2>4 DEF G
<1>3. G \in SUBSET SUBSET S
  OBVIOUS
<1> HIDE DEF G
<1>4. S \in G
  BY <1>1, <1>2, <1>3, ElementsInduction
<1> QED
  BY <1>4 DEF G

LEMMA SumZero ==
  ASSUME NEW f, NEW S, IsFiniteSet(S), \A x \in S : f[x] = 0
  PROVE  SumOf(f, S) = 0
<1> DEFINE G == {T \in SUBSET S : SumOf(f, T) = 0}
<1>1. {} \in G
  BY SumEmpty
<1>2. ASSUME NEW T \in SUBSET S, NEW x \in T, T \ {x} \in G PROVE T \in G
  <2>1. SumOf(f, T) = f[x] + SumOf(f, T \ {x})
    BY SumParts DEF Ints
  <2>2. f[x] = 0 /\ SumOf(f, T \ {x}) = 0
    BY <1>2
  <2> QED
    BY <2>1, <2>2
<1>3. G \in SUBSET SUBSET S
  OBVIOUS
<1> HIDE DEF G
<1>4. S \in G
  BY <1>1, <1>2, <1>3, ElementsInduction
<1> QED
  BY <1>4 DEF G

LEMMA SumNatural ==
  ASSUME NEW f, NEW S, IsFiniteSet(S), \A x \in S : f[x] \in Nat
  PROVE  SumOf(f, S) \in Nat
<1>1. PICK g : g = [x \in S |-> 0]
  OBVIOUS
<1>2. Ints(f, S) /\ Ints(g, S) /\ \A x \in S : g[x] <= f[x]
  BY <1>1 DEF Ints
<1>3. SumOf(g, S) = 0
  BY <1>1, SumZero
<1>4. SumOf(g, S) <= SumOf(f, S) /\ SumOf(f, S) \in Int
  BY <1>2, SumMonotone, SumTyped
<1> QED
  BY <1>3, <1>4

LEMMA SumUnion ==
  ASSUME NEW f, NEW S, NEW U, IsFiniteSet(S), IsFiniteSet(U), Ints(f, S), Ints(f, U),
         S \cap U = {}
  PROVE  SumOf(f, S \cup U) = SumOf(f, S) + SumOf(f, U)
<1> DEFINE G == {T \in SUBSET S : SumOf(f, T \cup U) = SumOf(f, T) + SumOf(f, U)}
<1>1. SumOf(f, U) \in Int
  BY SumTyped
<1>2. {} \in G
  <2>1. SumOf(f, {}) = 0 /\ {} \cup U = U
    BY SumEmpty
  <2> QED
    BY <1>1, <2>1
<1>3. ASSUME NEW T \in SUBSET S, NEW x \in T, T \ {x} \in G PROVE T \in G
  <2> HIDE DEF G
  <2>1. PICK a \in Int :
          SumOf(f, T) = f[x] + a /\ f[x] \in Int /\ a = SumOf(f, T \ {x})
    <3>1. SumOf(f, T) = f[x] + SumOf(f, T \ {x})
      BY SumParts
    <3>2. f[x] \in Int /\ SumOf(f, T \ {x}) \in Int
      BY SumParts
    <3> QED
      BY <3>1, <3>2
  <2>2. PICK V : V = T \cup U
    OBVIOUS
  <2>3. IsFiniteSet(S \cup U) /\ Ints(f, S \cup U) /\ V \in SUBSET (S \cup U) /\ x \in V
    BY <2>2, FS_Union DEF Ints
  <2>4. SumOf(f, V) = f[x] + SumOf(f, V \ {x})
    BY <2>3, SumParts
  <2>5. V \ {x} = (T \ {x}) \cup U
    BY <2>2
  <2>6. SumOf(f, (T \ {x}) \cup U) = SumOf(f, T \ {x}) + SumOf(f, U)
    BY <1>3 DEF G
  <2>7. PICK b \in Int : b = SumOf(f, U)
    BY <1>1
  <2>8. SumOf(f, V) = f[x] + (a + b)
    BY <2>1, <2>4, <2>5, <2>6, <2>7
  <2>9. SumOf(f, V) = SumOf(f, T) + b
    BY <2>1, <2>8
  <2> QED
    BY <2>2, <2>7, <2>9 DEF G
<1>4. G \in SUBSET SUBSET S
  OBVIOUS
<1> HIDE DEF G
<1>5. S \in G
  BY <1>2, <1>3, <1>4, ElementsInduction
<1> QED
  BY <1>5 DEF G

LEMMA SumSubset ==
  ASSUME NEW f, NEW S, IsFiniteSet(S), \A x \in S : f[x] \in Nat, NEW T \in SUBSET S
  PROVE  SumOf(f, T) <= SumOf(f, S)
<1>1. /\ IsFiniteSet(T) /\ IsFiniteSet(S \ T) /\ Ints(f, T) /\ Ints(f, S \ T)
      /\ T \cap (S \ T) = {} /\ T \cup (S \ T) = S
  BY FS_Subset DEF Ints
<1>2. SumOf(f, S) = SumOf(f, T) + SumOf(f, S \ T)
  BY <1>1, SumUnion
<1>3. SumOf(f, T) \in Nat /\ SumOf(f, S \ T) \in Nat
  BY <1>1, SumNatural
<1> QED
  BY <1>2, <1>3

------------------------------------------------------------------------------
(* Sums by group *)

Group(k, S, c) == {x \in S : k[x] = c}

\* The sums of f over the groups of S that k forms
Sums(f, k, S, C) == [c \in C |-> SumOf(f, Group(k, S, c))]

\* They add up to the sum over all that are in one of the groups: GROUP BY.
THEOREM SumOfGroups ==
  ASSUME NEW f, NEW k, NEW S, NEW C, IsFiniteSet(S), IsFiniteSet(C), Ints(f, S),
         \A x \in S : k[x] \in C
  PROVE  SumOf(Sums(f, k, S, C), C) = SumOf(f, S)
<1> DEFINE Some(D) == {x \in S : k[x] \in D}
           G == {D \in SUBSET C : SumOf(Sums(f, k, S, C), D) = SumOf(f, Some(D))}
<1>1. PICK g : g = Sums(f, k, S, C)
  OBVIOUS
<1>2. ASSUME NEW D, D \subseteq S PROVE IsFiniteSet(D) /\ Ints(f, D) /\ SumOf(f, D) \in Int
  BY <1>2, FS_Subset, SumTyped DEF Ints
<1>3. \A c \in C : g[c] = SumOf(f, Group(k, S, c)) /\ g[c] \in Int
  BY <1>1, <1>2 DEF Sums, Group
<1>4. {} \in G
  <2>1. Some({}) = {}
    OBVIOUS
  <2> QED
    BY <2>1, SumEmpty
<1>5. ASSUME NEW D \in SUBSET C, NEW c \in D, D \ {c} \in G PROVE D \in G
  <2>1. SumOf(g, D) = g[c] + SumOf(g, D \ {c}) /\ SumOf(g, D \ {c}) \in Int
    <3>1. Ints(g, C)
      BY <1>3 DEF Ints
    <3> HIDE DEF G, Some
    <3> QED
      BY <3>1, SumParts
  <2>2. /\ Some(D) = Group(k, S, c) \cup Some(D \ {c})
        /\ Group(k, S, c) \cap Some(D \ {c}) = {}
        /\ Group(k, S, c) \subseteq S /\ Some(D \ {c}) \subseteq S
    BY DEF Group
  <2>3. SumOf(g, D \ {c}) = SumOf(f, Some(D \ {c}))
    BY <1>1, <1>5
  <2> HIDE DEF G, Some
  <2>4. SumOf(f, Some(D)) = SumOf(f, Group(k, S, c)) + SumOf(f, Some(D \ {c}))
    <3>1. PICK A, B : A = Group(k, S, c) /\ B = Some(D \ {c})
      OBVIOUS
    <3>2. IsFiniteSet(A) /\ IsFiniteSet(B) /\ Ints(f, A) /\ Ints(f, B) /\ A \cap B = {}
      BY <1>2, <2>2, <3>1
    <3> QED
      BY <2>2, <3>1, <3>2, SumUnion
  <2>5. SumOf(g, D) = SumOf(f, Some(D))
    BY <1>3, <2>1, <2>3, <2>4
  <2> QED
    BY <1>1, <2>5 DEF G
<1>6. G \in SUBSET SUBSET C /\ Some(C) = S
  OBVIOUS
<1> HIDE DEF G
<1>7. C \in G
  BY <1>4, <1>5, <1>6, ElementsInduction
<1> QED
  BY <1>6, <1>7 DEF G

------------------------------------------------------------------------------
(* Maxima *)

LEMMA MaxOfFinite ==
  ASSUME NEW S, IsFiniteSet(S), S # {}, \A x \in S : x \in Int
  PROVE  Max(S) \in S /\ \A x \in S : x <= Max(S)
<1> DEFINE G == {T \in SUBSET S : T # {} => \E m \in T : \A x \in T : m >= x}
<1>1. {} \in G
  OBVIOUS
<1>2. ASSUME NEW T \in SUBSET S, NEW x \in T, T \ {x} \in G PROVE T \in G
  <2>1. CASE T \ {x} = {}
    <3>1. \A y \in T : y = x
      BY <2>1
    <3> QED
      BY <3>1
  <2>2. CASE T \ {x} # {}
    <3>1. PICK m \in T \ {x} : \A y \in T \ {x} : m >= y
      BY <1>2, <2>2
    <3>2. \E n \in T : \A y \in T : n >= y
      <4>1. x \in Int /\ \A y \in T : y \in Int
        OBVIOUS
      <4>2. CASE m >= x
        BY <3>1, <4>2
      <4>3. CASE x >= m
        BY <3>1, <4>1, <4>3
      <4> HIDE DEF G
      <4> QED
        BY <3>1, <4>1, <4>2, <4>3
    <3> QED
      BY <3>2
  <2> QED
    BY <2>1, <2>2
<1>3. G \in SUBSET SUBSET S
  OBVIOUS
<1> HIDE DEF G
<1>4. S \in G
  BY <1>1, <1>2, <1>3, ElementsInduction
<1>5. \E m \in S : \A x \in S : m >= x
  BY <1>4 DEF G
<1> QED
  BY <1>5 DEF Max

LEMMA MaxOfTwo ==
  ASSUME NEW a \in Int, NEW b \in Int
  PROVE  Max({a, b}) = IF a >= b THEN a ELSE b
<1>1. \E m \in {a, b} : \A x \in {a, b} : m >= x
  OBVIOUS
<1>2. Max({a, b}) \in {a, b} /\ \A x \in {a, b} : Max({a, b}) >= x
  BY <1>1 DEF Max
<1> QED
  BY <1>2

LEMMA MinOfTwo ==
  ASSUME NEW a \in Int, NEW b \in Int
  PROVE  Min({a, b}) = IF a <= b THEN a ELSE b
<1>1. \E m \in {a, b} : \A x \in {a, b} : x >= m
  OBVIOUS
<1>2. Min({a, b}) \in {a, b} /\ \A x \in {a, b} : x >= Min({a, b})
  BY <1>1 DEF Min
<1> QED
  BY <1>2

LEMMA MaxOfThree ==
  ASSUME NEW a \in Int, NEW b \in Int, NEW c \in Int
  PROVE  Max({a, b, c}) \in Int
<1>1. \E m \in {a, b, c} : \A x \in {a, b, c} : m >= x
  OBVIOUS
<1>2. Max({a, b, c}) \in {a, b, c}
  BY <1>1 DEF Max
<1> QED
  BY <1>2
=============================================================================
