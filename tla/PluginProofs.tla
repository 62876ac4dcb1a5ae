---------------------------- MODULE PluginProofs ----------------------------
(***************************************************************************)
(* Proofs about the Lua programs, MotionTree, Calculator, StatsFile and    *)
(* Marks, as MCPlugins runs them, along four inductive invariants.         *)
(*                                                                         *)
(* MotionInv: what has been typed of a motion says which motion of the     *)
(* tree is awaited (Where), and a key is dropped only where no motion goes *)
(* on like this, however long (Dead).                                      *)
(*                                                                         *)
(* CalcInv: the ring holds, one behind the other, the scores of what was   *)
(* pushed in the last period (Holds), and the slots of motions_count hold  *)
(* the keys that are compared with (SlotsHold).                            *)
(*                                                                         *)
(* FileInv: every event waits, was cleared, or is in the text that counts  *)
(* now, the file's or its one writer's (NoneTwice, NoneLost), and no       *)
(* editor's time is counted twice (TimeOnce).                              *)
(*                                                                         *)
(* MarksInv: no list has a file twice (OnceKept), and whoever is saving    *)
(* has what users last made of the projects, and the others have it but    *)
(* for what they missed (SavedKept).                                       *)
(*                                                                         *)
(* What a recursive function or a fold computes is told by proving first   *)
(* that there is such a function, by induction over finite sets.           *)
(***************************************************************************)
EXTENDS MCPlugins, FiniteSetTheorems, WellFoundedInduction, SequenceTheorems, TLAPS

\* A non-empty set of naturals has a smallest element.
LEMMA Smallest == ASSUME NEW T \in SUBSET Nat, T # {} PROVE \E x \in T : \A y \in T : x <= y
<1> DEFINE Below(x) == {y \in T : y < x}
           F == {Below(x) : x \in T}
<1>1. ASSUME NEW x \in T PROVE Below(x) \in FiniteSubsetsOf(Nat)
  <2>1. IsFiniteSet(0..x)
    BY FS_Interval
  <2>2. \A y \in Below(x) : y \in 0..x
    OBVIOUS
  <2>3. Below(x) \in SUBSET (0..x) /\ Below(x) \in SUBSET Nat
    BY <2>2, Zenon
  <2> QED BY <2>1, <2>3, FS_Subset DEF FiniteSubsetsOf
<1>2. F \subseteq FiniteSubsetsOf(Nat) /\ F # {}
  BY <1>1
<1>3. IsWellFoundedOn(StrictSubsetOrdering(Nat), FiniteSubsetsOf(Nat))
  BY FS_StrictSubsetOrderingWellFounded
<1> HIDE DEF F
<1>4. PICK D \in F : \A E \in F : ~(<<E, D>> \in StrictSubsetOrdering(Nat))
  BY <1>2, <1>3, WFMin, Zenon
<1>5. PICK x \in T : D = Below(x)
  BY <1>4 DEF F
<1>6. ASSUME NEW y \in T, y < x PROVE FALSE
  <2>1. y \in Below(x) /\ y \notin Below(y) /\ \A z \in Below(y) : z \in Below(x)
    BY <1>6
  <2>2. Below(y) \in F
    BY DEF F
  <2>3. Below(y) \in SUBSET Nat /\ Below(x) \in SUBSET Nat
    OBVIOUS
  <2> HIDE DEF Below
  <2>4. <<Below(y), D>> \in StrictSubsetOrdering(Nat)
    BY <1>5, <2>1, <2>3 DEF StrictSubsetOrdering
  <2> QED BY <1>4, <2>2, <2>4
<1> QED BY <1>6

\* What holds of 0, and of n + 1 when of n, holds of every natural.
LEMMA Induct == ASSUME NEW T, 0 \in T, \A n \in Nat : n \in T => n + 1 \in T PROVE Nat \subseteq T
<1> SUFFICES ASSUME Nat \ T # {} PROVE FALSE
  OBVIOUS
<1>1. PICK n \in Nat \ T : \A m \in Nat \ T : n <= m
  BY Smallest
<1>2. n # 0 /\ n - 1 \in Nat /\ n - 1 \in T
  BY <1>1
<1> QED BY <1>2

\* Going through a finite set element by element: what g makes of an element and the rest.
pick(s) == CHOOSE x \in s : TRUE
GoesThrough(f, g, z, s) == f[s] = IF s = {} THEN z ELSE g[<<pick(s), f[s \ {pick(s)}]>>]

\* What is left of a finite set when one element is taken.
LEMMA LessOne ==
    ASSUME NEW S, IsFiniteSet(S), NEW s \in SUBSET S, s # {}
    PROVE  /\ pick(s) \in s /\ s \ {pick(s)} \in SUBSET S
           /\ Cardinality(s) \in Nat \ {0} /\ Cardinality(s \ {pick(s)}) = Cardinality(s) - 1
<1>1. IsFiniteSet(s)
  BY FS_Subset
<1>2. pick(s) \in s
  BY DEF pick
<1>3. Cardinality(s) \in Nat /\ Cardinality(s) # 0
  BY <1>1, FS_CardinalityType, FS_EmptySet
<1> QED BY <1>1, <1>2, <1>3, FS_RemoveElement

\* A finite set can be gone through.
LEMMA FoldExists ==
    ASSUME NEW S, IsFiniteSet(S), NEW D, NEW z \in D, NEW g \in [S \X D -> D]
    PROVE  \E f \in [SUBSET S -> D] : \A s \in SUBSET S : GoesThrough(f, g, z, s)
<1> DEFINE Up(f, n) == \A s \in SUBSET S : Cardinality(s) <= n => GoesThrough(f, g, z, s)
           T == {n \in Nat : \E f \in [SUBSET S -> D] : Up(f, n)}
<1>0. \A s \in SUBSET S : Cardinality(s) \in Nat /\ (Cardinality(s) = 0 <=> s = {})
  BY FS_Subset, FS_CardinalityType, FS_EmptySet
<1>1. 0 \in T
  <2> DEFINE f == [s \in SUBSET S |-> z]
  <2>1. f \in [SUBSET S -> D]
    OBVIOUS
  <2>2. Up(f, 0)
    BY <1>0 DEF GoesThrough
  <2> QED BY <2>1, <2>2
<1>2. ASSUME NEW n \in Nat, n \in T PROVE n + 1 \in T
  <2>1. PICK f \in [SUBSET S -> D] : Up(f, n)
    BY <1>2
  <2> DEFINE h == [s \in SUBSET S |-> IF Cardinality(s) = n + 1 THEN g[<<pick(s), f[s \ {pick(s)}]>>]
                                      ELSE f[s]]
  <2>2. \A s \in SUBSET S : s # {} =>
          /\ pick(s) \in s /\ s \ {pick(s)} \in SUBSET S
          /\ Cardinality(s) \in Nat \ {0} /\ Cardinality(s \ {pick(s)}) = Cardinality(s) - 1
    BY LessOne
  <2>3. h \in [SUBSET S -> D]
    <3> SUFFICES ASSUME NEW s \in SUBSET S, Cardinality(s) = n + 1
                 PROVE  g[<<pick(s), f[s \ {pick(s)}]>>] \in D
      BY <2>1
    <3>1. s # {}
      BY <1>0
    <3>2. <<pick(s), f[s \ {pick(s)}]>> \in S \X D
      BY <2>1, <2>2, <3>1
    <3> QED BY <3>2
  <2>4. ASSUME NEW s \in SUBSET S, Cardinality(s) <= n + 1 PROVE GoesThrough(h, g, z, s)
    <3>1. CASE s = {}
      <4>1. Cardinality(s) # n + 1 /\ Cardinality(s) <= n
        BY <1>0, <3>1
      <4>2. h[s] = f[s] /\ f[s] = z
        BY <2>1, <3>1, <4>1 DEF GoesThrough
      <4> QED BY <3>1, <4>2 DEF GoesThrough
    <3>2. CASE s # {}
      <4> DEFINE t == s \ {pick(s)}
      <4>1. t \in SUBSET S /\ Cardinality(t) = Cardinality(s) - 1 /\ Cardinality(s) \in Nat
        BY <2>2, <3>2
      <4> HIDE DEF t
      <4>2. Cardinality(t) # n + 1
        BY <2>4, <4>1
      <4>3. h[t] = f[t]
        BY <4>1, <4>2
      <4>4. h[s] = g[<<pick(s), f[t]>>]
        <5>1. CASE Cardinality(s) = n + 1
          BY <5>1 DEF t
        <5>2. CASE Cardinality(s) # n + 1
          <6>1. Cardinality(s) <= n
            BY <2>4, <4>1, <5>2
          <6>2. f[s] = g[<<pick(s), f[t]>>]
            BY <2>1, <3>2, <6>1 DEF GoesThrough, t
          <6> QED BY <5>2, <6>2
        <5> QED BY <5>1, <5>2
      <4> HIDE DEF h
      <4> QED BY <3>2, <4>3, <4>4 DEF GoesThrough, t
    <3> QED BY <3>1, <3>2
  <2> HIDE DEF h
  <2> QED BY <2>3, <2>4
<1>3. Cardinality(S) \in Nat
  BY <1>0
<1> HIDE DEF T
<1>4. Cardinality(S) \in T
  BY <1>1, <1>2, <1>3, Induct
<1>5. PICK f \in [SUBSET S -> D] : Up(f, Cardinality(S))
  BY <1>4 DEF T
<1>6. \A s \in SUBSET S : Cardinality(s) <= Cardinality(S)
  BY FS_Subset
<1> QED BY <1>5, <1>6
\* What holds of nothing, and of every set that it holds of without one element, holds of all.
LEMMA OneByOne ==
    ASSUME NEW S, IsFiniteSet(S), NEW G, {} \in G,
           \A s \in SUBSET S : s # {} /\ s \ {pick(s)} \in G => s \in G
    PROVE  SUBSET S \subseteq G
<1> DEFINE T == {n \in Nat : \A s \in SUBSET S : Cardinality(s) <= n => s \in G}
<1>0. \A s \in SUBSET S : Cardinality(s) \in Nat /\ (Cardinality(s) = 0 <=> s = {})
  BY FS_Subset, FS_CardinalityType, FS_EmptySet
<1>1. 0 \in T
  <2>1. \A s \in SUBSET S : Cardinality(s) <= 0 => s = {}
    BY <1>0
  <2> QED BY <2>1
<1>2. ASSUME NEW n \in Nat, n \in T PROVE n + 1 \in T
  <2> SUFFICES ASSUME NEW s \in SUBSET S, Cardinality(s) <= n + 1, s # {} PROVE s \in G
    OBVIOUS
  <2>1. s \ {pick(s)} \in SUBSET S /\ Cardinality(s \ {pick(s)}) = Cardinality(s) - 1
    BY LessOne
  <2>2. Cardinality(s \ {pick(s)}) <= n
    BY <1>0, <2>1
  <2>3. s \ {pick(s)} \in G
    BY <1>2, <2>1, <2>2
  <2> QED BY <2>3
<1>3. Cardinality(S) \in T
  <2> HIDE DEF T
  <2> QED BY <1>0, <1>1, <1>2, Induct
<1> QED BY <1>3, FS_Subset


\* The least and the greatest of some numbers.
LEMMA MinIs == ASSUME NEW S \in SUBSET Nat, S # {} PROVE Min(S) \in S /\ \A x \in S : Min(S) <= x
BY Smallest DEF Min

\* A set of numbers with a bound has a greatest.
LEMMA MaxIs ==
    ASSUME NEW n \in Nat, NEW S \in SUBSET (0 .. n), S # {} PROVE Max(S) \in S /\ \A x \in S : x <= Max(S)
<1> DEFINE T == {n - x : x \in S}
<1>0. \A x \in S : x \in 0 .. n /\ n - x \in Nat /\ n - x \in T
  OBVIOUS
<1>1. T \in SUBSET Nat /\ T # {}
  BY <1>0
<1>2. PICK t \in T : \A u \in T : t <= u
  <2> HIDE DEF T
  <2> QED BY <1>1, Smallest
<1>3. PICK x \in S : t = n - x
  BY <1>2 DEF T
<1>4. \A y \in S : x >= y
  BY <1>0, <1>2, <1>3
<1> QED BY <1>4 DEF Max


-----------------------------------------------------------------------------
(* Sums *)

\* FoldFunction adds up the values of f over S.
Sums(h, f, S) == h = [s \in SUBSET S |-> IF s = {} THEN 0 ELSE f[pick(s)] + h[s \ {pick(s)}]]
SumOver(f, S) == (CHOOSE h : Sums(h, f, S))[S]
Numbers(f, S) == IsFiniteSet(S) /\ \A x \in S : f[x] \in Nat

\* The fold of the community modules adds up a function over its domain.
LEMMA FoldIs == ASSUME NEW f PROVE FoldFunction(+, 0, f) = SumOver(f, DOMAIN f)
BY DEF SumOver, Sums, FoldFunction, FoldFunctionOnSet, MapThenFoldSet, pick

\* So does the statistics' Total.
LEMMA TotalIs == ASSUME NEW f PROVE Total(f) = SumOver(f, DOMAIN f)
BY DEF Total, SumOver, Sums, FoldFunction, FoldFunctionOnSet, MapThenFoldSet, pick

\* Adding up goes through all subsets.
LEMMA SumFound ==
    ASSUME NEW f, NEW S, Numbers(f, S)
    PROVE  \E h \in [SUBSET S -> Nat] : Sums(h, f, S)
<1> DEFINE g == [q \in S \X Nat |-> f[q[1]] + q[2]]
<1>1. g \in [S \X Nat -> Nat] /\ \A x \in S, n \in Nat : g[<<x, n>>] = f[x] + n
  BY DEF Numbers
<1> HIDE DEF g
<1>2. PICK h \in [SUBSET S -> Nat] : \A s \in SUBSET S : GoesThrough(h, g, 0, s)
  BY <1>1, FoldExists DEF Numbers
<1>3. \A s \in SUBSET S : s # {} => pick(s) \in S /\ s \ {pick(s)} \in SUBSET S
  BY LessOne DEF Numbers
<1>4. \A s \in SUBSET S : h[s] = IF s = {} THEN 0 ELSE f[pick(s)] + h[s \ {pick(s)}]
  BY <1>1, <1>2, <1>3 DEF GoesThrough
<1> QED BY <1>4 DEF Sums

\* All ways of adding up come to the same, over a set and over one that it is part of.
LEMMA SumsAgree ==
    ASSUME NEW f, NEW S, Numbers(f, S), NEW T \in SUBSET S,
           NEW h, Sums(h, f, S), NEW k, Sums(k, f, T)
    PROVE  h[T] = k[T]
<1> DEFINE G == {s \in SUBSET T : h[s] = k[s]}
<1>1. \A s \in SUBSET T : /\ h[s] = IF s = {} THEN 0 ELSE f[pick(s)] + h[s \ {pick(s)}]
                          /\ k[s] = IF s = {} THEN 0 ELSE f[pick(s)] + k[s \ {pick(s)}]
  BY DEF Sums
<1>2. {} \in G
  BY <1>1
<1>3. \A s \in SUBSET T : s # {} /\ s \ {pick(s)} \in G => s \in G
  BY <1>1
<1>4. IsFiniteSet(T)
  BY FS_Subset DEF Numbers
<1>5. SUBSET T \subseteq G
  <2> HIDE DEF G
  <2> QED BY <1>2, <1>3, <1>4, OneByOne
<1> QED BY <1>5

\* The sum over a set is one of its values and the sum over the rest.
LEMMA SumPicks ==
    ASSUME NEW f, NEW S, Numbers(f, S)
    PROVE  /\ SumOver(f, S) \in Nat
           /\ S = {} => SumOver(f, S) = 0
           /\ S # {} => SumOver(f, S) = f[pick(S)] + SumOver(f, S \ {pick(S)})
<1> DEFINE H == CHOOSE h : Sums(h, f, S)
           T == S \ {pick(S)}
           K == CHOOSE h : Sums(h, f, T)
<1>1. Numbers(f, T)
  BY FS_Subset DEF Numbers
<1>2. PICK h \in [SUBSET S -> Nat] : Sums(h, f, S)
  BY SumFound
<1>3. \E k : Sums(k, f, T)
  BY <1>1, SumFound
<1>4. Sums(H, f, S) /\ Sums(K, f, T)
  <2> HIDE DEF T
  <2> QED BY <1>2, <1>3
<1>5. SumOver(f, S) = H[S] /\ SumOver(f, T) = K[T]
  BY DEF SumOver
<1> HIDE DEF H, K
<1>6. H[T] = K[T]
  <2> HIDE DEF T
  <2>1. T \in SUBSET S
    BY DEF T
  <2> QED BY <1>4, <2>1, SumsAgree
<1>7. H[S] = h[S]
  BY <1>2, <1>4, SumsAgree
<1>8. H[S] = IF S = {} THEN 0 ELSE f[pick(S)] + H[T]
  BY <1>4 DEF Sums
<1> QED BY <1>2, <1>5, <1>6, <1>7, <1>8

\* It does not matter which.
LEMMA SumTakes ==
    ASSUME NEW f, NEW S, Numbers(f, S), NEW x \in S
    PROVE  SumOver(f, S) = f[x] + SumOver(f, S \ {x})
<1> DEFINE Free(s) == \A y \in s : SumOver(f, s) = f[y] + SumOver(f, s \ {y})
           T == {n \in Nat : \A s \in SUBSET S : Cardinality(s) <= n => Free(s)}
<1>0. \A s \in SUBSET S : Numbers(f, s) /\ Cardinality(s) \in Nat /\ (Cardinality(s) = 0 <=> s = {})
  BY FS_Subset, FS_CardinalityType, FS_EmptySet DEF Numbers
<1>1. 0 \in T
  <2>1. \A s \in SUBSET S : Cardinality(s) <= 0 => s = {}
    BY <1>0
  <2> QED BY <2>1
<1>2. ASSUME NEW n \in Nat, n \in T PROVE n + 1 \in T
  <2> SUFFICES ASSUME NEW s \in SUBSET S, Cardinality(s) <= n + 1, NEW y \in s
               PROVE  SumOver(f, s) = f[y] + SumOver(f, s \ {y})
    OBVIOUS
  <2> DEFINE k == pick(s)
  <2>1. k \in s /\ SumOver(f, s) = f[k] + SumOver(f, s \ {k})
    BY <1>0, SumPicks DEF pick
  <2> HIDE DEF k
  <2>2. CASE k = y
    BY <2>1, <2>2
  <2>3. CASE k # y
    <3>1. \A z \in s : /\ s \ {z} \in SUBSET S
                       /\ Cardinality(s \ {z}) = Cardinality(s) - 1
      BY <1>0, FS_RemoveElement DEF Numbers
    <3>2. \A z \in s : Cardinality(s \ {z}) <= n
      BY <1>0, <3>1
    <3>3. Free(s \ {k}) /\ Free(s \ {y})
      <4> HIDE DEF Free
      <4> QED BY <1>2, <2>1, <3>1, <3>2
    <3>4. /\ SumOver(f, s \ {k}) = f[y] + SumOver(f, (s \ {k}) \ {y})
          /\ SumOver(f, s \ {y}) = f[k] + SumOver(f, (s \ {y}) \ {k})
      BY <2>1, <2>3, <3>3
    <3>5. (s \ {k}) \ {y} = (s \ {y}) \ {k}
      OBVIOUS
    <3> DEFINE rest == SumOver(f, (s \ {y}) \ {k})
    <3>6. rest \in Nat /\ f[k] \in Nat /\ f[y] \in Nat
      <4>1. (s \ {y}) \ {k} \in SUBSET S
        OBVIOUS
      <4>2. Numbers(f, (s \ {y}) \ {k})
        BY <1>0, <4>1
      <4> QED BY <2>1, <4>2, SumPicks DEF Numbers
    <3> DEFINE a == SumOver(f, s)
               b == SumOver(f, s \ {k})
               c == SumOver(f, s \ {y})
               fk == f[k]
               fy == f[y]
    <3>7. a = fk + b /\ b = fy + rest /\ c = fk + rest
      BY <2>1, <3>4, <3>5
    <3>8. rest \in Nat /\ fk \in Nat /\ fy \in Nat
      BY <3>6
    <3> HIDE DEF rest, a, b, c, fk, fy
    <3>9. a = fy + c
      BY <3>7, <3>8
    <3> QED BY <3>9 DEF a, c, fy
  <2> QED BY <2>2, <2>3
<1>3. Cardinality(S) \in T
  <2> HIDE DEF T
  <2> QED BY <1>0, <1>1, <1>2, Induct
<1> QED BY <1>0, <1>3

\* It depends on the values alone, and grows with them.
LEMMA SumGrows ==
    ASSUME NEW f, NEW g, NEW S, Numbers(f, S), Numbers(g, S), \A x \in S : f[x] <= g[x]
    PROVE  SumOver(f, S) <= SumOver(g, S)
<1> DEFINE G == {s \in SUBSET S : SumOver(f, s) <= SumOver(g, s)}
<1>1. \A s \in SUBSET S : Numbers(f, s) /\ Numbers(g, s)
  BY FS_Subset DEF Numbers
<1>2. {} \in G
  <2>1. Numbers(f, {}) /\ Numbers(g, {})
    BY <1>1
  <2>2. SumOver(f, {}) = 0 /\ SumOver(g, {}) = 0
    BY <2>1, SumPicks
  <2> QED BY <2>2
<1>3. ASSUME NEW s \in SUBSET S, s # {}, s \ {pick(s)} \in G PROVE s \in G
  <2> DEFINE t == s \ {pick(s)}
  <2>1. pick(s) \in s
    BY <1>3 DEF pick
  <2>2. /\ SumOver(f, s) = f[pick(s)] + SumOver(f, t)
        /\ SumOver(g, s) = g[pick(s)] + SumOver(g, t)
    BY <1>1, <1>3, SumPicks
  <2>3. SumOver(f, t) \in Nat /\ SumOver(g, t) \in Nat
    BY <1>1, SumPicks
  <2>4. f[pick(s)] \in Nat /\ g[pick(s)] \in Nat /\ f[pick(s)] <= g[pick(s)]
    BY <2>1 DEF Numbers
  <2>5. SumOver(f, t) <= SumOver(g, t)
    BY <1>3
  <2> HIDE DEF t
  <2> QED BY <2>2, <2>3, <2>4, <2>5
<1>4. S \in G
  <2> HIDE DEF G
  <2> QED BY <1>2, <1>3, OneByOne DEF Numbers
<1> QED BY <1>4

\* Equal values have equal sums.
LEMMA SumSame ==
    ASSUME NEW f, NEW g, NEW S, Numbers(f, S), \A x \in S : f[x] = g[x]
    PROVE  SumOver(f, S) = SumOver(g, S)
<1>1. Numbers(g, S) /\ (\A x \in S : f[x] <= g[x] /\ g[x] <= f[x])
  BY DEF Numbers
<1>2. SumOver(f, S) <= SumOver(g, S) /\ SumOver(g, S) <= SumOver(f, S)
  BY <1>1, SumGrows
<1>3. SumOver(f, S) \in Nat /\ SumOver(g, S) \in Nat
  BY <1>1, SumPicks
<1> QED BY <1>2, <1>3

\* One value changes.
OnlyAt(x, f, g, S) == \A y \in S \ {x} : g[y] = f[y]

\* Where one value changes, the sum changes by as much.
LEMMA SumChanges ==
    ASSUME NEW f, NEW g, NEW S, Numbers(f, S), NEW x \in S, g[x] \in Nat, OnlyAt(x, f, g, S)
    PROVE  /\ SumOver(g, S) = SumOver(f, S) - f[x] + g[x] /\ f[x] <= SumOver(f, S)
           /\ SumOver(f, S) \in Nat /\ SumOver(g, S) \in Nat
<1> DEFINE T == S \ {x}
<1>1. Numbers(g, S) /\ Numbers(f, T)
  BY FS_Subset DEF Numbers, OnlyAt
<1>2. SumOver(f, T) = SumOver(g, T) /\ SumOver(f, T) \in Nat
  <2>1. \A y \in T : f[y] = g[y]
    BY DEF OnlyAt
  <2> HIDE DEF T
  <2>2. SumOver(f, T) \in Nat
    BY <1>1, SumPicks
  <2>3. SumOver(f, T) = SumOver(g, T)
    BY <1>1, <2>1, SumSame
  <2> QED BY <2>2, <2>3
<1>3. SumOver(f, S) = f[x] + SumOver(f, T)
  BY SumTakes
<1>4. SumOver(g, S) = g[x] + SumOver(g, T)
  BY <1>1, SumTakes
<1>5. f[x] \in Nat
  BY DEF Numbers
<1>6. SumOver(f, S) \in Nat /\ SumOver(g, S) \in Nat
  BY <1>1, SumPicks
<1> QED BY <1>2, <1>3, <1>4, <1>5, <1>6

\* What is set to zero is what is missing from the sum.
LEMMA SumParts ==
    ASSUME NEW f, NEW g, NEW S, Numbers(f, S), NEW P \in SUBSET S,
           \A x \in S : g[x] = IF x \in P THEN 0 ELSE f[x]
    PROVE  SumOver(f, S) = SumOver(g, S) + SumOver(f, P) /\ Numbers(g, S)
<1> DEFINE Without(s) == [x \in S |-> IF x \in s THEN 0 ELSE f[x]]
           G == {s \in SUBSET P : SumOver(f, S) = SumOver(Without(s), S) + SumOver(f, s)}
<1>1. \A s \in SUBSET P : Numbers(Without(s), S) /\ Numbers(f, s) /\ IsFiniteSet(P)
  BY FS_Subset DEF Numbers
<1>2. {} \in G
  <2>1. SumOver(f, S) = SumOver(Without({}), S)
    BY SumSame
  <2>2. SumOver(f, {}) = 0 /\ SumOver(f, S) \in Nat
    BY <1>1, SumPicks
  <2> QED BY <2>1, <2>2
<1>3. ASSUME NEW s \in SUBSET P, s # {}, s \ {pick(s)} \in G PROVE s \in G
  <2> DEFINE k == pick(s)
             t == s \ {k}
  <2>1. k \in s /\ k \in S
    BY <1>3 DEF pick
  <2>2. SumOver(f, s) = f[k] + SumOver(f, t)
    BY <1>1, <1>3, SumPicks
  <2>3. Without(t)[k] = f[k] /\ Without(s)[k] = 0 /\ f[k] \in Nat
    BY <2>1 DEF Numbers
  <2>4. OnlyAt(k, Without(t), Without(s), S)
    BY DEF OnlyAt
  <2>5. Numbers(Without(t), S) /\ Numbers(f, t)
    BY <1>1
  <2>6. SumOver(f, S) = SumOver(Without(t), S) + SumOver(f, t)
    BY <1>3
  <2>7. SumOver(f, t) \in Nat
    BY <2>5, SumPicks
  <2> HIDE DEF Without, k, t
  <2>8. /\ SumOver(Without(s), S) = SumOver(Without(t), S) - Without(t)[k] + Without(s)[k]
        /\ SumOver(Without(s), S) \in Nat /\ SumOver(Without(t), S) \in Nat
    BY <2>1, <2>3, <2>4, <2>5, SumChanges
  <2>9. SumOver(f, S) = SumOver(Without(s), S) + SumOver(f, s)
    BY <2>2, <2>3, <2>6, <2>7, <2>8
  <2> QED BY <2>9 DEF Without
<1>4. P \in G
  <2> HIDE DEF G
  <2> QED BY <1>1, <1>2, <1>3, OneByOne
<1>5. Numbers(g, S)
  BY DEF Numbers
<1>6. SumOver(g, S) = SumOver(Without(P), S)
  BY <1>5, SumSame
<1> QED BY <1>4, <1>5, <1>6

\* Values that are all alike.
LEMMA SumAlike ==
    ASSUME NEW f, NEW S, IsFiniteSet(S), NEW P \in SUBSET S, NEW n \in Nat,
           \A x \in S : f[x] = IF x \in P THEN n ELSE 0
    PROVE  SumOver(f, S) = n * Cardinality(P) /\ Numbers(f, S)
<1> DEFINE G == {s \in SUBSET S : SumOver(f, s) = n * Cardinality(s \cap P)}
<1>1. \A s \in SUBSET S : Numbers(f, s) /\ IsFiniteSet(s \cap P)
  BY FS_Subset DEF Numbers
<1>2. {} \in G
  <2>1. SumOver(f, {}) = 0
    BY <1>1, SumPicks
  <2>2. {} \cap P = {} /\ Cardinality({}) = 0
    BY FS_EmptySet
  <2> QED BY <2>1, <2>2
<1>3. ASSUME NEW s \in SUBSET S, s # {}, s \ {pick(s)} \in G PROVE s \in G
  <2> DEFINE k == pick(s)
             t == s \ {k}
             m == Cardinality(t \cap P)
  <2>1. k \in s /\ k \in S
    BY <1>3 DEF pick
  <2>2. SumOver(f, s) = f[k] + SumOver(f, t)
    BY <1>1, <1>3, SumPicks
  <2>3. SumOver(f, t) = n * m
    BY <1>3
  <2>4. m \in Nat
    BY <1>1, FS_CardinalityType
  <2>5. CASE k \in P
    <3>1. s \cap P = (t \cap P) \cup {k} /\ k \notin t \cap P
      BY <2>1, <2>5
    <3>2. Cardinality(s \cap P) = m + 1
      BY <1>1, <3>1, FS_AddElement
    <3>3. f[k] = n
      BY <2>1, <2>5
    <3> HIDE DEF k, t, m
    <3>4. n * (m + 1) = n + n * m
      BY <2>4
    <3> QED BY <2>2, <2>3, <3>2, <3>3, <3>4 DEF k, t
  <2>6. CASE k \notin P
    <3>1. s \cap P = t \cap P
      BY <2>6
    <3>2. f[k] = 0
      BY <2>1, <2>6
    <3>3. SumOver(f, t) \in Nat
      BY <1>1, SumPicks
    <3> HIDE DEF k, t
    <3> QED BY <2>2, <2>3, <3>1, <3>2, <3>3 DEF k, t
  <2> QED BY <2>5, <2>6
<1>4. S \in G
  <2> HIDE DEF G
  <2> QED BY <1>2, <1>3, OneByOne
<1>5. S \cap P = P
  OBVIOUS
<1> QED BY <1>1, <1>4, <1>5

-----------------------------------------------------------------------------
(* The recogniser of motions *)

\* From index k on; digits from a to b.
Rest(s, k) == SubSeq(s, k, Len(s))
Digital(s, a, b) == \A i \in a .. b : s[i] \in Digits
Commands == {"y", "d", "c", "v"}

\* The motions by the places of their keys.
PlainAt(s, k) ==
  \/ Len(s) = k /\ s[k] \in Moving
  \/ Len(s) = k + 1 /\ (s[k] \in Searching \/ (s[k] \in {"i", "a"} /\ s[k + 1] \in Enclosing))
CommandedAt(s, n, m) == PlainAt(s, m) \/ (s[n] # "v" /\ Len(s) = m /\ s[m] = s[n])
WholeAt(s, k) ==
  \/ Len(s) = k /\ s[k] \in Inserting \cup Paging
  \/ PlainAt(s, k)
  \/ /\ Len(s) > k /\ s[k] \in Commands
     /\ \E m \in (k + 1) .. (Len(s) + 1) : Digital(s, k + 1, m - 1) /\ CommandedAt(s, k, m)

\* The rest of a word holds its last keys.
LEMMA RestIs ==
    ASSUME NEW s \in Seq(Keys), NEW k \in 1 .. (Len(s) + 1)
    PROVE  /\ Rest(s, k) \in Seq(Keys) /\ Len(Rest(s, k)) = Len(s) - k + 1 /\ Len(s) \in Nat
           /\ \A i \in 1 .. (Len(s) - k + 1) : Rest(s, k)[i] = s[k + i - 1]
BY DEF Rest

\* Sequences are equal that have their keys in the same places.
LEMMA SameKeys ==
    ASSUME NEW r \in Seq(Keys), NEW s \in Seq(Keys), Len(r) = Len(s), \A i \in 1 .. Len(r) : r[i] = s[i]
    PROVE  r = s
BY SeqEqual

\* The rest of a rest is a rest.
LEMMA RestRest ==
    ASSUME NEW s \in Seq(Keys), NEW k \in 1 .. (Len(s) + 1), NEW j \in 1 .. (Len(s) - k + 2)
    PROVE  Rest(Rest(s, k), j) = Rest(s, k + j - 1)
<1> DEFINE t == Rest(s, k)
           l == k + j - 1
<1>1. /\ t \in Seq(Keys) /\ Len(t) = Len(s) - k + 1 /\ Len(s) \in Nat
      /\ \A i \in 1 .. (Len(s) - k + 1) : t[i] = s[k + i - 1]
  BY RestIs
<1>2. l \in 1 .. (Len(s) + 1) /\ j \in 1 .. (Len(t) + 1) /\ Len(t) - j + 1 = Len(s) - l + 1
  BY <1>1
<1> HIDE DEF t
<1>3. /\ Rest(t, j) \in Seq(Keys) /\ Len(Rest(t, j)) = Len(s) - l + 1
      /\ \A i \in 1 .. (Len(s) - l + 1) : Rest(t, j)[i] = t[j + i - 1]
  BY <1>1, <1>2, RestIs
<1> HIDE DEF l
<1>4. /\ Rest(s, l) \in Seq(Keys) /\ Len(Rest(s, l)) = Len(s) - l + 1
      /\ \A i \in 1 .. (Len(s) - l + 1) : Rest(s, l)[i] = s[l + i - 1]
  BY <1>2, RestIs
<1>5. ASSUME NEW i \in 1 .. (Len(s) - l + 1) PROVE t[j + i - 1] = s[l + i - 1]
  <2>1. j + i - 1 \in 1 .. (Len(s) - k + 1) /\ k + (j + i - 1) - 1 = l + i - 1
    BY <1>1, <1>2 DEF l
  <2> QED BY <1>1, <2>1
<1>6. Rest(t, j) = Rest(s, l)
  BY <1>3, <1>4, <1>5, SameKeys
<1> QED BY <1>6 DEF t, l

\* So is its tail.
LEMMA TailIs ==
    ASSUME NEW s \in Seq(Keys), NEW k \in 1 .. Len(s)
    PROVE  Tail(Rest(s, k)) = Rest(s, k + 1)
<1>1. /\ Rest(s, k) \in Seq(Keys) /\ Len(Rest(s, k)) = Len(s) - k + 1 /\ Len(s) \in Nat
      /\ \A i \in 1 .. (Len(s) - k + 1) : Rest(s, k)[i] = s[k + i - 1]
  BY RestIs
<1>2. /\ Rest(s, k + 1) \in Seq(Keys) /\ Len(Rest(s, k + 1)) = Len(s) - k
      /\ \A i \in 1 .. (Len(s) - k) : Rest(s, k + 1)[i] = s[k + i]
  <2> DEFINE l == k + 1
  <2>1. l \in 1 .. (Len(s) + 1) /\ Len(s) - l + 1 = Len(s) - k /\ \A i \in 1 .. (Len(s) - k) : l + i - 1 = k + i
    BY <1>1
  <2> HIDE DEF l
  <2>2. /\ Rest(s, l) \in Seq(Keys) /\ Len(Rest(s, l)) = Len(s) - k
        /\ \A i \in 1 .. (Len(s) - k) : Rest(s, l)[i] = s[l + i - 1]
    BY <2>1, RestIs
  <2> QED BY <2>1, <2>2 DEF l
<1> DEFINE t == Tail(Rest(s, k))
<1>3. Rest(s, k) # <<>>
  BY <1>1
<1>4. t \in Seq(Keys) /\ Len(t) = Len(s) - k /\ \A i \in 1 .. Len(t) : t[i] = Rest(s, k)[i + 1]
  BY <1>1, <1>3
<1> HIDE DEF t
<1>5. ASSUME NEW i \in 1 .. Len(t) PROVE t[i] = Rest(s, k + 1)[i]
  <2>1. i \in 1 .. (Len(s) - k) /\ i + 1 \in 1 .. (Len(s) - k + 1) /\ k + (i + 1) - 1 = k + i
    BY <1>1, <1>4
  <2> QED BY <1>1, <1>2, <1>4, <2>1
<1>6. t = Rest(s, k + 1)
  BY <1>2, <1>4, <1>5, SameKeys
<1> QED BY <1>6 DEF t

\* IsPlain by the places of the keys.
LEMMA PlainIs ==
    ASSUME NEW s \in Seq(Keys), NEW k \in 1 .. (Len(s) + 1)
    PROVE  IsPlain(Rest(s, k)) <=> PlainAt(s, k)
<1> DEFINE t == Rest(s, k)
<1>1. /\ t \in Seq(Keys) /\ Len(t) = Len(s) - k + 1 /\ Len(s) \in Nat
      /\ \A i \in 1 .. (Len(s) - k + 1) : t[i] = s[k + i - 1]
  BY RestIs
<1> HIDE DEF t
<1>2. (Len(t) = 1 <=> Len(s) = k) /\ (Len(t) = 2 <=> Len(s) = k + 1)
  BY <1>1
<1>3. Len(t) >= 1 => t[1] = s[k]
  BY <1>1
<1>4. Len(t) >= 2 => t[2] = s[k + 1]
  BY <1>1
<1>5. IsPlain(t) <=> PlainAt(s, k)
  BY <1>2, <1>3, <1>4 DEF IsPlain, PlainAt, OneOf
<1> QED BY <1>5 DEF t

\* What is counted, by the place where the digits end.
LEMMA DigitsIs ==
    ASSUME NEW s \in Seq(Keys), NEW k \in 1 .. (Len(s) + 1), NEW n \in 0 .. (Len(s) - k + 1)
    PROVE  /\ (\A i \in 1 .. n : Rest(s, k)[i] \in Digits) <=> Digital(s, k, (k + n) - 1)
           /\ SubSeq(Rest(s, k), n + 1, Len(Rest(s, k))) = Rest(s, k + n)
<1> DEFINE t == Rest(s, k)
<1>1. /\ Len(t) = Len(s) - k + 1 /\ Len(s) \in Nat
      /\ \A i \in 1 .. (Len(s) - k + 1) : t[i] = s[k + i - 1]
  BY RestIs
<1> HIDE DEF t
<1>2. ASSUME Digital(s, k, (k + n) - 1), NEW i \in 1 .. n PROVE t[i] \in Digits
  <2>1. i \in 1 .. (Len(s) - k + 1) /\ k + i - 1 \in k .. ((k + n) - 1)
    BY <1>1
  <2> QED BY <1>1, <1>2, <2>1 DEF Digital
<1>3. ASSUME \A i \in 1 .. n : t[i] \in Digits, NEW j \in k .. ((k + n) - 1) PROVE s[j] \in Digits
  <2>1. j - k + 1 \in 1 .. n /\ j - k + 1 \in 1 .. (Len(s) - k + 1) /\ k + (j - k + 1) - 1 = j
    BY <1>1
  <2> QED BY <1>1, <1>3, <2>1
<1>4. SubSeq(t, n + 1, Len(t)) = Rest(s, k + n)
  <2>1. n + 1 \in 1 .. (Len(s) - k + 2) /\ k + (n + 1) - 1 = k + n
    BY <1>1
  <2>2. Rest(Rest(s, k), n + 1) = Rest(s, k + (n + 1) - 1)
    BY <2>1, RestRest
  <2>3. Rest(t, n + 1) = Rest(s, k + n)
    BY <2>1, <2>2 DEF t
  <2> QED BY <2>3 DEF Rest
<1> QED BY <1>2, <1>3, <1>4 DEF Digital, t

\* What comes behind the command key, from index k on.
LEMMA CommandedIs ==
    ASSUME NEW s \in Seq(Keys), NEW n \in 1 .. Len(s), NEW m \in (n + 1) .. (Len(s) + 1)
    PROVE  (IsPlain(Rest(s, m)) \/ (s[n] # "v" /\ Rest(s, m) = <<s[n]>>)) <=> CommandedAt(s, n, m)
<1> DEFINE t == Rest(s, m)
           c == s[n]
<1>1. m \in 1 .. (Len(s) + 1) /\ Len(s) \in Nat /\ c \in Keys
  OBVIOUS
<1>2. /\ t \in Seq(Keys) /\ Len(t) = Len(s) - m + 1
      /\ \A i \in 1 .. (Len(s) - m + 1) : t[i] = s[m + i - 1]
  BY <1>1, RestIs
<1>3. IsPlain(t) <=> PlainAt(s, m)
  BY <1>1, PlainIs
<1> HIDE DEF t, c
<1>4. Len(t) = 1 <=> Len(s) = m
  <2>1. Len(t) = Len(s) - m + 1 /\ m \in Nat /\ Len(s) \in Nat
    BY <1>1, <1>2
  <2> QED BY <2>1
<1>5. Len(s) = m => t[1] = s[m]
  BY <1>1, <1>2
<1>6. t = <<c>> <=> Len(s) = m /\ s[m] = c
  <2>1. ASSUME t = <<c>> PROVE Len(s) = m /\ s[m] = c
    <3>1. Len(t) = 1 /\ t[1] = c
      BY <2>1
    <3> QED BY <1>4, <1>5, <3>1
  <2>2. ASSUME Len(s) = m, s[m] = c PROVE t = <<c>>
    <3>1. Len(t) = 1 /\ t[1] = c
      BY <1>4, <1>5, <2>2
    <3>2. <<c>> \in Seq(Keys) /\ Len(<<c>>) = 1 /\ <<c>>[1] = c
      BY <1>1
    <3>3. \A i \in 1 .. Len(t) : t[i] = <<c>>[i]
      BY <3>1, <3>2
    <3> QED BY <1>2, <3>1, <3>2, <3>3, SameKeys
  <2> QED BY <2>1, <2>2
<1> QED BY <1>3, <1>6 DEF CommandedAt, t, c

\* IsWhole by the places of the keys.
LEMMA WholeIs ==
    ASSUME NEW s \in Seq(Keys), NEW n \in 1 .. (Len(s) + 1)
    PROVE  IsWhole(Rest(s, n)) <=> WholeAt(s, n)
<1> DEFINE r == Rest(s, n)
           Behind == Counted(LAMBDA q : IsPlain(q) \/ (r[1] # "v" /\ q = <<r[1]>>), Tail(r))
           BehindAt == \E m \in (n + 1) .. (Len(s) + 1) : Digital(s, n + 1, m - 1) /\ CommandedAt(s, n, m)
<1>1. /\ r \in Seq(Keys) /\ Len(r) = Len(s) - n + 1 /\ Len(s) \in Nat
      /\ \A i \in 1 .. (Len(s) - n + 1) : r[i] = s[n + i - 1]
  BY RestIs
<1>2. IsPlain(r) <=> PlainAt(s, n)
  BY PlainIs
<1>3. IsWhole(r) <=> OneOf(Inserting \cup Paging, r) \/ IsPlain(r) \/ (Len(r) > 1 /\ r[1] \in Commands /\ Behind)
  BY DEF IsWhole, Commands
<1>4. ASSUME Len(r) > 1 PROVE Behind <=> BehindAt
  <2> DEFINE t == Rest(s, n + 1)
             Goes(q) == IsPlain(q) \/ (s[n] # "v" /\ q = <<s[n]>>)
  <2>1. r[1] = s[n] /\ n \in 1 .. Len(s) /\ n + 1 \in 1 .. (Len(s) + 1)
    BY <1>1, <1>4
  <2>2. Tail(r) = t
    BY <2>1, TailIs
  <2>3. Behind <=> \E j \in 0 .. Len(t) : (\A i \in 1 .. j : t[i] \in Digits) /\ Goes(SubSeq(t, j + 1, Len(t)))
    <3> HIDE DEF r, t
    <3> QED BY <2>1, <2>2 DEF Counted
  <2>4. Len(t) = Len(s) - n
    <3> DEFINE k == n + 1
    <3>1. k \in 1 .. (Len(s) + 1) /\ Len(s) - k + 1 = Len(s) - n
      BY <1>1, <2>1
    <3> HIDE DEF k
    <3>2. Len(Rest(s, k)) = Len(s) - k + 1
      BY <3>1, RestIs
    <3> QED BY <3>1, <3>2 DEF k
  <2>5. ASSUME NEW j \in 0 .. (Len(s) - n)
        PROVE  (/\ \A i \in 1 .. j : t[i] \in Digits
                /\ Goes(SubSeq(t, j + 1, Len(t)))) <=> (/\ Digital(s, n + 1, (n + 1 + j) - 1)
                                                        /\ CommandedAt(s, n, n + 1 + j))
    <3> DEFINE k == n + 1
    <3>1. k \in 1 .. (Len(s) + 1) /\ j \in 0 .. (Len(s) - k + 1) /\ k + j \in (n + 1) .. (Len(s) + 1)
      BY <1>1, <2>1
    <3> HIDE DEF k
    <3>2. /\ (\A i \in 1 .. j : Rest(s, k)[i] \in Digits) <=> Digital(s, k, (k + j) - 1)
          /\ SubSeq(Rest(s, k), j + 1, Len(Rest(s, k))) = Rest(s, k + j)
      BY <3>1, DigitsIs
    <3>3. Goes(Rest(s, k + j)) <=> CommandedAt(s, n, k + j)
      BY <2>1, <3>1, CommandedIs
    <3> HIDE DEF Goes
    <3> QED BY <3>2, <3>3 DEF k
  <2> DEFINE Here(j) == Digital(s, n + 1, (n + 1 + j) - 1) /\ CommandedAt(s, n, n + 1 + j)
  <2>6. Behind <=> \E j \in 0 .. (Len(s) - n) : Here(j)
    <3> HIDE DEF Behind, t, Goes
    <3> QED BY <2>3, <2>4, <2>5
  <2>7. BehindAt <=> \E j \in 0 .. (Len(s) - n) : Here(j)
    <3>1. ASSUME NEW j \in 0 .. (Len(s) - n), Here(j) PROVE BehindAt
      <4> DEFINE l == Len(s)
      <4>0. n \in Nat /\ l \in Nat /\ j \in 0 .. (l - n)
        BY <1>1, <3>1
      <4> HIDE DEF l
      <4>1. n + 1 + j \in (n + 1) .. (l + 1)
        BY <4>0
      <4> QED BY <3>1, <4>1 DEF l
    <3>2. ASSUME NEW m \in (n + 1) .. (Len(s) + 1), Digital(s, n + 1, m - 1) /\ CommandedAt(s, n, m)
          PROVE  \E j \in 0 .. (Len(s) - n) : Here(j)
      <4> DEFINE j == m - n - 1
      <4> DEFINE l == Len(s)
      <4>0. n \in Nat /\ l \in Nat /\ m \in (n + 1) .. (l + 1)
        BY <1>1
      <4> HIDE DEF l
      <4>a. j \in 0 .. (l - n) /\ n + 1 + j = m
        BY <4>0
      <4>1. j \in 0 .. (Len(s) - n) /\ n + 1 + j = m
        BY <4>a DEF l
      <4> HIDE DEF j
      <4>2. Here(j)
        BY <3>2, <4>1
      <4> QED BY <4>1, <4>2
    <3> HIDE DEF Here
    <3> QED BY <3>1, <3>2
  <2> HIDE DEF Behind, BehindAt, Here
  <2> QED BY <2>6, <2>7
<1>5. /\ OneOf(Inserting \cup Paging, r) <=> Len(s) = n /\ s[n] \in Inserting \cup Paging
      /\ Len(r) > 1 <=> Len(s) > n
      /\ Len(r) > 1 => r[1] = s[n]
  <2>0. ASSUME NEW l \in Nat, NEW d \in Nat, n \in 1 .. (l + 1), d = l - n + 1
        PROVE  (d >= 1 => 1 \in 1 .. (l - n + 1)) /\ n + 1 - 1 = n
    BY <2>0
  <2>1. Len(r) >= 1 => r[1] = s[n]
    <3> HIDE DEF r
    <3>1. Len(r) \in Nat /\ n \in 1 .. (Len(s) + 1)
      BY <1>1
    <3>2. (Len(r) >= 1 => 1 \in 1 .. (Len(s) - n + 1)) /\ n + 1 - 1 = n
      BY <1>1, <2>0, <3>1
    <3> QED BY <1>1, <3>2
  <2>2. (Len(r) = 1 <=> Len(s) = n) /\ (Len(r) > 1 <=> Len(s) > n) /\ (Len(r) = 1 \/ Len(r) > 1 => Len(r) >= 1)
    BY <1>1
  <2> HIDE DEF r
  <2> QED BY <2>1, <2>2 DEF OneOf
<1> HIDE DEF Behind, r
<1>6. WholeAt(s, n) <=> \/ Len(s) = n /\ s[n] \in Inserting \cup Paging
                        \/ PlainAt(s, n)
                        \/ Len(s) > n /\ s[n] \in Commands /\ BehindAt
  BY DEF WholeAt
<1> HIDE DEF BehindAt
<1>7. IsWhole(r) <=> WholeAt(s, n)
  BY <1>2, <1>3, <1>4, <1>5, <1>6
<1> QED BY <1>7 DEF r

\* IsMotion by the places of the keys: digits, then a whole motion.
LEMMA MotionIs ==
    ASSUME NEW s \in Seq(Keys)
    PROVE  IsMotion(s) <=> \E m \in 1 .. (Len(s) + 1) : Digital(s, 1, m - 1) /\ WholeAt(s, m)
<1>1. Len(s) \in Nat /\ 1 \in 1 .. (Len(s) + 1)
  OBVIOUS
<1>2. Rest(s, 1) = s
  BY <1>1 DEF Rest
<1>3. IsMotion(s) <=> \E n \in 0 .. Len(s) : (\A i \in 1 .. n : s[i] \in Digits) /\ IsWhole(SubSeq(s, n + 1, Len(s)))
  BY DEF IsMotion, Counted
<1>4. ASSUME NEW n \in 0 .. Len(s)
      PROVE  /\ (\A i \in 1 .. n : s[i] \in Digits) <=> Digital(s, 1, (n + 1) - 1)
             /\ IsWhole(SubSeq(s, n + 1, Len(s))) <=> WholeAt(s, n + 1)
  <2>1. n + 1 \in 1 .. (Len(s) + 1) /\ (n + 1) - 1 = n
    BY <1>1
  <2>2. IsWhole(Rest(s, n + 1)) <=> WholeAt(s, n + 1)
    BY <2>1, WholeIs
  <2> QED BY <2>1, <2>2 DEF Rest, Digital
<1>5. \A m \in 1 .. (Len(s) + 1) : m - 1 \in 0 .. Len(s) /\ (m - 1) + 1 = m
  BY <1>1
<1>6. \A n \in 0 .. Len(s) : n + 1 \in 1 .. (Len(s) + 1)
  BY <1>1
<1> QED BY <1>3, <1>4, <1>5, <1>6

\* Motions begin with keys that are no digits, each kind with its own.
LEMMA KeysApart ==
    /\ \A k \in Searching \cup Moving \cup Inserting \cup Paging \cup Commands : k \notin Digits
    /\ Commands \cap (Searching \cup Moving \cup Inserting \cup Paging) = {}
    /\ Searching \cap (Moving \cup Inserting \cup Paging) = {} /\ Moving \cap (Inserting \cup Paging) = {}
    /\ {"i", "a"} \subseteq Inserting
    /\ "w" \in Moving /\ "w" \in Enclosing /\ "w" \in Keys /\ "w" \notin Digits
<1>1. \A k \in Searching \cup Moving \cup Inserting \cup Paging \cup Commands : k \notin Digits
  BY MotionAssumption DEF Commands
<1>2. /\ Commands \cap (Searching \cup Moving \cup Inserting \cup Paging) = {}
      /\ Searching \cap (Moving \cup Inserting \cup Paging) = {} /\ Moving \cap (Inserting \cup Paging) = {}
      /\ {"i", "a"} \subseteq Inserting /\ "w" \in Moving /\ "w" \in Enclosing
  BY DEF Commands, Searching, Moving, Inserting, Paging, Enclosing
<1>3. "w" \in Keys
  BY MotionAssumption
<1> QED BY <1>1, <1>2, <1>3

\* A plain motion begins with a key that is no digit.
LEMMA PlainStarts ==
    ASSUME NEW s \in Seq(Keys), NEW k \in 1 .. (Len(s) + 1), PlainAt(s, k)
    PROVE  k <= Len(s) /\ s[k] \notin Digits /\ s[k] \in Moving \cup Searching \cup {"i", "a"}
<1>1. k <= Len(s) /\ s[k] \in Moving \cup Searching \cup {"i", "a"}
  BY DEF PlainAt
<1> QED BY <1>1, KeysApart

\* So does what a command is followed by, after its count.
LEMMA CommandedStarts ==
    ASSUME NEW s \in Seq(Keys), NEW n \in 1 .. Len(s), NEW m \in (n + 1) .. (Len(s) + 1), s[n] \in Commands,
           CommandedAt(s, n, m)
    PROVE  m <= Len(s) /\ s[m] \notin Digits
<1>1. CASE PlainAt(s, m)
  BY <1>1, PlainStarts
<1>2. CASE Len(s) = m /\ s[m] = s[n]
  BY <1>2, KeysApart
<1> QED BY <1>1, <1>2 DEF CommandedAt

\* And a motion, after its count.
LEMMA WholeStarts ==
    ASSUME NEW s \in Seq(Keys), NEW k \in 1 .. (Len(s) + 1), WholeAt(s, k)
    PROVE  k <= Len(s) /\ s[k] \notin Digits
<1>1. CASE PlainAt(s, k)
  BY <1>1, PlainStarts
<1>2. CASE Len(s) = k /\ s[k] \in Inserting \cup Paging
  BY <1>2, KeysApart
<1>3. CASE Len(s) > k /\ s[k] \in Commands
  BY <1>3, KeysApart
<1> QED BY <1>1, <1>2, <1>3 DEF WholeAt

\* There is one way only to tell the digits from what they count.
LEMMA WordAt ==
    ASSUME NEW s \in Seq(Keys), NEW m \in 1 .. Len(s), Digital(s, 1, m - 1), s[m] \notin Digits
    PROVE  IsMotion(s) <=> WholeAt(s, m)
<1>1. m \in 1 .. (Len(s) + 1)
  OBVIOUS
<1>2. ASSUME NEW k \in 1 .. (Len(s) + 1), Digital(s, 1, k - 1), WholeAt(s, k) PROVE k = m
  <2>1. k <= Len(s) /\ s[k] \notin Digits
    BY <1>2, WholeStarts
  <2>2. ~(k < m)
    BY <2>1 DEF Digital
  <2>3. ~(m < k)
    BY <1>2 DEF Digital
  <2> QED BY <2>2, <2>3
<1> QED BY <1>1, <1>2, MotionIs

\* A count alone is no motion.
LEMMA NoWord == ASSUME NEW s \in Seq(Keys), Digital(s, 1, Len(s)) PROVE ~IsMotion(s)
<1>1. ASSUME NEW k \in 1 .. (Len(s) + 1), WholeAt(s, k) PROVE FALSE
  <2>1. k <= Len(s) /\ s[k] \notin Digits
    BY <1>1, WholeStarts
  <2> QED BY <2>1 DEF Digital
<1> QED BY <1>1, MotionIs

\* After a count, a key that is no command begins a plain motion, or is one of inserting or paging.
LEMMA PlainWord ==
    ASSUME NEW s \in Seq(Keys), NEW m \in 1 .. Len(s), Digital(s, 1, m - 1), s[m] \notin Digits, s[m] \notin Commands
    PROVE  IsMotion(s) <=> (Len(s) = m /\ s[m] \in Inserting \cup Paging) \/ PlainAt(s, m)
<1>1. IsMotion(s) <=> WholeAt(s, m)
  BY WordAt
<1> QED BY <1>1 DEF WholeAt

\* Digits, a command and digits.
CommandIn(s, n, m) == n \in 1 .. (m - 1) /\ Digital(s, 1, n - 1) /\ s[n] \in Commands /\ Digital(s, n + 1, m - 1)

\* After a count and a command there is another count, and then what is commanded.
LEMMA CommandWhole ==
    ASSUME NEW s \in Seq(Keys), NEW n \in 1 .. Len(s), Digital(s, 1, n - 1), s[n] \in Commands
    PROVE  IsMotion(s) <=> \E k \in (n + 1) .. (Len(s) + 1) : Digital(s, n + 1, k - 1) /\ CommandedAt(s, n, k)
<1>1. s[n] \notin Digits /\ s[n] \notin Inserting \cup Paging /\ s[n] \notin Moving \cup Searching \cup {"i", "a"}
  BY KeysApart
<1>2. IsMotion(s) <=> WholeAt(s, n)
  BY <1>1, WordAt
<1>3. ~PlainAt(s, n)
  BY <1>1, PlainStarts
<1>4. ASSUME NEW k \in (n + 1) .. (Len(s) + 1), CommandedAt(s, n, k) PROVE Len(s) > n
  BY <1>4, CommandedStarts
<1> QED BY <1>1, <1>2, <1>3, <1>4 DEF WholeAt

\* A key that is no digit ends the count behind a command.
LEMMA CommandWord ==
    ASSUME NEW s \in Seq(Keys), NEW m \in 1 .. Len(s), NEW n, CommandIn(s, n, m), s[m] \notin Digits
    PROVE  IsMotion(s) <=> CommandedAt(s, n, m)
<1>1. n \in 1 .. Len(s) /\ m \in (n + 1) .. (Len(s) + 1)
  BY DEF CommandIn
<1>2. IsMotion(s) <=> \E k \in (n + 1) .. (Len(s) + 1) : Digital(s, n + 1, k - 1) /\ CommandedAt(s, n, k)
  BY <1>1, CommandWhole DEF CommandIn
<1>3. ASSUME NEW k \in (n + 1) .. (Len(s) + 1), Digital(s, n + 1, k - 1), CommandedAt(s, n, k) PROVE k = m
  <2>1. k <= Len(s) /\ s[k] \notin Digits
    BY <1>1, <1>3, CommandedStarts DEF CommandIn
  <2>2. ~(k < m)
    BY <1>1, <2>1 DEF Digital, CommandIn
  <2>3. ~(m < k)
    BY <1>1, <1>3 DEF Digital
  <2> QED BY <1>1, <2>2, <2>3
<1> QED BY <1>1, <1>2, <1>3 DEF CommandIn

\* A command with a count behind it is no motion yet.
LEMMA CommandOnly ==
    ASSUME NEW s \in Seq(Keys), NEW n, CommandIn(s, n, Len(s) + 1)
    PROVE  ~IsMotion(s)
<1>1. n \in 1 .. Len(s) /\ Digital(s, n + 1, Len(s)) /\ Digital(s, 1, n - 1) /\ s[n] \in Commands
  BY DEF CommandIn
<1>2. ASSUME NEW k \in (n + 1) .. (Len(s) + 1), CommandedAt(s, n, k) PROVE FALSE
  <2>1. k <= Len(s) /\ s[k] \notin Digits
    BY <1>1, <1>2, CommandedStarts
  <2> QED BY <1>1, <2>1 DEF Digital
<1> QED BY <1>1, <1>2, CommandWhole

\* Where a plain motion may begin.
Body(s, m) == Digital(s, 1, m - 1) \/ \E n \in 1 .. (m - 1) : CommandIn(s, n, m)

\* A search wants one more key, any.
LEMMA SearchWord ==
    ASSUME NEW s \in Seq(Keys), NEW m \in 1 .. Len(s), Body(s, m), s[m] \in Searching
    PROVE  IsMotion(s) <=> Len(s) = m + 1
<1>1. /\ s[m] \notin Digits /\ s[m] \notin Commands /\ s[m] \notin Moving /\ s[m] \notin Inserting \cup Paging
      /\ s[m] \notin {"i", "a"}
  BY KeysApart
<1>2. PlainAt(s, m) <=> Len(s) = m + 1
  BY <1>1 DEF PlainAt
<1>3. CASE Digital(s, 1, m - 1)
  BY <1>1, <1>2, <1>3, PlainWord
<1>4. ASSUME NEW n \in 1 .. (m - 1), CommandIn(s, n, m) PROVE IsMotion(s) <=> Len(s) = m + 1
  <2>1. s[m] # s[n]
    BY <1>1, <1>4 DEF CommandIn
  <2> QED BY <1>1, <1>2, <1>4, <2>1, CommandWord DEF CommandedAt
<1> QED BY <1>3, <1>4 DEF Body

\* Behind a command, i and a want one more key, of those that enclose.
LEMMA EncloseWord ==
    ASSUME NEW s \in Seq(Keys), NEW m \in 1 .. Len(s), NEW n \in 1 .. (m - 1), CommandIn(s, n, m), s[m] \in {"i", "a"}
    PROVE  IsMotion(s) <=> Len(s) = m + 1 /\ s[m + 1] \in Enclosing
<1>1. s[m] \notin Digits /\ s[m] \notin Commands /\ s[m] \notin Moving /\ s[m] \notin Searching
  BY KeysApart
<1>2. PlainAt(s, m) <=> Len(s) = m + 1 /\ s[m + 1] \in Enclosing
  BY <1>1 DEF PlainAt
<1>3. s[m] # s[n]
  BY <1>1 DEF CommandIn
<1> QED BY <1>1, <1>2, <1>3, CommandWord DEF CommandedAt

\* Nobody answers like that who takes the key.
LEMMA AnswersDiffer ==
    /\ \A m : Answer("DONE_CONSUME", m) # FAIL /\ Answer("DONE_NO_CONSUME", m) # FAIL
    /\ Answer("NO_DONE_CONSUME", Nowhere) # FAIL
    /\ \A st, m : Answer(st, m).state = st /\ Answer(st, m).next = m
    /\ FAIL.state = "NIL"
BY DEF Answer, FAIL

\* The first that takes the key.
LEMMA OrTwo ==
    ASSUME NEW a, NEW b, NEW key \in Keys
    PROVE  make_or(<<a, b>>)[key] = IF a[key] # FAIL THEN a[key] ELSE b[key]
<1> DEFINE ms == <<a, b>>
           taken == {i \in 1 .. 2 : ms[i][key] # FAIL}
<1>1. make_or(ms)[key] = IF taken = {} THEN FAIL ELSE ms[Min(taken)][key]
  BY DEF make_or
<1>2. taken \in SUBSET Nat /\ (1 \in taken <=> a[key] # FAIL) /\ (2 \in taken <=> b[key] # FAIL) /\ taken \subseteq {1, 2}
      /\ ms[1] = a /\ ms[2] = b
  OBVIOUS
<1> HIDE DEF taken, ms
<1>3. taken # {} => Min(taken) \in taken /\ \A i \in taken : Min(taken) <= i
  BY <1>2, MinIs
<1> DEFINE m == Min(taken)
<1>3a. /\ 1 \in taken \/ 2 \in taken => m \in {1, 2} /\ m \in taken
       /\ 1 \in taken => m <= 1
       /\ 2 \in taken => m <= 2
  BY <1>2, <1>3
<1> HIDE DEF m
<1>4. /\ 1 \in taken => m = 1
      /\ 1 \notin taken /\ 2 \in taken => m = 2
  BY <1>3a
<1>5. taken = {} <=> 1 \notin taken /\ 2 \notin taken
  BY <1>2
<1> QED BY <1>1, <1>2, <1>4, <1>5 DEF ms, m

\* Of four alternatives the first that does not fail answers.
LEMMA OrFour ==
    ASSUME NEW a, NEW b, NEW c, NEW d, NEW key \in Keys
    PROVE  make_or(<<a, b, c, d>>)[key] = IF a[key] # FAIL THEN a[key] ELSE IF b[key] # FAIL THEN b[key]
                                          ELSE IF c[key] # FAIL THEN c[key] ELSE d[key]
<1> DEFINE ms == <<a, b, c, d>>
           taken == {i \in 1 .. 4 : ms[i][key] # FAIL}
<1>1. make_or(ms)[key] = IF taken = {} THEN FAIL ELSE ms[Min(taken)][key]
  BY DEF make_or
<1>2. /\ taken \in SUBSET Nat /\ taken \subseteq {1, 2, 3, 4}
      /\ (1 \in taken <=> a[key] # FAIL) /\ (2 \in taken <=> b[key] # FAIL)
      /\ (3 \in taken <=> c[key] # FAIL) /\ (4 \in taken <=> d[key] # FAIL)
      /\ ms[1] = a /\ ms[2] = b /\ ms[3] = c /\ ms[4] = d
  OBVIOUS
<1> HIDE DEF taken, ms
<1>3. taken # {} => Min(taken) \in taken /\ \A i \in taken : Min(taken) <= i
  BY <1>2, MinIs
<1> DEFINE m == Min(taken)
<1>3a. /\ 1 \in taken \/ 2 \in taken \/ 3 \in taken \/ 4 \in taken => m \in {1, 2, 3, 4} /\ m \in taken
       /\ 1 \in taken => m <= 1
       /\ 2 \in taken => m <= 2
       /\ 3 \in taken => m <= 3
       /\ 4 \in taken => m <= 4
  BY <1>2, <1>3
<1> HIDE DEF m
<1>4. /\ 1 \in taken => m = 1
      /\ 1 \notin taken /\ 2 \in taken => m = 2
      /\ 1 \notin taken /\ 2 \notin taken /\ 3 \in taken => m = 3
      /\ 1 \notin taken /\ 2 \notin taken /\ 3 \notin taken /\ 4 \in taken => m = 4
  BY <1>3a
<1>5. taken = {} <=> 1 \notin taken /\ 2 \notin taken /\ 3 \notin taken /\ 4 \notin taken
  BY <1>2
<1> QED BY <1>1, <1>2, <1>4, <1>5 DEF ms, m

\* So with three.
LEMMA OrThree ==
    ASSUME NEW a, NEW b, NEW c, NEW key \in Keys
    PROVE  make_or(<<a, b, c>>)[key] = IF a[key] # FAIL THEN a[key] ELSE IF b[key] # FAIL THEN b[key] ELSE c[key]
<1> DEFINE ms == <<a, b, c>>
           taken == {i \in 1 .. 3 : ms[i][key] # FAIL}
<1>1. make_or(ms)[key] = IF taken = {} THEN FAIL ELSE ms[Min(taken)][key]
  BY DEF make_or
<1>2. /\ taken \in SUBSET Nat /\ taken \subseteq {1, 2, 3}
      /\ (1 \in taken <=> a[key] # FAIL) /\ (2 \in taken <=> b[key] # FAIL) /\ (3 \in taken <=> c[key] # FAIL)
      /\ ms[1] = a /\ ms[2] = b /\ ms[3] = c
  OBVIOUS
<1> HIDE DEF taken, ms
<1>3. taken # {} => Min(taken) \in taken /\ \A i \in taken : Min(taken) <= i
  BY <1>2, MinIs
<1> DEFINE m == Min(taken)
<1>3a. /\ 1 \in taken \/ 2 \in taken \/ 3 \in taken => m \in {1, 2, 3} /\ m \in taken
       /\ 1 \in taken => m <= 1
       /\ 2 \in taken => m <= 2
       /\ 3 \in taken => m <= 3
  BY <1>2, <1>3
<1> HIDE DEF m
<1>4. /\ 1 \in taken => m = 1
      /\ 1 \notin taken /\ 2 \in taken => m = 2
      /\ 1 \notin taken /\ 2 \notin taken /\ 3 \in taken => m = 3
  BY <1>3a
<1>5. taken = {} <=> 1 \notin taken /\ 2 \notin taken /\ 3 \notin taken
  BY <1>2
<1> QED BY <1>1, <1>2, <1>4, <1>5 DEF ms, m

\* A motion that is awaited is somewhere.
LEMMA Somewhere == ASSUME NEW m, DOMAIN m = Keys PROVE m # Nowhere
<1>1. "w" \in DOMAIN m
  BY KeysApart
<1>2. DOMAIN Nowhere = {}
  BY DEF Nowhere
<1> QED BY <1>1, <1>2

\* The motions of the tree that have no name there, and what a plain motion answers.
Anything == make_any_key(Nowhere)
Enclosed == make_key(Enclosing, Nowhere)
plain == make_or(<<simple_motions, complex_motion>>)
plainOr(k) == make_or(<<simple_motions, complex_motion, make_key({k}, Nowhere)>>)
Answering(key) ==
  IF key \in Searching THEN Answer("DONE_CONSUME", Anything)
  ELSE IF key \in Moving THEN Answer("DONE_CONSUME", Nowhere)
  ELSE IF key \in {"i", "a"} THEN Answer("DONE_CONSUME", Enclosed)
  ELSE FAIL

\* What a plain motion answers.
LEMMA PlainAnswers == ASSUME NEW key \in Keys PROVE plain[key] = Answering(key)
<1>1. make_key(Searching, Anything)[key] = IF key \in Searching THEN Answer("DONE_CONSUME", Anything) ELSE FAIL
  BY DEF make_key
<1>2. make_key(Moving, Nowhere)[key] = IF key \in Moving THEN Answer("DONE_CONSUME", Nowhere) ELSE FAIL
  BY DEF make_key
<1>3. complex_motion[key] = IF key \in {"i", "a"} THEN Answer("DONE_CONSUME", Enclosed) ELSE FAIL
  BY DEF make_key, complex_motion, Enclosed
<1>4. simple_motions[key] = IF make_key(Searching, Anything)[key] # FAIL THEN make_key(Searching, Anything)[key]
                            ELSE make_key(Moving, Nowhere)[key]
  BY OrTwo DEF simple_motions, Anything
<1>5. plain[key] = IF simple_motions[key] # FAIL THEN simple_motions[key] ELSE complex_motion[key]
  BY OrTwo DEF plain
<1> QED BY <1>1, <1>2, <1>3, <1>4, <1>5, AnswersDiffer, Zenon DEF Answering

\* What the motions behind a command answer: the command's key again is one.
LEMMA CommandAnswers ==
    ASSUME NEW key \in Keys, NEW k
    PROVE  plainOr(k)[key] = IF Answering(key) # FAIL THEN Answering(key)
                             ELSE IF key = k THEN Answer("DONE_CONSUME", Nowhere) ELSE FAIL
<1>1. plainOr(k)[key] = IF simple_motions[key] # FAIL THEN simple_motions[key]
                        ELSE IF complex_motion[key] # FAIL THEN complex_motion[key]
                        ELSE make_key({k}, Nowhere)[key]
  BY OrThree DEF plainOr
<1>2. plain[key] = IF simple_motions[key] # FAIL THEN simple_motions[key] ELSE complex_motion[key]
  BY OrTwo DEF plain
<1>3. make_key({k}, Nowhere)[key] = IF key = k THEN Answer("DONE_CONSUME", Nowhere) ELSE FAIL
  BY DEF make_key
<1>4. plainOr(k)[key] = IF plain[key] # FAIL THEN plain[key] ELSE make_key({k}, Nowhere)[key]
  BY <1>1, <1>2, Zenon
<1> QED BY <1>3, <1>4, PlainAnswers, Zenon

\* What a number answers.
LEMMA NumberAnswers ==
    ASSUME NEW key \in Keys, NEW next
    PROVE  make_number(next)[key] = IF key \in Digits THEN Answer("NO_DONE_CONSUME", Nowhere)
                                    ELSE Answer("DONE_NO_CONSUME", next)
BY DEF make_number

\* Behind the first number all keys go to the commands.
behind == make_or(<<command_motions, make_key({"z"}, make_key({"z"}, Nowhere)),
                    make_key({"g"}, make_key({"g"}, Nowhere)), make_key({"u", "^R"}, Nowhere)>>)

\* What the motions behind the count at the head answer.
LEMMA BehindAnswers ==
    ASSUME NEW key \in Keys, key \notin Digits
    PROVE  behind[key] = IF key \in {"y", "d", "c"} THEN Answer("DONE_CONSUME", make_numbered_command_motion(key))
                         ELSE Answer("DONE_NO_CONSUME", plain)
<1>1. \A k : Command(k)[key] = IF key = k THEN Answer("DONE_CONSUME", make_numbered_command_motion(k)) ELSE FAIL
  BY DEF Command, make_key
<1>2. numbered[key] = Answer("DONE_NO_CONSUME", plain)
  BY NumberAnswers DEF numbered, plain
<1>3. command_motions[key] = IF Command("y")[key] # FAIL THEN Command("y")[key]
                             ELSE IF Command("d")[key] # FAIL THEN Command("d")[key]
                             ELSE IF Command("c")[key] # FAIL THEN Command("c")[key] ELSE numbered[key]
  BY OrFour DEF command_motions
<1> DEFINE z == make_key({"z"}, make_key({"z"}, Nowhere))
           g == make_key({"g"}, make_key({"g"}, Nowhere))
           u == make_key({"u", "^R"}, Nowhere)
<1>4. behind[key] = IF command_motions[key] # FAIL THEN command_motions[key] ELSE IF z[key] # FAIL THEN z[key]
                    ELSE IF g[key] # FAIL THEN g[key] ELSE u[key]
  <2> HIDE DEF z, g, u
  <2> QED BY OrFour DEF behind, z, g, u
<1> HIDE DEF z, g, u
<1>5. command_motions[key] = IF key \in {"y", "d", "c"} THEN Answer("DONE_CONSUME", make_numbered_command_motion(key))
                             ELSE Answer("DONE_NO_CONSUME", plain)
  <2>1. CASE key = "y"
    BY <1>1, <1>3, <2>1, AnswersDiffer, Zenon
  <2>2. CASE key = "d"
    <3>1. Command("y")[key] = FAIL
      BY <1>1, <2>2
    <3> QED BY <1>1, <1>3, <2>2, <3>1, AnswersDiffer, Zenon
  <2>3. CASE key = "c"
    <3>1. Command("y")[key] = FAIL /\ Command("d")[key] = FAIL
      BY <1>1, <2>3
    <3> QED BY <1>1, <1>3, <2>3, <3>1, AnswersDiffer, Zenon
  <2>4. CASE key \notin {"y", "d", "c"}
    <3>1. Command("y")[key] = FAIL /\ Command("d")[key] = FAIL /\ Command("c")[key] = FAIL
      BY <1>1, <2>4
    <3> QED BY <1>2, <1>3, <2>4, <3>1, Zenon
  <2> QED BY <2>1, <2>2, <2>3, <2>4
<1>6. command_motions[key] # FAIL
  BY <1>5, AnswersDiffer, Zenon
<1> QED BY <1>4, <1>5, <1>6, Zenon

\* What the head answers.
LEMMA AllAnswers ==
    ASSUME NEW key \in Keys
    PROVE  all_motions[key] = IF key = "v" THEN Answer("DONE_CONSUME", numbered)
                              ELSE IF key \in Inserting \cup Paging THEN Answer("DONE_CONSUME", Nowhere)
                              ELSE IF key \in Digits THEN Answer("NO_DONE_CONSUME", Nowhere)
                              ELSE Answer("DONE_NO_CONSUME", behind)
<1> DEFINE ins == make_key(Inserting, Nowhere)
           pag == make_key(Paging, Nowhere)
<1>1. visual[key] = IF key = "v" THEN Answer("DONE_CONSUME", numbered) ELSE FAIL
  BY DEF visual, make_key
<1>2. /\ ins[key] = IF key \in Inserting THEN Answer("DONE_CONSUME", Nowhere) ELSE FAIL
      /\ pag[key] = IF key \in Paging THEN Answer("DONE_CONSUME", Nowhere) ELSE FAIL
  BY DEF make_key
<1>3. numbered_command_motions[key] = IF key \in Digits THEN Answer("NO_DONE_CONSUME", Nowhere)
                                      ELSE Answer("DONE_NO_CONSUME", behind)
  BY NumberAnswers DEF numbered_command_motions, behind
<1> HIDE DEF ins, pag
<1>4. all_motions[key] = IF visual[key] # FAIL THEN visual[key] ELSE IF ins[key] # FAIL THEN ins[key]
                         ELSE IF pag[key] # FAIL THEN pag[key] ELSE numbered_command_motions[key]
  BY OrFour DEF all_motions, ins, pag
<1>5. key \in Inserting \cup Paging <=> key \in Inserting \/ key \in Paging
  OBVIOUS
<1> QED BY <1>1, <1>2, <1>3, <1>4, <1>5, AnswersDiffer, Zenon

\* Where the loop of feedkey stops: after no number, one or two.
LEMMA SettledIs ==
    ASSUME NEW key \in Keys, NEW m
    PROVE  /\ m[key].state # "DONE_NO_CONSUME" => Settled(m, key) = m
           /\ \A n : m[key] = Answer("DONE_NO_CONSUME", n) /\ n[key].state # "DONE_NO_CONSUME" => Settled(m, key) = n
           /\ \A n, o : m[key] = Answer("DONE_NO_CONSUME", n) /\ n[key] = Answer("DONE_NO_CONSUME", o)
                          => Settled(m, key) = o
BY AnswersDiffer DEF Settled

Fed(next, did) == [curr |-> next, last |-> did]

\* What a key does, by the answer of the motion where the loop stops.
LEMMA FeedIs ==
    ASSUME NEW key \in Keys, NEW m, NEW n, Settled(m, key) = n
    PROVE  /\ n[key] = FAIL => Feed(m, key) = Fed(Nowhere, "dropped")
           /\ n[key] = Answer("NO_DONE_CONSUME", Nowhere) => Feed(m, key) = Fed(n, "going on")
           /\ n[key] = Answer("DONE_CONSUME", Nowhere) => Feed(m, key) = Fed(Nowhere, "motion")
           /\ \A o : n[key] = Answer("DONE_CONSUME", o) /\ o # Nowhere => Feed(m, key) = Fed(o, "going on")
<1>1. Feed(m, key) = CASE n[key].state = "NIL" -> Fed(Nowhere, "dropped")
                       [] n[key].state = "DONE_CONSUME" ->
                            Fed(n[key].next, IF n[key].next = Nowhere THEN "motion" ELSE "going on")
                       [] n[key].state = "NO_DONE_CONSUME" -> Fed(n, "going on")
  BY DEF Feed, Fed
<1>2. ASSUME n[key] = FAIL PROVE Feed(m, key) = Fed(Nowhere, "dropped")
  <2>1. n[key].state = "NIL"
    BY <1>2, AnswersDiffer
  <2> QED BY <1>1, <2>1
<1>3. ASSUME n[key] = Answer("NO_DONE_CONSUME", Nowhere) PROVE Feed(m, key) = Fed(n, "going on")
  <2>1. n[key].state = "NO_DONE_CONSUME"
    BY <1>3, AnswersDiffer
  <2> QED BY <1>1, <2>1
<1>4. ASSUME NEW o, n[key] = Answer("DONE_CONSUME", o)
      PROVE  Feed(m, key) = Fed(o, IF o = Nowhere THEN "motion" ELSE "going on")
  <2>1. n[key].state = "DONE_CONSUME" /\ n[key].next = o
    BY <1>4, AnswersDiffer
  <2> QED BY <1>1, <2>1
<1> QED BY <1>2, <1>3, <1>4

\* No motion that is awaited is the end.
LEMMA NodesAre ==
    /\ all_motions # Nowhere /\ numbered # Nowhere /\ Anything # Nowhere /\ Enclosed # Nowhere
    /\ \A k : make_numbered_command_motion(k) # Nowhere
<1>1. DOMAIN all_motions = Keys /\ DOMAIN numbered = Keys
  BY DEF all_motions, make_or, numbered, make_number
<1>2. DOMAIN Anything = Keys /\ DOMAIN Enclosed = Keys
  BY DEF Anything, make_any_key, Enclosed, make_key
<1>3. \A k : DOMAIN make_numbered_command_motion(k) = Keys
  BY DEF make_numbered_command_motion, make_number
<1> QED BY <1>1, <1>2, <1>3, Somewhere

\* What the next motion is when the key is taken as a plain motion's.
PlainFed(key) ==
  IF key \in Searching THEN Fed(Anything, "going on")
  ELSE IF key \in Moving THEN Fed(Nowhere, "motion")
  ELSE IF key \in {"i", "a"} THEN Fed(Enclosed, "going on")
  ELSE Fed(Nowhere, "dropped")

\* Searches go on, movements are whole, i and a go on, and other keys fail.
LEMMA AnsweringIs ==
    ASSUME NEW key
    PROVE  /\ key \in Searching => Answering(key) = Answer("DONE_CONSUME", Anything)
           /\ key \in Moving => Answering(key) = Answer("DONE_CONSUME", Nowhere)
           /\ key \in {"i", "a"} => Answering(key) = Answer("DONE_CONSUME", Enclosed)
           /\ key \notin Searching \cup Moving \cup {"i", "a"} => Answering(key) = FAIL
           /\ Answering(key).state # "DONE_NO_CONSUME"
<1>1. /\ key \in Searching => key \notin Moving /\ key \notin {"i", "a"}
      /\ key \in Moving => key \notin {"i", "a"}
  BY KeysApart
<1>2. /\ key \in Searching => Answering(key) = Answer("DONE_CONSUME", Anything)
      /\ key \in Moving => Answering(key) = Answer("DONE_CONSUME", Nowhere)
      /\ key \in {"i", "a"} => Answering(key) = Answer("DONE_CONSUME", Enclosed)
      /\ key \notin Searching \cup Moving \cup {"i", "a"} => Answering(key) = FAIL
  BY <1>1 DEF Answering
<1>3. Answering(key).state # "DONE_NO_CONSUME"
  BY <1>2, AnswersDiffer
<1> QED BY <1>2, <1>3

\* Where a plain motion answers, it decides what the key does.
LEMMA PlainFeeds ==
    ASSUME NEW key \in Keys, NEW m, Settled(m, key)[key] = Answering(key)
    PROVE  Feed(m, key) = PlainFed(key)
<1> DEFINE n == Settled(m, key)
<1>1. n[key] = Answering(key)
  OBVIOUS
<1> HIDE DEF n
<1>2. n = Settled(m, key)
  BY DEF n
<1>3. /\ n[key] = FAIL => Feed(m, key) = Fed(Nowhere, "dropped")
      /\ n[key] = Answer("DONE_CONSUME", Nowhere) => Feed(m, key) = Fed(Nowhere, "motion")
      /\ n[key] = Answer("DONE_CONSUME", Anything) => Feed(m, key) = Fed(Anything, "going on")
      /\ n[key] = Answer("DONE_CONSUME", Enclosed) => Feed(m, key) = Fed(Enclosed, "going on")
  BY <1>2, FeedIs, NodesAre
<1>4. /\ key \in Searching => Answering(key) = Answer("DONE_CONSUME", Anything)
      /\ key \in Moving => Answering(key) = Answer("DONE_CONSUME", Nowhere)
      /\ key \in {"i", "a"} => Answering(key) = Answer("DONE_CONSUME", Enclosed)
      /\ key \notin Searching \cup Moving \cup {"i", "a"} => Answering(key) = FAIL
  BY AnsweringIs
<1> QED BY <1>1, <1>3, <1>4 DEF PlainFed

\* What a key does at the head.
LEMMA FeedHead ==
    ASSUME NEW key \in Keys
    PROVE  /\ key \in Digits => Feed(all_motions, key) = Fed(all_motions, "going on")
           /\ key = "v" => Feed(all_motions, key) = Fed(numbered, "going on")
           /\ key \in {"y", "d", "c"} => Feed(all_motions, key) = Fed(make_numbered_command_motion(key), "going on")
           /\ key \in Inserting \cup Paging => Feed(all_motions, key) = Fed(Nowhere, "motion")
           /\ key \notin Digits \cup Commands \cup Inserting \cup Paging => Feed(all_motions, key) = PlainFed(key)
<1> DEFINE a == all_motions
           b == behind
<1>0. /\ a[key] = IF key = "v" THEN Answer("DONE_CONSUME", numbered)
                  ELSE IF key \in Inserting \cup Paging THEN Answer("DONE_CONSUME", Nowhere)
                  ELSE IF key \in Digits THEN Answer("NO_DONE_CONSUME", Nowhere)
                  ELSE Answer("DONE_NO_CONSUME", b)
      /\ a # Nowhere /\ numbered # Nowhere /\ make_numbered_command_motion(key) # Nowhere
  BY AllAnswers, NodesAre
<1>1. ASSUME key \notin Digits
      PROVE  b[key] = IF key \in {"y", "d", "c"} THEN Answer("DONE_CONSUME", make_numbered_command_motion(key))
                      ELSE Answer("DONE_NO_CONSUME", plain)
  BY <1>1, BehindAnswers
<1> HIDE DEF a, b
<1>2. CASE key \in Digits
  <2>1. key # "v" /\ key \notin Inserting \cup Paging /\ key \notin {"y", "d", "c"}
    BY <1>2, KeysApart DEF Commands
  <2>2. a[key] = Answer("NO_DONE_CONSUME", Nowhere)
    BY <1>0, <1>2, <2>1
  <2>3. Settled(a, key) = a
    BY <2>2, SettledIs, AnswersDiffer
  <2>4. Feed(a, key) = Fed(a, "going on")
    BY <2>2, <2>3, FeedIs
  <2> QED BY <1>2, <2>1, <2>4 DEF a
<1>3. CASE key = "v"
  <2>1. key \notin Digits /\ key \notin Inserting \cup Paging /\ key \in Commands
    BY <1>3, KeysApart DEF Commands
  <2>2. a[key] = Answer("DONE_CONSUME", numbered)
    BY <1>0, <1>3
  <2>3. Settled(a, key) = a
    BY <2>2, SettledIs, AnswersDiffer
  <2>4. Feed(a, key) = Fed(numbered, "going on")
    BY <1>0, <2>2, <2>3, FeedIs
  <2> QED BY <1>3, <2>1, <2>4 DEF a
<1>4. CASE key \in Inserting \cup Paging
  <2>1. key \notin Digits /\ key \notin Commands /\ key # "v" /\ key \notin {"y", "d", "c"}
    BY <1>4, KeysApart DEF Commands
  <2>2. a[key] = Answer("DONE_CONSUME", Nowhere)
    BY <1>0, <1>4, <2>1
  <2>3. Settled(a, key) = a
    BY <2>2, SettledIs, AnswersDiffer
  <2>4. Feed(a, key) = Fed(Nowhere, "motion")
    BY <1>0, <2>2, <2>3, FeedIs
  <2> QED BY <1>4, <2>1, <2>4 DEF a
<1>5. CASE key \in {"y", "d", "c"}
  <2>1. key \notin Digits /\ key \notin Inserting \cup Paging /\ key # "v" /\ key \in Commands
    BY <1>5, KeysApart DEF Commands
  <2>2. a[key] = Answer("DONE_NO_CONSUME", b)
    BY <1>0, <2>1
  <2>3. b[key] = Answer("DONE_CONSUME", make_numbered_command_motion(key))
    BY <1>1, <1>5, <2>1
  <2>4. Settled(a, key) = b
    BY <2>2, <2>3, SettledIs, AnswersDiffer
  <2>5. Feed(a, key) = Fed(make_numbered_command_motion(key), "going on")
    BY <1>0, <2>3, <2>4, FeedIs
  <2> QED BY <1>5, <2>1, <2>5 DEF a
<1>6. CASE key \notin Digits \cup Commands \cup Inserting \cup Paging
  <2>1. key \notin Digits /\ key # "v" /\ key \notin {"y", "d", "c"} /\ key \notin Inserting \cup Paging
    BY <1>6 DEF Commands
  <2>2. a[key] = Answer("DONE_NO_CONSUME", b)
    BY <1>0, <2>1
  <2>3. b[key] = Answer("DONE_NO_CONSUME", plain)
    BY <1>1, <2>1
  <2>4. Settled(a, key) = plain
    BY <2>2, <2>3, SettledIs
  <2>5. Feed(a, key) = PlainFed(key)
    BY <2>4, PlainAnswers, PlainFeeds
  <2> QED BY <2>1, <2>5 DEF a
<1> QED BY <1>2, <1>3, <1>4, <1>5, <1>6 DEF Commands

\* Behind a command, the visual one or another.
Commanded(k) == IF k = "v" THEN numbered ELSE make_numbered_command_motion(k)

\* What a key does behind a command.
LEMMA FeedCommand ==
    ASSUME NEW key \in Keys, NEW k \in Commands
    PROVE  /\ key \in Digits => Feed(Commanded(k), key) = Fed(Commanded(k), "going on")
           /\ key \notin Digits => Feed(Commanded(k), key) = IF k # "v" /\ key = k THEN Fed(Nowhere, "motion")
                                                             ELSE PlainFed(key)
<1> DEFINE next == IF k = "v" THEN plain ELSE plainOr(k)
           c == Commanded(k)
<1>1. c = make_number(next)
  BY DEF Commanded, numbered, make_numbered_command_motion, plain, plainOr
<1>2. next[key] = IF k # "v" /\ key = k THEN Answer("DONE_CONSUME", Nowhere) ELSE Answering(key)
  <2>1. CASE k = "v"
    BY <2>1, PlainAnswers
  <2>2. CASE k # "v"
    <3>1. plainOr(k)[key] = IF Answering(key) # FAIL THEN Answering(key)
                            ELSE IF key = k THEN Answer("DONE_CONSUME", Nowhere) ELSE FAIL
      BY CommandAnswers
    <3>2. Answering(k) = FAIL
      <4>1. k \notin Searching \cup Moving \cup {"i", "a"}
        BY KeysApart
      <4> QED BY <4>1, AnsweringIs
    <3> QED BY <2>2, <3>1, <3>2
  <2> QED BY <2>1, <2>2
<1> HIDE DEF next, c
<1>3. c[key] = IF key \in Digits THEN Answer("NO_DONE_CONSUME", Nowhere) ELSE Answer("DONE_NO_CONSUME", next)
  BY <1>1, NumberAnswers
<1>4. CASE key \in Digits
  <2>1. Settled(c, key) = c
    BY <1>3, <1>4, SettledIs, AnswersDiffer
  <2> QED BY <1>3, <1>4, <2>1, FeedIs DEF c
<1>5. CASE key \notin Digits
  <2>1. next[key].state # "DONE_NO_CONSUME"
    BY <1>2, AnsweringIs, AnswersDiffer
  <2>2. Settled(c, key) = next
    BY <1>3, <1>5, <2>1, SettledIs
  <2>3. CASE k # "v" /\ key = k
    BY <1>2, <1>5, <2>2, <2>3, FeedIs DEF c
  <2>4. CASE ~(k # "v" /\ key = k)
    BY <1>2, <1>5, <2>2, <2>4, PlainFeeds DEF c
  <2> QED BY <2>3, <2>4
<1> QED BY <1>4, <1>5

\* What it does behind a search, or behind i and a.
LEMMA FeedLast ==
    ASSUME NEW key \in Keys
    PROVE  /\ Feed(Anything, key) = Fed(Nowhere, "motion")
           /\ Feed(Enclosed, key) = IF key \in Enclosing THEN Fed(Nowhere, "motion") ELSE Fed(Nowhere, "dropped")
<1>1. Anything[key] = Answer("DONE_CONSUME", Nowhere)
  BY DEF Anything, make_any_key
<1>2. Enclosed[key] = IF key \in Enclosing THEN Answer("DONE_CONSUME", Nowhere) ELSE FAIL
  BY DEF Enclosed, make_key
<1>3. Settled(Anything, key) = Anything /\ Settled(Enclosed, key) = Enclosed
  BY <1>1, <1>2, SettledIs, AnswersDiffer
<1> QED BY <1>1, <1>2, <1>3, FeedIs

\* No motion begins like that.
Dead(p) == \A more \in Seq(Keys) : ~IsMotion(p \o more)
\* What has been typed of a motion when the next motion is c.
Where(t, c) ==
  \/ Len(t) # 0 /\ Digital(t, 1, Len(t)) /\ c = all_motions
  \/ \E n \in 1 .. Len(t) : CommandIn(t, n, Len(t) + 1) /\ c = Commanded(t[n])
  \/ Len(t) # 0 /\ Body(t, Len(t)) /\ t[Len(t)] \in Searching /\ c = Anything
  \/ \E n \in 1 .. (Len(t) - 1) : CommandIn(t, n, Len(t)) /\ t[Len(t)] \in {"i", "a"} /\ c = Enclosed
\* What a key should do when p has been typed with it.
Outcome(p, fed) ==
  /\ fed.last \in {"motion", "dropped", "going on"}
  /\ fed.last # "going on" => fed.curr = Nowhere
  /\ fed.last = "motion" => IsMotion(p)
  /\ fed.last = "dropped" => Dead(p)
  /\ fed.last = "going on" => Where(p, fed.curr)

\* s begins with p.
Begins(s, p) == Len(s) >= Len(p) /\ \A i \in 1 .. Len(p) : s[i] = p[i]

\* A word that goes on begins as it did, and has the rest behind it.
LEMMA JoinIs ==
    ASSUME NEW p \in Seq(Keys), NEW more \in Seq(Keys)
    PROVE  /\ p \o more \in Seq(Keys) /\ Len(p \o more) = Len(p) + Len(more) /\ Begins(p \o more, p)
           /\ \A i \in 1 .. Len(more) : (p \o more)[Len(p) + i] = more[i]
BY DEF Begins

\* Counts, commands and bodies stay where they are however a word goes on.
LEMMA BeginsKeeps ==
    ASSUME NEW p \in Seq(Keys), NEW s \in Seq(Keys), Begins(s, p), NEW m \in 1 .. (Len(p) + 1)
    PROVE  /\ \A a \in 1 .. m : Digital(p, a, m - 1) => Digital(s, a, m - 1)
           /\ \A n : CommandIn(p, n, m) => CommandIn(s, n, m) /\ s[n] = p[n] /\ n \in 1 .. Len(p)
           /\ Body(p, m) => Body(s, m)
<1>1. \A i \in 1 .. (m - 1) : i \in 1 .. Len(p) /\ s[i] = p[i]
  BY DEF Begins
<1>2. \A a \in 1 .. m : Digital(p, a, m - 1) => Digital(s, a, m - 1)
  BY <1>1 DEF Digital
<1>3. ASSUME NEW n, CommandIn(p, n, m) PROVE CommandIn(s, n, m) /\ s[n] = p[n] /\ n \in 1 .. Len(p)
  <2>1. n \in 1 .. (m - 1) /\ p[n] \in Commands /\ Digital(p, 1, n - 1) /\ Digital(p, n + 1, m - 1)
    BY <1>3 DEF CommandIn
  <2>2. n \in 1 .. Len(p) /\ s[n] = p[n] /\ n + 1 \in 1 .. m
    BY <1>1, <2>1
  <2>3. Digital(s, 1, n - 1)
    BY <1>1, <2>1 DEF Digital
  <2>4. Digital(s, n + 1, m - 1)
    BY <1>2, <2>1, <2>2
  <2> QED BY <2>1, <2>2, <2>3, <2>4 DEF CommandIn
<1>4. Body(p, m) => Body(s, m)
  <2>1. 1 \in 1 .. m
    OBVIOUS
  <2> QED BY <1>2, <1>3, <2>1 DEF Body
<1> QED BY <1>2, <1>3, <1>4

\* One more key.
LEMMA TypedIs ==
    ASSUME NEW t \in Seq(Keys), NEW key \in Keys
    PROVE  /\ Append(t, key) \in Seq(Keys) /\ Len(Append(t, key)) = Len(t) + 1 /\ Append(t, key)[Len(t) + 1] = key
           /\ Begins(Append(t, key), t)
           /\ \A s \in Seq(Keys) : Begins(s, Append(t, key)) => Begins(s, t) /\ Len(s) >= Len(t) + 1 /\ s[Len(t) + 1] = key
<1> DEFINE p == Append(t, key)
<1>1. /\ p \in Seq(Keys) /\ Len(p) = Len(t) + 1 /\ p[Len(t) + 1] = key /\ Len(t) \in Nat
      /\ \A i \in 1 .. Len(t) : p[i] = t[i]
  OBVIOUS
<1> HIDE DEF p
<1>2. \A i \in 1 .. Len(t) : i \in 1 .. Len(p)
  BY <1>1
<1>3. Len(t) + 1 \in 1 .. Len(p)
  BY <1>1
<1>4. ASSUME NEW s \in Seq(Keys), Begins(s, p) PROVE Begins(s, t) /\ Len(s) >= Len(t) + 1 /\ s[Len(t) + 1] = key
  BY <1>1, <1>2, <1>3, <1>4 DEF Begins
<1>5. Begins(p, t)
  BY <1>1 DEF Begins
<1> QED BY <1>1, <1>4, <1>5 DEF p

\* A sequence begins with itself, and is no motion's beginning if nothing that begins with it is one.
LEMMA DeadIs ==
    ASSUME NEW p \in Seq(Keys)
    PROVE  Begins(p, p) /\ ((\A s \in Seq(Keys) : Begins(s, p) => ~IsMotion(s)) => Dead(p))
<1>1. Begins(p, p)
  BY DEF Begins
<1>2. \A more \in Seq(Keys) : p \o more \in Seq(Keys) /\ Begins(p \o more, p)
  BY JoinIs
<1> QED BY <1>1, <1>2, Zenon DEF Dead

\* A motion that is awaited is an outcome.
LEMMA GoesOn == ASSUME NEW p, NEW c, Where(p, c) PROVE Outcome(p, Fed(c, "going on"))
BY DEF Outcome, Fed

\* A key that begins a plain motion, or none, where the one that it is taken for would begin.
LEMMA PlainOutcome ==
    ASSUME NEW t \in Seq(Keys), NEW key \in Keys, key \notin Digits, NEW n \in 1 .. Len(t),
           CommandIn(t, n, Len(t) + 1)
    PROVE  Outcome(Append(t, key), IF t[n] # "v" /\ key = t[n] THEN Fed(Nowhere, "motion") ELSE PlainFed(key))
<1> DEFINE p == Append(t, key)
           m == Len(t) + 1
<1>1. /\ p \in Seq(Keys) /\ Len(p) = m /\ p[m] = key /\ Begins(p, t) /\ m \in 1 .. m /\ m \in Nat
      /\ \A s \in Seq(Keys) : Begins(s, p) => Begins(s, t) /\ Len(s) >= m /\ s[m] = key
      /\ m \in 1 .. (Len(t) + 1) /\ Len(t) = m - 1
  BY TypedIs
<1>0. Begins(p, p)
  BY <1>1, DeadIs
<1> HIDE DEF p
<1>2. ASSUME NEW s \in Seq(Keys), Begins(s, p)
      PROVE  /\ CommandIn(s, n, m) /\ s[n] = t[n] /\ s[m] = key
             /\ IsMotion(s) <=> PlainAt(s, m) \/ (t[n] # "v" /\ Len(s) = m /\ key = t[n])
  <2>1. Begins(s, t) /\ Len(s) >= m /\ s[m] = key
    BY <1>1, <1>2
  <2>2. CommandIn(s, n, m) /\ s[n] = t[n]
    BY <1>1, <2>1, BeginsKeeps
  <2>3. m \in 1 .. Len(s)
    BY <1>1, <2>1
  <2> HIDE DEF m
  <2>4. IsMotion(s) <=> CommandedAt(s, n, m)
    BY <2>1, <2>2, <2>3, CommandWord
  <2> QED BY <2>1, <2>2, <2>4 DEF CommandedAt
<1> HIDE DEF m
<1>3. CommandIn(p, n, m) /\ p[n] = t[n]
  BY <1>0, <1>1, <1>2
<1>4. CASE t[n] # "v" /\ key = t[n]
  <2>1. IsMotion(p)
    BY <1>0, <1>1, <1>2, <1>4
  <2> QED BY <1>4, <2>1 DEF Outcome, Fed, p
<1>5. CASE key \in Searching /\ ~(t[n] # "v" /\ key = t[n])
  <2>1. Body(p, m) /\ Len(p) # 0
    BY <1>1, <1>3 DEF Body, CommandIn
  <2>2. Where(p, Anything)
    BY <1>1, <1>5, <2>1 DEF Where
  <2>3. PlainFed(key) = Fed(Anything, "going on")
    BY <1>5 DEF PlainFed
  <2>4. Outcome(p, Fed(Anything, "going on"))
    BY <2>2, GoesOn
  <2> QED BY <1>5, <2>3, <2>4 DEF p
<1>6. CASE key \in Moving /\ ~(t[n] # "v" /\ key = t[n])
  <2>1. key \notin Searching
    BY <1>6, KeysApart
  <2>2. PlainFed(key) = Fed(Nowhere, "motion")
    BY <1>6, <2>1 DEF PlainFed
  <2>3. IsMotion(p)
    BY <1>0, <1>1, <1>2, <1>6 DEF PlainAt
  <2> QED BY <1>6, <2>2, <2>3 DEF Outcome, Fed, p
<1>7. CASE key \in {"i", "a"} /\ ~(t[n] # "v" /\ key = t[n])
  <2>1. key \notin Searching /\ key \notin Moving
    BY <1>7, KeysApart
  <2>2. PlainFed(key) = Fed(Enclosed, "going on")
    BY <1>7, <2>1 DEF PlainFed
  <2>3. n \in 1 .. (m - 1)
    BY <1>1
  <2>4. Where(p, Enclosed)
    BY <1>1, <1>3, <1>7, <2>3 DEF Where
  <2>5. Outcome(p, Fed(Enclosed, "going on"))
    BY <2>4, GoesOn
  <2> QED BY <1>7, <2>2, <2>5 DEF p
<1>8. CASE key \notin Searching \cup Moving \cup {"i", "a"} /\ ~(t[n] # "v" /\ key = t[n])
  <2>1. PlainFed(key) = Fed(Nowhere, "dropped")
    BY <1>8 DEF PlainFed
  <2>2. \A s \in Seq(Keys) : Begins(s, p) => ~IsMotion(s)
    BY <1>2, <1>8 DEF PlainAt
  <2>3. Dead(p)
    BY <1>1, <2>2, DeadIs
  <2> QED BY <1>8, <2>1, <2>3 DEF Outcome, Fed, p
<1> QED BY <1>4, <1>5, <1>6, <1>7, <1>8

\* Behind a command every key has the outcome it should.
LEMMA CommandOutcome ==
    ASSUME NEW t \in Seq(Keys), NEW key \in Keys, NEW n \in 1 .. Len(t), CommandIn(t, n, Len(t) + 1)
    PROVE  Outcome(Append(t, key), Feed(Commanded(t[n]), key))
<1>1. t[n] \in Commands
  BY DEF CommandIn
<1>2. CASE key \notin Digits
  <2>1. Feed(Commanded(t[n]), key) = IF t[n] # "v" /\ key = t[n] THEN Fed(Nowhere, "motion") ELSE PlainFed(key)
    BY <1>1, <1>2, FeedCommand
  <2> QED BY <1>2, <2>1, PlainOutcome
<1>3. CASE key \in Digits
  <2> DEFINE p == Append(t, key)
             m == Len(t) + 1
  <2>1. Feed(Commanded(t[n]), key) = Fed(Commanded(t[n]), "going on")
    BY <1>1, <1>3, FeedCommand
  <2>2. /\ p \in Seq(Keys) /\ Len(p) = m /\ p[m] = key /\ Begins(p, t) /\ m \in Nat
        /\ m \in 1 .. (Len(t) + 1) /\ n \in 1 .. (m - 1)
    BY TypedIs
  <2> HIDE DEF p
  <2>3. CommandIn(p, n, m) /\ p[n] = t[n]
    BY <2>2, BeginsKeeps
  <2> HIDE DEF m
  <2>4. CommandIn(p, n, m + 1)
    BY <1>3, <2>2, <2>3 DEF CommandIn, Digital
  <2>5. Where(p, Commanded(t[n]))
    BY <2>2, <2>3, <2>4 DEF Where
  <2>6. Outcome(p, Fed(Commanded(t[n]), "going on"))
    BY <2>5, GoesOn
  <2> QED BY <2>1, <2>6 DEF p
<1> QED BY <1>2, <1>3

\* So at the head, after nothing or digits.
LEMMA HeadOutcome ==
    ASSUME NEW t \in Seq(Keys), NEW key \in Keys, Digital(t, 1, Len(t))
    PROVE  Outcome(Append(t, key), Feed(all_motions, key))
<1> DEFINE p == Append(t, key)
           m == Len(t) + 1
           fed == Feed(all_motions, key)
<1>1. /\ p \in Seq(Keys) /\ Len(p) = m /\ p[m] = key /\ Begins(p, t) /\ m \in 1 .. m /\ m \in Nat
      /\ \A s \in Seq(Keys) : Begins(s, p) => Begins(s, t) /\ Len(s) >= m /\ s[m] = key
      /\ m \in 1 .. (Len(t) + 1) /\ 1 \in 1 .. m /\ m # 0 /\ m - 1 = Len(t)
  BY TypedIs
<1>0. Begins(p, p)
  BY <1>1, DeadIs
<1>f. /\ key \in Digits => fed = Fed(all_motions, "going on")
      /\ key = "v" => fed = Fed(numbered, "going on")
      /\ key \in {"y", "d", "c"} => fed = Fed(make_numbered_command_motion(key), "going on")
      /\ key \in Inserting \cup Paging => fed = Fed(Nowhere, "motion")
      /\ key \notin Digits \cup Commands \cup Inserting \cup Paging => fed = PlainFed(key)
  BY FeedHead
<1> HIDE DEF p, fed
<1>2. ASSUME NEW s \in Seq(Keys), Begins(s, p)
      PROVE  Digital(s, 1, m - 1) /\ m \in 1 .. Len(s) /\ s[m] = key
  <2>1. Begins(s, t) /\ Len(s) >= m /\ s[m] = key
    BY <1>1, <1>2
  <2>2. Digital(s, 1, m - 1)
    BY <1>1, <2>1, BeginsKeeps
  <2> QED BY <1>1, <2>1, <2>2
<1> HIDE DEF m
<1>3. Digital(p, 1, m - 1)
  BY <1>0, <1>1, <1>2
<1>4. ASSUME key \notin Digits, key \notin Commands, NEW s \in Seq(Keys), Begins(s, p)
      PROVE  IsMotion(s) <=> (Len(s) = m /\ key \in Inserting \cup Paging) \/ PlainAt(s, m)
  <2>1. Digital(s, 1, m - 1) /\ m \in 1 .. Len(s) /\ s[m] = key
    BY <1>2, <1>4
  <2> QED BY <1>4, <2>1, PlainWord
<1>a. CASE key \in Digits
  <2>1. Digital(p, 1, Len(p))
    BY <1>1, <1>3, <1>a DEF Digital
  <2>2. Where(p, all_motions)
    BY <1>1, <2>1 DEF Where
  <2> QED BY <1>a, <1>f, <2>2, GoesOn DEF p, fed
<1>b. CASE key \in Commands
  <2>1. m \in 1 .. Len(p) /\ CommandIn(p, m, Len(p) + 1) /\ p[m] = key
    BY <1>1, <1>3, <1>b DEF CommandIn, Digital
  <2>2. Where(p, Commanded(key))
    BY <2>1 DEF Where
  <2>3. fed = Fed(Commanded(key), "going on")
    BY <1>b, <1>f DEF Commands, Commanded
  <2> QED BY <2>2, <2>3, GoesOn DEF p, fed
<1>c. CASE key \in Inserting \cup Paging
  <2>1. key \notin Digits /\ key \notin Commands
    BY <1>c, KeysApart
  <2>2. IsMotion(p)
    BY <1>0, <1>1, <1>4, <1>c, <2>1
  <2>3. Outcome(p, Fed(Nowhere, "motion"))
    BY <2>2 DEF Outcome, Fed
  <2> QED BY <1>c, <1>f, <2>3 DEF p, fed
<1>d. CASE key \notin Digits \cup Commands \cup Inserting \cup Paging
  <2>0. fed = PlainFed(key) /\ key \notin {"i", "a"} /\ key \notin Digits /\ key \notin Commands
    BY <1>d, <1>f, KeysApart
  <2>1. CASE key \in Searching
    <3>1. Where(p, Anything)
      BY <1>1, <1>3, <2>1 DEF Where, Body
    <3>2. PlainFed(key) = Fed(Anything, "going on")
      BY <2>1 DEF PlainFed
    <3> QED BY <2>0, <3>1, <3>2, GoesOn DEF p, fed
  <2>2. CASE key \in Moving
    <3>1. key \notin Searching
      BY <2>2, KeysApart
    <3>2. PlainFed(key) = Fed(Nowhere, "motion")
      BY <2>2, <3>1 DEF PlainFed
    <3>3. IsMotion(p)
      BY <1>0, <1>1, <1>4, <2>0, <2>2 DEF PlainAt
    <3>4. Outcome(p, Fed(Nowhere, "motion"))
      BY <3>3 DEF Outcome, Fed
    <3> QED BY <2>0, <3>2, <3>4 DEF p, fed
  <2>3. CASE key \notin Searching \cup Moving
    <3>1. PlainFed(key) = Fed(Nowhere, "dropped")
      BY <2>0, <2>3 DEF PlainFed
    <3>2. ASSUME NEW s \in Seq(Keys), Begins(s, p) PROVE ~IsMotion(s)
      <4>1. s[m] = key
        BY <1>2, <3>2
      <4>2. ~PlainAt(s, m)
        BY <2>0, <2>3, <4>1 DEF PlainAt
      <4> QED BY <1>4, <1>d, <2>0, <3>2, <4>2
    <3>3. Dead(p)
      BY <1>1, <3>2, DeadIs
    <3>4. Outcome(p, Fed(Nowhere, "dropped"))
      BY <3>3 DEF Outcome, Fed
    <3> QED BY <2>0, <3>1, <3>4 DEF p, fed
  <2> QED BY <2>1, <2>2, <2>3
<1> QED BY <1>a, <1>b, <1>c, <1>d

\* So behind a search, and behind i and a.
LEMMA LastOutcome ==
    ASSUME NEW t \in Seq(Keys), NEW key \in Keys, Len(t) # 0
    PROVE  /\ Body(t, Len(t)) /\ t[Len(t)] \in Searching => Outcome(Append(t, key), Feed(Anything, key))
           /\ \A n \in 1 .. (Len(t) - 1) : CommandIn(t, n, Len(t)) /\ t[Len(t)] \in {"i", "a"}
                                            => Outcome(Append(t, key), Feed(Enclosed, key))
<1> DEFINE p == Append(t, key)
           m == Len(t)
<1>1. /\ p \in Seq(Keys) /\ Len(p) = m + 1 /\ p[m + 1] = key /\ Begins(p, p) /\ m \in Nat \ {0}
      /\ \A s \in Seq(Keys) : Begins(s, p) => Begins(s, t) /\ Len(s) >= m + 1 /\ s[m + 1] = key
      /\ m \in 1 .. (Len(t) + 1) /\ m \in 1 .. Len(t)
  <2>1. p \in Seq(Keys)
    OBVIOUS
  <2>2. Begins(p, p)
    BY <2>1, DeadIs
  <2> QED BY <2>1, <2>2, TypedIs
<1> HIDE DEF p
<1>2. ASSUME NEW s \in Seq(Keys), Begins(s, p)
      PROVE  /\ m \in 1 .. Len(s) /\ s[m] = t[m] /\ s[m + 1] = key
             /\ Body(t, m) => Body(s, m)
             /\ \A n : CommandIn(t, n, m) => CommandIn(s, n, m)
  <2>1. Begins(s, t) /\ Len(s) >= m + 1 /\ s[m + 1] = key
    BY <1>1, <1>2
  <2>2. m \in 1 .. Len(s) /\ s[m] = t[m]
    BY <1>1, <2>1 DEF Begins
  <2>3. (Body(t, m) => Body(s, m)) /\ \A n : CommandIn(t, n, m) => CommandIn(s, n, m)
    BY <1>1, <2>1, BeginsKeeps
  <2> QED BY <2>1, <2>2, <2>3
<1> HIDE DEF m
<1>3. ASSUME Body(t, m), t[m] \in Searching PROVE Outcome(p, Feed(Anything, key))
  <2>1. Body(p, m) /\ p[m] \in Searching /\ m \in 1 .. Len(p)
    BY <1>1, <1>2, <1>3
  <2>2. IsMotion(p)
    BY <1>1, <2>1, SearchWord
  <2>3. Outcome(p, Fed(Nowhere, "motion"))
    BY <2>2 DEF Outcome, Fed
  <2> QED BY <2>3, FeedLast
<1>4. ASSUME NEW n \in 1 .. (m - 1), CommandIn(t, n, m), t[m] \in {"i", "a"} PROVE Outcome(p, Feed(Enclosed, key))
  <2>1. ASSUME NEW s \in Seq(Keys), Begins(s, p) PROVE IsMotion(s) <=> Len(s) = m + 1 /\ key \in Enclosing
    <3>1. CommandIn(s, n, m) /\ s[m] \in {"i", "a"} /\ m \in 1 .. Len(s) /\ s[m + 1] = key
      BY <1>2, <1>4, <2>1
    <3> QED BY <3>1, EncloseWord
  <2>2. CASE key \in Enclosing
    <3>1. IsMotion(p) /\ Feed(Enclosed, key) = Fed(Nowhere, "motion")
      BY <1>1, <2>1, <2>2, FeedLast
    <3> QED BY <3>1 DEF Outcome, Fed
  <2>3. CASE key \notin Enclosing
    <3>1. Dead(p) /\ Feed(Enclosed, key) = Fed(Nowhere, "dropped")
      BY <1>1, <2>1, <2>3, FeedLast, DeadIs
    <3> QED BY <3>1 DEF Outcome, Fed
  <2> QED BY <2>2, <2>3
<1> QED BY <1>3, <1>4 DEF p, m

\* Whatever key comes next, what is awaited, reported or dropped is right.
LEMMA FeedOutcome ==
    ASSUME NEW t \in Seq(Keys), NEW key \in Keys, NEW c, Where(t, c) \/ (t = <<>> /\ c = all_motions)
    PROVE  Outcome(Append(t, key), Feed(c, key))
<1>1. CASE ((Len(t) # 0 /\ Digital(t, 1, Len(t))) \/ t = <<>>) /\ c = all_motions
  <2>1. Digital(t, 1, Len(t))
    BY <1>1 DEF Digital
  <2> QED BY <1>1, <2>1, HeadOutcome
<1>2. ASSUME NEW n \in 1 .. Len(t), CommandIn(t, n, Len(t) + 1), c = Commanded(t[n])
      PROVE  Outcome(Append(t, key), Feed(c, key))
  BY <1>2, CommandOutcome
<1>3. CASE Len(t) # 0 /\ Body(t, Len(t)) /\ t[Len(t)] \in Searching /\ c = Anything
  BY <1>3, LastOutcome
<1>4. ASSUME NEW n \in 1 .. (Len(t) - 1), CommandIn(t, n, Len(t)), t[Len(t)] \in {"i", "a"}, c = Enclosed
      PROVE  Outcome(Append(t, key), Feed(c, key))
  <2>1. Len(t) # 0
    OBVIOUS
  <2> QED BY <1>4, <2>1, LastOutcome
<1> QED BY <1>1, <1>2, <1>3, <1>4 DEF Where

\* A motion that is awaited can still come, and has not come yet.
LEMMA WhereSays ==
    ASSUME NEW t \in Seq(Keys), NEW c, Where(t, c)
    PROVE  t # <<>> /\ c # Nowhere /\ ~IsMotion(t) /\ IsBegun(t)
<1> DEFINE more == <<"w">>
           s == t \o more
           m == Len(t) + 1
<1>1. /\ "w" \in Keys /\ "w" \in Moving /\ "w" \in Enclosing /\ "w" \notin Digits /\ "w" \notin Commands
      /\ "w" \notin Searching
  BY KeysApart DEF Commands
<1>2. more \in Seq(Keys) /\ Len(more) = 1 /\ more[1] = "w" /\ more # <<>>
  BY <1>1
<1>3. more \in BoundedSeq(Keys, 3)
  <2>1. more \in [1 .. 1 -> Keys]
    BY <1>1
  <2>2. 1 \in 0 .. 3
    OBVIOUS
  <2> QED BY <2>1, <2>2 DEF BoundedSeq, SeqOf
<1>4. s \in Seq(Keys) /\ Len(s) = m /\ Begins(s, t) /\ s[m] = "w" /\ m \in Nat \ {0} /\ m \in 1 .. (Len(t) + 1)
      /\ m - 1 = Len(t) /\ Len(t) \in Nat
  <2>1. /\ t \o more \in Seq(Keys) /\ Len(t \o more) = Len(t) + Len(more) /\ Begins(t \o more, t)
        /\ \A i \in 1 .. Len(more) : (t \o more)[Len(t) + i] = more[i]
    BY <1>2, JoinIs
  <2> QED BY <1>2, <2>1
<1>5. IsMotion(s) => IsBegun(t)
  BY <1>2, <1>3 DEF IsBegun
<1> HIDE DEF s, more
<1>6. PlainAt(s, m)
  BY <1>1, <1>4 DEF PlainAt
<1>7. t = <<>> => Len(t) = 0
  OBVIOUS
<1>8. ASSUME Len(t) # 0
      PROVE  /\ Len(t) \in 1 .. Len(t) /\ Len(t) \in 1 .. (Len(t) + 1) /\ Len(t) \in 1 .. Len(s)
             /\ Len(s) = Len(t) + 1 /\ Len(t) # Len(t) + 1 /\ s[Len(t)] = t[Len(t)]
  <2> DEFINE k == Len(t)
             j == Len(s)
  <2>1. k \in Nat /\ k # 0 /\ j = k + 1 /\ (k \in 1 .. k => s[k] = t[k])
    BY <1>4, <1>8 DEF Begins
  <2> HIDE DEF k, j
  <2>2. k \in 1 .. k /\ k \in 1 .. (k + 1) /\ k \in 1 .. j /\ k # k + 1 /\ s[k] = t[k]
    BY <2>1
  <2> QED BY <2>1, <2>2 DEF k, j
<1>a. CASE Len(t) # 0 /\ Digital(t, 1, Len(t)) /\ c = all_motions
  <2>1. ~IsMotion(t)
    BY <1>a, NoWord
  <2>2. Digital(s, 1, m - 1) /\ m \in 1 .. Len(s)
    BY <1>4, <1>a, BeginsKeeps
  <2>3. IsMotion(s)
    <3> HIDE DEF m
    <3> QED BY <1>1, <1>4, <1>6, <2>2, PlainWord
  <2> QED BY <1>5, <1>7, <1>a, <2>1, <2>3, NodesAre
<1>b. ASSUME NEW n \in 1 .. Len(t), CommandIn(t, n, Len(t) + 1), c = Commanded(t[n])
      PROVE  t # <<>> /\ c # Nowhere /\ ~IsMotion(t) /\ IsBegun(t)
  <2>1. ~IsMotion(t)
    BY <1>b, CommandOnly
  <2>2. CommandIn(s, n, m) /\ m \in 1 .. Len(s)
    BY <1>4, <1>b, BeginsKeeps
  <2>3. IsMotion(s)
    <3> HIDE DEF m
    <3> QED BY <1>1, <1>4, <1>6, <2>2, CommandWord DEF CommandedAt
  <2>4. c # Nowhere
    BY <1>b, NodesAre DEF Commanded
  <2>5. t # <<>>
    BY <1>4, <1>7
  <2> QED BY <1>5, <2>1, <2>3, <2>4, <2>5
<1>c. CASE Len(t) # 0 /\ Body(t, Len(t)) /\ t[Len(t)] \in Searching /\ c = Anything
  <2> DEFINE k == Len(t)
  <2>1. k \in 1 .. Len(t) /\ k \in 1 .. (Len(t) + 1) /\ k \in 1 .. Len(s) /\ Len(s) = k + 1 /\ k # k + 1 /\ s[k] = t[k]
    BY <1>8, <1>c
  <2>2. Body(s, k)
    BY <1>4, <1>c, <2>1, BeginsKeeps
  <2>3. IsMotion(t) <=> Len(t) = k + 1
    BY <1>c, <2>1, SearchWord
  <2>4. IsMotion(s) <=> Len(s) = k + 1
    BY <1>4, <1>c, <2>1, <2>2, SearchWord
  <2> QED BY <1>5, <1>7, <1>c, <2>1, <2>3, <2>4, NodesAre
<1>d. ASSUME NEW n \in 1 .. (Len(t) - 1), CommandIn(t, n, Len(t)), t[Len(t)] \in {"i", "a"}, c = Enclosed
      PROVE  t # <<>> /\ c # Nowhere /\ ~IsMotion(t) /\ IsBegun(t)
  <2> DEFINE k == Len(t)
  <2>0. Len(t) # 0
    BY <1>4
  <2>1. k \in 1 .. Len(t) /\ k \in 1 .. (Len(t) + 1) /\ k \in 1 .. Len(s) /\ Len(s) = k + 1 /\ k # k + 1 /\ s[k] = t[k]
    BY <1>8, <2>0
  <2>2. CommandIn(s, n, k) /\ s[k + 1] = "w"
    BY <1>4, <1>d, <2>1, BeginsKeeps
  <2>3. IsMotion(t) <=> Len(t) = k + 1 /\ t[k + 1] \in Enclosing
    BY <1>d, <2>1, EncloseWord
  <2>4. IsMotion(s) <=> Len(s) = k + 1 /\ s[k + 1] \in Enclosing
    BY <1>4, <1>d, <2>1, <2>2, EncloseWord
  <2>5. IsMotion(s) /\ ~IsMotion(t) /\ c # Nowhere
    BY <1>1, <1>d, <2>1, <2>2, <2>3, <2>4, NodesAre
  <2> QED BY <1>5, <1>7, <2>0, <2>5
<1> QED BY <1>a, <1>b, <1>c, <1>d DEF Where

\* What has been typed says which motion is awaited, and nothing is awaited that cannot come.
MotionInv ==
  /\ mode \in {"n", "no", "v", "i", "c"} /\ last \in {"motion", "dropped", "going on"}
  /\ typed \in Seq(Keys) /\ chars \in Seq(Keys) /\ Len(chars) <= MaxTyped
  /\ last # "going on" => curr = Nowhere
  /\ last = "going on" => Where(typed, curr) /\ chars = typed
  /\ last = "motion" => IsMotion(typed) /\ chars = typed
  /\ last = "dropped" => typed = <<>> \/ Dead(typed)

\* At the start nothing is typed.
LEMMA MotionInvInit == MotionInit => MotionInv
BY MotionAssumption DEF MotionInit, MotionInv

\* The other programs leave the recogniser alone.
LEMMA MotionInvStays == UNCHANGED kvars /\ MotionInv => MotionInv'
BY DEF kvars, MotionInv

\* Every key and every change of mode keeps the invariant.
LEMMA MotionInvKept == MotionInv /\ MotionNext => MotionInv'
<1> SUFFICES ASSUME MotionInv, MotionNext PROVE MotionInv'
  OBVIOUS
<1>0. /\ mode \in {"n", "no", "v", "i", "c"} /\ last \in {"motion", "dropped", "going on"}
      /\ typed \in Seq(Keys) /\ chars \in Seq(Keys) /\ Len(chars) <= MaxTyped /\ MaxTyped \in Nat
      /\ last # "going on" => curr = Nowhere
      /\ last = "going on" => Where(typed, curr) /\ chars = typed
  BY MotionAssumption DEF MotionInv
<1>1. last = "going on" <=> curr # Nowhere
  BY <1>0, WhereSays
<1>2. ASSUME NEW key \in Keys, feedkey(key) PROVE MotionInv'
  <2> DEFINE t == IF last = "going on" THEN typed ELSE <<>>
             c == IF curr = Nowhere THEN all_motions ELSE curr
             ch == IF curr = Nowhere THEN <<>> ELSE chars
             fed == Feed(c, key)
             p == Append(t, key)
  <2>1. /\ curr' = fed.curr /\ last' = fed.last /\ mode' = mode
        /\ chars' = IF fed.last = "dropped" THEN ch ELSE Append(ch, key)
        /\ typed' = IF last = "going on" THEN Append(typed, key) ELSE <<key>>
        /\ Len(typed) < MaxTyped
    BY <1>2 DEF feedkey
  <2>a. /\ last = "going on" => t = typed /\ c = curr /\ ch = chars
        /\ last # "going on" => t = <<>> /\ c = all_motions /\ ch = <<>>
    BY <1>1
  <2>b. <<>> \in Seq(Keys) /\ Len(<<>>) = 0 /\ Len(typed) \in Nat /\ MaxTyped \in Nat
    <3>1. typed \in Seq(Keys) /\ MaxTyped \in Nat
      BY <1>0
    <3> QED BY <3>1
  <2> HIDE DEF t, c, ch
  <2>2. t \in Seq(Keys) /\ (Where(t, c) \/ (t = <<>> /\ c = all_motions))
    BY <1>0, <2>a, <2>b
  <2>3. ch = t /\ Len(t) < MaxTyped
    <3>1. last = "going on" => chars = typed
      BY <1>0
    <3> DEFINE l == Len(typed)
    <3>a. l \in Nat /\ MaxTyped \in Nat /\ l < MaxTyped
      BY <2>1, <2>b
    <3> HIDE DEF l
    <3>b. 0 < MaxTyped
      BY <3>a
    <3>2. 0 < MaxTyped /\ Len(typed) < MaxTyped
      BY <3>a, <3>b DEF l
    <3> QED BY <2>a, <2>b, <3>1, <3>2
  <2>4. p = typed'
    <3>1. <<key>> = Append(<<>>, key)
      OBVIOUS
    <3> QED BY <2>1, <2>a, <3>1
  <2>5. Outcome(p, fed)
    BY <2>2, FeedOutcome
  <2>6. p \in Seq(Keys) /\ Len(p) <= MaxTyped /\ Len(t) <= MaxTyped
    <3>1. Len(t) \in Nat /\ p \in Seq(Keys) /\ Len(p) = Len(t) + 1
      BY <2>2
    <3> DEFINE a == Len(t)
               b == Len(p)
    <3>2. a \in Nat /\ b = a + 1 /\ a < MaxTyped /\ MaxTyped \in Nat
      BY <1>0, <2>3, <3>1
    <3> HIDE DEF a, b
    <3>3. b <= MaxTyped /\ a <= MaxTyped
      BY <3>2
    <3> QED BY <3>1, <3>3 DEF a, b
  <2> HIDE DEF fed, p
  <2>7. chars' = IF fed.last = "dropped" THEN t ELSE p
    BY <2>1, <2>3 DEF p
  <2>8. chars' \in Seq(Keys) /\ Len(chars') <= MaxTyped /\ (last' # "dropped" => chars' = p)
    BY <2>1, <2>2, <2>6, <2>7
  <2> QED BY <1>0, <2>1, <2>4, <2>5, <2>6, <2>8 DEF Outcome, MotionInv
<1>3. ASSUME NEW to \in {"n", "no", "v", "i", "c"}, handle_mode_changed(to)
      PROVE  MotionInv'
  <2>1. mode' \in {"n", "no", "v", "i", "c"}
    BY <1>3 DEF handle_mode_changed
  <2>2. CASE mode = "i" /\ curr # Nowhere
    <3>1. curr' = Nowhere /\ chars' = <<>> /\ last' = "dropped" /\ typed' = <<>>
      BY <1>3, <2>2 DEF handle_mode_changed
    <3>2. <<>> \in Seq(Keys) /\ Len(<<>>) <= MaxTyped
      BY MotionAssumption
    <3> QED BY <2>1, <3>1, <3>2 DEF MotionInv
  <2>3. CASE ~(mode = "i" /\ curr # Nowhere)
    <3>1. UNCHANGED <<curr, chars, last, typed>>
      BY <1>3, <2>3 DEF handle_mode_changed
    <3> QED BY <2>1, <3>1 DEF MotionInv
  <2> QED BY <2>2, <2>3
<1> QED BY <1>2, <1>3 DEF MotionNext

\* The invariant says what is recognised.
LEMMA MotionInvSays == MotionInv => MotionsRecognised
<1> SUFFICES ASSUME MotionInv PROVE MotionsRecognised
  OBVIOUS
<1>0. /\ mode \in {"n", "no", "v", "i", "c"} /\ last \in {"motion", "dropped", "going on"}
      /\ typed \in Seq(Keys) /\ chars \in Seq(Keys) /\ Len(chars) <= MaxTyped /\ MaxTyped \in Nat
      /\ last = "going on" => Where(typed, curr) /\ chars = typed
      /\ last = "motion" => IsMotion(typed) /\ chars = typed
      /\ last = "dropped" => typed = <<>> \/ Dead(typed)
  BY MotionAssumption DEF MotionInv
<1>1. MotionTypeOK
  BY <1>0 DEF MotionTypeOK
<1>2. last = "going on" => IsBegun(typed) /\ ~IsMotion(typed)
  BY <1>0, WhereSays
<1>3. ASSUME Dead(typed) PROVE ~IsMotion(typed) /\ ~IsBegun(typed)
  <2>1. BoundedSeq(Keys, 3) \subseteq Seq(Keys)
    <3>1. ASSUME NEW m \in 0 .. 3, NEW f \in [1 .. m -> Keys] PROVE f \in Seq(Keys)
      <4>1. f \in UNION {[1 .. k -> Keys] : k \in Nat}
        OBVIOUS
      <4> QED BY <4>1, SeqDef
    <3> QED BY <3>1 DEF BoundedSeq, SeqOf
  <2>2. ~IsBegun(typed)
    BY <1>3, <2>1 DEF Dead, IsBegun
  <2>3. typed \o <<>> = typed /\ <<>> \in Seq(Keys)
    <3>1. typed \in Seq(Keys)
      BY <1>0
    <3> QED BY <3>1, ConcatEmptySeq
  <2>4. ~IsMotion(typed)
    BY <1>3, <2>3 DEF Dead
  <2> QED BY <2>2, <2>4
<1> QED BY <1>0, <1>1, <1>2, <1>3 DEF MotionsRecognised

-----------------------------------------------------------------------------
(* Actions per minute: the ring *)

\* The k-th place from place i on, in a ring of n.
Place(i, k, n) == IF i + k > n THEN (i + k) - n ELSE i + k

\* A place is one of the ring.
LEMMA PlaceIn == ASSUME NEW n \in Nat, NEW i \in 1 .. n, NEW k \in 0 .. n PROVE Place(i, k, n) \in 1 .. n
BY DEF Place

\* No step stays, and a whole round comes back.
LEMMA PlaceEnds == ASSUME NEW n \in Nat, NEW i \in 1 .. n PROVE Place(i, 0, n) = i /\ Place(i, n, n) = i
BY DEF Place

\* One step more is the next place, at either end.
LEMMA PlaceNext ==
    ASSUME NEW n \in Nat, NEW i \in 1 .. n, NEW k \in 0 .. (n - 1)
    PROVE  /\ Place(i, k + 1, n) = (IF Place(i, k, n) + 1 > n THEN 1 ELSE Place(i, k, n) + 1)
           /\ Place(Place(i, 1, n), k, n) = Place(i, k + 1, n)
BY DEF Place

\* The first step.
LEMMA PlaceFirst == ASSUME NEW n \in Nat, NEW i \in 1 .. n PROVE Place(i, 1, n) = IF i + 1 > n THEN 1 ELSE i + 1
BY DEF Place

\* Within a round no place comes twice.
LEMMA PlacesDiffer ==
    ASSUME NEW n \in Nat, NEW i \in 1 .. n, NEW j \in 0 .. (n - 1), NEW k \in 0 .. (n - 1),
           Place(i, j, n) = Place(i, k, n)
    PROVE  j = k
BY DEF Place

\* A ring, by its fields.
Ring(buffer, start, stop, size, len) ==
  [buffer |-> buffer, start |-> start, stop |-> stop, size |-> size, len |-> len]
IsRing(r) == r = Ring(r.buffer, r.start, r.stop, r.size, r.len)

\* m items, those of f from a on, and nothing else.
Spots(i, m) == {Place(i, k, RingSize) : k \in 0 .. (m - 1)}
Holds(r, f, a, m) ==
  /\ IsRing(r) /\ r.size = RingSize /\ r.start \in 1 .. RingSize /\ m \in 0 .. (RingSize - 1) /\ a \in Nat
  /\ r.len = m /\ r.stop = Place(r.start, m, RingSize)
  /\ DOMAIN r.buffer = Spots(r.start, m)
  /\ \A k \in 0 .. (m - 1) : r.buffer[Place(r.start, k, RingSize)] = f[a + k]

\* q is what storing, popping or resizing should make of r.
StoredIn(r, item, q) ==
  /\ IsRing(q) /\ q.start = r.start /\ q.stop = After(r, r.stop) /\ q.size = r.size /\ q.len = r.len + 1
  /\ DOMAIN q.buffer = DOMAIN r.buffer \cup {r.stop}
  /\ \A i \in DOMAIN q.buffer : q.buffer[i] = IF i = r.stop THEN item ELSE r.buffer[i]
PoppedFrom(r, q) ==
  /\ IsRing(q) /\ q.start = After(r, r.start) /\ q.stop = r.stop /\ q.size = r.size /\ q.len = r.len - 1
  /\ DOMAIN q.buffer = DOMAIN r.buffer \ {r.start}
  /\ \A i \in DOMAIN q.buffer : q.buffer[i] = r.buffer[i]
ResizedTo(r, q) ==
  /\ IsRing(q) /\ q.start = 1 /\ q.stop = r.size /\ q.size = 2 * r.size /\ q.len = r.len
  /\ DOMAIN q.buffer \subseteq {0}

\* What storing, popping and resizing make of a ring's fields.
LEMMA RingIs ==
    ASSUME NEW r, IsRing(r), NEW item
    PROVE  /\ StoredIn(r, item, Stored(r, item))
           /\ r.stop # r.start => PoppedFrom(r, ringPop(r))
           /\ ResizedTo(r, resize(r))
<1> DEFINE buffer == r.buffer
           start == r.start
           stop == r.stop
           size == r.size
           len == r.len
<1>0. r = Ring(buffer, start, stop, size, len)
  BY DEF IsRing
<1> HIDE DEF buffer, start, stop, size, len
<1>1. /\ r.buffer = buffer /\ r.start = start /\ r.stop = stop /\ r.size = size /\ r.len = len
      /\ DOMAIN r = {"buffer", "start", "stop", "size", "len"}
  BY <1>0 DEF Ring
<1>2. Stored(r, item) = Ring([i \in DOMAIN buffer \cup {stop} |-> IF i = stop THEN item ELSE buffer[i]],
                             start, After(r, stop), size, len + 1)
  <2> DEFINE b == [i \in DOMAIN buffer \cup {stop} |-> IF i = stop THEN item ELSE buffer[i]]
             a == After(r, stop)
             l == len + 1
  <2>1. Stored(r, item) = [r EXCEPT !.buffer = b, !.stop = a, !.len = l]
    <3> QED BY <1>1 DEF Stored
  <2> HIDE DEF b, a, l
  <2>2. [r EXCEPT !.buffer = b, !.stop = a, !.len = l] = Ring(b, start, a, size, l)
    <3> DEFINE u == [r EXCEPT !.buffer = b]
    <3>1. u = Ring(b, start, stop, size, len)
      BY <1>0 DEF Ring
    <3> DEFINE v == [u EXCEPT !.stop = a]
    <3>2. v = Ring(b, start, a, size, len)
      <4> HIDE DEF u
      <4> QED BY <3>1 DEF Ring
    <3> DEFINE x == [v EXCEPT !.len = l]
    <3>3. x = Ring(b, start, a, size, l)
      <4> HIDE DEF v
      <4> QED BY <3>2 DEF Ring
    <3>4. [r EXCEPT !.buffer = b, !.stop = a, !.len = l] = x
      OBVIOUS
    <3> QED BY <3>3, <3>4
  <2> QED BY <2>1, <2>2 DEF b, a, l
<1>3. stop # start => ringPop(r) = Ring([i \in DOMAIN buffer \ {start} |-> buffer[i]], After(r, start), stop, size, len - 1)
  <2> DEFINE b == [i \in DOMAIN buffer \ {start} |-> buffer[i]]
             a == After(r, start)
             l == len - 1
  <2>1. stop # start => ringPop(r) = [r EXCEPT !.buffer = b, !.start = a, !.len = l]
    <3> QED BY <1>1 DEF ringPop
  <2> HIDE DEF b, a, l
  <2>2. [r EXCEPT !.buffer = b, !.start = a, !.len = l] = Ring(b, a, stop, size, l)
    <3> DEFINE u == [r EXCEPT !.buffer = b]
    <3>1. u = Ring(b, start, stop, size, len)
      BY <1>0 DEF Ring
    <3> DEFINE v == [u EXCEPT !.start = a]
    <3>2. v = Ring(b, a, stop, size, len)
      <4> HIDE DEF u
      <4> QED BY <3>1 DEF Ring
    <3> DEFINE x == [v EXCEPT !.len = l]
    <3>3. x = Ring(b, a, stop, size, l)
      <4> HIDE DEF v
      <4> QED BY <3>2 DEF Ring
    <3>4. [r EXCEPT !.buffer = b, !.start = a, !.len = l] = x
      OBVIOUS
    <3> QED BY <3>3, <3>4
  <2> QED BY <2>1, <2>2 DEF b, a, l
<1>4. resize(r) = Ring([i \in {0} \cap {j - start : j \in DOMAIN buffer} |-> buffer[i + start]], 1, size, 2 * size, len)
  <2> DEFINE b == [i \in {0} \cap {j - start : j \in DOMAIN buffer} |-> buffer[i + start]]
             d == 2 * size
  <2>1. resize(r) = [r EXCEPT !.buffer = b, !.start = 1, !.stop = size, !.size = d]
    <3> QED BY <1>1 DEF resize
  <2> HIDE DEF b, d
  <2>2. [r EXCEPT !.buffer = b, !.start = 1, !.stop = size, !.size = d] = Ring(b, 1, size, d, len)
    <3> DEFINE u == [r EXCEPT !.buffer = b]
    <3>1. u = Ring(b, start, stop, size, len)
      BY <1>0 DEF Ring
    <3> DEFINE v == [u EXCEPT !.start = 1]
    <3>2. v = Ring(b, 1, stop, size, len)
      <4> HIDE DEF u
      <4> QED BY <3>1 DEF Ring
    <3> DEFINE x == [v EXCEPT !.stop = size]
    <3>3. x = Ring(b, 1, size, size, len)
      <4> HIDE DEF v
      <4> QED BY <3>2 DEF Ring
    <3> DEFINE y == [x EXCEPT !.size = d]
    <3>4. y = Ring(b, 1, size, d, len)
      <4> HIDE DEF x
      <4> QED BY <3>3 DEF Ring
    <3>5. [r EXCEPT !.buffer = b, !.start = 1, !.stop = size, !.size = d] = y
      OBVIOUS
    <3> QED BY <3>4, <3>5
  <2> QED BY <2>1, <2>2 DEF b, d
<1>5. StoredIn(r, item, Stored(r, item))
  BY <1>1, <1>2 DEF StoredIn, IsRing, Ring
<1>6. stop # start => PoppedFrom(r, ringPop(r))
  BY <1>1, <1>3 DEF PoppedFrom, IsRing, Ring
<1>7. ResizedTo(r, resize(r))
  BY <1>1, <1>4 DEF ResizedTo, IsRing, Ring
<1> QED BY <1>1, <1>5, <1>6, <1>7

\* The first item is the oldest.
LEMMA PeekIs ==
    ASSUME NEW r, NEW f, NEW a, NEW m, Holds(r, f, a, m)
    PROVE  peek(r) = IF m = 0 THEN Nil ELSE f[a]
<1>0. RingSize \in Nat /\ RingSize >= 2
  BY CalcAssumption
<1>1. m \in Nat /\ r.start \in 1 .. RingSize /\ a \in Nat
  BY <1>0 DEF Holds
<1>2. Place(r.start, 0, RingSize) = r.start
  BY <1>0, <1>1, PlaceEnds
<1>3. CASE m = 0
  <2>1. DOMAIN r.buffer = {}
    BY <1>0, <1>3 DEF Holds, Spots
  <2> QED BY <1>3, <2>1 DEF peek
<1>4. CASE m # 0
  <2>1. 0 \in 0 .. (m - 1) /\ a + 0 = a
    BY <1>1, <1>4
  <2>2. r.start \in DOMAIN r.buffer /\ r.buffer[r.start] = f[a]
    BY <1>2, <2>1 DEF Holds, Spots
  <2> QED BY <1>4, <2>2 DEF peek
<1> QED BY <1>3, <1>4

\* Storing adds an item behind the others, or fills the ring.
LEMMA StoredHolds ==
    ASSUME NEW r, NEW f, NEW g, NEW a, NEW m, NEW item, Holds(r, f, a, m),
           \A k \in 0 .. (m - 1) : g[a + k] = f[a + k], g[a + m] = item
    PROVE  /\ IF m + 1 = RingSize THEN Full(Stored(r, item)) ELSE Holds(Stored(r, item), g, a, m + 1)
           /\ m + 1 # RingSize => ~Full(Stored(r, item))
<1>0. RingSize \in Nat /\ RingSize >= 2
  BY CalcAssumption
<1> DEFINE i == r.start
           s == r.stop
           w == Stored(r, item)
<1>1. /\ m \in Nat /\ m < RingSize /\ i \in 1 .. RingSize /\ a \in Nat /\ r.size = RingSize /\ r.len = m
      /\ s = Place(i, m, RingSize)
  BY <1>0 DEF Holds
<1>2. s \in 1 .. RingSize /\ After(r, s) = Place(i, m + 1, RingSize)
  <2>1. m \in 0 .. RingSize /\ m \in 0 .. (RingSize - 1)
    BY <1>0, <1>1
  <2>2. /\ Place(i, m, RingSize) \in 1 .. RingSize
        /\ Place(i, m + 1, RingSize)
             = (IF Place(i, m, RingSize) + 1 > RingSize THEN 1 ELSE Place(i, m, RingSize) + 1)
    BY <1>0, <1>1, <2>1, PlaceIn, PlaceNext
  <2> QED BY <1>1, <2>2 DEF After
<1>3. /\ IsRing(w) /\ w.start = i /\ w.stop = Place(i, m + 1, RingSize) /\ w.size = RingSize /\ w.len = m + 1
      /\ DOMAIN w.buffer = DOMAIN r.buffer \cup {s}
      /\ \A j \in DOMAIN w.buffer : w.buffer[j] = IF j = s THEN item ELSE r.buffer[j]
  <2>1. StoredIn(r, item, w)
    BY RingIs DEF Holds
  <2> HIDE DEF w
  <2> QED BY <1>1, <1>2, <2>1 DEF StoredIn
<1> HIDE DEF w
<1>4. Full(w) <=> m + 1 = RingSize
  <2>1. Full(w) <=> Place(i, m + 1, RingSize) = i
    BY <1>3 DEF Full
  <2>2. CASE m + 1 = RingSize
    <3>1. Place(i, RingSize, RingSize) = i
      BY <1>0, <1>1, PlaceEnds
    <3> QED BY <2>1, <2>2, <3>1
  <2>3. CASE m + 1 # RingSize
    <3>1. m + 1 \in 0 .. (RingSize - 1) /\ 0 \in 0 .. (RingSize - 1) /\ m + 1 # 0 /\ 0 \in 0 .. RingSize
      BY <1>0, <1>1, <2>3
    <3>2. Place(i, 0, RingSize) = i
      BY <1>0, <1>1, PlaceEnds
    <3> QED BY <1>0, <1>1, <2>1, <2>3, <3>1, <3>2, PlacesDiffer
  <2> QED BY <2>2, <2>3
<1>5. ASSUME m + 1 # RingSize PROVE Holds(w, g, a, m + 1)
  <2>1. m + 1 \in 0 .. (RingSize - 1)
    BY <1>0, <1>1, <1>5
  <2>2. \A k \in 0 .. m : k \in 0 .. (m - 1) \/ k = m
    BY <1>1
  <2>3. DOMAIN w.buffer = Spots(i, m + 1)
    <3>1. DOMAIN w.buffer = Spots(i, m) \cup {s}
      BY <1>3 DEF Holds
    <3>2. (m + 1) - 1 = m /\ m \in 0 .. m /\ \A k \in 0 .. (m - 1) : k \in 0 .. m
      BY <1>1
    <3> QED BY <1>1, <2>2, <3>1, <3>2 DEF Spots
  <2>4. ASSUME NEW k \in 0 .. ((m + 1) - 1) PROVE w.buffer[Place(i, k, RingSize)] = g[a + k]
    <3>1. CASE k = m
      BY <1>1, <1>3, <3>1
    <3>2. CASE k \in 0 .. (m - 1)
      <4>1. k \in 0 .. (RingSize - 1) /\ m \in 0 .. (RingSize - 1) /\ k # m
        BY <1>0, <1>1, <3>2
      <4>2. Place(i, k, RingSize) # s
        BY <1>0, <1>1, <4>1, PlacesDiffer
      <4>3. Place(i, k, RingSize) \in DOMAIN r.buffer /\ r.buffer[Place(i, k, RingSize)] = f[a + k]
        BY <3>2 DEF Holds, Spots
      <4> QED BY <1>3, <3>2, <4>2, <4>3
    <3> QED BY <1>1, <3>1, <3>2
  <2> QED BY <1>1, <1>3, <2>1, <2>3, <2>4 DEF Holds
<1> QED BY <1>4, <1>5 DEF w

\* Popping takes out the oldest.
LEMMA PopHolds ==
    ASSUME NEW r, NEW f, NEW a, NEW m, Holds(r, f, a, m), m # 0
    PROVE  Holds(ringPop(r), f, a + 1, m - 1)
<1>0. RingSize \in Nat /\ RingSize >= 2
  BY CalcAssumption
<1> DEFINE i == r.start
           n == Place(i, 1, RingSize)
           w == ringPop(r)
<1>1. /\ m \in Nat \ {0} /\ m < RingSize /\ i \in 1 .. RingSize /\ a \in Nat /\ r.size = RingSize /\ r.len = m
      /\ r.stop = Place(i, m, RingSize)
  BY <1>0 DEF Holds
<1>2. /\ m \in 0 .. (RingSize - 1) /\ 0 \in 0 .. (RingSize - 1) /\ 0 \in 0 .. RingSize /\ m - 1 \in 0 .. (RingSize - 1)
      /\ (m - 1) + 1 = m /\ 0 + 1 = 1 /\ 1 \in 0 .. RingSize /\ m - 1 < RingSize /\ 0 < RingSize
      /\ m - 1 \in 0 .. RingSize
  BY <1>0, <1>1
<1>3. /\ i = Place(i, 0, RingSize) /\ n \in 1 .. RingSize /\ After(r, i) = n
      /\ Place(n, m - 1, RingSize) = r.stop
  <2>1. i = Place(i, 0, RingSize) /\ n \in 1 .. RingSize
    BY <1>0, <1>1, <1>2, PlaceEnds, PlaceIn
  <2>2. n = IF i + 1 > RingSize THEN 1 ELSE i + 1
    BY <1>0, <1>1, PlaceFirst
  <2>3. Place(n, m - 1, RingSize) = Place(i, (m - 1) + 1, RingSize)
    BY <1>0, <1>1, <1>2, PlaceNext
  <2> HIDE DEF n
  <2> QED BY <1>1, <1>2, <2>1, <2>2, <2>3 DEF After
<1>4. r.stop # i
  BY <1>0, <1>1, <1>2, <1>3, PlacesDiffer
<1>5. /\ IsRing(w) /\ w.start = n /\ w.stop = r.stop /\ w.size = RingSize /\ w.len = m - 1
      /\ DOMAIN w.buffer = DOMAIN r.buffer \ {i}
      /\ \A j \in DOMAIN w.buffer : w.buffer[j] = r.buffer[j]
  <2>1. PoppedFrom(r, w)
    BY <1>4, RingIs DEF Holds
  <2> HIDE DEF w, n
  <2> QED BY <1>1, <1>3, <2>1 DEF PoppedFrom
<1> HIDE DEF w
<1>6. \A k \in 0 .. ((m - 1) - 1) : /\ k + 1 \in 0 .. (m - 1) /\ k + 1 # 0 /\ k + 1 \in 0 .. (RingSize - 1)
                                    /\ k \in 0 .. (RingSize - 1) /\ (a + 1) + k = a + (k + 1)
  BY <1>0, <1>1
<1>7. \A k \in 0 .. ((m - 1) - 1) : Place(n, k, RingSize) = Place(i, k + 1, RingSize) /\ Place(n, k, RingSize) # i
  <2> SUFFICES ASSUME NEW k \in 0 .. ((m - 1) - 1)
               PROVE  Place(n, k, RingSize) = Place(i, k + 1, RingSize) /\ Place(n, k, RingSize) # i
    OBVIOUS
  <2>1. Place(n, k, RingSize) = Place(i, k + 1, RingSize)
    <3>1. k \in 0 .. (RingSize - 1)
      BY <1>6
    <3> QED BY <1>0, <1>1, <3>1, PlaceNext
  <2>2. Place(i, k + 1, RingSize) # Place(i, 0, RingSize)
    BY <1>0, <1>1, <1>2, <1>6, PlacesDiffer
  <2> QED BY <1>3, <2>1, <2>2
<1> HIDE DEF n
<1>8. DOMAIN w.buffer = Spots(n, m - 1)
  <2>1. DOMAIN w.buffer = Spots(i, m) \ {i}
    BY <1>5 DEF Holds
  <2>2. ASSUME NEW k \in 0 .. ((m - 1) - 1) PROVE Place(n, k, RingSize) \in Spots(i, m) \ {i}
    BY <1>6, <1>7 DEF Spots
  <2>3. ASSUME NEW k \in 0 .. (m - 1), Place(i, k, RingSize) # i PROVE Place(i, k, RingSize) \in Spots(n, m - 1)
    <3>1. k # 0
      BY <1>3, <2>3
    <3>2. k - 1 \in 0 .. ((m - 1) - 1) /\ (k - 1) + 1 = k
      BY <1>1, <3>1
    <3> QED BY <1>7, <3>2 DEF Spots
  <2> QED BY <2>1, <2>2, <2>3 DEF Spots
<1>9. ASSUME NEW k \in 0 .. ((m - 1) - 1) PROVE w.buffer[Place(n, k, RingSize)] = f[(a + 1) + k]
  <2>1. /\ Place(i, k + 1, RingSize) \in DOMAIN r.buffer \ {i}
        /\ r.buffer[Place(i, k + 1, RingSize)] = f[a + (k + 1)]
    BY <1>6, <1>7 DEF Holds, Spots
  <2> QED BY <1>5, <1>6, <1>7, <2>1
<1>10. /\ IsRing(w) /\ w.size = RingSize /\ w.start \in 1 .. RingSize /\ m - 1 \in 0 .. (RingSize - 1)
       /\ a + 1 \in Nat /\ w.len = m - 1 /\ w.stop = Place(w.start, m - 1, RingSize)
  BY <1>1, <1>2, <1>3, <1>5
<1>11. DOMAIN w.buffer = Spots(w.start, m - 1)
  BY <1>5, <1>8
<1>12. \A k \in 0 .. ((m - 1) - 1) : w.buffer[Place(w.start, k, RingSize)] = f[(a + 1) + k]
  BY <1>5, <1>9
<1>13. Holds(w, f, a + 1, m - 1)
  BY <1>10, <1>11, <1>12, Zenon DEF Holds
<1> QED BY <1>13 DEF w

-----------------------------------------------------------------------------
(* Actions per minute: what has expired *)

turn(c, t) ==
  IF peek(c.ring) = Nil \/ ~Expired(peek(c.ring), t) THEN c
  ELSE [ring |-> ringPop(c.ring), sum |-> Max({0, c.sum - peek(c.ring).score})]
Turns(f, z, t) == f = [n \in Nat |-> IF n = 0 THEN z ELSE turn(f[n - 1], t)]

\* The loop of trim can be followed for any number of turns.
LEMMA TurnsExist == ASSUME NEW z, NEW t PROVE \E f : Turns(f, z, t)
<1> DEFINE Up(f, n) == f[0] = z /\ \A k \in 1 .. n : f[k] = turn(f[k - 1], t)
           T == {n \in Nat : \E f : Up(f, n)}
<1>1. 0 \in T
  <2> DEFINE h == [k \in {0} |-> z]
  <2>1. h[0] = z /\ 1 .. 0 = {}
    OBVIOUS
  <2> QED BY <2>1
<1>2. ASSUME NEW n \in Nat, n \in T PROVE n + 1 \in T
  <2>1. PICK f : Up(f, n)
    BY <1>2
  <2> DEFINE h == [k \in 0 .. (n + 1) |-> IF k = n + 1 THEN turn(f[n], t) ELSE f[k]]
  <2>2. h[0] = z
    BY <2>1
  <2>3. ASSUME NEW k \in 1 .. (n + 1) PROVE h[k] = turn(h[k - 1], t)
    BY <2>1, <2>3
  <2> HIDE DEF h
  <2>4. Up(h, n + 1)
    BY <2>2, <2>3
  <2> QED BY <2>4
<1>3. \A n \in Nat : \E f : Up(f, n)
  <2>1. Nat \subseteq T
    <3> HIDE DEF T
    <3> QED BY <1>1, <1>2, Induct
  <2> QED BY <2>1
<1>4. ASSUME NEW n \in Nat, NEW f, NEW g, Up(f, n), Up(g, n + 1) PROVE f[n] = g[n]
  <2> DEFINE S == {k \in Nat : k <= n => f[k] = g[k]}
  <2>1. 0 \in S
    BY <1>4
  <2>2. ASSUME NEW k \in Nat, k \in S PROVE k + 1 \in S
    <3>1. CASE k + 1 <= n
      <4>1. k + 1 \in 1 .. n /\ k + 1 \in 1 .. (n + 1) /\ (k + 1) - 1 = k /\ k <= n
        BY <3>1
      <4>2. f[k + 1] = turn(f[k], t) /\ g[k + 1] = turn(g[k], t) /\ f[k] = g[k]
        BY <1>4, <2>2, <4>1
      <4> QED BY <4>2
    <3>2. CASE ~(k + 1 <= n)
      BY <3>2
    <3> QED BY <3>1, <3>2
  <2>3. n \in S
    <3>1. Nat \subseteq S
      <4> HIDE DEF S
      <4> QED BY <2>1, <2>2, Induct
    <3> QED BY <3>1
  <2> QED BY <2>3
<1> DEFINE F(n) == CHOOSE f : Up(f, n)
           G == [n \in Nat |-> F(n)[n]]
<1>5. \A n \in Nat : Up(F(n), n)
  <2> HIDE DEF Up
  <2> QED BY <1>3
<1> HIDE DEF F
<1>6. G[0] = z
  <2>1. Up(F(0), 0)
    BY <1>5
  <2> QED BY <2>1
<1>7. ASSUME NEW n \in Nat \ {0} PROVE G[n] = turn(G[n - 1], t)
  <2>1. n - 1 \in Nat /\ (n - 1) + 1 = n /\ n \in 1 .. n
    OBVIOUS
  <2>2. Up(F(n), n) /\ Up(F(n - 1), n - 1)
    BY <1>5, <2>1
  <2>3. F(n - 1)[n - 1] = F(n)[n - 1]
    <3>1. Up(F(n), (n - 1) + 1)
      BY <2>1, <2>2
    <3> HIDE DEF Up
    <3> QED BY <1>4, <2>1, <2>2, <3>1
  <2>4. F(n)[n] = turn(F(n)[n - 1], t)
    BY <2>1, <2>2
  <2> QED BY <2>1, <2>3, <2>4
<1>8. Turns(G, z, t)
  <2>1. \A n \in Nat : G[n] = IF n = 0 THEN z ELSE turn(G[n - 1], t)
    <3> HIDE DEF G
    <3> QED BY <1>6, <1>7
  <2> DEFINE H == [n \in Nat |-> IF n = 0 THEN z ELSE turn(G[n - 1], t)]
  <2>2. DOMAIN G = Nat /\ DOMAIN H = Nat /\ G = [n \in Nat |-> G[n]] /\ H = [n \in Nat |-> H[n]]
    OBVIOUS
  <2>3. \A n \in Nat : H[n] = IF n = 0 THEN z ELSE turn(G[n - 1], t)
    OBVIOUS
  <2>4. G = H
    <3> HIDE DEF G, H
    <3> QED BY <2>1, <2>2, <2>3
  <2> HIDE DEF G
  <2> QED BY <2>4 DEF Turns
<1> QED BY <1>8

Trims(f, r, sum, t) ==
  /\ f[0] = [ring |-> r, sum |-> sum] /\ \A n \in Nat : f[n + 1] = turn(f[n], t)
  /\ trim(r, sum, t) = f[r.size]

\* There is a function that does the turns of trim, and trim is its last value.
LEMMA TrimTurns == ASSUME NEW r, NEW sum, NEW t PROVE \E f : Trims(f, r, sum, t)
<1> DEFINE z == [ring |-> r, sum |-> sum]
           G == CHOOSE f : Turns(f, z, t)
<1>1. trim(r, sum, t) = G[r.size]
  BY DEF trim, turn, Turns
<1>2. Turns(G, z, t)
  <2> HIDE DEF z
  <2> QED BY TurnsExist
<1> HIDE DEF G, z
<1>3. G[0] = z
  BY <1>2 DEF Turns
<1>4. ASSUME NEW n \in Nat PROVE G[n + 1] = turn(G[n], t)
  <2>1. n + 1 \in Nat /\ n + 1 # 0 /\ (n + 1) - 1 = n
    OBVIOUS
  <2>2. G[n + 1] = turn(G[(n + 1) - 1], t)
    BY <1>2, <2>1 DEF Turns
  <2> QED BY <2>1, <2>2
<1>5. Trims(G, r, sum, t)
  BY <1>1, <1>3, <1>4 DEF Trims, z
<1> QED BY <1>5

\* Nothing to see: nothing is trimmed.
LEMMA TrimsNothing ==
    ASSUME NEW r, NEW sum, NEW t, peek(r) = Nil, r.size \in Nat
    PROVE  trim(r, sum, t) = [ring |-> r, sum |-> sum]
<1>1. PICK f : Trims(f, r, sum, t)
  BY TrimTurns
<1> DEFINE z == [ring |-> r, sum |-> sum]
           T == {n \in Nat : f[n] = z}
<1>2. turn(z, t) = z
  BY DEF turn
<1>3. 0 \in T /\ \A n \in Nat : n \in T => n + 1 \in T
  <2> HIDE DEF z
  <2> QED BY <1>1, <1>2 DEF Trims, z
<1>4. Nat \subseteq T
  <2> HIDE DEF T
  <2> QED BY <1>3, Induct
<1> QED BY <1>1, <1>4 DEF Trims

\* A sum that is not negative is not cut off.
LEMMA MaxTwo == ASSUME NEW v \in Nat PROVE Max({0, v}) = v
<1>1. {0, v} \in SUBSET (0 .. v) /\ {0, v} # {}
  OBVIOUS
<1>2. Max({0, v}) \in {0, v} /\ \A x \in {0, v} : x <= Max({0, v})
  BY <1>1, MaxIs
<1> QED BY <1>2

\* The items f[a] to f[b - 1], of which those before c have expired at t, with the scores g.
Scored(f, g, a, b, c, t) ==
  /\ a \in Nat /\ b \in Nat /\ c \in a .. b
  /\ \A j \in a .. (b - 1) : /\ f[j] # Nil /\ f[j].score = g[j] /\ g[j] \in Nat
                             /\ Expired(f[j], t) <=> j < c

\* One turn of the loop takes out an item that has expired, with its score.
LEMMA TurnIs ==
    ASSUME NEW f, NEW g, NEW a, NEW b, NEW c, NEW t, Scored(f, g, a, b, c, t), NEW x \in a .. c,
           NEW q, Holds(q.ring, f, x, b - x), q.sum = SumOver(g, x .. (b - 1))
    PROVE  IF x = c THEN turn(q, t) = q
           ELSE /\ turn(q, t) = [ring |-> ringPop(q.ring), sum |-> SumOver(g, (x + 1) .. (b - 1))]
                /\ Holds(ringPop(q.ring), f, x + 1, b - (x + 1)) /\ x + 1 \in a .. c
                /\ SumOver(g, (x + 1) .. (b - 1)) <= q.sum /\ q.sum \in Nat
                /\ SumOver(g, (x + 1) .. (b - 1)) \in Nat
<1>1. a \in Nat /\ b \in Nat /\ c \in Nat /\ x \in Nat /\ a <= x /\ x <= c /\ c <= b /\ b - x \in Nat
  BY DEF Scored
<1>2. peek(q.ring) = IF b - x = 0 THEN Nil ELSE f[x]
  BY PeekIs
<1>3. CASE x = b
  <2>1. x = c /\ peek(q.ring) = Nil
    BY <1>1, <1>2, <1>3
  <2> QED BY <2>1 DEF turn
<1>4. CASE x # b
  <2>1. x \in a .. (b - 1) /\ x < b /\ b - x # 0
    BY <1>1, <1>4
  <2>2. peek(q.ring) = f[x] /\ f[x] # Nil /\ f[x].score = g[x] /\ g[x] \in Nat /\ (Expired(f[x], t) <=> x < c)
    BY <1>2, <2>1 DEF Scored
  <2>3. CASE x = c
    BY <1>1, <2>2, <2>3 DEF turn
  <2>4. CASE x # c
    <3> DEFINE S == x .. (b - 1)
               R == (x + 1) .. (b - 1)
    <3>1. Numbers(g, S) /\ Numbers(g, R)
      <4>1. IsFiniteSet(S) /\ IsFiniteSet(R)
        BY <1>1, FS_Interval
      <4>2. \A j \in S : j \in a .. (b - 1)
        BY <1>1
      <4>3. \A j \in R : j \in S
        BY <1>1
      <4> HIDE DEF S, R
      <4> QED BY <4>1, <4>2, <4>3 DEF Numbers, Scored
    <3>2. x \in S /\ S \ {x} = R
      BY <1>1, <2>1
    <3> DEFINE v == SumOver(g, R)
    <3> HIDE DEF S, R
    <3>3. v \in Nat
      BY <3>1, SumPicks
    <3>4. q.sum = g[x] + v
      <4>1. SumOver(g, S) = g[x] + SumOver(g, S \ {x})
        BY <3>1, <3>2, SumTakes
      <4> QED BY <3>2, <4>1 DEF S
    <3> HIDE DEF v
    <3>5. q.sum - g[x] = v /\ v <= q.sum /\ q.sum \in Nat
      BY <2>2, <3>3, <3>4
    <3>6. Max({0, q.sum - peek(q.ring).score}) = v
      BY <2>2, <3>3, <3>5, MaxTwo
    <3>7. Expired(peek(q.ring), t) /\ peek(q.ring) # Nil
      BY <1>1, <2>2, <2>4
    <3>8. turn(q, t) = [ring |-> ringPop(q.ring), sum |-> v]
      BY <3>6, <3>7 DEF turn
    <3>9. Holds(ringPop(q.ring), f, x + 1, b - (x + 1))
      <4>1. (b - x) - 1 = b - (x + 1)
        BY <1>1
      <4> QED BY <2>1, <4>1, PopHolds
    <3>10. x + 1 \in a .. c
      BY <1>1, <2>4
    <3> QED BY <2>4, <3>3, <3>5, <3>8, <3>9, <3>10 DEF v, R
  <2> QED BY <2>3, <2>4
<1> QED BY <1>3, <1>4

\* trim takes out all that has expired, and nothing else.
LEMMA TrimsExpired ==
    ASSUME NEW f, NEW g, NEW a, NEW b, NEW c, NEW t, Scored(f, g, a, b, c, t),
           NEW r, Holds(r, f, a, b - a), NEW sum \in Nat, sum = SumOver(g, a .. (b - 1))
    PROVE  LET q == trim(r, sum, t)
           IN /\ Holds(q.ring, f, c, b - c) /\ q.sum = SumOver(g, c .. (b - 1))
              /\ q.sum \in Nat /\ q.sum <= sum
<1>0. /\ a \in Nat /\ b \in Nat /\ c \in Nat /\ a <= c /\ c <= b
      /\ RingSize \in Nat /\ r.size = RingSize /\ b - a < RingSize
  BY CalcAssumption DEF Scored, Holds
<1>1. PICK h : Trims(h, r, sum, t)
  BY TrimTurns
<1> DEFINE At(n, x) == /\ Holds(h[n].ring, f, x, b - x) /\ h[n].sum = SumOver(g, x .. (b - 1))
                       /\ h[n].sum \in Nat /\ h[n].sum <= sum
           T == {n \in Nat : \E x \in a .. c : At(n, x) /\ (x = c \/ x = a + n)}
<1>2. 0 \in T
  <2>1. a \in a .. c /\ a = a + 0
    BY <1>0
  <2>2. At(0, a)
    BY <1>1 DEF Trims
  <2> QED BY <2>1, <2>2
<1>3. ASSUME NEW n \in Nat, n \in T PROVE n + 1 \in T
  <2>1. PICK x \in a .. c : At(n, x) /\ (x = c \/ x = a + n)
    BY <1>3
  <2>2. h[n + 1] = turn(h[n], t)
    BY <1>1 DEF Trims
  <2>3. CASE x = c
    <3>1. h[n + 1] = h[n]
      BY <2>1, <2>2, <2>3, TurnIs
    <3> QED BY <2>1, <2>3, <3>1
  <2>4. CASE x # c
    <3> DEFINE s == SumOver(g, (x + 1) .. (b - 1))
    <3>1. /\ h[n + 1] = [ring |-> ringPop(h[n].ring), sum |-> s]
          /\ Holds(ringPop(h[n].ring), f, x + 1, b - (x + 1)) /\ x + 1 \in a .. c
          /\ s <= h[n].sum /\ h[n].sum \in Nat /\ s \in Nat
      BY <2>1, <2>2, <2>4, TurnIs
    <3>2. h[n + 1].ring = ringPop(h[n].ring) /\ h[n + 1].sum = s
      <4> HIDE DEF s
      <4> QED BY <3>1
    <3>3. s <= sum
      <4> HIDE DEF s
      <4> QED BY <2>1, <3>1
    <3>4. At(n + 1, x + 1)
      BY <3>1, <3>2, <3>3
    <3>5. x + 1 = a + (n + 1)
      BY <1>0, <2>1, <2>4
    <3> HIDE DEF At
    <3> QED BY <3>1, <3>4, <3>5
  <2> QED BY <2>3, <2>4
<1>4. RingSize \in T
  <2> HIDE DEF T
  <2>1. Nat \subseteq T
    BY <1>2, <1>3, Induct
  <2> QED BY <1>0, <2>1
<1>5. PICK x \in a .. c : At(RingSize, x) /\ (x = c \/ x = a + RingSize)
  BY <1>4
<1>6. x = c
  BY <1>0, <1>5
<1>7. trim(r, sum, t) = h[RingSize]
  BY <1>0, <1>1 DEF Trims
<1> QED BY <1>5, <1>6, <1>7

-----------------------------------------------------------------------------
(* Actions per minute: scores *)

ScoreIn(p, n) ==
  Unit \div (1 + Cardinality({i \in DOMAIN p : i < n /\ n - i <= apm_repeat_count /\ p[i].key = p[n].key}))
Scores(p) == [n \in DOMAIN p |-> ScoreIn(p, n)]
Items(p) == [n \in DOMAIN p |-> [time |-> p[n].time, score |-> ScoreIn(p, n)]]
Pushed == Seq([time : Nat, key : Motions])

\* A quotient is no more than what is divided.
LEMMA DivIs == ASSUME NEW u \in Nat, NEW m \in Nat \ {0} PROVE u \div m \in Nat /\ u \div m <= u
OBVIOUS

\* Multiplying keeps the order.
LEMMA TimesGrows == ASSUME NEW u \in Nat, NEW l \in Nat, NEW n \in Nat, l <= n PROVE u * l <= u * n /\ u * l \in Nat
<1>1. n - l \in Nat /\ n = l + (n - l)
  OBVIOUS
<1> DEFINE d == n - l
<1> HIDE DEF d
<1>2. d \in Nat /\ n = l + d
  BY <1>1 DEF d
<1>3. u * (l + d) = u * l + u * d /\ u * l \in Nat /\ u * d \in Nat
  BY <1>2
<1> QED BY <1>2, <1>3

\* A score is at most one.
LEMMA ScoreIs == ASSUME NEW p \in Pushed, NEW n PROVE ScoreIn(p, n) \in Nat /\ ScoreIn(p, n) <= Unit
<1> DEFINE B == {i \in DOMAIN p : i < n /\ n - i <= apm_repeat_count /\ p[i].key = p[n].key}
<1>1. IsFiniteSet(DOMAIN p) /\ B \in SUBSET DOMAIN p
  <2>1. DOMAIN p = 1 .. Len(p) /\ Len(p) \in Nat
    BY DEF Pushed
  <2>2. IsFiniteSet(1 .. Len(p))
    BY <2>1, FS_Interval
  <2> QED BY <2>1, <2>2
<1>2. Cardinality(B) \in Nat
  <2> HIDE DEF B
  <2> QED BY <1>1, FS_Subset, FS_CardinalityType
<1>3. ScoreIn(p, n) = Unit \div (1 + Cardinality(B))
  BY DEF ScoreIn
<1> DEFINE k == 1 + Cardinality(B)
<1>4. k \in Nat \ {0}
  <2> HIDE DEF B
  <2> QED BY <1>2
<1> HIDE DEF k
<1>5. Unit \in Nat /\ Unit \div k \in Nat /\ Unit \div k <= Unit
  BY <1>4, DivIs, CalcAssumption
<1> QED BY <1>3, <1>5 DEF k

\* What has been pushed keeps its score.
LEMMA ScoreStays ==
    ASSUME NEW p \in Pushed, NEW e \in [time : Nat, key : Motions], NEW n \in 1 .. Len(p)
    PROVE  ScoreIn(Append(p, e), n) = ScoreIn(p, n)
<1> DEFINE q == Append(p, e)
<1>1. /\ DOMAIN p = 1 .. Len(p) /\ Len(p) \in Nat /\ DOMAIN q = 1 .. (Len(p) + 1)
      /\ \A i \in 1 .. Len(p) : q[i] = p[i]
  BY DEF Pushed
<1> HIDE DEF q
<1>2. {i \in DOMAIN q : i < n /\ n - i <= apm_repeat_count /\ q[i].key = q[n].key}
        = {i \in DOMAIN p : i < n /\ n - i <= apm_repeat_count /\ p[i].key = p[n].key}
  BY <1>1
<1>3. ScoreIn(q, n) = ScoreIn(p, n)
  BY <1>2 DEF ScoreIn
<1> QED BY <1>3 DEF q

\* The keys of the last motions go round: the d-th from the end is behind the index, round about.
Slot(index, d) == Place(index, apm_repeat_count - d, apm_repeat_count)
Recent(p) == {d \in 1 .. apm_repeat_count : d <= Len(p)}
SlotsHold(p, counts, index) ==
  /\ index \in 1 .. apm_repeat_count
  /\ DOMAIN counts = {Slot(index, d) : d \in Recent(p)}
  /\ \A d \in Recent(p) : counts[Slot(index, d)] = p[(Len(p) + 1) - d].key

\* The recent motions are in different slots.
LEMMA SlotIs ==
    ASSUME NEW index \in 1 .. apm_repeat_count, NEW d \in 1 .. apm_repeat_count
    PROVE  /\ Slot(index, d) \in 1 .. apm_repeat_count
           /\ \A e \in 1 .. apm_repeat_count : Slot(index, e) = Slot(index, d) => e = d
<1> DEFINE R == apm_repeat_count
<1>1. R \in Nat
  BY CalcAssumption
<1> HIDE DEF R
<1>2. \A e \in 1 .. R : R - e \in 0 .. R /\ R - e \in 0 .. (R - 1)
  BY <1>1
<1>3. index \in 1 .. R /\ d \in 1 .. R
  BY DEF R
<1>4. Place(index, R - d, R) \in 1 .. R
  BY <1>1, <1>2, <1>3, PlaceIn
<1>5. ASSUME NEW e \in 1 .. R, Place(index, R - e, R) = Place(index, R - d, R) PROVE e = d
  <2>1. R - e = R - d
    BY <1>1, <1>2, <1>3, <1>5, PlacesDiffer
  <2> QED BY <1>1, <1>3, <2>1
<1> QED BY <1>4, <1>5 DEF R, Slot

\* The score that Push gives is the one by the motions before: the slots with the key are as many as
\* the recent motions with it.
LEMMA CountIs ==
    ASSUME NEW p \in Pushed, NEW counts, NEW index, SlotsHold(p, counts, index), NEW t \in Nat, NEW key \in Motions
    PROVE  ScoreIn(Append(p, [time |-> t, key |-> key]), Len(p) + 1)
             = Unit \div (1 + Cardinality({i \in DOMAIN counts : counts[i] = key}))
<1> DEFINE l == Len(p)
           R == apm_repeat_count
           q == Append(p, [time |-> t, key |-> key])
           A == {i \in DOMAIN counts : counts[i] = key}
           B == {i \in DOMAIN q : i < l + 1 /\ (l + 1) - i <= R /\ q[i].key = q[l + 1].key}
           C == {i \in 1 .. l : (l + 1) - i <= R /\ p[i].key = key}
           f == [i \in C |-> Slot(index, (l + 1) - i)]
<1>1. l \in Nat /\ DOMAIN p = 1 .. l /\ R \in Nat \ {0} /\ index \in 1 .. R
  BY CalcAssumption DEF Pushed, SlotsHold
<1>2. DOMAIN q = 1 .. (l + 1) /\ (\A i \in 1 .. l : q[i] = p[i]) /\ q[l + 1].key = key
  BY DEF Pushed
<1>3. B = C
  <2> HIDE DEF q, l, R
  <2> QED BY <1>1, <1>2
<1> HIDE DEF q, B
<1>4. \A i \in C : (l + 1) - i \in Recent(p) /\ (l + 1) - ((l + 1) - i) = i /\ p[i].key = key
  <2>1. \A i \in C : i \in 1 .. l /\ (l + 1) - i <= R /\ p[i].key = key
    OBVIOUS
  <2> HIDE DEF l, R, C
  <2>2. \A i \in C : (l + 1) - i \in 1 .. R /\ (l + 1) - i <= l /\ (l + 1) - ((l + 1) - i) = i
    BY <1>1, <2>1
  <2> QED BY <2>1, <2>2 DEF Recent, l, R
<1>5. ASSUME NEW d \in Recent(p), p[(l + 1) - d].key = key PROVE (l + 1) - d \in C /\ (l + 1) - ((l + 1) - d) = d
  <2>1. d \in 1 .. R /\ d <= l
    BY DEF Recent
  <2> HIDE DEF l, R
  <2>2. (l + 1) - d \in 1 .. l /\ (l + 1) - ((l + 1) - d) = d /\ (l + 1) - ((l + 1) - d) <= R
    BY <1>1, <2>1
  <2> QED BY <1>5, <2>2
<1>6. \A d \in Recent(p) : /\ Slot(index, d) \in DOMAIN counts /\ counts[Slot(index, d)] = p[(l + 1) - d].key
                           /\ d \in 1 .. apm_repeat_count
  BY DEF SlotsHold, Recent
<1>7. \A i \in DOMAIN counts : \E d \in Recent(p) : i = Slot(index, d)
  BY DEF SlotsHold
<1>8. \A i \in C : f[i] = Slot(index, (l + 1) - i) /\ f[i] \in A
  <2>1. \A i \in C : f[i] = Slot(index, (l + 1) - i)
    OBVIOUS
  <2> HIDE DEF f, l, C
  <2> QED BY <1>4, <1>6, <2>1
<1>9. \A i, j \in C : f[i] = f[j] => i = j
  <2> SUFFICES ASSUME NEW i \in C, NEW j \in C, f[i] = f[j] PROVE i = j
    OBVIOUS
  <2> HIDE DEF f, C, l
  <2>1. (l + 1) - i = (l + 1) - j
    BY <1>1, <1>4, <1>6, <1>8, SlotIs DEF R
  <2> QED BY <1>4, <2>1
<1>10. \A y \in A : \E i \in C : f[i] = y
  <2> SUFFICES ASSUME NEW y \in A PROVE \E i \in C : f[i] = y
    OBVIOUS
  <2>0. y \in DOMAIN counts /\ counts[y] = key
    OBVIOUS
  <2>1. PICK d \in Recent(p) : y = Slot(index, d)
    BY <1>7, <2>0
  <2> HIDE DEF f, C, l, A
  <2>2. p[(l + 1) - d].key = key
    BY <1>6, <2>0, <2>1
  <2>3. (l + 1) - d \in C /\ f[(l + 1) - d] = y
    BY <1>5, <1>8, <2>1, <2>2
  <2> QED BY <2>3
<1>11. f \in [C -> A]
  <2>1. f = [i \in C |-> f[i]]
    OBVIOUS
  <2> HIDE DEF f, C, A
  <2> QED BY <1>8, <2>1
<1>12. IsFiniteSet(C)
  <2>1. IsFiniteSet(1 .. l) /\ C \in SUBSET (1 .. l)
    BY <1>1, FS_Interval
  <2> HIDE DEF C
  <2> QED BY <2>1, FS_Subset
<1> HIDE DEF C, A, f, l, R
<1>13. f \in Bijection(C, A)
  BY <1>9, <1>10, <1>11 DEF Bijection, Injection, Surjection, IsInjective
<1>14. Cardinality(C) = Cardinality(A)
  <2>1. ExistsBijection(C, A)
    BY <1>13 DEF ExistsBijection
  <2> QED BY <1>12, <2>1, FS_Bijection
<1>15. ScoreIn(q, l + 1) = Unit \div (1 + Cardinality(B))
  BY DEF ScoreIn, B, R
<1>16. ScoreIn(q, l + 1) = Unit \div (1 + Cardinality(A))
  BY <1>3, <1>14, <1>15
<1> QED BY <1>16 DEF q, l, A

\* At the start no slot is taken.
LEMMA SlotsInit == SlotsHold(<<>>, <<>>, 1)
<1>1. Recent(<<>>) = {}
  <2>1. Len(<<>>) = 0
    OBVIOUS
  <2> QED BY <2>1 DEF Recent
<1>2. 1 \in 1 .. apm_repeat_count /\ DOMAIN <<>> = {}
  BY CalcAssumption
<1> QED BY <1>1, <1>2 DEF SlotsHold

\* The next motion's key goes where the oldest was.
LEMMA SlotsMove ==
    ASSUME NEW p \in Pushed, NEW counts, NEW index, SlotsHold(p, counts, index), NEW t \in Nat, NEW key \in Motions
    PROVE  SlotsHold(Append(p, [time |-> t, key |-> key]),
                     [i \in DOMAIN counts \cup {index} |-> IF i = index THEN key ELSE counts[i]],
                     IF index + 1 > apm_repeat_count THEN 1 ELSE index + 1)
<1> DEFINE l == Len(p)
           R == apm_repeat_count
           q == Append(p, [time |-> t, key |-> key])
           new == [i \in DOMAIN counts \cup {index} |-> IF i = index THEN key ELSE counts[i]]
           next == IF index + 1 > R THEN 1 ELSE index + 1
<1>1. l \in Nat /\ R \in Nat \ {0} /\ index \in 1 .. R
  BY CalcAssumption DEF Pushed, SlotsHold
<1>2. Len(q) = l + 1 /\ (\A i \in 1 .. l : q[i] = p[i]) /\ q[l + 1].key = key
  BY DEF Pushed
<1>3. next \in 1 .. R /\ next = Place(index, 1, R)
  BY <1>1 DEF Place
<1>4. DOMAIN new = DOMAIN counts \cup {index} /\ \A i \in DOMAIN new : new[i] = IF i = index THEN key ELSE counts[i]
  OBVIOUS
<1> HIDE DEF new, q, next, R, l
<1>5. /\ 1 \in Recent(q) /\ Slot(next, 1) = index
      /\ \A d \in Recent(q) : d = 1 \/ (d - 1 \in Recent(p) /\ (l + 1) - (d - 1) = ((l + 1) + 1) - d
                                       /\ (l + 1) - (d - 1) \in 1 .. l /\ d - 1 \in 1 .. (R - 1))
      /\ \A d \in Recent(p) : d = R \/ (d + 1 \in Recent(q) /\ (d + 1) - 1 = d /\ d \in 1 .. (R - 1))
  <2>1. 1 \in Recent(q)
    BY <1>1, <1>2 DEF Recent, R
  <2>2. Slot(next, 1) = index
    <3>1. R - 1 \in 0 .. (R - 1) /\ (R - 1) + 1 = R
      BY <1>1
    <3>2. Place(next, R - 1, R) = Place(index, R, R)
      BY <1>1, <1>3, <3>1, PlaceNext
    <3> QED BY <1>1, <3>2, PlaceEnds DEF Slot, R
  <2>3. ASSUME NEW d \in Recent(q), d # 1
        PROVE  /\ d - 1 \in Recent(p) /\ (l + 1) - (d - 1) = ((l + 1) + 1) - d
               /\ (l + 1) - (d - 1) \in 1 .. l /\ d - 1 \in 1 .. (R - 1)
    <3>1. d \in 1 .. R /\ d <= l + 1
      BY <1>2 DEF Recent, R
    <3>2. /\ d - 1 \in 1 .. R /\ d - 1 <= l /\ (l + 1) - (d - 1) = ((l + 1) + 1) - d
          /\ (l + 1) - (d - 1) \in 1 .. l /\ d - 1 \in 1 .. (R - 1)
      BY <1>1, <2>3, <3>1
    <3> QED BY <3>2 DEF Recent, R, l
  <2>4. ASSUME NEW d \in Recent(p), d # R PROVE d + 1 \in Recent(q) /\ (d + 1) - 1 = d /\ d \in 1 .. (R - 1)
    <3>1. d \in 1 .. R /\ d <= l
      BY DEF Recent, R, l
    <3>2. d + 1 \in 1 .. R /\ d + 1 <= l + 1 /\ (d + 1) - 1 = d /\ d \in 1 .. (R - 1)
      BY <1>1, <2>4, <3>1
    <3> QED BY <1>2, <3>2 DEF Recent, R
  <2> QED BY <2>1, <2>2, <2>3, <2>4
<1>6. ASSUME NEW d \in 1 .. (R - 1) PROVE Slot(next, d + 1) = Slot(index, d) /\ Slot(index, d) # index
  <2>1. (R - (d + 1)) \in 0 .. (R - 1) /\ (R - (d + 1)) + 1 = R - d /\ R - d \in 0 .. (R - 1) /\ 0 \in 0 .. (R - 1)
        /\ R - d # 0
    BY <1>1
  <2>2. Place(next, R - (d + 1), R) = Place(index, R - d, R)
    <3> DEFINE k == R - (d + 1)
    <3> HIDE DEF k
    <3>1. k \in 0 .. (R - 1) /\ k + 1 = R - d
      BY <2>1 DEF k
    <3>2. Place(next, k, R) = Place(index, k + 1, R)
      BY <1>1, <1>3, <3>1, PlaceNext
    <3> QED BY <3>1, <3>2 DEF k
  <2>3. Place(index, R - d, R) # Place(index, 0, R)
    BY <1>1, <2>1, PlacesDiffer
  <2> QED BY <1>1, <2>2, <2>3, PlaceEnds DEF Slot, R
<1>7. Slot(index, R) = index
  <2>1. R - R = 0
    BY <1>1
  <2> QED BY <1>1, <2>1, PlaceEnds DEF Slot, R
<1>8. DOMAIN counts = {Slot(index, d) : d \in Recent(p)} /\ \A d \in Recent(p) : counts[Slot(index, d)] = p[(l + 1) - d].key
  BY DEF SlotsHold, l
<1>9. DOMAIN new = {Slot(next, d) : d \in Recent(q)}
  <2>1. ASSUME NEW d \in Recent(q) PROVE Slot(next, d) \in DOMAIN new
    <3>1. CASE d = 1
      BY <1>4, <1>5, <3>1
    <3>2. CASE d # 1
      <4>1. d - 1 \in Recent(p) /\ d - 1 \in 1 .. (R - 1)
        BY <1>5, <3>2
      <4>2. (d - 1) + 1 = d
        BY DEF Recent
      <4>3. Slot(next, d) = Slot(index, d - 1)
        BY <1>6, <4>1, <4>2
      <4> QED BY <1>4, <1>8, <4>1, <4>3
    <3> QED BY <3>1, <3>2
  <2>2. ASSUME NEW i \in DOMAIN new PROVE i \in {Slot(next, d) : d \in Recent(q)}
    <3>1. CASE i = index
      BY <1>5, <3>1
    <3>2. CASE i # index
      <4>1. PICK d \in Recent(p) : i = Slot(index, d)
        BY <1>4, <1>8, <3>2
      <4>2. d # R
        BY <1>7, <3>2, <4>1
      <4>3. d + 1 \in Recent(q) /\ Slot(next, d + 1) = i
        BY <1>5, <1>6, <4>1, <4>2
      <4> QED BY <4>3
    <3> QED BY <3>1, <3>2
  <2> QED BY <2>1, <2>2
<1>10. ASSUME NEW d \in Recent(q) PROVE new[Slot(next, d)] = q[((l + 1) + 1) - d].key
  <2>1. CASE d = 1
    <3>1. ((l + 1) + 1) - d = l + 1
      BY <1>1, <2>1
    <3> QED BY <1>2, <1>4, <1>5, <2>1, <3>1
  <2>2. CASE d # 1
    <3>1. /\ d - 1 \in Recent(p) /\ (l + 1) - (d - 1) = ((l + 1) + 1) - d
          /\ (l + 1) - (d - 1) \in 1 .. l /\ d - 1 \in 1 .. (R - 1)
      BY <1>5, <2>2
    <3>2. (d - 1) + 1 = d
      BY DEF Recent
    <3>3. Slot(next, d) = Slot(index, d - 1) /\ Slot(next, d) # index
      BY <1>6, <3>1, <3>2
    <3>4. Slot(next, d) \in DOMAIN new
      BY <1>9
    <3>5. new[Slot(next, d)] = counts[Slot(index, d - 1)]
      BY <1>4, <3>3, <3>4
    <3>6. new[Slot(next, d)] = p[(l + 1) - (d - 1)].key
      BY <1>8, <3>1, <3>5
    <3> QED BY <1>2, <3>1, <3>6
  <2> QED BY <2>1, <2>2
<1>11. SlotsHold(q, new, next)
  BY <1>2, <1>3, <1>9, <1>10 DEF SlotsHold, R
<1> QED BY <1>11 DEF q, new, next, R

-----------------------------------------------------------------------------
(* Actions per minute: the invariant *)

\* What was pushed from index a on is not before x.
Since(p, a, x) == a \in 1 .. (Len(p) + 1) /\ \A n \in 1 .. Len(p) : n >= a <=> p[n].time >= x
Sorted(p) == \A i, j \in 1 .. Len(p) : i <= j => p[i].time <= p[j].time

\* A ring that has been full: start stays where nothing will be.
Spent(r) == IsRing(r) /\ r.start = 1 /\ r.size \in Nat /\ r.stop \in 2 .. r.size /\ 1 \notin DOMAIN r.buffer

\* The ring holds what was pushed from index a on, and the sum is theirs.
KeptFrom(r, sum, p, a) == Holds(r, Items(p), a, (Len(p) + 1) - a) /\ sum = SumOver(Scores(p), a .. Len(p))

\* Types and bounds; times go up; and what the ring holds, whether it has been full or not.
CalcTyped ==
  /\ pushed \in Pushed /\ Len(pushed) <= MaxMotions /\ time \in Nat /\ resized \in BOOLEAN
  /\ apm_sum \in Nat /\ apm_sum <= Unit * Len(pushed)
  /\ ring.len \in Nat /\ ring.len <= Len(pushed)
TimesHold == Sorted(pushed) /\ \A n \in 1 .. Len(pushed) : pushed[n].time <= time
RingHolds ==
  IF resized THEN Spent(ring)
  ELSE \E a \in 1 .. (Len(pushed) + 1) : Since(pushed, a, time - apm_period) /\ KeptFrom(ring, apm_sum, pushed, a)
CalcInv == CalcTyped /\ TimesHold /\ SlotsHold(pushed, motions_count, index_count) /\ RingHolds

\* The history has a time and a key for each motion.
LEMMA PushedIs ==
    ASSUME NEW p \in Pushed
    PROVE  /\ Len(p) \in Nat /\ DOMAIN p = 1 .. Len(p)
           /\ \A n \in 1 .. Len(p) : p[n] \in [time : Nat, key : Motions] /\ p[n].time \in Nat
<1> DEFINE R == [time : Nat, key : Motions]
<1> HIDE DEF R
<1>0. p \in Seq(R)
  BY DEF Pushed, R
<1>1. Len(p) \in Nat /\ DOMAIN p = 1 .. Len(p)
  BY <1>0
<1>2. \A n \in 1 .. Len(p) : p[n] \in [time : Nat, key : Motions]
  BY <1>0, ElementOfSeq DEF R
<1>3. \A e \in [time : Nat, key : Motions] : e.time \in Nat
  OBVIOUS
<1> QED BY <1>1, <1>2, <1>3

\* What has been pushed since a time is a tail of the history.
LEMMA SinceFound == ASSUME NEW p \in Pushed, Sorted(p), NEW x \in Int PROVE \E a \in 1 .. (Len(p) + 1) : Since(p, a, x)
<1> DEFINE l == Len(p)
           S == {n \in 1 .. (l + 1) : n = l + 1 \/ p[n].time >= x}
<1>1. l \in Nat /\ \A n \in 1 .. l : p[n].time \in Nat
  BY PushedIs
<1>2. S \in SUBSET Nat /\ l + 1 \in S
  BY <1>1
<1>3. PICK a \in S : \A n \in S : a <= n
  <2> HIDE DEF S
  <2> QED BY <1>2, Smallest
<1>4. ASSUME NEW n \in 1 .. l PROVE n >= a <=> p[n].time >= x
  <2>1. ASSUME n >= a PROVE p[n].time >= x
    <3>1. a \in 1 .. l /\ p[a].time >= x /\ a <= n
      BY <1>1, <1>3, <2>1
    <3>2. p[a].time <= p[n].time
      BY <3>1 DEF Sorted
    <3> QED BY <1>1, <3>1, <3>2
  <2>2. ASSUME p[n].time >= x PROVE n >= a
    BY <1>1, <1>3, <2>2
  <2> QED BY <2>1, <2>2
<1> QED BY <1>1, <1>3, <1>4 DEF Since

\* Trimming goes from one moment to a later one.
LEMMA TrimsOn ==
    ASSUME NEW p \in Pushed, NEW x \in Int, NEW t \in Int, x <= t - apm_period,
           NEW a \in 1 .. (Len(p) + 1), Since(p, a, x), NEW c \in 1 .. (Len(p) + 1), Since(p, c, t - apm_period),
           NEW r, NEW sum \in Nat, KeptFrom(r, sum, p, a)
    PROVE  LET q == trim(r, sum, t)
           IN KeptFrom(q.ring, q.sum, p, c) /\ q.sum \in Nat /\ q.sum <= sum
<1> DEFINE b == Len(p) + 1
           f == Items(p)
           g == Scores(p)
<1>1. /\ b \in Nat /\ b - 1 = Len(p) /\ DOMAIN p = 1 .. Len(p) /\ Len(p) \in Nat /\ apm_period \in Nat
      /\ \A n \in 1 .. Len(p) : p[n].time \in Nat
  BY CalcAssumption, PushedIs
<1>2. a \in Nat /\ c \in a .. b
  <2>1. ASSUME c < a PROVE FALSE
    <3>1. c \in 1 .. Len(p) /\ c >= c /\ ~(c >= a)
      BY <1>1, <2>1
    <3>2. p[c].time >= t - apm_period /\ ~(p[c].time >= x)
      BY <3>1 DEF Since
    <3> QED BY <1>1, <3>1, <3>2
  <2> QED BY <1>1, <2>1
<1>3. ASSUME NEW j \in a .. (b - 1)
      PROVE  f[j] # Nil /\ f[j].score = g[j] /\ g[j] \in Nat /\ (Expired(f[j], t) <=> j < c)
  <2>1. j \in 1 .. Len(p) /\ j \in DOMAIN p
    BY <1>1, <1>2
  <2>2. f[j] = [time |-> p[j].time, score |-> ScoreIn(p, j)] /\ g[j] = ScoreIn(p, j)
    BY <2>1 DEF Items, Scores
  <2> HIDE DEF f, g
  <2>3. f[j].time = p[j].time /\ f[j].score = g[j] /\ g[j] \in Nat
    BY <2>2, ScoreIs
  <2>4. f[j] # Nil
    <3>1. "time" \in DOMAIN f[j] /\ DOMAIN Nil = {}
      BY <2>2 DEF Nil
    <3> QED BY <3>1
  <2>5. j >= c <=> p[j].time >= t - apm_period
    BY <2>1 DEF Since
  <2>6. Expired(f[j], t) <=> j < c
    BY <1>1, <1>2, <2>1, <2>3, <2>5 DEF Expired
  <2> QED BY <2>3, <2>4, <2>6
<1>4. Holds(r, f, a, b - a) /\ sum = SumOver(g, a .. (b - 1))
  BY <1>1 DEF KeptFrom
<1> HIDE DEF f, g, b
<1>5. Scored(f, g, a, b, c, t)
  BY <1>1, <1>2, <1>3 DEF Scored
<1> DEFINE q == trim(r, sum, t)
<1>6. Holds(q.ring, f, c, b - c) /\ q.sum = SumOver(g, c .. (b - 1)) /\ q.sum \in Nat /\ q.sum <= sum
  BY <1>4, <1>5, TrimsExpired
<1> HIDE DEF q
<1>7. KeptFrom(q.ring, q.sum, p, c)
  BY <1>1, <1>6 DEF KeptFrom, b, f, g
<1> QED BY <1>6, <1>7 DEF q

\* At the start the ring holds nothing, which is what was pushed.
LEMMA CalcInvInit == CalcInit => CalcInv
<1> SUFFICES ASSUME CalcInit PROVE CalcInv
  OBVIOUS
<1>0. RingSize \in Nat /\ RingSize >= 2 /\ MaxMotions \in Nat /\ Unit \in Nat
  BY CalcAssumption
<1>1. /\ ring = NewRing(RingSize) /\ motions_count = <<>> /\ index_count = 1 /\ apm_sum = 0
      /\ time = 0 /\ pushed = <<>> /\ resized = FALSE
  BY DEF CalcInit
<1>2. /\ <<>> \in Pushed /\ Len(<<>>) = 0
  BY DEF Pushed
<1>3. NewRing(RingSize) = Ring(<<>>, 1, 1, RingSize, 0)
  BY DEF NewRing, Ring
<1>4. CalcTyped
  <2>1. Unit * 0 = 0 /\ Ring(<<>>, 1, 1, RingSize, 0).len = 0
    BY <1>0 DEF Ring
  <2>2. ring.len = 0 /\ Len(pushed) = 0 /\ pushed \in Pushed
    BY <1>1, <1>2, <1>3, <2>1
  <2>3. apm_sum <= Unit * Len(pushed)
    BY <1>1, <2>1, <2>2
  <2>4. 0 \in Nat /\ 0 <= MaxMotions /\ FALSE \in BOOLEAN /\ 0 <= 0
    BY <1>0
  <2>5. /\ time \in Nat /\ apm_sum \in Nat /\ ring.len \in Nat /\ ring.len <= Len(pushed)
        /\ Len(pushed) <= MaxMotions /\ resized \in BOOLEAN
    BY <1>1, <2>2, <2>4, Zenon
  <2> QED BY <2>2, <2>3, <2>5 DEF CalcTyped
<1>5. TimesHold /\ Since(<<>>, 1, time - apm_period)
  BY <1>1, <1>2 DEF TimesHold, Sorted, Since
<1>6. KeptFrom(NewRing(RingSize), 0, <<>>, 1)
  <2>1. (Len(<<>>) + 1) - 1 = 0 /\ 1 .. Len(<<>>) = {} /\ 0 .. (0 - 1) = {}
    BY <1>2
  <2>2. Holds(NewRing(RingSize), Items(<<>>), 1, 0)
    <3>1. Place(1, 0, RingSize) = 1
      BY <1>0, PlaceEnds
    <3>2. Spots(1, 0) = {} /\ DOMAIN <<>> = {}
      BY <2>1 DEF Spots
    <3> QED BY <1>0, <1>3, <2>1, <3>1, <3>2 DEF Holds, IsRing, Ring
  <2>3. Numbers(Scores(<<>>), {})
    BY FS_EmptySet DEF Numbers
  <2>4. SumOver(Scores(<<>>), {}) = 0
    BY <2>3, SumPicks
  <2> QED BY <2>1, <2>2, <2>4 DEF KeptFrom
<1>7. RingHolds
  <2>1. 1 \in 1 .. (Len(<<>>) + 1)
    BY <1>2
  <2> QED BY <1>1, <1>5, <1>6, <2>1 DEF RingHolds
<1> QED BY <1>1, <1>4, <1>5, <1>7, SlotsInit DEF CalcInv

\* The other programs leave the calculator alone.
LEMMA CalcInvStays == UNCHANGED cvars /\ CalcInv => CalcInv'
BY DEF cvars, CalcInv, CalcTyped, TimesHold, RingHolds

\* A report takes out what has expired by now.
LEMMA CalcReported == ASSUME CalcInv, Report PROVE CalcInv'
<1> DEFINE q == trim(ring, apm_sum, time')
<1>0. RingSize \in Nat /\ {apm_period, ReportGap, MaxMotions, Unit} \subseteq Nat
  BY CalcAssumption
<1>1. /\ time' = time + ReportGap /\ ring' = q.ring /\ apm_sum' = q.sum
      /\ UNCHANGED <<motions_count, index_count, pushed, resized>>
  BY DEF Report, Trim
<1>2. /\ pushed \in Pushed /\ Len(pushed) <= MaxMotions /\ time \in Nat /\ resized \in BOOLEAN
      /\ apm_sum \in Nat /\ apm_sum <= Unit * Len(pushed)
      /\ ring.len \in Nat /\ ring.len <= Len(pushed) /\ Sorted(pushed)
  BY DEF CalcInv, CalcTyped, TimesHold
<1>3. Len(pushed) \in Nat /\ \A n \in 1 .. Len(pushed) : pushed[n].time \in Nat
  BY <1>2, PushedIs
<1>4. time' \in Nat /\ time <= time' /\ time - apm_period \in Int /\ time' - apm_period \in Int
      /\ time - apm_period <= time' - apm_period /\ time' \in Int
  BY <1>0, <1>1, <1>2
<1>5. TimesHold'
  BY <1>1, <1>2, <1>3, <1>4 DEF CalcInv, TimesHold
<1>6. SlotsHold(pushed', motions_count', index_count')
  BY <1>1 DEF CalcInv
<1> HIDE DEF q
<1>7. CASE resized
  <2>1. Spent(ring)
    BY <1>7 DEF CalcInv, RingHolds
  <2>2. q = [ring |-> ring, sum |-> apm_sum]
    <3>1. peek(ring) = Nil /\ ring.size \in Nat
      BY <2>1 DEF Spent, peek
    <3> QED BY <3>1, TrimsNothing DEF q
  <2>3. ring' = ring /\ apm_sum' = apm_sum
    BY <1>1, <2>2
  <2> QED BY <1>1, <1>2, <1>4, <1>5, <1>6, <1>7, <2>1, <2>3 DEF CalcInv, CalcTyped, RingHolds
<1>8. CASE ~resized
  <2>1. PICK a \in 1 .. (Len(pushed) + 1) :
          Since(pushed, a, time - apm_period) /\ KeptFrom(ring, apm_sum, pushed, a)
    BY <1>8 DEF CalcInv, RingHolds
  <2>2. PICK c \in 1 .. (Len(pushed) + 1) : Since(pushed, c, time' - apm_period)
    BY <1>2, <1>4, SinceFound
  <2>3. KeptFrom(q.ring, q.sum, pushed, c) /\ q.sum \in Nat /\ q.sum <= apm_sum
    BY <1>2, <1>4, <2>1, <2>2, TrimsOn DEF q
  <2>4. q.ring.len = (Len(pushed) + 1) - c
    BY <2>3 DEF KeptFrom, Holds
  <2>5. ring'.len \in Nat /\ ring'.len <= Len(pushed)
    BY <1>1, <1>3, <2>4
  <2>6. apm_sum' \in Nat /\ apm_sum' <= Unit * Len(pushed)
    <3> DEFINE u == Unit * Len(pushed)
    <3>1. u \in Nat
      BY <1>0, <1>3, TimesGrows
    <3> HIDE DEF u
    <3>2. apm_sum <= u
      BY <1>2 DEF u
    <3>3. apm_sum' \in Nat /\ apm_sum' <= u
      BY <1>1, <1>2, <2>3, <3>1, <3>2
    <3> QED BY <3>3 DEF u
  <2>7. CalcTyped'
    BY <1>1, <1>2, <1>4, <2>5, <2>6 DEF CalcTyped
  <2>8. RingHolds'
    BY <1>1, <1>8, <2>2, <2>3 DEF RingHolds
  <2> QED BY <1>5, <1>6, <2>7, <2>8 DEF CalcInv
<1> QED BY <1>7, <1>8

\* A clear begins anew.
LEMMA CalcCleared == ASSUME CalcInv, Clear PROVE CalcInv'
<1>1. CalcInit'
  BY DEF Clear, CalcInit
<1>2. (CalcInit => CalcInv)'
  BY CalcInvInit, PTL
<1> QED BY <1>1, <1>2

\* A motion is stored and counted, and what has expired goes, unless this fills the ring.
LEMMA CalcPushed == ASSUME CalcInv, NEW key \in Motions, Push(key) PROVE CalcInv'
<1> DEFINE counted == Cardinality({i \in DOMAIN motions_count : motions_count[i] = key})
           score == Unit \div (1 + counted)
           item == [time |-> time', score |-> score]
           e == [time |-> time', key |-> key]
           p == Append(pushed, e)
           l == Len(pushed)
           r == ringPush(ring, item)
           w == Stored(ring, item)
           sum == apm_sum + score
           q == trim(r, sum, time')
<1>0. /\ RingSize \in Nat /\ RingSize >= 2 /\ {apm_period, MotionGap, MaxMotions, Unit} \subseteq Nat
      /\ l < MaxMotions /\ time' = time + MotionGap
  BY CalcAssumption DEF Push
<1>1. ring' = q.ring /\ apm_sum' = q.sum /\ resized' = (resized \/ Full(w))
  BY DEF Push, Trim
<1>2. /\ motions_count' = [i \in DOMAIN motions_count \cup {index_count} |->
                             IF i = index_count THEN key ELSE motions_count[i]]
      /\ index_count' = IF index_count + 1 > apm_repeat_count THEN 1 ELSE index_count + 1
      /\ pushed' = p
  BY DEF Push, NextIndex
<1>3. /\ pushed \in Pushed /\ Len(pushed) <= MaxMotions /\ time \in Nat /\ resized \in BOOLEAN
      /\ apm_sum \in Nat /\ apm_sum <= Unit * Len(pushed)
      /\ ring.len \in Nat /\ ring.len <= Len(pushed) /\ Sorted(pushed)
      /\ \A n \in 1 .. Len(pushed) : pushed[n].time <= time
  BY DEF CalcInv, CalcTyped, TimesHold
<1>4. l \in Nat /\ \A n \in 1 .. l : pushed[n].time \in Nat
  BY <1>3, PushedIs
<1>5. /\ time' \in Nat /\ time <= time' /\ time - apm_period \in Int /\ time' - apm_period \in Int
      /\ time - apm_period <= time' - apm_period /\ time' \in Int /\ time - apm_period <= time'
  BY <1>0, <1>3
<1>6. /\ p \in Pushed /\ Len(p) = l + 1 /\ (\A n \in 1 .. l : p[n] = pushed[n]) /\ p[l + 1].time = time'
      /\ DOMAIN p = 1 .. (l + 1) /\ DOMAIN pushed = 1 .. l
  <2> HIDE DEF e
  <2>1. e \in [time : Nat, key : Motions] /\ e.time = time'
    BY <1>5 DEF e
  <2> QED BY <1>3, <2>1 DEF Pushed
<1> HIDE DEF q, r, w, p, l
<1>7. TimesHold'
  <2>1. \A n \in 1 .. (l + 1) : n = l + 1 \/ n \in 1 .. l
    BY <1>4
  <2>2. \A n \in 1 .. (l + 1) : p[n].time \in Nat /\ p[n].time <= time' /\ (n # l + 1 => p[n].time <= time)
    BY <1>3, <1>4, <1>5, <1>6, <2>1 DEF l
  <2>3. Sorted(p)
    <3> SUFFICES ASSUME NEW i \in 1 .. (l + 1), NEW j \in 1 .. (l + 1), i <= j PROVE p[i].time <= p[j].time
      BY <1>6 DEF Sorted
    <3>1. CASE j = l + 1
      BY <1>6, <2>2, <3>1
    <3>2. CASE j # l + 1
      <4>1. i \in 1 .. l /\ j \in 1 .. l
        BY <1>4, <3>2
      <4> QED BY <1>3, <1>6, <4>1 DEF Sorted, l
    <3> QED BY <3>1, <3>2
  <2> QED BY <1>2, <1>6, <2>2, <2>3 DEF TimesHold
<1>8. SlotsHold(pushed', motions_count', index_count')
  <2>1. SlotsHold(pushed, motions_count, index_count)
    BY DEF CalcInv
  <2> QED BY <1>2, <1>3, <1>5, <2>1, SlotsMove DEF p
<1>9. score = ScoreIn(p, l + 1) /\ score \in Nat /\ score <= Unit
  <2>1. SlotsHold(pushed, motions_count, index_count)
    BY DEF CalcInv
  <2>2. score = ScoreIn(p, l + 1)
    BY <1>3, <1>5, <2>1, CountIs DEF p, l
  <2> HIDE DEF score
  <2> QED BY <1>6, <2>2, ScoreIs
<1> HIDE DEF score
<1>10. sum \in Nat /\ sum <= Unit * (l + 1)
  <2> DEFINE u == Unit * l
  <2>1. u \in Nat /\ Unit * (l + 1) = u + Unit
    BY <1>0, <1>4
  <2>2. apm_sum <= u /\ apm_sum \in Nat
    BY <1>3 DEF l
  <2> HIDE DEF u
  <2> QED BY <1>0, <1>9, <2>1, <2>2
<1> HIDE DEF sum
<1>11. ASSUME NEW v \in Nat, v <= sum PROVE v <= Unit * (l + 1)
  <2> DEFINE u == Unit * (l + 1)
  <2>1. u \in Nat
    BY <1>0, <1>4
  <2>2. sum <= u
    BY <1>10
  <2> HIDE DEF u
  <2>3. v <= u
    BY <1>10, <1>11, <2>1, <2>2
  <2> QED BY <2>3 DEF u
<1>12. l + 1 <= MaxMotions
  BY <1>0, <1>4
<1>13. ASSUME apm_sum' \in Nat, apm_sum' <= sum, ring'.len \in Nat, ring'.len <= l + 1 PROVE CalcTyped'
  <2>1. resized' \in BOOLEAN
    BY <1>1, <1>3
  <2> QED BY <1>2, <1>5, <1>6, <1>11, <1>12, <1>13, <2>1 DEF CalcTyped
<1>14. ASSUME Spent(r), r.len \in Nat, r.len <= l + 1, resized' PROVE CalcInv'
  <2>1. q = [ring |-> r, sum |-> sum]
    <3>1. peek(r) = Nil /\ r.size \in Nat
      BY <1>14 DEF Spent, peek
    <3> QED BY <3>1, TrimsNothing DEF q
  <2>2. ring' = r /\ apm_sum' = sum
    BY <1>1, <2>1
  <2>3. CalcTyped'
    BY <1>10, <1>13, <1>14, <2>2
  <2>4. RingHolds'
    BY <1>14, <2>2 DEF RingHolds
  <2> QED BY <1>7, <1>8, <2>3, <2>4 DEF CalcInv
<1>15. r = IF Full(w) THEN resize(w) ELSE w
  BY DEF r, w, ringPush
<1>16. CASE resized
  <2>1. Spent(ring)
    BY <1>16 DEF CalcInv, RingHolds
  <2>2. StoredIn(ring, item, w)
    BY <2>1, RingIs DEF Spent, w
  <2>3. /\ IsRing(w) /\ w.start = 1 /\ w.size = ring.size /\ w.len = ring.len + 1
        /\ w.stop = (IF ring.stop + 1 > ring.size THEN 1 ELSE ring.stop + 1)
        /\ 1 \notin DOMAIN w.buffer /\ ring.size \in Nat /\ ring.stop \in 2 .. ring.size
    BY <2>1, <2>2 DEF Spent, StoredIn, After
  <2>4. w.len \in Nat /\ w.len <= l + 1
    BY <1>3, <1>4, <2>3 DEF l
  <2>5. CASE Full(w)
    <3>1. ResizedTo(w, r)
      BY <1>15, <2>3, <2>5, RingIs
    <3>2. /\ IsRing(r) /\ r.start = 1 /\ r.stop = ring.size /\ r.size = 2 * ring.size /\ r.len = w.len
          /\ 1 \notin DOMAIN r.buffer
      BY <2>3, <3>1 DEF ResizedTo
    <3>3. Spent(r)
      BY <2>3, <3>2 DEF Spent
    <3> QED BY <1>1, <1>14, <1>16, <2>4, <3>2, <3>3
  <2>6. CASE ~Full(w)
    <3>1. w.stop \in 2 .. w.size
      BY <2>3, <2>6 DEF Full
    <3>2. Spent(w)
      BY <2>3, <3>1 DEF Spent
    <3> QED BY <1>1, <1>14, <1>15, <1>16, <2>4, <2>6, <3>2
  <2> QED BY <2>5, <2>6
<1>17. CASE ~resized
  <2>1. PICK a \in 1 .. (Len(pushed) + 1) :
          Since(pushed, a, time - apm_period) /\ KeptFrom(ring, apm_sum, pushed, a)
    BY <1>17 DEF CalcInv, RingHolds
  <2> DEFINE m == (l + 1) - a
  <2>2. /\ a \in 1 .. (l + 1) /\ m \in Nat /\ a + m = l + 1 /\ m + 1 = (Len(p) + 1) - a
        /\ a \in 1 .. (Len(p) + 1)
    BY <1>4, <1>6 DEF l
  <2>3. Holds(ring, Items(pushed), a, m)
    BY <2>1 DEF KeptFrom, l
  <2>4. (\A k \in 0 .. (m - 1) : Items(p)[a + k] = Items(pushed)[a + k]) /\ Items(p)[a + m] = item
    <3>1. ASSUME NEW n \in 1 .. l PROVE Items(p)[n] = Items(pushed)[n]
      <4>1. n \in DOMAIN p /\ n \in DOMAIN pushed /\ p[n] = pushed[n]
        BY <1>4, <1>6
      <4>2. ScoreIn(p, n) = ScoreIn(pushed, n)
        <5>1. e \in [time : Nat, key : Motions]
          BY <1>5
        <5> HIDE DEF e
        <5> QED BY <1>3, <5>1, ScoreStays DEF p, l
      <4> QED BY <4>1, <4>2 DEF Items
    <3>2. \A k \in 0 .. (m - 1) : a + k \in 1 .. l
      BY <1>4, <2>2
    <3>3. Items(p)[l + 1] = item
      <4>1. l + 1 \in DOMAIN p
        BY <1>4, <1>6
      <4> QED BY <1>6, <1>9, <4>1 DEF Items
    <3> QED BY <2>2, <3>1, <3>2, <3>3
  <2> HIDE DEF item, m
  <2>5. /\ IF m + 1 = RingSize THEN Full(w) ELSE Holds(w, Items(p), a, m + 1)
        /\ m + 1 # RingSize => ~Full(w)
    BY <2>3, <2>4, StoredHolds DEF w
  <2>6. CASE m + 1 = RingSize
    <3>1. Full(w) /\ StoredIn(ring, item, w)
      BY <2>3, <2>5, <2>6, RingIs DEF Holds, w
    <3>2. IsRing(w) /\ w.size = RingSize /\ w.len = ring.len + 1
      BY <2>3, <3>1 DEF StoredIn, Holds
    <3>3. ResizedTo(w, r)
      BY <1>15, <3>1, <3>2, RingIs
    <3>4. Spent(r)
      BY <1>0, <3>2, <3>3 DEF ResizedTo, Spent
    <3>5. r.len \in Nat /\ r.len <= l + 1
      BY <1>3, <1>4, <3>2, <3>3 DEF ResizedTo, l
    <3> QED BY <1>1, <1>14, <3>1, <3>4, <3>5
  <2>7. CASE m + 1 # RingSize
    <3>1. r = w /\ Holds(r, Items(p), a, (Len(p) + 1) - a) /\ ~resized'
      BY <1>1, <1>15, <1>17, <2>2, <2>5, <2>7
    <3>2. sum = SumOver(Scores(p), a .. (l + 1))
      <4> DEFINE S == a .. (l + 1)
                 R == a .. l
                 f == Scores(pushed)
                 g == Scores(p)
      <4>1. apm_sum = SumOver(f, R)
        BY <2>1 DEF KeptFrom, l
      <4>2. l + 1 \in S /\ S \ {l + 1} = R
        BY <1>4, <2>2
      <4>3. IsFiniteSet(S) /\ IsFiniteSet(R)
        <5>1. a \in Int /\ l \in Int /\ l + 1 \in Int
          BY <1>4, <2>2
        <5> QED BY <5>1, FS_Interval
      <4>4. \A n \in S : n \in DOMAIN p /\ g[n] = ScoreIn(p, n)
        <5>1. \A n \in S : n \in DOMAIN p
          BY <1>4, <1>6, <2>2
        <5> HIDE DEF S
        <5> QED BY <5>1 DEF Scores
      <4>5. \A n \in R : n \in 1 .. l /\ n \in DOMAIN pushed /\ n \in S /\ f[n] = ScoreIn(pushed, n)
        <5>1. \A n \in R : n \in 1 .. l /\ n \in DOMAIN pushed /\ n \in S
          BY <1>4, <1>6, <2>2
        <5> HIDE DEF S, R
        <5> QED BY <5>1 DEF Scores
      <4> HIDE DEF S, R, f, g
      <4>6. Numbers(g, S) /\ Numbers(f, R)
        BY <1>3, <1>6, <4>3, <4>4, <4>5, ScoreIs DEF Numbers
      <4>7. \A n \in R : f[n] = g[n]
        <5>1. e \in [time : Nat, key : Motions]
          BY <1>5
        <5> HIDE DEF e
        <5>2. \A n \in 1 .. l : ScoreIn(p, n) = ScoreIn(pushed, n)
          BY <1>3, <5>1, ScoreStays DEF p, l
        <5> QED BY <4>4, <4>5, <5>2
      <4>8. SumOver(f, R) = SumOver(g, R)
        BY <4>6, <4>7, SumSame
      <4>9. SumOver(g, S) = g[l + 1] + SumOver(g, S \ {l + 1})
        BY <4>2, <4>6, SumTakes
      <4>10. g[l + 1] = score
        BY <1>9, <4>2, <4>4
      <4>11. SumOver(g, S) = apm_sum + score
        <5>1. SumOver(g, S) = score + apm_sum
          BY <4>1, <4>2, <4>8, <4>9, <4>10
        <5> QED BY <1>3, <1>9, <5>1
      <4> QED BY <4>11 DEF sum, S, g
    <3>3. KeptFrom(r, sum, p, a)
      BY <1>6, <3>1, <3>2 DEF KeptFrom
    <3>4. Since(p, a, time - apm_period)
      <4>1. ASSUME NEW n \in 1 .. (l + 1) PROVE n >= a <=> p[n].time >= time - apm_period
        <5>1. CASE n = l + 1
          <6>1. n >= a /\ p[n].time = time'
            BY <1>4, <1>6, <2>2, <5>1
          <6> QED BY <1>5, <6>1
        <5>2. CASE n # l + 1
          <6>1. n \in 1 .. l
            BY <1>4, <5>2
          <6> QED BY <1>6, <2>1, <6>1 DEF Since, l
        <5> QED BY <5>1, <5>2
      <4> QED BY <1>6, <2>2, <4>1 DEF Since
    <3>5. Sorted(p)
      BY <1>2, <1>7 DEF TimesHold
    <3>6. PICK c \in 1 .. (Len(p) + 1) : Since(p, c, time' - apm_period)
      BY <1>5, <1>6, <3>5, SinceFound
    <3>7. KeptFrom(q.ring, q.sum, p, c) /\ q.sum \in Nat /\ q.sum <= sum
      BY <1>5, <1>6, <1>10, <2>2, <3>3, <3>4, <3>6, TrimsOn DEF q
    <3>8. q.ring.len = (Len(p) + 1) - c
      BY <3>7 DEF KeptFrom, Holds
    <3>9. q.ring.len \in Nat /\ q.ring.len <= l + 1
      BY <1>4, <1>6, <3>6, <3>8
    <3>10. CalcTyped'
      BY <1>1, <1>13, <3>7, <3>9
    <3>11. RingHolds'
      BY <1>1, <1>2, <3>1, <3>6, <3>7 DEF RingHolds
    <3> QED BY <1>7, <1>8, <3>10, <3>11 DEF CalcInv
  <2> QED BY <2>6, <2>7
<1> QED BY <1>16, <1>17, <1>3

\* Every step of the calculator keeps the invariant.
LEMMA CalcInvKept == CalcInv /\ CalcNext => CalcInv'
BY CalcReported, CalcCleared, CalcPushed DEF CalcNext

\* The invariant says that the sum is the window's.
LEMMA CalcInvSays == CalcInv => SumIsWindow
<1> SUFFICES ASSUME CalcInv PROVE SumIsWindow
  OBVIOUS
<1> DEFINE l == Len(pushed)
<1>0. {apm_period, MaxMotions, Unit} \subseteq Nat
  BY CalcAssumption
<1>1. /\ pushed \in Pushed /\ l <= MaxMotions /\ time \in Nat /\ resized \in BOOLEAN
      /\ apm_sum \in Nat /\ apm_sum <= Unit * l /\ ring.len \in Nat /\ ring.len <= l
  BY DEF CalcInv, CalcTyped
<1>2. l \in Nat /\ DOMAIN pushed = 1 .. l
  BY <1>1, PushedIs
<1>3. CalcTypeOK
  <2>1. ring.len \in 0 .. MaxMotions
    BY <1>0, <1>1, <1>2
  <2>2. apm_sum \in 0 .. Unit * MaxMotions
    <3> DEFINE u == Unit * l
               v == Unit * MaxMotions
    <3>1. u <= v /\ u \in Nat
      BY <1>0, <1>1, <1>2, TimesGrows
    <3>2. v \in Nat
      BY <1>0
    <3>3. apm_sum <= u
      BY <1>1
    <3> HIDE DEF u, v
    <3>4. apm_sum \in 0 .. v
      BY <1>1, <3>1, <3>2, <3>3
    <3> QED BY <3>4 DEF v
  <2>3. SlotsHold(pushed, motions_count, index_count)
    BY DEF CalcInv
  <2>4. \A d \in Recent(pushed) : Slot(index_count, d) \in 1 .. apm_repeat_count
    BY <2>3, SlotIs DEF SlotsHold, Recent
  <2>5. index_count \in 1 .. apm_repeat_count /\ DOMAIN motions_count \subseteq 1 .. apm_repeat_count
    BY <2>3, <2>4 DEF SlotsHold
  <2> QED BY <2>1, <2>2, <2>5 DEF CalcTypeOK
<1>4. CASE resized
  <2>1. peek(ring) = Nil
    BY <1>4 DEF CalcInv, RingHolds, Spent, peek
  <2> QED BY <1>3, <1>4, <2>1 DEF SumIsWindow
<1>5. CASE ~resized
  <2>1. PICK a \in 1 .. (l + 1) : Since(pushed, a, time - apm_period) /\ KeptFrom(ring, apm_sum, pushed, a)
    BY <1>5 DEF CalcInv, RingHolds
  <2>2. Window = a .. l
    BY <1>2, <2>1 DEF Since, Window
  <2> HIDE DEF l
  <2>3. apm_sum = FoldFunction(+, 0, [n \in Window |-> ScoreOf(n)])
    <3> DEFINE f == [n \in Window |-> ScoreOf(n)]
               g == Scores(pushed)
    <3>1. IsFiniteSet(Window)
      BY <1>2, <2>1, <2>2, FS_Interval
    <3>2. \A n \in Window : n \in DOMAIN pushed
      BY DEF Window
    <3>3. DOMAIN f = Window /\ \A n \in Window : f[n] = ScoreOf(n)
      OBVIOUS
    <3>4. \A n \in Window : g[n] = ScoreIn(pushed, n)
      BY <3>2 DEF Scores
    <3>5. \A n : ScoreOf(n) = ScoreIn(pushed, n)
      BY DEF ScoreOf, ScoreIn
    <3> HIDE DEF f, g
    <3>6. Numbers(g, Window) /\ \A n \in Window : g[n] = f[n]
      BY <1>1, <3>1, <3>3, <3>4, <3>5, ScoreIs DEF Numbers
    <3>7. FoldFunction(+, 0, f) = SumOver(f, Window)
      BY <3>3, FoldIs
    <3>8. apm_sum = SumOver(g, Window)
      BY <2>1, <2>2 DEF KeptFrom, l, g
    <3>9. SumOver(g, Window) = SumOver(f, Window)
      BY <3>6, SumSame
    <3>10. apm_sum = FoldFunction(+, 0, f)
      BY <3>7, <3>8, <3>9
    <3> QED BY <3>10 DEF f
  <2>4. Holds(ring, Items(pushed), a, (l + 1) - a)
    BY <2>1 DEF KeptFrom, l
  <2>5. ring.len = Cardinality(Window)
    <3>1. ring.len = (l + 1) - a
      BY <2>4 DEF Holds
    <3>2. Cardinality(a .. l) = (l + 1) - a
      <4>1. Cardinality(a .. l) = IF a > l THEN 0 ELSE l - a + 1
        BY <1>2, <2>1, FS_Interval
      <4> QED BY <1>2, <2>1, <4>1
    <3> QED BY <2>2, <3>1, <3>2
  <2>6. Window = {} \/ peek(ring).time = pushed[Min(Window)].time
    <3> SUFFICES ASSUME Window # {} PROVE peek(ring).time = pushed[Min(Window)].time
      OBVIOUS
    <3>1. a <= l /\ a \in Window /\ a \in DOMAIN pushed /\ (l + 1) - a # 0
      BY <1>2, <2>1, <2>2
    <3>2. Min(Window) = a
      <4>1. Window \in SUBSET Nat /\ \A n \in Window : a <= n
        BY <1>2, <2>1, <2>2
      <4>2. Min(Window) \in Window /\ Min(Window) <= a
        BY <3>1, <4>1, MinIs
      <4> DEFINE m == Min(Window)
      <4>3. m \in Nat /\ a <= m /\ m <= a
        BY <4>1, <4>2
      <4>4. a \in Nat
        BY <2>1
      <4> HIDE DEF m
      <4>5. m = a
        BY <4>3, <4>4
      <4> QED BY <4>5 DEF m
    <3>3. peek(ring) = Items(pushed)[a]
      BY <2>4, <3>1, PeekIs
    <3>4. Items(pushed)[a].time = pushed[a].time
      BY <3>1 DEF Items
    <3> QED BY <3>2, <3>3, <3>4
  <2> QED BY <1>3, <1>5, <2>3, <2>5, <2>6 DEF SumIsWindow
<1> QED BY <1>4, <1>5

-----------------------------------------------------------------------------
(* The file of statistics *)

Texts == [kind : {"json", "empty", "junk"}, count : Nat, time : Nat]
Busy(e) == at[e].step # "idle"
\* Types; an editor that reports is set up, and no reporter is ahead of the clock.
FileTyped ==
  /\ file \in Texts /\ clock \in Nat /\ events \in 0 .. MaxEvents /\ dropped \in Nat
  /\ setups \in [Editors -> 0 .. MaxSetups] /\ enabled \in [Editors -> BOOLEAN]
  /\ own \in [Reporters -> Nat] /\ since \in [Reporters -> Nat] /\ due \subseteq Reporters
  /\ at \in [Editors -> [step : {"idle", "read", "opened"}, by : 0 .. MaxSetups, merged : Texts]]
  /\ overlap \in BOOLEAN /\ failed \in BOOLEAN /\ again \in BOOLEAN
  /\ \A e \in Editors : (~Busy(e) => at[e] = AtRest) /\ (enabled[e] => setups[e] > 0)
  /\ \A r \in due : since[r] <= clock

\* The events that wait in the reporters.
Waiting == SumOver(own, Reporters)

\* No event is twice in the file or in what will be written, and also there or waiting or cleared.
NoneTwice ==
  /\ file.count + Waiting + dropped <= events
  /\ \A e \in Editors : Busy(e) => at[e].merged.count + Waiting + dropped <= events

\* While the editors take turns, what the file lacks is in what its one writer will write.
NoneLost ==
  ~overlap /\ ~failed =>
    /\ \A e, f \in Editors : Busy(e) /\ Busy(f) => e = f
    /\ (\A e \in Editors : ~Busy(e)) => file.count + Waiting + dropped = events
    /\ \A e \in Editors : Busy(e) => at[e].merged.count + Waiting + dropped = events
    /\ \A e \in Editors : at[e].step = "opened" => file.kind = "empty"

\* The time up to which each editor has reported bounds the time in the file.
Spans(lived, t) == t <= SumOver(lived, Editors)
LivedTo(lived) ==
  /\ \A e \in Editors : lived[e] <= clock /\ (setups[e] = 0 => lived[e] = 0)
  /\ \A r \in due : lived[r[1]] <= since[r]
  /\ Spans(lived, file.time) /\ \A e \in Editors : Busy(e) => Spans(lived, at[e].merged.time)
TimeOnce ==
  ~again => /\ \A q, r \in due : q[1] = r[1] => q = r
            /\ \E lived \in [Editors -> Nat] : LivedTo(lived)

FileInv == FileTyped /\ NoneTwice /\ NoneLost /\ TimeOnce

\* There are finitely many reporters, so their counts have a sum.
LEMMA ReportersFinite == IsFiniteSet(Reporters) /\ (own \in [Reporters -> Nat] => Numbers(own, Reporters))
<1>1. IsFiniteSet(Editors) /\ IsFiniteSet(1 .. MaxSetups)
  BY FS_Interval, FileAssumption
<1>2. IsFiniteSet(Editors \X (1 .. MaxSetups))
  BY <1>1, FS_Product
<1> QED BY <1>2 DEF Reporters, Numbers

\* The sum after a step.
LEMMA WaitingNext == Waiting' = SumOver(own', Reporters)
BY DEF Waiting, SumOver, Sums, pick, Reporters

\* Time that is bounded stays so.
LEMMA SpansNext == ASSUME NEW lived, NEW t, Spans(lived, t) PROVE Spans(lived, t)'
BY DEF Spans, SumOver, Sums, pick

\* What a clear takes out of the reporters it adds to what was cleared.
LEMMA ClearedCounts ==
    ASSUME FileTyped, NEW e \in Editors, Cleared(e)
    PROVE  /\ own' \in [Reporters -> Nat] /\ dropped' \in Nat /\ Waiting \in Nat /\ Waiting' \in Nat
           /\ Waiting' + dropped' = Waiting + dropped
<1>1. own \in [Reporters -> Nat] /\ dropped \in Nat
  BY DEF FileTyped
<1>2. own' = [r \in Reporters |-> IF r \in Of(e) THEN 0 ELSE own[r]]
  BY DEF Cleared
<1>3. Of(e) \in SUBSET Reporters
  BY DEF Of, Reporters
<1>4. own' \in [Reporters -> Nat]
  BY <1>1, <1>2
<1> DEFINE mine == [r \in Of(e) |-> own[r]]
<1>5. dropped' = dropped + Total(mine)
  BY DEF Cleared
<1>6. Numbers(own, Reporters) /\ Numbers(own, Of(e)) /\ Numbers(mine, Of(e))
  BY <1>1, <1>3, ReportersFinite, FS_Subset DEF Numbers
<1>7. Total(mine) = SumOver(own, Of(e)) /\ SumOver(own, Of(e)) \in Nat
  <2>1. DOMAIN mine = Of(e) /\ \A r \in Of(e) : mine[r] = own[r]
    OBVIOUS
  <2>2. Total(mine) = SumOver(mine, Of(e))
    BY <2>1, TotalIs
  <2> HIDE DEF mine
  <2>3. SumOver(mine, Of(e)) = SumOver(own, Of(e))
    BY <1>6, <2>1, SumSame
  <2>4. SumOver(own, Of(e)) \in Nat
    BY <1>6, SumPicks
  <2> QED BY <2>2, <2>3, <2>4
<1> HIDE DEF mine
<1>8. \A r \in Reporters : own'[r] = IF r \in Of(e) THEN 0 ELSE own[r]
  BY <1>2
<1>9. SumOver(own, Reporters) = SumOver(own', Reporters) + SumOver(own, Of(e)) /\ Numbers(own', Reporters)
  BY <1>3, <1>6, <1>8, SumParts
<1>10. SumOver(own, Reporters) \in Nat
  BY <1>6, SumPicks
<1>11. SumOver(own', Reporters) \in Nat
  BY <1>9, SumPicks
<1> QED BY <1>1, <1>4, <1>5, <1>7, <1>9, <1>10, <1>11, WaitingNext DEF Waiting

\* One reporter's count changes.
LEMMA CountChanges ==
    ASSUME FileTyped, NEW r \in Reporters, NEW n \in Nat, own' = [own EXCEPT ![r] = n]
    PROVE  /\ own' \in [Reporters -> Nat] /\ Waiting \in Nat /\ Waiting' \in Nat
           /\ own[r] \in Nat /\ own[r] <= Waiting /\ Waiting' = Waiting - own[r] + n
<1>1. own \in [Reporters -> Nat]
  BY DEF FileTyped
<1>2. own' \in [Reporters -> Nat] /\ own'[r] = n /\ own'[r] \in Nat /\ OnlyAt(r, own, own', Reporters)
  BY <1>1 DEF OnlyAt
<1>3. Numbers(own, Reporters)
  BY <1>1, ReportersFinite
<1>4. /\ SumOver(own', Reporters) = SumOver(own, Reporters) - own[r] + own'[r]
      /\ own[r] <= SumOver(own, Reporters)
      /\ SumOver(own, Reporters) \in Nat /\ SumOver(own', Reporters) \in Nat
  BY <1>2, <1>3, SumChanges
<1> QED BY <1>1, <1>2, <1>4, WaitingNext DEF Waiting

\* It is the same if no reporter's count has changed.
LEMMA WaitingSame ==
    ASSUME FileTyped
    PROVE  Waiting \in Nat /\ (own' = own => Waiting' = Waiting)
<1>1. Waiting \in Nat
  BY ReportersFinite, SumPicks DEF FileTyped, Waiting
<1>2. own' = own => Waiting' = Waiting
  BY WaitingNext DEF Waiting
<1> QED BY <1>1, <1>2

\* No editor was set up more often than all of them.
LEMMA SetupsBound ==
    ASSUME FileTyped, NEW e \in Editors
    PROVE  Total(setups) \in Nat /\ setups[e] <= Total(setups)
<1>1. setups \in [Editors -> Nat] /\ IsFiniteSet(Editors)
  BY FileAssumption DEF FileTyped
<1>2. Numbers(setups, Editors)
  BY <1>1 DEF Numbers
<1> DEFINE T == Editors \ {e}
<1>3. setups[e] \in Nat /\ Numbers(setups, T)
  BY <1>1, FS_Subset DEF Numbers
<1>4. setups[e] <= SumOver(setups, Editors) /\ SumOver(setups, Editors) \in Nat
  <2>1. SumOver(setups, Editors) = setups[e] + SumOver(setups, T)
    BY <1>2, SumTakes
  <2>2. SumOver(setups, T) \in Nat
    <3> HIDE DEF T
    <3> QED BY <1>3, SumPicks
  <2> QED BY <1>3, <2>1, <2>2
<1>5. Total(setups) = SumOver(setups, Editors)
  BY <1>1, TotalIs
<1> QED BY <1>4, <1>5

\* A merge counts all that was read and waited.
LEMMA MergeIs ==
    ASSUME FileTyped, NEW r \in due
    PROVE  /\ merge(r) \in Texts /\ r \in Reporters /\ clock - since[r] \in Nat
           /\ merge(r).count = own[r] + file.count /\ merge(r).time = file.time + (clock - since[r])
<1>1. r \in Reporters /\ own[r] \in Nat /\ since[r] \in Nat /\ since[r] <= clock /\ clock \in Nat
  BY DEF FileTyped
<1>2. file.count \in Nat /\ file.time \in Nat
  BY DEF FileTyped, Texts
<1> DEFINE c == own[r] + file.count
           t == file.time + (clock - since[r])
<1>3. c \in Nat /\ t \in Nat /\ clock - since[r] \in Nat
  BY <1>1, <1>2
<1>4. merge(r) = [kind |-> "json", count |-> c, time |-> t]
  BY DEF merge
<1> HIDE DEF c, t
<1>5. merge(r) \in Texts /\ merge(r).count = c /\ merge(r).time = t
  BY <1>3, <1>4 DEF Texts
<1> QED BY <1>1, <1>3, <1>5 DEF c, t

FileStep ==
  \/ Tick
  \/ \E e \in Editors : VimApmClear(e) \/ Setup(e) \/ Event(e) \/ Open(e) \/ Write(e)
                      \/ OpenFails(e) \/ WriteFails(e)
  \/ \E e \in Editors, n \in 1 .. MaxSetups : Interval(e, n) \/ Merge(e, n)

\* The steps, by reporter and editor.
LEMMA FileSteps == FileNext => FileStep
BY DEF FileNext, FileStep

\* The texts without counts, and an editor at rest.
LEMMA TextsAre ==
    /\ Text("empty") \in Texts /\ Text("junk") \in Texts
    /\ Text("empty").kind = "empty" /\ AtRest.step = "idle"
    /\ Text("empty").count = 0 /\ Text("junk").count = 0 /\ Text("empty").time = 0 /\ Text("junk").time = 0
    /\ AtRest \in [step : {"idle", "read", "opened"}, by : 0 .. MaxSetups, merged : Texts]
BY FileAssumption DEF Text, Texts, AtRest

\* Every step keeps the types.
LEMMA FileTypedKept == ASSUME FileTyped, FileStep PROVE FileTyped'
<1>0. /\ IsFiniteSet(Editors) /\ MaxSetups \in Nat /\ MaxEvents \in Nat
      /\ file \in Texts /\ clock \in Nat /\ events \in 0 .. MaxEvents /\ dropped \in Nat
      /\ setups \in [Editors -> 0 .. MaxSetups] /\ enabled \in [Editors -> BOOLEAN]
      /\ own \in [Reporters -> Nat] /\ since \in [Reporters -> Nat] /\ due \subseteq Reporters
      /\ at \in [Editors -> [step : {"idle", "read", "opened"}, by : 0 .. MaxSetups, merged : Texts]]
      /\ overlap \in BOOLEAN /\ failed \in BOOLEAN /\ again \in BOOLEAN
  BY FileAssumption DEF FileTyped
<1>i. \A e \in Editors : (~Busy(e) => at[e] = AtRest) /\ (enabled[e] => setups[e] > 0)
  BY DEF FileTyped
<1>d. \A r \in due : r \in Reporters /\ since[r] <= clock
  BY DEF FileTyped
<1>r. \A e \in Editors, n \in 1 .. MaxSetups : <<e, n>> \in Reporters
  BY DEF Reporters
<1>a. CASE Tick
  BY <1>0, <1>i, <1>d, <1>a DEF Tick, FileTyped, Busy, reporters, noted, Reporters
<1>b. ASSUME NEW e \in Editors, VimApmClear(e) PROVE FileTyped'
  <2>1. own' \in [Reporters -> Nat] /\ dropped' \in Nat
    BY <1>b, ClearedCounts DEF VimApmClear
  <2>2. enabled' \in [Editors -> BOOLEAN] /\ \A f \in Editors : enabled'[f] => enabled[f]
    BY <1>0, <1>b DEF VimApmClear
  <2> QED BY <1>0, <1>i, <1>d, <1>b, <2>1, <2>2 DEF VimApmClear, FileTyped, Busy, Reporters
<1>c. ASSUME NEW e \in Editors, Setup(e) PROVE FileTyped'
  <2>1. own' \in [Reporters -> Nat] /\ dropped' \in Nat
    BY <1>c, ClearedCounts DEF Setup
  <2>2. setups[e] + 1 \in 1 .. MaxSetups
    BY <1>0, <1>c, SetupsBound DEF Setup
  <2>3. setups'[e] = setups[e] + 1 /\ setups' \in [Editors -> 0 .. MaxSetups]
    BY <1>0, <1>c, <2>2 DEF Setup
  <2>4. \A f \in Editors : f # e => setups'[f] = setups[f] /\ enabled'[f] = enabled[f]
    BY <1>0, <1>c DEF Setup
  <2>5. enabled' \in [Editors -> BOOLEAN]
    BY <1>0, <1>c DEF Setup
  <2> DEFINE r == <<e, setups'[e]>>
  <2>6. r \in Reporters
    BY <1>r, <2>2, <2>3
  <2>7. since' = [since EXCEPT ![r] = clock] /\ due' = due \cup {r}
    BY <1>c DEF Setup
  <2> HIDE DEF r
  <2>8. since' \in [Reporters -> Nat] /\ due' \subseteq Reporters /\ \A q \in due' : since'[q] <= clock
    BY <1>0, <1>d, <2>6, <2>7
  <2>9. \A f \in Editors : enabled'[f] => setups'[f] > 0
    BY <1>i, <2>2, <2>3, <2>4
  <2>10. /\ UNCHANGED <<file, at, clock, events, overlap, failed>>
         /\ again' \in BOOLEAN
    BY <1>0, <1>c DEF Setup
  <2> QED BY <1>0, <1>i, <2>1, <2>3, <2>5, <2>8, <2>9, <2>10 DEF FileTyped, Busy, Reporters
<1>f. ASSUME NEW e \in Editors, Event(e) PROVE FileTyped'
  <2>1. setups[e] \in 1 .. MaxSetups
    BY <1>0, <1>i, <1>f DEF Event
  <2>2. own' \in [Reporters -> Nat] /\ events' \in 0 .. MaxEvents
    BY <1>0, <1>r, <1>f, <2>1 DEF Event
  <2> QED BY <1>0, <1>i, <1>d, <1>f, <2>2 DEF Event, FileTyped, Busy, Reporters
<1>g. ASSUME NEW e \in Editors, Open(e) PROVE FileTyped'
  <2>1. at' \in [Editors -> [step : {"idle", "read", "opened"}, by : 0 .. MaxSetups, merged : Texts]]
    BY <1>0, <1>g DEF Open
  <2>2. \A f \in Editors : at'[f] = IF f = e THEN [at[e] EXCEPT !.step = "opened"] ELSE at[f]
    BY <1>0, <1>g DEF Open
  <2>3. \A f \in Editors : at'[f].step = "idle" => at'[f] = AtRest
    BY <1>0, <1>i, <2>2 DEF Busy
  <2>4. file' \in Texts /\ UNCHANGED <<setups, enabled, own, since, due, clock, events, dropped, overlap, failed, again>>
    BY <1>g, TextsAre DEF Open, reporters, noted
  <2> QED BY <1>0, <1>i, <1>d, <2>1, <2>3, <2>4 DEF FileTyped, Busy, Reporters
<1>h. ASSUME NEW e \in Editors, Write(e) PROVE FileTyped'
  <2>1. at' \in [Editors -> [step : {"idle", "read", "opened"}, by : 0 .. MaxSetups, merged : Texts]]
    BY <1>0, <1>h, TextsAre DEF Write
  <2>2. \A f \in Editors : at'[f] = IF f = e THEN AtRest ELSE at[f]
    BY <1>0, <1>h DEF Write
  <2>3. \A f \in Editors : at'[f].step = "idle" => at'[f] = AtRest
    BY <1>0, <1>i, <2>2 DEF Busy
  <2>4. file' \in Texts /\ UNCHANGED <<setups, enabled, own, since, due, clock, events, dropped, overlap, failed, again>>
    BY <1>0, <1>h, TextsAre DEF Write, reporters, noted
  <2> QED BY <1>0, <1>i, <1>d, <2>1, <2>3, <2>4 DEF FileTyped, Busy, Reporters
<1>j. ASSUME NEW e \in Editors, OpenFails(e) \/ WriteFails(e) PROVE FileTyped'
  <2>1. at' \in [Editors -> [step : {"idle", "read", "opened"}, by : 0 .. MaxSetups, merged : Texts]]
    BY <1>0, <1>j, TextsAre DEF OpenFails, WriteFails
  <2>2. \A f \in Editors : at'[f] = IF f = e THEN AtRest ELSE at[f]
    BY <1>0, <1>j DEF OpenFails, WriteFails
  <2>3. \A f \in Editors : at'[f].step = "idle" => at'[f] = AtRest
    BY <1>0, <1>i, <2>2 DEF Busy
  <2>4. /\ due' \subseteq due /\ failed' \in BOOLEAN /\ file' \in Texts
        /\ UNCHANGED <<setups, enabled, own, since, clock, events, dropped, overlap, again>>
    BY <1>0, <1>j, TextsAre DEF OpenFails, WriteFails, reporters
  <2> QED BY <1>0, <1>i, <1>d, <2>1, <2>3, <2>4 DEF FileTyped, Busy, Reporters
<1>k. ASSUME NEW e \in Editors, NEW n \in 1 .. MaxSetups, Interval(e, n) PROVE FileTyped'
  BY <1>0, <1>i, <1>d, <1>k DEF Interval, FileTyped, Busy, Reporters, noted
<1>l. ASSUME NEW e \in Editors, NEW n \in 1 .. MaxSetups, Merge(e, n) PROVE FileTyped'
  <2> DEFINE r == <<e, n>>
             new == [step |-> "read", by |-> n, merged |-> merge(r)]
  <2>1. r \in due /\ r \in Reporters /\ merge(r) \in Texts
    BY <1>l, MergeIs DEF Merge
  <2>2. new \in [step : {"idle", "read", "opened"}, by : 0 .. MaxSetups, merged : Texts] /\ new.step = "read"
    BY <2>1
  <2>3. at' = [at EXCEPT ![e] = new] /\ own' = [own EXCEPT ![r] = 0] /\ since' = [since EXCEPT ![r] = clock]
    BY <1>l DEF Merge
  <2> HIDE DEF r, new
  <2>4. /\ at' \in [Editors -> [step : {"idle", "read", "opened"}, by : 0 .. MaxSetups, merged : Texts]]
        /\ \A f \in Editors : at'[f] = IF f = e THEN new ELSE at[f]
    BY <1>0, <2>2, <2>3
  <2>5. \A f \in Editors : at'[f].step = "idle" => at'[f] = AtRest
    BY <1>0, <1>i, <2>2, <2>4 DEF Busy
  <2>6. own' \in [Reporters -> Nat] /\ since' \in [Reporters -> Nat] /\ \A q \in due : since'[q] <= clock
    BY <1>0, <1>d, <2>1, <2>3
  <2>7. /\ overlap' \in BOOLEAN
        /\ UNCHANGED <<file, setups, enabled, due, clock, events, dropped, failed, again>>
    BY <1>0, <1>l DEF Merge
  <2> QED BY <1>0, <1>i, <2>4, <2>5, <2>6, <2>7 DEF FileTyped, Busy, Reporters
<1> QED BY <1>a, <1>b, <1>c, <1>f, <1>g, <1>h, <1>j, <1>k, <1>l DEF FileStep

\* What a step does to the counts when it leaves the file and the reports alone.
LEMMA Balanced ==
    ASSUME FileTyped, FileTyped', NoneTwice, NoneLost, at' = at, file' = file, overlap' = overlap, failed' = failed,
           (Waiting' + dropped') - events' = (Waiting + dropped) - events
    PROVE  NoneTwice' /\ NoneLost'
<1>1. /\ Waiting \in Nat /\ dropped \in Nat /\ events \in Nat /\ dropped' \in Nat /\ events' \in Nat
      /\ file.count \in Nat /\ \A e \in Editors : at[e].merged.count \in Nat
  BY FileAssumption, WaitingSame DEF FileTyped, Texts
<1>2. Waiting' \in Nat
  <2>1. Numbers(own', Reporters)
    BY ReportersFinite DEF FileTyped, Numbers, Reporters
  <2> QED BY <2>1, SumPicks, WaitingNext
<1> DEFINE w == Waiting
           v == Waiting'
           d == dropped
           c == dropped'
           x == events
           y == events'
<1>3. w \in Nat /\ v \in Nat /\ d \in Nat /\ c \in Nat /\ x \in Nat /\ y \in Nat /\ (v + c) - y = (w + d) - x
  BY <1>1, <1>2, FileAssumption
<1>4. \A k \in Nat : (k + w + d <= x => k + v + c <= y) /\ (k + w + d = x => k + v + c = y)
  <2> HIDE DEF w, v, d, c, x, y
  <2> QED BY <1>3
<1>5. NoneTwice'
  BY <1>1, <1>4 DEF NoneTwice, Busy
<1>6. NoneLost'
  BY <1>1, <1>4 DEF NoneLost, Busy
<1> QED BY <1>5, <1>6

\* While an editor opens, writes or fails, the counts wait, and nobody else's report changes.
LEMMA OpenCounts ==
    ASSUME FileTyped, NoneTwice, NoneLost, NEW e \in Editors, Open(e) PROVE NoneTwice' /\ NoneLost'
<1>1. /\ Waiting \in Nat /\ dropped \in Nat /\ events \in Nat /\ Waiting' = Waiting
      /\ file.count \in Nat /\ \A f \in Editors : at[f].merged.count \in Nat
  BY FileAssumption, WaitingSame DEF FileTyped, Texts, Open, reporters
<1>2. \A f \in Editors : /\ at'[f].merged = at[f].merged /\ (Busy(f)' <=> Busy(f))
                         /\ at'[f].step = IF f = e THEN "opened" ELSE at[f].step
  BY DEF Open, FileTyped, Busy
<1>3. UNCHANGED <<events, dropped, overlap, failed>> /\ file' = Text("empty") /\ Busy(e)
  BY DEF Open, noted, Busy
<1>4. NoneTwice'
  BY <1>1, <1>2, <1>3, TextsAre DEF NoneTwice
<1>5. NoneLost'
  <2>1. \A f \in Editors : at'[f].step = "opened" => file'.kind = "empty"
    BY <1>3, TextsAre
  <2> QED BY <1>1, <1>2, <1>3, <2>1 DEF NoneLost
<1> QED BY <1>4, <1>5

\* Writing puts what was merged into the file, once.
LEMMA WriteCounts ==
    ASSUME FileTyped, NoneTwice, NoneLost, NEW e \in Editors, Write(e) PROVE NoneTwice' /\ NoneLost'
<1>1. /\ Waiting \in Nat /\ dropped \in Nat /\ events \in Nat /\ Waiting' = Waiting
      /\ file.count \in Nat /\ \A f \in Editors : at[f].merged.count \in Nat
  BY FileAssumption, WaitingSame DEF FileTyped, Texts, Write, reporters
<1>2. \A f \in Editors : at'[f] = IF f = e THEN AtRest ELSE at[f]
  BY DEF Write, FileTyped
<1>3. UNCHANGED <<events, dropped, overlap, failed>> /\ Busy(e) /\ at[e].step = "opened"
  BY DEF Write, noted, Busy
<1>4. file' = at[e].merged \/ (file.kind # "empty" /\ file' = Text("junk"))
  BY DEF Write
<1>5. \A f \in Editors : Busy(f)' => Busy(f) /\ f # e /\ at'[f] = at[f]
  BY <1>2, TextsAre DEF Busy
<1>6. NoneTwice'
  <2>1. file'.count + Waiting + dropped <= events
    BY <1>1, <1>3, <1>4, TextsAre DEF NoneTwice
  <2> QED BY <1>1, <1>3, <1>5, <2>1 DEF NoneTwice
<1>7. NoneLost'
  <2> SUFFICES ASSUME ~overlap, ~failed
               PROVE  file'.count + Waiting + dropped = events /\ \A f \in Editors : ~Busy(f)'
    <3>1. \A f \in Editors : at'[f].step = "opened" => Busy(f)'
      BY DEF Busy
    <3> QED BY <1>1, <1>3, <3>1 DEF NoneLost
  <2>1. file.kind = "empty"
    BY <1>3 DEF NoneLost
  <2>2. file' = at[e].merged
    BY <1>4, <2>1
  <2>3. at[e].merged.count + Waiting + dropped = events /\ \A f \in Editors : Busy(f) => f = e
    BY <1>3 DEF NoneLost
  <2> QED BY <1>5, <2>2, <2>3
<1> QED BY <1>6, <1>7

\* A failure doubles nothing; what it loses is told by failed.
LEMMA FailCounts ==
    ASSUME FileTyped, NoneTwice, NoneLost, NEW e \in Editors, OpenFails(e) \/ WriteFails(e)
    PROVE  NoneTwice' /\ NoneLost'
<1>1. /\ Waiting' = Waiting /\ UNCHANGED <<events, dropped>> /\ failed'
      /\ file' = file \/ file' = Text("junk")
  BY WaitingSame DEF OpenFails, WriteFails, reporters
<1>2. \A f \in Editors : at'[f] = IF f = e THEN AtRest ELSE at[f]
  BY DEF OpenFails, WriteFails, FileTyped
<1>3. \A f \in Editors : Busy(f)' => Busy(f) /\ at'[f] = at[f]
  BY <1>2, TextsAre DEF Busy
<1>4. /\ Waiting \in Nat /\ dropped \in Nat /\ events \in Nat /\ file.count \in Nat
      /\ Text("junk").count = 0
  BY FileAssumption, WaitingSame, TextsAre DEF FileTyped, Texts
<1>5. file'.count + Waiting + dropped <= events
  BY <1>1, <1>4 DEF NoneTwice
<1> QED BY <1>1, <1>3, <1>5 DEF NoneTwice, NoneLost

\* Merging moves the waiting events to what will be written.
LEMMA MergeCounts ==
    ASSUME FileTyped, NoneTwice, NoneLost, NEW e \in Editors, NEW n \in 1 .. MaxSetups, Merge(e, n)
    PROVE  NoneTwice' /\ NoneLost'
<1> DEFINE r == <<e, n>>
           new == [step |-> "read", by |-> n, merged |-> merge(r)]
<1>1. r \in Reporters /\ merge(r).count = own[r] + file.count
  BY MergeIs DEF Merge
<1>2. own' = [own EXCEPT ![r] = 0] /\ at' = [at EXCEPT ![e] = new]
  BY DEF Merge
<1>3. new.step = "read" /\ new.merged.count = own[r] + file.count
  BY <1>1
<1> HIDE DEF r, new
<1>4. /\ Waiting \in Nat /\ Waiting' \in Nat /\ own[r] \in Nat /\ own[r] <= Waiting
      /\ Waiting' = Waiting - own[r] + 0
  BY <1>1, <1>2, CountChanges
<1>5. \A f \in Editors : at'[f] = IF f = e THEN new ELSE at[f]
  BY <1>2 DEF FileTyped
<1>6. /\ dropped \in Nat /\ events \in Nat
      /\ file.count \in Nat /\ \A f \in Editors : at[f].merged.count \in Nat
  BY FileAssumption DEF FileTyped, Texts
<1>7. /\ UNCHANGED <<file, events, dropped, failed>>
      /\ overlap' = (overlap \/ \E f \in Editors \ {e} : Busy(f)) /\ ~Busy(e)
  <2>1. at[e] = AtRest /\ overlap' = (overlap \/ \E f \in Editors \ {e} : ~Idle(f))
    BY DEF Merge, Idle
  <2>2. \A f \in Editors : Busy(f) <=> ~Idle(f)
    BY TextsAre DEF Idle, Busy, FileTyped
  <2> QED BY <2>1, <2>2 DEF Merge, Idle
<1>8. \A f \in Editors : Busy(f)' => f = e \/ (Busy(f) /\ at'[f] = at[f])
  BY <1>5 DEF Busy
<1>9. Waiting' + own[r] = Waiting /\ Busy(e)' /\ at'[e].merged.count = own[r] + file.count
  BY <1>3, <1>4, <1>5 DEF Busy
<1> DEFINE m == own[r] + file.count
           w == Waiting'
<1>10. m \in Nat /\ w \in Nat /\ w <= Waiting /\ m + w = file.count + Waiting
  BY <1>4, <1>6, <1>9
<1> HIDE DEF m, w
<1>11. NoneTwice'
  <2>1. file.count + w + dropped <= events /\ m + w + dropped <= events
    BY <1>4, <1>6, <1>10 DEF NoneTwice
  <2>2. \A f \in Editors : Busy(f) => at[f].merged.count + w + dropped <= events
    BY <1>4, <1>6, <1>10 DEF NoneTwice
  <2> QED BY <1>7, <1>8, <1>9, <2>1, <2>2 DEF NoneTwice, m, w
<1>12. NoneLost'
  <2> SUFFICES ASSUME ~overlap', ~failed' PROVE NoneLost'
    BY DEF NoneLost
  <2>1. ~overlap /\ ~failed /\ \A f \in Editors : ~Busy(f)
    BY <1>7
  <2>2. file.count + Waiting + dropped = events
    BY <2>1 DEF NoneLost
  <2>3. m + w + dropped = events
    BY <1>4, <1>6, <1>10, <2>2
  <2>4. \A f \in Editors : Busy(f)' => f = e
    BY <1>8, <2>1
  <2>5. at'[e].step # "opened" /\ \A f \in Editors : at'[f].step = "opened" => Busy(f)'
    BY <1>3, <1>5 DEF Busy
  <2> QED BY <1>7, <1>9, <2>3, <2>4, <2>5 DEF NoneLost, m, w
<1> QED BY <1>11, <1>12

\* Every step keeps the counts.
LEMMA CountsKept ==
    ASSUME FileTyped, FileTyped', NoneTwice, NoneLost, FileStep PROVE NoneTwice' /\ NoneLost'
<1>0. Waiting \in Nat /\ (own' = own => Waiting' = Waiting) /\ dropped \in Nat /\ events \in Nat
  BY FileAssumption, WaitingSame DEF FileTyped
<1>a. CASE Tick
  BY <1>0, <1>a, Balanced DEF Tick, reporters, noted
<1>b. ASSUME NEW e \in Editors, VimApmClear(e) \/ Setup(e) PROVE NoneTwice' /\ NoneLost'
  <2>1. Cleared(e) /\ UNCHANGED <<file, at, events, overlap, failed>>
    BY <1>b DEF VimApmClear, Setup
  <2>2. /\ Waiting' + dropped' = Waiting + dropped
        /\ dropped' \in Nat /\ Waiting' \in Nat /\ Waiting \in Nat
    BY <2>1, ClearedCounts
  <2>3. events' = events /\ events \in Nat /\ dropped \in Nat
    BY <1>0, <2>1
  <2>4. (Waiting' + dropped') - events' = (Waiting + dropped) - events
    <3> DEFINE a == Waiting' + dropped'
               b == Waiting + dropped
    <3>1. a = b
      BY <2>2
    <3> HIDE DEF a, b
    <3>2. a - events' = b - events
      BY <2>3, <3>1
    <3> QED BY <3>2 DEF a, b
  <2> QED BY <2>1, <2>4, Balanced
<1>c. ASSUME NEW e \in Editors, Event(e) PROVE NoneTwice' /\ NoneLost'
  <2> DEFINE r == <<e, setups[e]>>
  <2>1. r \in Reporters
    BY <1>c, FileAssumption DEF Event, FileTyped, Reporters
  <2>2. own' = [own EXCEPT ![r] = own[r] + 1] /\ UNCHANGED <<file, at, dropped, overlap, failed>> /\ events' = events + 1
    BY <1>c DEF Event
  <2> HIDE DEF r
  <2>3. own[r] \in Nat /\ own[r] + 1 \in Nat
    BY <2>1 DEF FileTyped
  <2>4. Waiting' \in Nat /\ Waiting' = Waiting - own[r] + (own[r] + 1)
    BY <2>1, <2>2, <2>3, CountChanges
  <2>5. (Waiting' + dropped') - events' = (Waiting + dropped) - events
    BY <1>0, <2>2, <2>3, <2>4
  <2> QED BY <2>2, <2>5, Balanced
<1>d. ASSUME NEW e \in Editors, NEW n \in 1 .. MaxSetups, Interval(e, n) PROVE NoneTwice' /\ NoneLost'
  BY <1>0, <1>d, Balanced DEF Interval, noted
<1> QED BY <1>a, <1>b, <1>c, <1>d, OpenCounts, WriteCounts, FailCounts, MergeCounts DEF FileStep

\* Time that bounds what was reported still does after the step.
LEMMA LivedNext ==
    ASSUME NEW lived,
           \A e \in Editors : lived[e] <= clock' /\ (setups'[e] = 0 => lived[e] = 0),
           \A r \in due' : lived[r[1]] <= since'[r],
           Spans(lived, file'.time), \A e \in Editors : Busy(e)' => Spans(lived, at'[e].merged.time)
    PROVE  LivedTo(lived)'
BY DEF LivedTo, Spans, SumOver, Sums, pick

\* An editor that has reported, or is set up, has lived up to now.
LEMMA LivesOn ==
    ASSUME FileTyped, NEW lived \in [Editors -> Nat], \A f \in Editors : lived[f] <= clock,
           NEW e \in Editors, NEW now, now = [lived EXCEPT ![e] = clock]
    PROVE  /\ now \in [Editors -> Nat] /\ now[e] = clock /\ \A f \in Editors \ {e} : now[f] = lived[f]
           /\ \A f \in Editors : now[f] <= clock
           /\ SumOver(lived, Editors) \in Nat /\ SumOver(now, Editors) \in Nat
           /\ SumOver(now, Editors) = SumOver(lived, Editors) - lived[e] + clock
           /\ \A t \in Nat : Spans(lived, t) => Spans(now, t)
<1>1. clock \in Nat
  BY DEF FileTyped
<1>2. now \in [Editors -> Nat] /\ now[e] = clock /\ \A f \in Editors \ {e} : now[f] = lived[f]
  BY <1>1
<1>3. Numbers(lived, Editors) /\ OnlyAt(e, lived, now, Editors) /\ now[e] \in Nat
  BY <1>1, <1>2, FileAssumption DEF Numbers, OnlyAt
<1>4. /\ SumOver(now, Editors) = SumOver(lived, Editors) - lived[e] + now[e]
      /\ SumOver(lived, Editors) \in Nat /\ SumOver(now, Editors) \in Nat
  BY <1>3, SumChanges
<1> DEFINE s == SumOver(lived, Editors)
           u == SumOver(now, Editors)
<1>5. \A f \in Editors : now[f] <= clock
  BY <1>1, <1>2
<1>6. lived[e] \in Nat /\ lived[e] <= clock
  OBVIOUS
<1>7. s \in Nat /\ u \in Nat /\ u = s - lived[e] + clock
  BY <1>2, <1>4
<1> HIDE DEF s, u
<1>8. \A t \in Nat : t <= s => t <= u
  BY <1>1, <1>6, <1>7
<1>9. \A t \in Nat : Spans(lived, t) => Spans(now, t)
  BY <1>8 DEF Spans, s, u
<1> QED BY <1>2, <1>5, <1>7, <1>9 DEF s, u

\* Every step keeps the times.
LEMMA TimeKept ==
    ASSUME FileTyped, FileTyped', TimeOnce, FileStep PROVE TimeOnce'
<1> SUFFICES ASSUME ~again'
             PROVE  /\ \A q, r \in due' : q[1] = r[1] => q = r
                    /\ \E lived \in [Editors -> Nat] : LivedTo(lived)'
  BY DEF TimeOnce
<1>0. ~again
  BY DEF FileStep, Tick, VimApmClear, Setup, Event, Open, Write, OpenFails, WriteFails, Interval, Merge, reporters, noted
<1>1. PICK lived \in [Editors -> Nat] : LivedTo(lived)
  BY <1>0 DEF TimeOnce
<1>2. \A q, r \in due : q[1] = r[1] => q = r
  BY <1>0 DEF TimeOnce
<1>3. /\ clock \in Nat /\ file \in Texts /\ file.time \in Nat
      /\ \A e \in Editors : at[e].merged.time \in Nat /\ (~Busy(e) => at[e] = AtRest)
      /\ \A r \in due : r \in Reporters /\ r[1] \in Editors /\ since[r] \in Nat /\ since[r] <= clock
  BY DEF FileTyped, Texts, Reporters
<1>4. /\ \A e \in Editors : lived[e] <= clock /\ (setups[e] = 0 => lived[e] = 0)
      /\ \A r \in due : lived[r[1]] <= since[r]
      /\ Spans(lived, file.time) /\ \A e \in Editors : Busy(e) => Spans(lived, at[e].merged.time)
  BY <1>1 DEF LivedTo
<1>5. Spans(lived, 0)
  <2>1. Numbers(lived, Editors)
    BY FileAssumption DEF Numbers
  <2>2. SumOver(lived, Editors) \in Nat
    BY <2>1, SumPicks
  <2> QED BY <2>2 DEF Spans
<1>a. ASSUME UNCHANGED <<setups, since, file, at>>, due' \subseteq due, clock' \in Nat, clock <= clock'
      PROVE  LivedTo(lived)'
  <2>1. \A e \in Editors : lived[e] <= clock' /\ (setups'[e] = 0 => lived[e] = 0)
    BY <1>a, <1>3, <1>4
  <2>2. \A r \in due' : lived[r[1]] <= since'[r]
    BY <1>a, <1>4
  <2>3. Spans(lived, file'.time) /\ \A e \in Editors : Busy(e)' => Spans(lived, at'[e].merged.time)
    BY <1>a, <1>4 DEF Busy
  <2> QED BY <2>1, <2>2, <2>3, LivedNext
<1>b. ASSUME UNCHANGED <<setups, since, clock>>, due' \subseteq due, Spans(lived, file'.time),
             \A e \in Editors : Busy(e)' => Spans(lived, at'[e].merged.time)
      PROVE  LivedTo(lived)'
  <2>1. \A e \in Editors : lived[e] <= clock' /\ (setups'[e] = 0 => lived[e] = 0)
    BY <1>b, <1>4
  <2>2. \A r \in due' : lived[r[1]] <= since'[r]
    BY <1>b, <1>4
  <2> QED BY <1>b, <2>1, <2>2, LivedNext
<1>c. CASE due' \subseteq due /\ LivedTo(lived)'
  BY <1>2, <1>c
<1>d. CASE Tick
  BY <1>a, <1>c, <1>d, <1>3 DEF Tick, reporters, noted
<1>e. ASSUME NEW e \in Editors, VimApmClear(e) \/ Event(e) \/ \E n \in 1 .. MaxSetups : Interval(e, n)
      PROVE  due' \subseteq due /\ LivedTo(lived)'
  <2>1. UNCHANGED <<setups, since, file, at, clock>> /\ due' \subseteq due
    BY <1>e DEF VimApmClear, Event, Interval, noted
  <2> QED BY <1>a, <1>3, <2>1
<1>f. ASSUME NEW e \in Editors, Open(e) PROVE due' \subseteq due /\ LivedTo(lived)'
  <2>1. UNCHANGED <<setups, since, due, clock>> /\ file' = Text("empty")
    BY <1>f DEF Open, reporters
  <2>2. \A f \in Editors : Busy(f)' => Busy(f) /\ at'[f].merged = at[f].merged
    BY <1>f DEF Open, FileTyped, Busy
  <2>3. Spans(lived, file'.time)
    BY <1>5, <2>1, TextsAre
  <2>4. \A f \in Editors : Busy(f)' => Spans(lived, at'[f].merged.time)
    BY <1>4, <2>2
  <2> QED BY <1>b, <2>1, <2>3, <2>4
<1>g. ASSUME NEW e \in Editors, Write(e) PROVE due' \subseteq due /\ LivedTo(lived)'
  <2>1. UNCHANGED <<setups, since, due, clock>> /\ Busy(e)
    BY <1>g DEF Write, reporters, Busy
  <2>2. \A f \in Editors : at'[f] = IF f = e THEN AtRest ELSE at[f]
    BY <1>g DEF Write, FileTyped
  <2>3. \A f \in Editors : Busy(f)' => Busy(f) /\ at'[f].merged = at[f].merged
    BY <2>2, TextsAre DEF Busy
  <2>4. file' = at[e].merged \/ file' = Text("junk")
    BY <1>g DEF Write
  <2>5. Spans(lived, file'.time)
    BY <1>4, <1>5, <2>1, <2>4, TextsAre
  <2>6. \A f \in Editors : Busy(f)' => Spans(lived, at'[f].merged.time)
    BY <1>4, <2>3
  <2> QED BY <1>b, <2>1, <2>5, <2>6
<1>h. ASSUME NEW e \in Editors, OpenFails(e) \/ WriteFails(e) PROVE due' \subseteq due /\ LivedTo(lived)'
  <2>1. /\ UNCHANGED <<setups, since, clock>> /\ due' \subseteq due
        /\ file' = file \/ file' = Text("junk")
    BY <1>h DEF OpenFails, WriteFails, reporters
  <2>2. \A f \in Editors : at'[f] = IF f = e THEN AtRest ELSE at[f]
    BY <1>h DEF OpenFails, WriteFails, FileTyped
  <2>3. \A f \in Editors : Busy(f)' => Busy(f) /\ at'[f].merged = at[f].merged
    BY <2>2, TextsAre DEF Busy
  <2>4. \A f \in Editors : Busy(f)' => Spans(lived, at'[f].merged.time)
    BY <1>4, <2>3
  <2>5. Spans(lived, file'.time)
    BY <1>4, <1>5, <2>1, TextsAre
  <2> QED BY <1>b, <2>1, <2>4, <2>5
<1>i. ASSUME NEW e \in Editors, Setup(e)
      PROVE  /\ \A q, r \in due' : q[1] = r[1] => q = r
             /\ \E now \in [Editors -> Nat] : LivedTo(now)'
  <2> DEFINE k == <<e, setups'[e]>>
  <2>0. PICK now \in [Editors -> Nat] : now = [lived EXCEPT ![e] = clock]
    BY <1>3
  <2>1. /\ since' = [since EXCEPT ![k] = clock] /\ due' = due \cup {k} /\ due \cap Of(e) = {} /\ k[1] = e
        /\ UNCHANGED <<file, at, clock>>
    BY <1>i DEF Setup
  <2>2. \A r \in due : r[1] # e /\ r # k
    BY <1>3, <2>1 DEF Of, Reporters
  <2>3. /\ now \in [Editors -> Nat] /\ now[e] = clock /\ \A f \in Editors \ {e} : now[f] = lived[f]
        /\ \A f \in Editors : now[f] <= clock
        /\ \A t \in Nat : Spans(lived, t) => Spans(now, t)
    BY <1>4, <2>0, LivesOn
  <2>4. setups'[e] # 0 /\ \A f \in Editors \ {e} : setups'[f] = setups[f]
    BY <1>i, FileAssumption DEF Setup, FileTyped
  <2>5. k \in Reporters
    BY <2>1 DEF FileTyped
  <2> HIDE DEF k
  <2>6. since'[k] = clock /\ \A r \in due : since'[r] = since[r]
    BY <1>3, <2>1, <2>2, <2>5 DEF FileTyped
  <2>7. \A f \in Editors : now[f] <= clock' /\ (setups'[f] = 0 => now[f] = 0)
    BY <1>4, <2>1, <2>3, <2>4
  <2>8. \A r \in due' : now[r[1]] <= since'[r]
    BY <1>3, <1>4, <2>1, <2>2, <2>3, <2>6
  <2>9. Spans(now, file'.time) /\ \A f \in Editors : Busy(f)' => Spans(now, at'[f].merged.time)
    BY <1>3, <1>4, <2>1, <2>3 DEF Busy
  <2>10. LivedTo(now)'
    BY <2>7, <2>8, <2>9, LivedNext
  <2>11. \A q, r \in due' : q[1] = r[1] => q = r
    BY <1>2, <2>1, <2>2
  <2> QED BY <2>3, <2>10, <2>11
<1>j. ASSUME NEW e \in Editors, NEW n \in 1 .. MaxSetups, Merge(e, n)
      PROVE  due' = due /\ \E now \in [Editors -> Nat] : LivedTo(now)'
  <2>0. PICK now \in [Editors -> Nat] : now = [lived EXCEPT ![e] = clock]
    BY <1>3
  <2> DEFINE k == <<e, n>>
             new == [step |-> "read", by |-> n, merged |-> merge(k)]
  <2>1. /\ since' = [since EXCEPT ![k] = clock] /\ due' = due /\ k \in due /\ k[1] = e
        /\ at' = [at EXCEPT ![e] = new] /\ UNCHANGED <<file, setups, clock>>
    BY <1>j DEF Merge
  <2>2. \A r \in due : r # k => r[1] # e
    BY <1>2, <2>1
  <2>3. /\ now \in [Editors -> Nat] /\ now[e] = clock /\ \A f \in Editors \ {e} : now[f] = lived[f]
        /\ \A f \in Editors : now[f] <= clock
        /\ SumOver(lived, Editors) \in Nat /\ SumOver(now, Editors) \in Nat
        /\ SumOver(now, Editors) = SumOver(lived, Editors) - lived[e] + clock
        /\ \A t \in Nat : Spans(lived, t) => Spans(now, t)
    BY <1>4, <2>0, LivesOn
  <2>4. setups[e] # 0
    BY <1>j DEF Merge, FileTyped
  <2>5. new.merged.time = file.time + (clock - since[k])
    BY <2>1, MergeIs
  <2>6. lived[e] <= since[k] /\ lived[e] \in Nat /\ since[k] \in Nat
    BY <1>3, <1>4, <2>1
  <2> HIDE DEF k, new
  <2>7. since'[k] = clock /\ \A r \in due : r # k => since'[r] = since[r]
    BY <1>3, <2>1 DEF FileTyped
  <2>8. \A f \in Editors : at'[f] = IF f = e THEN new ELSE at[f]
    BY <2>1 DEF FileTyped
  <2>9. Spans(now, new.merged.time)
    <3> DEFINE s == SumOver(lived, Editors)
               u == SumOver(now, Editors)
    <3>1. file.time <= s /\ s \in Nat /\ u \in Nat /\ u = s - lived[e] + clock
      BY <1>4, <2>3 DEF Spans
    <3> HIDE DEF s, u
    <3>2. file.time + (clock - since[k]) <= u
      BY <1>3, <2>6, <3>1
    <3> QED BY <2>5, <3>2 DEF Spans, u
  <2>10. \A f \in Editors : now[f] <= clock' /\ (setups'[f] = 0 => now[f] = 0)
    BY <1>4, <2>1, <2>3, <2>4
  <2>11. \A r \in due' : now[r[1]] <= since'[r]
    BY <1>3, <1>4, <2>1, <2>2, <2>3, <2>7
  <2>12. Spans(now, file'.time) /\ \A f \in Editors : Busy(f)' => Spans(now, at'[f].merged.time)
    BY <1>3, <1>4, <2>1, <2>3, <2>8, <2>9 DEF Busy
  <2>13. LivedTo(now)'
    BY <2>10, <2>11, <2>12, LivedNext
  <2> QED BY <2>1, <2>3, <2>13
<1>k. CASE \E e \in Editors, n \in 1 .. MaxSetups : Merge(e, n)
  BY <1>2, <1>j, <1>k
<1> QED BY <1>c, <1>d, <1>e, <1>f, <1>g, <1>h, <1>i, <1>k DEF FileStep

\* At the start there are no events.
LEMMA FileInvInit == FileInit => FileInv
<1> SUFFICES ASSUME FileInit PROVE FileInv
  OBVIOUS
<1>1. Numbers(own, Reporters) /\ (\A r \in Reporters : own[r] = 0) /\ IsFiniteSet(Reporters)
  BY ReportersFinite DEF FileInit, Numbers
<1>2. SumOver(own, Reporters) = 0 * Cardinality({})
  BY <1>1, SumAlike
<1>3. Waiting = 0
  BY <1>2, FS_EmptySet DEF Waiting
<1>4. FileTyped
  <2>1. \A e \in Editors : at[e] = AtRest /\ ~enabled[e]
    BY DEF FileInit
  <2>2. at \in [Editors -> [step : {"idle", "read", "opened"}, by : 0 .. MaxSetups, merged : Texts]]
    BY TextsAre DEF FileInit
  <2>3. setups \in [Editors -> 0 .. MaxSetups] /\ enabled \in [Editors -> BOOLEAN] /\ events \in 0 .. MaxEvents
    BY FileAssumption DEF FileInit
  <2>4. own \in [Reporters -> Nat] /\ since \in [Reporters -> Nat]
    BY DEF FileInit
  <2> QED BY <2>1, <2>2, <2>3, <2>4, TextsAre DEF FileInit, FileTyped
<1>5. \A e \in Editors : ~Busy(e) /\ at[e].step # "opened"
  BY TextsAre DEF FileInit, Busy
<1>6. NoneTwice /\ NoneLost
  BY <1>3, <1>5, TextsAre DEF FileInit, NoneTwice, NoneLost
<1>7. TimeOnce
  <2> DEFINE lived == [e \in Editors |-> 0]
  <2>1. lived \in [Editors -> Nat] /\ Numbers(lived, Editors) /\ \A e \in Editors : lived[e] = 0
    BY FileAssumption DEF Numbers
  <2> HIDE DEF lived
  <2>2. SumOver(lived, Editors) \in Nat
    BY <2>1, SumPicks
  <2>3. LivedTo(lived)
    BY <1>5, <2>1, <2>2, TextsAre DEF LivedTo, Spans, FileInit
  <2> QED BY <2>1, <2>3 DEF TimeOnce, FileInit
<1> QED BY <1>4, <1>6, <1>7 DEF FileInv

\* The other programs leave the file alone.
LEMMA FileInvStays == UNCHANGED fvars /\ FileInv => FileInv'
<1> SUFFICES ASSUME UNCHANGED fvars, FileInv PROVE FileInv'
  OBVIOUS
<1>0. UNCHANGED <<file, setups, enabled, own, since, due, at, clock, events, dropped, overlap, failed, again>>
  BY DEF fvars, reporters, noted
<1>1. FileTyped'
  BY <1>0 DEF FileInv, FileTyped, Busy, Reporters
<1>2. NoneTwice' /\ NoneLost'
  <2>1. Waiting' = Waiting
    BY <1>0, WaitingSame DEF FileInv
  <2> QED BY <1>0, <2>1 DEF FileInv, NoneTwice, NoneLost, Busy
<1>3. TimeOnce'
  <2>1. ASSUME NEW lived \in [Editors -> Nat], LivedTo(lived) PROVE LivedTo(lived)'
    BY <1>0, <2>1, LivedNext DEF LivedTo, Busy
  <2> QED BY <1>0, <2>1 DEF FileInv, TimeOnce
<1> QED BY <1>1, <1>2, <1>3 DEF FileInv

\* Every step of the editors keeps the invariant.
LEMMA FileInvKept == FileInv /\ FileNext => FileInv'
BY FileSteps, FileTypedKept, CountsKept, TimeKept DEF FileInv

\* The invariant says that nothing is lost or counted twice.
LEMMA FileInvSays == FileInv => FileTypeOK /\ NothingLost /\ NothingTwice
<1> SUFFICES ASSUME FileInv PROVE FileTypeOK /\ NothingLost /\ NothingTwice
  OBVIOUS
<1>0. FileTyped /\ NoneTwice /\ NoneLost /\ TimeOnce
  BY DEF FileInv
<1>1. Waiting \in Nat /\ dropped \in Nat /\ events \in 0 .. MaxEvents /\ MaxEvents \in Nat /\ file \in Texts
  BY <1>0, WaitingSame, FileAssumption DEF FileTyped
<1>2. file.count + Waiting + dropped <= events /\ file.count \in Nat /\ file.time \in Nat
  BY <1>0, <1>1 DEF NoneTwice, Texts
<1>3. Total(own) = Waiting
  <2>1. DOMAIN own = Reporters
    BY <1>0 DEF FileTyped
  <2>2. Total(own) = SumOver(own, DOMAIN own)
    BY TotalIs
  <2> QED BY <2>1, <2>2 DEF Waiting
<1>4. \A e \in Editors : Busy(e) <=> ~Idle(e)
  BY <1>0, TextsAre DEF FileTyped, Busy, Idle
<1>5. FileTypeOK
  <2>1. file.count \in 0 .. MaxEvents
    BY <1>1, <1>2
  <2>2. ASSUME NEW r \in Reporters PROVE own[r] \in 0 .. MaxEvents
    <3>1. Numbers(own, Reporters) /\ own[r] \in Nat
      BY <1>0, ReportersFinite DEF FileTyped
    <3> DEFINE T == Reporters \ {r}
    <3>2. Waiting = own[r] + SumOver(own, T)
      BY <3>1, SumTakes DEF Waiting
    <3>3. Numbers(own, T)
      BY <3>1, FS_Subset DEF Numbers
    <3> HIDE DEF T
    <3>4. SumOver(own, T) \in Nat
      BY <3>3, SumPicks
    <3> QED BY <1>1, <1>2, <3>1, <3>2, <3>4
  <2>3. file \in [kind : {"json", "empty", "junk"}, count : 0 .. MaxEvents, time : Nat]
    BY <1>1, <2>1 DEF Texts
  <2> QED BY <1>0, <2>2, <2>3 DEF FileTypeOK, FileTyped
<1>6. NothingLost
  BY <1>0, <1>3, <1>4 DEF NothingLost, NoneLost
<1>7. ASSUME ~again PROVE file.time <= clock * Cardinality({e \in Editors : setups[e] > 0})
  <2>1. PICK lived \in [Editors -> Nat] : LivedTo(lived)
    BY <1>0, <1>7 DEF TimeOnce
  <2> DEFINE P == {e \in Editors : setups[e] > 0}
             top == [e \in Editors |-> IF e \in P THEN clock ELSE 0]
  <2>2. clock \in Nat /\ P \in SUBSET Editors /\ IsFiniteSet(Editors) /\ setups \in [Editors -> Nat]
    BY <1>0, FileAssumption DEF FileTyped
  <2>3. \A e \in Editors : lived[e] <= top[e]
    BY <2>1, <2>2 DEF LivedTo
  <2>4. \A e \in Editors : top[e] = IF e \in P THEN clock ELSE 0
    OBVIOUS
  <2> HIDE DEF P, top
  <2>5. SumOver(top, Editors) = clock * Cardinality(P) /\ Numbers(top, Editors)
    BY <2>2, <2>4, SumAlike
  <2>6. Numbers(lived, Editors)
    BY <2>2 DEF Numbers
  <2>7. SumOver(lived, Editors) <= SumOver(top, Editors)
    BY <2>3, <2>5, <2>6, SumGrows
  <2>8. SumOver(lived, Editors) \in Nat /\ SumOver(top, Editors) \in Nat
    BY <2>5, <2>6, SumPicks
  <2>9. file.time <= SumOver(lived, Editors)
    BY <2>1 DEF LivedTo, Spans
  <2> DEFINE a == SumOver(lived, Editors)
             b == SumOver(top, Editors)
  <2>10. file.time <= a /\ a <= b /\ a \in Nat /\ b \in Nat
    BY <2>7, <2>8, <2>9
  <2> HIDE DEF a, b
  <2>11. file.time <= b
    BY <1>2, <2>10
  <2> QED BY <2>5, <2>11 DEF b, P
<1> QED BY <1>2, <1>3, <1>5, <1>6, <1>7 DEF NothingTwice

-----------------------------------------------------------------------------
(* grapple's marks *)

Entries == Files \cup {Hole, Empty}
MarkLists == Seq(Entries)
MarkMaps == [Projects -> MarkLists]

\* Types; only an editor that runs saves.
MarksTyped ==
  /\ cache_config \in [kind : {"json", "empty", "junk"}, projects : MarkMaps]
  /\ GrappleConfig \in [Nvims -> MarkMaps] /\ cwd \in [Nvims -> Projects] /\ made \in MarkMaps
  /\ running \in [Nvims -> {"no", "yes", "leaving"}] /\ saving \in [Nvims -> {"idle", "read", "opened"}]
  /\ missed \in [Nvims -> SUBSET Projects] /\ spoiled \in BOOLEAN /\ repeated \in BOOLEAN
  /\ \A e \in Nvims : saving[e] # "idle" => running[e] # "no"

\* No list that is kept anywhere has a file twice.
OnceKept ==
  ~repeated => \A p \in Projects : Once(cache_config.projects[p]) /\ \A e \in Nvims : Once(GrappleConfig[e][p])

\* A projects' marks are as users have last made them, but for those that were overtaken.
AsMade(projects) == \A p \in Projects \ overtaken : projects[p] = made[p]

\* While the editors take turns to save, the one that does has what users have last made of every
\* project, and whoever runs has it of all those that no other has changed since.
SavedKept ==
  ~spoiled =>
    /\ \A e, f \in Nvims : saving[e] # "idle" /\ saving[f] # "idle" => e = f
    /\ (\A e \in Nvims : saving[e] = "idle") => cache_config.kind = "json" /\ AsMade(cache_config.projects)
    /\ \A e \in Nvims : saving[e] # "idle" => AsMade(GrappleConfig[e])
    /\ \A e \in Nvims : saving[e] = "opened" => cache_config.kind = "empty"
    /\ \A e \in Nvims : running[e] # "no" =>
         \A p \in Projects \ (overtaken \cup missed[e]) : GrappleConfig[e][p] = made[p]

MarksInv == MarksTyped /\ OnceKept /\ SavedKept

\* Without the empty tail it is a list of marks still, and has a file twice only if it had.
LEMMA Trimmed ==
    ASSUME NEW ms \in MarkLists
    PROVE  remove_empty_tail(ms) \in MarkLists /\ (Once(ms) => Once(remove_empty_tail(ms)))
<1> DEFINE S == {i \in DOMAIN ms : ms[i] # Hole} \cup {0}
           k == Max(S)
<1>1. Len(ms) \in Nat /\ DOMAIN ms = 1 .. Len(ms) /\ S \in SUBSET (0 .. Len(ms)) /\ S # {}
  BY DEF MarkLists
<1>2. k \in 0 .. Len(ms)
  <2> HIDE DEF S
  <2> QED BY <1>1, MaxIs
<1> HIDE DEF k
<1>3. /\ SubSeq(ms, 1, k) \in MarkLists /\ DOMAIN SubSeq(ms, 1, k) = 1 .. k
      /\ \A i \in 1 .. k : SubSeq(ms, 1, k)[i] = ms[i]
  BY <1>1, <1>2 DEF MarkLists
<1>4. Once(ms) => Once(SubSeq(ms, 1, k))
  BY <1>1, <1>2, <1>3 DEF Once
<1> QED BY <1>3, <1>4 DEF remove_empty_tail, k

\* A function from 1 .. n to marks is a list of them.
LEMMA ListIs ==
    ASSUME NEW n \in Nat, NEW ms, ms = [i \in 1 .. n |-> ms[i]], \A i \in 1 .. n : ms[i] \in Entries
    PROVE  ms \in MarkLists /\ DOMAIN ms = 1 .. n
<1>1. ms \in [1 .. n -> Entries]
  BY Zenon
<1>2. DOMAIN ms = 1 .. n
  BY <1>1
<1>3. ms \in UNION {[1 .. k -> Entries] : k \in Nat}
  BY <1>1
<1> QED BY <1>2, <1>3, SeqDef DEF MarkLists

Added(ms, f) ==
  LET slot == get_first_empty_slot(ms)
  IN  [i \in 1 .. Max({slot, Len(ms)}) |-> IF i = slot THEN f ELSE ms[i]]

\* A file that is not in the list yet may be added.
LEMMA AddedIs ==
    ASSUME NEW ms \in MarkLists, NEW f \in Files
    PROVE  Added(ms, f) \in MarkLists /\ (Once(ms) /\ get_index_of(ms, f) = {} => Once(Added(ms, f)))
<1> DEFINE S == {i \in DOMAIN ms : ms[i] = Hole} \cup {Len(ms) + 1}
           slot == get_first_empty_slot(ms)
           n == Max({slot, Len(ms)})
           new == Added(ms, f)
<1>1. Len(ms) \in Nat /\ DOMAIN ms = 1 .. Len(ms) /\ \A i \in DOMAIN ms : ms[i] \in Entries
  BY DEF MarkLists
<1>2. S \in SUBSET Nat /\ S # {} /\ \A i \in S : i \in 1 .. (Len(ms) + 1)
  BY <1>1
<1>3. slot \in 1 .. (Len(ms) + 1)
  <2>1. slot = Min(S)
    BY DEF get_first_empty_slot
  <2> HIDE DEF S, slot
  <2> QED BY <1>2, <2>1, MinIs
<1> HIDE DEF slot
<1>4. n \in {slot, Len(ms)} /\ slot <= n /\ Len(ms) <= n
  <2>1. {slot, Len(ms)} \in SUBSET (0 .. (Len(ms) + 1)) /\ Len(ms) + 1 \in Nat
    BY <1>1, <1>3
  <2> QED BY <2>1, MaxIs
<1> HIDE DEF n
<1>5. new = [i \in 1 .. n |-> IF i = slot THEN f ELSE ms[i]]
  BY DEF Added, slot, n
<1> HIDE DEF new
<1>6. n \in Nat /\ \A i \in 1 .. n : i = slot \/ i \in 1 .. Len(ms)
  <2> DEFINE l == Len(ms)
  <2>1. l \in Nat /\ slot \in 1 .. (l + 1) /\ (n = slot \/ n = l) /\ slot <= n /\ l <= n
    BY <1>1, <1>3, <1>4
  <2> HIDE DEF l
  <2>2. n \in Nat /\ \A i \in 1 .. n : i = slot \/ i \in 1 .. l
    BY <2>1
  <2> QED BY <2>2 DEF l
<1>7. new = [i \in 1 .. n |-> new[i]] /\ \A i \in 1 .. n : new[i] = IF i = slot THEN f ELSE ms[i]
  BY <1>5
<1>8. new \in MarkLists /\ DOMAIN new = 1 .. n
  <2>1. \A i \in 1 .. n : new[i] \in Entries
    BY <1>1, <1>6, <1>7 DEF Entries
  <2> QED BY <1>6, <1>7, <2>1, ListIs
<1>9. Once(ms) /\ get_index_of(ms, f) = {} => Once(new)
  BY <1>1, <1>6, <1>7, <1>8 DEF Once, get_index_of
<1> QED BY <1>8, <1>9 DEF new

\* A hole may take the place of a mark.
LEMMA RemovedIs ==
    ASSUME NEW ms \in MarkLists, NEW k
    PROVE  [ms EXCEPT ![k] = Hole] \in MarkLists /\ (Once(ms) => Once([ms EXCEPT ![k] = Hole]))
<1> DEFINE new == [ms EXCEPT ![k] = Hole]
<1>1. Len(ms) \in Nat /\ DOMAIN ms = 1 .. Len(ms) /\ \A i \in DOMAIN ms : ms[i] \in Entries
  BY DEF MarkLists
<1>2. new = [i \in 1 .. Len(ms) |-> new[i]] /\ \A i \in 1 .. Len(ms) : new[i] = IF i = k THEN Hole ELSE ms[i]
  BY <1>1
<1> HIDE DEF new
<1>3. new \in MarkLists /\ DOMAIN new = 1 .. Len(ms)
  <2>1. \A i \in 1 .. Len(ms) : new[i] \in Entries
    BY <1>1, <1>2 DEF Entries
  <2> QED BY <1>1, <1>2, <2>1, ListIs
<1>4. Once(ms) => Once(new)
  BY <1>1, <1>2, <1>3, MarksAssumption DEF Once
<1> QED BY <1>3, <1>4 DEF new

\* A file that is moved is not left where it was.
LEMMA MovedIs ==
    ASSUME NEW ms \in MarkLists, NEW f \in Files, NEW idx \in 1 .. MaxIdx
    PROVE  MovedTo(ms, f, idx) \in MarkLists /\ (Once(ms) => Once(MovedTo(ms, f, idx)))
<1> DEFINE n == Max({idx, Len(ms)})
           new == MovedTo(ms, f, idx)
           was == get_index_of(ms, f)
<1>1. Len(ms) \in Nat /\ DOMAIN ms = 1 .. Len(ms) /\ \A i \in DOMAIN ms : ms[i] \in Entries
  BY DEF MarkLists
<1>2. idx \in Nat /\ f # Hole
  BY MarksAssumption
<1>3. n \in Nat /\ idx <= n /\ Len(ms) <= n
  <2>1. {idx, Len(ms)} \in SUBSET (0 .. (idx + Len(ms))) /\ idx + Len(ms) \in Nat
    BY <1>1, <1>2
  <2>2. n \in {idx, Len(ms)} /\ \A x \in {idx, Len(ms)} : x <= n
    BY <2>1, MaxIs
  <2> QED BY <1>1, <1>2, <2>2
<1> HIDE DEF n
<1>4. new = [i \in 1 .. n |-> IF i = idx THEN f
                              ELSE IF i \notin DOMAIN ms \/ (was # {} /\ i = Min(was)) THEN Hole ELSE ms[i]]
  BY DEF MovedTo, n
<1> HIDE DEF new
<1>5. \A i \in 1 .. n : new[i] = IF i = idx THEN f
                                 ELSE IF i \notin DOMAIN ms \/ (was # {} /\ i = Min(was)) THEN Hole ELSE ms[i]
  BY <1>4
<1>6. new \in MarkLists /\ DOMAIN new = 1 .. n
  <2>1. \A i \in 1 .. n : new[i] \in Entries
    BY <1>1, <1>5 DEF Entries
  <2>2. new = [i \in 1 .. n |-> new[i]]
    BY <1>4
  <2> QED BY <1>3, <2>1, <2>2, ListIs
<1>7. ASSUME Once(ms) PROVE Once(new)
  <2>1. ASSUME NEW i \in 1 .. n, new[i] = f PROVE i = idx
    <3> SUFFICES ASSUME i # idx PROVE FALSE
      OBVIOUS
    <3>1. i \in DOMAIN ms /\ ms[i] = f /\ ~(was # {} /\ i = Min(was))
      BY <1>2, <1>5, <2>1
    <3>2. i \in was /\ was \in SUBSET Nat
      BY <1>1, <3>1 DEF get_index_of
    <3>3. Min(was) \in was
      BY <3>2, MinIs
    <3>4. ms[Min(was)] = f /\ Min(was) \in DOMAIN ms
      BY <3>3 DEF get_index_of
    <3>5. Min(was) = i
      BY <1>2, <1>7, <3>1, <3>4 DEF Once
    <3> QED BY <3>1, <3>2, <3>5
  <2>2. \A i \in 1 .. n : new[i] # f /\ new[i] # Hole => i \in DOMAIN ms /\ new[i] = ms[i]
    BY <1>5
  <2>3. \A i, j \in 1 .. n : new[i] = new[j] /\ new[i] \in Files => i = j
    <3> SUFFICES ASSUME NEW i \in 1 .. n, NEW j \in 1 .. n, new[i] = new[j], new[i] \in Files PROVE i = j
      OBVIOUS
    <3>1. CASE new[i] = f
      BY <2>1, <3>1
    <3>2. CASE new[i] # f
      <4>1. new[i] # Hole /\ i \in DOMAIN ms /\ j \in DOMAIN ms /\ ms[i] = ms[j] /\ ms[i] \in Files
        BY <2>2, <3>2, MarksAssumption
      <4> QED BY <1>7, <4>1 DEF Once
    <3> QED BY <3>1, <3>2
  <2> QED BY <1>6, <2>3 DEF Once
<1> QED BY <1>6, <1>7 DEF new

\* The menu's lines are marks.
LEMMA MenuIs == ASSUME NEW ms \in MarkLists PROVE toggle_quick_menu(ms) \in MarkLists
<1> DEFINE new == toggle_quick_menu(ms)
<1>1. Len(ms) \in Nat /\ DOMAIN ms = 1 .. Len(ms) /\ \A i \in DOMAIN ms : ms[i] \in Entries
  BY DEF MarkLists
<1>2. new = [i \in 1 .. Len(ms) |-> new[i]] /\ \A i \in 1 .. Len(ms) : new[i] \in Entries
  BY <1>1 DEF toggle_quick_menu, Entries
<1> HIDE DEF new
<1>3. new \in MarkLists
  BY <1>1, <1>2, ListIs
<1> QED BY <1>3 DEF new

\* What is read from the file has no file twice.
LEMMA OnceReads == ASSUME MarksTyped, OnceKept PROVE read_config \in MarkMaps /\ (~repeated => \A p \in Projects : Once(read_config[p]))
BY DEF MarksTyped, OnceKept, read_config, NoMarks, MarkMaps, MarkLists, Once

\* What an editor saves of its project, which its user has made of it or left as it was.
SavesFrom(e, ms) ==
  /\ save(e, ms)
  /\ \/ /\ made' = [made EXCEPT ![cwd[e]] = ms]
        /\ missed' = [d \in Nvims |-> IF d = e THEN missed[e] \cap {cwd[e]} ELSE missed[d] \cup {cwd[e]}]
     \/ /\ ms = marks(e) /\ made' = made
        /\ missed' = [missed EXCEPT ![e] = @ \cap {cwd[e]}]
  /\ running' = running \/ running' = [running EXCEPT ![e] = "leaving"]
  /\ repeated' = repeated \/ repeated' = (repeated \/ ~Once(ms))

\* Whatever a user makes of the marks is saved from there.
LEMMA ChangesSave ==
    ASSUME NEW e \in Nvims, NEW ms, emit_changed(e, ms), repeated' = repeated \/ repeated' = (repeated \/ ~Once(ms))
    PROVE  SavesFrom(e, ms)
BY DEF emit_changed, SavesFrom

\* Saving a list that has none twice keeps the invariant.
LEMMA SaveKeeps ==
    ASSUME MarksInv, NEW e \in Nvims, NEW ms \in MarkLists, SavesFrom(e, ms), ~repeated' => Once(ms)
    PROVE  MarksInv'
<1> DEFINE q == cwd[e]
           new == [read_config EXCEPT ![q] = ms]
<1>0. MarksTyped /\ OnceKept /\ SavedKept
  BY DEF MarksInv
<1>1. /\ cache_config' = cache_config /\ cwd' = cwd /\ running[e] = "yes" /\ saving[e] = "idle"
      /\ saving' = [saving EXCEPT ![e] = "read"]
      /\ GrappleConfig' = [GrappleConfig EXCEPT ![e] = new]
      /\ overtaken' = overtaken \cup (missed[e] \cap {q})
      /\ spoiled' = (spoiled \/ \E d \in Nvims \ {e} : saving[d] # "idle")
      /\ repeated' \in BOOLEAN /\ (~repeated' => ~repeated)
  BY <1>0 DEF SavesFrom, save, Awake, MarksTyped, Overlaps
<1>m. \/ /\ made' = [made EXCEPT ![q] = ms]
         /\ missed' = [d \in Nvims |-> IF d = e THEN missed[e] \cap {q} ELSE missed[d] \cup {q}]
      \/ /\ ms = GrappleConfig[e][q] /\ made' = made
         /\ missed' = [missed EXCEPT ![e] = @ \cap {q}]
  BY DEF SavesFrom, marks
<1>q. q \in Projects /\ missed[e] \in SUBSET Projects /\ made \in MarkMaps
  BY <1>0 DEF MarksTyped
<1>2. read_config \in MarkMaps /\ (~repeated => \A p \in Projects : Once(read_config[p]))
  BY <1>0, OnceReads
<1>3. new \in MarkMaps /\ (~repeated' => \A p \in Projects : Once(new[p]))
  BY <1>1, <1>2, <1>q DEF MarkMaps
<1>n. \A p \in Projects : new[p] = IF p = q THEN ms ELSE read_config[p]
  BY <1>2, <1>q DEF MarkMaps
<1> HIDE DEF new, q
<1>4. \A d \in Nvims : /\ GrappleConfig'[d] = IF d = e THEN new ELSE GrappleConfig[d]
                       /\ saving'[d] = IF d = e THEN "read" ELSE saving[d]
  BY <1>0, <1>1 DEF MarksTyped
<1>r. running' \in [Nvims -> {"no", "yes", "leaving"}] /\ \A d \in Nvims : running'[d] = "no" <=> running[d] = "no"
  BY <1>0, <1>1 DEF SavesFrom, MarksTyped
<1>t. /\ missed' \in [Nvims -> SUBSET Projects] /\ missed'[e] = missed[e] \cap {q}
      /\ \A d \in Nvims : d # e => missed[d] \subseteq missed'[d]
    BY <1>0, <1>m, <1>q DEF MarksTyped
<1>5. MarksTyped'
  <2>1. GrappleConfig' \in [Nvims -> MarkMaps] /\ made' \in MarkMaps
    BY <1>0, <1>1, <1>3, <1>m, <1>q DEF MarksTyped, MarkMaps
  <2>3. saving' \in [Nvims -> {"idle", "read", "opened"}] /\ spoiled' \in BOOLEAN
    BY <1>0, <1>1 DEF MarksTyped
  <2>4. \A d \in Nvims : saving'[d] # "idle" => running'[d] # "no"
    BY <1>0, <1>1, <1>4, <1>r DEF MarksTyped
  <2> QED BY <1>0, <1>1, <1>r, <1>t, <2>1, <2>3, <2>4 DEF MarksTyped, MarkMaps, MarkLists, Entries
<1>6. OnceKept'
  BY <1>0, <1>1, <1>3, <1>4 DEF OnceKept, Once
<1>7. SavedKept'
  <2> SUFFICES ASSUME ~spoiled' PROVE SavedKept'
    BY DEF SavedKept
  <2>1. ~spoiled /\ \A d \in Nvims : saving[d] = "idle"
    BY <1>1
  <2>2. cache_config.kind = "json" /\ \A p \in Projects \ overtaken : cache_config.projects[p] = made[p]
    BY <1>0, <2>1 DEF SavedKept, AsMade
  <2>3. \A p \in Projects \ overtaken : read_config[p] = made[p]
    BY <2>2 DEF read_config
  <2>4. q \notin overtaken \cup missed[e] => GrappleConfig[e][q] = made[q]
    BY <1>0, <1>1, <1>q, <2>1 DEF SavedKept
  <2>5. \A p \in Projects : made'[p] = IF p = q /\ made' # made THEN ms ELSE made[p]
    BY <1>m, <1>q DEF MarkMaps
  <2>6. q \notin overtaken' => made'[q] = ms
    BY <1>1, <1>m, <1>q, <2>4 DEF MarkMaps
  <2>7. \A p \in Projects \ overtaken' : new[p] = made'[p]
    BY <1>1, <1>n, <2>3, <2>5, <2>6
  <2>8. \A d \in Nvims : saving'[d] # "idle" => d = e /\ saving'[d] = "read"
    BY <1>4, <2>1
  <2>9. saving'[e] # "idle"
    BY <1>4
  <2>10. ASSUME NEW d \in Nvims, running'[d] # "no", NEW p \in Projects \ (overtaken' \cup missed'[d])
         PROVE  GrappleConfig'[d][p] = made'[p]
    <3>1. CASE d = e
      BY <1>4, <2>7, <2>10, <3>1
    <3>2. CASE d # e
      <4>1. running[d] # "no" /\ p \notin overtaken \cup missed[d] /\ GrappleConfig'[d] = GrappleConfig[d]
        BY <1>1, <1>4, <1>r, <1>t, <2>10, <3>2
      <4>2. GrappleConfig[d][p] = made[p]
        BY <1>0, <2>1, <4>1 DEF SavedKept
      <4>3. made'[p] = made[p]
        <5>1. CASE made' = made
          BY <5>1
        <5>2. CASE made' # made
          <6>1. missed'[d] = missed[d] \cup {q}
            BY <1>m, <3>2, <5>2
          <6> QED BY <2>5, <2>10, <6>1
        <5> QED BY <5>1, <5>2
      <4> QED BY <4>1, <4>2, <4>3
    <3> QED BY <3>1, <3>2
  <2>11. \A d \in Nvims : saving'[d] # "idle" => AsMade(GrappleConfig[d])'
    BY <1>4, <2>7, <2>8 DEF AsMade
  <2> QED BY <2>8, <2>9, <2>10, <2>11 DEF SavedKept
<1> QED BY <1>5, <1>6, <1>7 DEF MarksInv

\* At the start the file has the first marks, and the editors have none.
LEMMA MarksInvInit == MarksInit => MarksInv
<1> SUFFICES ASSUME MarksInit PROVE MarksInv
  OBVIOUS
<1>1. FirstMarks \in MarkMaps /\ NoMarks \in MarkMaps /\ \A p \in Projects : Once(FirstMarks[p]) /\ Once(NoMarks[p])
  BY MarksAssumption DEF MarkMaps, MarkLists, Entries, NoMarks, Once
<1> QED BY <1>1, MarksAssumption DEF MarksInit, MarksInv, MarksTyped, OnceKept, SavedKept, AsMade

\* The other programs leave the marks alone.
LEMMA MarksInvStays == UNCHANGED mvars /\ MarksInv => MarksInv'
BY DEF mvars, saves, MarksInv, MarksTyped, OnceKept, SavedKept, AsMade, Once, MarkMaps, MarkLists, Entries

MarkStep(e) ==
  \/ KillEditor(e) \/ OpenCache(e) \/ WriteCache(e) \/ clear_all(e) \/ store_offset(e)
  \/ \E p \in Projects : StartEditor(e, p) \/ ChangeDir(e, p)
  \/ \E lines \in Lists \cup {toggle_quick_menu(marks(e))} : set_mark_list(e, lines)
  \/ \E f \in Files : add_file(e, f) \/ rm_file(e, f)
  \/ \E f \in Files, idx \in 1 .. MaxIdx : set_current_at(e, f, idx)

\* The steps, by editor.
LEMMA MarkSteps == MarksNext => \E e \in Nvims : MarkStep(e)
BY DEF MarksNext, MarkStep

\* Every step of an editor keeps the invariant.
LEMMA MarksInvKept == ASSUME MarksInv, NEW e \in Nvims, MarkStep(e) PROVE MarksInv'
<1>0. MarksTyped /\ OnceKept /\ SavedKept
  BY DEF MarksInv
<1>1. marks(e) \in MarkLists /\ (~repeated => Once(marks(e)))
  BY <1>0 DEF marks, MarksTyped, MarkMaps, OnceKept
<1>a. ASSUME NEW p \in Projects, StartEditor(e, p) PROVE MarksInv'
  <2>1. read_config \in MarkMaps /\ (~repeated => \A q \in Projects : Once(read_config[q]))
    BY <1>0, OnceReads
  <2>2. /\ UNCHANGED <<cache_config, saving, made, overtaken, repeated>> /\ running[e] = "no"
        /\ running' = [running EXCEPT ![e] = "yes"] /\ cwd' = [cwd EXCEPT ![e] = p]
        /\ GrappleConfig' = [GrappleConfig EXCEPT ![e] = read_config]
        /\ missed' = [missed EXCEPT ![e] = {}] /\ spoiled' = (spoiled \/ \E d \in Nvims \ {e} : saving[d] # "idle")
    BY <1>a DEF StartEditor, Overlaps
  <2>3. \A d \in Nvims : /\ GrappleConfig'[d] = IF d = e THEN read_config ELSE GrappleConfig[d]
                         /\ d # e => running'[d] = running[d] /\ missed'[d] = missed[d]
    BY <1>0, <2>2 DEF MarksTyped
  <2>4. saving[e] = "idle"
    BY <1>0, <2>2 DEF MarksTyped
  <2>5. MarksTyped'
    BY <1>0, <2>1, <2>2 DEF MarksTyped, MarkMaps, MarkLists, Entries
  <2>6. OnceKept'
    BY <1>0, <2>1, <2>2, <2>3 DEF OnceKept, Once
  <2>7. SavedKept'
    <3> SUFFICES ASSUME ~spoiled' PROVE SavedKept'
      BY DEF SavedKept
    <3>1. ~spoiled /\ \A d \in Nvims : saving[d] = "idle"
      BY <2>2, <2>4
    <3>2. cache_config.kind = "json" /\ AsMade(cache_config.projects)
      BY <1>0, <3>1 DEF SavedKept
    <3>3. \A q \in Projects \ overtaken : read_config[q] = made[q]
      BY <3>2 DEF AsMade, read_config
    <3>4. ASSUME NEW d \in Nvims, running'[d] # "no"
          PROVE  \A q \in Projects \ (overtaken \cup missed'[d]) : GrappleConfig'[d][q] = made[q]
      <4>1. CASE d = e
        BY <2>3, <3>3, <4>1
      <4>2. CASE d # e
        BY <1>0, <2>3, <3>1, <3>4, <4>2 DEF SavedKept
      <4> QED BY <4>1, <4>2
    <3> QED BY <2>2, <3>1, <3>2, <3>4 DEF SavedKept, AsMade
  <2> QED BY <2>5, <2>6, <2>7 DEF MarksInv
<1>x. ASSUME NEW p \in Projects, ChangeDir(e, p) PROVE MarksInv'
  <2>1. /\ cwd' = [cwd EXCEPT ![e] = p]
        /\ UNCHANGED <<cache_config, GrappleConfig, running, saving, made, missed, overtaken, spoiled, repeated>>
    BY <1>x DEF ChangeDir, saves
  <2> QED BY <1>0, <2>1 DEF MarksInv, MarksTyped, OnceKept, SavedKept, AsMade, Once, MarkMaps, MarkLists, Entries
<1>b. CASE KillEditor(e)
  <2>1. /\ UNCHANGED <<cache_config, GrappleConfig, cwd, made, missed, overtaken, repeated>>
        /\ running' = [running EXCEPT ![e] = "no"] /\ saving' = [saving EXCEPT ![e] = "idle"]
        /\ spoiled' = (spoiled \/ saving[e] # "idle")
    BY <1>b DEF KillEditor
  <2>2. \A d \in Nvims : /\ saving'[d] = IF d = e THEN "idle" ELSE saving[d]
                         /\ running'[d] = IF d = e THEN "no" ELSE running[d]
    BY <1>0, <2>1 DEF MarksTyped
  <2>3. MarksTyped'
    BY <1>0, <2>1, <2>2 DEF MarksTyped, MarkMaps, MarkLists, Entries
  <2>4. OnceKept'
    BY <1>0, <2>1 DEF OnceKept, Once
  <2>5. SavedKept'
    <3> SUFFICES ASSUME ~spoiled, saving[e] = "idle" PROVE SavedKept'
      BY <2>1 DEF SavedKept
    <3>1. \A d \in Nvims : saving'[d] = saving[d] /\ (running'[d] # "no" => running[d] # "no")
      BY <2>2
    <3> QED BY <1>0, <2>1, <3>1 DEF SavedKept, AsMade
  <2> QED BY <2>3, <2>4, <2>5 DEF MarksInv
<1>c. CASE OpenCache(e)
  <2>1. /\ UNCHANGED <<GrappleConfig, cwd, running, made, missed, overtaken, spoiled, repeated>> /\ saving[e] = "read"
        /\ saving' = [saving EXCEPT ![e] = "opened"] /\ cache_config' = [kind |-> "empty", projects |-> NoMarks]
    BY <1>c DEF OpenCache, saves
  <2>2. \A d \in Nvims : saving'[d] = IF d = e THEN "opened" ELSE saving[d]
    BY <1>0, <2>1 DEF MarksTyped
  <2>3. NoMarks \in MarkMaps /\ \A p \in Projects : Once(NoMarks[p])
    BY DEF NoMarks, MarkMaps, MarkLists, Once
  <2>4. MarksTyped'
    BY <1>0, <2>1, <2>2, <2>3 DEF MarksTyped, MarkMaps, MarkLists, Entries
  <2>5. OnceKept'
    BY <1>0, <2>1, <2>3 DEF OnceKept, Once
  <2>6. SavedKept'
    BY <1>0, <2>1, <2>2 DEF SavedKept, AsMade
  <2> QED BY <2>4, <2>5, <2>6 DEF MarksInv
<1>d. CASE WriteCache(e)
  <2>1. /\ UNCHANGED <<GrappleConfig, cwd, made, missed, overtaken, spoiled, repeated>> /\ saving[e] = "opened"
        /\ saving' = [saving EXCEPT ![e] = "idle"]
        /\ running' = [running EXCEPT ![e] = IF @ = "leaving" THEN "no" ELSE @]
    BY <1>d DEF WriteCache, saves
  <2>2. \/ cache_config' = [kind |-> "json", projects |-> GrappleConfig[e]]
        \/ cache_config.kind # "empty" /\ cache_config' = [kind |-> "junk", projects |-> NoMarks]
    BY <1>d DEF WriteCache
  <2>3. \A d \in Nvims : /\ saving'[d] = IF d = e THEN "idle" ELSE saving[d]
                         /\ running'[d] # "no" => running[d] # "no"
                         /\ d # e => running'[d] = running[d]
    BY <1>0, <2>1 DEF MarksTyped
  <2>4. NoMarks \in MarkMaps /\ \A p \in Projects : Once(NoMarks[p])
    BY DEF NoMarks, MarkMaps, MarkLists, Once
  <2>5. cache_config' \in [kind : {"json", "empty", "junk"}, projects : MarkMaps]
    BY <1>0, <2>2, <2>4 DEF MarksTyped
  <2>6. running' \in [Nvims -> {"no", "yes", "leaving"}] /\ saving' \in [Nvims -> {"idle", "read", "opened"}]
    BY <1>0, <2>1 DEF MarksTyped
  <2>7. MarksTyped'
    BY <1>0, <2>1, <2>3, <2>5, <2>6 DEF MarksTyped, MarkMaps, MarkLists, Entries
  <2>8. OnceKept'
    BY <1>0, <2>1, <2>2, <2>4 DEF OnceKept, Once
  <2>9. SavedKept'
    <3> SUFFICES ASSUME ~spoiled PROVE SavedKept'
      BY <2>1 DEF SavedKept
    <3>1. cache_config.kind = "empty" /\ AsMade(GrappleConfig[e])
      BY <1>0, <2>1 DEF SavedKept
    <3>2. cache_config' = [kind |-> "json", projects |-> GrappleConfig[e]]
      BY <2>2, <3>1
    <3>3. \A d \in Nvims : saving'[d] = "idle"
      BY <1>0, <2>1, <2>3 DEF SavedKept
    <3>4. cache_config'.kind = "json" /\ AsMade(cache_config.projects)'
      BY <2>1, <3>1, <3>2 DEF AsMade
    <3>5. \A d \in Nvims : running'[d] # "no" =>
            \A p \in Projects \ (overtaken \cup missed[d]) : GrappleConfig[d][p] = made[p]
      BY <1>0, <2>3 DEF SavedKept
    <3> QED BY <2>1, <3>3, <3>4, <3>5 DEF SavedKept
  <2> QED BY <2>7, <2>8, <2>9 DEF MarksInv
<1>e. CASE clear_all(e)
  <2>1. <<>> \in MarkLists /\ Once(<<>>)
    BY DEF MarkLists, Once
  <2> QED BY <1>e, <2>1, ChangesSave, SaveKeeps DEF clear_all
<1>f. CASE store_offset(e)
  <2>1. SavesFrom(e, marks(e)) /\ repeated' = repeated
    BY <1>f DEF store_offset, SavesFrom
  <2> QED BY <1>1, <2>1, SaveKeeps
<1>g. ASSUME NEW lines \in Lists \cup {toggle_quick_menu(marks(e))}, set_mark_list(e, lines) PROVE MarksInv'
  <2>1. lines \in MarkLists
    <3>1. Seq(Files \cup {Empty}) \subseteq Seq(Entries)
      BY DEF Entries
    <3> QED BY <1>1, <3>1, MarksAssumption, MenuIs DEF MarkLists
  <2>2. SavesFrom(e, lines) /\ (~repeated' => Once(lines))
    BY <1>g, ChangesSave DEF set_mark_list
  <2> QED BY <2>1, <2>2, SaveKeeps
<1>h. ASSUME NEW f \in Files, add_file(e, f) PROVE MarksInv'
  <2> DEFINE new == remove_empty_tail(Added(marks(e), f))
  <2>1. emit_changed(e, new) /\ get_index_of(marks(e), f) = {} /\ repeated' = repeated
    BY <1>h DEF add_file, Added
  <2>2. new \in MarkLists /\ (~repeated => Once(new))
    BY <1>1, <2>1, AddedIs, Trimmed
  <2> HIDE DEF new
  <2> QED BY <2>1, <2>2, ChangesSave, SaveKeeps
<1>i. ASSUME NEW f \in Files, rm_file(e, f) PROVE MarksInv'
  <2> DEFINE k == Min(get_index_of(marks(e), f))
             old == [marks(e) EXCEPT ![k] = Hole]
             new == remove_empty_tail(old)
  <2>1. emit_changed(e, new) /\ repeated' = repeated
    BY <1>i DEF rm_file
  <2>2. old \in MarkLists /\ (~repeated => Once(old))
    <3> HIDE DEF k
    <3> QED BY <1>1, RemovedIs
  <2>3. new \in MarkLists /\ (~repeated => Once(new))
    <3> HIDE DEF old
    <3> QED BY <2>2, Trimmed
  <2> HIDE DEF new
  <2> QED BY <2>1, <2>3, ChangesSave, SaveKeeps
<1>j. ASSUME NEW f \in Files, NEW idx \in 1 .. MaxIdx, set_current_at(e, f, idx) PROVE MarksInv'
  <2> DEFINE new == MovedTo(marks(e), f, idx)
  <2>1. emit_changed(e, new) /\ repeated' = repeated
    BY <1>j DEF set_current_at
  <2>2. new \in MarkLists /\ (~repeated => Once(new))
    BY <1>1, MovedIs
  <2> HIDE DEF new
  <2> QED BY <2>1, <2>2, ChangesSave, SaveKeeps
<1> QED BY <1>a, <1>b, <1>c, <1>d, <1>e, <1>f, <1>g, <1>h, <1>i, <1>j, <1>x DEF MarkStep

\* The invariant says that marks are kept, and none twice.
LEMMA MarksInvSays == MarksInv => MarksTypeOK /\ MarksKept /\ NoFileTwice
BY DEF MarksInv, MarksTyped, OnceKept, SavedKept, AsMade, MarksTypeOK, MarksKept, NoFileTwice, MarkMaps, MarkLists,
       Entries

-----------------------------------------------------------------------------
(* The Lua programs together *)

\* The programs share nothing.
PluginInv == MotionInv /\ CalcInv /\ FileInv /\ MarksInv

\* The four invariants at the start.
LEMMA PluginInvInit == AllInit => PluginInv
BY MotionInvInit, CalcInvInit, FileInvInit, MarksInvInit DEF AllInit, PluginInv

\* A step of one program keeps its invariant and leaves the others alone.
LEMMA PluginInvKept == PluginInv /\ [AllNext]_<<part, plugins>> => PluginInv'
<1> SUFFICES ASSUME MotionInv, CalcInv, FileInv, MarksInv, [AllNext]_<<part, plugins>>
             PROVE  MotionInv' /\ CalcInv' /\ FileInv' /\ MarksInv'
  BY DEF PluginInv
<1>1. CASE Insight
  <2>1. MotionNext /\ UNCHANGED cvars /\ UNCHANGED fvars /\ UNCHANGED mvars
    BY <1>1 DEF Insight
  <2> QED BY <2>1, MotionInvKept, CalcInvStays, FileInvStays, MarksInvStays
<1>2. CASE Apm
  <2>1. CalcNext /\ UNCHANGED kvars /\ UNCHANGED fvars /\ UNCHANGED mvars
    BY <1>2 DEF Apm
  <2> QED BY <2>1, MotionInvStays, CalcInvKept, FileInvStays, MarksInvStays
<1>3. CASE Statistics
  <2>1. FileNext /\ UNCHANGED kvars /\ UNCHANGED cvars /\ UNCHANGED mvars
    BY <1>3 DEF Statistics
  <2> QED BY <2>1, MotionInvStays, CalcInvStays, FileInvKept, MarksInvStays
<1>4. CASE Grapple
  <2>1. MarksNext /\ UNCHANGED kvars /\ UNCHANGED cvars /\ UNCHANGED fvars
    BY <1>4 DEF Grapple
  <2>2. MarksInv'
    BY <2>1, MarkSteps, MarksInvKept
  <2> QED BY <2>1, <2>2, MotionInvStays, CalcInvStays, FileInvStays
<1>5. CASE UNCHANGED <<part, plugins>>
  <2>1. UNCHANGED kvars /\ UNCHANGED cvars /\ UNCHANGED fvars /\ UNCHANGED mvars
    BY <1>5 DEF plugins
  <2> QED BY <2>1, MotionInvStays, CalcInvStays, FileInvStays, MarksInvStays
<1> QED BY <1>1, <1>2, <1>3, <1>4, <1>5 DEF AllNext

\* So the four hold always.
LEMMA PluginInvAlways == AllSpec => []PluginInv
BY PluginInvInit, PluginInvKept, PTL DEF AllSpec

\* Whatever keys are typed and however modes change in between, vim-insight recognises a motion
\* with the key that completes one, goes on as long as one has begun, and drops what cannot
\* become one.
THEOREM MotionsAlwaysRecognised == AllSpec => []MotionsRecognised
<1>1. PluginInv => MotionsRecognised
  BY MotionInvSays DEF PluginInv
<1> QED BY <1>1, PluginInvAlways, PTL

\* As long as the ring has not been full, the actions per minute are the scores of exactly the
\* motions of the last period, each less for its repetitions among the motions before it; once the
\* ring has been full, it looks empty for good.
THEOREM SumAlwaysWindow == AllSpec => []SumIsWindow
<1>1. PluginInv => SumIsWindow
  BY CalcInvSays DEF PluginInv
<1> QED BY <1>1, PluginInvAlways, PTL

\* However many editors share them, and unless two of them use it at the same time: the file of
\* statistics has each event once; grapple's file has of every project the marks that a user last
\* made of it, whichever projects the editors go to, but for those that one of them saved after it
\* had missed another's change there; and no list has a file twice that a user did not write twice.
THEOREM FilesAlwaysKept == AllSpec => []FilesKept
<1>1. PluginInv => FilesKept
  BY FileInvSays, MarksInvSays DEF PluginInv, FilesKept
<1> QED BY <1>1, PluginInvAlways, PTL
=============================================================================
