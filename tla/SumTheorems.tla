---------------------------- MODULE SumTheorems ----------------------------
(***************************************************************************)
(* Sums of a function over a finite set: what SumFunctionOnSet of the      *)
(* community modules computes. The recursion behind it is justified by the *)
(* well-foundedness of strict inclusion on the subsets of a finite set.    *)
(***************************************************************************)
EXTENDS Integers, FiniteSets, Functions, FiniteSetTheorems, WellFoundedInduction, TLAPS

(* The element that the fold takes first, and its recursion equation. *)
Chosen(s) == CHOOSE x \in s : TRUE
Unchosen(s) == s \ {Chosen(s)}
IsFold(f, S, g) ==
  g = [s \in SUBSET S |-> IF s = {} THEN 0 ELSE f[Chosen(s)] + g[Unchosen(s)]]

(* What the fold leaves is a strict subset.                                *)
LEMMA RestIsLess ==
  ASSUME NEW s, s # {}
  PROVE  Chosen(s) \in s /\ Unchosen(s) \in SUBSET s /\ Unchosen(s) # s
BY DEF Chosen, Unchosen

(* SumFunctionOnSet is the value that a solution of the equation has at S. *)
LEMMA FoldUnfolded ==
  ASSUME NEW f, NEW S
  PROVE  SumFunctionOnSet(f, S) = (CHOOSE g : IsFold(f, S, g))[S]
BY DEF SumFunctionOnSet, FoldFunctionOnSet, MapThenFoldSet, IsFold, Chosen, Unchosen

(* Every nonempty set of subsets of a finite set has a smallest member: the *)
(* form of induction used below, with sets in the place of predicates.      *)
LEMMA MinimalSubset ==
  ASSUME NEW S, IsFiniteSet(S), NEW T \in SUBSET (SUBSET S), T # {}
  PROVE  \E m \in T : \A t \in T : t \subseteq m => t = m
<1>1. IsWellFoundedOn(StrictSubsetOrdering(S), FiniteSubsetsOf(S))
  BY FS_StrictSubsetOrderingWellFounded
<1>2. FiniteSubsetsOf(S) = SUBSET S
  BY FS_FiniteSubsetsOfFinite
<1>3. PICK m \in T : \A t \in T : ~ (<<t, m>> \in StrictSubsetOrdering(S))
  BY <1>1, <1>2, WFMin
<1>4. \A t \in T : t \subseteq m => t = m
  BY <1>3 DEF StrictSubsetOrdering
<1> QED BY <1>4

(* A set of subsets that holds whatever has all its strict subsets in it    *)
(* holds every subset.                                                      *)
LEMMA SubsetInduction ==
  ASSUME NEW S, IsFiniteSet(S), NEW G,
         \A m \in SUBSET S : (\A t \in SUBSET m : t # m => t \in G) => m \in G
  PROVE  \A m \in SUBSET S : m \in G
<1> DEFINE T == {m \in SUBSET S : m \notin G}
<1> SUFFICES ASSUME T # {} PROVE FALSE
  OBVIOUS
<1>0. T \in SUBSET (SUBSET S)
  OBVIOUS
<1>1. PICK m \in T : \A t \in T : t \subseteq m => t = m
  <2> HIDE DEF T
  <2> QED BY <1>0, MinimalSubset
<1>2. \A t \in SUBSET m : t # m => t \in G
  BY <1>1
<1> QED BY <1>1, <1>2

(* The equation has at most one solution, also when solved on a smaller set. *)
LEMMA FoldsAgree ==
  ASSUME NEW f, NEW S, IsFiniteSet(S), NEW T \in SUBSET S,
         NEW g, IsFold(f, S, g), NEW h, IsFold(f, T, h)
  PROVE  \A t \in SUBSET T : g[t] = h[t]
<1> DEFINE G == {t \in SUBSET T : g[t] = h[t]}
<1>1. ASSUME NEW m \in SUBSET T, \A t \in SUBSET m : t # m => t \in G
      PROVE  m \in G
  <2>1. CASE m = {}
    BY <2>1 DEF IsFold
  <2>2. CASE m # {}
    <3>1. Unchosen(m) \in SUBSET m /\ Unchosen(m) \in G
      BY <1>1, <2>2, RestIsLess
    <3>2. g[m] = f[Chosen(m)] + g[Unchosen(m)] /\ h[m] = f[Chosen(m)] + h[Unchosen(m)]
      BY <2>2 DEF IsFold
    <3> QED BY <3>1, <3>2
  <2> QED BY <2>1, <2>2
<1>2. IsFiniteSet(T)
  BY FS_Subset
<1> HIDE DEF G
<1>3. \A m \in SUBSET T : m \in G
  BY <1>1, <1>2, SubsetInduction
<1> QED BY <1>3 DEF G

(* On the subsets of a finite set the equation has a solution.             *)
LEMMA FoldExists ==
  ASSUME NEW f, NEW S, IsFiniteSet(S)
  PROVE  \E g : IsFold(f, S, g)
<1> DEFINE G == {s \in SUBSET S : \E g : IsFold(f, s, g)}
           sum(s) == (CHOOSE g : IsFold(f, s, g))[s]
<1>1. ASSUME NEW m \in SUBSET S, \A t \in SUBSET m : t # m => t \in G
      PROVE  m \in G
  <2> DEFINE h == [s \in SUBSET m |-> IF s = {} THEN 0 ELSE f[Chosen(s)] + sum(Unchosen(s))]
  <2>1. ASSUME NEW s \in SUBSET m, s # {} PROVE h[Unchosen(s)] = sum(Unchosen(s))
    <3> DEFINE u == Unchosen(s)
               g == CHOOSE g : IsFold(f, u, g)
    <3>0. u \in SUBSET s /\ u # s
      BY <2>1, RestIsLess
    <3>1. u \in SUBSET m /\ u \in G
      <4>1. u \in SUBSET m /\ u # m
        BY <3>0
      <4> HIDE DEF u
      <4> QED BY <1>1, <4>1
    <3>2. IsFold(f, u, g)
      BY <3>1
    <3>3. CASE u = {}
      BY <3>1, <3>2, <3>3 DEF IsFold
    <3>4. CASE u # {}
      <4> DEFINE v == Unchosen(u)
                 k == CHOOSE k : IsFold(f, v, k)
      <4>1. v \in SUBSET u /\ v # u
        BY <3>4, RestIsLess
      <4>2. v \in G
        BY <1>1, <3>1, <4>1
      <4>3. IsFold(f, v, k)
        BY <4>2
      <4>4. IsFiniteSet(u)
        BY <3>1, FS_Subset
      <4> HIDE DEF g, k, v, u
      <4>5. g[v] = k[v]
        BY <3>2, <4>1, <4>3, <4>4, FoldsAgree
      <4>6. g[u] = f[Chosen(u)] + g[v]
        BY <3>2, <3>4 DEF IsFold, v
      <4>7. h[u] = f[Chosen(u)] + sum(v)
        BY <3>1, <3>4 DEF v
      <4>8. sum(u) = g[u] /\ sum(v) = k[v]
        BY DEF g, k
      <4> QED BY <4>5, <4>6, <4>7, <4>8 DEF u
    <3> QED BY <3>3, <3>4
  <2> HIDE DEF sum
  <2>2. h = [s \in SUBSET m |-> IF s = {} THEN 0 ELSE f[Chosen(s)] + h[Unchosen(s)]]
    BY <2>1
  <2>3. IsFold(f, m, h)
    BY <2>2 DEF IsFold
  <2> QED BY <2>3
<1> HIDE DEF G
<1>2. \A m \in SUBSET S : m \in G
  BY <1>1, SubsetInduction
<1> QED BY <1>2 DEF G

(* So a sum over a finite set is computed by the equation.                 *)
LEMMA SumIsFold ==
  ASSUME NEW f, NEW S, IsFiniteSet(S)
  PROVE  \E g : IsFold(f, S, g) /\ SumFunctionOnSet(f, S) = g[S]
<1> DEFINE g == CHOOSE g : IsFold(f, S, g)
<1>1. IsFold(f, S, g)
  BY FoldExists
<1>2. SumFunctionOnSet(f, S) = g[S]
  BY FoldUnfolded
<1> QED BY <1>1, <1>2

-----------------------------------------------------------------------------
(* Sums *)

(* Nothing adds up to zero.                                                *)
LEMMA SumEmpty == ASSUME NEW f PROVE SumFunctionOnSet(f, {}) = 0
<1>1. IsFiniteSet({})
  BY FS_EmptySet
<1>2. PICK g : IsFold(f, {}, g) /\ SumFunctionOnSet(f, {}) = g[{}]
  BY <1>1, SumIsFold
<1> QED BY <1>2 DEF IsFold

(* The element that the fold takes first, and the sum of the rest.         *)
LEMMA SumFirst ==
  ASSUME NEW f, NEW S, IsFiniteSet(S), S # {}
  PROVE  SumFunctionOnSet(f, S) = f[Chosen(S)] + SumFunctionOnSet(f, Unchosen(S))
<1>1. PICK g : IsFold(f, S, g) /\ SumFunctionOnSet(f, S) = g[S]
  BY SumIsFold
<1>2. Unchosen(S) \in SUBSET S /\ IsFiniteSet(Unchosen(S))
  BY RestIsLess, FS_Subset
<1>3. PICK h : IsFold(f, Unchosen(S), h) /\ SumFunctionOnSet(f, Unchosen(S)) = h[Unchosen(S)]
  BY <1>2, SumIsFold
<1>4. g[Unchosen(S)] = h[Unchosen(S)]
  BY <1>1, <1>2, <1>3, FoldsAgree
<1>5. g[S] = f[Chosen(S)] + g[Unchosen(S)]
  BY <1>1 DEF IsFold
<1> QED BY <1>1, <1>3, <1>4, <1>5

(* A sum of integers is an integer, and any element can be taken first. *)
LEMMA SumAnyFirst ==
  ASSUME NEW f, NEW S, IsFiniteSet(S), \A x \in S : f[x] \in Int
  PROVE  /\ SumFunctionOnSet(f, S) \in Int
         /\ \A x \in S : SumFunctionOnSet(f, S) = f[x] + SumFunctionOnSet(f, S \ {x})
<1> DEFINE sum(s) == SumFunctionOnSet(f, s)
           G == {s \in SUBSET S : /\ sum(s) \in Int
                                  /\ \A x \in s : sum(s) = f[x] + sum(s \ {x})}
<1>1. ASSUME NEW m \in SUBSET S, \A t \in SUBSET m : t # m => t \in G
      PROVE  m \in G
  <2>1. CASE m = {}
    BY <2>1, SumEmpty
  <2>2. CASE m # {}
    <3> DEFINE c == Chosen(m)
    <3>1. c \in m /\ Unchosen(m) = m \ {c} /\ Unchosen(m) \in G
      BY <1>1, <2>2, RestIsLess DEF Unchosen
    <3>2. IsFiniteSet(m)
      BY FS_Subset
    <3>3. sum(m) = f[c] + sum(m \ {c})
      BY <2>2, <3>1, <3>2, SumFirst
    <3>4. sum(m) \in Int
      BY <3>1, <3>3
    <3> HIDE DEF c
    <3>5. ASSUME NEW x \in m, x # c PROVE sum(m) = f[x] + sum(m \ {x})
      <4>1. m \ {x} \in G
        BY <1>1
      <4>2. sum(m \ {x}) = f[c] + sum((m \ {x}) \ {c})
        BY <3>1, <3>5, <4>1
      <4>3. sum(m \ {c}) = f[x] + sum((m \ {c}) \ {x})
        BY <3>1, <3>5
      <4>4. (m \ {x}) \ {c} = (m \ {c}) \ {x}
        OBVIOUS
      <4>5. sum((m \ {c}) \ {x}) \in Int
        <5>1. (m \ {c}) \ {x} \in SUBSET m /\ (m \ {c}) \ {x} # m
          BY <3>1
        <5> QED BY <1>1, <5>1
      <4>6. f[c] \in Int /\ f[x] \in Int
        BY <3>1
      <4> DEFINE a == sum((m \ {c}) \ {x})
      <4>7. sum(m) = f[c] + (f[x] + a) /\ sum(m \ {x}) = f[c] + a
        BY <3>3, <4>2, <4>3, <4>4
      <4> HIDE DEF a, sum
      <4> QED BY <4>5, <4>6, <4>7 DEF a
    <3> HIDE DEF sum
    <3> QED BY <3>3, <3>4, <3>5
  <2> QED BY <2>1, <2>2
<1> HIDE DEF G
<1>2. \A m \in SUBSET S : m \in G
  BY <1>1, SubsetInduction
<1> QED BY <1>2 DEF G

(* What a sum depends on: the values of the function on the set.           *)
LEMMA SumSame ==
  ASSUME NEW f, NEW g, NEW S, IsFiniteSet(S), \A x \in S : f[x] = g[x]
  PROVE  SumFunctionOnSet(f, S) = SumFunctionOnSet(g, S)
<1> DEFINE G == {s \in SUBSET S : SumFunctionOnSet(f, s) = SumFunctionOnSet(g, s)}
<1>1. ASSUME NEW m \in SUBSET S, \A t \in SUBSET m : t # m => t \in G
      PROVE  m \in G
  <2>1. CASE m = {}
    BY <2>1, SumEmpty
  <2>2. CASE m # {}
    <3>1. Chosen(m) \in S /\ Unchosen(m) \in G
      BY <1>1, <2>2, RestIsLess
    <3>2. IsFiniteSet(m)
      BY FS_Subset
    <3>3. /\ SumFunctionOnSet(f, m) = f[Chosen(m)] + SumFunctionOnSet(f, Unchosen(m))
          /\ SumFunctionOnSet(g, m) = g[Chosen(m)] + SumFunctionOnSet(g, Unchosen(m))
      BY <2>2, <3>2, SumFirst
    <3> QED BY <3>1, <3>3
  <2> QED BY <2>1, <2>2
<1> HIDE DEF G
<1>2. \A m \in SUBSET S : m \in G
  BY <1>1, SubsetInduction
<1> QED BY <1>2 DEF G

(* Terms that are zero can be left out. *)
LEMMA SumSupport ==
  ASSUME NEW f, NEW S, IsFiniteSet(S), NEW T \in SUBSET S,
         \A x \in S : f[x] \in Int, \A x \in S \ T : f[x] = 0
  PROVE  SumFunctionOnSet(f, T) = SumFunctionOnSet(f, S)
<1> DEFINE G == {s \in SUBSET S : SumFunctionOnSet(f, s \intersect T) = SumFunctionOnSet(f, s)}
<1>1. ASSUME NEW m \in SUBSET S, \A t \in SUBSET m : t # m => t \in G
      PROVE  m \in G
  <2>1. CASE m = {}
    <3>1. m \intersect T = m
      BY <2>1
    <3> QED BY <3>1
  <2>2. CASE m # {}
    <3>1. PICK c \in m : TRUE
      BY <2>2
    <3>2. IsFiniteSet(m) /\ IsFiniteSet(m \intersect T)
      BY FS_Subset
    <3>3. m \ {c} \in G
      BY <1>1
    <3> DEFINE rest == SumFunctionOnSet(f, m \ {c})
    <3>4. (\A x \in m : f[x] \in Int) /\ (\A x \in m \intersect T : f[x] \in Int)
      OBVIOUS
    <3>5. SumFunctionOnSet(f, m) = f[c] + rest
      BY <3>2, <3>4, SumAnyFirst
    <3>6. SumFunctionOnSet(f, (m \ {c}) \intersect T) = rest /\ rest \in Int
      <4>1. IsFiniteSet(m \ {c}) /\ \A x \in m \ {c} : f[x] \in Int
        BY <3>2, FS_Subset
      <4> QED BY <3>3, <4>1, SumAnyFirst
    <3>7. CASE c \in T
      <4>1. c \in m \intersect T /\ (m \intersect T) \ {c} = (m \ {c}) \intersect T
        BY <3>7
      <4>2. SumFunctionOnSet(f, m \intersect T)
              = f[c] + SumFunctionOnSet(f, (m \intersect T) \ {c})
        BY <3>2, <3>4, <4>1, SumAnyFirst
      <4> QED BY <3>5, <3>6, <4>1, <4>2
    <3>8. CASE c \notin T
      <4>1. m \intersect T = (m \ {c}) \intersect T /\ f[c] = 0
        BY <3>8
      <4>2. SumFunctionOnSet(f, m \intersect T) = rest
        BY <3>6, <4>1
      <4>3. SumFunctionOnSet(f, m) = rest
        BY <3>5, <3>6, <4>1
      <4> QED BY <4>2, <4>3
    <3> QED BY <3>7, <3>8
  <2> QED BY <2>1, <2>2
<1> HIDE DEF G
<1>2. \A m \in SUBSET S : m \in G
  BY <1>1, SubsetInduction
<1>3. S \intersect T = T
  OBVIOUS
<1> QED BY <1>2, <1>3 DEF G

(* One term changes. *)
LEMMA SumChange ==
  ASSUME NEW f, NEW g, NEW S, IsFiniteSet(S), NEW c \in S,
         \A x \in S : f[x] \in Int, g[c] \in Int, \A x \in S \ {c} : g[x] = f[x]
  PROVE  /\ SumFunctionOnSet(f, S) \in Int
         /\ SumFunctionOnSet(g, S) = SumFunctionOnSet(f, S) - f[c] + g[c]
<1>1. IsFiniteSet(S \ {c}) /\ \A x \in S : g[x] \in Int
  BY FS_Subset
<1>2. SumFunctionOnSet(g, S \ {c}) = SumFunctionOnSet(f, S \ {c})
  BY <1>1, SumSame
<1>3. SumFunctionOnSet(f, S \ {c}) \in Int
  <2>1. \A x \in S \ {c} : f[x] \in Int
    OBVIOUS
  <2> QED BY <1>1, <2>1, SumAnyFirst
<1>4. /\ SumFunctionOnSet(f, S) \in Int
      /\ SumFunctionOnSet(f, S) = f[c] + SumFunctionOnSet(f, S \ {c})
  BY SumAnyFirst
<1>5. SumFunctionOnSet(g, S) = g[c] + SumFunctionOnSet(g, S \ {c})
  BY <1>1, SumAnyFirst
<1>6. f[c] \in Int /\ g[c] \in Int
  OBVIOUS
<1> QED BY <1>2, <1>3, <1>4, <1>5, <1>6

(* The sum over a set that a condition selects, as a sum over all of S. *)
LEMMA SumSelected ==
  ASSUME NEW S, IsFiniteSet(S), NEW T \in SUBSET S, NEW f, NEW g,
         \A x \in S : g[x] \in Int,
         \A x \in T : f[x] = g[x], \A x \in S \ T : g[x] = 0
  PROVE  SumFunctionOnSet(f, T) = SumFunctionOnSet(g, S)
<1>1. IsFiniteSet(T)
  BY FS_Subset
<1>2. SumFunctionOnSet(f, T) = SumFunctionOnSet(g, T)
  BY <1>1, SumSame
<1> QED BY <1>2, SumSupport

(* Sums grow with their terms. *)
LEMMA SumMonotone ==
  ASSUME NEW f, NEW g, NEW S, IsFiniteSet(S),
         \A x \in S : f[x] \in Int /\ g[x] \in Int /\ f[x] <= g[x]
  PROVE  SumFunctionOnSet(f, S) <= SumFunctionOnSet(g, S)
<1> DEFINE G == {s \in SUBSET S : /\ SumFunctionOnSet(f, s) \in Int
                                 /\ SumFunctionOnSet(g, s) \in Int
                                 /\ SumFunctionOnSet(f, s) <= SumFunctionOnSet(g, s)}
<1>1. ASSUME NEW m \in SUBSET S, \A t \in SUBSET m : t # m => t \in G
      PROVE  m \in G
  <2>1. CASE m = {}
    BY <2>1, SumEmpty
  <2>2. CASE m # {}
    <3>1. Chosen(m) \in S /\ Unchosen(m) \in G
      BY <1>1, <2>2, RestIsLess
    <3>2. IsFiniteSet(m)
      BY FS_Subset
    <3>3. /\ SumFunctionOnSet(f, m) = f[Chosen(m)] + SumFunctionOnSet(f, Unchosen(m))
          /\ SumFunctionOnSet(g, m) = g[Chosen(m)] + SumFunctionOnSet(g, Unchosen(m))
      BY <2>2, <3>2, SumFirst
    <3> QED BY <3>1, <3>3
  <2> QED BY <2>1, <2>2
<1> HIDE DEF G
<1>2. \A m \in SUBSET S : m \in G
  BY <1>1, SubsetInduction
<1> QED BY <1>2 DEF G

(* A sum of sums. *)
LEMMA SumPlus ==
  ASSUME NEW f, NEW g, NEW h, NEW S, IsFiniteSet(S),
         \A x \in S : f[x] \in Int /\ g[x] \in Int /\ h[x] = f[x] + g[x]
  PROVE  SumFunctionOnSet(h, S) = SumFunctionOnSet(f, S) + SumFunctionOnSet(g, S)
<1> DEFINE G == {s \in SUBSET S : /\ SumFunctionOnSet(f, s) \in Int
                                 /\ SumFunctionOnSet(g, s) \in Int
                                 /\ SumFunctionOnSet(h, s) = SumFunctionOnSet(f, s)
                                                           + SumFunctionOnSet(g, s)}
<1>1. ASSUME NEW m \in SUBSET S, \A t \in SUBSET m : t # m => t \in G
      PROVE  m \in G
  <2>1. CASE m = {}
    BY <2>1, SumEmpty
  <2>2. CASE m # {}
    <3>1. Chosen(m) \in S /\ Unchosen(m) \in G
      BY <1>1, <2>2, RestIsLess
    <3>2. IsFiniteSet(m)
      BY FS_Subset
    <3>3. /\ SumFunctionOnSet(f, m) = f[Chosen(m)] + SumFunctionOnSet(f, Unchosen(m))
          /\ SumFunctionOnSet(g, m) = g[Chosen(m)] + SumFunctionOnSet(g, Unchosen(m))
          /\ SumFunctionOnSet(h, m) = h[Chosen(m)] + SumFunctionOnSet(h, Unchosen(m))
      BY <2>2, <3>2, SumFirst
    <3> QED BY <3>1, <3>3
  <2> QED BY <2>1, <2>2
<1> HIDE DEF G
<1>2. \A m \in SUBSET S : m \in G
  BY <1>1, SubsetInduction
<1> QED BY <1>2 DEF G

(* The sum over two disjoint sets. *)
LEMMA SumDisjoint ==
  ASSUME NEW f, NEW S, IsFiniteSet(S), NEW T, IsFiniteSet(T), S \intersect T = {},
         \A x \in S \union T : f[x] \in Int
  PROVE  SumFunctionOnSet(f, S \union T) = SumFunctionOnSet(f, S) + SumFunctionOnSet(f, T)
<1> DEFINE G == {s \in SUBSET S : /\ SumFunctionOnSet(f, s) \in Int
                                 /\ SumFunctionOnSet(f, s \union T)
                                      = SumFunctionOnSet(f, s) + SumFunctionOnSet(f, T)}
<1>0. SumFunctionOnSet(f, T) \in Int
  <2>1. \A x \in T : f[x] \in Int
    OBVIOUS
  <2> QED BY <2>1, SumAnyFirst
<1>1. ASSUME NEW m \in SUBSET S, \A t \in SUBSET m : t # m => t \in G
      PROVE  m \in G
  <2>1. CASE m = {}
    <3>1. m \union T = T
      BY <2>1
    <3>2. SumFunctionOnSet(f, m) = 0
      BY <2>1, SumEmpty
    <3>3. SumFunctionOnSet(f, m \union T) = SumFunctionOnSet(f, T)
      BY <3>1
    <3>4. SumFunctionOnSet(f, T) = 0 + SumFunctionOnSet(f, T)
      BY <1>0
    <3> QED BY <3>2, <3>3, <3>4
  <2>2. CASE m # {}
    <3> DEFINE c == Chosen(m)
    <3>1. c \in m /\ m \ {c} \in G
      BY <1>1, <2>2, RestIsLess DEF Unchosen
    <3>2. IsFiniteSet(m) /\ IsFiniteSet(m \union T)
      BY FS_Subset, FS_Union
    <3> HIDE DEF c
    <3>3. SumFunctionOnSet(f, m) = f[c] + SumFunctionOnSet(f, m \ {c})
      <4>1. \A x \in m : f[x] \in Int
        OBVIOUS
      <4> HIDE DEF G
      <4> QED BY <3>1, <3>2, <4>1, SumAnyFirst
    <3>4. SumFunctionOnSet(f, m \union T) = f[c] + SumFunctionOnSet(f, (m \union T) \ {c})
      <4>1. c \in m \union T /\ \A x \in m \union T : f[x] \in Int
        BY <3>1
      <4> QED BY <3>2, <4>1, SumAnyFirst
    <3>5. (m \union T) \ {c} = (m \ {c}) \union T
      BY <3>1
    <3>6. f[c] \in Int
      BY <3>1
    <3> DEFINE a == SumFunctionOnSet(f, m \ {c})
               b == SumFunctionOnSet(f, T)
    <3>7. a \in Int /\ SumFunctionOnSet(f, (m \ {c}) \union T) = a + b
      BY <3>1
    <3>8. SumFunctionOnSet(f, m \union T) = f[c] + (a + b)
      BY <3>4, <3>5, <3>7
    <3>9. SumFunctionOnSet(f, m) = f[c] + a
      BY <3>3
    <3>10. b \in Int
      BY <1>0
    <3> HIDE DEF a, b
    <3>11. SumFunctionOnSet(f, m) + b = f[c] + (a + b) /\ SumFunctionOnSet(f, m) \in Int
      BY <3>6, <3>7, <3>9, <3>10
    <3> QED BY <3>8, <3>11 DEF b
  <2> QED BY <2>1, <2>2
<1> HIDE DEF G
<1>2. \A m \in SUBSET S : m \in G
  BY <1>1, SubsetInduction
<1> QED BY <1>2 DEF G

(* A sum of natural numbers, of which each term is a part, and each subset. *)
LEMMA SumOfNaturals ==
  ASSUME NEW f, NEW S, IsFiniteSet(S), \A x \in S : f[x] \in Nat
  PROVE  /\ SumFunctionOnSet(f, S) \in Nat
         /\ \A x \in S : f[x] <= SumFunctionOnSet(f, S)
         /\ \A T \in SUBSET S : SumFunctionOnSet(f, T) <= SumFunctionOnSet(f, S)
<1> DEFINE zero == [x \in S |-> 0]
           G == {s \in SUBSET S : SumFunctionOnSet(f, s) \in Nat}
<1>1. ASSUME NEW m \in SUBSET S, \A t \in SUBSET m : t # m => t \in G
      PROVE  m \in G
  <2>1. CASE m = {}
    BY <2>1, SumEmpty
  <2>2. CASE m # {}
    <3>1. Chosen(m) \in S /\ Unchosen(m) \in G
      BY <1>1, <2>2, RestIsLess
    <3>2. IsFiniteSet(m)
      BY FS_Subset
    <3>3. SumFunctionOnSet(f, m) = f[Chosen(m)] + SumFunctionOnSet(f, Unchosen(m))
      BY <2>2, <3>2, SumFirst
    <3> QED BY <3>1, <3>3
  <2> QED BY <2>1, <2>2
<1> HIDE DEF G
<1>2. \A m \in SUBSET S : m \in G
  BY <1>1, SubsetInduction
<1>3. \A m \in SUBSET S : SumFunctionOnSet(f, m) \in Nat
  BY <1>2 DEF G
<1>4. ASSUME NEW x \in S PROVE f[x] <= SumFunctionOnSet(f, S)
  <2>0. \A y \in S : f[y] \in Int
    OBVIOUS
  <2>1. SumFunctionOnSet(f, S) = f[x] + SumFunctionOnSet(f, S \ {x})
    BY <2>0, SumAnyFirst
  <2> QED BY <1>3, <2>1
<1>5. ASSUME NEW T \in SUBSET S
      PROVE  SumFunctionOnSet(f, T) <= SumFunctionOnSet(f, S)
  <2>1. IsFiniteSet(T) /\ IsFiniteSet(S \ T)
    BY FS_Subset, FS_Difference
  <2>2. T \union (S \ T) = S /\ T \intersect (S \ T) = {}
    OBVIOUS
  <2>3. SumFunctionOnSet(f, T \union (S \ T))
          = SumFunctionOnSet(f, T) + SumFunctionOnSet(f, S \ T)
    <3>1. \A x \in T \union (S \ T) : f[x] \in Int
      OBVIOUS
    <3> QED BY <2>1, <2>2, <3>1, SumDisjoint
  <2>4. SumFunctionOnSet(f, T) \in Nat /\ SumFunctionOnSet(f, S \ T) \in Nat
    BY <1>3
  <2>5. SumFunctionOnSet(f, S) = SumFunctionOnSet(f, T) + SumFunctionOnSet(f, S \ T)
    BY <2>2, <2>3
  <2> QED BY <2>4, <2>5
<1> QED BY <1>3, <1>4, <1>5

(* Smaller natural numbers over fewer members have a smaller sum. *)
LEMMA SumShrinks ==
  ASSUME NEW f, NEW g, NEW S, IsFiniteSet(S), NEW T \in SUBSET S,
         \A x \in S : f[x] \in Nat, \A x \in T : g[x] \in Nat /\ g[x] <= f[x]
  PROVE  /\ SumFunctionOnSet(f, S) \in Nat
         /\ SumFunctionOnSet(g, T) \in Nat
         /\ SumFunctionOnSet(g, T) <= SumFunctionOnSet(f, S)
<1>1. IsFiniteSet(T)
  BY FS_Subset
<1>2. SumFunctionOnSet(f, S) \in Nat
  BY SumOfNaturals
<1>3. SumFunctionOnSet(f, T) \in Nat /\ SumFunctionOnSet(g, T) \in Nat
  <2>1. \A x \in T : f[x] \in Nat
    OBVIOUS
  <2> QED BY <1>1, <2>1, SumOfNaturals
<1>4. SumFunctionOnSet(f, T) <= SumFunctionOnSet(f, S)
  BY SumOfNaturals
<1>5. SumFunctionOnSet(g, T) <= SumFunctionOnSet(f, T)
  <2>1. \A x \in T : g[x] \in Int /\ f[x] \in Int /\ g[x] <= f[x]
    OBVIOUS
  <2> QED BY <1>1, <2>1, SumMonotone
<1> QED BY <1>2, <1>3, <1>4, <1>5

(* The sum of equal numbers. *)
LEMMA SumConstant ==
  ASSUME NEW f, NEW S, IsFiniteSet(S), NEW n \in Nat, \A x \in S : f[x] = n
  PROVE  SumFunctionOnSet(f, S) = n * Cardinality(S)
<1> DEFINE G == {s \in SUBSET S : SumFunctionOnSet(f, s) = n * Cardinality(s)}
<1>1. ASSUME NEW m \in SUBSET S, \A t \in SUBSET m : t # m => t \in G
      PROVE  m \in G
  <2>1. CASE m = {}
    <3>1. SumFunctionOnSet(f, m) = 0 /\ Cardinality(m) = 0
      BY <2>1, SumEmpty, FS_EmptySet
    <3> QED BY <3>1
  <2>2. CASE m # {}
    <3> DEFINE c == Chosen(m)
    <3>1. c \in m /\ m \ {c} \in G
      BY <1>1, <2>2, RestIsLess DEF Unchosen
    <3>2. IsFiniteSet(m) /\ IsFiniteSet(m \ {c})
      BY FS_Subset
    <3> HIDE DEF c
    <3>3. SumFunctionOnSet(f, m) = f[c] + SumFunctionOnSet(f, m \ {c})
      <4>1. \A x \in m : f[x] \in Int
        OBVIOUS
      <4> HIDE DEF G
      <4> QED BY <3>1, <3>2, <4>1, SumAnyFirst
    <3>4. Cardinality(m \ {c}) = Cardinality(m) - 1
      BY <3>1, <3>2, FS_RemoveElement
    <3>5. Cardinality(m) \in Nat /\ Cardinality(m \ {c}) \in Nat
      BY <3>2, FS_CardinalityType
    <3>6. \A k \in Int : n + n * (k - 1) = n * k
      OBVIOUS
    <3>7. SumFunctionOnSet(f, m) = n + n * (Cardinality(m) - 1)
      BY <3>1, <3>3, <3>4
    <3> QED BY <3>5, <3>6, <3>7
  <2> QED BY <2>1, <2>2
<1> HIDE DEF G
<1>2. \A m \in SUBSET S : m \in G
  BY <1>1, SubsetInduction
<1> QED BY <1>2 DEF G

(* The members of S in groups, one for each key in T, and together U. *)
Groups(group, key, S, T, U) ==
  /\ \A t \in T : /\ group[t] \in SUBSET S
                   /\ \A x \in S : x \in group[t] <=> key[x] = t
  /\ U \in SUBSET S
  /\ \A x \in S : x \in U <=> key[x] \in T

(* What is summed up by a key, and then over the keys, is the sum of what  *)
(* has one of the keys.                                                     *)
LEMMA SumByKey ==
  ASSUME NEW f, NEW key, NEW g, NEW S, IsFiniteSet(S), NEW T, IsFiniteSet(T),
         \A x \in S : f[x] \in Int,
         NEW group, NEW U, Groups(group, key, S, T, U),
         \A t \in T : g[t] = SumFunctionOnSet(f, group[t])
  PROVE  SumFunctionOnSet(g, T) = SumFunctionOnSet(f, U)
<1> DEFINE with(s) == {x \in S : key[x] \in s}
           G == {s \in SUBSET T : SumFunctionOnSet(g, s) = SumFunctionOnSet(f, with(s))}
<1>0. \A s : IsFiniteSet(with(s)) /\ SumFunctionOnSet(f, with(s)) \in Int
  <2>1. TAKE s
  <2>2. with(s) \in SUBSET S
    OBVIOUS
  <2>3. IsFiniteSet(with(s))
    BY <2>2, FS_Subset
  <2>4. \A x \in with(s) : f[x] \in Int
    OBVIOUS
  <2> HIDE DEF with
  <2> QED BY <2>3, <2>4, SumAnyFirst
<1>00. \A t \in T : g[t] = SumFunctionOnSet(f, with({t})) /\ g[t] \in Int
  <2>1. TAKE t \in T
  <2>2. with({t}) = group[t]
    BY DEF Groups
  <2>3. g[t] = SumFunctionOnSet(f, with({t}))
    BY <2>2
  <2> HIDE DEF with
  <2> QED BY <1>0, <2>3
<1>1. ASSUME NEW m \in SUBSET T, \A t \in SUBSET m : t # m => t \in G
      PROVE  m \in G
  <2>1. CASE m = {}
    <3>1. with(m) = {}
      BY <2>1
    <3> QED BY <2>1, <3>1, SumEmpty
  <2>2. CASE m # {}
    <3> DEFINE c == Chosen(m)
    <3>1. c \in m /\ m \ {c} \in G
      BY <1>1, <2>2, RestIsLess DEF Unchosen
    <3>2. IsFiniteSet(m)
      BY FS_Subset
    <3> HIDE DEF c
    <3>3. SumFunctionOnSet(g, m) = g[c] + SumFunctionOnSet(g, m \ {c})
      <4>1. \A t \in m : g[t] \in Int
        BY <1>00
      <4> HIDE DEF G, with
      <4> QED BY <3>1, <3>2, <4>1, SumAnyFirst
    <3>4. with(m) = with({c}) \union with(m \ {c}) /\ with({c}) \intersect with(m \ {c}) = {}
      BY <3>1
    <3>5. SumFunctionOnSet(f, with({c}) \union with(m \ {c}))
            = SumFunctionOnSet(f, with({c})) + SumFunctionOnSet(f, with(m \ {c}))
      <4> DEFINE a == with({c})
                 b == with(m \ {c})
      <4>1. \A x \in a \union b : f[x] \in Int
        OBVIOUS
      <4>2. IsFiniteSet(a) /\ IsFiniteSet(b) /\ a \intersect b = {}
        BY <1>0, <3>4
      <4> HIDE DEF G, with, a, b
      <4>3. SumFunctionOnSet(f, a \union b) = SumFunctionOnSet(f, a) + SumFunctionOnSet(f, b)
        BY ONLY <4>1, <4>2, SumDisjoint
      <4> QED BY <4>3 DEF a, b
    <3>6. SumFunctionOnSet(g, m \ {c}) = SumFunctionOnSet(f, with(m \ {c}))
      BY <3>1
    <3>7. g[c] = SumFunctionOnSet(f, with({c}))
      BY <1>00, <3>1
    <3> HIDE DEF with
    <3>8. SumFunctionOnSet(f, with(m)) = SumFunctionOnSet(g, m)
      BY <3>3, <3>4, <3>5, <3>6, <3>7
    <3> QED BY <3>8
  <2> QED BY <2>1, <2>2
<1> HIDE DEF G
<1>2. \A m \in SUBSET T : m \in G
  BY <1>1, SubsetInduction
<1>3. with(T) = U
  BY DEF Groups
<1> QED BY <1>2, <1>3 DEF G
=============================================================================
