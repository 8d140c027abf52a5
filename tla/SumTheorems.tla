---------------------------- MODULE SumTheorems ----------------------------
(***************************************************************************)
(* Facts about SumFunctionOnSet, the sum of the values of a function over a *)
(* finite set, which the ledgers of the panel are defined with. It is       *)
(* defined by recursion on subsets, along an arbitrary choice of the next   *)
(* element: the facts that matter (the order is of no importance, a sum is  *)
(* changed by what changes in it) are inductions. They are stated on sets   *)
(* of subsets rather than on predicates, and rest on the minimal element of *)
(* a well-founded order.                                                    *)
(***************************************************************************)
EXTENDS Integers, FiniteSets, Functions, FiniteSetTheorems, TLAPS

(***************************************************************************)
(* Induction over the subsets of a finite set, with a set for a predicate. *)
(***************************************************************************)
LEMMA SubsetInduction ==
  ASSUME NEW S, IsFiniteSet(S), NEW G,
         \A T \in SUBSET S : (\A U \in SUBSET T : U # T => U \in G) => T \in G
  PROVE  \A T \in SUBSET S : T \in G
<1>1. SUFFICES ASSUME (SUBSET S) \ G # {}  PROVE FALSE
  OBVIOUS
<1>2. IsWellFoundedOn(StrictSubsetOrdering(S), SUBSET S)
  BY FS_StrictSubsetOrderingWellFounded, FS_FiniteSubsetsOfFinite
<1>3. PICK T \in (SUBSET S) \ G :
        \A U \in (SUBSET S) \ G : <<U, T>> \notin StrictSubsetOrdering(S)
  <2>1. \A R, SS, Bad : IsWellFoundedOn(R, SS) /\ Bad \subseteq SS /\ Bad # {}
          => \E x \in Bad : \A y \in Bad : ~ (<<y, x>> \in R)
    BY WFMin
  <2> DEFINE Bad == (SUBSET S) \ G
  <2>2. Bad \subseteq SUBSET S /\ Bad # {}
    BY <1>1
  <2> HIDE DEF Bad
  <2>3. \E x \in Bad : \A y \in Bad : ~ (<<y, x>> \in StrictSubsetOrdering(S))
    BY <1>2, <2>1, <2>2
  <2> QED BY <2>3 DEF Bad
<1>4. \A U \in SUBSET T : U # T => U \in G
  BY <1>3 DEF StrictSubsetOrdering
<1> QED BY <1>3, <1>4

(***************************************************************************)
(* The recursion of the sum of f: g is its value on every subset of S.     *)
(***************************************************************************)
PickOf(s) == CHOOSE x \in s : TRUE
SumsTo(f, S, g) ==
  g = [s \in SUBSET S |-> IF s = {} THEN 0 ELSE f[PickOf(s)] + g[s \ {PickOf(s)}]]

LEMMA SumUnfold ==
  ASSUME NEW f, NEW S
  PROVE  SumFunctionOnSet(f, S) = (CHOOSE g : SumsTo(f, S, g))[S]
BY DEF SumFunctionOnSet, FoldFunctionOnSet, MapThenFoldSet, SumsTo, PickOf

(***************************************************************************)
(* Two solutions of the recursion agree where both are defined.            *)
(***************************************************************************)
LEMMA SumsAgree ==
  ASSUME NEW f, NEW S, IsFiniteSet(S), NEW T, NEW g, NEW h,
         SumsTo(f, S, g), SumsTo(f, T, h)
  PROVE  \A U \in SUBSET S : U \subseteq T => g[U] = h[U]
<1> DEFINE G == {U \in SUBSET S : U \subseteq T => g[U] = h[U]}
<1>1. \A U \in SUBSET S : (\A V \in SUBSET U : V # U => V \in G) => U \in G
  <2> SUFFICES ASSUME NEW U \in SUBSET S, U \subseteq T,
                      \A V \in SUBSET U : V # U => V \in G
               PROVE  g[U] = h[U]
    OBVIOUS
  <2>1. CASE U = {}
    BY <2>1 DEF SumsTo
  <2>2. CASE U # {}
    <3>1. PickOf(U) \in U
      BY <2>2 DEF PickOf
    <3>2. U \ {PickOf(U)} \in G
      BY <3>1
    <3>3. g[U] = f[PickOf(U)] + g[U \ {PickOf(U)}]
      BY <2>2 DEF SumsTo
    <3>4. h[U] = f[PickOf(U)] + h[U \ {PickOf(U)}]
      BY <2>2 DEF SumsTo
    <3> QED BY <3>2, <3>3, <3>4
  <2> QED BY <2>1, <2>2
<1>2. \A U \in SUBSET S : U \in G
  <2> HIDE DEF G
  <2> QED BY <1>1, SubsetInduction
<1> QED BY <1>2

(***************************************************************************)
(* There is a solution: glued together from those on the smaller subsets.  *)
(***************************************************************************)
LEMMA SumsExist ==
  ASSUME NEW f, NEW S, IsFiniteSet(S)
  PROVE  \E g : SumsTo(f, S, g)
<1> DEFINE G == {T \in SUBSET S : \E g : SumsTo(f, T, g)}
<1>1. \A T \in SUBSET S : (\A U \in SUBSET T : U # T => U \in G) => T \in G
  <2> SUFFICES ASSUME NEW T \in SUBSET S, \A U \in SUBSET T : U # T => U \in G
               PROVE  \E g : SumsTo(f, T, g)
    OBVIOUS
  <2> DEFINE sol(U) == CHOOSE g : SumsTo(f, U, g)
             at(U) == sol(U)[U]
             h == [U \in SUBSET T |->
                     IF U = {} THEN 0 ELSE f[PickOf(U)] + at(U \ {PickOf(U)})]
  <2>1. \A U \in SUBSET T : U # T => SumsTo(f, U, sol(U))
    OBVIOUS
  <2>2. \A U \in SUBSET T : U # {} => PickOf(U) \in U
    BY DEF PickOf
  <2>3. ASSUME NEW U \in SUBSET T, U # T  PROVE h[U] = at(U)
    <3>1. CASE U = {}
      <4>1. sol(U)[U] = 0
        BY <2>1, <3>1, <2>3 DEF SumsTo
      <4> QED BY <4>1, <3>1
    <3>2. CASE U # {}
      <4> DEFINE V == U \ {PickOf(U)}
      <4>1. sol(U)[U] = f[PickOf(U)] + sol(U)[V]
        BY <2>1, <2>3, <3>2 DEF SumsTo
      <4>2. V \in SUBSET U /\ V \subseteq V /\ V # T /\ V \in SUBSET T
        BY <2>2, <2>3, <3>2
      <4>3. IsFiniteSet(U)
        BY FS_Subset
      <4>4. sol(U)[V] = sol(V)[V]
        <5>1. SumsTo(f, U, sol(U)) /\ SumsTo(f, V, sol(V))
          BY <2>1, <2>3, <4>2
        <5> HIDE DEF sol, V, at, h, G
        <5>2. \A W \in SUBSET U : W \subseteq V => sol(U)[W] = sol(V)[W]
          BY <5>1, <4>3, SumsAgree
        <5> QED BY <5>2, <4>2
      <4> QED BY <4>1, <4>4, <3>2
    <3> QED BY <3>1, <3>2
  <2>4. SumsTo(f, T, h)
    <3>1. \A U \in SUBSET T : U # {} =>
            U \ {PickOf(U)} \in SUBSET T /\ U \ {PickOf(U)} # T
      BY <2>2
    <3>2. \A U \in SUBSET T : U # {} => at(U \ {PickOf(U)}) = h[U \ {PickOf(U)}]
      BY <2>3, <3>1
    <3> HIDE DEF at
    <3> DEFINE k == [U \in SUBSET T |->
                       IF U = {} THEN 0 ELSE f[PickOf(U)] + h[U \ {PickOf(U)}]]
    <3>3. \A U \in SUBSET T : h[U] = k[U]
      BY <3>2
    <3>4. h = k
      BY <3>3
    <3> QED BY <3>4 DEF SumsTo
  <2> QED BY <2>4
<1>2. \A T \in SUBSET S : T \in G
  <2> HIDE DEF G
  <2> QED BY <1>1, SubsetInduction
<1> QED BY <1>2

(***************************************************************************)
(* The sum over no elements, and over some: the picked one and the others. *)
(***************************************************************************)
LEMMA SumEmpty ==
  ASSUME NEW f
  PROVE  SumFunctionOnSet(f, {}) = 0
<1>1. \E g : SumsTo(f, {}, g)
  BY SumsExist, FS_EmptySet
<1>2. (CHOOSE g : SumsTo(f, {}, g))[{}] = 0
  BY <1>1 DEF SumsTo
<1> QED BY <1>2, SumUnfold

LEMMA SumPicked ==
  ASSUME NEW f, NEW S, IsFiniteSet(S), S # {}
  PROVE  /\ PickOf(S) \in S
         /\ SumFunctionOnSet(f, S) =
              f[PickOf(S)] + SumFunctionOnSet(f, S \ {PickOf(S)})
<1> DEFINE T == S \ {PickOf(S)}
           g == CHOOSE gg : SumsTo(f, S, gg)
           h == CHOOSE gg : SumsTo(f, T, gg)
<1>1. PickOf(S) \in S
  BY DEF PickOf
<1>2. IsFiniteSet(T) /\ T \in SUBSET S /\ T \subseteq T
  BY FS_Subset
<1>3. SumsTo(f, S, g)
  BY SumsExist
<1>4. SumsTo(f, T, h)
  BY SumsExist, <1>2
<1>5. g[S] = f[PickOf(S)] + g[T]
  BY <1>3 DEF SumsTo
<1>6. g[T] = h[T]
  <2> HIDE DEF g, h, T
  <2>1. \A U \in SUBSET S : U \subseteq T => g[U] = h[U]
    BY <1>3, <1>4, SumsAgree
  <2> QED BY <1>2, <2>1
<1>7. SumFunctionOnSet(f, S) = g[S] /\ SumFunctionOnSet(f, T) = h[T]
  BY SumUnfold
<1> QED BY <1>1, <1>5, <1>6, <1>7

(***************************************************************************)
(* A sum of integers is one, and of naturals too.                          *)
(***************************************************************************)
LEMMA SumInt ==
  ASSUME NEW S, IsFiniteSet(S), NEW f, \A x \in S : f[x] \in Int
  PROVE  SumFunctionOnSet(f, S) \in Int
<1> DEFINE G == {T \in SUBSET S : SumFunctionOnSet(f, T) \in Int}
<1>1. ASSUME NEW T \in SUBSET S, \A U \in SUBSET T : U # T => U \in G
      PROVE  T \in G
  <2>1. CASE T = {}
    BY <2>1, SumEmpty
  <2>2. CASE T # {}
    <3>1. IsFiniteSet(T)
      BY FS_Subset
    <3>2. /\ PickOf(T) \in T
          /\ SumFunctionOnSet(f, T) =
               f[PickOf(T)] + SumFunctionOnSet(f, T \ {PickOf(T)})
      BY <2>2, <3>1, SumPicked
    <3>3. SumFunctionOnSet(f, T \ {PickOf(T)}) \in Int
      BY <1>1, <3>2
    <3> QED BY <3>2, <3>3
  <2> QED BY <2>1, <2>2
<1>2. \A T \in SUBSET S : T \in G
  <2> HIDE DEF G
  <2> QED BY <1>1, SubsetInduction
<1> QED BY <1>2

LEMMA SumNat ==
  ASSUME NEW S, IsFiniteSet(S), NEW f, \A x \in S : f[x] \in Nat
  PROVE  SumFunctionOnSet(f, S) \in Nat
<1> DEFINE G == {T \in SUBSET S : SumFunctionOnSet(f, T) \in Nat}
<1>1. ASSUME NEW T \in SUBSET S, \A U \in SUBSET T : U # T => U \in G
      PROVE  T \in G
  <2>1. CASE T = {}
    BY <2>1, SumEmpty
  <2>2. CASE T # {}
    <3>1. IsFiniteSet(T)
      BY FS_Subset
    <3>2. /\ PickOf(T) \in T
          /\ SumFunctionOnSet(f, T) =
               f[PickOf(T)] + SumFunctionOnSet(f, T \ {PickOf(T)})
      BY <2>2, <3>1, SumPicked
    <3>3. SumFunctionOnSet(f, T \ {PickOf(T)}) \in Nat
      BY <1>1, <3>2
    <3> QED BY <3>2, <3>3
  <2> QED BY <2>1, <2>2
<1>2. \A T \in SUBSET S : T \in G
  <2> HIDE DEF G
  <2> QED BY <1>1, SubsetInduction
<1> QED BY <1>2

(***************************************************************************)
(* Any element may be taken out first.                                     *)
(***************************************************************************)
LEMMA SumTake ==
  ASSUME NEW S, IsFiniteSet(S), NEW f, \A x \in S : f[x] \in Int, NEW y \in S
  PROVE  SumFunctionOnSet(f, S) = f[y] + SumFunctionOnSet(f, S \ {y})
<1> DEFINE Sum(T) == SumFunctionOnSet(f, T)
           G == {T \in SUBSET S : \A z \in T : Sum(T) = f[z] + Sum(T \ {z})}
<1>1. ASSUME NEW T \in SUBSET S, \A U \in SUBSET T : U # T => U \in G
      PROVE  T \in G
  <2> SUFFICES ASSUME NEW z \in T  PROVE Sum(T) = f[z] + Sum(T \ {z})
    OBVIOUS
  <2> DEFINE p == PickOf(T)
  <2>1. p \in T /\ Sum(T) = f[p] + Sum(T \ {p})
    BY SumPicked, FS_Subset
  <2>2. CASE z = p
    BY <2>1, <2>2
  <2>3. CASE z # p
    <3>1. T \ {p} \in G /\ T \ {z} \in G
      BY <1>1, <2>1
    <3>2. Sum(T \ {p}) = f[z] + Sum((T \ {p}) \ {z})
      BY <3>1, <2>3
    <3>3. Sum(T \ {z}) = f[p] + Sum((T \ {z}) \ {p})
      BY <3>1, <2>1, <2>3
    <3>4. (T \ {p}) \ {z} = (T \ {z}) \ {p}
      OBVIOUS
    <3>5. Sum((T \ {z}) \ {p}) \in Int /\ f[p] \in Int /\ f[z] \in Int
      <4>1. (T \ {z}) \ {p} \in SUBSET S
        OBVIOUS
      <4>2. IsFiniteSet((T \ {z}) \ {p})
        BY <4>1, FS_Subset
      <4> QED BY <2>1, <4>1, <4>2, SumInt
    <3>6. Sum(T \ {p}) = f[z] + Sum((T \ {z}) \ {p})
      BY <3>2, <3>4
    <3>7. Sum(T) = f[p] + Sum(T \ {p})
      BY <2>1
    <3> HIDE DEF Sum, p
    <3> QED BY <3>3, <3>5, <3>6, <3>7
  <2> QED BY <2>2, <2>3
<1>2. \A T \in SUBSET S : T \in G
  <2> HIDE DEF G
  <2> QED BY <1>1, SubsetInduction
<1> QED BY <1>2

LEMMA SumAddOne ==
  ASSUME NEW S, IsFiniteSet(S), NEW f, NEW y, y \notin S,
         \A x \in S \cup {y} : f[x] \in Int
  PROVE  SumFunctionOnSet(f, S \cup {y}) = f[y] + SumFunctionOnSet(f, S)
<1>1. IsFiniteSet(S \cup {y}) /\ y \in S \cup {y}
  BY FS_AddElement
<1>2. SumFunctionOnSet(f, S \cup {y})
        = f[y] + SumFunctionOnSet(f, (S \cup {y}) \ {y})
  BY <1>1, SumTake
<1>3. (S \cup {y}) \ {y} = S
  OBVIOUS
<1> QED BY <1>2, <1>3

(***************************************************************************)
(* Addition, function by function; sums over S of h, f and g.              *)
(***************************************************************************)
LEMMA SumPlus ==
  ASSUME NEW S, IsFiniteSet(S), NEW f, NEW g, NEW h,
         \A x \in S : f[x] \in Int /\ g[x] \in Int /\ h[x] = f[x] + g[x]
  PROVE  SumFunctionOnSet(h, S) = SumFunctionOnSet(f, S) + SumFunctionOnSet(g, S)
<1> DEFINE G == {T \in SUBSET S : SumFunctionOnSet(h, T) =
                   SumFunctionOnSet(f, T) + SumFunctionOnSet(g, T)}
<1>1. ASSUME NEW T \in SUBSET S, \A U \in SUBSET T : U # T => U \in G
      PROVE  T \in G
  <2>1. CASE T = {}
    BY <2>1, SumEmpty
  <2>2. CASE T # {}
    <3> DEFINE p == PickOf(T)
               U == T \ {p}
    <3>1. IsFiniteSet(T) /\ IsFiniteSet(U)
      BY FS_Subset
    <3>2. /\ p \in T
          /\ SumFunctionOnSet(f, T) = f[p] + SumFunctionOnSet(f, U)
          /\ SumFunctionOnSet(g, T) = g[p] + SumFunctionOnSet(g, U)
          /\ SumFunctionOnSet(h, T) = h[p] + SumFunctionOnSet(h, U)
      BY <2>2, <3>1, SumPicked
    <3>3. SumFunctionOnSet(h, U) = SumFunctionOnSet(f, U) + SumFunctionOnSet(g, U)
      BY <1>1, <3>2
    <3>4. SumFunctionOnSet(f, U) \in Int /\ SumFunctionOnSet(g, U) \in Int
      BY <3>1, SumInt
    <3>5. f[p] \in Int /\ g[p] \in Int /\ h[p] = f[p] + g[p]
      BY <3>2
    <3> HIDE DEF p, U
    <3>6. SumFunctionOnSet(h, T) = SumFunctionOnSet(f, T) + SumFunctionOnSet(g, T)
      BY <3>2, <3>3, <3>4, <3>5
    <3> QED BY <3>6
  <2> QED BY <2>1, <2>2
<1>2. \A T \in SUBSET S : T \in G
  <2> HIDE DEF G
  <2> QED BY <1>1, SubsetInduction
<1> QED BY <1>2

(***************************************************************************)
(* Only the values on the set count, and zeroes do not.                    *)
(***************************************************************************)
LEMMA SumDrop ==
  ASSUME NEW S, IsFiniteSet(S), NEW T \in SUBSET S, NEW f, NEW g,
         \A x \in T : f[x] \in Int /\ g[x] = f[x],
         \A x \in S \ T : f[x] = 0
  PROVE  SumFunctionOnSet(f, S) = SumFunctionOnSet(g, T)
<1> DEFINE G == {U \in SUBSET S :
                   SumFunctionOnSet(f, U) = SumFunctionOnSet(g, U \cap T)}
<1>1. ASSUME NEW U \in SUBSET S, \A V \in SUBSET U : V # U => V \in G
      PROVE  U \in G
  <2>1. CASE U = {}
    <3>1. U \cap T = {}
      BY <2>1
    <3> QED BY <2>1, <3>1, SumEmpty
  <2>2. CASE U # {}
    <3> DEFINE p == PickOf(U)
               V == U \ {p}
    <3>1. IsFiniteSet(U) /\ IsFiniteSet(U \cap T)
      BY FS_Subset
    <3>2. p \in U /\ SumFunctionOnSet(f, U) = f[p] + SumFunctionOnSet(f, V)
      BY <2>2, <3>1, SumPicked
    <3>3. SumFunctionOnSet(f, V) = SumFunctionOnSet(g, V \cap T)
      BY <1>1, <3>2
    <3>4. CASE p \in T
      <4>1. SumFunctionOnSet(g, U \cap T) =
              g[p] + SumFunctionOnSet(g, (U \cap T) \ {p})
        <5>1. \A x \in U \cap T : g[x] \in Int
          OBVIOUS
        <5>2. p \in U \cap T
          BY <3>2, <3>4
        <5> HIDE DEF p
        <5> QED BY <3>1, <5>1, <5>2, SumTake
      <4>2. (U \cap T) \ {p} = V \cap T
        OBVIOUS
      <4>3. g[p] = f[p]
        BY <3>4
      <4> QED BY <3>2, <3>3, <4>1, <4>2, <4>3
    <3>5. CASE p \notin T
      <4>1. U \cap T = V \cap T
        BY <3>5
      <4>2. f[p] = 0
        BY <3>2, <3>5
      <4>3. SumFunctionOnSet(f, V) \in Int
        <5>1. IsFiniteSet(V) /\ \A x \in V : f[x] \in Int
          BY FS_Subset
        <5> QED BY <5>1, SumInt
      <4>4. SumFunctionOnSet(f, U) = SumFunctionOnSet(f, V)
        BY <3>2, <4>2, <4>3
      <4> QED BY <3>3, <4>1, <4>4
    <3> QED BY <3>4, <3>5
  <2> QED BY <2>1, <2>2
<1>2. \A U \in SUBSET S : U \in G
  <2> HIDE DEF G
  <2> QED BY <1>1, SubsetInduction
<1>3. S \in G /\ S \cap T = T
  BY <1>2
<1> QED BY <1>3

LEMMA SumSame ==
  ASSUME NEW S, IsFiniteSet(S), NEW f, NEW g,
         \A x \in S : f[x] \in Int /\ g[x] = f[x]
  PROVE  SumFunctionOnSet(f, S) = SumFunctionOnSet(g, S)
BY SumDrop

LEMMA SumZero ==
  ASSUME NEW S, IsFiniteSet(S), NEW f, \A x \in S : f[x] = 0
  PROVE  SumFunctionOnSet(f, S) = 0
<1>1. SumFunctionOnSet(f, S) = SumFunctionOnSet(f, {})
  BY SumDrop
<1> QED BY <1>1, SumEmpty

\* A sum of naturals is at least each of them.
LEMMA SumBound ==
  ASSUME NEW S, IsFiniteSet(S), NEW f, \A x \in S : f[x] \in Nat, NEW y \in S
  PROVE  f[y] <= SumFunctionOnSet(f, S)
<1>1. SumFunctionOnSet(f, S) = f[y] + SumFunctionOnSet(f, S \ {y})
  BY SumTake
<1>2. IsFiniteSet(S \ {y}) /\ \A x \in S \ {y} : f[x] \in Nat
  BY FS_RemoveElement
<1>3. SumFunctionOnSet(f, S \ {y}) \in Nat
  BY <1>2, SumNat
<1> QED BY <1>1, <1>3

\* What changes at one element changes the sum.
LEMMA SumChange ==
  ASSUME NEW S, IsFiniteSet(S), NEW f, NEW g, NEW y \in S,
         \A x \in S : f[x] \in Int /\ g[x] \in Int,
         \A x \in S \ {y} : g[x] = f[x]
  PROVE  SumFunctionOnSet(g, S) = SumFunctionOnSet(f, S) + g[y] - f[y]
<1>1. /\ SumFunctionOnSet(f, S) = f[y] + SumFunctionOnSet(f, S \ {y})
      /\ SumFunctionOnSet(g, S) = g[y] + SumFunctionOnSet(g, S \ {y})
  BY SumTake
<1>2. IsFiniteSet(S \ {y}) /\ \A x \in S \ {y} : f[x] \in Int /\ g[x] = f[x]
  BY FS_RemoveElement
<1>3. /\ SumFunctionOnSet(f, S \ {y}) = SumFunctionOnSet(g, S \ {y})
      /\ SumFunctionOnSet(f, S \ {y}) \in Int
  BY <1>2, SumSame, SumInt
<1> QED BY <1>1, <1>3

\* A subset of natural numbers sums up to no more.
LEMMA SumMono ==
  ASSUME NEW S, IsFiniteSet(S), NEW T \in SUBSET S, NEW f, NEW g,
         \A x \in S : f[x] \in Nat, \A x \in T : g[x] = f[x]
  PROVE  SumFunctionOnSet(g, T) <= SumFunctionOnSet(f, S)
<1> DEFINE h == [x \in S |-> IF x \in T THEN f[x] ELSE 0]
           r == [x \in S |-> IF x \in T THEN 0 ELSE f[x]]
<1>1. \A x \in S : h[x] \in Int /\ r[x] \in Nat /\ r[x] \in Int /\ f[x] = h[x] + r[x]
  OBVIOUS
<1>2. \A x \in T : h[x] \in Int /\ g[x] = h[x]
  OBVIOUS
<1>3. \A x \in S \ T : h[x] = 0
  OBVIOUS
<1> HIDE DEF h, r
<1>4. SumFunctionOnSet(f, S) = SumFunctionOnSet(h, S) + SumFunctionOnSet(r, S)
  BY <1>1, SumPlus
<1>5. SumFunctionOnSet(h, S) = SumFunctionOnSet(g, T)
  BY <1>2, <1>3, SumDrop
<1>6. SumFunctionOnSet(r, S) \in Nat /\ SumFunctionOnSet(h, S) \in Int
  BY <1>1, SumNat, SumInt
<1> QED BY <1>4, <1>5, <1>6

\* What grows at no element less grows in sum.
LEMMA SumGrows ==
  ASSUME NEW S, IsFiniteSet(S), NEW f, NEW g,
         \A x \in S : f[x] \in Nat /\ g[x] \in Nat /\ f[x] <= g[x]
  PROVE  SumFunctionOnSet(f, S) <= SumFunctionOnSet(g, S)
<1> DEFINE d == [x \in S |-> g[x] - f[x]]
<1>1. \A x \in S : f[x] \in Int /\ d[x] \in Nat /\ d[x] \in Int /\ g[x] = f[x] + d[x]
  OBVIOUS
<1> HIDE DEF d
<1>2. SumFunctionOnSet(g, S) = SumFunctionOnSet(f, S) + SumFunctionOnSet(d, S)
  BY <1>1, SumPlus
<1>3. SumFunctionOnSet(d, S) \in Nat /\ SumFunctionOnSet(f, S) \in Int
  BY <1>1, SumNat, SumInt
<1> QED BY <1>2, <1>3

\* What moves from one element to another leaves the sum.
LEMMA SumMove ==
  ASSUME NEW S, IsFiniteSet(S), NEW f, NEW g, NEW y \in S, NEW z \in S, y # z,
         \A x \in S : f[x] \in Int /\ g[x] \in Int,
         \A x \in S \ {y, z} : g[x] = f[x],
         g[y] + g[z] = f[y] + f[z]
  PROVE  SumFunctionOnSet(g, S) = SumFunctionOnSet(f, S)
<1>0. PICK h : h = [x \in S |-> IF x = y THEN g[x] ELSE f[x]]
  OBVIOUS
<1>1. /\ \A x \in S : f[x] \in Int /\ h[x] \in Int
      /\ \A x \in S \ {y} : h[x] = f[x]
      /\ \A x \in S \ {z} : g[x] = h[x]
      /\ h[y] = g[y] /\ h[z] = f[z]
      /\ \A x \in S : h[x] \in Int /\ g[x] \in Int
  BY <1>0
<1>2. SumFunctionOnSet(h, S) = SumFunctionOnSet(f, S) + h[y] - f[y]
  <2>1. /\ \A x \in S : f[x] \in Int /\ h[x] \in Int
        /\ \A x \in S \ {y} : h[x] = f[x]
    BY <1>1
  <2> QED BY ONLY <2>1, IsFiniteSet(S), y \in S, SumChange
<1>3. SumFunctionOnSet(g, S) = SumFunctionOnSet(h, S) + g[z] - h[z]
  <2>1. /\ \A x \in S : h[x] \in Int /\ g[x] \in Int
        /\ \A x \in S \ {z} : g[x] = h[x]
    BY <1>1
  <2> QED BY <2>1, SumChange
<1>4. SumFunctionOnSet(f, S) \in Int /\ SumFunctionOnSet(h, S) \in Int
  BY <1>1, SumInt
<1> QED BY <1>1, <1>2, <1>3, <1>4

(***************************************************************************)
(* A sum is the same over elements by other names.                         *)
(***************************************************************************)
LEMMA SumRenamed ==
  ASSUME NEW T, IsFiniteSet(T), NEW b, NEW f, NEW g,
         \A x, y \in T : x # y => b[x] # b[y],
         \A x \in T : f[b[x]] \in Int /\ g[x] = f[b[x]]
  PROVE  /\ IsFiniteSet({b[x] : x \in T})
         /\ SumFunctionOnSet(g, T) = SumFunctionOnSet(f, {b[x] : x \in T})
<1> DEFINE Image(U) == {b[x] : x \in U}
           G == {U \in SUBSET T : /\ IsFiniteSet(Image(U))
                                 /\ SumFunctionOnSet(g, U) = SumFunctionOnSet(f, Image(U))}
<1>1. ASSUME NEW U \in SUBSET T, \A V \in SUBSET U : V # U => V \in G
      PROVE  U \in G
  <2>1. CASE U = {}
    <3>1. Image(U) = {}
      BY <2>1
    <3> QED BY <2>1, <3>1, SumEmpty, FS_EmptySet
  <2>2. CASE U # {}
    <3>1. PICK z \in U : TRUE
      BY <2>2
    <3>2. PICK V : V = U \ {z}
      OBVIOUS
    <3>3. PICK I : I = Image(V)
      OBVIOUS
    <3>4. IsFiniteSet(I) /\ SumFunctionOnSet(g, V) = SumFunctionOnSet(f, I)
      BY <1>1, <3>1, <3>2, <3>3
    <3>5. SumFunctionOnSet(g, U) = g[z] + SumFunctionOnSet(g, V)
      <4>1. IsFiniteSet(U) /\ \A x \in U : g[x] \in Int
        BY FS_Subset
      <4> QED BY <3>1, <3>2, <4>1, SumTake
    <3>6. Image(U) = I \cup {b[z]}
      BY <3>1, <3>2, <3>3
    <3>7. IsFiniteSet(I \cup {b[z]})
      BY <3>4, FS_AddElement
    <3>8. SumFunctionOnSet(f, I \cup {b[z]}) = f[b[z]] + SumFunctionOnSet(f, I)
      <4>1. b[z] \notin I
        BY <3>1, <3>2, <3>3
      <4>2. \A x \in I \cup {b[z]} : f[x] \in Int
        BY <3>1, <3>2, <3>3
      <4> QED BY <3>4, <4>1, <4>2, SumAddOne
    <3>9. SumFunctionOnSet(g, U) = SumFunctionOnSet(f, Image(U))
      BY <3>1, <3>4, <3>5, <3>6, <3>8
    <3> QED BY <3>6, <3>7, <3>9
  <2> QED BY <2>1, <2>2
<1>2. \A U \in SUBSET T : U \in G
  <2> HIDE DEF G
  <2> QED BY <1>1, SubsetInduction
<1>3. T \in G
  BY <1>2
<1> QED BY <1>3
=============================================================================
