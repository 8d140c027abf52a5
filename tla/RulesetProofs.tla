---------------------------- MODULE RulesetProofs ----------------------------
(***************************************************************************)
(* Proofs about how a node's ruleset comes about and reaches its agent.    *)
(*                                                                         *)
(* RulePlacement: its type, and that ports stay exclusive, chains agree    *)
(* with their rules, agents forward what the database holds and revoked    *)
(* nodes are left, for any nodes, users, ports and requests.               *)
(*                                                                         *)
(* NodeSync: its type, and that a dispatch counted as a success was        *)
(* applied by the agent, for any number of connections, overlapping        *)
(* dispatches, rulesets, queue capacities and bounds, and with every event *)
(* that Events can name. When dispatches do not overlap and no opening of  *)
(* a connection is slow, a served node holds the wanted ruleset or is      *)
(* flagged once nothing is under way.                                      *)
(***************************************************************************)
EXTENDS RulePlacement, NodeSync, SumTheorems

(***************************************************************************)
(* Sequences: the members at some indices, and the concatenation of many.  *)
(***************************************************************************)
LEMMA FirstPart ==
  ASSUME NEW S, NEW t \in Seq(S), NEW u \in Seq(S), NEW k \in DOMAIN t
  PROVE  k \in DOMAIN (t \o u) /\ (t \o u)[k] = t[k]
OBVIOUS

LEMMA UpTo ==
  ASSUME NEW N \in Nat, NEW G, 0 \in G, \A n \in 0..(N - 1) : n \in G => n + 1 \in G
  PROVE  \A n \in 0..N : n \in G
<1> DEFINE H == {T \in SUBSET (1..N) : \A n \in 0..N : T = 1..n => n \in G}
<1>1. \A T \in SUBSET (1..N) : (\A U \in SUBSET T : U # T => U \in H) => T \in H
  <2> SUFFICES ASSUME NEW T \in SUBSET (1..N), \A U \in SUBSET T : U # T => U \in H,
                      NEW n \in 0..N, T = 1..n, n # 0
               PROVE  n \in G
    OBVIOUS
  <2>1. n - 1 \in 0..N /\ n \notin 1..(n - 1) /\ n \in T /\ 1..(n - 1) \subseteq T
    OBVIOUS
  <2>2. 1..(n - 1) \in H
    BY <2>1
  <2>3. n - 1 \in G
    BY <2>1, <2>2
  <2> QED BY <2>1, <2>3
<1>2. \A T \in SUBSET (1..N) : T \in H
  <2>1. IsFiniteSet(1..N)
    BY FS_Interval
  <2> HIDE DEF H
  <2> QED BY <1>1, <2>1, SubsetInduction
<1>3. ASSUME NEW n \in 0..N  PROVE 1..n \in SUBSET (1..N)
  OBVIOUS
<1> QED BY <1>2, <1>3

Rank(I, i) == Cardinality({j \in I : j <= i})

LEMMA Ranks ==
  ASSUME NEW n \in Nat, NEW I \in SUBSET (1..n)
  PROVE  /\ Cardinality(I) \in Nat
         /\ \A i \in I : Rank(I, i) \in 1..Cardinality(I)
         /\ \A i, j \in I : Rank(I, i) = Rank(I, j) => i = j
         /\ \A k \in 1..Cardinality(I) : \E i \in I : Rank(I, i) = k
<1>1. IsFiniteSet(I) /\ Cardinality(I) \in Nat
  <2>1. IsFiniteSet(1..n)
    BY FS_Interval
  <2> QED BY <2>1, FS_Subset, FS_CardinalityType
<1>2. ASSUME NEW i \in I  PROVE Rank(I, i) \in 1..Cardinality(I)
  <2> DEFINE T == {j \in I : j <= i}
  <2>1. IsFiniteSet(T) /\ Cardinality(T) <= Cardinality(I) /\ Cardinality(T) \in Nat
    BY <1>1, FS_Subset, FS_CardinalityType
  <2>2. Cardinality(T) # 0
    BY <2>1, FS_EmptySet
  <2> QED BY <1>1, <2>1, <2>2 DEF Rank
<1>3. ASSUME NEW i \in I, NEW j \in I, i < j  PROVE Rank(I, i) # Rank(I, j)
  <2> DEFINE T == {k \in I : k <= i}
             U == {k \in I : k <= j}
  <2>1. T \subseteq U /\ j \in U /\ j \notin T
    <3>1. \A k \in I : k \in Int
      OBVIOUS
    <3>2. i \in Int /\ j \in Int
      BY <3>1
    <3>3. ASSUME NEW k \in T  PROVE k \in U
      <4>1. k \in I /\ k <= i /\ k \in Int
        BY <3>1
      <4> QED BY <1>3, <3>2, <4>1
    <3>4. j \in U /\ j \notin T
      BY <1>3, <3>2
    <3> QED BY <3>3, <3>4
  <2>2. IsFiniteSet(U)
    BY <1>1, FS_Subset
  <2>3. Cardinality(T) # Cardinality(U)
    <3> HIDE DEF T, U
    <3> QED BY <2>1, <2>2, FS_Subset
  <2> QED BY <2>3 DEF Rank
<1>4. ASSUME NEW i \in I, NEW j \in I, Rank(I, i) = Rank(I, j)  PROVE i = j
  BY <1>3, <1>4
<1>5. \A k \in 1..Cardinality(I) : \E i \in I : Rank(I, i) = k
  <2> DEFINE K == 1..Cardinality(I)
             f == [i \in I |-> Rank(I, i)]
  <2>1. f \in Injection(I, K)
    BY <1>2, <1>4 DEF Injection, IsInjective
  <2>2. IsFiniteSet(K) /\ Cardinality(K) = Cardinality(I)
    BY <1>1, FS_Interval
  <2>3. f \in Surjection(I, K)
    <3> HIDE DEF f, K
    <3> QED BY <2>1, <2>2, FS_Injection
  <2> QED BY <2>3 DEF Surjection
<1> QED BY <1>1, <1>2, <1>4, <1>5

LEMMA AtIndicesMembers ==
  ASSUME NEW S, NEW s \in Seq(S), NEW I \in SUBSET DOMAIN s
  PROVE  /\ AtIndices(s, I) \in Seq(S)
         /\ \A k \in DOMAIN AtIndices(s, I) : \E i \in I : AtIndices(s, I)[k] = s[i]
         /\ \A i \in I : \E k \in DOMAIN AtIndices(s, I) : AtIndices(s, I)[k] = s[i]
<1> DEFINE at(k) == CHOOSE i \in I : Rank(I, i) = k
<1>1. DOMAIN s = 1..Len(s) /\ Len(s) \in Nat /\ \A i \in DOMAIN s : s[i] \in S
  OBVIOUS
<1>2. /\ Cardinality(I) \in Nat
      /\ \A i \in I : Rank(I, i) \in 1..Cardinality(I)
      /\ \A i, j \in I : Rank(I, i) = Rank(I, j) => i = j
      /\ \A k \in 1..Cardinality(I) : \E i \in I : Rank(I, i) = k
  BY <1>1, Ranks
<1>3. \A k \in 1..Cardinality(I) : at(k) \in I /\ Rank(I, at(k)) = k
  BY <1>2
<1>4. \A i \in I : at(Rank(I, i)) = i
  BY <1>2, <1>3
<1>5. AtIndices(s, I) = [k \in 1..Cardinality(I) |-> s[at(k)]]
  BY DEF AtIndices, Rank
<1> HIDE DEF at
<1>6. AtIndices(s, I) \in Seq(S)
  BY <1>1, <1>2, <1>3, <1>5
<1> QED BY <1>2, <1>3, <1>4, <1>5, <1>6

FlattensTo(seqs, m, f) ==
  f = [i \in 1..m |-> IF i = 1 THEN seqs[i] ELSE f[i - 1] \o seqs[i]]

LEMMA FlattensAt ==
  ASSUME NEW seqs, NEW m, NEW f, FlattensTo(seqs, m, f), NEW i \in 1..m
  PROVE  f[i] = IF i = 1 THEN seqs[i] ELSE f[i - 1] \o seqs[i]
<1> DEFINE g == [k \in 1..m |-> IF k = 1 THEN seqs[k] ELSE f[k - 1] \o seqs[k]]
<1>1. f = g
  BY DEF FlattensTo
<1>2. g[i] = IF i = 1 THEN seqs[i] ELSE f[i - 1] \o seqs[i]
  OBVIOUS
<1> HIDE DEF g
<1> QED BY <1>1, <1>2

LEMMA FlattensExist ==
  ASSUME NEW N \in Nat, NEW seqs
  PROVE  \E f : FlattensTo(seqs, N, f)
<1> DEFINE G == {m \in 0..N : \E f : FlattensTo(seqs, m, f)}
<1>1. 0 \in G
  <2>1. FlattensTo(seqs, 0, [i \in 1..0 |-> 0])
    BY DEF FlattensTo
  <2> QED BY <2>1
<1>2. ASSUME NEW m \in 0..(N - 1), m \in G  PROVE m + 1 \in G
  <2>1. PICK f : FlattensTo(seqs, m, f)
    BY <1>2
  <2> DEFINE h == [i \in 1..(m + 1) |-> IF i = 1 THEN seqs[i] ELSE f[i - 1] \o seqs[i]]
  <2>2. \A i \in 1..m : h[i] = f[i]
    BY <2>1, FlattensAt
  <2>3. \A i \in 1..(m + 1) : i # 1 => i - 1 \in 1..m
    OBVIOUS
  <2>4. \A i \in 1..(m + 1) : h[i] = IF i = 1 THEN seqs[i] ELSE h[i - 1] \o seqs[i]
    BY <2>2, <2>3
  <2>5. h = [i \in 1..(m + 1) |-> IF i = 1 THEN seqs[i] ELSE h[i - 1] \o seqs[i]]
    BY <2>4
  <2>6. FlattensTo(seqs, m + 1, h)
    <3> HIDE DEF h
    <3> QED BY <2>5 DEF FlattensTo
  <2> QED BY <2>6
<1>3. \A m \in 0..N : m \in G
  <2> HIDE DEF G
  <2> QED BY <1>1, <1>2, UpTo
<1> QED BY <1>3

LEMMA FlattenMembers ==
  ASSUME NEW S, NEW seqs \in Seq(Seq(S))
  PROVE  /\ FlattenSeq(seqs) \in Seq(S)
         /\ \A k \in DOMAIN FlattenSeq(seqs) :
              \E i \in DOMAIN seqs : \E j \in DOMAIN seqs[i] : FlattenSeq(seqs)[k] = seqs[i][j]
         /\ \A i \in DOMAIN seqs : \A j \in DOMAIN seqs[i] :
              \E k \in DOMAIN FlattenSeq(seqs) : FlattenSeq(seqs)[k] = seqs[i][j]
<1> DEFINE N == Len(seqs)
<1>1. N \in Nat /\ DOMAIN seqs = 1..N /\ \A i \in 1..N : seqs[i] \in Seq(S)
  OBVIOUS
<1>2. CASE N = 0
  <2>1. FlattenSeq(seqs) = seqs
    BY <1>2 DEF FlattenSeq
  <2>2. seqs = << >>
    BY <1>2
  <2> QED BY <2>1, <2>2
<1>3. CASE N # 0
  <2> DEFINE f == CHOOSE f : FlattensTo(seqs, N, f)
  <2>1. FlattensTo(seqs, N, f)
    BY <1>1, FlattensExist
  <2>2. FlattenSeq(seqs) = f[N]
    BY <1>3 DEF FlattenSeq, FlattensTo
  <2> HIDE DEF f
  <2>10. \A i \in 1..N : f[i] = IF i = 1 THEN seqs[i] ELSE f[i - 1] \o seqs[i]
    <3> HIDE DEF N
    <3> QED BY ONLY <2>1, FlattensAt
  <2> DEFINE all(m, t) == /\ t \in Seq(S)
                          /\ \A k \in DOMAIN t : \E i \in 1..m : \E j \in DOMAIN seqs[i] :
                               t[k] = seqs[i][j]
                          /\ \A i \in 1..m : \A j \in DOMAIN seqs[i] : \E k \in DOMAIN t :
                               t[k] = seqs[i][j]
             G == {m \in 0..N : m = 0 \/ all(m, f[m])}
  <2>3. 0 \in G
    OBVIOUS
  <2>4. ASSUME NEW m \in 0..(N - 1), m \in G  PROVE m + 1 \in G
    <3>1. m + 1 \in 1..N /\ seqs[m + 1] \in Seq(S)
      BY <1>1
    <3>2. CASE m = 0
      <4>1. f[1] = seqs[1]
        BY <2>1, <3>1, <3>2, FlattensAt
      <4>2. all(1, f[1])
        BY <3>1, <3>2, <4>1
      <4> QED BY <3>1, <3>2, <4>2
    <3>3. CASE m # 0
      <4> DEFINE t == f[m]
                 u == seqs[m + 1]
      <4>1. f[m + 1] = t \o u
        <5>1. PICK i : i = m + 1
          OBVIOUS
        <5>2. i \in 1..N /\ i # 1 /\ i - 1 = m
          BY <3>1, <3>3, <5>1
        <5>3. f[i] = f[i - 1] \o seqs[i]
          <6> HIDE DEF all, G, t, u
          <6>1. f[i] = IF i = 1 THEN seqs[i] ELSE f[i - 1] \o seqs[i]
            BY <2>10, <5>2
          <6> QED BY <5>2, <6>1
        <5> QED BY <5>1, <5>2, <5>3
      <4>2. all(m, t)
        BY <2>4, <3>3
      <4> HIDE DEF t
      <4>3. t \o u \in Seq(S) /\ DOMAIN (t \o u) = 1..(Len(t) + Len(u))
        BY <3>1, <4>2
      <4>4. ASSUME NEW k \in DOMAIN (t \o u)
            PROVE  \E i \in 1..(m + 1) : \E j \in DOMAIN seqs[i] : (t \o u)[k] = seqs[i][j]
        <5>1. CASE k <= Len(t)
          <6>1. k \in DOMAIN t /\ (t \o u)[k] = t[k]
            BY <3>1, <4>2, <4>3, <5>1
          <6>2. PICK i \in 1..m : \E j \in DOMAIN seqs[i] : t[k] = seqs[i][j]
            BY <4>2, <6>1
          <6>3. i \in 1..(m + 1)
            OBVIOUS
          <6> QED BY <6>1, <6>2, <6>3
        <5>2. CASE ~(k <= Len(t))
          <6>1. k - Len(t) \in DOMAIN u /\ (t \o u)[k] = u[k - Len(t)]
            BY <3>1, <4>2, <4>3, <5>2
          <6>2. m + 1 \in 1..(m + 1) /\ u = seqs[m + 1]
            OBVIOUS
          <6> HIDE DEF u
          <6> QED BY <6>1, <6>2
        <5> QED BY <5>1, <5>2
      <4>5. ASSUME NEW i \in 1..(m + 1), NEW j \in DOMAIN seqs[i]
            PROVE  \E k \in DOMAIN (t \o u) : (t \o u)[k] = seqs[i][j]
        <5>1. CASE i = m + 1
          <6>1. Len(t) + j \in DOMAIN (t \o u) /\ (t \o u)[Len(t) + j] = u[j]
            BY <3>1, <4>2, <4>3, <5>1
          <6> QED BY <5>1, <6>1
        <5>2. CASE i # m + 1
          <6>1. i \in 1..m
            BY <5>2
          <6>2. PICK k \in DOMAIN t : t[k] = seqs[i][j]
            BY <4>2, <6>1
          <6>3. k \in DOMAIN (t \o u) /\ (t \o u)[k] = t[k]
            <7>1. t \in Seq(S) /\ u \in Seq(S) /\ k \in DOMAIN t
              BY <3>1, <4>2
            <7> QED BY ONLY <7>1, FirstPart
          <6> HIDE DEF t, u
          <6> QED BY <6>2, <6>3
        <5> QED BY <5>1, <5>2
      <4>6. all(m + 1, t \o u)
        BY <4>3, <4>4, <4>5
      <4>7. all(m + 1, f[m + 1])
        <5> HIDE DEF all
        <5> QED BY <4>1, <4>6
      <4> HIDE DEF all
      <4> QED BY <3>1, <4>7
    <3> QED BY <3>2, <3>3
  <2>5. N \in G
    <3> HIDE DEF G
    <3>1. \A m \in 0..N : m \in G
      BY <1>1, <2>3, <2>4, UpTo
    <3> QED BY <1>1, <3>1
  <2>6. all(N, f[N])
    BY <1>3, <2>5
  <2> DEFINE t == FlattenSeq(seqs)
  <2>7. all(N, t)
    <3> HIDE DEF all
    <3> QED BY <2>2, <2>6
  <2> HIDE DEF t
  <2>8. /\ t \in Seq(S)
        /\ \A k \in DOMAIN t : \E i \in DOMAIN seqs : \E j \in DOMAIN seqs[i] : t[k] = seqs[i][j]
        /\ \A i \in DOMAIN seqs : \A j \in DOMAIN seqs[i] : \E k \in DOMAIN t : t[k] = seqs[i][j]
    BY <1>1, <2>7
  <2> QED BY <2>8 DEF t
<1> QED BY <1>2, <1>3

LEMMA MappedSeq ==
  ASSUME NEW S, NEW T, NEW s \in Seq(S), NEW f, DOMAIN f = DOMAIN s,
         f = [i \in DOMAIN f |-> f[i]], \A i \in DOMAIN s : f[i] \in T
  PROVE  f \in Seq(T) /\ Len(f) = Len(s)
<1>1. DOMAIN s = 1..Len(s) /\ Len(s) \in Nat
  OBVIOUS
<1>2. f = [i \in 1..Len(s) |-> f[i]]
  BY <1>1
<1> QED BY <1>1, <1>2

(***************************************************************************)
(* The chains the model builds.                                            *)
(***************************************************************************)
LEMMA SegmentTyped ==
  ASSUME NEW n \in AllNodes
  PROVE  expandSegment(n) \in Seq(Wishes)
<1>1. CASE n \in Composite
  <2> DEFINE I == {i \in DOMAIN Children[n] : Children[n][i] \in nodes}
             alive == AtIndices(Children[n], I)
  <2>1. Children[n] \in Seq(Physical)
    BY <1>1, PlacementAssumption
  <2>2. I \in SUBSET DOMAIN Children[n]
    OBVIOUS
  <2> HIDE DEF I
  <2>3. alive \in Seq(Physical)
    BY <2>1, <2>2, AtIndicesMembers
  <2> HIDE DEF alive
  <2> DEFINE seg == [i \in DOMAIN alive |-> In(alive[i], n)]
  <2>4. \A i \in DOMAIN alive : seg[i] \in Wishes
    BY <2>3 DEF In, Wishes
  <2>5. DOMAIN seg = DOMAIN alive /\ seg = [i \in DOMAIN seg |-> seg[i]]
    OBVIOUS
  <2>6. seg \in Seq(Wishes)
    <3> HIDE DEF seg
    <3> QED BY <2>3, <2>4, <2>5, MappedSeq
  <2> QED BY <1>1, <2>6 DEF expandSegment, alive, I
<1>2. CASE n \notin Composite
  BY <1>2 DEF expandSegment, In, Wishes, AllNodes
<1> QED BY <1>1, <1>2

LEMMA PathTyped ==
  ASSUME NEW p \in AllNodes \X Seq(AllNodes)
  PROVE  /\ Path(p) \in Seq(AllNodes) /\ DOMAIN Path(p) = 1..(1 + Len(p[2]))
         /\ \A v : (\E i \in DOMAIN Path(p) : Path(p)[i] = v) <=> v \in {p[1]} \cup ToSet(p[2])
<1>1. p[1] \in AllNodes /\ p[2] \in Seq(AllNodes)
  OBVIOUS
<1>2. Path(p) \in Seq(AllNodes) /\ DOMAIN Path(p) = 1..(1 + Len(p[2])) /\ Path(p)[1] = p[1]
  BY <1>1 DEF Path
<1>3. \A j \in DOMAIN p[2] : j + 1 \in DOMAIN Path(p) /\ Path(p)[j + 1] = p[2][j]
  BY <1>1 DEF Path
<1>4. \A i \in DOMAIN Path(p) : i # 1 => i - 1 \in DOMAIN p[2] /\ Path(p)[i] = p[2][i - 1]
  BY <1>1 DEF Path
<1>5. 1 \in DOMAIN Path(p)
  BY <1>1, <1>2
<1>6. ASSUME NEW v  PROVE (\E i \in DOMAIN Path(p) : Path(p)[i] = v) <=> v \in {p[1]} \cup ToSet(p[2])
  <2> DEFINE s == p[2]
             t == Path(p)
  <2> HIDE DEF s, t
  <2>1. ASSUME NEW i \in DOMAIN t  PROVE t[i] \in {p[1]} \cup ToSet(s)
    BY <1>2, <1>4 DEF ToSet, s, t
  <2>2. ASSUME NEW j \in DOMAIN s  PROVE \E i \in DOMAIN t : t[i] = s[j]
    BY <1>3 DEF s, t
  <2>3. v \in ToSet(s) <=> \E j \in DOMAIN s : v = s[j]
    BY DEF ToSet
  <2>4. t[1] = p[1] /\ 1 \in DOMAIN t
    BY <1>2, <1>5 DEF t
  <2>5. (\E i \in DOMAIN t : t[i] = v) => v \in {p[1]} \cup ToSet(s)
    BY <2>1
  <2>6. v \in {p[1]} \cup ToSet(s) => \E i \in DOMAIN t : t[i] = v
    BY <2>2, <2>3, <2>4
  <2> QED BY <2>5, <2>6 DEF s, t
<1> QED BY <1>2, <1>6

LEMMA DerivedTyped ==
  ASSUME NEW p \in AllNodes \X Seq(AllNodes)
  PROVE  Derived(p) \in Seq(Wishes)
<1> DEFINE segs == [i \in DOMAIN Path(p) |-> expandSegment(Path(p)[i])]
<1>1. segs \in Seq(Seq(Wishes))
  <2>1. Path(p) \in Seq(AllNodes)
    BY PathTyped
  <2>2. \A i \in DOMAIN Path(p) : segs[i] \in Seq(Wishes)
    BY <2>1, SegmentTyped
  <2>3. DOMAIN segs = DOMAIN Path(p) /\ segs = [i \in DOMAIN segs |-> segs[i]]
    OBVIOUS
  <2> HIDE DEF segs
  <2> QED BY <2>1, <2>2, <2>3, MappedSeq
<1>2. FlattenSeq(segs) \in Seq(Wishes)
  <2> HIDE DEF segs
  <2> QED BY <1>1, FlattenMembers
<1> QED BY <1>2 DEF Derived

LEMMA ExplicitTyped ==
  ASSUME NEW c \in Seq(Physical)
  PROVE  Explicit(c) \in Seq(Wishes)
<1> DEFINE e == Explicit(c)
<1>1. \A i \in DOMAIN c : e[i] \in Wishes
  BY DEF Explicit, In, Wishes, AllNodes
<1>2. DOMAIN e = DOMAIN c /\ e = [i \in DOMAIN e |-> e[i]]
  BY DEF Explicit
<1> HIDE DEF e
<1>3. e \in Seq(Wishes)
  BY <1>1, <1>2, MappedSeq
<1> QED BY <1>3 DEF e

LEMMA WithPortTyped ==
  ASSUME NEW ins \in Seq(Wishes), NEW i, NEW port \in Asked
  PROVE  [ins EXCEPT ![i].port = port] \in Seq(Wishes)
<1> DEFINE e == [ins EXCEPT ![i].port = port]
<1>1. port \in Ports \cup {0}
  BY PlacementAssumption
<1>2. \A j \in DOMAIN ins : e[j] = IF i = j THEN [ins[j] EXCEPT !.port = port] ELSE ins[j]
  OBVIOUS
<1>3. \A j \in DOMAIN ins : ins[j] \in Wishes
  OBVIOUS
<1>4. \A j \in DOMAIN ins : [ins[j] EXCEPT !.port = port] \in Wishes
  BY <1>1, <1>3 DEF Wishes
<1>5. DOMAIN e = DOMAIN ins /\ e = [j \in DOMAIN e |-> e[j]]
  OBVIOUS
<1>6. \A j \in DOMAIN ins : e[j] \in Wishes
  BY <1>2, <1>3, <1>4
<1> HIDE DEF e
<1>7. e \in Seq(Wishes)
  BY <1>5, <1>6, MappedSeq
<1> QED BY <1>7 DEF e

LEMMA AtEntryTyped ==
  ASSUME NEW ins \in Seq(Wishes), NEW port \in Asked
  PROVE  AtEntry(ins, port) \in Seq(Wishes)
BY WithPortTyped DEF AtEntry

LEMMA RuleFacts ==
  ASSUME NodesTyped, RulesTyped, NEW r \in DOMAIN rules
  PROVE  /\ r \in 1..made /\ rules[r] \in RuleRows /\ rules[r].hops \in Seq(HopRows)
         /\ rules[r].node \in nodes /\ HopNodes(r) \subseteq nodes \cap Physical
         /\ HeaderOf(r) \in Headers /\ Existing(r) \in Seq(Wishes)
         /\ DOMAIN Existing(r) = DOMAIN rules[r].hops
<1>1. /\ r \in 1..made /\ rules[r] \in RuleRows /\ rules[r].hops \in Seq(HopRows)
      /\ rules[r].node \in nodes /\ HopNodes(r) \subseteq nodes
  BY DEF RulesTyped, RuleRows
<1>2. \A i \in DOMAIN rules[r].hops : rules[r].hops[i] \in HopRows
  BY <1>1
<1>3. HopNodes(r) \subseteq Physical
  BY <1>2 DEF HopNodes, HopRows
<1>4. HeaderOf(r) \in Headers
  BY <1>1 DEF RuleRows, Headers, HeaderOf, Header
<1>5. Existing(r) \in Seq(Wishes) /\ DOMAIN Existing(r) = DOMAIN rules[r].hops
  <2> DEFINE e == Existing(r)
  <2>1. \A i \in DOMAIN rules[r].hops : e[i] \in Wishes
    BY <1>2 DEF Existing, In, Wishes, HopRows
  <2>2. DOMAIN e = DOMAIN rules[r].hops /\ e = [i \in DOMAIN e |-> e[i]]
    BY DEF Existing
  <2> HIDE DEF e
  <2>3. e \in Seq(Wishes)
    BY <1>1, <2>1, <2>2, MappedSeq
  <2> QED BY <2>2, <2>3 DEF e
<1> QED BY <1>1, <1>3, <1>4, <1>5

LEMMA AddressTyped ==
  ASSUME NodesTyped, NEW n \in Physical, Reachable(n), NEW port \in Ports
  PROVE  HopTo(n, port) \in
           [at : [node : Physical, family : {"v4", "v6"}, addr : Addresses \ {0}], port : Ports]
<1>1. relay[n] \in [v4 : Addresses, v6 : Addresses]
  BY DEF NodesTyped
<1> QED BY <1>1 DEF Reachable, HopTo, DialAddress, EffectiveRelayHosts

LEMMA HopTyped ==
  ASSUME NEW n \in Physical, NEW via \in AllNodes, NEW proto \in Protos, NEW port \in Ports,
         NEW to,
         \/ to \in [at : Exits, port : {0}]
         \/ to \in [at : [node : Physical, family : {"v4", "v6"}, addr : Addresses \ {0}],
                     port : Ports]
  PROVE  [node |-> n, via |-> via, proto |-> proto, port |-> port, to |-> to] \in HopRows
BY DEF HopRows

\* What a regeneration places, and where.
PlacedHops(r, head, ins, hops) ==
  \A i \in DOMAIN hops :
    /\ hops[i].node = ins[i].node /\ hops[i].via = ins[i].via
    /\ hops[i].proto = head.proto
    /\ hops[i].node \in nodes \cap Physical
    /\ hops[i].port \notin OccupiedPortsOnNode(hops[i].node, head.proto, r)
    /\ hops[i].to = IF i = Len(hops) THEN ExitTo(head.exit)
                    ELSE HopTo(hops[i + 1].node, hops[i + 1].port)

LEMMA Placed ==
  ASSUME NodesTyped, NEW r, NEW head \in Headers, NEW ins \in Seq(Wishes), NEW avoid,
         NEW hops \in Regenerations(r, head, ins, avoid)
  PROVE  /\ Placeable(ins, head.proto)
         /\ hops \in Seq(HopRows) /\ Len(hops) = Len(ins) /\ DOMAIN hops = DOMAIN ins
         /\ 1 \in DOMAIN hops /\ PlacedHops(r, head, ins, hops)
<1>1. Placeable(ins, head.proto)
  BY DEF Regenerations
<1>2. PICK port \in [DOMAIN ins -> Ports] :
        /\ hops = Hops(r, head, ins, port)
        /\ \A i \in DOMAIN ins :
             port[i] \in PortChoices(r, ins[i], head.proto,
                            IF ins[i].node \in DOMAIN avoid THEN {avoid[ins[i].node]} ELSE {})
  BY <1>1 DEF Regenerations
<1>3. DOMAIN ins = 1..Len(ins) /\ Len(ins) \in Nat /\ \A i \in DOMAIN ins : ins[i] \in Wishes
  OBVIOUS
<1>4. 1 \in DOMAIN ins
  BY <1>1, <1>3 DEF Placeable
<1>5. \A i \in DOMAIN ins : port[i] \notin OccupiedPortsOnNode(ins[i].node, head.proto, r)
  BY <1>2 DEF PortChoices
<1>6. DOMAIN hops = DOMAIN ins
  BY <1>2 DEF Hops
<1>7. \A i \in DOMAIN ins :
        /\ hops[i].node = ins[i].node /\ hops[i].via = ins[i].via
        /\ hops[i].proto = head.proto /\ hops[i].port = port[i]
        /\ hops[i].to = IF i = Len(ins) THEN ExitTo(head.exit)
                        ELSE HopTo(ins[i + 1].node, port[i + 1])
  BY <1>2 DEF Hops
<1>8. \A i \in DOMAIN ins : ins[i].node \in nodes \cap Physical /\ Reachable(ins[i].node)
  BY <1>1 DEF Placeable
<1>9. ASSUME NEW i \in DOMAIN ins  PROVE hops[i] \in HopRows
  <2>1. head.proto \in Protos /\ head.exit \in Exits
    BY DEF Headers
  <2>2. ins[i].node \in Physical /\ ins[i].via \in AllNodes /\ port[i] \in Ports
    BY <1>3, <1>2 DEF Wishes
  <2>3. PICK to : to = IF i = Len(ins) THEN ExitTo(head.exit)
                       ELSE HopTo(ins[i + 1].node, port[i + 1])
    OBVIOUS
  <2>4. \/ to \in [at : Exits, port : {0}]
        \/ to \in [at : [node : Physical, family : {"v4", "v6"}, addr : Addresses \ {0}],
                    port : Ports]
    <3>1. CASE i = Len(ins)
      BY <2>1, <2>3, <3>1 DEF ExitTo
    <3>2. CASE i # Len(ins)
      <4>1. i + 1 \in DOMAIN ins
        BY <1>3, <3>2
      <4>2. ins[i + 1].node \in Physical /\ Reachable(ins[i + 1].node) /\ port[i + 1] \in Ports
        BY <1>2, <1>8, <4>1
      <4>3. to = HopTo(ins[i + 1].node, port[i + 1])
        BY <2>3, <3>2
      <4> QED BY <4>2, <4>3, AddressTyped
    <3> QED BY <3>1, <3>2
  <2>5. hops[i] = [node |-> ins[i].node, via |-> ins[i].via, proto |-> head.proto,
                   port |-> port[i], to |-> to]
    BY <1>2, <2>3 DEF Hops
  <2> QED BY <2>1, <2>2, <2>4, <2>5, HopTyped
<1>10. hops \in Seq(HopRows) /\ Len(hops) = Len(ins)
  <2>1. hops = [i \in DOMAIN hops |-> hops[i]]
    BY <1>2 DEF Hops
  <2> QED BY <1>6, <1>9, <2>1, MappedSeq
<1>11. \A i \in DOMAIN ins : i # Len(ins) => i + 1 \in DOMAIN ins
  BY <1>3
<1> QED BY <1>1, <1>4, <1>5, <1>6, <1>7, <1>8, <1>10, <1>11 DEF PlacedHops

(***************************************************************************)
(* Type correctness.                                                       *)
(***************************************************************************)
Others == /\ DOMAIN live = Physical /\ todo \cup behind \subseteq Physical
          /\ stale \cup unwired \cup exempt \subseteq 1..made
          /\ left \in [Kinds -> Nat]

LEMMA TypeParts == TypeOK <=> NodesTyped /\ RulesTyped /\ RequestsTyped /\ Others
BY DEF TypeOK, Others

LEMMA InitTyped == Init => TypeOK
<1> SUFFICES ASSUME Init  PROVE TypeOK
  OBVIOUS
<1>1. NodesTyped
  <2>1. relay \in [Physical -> [v4 : Addresses, v6 : Addresses]] /\ noDirect \subseteq Physical
    BY PlacementAssumption DEF Init
  <2> QED BY <2>1 DEF Init, NodesTyped
<1>2. RulesTyped
  <2>1. MaxRules \in Nat
    BY PlacementAssumption
  <2>2. DOMAIN rules = {} /\ made = 0
    BY DEF Init
  <2> QED BY <2>1, <2>2 DEF RulesTyped
<1>3. RequestsTyped
  <2>1. DOMAIN req = Requests /\ \A q \in Requests : req[q] = Idle
    BY DEF Init
  <2>2. RequestTyped(Idle)
    BY DEF RequestTyped, Idle
  <2> QED BY <2>1, <2>2 DEF RequestsTyped
<1>4. Others
  BY PlacementAssumption DEF Init, Others
<1> QED BY <1>1, <1>2, <1>3, <1>4, TypeParts

LEMMA RequestsKept ==
  ASSUME TypeOK, made' \in Nat, made' >= made, NEW q \in Requests, NEW c,
         RequestTyped(c), req' = [req EXCEPT ![q] = c]
  PROVE  RequestsTyped'
<1>1. made \in Nat /\ 1..made \subseteq 1..made' /\ 0..made \subseteq 0..made'
  BY PlacementAssumption DEF TypeOK, RulesTyped
<1>2. ASSUME NEW d, RequestTyped(d)  PROVE RequestTyped(d)'
  BY <1>1, <1>2 DEF RequestTyped
<1>3. DOMAIN req = Requests /\ \A p \in Requests : RequestTyped(req[p])
  BY DEF TypeOK, RequestsTyped
<1>4. DOMAIN req' = Requests /\ \A p \in Requests : req'[p] = IF p = q THEN c ELSE req[p]
  BY <1>3
<1>5. ASSUME NEW p \in Requests  PROVE RequestTyped(req[p])'
  <2>1. CASE p = q
    <3>1. req'[p] = c
      BY <1>4, <2>1
    <3>2. RequestTyped(c)'
      BY <1>2
    <3> QED BY <3>1, <3>2 DEF RequestTyped
  <2>2. CASE p # q
    <3>1. PICK d : d = req[p]
      OBVIOUS
    <3>2. RequestTyped(d)'
      BY <1>2, <1>3, <3>1
    <3>3. req'[p] = d
      BY <1>4, <2>2, <3>1
    <3> QED BY <3>2, <3>3 DEF RequestTyped
  <2> QED BY <2>1, <2>2
<1>6. DOMAIN req' = Requests /\ \A p \in Requests : RequestTyped(req[p])'
  BY <1>4, <1>5
<1> QED BY <1>6 DEF RequestsTyped

LEMMA SpendTyped ==
  ASSUME left \in [Kinds -> Nat], NEW kind, Has(kind), Spend(kind)
  PROVE  left' \in [Kinds -> Nat]
<1>1. CASE kind \in Kinds
  BY <1>1 DEF Has, Spend
<1>2. CASE kind \notin Kinds
  BY <1>2 DEF Has, Spend
<1> QED BY <1>1, <1>2

LEMMA StartTyped ==
  ASSUME TypeOK, NEW q \in Requests, NEW kind, NEW c, RequestTyped(c), Start(q, kind, c)
  PROVE  TypeOK'
<1>1. /\ req' = [req EXCEPT ![q] = c] /\ Has(kind) /\ Spend(kind)
      /\ UNCHANGED <<nodeVars, grants, rules, made, live, todo, ghostVars>>
  BY DEF Start
<1>2. made' = made /\ made \in Nat
  BY <1>1, PlacementAssumption DEF TypeOK, RulesTyped
<1>3. made' >= made
  BY <1>2
<1>4. RequestsTyped'
  BY <1>1, <1>2, <1>3, RequestsKept
<1>5. NodesTyped'
  BY <1>1, TypeParts DEF NodesTyped, nodeVars
<1>6. RulesTyped'
  BY <1>1, TypeParts DEF RulesTyped, HopNodes, nodeVars
<1>7. Others'
  <2>1. left' \in [Kinds -> Nat]
    BY <1>1, SpendTyped DEF TypeOK
  <2> QED BY <1>1, <2>1, TypeParts DEF Others, ghostVars
<1> QED BY <1>4, <1>5, <1>6, <1>7 DEF TypeOK, Others

\* One request goes on; nodes, rules and what is owed stay.
LEMMA GoingTyped ==
  ASSUME TypeOK, NEW q \in Requests, NEW c, RequestTyped(c), req' = [req EXCEPT ![q] = c],
         UNCHANGED <<made, rules>>, NodesTyped', nodes' = nodes,
         Others'
  PROVE  TypeOK'
<1>1. made' = made /\ made \in Nat
  BY PlacementAssumption DEF TypeOK, RulesTyped
<1>2. made' >= made
  BY <1>1
<1>3. RequestsTyped'
  BY <1>1, <1>2, RequestsKept
<1>4. RulesTyped'
  BY TypeParts DEF RulesTyped, HopNodes
<1> QED BY <1>3, <1>4 DEF TypeOK, Others

LEMMA WritingTyped ==
  ASSUME NEW r \in 0..made, NEW head \in Headers, NEW write \in BOOLEAN, r = 0 => write,
         NEW ins \in Seq(Wishes), NEW avoid, NEW free \in BOOLEAN
  PROVE  RequestTyped(Writing(r, head, write, ins, avoid, free))
BY DEF RequestTyped, Writing

LEMMA RewritingTyped ==
  ASSUME NodesTyped, RulesTyped, NEW r \in DOMAIN rules, NEW list \in SUBSET (1..made),
         NEW push \in SUBSET Physical
  PROVE  RequestTyped(Rewriting(r, list, push))
<1>1. HeaderOf(r) \in Headers /\ Existing(r) \in Seq(Wishes) /\ r \in 1..made
  BY RuleFacts
<1>2. made \in Nat
  BY PlacementAssumption DEF RulesTyped
<1> QED BY <1>1, <1>2 DEF RequestTyped, Rewriting

LEMMA HeaderTyped ==
  ASSUME NEW u \in Users, NEW node \in AllNodes, NEW vias \in Seq(AllNodes),
         NEW proto \in Protos, NEW x \in Exits
  PROVE  Header(u, node, vias, proto, x) \in Headers
BY DEF Header, Headers

LEMMA HopNodesPhysical ==
  ASSUME TypeOK
  PROVE  /\ \A r : HopNodes(r) \subseteq nodes \cap Physical
         /\ \A R : NodesOf(R) \subseteq nodes \cap Physical
<1>1. NodesTyped /\ RulesTyped
  BY DEF TypeOK
<1>2. ASSUME NEW r  PROVE HopNodes(r) \subseteq nodes \cap Physical
  <2>1. CASE r \in DOMAIN rules
    BY <1>1, <2>1, RuleFacts
  <2>2. CASE r \notin DOMAIN rules
    BY <2>2 DEF HopNodes
  <2> QED BY <2>1, <2>2
<1> QED BY <1>2 DEF NodesOf

\* A request that creates or edits a rule starts with a typed record.
LEMMA ReadsTyped ==
  ASSUME TypeOK, NEW q \in Requests,
         \/ apiMyCreateRule(q) \/ apiCreateRule(q) \/ handleRuleCreate(q)
         \/ apiMyUpdateRule(q) \/ apiUpdateRule(q) \/ handleRuleUpdate(q)
         \/ apiReallocateRuleHop(q) \/ applyRuleHopEdit(q)
  PROVE  TypeOK'
<1>1. /\ NodesTyped /\ RulesTyped /\ made \in Nat
      /\ \A r \in DOMAIN rules : r \in 1..made /\ r \in 0..made /\ r # 0
  BY PlacementAssumption DEF TypeOK, RulesTyped
<1>2. \A p \in Paths : p \in AllNodes \X Seq(AllNodes) /\ p[1] \in AllNodes /\ p[2] \in Seq(AllNodes)
  BY PlacementAssumption
<1>3. \A r \in DOMAIN rules :
        /\ rules[r].owner \in Users /\ rules[r].node \in AllNodes /\ rules[r].vias \in Seq(AllNodes)
        /\ HeaderOf(r) \in Headers /\ Existing(r) \in Seq(Wishes)
  BY <1>1, RuleFacts DEF RuleRows
<1>4. 0 \in 0..made /\ << >> \in Seq(AllNodes)
  BY <1>1
<1>5. Asked \ {0} \subseteq Asked
  OBVIOUS
<1>6. ASSUME apiMyCreateRule(q)  PROVE TypeOK'
  <2>1. PICK u \in Users, p \in Paths, proto \in Protos, x \in Exits, port \in Asked :
          Start(q, "create", Writing(0, Header(u, p[1], p[2], proto, x), TRUE,
                                     AtEntry(Derived(p), port), << >>, FALSE))
    BY <1>6 DEF apiMyCreateRule
  <2>2. Header(u, p[1], p[2], proto, x) \in Headers /\ AtEntry(Derived(p), port) \in Seq(Wishes)
    BY <1>2, HeaderTyped, DerivedTyped, AtEntryTyped
  <2>3. RequestTyped(Writing(0, Header(u, p[1], p[2], proto, x), TRUE,
                             AtEntry(Derived(p), port), << >>, FALSE))
    BY <1>4, <2>2, WritingTyped
  <2> QED BY <2>1, <2>3, StartTyped
<1>7. ASSUME apiCreateRule(q)  PROVE TypeOK'
  <2>1. PICK u \in Users, proto \in Protos, x \in Exits :
          \/ \E p \in Paths :
               Start(q, "create", Writing(0, Header(u, p[1], p[2], proto, x), TRUE,
                                          Derived(p), << >>, FALSE))
          \/ \E c \in Chains :
               /\ MayUse(u, c[1], << >>)
               /\ Start(q, "create", Writing(0, Header(u, c[1], << >>, proto, x), TRUE,
                                             Explicit(c), << >>, TRUE))
    BY <1>7 DEF apiCreateRule
  <2>2. ASSUME NEW p \in Paths,
               Start(q, "create", Writing(0, Header(u, p[1], p[2], proto, x), TRUE,
                                          Derived(p), << >>, FALSE))
        PROVE  TypeOK'
    <3>1. Header(u, p[1], p[2], proto, x) \in Headers /\ Derived(p) \in Seq(Wishes)
      BY <1>2, HeaderTyped, DerivedTyped
    <3>2. RequestTyped(Writing(0, Header(u, p[1], p[2], proto, x), TRUE, Derived(p), << >>, FALSE))
      BY <1>4, <3>1, WritingTyped
    <3> QED BY <2>2, <3>2, StartTyped
  <2>3. ASSUME NEW c \in Chains, MayUse(u, c[1], << >>),
               Start(q, "create", Writing(0, Header(u, c[1], << >>, proto, x), TRUE,
                                          Explicit(c), << >>, TRUE))
        PROVE  TypeOK'
    <3>1. c \in Seq(Physical)
      BY PlacementAssumption
    <3>2. c[1] \in AllNodes
      BY <1>1, <2>3 DEF MayUse, NodesTyped
    <3>3. Header(u, c[1], << >>, proto, x) \in Headers /\ Explicit(c) \in Seq(Wishes)
      BY <1>4, <3>1, <3>2, HeaderTyped, ExplicitTyped
    <3>4. RequestTyped(Writing(0, Header(u, c[1], << >>, proto, x), TRUE, Explicit(c), << >>, TRUE))
      BY <1>4, <3>3, WritingTyped
    <3> QED BY <2>3, <3>4, StartTyped
  <2> QED BY <2>1, <2>2, <2>3
<1>8. ASSUME handleRuleCreate(q)  PROVE TypeOK'
  <2>1. PICK n \in Physical \cap nodes, proto \in Protos, x \in Exits, port \in Asked :
          Start(q, "agent", Writing(0, Header(OwnerOf[n], n, << >>, proto, x), TRUE,
                                    AtEntry(<<In(n, n)>>, port), << >>, TRUE))
    BY <1>8 DEF handleRuleCreate
  <2>2. OwnerOf[n] \in Users /\ n \in AllNodes
    BY PlacementAssumption DEF AllNodes
  <2>3. <<In(n, n)>> \in Seq(Wishes)
    BY <2>2 DEF In, Wishes
  <2>4. Header(OwnerOf[n], n, << >>, proto, x) \in Headers /\ AtEntry(<<In(n, n)>>, port) \in Seq(Wishes)
    BY <1>4, <2>2, <2>3, HeaderTyped, AtEntryTyped
  <2>5. RequestTyped(Writing(0, Header(OwnerOf[n], n, << >>, proto, x), TRUE,
                             AtEntry(<<In(n, n)>>, port), << >>, TRUE))
    BY <1>4, <2>4, WritingTyped
  <2> QED BY <2>1, <2>5, StartTyped
<1>9. ASSUME apiMyUpdateRule(q)  PROVE TypeOK'
  <2>1. PICK r \in DOMAIN rules, proto \in Protos, x \in Exits, port \in Asked :
          \E p \in Paths \cup {<<rules[r].node, rules[r].vias>>} :
            Start(q, "edit", Writing(r, Header(rules[r].owner, p[1], p[2], proto, x), TRUE,
                                     AtEntry(Derived(p), port), << >>, FALSE))
    BY <1>9 DEF apiMyUpdateRule
  <2>2. PICK p \in Paths \cup {<<rules[r].node, rules[r].vias>>} :
          Start(q, "edit", Writing(r, Header(rules[r].owner, p[1], p[2], proto, x), TRUE,
                                   AtEntry(Derived(p), port), << >>, FALSE))
    BY <2>1
  <2>3. p \in AllNodes \X Seq(AllNodes) /\ p[1] \in AllNodes /\ p[2] \in Seq(AllNodes)
    BY <1>2, <1>3
  <2>4. /\ Header(rules[r].owner, p[1], p[2], proto, x) \in Headers
        /\ AtEntry(Derived(p), port) \in Seq(Wishes)
    BY <1>3, <2>3, HeaderTyped, DerivedTyped, AtEntryTyped
  <2>5. RequestTyped(Writing(r, Header(rules[r].owner, p[1], p[2], proto, x), TRUE,
                             AtEntry(Derived(p), port), << >>, FALSE))
    BY <1>1, <2>4, WritingTyped
  <2> QED BY <2>2, <2>5, StartTyped
<1>10. ASSUME apiUpdateRule(q)  PROVE TypeOK'
  <2>1. PICK r \in DOMAIN rules, proto \in Protos, x \in Exits :
          \/ \E p \in Paths :
               Start(q, "edit", Writing(r, Header(rules[r].owner, p[1], p[2], proto, x), TRUE,
                                        Derived(p), << >>, FALSE))
          \/ Start(q, "edit", Writing(r, Header(rules[r].owner, rules[r].node, rules[r].vias,
                                                proto, x), TRUE, Existing(r), << >>, FALSE))
          \/ \E c \in Chains :
               Start(q, "edit", Writing(r, Header(rules[r].owner, rules[r].node, rules[r].vias,
                                                  proto, x), TRUE, Explicit(c), << >>, TRUE))
    BY <1>10 DEF apiUpdateRule
  <2>2. ASSUME NEW p \in Paths,
               Start(q, "edit", Writing(r, Header(rules[r].owner, p[1], p[2], proto, x), TRUE,
                                        Derived(p), << >>, FALSE))
        PROVE  TypeOK'
    <3>1. Header(rules[r].owner, p[1], p[2], proto, x) \in Headers /\ Derived(p) \in Seq(Wishes)
      BY <1>2, <1>3, HeaderTyped, DerivedTyped
    <3>2. RequestTyped(Writing(r, Header(rules[r].owner, p[1], p[2], proto, x), TRUE,
                               Derived(p), << >>, FALSE))
      BY <1>1, <3>1, WritingTyped
    <3> QED BY <2>2, <3>2, StartTyped
  <2>3. Header(rules[r].owner, rules[r].node, rules[r].vias, proto, x) \in Headers
    BY <1>3, HeaderTyped
  <2>4. ASSUME NEW ins \in Seq(Wishes), NEW free \in BOOLEAN,
               Start(q, "edit", Writing(r, Header(rules[r].owner, rules[r].node, rules[r].vias,
                                                  proto, x), TRUE, ins, << >>, free))
        PROVE  TypeOK'
    <3>1. RequestTyped(Writing(r, Header(rules[r].owner, rules[r].node, rules[r].vias, proto, x),
                               TRUE, ins, << >>, free))
      BY <1>1, <2>3, WritingTyped
    <3> QED BY <2>4, <3>1, StartTyped
  <2>5. \A c \in Chains : Explicit(c) \in Seq(Wishes)
    BY ExplicitTyped, PlacementAssumption
  <2>6. Existing(r) \in Seq(Wishes)
    BY <1>3
  <2> QED BY <2>1, <2>2, <2>4, <2>5, <2>6
<1>11. ASSUME handleRuleUpdate(q)  PROVE TypeOK'
  <2>1. PICK n \in Physical \cap nodes, r \in DOMAIN rules, proto \in Protos, x \in Exits :
          Start(q, "agent", Writing(r, Header(OwnerOf[n], rules[r].node, rules[r].vias, proto, x),
                                    TRUE, <<In(n, n)>>, << >>, TRUE))
    BY <1>11 DEF handleRuleUpdate
  <2>2. OwnerOf[n] \in Users /\ n \in AllNodes
    BY PlacementAssumption DEF AllNodes
  <2>3. <<In(n, n)>> \in Seq(Wishes)
    BY <2>2 DEF In, Wishes
  <2>4. Header(OwnerOf[n], rules[r].node, rules[r].vias, proto, x) \in Headers
    BY <1>3, <2>2, HeaderTyped
  <2>5. RequestTyped(Writing(r, Header(OwnerOf[n], rules[r].node, rules[r].vias, proto, x),
                             TRUE, <<In(n, n)>>, << >>, TRUE))
    BY <1>1, <2>3, <2>4, WritingTyped
  <2> QED BY <2>1, <2>5, StartTyped
<1>12. ASSUME NEW kind, NEW r \in DOMAIN rules, NEW ins \in Seq(Wishes), NEW avoid,
              Start(q, kind, Writing(r, HeaderOf(r), FALSE, ins, avoid, TRUE))
       PROVE  TypeOK'
  <2>1. RequestTyped(Writing(r, HeaderOf(r), FALSE, ins, avoid, TRUE))
    BY <1>1, <1>3, WritingTyped
  <2> QED BY <1>12, <2>1, StartTyped
<1>13. \A r \in DOMAIN rules, port \in Asked : \A i : [Existing(r) EXCEPT ![i].port = port] \in Seq(Wishes)
  BY <1>3, WithPortTyped
<1>14. ASSUME apiReallocateRuleHop(q)  PROVE TypeOK'
  <2>1. PICK r \in DOMAIN rules : \E i :
          \/ \E port \in Asked \ {0} :
               Start(q, "port", Writing(r, HeaderOf(r), FALSE,
                                        [Existing(r) EXCEPT ![i].port = port], << >>, TRUE))
          \/ Start(q, "port", Writing(r, HeaderOf(r), FALSE, Existing(r),
                          [n \in {rules[r].hops[i].node} |-> rules[r].hops[i].port], TRUE))
    BY <1>14 DEF apiReallocateRuleHop
  <2>2. \A i : \A port \in Asked \ {0} : [Existing(r) EXCEPT ![i].port = port] \in Seq(Wishes)
    BY <1>13
  <2>3. Existing(r) \in Seq(Wishes)
    BY <1>3
  <2> QED BY <1>12, <2>1, <2>2, <2>3
<1>15. ASSUME applyRuleHopEdit(q)  PROVE TypeOK'
  <2>1. PICK r \in DOMAIN rules : \E i : \E port \in Asked \ {0} :
          Start(q, "agent", Writing(r, HeaderOf(r), FALSE,
                                    [Existing(r) EXCEPT ![i].port = port], << >>, TRUE))
    BY <1>15 DEF applyRuleHopEdit
  <2>2. \A i : \A port \in Asked \ {0} : [Existing(r) EXCEPT ![i].port = port] \in Seq(Wishes)
    BY <1>13
  <2> QED BY <1>12, <2>1, <2>2
<1> QED BY <1>6, <1>7, <1>8, <1>9, <1>10, <1>11, <1>14, <1>15

\* A write is refused, or places a new or an existing rule.
LEMMA WriteCases ==
  ASSUME TypeOK, NEW q \in Requests, Write(q)
  PROVE  /\ UNCHANGED <<nodeVars, grants, live, behind, left>>
         /\ req[q].pc \in {"write", "rewrite"}
         /\ req[q].head \in Headers /\ req[q].ins \in Seq(Wishes)
         /\ req[q].rule \in 0..made
         /\ \/ Refused(q)
            \/ \E r \in 1..MaxRules :
                 /\ \/ req[q].rule = 0 /\ r = made + 1 /\ req[q].write /\ r \notin DOMAIN rules
                    \/ req[q].rule = r /\ r \in DOMAIN rules
                 /\ req[q].head.node \in nodes
                 /\ \E hops \in Regenerations(r, req[q].head, req[q].ins, req[q].avoid) :
                      Place(q, r, hops)
<1>1. RequestTyped(req[q]) /\ made \in 0..MaxRules /\ MaxRules \in Nat /\ DOMAIN rules \subseteq 1..made
  BY PlacementAssumption DEF TypeOK, RequestsTyped, RulesTyped
<1>2. req[q].pc \in {"write", "rewrite"} /\ UNCHANGED <<nodeVars, grants, live, behind, left>>
  BY DEF Write
<1>3. /\ req[q].head \in Headers /\ req[q].ins \in Seq(Wishes) /\ req[q].rule \in 0..made
      /\ req[q].rule = 0 => req[q].write
  BY <1>1, <1>2 DEF RequestTyped
<1> DEFINE r == IF req[q].rule = 0 THEN made + 1 ELSE req[q].rule
<1>4. CASE \/ Regenerations(r, req[q].head, req[q].ins, req[q].avoid) = {}
           \/ req[q].rule # 0 /\ r \notin DOMAIN rules
           \/ req[q].head.node \notin nodes
  <2>1. Refused(q)
    BY <1>4 DEF Write
  <2> QED BY <1>2, <1>3, <2>1
<1>5. CASE ~ \/ Regenerations(r, req[q].head, req[q].ins, req[q].avoid) = {}
             \/ req[q].rule # 0 /\ r \notin DOMAIN rules
             \/ req[q].head.node \notin nodes
  <2>1. /\ \E hops \in Regenerations(r, req[q].head, req[q].ins, req[q].avoid) : Place(q, r, hops)
        /\ req[q].head.node \in nodes /\ (req[q].rule = 0 => made < MaxRules)
    BY <1>5 DEF Write
  <2>2. /\ r \in 1..MaxRules
        /\ \/ req[q].rule = 0 /\ r = made + 1 /\ req[q].write /\ r \notin DOMAIN rules
           \/ req[q].rule = r /\ r \in DOMAIN rules
    <3>1. CASE req[q].rule = 0
      BY <1>1, <1>3, <2>1, <3>1
    <3>2. CASE req[q].rule # 0
      BY <1>1, <1>3, <1>5, <3>2
    <3> QED BY <3>1, <3>2
  <2> HIDE DEF r
  <2> QED BY <1>2, <1>3, <2>1, <2>2
<1> QED BY <1>4, <1>5

LEMMA AfterTyped ==
  ASSUME NEW c, RequestTyped(c), c.pc \in {"write", "rewrite"}, NEW push \in SUBSET Physical
  PROVE  RequestTyped(After(c, push))
BY DEF RequestTyped, After, Rewiring, Idle

LEMMA RefusedTyped ==
  ASSUME TypeOK, NEW q \in Requests, Write(q), Refused(q)
  PROVE  TypeOK'
<1>1. RequestTyped(req[q]) /\ req[q].pc \in {"write", "rewrite"} /\ req[q].rule \in 0..made
  BY WriteCases DEF TypeOK, RequestsTyped
<1>2. UNCHANGED <<nodeVars, grants, live, behind, left, rules, made, todo, stale, exempt>>
  BY WriteCases DEF Refused
<1>3. RequestTyped(After(req[q], {}))
  BY <1>1, AfterTyped
<1>4. NodesTyped' /\ nodes' = nodes
  BY <1>2 DEF TypeOK, NodesTyped, nodeVars
<1>5. Others'
  <2>1. req[q].pc = "rewrite" => req[q].rule \in 1..made
    BY <1>1 DEF RequestTyped
  <2>2. unwired' \subseteq 1..made
    BY <2>1 DEF TypeOK, Refused
  <2> QED BY <1>2, <2>2 DEF TypeOK, Others, nodeVars
<1> QED BY <1>2, <1>3, <1>4, <1>5, GoingTyped DEF Refused

LEMMA PlaceTyped ==
  ASSUME TypeOK, NEW q \in Requests, Write(q), NEW r \in 1..MaxRules, req[q].head.node \in nodes,
         \/ req[q].rule = 0 /\ r = made + 1 /\ req[q].write /\ r \notin DOMAIN rules
         \/ req[q].rule = r /\ r \in DOMAIN rules,
         NEW hops \in Regenerations(r, req[q].head, req[q].ins, req[q].avoid), Place(q, r, hops)
  PROVE  TypeOK'
<1>1. /\ UNCHANGED <<nodeVars, grants, live, behind, left>>
      /\ req[q].pc \in {"write", "rewrite"}
      /\ req[q].head \in Headers /\ req[q].ins \in Seq(Wishes) /\ req[q].rule \in 0..made
  BY WriteCases
<1>2. NodesTyped /\ RulesTyped /\ RequestTyped(req[q])
  BY DEF TypeOK, RequestsTyped
<1>3. /\ hops \in Seq(HopRows) /\ 1 \in DOMAIN hops
      /\ \A i \in DOMAIN hops : hops[i].node \in nodes \cap Physical
  BY <1>1, <1>2, Placed DEF PlacedHops
<1>4. made \in 0..MaxRules /\ made' \in 0..MaxRules /\ made' >= made /\ r \in 1..made'
  <2>1. made \in 0..MaxRules /\ MaxRules \in Nat
    BY <1>2, PlacementAssumption DEF RulesTyped
  <2> QED BY <2>1, <1>2 DEF Place, RulesTyped
<1> DEFINE head == IF req[q].write THEN req[q].head ELSE HeaderOf(r)
           push == Touched(HopNodes(r), hops)
           family == Family(hops[1].node, req[q].head.proto)
<1>5. head \in Headers /\ head.node \in nodes
  <2>1. CASE req[q].write
    BY <1>1, <2>1
  <2>2. CASE ~req[q].write
    <3>1. r \in DOMAIN rules
      BY <2>2
    <3>2. HeaderOf(r) \in Headers /\ rules[r].node \in nodes
      BY <1>2, <3>1, RuleFacts
    <3> QED BY <2>2, <3>2 DEF HeaderOf, Header
  <2> QED BY <2>1, <2>2
<1>6. family \in Families
  BY DEF Family, Families
<1>7. push \subseteq Physical
  BY <1>3, HopNodesPhysical DEF Touched
<1>8. Row(head, hops, family) \in RuleRows
  <2> HIDE DEF family, head
  <2> QED BY <1>3, <1>5, <1>6 DEF Row, RuleRows, Headers
<1>9. /\ rules' = [s \in DOMAIN rules \cup {r} |->
                     IF s = r THEN Row(head, hops, family) ELSE rules[s]]
      /\ req' = [req EXCEPT ![q] = After(req[q], push)]
      /\ todo' \subseteq todo \cup push /\ stale' \subseteq stale \cup {r} /\ unwired' \subseteq unwired
      /\ exempt' \subseteq exempt \cup {r}
  BY DEF Place
<1>10. Row(head, hops, family).node = head.node /\ Row(head, hops, family).hops = hops
  BY DEF Row
<1> HIDE DEF family, head, push
<1>11. NodesTyped' /\ nodes' = nodes
  BY <1>1, <1>2 DEF NodesTyped, nodeVars
<1>12. RulesTyped'
  <2>1. DOMAIN rules' \subseteq 1..made'
    BY <1>2, <1>4, <1>9 DEF RulesTyped
  <2>2. ASSUME NEW s \in DOMAIN rules'
        PROVE  rules'[s] \in RuleRows /\ rules'[s].node \in nodes /\ HopNodes(s)' \subseteq nodes
    <3>1. CASE s = r
      <4>1. rules'[s] = Row(head, hops, family)
        BY <1>9, <3>1
      <4>2. HopNodes(s)' = {hops[i].node : i \in DOMAIN hops}
        BY <1>10, <4>1 DEF HopNodes
      <4> QED BY <1>3, <1>5, <1>8, <1>10, <4>1, <4>2
    <3>2. CASE s # r
      <4>1. s \in DOMAIN rules /\ rules'[s] = rules[s]
        BY <1>9, <3>2
      <4>2. HopNodes(s)' = HopNodes(s)
        BY <4>1 DEF HopNodes
      <4> QED BY <1>2, <4>1, <4>2 DEF RulesTyped
    <3> QED BY <3>1, <3>2
  <2> QED BY <1>4, <1>11, <2>1, <2>2 DEF RulesTyped, RuleRows
<1>13. RequestsTyped'
  <2>1. RequestTyped(After(req[q], push))
    BY <1>1, <1>2, <1>7, AfterTyped
  <2>2. made' \in Nat
    BY <1>4
  <2> QED BY <1>4, <1>9, <2>1, <2>2, RequestsKept
<1>14. Others'
  <2>1. 1..made \subseteq 1..made' /\ r \in 1..made'
    BY <1>4
  <2> QED BY <1>1, <1>7, <1>9, <2>1 DEF TypeOK, Others
<1> QED BY <1>11, <1>12, <1>13, <1>14 DEF TypeOK, Others

LEMMA WriteTyped ==
  ASSUME TypeOK, NEW q \in Requests, Write(q)
  PROVE  TypeOK'
<1>1. CASE Refused(q)
  BY <1>1, RefusedTyped
<1>2. CASE ~Refused(q)
  <2>1. PICK r \in 1..MaxRules :
          /\ \/ req[q].rule = 0 /\ r = made + 1 /\ req[q].write /\ r \notin DOMAIN rules
             \/ req[q].rule = r /\ r \in DOMAIN rules
          /\ req[q].head.node \in nodes
          /\ \E hops \in Regenerations(r, req[q].head, req[q].ins, req[q].avoid) :
               Place(q, r, hops)
    BY <1>2, WriteCases
  <2> QED BY <2>1, PlaceTyped
<1> QED BY <1>1, <1>2

LEMMA DropTyped ==
  ASSUME TypeOK, NEW q \in Requests, Drop(q)
  PROVE  TypeOK'
<1>1. NodesTyped /\ RulesTyped /\ RequestTyped(req[q])
  BY DEF TypeOK, RequestsTyped
<1>2. /\ req[q].pc = "drop" /\ rules' = [r \in DOMAIN rules \ req[q].rules |-> rules[r]]
      /\ behind' = behind \cup (NodesOf(req[q].rules) \ req[q].nodes)
      /\ UNCHANGED <<nodeVars, grants, made, live, stale, unwired, exempt, left>>
  BY DEF Drop
<1>3. req[q].nodes \subseteq Physical /\ req[q].also \subseteq AllNodes
  BY <1>1, <1>2 DEF RequestTyped
<1>4. NodesTyped' /\ nodes' = nodes
  BY <1>1, <1>2 DEF NodesTyped, nodeVars
<1>5. RulesTyped'
  <2>1. \A r \in DOMAIN rules' : rules'[r] = rules[r] /\ r \in DOMAIN rules /\ HopNodes(r)' = HopNodes(r)
    BY <1>2 DEF HopNodes
  <2> QED BY <1>1, <1>2, <1>4, <2>1 DEF RulesTyped
<1>6. todo' \subseteq todo \cup req[q].nodes
  BY DEF Drop
<1>7. Others'
  <2>1. NodesOf(req[q].rules) \subseteq Physical
    BY HopNodesPhysical
  <2> QED BY <1>2, <1>3, <1>6, <2>1 DEF TypeOK, Others
<1>8. RequestsTyped'
  <2>1. made' \in Nat /\ made' >= made
    BY <1>1, <1>2, PlacementAssumption DEF RulesTyped
  <2>2. CASE req[q].also = {}
    <3>1. req' = [req EXCEPT ![q] = Idle]
      BY <2>2 DEF Drop
    <3>2. RequestTyped(Idle)
      BY DEF RequestTyped, Idle
    <3> QED BY <2>1, <3>1, <3>2, RequestsKept
  <2>3. CASE req[q].also # {}
    <3> DEFINE n == CHOOSE n \in req[q].also : TRUE
    <3>1. n \in AllNodes
      BY <1>3, <2>3
    <3>2. req' = [req EXCEPT ![q] = Removing(n, {}, req[q].nodes)]
      BY <2>3 DEF Drop
    <3> HIDE DEF n
    <3>3. RequestTyped(Removing(n, {}, req[q].nodes))
      BY <1>3, <3>1 DEF RequestTyped, Removing
    <3> QED BY <2>1, <3>2, <3>3, RequestsKept
  <2> QED BY <2>2, <2>3
<1> QED BY <1>4, <1>5, <1>7, <1>8 DEF TypeOK, Others

\* t has the hops of s that are not on n.
Remaining(s, n, t) ==
  /\ \A k \in DOMAIN t : \E i \in DOMAIN s : t[k] = s[i] /\ s[i].node # n
  /\ \A i \in DOMAIN s : s[i].node # n => \E k \in DOMAIN t : t[k] = s[i]

LEMMA WithoutFacts ==
  ASSUME NodesTyped, RulesTyped, NEW r \in DOMAIN rules, NEW n
  PROVE  /\ Without(rules[r].hops, n) \in Seq(HopRows)
         /\ Remaining(rules[r].hops, n, Without(rules[r].hops, n))
<1> DEFINE hops == rules[r].hops
           I == {i \in DOMAIN hops : hops[i].node # n}
<1>1. hops \in Seq(HopRows) /\ I \in SUBSET DOMAIN hops
  BY RuleFacts
<1>2. \A i \in I : i \in DOMAIN hops /\ hops[i].node # n
  OBVIOUS
<1>3. \A i \in DOMAIN hops : hops[i].node # n => i \in I
  OBVIOUS
<1>4. Without(hops, n) = AtIndices(hops, I)
  BY DEF Without
<1> HIDE DEF I, hops
<1>5. /\ AtIndices(hops, I) \in Seq(HopRows)
      /\ \A k \in DOMAIN AtIndices(hops, I) : \E i \in I : AtIndices(hops, I)[k] = hops[i]
      /\ \A i \in I : \E k \in DOMAIN AtIndices(hops, I) : AtIndices(hops, I)[k] = hops[i]
  BY <1>1, AtIndicesMembers
<1>6. /\ Without(hops, n) \in Seq(HopRows)
      /\ \A k \in DOMAIN Without(hops, n) : \E i \in DOMAIN hops :
           Without(hops, n)[k] = hops[i] /\ hops[i].node # n
      /\ \A i \in DOMAIN hops : hops[i].node # n =>
           \E k \in DOMAIN Without(hops, n) : Without(hops, n)[k] = hops[i]
  BY <1>2, <1>3, <1>4, <1>5
<1> QED BY <1>6 DEF hops, Remaining

\* What the deletion of a node does.
LEMMA Deletion ==
  ASSUME TypeOK, NEW q \in Requests, DeleteNode(q)
  PROVE  /\ req[q].pc = "remove" /\ req[q].node \in AllNodes /\ nodes' = nodes \ {req[q].node}
         /\ grants' = [u \in Users |-> grants[u] \ {req[q].node}]
         /\ req' = [req EXCEPT ![q] = Rewiring(req[q].list, req[q].push)]
         /\ DOMAIN rules' = {r \in DOMAIN rules : rules[r].node # req[q].node}
         /\ \A r \in DOMAIN rules' :
              /\ rules'[r] = [rules[r] EXCEPT !.hops = Without(rules[r].hops, req[q].node)]
              /\ rules'[r] \in RuleRows
              /\ rules'[r].hops = Without(rules[r].hops, req[q].node)
              /\ rules'[r].node = rules[r].node /\ rules'[r].vias = rules[r].vias
              /\ rules'[r].owner = rules[r].owner
         /\ UNCHANGED <<relay, off, range, noDirect, made, live, todo, stale, exempt, left>>
<1> DEFINE n == req[q].node
           R == {r \in DOMAIN rules : rules[r].node = n}
<1>1. NodesTyped /\ RulesTyped /\ RequestTyped(req[q])
  BY DEF TypeOK, RequestsTyped
<1>2. /\ req[q].pc = "remove" /\ nodes' = nodes \ {n}
      /\ grants' = [u \in Users |-> grants[u] \ {n}]
      /\ req' = [req EXCEPT ![q] = Rewiring(req[q].list, req[q].push)]
      /\ rules' = [r \in DOMAIN rules \ R |-> [rules[r] EXCEPT !.hops = Without(@, n)]]
      /\ UNCHANGED <<relay, off, range, noDirect, made, live, todo, stale, exempt, left>>
  BY DEF DeleteNode
<1>3. n \in AllNodes
  BY <1>1, <1>2 DEF RequestTyped
<1>4. DOMAIN rules' = {r \in DOMAIN rules : rules[r].node # n}
  BY <1>2
<1>5. ASSUME NEW r \in DOMAIN rules'
      PROVE  /\ rules'[r] = [rules[r] EXCEPT !.hops = Without(rules[r].hops, n)]
             /\ rules'[r] \in RuleRows
             /\ rules'[r].hops = Without(rules[r].hops, n)
             /\ rules'[r].node = rules[r].node /\ rules'[r].vias = rules[r].vias
             /\ rules'[r].owner = rules[r].owner
  <2>1. r \in DOMAIN rules /\ rules'[r] = [rules[r] EXCEPT !.hops = Without(rules[r].hops, n)]
    BY <1>2
  <2>2. rules[r] \in RuleRows
    BY <1>1, <2>1, RuleFacts
  <2>3. Without(rules[r].hops, n) \in Seq(HopRows)
    BY <1>1, <2>1, WithoutFacts
  <2> HIDE DEF n
  <2> QED BY <2>1, <2>2, <2>3 DEF RuleRows
<1> QED BY <1>2, <1>3, <1>4, <1>5

LEMMA DeleteTyped ==
  ASSUME TypeOK, NEW q \in Requests, DeleteNode(q)
  PROVE  TypeOK'
<1> DEFINE n == req[q].node
<1>1. NodesTyped /\ RulesTyped /\ RequestTyped(req[q])
  BY DEF TypeOK, RequestsTyped
<1>2. /\ req[q].pc = "remove" /\ nodes' = nodes \ {n}
      /\ grants' = [u \in Users |-> grants[u] \ {n}]
      /\ req' = [req EXCEPT ![q] = Rewiring(req[q].list, req[q].push)]
      /\ UNCHANGED <<relay, off, range, noDirect, made, live, todo, stale, exempt, left>>
  BY Deletion
<1>3. NodesTyped'
  BY <1>1, <1>2 DEF NodesTyped
<1>4. RulesTyped'
  <2>1. DOMAIN rules' \subseteq 1..made' /\ made' \in 0..MaxRules
    BY <1>1, <1>2, Deletion DEF RulesTyped
  <2>2. ASSUME NEW r \in DOMAIN rules'
        PROVE  rules'[r] \in RuleRows /\ rules'[r].node \in nodes' /\ HopNodes(r)' \subseteq nodes'
    <3>1. /\ r \in DOMAIN rules /\ rules[r].node # n /\ rules'[r] \in RuleRows
          /\ rules'[r].hops = Without(rules[r].hops, n) /\ rules'[r].node = rules[r].node
      <4>1. DOMAIN rules' = {s \in DOMAIN rules : rules[s].node # n}
        BY Deletion
      <4>2. r \in DOMAIN rules /\ rules[r].node # n
        BY <4>1
      <4>3. /\ rules'[r] \in RuleRows
            /\ rules'[r].hops = Without(rules[r].hops, n) /\ rules'[r].node = rules[r].node
        BY Deletion
      <4> QED BY <4>2, <4>3
    <3>2. rules[r].node \in nodes /\ HopNodes(r) \subseteq nodes
      BY <1>1, <3>1 DEF RulesTyped
    <3>3. \A k \in DOMAIN rules'[r].hops : rules'[r].hops[k].node \in HopNodes(r) \ {n}
      <4>1. Remaining(rules[r].hops, n, rules'[r].hops)
        BY <1>1, <3>1, WithoutFacts
      <4> QED BY <3>1, <4>1 DEF HopNodes, Remaining
    <3>4. HopNodes(r)' \subseteq HopNodes(r) \ {n}
      BY <3>3 DEF HopNodes
    <3> QED BY <1>2, <3>1, <3>2, <3>4
  <2> QED BY <2>1, <2>2 DEF RulesTyped, RuleRows
<1>5. RequestsTyped'
  <2>1. made' \in Nat /\ made' >= made
    BY <1>1, <1>2, PlacementAssumption DEF RulesTyped
  <2>2. RequestTyped(Rewiring(req[q].list, req[q].push))
    BY <1>1, <1>2 DEF RequestTyped, Rewiring
  <2> QED BY <1>2, <2>1, <2>2, RequestsKept
<1>6. Others'
  <2>1. \A r \in DOMAIN rules : r \in 1..made
    BY <1>1 DEF RulesTyped
  <2>2. unwired' \subseteq 1..made /\ behind' \subseteq Physical
    BY <2>1, HopNodesPhysical DEF DeleteNode, RulesReferencingNode, TypeOK
  <2> QED BY <1>2, <2>2 DEF TypeOK, Others
<1> QED BY <1>3, <1>4, <1>5, <1>6 DEF TypeOK, Others

LEMMA MinIn ==
  ASSUME NEW m \in Nat, NEW L \in SUBSET (1..m), L # {}
  PROVE  Min(L) \in L
<1> DEFINE G == {i \in 0..m : L \cap (1..i) = {} \/ \E x \in L : \A y \in L : x <= y}
<1>1. 0 \in G
  OBVIOUS
<1>2. ASSUME NEW i \in 0..(m - 1), i \in G  PROVE i + 1 \in G
  <2>1. CASE L \cap (1..i) = {}
    <3>1. \A y \in L : i + 1 <= y
      BY <2>1
    <3>2. L \cap (1..(i + 1)) = {} \/ i + 1 \in L
      BY <2>1
    <3> QED BY <3>1, <3>2
  <2>2. CASE L \cap (1..i) # {}
    BY <1>2, <2>2
  <2> QED BY <2>1, <2>2
<1>3. m \in G
  <2> HIDE DEF G
  <2>1. \A i \in 0..m : i \in G
    BY <1>1, <1>2, UpTo
  <2> QED BY <2>1
<1>4. \E x \in L : \A y \in L : x <= y
  BY <1>3
<1> QED BY <1>4 DEF Min

\* The other requests.
LEMMA RestTyped ==
  ASSUME TypeOK, NEW q \in Requests,
         \/ apiDeleteRule(q) \/ apiRevokeNode(q) \/ apiDeleteNode(q)
         \/ apiSetNodeRelayHost(q) \/ apiSetNodeRelayHostV6(q) \/ apiSetNodeRelayFamilyDisabled(q)
         \/ DeleteRulesForUserNode(q) \/ UpdateNodeRelayHostV6(q) \/ SetFamily(q)
         \/ ListRules(q) \/ apiRewireRules(q)
  PROVE  TypeOK'
<1>1. /\ NodesTyped /\ RulesTyped /\ RequestTyped(req[q]) /\ Others /\ made \in Nat
      /\ DOMAIN rules \subseteq 1..made
  BY PlacementAssumption DEF TypeOK, Others, RequestsTyped, RulesTyped
<1>2. /\ \A r : HopNodes(r) \subseteq Physical
      /\ \A R : NodesOf(R) \subseteq Physical
      /\ \A n : RulesReferencingNode(n) \subseteq 1..made
  BY <1>1, HopNodesPhysical DEF RulesReferencingNode
<1>3. ASSUME NEW R \in SUBSET (1..made), NEW N \in SUBSET Physical, NEW also \in SUBSET AllNodes
      PROVE  RequestTyped(Dropping(R, N, also))
  BY DEF RequestTyped, Dropping
<1>4. ASSUME apiDeleteRule(q)  PROVE TypeOK'
  <2>1. PICK r \in DOMAIN rules : Start(q, "delete", Dropping({r}, HopNodes(r), {}))
    BY <1>4 DEF apiDeleteRule
  <2>2. {r} \subseteq 1..made /\ HopNodes(r) \subseteq Physical
    BY <1>1, <1>2
  <2>3. RequestTyped(Dropping({r}, HopNodes(r), {}))
    BY <1>3, <2>2
  <2> QED BY <2>1, <2>3, StartTyped
<1>5. ASSUME apiRevokeNode(q)  PROVE TypeOK'
  <2>1. PICK u \in Users : \E n \in grants[u] :
          /\ grants' = [grants EXCEPT ![u] = @ \ {n}]
          /\ req' = [req EXCEPT ![q] = [pc |-> "collect", user |-> u, node |-> n]]
    BY <1>5 DEF apiRevokeNode
  <2>2. PICK n \in grants[u] :
          /\ grants' = [grants EXCEPT ![u] = @ \ {n}]
          /\ req' = [req EXCEPT ![q] = [pc |-> "collect", user |-> u, node |-> n]]
    BY <2>1
  <2>3. /\ UNCHANGED <<nodeVars, rules, made, live, todo, ghostVars>>
        /\ Has("revoke") /\ Spend("revoke")
    BY <1>5 DEF apiRevokeNode
  <2>4. n \in AllNodes
    BY <1>1 DEF NodesTyped
  <2>5. RequestTyped([pc |-> "collect", user |-> u, node |-> n])
    BY <2>4 DEF RequestTyped
  <2>6. NodesTyped' /\ nodes' = nodes
    BY <1>1, <2>2, <2>3 DEF NodesTyped, nodeVars
  <2>7. Others'
    <3>1. left' \in [Kinds -> Nat]
      BY <1>1, <2>3, SpendTyped DEF Others
    <3> QED BY <1>1, <2>3, <3>1 DEF Others, ghostVars
  <2> QED BY <2>2, <2>3, <2>5, <2>6, <2>7, GoingTyped
<1>6. ASSUME DeleteRulesForUserNode(q)  PROVE TypeOK'
  <2> DEFINE R == UsedBy(req[q].user, req[q].node)
  <2>1. /\ req' = [req EXCEPT ![q] = Dropping(R, NodesOf(R), {})]
        /\ UNCHANGED <<nodeVars, grants, rules, made, live, todo, ghostVars, left>>
    BY <1>6 DEF DeleteRulesForUserNode
  <2>2. R \subseteq 1..made /\ NodesOf(R) \subseteq Physical
    BY <1>1, <1>2 DEF UsedBy, OwnedBy
  <2>3. RequestTyped(Dropping(R, NodesOf(R), {}))
    <3> HIDE DEF R
    <3> QED BY <1>3, <2>2
  <2>4. NodesTyped' /\ nodes' = nodes /\ Others'
    BY <1>1, <2>1 DEF NodesTyped, nodeVars, Others, ghostVars
  <2> HIDE DEF R
  <2> QED BY <2>1, <2>3, <2>4, GoingTyped
<1>7. ASSUME apiDeleteNode(q)  PROVE TypeOK'
  <2>1. ASSUME NEW n \in Composite \cap nodes,
               Start(q, "node", Dropping({r \in DOMAIN rules : Via(r, n)},
                                         NodesOf({r \in DOMAIN rules : Via(r, n)}), {n}))
        PROVE  TypeOK'
    <3> DEFINE R == {r \in DOMAIN rules : Via(r, n)}
    <3>1. R \subseteq 1..made /\ NodesOf(R) \subseteq Physical /\ {n} \subseteq AllNodes
      BY <1>1, <1>2 DEF AllNodes
    <3>2. Start(q, "node", Dropping(R, NodesOf(R), {n}))
      BY <2>1
    <3> HIDE DEF R
    <3>3. RequestTyped(Dropping(R, NodesOf(R), {n}))
      BY <1>3, <3>1
    <3> QED BY <3>2, <3>3, StartTyped
  <2>2. ASSUME NEW n \in Physical \cap nodes,
               Start(q, "node", Removing(n, RulesReferencingNode(n), {}))
        PROVE  TypeOK'
    <3>1. RequestTyped(Removing(n, RulesReferencingNode(n), {}))
      BY <1>2 DEF RequestTyped, Removing, AllNodes
    <3> QED BY <2>2, <3>1, StartTyped
  <2> QED BY <1>7, <2>1, <2>2 DEF apiDeleteNode
<1>8. ASSUME apiSetNodeRelayHost(q)  PROVE TypeOK'
  <2>1. PICK n \in Physical \cap nodes, v \in Addresses :
          /\ relay' = [relay EXCEPT ![n].v4 = v]
          /\ off' = IF v = 0 THEN off ELSE [off EXCEPT ![n] = @ \ {"v4"}]
          /\ req' = [req EXCEPT ![q] = Listing(n, {})]
    BY <1>8 DEF apiSetNodeRelayHost
  <2>2. /\ UNCHANGED <<nodes, range, noDirect, grants, rules, made, live, todo, ghostVars>>
        /\ Has("relay") /\ Spend("relay")
    BY <1>8 DEF apiSetNodeRelayHost
  <2>3. RequestTyped(Listing(n, {}))
    BY DEF RequestTyped, Listing
  <2>4. NodesTyped'
    <3>1. relay' \in [Physical -> [v4 : Addresses, v6 : Addresses]]
      BY <1>1, <2>1 DEF NodesTyped
    <3>2. off' \in [Physical -> SUBSET {"v4", "v6"}]
      <4>1. CASE v = 0
        BY <1>1, <2>1, <4>1 DEF NodesTyped
      <4>2. CASE v # 0
        BY <1>1, <2>1, <4>2 DEF NodesTyped
      <4> QED BY <4>1, <4>2
    <3> QED BY <1>1, <2>2, <3>1, <3>2 DEF NodesTyped
  <2>5. Others'
    <3>1. left' \in [Kinds -> Nat]
      BY <1>1, <2>2, SpendTyped DEF Others
    <3> QED BY <1>1, <2>2, <3>1 DEF Others, ghostVars
  <2> QED BY <2>1, <2>2, <2>3, <2>4, <2>5, GoingTyped
<1>9. ASSUME apiSetNodeRelayHostV6(q)  PROVE TypeOK'
  <2>1. PICK n \in Physical \cap nodes, v \in Addresses :
          Start(q, "relay", [pc |-> "v6", node |-> n, addr |-> v])
    BY <1>9 DEF apiSetNodeRelayHostV6
  <2>2. RequestTyped([pc |-> "v6", node |-> n, addr |-> v])
    BY DEF RequestTyped
  <2> QED BY <2>1, <2>2, StartTyped
<1>10. ASSUME UpdateNodeRelayHostV6(q)  PROVE TypeOK'
  <2> DEFINE n == req[q].node
             v == req[q].addr
  <2>1. /\ req[q].pc = "v6"
        /\ relay' = [relay EXCEPT ![n].v6 = v]
        /\ off' = IF v = 0 THEN off ELSE [off EXCEPT ![n] = @ \ {"v6"}]
        /\ unwired' = unwired \cup DialledByV6(n)
                        \cup (IF v = 0 THEN EntersBy(n, {"v6", "both"}) ELSE {})
        /\ req' = [req EXCEPT ![q] = Idle]
        /\ UNCHANGED <<nodes, range, noDirect, grants, rules, made, live, todo, behind, stale,
                       exempt, left>>
    BY <1>10 DEF UpdateNodeRelayHostV6
  <2>2. n \in Physical /\ v \in Addresses
    BY <1>1, <2>1 DEF RequestTyped
  <2>3. RequestTyped(Idle)
    BY DEF RequestTyped, Idle
  <2>4. DialledByV6(n) \subseteq 1..made /\ EntersBy(n, {"v6", "both"}) \subseteq 1..made
    BY <1>1 DEF DialledByV6, EntersBy
  <2> HIDE DEF n, v
  <2>5. NodesTyped'
    <3>1. relay' \in [Physical -> [v4 : Addresses, v6 : Addresses]]
      BY <1>1, <2>1, <2>2 DEF NodesTyped
    <3>2. off' \in [Physical -> SUBSET {"v4", "v6"}]
      <4>1. CASE v = 0
        BY <1>1, <2>1, <4>1 DEF NodesTyped
      <4>2. CASE v # 0
        BY <1>1, <2>1, <2>2, <4>2 DEF NodesTyped
      <4> QED BY <4>1, <4>2
    <3> QED BY <1>1, <2>1, <3>1, <3>2 DEF NodesTyped
  <2>6. Others'
    BY <1>1, <2>1, <2>4 DEF Others
  <2> QED BY <2>1, <2>3, <2>5, <2>6, GoingTyped
<1>11. ASSUME apiSetNodeRelayFamilyDisabled(q)  PROVE TypeOK'
  <2>1. PICK n \in Physical \cap nodes, family \in {"v4", "v6"} :
          \/ Start(q, "relay", [pc |-> "flip", node |-> n, off |-> off[n] \cup {family}])
          \/ Start(q, "relay", [pc |-> "flip", node |-> n, off |-> off[n] \ {family}])
    BY <1>11 DEF apiSetNodeRelayFamilyDisabled
  <2>2. off[n] \subseteq {"v4", "v6"}
    BY <1>1 DEF NodesTyped
  <2>3. \A O \in SUBSET {"v4", "v6"} : RequestTyped([pc |-> "flip", node |-> n, off |-> O])
    BY DEF RequestTyped
  <2>4. /\ RequestTyped([pc |-> "flip", node |-> n, off |-> off[n] \cup {family}])
        /\ RequestTyped([pc |-> "flip", node |-> n, off |-> off[n] \ {family}])
    BY <2>2, <2>3
  <2> QED BY <2>1, <2>4, StartTyped
<1>12. ASSUME SetFamily(q)  PROVE TypeOK'
  <2>1. /\ req[q].pc = "flip" /\ off' = [off EXCEPT ![req[q].node] = req[q].off]
        /\ req' = [req EXCEPT ![q] = Listing(req[q].node, {req[q].node})]
        /\ UNCHANGED <<nodes, relay, range, noDirect, grants, rules, made, live, todo, ghostVars,
                       left>>
    BY <1>12 DEF SetFamily
  <2>2. req[q].node \in Physical /\ req[q].off \subseteq {"v4", "v6"}
    BY <1>1, <2>1 DEF RequestTyped
  <2>3. RequestTyped(Listing(req[q].node, {req[q].node}))
    BY <2>2 DEF RequestTyped, Listing
  <2>4. NodesTyped'
    BY <1>1, <2>1, <2>2 DEF NodesTyped
  <2>5. Others'
    BY <1>1, <2>1 DEF Others, ghostVars
  <2> QED BY <2>1, <2>3, <2>4, <2>5, GoingTyped
<1>13. ASSUME ListRules(q)  PROVE TypeOK'
  <2>1. /\ req[q].pc = "list"
        /\ req' = [req EXCEPT ![q] = Rewiring(RulesReferencingNode(req[q].node), req[q].push)]
        /\ UNCHANGED <<nodeVars, grants, rules, made, live, todo, ghostVars, left>>
    BY <1>13 DEF ListRules
  <2>2. RequestTyped(Rewiring(RulesReferencingNode(req[q].node), req[q].push))
    BY <1>1, <1>2, <2>1 DEF RequestTyped, Rewiring
  <2>3. NodesTyped' /\ nodes' = nodes /\ Others'
    BY <1>1, <2>1 DEF NodesTyped, nodeVars, Others, ghostVars
  <2> QED BY <2>1, <2>2, <2>3, GoingTyped
<1>14. ASSUME apiRewireRules(q)  PROVE TypeOK'
  <2>1. /\ req[q].pc = "rewire"
        /\ UNCHANGED <<nodeVars, grants, rules, made, live, ghostVars, left>>
        /\ todo' = todo \/ todo' = todo \cup req[q].push
    BY <1>14 DEF apiRewireRules
  <2>2. req[q].list \subseteq 1..made /\ req[q].push \subseteq Physical
    BY <1>1, <2>1 DEF RequestTyped
  <2>3. NodesTyped' /\ nodes' = nodes /\ Others'
    BY <1>1, <2>1, <2>2 DEF NodesTyped, nodeVars, Others, ghostVars
  <2>4. ASSUME NEW c, RequestTyped(c), req' = [req EXCEPT ![q] = c]  PROVE TypeOK'
    BY <2>1, <2>3, <2>4, GoingTyped
  <2>5. CASE req[q].list = {}
    <3>1. req' = [req EXCEPT ![q] = Idle]
      BY <1>14, <2>5 DEF apiRewireRules
    <3>2. RequestTyped(Idle)
      BY DEF RequestTyped, Idle
    <3> QED BY <2>4, <3>1, <3>2
  <2>6. CASE req[q].list # {}
    <3> DEFINE r == Min(req[q].list)
               rest == req[q].list \ {r}
    <3>1. rest \subseteq 1..made
      BY <2>2
    <3>2. req' = [req EXCEPT ![q] =
                    IF r \notin DOMAIN rules \/ HopNodes(r) = {} THEN Rewiring(rest, req[q].push)
                    ELSE Rewriting(r, rest, req[q].push)]
      BY <1>14, <2>6 DEF apiRewireRules
    <3> HIDE DEF r, rest
    <3>3. RequestTyped(Rewiring(rest, req[q].push))
      BY <2>2, <3>1 DEF RequestTyped, Rewiring
    <3>4. r \in DOMAIN rules => RequestTyped(Rewriting(r, rest, req[q].push))
      BY <1>1, <2>2, <3>1, RewritingTyped
    <3>5. CASE r \notin DOMAIN rules \/ HopNodes(r) = {}
      BY <2>4, <3>2, <3>3, <3>5
    <3>6. CASE ~(r \notin DOMAIN rules \/ HopNodes(r) = {})
      BY <2>4, <3>2, <3>4, <3>6
    <3> QED BY <3>5, <3>6
  <2> QED BY <2>5, <2>6
<1> QED BY <1>4, <1>5, <1>6, <1>7, <1>8, <1>9, <1>10, <1>11, <1>12, <1>13, <1>14

LEMMA SettingTyped ==
  ASSUME TypeOK, apiUpdateNodePortRange \/ apiSetNodeNoDirectExit \/ apiGrantNode
  PROVE  TypeOK'
<1>1. NodesTyped /\ RulesTyped /\ RequestsTyped /\ Others
  BY DEF TypeOK, Others
<1>2. /\ UNCHANGED <<nodes, relay, off, rules, made, live, todo, req, ghostVars>>
      /\ Has("setting") /\ Spend("setting")
  BY DEF apiUpdateNodePortRange, apiSetNodeNoDirectExit, apiGrantNode, Setting
<1>3. NodesTyped'
  <2>1. CASE apiUpdateNodePortRange
    <3>1. PICK n \in Physical \cap nodes : \E R \in Ranges \ {range[n]} : range' = [range EXCEPT ![n] = R]
      BY <2>1 DEF apiUpdateNodePortRange
    <3>2. range' \in [Physical -> SUBSET Ports]
      <4>1. \A R \in Ranges : R \subseteq Ports
        BY PlacementAssumption
      <4> QED BY <1>1, <3>1, <4>1 DEF NodesTyped
    <3> QED BY <1>1, <1>2, <2>1, <3>2 DEF NodesTyped, apiUpdateNodePortRange
  <2>2. CASE apiSetNodeNoDirectExit
    <3>1. noDirect' \subseteq Physical
      BY <1>1, <2>2 DEF NodesTyped, apiSetNodeNoDirectExit
    <3> QED BY <1>1, <1>2, <2>2, <3>1 DEF NodesTyped, apiSetNodeNoDirectExit
  <2>3. CASE apiGrantNode
    <3>1. grants' \in [Users -> SUBSET nodes]
      BY <1>1, <2>3 DEF NodesTyped, apiGrantNode
    <3> QED BY <1>1, <1>2, <2>3, <3>1 DEF NodesTyped, apiGrantNode
  <2> QED BY <2>1, <2>2, <2>3
<1>4. RulesTyped'
  BY <1>1, <1>2 DEF RulesTyped, HopNodes
<1>5. RequestsTyped'
  BY <1>1, <1>2 DEF RequestsTyped, RequestTyped
<1>6. Others'
  <2>1. left' \in [Kinds -> Nat]
    BY <1>1, <1>2, SpendTyped DEF Others
  <2> QED BY <1>1, <1>2, <2>1 DEF Others, ghostVars
<1> QED BY <1>3, <1>4, <1>5, <1>6 DEF TypeOK, Others

LEMMA DispatchTyped ==
  ASSUME TypeOK, NEW n \in Physical, dispatchToNode(n)
  PROVE  TypeOK'
<1>1. NodesTyped /\ RulesTyped /\ RequestsTyped /\ Others
  BY DEF TypeOK, Others
<1>2. /\ UNCHANGED <<nodeVars, grants, rules, made, req, stale, unwired, exempt, left>>
      /\ todo' \subseteq todo /\ behind' \subseteq behind /\ DOMAIN live' = DOMAIN live
  BY DEF dispatchToNode
<1>3. NodesTyped' /\ RulesTyped'
  BY <1>1, <1>2 DEF NodesTyped, RulesTyped, HopNodes, nodeVars
<1>4. RequestsTyped'
  BY <1>1, <1>2 DEF RequestsTyped, RequestTyped
<1>5. Others'
  BY <1>1, <1>2 DEF Others
<1> QED BY <1>3, <1>4, <1>5 DEF TypeOK, Others

LEMMA TypeStep == TypeOK /\ [Next]_vars => TypeOK'
<1> SUFFICES ASSUME TypeOK, [Next]_vars  PROVE TypeOK'
  OBVIOUS
<1>1. ASSUME NEW q \in Requests, Reading(q)  PROVE TypeOK'
  BY <1>1, ReadsTyped, RestTyped DEF Reading
<1>2. ASSUME NEW q \in Requests, Going(q)  PROVE TypeOK'
  BY <1>2, WriteTyped, DropTyped, DeleteTyped, RestTyped DEF Going
<1>3. CASE apiUpdateNodePortRange \/ apiSetNodeNoDirectExit \/ apiGrantNode
  BY <1>3, SettingTyped
<1>4. ASSUME NEW n \in Physical, dispatchToNode(n)  PROVE TypeOK'
  BY <1>4, DispatchTyped
<1>5. CASE UNCHANGED vars
  BY <1>5 DEF vars, nodeVars, ghostVars, TypeOK, NodesTyped, RulesTyped, HopNodes, RequestsTyped,
              RequestTyped
<1> QED BY <1>1, <1>2, <1>3, <1>4, <1>5 DEF Next

\* Every variable of the panel's rules, nodes and requests stays in its range,
\* a rule's header and all its hops name nodes that exist, and ids are never used
\* twice (RegenerateRule, DeleteNode, apiRewireRules).
THEOREM TypeCorrect == Spec => []TypeOK
<1>1. Init => TypeOK
  BY InitTyped
<1>2. TypeOK /\ [Next]_vars => TypeOK'
  BY TypeStep
<1> QED BY <1>1, <1>2, PTL DEF Spec

(***************************************************************************)
(* A port of a node is exclusive. What changes the hops of a rule either   *)
(* places them on free ports or removes some of them.                      *)
(***************************************************************************)
Disjoint(g, h) ==
  g.node = h.node /\ g.port = h.port => protoNamespaces(g.proto) \cap protoNamespaces(h.proto) = {}

LEMMA Exclusive ==
  PortsExclusive <=>
    \A r, s \in DOMAIN rules : r # s =>
      \A i \in DOMAIN rules[r].hops, j \in DOMAIN rules[s].hops :
        Disjoint(rules[r].hops[i], rules[s].hops[j])
BY DEF PortsExclusive, Disjoint

LEMMA FewerExclusive ==
  ASSUME PortsExclusive, DOMAIN rules' \subseteq DOMAIN rules,
         \A r \in DOMAIN rules' : \A k \in DOMAIN rules'[r].hops : \E i \in DOMAIN rules[r].hops :
           rules'[r].hops[k] = rules[r].hops[i]
  PROVE  PortsExclusive'
<1>1. ASSUME NEW r \in DOMAIN rules', NEW s \in DOMAIN rules', r # s,
             NEW i \in DOMAIN rules'[r].hops, NEW j \in DOMAIN rules'[s].hops
      PROVE  Disjoint(rules'[r].hops[i], rules'[s].hops[j])
  <2>1. PICK k \in DOMAIN rules[r].hops : rules'[r].hops[i] = rules[r].hops[k]
    OBVIOUS
  <2>2. PICK m \in DOMAIN rules[s].hops : rules'[s].hops[j] = rules[s].hops[m]
    OBVIOUS
  <2>3. Disjoint(rules[r].hops[k], rules[s].hops[m])
    BY <1>1, Exclusive
  <2> QED BY <2>1, <2>2, <2>3
<1> QED BY <1>1 DEF PortsExclusive, Disjoint

LEMMA PlaceExclusive ==
  ASSUME TypeOK, PortsExclusive, NEW q \in Requests, NEW r \in 1..MaxRules,
         req[q].head \in Headers, req[q].ins \in Seq(Wishes),
         NEW hops \in Regenerations(r, req[q].head, req[q].ins, req[q].avoid), Place(q, r, hops)
  PROVE  PortsExclusive'
<1>1. NodesTyped /\ RulesTyped
  BY DEF TypeOK
<1>2. \A i \in DOMAIN hops :
        /\ hops[i] \in HopRows /\ hops[i].proto = req[q].head.proto
        /\ hops[i].port \notin OccupiedPortsOnNode(hops[i].node, req[q].head.proto, r)
  <2>1. /\ hops \in Seq(HopRows)
        /\ \A i \in DOMAIN hops :
             /\ hops[i].proto = req[q].head.proto
             /\ hops[i].port \notin OccupiedPortsOnNode(hops[i].node, req[q].head.proto, r)
    <3>1. hops \in Seq(HopRows) /\ PlacedHops(r, req[q].head, req[q].ins, hops)
      BY <1>1, Placed
    <3> QED BY <3>1 DEF PlacedHops
  <2>2. \A i \in DOMAIN hops : hops[i] \in HopRows
    BY <2>1
  <2> QED BY <2>1, <2>2
<1>3. /\ DOMAIN rules' = DOMAIN rules \cup {r} /\ rules'[r].hops = hops
      /\ \A s \in DOMAIN rules : s # r => rules'[s] = rules[s]
  BY DEF Place, Row
<1>4. ASSUME NEW i \in DOMAIN hops, NEW s \in DOMAIN rules, s # r,
             NEW j \in DOMAIN rules[s].hops
      PROVE  Disjoint(hops[i], rules[s].hops[j])
  <2>1. SUFFICES ASSUME hops[i].node = rules[s].hops[j].node, hops[i].port = rules[s].hops[j].port,
                        Overlap(rules[s].hops[j].proto, req[q].head.proto)
                 PROVE  FALSE
    BY <1>2 DEF Disjoint, Overlap
  <2>2. hops[i].port \in Ports /\ s \in DOMAIN rules \ {r}
    BY <1>2, <1>4 DEF HopRows
  <2>3. hops[i].port \in OccupiedPortsOnNode(hops[i].node, req[q].head.proto, r)
    BY <2>1, <2>2 DEF OccupiedPortsOnNode
  <2> QED BY <1>2, <2>3
<1>5. ASSUME NEW s \in DOMAIN rules', NEW t \in DOMAIN rules', s # t,
             NEW i \in DOMAIN rules'[s].hops, NEW j \in DOMAIN rules'[t].hops
      PROVE  Disjoint(rules'[s].hops[i], rules'[t].hops[j])
  <2>1. CASE s = r
    BY <1>3, <1>4, <1>5, <2>1
  <2>2. CASE t = r
    <3>1. Disjoint(rules'[t].hops[j], rules'[s].hops[i])
      BY <1>3, <1>4, <1>5, <2>2
    <3> QED BY <3>1 DEF Disjoint
  <2>3. CASE s # r /\ t # r
    BY <1>3, <1>5, <2>3, Exclusive
  <2> QED BY <2>1, <2>2, <2>3
<1> QED BY <1>5 DEF PortsExclusive, Disjoint

\* Only these three actions change rules.
LEMMA RulesKept ==
  ASSUME [Next]_vars, \A q \in Requests : ~Write(q) /\ ~Drop(q) /\ ~DeleteNode(q)
  PROVE  rules' = rules
<1>1. ASSUME NEW q \in Requests, Reading(q)  PROVE rules' = rules
  <2>0. ASSUME NEW kind, NEW record, Start(q, kind, record)  PROVE rules' = rules
    BY <2>0 DEF Start
  <2>1. CASE apiMyCreateRule(q) \/ apiCreateRule(q) \/ handleRuleCreate(q)
    BY <2>0, <2>1 DEF apiMyCreateRule, apiCreateRule, handleRuleCreate
  <2>2. CASE apiMyUpdateRule(q) \/ apiUpdateRule(q) \/ handleRuleUpdate(q)
    BY <2>0, <2>2 DEF apiMyUpdateRule, apiUpdateRule, handleRuleUpdate
  <2>3. CASE apiReallocateRuleHop(q) \/ applyRuleHopEdit(q)
    BY <2>0, <2>3 DEF apiReallocateRuleHop, applyRuleHopEdit
  <2>4. CASE apiDeleteRule(q) \/ apiRevokeNode(q) \/ apiDeleteNode(q)
    BY <2>4 DEF apiDeleteRule, apiRevokeNode, apiDeleteNode, Start
  <2>5. CASE \/ apiSetNodeRelayHost(q) \/ apiSetNodeRelayHostV6(q)
             \/ apiSetNodeRelayFamilyDisabled(q)
    BY <2>5 DEF apiSetNodeRelayHost, apiSetNodeRelayHostV6, apiSetNodeRelayFamilyDisabled, Start
  <2> QED BY <1>1, <2>1, <2>2, <2>3, <2>4, <2>5 DEF Reading
<1>2. ASSUME NEW q \in Requests, Going(q)  PROVE rules' = rules
  BY <1>2 DEF Going, DeleteRulesForUserNode, UpdateNodeRelayHostV6, SetFamily, ListRules,
              apiRewireRules
<1>3. CASE apiUpdateNodePortRange \/ apiSetNodeNoDirectExit \/ apiGrantNode
  BY <1>3 DEF apiUpdateNodePortRange, apiSetNodeNoDirectExit, apiGrantNode, Setting
<1>4. ASSUME NEW n \in Physical, dispatchToNode(n)  PROVE rules' = rules
  BY <1>4 DEF dispatchToNode
<1> QED BY <1>1, <1>2, <1>3, <1>4 DEF Next, vars

LEMMA ExclusiveStep == TypeOK /\ PortsExclusive /\ [Next]_vars => PortsExclusive'
<1> SUFFICES ASSUME TypeOK, PortsExclusive, [Next]_vars  PROVE PortsExclusive'
  OBVIOUS
<1>1. ASSUME NEW q \in Requests, Write(q)  PROVE PortsExclusive'
  <2>1. CASE Refused(q)
    <3>1. rules' = rules
      BY <2>1 DEF Refused
    <3> QED BY <3>1 DEF PortsExclusive
  <2>2. CASE ~Refused(q)
    BY <1>1, <2>2, WriteCases, PlaceExclusive
  <2> QED BY <2>1, <2>2
<1>2. ASSUME NEW q \in Requests, Drop(q)  PROVE PortsExclusive'
  <2>1. DOMAIN rules' \subseteq DOMAIN rules /\ \A r \in DOMAIN rules' : rules'[r] = rules[r]
    BY <1>2 DEF Drop
  <2> QED BY <2>1, FewerExclusive
<1>3. ASSUME NEW q \in Requests, DeleteNode(q)  PROVE PortsExclusive'
  <2>1. NodesTyped /\ RulesTyped
    BY DEF TypeOK
  <2>2. DOMAIN rules' = {r \in DOMAIN rules : rules[r].node # req[q].node}
    BY <1>3, Deletion
  <2>3. ASSUME NEW r \in DOMAIN rules', NEW k \in DOMAIN rules'[r].hops
        PROVE  \E i \in DOMAIN rules[r].hops : rules'[r].hops[k] = rules[r].hops[i]
    <3>1. r \in DOMAIN rules /\ rules'[r].hops = Without(rules[r].hops, req[q].node)
      BY <1>3, <2>2, Deletion
    <3>2. Remaining(rules[r].hops, req[q].node, rules'[r].hops)
      BY <2>1, <3>1, WithoutFacts
    <3> QED BY <3>2 DEF Remaining
  <2> QED BY <2>2, <2>3, FewerExclusive
<1>4. CASE \A q \in Requests : ~Write(q) /\ ~Drop(q) /\ ~DeleteNode(q)
  BY <1>4, RulesKept DEF PortsExclusive
<1> QED BY <1>1, <1>2, <1>3, <1>4

\* No two rules listen on the same port of a node in the same namespace, whatever
\* requests allocate at the same time and however often chains are rewired
\* (RegenerateRule, OccupiedPortsOnNode).
THEOREM PortsAlwaysExclusive == Spec => []PortsExclusive
<1>1. Init => PortsExclusive
  BY DEF Init, PortsExclusive
<1>2. TypeOK /\ PortsExclusive /\ [Next]_vars => PortsExclusive'
  BY ExclusiveStep
<1> QED BY <1>1, <1>2, TypeCorrect, PTL DEF Spec

(***************************************************************************)
(* What the agents forward. A node that does not forward its hops has a    *)
(* push on its way, or is in the list of a request that will push it.      *)
(***************************************************************************)
InPush(c, n) == c.pc \in {"rewire", "rewrite", "list", "remove"} /\ n \in c.push
PushComing(n) == n \in todo \cup behind \/ \E q \in Requests : InPush(req[q], n)
LiveKept == \A n \in nodes \cap Physical : live[n] = Wanted(n) \/ PushComing(n)

HopsOn(r, n) ==
  IF r \in DOMAIN rules
  THEN {rules[r].hops[i] : i \in {j \in DOMAIN rules[r].hops : rules[r].hops[j].node = n}}
  ELSE {}

LEMMA WantedSame ==
  ASSUME NEW n, \A r : HopsOn(r, n)' = HopsOn(r, n)
  PROVE  Wanted(n)' = Wanted(n)
<1>1. \A x : x \in Wanted(n) <=> \E r : \E h \in HopsOn(r, n) : x = <<r, h>>
  BY DEF Wanted, HopsOn
<1>2. \A x : x \in Wanted(n)' <=> \E r : \E h \in HopsOn(r, n)' : x = <<r, h>>
  BY DEF Wanted, HopsOn
<1>3. \A x : x \in Wanted(n)' <=> x \in Wanted(n)
  BY <1>1, <1>2
<1> QED BY <1>3

LEMMA OffRoute ==
  ASSUME NEW r, NEW n, n \notin HopNodes(r)
  PROVE  HopsOn(r, n) = {}
BY DEF HopsOn, HopNodes

LEMMA OffRouteNext ==
  ASSUME NEW r, NEW n, n \notin HopNodes(r)'
  PROVE  HopsOn(r, n)' = {}
BY DEF HopsOn, HopNodes

LEMMA PushKept ==
  ASSUME NEW q \in Requests, NEW c, DOMAIN req = Requests, req' = [req EXCEPT ![q] = c],
         todo \subseteq todo', behind \subseteq behind',
         NEW n, InPush(req[q], n) => n \in todo' \/ InPush(c, n), PushComing(n)
  PROVE  PushComing(n)'
<1>1. \A p \in Requests : req'[p] = IF p = q THEN c ELSE req[p]
  OBVIOUS
<1>2. CASE n \in todo \cup behind
  BY <1>2 DEF PushComing
<1>3. CASE \E p \in Requests : InPush(req[p], n)
  <2>1. PICK p \in Requests : InPush(req[p], n)
    BY <1>3
  <2>2. CASE p = q
    BY <1>1, <2>1, <2>2 DEF PushComing, InPush
  <2>3. CASE p # q
    BY <1>1, <2>1, <2>3 DEF PushComing, InPush
  <2> QED BY <2>2, <2>3
<1> QED BY <1>2, <1>3 DEF PushComing

\* A step of a request that leaves rules and agents alone.
LEMMA CalmLive ==
  ASSUME TypeOK, LiveKept, NEW q \in Requests, NEW c, req' = [req EXCEPT ![q] = c],
         todo \subseteq todo', behind \subseteq behind', UNCHANGED <<nodes, live, rules>>,
         \A n \in Physical : InPush(req[q], n) => n \in todo' \/ InPush(c, n)
  PROVE  LiveKept'
<1>1. DOMAIN req = Requests
  BY DEF TypeOK, RequestsTyped
<1>2. \A n \in Physical : PushComing(n) => PushComing(n)'
  BY <1>1, PushKept
<1>3. \A n : Wanted(n)' = Wanted(n)
  BY DEF Wanted
<1> QED BY <1>2, <1>3 DEF LiveKept

LEMMA StartLive ==
  ASSUME TypeOK, LiveKept, NEW q \in Requests, NEW kind, NEW c, Start(q, kind, c)
  PROVE  LiveKept'
<1>1. /\ req[q].pc = "idle" /\ req' = [req EXCEPT ![q] = c]
      /\ UNCHANGED <<nodes, live, rules, todo, behind>>
  BY DEF Start, nodeVars, ghostVars
<1>2. \A n \in Physical : ~InPush(req[q], n)
  BY <1>1 DEF InPush
<1> QED BY <1>1, <1>2, CalmLive

LEMMA PlaceLive ==
  ASSUME TypeOK, LiveKept, NEW q \in Requests, Write(q), NEW r, NEW hops, Place(q, r, hops)
  PROVE  LiveKept'
<1> DEFINE push == Touched(HopNodes(r), hops)
<1>1. /\ req[q].pc \in {"write", "rewrite"} /\ UNCHANGED <<nodes, live, behind>>
      /\ DOMAIN req = Requests
  BY WriteCases DEF TypeOK, RequestsTyped, nodeVars
<1>2. /\ req' = [req EXCEPT ![q] = After(req[q], push)]
      /\ todo' = IF req[q].pc = "rewrite" THEN todo ELSE todo \cup push
      /\ DOMAIN rules' = DOMAIN rules \cup {r} /\ rules'[r].hops = hops
      /\ \A s \in DOMAIN rules : s # r => rules'[s] = rules[s]
  BY DEF Place, Row
<1>3. \A n \in push : PushComing(n)'
  <2>1. CASE req[q].pc = "rewrite"
    <3>1. req'[q] = Rewiring(req[q].list, req[q].push \cup push)
      BY <1>1, <1>2, <2>1 DEF After
    <3> HIDE DEF push
    <3>2. \A n \in push : InPush(req'[q], n)
      BY <3>1 DEF InPush, Rewiring
    <3> QED BY <3>2 DEF PushComing, InPush
  <2>2. CASE req[q].pc = "write"
    <3> HIDE DEF push
    <3> QED BY <1>2, <2>2 DEF PushComing
  <2> QED BY <1>1, <2>1, <2>2
<1>4. \A n \in Physical : PushComing(n) => PushComing(n)'
  <2>1. \A n : InPush(req[q], n) => InPush(After(req[q], push), n)
    <3> HIDE DEF push
    <3> QED BY <1>1 DEF InPush, After, Rewiring
  <2>2. todo \subseteq todo' /\ behind \subseteq behind'
    BY <1>1, <1>2
  <2> HIDE DEF push
  <2> QED BY <1>1, <1>2, <2>1, <2>2, PushKept
<1>5. ASSUME NEW n, n \notin push  PROVE Wanted(n)' = Wanted(n)
  <2>1. n \notin HopNodes(r) /\ n \notin HopNodes(r)'
    <3>1. HopNodes(r)' = {hops[i].node : i \in DOMAIN hops}
      BY <1>2 DEF HopNodes
    <3> QED BY <1>5, <3>1 DEF Touched
  <2>2. HopsOn(r, n) = {} /\ HopsOn(r, n)' = {}
    BY <2>1, OffRoute, OffRouteNext
  <2>3. \A s : s # r => HopsOn(s, n)' = HopsOn(s, n)
    BY <1>2 DEF HopsOn
  <2> QED BY <2>2, <2>3, WantedSame
<1> HIDE DEF push
<1> QED BY <1>1, <1>3, <1>4, <1>5 DEF LiveKept

LEMMA DropLive ==
  ASSUME TypeOK, LiveKept, NEW q \in Requests, Drop(q)
  PROVE  LiveKept'
<1>1. /\ req[q].pc = "drop" /\ DOMAIN req = Requests
      /\ rules' = [r \in DOMAIN rules \ req[q].rules |-> rules[r]]
      /\ behind' = behind \cup (NodesOf(req[q].rules) \ req[q].nodes)
      /\ UNCHANGED <<nodes, live>>
  BY DEF Drop, TypeOK, RequestsTyped, nodeVars
<1>2. PICK c : /\ req' = [req EXCEPT ![q] = c]
               /\ \/ todo' = todo \cup req[q].nodes
                  \/ todo' = todo /\ c.pc = "remove" /\ c.push = req[q].nodes
  <2>1. CASE req[q].also = {}
    BY <2>1 DEF Drop
  <2>2. CASE req[q].also # {}
    <3> DEFINE n == CHOOSE n \in req[q].also : TRUE
    <3>1. req' = [req EXCEPT ![q] = Removing(n, {}, req[q].nodes)] /\ todo' = todo
      BY <2>2 DEF Drop
    <3> HIDE DEF n
    <3>2. /\ Removing(n, {}, req[q].nodes).pc = "remove"
          /\ Removing(n, {}, req[q].nodes).push = req[q].nodes
      BY DEF Removing
    <3> QED BY <3>1, <3>2
  <2> QED BY <2>1, <2>2
<1>3. \A n \in Physical : PushComing(n) => PushComing(n)'
  <2>1. \A n : ~InPush(req[q], n)
    BY <1>1 DEF InPush
  <2>2. todo \subseteq todo' /\ behind \subseteq behind'
    BY <1>1, <1>2
  <2> QED BY <1>1, <1>2, <2>1, <2>2, PushKept
<1>4. \A n \in req[q].nodes : PushComing(n)'
  <2>1. req'[q] = c
    BY <1>1, <1>2
  <2> QED BY <1>2, <2>1 DEF PushComing, InPush
<1>5. ASSUME NEW n, n \notin NodesOf(req[q].rules)  PROVE Wanted(n)' = Wanted(n)
  <2>1. ASSUME NEW r  PROVE HopsOn(r, n)' = HopsOn(r, n)
    <3>1. CASE r \in req[q].rules
      <4>1. HopsOn(r, n) = {}
        BY <1>5, <3>1, OffRoute DEF NodesOf
      <4> QED BY <1>1, <3>1, <4>1 DEF HopsOn
    <3>2. CASE r \notin req[q].rules
      BY <1>1, <3>2 DEF HopsOn
    <3> QED BY <3>1, <3>2
  <2> QED BY <2>1, WantedSame
<1>6. \A n : n \in NodesOf(req[q].rules) \ req[q].nodes => PushComing(n)'
  BY <1>1 DEF PushComing
<1> QED BY <1>1, <1>3, <1>4, <1>5, <1>6 DEF LiveKept

LEMMA DeleteLive ==
  ASSUME TypeOK, LiveKept, NEW q \in Requests, DeleteNode(q)
  PROVE  LiveKept'
<1> DEFINE m == req[q].node
           R == {r \in DOMAIN rules : rules[r].node = m}
<1>1. /\ req[q].pc = "remove" /\ nodes' = nodes \ {m}
      /\ req' = [req EXCEPT ![q] = Rewiring(req[q].list, req[q].push)]
      /\ live' = live /\ todo' = todo /\ DOMAIN req = Requests
      /\ NodesTyped /\ RulesTyped
  BY Deletion DEF TypeOK, RequestsTyped
<1>2. behind' = behind \cup (NodesOf(R) \ {m})
  BY DEF DeleteNode
<1>3. \A n \in Physical : PushComing(n) => PushComing(n)'
  <2>1. \A n : InPush(req[q], n) => InPush(Rewiring(req[q].list, req[q].push), n)
    BY <1>1 DEF InPush, Rewiring
  <2>2. todo \subseteq todo' /\ behind \subseteq behind'
    BY <1>1, <1>2
  <2> QED BY <1>1, <2>1, <2>2, PushKept
<1>4. ASSUME NEW n, n # m, n \notin NodesOf(R)  PROVE Wanted(n)' = Wanted(n)
  <2>1. ASSUME NEW r  PROVE HopsOn(r, n)' = HopsOn(r, n)
    <3>1. DOMAIN rules' = {s \in DOMAIN rules : rules[s].node # m}
      BY Deletion
    <3>2. CASE r \in R
      <4>1. HopsOn(r, n) = {}
        BY <1>4, <3>2, OffRoute DEF NodesOf
      <4>2. r \notin DOMAIN rules'
        BY <3>1, <3>2
      <4> QED BY <4>1, <4>2 DEF HopsOn
    <3>3. CASE r \in DOMAIN rules /\ r \notin R
      <4>1. r \in DOMAIN rules /\ r \in DOMAIN rules' /\ rules'[r].hops = Without(rules[r].hops, m)
        BY <3>1, <3>3, Deletion
      <4>2. Remaining(rules[r].hops, m, rules'[r].hops)
        BY <1>1, <4>1, WithoutFacts
      <4> HIDE DEF m, R
      <4> QED BY <1>4, <4>1, <4>2 DEF HopsOn, Remaining
    <3>4. CASE r \notin DOMAIN rules
      <4>1. r \notin DOMAIN rules'
        BY <3>1, <3>4
      <4> QED BY <3>4, <4>1 DEF HopsOn
    <3> QED BY <3>2, <3>3, <3>4
  <2> QED BY <2>1, WantedSame
<1> HIDE DEF m, R
<1>5. \A n : n \in NodesOf(R) /\ n # m => PushComing(n)'
  BY <1>2 DEF PushComing
<1> QED BY <1>1, <1>3, <1>4, <1>5 DEF LiveKept

LEMMA DispatchLive ==
  ASSUME TypeOK, LiveKept, NEW n \in Physical, dispatchToNode(n)
  PROVE  LiveKept'
<1>1. /\ DOMAIN live = Physical /\ todo' = todo \ {n} /\ behind' = behind \ {n}
      /\ live' = IF n \in nodes THEN [live EXCEPT ![n] = Wanted(n)] ELSE live
      /\ UNCHANGED <<nodes, rules, req>>
  BY DEF dispatchToNode, TypeOK, nodeVars
<1>2. \A m : Wanted(m)' = Wanted(m)
  BY <1>1 DEF Wanted
<1>3. \A m : m # n /\ PushComing(m) => PushComing(m)'
  BY <1>1 DEF PushComing, InPush
<1>4. ASSUME NEW m \in nodes' \cap Physical  PROVE live'[m] = Wanted(m)' \/ PushComing(m)'
  <2>1. CASE m = n
    BY <1>1, <1>2, <2>1
  <2>2. CASE m # n
    BY <1>1, <1>2, <1>3, <2>2 DEF LiveKept
  <2> QED BY <2>1, <2>2
<1> QED BY <1>4 DEF LiveKept

LEMMA LiveStep == TypeOK /\ LiveKept /\ [Next]_vars => LiveKept'
<1> SUFFICES ASSUME TypeOK, LiveKept, [Next]_vars  PROVE LiveKept'
  OBVIOUS
<1>1. DOMAIN req = Requests
  BY DEF TypeOK, RequestsTyped
<1>2. ASSUME NEW q \in Requests,
             \/ apiMyCreateRule(q) \/ apiCreateRule(q) \/ handleRuleCreate(q)
             \/ apiMyUpdateRule(q) \/ apiUpdateRule(q) \/ handleRuleUpdate(q)
             \/ apiReallocateRuleHop(q) \/ applyRuleHopEdit(q)
             \/ apiDeleteRule(q) \/ apiDeleteNode(q)
             \/ apiSetNodeRelayHostV6(q) \/ apiSetNodeRelayFamilyDisabled(q)
      PROVE  LiveKept'
  <2>1. \E kind, c : Start(q, kind, c)
    BY <1>2 DEF apiMyCreateRule, apiCreateRule, handleRuleCreate, apiMyUpdateRule, apiUpdateRule,
                handleRuleUpdate, apiReallocateRuleHop, applyRuleHopEdit, apiDeleteRule,
                apiDeleteNode, apiSetNodeRelayHostV6, apiSetNodeRelayFamilyDisabled
  <2> QED BY <2>1, StartLive
<1>3. ASSUME NEW q \in Requests, NEW c, req' = [req EXCEPT ![q] = c],
             todo \subseteq todo', behind' = behind, UNCHANGED <<nodes, live, rules>>,
             \A n \in Physical : InPush(req[q], n) => n \in todo' \/ InPush(c, n)
      PROVE  LiveKept'
  BY <1>3, CalmLive
<1>4. ASSUME NEW q \in Requests,
             \/ apiRevokeNode(q) \/ apiSetNodeRelayHost(q)
             \/ DeleteRulesForUserNode(q) \/ UpdateNodeRelayHostV6(q) \/ SetFamily(q)
      PROVE  LiveKept'
  <2>1. /\ req[q].pc \in {"idle", "collect", "v6", "flip"}
        /\ \E c : req' = [req EXCEPT ![q] = c]
        /\ UNCHANGED <<nodes, live, rules, todo, behind>>
    BY <1>4 DEF apiRevokeNode, apiSetNodeRelayHost, DeleteRulesForUserNode, UpdateNodeRelayHostV6,
                SetFamily, nodeVars, ghostVars
  <2>2. \A n : ~InPush(req[q], n)
    BY <2>1 DEF InPush
  <2> QED BY <1>3, <2>1, <2>2
<1>5. ASSUME NEW q \in Requests, ListRules(q)  PROVE LiveKept'
  <2> DEFINE c == Rewiring(RulesReferencingNode(req[q].node), req[q].push)
  <2>1. /\ req[q].pc = "list" /\ req' = [req EXCEPT ![q] = c]
        /\ UNCHANGED <<nodes, live, rules, todo, behind>>
    BY <1>5 DEF ListRules, nodeVars, ghostVars
  <2>2. \A n : InPush(req[q], n) => InPush(c, n)
    BY DEF InPush, Rewiring
  <2> HIDE DEF c
  <2> QED BY <1>3, <2>1, <2>2
<1>6. ASSUME NEW q \in Requests, apiRewireRules(q)  PROVE LiveKept'
  <2>1. req[q].pc = "rewire" /\ UNCHANGED <<nodes, live, rules, behind>>
    BY <1>6 DEF apiRewireRules, nodeVars, ghostVars
  <2>2. CASE req[q].list = {}
    <3>1. todo' = todo \cup req[q].push /\ req' = [req EXCEPT ![q] = Idle]
      BY <1>6, <2>2 DEF apiRewireRules
    <3>2. \A n : InPush(req[q], n) => n \in todo'
      BY <3>1 DEF InPush
    <3> QED BY <1>3, <2>1, <3>1, <3>2
  <2>3. CASE req[q].list # {}
    <3>1. PICK c : /\ req' = [req EXCEPT ![q] = c] /\ todo' = todo
                   /\ c.pc \in {"rewire", "rewrite"} /\ c.push = req[q].push
      <4> DEFINE r == Min(req[q].list)
                 rest == req[q].list \ {r}
      <4>1. /\ todo' = todo
            /\ req' = [req EXCEPT ![q] =
                 IF r \notin DOMAIN rules \/ HopNodes(r) = {} THEN Rewiring(rest, req[q].push)
                 ELSE Rewriting(r, rest, req[q].push)]
        BY <1>6, <2>3 DEF apiRewireRules
      <4> HIDE DEF r, rest
      <4>2. \A list, push : /\ Rewiring(list, push).pc = "rewire"
                            /\ Rewiring(list, push).push = push
                            /\ Rewriting(r, list, push).pc = "rewrite"
                            /\ Rewriting(r, list, push).push = push
        BY DEF Rewiring, Rewriting
      <4>3. CASE r \notin DOMAIN rules \/ HopNodes(r) = {}
        <5> WITNESS Rewiring(rest, req[q].push)
        <5> QED BY <4>1, <4>2, <4>3
      <4>4. CASE ~(r \notin DOMAIN rules \/ HopNodes(r) = {})
        <5> WITNESS Rewriting(r, rest, req[q].push)
        <5> QED BY <4>1, <4>2, <4>4
      <4> QED BY <4>3, <4>4
    <3>2. \A n : InPush(req[q], n) => InPush(c, n)
      BY <3>1 DEF InPush
    <3> QED BY <1>3, <2>1, <3>1, <3>2
  <2> QED BY <2>2, <2>3
<1>7. ASSUME NEW q \in Requests, Write(q)  PROVE LiveKept'
  <2>1. CASE Refused(q)
    <3>1. /\ req[q].pc \in {"write", "rewrite"} /\ UNCHANGED <<nodes, live, behind, rules, todo>>
          /\ req' = [req EXCEPT ![q] = After(req[q], {})]
      BY <1>7, <2>1, WriteCases DEF Refused, nodeVars
    <3>2. \A n : InPush(req[q], n) => InPush(After(req[q], {}), n)
      BY <3>1 DEF InPush, After, Rewiring
    <3> QED BY <1>3, <3>1, <3>2
  <2>2. CASE ~Refused(q)
    BY <1>7, <2>2, WriteCases, PlaceLive
  <2> QED BY <2>1, <2>2
<1>8. CASE apiUpdateNodePortRange \/ apiSetNodeNoDirectExit \/ apiGrantNode
  <2>1. UNCHANGED <<nodes, live, rules, todo, behind, req>>
    BY <1>8 DEF apiUpdateNodePortRange, apiSetNodeNoDirectExit, apiGrantNode, Setting, ghostVars
  <2> QED BY <2>1 DEF LiveKept, Wanted, PushComing, InPush
<1>9. CASE UNCHANGED vars
  BY <1>9 DEF vars, nodeVars, ghostVars, LiveKept, Wanted, PushComing, InPush
<1>10. ASSUME NEW q \in Requests, Reading(q)  PROVE LiveKept'
  BY <1>2, <1>4, <1>10 DEF Reading
<1>11. ASSUME NEW q \in Requests, Going(q)  PROVE LiveKept'
  BY <1>4, <1>5, <1>6, <1>7, <1>11, DropLive, DeleteLive DEF Going
<1> QED BY <1>8, <1>9, <1>10, <1>11, DispatchLive DEF Next

\* When nothing is under way every node that exists forwards exactly the hops the
\* database holds for it, but for those a statement of the code forgets
\* (Touched, apiDispatchFanout, apiRewireRules, DeleteRulesForUserNode).
THEOREM LiveAlwaysMatches == Spec => []LiveMatches
<1>1. Init => LiveKept
  BY DEF Init, LiveKept, Wanted
<1>2. TypeOK /\ LiveKept /\ [Next]_vars => LiveKept'
  BY LiveStep
<1>3. LiveKept => LiveMatches
  BY DEF LiveKept, LiveMatches, PushComing, InPush, Idle
<1> QED BY <1>1, <1>2, <1>3, TypeCorrect, PTL DEF Spec

(***************************************************************************)
(* The grants of a path. A leg of a chain is a node with the member of the *)
(* path it stands for.                                                     *)
(***************************************************************************)
Legs(s) == {<<s[i].node, s[i].via>> : i \in DOMAIN s}
Members(v) == IF v \in Composite THEN ToSet(Children[v]) ELSE {v}

\* The legs of the path of a header, as far as their nodes exist.
Route(node, vias) ==
  {p \in nodes \X AllNodes : p[2] \in {node} \cup ToSet(vias) /\ p[1] \in Members(p[2])}
Known(s) == {p \in Legs(s) : p[1] \in nodes}

LEMMA SegmentLegs ==
  ASSUME NEW n \in AllNodes
  PROVE  /\ \A j \in DOMAIN expandSegment(n) :
              expandSegment(n)[j].via = n /\ expandSegment(n)[j].node \in Members(n)
         /\ \A m \in Members(n) \cap nodes : \E j \in DOMAIN expandSegment(n) :
              expandSegment(n)[j].node = m /\ expandSegment(n)[j].via = n
<1>1. CASE n \in Composite
  <2> DEFINE kids == Children[n]
             I == {i \in DOMAIN kids : kids[i] \in nodes}
             alive == AtIndices(kids, I)
             seg == [i \in DOMAIN alive |-> In(alive[i], n)]
  <2>1. kids \in Seq(Physical)
    BY <1>1, PlacementAssumption
  <2>2. I \in SUBSET DOMAIN kids
    OBVIOUS
  <2>3. \A i \in DOMAIN kids : kids[i] \in nodes => i \in I
    OBVIOUS
  <2>4. expandSegment(n) = seg
    BY <1>1 DEF expandSegment
  <2>5. \A i \in DOMAIN alive : seg[i].node = alive[i] /\ seg[i].via = n
    BY DEF In
  <2>6. DOMAIN seg = DOMAIN alive
    OBVIOUS
  <2>7. Members(n) = {kids[i] : i \in DOMAIN kids}
    BY <1>1 DEF Members, ToSet
  <2> HIDE DEF I, kids, seg
  <2>8. /\ \A k \in DOMAIN alive : \E i \in I : alive[k] = kids[i]
        /\ \A i \in I : \E k \in DOMAIN alive : alive[k] = kids[i]
    BY <2>1, <2>2, AtIndicesMembers
  <2> HIDE DEF alive
  <2>9. \A k \in DOMAIN alive : alive[k] \in Members(n)
    BY <2>2, <2>7, <2>8
  <2>10. \A m \in Members(n) \cap nodes : \E k \in DOMAIN alive : alive[k] = m
    BY <2>3, <2>7, <2>8
  <2> QED BY <2>4, <2>5, <2>6, <2>9, <2>10
<1>2. CASE n \notin Composite
  <2>1. expandSegment(n) = <<In(n, n)>> /\ Members(n) = {n}
    BY <1>2 DEF expandSegment, Members
  <2> QED BY <2>1 DEF In
<1> QED BY <1>1, <1>2

LEMMA DerivedLegs ==
  ASSUME NEW p \in AllNodes \X Seq(AllNodes)
  PROVE  Known(Derived(p)) = Route(p[1], p[2])
<1> DEFINE path == Path(p)
           segs == [i \in DOMAIN path |-> expandSegment(path[i])]
           d == Derived(p)
<1>1. /\ path \in Seq(AllNodes)
      /\ \A v : (\E i \in DOMAIN path : path[i] = v) <=> v \in {p[1]} \cup ToSet(p[2])
  BY PathTyped
<1>2. d = FlattenSeq(segs)
  BY DEF Derived
<1>3. DOMAIN segs = DOMAIN path /\ \A i \in DOMAIN path : segs[i] = expandSegment(path[i])
  OBVIOUS
<1>4. segs = [i \in DOMAIN segs |-> segs[i]]
  OBVIOUS
<1> HIDE DEF path, segs, d
<1>5. \A i \in DOMAIN path : path[i] \in AllNodes
  BY <1>1
<1>6. \A i \in DOMAIN segs : segs[i] \in Seq(Wishes)
  BY <1>3, <1>5, SegmentTyped
<1>7. segs \in Seq(Seq(Wishes))
  BY <1>1, <1>3, <1>4, <1>6, MappedSeq
<1>8. /\ \A k \in DOMAIN d : \E i \in DOMAIN segs : \E j \in DOMAIN segs[i] : d[k] = segs[i][j]
      /\ \A i \in DOMAIN segs : \A j \in DOMAIN segs[i] : \E k \in DOMAIN d : d[k] = segs[i][j]
  BY <1>2, <1>7, FlattenMembers
<1>9. ASSUME NEW k \in DOMAIN d
      PROVE  /\ d[k].via \in {p[1]} \cup ToSet(p[2]) /\ d[k].via \in AllNodes
             /\ d[k].node \in Members(d[k].via)
  <2>1. PICK i \in DOMAIN segs : \E j \in DOMAIN segs[i] : d[k] = segs[i][j]
    BY <1>8
  <2>2. d[k].via = path[i] /\ d[k].node \in Members(path[i])
    BY <1>3, <1>5, <2>1, SegmentLegs
  <2> QED BY <1>1, <1>3, <1>5, <2>2
<1>10. ASSUME NEW m \in nodes, NEW v \in {p[1]} \cup ToSet(p[2]), m \in Members(v)
       PROVE  \E k \in DOMAIN d : d[k].node = m /\ d[k].via = v
  <2>1. PICK i \in DOMAIN path : path[i] = v
    BY <1>1
  <2>2. \E j \in DOMAIN segs[i] : segs[i][j].node = m /\ segs[i][j].via = v
    BY <1>3, <1>5, <1>10, <2>1, SegmentLegs
  <2> QED BY <1>3, <1>8, <2>2
<1>11. Known(d) = Route(p[1], p[2])
  BY <1>9, <1>10 DEF Known, Legs, Route
<1> QED BY <1>11 DEF d

LEMMA PortLegs ==
  ASSUME NEW ins \in Seq(Wishes), NEW i, NEW port
  PROVE  Legs([ins EXCEPT ![i].port = port]) = Legs(ins)
<1> DEFINE e == [ins EXCEPT ![i].port = port]
<1>1. DOMAIN e = DOMAIN ins
  OBVIOUS
<1>2. ASSUME NEW j \in DOMAIN ins  PROVE e[j].node = ins[j].node /\ e[j].via = ins[j].via
  <2>1. e[j] = IF i = j THEN [ins[j] EXCEPT !.port = port] ELSE ins[j]
    OBVIOUS
  <2>2. ins[j] \in Wishes
    OBVIOUS
  <2> HIDE DEF e
  <2> QED BY <2>1, <2>2 DEF Wishes
<1> HIDE DEF e
<1>3. Legs(e) = Legs(ins)
  BY <1>1, <1>2 DEF Legs
<1> QED BY <1>3 DEF e

LEMMA EntryLegs ==
  ASSUME NEW ins \in Seq(Wishes), NEW port
  PROVE  Legs(AtEntry(ins, port)) = Legs(ins)
BY PortLegs DEF AtEntry

LEMMA ExistingLegs ==
  ASSUME NEW r
  PROVE  Legs(Existing(r)) = Legs(rules[r].hops)
BY DEF Legs, Existing, In

\* Unless it has overridden its path, a chain is the path of its header without
\* the nodes that are gone.
OnPath ==
  \A r \in DOMAIN rules \ exempt : Legs(rules[r].hops) = Route(rules[r].node, rules[r].vias)

\* So is the chain a request asks for, when it does not override the path.
Routed(c) ==
  c.pc \in {"write", "rewrite"} /\ ~(c.write /\ c.free) /\ c.rule \notin exempt =>
    Known(c.ins) = Route(c.head.node, c.head.vias)
AskedPath == \A q \in Requests : Routed(req[q])

\* A revocation under way will take the rule.
Taking(c, r, v) ==
  \/ c.pc = "collect" /\ c.user = rules[r].owner /\ c.node = v
  \/ c.pc = "drop" /\ r \in c.rules
Granted ==
  \A r \in DOMAIN rules \ exempt : \A i \in DOMAIN rules[r].hops :
    LET v == rules[r].hops[i].via IN
    v \in nodes => v \in grants[rules[r].owner] \/ \E q \in Requests : Taking(req[q], r, v)

LEMMA RouteShrinks ==
  ASSUME nodes' \subseteq nodes
  PROVE  /\ \A node, vias : Route(node, vias)' = {p \in Route(node, vias) : p[1] \in nodes'}
         /\ \A s : Known(s)' = {p \in Known(s) : p[1] \in nodes'}
<1>1. ASSUME NEW node, NEW vias  PROVE Route(node, vias)' = {p \in Route(node, vias) : p[1] \in nodes'}
  BY DEF Route, Members
<1>2. ASSUME NEW s  PROVE Known(s)' = {p \in Known(s) : p[1] \in nodes'}
  BY DEF Known, Legs
<1> QED BY <1>1, <1>2

LEMMA AskedKept ==
  ASSUME TypeOK, AskedPath, nodes' \subseteq nodes, exempt \subseteq exempt',
         NEW q \in Requests, NEW c, req' = [req EXCEPT ![q] = c], Routed(c)
  PROVE  AskedPath'
<1>1. ASSUME NEW d, Routed(d)  PROVE Routed(d)'
  <2>1. SUFFICES ASSUME d.pc \in {"write", "rewrite"}, ~(d.write /\ d.free), d.rule \notin exempt'
                 PROVE  Known(d.ins)' = Route(d.head.node, d.head.vias)'
    BY DEF Routed
  <2>2. Known(d.ins) = Route(d.head.node, d.head.vias)
    BY <1>1, <2>1 DEF Routed
  <2> QED BY <2>2, RouteShrinks
<1>2. DOMAIN req = Requests
  BY DEF TypeOK, RequestsTyped
<1>3. \A p \in Requests : req'[p] = IF p = q THEN c ELSE req[p]
  BY <1>2
<1>4. ASSUME NEW p \in Requests  PROVE Routed(req[p])'
  <2>1. PICK d : d = req'[p]
    OBVIOUS
  <2>2. Routed(d)
    BY <1>3, <2>1 DEF AskedPath
  <2>3. Routed(d)'
    BY <1>1, <2>2
  <2> QED BY <2>1, <2>3 DEF Routed
<1> QED BY <1>4 DEF AskedPath

\* Requests that carry no chain, or an overriding one.
LEMMA FreeRouted ==
  ASSUME NEW c, c.pc \notin {"write", "rewrite"} \/ (c.write /\ c.free)
  PROVE  Routed(c)
BY DEF Routed

LEMMA WritingRouted ==
  ASSUME NEW r, NEW head, NEW write, NEW ins, NEW avoid, NEW free,
         r \notin exempt => Known(ins) = Route(head.node, head.vias)
  PROVE  Routed(Writing(r, head, write, ins, avoid, free))
BY DEF Routed, Writing

\* A chain that exists follows the path of its rule, with a port named or not.
LEMMA ExistingRouted ==
  ASSUME TypeOK, OnPath, NEW r \in DOMAIN rules, r \notin exempt
  PROVE  /\ Known(Existing(r)) = Route(rules[r].node, rules[r].vias)
         /\ \A i, port : Known([Existing(r) EXCEPT ![i].port = port]) = Route(rules[r].node, rules[r].vias)
<1>1. /\ Existing(r) \in Seq(Wishes) /\ HopNodes(r) \subseteq nodes
  BY RuleFacts DEF TypeOK
<1>2. Legs(Existing(r)) = Route(rules[r].node, rules[r].vias)
  BY ExistingLegs DEF OnPath
<1>3. \A i, port : Legs([Existing(r) EXCEPT ![i].port = port]) = Legs(Existing(r))
  BY <1>1, PortLegs
<1>4. \A x \in Route(rules[r].node, rules[r].vias) : x[1] \in nodes
  BY DEF Route
<1> QED BY <1>2, <1>3, <1>4 DEF Known

LEMMA DerivedRouted ==
  ASSUME NEW p \in AllNodes \X Seq(AllNodes), NEW port
  PROVE  /\ Known(Derived(p)) = Route(p[1], p[2])
         /\ Known(AtEntry(Derived(p), port)) = Route(p[1], p[2])
<1>1. Derived(p) \in Seq(Wishes)
  BY DerivedTyped
<1>2. Known(Derived(p)) = Route(p[1], p[2])
  BY DerivedLegs
<1>3. Legs(AtEntry(Derived(p), port)) = Legs(Derived(p))
  BY <1>1, EntryLegs
<1> QED BY <1>2, <1>3 DEF Known

\* What a request is started with follows the path of its header.
LEMMA ReadsRouted ==
  ASSUME TypeOK, OnPath, NEW q \in Requests,
         \/ apiMyCreateRule(q) \/ apiCreateRule(q) \/ handleRuleCreate(q)
         \/ apiMyUpdateRule(q) \/ apiUpdateRule(q) \/ handleRuleUpdate(q)
         \/ apiReallocateRuleHop(q) \/ applyRuleHopEdit(q)
  PROVE  \E kind, c : Start(q, kind, c) /\ Routed(c)
<1>1. \A p \in Paths : p \in AllNodes \X Seq(AllNodes)
  BY PlacementAssumption
<1>2. ASSUME NEW r \in DOMAIN rules
      PROVE  <<rules[r].node, rules[r].vias>> \in AllNodes \X Seq(AllNodes)
  BY RuleFacts DEF TypeOK, RuleRows
<1>3. \A u, node, vias, proto, x :
        Header(u, node, vias, proto, x).node = node /\ Header(u, node, vias, proto, x).vias = vias
  BY DEF Header
<1>4. \A r : HeaderOf(r).node = rules[r].node /\ HeaderOf(r).vias = rules[r].vias
  BY DEF HeaderOf, Header
<1>5. ASSUME NEW p \in AllNodes \X Seq(AllNodes), NEW r, NEW u, NEW proto, NEW x, NEW port
      PROVE  /\ Routed(Writing(r, Header(u, p[1], p[2], proto, x), TRUE, Derived(p), << >>, FALSE))
             /\ Routed(Writing(r, Header(u, p[1], p[2], proto, x), TRUE,
                               AtEntry(Derived(p), port), << >>, FALSE))
  <2>1. PICK head : /\ head = Header(u, p[1], p[2], proto, x)
                    /\ head.node = p[1] /\ head.vias = p[2]
    BY <1>3
  <2>2. /\ Known(Derived(p)) = Route(head.node, head.vias)
        /\ Known(AtEntry(Derived(p), port)) = Route(head.node, head.vias)
    BY <2>1, DerivedRouted
  <2>3. /\ Routed(Writing(r, head, TRUE, Derived(p), << >>, FALSE))
        /\ Routed(Writing(r, head, TRUE, AtEntry(Derived(p), port), << >>, FALSE))
    BY <2>2, WritingRouted
  <2> QED BY <2>1, <2>3
<1>6. \A r, head, ins, avoid : Routed(Writing(r, head, TRUE, ins, avoid, TRUE))
  BY DEF Routed, Writing
<1>7. ASSUME NEW r \in DOMAIN rules, NEW avoid, NEW i, NEW port
      PROVE  /\ Routed(Writing(r, HeaderOf(r), FALSE, Existing(r), avoid, TRUE))
             /\ Routed(Writing(r, HeaderOf(r), FALSE, [Existing(r) EXCEPT ![i].port = port], avoid, TRUE))
  BY <1>4, ExistingRouted, WritingRouted
<1>8. ASSUME NEW r \in DOMAIN rules, NEW u, NEW proto, NEW x
      PROVE  Routed(Writing(r, Header(u, rules[r].node, rules[r].vias, proto, x), TRUE,
                            Existing(r), << >>, FALSE))
  <2>1. PICK head : /\ head = Header(u, rules[r].node, rules[r].vias, proto, x)
                    /\ head.node = rules[r].node /\ head.vias = rules[r].vias
    BY <1>3
  <2>2. r \notin exempt => Known(Existing(r)) = Route(head.node, head.vias)
    BY <2>1, ExistingRouted
  <2>3. Routed(Writing(r, head, TRUE, Existing(r), << >>, FALSE))
    BY <2>2, WritingRouted
  <2> QED BY <2>1, <2>3
<1>9. CASE apiMyCreateRule(q)
  <2>1. PICK u \in Users, p \in Paths, proto \in Protos, x \in Exits, port \in Asked :
          Start(q, "create", Writing(0, Header(u, p[1], p[2], proto, x), TRUE,
                                     AtEntry(Derived(p), port), << >>, FALSE))
    BY <1>9 DEF apiMyCreateRule
  <2> QED BY <1>1, <1>5, <2>1
<1>10. CASE apiCreateRule(q)
  <2>1. PICK u \in Users, proto \in Protos, x \in Exits :
          \/ \E p \in Paths :
               Start(q, "create", Writing(0, Header(u, p[1], p[2], proto, x), TRUE,
                                          Derived(p), << >>, FALSE))
          \/ \E c \in Chains :
               Start(q, "create", Writing(0, Header(u, c[1], << >>, proto, x), TRUE,
                                          Explicit(c), << >>, TRUE))
    BY <1>10 DEF apiCreateRule
  <2> QED BY <1>1, <1>5, <1>6, <2>1
<1>11. CASE handleRuleCreate(q)
  <2>1. \E n \in Physical \cap nodes, proto \in Protos, x \in Exits, port \in Asked :
          Start(q, "agent", Writing(0, Header(OwnerOf[n], n, << >>, proto, x), TRUE,
                                    AtEntry(<<In(n, n)>>, port), << >>, TRUE))
    BY <1>11 DEF handleRuleCreate
  <2> QED BY <1>6, <2>1
<1>12. CASE apiMyUpdateRule(q)
  <2>1. PICK r \in DOMAIN rules, proto \in Protos, x \in Exits, port \in Asked :
          \E p \in Paths \cup {<<rules[r].node, rules[r].vias>>} :
            Start(q, "edit", Writing(r, Header(rules[r].owner, p[1], p[2], proto, x), TRUE,
                                     AtEntry(Derived(p), port), << >>, FALSE))
    BY <1>12 DEF apiMyUpdateRule
  <2>2. PICK p \in Paths \cup {<<rules[r].node, rules[r].vias>>} :
          Start(q, "edit", Writing(r, Header(rules[r].owner, p[1], p[2], proto, x), TRUE,
                                   AtEntry(Derived(p), port), << >>, FALSE))
    BY <2>1
  <2>3. p \in AllNodes \X Seq(AllNodes)
    BY <1>1, <1>2
  <2> QED BY <1>5, <2>2, <2>3
<1>13. CASE apiUpdateRule(q)
  <2>1. PICK r \in DOMAIN rules, proto \in Protos, x \in Exits :
          \/ \E p \in Paths :
               Start(q, "edit", Writing(r, Header(rules[r].owner, p[1], p[2], proto, x), TRUE,
                                        Derived(p), << >>, FALSE))
          \/ Start(q, "edit", Writing(r, Header(rules[r].owner, rules[r].node, rules[r].vias,
                                                proto, x), TRUE, Existing(r), << >>, FALSE))
          \/ \E c \in Chains :
               Start(q, "edit", Writing(r, Header(rules[r].owner, rules[r].node, rules[r].vias,
                                                  proto, x), TRUE, Explicit(c), << >>, TRUE))
    BY <1>13 DEF apiUpdateRule
  <2> QED BY <1>1, <1>5, <1>6, <1>8, <2>1
<1>14. CASE handleRuleUpdate(q)
  <2>1. \E n \in Physical \cap nodes, r \in DOMAIN rules, proto \in Protos, x \in Exits :
          Start(q, "agent", Writing(r, Header(OwnerOf[n], rules[r].node, rules[r].vias, proto, x),
                                    TRUE, <<In(n, n)>>, << >>, TRUE))
    BY <1>14 DEF handleRuleUpdate
  <2> QED BY <1>6, <2>1
<1>15. CASE apiReallocateRuleHop(q)
  <2>1. PICK r \in DOMAIN rules : \E i :
          \/ \E port \in Asked \ {0} :
               Start(q, "port", Writing(r, HeaderOf(r), FALSE,
                                        [Existing(r) EXCEPT ![i].port = port], << >>, TRUE))
          \/ Start(q, "port", Writing(r, HeaderOf(r), FALSE, Existing(r),
                          [n \in {rules[r].hops[i].node} |-> rules[r].hops[i].port], TRUE))
    BY <1>15 DEF apiReallocateRuleHop
  <2> QED BY <1>7, <2>1
<1>16. CASE applyRuleHopEdit(q)
  <2>1. PICK r \in DOMAIN rules : \E i : \E port \in Asked \ {0} :
          Start(q, "agent", Writing(r, HeaderOf(r), FALSE,
                                    [Existing(r) EXCEPT ![i].port = port], << >>, TRUE))
    BY <1>16 DEF applyRuleHopEdit
  <2> QED BY <1>7, <2>1
<1> QED BY <1>9, <1>10, <1>11, <1>12, <1>13, <1>14, <1>15, <1>16

\* A step that leaves chains, nodes and grants alone, or grants more.
LEMMA CalmGranted ==
  ASSUME TypeOK, OnPath, Granted, UNCHANGED <<nodes, rules, exempt>>,
         \A u \in Users : grants[u] \subseteq grants'[u],
         NEW q \in Requests, NEW c, req' = [req EXCEPT ![q] = c], req[q].pc \notin {"collect", "drop"}
  PROVE  OnPath' /\ Granted'
<1>1. OnPath'
  BY DEF OnPath, Legs, Route, Members
<1>2. DOMAIN req = Requests /\ \A r \in DOMAIN rules : rules[r].owner \in Users
  BY RuleFacts DEF TypeOK, RequestsTyped, RuleRows
<1>3. \A p \in Requests : req'[p] = IF p = q THEN c ELSE req[p]
  BY <1>2
<1>4. ASSUME NEW p \in Requests, NEW r, NEW v, Taking(req[p], r, v)  PROVE Taking(req[p], r, v)'
  BY <1>3, <1>4 DEF Taking
<1>5. Granted'
  BY <1>2, <1>4 DEF Granted
<1> QED BY <1>1, <1>5

LEMMA PlaceGranted ==
  ASSUME TypeOK, OnPath, AskedPath, Granted, NEW q \in Requests, Write(q), NEW r \in 1..MaxRules,
         \/ req[q].rule = 0 /\ r = made + 1 /\ req[q].write /\ r \notin DOMAIN rules
         \/ req[q].rule = r /\ r \in DOMAIN rules,
         NEW hops \in Regenerations(r, req[q].head, req[q].ins, req[q].avoid), Place(q, r, hops)
  PROVE  OnPath' /\ AskedPath' /\ Granted'
<1> DEFINE c == req[q]
           head == IF c.write THEN c.head ELSE HeaderOf(r)
           push == Touched(HopNodes(r), hops)
           family == Family(hops[1].node, c.head.proto)
<1>1. /\ UNCHANGED <<nodes, grants>> /\ c.pc \in {"write", "rewrite"}
      /\ c.head \in Headers /\ c.ins \in Seq(Wishes)
      /\ NodesTyped /\ RulesTyped /\ DOMAIN req = Requests
  BY WriteCases DEF TypeOK, RequestsTyped, nodeVars
<1>2. /\ DOMAIN rules' = DOMAIN rules \cup {r} /\ rules'[r] = Row(head, hops, family)
      /\ \A s \in DOMAIN rules : s # r => rules'[s] = rules[s]
      /\ req' = [req EXCEPT ![q] = After(c, push)]
  BY DEF Place
<1>3. /\ exempt \subseteq exempt'
      /\ r \notin exempt' =>
           \/ c.write /\ ~c.free /\ MayUse(head.owner, head.node, head.vias)
           \/ ~c.write /\ HeaderOf(r) = c.head
  BY DEF Place
<1>4. /\ rules'[r].node = head.node /\ rules'[r].vias = head.vias /\ rules'[r].owner = head.owner
      /\ rules'[r].hops = hops
  BY <1>2 DEF Row
<1>5. /\ Placeable(c.ins, c.head.proto) /\ DOMAIN hops = DOMAIN c.ins
      /\ \A i \in DOMAIN hops : hops[i].node = c.ins[i].node /\ hops[i].via = c.ins[i].via
  <2>1. /\ Placeable(req[q].ins, req[q].head.proto) /\ DOMAIN hops = DOMAIN req[q].ins
        /\ PlacedHops(r, req[q].head, req[q].ins, hops)
    BY <1>1, Placed
  <2> QED BY <2>1 DEF PlacedHops
<1>6. Legs(hops) = Known(c.ins)
  <2>1. \A i \in DOMAIN c.ins : c.ins[i].node \in nodes
    BY <1>5 DEF Placeable
  <2> HIDE DEF c
  <2>2. Legs(hops) = Legs(c.ins)
    BY <1>5 DEF Legs
  <2>3. \A x \in Legs(c.ins) : x[1] \in nodes
    BY <2>1 DEF Legs
  <2> QED BY <2>2, <2>3 DEF Known
<1>7. ASSUME r \notin exempt'  PROVE Legs(hops) = Route(head.node, head.vias)
  <2>1. ~(c.write /\ c.free) /\ head = c.head
    BY <1>3, <1>7
  <2>2. c.rule \notin exempt
    <3>1. exempt \subseteq 1..made
      BY DEF TypeOK
    <3> QED BY <1>3, <1>7, <3>1
  <2>3. Known(c.ins) = Route(c.head.node, c.head.vias)
    BY <1>1, <2>1, <2>2 DEF AskedPath, Routed
  <2> QED BY <1>6, <2>1, <2>3
<1>8. AskedPath'
  <2>1. Routed(After(c, push))
    <3> HIDE DEF push
    <3> QED BY <1>1, FreeRouted DEF After, Rewiring, Idle
  <2> HIDE DEF push, c
  <2> QED BY <1>1, <1>2, <1>3, <2>1, AskedKept
<1>9. \A node, vias : Route(node, vias)' = Route(node, vias)
  BY <1>1 DEF Route, Members
<1> HIDE DEF head, family, push
<1>10. OnPath'
  <2>1. ASSUME NEW s \in DOMAIN rules' \ exempt'
        PROVE  Legs(rules[s].hops)' = Route(rules'[s].node, rules'[s].vias)
    <3>1. CASE s = r
      BY <1>4, <1>7, <2>1, <3>1 DEF Legs
    <3>2. CASE s # r
      <4>1. s \in DOMAIN rules \ exempt /\ rules'[s] = rules[s]
        BY <1>2, <1>3, <2>1, <3>2
      <4> QED BY <4>1 DEF OnPath, Legs
    <3> QED BY <3>1, <3>2
  <2> QED BY <1>1, <2>1 DEF OnPath, Legs, Route, Members
<1>11. ASSUME NEW p \in Requests, NEW s \in DOMAIN rules, NEW v, Taking(req[p], s, v),
              rules'[s].owner = rules[s].owner
       PROVE  Taking(req[p], s, v)'
  <2>1. p # q
    BY <1>1, <1>11 DEF Taking
  <2>2. req'[p] = req[p]
    BY <1>1, <1>2, <2>1
  <2> QED BY <1>11, <2>2 DEF Taking
<1>12. ASSUME NEW s \in DOMAIN rules' \ exempt', NEW i \in DOMAIN rules'[s].hops,
              rules'[s].hops[i].via \in nodes
       PROVE  \/ rules'[s].hops[i].via \in grants[rules'[s].owner]
              \/ \E p \in Requests : Taking(req[p], s, rules[s].hops[i].via)'
  <2>1. CASE s # r
    <3>1. s \in DOMAIN rules \ exempt /\ rules'[s] = rules[s]
      BY <1>2, <1>3, <1>12, <2>1
    <3>2. \/ rules[s].hops[i].via \in grants[rules[s].owner]
          \/ \E p \in Requests : Taking(req[p], s, rules[s].hops[i].via)
      BY <1>12, <3>1 DEF Granted
    <3>3. \A p \in Requests : Taking(req[p], s, rules[s].hops[i].via) => Taking(req[p], s, rules[s].hops[i].via)'
      BY <1>11, <3>1 DEF Taking
    <3> QED BY <3>1, <3>2, <3>3
  <2>2. CASE s = r
    <3> DEFINE v == hops[i].via
    <3>1. <<hops[i].node, v>> \in Route(head.node, head.vias) /\ i \in DOMAIN hops
      BY <1>4, <1>7, <1>12, <2>2 DEF Legs
    <3>2. v \in {head.node} \cup ToSet(head.vias)
      BY <3>1 DEF Route
    <3>3. CASE c.write /\ ~c.free /\ MayUse(head.owner, head.node, head.vias)
      BY <1>4, <2>2, <3>2, <3>3 DEF MayUse
    <3>4. CASE ~c.write /\ HeaderOf(r) = c.head
      <4>1. r \in DOMAIN rules \ exempt /\ head = HeaderOf(r)
        BY <1>3, <1>12, <2>2, <3>4 DEF head
      <4>2. head.node = rules[r].node /\ head.vias = rules[r].vias /\ head.owner = rules[r].owner
        BY <4>1 DEF HeaderOf, Header
      <4>3. <<hops[i].node, v>> \in Legs(rules[r].hops)
        BY <3>1, <4>1, <4>2 DEF OnPath
      <4>4. PICK j \in DOMAIN rules[r].hops : rules[r].hops[j].via = v
        BY <4>3 DEF Legs
      <4>5. v \in grants[rules[r].owner] \/ \E p \in Requests : Taking(req[p], r, v)
        BY <1>4, <1>12, <2>2, <4>1, <4>4 DEF Granted
      <4>6. \A p \in Requests : Taking(req[p], r, v) => Taking(req[p], r, rules[r].hops[i].via)'
        BY <1>4, <1>11, <4>1, <4>2 DEF Taking
      <4> QED BY <1>4, <2>2, <4>2, <4>5, <4>6
    <3> QED BY <1>3, <1>12, <2>2, <3>3, <3>4
  <2> QED BY <2>1, <2>2
<1>13. Granted'
  BY <1>1, <1>12 DEF Granted
<1> QED BY <1>8, <1>10, <1>13

LEMMA SamePath ==
  ASSUME OnPath, UNCHANGED <<nodes, rules, exempt>>
  PROVE  OnPath'
BY DEF OnPath, Legs, Route, Members

LEMMA SameAsked ==
  ASSUME AskedPath, UNCHANGED <<nodes, exempt, req>>
  PROVE  AskedPath'
<1>1. \A c : Routed(c) => Routed(c)'
  BY DEF Routed, Known, Legs, Route, Members
<1>2. ASSUME NEW q \in Requests  PROVE Routed(req[q])'
  <2>1. PICK c : c = req[q]
    OBVIOUS
  <2>2. Routed(c)'
    BY <1>1, <2>1 DEF AskedPath
  <2> QED BY <2>1, <2>2 DEF Routed
<1> QED BY <1>2 DEF AskedPath

LEMMA SameGranted ==
  ASSUME TypeOK, Granted, UNCHANGED <<nodes, rules, exempt, req>>,
         \A u \in Users : grants[u] \subseteq grants'[u]
  PROVE  Granted'
<1>1. \A r \in DOMAIN rules : rules[r].owner \in Users
  BY RuleFacts DEF TypeOK, RuleRows
<1> QED BY <1>1 DEF Granted, Taking

LEMMA RevokeGranted ==
  ASSUME TypeOK, OnPath, Granted, NEW q \in Requests, apiRevokeNode(q)
  PROVE  OnPath' /\ Granted'
<1>1. PICK u \in Users : \E n \in grants[u] :
        /\ grants' = [grants EXCEPT ![u] = @ \ {n}]
        /\ req' = [req EXCEPT ![q] = [pc |-> "collect", user |-> u, node |-> n]]
  BY DEF apiRevokeNode
<1>2. PICK n \in grants[u] :
        /\ grants' = [grants EXCEPT ![u] = @ \ {n}]
        /\ req' = [req EXCEPT ![q] = [pc |-> "collect", user |-> u, node |-> n]]
  BY <1>1
<1>3. req[q].pc = "idle" /\ UNCHANGED <<nodes, rules, exempt>> /\ DOMAIN req = Requests
  BY DEF apiRevokeNode, nodeVars, ghostVars, TypeOK, RequestsTyped
<1>4. OnPath'
  BY <1>3 DEF OnPath, Legs, Route, Members
<1>5. grants \in [Users -> SUBSET nodes]
  BY DEF TypeOK, NodesTyped
<1>6. \A p \in Requests : p # q => req'[p] = req[p]
  BY <1>2, <1>3
<1>7. ASSUME NEW p \in Requests, NEW r, NEW v, Taking(req[p], r, v)  PROVE Taking(req[p], r, v)'
  BY <1>3, <1>6, <1>7 DEF Taking
<1>8. \A r, v : v = n /\ rules[r].owner = u => Taking(req[q], r, v)'
  BY <1>2, <1>3 DEF Taking
<1>9. ASSUME NEW r \in DOMAIN rules \ exempt, NEW i \in DOMAIN rules[r].hops, NEW v,
             v = rules[r].hops[i].via, v \in nodes
      PROVE  v \in grants'[rules[r].owner] \/ \E p \in Requests : Taking(req[p], r, v)'
  <2>1. v \in grants[rules[r].owner] \/ \E p \in Requests : Taking(req[p], r, v)
    BY <1>9 DEF Granted
  <2>2. CASE \E p \in Requests : Taking(req[p], r, v)
    BY <1>7, <2>2
  <2>3. CASE v \in grants[rules[r].owner] /\ v = n /\ rules[r].owner = u
    BY <1>8, <2>3
  <2>4. CASE v \in grants[rules[r].owner] /\ ~(v = n /\ rules[r].owner = u)
    BY <1>2, <1>5, <2>4
  <2> QED BY <2>1, <2>2, <2>3, <2>4
<1>10. Granted'
  BY <1>3, <1>9 DEF Granted, Taking
<1> QED BY <1>4, <1>10

\* The rules a revocation collects are all the owner's that pass the node.
LEMMA CollectGranted ==
  ASSUME TypeOK, OnPath, Granted, NEW q \in Requests, DeleteRulesForUserNode(q)
  PROVE  OnPath' /\ Granted'
<1> DEFINE R == UsedBy(req[q].user, req[q].node)
<1>1. /\ req[q].pc = "collect" /\ UNCHANGED <<nodes, rules, exempt, grants>> /\ DOMAIN req = Requests
      /\ req' = [req EXCEPT ![q] = Dropping(R, NodesOf(R), {})]
  BY DEF DeleteRulesForUserNode, nodeVars, ghostVars, TypeOK, RequestsTyped
<1>2. OnPath'
  BY <1>1, SamePath
<1>3. req'[q].pc = "drop" /\ req'[q].rules = R /\ \A p \in Requests : p # q => req'[p] = req[p]
  BY <1>1 DEF Dropping
<1>4. ASSUME NEW r \in DOMAIN rules, NEW i \in DOMAIN rules[r].hops, NEW p \in Requests,
             Taking(req[p], r, rules[r].hops[i].via)
      PROVE  Taking(req[p], r, rules[r].hops[i].via)'
  <2>1. CASE p = q
    <3>1. r \in R
      BY <1>1, <1>4, <2>1 DEF Taking, UsedBy, OwnedBy, Via
    <3> QED BY <1>3, <2>1, <3>1 DEF Taking
  <2>2. CASE p # q
    BY <1>1, <1>3, <1>4, <2>2 DEF Taking
  <2> QED BY <2>1, <2>2
<1> HIDE DEF R
<1>5. ASSUME NEW r \in DOMAIN rules \ exempt, NEW i \in DOMAIN rules[r].hops,
             rules[r].hops[i].via \in nodes
      PROVE  \/ rules[r].hops[i].via \in grants[rules[r].owner]
             \/ \E p \in Requests : Taking(req[p], r, rules[r].hops[i].via)'
  BY <1>4, <1>5 DEF Granted
<1>6. Granted'
  BY <1>1, <1>5 DEF Granted, Taking
<1> QED BY <1>2, <1>6

LEMMA DropGranted ==
  ASSUME TypeOK, OnPath, Granted, NEW q \in Requests, Drop(q)
  PROVE  OnPath' /\ Granted'
<1>1. /\ req[q].pc = "drop" /\ DOMAIN req = Requests
      /\ DOMAIN rules' = DOMAIN rules \ req[q].rules
      /\ \A r \in DOMAIN rules' : rules'[r] = rules[r]
      /\ UNCHANGED <<nodes, grants, exempt>>
      /\ \A p \in Requests : p # q => req'[p] = req[p]
  <2>1. \E c : req' = [req EXCEPT ![q] = c]
    BY DEF Drop
  <2> QED BY <2>1 DEF Drop, TypeOK, RequestsTyped, nodeVars
<1>2. OnPath'
  BY <1>1 DEF OnPath, Legs, Route, Members
<1>3. ASSUME NEW r \in DOMAIN rules', NEW v, NEW p \in Requests, Taking(req[p], r, v)
      PROVE  Taking(req[p], r, v)'
  <2>1. p # q
    BY <1>1, <1>3 DEF Taking
  <2> QED BY <1>1, <1>3, <2>1 DEF Taking
<1>4. ASSUME NEW r \in DOMAIN rules' \ exempt, NEW i \in DOMAIN rules'[r].hops,
             rules'[r].hops[i].via \in nodes
      PROVE  \/ rules'[r].hops[i].via \in grants[rules'[r].owner]
             \/ \E p \in Requests : Taking(req[p], r, rules[r].hops[i].via)'
  <2>1. r \in DOMAIN rules \ exempt /\ rules'[r] = rules[r]
    BY <1>1
  <2>2. \/ rules[r].hops[i].via \in grants[rules[r].owner]
        \/ \E p \in Requests : Taking(req[p], r, rules[r].hops[i].via)
    BY <1>4, <2>1 DEF Granted
  <2>3. \A p \in Requests : Taking(req[p], r, rules[r].hops[i].via) => Taking(req[p], r, rules[r].hops[i].via)'
    BY <1>3, <2>1 DEF Taking
  <2> QED BY <2>1, <2>2, <2>3
<1>5. Granted'
  BY <1>1, <1>4 DEF Granted, Taking
<1> QED BY <1>2, <1>5

LEMMA DeleteGranted ==
  ASSUME TypeOK, OnPath, Granted, NEW q \in Requests, DeleteNode(q)
  PROVE  OnPath' /\ Granted'
<1> DEFINE n == req[q].node
<1>1. /\ req[q].pc = "remove" /\ nodes' = nodes \ {n} /\ grants' = [u \in Users |-> grants[u] \ {n}]
      /\ exempt' = exempt /\ NodesTyped /\ RulesTyped /\ DOMAIN req = Requests
      /\ \A p \in Requests : p # q => req'[p] = req[p]
  BY Deletion DEF TypeOK, RequestsTyped
<1>2. ASSUME NEW r \in DOMAIN rules'
      PROVE  /\ r \in DOMAIN rules /\ Remaining(rules[r].hops, n, rules'[r].hops)
             /\ rules'[r].node = rules[r].node /\ rules'[r].vias = rules[r].vias
             /\ rules'[r].owner = rules[r].owner /\ rules[r].owner \in Users
  <2>1. DOMAIN rules' = {s \in DOMAIN rules : rules[s].node # n}
    BY Deletion
  <2>2. r \in DOMAIN rules
    BY <2>1
  <2>3. /\ rules'[r].hops = Without(rules[r].hops, n)
        /\ rules'[r].node = rules[r].node /\ rules'[r].vias = rules[r].vias
        /\ rules'[r].owner = rules[r].owner
    BY Deletion
  <2>4. Remaining(rules[r].hops, n, rules'[r].hops)
    BY <1>1, <2>2, <2>3, WithoutFacts
  <2>5. rules[r].owner \in Users
    BY <1>1, <2>2, RuleFacts DEF RuleRows
  <2> QED BY <2>2, <2>3, <2>4, <2>5
<1> HIDE DEF n
<1>3. ASSUME NEW r \in DOMAIN rules' \ exempt
      PROVE  Legs(rules'[r].hops) = {p \in Route(rules'[r].node, rules'[r].vias) : p[1] \in nodes'}
  <2>1. Legs(rules'[r].hops) = {p \in Legs(rules[r].hops) : p[1] # n}
    <3>1. Remaining(rules[r].hops, n, rules'[r].hops)
      BY <1>2
    <3> DEFINE s == rules[r].hops
               t == rules'[r].hops
    <3>2. /\ \A k \in DOMAIN t : \E i \in DOMAIN s : t[k] = s[i] /\ s[i].node # n
          /\ \A i \in DOMAIN s : s[i].node # n => \E k \in DOMAIN t : t[k] = s[i]
      BY <3>1 DEF Remaining
    <3> HIDE DEF s, t
    <3>3. Legs(t) = {p \in Legs(s) : p[1] # n}
      BY <3>2 DEF Legs
    <3> QED BY <3>3 DEF s, t
  <2>2. Legs(rules[r].hops) = Route(rules'[r].node, rules'[r].vias)
    BY <1>2 DEF OnPath
  <2>3. \A p \in Route(rules'[r].node, rules'[r].vias) : p[1] \in nodes
    BY DEF Route
  <2> QED BY <1>1, <2>1, <2>2, <2>3
<1>4. OnPath'
  <2>1. \A node, vias : {p \in Route(node, vias) : p[1] \in nodes'} = Route(node, vias)'
    BY <1>1, RouteShrinks
  <2>2. ASSUME NEW r \in DOMAIN rules' \ exempt
        PROVE  Legs(rules[r].hops)' = Route(rules[r].node, rules[r].vias)'
    <3>1. PICK node, vias : node = rules'[r].node /\ vias = rules'[r].vias
      OBVIOUS
    <3>2. Legs(rules'[r].hops) = Route(node, vias)'
      BY <1>3, <2>1, <3>1
    <3> QED BY <3>1, <3>2 DEF Legs, Route, Members
  <2> QED BY <1>1, <2>2 DEF OnPath, Legs, Route, Members
<1>5. ASSUME NEW r \in DOMAIN rules', NEW v, NEW p \in Requests, Taking(req[p], r, v)
      PROVE  Taking(req[p], r, v)'
  <2>1. p # q
    BY <1>1, <1>5 DEF Taking
  <2>2. rules'[r].owner = rules[r].owner
    BY <1>2
  <2> QED BY <1>1, <1>5, <2>1, <2>2 DEF Taking
<1>6. ASSUME NEW r \in DOMAIN rules' \ exempt, NEW k \in DOMAIN rules'[r].hops, NEW v,
             v = rules'[r].hops[k].via, v \in nodes'
      PROVE  v \in grants'[rules'[r].owner] \/ \E p \in Requests : Taking(req[p], r, v)'
  <2>1. /\ r \in DOMAIN rules \ exempt /\ Remaining(rules[r].hops, n, rules'[r].hops)
        /\ rules'[r].owner = rules[r].owner /\ rules[r].owner \in Users
    BY <1>2
  <2>2. PICK i \in DOMAIN rules[r].hops : rules[r].hops[i].via = v
    BY <1>6, <2>1 DEF Remaining
  <2>3. v \in nodes /\ v # n
    BY <1>1, <1>6
  <2>4. v \in grants[rules[r].owner] \/ \E p \in Requests : Taking(req[p], r, v)
    BY <2>1, <2>2, <2>3 DEF Granted
  <2> QED BY <1>1, <1>5, <2>1, <2>3, <2>4
<1>7. Granted'
  BY <1>1, <1>6 DEF Granted, Taking
<1> QED BY <1>4, <1>7

LEMMA GrantedStep ==
  TypeOK /\ OnPath /\ AskedPath /\ Granted /\ [Next]_vars => OnPath' /\ AskedPath' /\ Granted'
<1> SUFFICES ASSUME TypeOK, OnPath, AskedPath, Granted, [Next]_vars
             PROVE  OnPath' /\ AskedPath' /\ Granted'
  OBVIOUS
<1>1. DOMAIN req = Requests
  BY DEF TypeOK, RequestsTyped
<1>2. ASSUME NEW q \in Requests, NEW c, req' = [req EXCEPT ![q] = c], Routed(c),
             nodes' \subseteq nodes, exempt' = exempt
      PROVE  AskedPath'
  BY <1>2, AskedKept
<1>3. ASSUME NEW q \in Requests, NEW kind, NEW c, Start(q, kind, c), Routed(c)
      PROVE  OnPath' /\ AskedPath' /\ Granted'
  <2>1. /\ req[q].pc = "idle" /\ req' = [req EXCEPT ![q] = c]
        /\ UNCHANGED <<nodes, rules, exempt, grants>>
    BY <1>3 DEF Start, nodeVars, ghostVars
  <2> QED BY <1>2, <1>3, <2>1, CalmGranted
<1>4. ASSUME NEW q \in Requests,
             \/ apiMyCreateRule(q) \/ apiCreateRule(q) \/ handleRuleCreate(q)
             \/ apiMyUpdateRule(q) \/ apiUpdateRule(q) \/ handleRuleUpdate(q)
             \/ apiReallocateRuleHop(q) \/ applyRuleHopEdit(q)
      PROVE  OnPath' /\ AskedPath' /\ Granted'
  BY <1>3, <1>4, ReadsRouted
<1>5. ASSUME NEW q \in Requests,
             \/ apiDeleteRule(q) \/ apiDeleteNode(q)
             \/ apiSetNodeRelayHostV6(q) \/ apiSetNodeRelayFamilyDisabled(q)
      PROVE  OnPath' /\ AskedPath' /\ Granted'
  <2>1. \E kind, c : Start(q, kind, c) /\ c.pc \in {"drop", "remove", "v6", "flip"}
    <3>1. \A R, N, also : Dropping(R, N, also).pc = "drop"
      BY DEF Dropping
    <3>2. \A n, list, push : Removing(n, list, push).pc = "remove"
      BY DEF Removing
    <3>3. CASE apiDeleteRule(q)
      BY <3>1, <3>3 DEF apiDeleteRule
    <3>4. CASE apiDeleteNode(q)
      BY <3>1, <3>2, <3>4 DEF apiDeleteNode
    <3>5. CASE apiSetNodeRelayHostV6(q)
      BY <3>5 DEF apiSetNodeRelayHostV6
    <3>6. CASE apiSetNodeRelayFamilyDisabled(q)
      BY <3>6 DEF apiSetNodeRelayFamilyDisabled
    <3> QED BY <1>5, <3>3, <3>4, <3>5, <3>6
  <2> QED BY <1>3, <2>1, FreeRouted
<1>6. ASSUME NEW q \in Requests,
             \/ apiSetNodeRelayHost(q) \/ UpdateNodeRelayHostV6(q) \/ SetFamily(q)
             \/ ListRules(q) \/ apiRewireRules(q)
      PROVE  OnPath' /\ AskedPath' /\ Granted'
  <2>1. /\ req[q].pc \in {"idle", "v6", "flip", "list", "rewire"}
        /\ UNCHANGED <<nodes, rules, exempt, grants>>
    BY <1>6 DEF apiSetNodeRelayHost, UpdateNodeRelayHostV6, SetFamily, ListRules, apiRewireRules,
                nodeVars, ghostVars
  <2>2. ASSUME NEW c, req' = [req EXCEPT ![q] = c], Routed(c)  PROVE OnPath' /\ AskedPath' /\ Granted'
    BY <1>2, <2>1, <2>2, CalmGranted
  <2>3. ASSUME NEW c, req' = [req EXCEPT ![q] = c], c.pc \in {"idle", "list", "rewire"}
        PROVE  OnPath' /\ AskedPath' /\ Granted'
    BY <2>2, <2>3, FreeRouted
  <2>4. CASE apiSetNodeRelayHost(q) \/ UpdateNodeRelayHostV6(q) \/ SetFamily(q) \/ ListRules(q)
    BY <2>3, <2>4 DEF apiSetNodeRelayHost, UpdateNodeRelayHostV6, SetFamily, ListRules,
                      Idle, Listing, Rewiring
  <2>5. CASE apiRewireRules(q)
    <3> DEFINE r == Min(req[q].list)
               rest == req[q].list \ {r}
    <3>1. \/ req' = [req EXCEPT ![q] = Idle]
          \/ req' = [req EXCEPT ![q] = Rewiring(rest, req[q].push)]
          \/ /\ r \in DOMAIN rules
             /\ req' = [req EXCEPT ![q] = Rewriting(r, rest, req[q].push)]
      BY <2>5 DEF apiRewireRules
    <3> HIDE DEF r, rest
    <3>2. r \in DOMAIN rules => Routed(Rewriting(r, rest, req[q].push))
      <4>1. HeaderOf(r).node = rules[r].node /\ HeaderOf(r).vias = rules[r].vias
        BY DEF HeaderOf, Header
      <4> QED BY <4>1, ExistingRouted DEF Routed, Rewriting
    <3> QED BY <2>2, <2>3, <3>1, <3>2 DEF Idle, Rewiring
  <2> QED BY <1>6, <2>4, <2>5
<1>7. ASSUME NEW q \in Requests, Write(q)  PROVE OnPath' /\ AskedPath' /\ Granted'
  <2>1. CASE Refused(q)
    <3>1. /\ req[q].pc \in {"write", "rewrite"} /\ UNCHANGED <<nodes, grants, rules, exempt>>
          /\ req' = [req EXCEPT ![q] = After(req[q], {})]
      BY <1>7, <2>1, WriteCases DEF Refused, nodeVars
    <3>2. Routed(After(req[q], {}))
      BY <3>1, FreeRouted DEF After, Rewiring, Idle
    <3> QED BY <1>2, <3>1, <3>2, CalmGranted
  <2>2. CASE ~Refused(q)
    BY <1>7, <2>2, WriteCases, PlaceGranted
  <2> QED BY <2>1, <2>2
<1>8. ASSUME NEW q \in Requests,
             apiRevokeNode(q) \/ DeleteRulesForUserNode(q) \/ Drop(q) \/ DeleteNode(q)
      PROVE  OnPath' /\ AskedPath' /\ Granted'
  <2>1. OnPath' /\ Granted'
    BY <1>8, RevokeGranted, CollectGranted, DropGranted, DeleteGranted
  <2>2. nodes' \subseteq nodes /\ exempt' = exempt
    BY <1>8 DEF apiRevokeNode, DeleteRulesForUserNode, Drop, DeleteNode, nodeVars, ghostVars
  <2>3. \E c : req' = [req EXCEPT ![q] = c] /\ c.pc \in {"collect", "drop", "idle", "remove", "rewire"}
    BY <1>8 DEF apiRevokeNode, DeleteRulesForUserNode, Drop, DeleteNode, Dropping, Removing,
                Rewiring, Idle
  <2> QED BY <1>2, <2>1, <2>2, <2>3, FreeRouted
<1>9. CASE apiUpdateNodePortRange \/ apiSetNodeNoDirectExit \/ apiGrantNode
  <2>1. UNCHANGED <<nodes, rules, exempt, req>>
    BY <1>9 DEF apiUpdateNodePortRange, apiSetNodeNoDirectExit, apiGrantNode, Setting, ghostVars
  <2>2. \A u \in Users : grants[u] \subseteq grants'[u]
    BY <1>9 DEF apiUpdateNodePortRange, apiSetNodeNoDirectExit, apiGrantNode, TypeOK, NodesTyped
  <2> QED BY <2>1, <2>2, SamePath, SameAsked, SameGranted
<1>10. ASSUME NEW n \in Physical, dispatchToNode(n)  PROVE OnPath' /\ AskedPath' /\ Granted'
  <2>1. UNCHANGED <<nodes, rules, exempt, req, grants>>
    BY <1>10 DEF dispatchToNode, nodeVars
  <2> QED BY <2>1, SamePath, SameAsked, SameGranted
<1>11. CASE UNCHANGED vars
  <2>1. UNCHANGED <<nodes, rules, exempt, req, grants>>
    BY <1>11 DEF vars, nodeVars, ghostVars
  <2> QED BY <2>1, SamePath, SameAsked, SameGranted
<1>12. ASSUME NEW q \in Requests, Reading(q)  PROVE OnPath' /\ AskedPath' /\ Granted'
  BY <1>4, <1>5, <1>6, <1>8, <1>12 DEF Reading
<1>13. ASSUME NEW q \in Requests, Going(q)  PROVE OnPath' /\ AskedPath' /\ Granted'
  BY <1>6, <1>7, <1>8, <1>13 DEF Going
<1> QED BY <1>9, <1>10, <1>11, <1>12, <1>13 DEF Next

\* When no revocation is under way no hop of a user goes through a node the user
\* is not granted, but for chains that override their path and those written by
\* a request that had checked before (DeleteRulesForUserNode, apiRevokeNode,
\* RegenerateRule).
THEOREM RevokedAlwaysGone == Spec => []RevokedGone
<1>1. Init => OnPath /\ AskedPath /\ Granted
  <2> SUFFICES ASSUME Init  PROVE OnPath /\ AskedPath /\ Granted
    OBVIOUS
  <2>1. DOMAIN rules = {} /\ \A q \in Requests : req[q] = Idle
    BY DEF Init
  <2> QED BY <2>1 DEF OnPath, AskedPath, Granted, Routed, Idle
<1>2. TypeOK /\ (OnPath /\ AskedPath /\ Granted) /\ [Next]_vars => (OnPath /\ AskedPath /\ Granted)'
  BY GrantedStep
<1>3. Granted => RevokedGone
  BY DEF Granted, RevokedGone, Taking
<1> QED BY <1>1, <1>2, <1>3, TypeCorrect, PTL DEF Spec

(***************************************************************************)
(* A chain hangs together, ends at its exit and can be entered, until a    *)
(* change of an address or the loss of a node makes a rewire pending.      *)
(***************************************************************************)
Linked(hops) ==
  \A i \in DOMAIN hops :
    IF i = Len(hops) THEN hops[i].to.port = 0
    ELSE hops[i].to = HopTo(hops[i + 1].node, hops[i + 1].port)
Ends(hops, proto, exit) ==
  \A i \in DOMAIN hops : hops[i].proto = proto /\ (i = Len(hops) => hops[i].to = ExitTo(exit))
Entered(hops, family) ==
  hops # << >> /\ family \in {"v6", "both"} => EffectiveRelayHosts(hops[1].node).v6 # 0
Fine(r) ==
  /\ Linked(rules[r].hops) /\ Entered(rules[r].hops, rules[r].family)
  /\ r \notin stale => Ends(rules[r].hops, rules[r].proto, rules[r].exit)

PendingBy(c, r) ==
  \/ c.pc \in {"rewire", "rewrite"} /\ r \in c.list
  \/ c.pc = "rewrite" /\ r = c.rule
  \/ c.pc = "list" /\ c.node \in HopNodes(r)

LEMMA Agreeing ==
  ChainAgrees <=>
    \A r \in DOMAIN rules \ unwired : Fine(r) \/ \E q \in Requests : PendingBy(req[q], r)
BY DEF ChainAgrees, ChainLinked, ExitAgrees, FamilyHeld, Fine, Linked, Ends, Entered, Pending,
       PendingBy

LEMMA AgreeingNext ==
  ASSUME \A r \in DOMAIN rules' \ unwired' : Fine(r)' \/ \E q \in Requests : PendingBy(req[q], r)'
  PROVE  ChainAgrees'
BY DEF ChainAgrees, ChainLinked, ExitAgrees, FamilyHeld, Fine, Linked, Ends, Entered, Pending,
       PendingBy

\* A chain stays fine while the addresses of its nodes stay.
LEMMA LinksKept ==
  ASSUME NEW hops \in Seq(HopRows), NEW family,
         \A i \in DOMAIN hops :
           EffectiveRelayHosts(hops[i].node)' = EffectiveRelayHosts(hops[i].node)
  PROVE  /\ Linked(hops) => Linked(hops)'
         /\ Entered(hops, family) => Entered(hops, family)'
<1>1. \A i \in DOMAIN hops : i # Len(hops) => i + 1 \in DOMAIN hops
  OBVIOUS
<1>2. \A i \in DOMAIN hops : \A port : HopTo(hops[i].node, port)' = HopTo(hops[i].node, port)
  <2> TAKE i \in DOMAIN hops
  <2> TAKE port
  <2>1. EffectiveRelayHosts(hops[i].node)' = EffectiveRelayHosts(hops[i].node)
    OBVIOUS
  <2>2. DialAddress(hops[i].node)' = DialAddress(hops[i].node)
    BY <2>1 DEF DialAddress
  <2> QED BY <2>2 DEF HopTo
<1>3. ASSUME Linked(hops) PROVE Linked(hops)'
  <2> SUFFICES ASSUME NEW i \in DOMAIN hops, i # Len(hops)
               PROVE  hops[i].to = HopTo(hops[i + 1].node, hops[i + 1].port)'
    BY <1>3 DEF Linked
  <2>1. i + 1 \in DOMAIN hops
    BY <1>1
  <2>2. hops[i].to = HopTo(hops[i + 1].node, hops[i + 1].port)
    BY <1>3 DEF Linked
  <2> QED BY <1>2, <2>1, <2>2
<1>4. hops # << >> => 1 \in DOMAIN hops
  OBVIOUS
<1>5. Entered(hops, family) => Entered(hops, family)'
  BY <1>4 DEF Entered
<1> QED BY <1>3, <1>5

\* The columns of a rule that the properties of its chain read.
SameChain(r) ==
  /\ rules'[r].hops = rules[r].hops /\ rules'[r].family = rules[r].family
  /\ rules'[r].proto = rules[r].proto /\ rules'[r].exit = rules[r].exit

LEMMA FineKept ==
  ASSUME TypeOK, NEW r \in DOMAIN rules, Fine(r), SameChain(r), r \in stale' <=> r \in stale,
         \A n \in HopNodes(r) : EffectiveRelayHosts(n)' = EffectiveRelayHosts(n)
  PROVE  Fine(r)'
<1>1. PICK hops, family, proto, exit :
        /\ hops = rules[r].hops /\ family = rules[r].family
        /\ proto = rules[r].proto /\ exit = rules[r].exit
  OBVIOUS
<1>2. /\ rules'[r].hops = hops /\ rules'[r].family = family
      /\ rules'[r].proto = proto /\ rules'[r].exit = exit
  BY <1>1 DEF SameChain
<1>3. hops \in Seq(HopRows)
  BY <1>1, RuleFacts DEF TypeOK
<1>4. ASSUME NEW i \in DOMAIN hops
      PROVE  EffectiveRelayHosts(hops[i].node)' = EffectiveRelayHosts(hops[i].node)
  <2>1. PICK n : n = hops[i].node
    OBVIOUS
  <2>2. n \in HopNodes(r)
    BY <1>1, <2>1 DEF HopNodes
  <2>3. EffectiveRelayHosts(n)' = EffectiveRelayHosts(n)
    BY <2>2
  <2> QED BY <2>1, <2>3 DEF EffectiveRelayHosts
<1>5. Linked(hops)' /\ Entered(hops, family)'
  <2>1. Linked(hops) /\ Entered(hops, family)
    BY <1>1 DEF Fine
  <2> QED BY <1>3, <1>4, <2>1, LinksKept
<1>6. r \notin stale' => Ends(hops, proto, exit)
  BY <1>1 DEF Fine
<1> QED BY <1>2, <1>5, <1>6 DEF Fine, Linked, Entered, Ends

LEMMA NoHops ==
  ASSUME TypeOK, NEW r \in DOMAIN rules, HopNodes(r) = {}
  PROVE  rules[r].hops = << >>
<1>1. PICK hops : hops = rules[r].hops
  OBVIOUS
<1>2. hops \in Seq(HopRows)
  BY <1>1, RuleFacts DEF TypeOK
<1>3. \A i \in DOMAIN hops : hops[i].node \in HopNodes(r)
  BY <1>1 DEF HopNodes
<1>4. hops # << >> => 1 \in DOMAIN hops
  BY <1>2
<1> QED BY <1>1, <1>3, <1>4

\* A step that changes no chain, and after which the request still has the rules
\* to rewire it had before, but for those without hops.
LEMMA CalmAgrees ==
  ASSUME TypeOK, ChainAgrees, DOMAIN rules' \subseteq DOMAIN rules,
         \A r \in DOMAIN rules' : rules'[r] = rules[r],
         UNCHANGED <<relay, off, stale>>, unwired \subseteq unwired',
         NEW q \in Requests, NEW c, req' = [req EXCEPT ![q] = c],
         \A r \in DOMAIN rules' \ unwired' :
           PendingBy(req[q], r) => PendingBy(c, r) \/ HopNodes(r) = {}
  PROVE  ChainAgrees'
<1>1. \A p \in Requests : req'[p] = IF p = q THEN c ELSE req[p]
  BY DEF TypeOK, RequestsTyped
<1>2. ASSUME NEW r \in DOMAIN rules' \ unwired'
      PROVE  Fine(r)' \/ \E p \in Requests : PendingBy(req[p], r)'
  <2>1. r \in DOMAIN rules \ unwired /\ rules'[r] = rules[r]
    OBVIOUS
  <2>2. HopNodes(r)' = HopNodes(r)
    BY <2>1 DEF HopNodes
  <2>3. CASE Fine(r)
    <3>1. \A n \in HopNodes(r) : EffectiveRelayHosts(n)' = EffectiveRelayHosts(n)
      BY DEF EffectiveRelayHosts
    <3>2. SameChain(r)
      BY <2>1 DEF SameChain
    <3> QED BY <2>1, <2>3, <3>1, <3>2, FineKept
  <2>4. CASE HopNodes(r) = {}
    <3>1. rules[r].hops = << >>
      BY <2>1, <2>4, NoHops
    <3>2. rules'[r].hops = << >>
      BY <2>1, <3>1
    <3> QED BY <3>2 DEF Fine, Linked, Ends, Entered
  <2>5. ASSUME NEW p \in Requests, PendingBy(req[p], r), HopNodes(r) # {}
        PROVE  PendingBy(req[p], r)'
    <3>1. PendingBy(req'[p], r)
      BY <1>1, <2>5
    <3> QED BY <2>2, <3>1 DEF PendingBy
  <2> QED BY <2>1, <2>3, <2>4, <2>5, Agreeing
<1> QED BY <1>2, AgreeingNext

LEMMA StartAgrees ==
  ASSUME TypeOK, ChainAgrees, NEW q \in Requests, NEW kind, NEW c, Start(q, kind, c)
  PROVE  ChainAgrees'
<1>1. /\ req[q].pc = "idle" /\ req' = [req EXCEPT ![q] = c]
      /\ UNCHANGED <<rules, relay, off, stale, unwired>>
  BY DEF Start, nodeVars, ghostVars
<1>2. \A r : ~PendingBy(req[q], r)
  BY <1>1 DEF PendingBy
<1> QED BY <1>1, <1>2, CalmAgrees

LEMMA PlaceAgrees ==
  ASSUME TypeOK, ChainAgrees, NEW q \in Requests, Write(q), NEW r \in 1..MaxRules,
         \/ req[q].rule = 0 /\ r = made + 1 /\ req[q].write /\ r \notin DOMAIN rules
         \/ req[q].rule = r /\ r \in DOMAIN rules,
         NEW hops \in Regenerations(r, req[q].head, req[q].ins, req[q].avoid), Place(q, r, hops)
  PROVE  ChainAgrees'
<1> DEFINE c == req[q]
           head == IF c.write THEN c.head ELSE HeaderOf(r)
           push == Touched(HopNodes(r), hops)
<1>1. /\ UNCHANGED <<relay, off>> /\ c.pc \in {"write", "rewrite"}
      /\ c.head \in Headers /\ c.ins \in Seq(Wishes)
      /\ NodesTyped /\ RulesTyped /\ DOMAIN req = Requests /\ RequestTyped(c)
  BY WriteCases DEF TypeOK, RequestsTyped, nodeVars
<1>2. PICK family : /\ family = Family(hops[1].node, c.head.proto)
                    /\ rules'[r] = Row(head, hops, family)
  BY DEF Place
<1>3. /\ DOMAIN rules' = DOMAIN rules \cup {r}
      /\ \A s \in DOMAIN rules : s # r => rules'[s] = rules[s]
      /\ req' = [req EXCEPT ![q] = After(c, push)] /\ unwired' = unwired \ {r}
      /\ stale' = IF ~c.write /\ HeaderOf(r) # c.head THEN stale \cup {r} ELSE stale \ {r}
  BY DEF Place
<1>4. /\ rules'[r].hops = hops /\ rules'[r].proto = head.proto /\ rules'[r].exit = head.exit
      /\ rules'[r].family = family
  BY <1>2 DEF Row
<1>5. /\ Placeable(req[q].ins, req[q].head.proto) /\ hops \in Seq(HopRows)
      /\ DOMAIN hops = DOMAIN req[q].ins /\ Len(hops) = Len(req[q].ins)
      /\ 1 \in DOMAIN hops /\ PlacedHops(r, req[q].head, req[q].ins, hops)
  BY <1>1, Placed
<1>6. Linked(hops)
  BY <1>5 DEF Linked, PlacedHops, ExitTo
<1>7. Ends(hops, c.head.proto, c.head.exit)
  BY <1>5 DEF Ends, PlacedHops
<1>8. Entered(hops, family)
  <2>1. Reachable(hops[1].node)
    BY <1>5 DEF Placeable, PlacedHops
  <2> QED BY <1>2, <2>1 DEF Entered, Family, Reachable
<1>9. r \notin stale' => head.proto = c.head.proto /\ head.exit = c.head.exit
  BY <1>3
<1> HIDE DEF head, push, c
<1>10. Fine(r)'
  <2>1. Linked(hops)' /\ Entered(hops, family)'
    BY <1>1, <1>6, <1>8 DEF Linked, Entered, HopTo, DialAddress, EffectiveRelayHosts
  <2>2. r \notin stale' => Ends(hops, rules'[r].proto, rules'[r].exit)
    BY <1>4, <1>7, <1>9
  <2> QED BY <1>4, <2>1, <2>2 DEF Fine, Linked, Entered, Ends
<1>11. ASSUME NEW s \in DOMAIN rules' \ unwired', s # r
       PROVE  Fine(s)' \/ \E p \in Requests : PendingBy(req[p], s)'
  <2>1. s \in DOMAIN rules \ unwired /\ rules'[s] = rules[s]
    BY <1>3, <1>11
  <2>2. CASE Fine(s)
    <3>1. \A n \in HopNodes(s) : EffectiveRelayHosts(n)' = EffectiveRelayHosts(n)
      BY <1>1 DEF EffectiveRelayHosts
    <3>2. SameChain(s)
      BY <2>1 DEF SameChain
    <3>3. s \in stale' <=> s \in stale
      BY <1>3, <1>11
    <3> QED BY <2>1, <2>2, <3>1, <3>2, <3>3, FineKept
  <2>3. ASSUME NEW p \in Requests, PendingBy(req[p], s)  PROVE PendingBy(req[p], s)'
    <3>1. HopNodes(s)' = HopNodes(s)
      BY <2>1 DEF HopNodes
    <3>2. PendingBy(req'[p], s)
      <4>1. CASE p # q
        BY <1>1, <1>3, <2>3, <4>1
      <4>2. CASE p = q
        <5>1. req'[p] = After(c, push)
          BY <1>1, <1>3, <4>2
        <5>2. c.pc = "rewrite" /\ s \in c.list
          <6>1. c.pc = "rewrite" => c.rule = r
            BY <1>1, <1>11 DEF c, RequestTyped
          <6> QED BY <1>1, <1>11, <2>3, <4>2, <6>1 DEF PendingBy, c
        <5> QED BY <5>1, <5>2 DEF PendingBy, After, Rewiring
      <4> QED BY <4>1, <4>2
    <3> QED BY <3>1, <3>2 DEF PendingBy
  <2> QED BY <2>1, <2>2, <2>3, Agreeing
<1> QED BY <1>10, <1>11, AgreeingNext

\* The rule a rewire takes next is rewired, or has no hops.
LEMMA RewireAgrees ==
  ASSUME TypeOK, ChainAgrees, NEW q \in Requests, apiRewireRules(q)
  PROVE  ChainAgrees'
<1>1. req[q].pc = "rewire" /\ UNCHANGED <<rules, relay, off, stale, unwired>>
  BY DEF apiRewireRules, nodeVars, ghostVars
<1>2. CASE req[q].list = {}
  <2>1. req' = [req EXCEPT ![q] = Idle]
    BY <1>2 DEF apiRewireRules
  <2>2. \A r : ~PendingBy(req[q], r)
    BY <1>1, <1>2 DEF PendingBy
  <2> QED BY <1>1, <2>1, <2>2, CalmAgrees
<1>3. CASE req[q].list # {}
  <2> DEFINE r == Min(req[q].list)
             rest == req[q].list \ {r}
  <2>1. req' = [req EXCEPT ![q] =
                  IF r \notin DOMAIN rules \/ HopNodes(r) = {} THEN Rewiring(rest, req[q].push)
                  ELSE Rewriting(r, rest, req[q].push)]
    BY <1>3 DEF apiRewireRules
  <2>2. req[q].list = rest \cup {r}
    <3>1. req[q].list \in SUBSET (1..made) /\ made \in Nat
      BY <1>1, PlacementAssumption DEF TypeOK, RequestsTyped, RequestTyped, RulesTyped
    <3>2. r \in req[q].list
      BY <1>3, <3>1, MinIn
    <3> QED BY <3>2
  <2> HIDE DEF r, rest
  <2>3. \A s : PendingBy(req[q], s) => s \in rest \cup {r}
    BY <1>1, <2>2 DEF PendingBy
  <2>4. CASE r \notin DOMAIN rules \/ HopNodes(r) = {}
    <3>1. \A s \in rest : PendingBy(Rewiring(rest, req[q].push), s)
      BY DEF PendingBy, Rewiring
    <3> QED BY <1>1, <2>1, <2>3, <2>4, <3>1, CalmAgrees
  <2>5. CASE ~(r \notin DOMAIN rules \/ HopNodes(r) = {})
    <3>1. \A s \in rest \cup {r} : PendingBy(Rewriting(r, rest, req[q].push), s)
      BY DEF PendingBy, Rewriting
    <3> QED BY <1>1, <2>1, <2>3, <2>5, <3>1, CalmAgrees
  <2> QED BY <2>4, <2>5
<1> QED BY <1>2, <1>3

LEMMA RefusedAgrees ==
  ASSUME TypeOK, ChainAgrees, NEW q \in Requests, Write(q), Refused(q)
  PROVE  ChainAgrees'
<1>1. /\ req[q].pc \in {"write", "rewrite"} /\ UNCHANGED <<rules, relay, off, stale>>
      /\ req' = [req EXCEPT ![q] = After(req[q], {})]
      /\ unwired' = unwired \cup (IF req[q].pc = "rewrite" THEN {req[q].rule} ELSE {})
  BY WriteCases DEF Refused, nodeVars
<1>2. \A r : PendingBy(req[q], r) /\ r \notin unwired' => PendingBy(After(req[q], {}), r)
  BY <1>1 DEF PendingBy, After, Rewiring
<1> QED BY <1>1, <1>2, CalmAgrees

LEMMA WholeIndices ==
  ASSUME NEW S, NEW s \in Seq(S)
  PROVE  AtIndices(s, DOMAIN s) = s
<1>1. DOMAIN s = 1..Len(s) /\ Len(s) \in Nat
  OBVIOUS
<1>2. ASSUME NEW i \in 1..Len(s)  PROVE Rank(1..Len(s), i) = i
  <2>1. {j \in 1..Len(s) : j <= i} = 1..i
    BY <1>1
  <2>2. i \in Nat /\ Cardinality(1..i) = i
    BY <1>1, FS_Interval
  <2> QED BY <2>1, <2>2 DEF Rank
<1>3. Cardinality(1..Len(s)) = Len(s)
  BY <1>1, FS_Interval
<1>4. \A k \in 1..Len(s) : (CHOOSE i \in 1..Len(s) : Rank(1..Len(s), i) = k) = k
  BY <1>2
<1>5. AtIndices(s, 1..Len(s)) =
        [k \in 1..Len(s) |-> s[CHOOSE i \in 1..Len(s) : Rank(1..Len(s), i) = k]]
  BY <1>3 DEF AtIndices, Rank
<1>6. AtIndices(s, 1..Len(s)) = [k \in 1..Len(s) |-> s[k]]
  BY <1>4, <1>5
<1> QED BY <1>1, <1>6

LEMMA DeleteAgrees ==
  ASSUME TypeOK, ChainAgrees, NEW q \in Requests, DeleteNode(q)
  PROVE  ChainAgrees'
<1> DEFINE n == req[q].node
           R == {r \in DOMAIN rules : rules[r].node = n}
<1>1. /\ req[q].pc = "remove" /\ UNCHANGED <<relay, off, stale>> /\ DOMAIN req = Requests
      /\ req' = [req EXCEPT ![q] = Rewiring(req[q].list, req[q].push)]
      /\ NodesTyped /\ RulesTyped
  BY Deletion DEF TypeOK, RequestsTyped
<1>2. unwired' = unwired \cup (RulesReferencingNode(n) \ (R \cup req[q].list))
  BY DEF DeleteNode
<1>3. ASSUME NEW r \in DOMAIN rules'
      PROVE  /\ r \in DOMAIN rules /\ r \notin R
             /\ rules'[r] = [rules[r] EXCEPT !.hops = Without(rules[r].hops, n)]
             /\ rules'[r].hops = Without(rules[r].hops, n)
  <2>1. DOMAIN rules' = {s \in DOMAIN rules : rules[s].node # n}
    BY Deletion
  <2> QED BY <2>1, Deletion
<1> HIDE DEF n, R
<1>4. ASSUME NEW r \in DOMAIN rules', n \notin HopNodes(r)
      PROVE  SameChain(r) /\ HopNodes(r)' = HopNodes(r)
  <2>1. rules[r] \in RuleRows /\ rules[r].hops \in Seq(HopRows)
    BY <1>1, <1>3, RuleFacts
  <2>2. {i \in DOMAIN rules[r].hops : rules[r].hops[i].node # n} = DOMAIN rules[r].hops
    BY <1>3, <1>4 DEF HopNodes
  <2>3. Without(rules[r].hops, n) = rules[r].hops
    BY <2>1, <2>2, WholeIndices DEF Without
  <2>4. rules'[r].hops = rules[r].hops
    BY <1>3, <2>3
  <2>5. HopNodes(r)' = HopNodes(r)
    BY <1>3, <2>4 DEF HopNodes
  <2>6. rules'[r].family = rules[r].family /\ rules'[r].proto = rules[r].proto /\ rules'[r].exit = rules[r].exit
    BY <1>3, <2>1 DEF RuleRows
  <2> QED BY <2>4, <2>5, <2>6 DEF SameChain
<1>5. req'[q] = Rewiring(req[q].list, req[q].push) /\ \A p \in Requests : p # q => req'[p] = req[p]
  BY <1>1
<1>6. ASSUME NEW r \in DOMAIN rules' \ unwired'
      PROVE  Fine(r)' \/ \E p \in Requests : PendingBy(req[p], r)'
  <2>1. r \in DOMAIN rules \ unwired
    BY <1>2, <1>3
  <2>2. CASE n \in HopNodes(r)
    <3>1. r \in req[q].list
      BY <1>2, <1>3, <1>6, <2>1, <2>2 DEF RulesReferencingNode
    <3>2. PendingBy(req[q], r)'
      BY <1>5, <3>1 DEF PendingBy, Rewiring
    <3> QED BY <3>2
  <2>3. CASE n \notin HopNodes(r) /\ Fine(r)
    <3>1. \A m \in HopNodes(r) : EffectiveRelayHosts(m)' = EffectiveRelayHosts(m)
      BY <1>1 DEF EffectiveRelayHosts
    <3>2. SameChain(r)
      BY <1>4, <2>3
    <3> QED BY <1>1, <2>1, <2>3, <3>1, <3>2, FineKept
  <2>4. ASSUME NEW p \in Requests, PendingBy(req[p], r), n \notin HopNodes(r)  PROVE PendingBy(req[p], r)'
    <3>1. p # q
      BY <1>1, <2>4 DEF PendingBy
    <3>2. req'[p] = req[p] /\ HopNodes(r)' = HopNodes(r)
      BY <1>4, <1>5, <2>4, <3>1
    <3> QED BY <2>4, <3>2 DEF PendingBy
  <2> QED BY <2>1, <2>2, <2>3, <2>4, Agreeing
<1> QED BY <1>6, AgreeingNext

\* The addresses of one node change, and the rules through it are listed next.
OnlyMoves(n) ==
  \A m \in Physical : m # n => EffectiveRelayHosts(m)' = EffectiveRelayHosts(m)

LEMMA ListedAgrees ==
  ASSUME TypeOK, ChainAgrees, NEW q \in Requests, NEW n, NEW c,
         \A r : ~PendingBy(req[q], r), req' = [req EXCEPT ![q] = c], c.pc = "list", c.node = n,
         UNCHANGED <<rules, stale, unwired>>, OnlyMoves(n)
  PROVE  ChainAgrees'
<1>1. req'[q] = c /\ \A p \in Requests : p # q => req'[p] = req[p]
  BY DEF TypeOK, RequestsTyped
<1>2. \A r : HopNodes(r) \subseteq Physical /\ HopNodes(r)' = HopNodes(r)
  BY HopNodesPhysical DEF HopNodes
<1>3. ASSUME NEW r \in DOMAIN rules \ unwired
      PROVE  Fine(r)' \/ \E p \in Requests : PendingBy(req[p], r)'
  <2>1. CASE n \in HopNodes(r)
    <3>1. PendingBy(req[q], r)'
      BY <1>1, <1>2, <2>1 DEF PendingBy
    <3> QED BY <3>1
  <2>2. CASE n \notin HopNodes(r) /\ Fine(r)
    <3>1. \A m \in HopNodes(r) : EffectiveRelayHosts(m)' = EffectiveRelayHosts(m)
      BY <1>2, <2>2 DEF OnlyMoves
    <3>2. SameChain(r)
      BY DEF SameChain
    <3> QED BY <2>2, <3>1, <3>2, FineKept
  <2>3. ASSUME NEW p \in Requests, PendingBy(req[p], r)  PROVE PendingBy(req[p], r)'
    <3>1. p # q
      BY <2>3
    <3> QED BY <1>1, <1>2, <2>3, <3>1 DEF PendingBy
  <2> QED BY <2>1, <2>2, <2>3, Agreeing
<1> QED BY <1>3, AgreeingNext

LEMMA AddressAgrees ==
  ASSUME TypeOK, ChainAgrees, NEW q \in Requests, apiSetNodeRelayHost(q) \/ SetFamily(q)
  PROVE  ChainAgrees'
<1>1. CASE apiSetNodeRelayHost(q)
  <2>1. PICK n \in Physical \cap nodes, v \in Addresses :
          /\ relay' = [relay EXCEPT ![n].v4 = v]
          /\ off' = IF v = 0 THEN off ELSE [off EXCEPT ![n] = @ \ {"v4"}]
          /\ req' = [req EXCEPT ![q] = Listing(n, {})]
    BY <1>1 DEF apiSetNodeRelayHost
  <2>2. \A m \in Physical : m # n => relay'[m] = relay[m] /\ off'[m] = off[m]
    BY <2>1 DEF TypeOK, NodesTyped
  <2>3. OnlyMoves(n)
    BY <2>2 DEF OnlyMoves, EffectiveRelayHosts
  <2>4. req[q].pc = "idle" /\ UNCHANGED <<rules, stale, unwired>>
    BY <1>1 DEF apiSetNodeRelayHost, ghostVars
  <2>5. PICK c : c = Listing(n, {})
    OBVIOUS
  <2>6. req' = [req EXCEPT ![q] = c] /\ c.pc = "list" /\ c.node = n
    BY <2>1, <2>5 DEF Listing
  <2>7. \A r : ~PendingBy(req[q], r)
    BY <2>4 DEF PendingBy
  <2> QED BY <2>3, <2>4, <2>6, <2>7, ListedAgrees
<1>2. CASE SetFamily(q)
  <2>1. /\ req[q].pc = "flip" /\ UNCHANGED <<rules, relay, stale, unwired>>
        /\ off' = [off EXCEPT ![req[q].node] = req[q].off]
        /\ req' = [req EXCEPT ![q] = Listing(req[q].node, {req[q].node})]
    BY <1>2 DEF SetFamily, ghostVars
  <2>2. PICK n : n = req[q].node
    OBVIOUS
  <2>3. \A m \in Physical : m # n => off'[m] = off[m]
    BY <2>1, <2>2 DEF TypeOK, NodesTyped
  <2>4. OnlyMoves(n)
    BY <2>1, <2>3 DEF OnlyMoves, EffectiveRelayHosts
  <2>5. PICK c : c = Listing(n, {n})
    OBVIOUS
  <2>6. req' = [req EXCEPT ![q] = c] /\ c.pc = "list" /\ c.node = n
    BY <2>1, <2>2, <2>5 DEF Listing
  <2>7. \A r : ~PendingBy(req[q], r)
    BY <2>1 DEF PendingBy
  <2> QED BY <2>1, <2>4, <2>6, <2>7, ListedAgrees
<1> QED BY <1>1, <1>2

\* The IPv6 address of a node changes: the chains that dial it there, or are
\* entered by it once it is gone, are not rewired; the others stay fine.
LEMMA V6Agrees ==
  ASSUME TypeOK, ChainAgrees, NEW q \in Requests, UpdateNodeRelayHostV6(q)
  PROVE  ChainAgrees'
<1>1. PICK n, v : n = req[q].node /\ v = req[q].addr
  OBVIOUS
<1>2. /\ req[q].pc = "v6" /\ req' = [req EXCEPT ![q] = Idle] /\ UNCHANGED <<rules, stale>>
      /\ relay' = [relay EXCEPT ![n].v6 = v]
      /\ off' = IF v = 0 THEN off ELSE [off EXCEPT ![n] = @ \ {"v6"}]
      /\ unwired' = unwired \cup DialledByV6(n)
                      \cup (IF v = 0 THEN EntersBy(n, {"v6", "both"}) ELSE {})
  BY <1>1 DEF UpdateNodeRelayHostV6
<1>3. n \in Physical /\ v \in Addresses
  BY <1>1, <1>2 DEF TypeOK, RequestsTyped, RequestTyped
<1>4. relay \in [Physical -> [v4 : Addresses, v6 : Addresses]] /\ off \in [Physical -> SUBSET {"v4", "v6"}]
  BY DEF TypeOK, NodesTyped
<1>5. \A m \in Physical : m # n => EffectiveRelayHosts(m)' = EffectiveRelayHosts(m)
  <2>1. \A m \in Physical : m # n => relay'[m] = relay[m] /\ off'[m] = off[m]
    BY <1>2, <1>4
  <2> QED BY <2>1 DEF EffectiveRelayHosts
<1>6. \A m \in Physical : EffectiveRelayHosts(m)'.v4 = EffectiveRelayHosts(m).v4
  <2>1. \A m \in Physical : relay'[m].v4 = relay[m].v4 /\ ("v4" \in off'[m] <=> "v4" \in off[m])
    BY <1>2, <1>3, <1>4
  <2> QED BY <2>1 DEF EffectiveRelayHosts
<1>7. v # 0 => EffectiveRelayHosts(n)'.v6 # 0
  <2>1. v # 0 => relay'[n].v6 = v /\ "v6" \notin off'[n]
    BY <1>2, <1>3, <1>4
  <2> QED BY <2>1 DEF EffectiveRelayHosts
<1>8. ASSUME NEW r \in DOMAIN rules \ unwired', Fine(r)  PROVE Fine(r)'
  <2>1. PICK hops, family, proto, exit :
          /\ hops = rules[r].hops /\ family = rules[r].family
          /\ proto = rules[r].proto /\ exit = rules[r].exit
    OBVIOUS
  <2>2. hops \in Seq(HopRows)
    BY <2>1, RuleFacts DEF TypeOK
  <2>3. \A i \in DOMAIN hops : hops[i].node \in Physical /\ hops[i].port \in Ports /\ hops[i].port # 0
    <3>1. \A i \in DOMAIN hops : hops[i] \in HopRows
      BY <2>2
    <3>2. 0 \notin Ports
      BY PlacementAssumption
    <3> QED BY <3>1, <3>2 DEF HopRows
  <2>4. Linked(hops) /\ Entered(hops, family) /\ (r \notin stale => Ends(hops, proto, exit))
    BY <1>8, <2>1 DEF Fine
  <2>5. ASSUME NEW i \in DOMAIN hops, i # Len(hops)
        PROVE  HopTo(hops[i + 1].node, hops[i + 1].port)' = HopTo(hops[i + 1].node, hops[i + 1].port)
    <3>1. PICK m, port : m = hops[i + 1].node /\ port = hops[i + 1].port
      OBVIOUS
    <3>2. i + 1 \in DOMAIN hops /\ m \in Physical /\ port # 0
      <4>1. i + 1 \in DOMAIN hops
        BY <2>2, <2>5
      <4> QED BY <2>3, <3>1, <4>1
    <3>3. hops[i].to = HopTo(m, port)
      BY <2>4, <2>5, <3>1 DEF Linked
    <3>4. CASE m # n
      BY <1>5, <3>1, <3>2, <3>4 DEF HopTo, DialAddress
    <3>5. CASE m = n
      <4>1. DialAddress(n).family # "v6" /\ DialAddress(n).node = n
        <5>1. r \notin DialledByV6(n)
          BY <1>2, <1>8
        <5>2. hops[i].to.port = port /\ hops[i].to.at = DialAddress(n)
          BY <3>3, <3>5 DEF HopTo
        <5>3. DialAddress(n).node = n
          BY DEF DialAddress
        <5> QED BY <1>8, <2>1, <2>5, <3>2, <5>1, <5>2, <5>3 DEF DialledByV6
      <4>2. EffectiveRelayHosts(n).v4 # 0
        BY <4>1 DEF DialAddress
      <4>3. DialAddress(n)' = DialAddress(n)
        BY <1>3, <1>6, <4>2 DEF DialAddress
      <4>4. HopTo(m, port)' = HopTo(m, port)
        BY <3>5, <4>3 DEF HopTo
      <4> QED BY <3>1, <4>4
    <3> QED BY <3>4, <3>5
  <2>6. Linked(hops)'
    BY <2>4, <2>5 DEF Linked
  <2>7. Entered(hops, family)'
    <3>1. SUFFICES ASSUME hops # << >>, family \in {"v6", "both"}, NEW m, m = hops[1].node
                   PROVE  EffectiveRelayHosts(m)'.v6 # 0
      BY DEF Entered
    <3>2. EffectiveRelayHosts(m).v6 # 0 /\ m \in Physical
      <4>1. 1 \in DOMAIN hops
        BY <2>2, <3>1
      <4> QED BY <2>3, <2>4, <3>1, <4>1 DEF Entered
    <3>3. CASE m # n
      BY <1>5, <3>2, <3>3
    <3>4. CASE m = n
      <4>1. r \in EntersBy(n, {"v6", "both"})
        BY <1>8, <2>1, <3>1, <3>4 DEF EntersBy
      <4>2. v # 0
        BY <1>2, <1>8, <4>1
      <4> QED BY <1>7, <3>4, <4>2
    <3> QED BY <3>3, <3>4
  <2>8. stale' = stale /\ rules' = rules
    BY <1>2
  <2> QED BY <2>1, <2>4, <2>6, <2>7, <2>8 DEF Fine, Linked, Entered, Ends
<1>9. ASSUME NEW p \in Requests, NEW r, PendingBy(req[p], r)  PROVE PendingBy(req[p], r)'
  <2>1. p # q
    BY <1>2, <1>9 DEF PendingBy
  <2>2. req'[p] = req[p] /\ HopNodes(r)' = HopNodes(r)
    BY <1>2, <2>1 DEF TypeOK, RequestsTyped, HopNodes
  <2> QED BY <1>9, <2>2 DEF PendingBy
<1>10. \A r \in DOMAIN rules' \ unwired' : Fine(r)' \/ \E p \in Requests : PendingBy(req[p], r)'
  <2>1. ASSUME NEW r \in DOMAIN rules \ unwired'
        PROVE  Fine(r)' \/ \E p \in Requests : PendingBy(req[p], r)'
    <3>1. Fine(r) \/ \E p \in Requests : PendingBy(req[p], r)
      BY <1>2, <2>1, Agreeing
    <3> QED BY <1>8, <1>9, <2>1, <3>1
  <2> QED BY <1>2, <2>1
<1> QED BY <1>10, AgreeingNext

LEMMA AgreesStep == TypeOK /\ ChainAgrees /\ [Next]_vars => ChainAgrees'
<1> SUFFICES ASSUME TypeOK, ChainAgrees, [Next]_vars  PROVE ChainAgrees'
  OBVIOUS
<1>1. ASSUME NEW q \in Requests,
             \/ apiMyCreateRule(q) \/ apiCreateRule(q) \/ handleRuleCreate(q)
             \/ apiMyUpdateRule(q) \/ apiUpdateRule(q) \/ handleRuleUpdate(q)
             \/ apiReallocateRuleHop(q) \/ applyRuleHopEdit(q)
             \/ apiDeleteRule(q) \/ apiDeleteNode(q)
             \/ apiSetNodeRelayHostV6(q) \/ apiSetNodeRelayFamilyDisabled(q)
      PROVE  ChainAgrees'
  <2>1. \E kind, c : Start(q, kind, c)
    BY <1>1 DEF apiMyCreateRule, apiCreateRule, handleRuleCreate, apiMyUpdateRule, apiUpdateRule,
                handleRuleUpdate, apiReallocateRuleHop, applyRuleHopEdit, apiDeleteRule,
                apiDeleteNode, apiSetNodeRelayHostV6, apiSetNodeRelayFamilyDisabled
  <2> QED BY <2>1, StartAgrees
<1>2. ASSUME NEW q \in Requests,
             apiRevokeNode(q) \/ DeleteRulesForUserNode(q) \/ Drop(q)
      PROVE  ChainAgrees'
  <2>1. /\ req[q].pc \in {"idle", "collect", "drop"} /\ \E c : req' = [req EXCEPT ![q] = c]
        /\ UNCHANGED <<relay, off, stale, unwired>>
        /\ DOMAIN rules' \subseteq DOMAIN rules /\ \A r \in DOMAIN rules' : rules'[r] = rules[r]
    BY <1>2 DEF apiRevokeNode, DeleteRulesForUserNode, Drop, nodeVars, ghostVars
  <2>2. \A r : ~PendingBy(req[q], r)
    BY <2>1 DEF PendingBy
  <2> QED BY <2>1, <2>2, CalmAgrees
<1>3. ASSUME NEW q \in Requests, ListRules(q)  PROVE ChainAgrees'
  <2>1. /\ req[q].pc = "list" /\ UNCHANGED <<rules, relay, off, stale, unwired>>
        /\ req' = [req EXCEPT ![q] = Rewiring(RulesReferencingNode(req[q].node), req[q].push)]
    BY <1>3 DEF ListRules, nodeVars, ghostVars
  <2>2. \A r \in DOMAIN rules : PendingBy(req[q], r) =>
          PendingBy(Rewiring(RulesReferencingNode(req[q].node), req[q].push), r)
    BY <2>1 DEF PendingBy, Rewiring, RulesReferencingNode
  <2> QED BY <2>1, <2>2, CalmAgrees
<1>4. ASSUME NEW q \in Requests, Write(q)  PROVE ChainAgrees'
  <2>1. CASE Refused(q)
    BY <1>4, <2>1, RefusedAgrees
  <2>2. CASE ~Refused(q)
    BY <1>4, <2>2, WriteCases, PlaceAgrees
  <2> QED BY <2>1, <2>2
<1>5. ASSUME UNCHANGED <<relay, off, rules, req, stale, unwired>>  PROVE ChainAgrees'
  <2>1. ASSUME NEW r  PROVE Pending(r)' <=> Pending(r)
    BY <1>5 DEF Pending, HopNodes
  <2>2. ASSUME NEW n  PROVE EffectiveRelayHosts(n)' = EffectiveRelayHosts(n)
    BY <1>5 DEF EffectiveRelayHosts
  <2>3. ASSUME NEW n, NEW port  PROVE HopTo(n, port)' = HopTo(n, port)
    BY <2>2 DEF HopTo, DialAddress
  <2>4. ChainLinked'
    BY <1>5, <2>1, <2>3 DEF ChainAgrees, ChainLinked
  <2>5. ExitAgrees'
    BY <1>5, <2>1 DEF ChainAgrees, ExitAgrees
  <2>6. FamilyHeld'
    BY <1>5, <2>1, <2>2 DEF ChainAgrees, FamilyHeld
  <2> QED BY <2>4, <2>5, <2>6 DEF ChainAgrees
<1>6. CASE apiUpdateNodePortRange \/ apiSetNodeNoDirectExit \/ apiGrantNode
  BY <1>5, <1>6 DEF apiUpdateNodePortRange, apiSetNodeNoDirectExit, apiGrantNode, Setting, ghostVars
<1>7. ASSUME NEW n \in Physical, dispatchToNode(n)  PROVE ChainAgrees'
  BY <1>5, <1>7 DEF dispatchToNode, nodeVars
<1>8. CASE UNCHANGED vars
  BY <1>5, <1>8 DEF vars, nodeVars, ghostVars
<1>9. ASSUME NEW q \in Requests, Reading(q)  PROVE ChainAgrees'
  BY <1>1, <1>2, <1>9, AddressAgrees DEF Reading
<1>10. ASSUME NEW q \in Requests, Going(q)  PROVE ChainAgrees'
  BY <1>2, <1>3, <1>4, <1>10, AddressAgrees, V6Agrees, DeleteAgrees, RewireAgrees DEF Going
<1> QED BY <1>6, <1>7, <1>8, <1>9, <1>10 DEF Next

\* Every chain hangs together, forwards the protocol and the exit of its rule and
\* can be entered by the families it is announced with, but while a rewire is to
\* come and but for the chains the code leaves behind (RegenerateRule,
\* apiRewireRules, DeleteNode, apiSetNodeRelayHostV6).
THEOREM ChainAlwaysAgrees == Spec => []ChainAgrees
<1>1. Init => ChainAgrees
  BY DEF Init, ChainAgrees, ChainLinked, ExitAgrees, FamilyHeld
<1>2. TypeOK /\ ChainAgrees /\ [Next]_vars => ChainAgrees'
  BY AgreesStep
<1> QED BY <1>1, <1>2, TypeCorrect, PTL DEF Spec

-----------------------------------------------------------------------------
(* NodeSync                                                                *)

\* A positive answer on its way to the panel is about a frame that was
\* applied: what SuccessMeansApplied needs when ReadApplyAck takes it.
AcksTrue ==
  \A c \in Conns : \A i \in 1..Len(in[c]) :
    in[c][i].type = "apply_ack" /\ in[c][i].ok => <<c, in[c][i].id>> \in applied

\* The forms a dispatch record has, by its pc.
LEMMA DispatchForms ==
  ASSUME NEW x \in Dispatch
  PROVE  /\ x.pc = "read" => x.rev \in Revs
         /\ x.pc = "wait" => x.conn \in Conns /\ x.id \in 1..MaxIds
         /\ x.pc = "mark" => x.conn \in Conns \cup {NoConn} /\ x.id \in 0..MaxIds
                             /\ x.ok \in BOOLEAN
BY DEF Dispatch, IdleDispatch

\* The records the dispatch actions build are dispatch records.
LEMMA MakeDispatch ==
  /\ IdleDispatch \in Dispatch /\ [pc |-> "start"] \in Dispatch
  /\ \A rev \in Revs : [pc |-> "read", rev |-> rev] \in Dispatch
  /\ \A c \in Conns, id \in 1..MaxIds :
       [pc |-> "wait", conn |-> c, id |-> id] \in Dispatch
  /\ \A c \in Conns \cup {NoConn}, id \in 0..MaxIds, ok \in BOOLEAN :
       [pc |-> "mark", conn |-> c, id |-> id, ok |-> ok] \in Dispatch
BY DEF Dispatch

\* The frames built and read by both sides.
LEMMA FrameForms ==
  /\ \A id \in 1..MaxIds, rev \in Revs :
       [type |-> "apply", id |-> id, rev |-> rev] \in ToAgent
  /\ \A ok \in BOOLEAN : [type |-> "rule_cmd_ack", ok |-> ok] \in ToAgent
  /\ \A f \in ToAgent : f.type = "apply" => f.id \in 1..MaxIds /\ f.rev \in Revs
  /\ \A f \in ToAgent : f.type = "rule_cmd_ack" => f.ok \in BOOLEAN
  /\ \A id \in 1..MaxIds, ok \in BOOLEAN :
       [type |-> "apply_ack", id |-> id, ok |-> ok] \in ToPanel
  /\ [type |-> "migrate_rules"] \in ToPanel
  /\ \A f \in ToPanel : f.type = "apply_ack" => f.id \in 1..MaxIds /\ f.ok \in BOOLEAN
BY DEF ToAgent, ToPanel

\* A prefix of a queue is a queue of the same elements.
LEMMA Prefix ==
  ASSUME NEW S, NEW q \in Seq(S), NEW n \in 0..Len(q)
  PROVE  /\ SubSeq(q, 1, n) \in Seq(S)
         /\ Len(SubSeq(q, 1, n)) = n
         /\ \A i \in 1..n : SubSeq(q, 1, n)[i] = q[i]
OBVIOUS

\* Queues stay queues.
LEMMA QueueOps ==
  ASSUME NEW S, NEW q \in Seq(S)
  PROVE  /\ <<>> \in Seq(S)
         /\ \A x \in S : Append(q, x) \in Seq(S)
         /\ q # <<>> => Head(q) \in S /\ Tail(q) \in Seq(S)
OBVIOUS

\* The elements of a queue after an append.
LEMMA AppendElems ==
  \A q \in Seq(ToPanel), x \in ToPanel : \A i \in 1..Len(Append(q, x)) :
    \/ Append(q, x)[i] = x
    \/ i \in 1..Len(q) /\ Append(q, x)[i] = q[i]
OBVIOUS

\* A step of one dispatch that sets its record to a dispatch record, and else
\* only the calls to come and last_error, keeps every type.
LEMMA DispatchTypes ==
  ASSUME SyncTypeOK, NEW d \in Dispatchers, NEW x \in Dispatch,
         disp' = [disp EXCEPT ![d] = x],
         owed' \in Nat, lastError' \in BOOLEAN \/ UNCHANGED lastError,
         UNCHANGED <<want, edits, online, connVars, agentVars>>
  PROVE  SyncTypeOK'
<1>1. disp' \in [Dispatchers -> Dispatch]
  BY DEF SyncTypeOK
<1>2. lastError' \in BOOLEAN
  BY DEF SyncTypeOK
<1>3. UNCHANGED <<want, edits, online, current, stage, closed, hello, nextId, out, in,
                  agent, held, local, applied>>
  BY DEF connVars, agentVars
<1> QED
  BY <1>1, <1>2, <1>3 DEF SyncTypeOK

\* Every variable keeps its type, the frames in both queues included, and an
\* agent with a session has a connection.
THEOREM SyncTypeCorrect == SyncSpec => []SyncTypeOK
<1> USE NodeSyncAssumption
<1>1. SyncInit => SyncTypeOK
  <2> SUFFICES ASSUME SyncInit PROVE SyncTypeOK
    OBVIOUS
  <2>1. want \in Revs
    BY DEF SyncInit, Revs
  <2>2. disp \in [Dispatchers -> Dispatch]
    BY MakeDispatch DEF SyncInit
  <2>3. out \in [Conns -> Seq(ToAgent)] /\ in \in [Conns -> Seq(ToPanel)]
    BY DEF SyncInit
  <2>4. /\ edits \in 0..MaxEdits /\ owed \in Nat
        /\ nextId \in [Conns -> 0..MaxIds]
        /\ hello \in [Conns -> Revs \cup {NoRev}]
    BY DEF SyncInit
  <2> QED
    BY <2>1, <2>2, <2>3, <2>4 DEF SyncInit, SyncTypeOK
<1>2. SyncTypeOK /\ [SyncNext]_syncVars => SyncTypeOK'
  <2> SUFFICES ASSUME SyncTypeOK, [SyncNext]_syncVars PROVE SyncTypeOK'
    OBVIOUS
  <2>1. ASSUME NEW d \in Dispatchers, DispatchStep(d) PROVE SyncTypeOK'
    <3>0. disp[d] \in Dispatch /\ owed \in Nat
      BY DEF SyncTypeOK
    <3>1. CASE Begin(d)
      <4>1. [pc |-> "start"] \in Dispatch
        BY MakeDispatch
      <4>2. owed' \in Nat
        BY <3>0, <3>1 DEF Begin
      <4> QED
        BY <3>1, <4>1, <4>2, DispatchTypes DEF Begin, panelDB
    <3>2. CASE ReadRules(d)
      <4>1. [pc |-> "read", rev |-> want] \in Dispatch
        BY MakeDispatch DEF SyncTypeOK
      <4> QED
        BY <3>0, <3>2, <4>1, DispatchTypes DEF ReadRules, panelDB
    <3>3. CASE SendOffline(d)
      <4>0. NoConn \in Conns \cup {NoConn} /\ 0 \in 0..MaxIds /\ FALSE \in BOOLEAN
        OBVIOUS
      <4>1. [pc |-> "mark", conn |-> NoConn, id |-> 0, ok |-> FALSE] \in Dispatch
        BY <4>0, MakeDispatch, Zenon
      <4> QED
        BY <3>0, <3>3, <4>1, DispatchTypes DEF SendOffline, panelDB
    <3>4. CASE Send(d)
      <4>0. current \in Conns /\ FrameId(current) \in 1..MaxIds
        BY <3>4 DEF Send, FrameId, SyncTypeOK
      <4>1. [type |-> "apply", id |-> FrameId(current), rev |-> disp[d].rev] \in ToAgent
        BY <3>4, <3>0, <4>0, DispatchForms, FrameForms DEF Send
      <4>2. out' \in [Conns -> Seq(ToAgent)]
        <5>1. out \in [Conns -> Seq(ToAgent)] /\ out[current] \in Seq(ToAgent)
          BY <4>0 DEF SyncTypeOK
        <5>2. Append(out[current], [type |-> "apply", id |-> FrameId(current),
                                    rev |-> disp[d].rev]) \in Seq(ToAgent)
          BY <4>1, <5>1, QueueOps
        <5> QED
          BY <3>4, <5>1, <5>2, Zenon DEF Send
      <4>3. [pc |-> "wait", conn |-> current, id |-> FrameId(current)] \in Dispatch
        BY <4>0, MakeDispatch
      <4>4. disp' \in [Dispatchers -> Dispatch]
        BY <3>4, <4>3 DEF Send, SyncTypeOK
      <4>5. nextId' \in [Conns -> 0..MaxIds]
        BY <3>4, <4>0 DEF Send, SyncTypeOK
      <4>6. UNCHANGED <<panelDB, owed, current, stage, closed, hello, in, agentVars>>
        BY <3>4 DEF Send
      <4> QED
        BY <4>2, <4>4, <4>5, <4>6 DEF SyncTypeOK, panelDB, agentVars
    <3>5. CASE GiveUp(d)
      <4>1. disp[d].conn \in Conns \cup {NoConn} /\ disp[d].id \in 0..MaxIds
        BY <3>5, <3>0, DispatchForms DEF GiveUp
      <4>2. [pc |-> "mark", conn |-> disp[d].conn, id |-> disp[d].id, ok |-> FALSE]
              \in Dispatch
        BY <4>1, MakeDispatch, Zenon
      <4> QED
        BY <3>0, <3>5, <4>2, DispatchTypes DEF GiveUp, panelDB
    <3>6. CASE Mark(d)
      <4>1. disp[d].ok \in BOOLEAN /\ IdleDispatch \in Dispatch
        BY <3>6, <3>0, DispatchForms, MakeDispatch DEF Mark
      <4>2. lastError' \in BOOLEAN
        BY <3>6 DEF Mark
      <4> QED
        BY <3>0, <3>6, <4>1, <4>2, DispatchTypes DEF Mark
    <3> QED
      BY <2>1, <3>1, <3>2, <3>3, <3>4, <3>5, <3>6 DEF DispatchStep
  <2> USE DEF SyncTypeOK
  <2>2. CASE Edit
    <3>1. want' \in Revs
      BY <2>2 DEF Edit, Revs
    <3>2. edits' \in 0..MaxEdits /\ owed' \in Nat
      BY <2>2 DEF Edit
    <3>3. UNCHANGED <<online, lastError, disp, connVars, agentVars>>
      BY <2>2 DEF Edit
    <3> QED
      BY <3>1, <3>2, <3>3 DEF connVars, agentVars
  <2>3. ASSUME NEW c \in Conns, HandlerStep(c) PROVE SyncTypeOK'
    <3>0. /\ in[c] \in Seq(ToPanel) /\ out[c] \in Seq(ToAgent)
          /\ in[c] # <<>> => Tail(in[c]) \in Seq(ToPanel)
          /\ in[c] # <<>> => Head(in[c]) \in ToPanel
      BY QueueOps
    <3>1. CASE Register(c)
      BY <3>1 DEF Register, panelDB, dispVars, agentVars
    <3>2. CASE AckHello(c)
      BY <3>2 DEF AckHello, panelDB, dispVars, agentVars
    <3>3. CASE MarkOnline(c)
      BY <3>3 DEF MarkOnline, dispVars, agentVars
    <3>4. CASE ReconcileOnConnect(c)
      BY <3>4 DEF ReconcileOnConnect, panelDB, agentVars
    <3>5. CASE ReadApplyAck(c)
      <4>1. Head(in[c]).ok \in BOOLEAN
        BY <3>5, <3>0, FrameForms DEF ReadApplyAck
      <4>2. ASSUME NEW d \in Dispatchers PROVE disp'[d] \in Dispatch
        <5>0. disp[d] \in Dispatch
          OBVIOUS
        <5>1. CASE d \in Waiters(c, Head(in[c]).id)
          <6>1. disp[d].conn \in Conns /\ disp[d].id \in 0..MaxIds
            BY <5>0, <5>1, DispatchForms DEF Waiters
          <6>2. disp'[d] = [pc |-> "mark", conn |-> disp[d].conn, id |-> disp[d].id,
                            ok |-> Head(in[c]).ok]
            BY <3>5, <5>1 DEF ReadApplyAck
          <6> QED
            BY <4>1, <6>1, <6>2, MakeDispatch
        <5>2. CASE d \notin Waiters(c, Head(in[c]).id)
          BY <3>5, <5>0, <5>2 DEF ReadApplyAck
        <5> QED
          BY <5>1, <5>2
      <4>3. disp' \in [Dispatchers -> Dispatch]
        BY <3>5, <4>2 DEF ReadApplyAck
      <4>4. in' \in [Conns -> Seq(ToPanel)]
        BY <3>5, <3>0 DEF ReadApplyAck
      <4> QED
        BY <3>5, <4>3, <4>4 DEF ReadApplyAck, panelDB, agentVars
    <3>6. CASE Import(c)
      <4>1. in' \in [Conns -> Seq(ToPanel)]
        BY <3>6, <3>0 DEF Import
      <4>2. want' \in Revs
        BY <3>6 DEF Import, Revs
      <4>3. owed' \in Nat /\ UNCHANGED <<edits, online, lastError, disp, current,
                closed, hello, nextId, out, agentVars>>
        BY <3>6 DEF Import
      <4>4. stage' = [stage EXCEPT ![c] = "accepting"]
        BY <3>6 DEF Import
      <4> QED
        BY <4>1, <4>2, <4>3, <4>4 DEF agentVars
    <3>7. CASE RefuseImport(c)
      <4>1. in' \in [Conns -> Seq(ToPanel)]
        BY <3>7, <3>0 DEF RefuseImport
      <4> QED
        BY <3>7, <4>1 DEF RefuseImport, panelDB, dispVars, agentVars
    <3>8. CASE ReplyMigrate(c)
      <4>1. [type |-> "rule_cmd_ack", ok |-> stage[c] = "accepting"] \in ToAgent
        BY FrameForms
      <4>2. out' \in [Conns -> Seq(ToAgent)]
        <5>1. Append(out[c], [type |-> "rule_cmd_ack",
                              ok |-> stage[c] = "accepting"]) \in Seq(ToAgent)
          BY <3>0, <4>1, QueueOps
        <5> QED
          BY <3>8, <5>1, Zenon DEF ReplyMigrate
      <4> QED
        BY <3>8, <4>2 DEF ReplyMigrate, panelDB, dispVars, agentVars
    <3>9. CASE ReaderEnds(c)
      BY <3>9 DEF ReaderEnds, panelDB, dispVars, agentVars
    <3>10. CASE AckFails(c)
      <4>1. out' \in [Conns -> Seq(ToAgent)]
        BY <3>10 DEF AckFails
      <4> QED
        BY <3>10, <4>1 DEF AckFails, panelDB, dispVars, agentVars
    <3>11. CASE Unregister(c)
      BY <3>11 DEF Unregister, panelDB, dispVars, agentVars
    <3>12. CASE MarkOffline(c)
      <4>1. in' \in [Conns -> Seq(ToPanel)]
        BY <3>12 DEF MarkOffline
      <4> QED
        BY <3>12, <4>1 DEF MarkOffline, dispVars, agentVars
    <3> QED
      BY <2>3, <3>1, <3>2, <3>3, <3>4, <3>5, <3>6, <3>7, <3>8, <3>9, <3>10,
         <3>11, <3>12 DEF HandlerStep
  <2>4. ASSUME NEW c \in Conns, Dial(c) PROVE SyncTypeOK'
    BY <2>4 DEF Dial, panelDB, dispVars
  <2>5. CASE AgentStep
    <3> DEFINE c == agent.conn
    <3>1. CASE GetHelloAck
      <4>1. c \in Conns
        BY <3>1 DEF GetHelloAck
      <4>2. in' \in [Conns -> Seq(ToPanel)]
        <5>1. Append(in[c], [type |-> "migrate_rules"]) \in Seq(ToPanel)
          BY <4>1, FrameForms, QueueOps
        <5> QED
          BY <3>1, <5>1 DEF GetHelloAck
      <4> QED
        BY <3>1, <4>1, <4>2 DEF GetHelloAck, panelDB, dispVars
    <3>2. CASE GetMigrateAck
      <4>1. c \in Conns
        BY <3>2 DEF GetMigrateAck
      <4>2. out' \in [Conns -> Seq(ToAgent)]
        BY <3>2, <4>1, QueueOps DEF GetMigrateAck, Readable
      <4>3. local' \in BOOLEAN
        BY <3>2 DEF GetMigrateAck
      <4> QED
        BY <3>2, <4>1, <4>2, <4>3 DEF GetMigrateAck, panelDB, dispVars
    <3>3. CASE Apply
      <4>1. c \in Conns
        BY <3>3 DEF Apply
      <4>2. out[c] \in Seq(ToAgent) /\ out[c] # <<>> /\ Head(out[c]) \in ToAgent
        BY <3>3, <4>1, QueueOps DEF Apply, Readable
      <4>3. Head(out[c]).id \in 1..MaxIds /\ Head(out[c]).rev \in Revs
        BY <3>3, <4>2, FrameForms DEF Apply
      <4>4. out' \in [Conns -> Seq(ToAgent)]
        BY <3>3, <4>2, QueueOps DEF Apply
      <4>5. PICK ok \in BOOLEAN :
              /\ held' = IF ok THEN Head(out[c]).rev ELSE held
              /\ applied' = IF ok THEN applied \cup {<<c, Head(out[c]).id>>} ELSE applied
              /\ in' = [in EXCEPT ![c] = Append(@, [type |-> "apply_ack",
                                    id |-> Head(out[c]).id, ok |-> ok])]
        BY <3>3 DEF Apply
      <4>6. [type |-> "apply_ack", id |-> Head(out[c]).id, ok |-> ok] \in ToPanel
        BY <4>3, FrameForms
      <4>7. in' \in [Conns -> Seq(ToPanel)]
        BY <4>1, <4>5, <4>6
      <4>8. held' \in Revs \cup {NoRev} /\ applied' \subseteq Conns \X (1..MaxIds)
        BY <4>1, <4>3, <4>5
      <4> QED
        BY <3>3, <4>4, <4>7, <4>8 DEF Apply, panelDB, dispVars
    <3>4. CASE IgnoreAck
      <4>1. c \in Conns
        BY <3>4 DEF IgnoreAck
      <4>2. out' \in [Conns -> Seq(ToAgent)]
        BY <3>4, <4>1, QueueOps DEF IgnoreAck, Readable
      <4> QED
        BY <3>4, <4>2 DEF IgnoreAck, panelDB, dispVars, agentVars
    <3>5. CASE EndSession
      <4>1. PICK n \in 0..Len(in[c]) : in' = [in EXCEPT ![c] = SubSeq(@, 1, n)]
        BY <3>5 DEF EndSession
      <4>2. in' \in [Conns -> Seq(ToPanel)]
        BY <4>1, Prefix
      <4>3. out' \in [Conns -> Seq(ToAgent)]
        BY <3>5, QueueOps DEF EndSession
      <4> QED
        BY <3>5, <4>2, <4>3 DEF EndSession, panelDB, dispVars
    <3> QED
      BY <2>5, <3>1, <3>2, <3>3, <3>4, <3>5
         DEF AgentStep, SessionClosed, SessionDrops
  <2>6. CASE PanelRestart
    <3>1. out' \in [Conns -> Seq(ToAgent)] /\ in' \in [Conns -> Seq(ToPanel)]
      BY <2>6 DEF PanelRestart
    <3>2. disp' \in [Dispatchers -> Dispatch]
      BY <2>6, MakeDispatch DEF PanelRestart
    <3> QED
      BY <2>6, <3>1, <3>2 DEF PanelRestart, agentVars
  <2>7. CASE UNCHANGED syncVars
    BY <2>7 DEF syncVars, panelDB, dispVars, connVars, agentVars
  <2> QED
    BY <2>1, <2>2, <2>3, <2>4, <2>5, <2>6, <2>7
       DEF SyncNext, SomeDispatch, SomeHandler, SomeDial
<1> QED
  BY <1>1, <1>2, PTL DEF SyncSpec

\* The actions that leave acks, successes and the history of applies alone.
LEMMA Undisturbed ==
  ASSUME AcksTrue, SuccessMeansApplied, UNCHANGED <<in, applied>>,
         \A d \in Dispatchers :
           disp'[d] = disp[d] \/ ~(disp'[d].pc = "mark" /\ disp'[d].ok)
  PROVE  AcksTrue' /\ SuccessMeansApplied'
BY DEF AcksTrue, SuccessMeansApplied

\* A dispatch recorded as a success was applied by the agent, over that very
\* connection and as that very frame, whatever was lost, late or replaced.
THEOREM SuccessAlwaysApplied == SyncSpec => []SuccessMeansApplied
<1>1. SyncInit => AcksTrue /\ SuccessMeansApplied
  BY DEF SyncInit, AcksTrue, SuccessMeansApplied, IdleDispatch
<1>2. SyncTypeOK /\ SyncTypeOK' /\ AcksTrue /\ SuccessMeansApplied /\ [SyncNext]_syncVars
        => AcksTrue' /\ SuccessMeansApplied'
  <2> SUFFICES ASSUME SyncTypeOK, SyncTypeOK', AcksTrue, SuccessMeansApplied, [SyncNext]_syncVars
               PROVE  AcksTrue' /\ SuccessMeansApplied'
    OBVIOUS
  <2>0. /\ disp \in [Dispatchers -> Dispatch] /\ in \in [Conns -> Seq(ToPanel)]
        /\ out \in [Conns -> Seq(ToAgent)]
        /\ agent.pc # "down" => agent.conn \in Conns
    BY DEF SyncTypeOK
  <2>1. CASE Edit
    BY <2>1, Undisturbed DEF Edit, connVars, agentVars
  <2>2. ASSUME NEW d \in Dispatchers, DispatchStep(d)
        PROVE  AcksTrue' /\ SuccessMeansApplied'
    <3>1. UNCHANGED <<in, applied>>
      BY <2>2 DEF DispatchStep, Begin, ReadRules, SendOffline, Send, GiveUp,
                  Mark, connVars, agentVars
    <3>2. \/ disp' = [disp EXCEPT ![d] = [pc |-> "start"]]
          \/ \E rev : disp' = [disp EXCEPT ![d] = [pc |-> "read", rev |-> rev]]
          \/ \E c, id : disp' = [disp EXCEPT ![d] =
                                   [pc |-> "wait", conn |-> c, id |-> id]]
          \/ \E c, id : disp' = [disp EXCEPT ![d] =
                                   [pc |-> "mark", conn |-> c, id |-> id, ok |-> FALSE]]
          \/ disp' = [disp EXCEPT ![d] = IdleDispatch]
      BY <2>2, Zenon DEF DispatchStep, Begin, ReadRules, SendOffline, Send, GiveUp,
                         Mark
    <3>3. \A e \in Dispatchers :
            disp'[e] = disp[e] \/ ~(disp'[e].pc = "mark" /\ disp'[e].ok)
      BY <2>0, <3>2 DEF IdleDispatch
    <3> QED
      BY <3>1, <3>3, Undisturbed
  <2>3. ASSUME NEW c \in Conns, HandlerStep(c)
        PROVE  AcksTrue' /\ SuccessMeansApplied'
    <3>1. CASE ReadApplyAck(c)
      <4> DEFINE ack == Head(in[c])
      <4>1. /\ in[c] \in Seq(ToPanel) /\ in[c] # <<>>
            /\ in' = [in EXCEPT ![c] = Tail(in[c])]
            /\ UNCHANGED applied
        BY <2>0, <3>1 DEF ReadApplyAck, agentVars
      <4>2. ack = in[c][1] /\ 1 \in 1..Len(in[c])
        BY <4>1
      <4>3. ack.ok => <<c, ack.id>> \in applied
        BY <3>1, <4>2 DEF AcksTrue, ReadApplyAck
      <4>4. AcksTrue'
        <5>1. \A i \in 1..Len(Tail(in[c])) :
                i + 1 \in 1..Len(in[c]) /\ Tail(in[c])[i] = in[c][i + 1]
          BY <4>1
        <5>2. in'[c] = Tail(in[c]) /\ \A b \in Conns \ {c} : in'[b] = in[b]
          BY <2>0, <4>1
        <5> QED
          BY <4>1, <5>1, <5>2 DEF AcksTrue
      <4>5. SuccessMeansApplied'
        <5> SUFFICES ASSUME NEW d \in Dispatchers,
                            disp'[d].pc = "mark", disp'[d].ok
                     PROVE  <<disp'[d].conn, disp'[d].id>> \in applied
          BY <4>1 DEF SuccessMeansApplied
        <5>1. CASE d \in Waiters(c, ack.id)
          <6>1. disp'[d] = [pc |-> "mark", conn |-> disp[d].conn, id |-> disp[d].id,
                            ok |-> ack.ok]
            BY <3>1, <5>1 DEF ReadApplyAck
          <6>2. disp[d].conn = c /\ disp[d].id = ack.id
            BY <5>1 DEF Waiters
          <6> QED
            BY <4>3, <6>1, <6>2
        <5>2. CASE d \notin Waiters(c, ack.id)
          <6>1. disp'[d] = disp[d]
            BY <3>1, <5>2 DEF ReadApplyAck
          <6> QED
            BY <6>1 DEF SuccessMeansApplied
        <5> QED
          BY <5>1, <5>2
      <4> QED
        BY <4>4, <4>5
    <3>2. CASE Import(c) \/ RefuseImport(c)
      <4>1. /\ in[c] \in Seq(ToPanel) /\ in[c] # <<>>
            /\ in' = [in EXCEPT ![c] = Tail(in[c])]
            /\ UNCHANGED <<applied, disp>>
        BY <2>0, <3>2 DEF Import, RefuseImport, dispVars, agentVars
      <4>2. \A i \in 1..Len(Tail(in[c])) :
              i + 1 \in 1..Len(in[c]) /\ Tail(in[c])[i] = in[c][i + 1]
        BY <4>1
      <4>3. in'[c] = Tail(in[c]) /\ \A b \in Conns \ {c} : in'[b] = in[b]
        BY <2>0, <4>1
      <4> QED
        BY <4>1, <4>2, <4>3 DEF AcksTrue, SuccessMeansApplied
    <3>3. CASE MarkOffline(c)
      <4>1. /\ in[c] \in Seq(ToPanel) /\ in' = [in EXCEPT ![c] = <<>>]
            /\ UNCHANGED <<applied, disp>>
        BY <2>0, <3>3 DEF MarkOffline, dispVars, agentVars
      <4>2. in'[c] = <<>> /\ \A b \in Conns \ {c} : in'[b] = in[b]
        BY <2>0, <4>1
      <4> QED
        BY <4>1, <4>2 DEF AcksTrue, SuccessMeansApplied
    <3>4. CASE \/ Register(c) \/ AckHello(c) \/ MarkOnline(c)
               \/ ReconcileOnConnect(c) \/ ReplyMigrate(c) \/ ReaderEnds(c)
               \/ AckFails(c) \/ Unregister(c)
      <4>1. UNCHANGED <<in, applied, disp>>
        BY <3>4 DEF Register, AckHello, MarkOnline, ReconcileOnConnect,
                    ReplyMigrate, ReaderEnds, AckFails, Unregister, dispVars,
                    agentVars
      <4> QED
        BY <4>1, Undisturbed
    <3> QED
      BY <2>3, <3>1, <3>2, <3>3, <3>4 DEF HandlerStep
  <2>4. ASSUME NEW c \in Conns, Dial(c)
        PROVE  AcksTrue' /\ SuccessMeansApplied'
    BY <2>4, Undisturbed DEF Dial, dispVars
  <2>5. CASE AgentStep
    <3> DEFINE c == agent.conn
    <3>0. UNCHANGED disp
      BY <2>5 DEF AgentStep, GetHelloAck, GetMigrateAck, Apply, IgnoreAck,
                  SessionClosed, SessionDrops, EndSession, dispVars
    <3>1. CASE GetHelloAck
      <4>1. c \in Conns /\ UNCHANGED applied
        BY <2>0, <3>1 DEF GetHelloAck
      <4>2. in' = in \/ in' = [in EXCEPT ![c] = Append(in[c], [type |-> "migrate_rules"])]
        BY <3>1 DEF GetHelloAck
      <4>3. CASE in' = in
        BY <3>0, <4>1, <4>3, Undisturbed
      <4>4. CASE in' = [in EXCEPT ![c] = Append(in[c], [type |-> "migrate_rules"])]
        <5> DEFINE frame == [type |-> "migrate_rules"]
        <5>1. in[c] \in Seq(ToPanel) /\ frame \in ToPanel
          BY <2>0, <4>1, FrameForms
        <5>2. \A i \in 1..Len(Append(in[c], frame)) :
                \/ Append(in[c], frame)[i] = frame
                \/ i \in 1..Len(in[c]) /\ Append(in[c], frame)[i] = in[c][i]
          BY <5>1, AppendElems
        <5>3. in'[c] = Append(in[c], frame) /\ \A b \in Conns \ {c} : in'[b] = in[b]
          BY <2>0, <4>1, <4>4
        <5>4. frame.type # "apply_ack"
          OBVIOUS
        <5>5. AcksTrue'
          <6> SUFFICES ASSUME NEW b \in Conns, NEW i \in 1..Len(in'[b]),
                              in'[b][i].type = "apply_ack", in'[b][i].ok
                       PROVE  <<b, in'[b][i].id>> \in applied
            BY <4>1 DEF AcksTrue
          <6>1. i \in 1..Len(in[b]) /\ in'[b][i] = in[b][i]
            BY <5>2, <5>3, <5>4
          <6> QED
            BY <6>1 DEF AcksTrue
        <5>6. SuccessMeansApplied'
          BY <3>0, <4>1 DEF SuccessMeansApplied
        <5> QED
          BY <5>5, <5>6
      <4> QED
        BY <4>2, <4>3, <4>4
    <3>2. CASE GetMigrateAck
      BY <3>0, <3>2, Undisturbed DEF GetMigrateAck
    <3>3. CASE Apply
      <4>1. c \in Conns
        BY <2>0, <3>3 DEF Apply
      <4>2. PICK ok \in BOOLEAN :
              /\ applied' = IF ok THEN applied \cup {<<c, Head(out[c]).id>>} ELSE applied
              /\ in' = [in EXCEPT ![c] = Append(@, [type |-> "apply_ack",
                                    id |-> Head(out[c]).id, ok |-> ok])]
        BY <3>3 DEF Apply
      <4> DEFINE frame == [type |-> "apply_ack", id |-> Head(out[c]).id, ok |-> ok]
      <4>3. Head(out[c]) \in ToAgent /\ Head(out[c]).type = "apply"
        BY <2>0, <3>3, <4>1, QueueOps DEF Apply, Readable
      <4>4. in[c] \in Seq(ToPanel) /\ frame \in ToPanel
        BY <2>0, <4>1, <4>3, FrameForms
      <4>5. applied \subseteq applied' /\ (ok => <<c, frame.id>> \in applied')
        BY <4>2
      <4>6. \A i \in 1..Len(Append(in[c], frame)) :
              \/ Append(in[c], frame)[i] = frame
              \/ i \in 1..Len(in[c]) /\ Append(in[c], frame)[i] = in[c][i]
        BY <4>4, AppendElems
      <4>7. in'[c] = Append(in[c], frame) /\ \A b \in Conns \ {c} : in'[b] = in[b]
        BY <2>0, <4>1, <4>2
      <4>8. AcksTrue'
        <5> SUFFICES ASSUME NEW b \in Conns, NEW i \in 1..Len(in'[b]),
                            in'[b][i].type = "apply_ack", in'[b][i].ok
                     PROVE  <<b, in'[b][i].id>> \in applied'
          BY DEF AcksTrue
        <5>1. CASE b = c /\ in'[b][i] = frame
          BY <4>5, <5>1
        <5>2. CASE b = c /\ in'[b][i] # frame
          <6>1. i \in 1..Len(in[b]) /\ in'[b][i] = in[b][i]
            BY <4>6, <4>7, <5>2
          <6> QED
            BY <4>5, <6>1 DEF AcksTrue
        <5>3. CASE b # c
          <6>1. in'[b] = in[b]
            BY <4>7, <5>3
          <6>2. in[b][i].type = "apply_ack" /\ in[b][i].ok /\ i \in 1..Len(in[b])
            BY <6>1
          <6>3. <<b, in[b][i].id>> \in applied
            BY <6>2 DEF AcksTrue
          <6> QED
            BY <4>5, <6>1, <6>3
        <5> QED
          BY <5>1, <5>2, <5>3
      <4> QED
        BY <3>0, <4>5, <4>8 DEF SuccessMeansApplied
    <3>4. CASE IgnoreAck
      BY <3>0, <3>4, Undisturbed DEF IgnoreAck, agentVars
    <3>5. CASE EndSession
      <4>1. PICK n \in 0..Len(in[c]) : in' = [in EXCEPT ![c] = SubSeq(@, 1, n)]
        BY <3>5 DEF EndSession
      <4>2. UNCHANGED applied
        BY <3>5 DEF EndSession
      <4>3. ASSUME NEW b \in Conns, NEW i \in 1..Len(in'[b])
            PROVE  i \in 1..Len(in[b]) /\ in'[b][i] = in[b][i]
        <5>1. CASE b = c
          <6>1. in[c] \in Seq(ToPanel) /\ in'[c] = SubSeq(in[c], 1, n)
            BY <2>0, <4>1, <5>1
          <6> QED
            BY <5>1, <6>1, Prefix
        <5>2. CASE b # c
          BY <2>0, <4>1, <5>2
        <5> QED
          BY <5>1, <5>2
      <4> QED
        BY <3>0, <4>2, <4>3 DEF AcksTrue, SuccessMeansApplied
    <3> QED
      BY <2>5, <3>1, <3>2, <3>3, <3>4, <3>5
         DEF AgentStep, SessionClosed, SessionDrops
  <2>6. CASE PanelRestart
    <3>1. \A c \in Conns : in'[c] = <<>>
      BY <2>6 DEF PanelRestart
    <3>2. \A d \in Dispatchers : disp'[d].pc = "idle"
      BY <2>6 DEF PanelRestart, IdleDispatch
    <3> QED
      BY <3>1, <3>2 DEF AcksTrue, SuccessMeansApplied
  <2>7. CASE UNCHANGED syncVars
    BY <2>7, Undisturbed DEF syncVars, dispVars, connVars, agentVars
  <2> QED
    BY <2>1, <2>2, <2>3, <2>4, <2>5, <2>6, <2>7
       DEF SyncNext, SomeDispatch, SomeHandler, SomeDial
<1> QED
  BY <1>1, <1>2, SyncTypeCorrect, PTL DEF SyncSpec

-----------------------------------------------------------------------------
\* Dispatches of the node do not overlap, and no handler is slower to open a
\* connection than the agent to redial or a dispatch to give up.
Orderly == (\A d, e \in Dispatchers : d = e) /\ "slow" \notin Events

\* A ruleset that is the wanted one, or is about to be followed by it.
Current(rev) == rev = want \/ owed > 0

Frames(c) == {i \in DOMAIN out[c] : out[c][i].type = "apply"}

ReadsCurrent == \A d \in Dispatchers : disp[d].pc = "read" => Current(disp[d].rev)

\* Frames are queued, and answered, in the order of their ids.
IdsGrow ==
  \A c \in Conns :
    /\ \A i \in Frames(c) : out[c][i].id <= nextId[c]
    /\ \A i, j \in Frames(c) : i < j => out[c][i].id < out[c][j].id
    /\ \A i \in DOMAIN in[c] : in[c][i].type = "apply_ack" => in[c][i].id <= nextId[c]

\* The dispatch that waits has sent the last frame of its connection.
WaitsForLast ==
  \A d \in Dispatchers : disp[d].pc = "wait" =>
    /\ disp[d].id = nextId[disp[d].conn]
    /\ \A i \in Frames(disp[d].conn) :
         out[disp[d].conn][i].id = disp[d].id => Current(out[disp[d].conn][i].rev)

Unopened ==
  \A c \in Conns : stage[c] \in {"none", "hello"} =>
    nextId[c] = 0 /\ c # current /\ c \notin closed

\* A dispatch that is early for a connection still waits when it is served.
OpeningHeld ==
  \A c \in Conns : stage[c] \in Opening =>
    /\ current = c /\ c \notin closed
    /\ nextId[c] = 0 \/ \E d \in Dispatchers : disp[d].pc = "wait" /\ disp[d].conn = c

\* The revision an agent reported is still what it holds.
HelloHeld ==
  agent.pc # "down" /\ nextId[agent.conn] = 0 /\ stage[agent.conn] \in {"hello"} \cup Opening
    => hello[agent.conn] = held

\* A dispatch whose frame was applied, as the panel knows or is about to read.
Confirmed(d) ==
  \/ disp[d].pc = "mark" /\ disp[d].ok
  \/ /\ disp[d].pc = "wait"
     /\ \E i \in DOMAIN in[disp[d].conn] :
          /\ in[disp[d].conn][i].type = "apply_ack"
          /\ in[disp[d].conn][i].id = disp[d].id /\ in[disp[d].conn][i].ok

\* No frame for the agent: nothing but its requests can change what it holds.
Drained == agent.pc # "down" => Frames(agent.conn) = {}

ConfirmedHeld == \A d \in Dispatchers : Confirmed(d) => Current(held) /\ Drained

Served == agent.pc # "down" /\ current = agent.conn /\ stage[agent.conn] \in Serving

Working == owed > 0 \/ \E d \in Dispatchers : disp[d].pc # "idle"

\* A served agent is flagged, or about to be sent the wanted ruleset or flagged,
\* or holds it and has nothing else coming.
ServedSynced == Served => lastError \/ Working \/ (held = want /\ Drained)

SyncInv ==
  /\ ReadsCurrent /\ IdsGrow /\ WaitsForLast /\ Unopened /\ OpeningHeld /\ HelloHeld
  /\ ConfirmedHeld /\ ServedSynced

\* The apply frames of q are some of those of p, in their order.
KeepsFrames(q, p) ==
  \E k \in Nat : \A i \in DOMAIN q : q[i].type = "apply" => i + k \in DOMAIN p /\ q[i] = p[i + k]

KeepsAcks(q, p) ==
  \A i \in DOMAIN q : q[i].type = "apply_ack" => \E j \in DOMAIN p : q[i] = p[j]

LEMMA Keeping ==
  /\ \A q \in Seq(ToAgent) : KeepsFrames(q, q) /\ KeepsFrames(<<>>, q)
  /\ \A q \in Seq(ToAgent) : q # <<>> => KeepsFrames(Tail(q), q)
  /\ \A q \in Seq(ToAgent), x \in ToAgent : x.type # "apply" => KeepsFrames(Append(q, x), q)
  /\ \A q \in Seq(ToPanel) : KeepsAcks(q, q) /\ KeepsAcks(<<>>, q)
  /\ \A q \in Seq(ToPanel) : q # <<>> => KeepsAcks(Tail(q), q)
  /\ \A q \in Seq(ToPanel), x \in ToPanel : x.type # "apply_ack" => KeepsAcks(Append(q, x), q)
  /\ \A q \in Seq(ToPanel) : \A n \in 0..Len(q) : KeepsAcks(SubSeq(q, 1, n), q)
<1>1. ASSUME NEW q \in Seq(ToAgent)
      PROVE  KeepsFrames(q, q) /\ KeepsFrames(<<>>, q)
  <2>1. \A i \in DOMAIN q : i + 0 \in DOMAIN q /\ q[i] = q[i + 0]
    OBVIOUS
  <2>2. DOMAIN <<>> = {}
    OBVIOUS
  <2> QED BY <2>1, <2>2 DEF KeepsFrames
<1>2. ASSUME NEW q \in Seq(ToAgent), q # <<>>
      PROVE  KeepsFrames(Tail(q), q)
  <2>1. \A i \in DOMAIN Tail(q) : i + 1 \in DOMAIN q /\ Tail(q)[i] = q[i + 1]
    BY <1>2
  <2> QED BY <2>1 DEF KeepsFrames
<1>3. ASSUME NEW q \in Seq(ToAgent), NEW x \in ToAgent, x.type # "apply"
      PROVE  KeepsFrames(Append(q, x), q)
  <2>1. \A i \in DOMAIN Append(q, x) :
          Append(q, x)[i].type = "apply" => i + 0 \in DOMAIN q /\ Append(q, x)[i] = q[i + 0]
    BY <1>3
  <2> QED BY <2>1 DEF KeepsFrames
<1>4. ASSUME NEW q \in Seq(ToPanel) PROVE KeepsAcks(q, q) /\ KeepsAcks(<<>>, q)
  BY DEF KeepsAcks
<1>5. ASSUME NEW q \in Seq(ToPanel), q # <<>> PROVE KeepsAcks(Tail(q), q)
  <2>1. \A i \in DOMAIN Tail(q) : i + 1 \in DOMAIN q /\ Tail(q)[i] = q[i + 1]
    BY <1>5
  <2> QED BY <2>1 DEF KeepsAcks
<1>6. ASSUME NEW q \in Seq(ToPanel), NEW x \in ToPanel, x.type # "apply_ack"
      PROVE  KeepsAcks(Append(q, x), q)
  <2>1. \A i \in DOMAIN Append(q, x) :
          Append(q, x)[i].type = "apply_ack" => i \in DOMAIN q /\ Append(q, x)[i] = q[i]
    BY <1>6
  <2> QED BY <2>1 DEF KeepsAcks
<1>7. ASSUME NEW q \in Seq(ToPanel), NEW n \in 0..Len(q) PROVE KeepsAcks(SubSeq(q, 1, n), q)
  <2>1. \A i \in DOMAIN SubSeq(q, 1, n) : i \in DOMAIN q /\ SubSeq(q, 1, n)[i] = q[i]
    OBVIOUS
  <2> QED BY <2>1 DEF KeepsAcks
<1> QED BY <1>1, <1>2, <1>3, <1>4, <1>5, <1>6, <1>7

\* The queues only lose frames and answers.
Keeps ==
  /\ nextId' = nextId
  /\ \A c \in Conns : KeepsFrames(out'[c], out[c])
  /\ \A c \in Conns : KeepsAcks(in'[c], in[c])

LEMMA FramesKept ==
  ASSUME Keeps, NEW c \in Conns, NEW i \in Frames(c)'
  PROVE  \E j \in Frames(c) : out'[c][i] = out[c][j]
BY DEF Keeps, KeepsFrames, Frames

LEMMA IdsKept ==
  ASSUME Keeps, IdsGrow, SyncTypeOK, SyncTypeOK'
  PROVE  IdsGrow'
<1> SUFFICES ASSUME NEW c \in Conns
             PROVE  /\ \A i \in Frames(c)' : out'[c][i].id <= nextId'[c]
                    /\ \A i, j \in Frames(c)' : i < j => out'[c][i].id < out'[c][j].id
                    /\ \A i \in DOMAIN in'[c] : in'[c][i].type = "apply_ack" => in'[c][i].id <= nextId'[c]
  BY DEF IdsGrow
<1>1. \A i \in Frames(c)' : out'[c][i].id <= nextId'[c]
  BY FramesKept DEF Keeps, IdsGrow
<1>2. PICK k \in Nat : \A i \in DOMAIN out'[c] :
        out'[c][i].type = "apply" => i + k \in DOMAIN out[c] /\ out'[c][i] = out[c][i + k]
  BY DEF Keeps, KeepsFrames
<1>3. out'[c] \in Seq(ToAgent)
  BY DEF SyncTypeOK
<1>4. \A i, j \in Frames(c)' : i < j => i + k < j + k /\ i + k \in Frames(c) /\ j + k \in Frames(c)
  BY <1>2, <1>3 DEF Frames
<1>5. \A i, j \in Frames(c)' : i < j => out'[c][i].id < out'[c][j].id
  BY <1>2, <1>4 DEF IdsGrow, Frames
<1>6. \A i \in DOMAIN in'[c] : in'[c][i].type = "apply_ack" => in'[c][i].id <= nextId'[c]
  BY DEF Keeps, KeepsAcks, IdsGrow
<1> QED BY <1>1, <1>5, <1>6

StaysCurrent == (want' = want /\ owed' >= owed) \/ owed' > 0

LEMMA CurrentKept ==
  ASSUME StaysCurrent, SyncTypeOK, SyncTypeOK', NEW rev, Current(rev)
  PROVE  Current(rev)'
BY DEF StaysCurrent, Current, SyncTypeOK

\* Dispatches wait as they did, or not at all, and read what is wanted.
WaitsKept ==
  \A d \in Dispatchers :
    \/ disp'[d] = disp[d]
    \/ disp'[d].pc = "read" /\ disp'[d].rev = want'
    \/ disp'[d].pc \notin {"read", "wait"}

LEMMA WaitingKept ==
  ASSUME Keeps, StaysCurrent, WaitsKept, SyncTypeOK, SyncTypeOK', ReadsCurrent, WaitsForLast
  PROVE  ReadsCurrent' /\ WaitsForLast'
<1>1. ReadsCurrent'
  <2> SUFFICES ASSUME NEW d \in Dispatchers, disp'[d].pc = "read"
               PROVE  disp'[d].rev = want' \/ owed' > 0
    BY DEF ReadsCurrent, Current
  <2> QED BY CurrentKept DEF ReadsCurrent, WaitsKept, Current
<1>2. WaitsForLast'
  <2> SUFFICES ASSUME NEW d \in Dispatchers, disp'[d].pc = "wait"
               PROVE  /\ disp'[d].id = nextId'[disp'[d].conn]
                      /\ \A i \in Frames(disp[d].conn)' :
                           out'[disp'[d].conn][i].id = disp'[d].id => Current(out[disp[d].conn][i].rev)'
    BY DEF WaitsForLast
  <2>1. PICK x : x = disp[d]
    OBVIOUS
  <2>2. disp'[d] = x /\ x.pc = "wait"
    BY <2>1 DEF WaitsKept
  <2>3. x.conn \in Conns
    BY <2>1, <2>2, DispatchForms DEF SyncTypeOK
  <2>4. x.id = nextId[x.conn] /\ \A i \in Frames(x.conn) : out[x.conn][i].id = x.id => Current(out[x.conn][i].rev)
    BY <2>1, <2>2 DEF WaitsForLast
  <2>5. ASSUME NEW i \in Frames(x.conn)', out'[x.conn][i].id = x.id
        PROVE  Current(out[x.conn][i].rev)'
    <3>1. PICK j \in Frames(x.conn) : out'[x.conn][i] = out[x.conn][j]
      BY <2>3, FramesKept
    <3>2. PICK f : f = out[x.conn][j]
      OBVIOUS
    <3>3. Current(f.rev)
      BY <2>4, <2>5, <3>1, <3>2
    <3>4. Current(f.rev)'
      BY <3>3, CurrentKept
    <3> QED BY <3>1, <3>2, <3>4 DEF Current
  <2>6. \A i \in Frames(x.conn)' : out'[x.conn][i].id = x.id => Current(out[x.conn][i].rev)'
    BY <2>5
  <2> QED BY <2>2, <2>4, <2>6 DEF Keeps
<1> QED BY <1>1, <1>2

\* The session goes on over its connection, or is over.
SessionKept == agent'.pc # "down" => agent.pc # "down" /\ agent'.conn = agent.conn

LEMMA DrainedKept ==
  ASSUME Keeps, SessionKept, SyncTypeOK, Drained
  PROVE  Drained'
<1> SUFFICES ASSUME agent'.pc # "down" PROVE Drained'
  BY DEF Drained
<1>1. PICK c \in Conns : c = agent.conn
  BY DEF SessionKept, SyncTypeOK
<1>2. agent'.conn = c /\ Frames(c) = {}
  BY <1>1 DEF SessionKept, Drained
<1>3. Frames(c)' = {}
  BY <1>2, FramesKept
<1> QED BY <1>2, <1>3 DEF Drained, Frames

LEMMA ConfirmedKept ==
  ASSUME Keeps, StaysCurrent, SessionKept, held' = held, SyncTypeOK, SyncTypeOK', ConfirmedHeld,
         \A d \in Dispatchers : Confirmed(d)' => Confirmed(d)
  PROVE  ConfirmedHeld'
<1> SUFFICES ASSUME NEW d \in Dispatchers, Confirmed(d)
             PROVE  Current(held)' /\ Drained'
  BY DEF ConfirmedHeld
<1>1. Current(held) /\ Drained
  BY DEF ConfirmedHeld
<1>2. Current(held)'
  BY <1>1, CurrentKept DEF Current
<1>3. Drained'
  BY <1>1, DrainedKept
<1> QED BY <1>2, <1>3

\* Steps that confirm no dispatch.
LEMMA NoneConfirmed ==
  ASSUME Keeps, SyncTypeOK, SyncTypeOK',
         \A d \in Dispatchers :
           \/ disp'[d] = disp[d]
           \/ disp'[d].pc # "wait" /\ ~(disp'[d].pc = "mark" /\ disp'[d].ok)
  PROVE  \A d \in Dispatchers : Confirmed(d)' => Confirmed(d)
<1> SUFFICES ASSUME NEW d \in Dispatchers, Confirmed(d)' PROVE Confirmed(d)
  OBVIOUS
<1>1. disp'[d] = disp[d]
  BY DEF Confirmed
<1>2. CASE disp[d].pc = "mark" /\ disp[d].ok
  BY <1>2 DEF Confirmed
<1>3. CASE disp[d].pc = "wait" /\ ~(disp[d].pc = "mark" /\ disp[d].ok)
  <2>1. PICK x : x = disp[d]
    OBVIOUS
  <2>2. x.conn \in Conns
    BY <1>3, <2>1, DispatchForms DEF SyncTypeOK
  <2>3. PICK i \in DOMAIN in'[x.conn] :
          in'[x.conn][i].type = "apply_ack" /\ in'[x.conn][i].id = x.id /\ in'[x.conn][i].ok
    BY <1>1, <1>3, <2>1 DEF Confirmed
  <2>4. PICK j \in DOMAIN in[x.conn] : in'[x.conn][i] = in[x.conn][j]
    BY <2>2, <2>3 DEF Keeps, KeepsAcks
  <2> QED BY <1>3, <2>1, <2>3, <2>4 DEF Confirmed
<1> QED BY <1>1, <1>2, <1>3 DEF Confirmed

\* Steps after which no dispatch has read its ruleset.
LEMMA NoneBusy ==
  ASSUME \A d \in Dispatchers : disp'[d].pc \in {"idle", "start"}
  PROVE  ReadsCurrent' /\ WaitsForLast' /\ ConfirmedHeld'
BY DEF ReadsCurrent, WaitsForLast, ConfirmedHeld, Confirmed

LEMMA ServedKept ==
  ASSUME Keeps, SessionKept, UNCHANGED <<held, want>>, SyncTypeOK, SyncTypeOK', ServedSynced,
         lastError => lastError', Working => Working', Served' => Served
  PROVE  ServedSynced'
<1>1. Drained => Drained'
  BY DrainedKept
<1> QED BY <1>1, Zenon DEF ServedSynced

\* Steps that leave the connections' openings alone.
LEMMA OpeningsKept ==
  ASSUME UNCHANGED <<current, stage, closed, hello, nextId, held>>, SessionKept,
         \A d \in Dispatchers :
           disp[d].pc = "wait" /\ stage[disp[d].conn] \in Opening => disp'[d] = disp[d],
         Unopened, OpeningHeld, HelloHeld
  PROVE  Unopened' /\ OpeningHeld' /\ HelloHeld'
<1>1. Unopened'
  BY DEF Unopened
<1>2. OpeningHeld'
  BY DEF OpeningHeld
<1>3. HelloHeld'
  BY DEF HelloHeld, SessionKept
<1> QED BY <1>1, <1>2, <1>3

\* A step that changes one queue, or none.
LEMMA QueueKept ==
  ASSUME SyncTypeOK, nextId' = nextId, NEW c \in Conns, NEW q, NEW p,
         out' = out \/ (out' = [out EXCEPT ![c] = q] /\ KeepsFrames(q, out[c])),
         in' = in \/ (in' = [in EXCEPT ![c] = p] /\ KeepsAcks(p, in[c]))
  PROVE  Keeps
<1>1. ASSUME NEW b \in Conns PROVE KeepsFrames(out'[b], out[b])
  <2>1. out[b] \in Seq(ToAgent) /\ out \in [Conns -> Seq(ToAgent)]
    BY DEF SyncTypeOK
  <2>2. KeepsFrames(out[b], out[b])
    BY <2>1, Keeping
  <2>3. out'[b] = out[b] \/ (b = c /\ out'[b] = q /\ KeepsFrames(q, out[c]))
    BY <2>1
  <2> QED BY <2>2, <2>3
<1>2. ASSUME NEW b \in Conns PROVE KeepsAcks(in'[b], in[b])
  <2>1. in[b] \in Seq(ToPanel) /\ in \in [Conns -> Seq(ToPanel)]
    BY DEF SyncTypeOK
  <2>2. KeepsAcks(in[b], in[b])
    BY <2>1, Keeping
  <2>3. in'[b] = in[b] \/ (b = c /\ in'[b] = p /\ KeepsAcks(p, in[c]))
    BY <2>1
  <2> QED BY <2>2, <2>3
<1> QED BY <1>1, <1>2 DEF Keeps

LEMMA QueuesUnchanged ==
  ASSUME SyncTypeOK, UNCHANGED <<nextId, out, in>>
  PROVE  Keeps
<1>1. ASSUME NEW c \in Conns PROVE KeepsFrames(out'[c], out[c]) /\ KeepsAcks(in'[c], in[c])
  <2>1. out[c] \in Seq(ToAgent) /\ in[c] \in Seq(ToPanel)
    BY DEF SyncTypeOK
  <2> QED BY <2>1, Keeping
<1> QED BY <1>1 DEF Keeps

\* Steps that only lose frames and answers and only end dispatches.
Calm ==
  /\ Keeps /\ StaysCurrent /\ SessionKept /\ held' = held
  /\ \A d \in Dispatchers :
       \/ disp'[d] = disp[d]
       \/ disp'[d].pc = "read" /\ disp'[d].rev = want'
       \/ disp'[d].pc \in {"idle", "start"}
       \/ disp'[d].pc = "mark" /\ ~disp'[d].ok

LEMMA CalmStep ==
  ASSUME SyncTypeOK, SyncTypeOK', SyncInv, Calm
  PROVE  ReadsCurrent' /\ IdsGrow' /\ WaitsForLast' /\ ConfirmedHeld'
<1>1. WaitsKept
  BY DEF Calm, WaitsKept
<1>2. \A d \in Dispatchers : Confirmed(d)' => Confirmed(d)
  BY NoneConfirmed DEF Calm
<1>3. ConfirmedHeld'
  BY <1>2, ConfirmedKept DEF SyncInv, Calm
<1> QED BY <1>1, <1>3, IdsKept, WaitingKept DEF SyncInv, Calm

LEMMA EditSync ==
  ASSUME SyncTypeOK, SyncTypeOK', SyncInv, Edit
  PROVE  SyncInv'
<1>1. Calm
  <2>1. Keeps
    BY QueuesUnchanged DEF Edit, connVars
  <2> QED BY <2>1 DEF Calm, Edit, StaysCurrent, SessionKept, agentVars, SyncTypeOK
<1>2. Unopened' /\ OpeningHeld' /\ HelloHeld'
  BY OpeningsKept DEF Edit, connVars, agentVars, SessionKept, SyncInv
<1>3. ServedSynced'
  BY DEF Edit, ServedSynced, Working, SyncTypeOK
<1> QED BY <1>1, <1>2, <1>3, CalmStep DEF SyncInv

LEMMA DispatchSync ==
  ASSUME Orderly, SyncTypeOK, SyncTypeOK', SyncInv, NEW d \in Dispatchers, DispatchStep(d)
  PROVE  SyncInv'
<1>0. /\ \A e \in Dispatchers : e = d
      /\ disp \in [Dispatchers -> Dispatch] /\ disp[d] \in Dispatch
      /\ owed \in Nat /\ owed' \in Nat
  BY DEF Orderly, SyncTypeOK
<1>1. CASE Begin(d)
  <2>1. disp'[d] = [pc |-> "start"]
    BY <1>0, <1>1 DEF Begin
  <2>2. Keeps
    BY <1>1, QueuesUnchanged DEF Begin, connVars
  <2>3. ReadsCurrent' /\ WaitsForLast' /\ ConfirmedHeld'
    BY <1>0, <2>1, NoneBusy
  <2>4. Unopened' /\ OpeningHeld' /\ HelloHeld'
    BY <1>0, <1>1, OpeningsKept DEF Begin, IdleDispatch, connVars, agentVars, SessionKept, SyncInv
  <2>5. ServedSynced'
    BY <2>1 DEF ServedSynced, Working
  <2> QED BY <2>2, <2>3, <2>4, <2>5, IdsKept DEF SyncInv
<1>2. CASE ReadRules(d)
  <2>1. disp'[d] = [pc |-> "read", rev |-> want]
    BY <1>0, <1>2 DEF ReadRules
  <2>2. Keeps
    BY <1>2, QueuesUnchanged DEF ReadRules, connVars
  <2>3. Calm
    BY <1>0, <1>2, <2>1, <2>2
       DEF Calm, ReadRules, StaysCurrent, SessionKept, agentVars, panelDB
  <2>4. Unopened' /\ OpeningHeld' /\ HelloHeld'
    BY <1>0, <1>2, OpeningsKept DEF ReadRules, connVars, agentVars, SessionKept, SyncInv
  <2>5. ServedSynced'
    BY <2>1 DEF ServedSynced, Working
  <2> QED BY <2>3, <2>4, <2>5, CalmStep DEF SyncInv
<1>3. CASE SendOffline(d)
  <2>1. disp'[d] = [pc |-> "mark", conn |-> NoConn, id |-> 0, ok |-> FALSE]
    BY <1>0, <1>3 DEF SendOffline
  <2>2. Keeps
    BY <1>3, QueuesUnchanged DEF SendOffline, connVars
  <2>3. Calm
    BY <1>0, <1>3, <2>1, <2>2
       DEF Calm, SendOffline, StaysCurrent, SessionKept, agentVars, panelDB
  <2>4. Unopened' /\ OpeningHeld' /\ HelloHeld'
    BY <1>0, <1>3, OpeningsKept DEF SendOffline, connVars, agentVars, SessionKept, SyncInv
  <2>5. ServedSynced'
    BY <2>1 DEF ServedSynced, Working
  <2> QED BY <2>3, <2>4, <2>5, CalmStep DEF SyncInv
<1>4. CASE GiveUp(d)
  <2>1. disp'[d].pc = "mark" /\ ~disp'[d].ok
    BY <1>0, <1>4 DEF GiveUp
  <2>2. Keeps
    BY <1>4, QueuesUnchanged DEF GiveUp, connVars
  <2>3. Calm
    BY <1>0, <1>4, <2>1, <2>2
       DEF Calm, GiveUp, StaysCurrent, SessionKept, agentVars, panelDB
  <2>4. disp[d].conn \in Conns
    BY <1>0, <1>4, DispatchForms DEF GiveUp
  <2>5. stage[disp[d].conn] \notin Opening
    BY <1>4, <2>4 DEF GiveUp, Orderly, SyncInv, OpeningHeld
  <2>6. Unopened' /\ OpeningHeld' /\ HelloHeld'
    BY <1>0, <1>4, <2>5, OpeningsKept DEF GiveUp, connVars, agentVars, SessionKept, SyncInv
  <2>7. ServedSynced'
    BY <2>1 DEF ServedSynced, Working
  <2> QED BY <2>3, <2>6, <2>7, CalmStep DEF SyncInv
<1>5. CASE Mark(d)
  <2>1. disp'[d] = IdleDispatch
    BY <1>0, <1>5 DEF Mark
  <2>2. Keeps
    BY <1>5, QueuesUnchanged DEF Mark, connVars
  <2>3. Calm
    BY <1>0, <1>5, <2>1, <2>2
       DEF Calm, Mark, StaysCurrent, SessionKept, agentVars, IdleDispatch
  <2>4. Unopened' /\ OpeningHeld' /\ HelloHeld'
    BY <1>0, <1>5, OpeningsKept DEF Mark, connVars, agentVars, SessionKept, SyncInv
  <2>5. ServedSynced'
    <3>1. CASE disp[d].ok
      <4>1. Current(held) /\ Drained
        BY <1>5, <3>1 DEF Mark, SyncInv, ConfirmedHeld, Confirmed
      <4>2. Drained'
        BY <1>5, <4>1 DEF Drained, Mark, connVars, agentVars, Frames
      <4>3. UNCHANGED <<held, want, owed>>
        BY <1>5 DEF Mark, agentVars
      <4> QED BY <4>1, <4>2, <4>3 DEF ServedSynced, Current, Working
    <3>2. CASE ~disp[d].ok
      <4>1. lastError'
        BY <1>5, <3>2 DEF Mark
      <4> QED BY <4>1 DEF ServedSynced
    <3> QED BY <3>1, <3>2
  <2> QED BY <2>3, <2>4, <2>5, CalmStep DEF SyncInv
<1>6. CASE Send(d)
  <2>1. PICK c \in Conns : c = current
    BY <1>6 DEF Send, SyncTypeOK
  <2>2. PICK id : id = nextId[c] + 1
    OBVIOUS
  <2>3. PICK rev : rev = disp[d].rev
    OBVIOUS
  <2> DEFINE frame == [type |-> "apply", id |-> id, rev |-> rev]
  <2>4. /\ disp' = [disp EXCEPT ![d] = [pc |-> "wait", conn |-> c, id |-> id]]
        /\ nextId' = [nextId EXCEPT ![c] = id]
        /\ out' = out \/ out' = [out EXCEPT ![c] = Append(@, frame)]
        /\ disp[d].pc = "read"
        /\ UNCHANGED <<panelDB, owed, current, stage, closed, hello, in, agentVars>>
    BY <1>6, <2>1, <2>2, <2>3 DEF Send, FrameId
  <2>5. /\ disp'[d] = [pc |-> "wait", conn |-> c, id |-> id]
        /\ nextId'[c] = id /\ id > nextId[c] /\ id \in Nat
        /\ \A b \in Conns : nextId'[b] >= nextId[b] /\ (b # c => nextId'[b] = nextId[b])
    BY <1>0, <2>2, <2>4 DEF SyncTypeOK
  <2>6. Current(rev) /\ Current(rev)'
    <3>1. Current(rev)
      BY <2>3, <2>4 DEF SyncInv, ReadsCurrent
    <3> QED BY <3>1, <2>4 DEF Current, panelDB
  <2>7. \A i \in DOMAIN out'[c] :
          \/ i \in DOMAIN out[c] /\ out'[c][i] = out[c][i]
          \/ out'[c][i] = frame /\ \A j \in DOMAIN out'[c] : i < j => FALSE
    <3>1. out[c] \in Seq(ToAgent)
      BY DEF SyncTypeOK
    <3>2. out'[c] = out[c] \/ out'[c] = Append(out[c], frame)
      BY <2>4 DEF SyncTypeOK
    <3> QED BY <3>1, <3>2
  <2>8. IdsGrow'
    <3> SUFFICES ASSUME NEW b \in Conns
                 PROVE  /\ \A i \in Frames(b)' : out'[b][i].id <= nextId'[b]
                        /\ \A i, j \in Frames(b)' : i < j => out'[b][i].id < out'[b][j].id
                        /\ \A i \in DOMAIN in'[b] :
                             in'[b][i].type = "apply_ack" => in'[b][i].id <= nextId'[b]
      BY DEF IdsGrow
    <3>0. out[b] \in Seq(ToAgent) /\ in[b] \in Seq(ToPanel) /\ nextId[b] \in Nat
      BY DEF SyncTypeOK
    <3>1. CASE b # c
      <4>1. out'[b] = out[b] /\ in'[b] = in[b] /\ nextId'[b] = nextId[b]
        BY <2>4, <2>5, <3>1 DEF SyncTypeOK
      <4> QED BY <4>1 DEF SyncInv, IdsGrow, Frames
    <3>2. CASE b = c
      <4>1. \A i \in Frames(c) : out[c][i].id <= nextId[c] /\ out[c][i].id \in Nat
        BY <3>0, <3>2, FrameForms DEF SyncInv, IdsGrow, Frames
      <4>2. \A i \in Frames(c)' :
              \/ i \in Frames(c) /\ out'[c][i] = out[c][i]
              \/ out'[c][i].id = id /\ \A j \in Frames(c)' : i < j => FALSE
        BY <2>7 DEF Frames
      <4>3. \A i \in DOMAIN in'[c] : in'[c][i].type = "apply_ack" => in'[c][i].id <= nextId[c]
        BY <2>4 DEF SyncInv, IdsGrow
      <4>4. \A i \in DOMAIN in'[c] : in'[c][i].type = "apply_ack" => in'[c][i].id \in Nat
        BY <2>4, <3>0, <3>2, FrameForms
      <4>5. \A i, j \in Frames(c) : i < j => out[c][i].id < out[c][j].id
        BY DEF SyncInv, IdsGrow
      <4>6. \A i \in Frames(c)' : out'[c][i].id <= nextId'[c]
        BY <2>5, <3>0, <3>2, <4>1, <4>2
      <4>7. \A i, j \in Frames(c)' : i < j => out'[c][i].id < out'[c][j].id
        BY <2>5, <3>0, <3>2, <4>1, <4>2, <4>5
      <4>8. \A i \in DOMAIN in'[c] : in'[c][i].type = "apply_ack" => in'[c][i].id <= nextId'[c]
        BY <2>5, <3>0, <3>2, <4>3, <4>4
      <4> QED BY <3>2, <4>6, <4>7, <4>8
    <3> QED BY <3>1, <3>2
  <2>9. ReadsCurrent'
    BY <1>0, <2>5 DEF ReadsCurrent
  <2>10. WaitsForLast'
    <3>1. ASSUME NEW i \in Frames(c)', out'[c][i].id = id PROVE Current(out[c][i].rev)'
      <4>1. out'[c][i] = frame
        <5> SUFFICES ASSUME i \in Frames(c), out'[c][i] = out[c][i] PROVE FALSE
          BY <2>7, <3>1 DEF Frames
        <5>1. out[c][i].id <= nextId[c] /\ out[c][i].id = id
          BY <3>1 DEF SyncInv, IdsGrow
        <5> QED BY <5>1, <2>5 DEF SyncTypeOK
      <4> QED BY <4>1, <2>6 DEF Current
    <3> QED BY <1>0, <2>5, <3>1 DEF WaitsForLast
  <2>11. Unopened'
    BY <2>1, <2>4, <2>5 DEF SyncInv, Unopened
  <2>12. OpeningHeld'
    BY <1>0, <2>1, <2>4, <2>5 DEF SyncInv, OpeningHeld
  <2>13. HelloHeld'
    BY <2>2, <2>4, <2>5 DEF SyncInv, HelloHeld, agentVars, SyncTypeOK
  <2>14. ConfirmedHeld'
    <3> SUFFICES ASSUME NEW e \in Dispatchers, Confirmed(e)' PROVE FALSE
      BY DEF ConfirmedHeld
    <3>1. PICK i \in DOMAIN in'[c] : in'[c][i].type = "apply_ack" /\ in'[c][i].id = id
      BY <1>0, <2>5 DEF Confirmed
    <3>2. in[c][i].id <= nextId[c]
      BY <2>4, <3>1 DEF SyncInv, IdsGrow
    <3> QED BY <2>4, <2>5, <3>1, <3>2 DEF SyncTypeOK
  <2>15. ServedSynced'
    BY <2>5 DEF ServedSynced, Working
  <2> QED BY <2>8, <2>9, <2>10, <2>11, <2>12, <2>13, <2>14, <2>15 DEF SyncInv
<1> QED BY <1>1, <1>2, <1>3, <1>4, <1>5, <1>6 DEF DispatchStep

\* Before a connection is registered nothing was sent over it.
LEMMA NothingSent ==
  ASSUME SyncTypeOK, IdsGrow, NEW c \in Conns, nextId[c] = 0
  PROVE  Frames(c) = {}
<1> SUFFICES ASSUME NEW i \in Frames(c) PROVE FALSE
  OBVIOUS
<1>1. out[c] \in Seq(ToAgent) /\ i \in DOMAIN out[c] /\ out[c][i].type = "apply"
  BY DEF Frames, SyncTypeOK
<1>2. out[c][i].id \in 1..MaxIds
  BY <1>1, FrameForms
<1> QED BY <1>2 DEF IdsGrow

LEMMA HandlerSync ==
  ASSUME Orderly, SyncTypeOK, SyncTypeOK', SyncInv, NEW c \in Conns, HandlerStep(c)
  PROVE  SyncInv'
<1>0. /\ stage \in [Conns -> {"none", "hello", "registered", "acked", "marked",
                              "serving", "accepting", "refusing", "closing",
                              "unregistered", "gone"}]
      /\ nextId \in [Conns -> 0..MaxIds] /\ hello \in [Conns -> Revs \cup {NoRev}]
      /\ closed \subseteq Conns
      /\ in \in [Conns -> Seq(ToPanel)] /\ out \in [Conns -> Seq(ToAgent)]
      /\ NoConn \notin Conns
      /\ agent.pc # "down" => agent.conn \in Conns
      /\ owed \in Nat
  BY NodeSyncAssumption DEF SyncTypeOK
<1>1. CASE Register(c)
  <2>1. /\ stage' = [stage EXCEPT ![c] = "registered"] /\ current' = c
        /\ closed' = closed \cup ({current} \ {NoConn})
        /\ UNCHANGED <<panelDB, dispVars, hello, nextId, out, in, agentVars>>
        /\ stage[c] = "hello" /\ \A b \in Conns : stage[b] \notin Opening
    BY <1>1 DEF Register, Orderly
  <2>2. nextId[c] = 0 /\ c # current /\ c \notin closed
    BY <2>1 DEF SyncInv, Unopened
  <2>3. Calm
    BY <2>1, QueuesUnchanged
       DEF Calm, StaysCurrent, SessionKept, panelDB, dispVars, agentVars, SyncTypeOK
  <2>4. Unopened'
    BY <1>0, <2>1 DEF SyncInv, Unopened
  <2>5. OpeningHeld'
    BY <1>0, <2>1, <2>2 DEF OpeningHeld
  <2>6. HelloHeld'
    BY <1>0, <2>1 DEF SyncInv, HelloHeld, agentVars
  <2>7. ServedSynced'
    BY <1>0, <2>1 DEF ServedSynced, Served, Serving
  <2> QED BY <2>3, <2>4, <2>5, <2>6, <2>7, CalmStep DEF SyncInv
<1>2. CASE AckHello(c)
  <2>1. /\ stage' = [stage EXCEPT ![c] = "acked"] /\ stage[c] = "registered"
        /\ UNCHANGED <<panelDB, dispVars, current, closed, hello, nextId, out, in,
                       agentVars>>
    BY <1>2 DEF AckHello
  <2>3. Calm
    BY <2>1, QueuesUnchanged
       DEF Calm, StaysCurrent, SessionKept, panelDB, dispVars, agentVars, SyncTypeOK
  <2>4. Unopened'
    BY <1>0, <2>1 DEF SyncInv, Unopened
  <2>5. OpeningHeld'
    BY <1>0, <2>1 DEF SyncInv, OpeningHeld, Opening, dispVars
  <2>6. HelloHeld'
    BY <1>0, <2>1 DEF SyncInv, HelloHeld, Opening, agentVars
  <2>7. ServedSynced'
    <3>1. Served' => Served
      BY <1>0, <2>1 DEF Served, Serving, agentVars
    <3> QED BY <2>1, <2>3, <3>1, ServedKept
            DEF SyncInv, Calm, panelDB, dispVars, agentVars, Working
  <2> QED BY <2>3, <2>4, <2>5, <2>6, <2>7, CalmStep DEF SyncInv
<1>3. CASE MarkOnline(c)
  <2>1. /\ stage' = [stage EXCEPT ![c] = "marked"] /\ stage[c] = "acked"
        /\ UNCHANGED <<want, edits, dispVars, current, closed, hello, nextId, out, in,
                       agentVars>>
    BY <1>3 DEF MarkOnline
  <2>3. Calm
    BY <2>1, QueuesUnchanged
       DEF Calm, StaysCurrent, SessionKept, dispVars, agentVars, SyncTypeOK
  <2>4. Unopened'
    BY <1>0, <2>1 DEF SyncInv, Unopened
  <2>5. OpeningHeld'
    BY <1>0, <2>1 DEF SyncInv, OpeningHeld, Opening, dispVars
  <2>6. HelloHeld'
    BY <1>0, <2>1 DEF SyncInv, HelloHeld, Opening, agentVars
  <2>7. ServedSynced'
    <3>1. current = c
      BY <2>1 DEF SyncInv, OpeningHeld, Opening
    <3>2. ~Served'
      BY <1>0, <2>1, <3>1 DEF Served, Serving
    <3> QED BY <3>2 DEF ServedSynced
  <2> QED BY <2>3, <2>4, <2>5, <2>6, <2>7, CalmStep DEF SyncInv
<1>4. CASE ReconcileOnConnect(c)
  <2>1. /\ stage' = [stage EXCEPT ![c] = "serving"] /\ stage[c] = "marked"
        /\ UNCHANGED <<panelDB, disp, current, closed, hello, nextId, out, in, agentVars>>
        /\ owed' = owed \/ owed' = owed + 1
        /\ hello[c] # want => owed' = owed + 1
    BY <1>4 DEF ReconcileOnConnect
  <2>3. Calm
    BY <1>0, <2>1, QueuesUnchanged
       DEF Calm, StaysCurrent, SessionKept, panelDB, agentVars
  <2>4. Unopened'
    BY <1>0, <2>1 DEF SyncInv, Unopened
  <2>5. OpeningHeld'
    BY <1>0, <2>1 DEF SyncInv, OpeningHeld, Opening
  <2>6. HelloHeld'
    BY <1>0, <2>1 DEF SyncInv, HelloHeld, Opening, agentVars
  <2>7. ServedSynced'
    <3> SUFFICES ASSUME Served', hello[c] = want, ~Working' PROVE ServedSynced'
      BY <1>0, <2>1 DEF ServedSynced, Working
    <3>1. current = c /\ agent.pc # "down" /\ agent.conn = c
      BY <2>1 DEF SyncInv, OpeningHeld, Opening, Served, agentVars
    <3>2. nextId[c] = 0
      BY <2>1 DEF SyncInv, OpeningHeld, Opening, Working
    <3>3. held = want
      BY <2>1, <3>1, <3>2 DEF SyncInv, HelloHeld, Opening
    <3>4. Drained
      BY <3>1, <3>2, NothingSent DEF SyncInv, Drained
    <3>5. held' = want' /\ Drained'
      BY <2>1, <3>3, <3>4 DEF panelDB, agentVars, Drained, Frames
    <3> QED BY <3>5 DEF ServedSynced
  <2> QED BY <2>3, <2>4, <2>5, <2>6, <2>7, CalmStep DEF SyncInv
<1>5. CASE ReadApplyAck(c)
  <2>1. PICK q : q = in[c]
    OBVIOUS
  <2>2. PICK ack : ack = Head(q)
    OBVIOUS
  <2>3. q \in Seq(ToPanel) /\ q # <<>> /\ ack \in ToPanel /\ 1 \in DOMAIN q /\ q[1] = ack
    BY <1>0, <1>5, <2>1, <2>2 DEF ReadApplyAck
  <2>4. /\ stage[c] = "serving" /\ ack.type = "apply_ack"
        /\ in' = [in EXCEPT ![c] = Tail(q)]
        /\ disp' = [d \in Dispatchers |->
                      IF d \in Waiters(c, ack.id)
                      THEN [pc |-> "mark", conn |-> disp[d].conn, id |-> disp[d].id,
                            ok |-> ack.ok]
                      ELSE disp[d]]
        /\ UNCHANGED <<panelDB, owed, current, stage, closed, hello, nextId, out,
                       agentVars>>
    BY <1>5, <2>1, <2>2 DEF ReadApplyAck
  <2>5. Keeps
    <3>1. KeepsAcks(Tail(q), q)
      BY <2>3, Keeping
    <3> QED BY <2>1, <2>4, <3>1, QueueKept
  <2>6. StaysCurrent /\ SessionKept /\ UNCHANGED <<held, want, lastError>>
    BY <1>0, <2>4 DEF StaysCurrent, SessionKept, panelDB, agentVars
  <2>7. WaitsKept
    BY <2>4 DEF WaitsKept
  <2>8. ASSUME NEW d \in Dispatchers, Confirmed(d)' PROVE Confirmed(d)
    <3>1. CASE d \in Waiters(c, ack.id)
      <4>1. disp'[d] = [pc |-> "mark", conn |-> disp[d].conn, id |-> disp[d].id,
                        ok |-> ack.ok]
        BY <2>4, <3>1
      <4>2. ack.ok
        BY <2>8, <4>1 DEF Confirmed
      <4> QED BY <2>1, <2>3, <2>4, <3>1, <4>2 DEF Confirmed, Waiters
    <3>2. CASE d \notin Waiters(c, ack.id)
      <4>1. PICK x : x = disp[d]
        OBVIOUS
      <4>2. disp'[d] = x
        BY <2>4, <3>2, <4>1
      <4>3. CASE x.pc = "mark" /\ x.ok
        BY <4>1, <4>3 DEF Confirmed
      <4>4. CASE ~(x.pc = "mark" /\ x.ok)
        <5>1. PICK i \in DOMAIN in'[x.conn] :
                /\ in'[x.conn][i].type = "apply_ack" /\ in'[x.conn][i].id = x.id
                /\ in'[x.conn][i].ok
          BY <2>8, <4>2, <4>4 DEF Confirmed
        <5>2. x.pc = "wait" /\ x.conn \in Conns
          BY <2>8, <4>1, <4>2, <4>4, DispatchForms DEF Confirmed, SyncTypeOK
        <5>3. PICK j \in DOMAIN in[x.conn] : in'[x.conn][i] = in[x.conn][j]
          BY <2>5, <5>1, <5>2 DEF Keeps, KeepsAcks
        <5> QED BY <4>1, <5>1, <5>2, <5>3 DEF Confirmed
      <4> QED BY <4>3, <4>4
    <3> QED BY <3>1, <3>2
  <2>9. ConfirmedHeld'
    BY <2>5, <2>6, <2>8, ConfirmedKept DEF SyncInv
  <2>10. Unopened' /\ OpeningHeld' /\ HelloHeld'
    <3>1. \A d \in Dispatchers :
            disp[d].pc = "wait" /\ stage[disp[d].conn] \in Opening => disp'[d] = disp[d]
      BY <2>4 DEF Waiters, Opening
    <3> QED BY <2>4, <2>6, <3>1, OpeningsKept DEF SyncInv, agentVars
  <2>11. ServedSynced'
    <3>1. Working => Working'
      BY <2>4 DEF Working, Waiters
    <3>2. Served' => Served
      BY <2>4 DEF Served, agentVars
    <3> QED BY <2>5, <2>6, <3>1, <3>2, ServedKept DEF SyncInv
  <2> QED BY <2>5, <2>6, <2>7, <2>9, <2>10, <2>11, IdsKept, WaitingKept DEF SyncInv
<1>6. CASE Import(c)
  <2>1. PICK q : q = in[c]
    OBVIOUS
  <2>2. /\ stage' = [stage EXCEPT ![c] = "accepting"] /\ stage[c] = "serving"
        /\ q \in Seq(ToPanel) /\ q # <<>> /\ in' = [in EXCEPT ![c] = Tail(q)]
        /\ owed' = owed + 1
        /\ UNCHANGED <<edits, online, lastError, disp, current, closed, hello, nextId,
                       out, agentVars>>
    BY <1>0, <1>6, <2>1 DEF Import
  <2>3. Keeps
    <3>1. KeepsAcks(Tail(q), q)
      BY <2>2, Keeping
    <3> QED BY <2>1, <2>2, <3>1, QueueKept
  <2>4. Calm
    BY <1>0, <2>2, <2>3 DEF Calm, StaysCurrent, SessionKept, agentVars
  <2>5. Unopened'
    BY <1>0, <2>2 DEF SyncInv, Unopened
  <2>6. OpeningHeld'
    BY <1>0, <2>2 DEF SyncInv, OpeningHeld, Opening
  <2>7. HelloHeld'
    BY <1>0, <2>2 DEF SyncInv, HelloHeld, Opening, agentVars
  <2>8. ServedSynced'
    BY <1>0, <2>2 DEF ServedSynced, Working
  <2> QED BY <2>4, <2>5, <2>6, <2>7, <2>8, CalmStep DEF SyncInv
<1>7. CASE RefuseImport(c)
  <2>1. PICK q : q = in[c]
    OBVIOUS
  <2>2. /\ stage' = [stage EXCEPT ![c] = "refusing"] /\ stage[c] = "serving"
        /\ q \in Seq(ToPanel) /\ q # <<>> /\ in' = [in EXCEPT ![c] = Tail(q)]
        /\ UNCHANGED <<panelDB, dispVars, current, closed, hello, nextId, out, agentVars>>
    BY <1>0, <1>7, <2>1 DEF RefuseImport
  <2>3. Keeps
    <3>1. KeepsAcks(Tail(q), q)
      BY <2>2, Keeping
    <3> QED BY <2>1, <2>2, <3>1, QueueKept
  <2>4. Calm
    BY <1>0, <2>2, <2>3
       DEF Calm, StaysCurrent, SessionKept, panelDB, dispVars, agentVars
  <2>5. Unopened'
    BY <1>0, <2>2 DEF SyncInv, Unopened
  <2>6. OpeningHeld'
    BY <1>0, <2>2 DEF SyncInv, OpeningHeld, Opening, dispVars
  <2>7. HelloHeld'
    BY <1>0, <2>2 DEF SyncInv, HelloHeld, Opening, agentVars
  <2>8. ServedSynced'
    <3>1. Served' => Served
      BY <1>0, <2>2 DEF Served, Serving, agentVars
    <3> QED BY <2>2, <2>3, <2>4, <3>1, ServedKept
            DEF SyncInv, Calm, panelDB, dispVars, agentVars, Working
  <2> QED BY <2>4, <2>5, <2>6, <2>7, <2>8, CalmStep DEF SyncInv
<1>8. CASE ReplyMigrate(c)
  <2>1. PICK q : q = out[c]
    OBVIOUS
  <2>2. PICK ok \in BOOLEAN : ok = (stage[c] = "accepting")
    OBVIOUS
  <2> DEFINE frame == [type |-> "rule_cmd_ack", ok |-> ok]
  <2>3. /\ stage' = [stage EXCEPT ![c] = "serving"]
        /\ stage[c] \in {"accepting", "refusing"}
        /\ out' = out \/ out' = [out EXCEPT ![c] = Append(q, frame)]
        /\ UNCHANGED <<panelDB, dispVars, current, closed, hello, nextId, in, agentVars>>
    BY <1>8, <2>1, <2>2 DEF ReplyMigrate
  <2>4. Keeps
    <3>1. q \in Seq(ToAgent) /\ frame \in ToAgent /\ frame.type # "apply"
      BY <1>0, <2>1, FrameForms
    <3>2. KeepsFrames(Append(q, frame), q)
      BY <3>1, Keeping
    <3> QED BY <2>1, <2>3, <3>2, QueueKept
  <2>5. Calm
    BY <1>0, <2>3, <2>4
       DEF Calm, StaysCurrent, SessionKept, panelDB, dispVars, agentVars
  <2>6. Unopened'
    BY <1>0, <2>3 DEF SyncInv, Unopened
  <2>7. OpeningHeld'
    BY <1>0, <2>3 DEF SyncInv, OpeningHeld, Opening, dispVars
  <2>8. HelloHeld'
    BY <1>0, <2>3 DEF SyncInv, HelloHeld, Opening, agentVars
  <2>9. ServedSynced'
    <3>1. Served' => Served
      BY <1>0, <2>3 DEF Served, Serving, agentVars
    <3> QED BY <2>3, <2>4, <2>5, <3>1, ServedKept
            DEF SyncInv, Calm, panelDB, dispVars, agentVars, Working
  <2> QED BY <2>5, <2>6, <2>7, <2>8, <2>9, CalmStep DEF SyncInv
<1>9. CASE ReaderEnds(c) \/ AckFails(c)
  <2>1. PICK q : q = out[c]
    OBVIOUS
  <2>2. /\ stage' = [stage EXCEPT ![c] = "closing"]
        /\ stage[c] \in {"serving", "registered"}
        /\ out' = out \/ out' = [out EXCEPT ![c] = <<>>]
        /\ UNCHANGED <<panelDB, dispVars, current, closed, hello, nextId, in, agentVars>>
    BY <1>9 DEF ReaderEnds, AckFails
  <2>3. Keeps
    <3>1. q \in Seq(ToAgent)
      BY <1>0, <2>1
    <3>2. KeepsFrames(<<>>, q)
      BY <3>1, Keeping
    <3> QED BY <2>1, <2>2, <3>2, QueueKept
  <2>4. Calm
    BY <1>0, <2>2, <2>3
       DEF Calm, StaysCurrent, SessionKept, panelDB, dispVars, agentVars
  <2>5. Unopened'
    BY <1>0, <2>2 DEF SyncInv, Unopened
  <2>6. OpeningHeld'
    BY <1>0, <2>2 DEF SyncInv, OpeningHeld, Opening, dispVars
  <2>7. HelloHeld'
    BY <1>0, <2>2 DEF SyncInv, HelloHeld, Opening, agentVars
  <2>8. ServedSynced'
    <3>1. Served' => Served
      BY <1>0, <2>2 DEF Served, Serving, agentVars
    <3> QED BY <2>2, <2>3, <2>4, <3>1, ServedKept
            DEF SyncInv, Calm, panelDB, dispVars, agentVars, Working
  <2> QED BY <2>4, <2>5, <2>6, <2>7, <2>8, CalmStep DEF SyncInv
<1>10. CASE Unregister(c)
  <2>1. /\ stage' = [stage EXCEPT ![c] = "unregistered"] /\ stage[c] = "closing"
        /\ current' = IF current = c THEN NoConn ELSE current
        /\ closed' = closed \cup {c}
        /\ UNCHANGED <<panelDB, dispVars, hello, nextId, out, in, agentVars>>
    BY <1>10 DEF Unregister
  <2>2. Keeps
    BY <2>1, QueuesUnchanged
  <2>3. Calm
    BY <1>0, <2>1, <2>2
       DEF Calm, StaysCurrent, SessionKept, panelDB, dispVars, agentVars
  <2>4. Unopened'
    BY <1>0, <2>1 DEF SyncInv, Unopened
  <2>5. OpeningHeld'
    BY <1>0, <2>1 DEF SyncInv, OpeningHeld, Opening, dispVars
  <2>6. HelloHeld'
    BY <1>0, <2>1 DEF SyncInv, HelloHeld, Opening, agentVars
  <2>7. ServedSynced'
    <3>1. Served' => Served
      BY <1>0, <2>1 DEF Served, Serving, agentVars
    <3> QED BY <2>1, <2>2, <2>3, <3>1, ServedKept
            DEF SyncInv, Calm, panelDB, dispVars, agentVars, Working
  <2> QED BY <2>3, <2>4, <2>5, <2>6, <2>7, CalmStep DEF SyncInv
<1>11. CASE MarkOffline(c)
  <2>1. PICK q : q = in[c]
    OBVIOUS
  <2>2. /\ stage' = [stage EXCEPT ![c] = "gone"] /\ stage[c] = "unregistered"
        /\ hello' = [hello EXCEPT ![c] = NoRev] /\ in' = [in EXCEPT ![c] = <<>>]
        /\ UNCHANGED <<want, lastError, dispVars, current, closed, nextId, out, agentVars>>
    BY <1>11 DEF MarkOffline
  <2>3. Keeps
    <3>1. KeepsAcks(<<>>, q)
      BY <1>0, <2>1, Keeping
    <3> QED BY <2>1, <2>2, <3>1, QueueKept
  <2>4. Calm
    BY <1>0, <2>2, <2>3
       DEF Calm, StaysCurrent, SessionKept, dispVars, agentVars
  <2>5. Unopened'
    BY <1>0, <2>2 DEF SyncInv, Unopened
  <2>6. OpeningHeld'
    BY <1>0, <2>2 DEF SyncInv, OpeningHeld, Opening, dispVars
  <2>7. HelloHeld'
    BY <1>0, <2>2 DEF SyncInv, HelloHeld, Opening, agentVars
  <2>8. ServedSynced'
    <3>1. Served' => Served
      BY <1>0, <2>2 DEF Served, Serving, agentVars
    <3> QED BY <2>2, <2>3, <2>4, <3>1, ServedKept
            DEF SyncInv, Calm, dispVars, agentVars, Working
  <2> QED BY <2>4, <2>5, <2>6, <2>7, <2>8, CalmStep DEF SyncInv
<1> QED BY <1>1, <1>2, <1>3, <1>4, <1>5, <1>6, <1>7, <1>8, <1>9, <1>10, <1>11
        DEF HandlerStep

LEMMA DialSync ==
  ASSUME SyncTypeOK, SyncTypeOK', SyncInv, NEW c \in Conns, Dial(c)
  PROVE  SyncInv'
<1>1. /\ agent.pc = "down" /\ stage[c] = "none"
      /\ agent' = [pc |-> "hello", conn |-> c]
      /\ stage' = [stage EXCEPT ![c] = "hello"]
      /\ hello' = [hello EXCEPT ![c] = held]
      /\ UNCHANGED <<panelDB, dispVars, current, closed, nextId, out, in, held>>
      /\ stage \in [Conns -> {"none", "hello", "registered", "acked", "marked",
                              "serving", "accepting", "refusing", "closing",
                              "unregistered", "gone"}]
      /\ hello \in [Conns -> Revs \cup {NoRev}]
  BY DEF Dial, SyncTypeOK
<1>2. Keeps /\ StaysCurrent /\ WaitsKept
  BY <1>1, QueuesUnchanged DEF StaysCurrent, WaitsKept, panelDB, dispVars, SyncTypeOK
<1>3. IdsGrow' /\ ReadsCurrent' /\ WaitsForLast'
  BY <1>2, IdsKept, WaitingKept DEF SyncInv
<1>4. Unopened'
  BY <1>1 DEF SyncInv, Unopened
<1>5. OpeningHeld'
  BY <1>1 DEF SyncInv, OpeningHeld, Opening, dispVars
<1>6. HelloHeld'
  BY <1>1 DEF HelloHeld
<1>7. ConfirmedHeld'
  <2>1. Frames(c) = {}
    BY <1>1, NothingSent DEF SyncInv, Unopened
  <2>2. Drained'
    BY <1>1, <2>1 DEF Drained, Frames
  <2>3. \A d \in Dispatchers : Confirmed(d)' => Confirmed(d)
    BY <1>1, <1>2, NoneConfirmed DEF dispVars
  <2>4. Current(held) => Current(held)'
    BY <1>1 DEF Current, panelDB, dispVars
  <2> QED BY <2>2, <2>3, <2>4 DEF SyncInv, ConfirmedHeld
<1>8. ServedSynced'
  BY <1>1 DEF ServedSynced, Served, Serving
<1> QED BY <1>3, <1>4, <1>5, <1>6, <1>7, <1>8 DEF SyncInv

LEMMA RestartSync ==
  ASSUME SyncTypeOK, SyncTypeOK', SyncInv, PanelRestart
  PROVE  SyncInv'
<1>1. /\ disp' = [d \in Dispatchers |-> IdleDispatch]
      /\ current' = NoConn
      /\ stage' = [c \in Conns |-> IF stage[c] = "none" THEN "none" ELSE "gone"]
      /\ closed' = {c \in Conns : stage[c] # "none"}
      /\ in' = [c \in Conns |-> <<>>]
      /\ out' = [c \in Conns |-> IF stage[c] \in Opening THEN <<>> ELSE out[c]]
      /\ UNCHANGED <<want, edits, lastError, nextId, agentVars>>
      /\ NoConn \notin Conns
      /\ agent.pc # "down" => agent.conn \in Conns
  BY NodeSyncAssumption DEF PanelRestart, SyncTypeOK
<1>2. Keeps
  <2>1. ASSUME NEW c \in Conns PROVE KeepsFrames(out'[c], out[c]) /\ KeepsAcks(in'[c], in[c])
    <3>1. out[c] \in Seq(ToAgent) /\ in[c] \in Seq(ToPanel)
      BY DEF SyncTypeOK
    <3>2. /\ KeepsFrames(out[c], out[c]) /\ KeepsFrames(<<>>, out[c])
          /\ KeepsAcks(<<>>, in[c])
      BY <3>1, Keeping
    <3>3. in'[c] = <<>> /\ (out'[c] = <<>> \/ out'[c] = out[c])
      BY <1>1
    <3> QED BY <3>2, <3>3
  <2> QED BY <1>1, <2>1 DEF Keeps
<1>3. ReadsCurrent' /\ WaitsForLast' /\ ConfirmedHeld'
  BY <1>1, NoneBusy DEF IdleDispatch
<1>4. Unopened'
  BY <1>1 DEF SyncInv, Unopened
<1>5. OpeningHeld' /\ HelloHeld'
  BY <1>1 DEF OpeningHeld, HelloHeld, Opening, agentVars
<1>6. ServedSynced'
  BY <1>1 DEF ServedSynced, Served, Serving, agentVars
<1> QED BY <1>2, <1>3, <1>4, <1>5, <1>6, IdsKept DEF SyncInv

LEMMA ApplySync ==
  ASSUME Orderly, SyncTypeOK, SyncTypeOK', SyncInv, Apply
  PROVE  SyncInv'
<1>1. PICK c \in Conns : c = agent.conn
  BY DEF Apply, SyncTypeOK
<1>2. PICK q : q = out[c]
  OBVIOUS
<1>3. PICK frame : frame = Head(q)
  OBVIOUS
<1>4. /\ q \in Seq(ToAgent) /\ q # <<>> /\ frame \in ToAgent
      /\ 1 \in DOMAIN q /\ q[1] = frame
  BY <1>1, <1>2, <1>3 DEF Apply, Readable, SyncTypeOK
<1>5. PICK ok \in BOOLEAN :
        /\ held' = IF ok THEN frame.rev ELSE held
        /\ in' = [in EXCEPT ![c] = Append(@, [type |-> "apply_ack",
                                              id |-> frame.id, ok |-> ok])]
  BY <1>1, <1>2, <1>3 DEF Apply
<1>6. /\ frame.type = "apply" /\ agent.pc = "serve"
      /\ stage[c] \notin Opening
      /\ out' = [out EXCEPT ![c] = Tail(q)]
      /\ UNCHANGED <<panelDB, dispVars, current, stage, closed, hello, nextId, agent>>
  BY <1>1, <1>2, <1>3 DEF Apply, Readable
<1>7. frame.id \in 1..MaxIds /\ frame.rev \in Revs
  BY <1>4, <1>6, FrameForms
<1>8. /\ 1 \in Frames(c) /\ out[c][1] = frame
      /\ nextId[c] \in Nat /\ frame.id <= nextId[c] /\ nextId[c] # 0
  <2>1. 1 \in Frames(c) /\ out[c][1] = frame
    BY <1>2, <1>4, <1>6 DEF Frames
  <2>2. frame.id <= nextId[c]
    BY <2>1 DEF SyncInv, IdsGrow
  <2>3. nextId[c] \in 0..MaxIds
    BY DEF SyncTypeOK
  <2> QED
    BY <1>7, <2>1, <2>2, <2>3
<1> DEFINE ack == [type |-> "apply_ack", id |-> frame.id, ok |-> ok]
<1>9. ack \in ToPanel /\ in[c] \in Seq(ToPanel) /\ in \in [Conns -> Seq(ToPanel)]
  BY <1>7, FrameForms DEF SyncTypeOK
<1>10. \A b \in Conns : \A i \in DOMAIN in'[b] :
         \/ i \in DOMAIN in[b] /\ in'[b][i] = in[b][i]
         \/ b = c /\ in'[b][i] = ack
  <2>1. \A i \in DOMAIN Append(in[c], ack) :
          \/ i \in DOMAIN in[c] /\ Append(in[c], ack)[i] = in[c][i]
          \/ Append(in[c], ack)[i] = ack
    BY <1>9, AppendElems
  <2>2. in'[c] = Append(in[c], ack) /\ \A b \in Conns \ {c} : in'[b] = in[b]
    BY <1>5, <1>9
  <2> QED BY <2>1, <2>2
\* What is left in the queue was sent later.
<1>11. \A b \in Conns : \A i \in Frames(b)' :
         \E j \in Frames(b) : out'[b][i] = out[b][j] /\ (b = c => j > 1)
  <2>1. \A i \in DOMAIN Tail(q) : i + 1 \in DOMAIN q /\ Tail(q)[i] = q[i + 1] /\ i + 1 > 1
    BY <1>4
  <2>2. out'[c] = Tail(q) /\ \A b \in Conns \ {c} : out'[b] = out[b]
    BY <1>6 DEF SyncTypeOK
  <2>3. \A i \in Frames(c)' : i + 1 \in Frames(c) /\ out'[c][i] = out[c][i + 1] /\ i + 1 > 1
    BY <1>2, <2>1, <2>2 DEF Frames
  <2>4. \A b \in Conns \ {c} : \A i \in Frames(b)' : i \in Frames(b) /\ out'[b][i] = out[b][i]
    BY <2>2 DEF Frames
  <2> QED BY <2>3, <2>4
<1>12. IdsGrow'
  <2>2. \A b \in Conns : \A i \in Frames(b)' : out'[b][i].id <= nextId'[b]
    BY <1>6, <1>11 DEF SyncInv, IdsGrow
  <2>3. \A b \in Conns : \A i, j \in Frames(b)' : i < j => out'[b][i].id < out'[b][j].id
    <3> SUFFICES ASSUME NEW b \in Conns, NEW i \in Frames(b)', NEW j \in Frames(b)', i < j
                 PROVE  out'[b][i].id < out'[b][j].id
      OBVIOUS
    <3>1. CASE b = c
      <4>1. /\ i + 1 \in Frames(c) /\ out'[c][i] = out[c][i + 1]
            /\ j + 1 \in Frames(c) /\ out'[c][j] = out[c][j + 1] /\ i + 1 < j + 1
        <5>1. out'[c] = Tail(q) /\ i \in DOMAIN Tail(q) /\ j \in DOMAIN Tail(q)
          BY <1>6, <3>1 DEF Frames, SyncTypeOK
        <5>2. /\ i + 1 \in DOMAIN q /\ Tail(q)[i] = q[i + 1]
              /\ j + 1 \in DOMAIN q /\ Tail(q)[j] = q[j + 1] /\ i + 1 < j + 1
          BY <1>4, <5>1
        <5> QED BY <1>2, <3>1, <5>1, <5>2 DEF Frames
      <4> QED BY <3>1, <4>1 DEF SyncInv, IdsGrow
    <3>2. CASE b # c
      <4>1. out'[b] = out[b]
        BY <1>6, <3>2 DEF SyncTypeOK
      <4> QED BY <4>1 DEF SyncInv, IdsGrow, Frames
    <3> QED BY <3>1, <3>2
  <2>4. \A b \in Conns : \A i \in DOMAIN in'[b] :
          in'[b][i].type = "apply_ack" => in'[b][i].id <= nextId'[b]
    BY <1>6, <1>8, <1>10 DEF SyncInv, IdsGrow
  <2> QED BY <2>2, <2>3, <2>4 DEF IdsGrow
<1>13. ReadsCurrent'
  BY <1>6 DEF SyncInv, ReadsCurrent, Current, panelDB, dispVars
<1>14. WaitsForLast'
  <2> SUFFICES ASSUME NEW d \in Dispatchers, disp[d].pc = "wait"
               PROVE  /\ disp[d].id = nextId[disp[d].conn]
                      /\ \A i \in Frames(disp[d].conn)' :
                           out'[disp[d].conn][i].id = disp[d].id
                             => Current(out[disp[d].conn][i].rev)'
    BY <1>6 DEF WaitsForLast, dispVars
  <2>1. PICK x : x = disp[d]
    OBVIOUS
  <2>2. x.conn \in Conns
    BY <2>1, DispatchForms DEF SyncTypeOK
  <2>3. ASSUME NEW i \in Frames(x.conn)', out'[x.conn][i].id = x.id
        PROVE  Current(out[x.conn][i].rev)'
    <3>1. PICK j \in Frames(x.conn) : out'[x.conn][i] = out[x.conn][j]
      BY <1>11, <2>2
    <3>2. Current(out[x.conn][j].rev)
      BY <2>1, <2>3, <3>1 DEF SyncInv, WaitsForLast
    <3> QED BY <1>6, <3>1, <3>2 DEF Current, panelDB, dispVars
  <2>4. disp'[d] = x
    BY <1>6, <2>1 DEF dispVars
  <2>5. \A i \in Frames(x.conn)' : out'[x.conn][i].id = x.id => Current(out[x.conn][i].rev)'
    BY <2>3
  <2> QED BY <2>1, <2>4, <2>5 DEF SyncInv, WaitsForLast
<1>15. Unopened'
  BY <1>6 DEF SyncInv, Unopened
<1>16. OpeningHeld'
  BY <1>6 DEF SyncInv, OpeningHeld, dispVars
<1>17. HelloHeld'
  BY <1>1, <1>6, <1>8 DEF HelloHeld
<1>18. ~Drained
  BY <1>1, <1>6, <1>8 DEF Drained
<1>19. ConfirmedHeld'
  <2> SUFFICES ASSUME NEW d \in Dispatchers, Confirmed(d)'
               PROVE  Current(held)' /\ Drained'
    BY DEF ConfirmedHeld
  <2>1. PICK x : x = disp[d]
    OBVIOUS
  <2>2. disp'[d] = x
    BY <1>6, <2>1 DEF dispVars
  <2>3. ~Confirmed(d)
    BY <1>18 DEF SyncInv, ConfirmedHeld
  <2>4. x.pc = "wait" /\ x.conn \in Conns
    BY <2>1, <2>2, <2>3, DispatchForms DEF Confirmed, SyncTypeOK
  <2>5. PICK i \in DOMAIN in'[x.conn] :
          in'[x.conn][i].type = "apply_ack" /\ in'[x.conn][i].id = x.id /\ in'[x.conn][i].ok
    BY <2>1, <2>2, <2>3 DEF Confirmed
  <2>6. x.conn = c /\ x.id = frame.id /\ ok
    <3>1. ~(i \in DOMAIN in[x.conn] /\ in'[x.conn][i] = in[x.conn][i])
      BY <2>1, <2>3, <2>4, <2>5 DEF Confirmed
    <3>2. x.conn = c /\ in'[x.conn][i] = ack
      BY <1>10, <2>4, <3>1
    <3> QED
      BY <2>5, <3>2
  <2>7. frame.id = nextId[c] /\ Current(frame.rev)
    BY <1>8, <2>1, <2>4, <2>6 DEF SyncInv, WaitsForLast
  <2>8. Current(held)'
    BY <1>5, <1>6, <2>6, <2>7 DEF Current, panelDB, dispVars
  <2>9. Frames(c)' = {}
    <3> SUFFICES ASSUME NEW k \in Frames(c)' PROVE FALSE
      OBVIOUS
    <3>1. PICK j \in Frames(c) : j > 1
      BY <1>11
    <3>2. j \in DOMAIN q /\ q[j].type = "apply"
      BY <1>2, <3>1 DEF Frames
    <3>3. q[j].id \in 1..MaxIds
      BY <1>4, <3>2, FrameForms
    <3>4. q[1].id < q[j].id /\ q[j].id <= nextId[c]
      BY <1>2, <1>8, <3>1 DEF SyncInv, IdsGrow
    <3> QED BY <1>4, <1>7, <2>7, <3>3, <3>4
  <2> QED BY <1>1, <1>6, <2>8, <2>9 DEF Drained, Frames
<1>20. ServedSynced'
  <2>1. (Served' => Served) /\ (Working => Working') /\ (lastError => lastError')
    BY <1>6 DEF Served, Working, dispVars, panelDB
  <2> QED BY <1>18, <2>1, Zenon DEF SyncInv, ServedSynced
<1> QED BY <1>12, <1>13, <1>14, <1>15, <1>16, <1>17, <1>19, <1>20 DEF SyncInv

LEMMA AgentSync ==
  ASSUME Orderly, SyncTypeOK, SyncTypeOK', SyncInv, AgentStep
  PROVE  SyncInv'
<1>1. CASE Apply
  BY <1>1, ApplySync
<1>2. ASSUME Keeps, SessionKept,
             UNCHANGED <<panelDB, dispVars, current, stage, closed, hello, nextId, held>>
      PROVE  SyncInv'
  <2>1. Calm
    BY <1>2 DEF Calm, StaysCurrent, panelDB, dispVars, SyncTypeOK
  <2>2. Unopened' /\ OpeningHeld' /\ HelloHeld'
    BY <1>2, OpeningsKept DEF SyncInv, dispVars
  <2>3. ServedSynced'
    <3>1. (Served' => Served) /\ (Working => Working') /\ (lastError => lastError')
      BY <1>2 DEF Served, Working, dispVars, panelDB, SessionKept
    <3> QED BY <1>2, <3>1, ServedKept DEF SyncInv, panelDB
  <2> QED BY <2>1, <2>2, <2>3, CalmStep DEF SyncInv
<1>3. CASE GetHelloAck
  <2>1. PICK c \in Conns : c = agent.conn
    BY <1>3 DEF GetHelloAck, SyncTypeOK
  <2>2. KeepsAcks(Append(in[c], [type |-> "migrate_rules"]), in[c])
    <3>1. in[c] \in Seq(ToPanel)
      BY DEF SyncTypeOK
    <3> QED BY <3>1, FrameForms, Keeping
  <2>3. in' = in \/ in' = [in EXCEPT ![c] = Append(in[c], [type |-> "migrate_rules"])]
    BY <1>3, <2>1 DEF GetHelloAck
  <2>4. UNCHANGED <<panelDB, dispVars, current, stage, closed, hello, nextId, out, held>>
    BY <1>3 DEF GetHelloAck
  <2>5. Keeps
    BY <2>2, <2>3, <2>4, QueueKept
  <2>6. SessionKept
    BY <1>3 DEF GetHelloAck, SessionKept, SyncTypeOK
  <2> QED BY <1>2, <2>4, <2>5, <2>6
<1>4. CASE GetMigrateAck \/ IgnoreAck
  <2>1. PICK c \in Conns : c = agent.conn
    BY <1>4 DEF GetMigrateAck, IgnoreAck, SyncTypeOK
  <2>2. PICK q : q = out[c]
    OBVIOUS
  <2>3. KeepsFrames(Tail(q), q)
    <3>1. q \in Seq(ToAgent) /\ q # <<>>
      BY <1>4, <2>1, <2>2 DEF SyncTypeOK, GetMigrateAck, IgnoreAck, Readable
    <3> QED BY <3>1, Keeping
  <2>4. /\ out' = [out EXCEPT ![c] = Tail(q)]
        /\ UNCHANGED <<panelDB, dispVars, current, stage, closed, hello, nextId, in, held>>
    BY <1>4, <2>1, <2>2 DEF GetMigrateAck, IgnoreAck, agentVars
  <2>5. Keeps
    BY <2>2, <2>3, <2>4, QueueKept
  <2>6. SessionKept
    BY <1>4 DEF GetMigrateAck, IgnoreAck, SessionKept, SyncTypeOK, agentVars
  <2> QED BY <1>2, <2>4, <2>5, <2>6
<1>5. CASE SessionClosed \/ SessionDrops
  <2>1. PICK c \in Conns : c = agent.conn
    BY <1>5 DEF SessionClosed, SessionDrops, SyncTypeOK
  <2>2. PICK n \in 0..Len(in[c]) : in' = [in EXCEPT ![c] = SubSeq(in[c], 1, n)]
    BY <1>5, <2>1 DEF SessionClosed, SessionDrops, EndSession
  <2>3. KeepsFrames(<<>>, out[c]) /\ KeepsAcks(SubSeq(in[c], 1, n), in[c])
    <3>1. out[c] \in Seq(ToAgent) /\ in[c] \in Seq(ToPanel)
      BY DEF SyncTypeOK
    <3> QED BY <3>1, <2>2, Keeping
  <2>4. /\ out' = [out EXCEPT ![c] = <<>>]
        /\ agent' = [pc |-> "down", conn |-> NoConn]
        /\ UNCHANGED <<panelDB, dispVars, current, stage, closed, hello, nextId, held>>
    BY <1>5, <2>1 DEF SessionClosed, SessionDrops, EndSession
  <2>5. Keeps
    BY <2>2, <2>3, <2>4, QueueKept
  <2>6. SessionKept
    BY <2>4 DEF SessionKept
  <2> QED BY <1>2, <2>4, <2>5, <2>6
<1> QED BY <1>1, <1>3, <1>4, <1>5 DEF AgentStep

\* When dispatches of the node do not overlap and connections open in time, a
\* served node with nothing under way holds the wanted ruleset or is flagged,
\* across lost acks, rejections, reconnects, restarts of the panel and imports.
THEOREM AlwaysSyncedOrFlagged ==
  ASSUME Orderly
  PROVE  SyncSpec => []SyncedOrFlagged
<1>1. SyncInit => SyncInv
  <2> SUFFICES ASSUME SyncInit PROVE SyncInv
    OBVIOUS
  <2>1. ReadsCurrent /\ WaitsForLast /\ ConfirmedHeld
    BY DEF SyncInit, IdleDispatch, ReadsCurrent, WaitsForLast, ConfirmedHeld, Confirmed
  <2>2. IdsGrow
    BY DEF SyncInit, IdsGrow, Frames
  <2>3. Unopened /\ OpeningHeld /\ HelloHeld /\ ServedSynced
    BY NodeSyncAssumption
       DEF SyncInit, Unopened, OpeningHeld, Opening, HelloHeld, ServedSynced, Served
  <2> QED BY <2>1, <2>2, <2>3 DEF SyncInv
<1>2. SyncTypeOK /\ SyncTypeOK' /\ SyncInv /\ [SyncNext]_syncVars => SyncInv'
  <2> SUFFICES ASSUME SyncTypeOK, SyncTypeOK', SyncInv, [SyncNext]_syncVars PROVE SyncInv'
    OBVIOUS
  <2>1. CASE UNCHANGED syncVars
    <3>1. UNCHANGED <<want, edits, online, lastError, owed, disp, current, stage, closed,
                      hello, nextId, out, in, agent, held, local, applied>>
      BY <2>1 DEF syncVars, panelDB, dispVars, connVars, agentVars
    <3>2. ReadsCurrent' /\ IdsGrow' /\ WaitsForLast' /\ ConfirmedHeld'
      BY <3>1 DEF SyncInv, ReadsCurrent, IdsGrow, WaitsForLast, ConfirmedHeld, Confirmed,
                  Current, Frames, Drained
    <3>3. Unopened' /\ OpeningHeld' /\ HelloHeld' /\ ServedSynced'
      BY <3>1 DEF SyncInv, Unopened, OpeningHeld, HelloHeld, ServedSynced, Served, Working,
                  Drained, Frames
    <3> QED BY <3>2, <3>3 DEF SyncInv
  <2>2. CASE SyncNext
    BY <2>2, EditSync, DispatchSync, HandlerSync, DialSync, AgentSync, RestartSync
       DEF SyncNext, SomeDispatch, SomeHandler, SomeDial
  <2> QED BY <2>1, <2>2
<1>3. SyncTypeOK /\ SyncInv => SyncedOrFlagged
  <2> SUFFICES ASSUME SyncTypeOK, SyncInv, Quiet PROVE held = want \/ lastError
    BY DEF SyncedOrFlagged
  <2>1. Served /\ ~Working
    BY DEF Quiet, Served, Serving, Working, IdleDispatch, SyncTypeOK
  <2> QED BY <2>1 DEF SyncInv, ServedSynced
<1> QED BY <1>1, <1>2, <1>3, SyncTypeCorrect, PTL DEF SyncSpec
=============================================================================
