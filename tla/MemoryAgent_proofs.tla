------------------------- MODULE MemoryAgent_proofs -------------------------
(***************************************************************************)
(* Proofs about three components whose state is computed step by step from *)
(* a sequence.  MemoryAgent: a memory is compacted once unless runs        *)
(* overlapped, and clusters cohere, for any memories, similarities and     *)
(* runs.  SwarmBridge: the ledger kept event by event agrees with the      *)
(* replay of all events, for any tasks, events, clients and failures.      *)
(* Codebase: nodes and links are those of the source tree, for any files,  *)
(* contents, edits, runs and crashes.                                      *)
(*                                                                         *)
(* The clusters are a recursive function of the memories, the replay one   *)
(* of the events and the nodes to emit one of the files, so that the       *)
(* proofs need induction over its argument.  It comes from the library's   *)
(* theorem that the finite subsets of a set are well-founded by strict     *)
(* inclusion: applied to initial segments it gives every nonempty set of   *)
(* numbers a least one, and with it induction for sets of numbers.         *)
(***************************************************************************)
EXTENDS MemoryAgent, SwarmBridge, Codebase, FiniteSetTheorems, WellFoundedInduction,
        TLAPS

\* The limits are numbers, and a cluster has room for its centroid.
Clustering == N \in Nat /\ MinCluster \in Nat /\ MaxCluster \in Nat \ {0}

-----------------------------------------------------------------------------
(* Induction                                                                *)

LEMMA LeastNumber ==
    ASSUME NEW B \in SUBSET Nat, B # {}
    PROVE  \E n \in B : \A m \in B : n <= m
<1> DEFINE T == {0 .. n : n \in B}
<1>1. T \subseteq FiniteSubsetsOf(Nat) /\ T # {}
  <2>1. ASSUME NEW n \in B PROVE 0 .. n \in SUBSET Nat /\ IsFiniteSet(0 .. n)
    BY FS_Interval
  <2> QED
    BY <2>1 DEF FiniteSubsetsOf
<1>2. PICK x \in T : \A y \in T : <<y, x>> \notin StrictSubsetOrdering(Nat)
  <2> HIDE DEF T
  <2> QED
    BY <1>1, FS_StrictSubsetOrderingWellFounded, WFMin
<1>3. PICK n \in B : x = 0 .. n
  OBVIOUS
<1>4. ASSUME NEW m \in B PROVE n <= m
  <2> SUFFICES ASSUME m < n PROVE FALSE
    OBVIOUS
  <2>1. 0 .. m \in T /\ 0 .. m \subseteq 0 .. n /\ 0 .. m # 0 .. n
    OBVIOUS
  <2>2. <<0 .. m, 0 .. n>> \in StrictSubsetOrdering(Nat)
    BY <2>1 DEF StrictSubsetOrdering
  <2> QED
    BY <1>2, <1>3, <2>1, <2>2
<1> QED
  BY <1>4

LEMMA SetInduction ==
    ASSUME NEW A, 0 \in A, \A n \in Nat : n \in A => n + 1 \in A
    PROVE  Nat \subseteq A
<1> SUFFICES ASSUME Nat \ A # {} PROVE FALSE
  OBVIOUS
<1>1. PICK n \in Nat \ A : \A m \in Nat \ A : n <= m
  BY LeastNumber
<1>2. n - 1 \in Nat /\ n - 1 \in A
  BY <1>1
<1> QED
  BY <1>1, <1>2

\* The functions F[1], .., F[n] can be applied one after the other.
LEMMA IterationExists ==
    ASSUME NEW X, NEW x0 \in X, NEW n \in Nat, NEW F \in [1 .. n -> [X -> X]]
    PROVE  \E g \in [0 .. n -> X] : g[0] = x0 /\ \A i \in 1 .. n : g[i] = F[i][g[i - 1]]
<1> DEFINE Good(k, g) == g[0] = x0 /\ \A i \in 1 .. k : g[i] = F[i][g[i - 1]]
           A == {k \in Nat : k <= n => \E g \in [0 .. k -> X] : Good(k, g)}
<1>1. 0 \in A
  <2>1. [i \in 0 .. 0 |-> x0] \in [0 .. 0 -> X] /\ Good(0, [i \in 0 .. 0 |-> x0])
    OBVIOUS
  <2> QED
    BY <2>1
<1>2. ASSUME NEW k \in Nat, k \in A PROVE k + 1 \in A
  <2> SUFFICES ASSUME k + 1 <= n PROVE \E g \in [0 .. k + 1 -> X] : Good(k + 1, g)
    OBVIOUS
  <2>1. PICK g \in [0 .. k -> X] : Good(k, g)
    BY <1>2
  <2> DEFINE h == [i \in 0 .. k + 1 |-> IF i = k + 1 THEN F[k + 1][g[k]] ELSE g[i]]
  <2>2. F[k + 1][g[k]] \in X
    <3>1. k + 1 \in 1 .. n /\ g[k] \in X
      OBVIOUS
    <3>2. F[k + 1] \in [X -> X]
      BY <3>1
    <3> QED
      BY <3>1, <3>2
  <2>3. h \in [0 .. k + 1 -> X]
    BY <2>2
  <2>4. Good(k + 1, h)
    <3>1. h[0] = x0
      BY <2>1
    <3>2. ASSUME NEW i \in 1 .. k + 1 PROVE h[i] = F[i][h[i - 1]]
      BY <2>1
    <3> QED
      BY <3>1, <3>2
  <2> QED
    BY <2>3, <2>4
<1>3. n \in A
  <2> HIDE DEF A
  <2> QED
    BY <1>1, <1>2, SetInduction
<1> QED
  BY <1>3

-----------------------------------------------------------------------------
(* Clusters                                                                 *)

LEMMA FirstSimilarIn ==
    ASSUME NEW c, NEW ms, NEW taken
    PROVE  /\ FirstSimilar(c, ms, taken) \subseteq ms \ (taken \cup {c})
           /\ \A m \in FirstSimilar(c, ms, taken) : <<c, m>> \in Similar
BY DEF FirstSimilar

\* The recursive definition of ClustersUpTo has a solution.
LEMMA ClusterTurns ==
    ASSUME Clustering, NEW ms \in SUBSET Memory
    PROVE  /\ ClustersUpTo(ms)[0] = {}
           /\ \A i \in 1 .. N :
                ClustersUpTo(ms)[i] = WithCentroid(i, ms, ClustersUpTo(ms)[i - 1])
<1> DEFINE X == SUBSET SUBSET Memory
           F == [i \in 1 .. N |-> [cs \in X |-> WithCentroid(i, ms, cs)]]
           Turns(g) == g = [i \in 0 .. N |-> IF i = 0 THEN {} ELSE WithCentroid(i, ms, g[i - 1])]
<1>1. F \in [1 .. N -> [X -> X]]
  <2>1. ASSUME NEW i \in 1 .. N, NEW cs \in X PROVE WithCentroid(i, ms, cs) \in X
    <3>1. CASE i \notin ms \/ i \in Taken(cs)
      BY <3>1 DEF WithCentroid
    <3>2. CASE ~(i \notin ms \/ i \in Taken(cs))
      <4>1. FirstSimilar(i, ms, Taken(cs)) \subseteq ms
        BY FirstSimilarIn
      <4>2. {i} \cup FirstSimilar(i, ms, Taken(cs)) \in SUBSET Memory
        BY <3>2, <4>1
      <4>3. cs \cup {{i} \cup FirstSimilar(i, ms, Taken(cs))} \in X
        BY <4>2
      <4> QED
        BY <3>2, <4>3 DEF WithCentroid
    <3> QED
      BY <3>1, <3>2
  <2> QED
    BY <2>1
<1>2. PICK g \in [0 .. N -> X] : g[0] = {} /\ \A i \in 1 .. N : g[i] = F[i][g[i - 1]]
  <2>1. {} \in X /\ N \in Nat
    BY DEF Clustering
  <2> HIDE DEF F, X
  <2> QED
    BY <1>1, <2>1, IterationExists
<1>3. Turns(g)
  <2>1. ASSUME NEW i \in 1 .. N PROVE g[i] = WithCentroid(i, ms, g[i - 1])
    <3>1. g[i - 1] \in X
      BY DEF Clustering
    <3> QED
      BY <1>2, <3>1
  <2> QED
    BY <1>2, <2>1 DEF Clustering
<1>4. Turns(ClustersUpTo(ms))
  BY <1>3, Zenon DEF ClustersUpTo
<1> DEFINE u == ClustersUpTo(ms)
<1>5. ASSUME NEW i \in 0 .. N
      PROVE  u[i] = IF i = 0 THEN {} ELSE WithCentroid(i, ms, u[i - 1])
  <2>1. u = [k \in 0 .. N |-> IF k = 0 THEN {} ELSE WithCentroid(k, ms, u[k - 1])]
    BY <1>4
  <2> HIDE DEF u
  <2> QED
    BY <2>1
<1> HIDE DEF u
<1>6. u[0] = {} /\ \A i \in 1 .. N : u[i] = WithCentroid(i, ms, u[i - 1])
  <2>1. 0 \in 0 .. N /\ \A i \in 1 .. N : i \in 0 .. N /\ i # 0
    BY DEF Clustering
  <2> QED
    BY <1>5, <2>1
<1> QED
  BY <1>6 DEF u

\* Of a set of memories, at most n have fewer than n before them.
LEMMA FirstFew ==
    ASSUME Clustering, NEW S \in SUBSET Memory, NEW n \in Nat
    PROVE  LET few == {m \in S : Cardinality({k \in S : k < m}) < n}
           IN  IsFiniteSet(few) /\ Cardinality(few) <= n
<1> DEFINE before(m) == {k \in S : k < m}
           few == {m \in S : Cardinality(before(m)) < n}
           rank == [m \in few |-> Cardinality(before(m))]
<1>1. IsFiniteSet(Memory) /\ Memory \subseteq Nat
  BY FS_Interval DEF Clustering, Memory
<1>2. ASSUME NEW m \in S PROVE IsFiniteSet(before(m)) /\ Cardinality(before(m)) \in Nat
  <2>1. before(m) \in SUBSET Memory
    OBVIOUS
  <2> QED
    BY <1>1, <2>1, FS_Subset, FS_CardinalityType
<1>3. ASSUME NEW a \in S, NEW b \in S, a < b
      PROVE  Cardinality(before(a)) < Cardinality(before(b))
  <2>1. /\ before(a) \in SUBSET before(b) /\ a \in before(b) /\ a \notin before(a)
    <3>1. \A k \in S : k \in Nat
      BY <1>1
    <3>2. \A k \in S : k < a => k < b
      BY <1>3, <3>1
    <3>3. ~(a < a)
      BY <3>1
    <3> QED
      BY <1>3, <3>2, <3>3
  <2> HIDE DEF before
  <2>2. /\ Cardinality(before(a)) <= Cardinality(before(b))
        /\ Cardinality(before(a)) # Cardinality(before(b))
    BY <1>2, <2>1, FS_Subset
  <2> QED
    BY <1>2, <2>2
<1>4. rank \in Injection(few, 0 .. n - 1)
  <2>1. ASSUME NEW m \in few PROVE rank[m] = Cardinality(before(m)) /\ rank[m] \in 0 .. n - 1
    <3> HIDE DEF before
    <3> QED
      BY <1>2
  <2>2. ASSUME NEW a \in few, NEW b \in few, rank[a] = rank[b] PROVE a = b
    <3>1. a \in Nat /\ b \in Nat /\ a \in S /\ b \in S
      BY <1>1
    <3>2. ~(a < b) /\ ~(b < a)
      <4> HIDE DEF before, few
      <4> QED
        BY <1>2, <1>3, <2>1, <2>2, <3>1
    <3> QED
      BY <3>1, <3>2
  <2>3. rank \in [few -> 0 .. n - 1]
    BY <2>1
  <2> HIDE DEF rank, few
  <2> QED
    BY <2>2, <2>3 DEF Injection, IsInjective
<1>5. IsFiniteSet(0 .. n - 1) /\ Cardinality(0 .. n - 1) = n
  BY FS_Interval
<1> QED
  BY <1>4, <1>5, FS_Injection

\* The best of a cluster is its centroid, the others are similar to it.
Coherent(c) ==
    \E m \in c : \A k \in c \ {m} : m < k /\ <<m, k>> \in Similar

\* Clusters of some of the memories ms, made in the turns of 1 .. i.
Clustered(ms, i, cs) ==
    /\ cs \subseteq SUBSET ms
    /\ \A m \in ms : m <= i => m \in Taken(cs)
    /\ \A c, d \in cs : c # d => c \cap d = {}
    /\ \A c \in cs : IsFiniteSet(c) /\ Cardinality(c) <= MaxCluster /\ Coherent(c)

LEMMA TurnKeepsClusters ==
    ASSUME Clustering, NEW ms \in SUBSET Memory, NEW i \in 1 .. N, NEW cs,
           Clustered(ms, i - 1, cs)
    PROVE  Clustered(ms, i, WithCentroid(i, ms, cs))
<1>1. ms \subseteq Nat /\ \A m \in ms : m <= i => m <= i - 1 \/ m = i
  BY DEF Clustering, Memory
<1>2. CASE i \notin ms \/ i \in Taken(cs)
  <2>1. WithCentroid(i, ms, cs) = cs
    BY <1>2 DEF WithCentroid
  <2> QED
    BY <1>1, <1>2, <2>1 DEF Clustered
<1>3. CASE i \in ms /\ i \notin Taken(cs)
  <2> DEFINE found == FirstSimilar(i, ms, Taken(cs))
             new == {i} \cup found
  <2>1. WithCentroid(i, ms, cs) = cs \cup {new}
    BY <1>3 DEF WithCentroid
  <2>2. /\ found \subseteq ms \ (Taken(cs) \cup {i})
        /\ \A m \in found : <<i, m>> \in Similar
    BY FirstSimilarIn
  <2>3. IsFiniteSet(new) /\ Cardinality(new) <= MaxCluster
    <3> DEFINE similar == {m \in ms \ (Taken(cs) \cup {i}) : <<i, m>> \in Similar}
    <3>1. found = {m \in similar : Cardinality({k \in similar : k < m}) < MaxCluster - 1}
      BY DEF FirstSimilar
    <3>2. similar \in SUBSET Memory /\ MaxCluster - 1 \in Nat
      BY DEF Clustering
    <3> HIDE DEF similar, found
    <3>3. IsFiniteSet(found) /\ Cardinality(found) <= MaxCluster - 1
      BY <3>1, <3>2, FirstFew
    <3>4. i \notin found
      BY <2>2
    <3>5. new = found \cup {i}
      OBVIOUS
    <3>6. IsFiniteSet(new) /\ Cardinality(new) = Cardinality(found) + 1
      BY <3>3, <3>4, <3>5, FS_AddElement
    <3>7. Cardinality(found) \in Nat
      BY <3>3, FS_CardinalityType
    <3> QED
      BY <3>3, <3>6, <3>7 DEF Clustering
  <2> HIDE DEF found
  <2>4. Coherent(new)
    <3>1. ASSUME NEW k \in found PROVE i < k
      <4>1. k \in ms /\ k \notin Taken(cs)
        BY <2>2
      <4>2. ~(k <= i - 1) /\ k # i
        BY <2>2, <4>1 DEF Clustered
      <4> QED
        BY <1>1, <4>1, <4>2
    <3>2. \A k \in new \ {i} : i < k /\ <<i, k>> \in Similar
      BY <2>2, <3>1
    <3> QED
      BY <3>2 DEF Coherent
  <2>5. new \in SUBSET ms /\ i \in new /\ \A d \in cs : new \cap d = {}
    <3>1. \A d \in cs : d \subseteq Taken(cs)
      BY DEF Taken
    <3>2. \A m \in new : m \in ms /\ m \notin Taken(cs)
      BY <1>3, <2>2
    <3> QED
      BY <3>1, <3>2
  <2> HIDE DEF new
  <2>6. \A c, d \in cs \cup {new} : c # d => c \cap d = {}
    BY <2>5 DEF Clustered
  <2>7. \A m \in ms : m <= i => m \in Taken(cs \cup {new})
    BY <1>1, <2>5 DEF Clustered, Taken
  <2> QED
    BY <2>1, <2>3, <2>4, <2>5, <2>6, <2>7 DEF Clustered
<1> QED
  BY <1>2, <1>3

LEMMA ClustersOf ==
    ASSUME Clustering, NEW ms \in SUBSET Memory
    PROVE  Clustered(ms, N, ClustersUpTo(ms)[N])
<1> DEFINE A == {i \in Nat : i <= N => Clustered(ms, i, ClustersUpTo(ms)[i])}
<1>1. 0 \in A
  <2>1. ClustersUpTo(ms)[0] = {}
    BY ClusterTurns
  <2>2. \A m \in ms : ~(m <= 0)
    BY DEF Memory, Clustering
  <2> QED
    BY <2>1, <2>2 DEF Clustered
<1>2. ASSUME NEW i \in Nat, i \in A PROVE i + 1 \in A
  <2> SUFFICES ASSUME i + 1 <= N PROVE Clustered(ms, i + 1, ClustersUpTo(ms)[i + 1])
    OBVIOUS
  <2>1. i + 1 \in 1 .. N /\ (i + 1) - 1 = i /\ Clustered(ms, i, ClustersUpTo(ms)[i])
    BY <1>2 DEF Clustering
  <2>2. ClustersUpTo(ms)[i + 1] = WithCentroid(i + 1, ms, ClustersUpTo(ms)[i])
    BY <2>1, ClusterTurns
  <2> QED
    BY <2>1, <2>2, TurnKeepsClusters
<1>3. N \in A
  <2> HIDE DEF A
  <2> QED
    BY <1>1, <1>2, SetInduction DEF Clustering
<1> QED
  BY <1>3 DEF Clustering

-----------------------------------------------------------------------------
(* The runs                                                                 *)

\* Two runs under way are on record as having overlapped.
TogetherRecorded == \A r, q \in Underway : r # q => {r, q} \in overlap

\* The clusters a run has still to store are apart, and have memories in common
\* only with compactions of runs that it overlaps.
Planned ==
    \A r \in Run : at[r] = "compact" =>
        /\ \A c \in todo[r] : /\ c \subseteq Memory
                              /\ Cardinality(c) \in MinCluster .. MaxCluster /\ Coherent(c)
        /\ \A c, d \in todo[r] : c # d => c \cap d = {}
        /\ \A c \in todo[r], d \in compactions :
              c \cap d.sources # {} => {d.by, r} \in overlap

\* The same for the one group of compactions a run is about to distil.
Grouped ==
    \A r \in Run : at[r] = "distil" =>
        /\ \A g, h \in todo[r] : g = h
        /\ \A g \in todo[r] : g \subseteq compactions
        /\ \A g \in todo[r], d \in distilled :
              g \cap d.sources # {} => {d.by, r} \in overlap

AgentInv ==
    /\ AgentTypeOK /\ todo = [r \in Run |-> todo[r]]
    /\ CompactedOnce /\ ClustersCohere
    /\ TogetherRecorded /\ Planned /\ Grouped

\* A step that stores nothing and plans nothing keeps the invariant.
LEMMA IdleStep ==
    ASSUME AgentInv, AgentTypeOK', todo' = [r \in Run |-> todo'[r]],
           UNCHANGED <<compactions, distilled, overlap>>, Underway' \subseteq Underway,
           \A r \in Run : at'[r] \in {"compact", "distil"}
                            => at[r] = at'[r] /\ todo'[r] = todo[r]
    PROVE  AgentInv'
<1>1. CompactedOnce' /\ ClustersCohere' /\ TogetherRecorded'
  BY DEF AgentInv, CompactedOnce, ClustersCohere, TogetherRecorded
<1>2. Planned'
  BY DEF AgentInv, Planned, Coherent
<1>3. Grouped'
  BY DEF AgentInv, Grouped
<1> QED
  BY <1>1, <1>2, <1>3 DEF AgentInv

LEMMA StartStep ==
    ASSUME AgentInv, NEW r \in Run, NEW recorded \in BOOLEAN, StartRun(r, recorded)
    PROVE  AgentInv'
<1>1. /\ at' = [at EXCEPT ![r] = "load"] /\ at[r] \in {"waiting", "checked"}
      /\ overlap' = overlap \cup {{r, q} : q \in Underway}
      /\ UNCHANGED <<present, compactions, distilled, indexed, todo>>
  BY DEF StartRun
<1>2. at \in [Run -> Place] /\ r \notin Underway /\ Underway' = Underway \cup {r}
  BY <1>1 DEF AgentInv, AgentTypeOK, Underway, Place
<1>3. AgentTypeOK' /\ todo' = [q \in Run |-> todo'[q]]
  BY <1>1, <1>2 DEF AgentInv, AgentTypeOK, StartRun, Place
<1>4. TogetherRecorded'
  <2> SUFFICES ASSUME NEW p \in Underway', NEW q \in Underway', p # q
               PROVE  {p, q} \in overlap'
    BY DEF TogetherRecorded
  <2>1. CASE p \in Underway /\ q \in Underway
    BY <1>1, <2>1 DEF AgentInv, TogetherRecorded
  <2>2. CASE p = r
    BY <1>1, <1>2, <2>2
  <2>3. CASE q = r
    <3>1. {r, p} \in overlap' /\ {p, q} = {r, p}
      BY <1>1, <1>2, <2>3
    <3> QED
      BY <3>1
  <2> QED
    BY <1>2, <2>1, <2>2, <2>3
<1>5. CompactedOnce' /\ ClustersCohere'
  BY <1>1 DEF AgentInv, CompactedOnce, ClustersCohere
<1>6. \A q \in Run : at'[q] \in {"compact", "distil"} => at[q] = at'[q]
  BY <1>1, <1>2
<1>7. Planned'
  BY <1>1, <1>6 DEF AgentInv, Planned, Coherent
<1>8. Grouped'
  BY <1>1, <1>6 DEF AgentInv, Grouped
<1> QED
  BY <1>3, <1>4, <1>5, <1>7, <1>8 DEF AgentInv

LEMMA LoadStep ==
    ASSUME Clustering, AgentInv, NEW r \in Run, LoadAndCluster(r)
    PROVE  AgentInv'
<1> DEFINE cs == ClusterBySimilarity(Uncompacted)
<1>1. /\ at[r] = "load" /\ at' = [at EXCEPT ![r] = "compact"]
      /\ todo' = [todo EXCEPT ![r] = cs]
      /\ UNCHANGED <<present, compactions, distilled, indexed, record, recent, overlap>>
  BY DEF LoadAndCluster
<1>2. /\ at \in [Run -> Place] /\ todo = [q \in Run |-> todo[q]]
      /\ Uncompacted \in SUBSET Memory
  BY DEF AgentInv, AgentTypeOK, Uncompacted
<1>3. /\ cs \subseteq ClustersUpTo(Uncompacted)[N]
      /\ \A c \in cs : Cardinality(c) >= MinCluster
      /\ Clustered(Uncompacted, N, ClustersUpTo(Uncompacted)[N])
  BY <1>2, ClustersOf DEF ClusterBySimilarity
<1>4. /\ \A c \in cs : c \subseteq Uncompacted /\ c \subseteq Memory
      /\ \A c \in cs : Cardinality(c) \in MinCluster .. MaxCluster /\ Coherent(c)
      /\ \A c, d \in cs : c # d => c \cap d = {}
  <2>1. ASSUME NEW c \in cs
        PROVE  /\ c \subseteq Uncompacted /\ c \subseteq Memory
               /\ Cardinality(c) \in MinCluster .. MaxCluster /\ Coherent(c)
    <3> HIDE DEF cs
    <3>1. c \in ClustersUpTo(Uncompacted)[N] /\ Cardinality(c) >= MinCluster
      BY <1>3, <2>1
    <3>2. /\ c \subseteq Uncompacted /\ IsFiniteSet(c)
          /\ Cardinality(c) <= MaxCluster /\ Coherent(c)
      BY <1>3, <3>1 DEF Clustered
    <3>3. Cardinality(c) \in Nat
      BY <3>2, FS_CardinalityType
    <3> QED
      BY <1>2, <3>1, <3>2, <3>3 DEF Clustering
  <2>2. \A c, d \in cs : c # d => c \cap d = {}
    <3> HIDE DEF cs
    <3> QED
      BY <1>3 DEF Clustered
  <2> HIDE DEF cs
  <2> QED
    BY <2>1, <2>2
<1> HIDE DEF cs
<1>5. \A c \in cs, d \in compactions : c \cap d.sources = {}
  BY <1>4 DEF Uncompacted
<1>6. AgentTypeOK' /\ todo' = [q \in Run |-> todo'[q]] /\ Underway' \subseteq Underway
  BY <1>1, <1>2 DEF AgentInv, AgentTypeOK, Underway, Place
<1>7. Planned'
  <2> SUFFICES ASSUME NEW q \in Run, at'[q] = "compact"
               PROVE  /\ \A c \in todo'[q] :
                            /\ c \subseteq Memory
                            /\ Cardinality(c) \in MinCluster .. MaxCluster /\ Coherent(c)
                      /\ \A c, d \in todo'[q] : c # d => c \cap d = {}
                      /\ \A c \in todo'[q], d \in compactions' :
                            c \cap d.sources # {} => {d.by, q} \in overlap'
    BY DEF Planned, Coherent
  <2>1. CASE q = r
    <3>1. todo'[q] = cs
      BY <1>1, <1>2, <2>1
    <3> QED
      BY <1>1, <1>4, <1>5, <3>1
  <2>2. CASE q # r
    <3>1. todo'[q] = todo[q] /\ at[q] = "compact"
      BY <1>1, <1>2, <2>2
    <3> QED
      BY <1>1, <3>1 DEF AgentInv, Planned
  <2> QED
    BY <2>1, <2>2
<1>8. Grouped'
  <2>1. \A q \in Run : at'[q] = "distil" => at[q] = "distil" /\ todo'[q] = todo[q]
    BY <1>1, <1>2
  <2> QED
    BY <1>1, <2>1 DEF AgentInv, Grouped
<1>9. CompactedOnce' /\ ClustersCohere' /\ TogetherRecorded'
  BY <1>1, <1>6 DEF AgentInv, CompactedOnce, ClustersCohere, TogetherRecorded
<1> QED
  BY <1>6, <1>7, <1>8, <1>9 DEF AgentInv

LEMMA CompactStep ==
    ASSUME Clustering, AgentInv, NEW r \in Run, Compact(r)
    PROVE  AgentInv'
<1>1. /\ at[r] = "compact" /\ at \in [Run -> Place] /\ todo = [q \in Run |-> todo[q]]
      /\ UNCHANGED <<present, distilled, indexed, record, recent, overlap>>
  BY DEF Compact, AgentInv, AgentTypeOK
<1>2. CASE todo[r] = {} /\ at' = [at EXCEPT ![r] = "index"] /\ UNCHANGED <<compactions, todo>>
  <2>1. AgentTypeOK' /\ Underway' \subseteq Underway
    BY <1>1, <1>2 DEF AgentInv, AgentTypeOK, Underway, Place
  <2>2. \A q \in Run : at'[q] \in {"compact", "distil"}
                         => at[q] = at'[q] /\ todo'[q] = todo[q]
    BY <1>1, <1>2
  <2> QED
    BY <1>1, <1>2, <2>1, <2>2, IdleStep
<1>3. ASSUME NEW x \in todo[r], todo' = [todo EXCEPT ![r] = todo[r] \ {x}], UNCHANGED at,
             \/ compactions' = compactions \cup {[sources |-> x, by |-> r]}
             \/ UNCHANGED compactions
      PROVE  AgentInv'
  <2> DEFINE new == [sources |-> x, by |-> r]
  <2>1. /\ x \subseteq Memory /\ Cardinality(x) \in MinCluster .. MaxCluster /\ Coherent(x)
        /\ \A c \in todo[r] : c # x => c \cap x = {}
        /\ \A d \in compactions : x \cap d.sources # {} => {d.by, r} \in overlap
    BY <1>1, <1>3 DEF AgentInv, Planned
  <2>2. /\ compactions \subseteq compactions' /\ compactions' \subseteq compactions \cup {new}
        /\ new.sources = x /\ new.by = r
    BY <1>3
  <2> HIDE DEF new
  <2>3. \A q \in Run : todo'[q] \subseteq todo[q] /\ (q = r => x \notin todo'[q])
    BY <1>1, <1>3
  <2>4. AgentTypeOK' /\ todo' = [q \in Run |-> todo'[q]]
    <3>1. \A c \in compactions' : c.sources \subseteq Memory /\ c.by \in Run
      BY <2>1, <2>2 DEF AgentInv, AgentTypeOK
    <3>2. \A c \in distilled : c.sources \subseteq compactions'
      BY <2>2 DEF AgentInv, AgentTypeOK
    <3> QED
      BY <1>1, <1>3, <3>1, <3>2 DEF AgentInv, AgentTypeOK
  <2>5. CompactedOnce'
    <3> SUFFICES ASSUME NEW c \in compactions', NEW d \in compactions',
                        c # d, c.sources \cap d.sources # {}
                 PROVE  {c.by, d.by} \in overlap
      BY <1>1 DEF CompactedOnce, AgentInv
    <3>1. CASE c \in compactions /\ d \in compactions
      BY <3>1 DEF AgentInv, CompactedOnce
    <3>2. CASE c = new /\ d \in compactions
      <4>1. {d.by, r} \in overlap /\ {c.by, d.by} = {d.by, r}
        BY <2>1, <2>2, <3>2
      <4> QED
        BY <4>1
    <3>3. CASE d = new /\ c \in compactions
      BY <2>1, <2>2, <3>3
    <3> QED
      BY <2>2, <3>1, <3>2, <3>3
  <2>6. ClustersCohere'
    BY <2>1, <2>2 DEF AgentInv, ClustersCohere, Coherent
  <2>7. TogetherRecorded'
    BY <1>1, <1>3 DEF AgentInv, TogetherRecorded, Underway
  <2>8. Planned'
    <3> SUFFICES ASSUME NEW q \in Run, at[q] = "compact"
                 PROVE  /\ \A c \in todo'[q] :
                              /\ c \subseteq Memory
                              /\ Cardinality(c) \in MinCluster .. MaxCluster /\ Coherent(c)
                        /\ \A c, d \in todo'[q] : c # d => c \cap d = {}
                        /\ \A c \in todo'[q], d \in compactions' :
                              c \cap d.sources # {} => {d.by, q} \in overlap'
      BY <1>3 DEF Planned, Coherent
    <3>1. /\ \A c \in todo[q] : /\ c \subseteq Memory
                                /\ Cardinality(c) \in MinCluster .. MaxCluster /\ Coherent(c)
          /\ \A c, d \in todo[q] : c # d => c \cap d = {}
          /\ \A c \in todo[q], d \in compactions :
                c \cap d.sources # {} => {d.by, q} \in overlap
      BY DEF AgentInv, Planned
    <3>2. ASSUME NEW c \in todo'[q], c \cap x # {} PROVE {r, q} \in overlap
      <4>1. q # r
        BY <2>1, <2>3, <3>2
      <4>2. q \in Underway /\ r \in Underway
        BY <1>1 DEF Underway
      <4> QED
        BY <4>1, <4>2 DEF AgentInv, TogetherRecorded
    <3>3. ASSUME NEW c \in todo'[q], NEW d \in compactions', c \cap d.sources # {}
          PROVE  {d.by, q} \in overlap
      <4>1. CASE d \in compactions
        BY <2>3, <3>1, <3>3, <4>1
      <4>2. CASE d = new
        BY <2>2, <3>2, <3>3, <4>2
      <4> QED
        BY <2>2, <4>1, <4>2
    <3> QED
      BY <1>1, <2>3, <3>1, <3>3
  <2>9. Grouped'
    <3>1. \A q \in Run : at'[q] = "distil" => at[q] = "distil" /\ todo'[q] = todo[q]
      BY <1>1, <1>3
    <3> QED
      BY <1>1, <2>2, <3>1 DEF AgentInv, Grouped
  <2> QED
    BY <2>4, <2>5, <2>6, <2>7, <2>8, <2>9 DEF AgentInv
<1> QED
  BY <1>2, <1>3 DEF Compact

LEMMA GroupStep ==
    ASSUME AgentInv, NEW r \in Run, GroupCompactions(r)
    PROVE  AgentInv'
<1> DEFINE open == {c \in compactions : \A d \in distilled : c \notin d.sources}
<1>1. /\ at[r] = "group" /\ at \in [Run -> Place] /\ todo = [q \in Run |-> todo[q]]
      /\ UNCHANGED <<present, compactions, distilled, indexed, record, recent, overlap>>
  BY DEF GroupCompactions, AgentInv, AgentTypeOK
<1>2. CASE at' = [at EXCEPT ![r] = "finish"] /\ UNCHANGED todo
  <2>1. AgentTypeOK' /\ Underway' \subseteq Underway
    BY <1>1, <1>2 DEF AgentInv, AgentTypeOK, Underway, Place
  <2>2. \A q \in Run : at'[q] \in {"compact", "distil"}
                         => at[q] = at'[q] /\ todo'[q] = todo[q]
    BY <1>1, <1>2
  <2> QED
    BY <1>1, <1>2, <2>1, <2>2, IdleStep
<1>3. ASSUME NEW g \in SUBSET open, at' = [at EXCEPT ![r] = "distil"],
             todo' = [todo EXCEPT ![r] = IF g = {} THEN {} ELSE {g}]
      PROVE  AgentInv'
  <2>1. AgentTypeOK' /\ todo' = [q \in Run |-> todo'[q]] /\ Underway' \subseteq Underway
    BY <1>1, <1>3 DEF AgentInv, AgentTypeOK, Underway, Place
  <2>2. \A q \in Run : at'[q] \in {"compact", "distil"} /\ q # r
                         => at[q] = at'[q] /\ todo'[q] = todo[q]
    BY <1>1, <1>3
  <2>3. at'[r] = "distil" /\ todo'[r] \subseteq {g}
    BY <1>1, <1>3
  <2>4. g \subseteq compactions /\ \A d \in distilled : g \cap d.sources = {}
    OBVIOUS
  <2> HIDE DEF open
  <2>5. Planned'
    BY <1>1, <2>2, <2>3 DEF AgentInv, Planned, Coherent
  <2>6. Grouped'
    <3> SUFFICES ASSUME NEW q \in Run, at'[q] = "distil"
                 PROVE  /\ \A x, y \in todo'[q] : x = y
                        /\ \A x \in todo'[q] : x \subseteq compactions
                        /\ \A x \in todo'[q], d \in distilled :
                              x \cap d.sources # {} => {d.by, q} \in overlap
      BY <1>1 DEF Grouped
    <3>1. CASE q = r
      BY <2>3, <2>4, <3>1
    <3>2. CASE q # r
      BY <2>2, <3>2 DEF AgentInv, Grouped
    <3> QED
      BY <3>1, <3>2
  <2>7. CompactedOnce' /\ ClustersCohere' /\ TogetherRecorded'
    BY <1>1, <2>1 DEF AgentInv, CompactedOnce, ClustersCohere, TogetherRecorded
  <2> QED
    BY <2>1, <2>5, <2>6, <2>7 DEF AgentInv
<1> QED
  BY <1>2, <1>3 DEF GroupCompactions

LEMMA DistilStep ==
    ASSUME AgentInv, NEW r \in Run, Distil(r)
    PROVE  AgentInv'
<1>1. /\ at[r] = "distil" /\ at \in [Run -> Place] /\ todo = [q \in Run |-> todo[q]]
      /\ todo' = [todo EXCEPT ![r] = {}] /\ at' = [at EXCEPT ![r] = "finish"]
      /\ \/ distilled' = distilled \cup {[sources |-> g, by |-> r] : g \in todo[r]}
         \/ UNCHANGED distilled
      /\ UNCHANGED <<present, compactions, indexed, record, recent, overlap>>
  BY DEF Distil, AgentInv, AgentTypeOK
<1>2. /\ distilled \subseteq distilled'
      /\ \A d \in distilled' : d \in distilled \/ (d.by = r /\ d.sources \in todo[r])
      /\ \A c, d \in distilled' : c \in distilled \/ d \in distilled \/ c = d
  <2>1. \A g, h \in todo[r] : g = h
    BY <1>1 DEF AgentInv, Grouped
  <2>2. \A g \in todo[r] : [sources |-> g, by |-> r].by = r
                           /\ [sources |-> g, by |-> r].sources = g
    OBVIOUS
  <2> QED
    BY <1>1, <2>1, <2>2
<1>3. /\ \A g \in todo[r] : g \subseteq compactions
      /\ \A g \in todo[r], d \in distilled : g \cap d.sources # {} => {d.by, r} \in overlap
  BY <1>1 DEF AgentInv, Grouped
<1>4. AgentTypeOK' /\ todo' = [q \in Run |-> todo'[q]] /\ Underway' \subseteq Underway
  <2>1. \A d \in distilled' : d.sources \subseteq compactions
    BY <1>2, <1>3 DEF AgentInv, AgentTypeOK
  <2> QED
    BY <1>1, <2>1 DEF AgentInv, AgentTypeOK, Underway, Place
<1>5. \A q \in Run : at'[q] \in {"compact", "distil"}
                       => q # r /\ at[q] = at'[q] /\ todo'[q] = todo[q]
  BY <1>1
<1>6. CompactedOnce'
  <2>1. ASSUME NEW c \in distilled', NEW d \in distilled', c # d, c.sources \cap d.sources # {}
        PROVE  {c.by, d.by} \in overlap
    <3>1. CASE c \in distilled /\ d \in distilled
      BY <2>1, <3>1 DEF AgentInv, CompactedOnce
    <3>2. CASE c \notin distilled
      <4>1. d \in distilled /\ c.by = r /\ c.sources \in todo[r]
        BY <1>2, <2>1, <3>2
      <4>2. {d.by, r} \in overlap /\ {c.by, d.by} = {d.by, r}
        BY <1>3, <2>1, <4>1
      <4> QED
        BY <4>2
    <3>3. CASE d \notin distilled
      <4>1. c \in distilled /\ d.by = r /\ d.sources \in todo[r]
        BY <1>2, <2>1, <3>3
      <4>2. d.sources \cap c.sources # {}
        BY <2>1
      <4> QED
        BY <1>3, <4>1, <4>2
    <3> QED
      BY <3>1, <3>2, <3>3
  <2> QED
    BY <1>1, <2>1 DEF AgentInv, CompactedOnce
<1>7. ClustersCohere' /\ TogetherRecorded'
  BY <1>1, <1>4 DEF AgentInv, ClustersCohere, TogetherRecorded
<1>8. Planned'
  BY <1>1, <1>5 DEF AgentInv, Planned, Coherent
<1>9. Grouped'
  <2> SUFFICES ASSUME NEW q \in Run, at'[q] = "distil", NEW g \in todo[q], NEW d \in distilled',
                      g \cap d.sources # {}
               PROVE  {d.by, q} \in overlap
    BY <1>1, <1>5 DEF AgentInv, Grouped
  <2>1. CASE d \in distilled
    BY <1>5, <2>1 DEF AgentInv, Grouped
  <2>2. CASE d \notin distilled
    <3>1. d.by = r /\ q # r /\ q \in Underway /\ r \in Underway
      BY <1>1, <1>2, <1>5, <2>2 DEF Underway
    <3> QED
      BY <3>1 DEF AgentInv, TogetherRecorded
  <2> QED
    BY <2>1, <2>2
<1> QED
  BY <1>4, <1>6, <1>7, <1>8, <1>9 DEF AgentInv

\* The steps that neither store nor plan a cluster.
LEMMA OtherStep ==
    ASSUME AgentInv, NEW r \in Run,
           CheckProgress(r) \/ IndexConcepts(r) \/ FinishRun(r) \/ Die(r) \/ Ages(r)
    PROVE  AgentInv'
<1>1. /\ at \in [Run -> Place] /\ todo = [q \in Run |-> todo[q]]
      /\ UNCHANGED <<compactions, distilled, overlap>>
  BY DEF AgentInv, AgentTypeOK, CheckProgress, IndexConcepts, FinishRun, Die, Ages
<1>2. \E p \in {"skipped", "checked", "group", "done", "dead"} :
        \/ at' = at
        \/ /\ at' = [at EXCEPT ![r] = p]
           /\ p \in {"skipped", "checked"} => r \notin Underway
           /\ p = "group" => r \in Underway
  BY DEF CheckProgress, IndexConcepts, FinishRun, Die, Ages, Underway
<1>3. todo' = [q \in Run |-> todo'[q]] /\ \A q \in Run : q # r => todo'[q] = todo[q]
  BY <1>1 DEF CheckProgress, IndexConcepts, FinishRun, Die, Ages
<1>4. at' = at => todo' = todo
  BY <1>1 DEF CheckProgress, IndexConcepts, FinishRun, Die, Ages, Underway
<1>5. Underway' \subseteq Underway
  BY <1>1, <1>2 DEF Underway, Place
<1>6. \A q \in Run : at'[q] \in {"compact", "distil"}
                       => at[q] = at'[q] /\ todo'[q] = todo[q]
  BY <1>1, <1>2, <1>3, <1>4
<1>7. AgentTypeOK'
  <2>1. at' \in [Run -> Place]
    BY <1>1, <1>2 DEF Place
  <2>2. indexed' \subseteq Memory /\ present' = present /\ recent' \subseteq Run
    BY DEF AgentInv, AgentTypeOK, CheckProgress, IndexConcepts, FinishRun, Die, Ages
  <2>3. record' \in [Run -> {"none", "running", "done"}]
    BY DEF AgentInv, AgentTypeOK, CheckProgress, IndexConcepts, FinishRun, Die, Ages
  <2> QED
    BY <1>1, <2>1, <2>2, <2>3 DEF AgentInv, AgentTypeOK
<1> QED
  BY <1>1, <1>3, <1>5, <1>6, <1>7, IdleStep

-----------------------------------------------------------------------------
\* The idle-time agent (memu/memory_agent.py), for any memories, similarities
\* and runs: a memory goes into one compaction and a compaction into one
\* distillation unless two runs overlapped, and what cluster_by_similarity
\* groups is similar to the best of the group and of an admitted size.
THEOREM AgentKept ==
    ASSUME Clustering
    PROVE  AgentSpec => []AgentSafe
<1>1. AgentInit => AgentInv
  BY DEF AgentInit, AgentInv, AgentTypeOK, Place, CompactedOnce, ClustersCohere,
         TogetherRecorded, Underway, Planned, Grouped
<1>2. AgentInv /\ [AgentNext]_agentVars => AgentInv'
  <2> SUFFICES ASSUME AgentInv, [AgentNext]_agentVars PROVE AgentInv'
    OBVIOUS
  <2>1. ASSUME NEW m \in Memory, NewMemory(m) PROVE AgentInv'
    <3>1. AgentTypeOK' /\ Underway' = Underway
      BY <2>1 DEF NewMemory, AgentInv, AgentTypeOK, Underway
    <3>2. UNCHANGED <<compactions, distilled, overlap, at, todo>>
      BY <2>1 DEF NewMemory
    <3> QED
      BY <3>1, <3>2, IdleStep DEF AgentInv
  <2>2. ASSUME NEW r \in Run, NEW recorded \in BOOLEAN, StartRun(r, recorded) PROVE AgentInv'
    BY <2>2, StartStep
  <2>3. ASSUME NEW r \in Run, LoadAndCluster(r) PROVE AgentInv'
    BY <2>3, LoadStep
  <2>4. ASSUME NEW r \in Run, Compact(r) PROVE AgentInv'
    BY <2>4, CompactStep
  <2>5. ASSUME NEW r \in Run, GroupCompactions(r) PROVE AgentInv'
    BY <2>5, GroupStep
  <2>6. ASSUME NEW r \in Run, Distil(r) PROVE AgentInv'
    BY <2>6, DistilStep
  <2>7. ASSUME NEW r \in Run,
               CheckProgress(r) \/ IndexConcepts(r) \/ FinishRun(r) \/ Die(r) \/ Ages(r)
        PROVE  AgentInv'
    BY <2>7, OtherStep
  <2>8. CASE UNCHANGED agentVars
    <3>1. AgentTypeOK' /\ Underway' = Underway
      BY <2>8 DEF agentVars, AgentInv, AgentTypeOK, Underway
    <3> QED
      BY <2>8, <3>1, IdleStep DEF agentVars, AgentInv
  <2> QED
    BY <2>1, <2>2, <2>3, <2>4, <2>5, <2>6, <2>7, <2>8 DEF AgentNext
<1>3. AgentInv => AgentSafe
  BY DEF AgentInv, AgentSafe
<1> QED
  BY <1>1, <1>2, <1>3, PTL DEF AgentSpec

-----------------------------------------------------------------------------
(* The replay                                                               *)

Node == [known : BOOLEAN, status : Status, gateway : TaskGateway \cup {NoGateway},
         parent : Task \cup {NoTask}, spent : Nat, children : SUBSET Task]

\* What the match statement makes of a node, whoever it takes for the holder.
LEMMA ApplyFacts ==
    ASSUME NEW node \in Node, NEW e \in Event, NEW holder \in TaskGateway
    PROVE  LET a == ApplyTo(node, e, holder) IN
           /\ a \in Node
           /\ a.known = TRUE /\ a.spent = node.spent + 1 /\ a.children = node.children
           /\ a.status = StatusAfter(e.type, node.status)
           /\ a.gateway = GatewayAfter(e.type, holder, node.gateway)
           /\ a.parent = IF e.type = "task_drafted" THEN ParentOf[e.task] ELSE node.parent
<1>1. /\ node.status \in Status /\ node.gateway \in TaskGateway \cup {NoGateway}
      /\ node.parent \in Task \cup {NoTask} /\ node.spent \in Nat
      /\ node.children \in SUBSET Task
      /\ e.task \in Task
      /\ node = [known |-> node.known, status |-> node.status, gateway |-> node.gateway,
                 parent |-> node.parent, spent |-> node.spent, children |-> node.children]
  BY DEF Node, Event
<1>2. StatusAfter(e.type, node.status) \in Status
  BY <1>1 DEF StatusAfter, Status
<1>3. GatewayAfter(e.type, holder, node.gateway) \in TaskGateway \cup {NoGateway}
  BY <1>1 DEF GatewayAfter
<1>4. ParentOf[e.task] \in Task \cup {NoTask}
  BY <1>1, TaskNames
<1> DEFINE a == ApplyTo(node, e, holder)
           pa == IF e.type = "task_drafted" THEN ParentOf[e.task] ELSE node.parent
<1>5. /\ a.known = TRUE /\ a.spent = node.spent + 1 /\ a.children = node.children
      /\ a.status = StatusAfter(e.type, node.status)
      /\ a.gateway = GatewayAfter(e.type, holder, node.gateway)
      /\ a.parent = pa
  BY DEF ApplyTo, Node
<1>6. a \in Node
  <2> DEFINE st == StatusAfter(e.type, node.status)
             ga == GatewayAfter(e.type, holder, node.gateway)
             sp == node.spent + 1
  <2>1. /\ pa \in Task \cup {NoTask} /\ st \in Status /\ ga \in TaskGateway \cup {NoGateway}
        /\ sp \in Nat
    BY <1>1, <1>2, <1>3, <1>4
  <2>2. a = [node EXCEPT !.known = TRUE, !.spent = sp, !.status = st, !.gateway = ga,
                         !.parent = pa]
    BY DEF ApplyTo, Node
  <2> HIDE DEF a, st, ga, sp, pa
  <2> QED
    BY <2>1, <2>2 DEF Node
<1> QED
  BY <1>5, <1>6

LEMMA UnknownType == NoNodes \in [Task -> Node]
  BY DEF NoNodes, Unknown, Node, Status

\* Whom an event makes the holder of its task, as the replay takes it.
Holder(e) == IF e.type = "lease_granted" THEN e.gateway ELSE Named(e)

LEMMA HolderType ==
    ASSUME NEW e \in Event
    PROVE  e.task \in Task /\ Holder(e) \in TaskGateway /\ Named(e) \in TaskGateway
  BY DEF Holder, Named, Event

\* What an event makes of its task: node before, new after.
Advanced(e, holder, node, new) ==
    /\ new.known = TRUE /\ new.spent = node.spent + 1 /\ new.children = node.children
    /\ new.status = StatusAfter(e.type, node.status)
    /\ new.gateway = GatewayAfter(e.type, holder, node.gateway)
    /\ new.parent = IF e.type = "task_drafted" THEN ParentOf[e.task] ELSE node.parent

\* The nodes after one event more, in the replay and in the ledger.
Stepped(nodes, e) == [nodes EXCEPT ![e.task] = ReplayEvent(@, e)]
LedgerStepped(nodes, e) == [nodes EXCEPT ![e.task] = LedgerEvent(@, e)]

LEMMA SteppedFacts ==
    ASSUME NEW nodes \in [Task -> Node], NEW e \in Event
    PROVE  /\ Stepped(nodes, e) \in [Task -> Node]
           /\ e.task \in Task
           /\ Advanced(e, Holder(e), nodes[e.task], Stepped(nodes, e)[e.task])
           /\ \A t \in Task \ {e.task} : Stepped(nodes, e)[t] = nodes[t]
<1>1. e.task \in Task /\ nodes[e.task] \in Node /\ Holder(e) \in TaskGateway
  BY HolderType
<1> DEFINE a == ReplayEvent(nodes[e.task], e)
<1>2. a \in Node /\ Advanced(e, Holder(e), nodes[e.task], a)
  BY <1>1, ApplyFacts DEF Advanced, ReplayEvent, Holder
<1>3. Stepped(nodes, e) = [nodes EXCEPT ![e.task] = a]
  BY DEF Stepped
<1> HIDE DEF a
<1> QED
  BY <1>1, <1>2, <1>3

LEMMA LedgerSteppedFacts ==
    ASSUME NEW nodes \in [Task -> Node], NEW e \in Event
    PROVE  /\ LedgerStepped(nodes, e) \in [Task -> Node]
           /\ e.task \in Task
           /\ Advanced(e, Named(e), nodes[e.task], LedgerStepped(nodes, e)[e.task])
           /\ \A t \in Task \ {e.task} : LedgerStepped(nodes, e)[t] = nodes[t]
<1>1. e.task \in Task /\ nodes[e.task] \in Node /\ Named(e) \in TaskGateway
  BY HolderType
<1> DEFINE a == LedgerEvent(nodes[e.task], e)
<1>2. a \in Node /\ Advanced(e, Named(e), nodes[e.task], a)
  BY <1>1, ApplyFacts DEF Advanced, LedgerEvent
<1>3. LedgerStepped(nodes, e) = [nodes EXCEPT ![e.task] = a]
  BY DEF LedgerStepped
<1> HIDE DEF a
<1> QED
  BY <1>1, <1>2, <1>3

\* The recursive definition of Replay has a solution.
LEMMA ReplayTurns ==
    ASSUME NEW s \in Seq(Event)
    PROVE  /\ Replay(s)[0] = NoNodes
           /\ \A i \in 1 .. Len(s) : Replay(s)[i] = Stepped(Replay(s)[i - 1], s[i])
           /\ \A i \in 0 .. Len(s) : Replay(s)[i] \in [Task -> Node]
<1> DEFINE X == [Task -> Node]
           L == Len(s)
           F == [i \in 1 .. L |-> [nodes \in X |-> Stepped(nodes, s[i])]]
           Turns(g) == g = [n \in 0 .. L |->
                              IF n = 0 THEN NoNodes
                              ELSE [g[n - 1] EXCEPT ![s[n].task] = ReplayEvent(@, s[n])]]
<1>0. L \in Nat /\ \A i \in 1 .. L : s[i] \in Event
  OBVIOUS
<1>1. F \in [1 .. L -> [X -> X]]
  <2>1. ASSUME NEW i \in 1 .. L, NEW nodes \in X PROVE Stepped(nodes, s[i]) \in X
    BY <1>0, <2>1, SteppedFacts
  <2> HIDE DEF X, L
  <2> QED
    BY <2>1
<1>2. PICK g \in [0 .. L -> X] : g[0] = NoNodes /\ \A i \in 1 .. L : g[i] = F[i][g[i - 1]]
  <2>1. NoNodes \in X /\ L \in Nat
    BY UnknownType
  <2> HIDE DEF F, X, L
  <2> QED
    BY <1>1, <2>1, IterationExists
<1>3. \A i \in 1 .. L : g[i] = Stepped(g[i - 1], s[i])
  <2> TAKE i \in 1 .. L
  <2>1. g[i - 1] \in X
    BY <1>0
  <2> HIDE DEF X
  <2> QED
    BY <1>2, <2>1
<1>4. Turns(g)
  <2> HIDE DEF X, L
  <2> QED
    BY <1>0, <1>2, <1>3 DEF Stepped
<1>5. Turns(Replay(s))
  BY <1>4, Zenon DEF Replay
<1> DEFINE u == Replay(s)
<1>6. ASSUME NEW n \in 0 .. L
      PROVE  u[n] = IF n = 0 THEN NoNodes ELSE Stepped(u[n - 1], s[n])
  <2>1. u = [k \in 0 .. L |-> IF k = 0 THEN NoNodes
                              ELSE [u[k - 1] EXCEPT ![s[k].task] = ReplayEvent(@, s[k])]]
    BY <1>5
  <2> HIDE DEF u, L
  <2> QED
    BY <2>1 DEF Stepped
<1> HIDE DEF u
<1>7. u[0] = NoNodes /\ \A i \in 1 .. L : u[i] = Stepped(u[i - 1], s[i])
  <2> HIDE DEF L
  <2> QED
    BY <1>0, <1>6
<1>8. \A i \in 0 .. L : u[i] \in X
  <2> DEFINE A == {k \in Nat : k <= L => u[k] \in X}
  <2>1. 0 \in A
    BY <1>7, UnknownType
  <2>2. ASSUME NEW k \in Nat, k \in A PROVE k + 1 \in A
    <3> SUFFICES ASSUME k + 1 <= L PROVE u[k + 1] \in X
      OBVIOUS
    <3>1. u[k] \in X /\ k + 1 \in 1 .. L /\ s[k + 1] \in Event
      BY <1>0, <2>2
    <3>2. u[k + 1] = Stepped(u[k], s[k + 1])
      BY <1>7, <3>1
    <3> QED
      BY <3>1, <3>2, SteppedFacts
  <2>3. Nat \subseteq A
    <3> HIDE DEF A
    <3> QED
      BY <2>1, <2>2, SetInduction
  <2> QED
    BY <1>0, <2>3
<1> QED
  BY <1>7, <1>8 DEF u

\* What was replayed depends on the events so far only.
LEMMA ReplayPrefix ==
    ASSUME NEW s \in Seq(Event), NEW t \in Seq(Event), NEW n \in 0 .. Len(s),
           n <= Len(t), \A i \in 1 .. n : t[i] = s[i]
    PROVE  Replay(t)[n] = Replay(s)[n]
<1> DEFINE A == {k \in Nat : k <= n => Replay(t)[k] = Replay(s)[k]}
<1>1. Len(s) \in Nat /\ Len(t) \in Nat
  OBVIOUS
<1>2. 0 \in A
  BY ReplayTurns
<1>3. ASSUME NEW k \in Nat, k \in A PROVE k + 1 \in A
  <2> SUFFICES ASSUME k + 1 <= n PROVE Replay(t)[k + 1] = Replay(s)[k + 1]
    OBVIOUS
  <2>1. /\ k + 1 \in 1 .. Len(s) /\ k + 1 \in 1 .. Len(t) /\ (k + 1) - 1 = k
        /\ k + 1 \in 1 .. n
    BY <1>1
  <2>2. Replay(s)[k + 1] = Stepped(Replay(s)[k], s[k + 1])
    BY <2>1, ReplayTurns
  <2>3. Replay(t)[k + 1] = Stepped(Replay(t)[k], t[k + 1])
    BY <2>1, ReplayTurns
  <2> QED
    BY <1>3, <2>1, <2>2, <2>3
<1>4. Nat \subseteq A
  <2> HIDE DEF A
  <2> QED
    BY <1>2, <1>3, SetInduction
<1> QED
  BY <1>4

\* From one moment to a later one tasks stay known and children theirs, and
\* only the tasks in some set have had events.
Grows(old, new, touched) ==
    \A t \in Task :
        /\ old[t].known => new[t].known
        /\ old[t].parent # NoTask => new[t].parent = old[t].parent
        /\ t \notin touched => new[t] = old[t]

LEMMA SteppedGrows ==
    ASSUME NEW nodes \in [Task -> Node], NEW e \in Event,
           \A t \in Task : nodes[t].parent \in {NoTask, ParentOf[t]}
    PROVE  /\ Grows(nodes, Stepped(nodes, e), {e.task})
           /\ \A t \in Task : Stepped(nodes, e)[t].parent \in {NoTask, ParentOf[t]}
<1>1. /\ e.task \in Task
      /\ Advanced(e, Holder(e), nodes[e.task], Stepped(nodes, e)[e.task])
      /\ \A t \in Task \ {e.task} : Stepped(nodes, e)[t] = nodes[t]
  BY SteppedFacts
<1> QED
  BY <1>1 DEF Grows, Advanced

LEMMA ReplayFacts ==
    ASSUME NEW s \in Seq(Event), NEW n \in 0 .. Len(s), NEW t \in Task
    PROVE  /\ Replay(s)[n][t].parent \in {NoTask, ParentOf[t]}
           /\ (\E i \in 1 .. n : s[i].task = t) => Replay(s)[n][t].known
<1> DEFINE u == Replay(s)
           A == {k \in Nat : k <= Len(s) => \A x \in Task :
                    /\ u[k][x].parent \in {NoTask, ParentOf[x]}
                    /\ (\E i \in 1 .. k : s[i].task = x) => u[k][x].known}
<1>1. 0 \in A
  BY ReplayTurns DEF NoNodes, Unknown
<1>2. ASSUME NEW k \in Nat, k \in A PROVE k + 1 \in A
  <2> SUFFICES ASSUME k + 1 <= Len(s), NEW x \in Task
               PROVE  /\ u[k + 1][x].parent \in {NoTask, ParentOf[x]}
                      /\ (\E i \in 1 .. k + 1 : s[i].task = x) => u[k + 1][x].known
    OBVIOUS
  <2>1. /\ k + 1 \in 1 .. Len(s) /\ k \in 0 .. Len(s) /\ (k + 1) - 1 = k
        /\ s[k + 1] \in Event
    OBVIOUS
  <2>2. u[k] \in [Task -> Node] /\ u[k + 1] = Stepped(u[k], s[k + 1])
    BY <2>1, ReplayTurns
  <2>3. \A y \in Task : u[k][y].parent \in {NoTask, ParentOf[y]}
    BY <1>2
  <2> HIDE DEF u
  <2>4. /\ Grows(u[k], u[k + 1], {s[k + 1].task})
        /\ u[k + 1][x].parent \in {NoTask, ParentOf[x]}
    BY <2>1, <2>2, <2>3, SteppedGrows
  <2>5. ASSUME NEW i \in 1 .. k + 1, s[i].task = x PROVE u[k + 1][x].known
    <3>1. CASE i \in 1 .. k
      BY <1>2, <2>4, <2>5, <3>1 DEF Grows
    <3>2. CASE i = k + 1
      <4>1. Advanced(s[k + 1], Holder(s[k + 1]), u[k][x], u[k + 1][x])
        BY <2>1, <2>2, <2>5, <3>2, SteppedFacts
      <4> QED
        BY <4>1 DEF Advanced
    <3> QED
      BY <3>1, <3>2
  <2> QED
    BY <2>4, <2>5
<1>3. Nat \subseteq A
  <2> HIDE DEF A
  <2> QED
    BY <1>1, <1>2, SetInduction
<1> QED
  BY <1>3

LEMMA ReplayStep ==
    ASSUME NEW s \in Seq(Event), NEW n \in 0 .. Len(s), n + 1 \in 1 .. Len(s)
    PROVE  /\ Replay(s)[n + 1] = Stepped(Replay(s)[n], s[n + 1])
           /\ Grows(Replay(s)[n], Replay(s)[n + 1], {s[n + 1].task})
<1>1. (n + 1) - 1 = n /\ s[n + 1] \in Event
  OBVIOUS
<1>2. Replay(s)[n] \in [Task -> Node]
  BY ReplayTurns
<1>3. Replay(s)[n + 1] = Stepped(Replay(s)[n], s[n + 1])
  BY <1>1, ReplayTurns
<1>4. \A t \in Task : Replay(s)[n][t].parent \in {NoTask, ParentOf[t]}
  BY ReplayFacts
<1> QED
  BY <1>1, <1>2, <1>3, <1>4, SteppedGrows

LEMMA ReplayGrows ==
    ASSUME NEW s \in Seq(Event), NEW m \in 0 .. Len(s), NEW n \in m .. Len(s)
    PROVE  Grows(Replay(s)[m], Replay(s)[n], {s[i].task : i \in m + 1 .. n})
<1> DEFINE u == Replay(s)
           A == {k \in Nat : m + k <= Len(s) =>
                    Grows(u[m], u[m + k], {s[i].task : i \in m + 1 .. m + k})}
<1>1. 0 \in A
  BY DEF Grows
<1>2. ASSUME NEW k \in Nat, k \in A PROVE k + 1 \in A
  <2> SUFFICES ASSUME m + (k + 1) <= Len(s)
               PROVE  Grows(u[m], u[m + (k + 1)], {s[i].task : i \in m + 1 .. m + (k + 1)})
    OBVIOUS
  <2>1. m + k \in 0 .. Len(s) /\ (m + k) + 1 \in 1 .. Len(s) /\ m + (k + 1) = (m + k) + 1
    OBVIOUS
  <2>2. Grows(u[m + k], u[(m + k) + 1], {s[(m + k) + 1].task})
    BY <2>1, ReplayStep
  <2>3. Grows(u[m], u[m + k], {s[i].task : i \in m + 1 .. m + k})
    BY <1>2
  <2>4. ASSUME NEW t \in Task, t \notin {s[i].task : i \in m + 1 .. m + (k + 1)}
        PROVE  /\ t \notin {s[i].task : i \in m + 1 .. m + k}
               /\ t # s[(m + k) + 1].task
    BY <2>1, <2>4
  <2> HIDE DEF u
  <2> QED
    BY <2>1, <2>2, <2>3, <2>4 DEF Grows
<1>3. Nat \subseteq A
  <2> HIDE DEF A
  <2> QED
    BY <1>1, <1>2, SetInduction
<1>4. n - m \in A /\ m + (n - m) = n
  <2> HIDE DEF A
  <2> QED
    BY <1>3
<1> QED
  BY <1>4

-----------------------------------------------------------------------------
(* Events that are stored before others                                     *)

LEMMA StoredFacts ==
    ASSUME NEW s \in Seq(Event), NEW e \in Event, NEW p \in 1 .. Len(s) + 1
    PROVE  /\ Stored(s, e, p) \in Seq(Event) /\ Len(Stored(s, e, p)) = Len(s) + 1
           /\ Stored(s, e, p)[p] = e
           /\ \A i \in 1 .. p - 1 : Stored(s, e, p)[i] = s[i]
           /\ \A i \in p .. Len(s) : Stored(s, e, p)[i + 1] = s[i]
<1> DEFINE before == SubSeq(s, 1, p - 1)
           after == SubSeq(s, p, Len(s))
           upto == before \o <<e>>
           t == upto \o after
<1>1. /\ before \in Seq(Event) /\ Len(before) = p - 1
      /\ \A i \in 1 .. p - 1 : before[i] = s[i]
  OBVIOUS
<1>2. /\ after \in Seq(Event) /\ Len(after) = Len(s) + 1 - p
      /\ \A i \in 1 .. Len(s) + 1 - p : after[i] = s[p + i - 1]
  OBVIOUS
<1>3. Stored(s, e, p) = t
  BY DEF Stored, InsertAt
<1> HIDE DEF before, after
<1>6. /\ upto \in Seq(Event) /\ Len(upto) = p /\ upto[p] = e
      /\ \A i \in 1 .. p - 1 : upto[i] = before[i]
  BY <1>1
<1> HIDE DEF upto
<1>4. /\ t \in Seq(Event) /\ Len(t) = Len(s) + 1 /\ t[p] = e
      /\ \A i \in 1 .. p - 1 : t[i] = before[i]
      /\ \A i \in 1 .. Len(s) + 1 - p : t[p + i] = after[i]
  BY <1>2, <1>6
<1> HIDE DEF t
<1>5. ASSUME NEW i \in p .. Len(s) PROVE t[i + 1] = s[i]
  <2>1. PICK j \in 1 .. Len(s) + 1 - p : j = i - p + 1
    OBVIOUS
  <2>2. p + j = i + 1 /\ p + j - 1 = i
    BY <2>1
  <2>3. t[p + j] = after[j] /\ after[j] = s[p + j - 1]
    BY <1>2, <1>4
  <2> QED
    BY <2>2, <2>3
<1> QED
  BY <1>1, <1>3, <1>4, <1>5

\* The tasks with the event, new, against those without it, old; last says that
\* no event of its task comes after it.
Inserts(e, last, old, new) ==
    /\ \A t \in Task \ {e.task} : new[t] = old[t]
    /\ new[e.task].known /\ new[e.task].spent = old[e.task].spent + 1
    /\ new[e.task].parent = IF e.type = "task_drafted" THEN ParentOf[e.task]
                            ELSE old[e.task].parent
    /\ last => /\ new[e.task].status = StatusAfter(e.type, old[e.task].status)
               /\ new[e.task].gateway = GatewayAfter(e.type, Holder(e), old[e.task].gateway)

LEMMA InsertsFirst ==
    ASSUME NEW nodes \in [Task -> Node], NEW e \in Event, NEW last \in BOOLEAN
    PROVE  Inserts(e, last, nodes, Stepped(nodes, e))
  BY SteppedFacts DEF Inserts, Advanced

\* One event more, after the inserted one.
LEMMA InsertsLater ==
    ASSUME NEW old \in [Task -> Node], NEW new \in [Task -> Node], NEW e \in Event,
           NEW x \in Event, NEW last \in BOOLEAN, Inserts(e, last, old, new)
    PROVE  Inserts(e, last /\ x.task # e.task, Stepped(old, x), Stepped(new, x))
<1> DEFINE old1 == Stepped(old, x)
           new1 == Stepped(new, x)
<1>1. /\ x.task \in Task /\ e.task \in Task
      /\ Advanced(x, Holder(x), old[x.task], old1[x.task])
      /\ Advanced(x, Holder(x), new[x.task], new1[x.task])
      /\ \A t \in Task \ {x.task} : old1[t] = old[t] /\ new1[t] = new[t]
      /\ old1 \in [Task -> Node] /\ new1 \in [Task -> Node]
  BY SteppedFacts, HolderType
<1>2. CASE x.task = e.task
  <2>1. \A t \in Task \ {e.task} : new1[t] = old1[t]
    BY <1>1, <1>2 DEF Inserts
  <2>2. new1[e.task].known /\ new1[e.task].spent = old1[e.task].spent + 1
    BY <1>1, <1>2 DEF Inserts, Advanced, Node
  <2>3. new1[e.task].parent = IF e.type = "task_drafted" THEN ParentOf[e.task]
                              ELSE old1[e.task].parent
    BY <1>1, <1>2 DEF Inserts, Advanced
  <2> HIDE DEF old1, new1
  <2> QED
    BY <1>2, <2>1, <2>2, <2>3 DEF Inserts, old1, new1
<1>3. CASE x.task # e.task
  <2>0. old1[e.task] = old[e.task] /\ new1[e.task] = new[e.task]
    BY <1>1, <1>3
  <2>1. ASSUME NEW t \in Task \ {e.task} PROVE new1[t] = old1[t]
    <3>1. CASE t = x.task
      <4>1. new[t] = old[t]
        BY <2>1 DEF Inserts
      <4> QED
        BY <3>1, <4>1 DEF Stepped
    <3>2. CASE t # x.task
      BY <1>1, <2>1, <3>2 DEF Inserts
    <3> QED
      BY <3>1, <3>2
  <2> HIDE DEF old1, new1
  <2> QED
    BY <2>0, <2>1 DEF Inserts, old1, new1
<1> QED
  BY <1>2, <1>3

LEMMA InsertReplay ==
    ASSUME NEW s \in Seq(Event), NEW e \in Event, NEW p \in 1 .. Len(s) + 1,
           NEW t \in Seq(Event), t = Stored(s, e, p)
    PROVE  Inserts(e, \A i \in p .. Len(s) : s[i].task # e.task,
                   Replay(s)[Len(s)], Replay(t)[Len(t)])
<1> DEFINE u == Replay(s)
           v == Replay(t)
           NoneBehind(n) == \A i \in p .. n : s[i].task # e.task
           A == {k \in Nat : p - 1 + k <= Len(s) =>
                    Inserts(e, NoneBehind(p - 1 + k), u[p - 1 + k], v[p + k])}
<1>1. /\ Len(t) = Len(s) + 1 /\ t[p] = e /\ Len(s) \in Nat
      /\ \A i \in 1 .. p - 1 : t[i] = s[i]
      /\ \A i \in p .. Len(s) : t[i + 1] = s[i]
  BY StoredFacts
<1>2. 0 \in A
  <2>1. p - 1 \in 0 .. Len(s) /\ p - 1 <= Len(t) /\ p \in 1 .. Len(t)
    BY <1>1
  <2>2. v[p - 1] = u[p - 1] /\ u[p - 1] \in [Task -> Node]
    BY <1>1, <2>1, ReplayPrefix, ReplayTurns
  <2>3. v[p] = Stepped(v[p - 1], e)
    BY <1>1, <2>1, ReplayTurns
  <2>4. Inserts(e, NoneBehind(p - 1), u[p - 1], v[p])
    <3>1. NoneBehind(p - 1) \in BOOLEAN
      OBVIOUS
    <3> HIDE DEF u, v, NoneBehind
    <3> QED
      BY <2>2, <2>3, <3>1, InsertsFirst
  <2>5. p - 1 + 0 = p - 1 /\ p + 0 = p
    OBVIOUS
  <2> HIDE DEF u, v, NoneBehind
  <2> QED
    BY <2>4, <2>5
<1>3. ASSUME NEW k \in Nat, k \in A PROVE k + 1 \in A
  <2>0. SUFFICES ASSUME p - 1 + (k + 1) <= Len(s)
                 PROVE  Inserts(e, NoneBehind(p - 1 + (k + 1)), u[p - 1 + (k + 1)], v[p + (k + 1)])
    <3> HIDE DEF u, v, NoneBehind
    <3> QED
      OBVIOUS
  <2> DEFINE n == p - 1 + k
  <2>1. /\ n \in 0 .. Len(s) /\ n + 1 \in p .. Len(s) /\ n + 1 \in 1 .. Len(s)
        /\ p - 1 + (k + 1) = n + 1 /\ p + (k + 1) = n + 2 /\ p + k = n + 1
        /\ n + 1 \in 0 .. Len(t) /\ n + 2 \in 1 .. Len(t)
        /\ (n + 1) - 1 = n /\ (n + 2) - 1 = n + 1
    BY <1>1, <2>0
  <2>2. Inserts(e, NoneBehind(n), u[n], v[n + 1])
    <3>0. p - 1 + k <= Len(s)
      BY <2>1
    <3> HIDE DEF u, v, NoneBehind
    <3>1. Inserts(e, NoneBehind(p - 1 + k), u[p - 1 + k], v[p + k])
      BY <1>3, <3>0
    <3> QED
      BY <2>1, <3>1
  <2>3. t[n + 2] = s[n + 1] /\ s[n + 1] \in Event
    <3>1. (n + 1) + 1 = n + 2
      OBVIOUS
    <3> HIDE DEF n
    <3> QED
      BY <1>1, <2>1, <3>1
  <2>4. /\ u[n] \in [Task -> Node] /\ v[n + 1] \in [Task -> Node]
        /\ u[n + 1] = Stepped(u[n], s[n + 1]) /\ v[n + 2] = Stepped(v[n + 1], s[n + 1])
    <3> HIDE DEF n
    <3> QED
      BY <2>1, <2>3, ReplayTurns
  <2>5. NoneBehind(n + 1) <=> NoneBehind(n) /\ s[n + 1].task # e.task
    <3>1. p .. n + 1 = (p .. n) \cup {n + 1}
      BY <2>1
    <3> HIDE DEF n
    <3> QED
      BY <3>1
  <2>6. NoneBehind(n) \in BOOLEAN /\ NoneBehind(n + 1) \in BOOLEAN
    OBVIOUS
  <2> HIDE DEF u, v, n, NoneBehind
  <2>7. Inserts(e, NoneBehind(n) /\ s[n + 1].task # e.task, u[n + 1], v[n + 2])
    BY <2>2, <2>3, <2>4, <2>6, InsertsLater
  <2>8. Inserts(e, NoneBehind(n + 1), u[n + 1], v[n + 2])
    BY <2>5, <2>7 DEF Inserts
  <2> QED
    BY <2>1, <2>8
<1>4. Nat \subseteq A
  <2> HIDE DEF A
  <2> QED
    BY <1>2, <1>3, SetInduction
<1>5. Len(s) + 1 - p \in Nat /\ p - 1 + (Len(s) + 1 - p) = Len(s) /\ p + (Len(s) + 1 - p) = Len(t)
  BY <1>1
<1>6. Inserts(e, NoneBehind(p - 1 + (Len(s) + 1 - p)), u[p - 1 + (Len(s) + 1 - p)],
              v[p + (Len(s) + 1 - p)])
  <2>1. Len(s) + 1 - p \in A
    <3> HIDE DEF A
    <3> QED
      BY <1>4, <1>5
  <2> HIDE DEF u, v, NoneBehind
  <2> QED
    BY <1>1, <1>5, <2>1
<1> QED
  BY <1>5, <1>6

-----------------------------------------------------------------------------
(* The ledger                                                               *)

LEMMA LinkFacts ==
    ASSUME NEW nodes \in [Task -> Node], NEW t \in Task
    PROVE  /\ LinkTo(nodes, t) \in [Task -> Node]
           /\ \A x \in Task :
                /\ LinkTo(nodes, t)[x].known = nodes[x].known
                /\ LinkTo(nodes, t)[x].parent = nodes[x].parent
                /\ LinkTo(nodes, t)[x].status = nodes[x].status
                /\ LinkTo(nodes, t)[x].gateway = nodes[x].gateway
                /\ LinkTo(nodes, t)[x].spent = nodes[x].spent
                /\ LinkTo(nodes, t)[x].children =
                       IF nodes[t].parent = x /\ nodes[x].known
                       THEN nodes[x].children \cup {t} ELSE nodes[x].children
<1> DEFINE p == nodes[t].parent
<1>1. CASE p # NoTask /\ nodes[p].known
  <2>1. p \in Task /\ nodes[p] \in Node
    BY <1>1 DEF Node
  <2> DEFINE linkedTo == [nodes[p] EXCEPT !.children = @ \cup {t}]
  <2>2. /\ linkedTo \in Node
        /\ linkedTo.known = nodes[p].known /\ linkedTo.parent = nodes[p].parent
        /\ linkedTo.status = nodes[p].status /\ linkedTo.gateway = nodes[p].gateway
        /\ linkedTo.spent = nodes[p].spent
        /\ linkedTo.children = nodes[p].children \cup {t}
    BY <2>1 DEF Node
  <2>3. LinkTo(nodes, t) = [nodes EXCEPT ![p] = linkedTo]
    <3>1. LinkTo(nodes, t) = [nodes EXCEPT ![p].children = @ \cup {t}]
      BY <1>1 DEF LinkTo
    <3> QED
      BY <2>1, <3>1
  <2> HIDE DEF linkedTo
  <2> QED
    BY <1>1, <2>1, <2>2, <2>3
<1>2. CASE ~(p # NoTask /\ nodes[p].known)
  <2>1. LinkTo(nodes, t) = nodes
    BY <1>2 DEF LinkTo
  <2>2. \A x \in Task : ~(p = x /\ nodes[x].known)
    BY <1>2, TaskNames
  <2> QED
    BY <2>1, <2>2
<1> QED
  BY <1>1, <1>2

\* A halt, as the ledger takes it.
Halting(nodes) ==
    [t \in Task |-> IF nodes[t].status = "executing"
                    THEN [nodes[t] EXCEPT !.status = "halted"] ELSE nodes[t]]

LEMMA HaltFacts ==
    ASSUME NEW nodes \in [Task -> Node]
    PROVE  /\ Halting(nodes) \in [Task -> Node]
           /\ \A x \in Task :
                /\ Halting(nodes)[x].known = nodes[x].known
                /\ Halting(nodes)[x].parent = nodes[x].parent
                /\ Halting(nodes)[x].gateway = nodes[x].gateway
                /\ Halting(nodes)[x].spent = nodes[x].spent
                /\ Halting(nodes)[x].children = nodes[x].children
<1>1. ASSUME NEW t \in Task
      PROVE  LET h == [nodes[t] EXCEPT !.status = "halted"]
             IN  /\ h \in Node
                 /\ h.known = nodes[t].known /\ h.parent = nodes[t].parent
                 /\ h.gateway = nodes[t].gateway /\ h.spent = nodes[t].spent
                 /\ h.children = nodes[t].children
  BY DEF Node, Status
<1> QED
  BY <1>1 DEF Halting

\* What one event makes of the ledger: a is what it makes of the nodes alone.
Processed(e, a, new) ==
    \A x \in Task :
        /\ new[x].known = a[x].known /\ new[x].parent = a[x].parent
        /\ e.type # "system_halt" => new[x].status = a[x].status
        /\ new[x].gateway = a[x].gateway /\ new[x].spent = a[x].spent
        /\ new[x].children = IF a[e.task].parent = x /\ a[x].known
                             THEN a[x].children \cup {e.task} ELSE a[x].children

LEMMA ProcessFacts ==
    ASSUME NEW nodes \in [Task -> Node], NEW e \in Event
    PROVE  /\ ProcessTaskEvent(nodes, e) \in [Task -> Node]
           /\ Processed(e, LedgerStepped(nodes, e), ProcessTaskEvent(nodes, e))
<1> DEFINE a == LedgerStepped(nodes, e)
           h == IF e.type # "system_halt" THEN a
                ELSE Halting(a)
<1>1. a \in [Task -> Node] /\ e.task \in Task
  BY LedgerSteppedFacts
<1>2. ProcessTaskEvent(nodes, e) = LinkTo(h, e.task)
  BY DEF ProcessTaskEvent, LedgerStepped, Halting
<1>3. /\ h \in [Task -> Node]
      /\ e.type # "system_halt" => h = a
      /\ \A x \in Task :
           /\ h[x].known = a[x].known /\ h[x].parent = a[x].parent
           /\ h[x].gateway = a[x].gateway /\ h[x].spent = a[x].spent
           /\ h[x].children = a[x].children
  <2>1. CASE e.type # "system_halt"
    BY <1>1, <2>1
  <2>2. CASE e.type = "system_halt"
    <3>1. h = Halting(a)
      BY <2>2
    <3> HIDE DEF a, h
    <3> QED
      BY <1>1, <2>2, <3>1, HaltFacts
  <2> QED
    BY <2>1, <2>2
<1> HIDE DEF a, h
<1>4. /\ LinkTo(h, e.task) \in [Task -> Node]
      /\ \A x \in Task :
           /\ LinkTo(h, e.task)[x].known = h[x].known
           /\ LinkTo(h, e.task)[x].parent = h[x].parent
           /\ LinkTo(h, e.task)[x].status = h[x].status
           /\ LinkTo(h, e.task)[x].gateway = h[x].gateway
           /\ LinkTo(h, e.task)[x].spent = h[x].spent
           /\ LinkTo(h, e.task)[x].children =
                  IF h[e.task].parent = x /\ h[x].known
                  THEN h[x].children \cup {e.task} ELSE h[x].children
  BY <1>1, <1>3, LinkFacts
<1> DEFINE r == ProcessTaskEvent(nodes, e)
<1> HIDE DEF r
<1>5. /\ r \in [Task -> Node]
      /\ \A x \in Task :
           /\ r[x].known = a[x].known /\ r[x].parent = a[x].parent
           /\ e.type # "system_halt" => r[x].status = a[x].status
           /\ r[x].gateway = a[x].gateway /\ r[x].spent = a[x].spent
           /\ r[x].children = IF a[e.task].parent = x /\ a[x].known
                              THEN a[x].children \cup {e.task} ELSE a[x].children
  <2>1. r = LinkTo(h, e.task)
    BY <1>2 DEF r
  <2>2. r \in [Task -> Node]
    BY <1>4, <2>1
  <2>3. ASSUME NEW x \in Task
        PROVE  /\ r[x].known = a[x].known /\ r[x].parent = a[x].parent
               /\ r[x].gateway = a[x].gateway /\ r[x].spent = a[x].spent
    BY <1>3, <1>4, <2>1
  <2>4. ASSUME NEW x \in Task, e.type # "system_halt" PROVE r[x].status = a[x].status
    BY <1>3, <1>4, <2>1, <2>4
  <2>5. ASSUME NEW x \in Task
        PROVE  r[x].children = IF a[e.task].parent = x /\ a[x].known
                               THEN a[x].children \cup {e.task} ELSE a[x].children
    <3>1. /\ h[e.task].parent = a[e.task].parent /\ h[x].known = a[x].known
          /\ h[x].children = a[x].children
      BY <1>1, <1>3
    <3>2. r[x].children = IF h[e.task].parent = x /\ h[x].known
                          THEN h[x].children \cup {e.task} ELSE h[x].children
      BY <1>4, <2>1
    <3> QED
      BY <3>1, <3>2
  <2> QED
    BY <2>2, <2>3, <2>4, <2>5
<1> QED
  BY <1>5 DEF a, r, Processed

-----------------------------------------------------------------------------
(* The bridge: the inductive invariant                                      *)

\* The bridge has handled, or lost, all events but those in its queue.
Handled == Len(log) - Len(queue)
Shown == Replay(log)[Handled]

QueueIsTail ==
    /\ Len(queue) <= Len(log)
    /\ \A i \in 1 .. Len(queue) : queue[i] = log[Handled + i]

\* The ledger against the replay of what was handled.
Follows ==
    \A t \in Task :
        /\ t \notin lost =>
              /\ ledger[t].known = Shown[t].known /\ ledger[t].parent = Shown[t].parent
              /\ ledger[t].spent = Shown[t].spent
              /\ t \notin Diverted => ledger[t].gateway = Shown[t].gateway
              /\ ~halted => ledger[t].status = Shown[t].status
        /\ ledger[t].known => Shown[t].known
        /\ ledger[t].parent # NoTask => Shown[t].parent = ledger[t].parent
        /\ \A c \in ledger[t].children : Shown[c].parent = t
        /\ ledger[t].children # {} => ledger[t].known

\* A child that is not linked had its events before the parent had any.
ChildBefore ==
    lost = {} => \A t, c \in Task :
        Shown[c].parent = t /\ c \notin ledger[t].children =>
            \A i, j \in 1 .. Handled : log[i].task = c /\ log[j].task = t => i < j

\* The replay of all events against the replay of those that arrived.
TableAgrees ==
    \A t \in Task :
        LET arrived == Replay(log)[Len(log)][t]
            stored == Replay(table)[Len(table)][t]
        IN  /\ t \notin lost =>
                  /\ arrived.known = stored.known /\ arrived.parent = stored.parent
                  /\ arrived.spent = stored.spent
                  /\ t \notin belated => /\ arrived.status = stored.status
                                        /\ arrived.gateway = stored.gateway
            /\ arrived.known => stored.known
            /\ arrived.parent # NoTask => stored.parent = arrived.parent

BridgeInv ==
    /\ BridgeTypeOK /\ ledger \in [Task -> Node]
    /\ QueueIsTail
    /\ bridge = "backoff" => queue = <<>>
    /\ \A i \in 1 .. Len(log) : log[i].type = "system_halt" => halted
    /\ Follows /\ ChildBefore /\ TableAgrees

LEMMA HandledType ==
    ASSUME BridgeInv
    PROVE  /\ table \in Seq(Event) /\ log \in Seq(Event) /\ queue \in Seq(Event)
           /\ Len(log) \in Nat /\ Len(queue) \in Nat /\ Handled \in 0 .. Len(log)
           /\ Shown \in [Task -> Node]
           /\ \A t \in Task : Shown[t].parent \in {NoTask, ParentOf[t]}
<1>1. /\ table \in Seq(Event) /\ log \in Seq(Event) /\ queue \in Seq(Event)
      /\ Len(queue) <= Len(log)
  BY DEF BridgeInv, BridgeTypeOK, QueueIsTail
<1>2. Len(log) \in Nat /\ Len(queue) \in Nat /\ Handled \in 0 .. Len(log)
  BY <1>1 DEF Handled
<1> QED
  BY <1>1, <1>2, ReplayTurns, ReplayFacts DEF Shown

LEMMA BridgeStarts == ASSUME BridgeInit PROVE BridgeInv
<1>1. /\ table = <<>> /\ log = <<>> /\ queue = <<>> /\ ledger = NoNodes
      /\ bridge = "reading" /\ lost = {}
  BY DEF BridgeInit
<1>2. <<>> \in Seq(Event) /\ Len(<<>>) = 0
  OBVIOUS
<1>3. Handled = 0 /\ Shown = NoNodes
  <2>1. Handled = 0
    BY <1>1, <1>2 DEF Handled
  <2>2. Replay(log)[0] = NoNodes
    BY <1>1, <1>2, ReplayTurns
  <2> QED
    BY <2>1, <2>2 DEF Shown
<1>4. \A t \in Task : ledger[t].children = {} /\ ledger[t].parent = NoTask /\ ~ledger[t].known
  BY <1>1 DEF NoNodes, Unknown
<1>5. BridgeTypeOK
  <2>1. \A t \in Task : ledger[t].status \in Status
    BY <1>1, UnknownType DEF Node
  <2> QED
    BY <1>1, <1>2, <2>1 DEF BridgeInit, BridgeTypeOK
<1>6. Follows
  BY <1>1, <1>3, <1>4 DEF Follows
<1>7. ChildBefore /\ QueueIsTail /\ TableAgrees
  BY <1>1, <1>2, <1>3 DEF ChildBefore, QueueIsTail, TableAgrees
<1> QED
  BY <1>1, <1>2, <1>5, <1>6, <1>7, UnknownType DEF BridgeInv

\* The steps of the clients and the sends.
LEMMA BridgeOther ==
    ASSUME BridgeInv, UNCHANGED <<table, log, queue, ledger, lost, belated, halted>>,
           \/ \E c \in Client : ClientConnects(c) \/ ClientDisconnects(c) \/ SendTo(c)
           \/ EndSends \/ Resubscribe \/ UNCHANGED bridgeVars
    PROVE  BridgeInv'
<1>1. /\ clients' \subseteq Client /\ sending' \subseteq Client /\ failed' \subseteq Client
      /\ bridge' \in {"reading", "sending", "backoff"}
      /\ bridge' = "backoff" => bridge = "backoff"
  BY DEF BridgeInv, BridgeTypeOK, ClientConnects, ClientDisconnects, SendTo, EndSends,
         Resubscribe, bridgeVars
<1>2. BridgeTypeOK' /\ QueueIsTail' /\ Follows' /\ ChildBefore' /\ TableAgrees'
  BY <1>1 DEF BridgeInv, BridgeTypeOK, QueueIsTail, Follows, ChildBefore, TableAgrees,
              Handled, Shown, Diverted
<1> QED
  BY <1>1, <1>2 DEF BridgeInv

\* The replay moves on over events that the bridge did not get.
LEMMA FollowsLosses ==
    ASSUME Follows, Grows(Shown, Shown', lost'), lost \subseteq lost', ledger' = ledger,
           ledger \in [Task -> Node], halted => halted', Diverted \subseteq Diverted'
    PROVE  Follows'
<1> SUFFICES ASSUME NEW t \in Task
             PROVE  /\ t \notin lost' =>
                          /\ ledger[t].known = Shown'[t].known
                          /\ ledger[t].parent = Shown'[t].parent
                          /\ ledger[t].spent = Shown'[t].spent
                          /\ t \notin Diverted' => ledger[t].gateway = Shown'[t].gateway
                          /\ ~halted' => ledger[t].status = Shown'[t].status
                    /\ ledger[t].known => Shown'[t].known
                    /\ ledger[t].parent # NoTask => Shown'[t].parent = ledger[t].parent
                    /\ \A c \in ledger[t].children : Shown'[c].parent = t
                    /\ ledger[t].children # {} => ledger[t].known
  BY DEF Follows
<1>1. \A c \in ledger[t].children : c \in Task /\ t # NoTask
  BY TaskNames DEF Node
<1> QED
  BY <1>1 DEF Follows, Grows

LEMMA TablePublishes ==
    ASSUME BridgeInv, NEW e \in Event, NEW place \in 1 .. Len(table) + 1, NEW arrives,
           PublishEvent(e, place, arrives)
    PROVE  /\ table' \in Seq(Event)
           /\ TableAgrees'
<1>1. /\ table \in Seq(Event) /\ log \in Seq(Event) /\ Len(log) \in Nat /\ Len(table) \in Nat
      /\ e.task \in Task
  BY HandledType DEF Event
<1>2. /\ table' = Stored(table, e, place)
      /\ belated \subseteq belated'
      /\ e.task \notin belated' => \A i \in place .. Len(table) : table[i].task # e.task
      /\ \/ log' = Append(log, e) /\ lost' = lost
         \/ log' = log /\ lost' = lost \cup {e.task}
  BY DEF PublishEvent
<1>3. table' \in Seq(Event)
  BY <1>1, <1>2, StoredFacts
<1> DEFINE arr == Replay(log)[Len(log)]
           sto == Replay(table)[Len(table)]
           arr1 == Replay(log')[Len(log')]
           sto1 == Replay(table')[Len(table')]
           last == \A i \in place .. Len(table) : table[i].task # e.task
<1>4. Inserts(e, last, sto, sto1)
  BY <1>1, <1>2, <1>3, InsertReplay
<1>5. /\ arr \in [Task -> Node] /\ sto \in [Task -> Node]
      /\ \A t \in Task : arr[t].parent \in {NoTask, ParentOf[t]}
  <2>1. Len(log) \in 0 .. Len(log) /\ Len(table) \in 0 .. Len(table)
    BY <1>1
  <2> QED
    BY <1>1, <2>1, ReplayTurns, ReplayFacts
<1>6. ASSUME log' = Append(log, e)
      PROVE  /\ Advanced(e, Holder(e), arr[e.task], arr1[e.task])
             /\ \A t \in Task \ {e.task} : arr1[t] = arr[t]
  <2>1. /\ log' \in Seq(Event) /\ Len(log') = Len(log) + 1 /\ log'[Len(log) + 1] = e
        /\ \A i \in 1 .. Len(log) : log'[i] = log[i]
    BY <1>1, <1>6
  <2>2. Replay(log')[Len(log)] = arr
    BY <1>1, <2>1, ReplayPrefix
  <2>3. Len(log) \in 0 .. Len(log') /\ Len(log) + 1 \in 1 .. Len(log')
    BY <1>1, <2>1
  <2>4. arr1 = Stepped(arr, e)
    BY <2>1, <2>2, <2>3, ReplayStep
  <2> HIDE DEF arr, arr1
  <2> QED
    BY <1>5, <2>4, SteppedFacts
<1>7. ASSUME NEW t \in Task
      PROVE  /\ t \notin lost =>
                   /\ arr[t].known = sto[t].known /\ arr[t].parent = sto[t].parent
                   /\ arr[t].spent = sto[t].spent
                   /\ t \notin belated => /\ arr[t].status = sto[t].status
                                          /\ arr[t].gateway = sto[t].gateway
             /\ arr[t].known => sto[t].known
             /\ arr[t].parent # NoTask => sto[t].parent = arr[t].parent
  BY DEF BridgeInv, TableAgrees
<1>8. ASSUME NEW t \in Task
      PROVE  /\ t \notin lost' =>
                   /\ arr1[t].known = sto1[t].known /\ arr1[t].parent = sto1[t].parent
                   /\ arr1[t].spent = sto1[t].spent
                   /\ t \notin belated' => /\ arr1[t].status = sto1[t].status
                                           /\ arr1[t].gateway = sto1[t].gateway
             /\ arr1[t].known => sto1[t].known
             /\ arr1[t].parent # NoTask => sto1[t].parent = arr1[t].parent
  <2>0. arr1 = arr \/ log' = Append(log, e)
    BY <1>2
  <2> HIDE DEF arr, sto, arr1, sto1
  <2>1. CASE log' = Append(log, e) /\ lost' = lost
    <3>1. CASE t = e.task
      <4>1. t \notin belated' => last
        BY <1>2, <3>1
      <4> HIDE DEF last
      <4> QED
        BY <1>2, <1>4, <1>6, <1>7, <2>1, <3>1, <4>1 DEF Inserts, Advanced
    <3>2. CASE t # e.task
      <4>1. arr1[t] = arr[t] /\ sto1[t] = sto[t]
        BY <1>4, <1>6, <2>1, <3>2 DEF Inserts
      <4> QED
        BY <1>2, <1>7, <2>1, <4>1
    <3> QED
      BY <3>1, <3>2
  <2>2. CASE log' = log /\ lost' = lost \cup {e.task}
    <3>0. arr1 = arr
      BY <2>2 DEF arr, arr1
    <3>1. CASE t = e.task
      <4>1. /\ sto1[t].known
            /\ sto1[t].parent = IF e.type = "task_drafted" THEN ParentOf[t] ELSE sto[t].parent
        BY <1>4, <3>1 DEF Inserts
      <4>2. arr[t].parent # NoTask => arr[t].parent = ParentOf[t] /\ sto[t].parent = arr[t].parent
        BY <1>5, <1>7
      <4> QED
        BY <2>2, <3>0, <3>1, <4>1, <4>2
    <3>2. CASE t # e.task
      <4>1. sto1[t] = sto[t]
        BY <1>4, <3>2 DEF Inserts
      <4> QED
        BY <1>2, <1>7, <2>2, <3>0, <4>1
    <3> QED
      BY <3>1, <3>2
  <2> QED
    BY <1>2, <2>1, <2>2
<1>9. TableAgrees'
  BY <1>8 DEF TableAgrees
<1> QED
  BY <1>3, <1>9

\* The event is lost: only the replay of the table moves on.
LEMMA BridgeMisses ==
    ASSUME BridgeInv, NEW e \in Event, NEW place \in 1 .. Len(table) + 1, NEW arrives,
           PublishEvent(e, place, arrives), ~(arrives /\ bridge # "backoff")
    PROVE  BridgeInv'
<1>1. /\ lost' = lost \cup {e.task} /\ log' = log /\ queue' = queue
      /\ halted' = (halted \/ e.type = "system_halt")
      /\ belated' \in {belated, belated \cup {e.task}}
      /\ UNCHANGED <<ledger, clients, sending, failed, bridge>> /\ e.task \in Task
  BY DEF PublishEvent, Event
<1>2. Handled' = Handled /\ Shown' = Shown /\ Diverted' = Diverted
  BY <1>1 DEF Handled, Shown, Diverted
<1>3. Follows'
  <2>1. Grows(Shown, Shown', lost') /\ Follows /\ ledger \in [Task -> Node]
    BY <1>2 DEF Grows, BridgeInv
  <2> QED
    BY <1>1, <1>2, <2>1, FollowsLosses
<1>4. QueueIsTail' /\ ChildBefore'
  BY <1>1, <1>2 DEF QueueIsTail, ChildBefore, BridgeInv
<1>5. BridgeTypeOK'
  BY <1>1, TablePublishes DEF BridgeInv, BridgeTypeOK
<1> QED
  BY <1>1, <1>3, <1>4, <1>5, TablePublishes DEF BridgeInv

LEMMA BridgeReceives ==
    ASSUME BridgeInv, NEW e \in Event, NEW place \in 1 .. Len(table) + 1, NEW arrives,
           PublishEvent(e, place, arrives), arrives, bridge # "backoff"
    PROVE  BridgeInv'
<1>1. /\ log \in Seq(Event) /\ queue \in Seq(Event)
      /\ Len(log) \in Nat /\ Len(queue) \in Nat /\ Handled \in 0 .. Len(log)
      /\ ledger \in [Task -> Node] /\ QueueIsTail /\ Follows /\ e.task \in Task
  BY HandledType DEF BridgeInv, Event
<1>2. /\ log' = Append(log, e) /\ queue' = Append(queue, e) /\ lost' = lost
      /\ halted' = (halted \/ e.type = "system_halt")
      /\ belated' \in {belated, belated \cup {e.task}}
      /\ UNCHANGED <<ledger, clients, sending, failed, bridge>>
  BY DEF PublishEvent
<1>3. /\ log' \in Seq(Event) /\ Len(log') = Len(log) + 1 /\ log'[Len(log) + 1] = e
      /\ \A i \in 1 .. Len(log) : log'[i] = log[i]
  BY <1>1, <1>2
<1>4. Replay(log')[Handled] = Shown
  <2>1. Handled <= Len(log') /\ \A i \in 1 .. Handled : log'[i] = log[i]
    BY <1>1, <1>3
  <2> QED
    BY <1>1, <1>3, <2>1, ReplayPrefix DEF Shown
<1>5. \A i \in 1 .. Len(log') : log'[i].type = "system_halt" => halted'
  <2> SUFFICES ASSUME NEW i \in 1 .. Len(log'), log'[i].type = "system_halt"
               PROVE  halted'
    OBVIOUS
  <2>1. CASE i = Len(log) + 1
    BY <1>2, <1>3, <2>1
  <2>2. CASE i # Len(log) + 1
    <3>1. i \in 1 .. Len(log)
      BY <1>1, <1>3, <2>2
    <3> QED
      BY <1>2, <1>3, <3>1 DEF BridgeInv
  <2> QED
    BY <2>1, <2>2
<1>6. Diverted \subseteq Diverted'
  <2>1. DOMAIN log = 1 .. Len(log) /\ DOMAIN log' = 1 .. Len(log) + 1
    BY <1>1, <1>3
  <2>2. \A i \in DOMAIN log : i \in DOMAIN log' /\ log'[i] = log[i]
    BY <1>1, <1>3, <2>1
  <2> QED
    BY <2>2 DEF Diverted
<1>7. /\ queue' \in Seq(Event) /\ Len(queue') = Len(queue) + 1
      /\ queue'[Len(queue) + 1] = e
      /\ \A i \in 1 .. Len(queue) : queue'[i] = queue[i]
  BY <1>1, <1>2
<1>8. Handled' = Handled /\ Shown' = Shown
  BY <1>1, <1>3, <1>4, <1>7 DEF Handled, Shown
<1>9. QueueIsTail'
  <2>1. Handled + (Len(queue) + 1) = Len(log) + 1
    BY <1>1 DEF Handled
  <2>2. ASSUME NEW i \in 1 .. Len(queue') PROVE queue'[i] = log'[Handled + i]
    <3>1. CASE i = Len(queue) + 1
      BY <1>3, <1>7, <2>1, <3>1
    <3>2. CASE i # Len(queue) + 1
      <4>1. i \in 1 .. Len(queue) /\ Handled + i \in 1 .. Len(log)
        BY <1>1, <1>7, <3>2 DEF Handled
      <4> QED
        BY <1>1, <1>3, <1>7, <4>1 DEF QueueIsTail
    <3> QED
      BY <3>1, <3>2
  <2> QED
    BY <1>1, <1>3, <1>7, <1>8, <2>2 DEF QueueIsTail
<1>10. Follows'
  <2>1. Grows(Shown, Shown', lost')
    BY <1>8 DEF Grows
  <2> QED
    BY <1>1, <1>2, <1>6, <2>1, FollowsLosses
<1>11. ChildBefore'
  <2>1. \A i \in 1 .. Handled : log'[i] = log[i]
    BY <1>1, <1>3
  <2> SUFFICES ASSUME lost = {}, NEW t \in Task, NEW c \in Task,
                      Shown[c].parent = t, c \notin ledger[t].children,
                      NEW i \in 1 .. Handled, NEW j \in 1 .. Handled,
                      log'[i].task = c, log'[j].task = t
               PROVE  i < j
    BY <1>2, <1>8 DEF ChildBefore
  <2> QED
    BY <2>1 DEF BridgeInv, ChildBefore
<1>12. BridgeTypeOK'
  <2>1. table' \in Seq(Event)
    BY TablePublishes
  <2> QED
    BY <1>1, <1>2, <1>3, <1>7, <2>1 DEF BridgeInv, BridgeTypeOK
<1>13. TableAgrees'
  BY TablePublishes
<1> QED
  BY <1>1, <1>2, <1>5, <1>9, <1>10, <1>11, <1>12, <1>13 DEF BridgeInv

LEMMA BridgeFails ==
    ASSUME BridgeInv, IterationFails
    PROVE  BridgeInv'
<1>1. /\ log \in Seq(Event) /\ queue \in Seq(Event)
      /\ Len(log) \in Nat /\ Len(queue) \in Nat /\ Handled \in 0 .. Len(log)
      /\ ledger \in [Task -> Node] /\ QueueIsTail /\ Follows /\ ChildBefore
  BY HandledType DEF BridgeInv
<1>2. /\ queue' = <<>> /\ sending' = {} /\ bridge' = "backoff"
      /\ lost' = lost \cup {queue[i].task : i \in DOMAIN queue}
      /\ UNCHANGED <<table, log, ledger, clients, failed, belated, halted>>
  BY DEF IterationFails
<1>3. /\ queue' \in Seq(Event) /\ Len(queue') = 0 /\ DOMAIN queue = 1 .. Len(queue)
      /\ \A i \in 1 .. Len(queue) : queue[i].task \in Task
  <2>1. \A i \in 1 .. Len(queue) : queue[i] \in Event
    BY <1>1
  <2>2. <<>> \in Seq(Event) /\ Len(<<>>) = 0
    OBVIOUS
  <2> QED
    BY <1>1, <1>2, <2>1, <2>2 DEF Event
<1>4. Handled' = Len(log) /\ Handled' \in Handled .. Len(log)
  BY <1>1, <1>2, <1>3 DEF Handled
<1>5. {log[i].task : i \in Handled + 1 .. Len(log)} \subseteq lost'
  <2> SUFFICES ASSUME NEW i \in Handled + 1 .. Len(log) PROVE log[i].task \in lost'
    OBVIOUS
  <2>1. i - Handled \in 1 .. Len(queue) /\ Handled + (i - Handled) = i
    BY <1>1 DEF Handled
  <2>2. queue[i - Handled] = log[i]
    BY <1>1, <2>1 DEF QueueIsTail
  <2> QED
    BY <1>2, <1>3, <2>1, <2>2
<1>6. Grows(Shown, Shown', lost')
  <2>1. Grows(Shown, Shown', {log[i].task : i \in Handled + 1 .. Len(log)})
    BY <1>1, <1>2, <1>4, ReplayGrows DEF Shown
  <2> QED
    BY <1>5, <2>1 DEF Grows
<1>7. Follows' /\ TableAgrees'
  <2>1. Diverted' = Diverted
    BY <1>2 DEF Diverted
  <2> QED
    BY <1>1, <1>2, <1>6, <2>1, FollowsLosses DEF BridgeInv, TableAgrees
<1>8. ChildBefore'
  <2>1. CASE queue = <<>>
    BY <1>1, <1>2, <1>3, <1>4, <2>1 DEF ChildBefore, Handled, Shown
  <2>2. CASE queue # <<>>
    <3>1. queue[1].task \in lost' /\ 1 \in DOMAIN queue
      BY <1>1, <1>2, <1>3, <2>2
    <3> QED
      BY <3>1 DEF ChildBefore
  <2> QED
    BY <2>1, <2>2
<1>9. BridgeTypeOK' /\ QueueIsTail'
  BY <1>1, <1>2, <1>3 DEF BridgeInv, BridgeTypeOK, QueueIsTail
<1> QED
  BY <1>1, <1>2, <1>7, <1>8, <1>9 DEF BridgeInv

LEMMA BridgeProjects ==
    ASSUME BridgeInv, ProjectEvent
    PROVE  BridgeInv'
<1>1. /\ log \in Seq(Event) /\ queue \in Seq(Event)
      /\ Len(log) \in Nat /\ Len(queue) \in Nat /\ Handled \in 0 .. Len(log)
      /\ ledger \in [Task -> Node] /\ QueueIsTail /\ Follows /\ ChildBefore
      /\ Shown \in [Task -> Node]
      /\ \A t \in Task : Shown[t].parent \in {NoTask, ParentOf[t]}
  BY HandledType DEF BridgeInv
<1>2. /\ queue # <<>> /\ queue' = Tail(queue)
      /\ ledger' = ProcessTaskEvent(ledger, Head(queue))
      /\ sending' = clients /\ failed' = {} /\ bridge' \in {"reading", "sending"}
      /\ UNCHANGED <<table, log, clients, lost, belated, halted>>
  BY DEF ProjectEvent
<1>0. /\ Len(queue) >= 1 /\ Head(queue) = queue[1] /\ queue[1] \in Event
      /\ queue' \in Seq(Event) /\ Len(queue') = Len(queue) - 1
      /\ \A i \in 1 .. Len(queue') : queue'[i] = queue[i + 1]
  BY <1>1, <1>2
<1>3. PICK e \in Event : e = Head(queue) /\ e = queue[1] /\ e.task \in Task
  BY <1>0 DEF Event
<1>4. PICK n \in 1 .. Len(log) : n = Handled + 1 /\ log[n] = e /\ Handled' = n
  <2>1. Handled + 1 \in 1 .. Len(log) /\ Handled' = Handled + 1
    BY <1>0, <1>1, <1>2 DEF Handled
  <2>2. log[Handled + 1] = queue[1]
    <3>1. 1 \in 1 .. Len(queue)
      BY <1>0, <1>1
    <3> QED
      BY <1>1, <3>1 DEF QueueIsTail
  <2> QED
    BY <1>3, <2>1, <2>2
<1>5. Shown' = Stepped(Shown, e) /\ Grows(Shown, Shown', {e.task})
  <2>1. Shown' = Replay(log)[n] /\ Shown = Replay(log)[Handled]
    BY <1>2, <1>4 DEF Shown
  <2> QED
    BY <1>1, <1>4, <2>1, ReplayStep
<1>6. PICK a \in [Task -> Node] : a = LedgerStepped(ledger, e)
  BY <1>1, <1>3, LedgerSteppedFacts
<1>7. PICK old \in [Task -> Node] : old = Shown
  BY <1>1
<1>8. PICK new \in [Task -> Node] : new = Shown' /\ new = Stepped(old, e)
  BY <1>3, <1>5, <1>7, SteppedFacts
<1>9. ledger' \in [Task -> Node] /\ Processed(e, a, ledger')
  <2>1. ledger' = ProcessTaskEvent(ledger, e) /\ ledger \in [Task -> Node] /\ e \in Event
    BY <1>1, <1>2, <1>3
  <2> QED
    BY <1>6, <2>1, ProcessFacts
<1>A. \A t \in Task \ {e.task} : a[t] = ledger[t] /\ new[t] = old[t]
  <2>1. \A t \in Task \ {e.task} : a[t] = ledger[t]
    BY <1>1, <1>3, <1>6, LedgerSteppedFacts
  <2>2. \A t \in Task \ {e.task} : new[t] = old[t]
    BY <1>3, <1>7, <1>8, SteppedFacts
  <2> QED
    BY <2>1, <2>2
<1>B. Advanced(e, Named(e), ledger[e.task], a[e.task])
  BY <1>1, <1>3, <1>6, LedgerSteppedFacts
<1>C. Advanced(e, Holder(e), old[e.task], new[e.task])
  BY <1>3, <1>7, <1>8, SteppedFacts
<1>K. /\ Diverted' = Diverted
      /\ e.task \notin Diverted =>
            GatewayAfter(e.type, Named(e), ledger[e.task].gateway) =
            GatewayAfter(e.type, Holder(e), ledger[e.task].gateway)
  <2>1. Diverted' = Diverted
    BY <1>2 DEF Diverted
  <2>2. ASSUME e.task \notin Diverted PROVE Named(e) = Holder(e)
    <3>1. CASE e.type = "lease_granted"
      <4>1. n \in DOMAIN log
        BY <1>1, <1>4
      <4> QED
        BY <1>3, <1>4, <2>2, <3>1, <4>1 DEF Diverted, Holder
    <3>2. CASE e.type # "lease_granted"
      BY <3>2 DEF Holder
    <3> QED
      BY <3>1, <3>2
  <2> QED
    BY <2>1, <2>2
<1>D. e.type = "system_halt" => halted
  BY <1>3, <1>4 DEF BridgeInv
<1>E. \A t \in Task : a[t].children = ledger[t].children /\ (ledger[t].known => a[t].known)
  BY <1>3, <1>A, <1>B DEF Advanced
<1>J. ASSUME NEW x \in Task
      PROVE  /\ ledger'[x].known = a[x].known /\ ledger'[x].parent = a[x].parent
             /\ ledger[x].children \subseteq ledger'[x].children
             /\ a[e.task].parent = x /\ a[x].known => e.task \in ledger'[x].children
             /\ \A c \in ledger'[x].children \ ledger[x].children :
                   c = e.task /\ a[e.task].parent = x /\ a[x].known
  <2>1. /\ ledger'[x].known = a[x].known /\ ledger'[x].parent = a[x].parent
        /\ ledger'[x].children = IF a[e.task].parent = x /\ a[x].known
                                 THEN a[x].children \cup {e.task} ELSE a[x].children
    BY <1>9 DEF Processed
  <2>2. a[x].children = ledger[x].children
    BY <1>E
  <2>3. CASE a[e.task].parent = x /\ a[x].known
    BY <2>1, <2>2, <2>3
  <2>4. CASE ~(a[e.task].parent = x /\ a[x].known)
    BY <2>1, <2>2, <2>4
  <2> QED
    BY <2>3, <2>4
<1>F. Follows'
  <2>1. ASSUME NEW t \in Task, t \notin lost
        PROVE  /\ ledger'[t].known = new[t].known /\ ledger'[t].parent = new[t].parent
               /\ ledger'[t].spent = new[t].spent
               /\ t \notin Diverted => ledger'[t].gateway = new[t].gateway
               /\ ~halted => ledger'[t].status = new[t].status
    <3>1. /\ ledger[t].known = old[t].known /\ ledger[t].parent = old[t].parent
          /\ ledger[t].spent = old[t].spent
          /\ t \notin Diverted => ledger[t].gateway = old[t].gateway
          /\ ~halted => ledger[t].status = old[t].status
      BY <1>1, <1>7, <2>1 DEF Follows
    <3>2. /\ a[t].known = new[t].known /\ a[t].parent = new[t].parent
          /\ a[t].spent = new[t].spent
          /\ t \notin Diverted => a[t].gateway = new[t].gateway
          /\ ~halted => a[t].status = new[t].status
      <4>1. CASE t = e.task
        BY <1>B, <1>C, <1>K, <3>1, <4>1 DEF Advanced
      <4>2. CASE t # e.task
        BY <1>A, <3>1, <4>2
      <4> QED
        BY <4>1, <4>2
    <3> QED
      BY <1>9, <1>D, <3>2 DEF Processed
  <2>2. ASSUME NEW t \in Task
        PROVE  /\ ledger'[t].known => new[t].known
               /\ ledger'[t].parent # NoTask => new[t].parent = ledger'[t].parent
    <3>1. /\ ledger[t].known => old[t].known
          /\ ledger[t].parent # NoTask => old[t].parent = ledger[t].parent
      BY <1>1, <1>7 DEF Follows
    <3>2. CASE t = e.task
      <4>1. /\ ledger'[t].parent = a[t].parent /\ new[t].known
            /\ a[t].parent = IF e.type = "task_drafted" THEN ParentOf[t]
                             ELSE ledger[t].parent
            /\ new[t].parent = IF e.type = "task_drafted" THEN ParentOf[t]
                               ELSE old[t].parent
        BY <1>B, <1>C, <1>J, <3>2 DEF Advanced
      <4>2. CASE e.type = "task_drafted"
        BY <4>1, <4>2
      <4>3. CASE e.type # "task_drafted"
        BY <3>1, <4>1, <4>3
      <4> QED
        BY <4>2, <4>3
    <3>3. CASE t # e.task
      BY <1>9, <1>A, <3>1, <3>3 DEF Processed
    <3> QED
      BY <3>2, <3>3
  <2>3. ASSUME NEW t \in Task, NEW c \in ledger'[t].children
        PROVE  new[c].parent = t /\ ledger'[t].known
    <3>1. CASE c \in ledger[t].children
      <4>1. old[c].parent = t /\ c \in Task /\ t # NoTask /\ ledger[t].known
        BY <1>1, <1>7, <3>1, TaskNames DEF Follows, Node
      <4>2. ledger'[t].known
        BY <1>9, <1>E, <4>1 DEF Processed
      <4> QED
        BY <1>5, <1>7, <1>8, <4>1, <4>2 DEF Grows
    <3>2. CASE c \notin ledger[t].children
      <4>1. c = e.task /\ a[e.task].parent = t /\ a[t].known
        BY <1>J, <2>3, <3>2
      <4>2. ledger'[c].parent = t /\ ledger'[t].known /\ t # NoTask
        BY <1>3, <1>9, <4>1, TaskNames DEF Processed
      <4> QED
        BY <1>3, <2>2, <4>1, <4>2
    <3> QED
      BY <3>1, <3>2
  <2> QED
    BY <1>2, <1>8, <1>K, <2>1, <2>2, <2>3 DEF Follows
<1>G. ChildBefore'
  <2> SUFFICES ASSUME lost = {}, NEW t \in Task, NEW c \in Task,
                      new[c].parent = t, c \notin ledger'[t].children,
                      NEW i \in 1 .. n, NEW j \in 1 .. n, log[i].task = c, log[j].task = t
               PROVE  i < j
    BY <1>2, <1>4, <1>8 DEF ChildBefore
  <2>1. c \notin ledger[t].children
    BY <1>J
  <2>2. CASE c = e.task
    <3>1. new[t].known
      <4>1. n \in 0 .. Len(log) /\ Replay(log)[n] = new
        BY <1>1, <1>2, <1>4, <1>8 DEF Shown
      <4>2. (\E k \in 1 .. n : log[k].task = t) => Replay(log)[n][t].known
        BY <1>1, <4>1, ReplayFacts
      <4> QED
        BY <4>1, <4>2
    <3>2. ledger'[t].known = new[t].known /\ ledger'[c].parent = new[c].parent
      BY <1>2, <1>8, <1>F DEF Follows
    <3>3. a[t].known /\ a[e.task].parent = t
      <4>1. ledger'[t].known = a[t].known /\ ledger'[c].parent = a[c].parent
        BY <1>J
      <4> QED
        BY <2>2, <3>1, <3>2, <4>1
    <3> QED
      BY <1>J, <2>2, <3>3
  <2>3. CASE c # e.task
    <3>1. Handled \in Nat /\ n = Handled + 1 /\ i # n
      BY <1>1, <1>4, <2>3
    <3>2. i \in 1 .. Handled
      BY <3>1
    <3>3. Shown[c].parent = t
      BY <1>7, <1>A, <2>3
    <3>4. CASE j = n
      BY <3>1, <3>2, <3>4
    <3>5. CASE j # n
      <4>1. j \in 1 .. Handled
        BY <3>1, <3>5
      <4> QED
        BY <1>1, <2>1, <3>2, <3>3, <4>1 DEF ChildBefore
    <3> QED
      BY <3>4, <3>5
  <2> QED
    BY <2>2, <2>3
<1>H. BridgeTypeOK'
  <2>1. \A t \in Task : ledger'[t].status \in Status
    BY <1>9 DEF Node, Processed
  <2> QED
    BY <1>0, <1>2, <2>1 DEF BridgeInv, BridgeTypeOK
<1>I. QueueIsTail'
  <2>1. ASSUME NEW k \in 1 .. Len(queue') PROVE queue'[k] = log[n + k]
    <3>0. /\ Handled \in Nat /\ n = Handled + 1 /\ k \in Nat
          /\ Len(queue) \in Nat /\ k <= Len(queue) - 1
      BY <1>0, <1>1, <1>4
    <3>1. k + 1 \in 1 .. Len(queue) /\ Handled + (k + 1) = n + k
      BY <3>0
    <3> QED
      BY <1>0, <1>1, <3>1 DEF QueueIsTail
  <2> QED
    BY <1>0, <1>1, <1>2, <1>4, <2>1 DEF QueueIsTail
<1> QED
  BY <1>2, <1>9, <1>F, <1>G, <1>H, <1>I DEF BridgeInv, Processed, TableAgrees

LEMMA BridgeInvSafe == ASSUME BridgeInv PROVE BridgeSafe
<1>1. /\ log \in Seq(Event) /\ queue \in Seq(Event) /\ Len(log) \in Nat
      /\ ledger \in [Task -> Node] /\ Follows /\ ChildBefore /\ BridgeTypeOK
      /\ Shown \in [Task -> Node]
  BY HandledType DEF BridgeInv
<1> DEFINE stored == Replay(table)[Len(table)]
<1>2. ASSUME queue = <<>>
      PROVE  /\ Handled = Len(log) /\ Shown = Replay(log)[Len(log)]
  BY <1>1, <1>2 DEF Handled, Shown
<1>0. stored \in [Task -> Node]
  BY ReplayTurns, HandledType
<1>3. ASSUME NEW t \in Task
      PROVE  /\ Replayed[t].status = stored[t].status
             /\ Replayed[t].gateway = stored[t].gateway
             /\ Replayed[t].spent = stored[t].spent
             /\ Replayed[t].children = IF stored[t].known
                                       THEN {c \in Task : stored[c].parent = t} ELSE {}
  <2> DEFINE cs == IF stored[t].known THEN {c \in Task : stored[c].parent = t} ELSE {}
  <2>1. Replayed[t] = [stored[t] EXCEPT !.children = cs]
    BY <1>3 DEF Replayed, Project
  <2>2. stored[t] \in Node
    BY <1>0
  <2> HIDE DEF cs, stored
  <2>3. /\ Replayed[t].status = stored[t].status
        /\ Replayed[t].gateway = stored[t].gateway
        /\ Replayed[t].spent = stored[t].spent
        /\ Replayed[t].children = cs
    BY <2>1, <2>2 DEF Node
  <2> QED
    BY <2>3 DEF cs
<1>6. ASSUME queue = <<>>, NEW t \in Task
      PROVE  /\ t \notin lost =>
                   /\ Shown[t].known = stored[t].known /\ Shown[t].parent = stored[t].parent
                   /\ Shown[t].spent = stored[t].spent
                   /\ t \notin belated => /\ Shown[t].status = stored[t].status
                                          /\ Shown[t].gateway = stored[t].gateway
             /\ Shown[t].known => stored[t].known
             /\ Shown[t].parent # NoTask => stored[t].parent = Shown[t].parent
  BY <1>2, <1>6 DEF BridgeInv, TableAgrees
<1> HIDE DEF stored
<1>4. LedgerAgrees
  <2> SUFFICES ASSUME queue = <<>>, NEW t \in Task \ lost
               PROVE  /\ ledger[t].spent = Replayed[t].spent
                      /\ ledger[t].children \subseteq Replayed[t].children
                      /\ t \notin belated /\ ~halted => ledger[t].status = Replayed[t].status
                      /\ t \notin belated \cup Diverted => ledger[t].gateway = Replayed[t].gateway
    BY DEF LedgerAgrees
  <2>1. ASSUME NEW c \in ledger[t].children PROVE c \in Replayed[t].children
    <3>1. c \in Task /\ Shown[c].parent = t /\ Shown[t].known /\ t # NoTask
      BY <1>1, <2>1, TaskNames DEF Follows, Node
    <3>2. stored[c].parent = t /\ stored[t].known
      BY <1>6, <3>1
    <3> QED
      BY <1>3, <3>1, <3>2
  <2>2. /\ ledger[t].spent = Shown[t].spent
        /\ t \notin Diverted => ledger[t].gateway = Shown[t].gateway
        /\ ~halted => ledger[t].status = Shown[t].status
    BY <1>1 DEF Follows
  <2>3. /\ Shown[t].spent = stored[t].spent
        /\ t \notin belated => Shown[t].status = stored[t].status
                              /\ Shown[t].gateway = stored[t].gateway
    BY <1>6
  <2>4. /\ Replayed[t].status = stored[t].status /\ Replayed[t].gateway = stored[t].gateway
        /\ Replayed[t].spent = stored[t].spent
    BY <1>3
  <2> QED
    BY <2>1, <2>2, <2>3, <2>4
<1>5. UnlinkedOnlyIfEarly
  <2> SUFFICES ASSUME queue = <<>>, lost = {}, NEW t \in Task,
                      NEW c \in Replayed[t].children \ ledger[t].children,
                      NEW i \in DOMAIN log, NEW j \in DOMAIN log,
                      log[i].task = c, log[j].task = t
               PROVE  i < j
    BY DEF UnlinkedOnlyIfEarly
  <2>1. c \in Task /\ Shown[c].parent = t
    <3>1. c \in IF stored[t].known THEN {x \in Task : stored[x].parent = t} ELSE {}
      BY <1>3
    <3> QED
      BY <1>6, <3>1
  <2>2. i \in 1 .. Handled /\ j \in 1 .. Handled
    BY <1>1, <1>2
  <2> QED
    BY <1>1, <2>1, <2>2 DEF ChildBefore
<1> QED
  BY <1>1, <1>4, <1>5 DEF BridgeSafe

\* Whatever is published, stored and lost in whatever order, whoever connects
\* and leaves, and however often the loop over the clients fails: once the bridge
\* has handled its queue, a task with no lost event stands in the ledger as the
\* replay of all events has it: its cost and children; its status, unless an
\* event of it was stored out of order or a halt was published; its gateway,
\* unless an event of it was stored out of order or a lease was for another
\* gateway than its publisher.  A child the ledger does not link had all its
\* events before its parent had any (BridgeLedger.process_event against
\* project_task_dag).
THEOREM BridgeKept == BridgeSpec => []BridgeSafe
<1>1. BridgeInv /\ [BridgeNext]_bridgeVars => BridgeInv'
  <2> SUFFICES ASSUME BridgeInv, [BridgeNext]_bridgeVars PROVE BridgeInv'
    OBVIOUS
  <2>1. CASE \E e \in Published, place \in 1 .. Len(table) + 1, arrives \in BOOLEAN :
                PublishEvent(e, place, arrives)
    BY <2>1, PublishedEvents, BridgeMisses, BridgeReceives
  <2>2. CASE ProjectEvent
    BY <2>2, BridgeProjects
  <2>3. CASE IterationFails
    BY <2>3, BridgeFails
  <2>4. CASE \/ \E c \in Client : ClientConnects(c) \/ ClientDisconnects(c) \/ SendTo(c)
             \/ EndSends \/ Resubscribe \/ UNCHANGED bridgeVars
    <3>1. UNCHANGED <<table, log, queue, ledger, lost, belated, halted>>
      BY <2>4 DEF ClientConnects, ClientDisconnects, SendTo, EndSends, Resubscribe,
                  bridgeVars
    <3> QED
      BY <2>4, <3>1, BridgeOther
  <2> QED
    BY <2>1, <2>2, <2>3, <2>4 DEF BridgeNext, Bridge
<1> QED
  BY <1>1, BridgeStarts, BridgeInvSafe, PTL DEF BridgeSpec

-----------------------------------------------------------------------------
(* The code ingest: names, slugs and links                                  *)

LEMMA GreatestNumber ==
    ASSUME NEW n \in Nat, NEW S \in SUBSET (0 .. n), S # {}
    PROVE  Max(S) \in S
<1> DEFINE B == {n - x : x \in S}
<1>1. B \in SUBSET Nat /\ B # {}
  <2>1. \A x \in S : n - x \in Nat
    OBVIOUS
  <2>2. PICK x \in S : TRUE
    OBVIOUS
  <2> QED
    BY <2>1, <2>2
<1>2. PICK m \in B : \A k \in B : m <= k
  BY <1>1, LeastNumber
<1>3. PICK x \in S : m = n - x
  BY <1>2
<1>4. \A y \in S : x >= y
  BY <1>2, <1>3
<1> QED
  BY <1>4 DEF Max

LEMMA SetOfConcat ==
    ASSUME NEW X, NEW s \in Seq(X), NEW t \in Seq(X)
    PROVE  s \o t \in Seq(X) /\ ToSet(s \o t) = ToSet(s) \cup ToSet(t)
<1>1. /\ s \o t \in Seq(X) /\ Len(s \o t) = Len(s) + Len(t)
      /\ Len(s) \in Nat /\ Len(t) \in Nat
      /\ DOMAIN s = 1 .. Len(s) /\ DOMAIN t = 1 .. Len(t)
      /\ DOMAIN (s \o t) = 1 .. Len(s) + Len(t)
  OBVIOUS
<1>2. ASSUME NEW x \in ToSet(s \o t) PROVE x \in ToSet(s) \cup ToSet(t)
  <2>1. PICK i \in 1 .. Len(s) + Len(t) : x = (s \o t)[i]
    BY <1>1 DEF ToSet
  <2>2. CASE i <= Len(s)
    BY <1>1, <2>1, <2>2 DEF ToSet
  <2>3. CASE i > Len(s)
    <3>1. i - Len(s) \in 1 .. Len(t) /\ x = t[i - Len(s)]
      BY <1>1, <2>1, <2>3
    <3> QED
      BY <1>1, <3>1 DEF ToSet
  <2> QED
    BY <1>1, <2>1, <2>2, <2>3
<1>3. ASSUME NEW x \in ToSet(s) PROVE x \in ToSet(s \o t)
  <2>1. PICK i \in 1 .. Len(s) : x = s[i]
    BY <1>1 DEF ToSet
  <2>2. i \in 1 .. Len(s) + Len(t) /\ (s \o t)[i] = x
    BY <1>1, <2>1
  <2> QED
    BY <1>1, <2>2 DEF ToSet
<1>4. ASSUME NEW x \in ToSet(t) PROVE x \in ToSet(s \o t)
  <2>1. PICK i \in 1 .. Len(t) : x = t[i]
    BY <1>1 DEF ToSet
  <2>2. Len(s) + i \in 1 .. Len(s) + Len(t) /\ (s \o t)[Len(s) + i] = x
    BY <1>1, <2>1
  <2> QED
    BY <1>1, <2>2 DEF ToSet
<1> QED
  BY <1>1, <1>2, <1>3, <1>4

LEMMA SetOfTail ==
    ASSUME NEW X, NEW s \in Seq(X), s # <<>>
    PROVE  /\ Head(s) \in X /\ Tail(s) \in Seq(X)
           /\ ToSet(s) = {Head(s)} \cup ToSet(Tail(s)) /\ ToSet(s) \subseteq X
<1>1. /\ Len(s) \in Nat \ {0} /\ DOMAIN s = 1 .. Len(s) /\ Head(s) = s[1] /\ s[1] \in X
      /\ Tail(s) \in Seq(X) /\ Len(Tail(s)) = Len(s) - 1
      /\ DOMAIN Tail(s) = 1 .. Len(s) - 1
      /\ \A i \in 1 .. Len(s) - 1 : Tail(s)[i] = s[i + 1]
  OBVIOUS
<1>2. ASSUME NEW x \in ToSet(s) PROVE x = Head(s) \/ x \in ToSet(Tail(s))
  <2>1. PICK i \in 1 .. Len(s) : x = s[i]
    BY <1>1 DEF ToSet
  <2>2. CASE i # 1
    <3>1. i - 1 \in 1 .. Len(s) - 1 /\ (i - 1) + 1 = i
      BY <1>1, <2>1, <2>2
    <3>2. Tail(s)[i - 1] = x
      BY <1>1, <2>1, <3>1
    <3> QED
      BY <1>1, <3>1, <3>2 DEF ToSet
  <2> QED
    BY <1>1, <2>1, <2>2
<1>3. ASSUME NEW x \in ToSet(Tail(s)) PROVE x \in ToSet(s)
  <2>1. PICK i \in 1 .. Len(s) - 1 : x = s[i + 1]
    BY <1>1 DEF ToSet
  <2> QED
    BY <1>1, <2>1 DEF ToSet
<1> QED
  BY <1>1, <1>2, <1>3 DEF ToSet

\* The same, for sets of sequences: the statement is one the provers need not open.
StepsOf(F, n, Y) == F \in [1 .. n -> [Y -> Y]]
PathOf(F, n, Y, x0, g) ==
    g \in [0 .. n -> Y] /\ g[0] = x0 /\ \A i \in 1 .. n : g[i] = F[i][g[i - 1]]

LEMMA PathExists ==
    ASSUME NEW Y, NEW x0, NEW n, NEW F, x0 \in Y, n \in Nat, StepsOf(F, n, Y)
    PROVE  \E g : PathOf(F, n, Y, x0, g)
<1>1. F \in [1 .. n -> [Y -> Y]]
  BY DEF StepsOf
<1>2. \E g \in [0 .. n -> Y] : g[0] = x0 /\ \A i \in 1 .. n : g[i] = F[i][g[i - 1]]
  BY <1>1, IterationExists
<1> QED
  BY <1>2 DEF PathOf

LEMMA SetOfFlatten ==
    ASSUME NEW X, NEW ss \in Seq(Seq(X))
    PROVE  /\ FlattenSeq(ss) \in Seq(X)
           /\ ToSet(FlattenSeq(ss)) = UNION {ToSet(ss[i]) : i \in DOMAIN ss}
<1> DEFINE n == Len(ss)
<1>0. n \in Nat /\ DOMAIN ss = 1 .. n /\ \A i \in 1 .. n : ss[i] \in Seq(X)
  OBVIOUS
<1>1. CASE n = 0
  <2>1. ss = <<>> /\ FlattenSeq(ss) = ss
    BY <1>1 DEF FlattenSeq
  <2>2. <<>> \in Seq(X) /\ DOMAIN <<>> = {}
    OBVIOUS
  <2>3. ToSet(<<>>) = {}
    BY <2>2 DEF ToSet
  <2>4. UNION {ToSet(<<>>[i]) : i \in DOMAIN <<>>} = {}
    BY <2>2
  <2> HIDE DEF n
  <2> QED
    BY <2>1, <2>2, <2>3, <2>4
<1>2. CASE n # 0
  <2> DEFINE F == [i \in 1 .. n |-> [s \in Seq(X) |-> s \o ss[i]]]
  <2>1. PICK g : PathOf(F, n, Seq(X), <<>>, g)
    <3>1. \A i \in 1 .. n : \A s \in Seq(X) : s \o ss[i] \in Seq(X)
      BY <1>0
    <3>2. F \in [1 .. n -> [Seq(X) -> Seq(X)]]
      BY <3>1
    <3>3. StepsOf(F, n, Seq(X)) /\ n \in Nat /\ <<>> \in Seq(X)
      BY <1>0, <3>2 DEF StepsOf
    <3> HIDE DEF F, n
    <3> QED
      BY <3>3, PathExists
  <2>2. g[0] = <<>> /\ \A i \in 1 .. n : g[i - 1] \in Seq(X) /\ g[i] = g[i - 1] \o ss[i]
    <3>1. /\ g \in [0 .. n -> Seq(X)] /\ g[0] = <<>>
          /\ \A i \in 1 .. n : g[i] = F[i][g[i - 1]]
      <4> HIDE DEF F, n
      <4> QED
        BY <2>1 DEF PathOf
    <3>2. ASSUME NEW i \in 1 .. n PROVE g[i - 1] \in Seq(X) /\ g[i] = g[i - 1] \o ss[i]
      <4>1. i - 1 \in 0 .. n /\ F[i] = [s \in Seq(X) |-> s \o ss[i]]
        BY <1>0
      <4>2. g[i - 1] \in Seq(X) /\ g[i] = F[i][g[i - 1]]
        <5> HIDE DEF F, n
        <5> QED
          BY <3>1, <4>1
      <4> HIDE DEF F, n
      <4> QED
        BY <4>1, <4>2
    <3> QED
      BY <3>1, <3>2
  <2> DEFINE Flat(h) == h = [i \in 1 .. n |-> IF i = 1 THEN ss[i] ELSE h[i - 1] \o ss[i]]
             h0 == [i \in 1 .. n |-> g[i]]
  <2>3. Flat(h0)
    <3>1. g[1] = ss[1]
      <4>1. g[1] = <<>> \o ss[1] /\ ss[1] \in Seq(X)
        <5>1. 1 \in 1 .. n /\ 1 - 1 = 0
          BY <1>0, <1>2
        <5> HIDE DEF n
        <5> QED
          BY <1>0, <2>1, <2>2, <5>1
      <4> QED
        BY <4>1
    <3>2. ASSUME NEW i \in 1 .. n, i # 1 PROVE i - 1 \in 1 .. n
      BY <1>0, <3>2
    <3> HIDE DEF n
    <3> QED
      BY <2>2, <3>1, <3>2
  <2> DEFINE h == CHOOSE u : Flat(u)
  <2>4. Flat(h)
    <3> HIDE DEF Flat, h0
    <3> QED
      BY <2>3 DEF h
  <2>5. FlattenSeq(ss) = h[n]
    BY <1>2 DEF FlattenSeq
  <2> HIDE DEF h
  <2>6. /\ h[1] = ss[1]
        /\ \A i \in 1 .. n : i # 1 => h[i] = h[i - 1] \o ss[i]
    <3>1. 1 \in 1 .. n
      BY <1>0, <1>2
    <3>2. h = [i \in 1 .. n |-> IF i = 1 THEN ss[i] ELSE h[i - 1] \o ss[i]]
      BY <2>4
    <3> HIDE DEF n
    <3> QED
      BY <3>1, <3>2
  <2> DEFINE U(k) == UNION {ToSet(ss[i]) : i \in 1 .. k}
             A == {k \in Nat : k # 0 /\ k <= n => h[k] \in Seq(X) /\ ToSet(h[k]) = U(k)}
  <2>7. 0 \in A
    OBVIOUS
  <2>8. ASSUME NEW k \in Nat, k \in A PROVE k + 1 \in A
    <3> SUFFICES ASSUME k + 1 <= n
                 PROVE  h[k + 1] \in Seq(X) /\ ToSet(h[k + 1]) = U(k + 1)
      OBVIOUS
    <3>1. k + 1 \in 1 .. n /\ (k + 1) - 1 = k /\ 1 .. k + 1 = (1 .. k) \cup {k + 1}
      BY <1>0
    <3>2. ss[k + 1] \in Seq(X) /\ U(k + 1) = U(k) \cup ToSet(ss[k + 1])
      BY <1>0, <3>1
    <3>3. CASE k = 0
      <4>1. h[k + 1] = ss[k + 1] /\ U(k) = {}
        BY <2>6, <3>3
      <4> HIDE DEF U
      <4> QED
        BY <3>2, <4>1
    <3>4. CASE k # 0
      <4>1. h[k + 1] = h[(k + 1) - 1] \o ss[k + 1]
        <5>1. k + 1 # 1
          BY <3>4
        <5> HIDE DEF n
        <5> QED
          BY <2>6, <3>1, <5>1
      <4>2. h[k] \in Seq(X) /\ ToSet(h[k]) = U(k)
        BY <1>0, <2>8, <3>1, <3>4
      <4>3. h[k + 1] = h[k] \o ss[k + 1]
        BY <3>1, <4>1
      <4>4. /\ h[k] \o ss[k + 1] \in Seq(X)
            /\ ToSet(h[k] \o ss[k + 1]) = ToSet(h[k]) \cup ToSet(ss[k + 1])
        <5> HIDE DEF U, n
        <5> QED
          BY <3>2, <4>2, SetOfConcat
      <4> HIDE DEF U, n
      <4> QED
        BY <3>2, <4>2, <4>3, <4>4
    <3> QED
      BY <3>3, <3>4
  <2>9. n \in A
    <3> HIDE DEF A, n
    <3> QED
      BY <1>0, <2>7, <2>8, SetInduction
  <2> QED
    BY <1>0, <1>2, <2>5, <2>9
<1> QED
  BY <1>0, <1>1, <1>2

LEMMA SeqOverItsSet ==
    ASSUME NEW Z, NEW s \in Seq(Z), NEW X, ToSet(s) \subseteq X
    PROVE  s \in Seq(X)
<1>1. /\ Len(s) \in Nat /\ DOMAIN s = 1 .. Len(s)
      /\ s = [i \in 1 .. Len(s) |-> s[i]]
  OBVIOUS
<1>2. \A i \in 1 .. Len(s) : s[i] \in X
  BY <1>1 DEF ToSet
<1>3. [i \in 1 .. Len(s) |-> s[i]] \in Seq(X)
  BY <1>1, <1>2
<1> QED
  BY <1>1, <1>3

\* What the files of the walk may hold.
IsTree(files) ==
    /\ files \in [File -> (UNION {CodeOf[f] : f \in File}) \cup {Unparsed}]
    /\ \A f \in File : files[f] \in CodeOf[f] \cup {Unparsed}

Symbol == [qualname : Name, references : SUBSET Name]

LEMMA FilesOfWalk ==
    /\ Len(ModuleOf) \in Nat /\ File = 1 .. Len(ModuleOf)
    /\ \A f \in File : ModuleOf[f] \in Name
BY SourceCode DEF File

\* The symbols of a parsed file.
LEMMA SymbolsOf ==
    ASSUME NEW files, IsTree(files), NEW f \in ParsedFiles(files)
    PROVE  /\ f \in File /\ files[f] \in CodeOf[f] /\ files[f].symbols \in Seq(Symbol)
           /\ Qualnames(files[f]) \subseteq Name
           /\ \A q \in Qualnames(files[f]) : Len(q) > 1 => <<q[1]>> \in Qualnames(files[f])
<1>1. f \in File /\ files[f] \in CodeOf[f]
  BY DEF IsTree, ParsedFiles
<1>2. /\ files[f].symbols \in Seq(Symbol)
      /\ \A q \in Qualnames(files[f]) : Len(q) > 1 => <<q[1]>> \in Qualnames(files[f])
  BY <1>1, SourceCode DEF Symbol
<1>3. ASSUME NEW i \in DOMAIN files[f].symbols PROVE files[f].symbols[i] \in Symbol
  BY <1>2
<1>4. Qualnames(files[f]) \subseteq Name
  BY <1>3 DEF Qualnames, Symbol
<1> QED
  BY <1>1, <1>2, <1>4

LEMMA NodesOfFile ==
    ASSUME NEW files, IsTree(files), NEW f \in ParsedFiles(files)
    PROVE  /\ Emissions(files, f) \in Seq(File \X Seq(STRING))
           /\ ToSet(Emissions(files, f)) = {<<f, q>> : q \in Qualnames(files[f]) \cup {<<>>}}
<1> DEFINE symbols == files[f].symbols
           X == File \X Seq(STRING)
           first == <<<<f, <<>>>>>>
           rest == [i \in DOMAIN symbols |-> <<f, symbols[i].qualname>>]
           nodesOf == first \o rest
<1>1. symbols \in Seq(Symbol) /\ f \in File /\ files[f] # Unparsed
  BY SymbolsOf DEF ParsedFiles
<1>2. /\ Len(symbols) \in Nat /\ DOMAIN symbols = 1 .. Len(symbols)
      /\ \A i \in DOMAIN symbols : symbols[i] \in Symbol
  BY <1>1
<1>3. \A i \in DOMAIN symbols : symbols[i].qualname \in Seq(STRING)
  BY <1>2 DEF Symbol, Name
<1>4. rest \in Seq(X)
  <2>1. \A i \in 1 .. Len(symbols) : <<f, symbols[i].qualname>> \in X
    BY <1>1, <1>2, <1>3
  <2> HIDE DEF symbols, X
  <2> QED
    BY <1>2, <2>1
<1>5. first \in Seq(X) /\ ToSet(first) = {<<f, <<>>>>}
  <2>1. <<f, <<>>>> \in X
    <3>1. <<>> \in Seq(STRING)
      OBVIOUS
    <3> QED
      BY <1>1, <3>1
  <2>2. first \in Seq(X) /\ DOMAIN first = {1} /\ first[1] = <<f, <<>>>>
    BY <2>1
  <2> HIDE DEF first
  <2> QED
    BY <2>2 DEF ToSet
<1>6. ToSet(rest) = {<<f, q>> : q \in Qualnames(files[f])}
  <2>1. ToSet(rest) = {<<f, symbols[i].qualname>> : i \in DOMAIN symbols}
    BY DEF ToSet
  <2> QED
    BY <2>1 DEF Qualnames
<1>7. nodesOf \in Seq(X) /\ ToSet(nodesOf) = {<<f, q>> : q \in Qualnames(files[f]) \cup {<<>>}}
  <2>1. nodesOf \in Seq(X) /\ ToSet(nodesOf) = ToSet(first) \cup ToSet(rest)
    <3> HIDE DEF X, first, rest
    <3> QED
      BY <1>4, <1>5, SetOfConcat
  <2> HIDE DEF first, rest, nodesOf
  <2> QED
    BY <1>5, <1>6, <2>1
<1>8. nodesOf \o nodesOf \in Seq(X) /\ ToSet(nodesOf \o nodesOf) = ToSet(nodesOf)
  <2> HIDE DEF nodesOf, X
  <2> QED
    BY <1>7, SetOfConcat
<1>9. Emissions(files, f) \in {nodesOf, nodesOf \o nodesOf}
  BY <1>1 DEF Emissions
<1> HIDE DEF nodesOf, X
<1>10. Emissions(files, f) \in Seq(X) /\ ToSet(Emissions(files, f)) = ToSet(nodesOf)
  BY <1>7, <1>8, <1>9
<1> QED
  BY <1>7, <1>10 DEF X

LEMMA FunctionIsSeq ==
    ASSUME NEW Y, NEW n \in Nat, NEW p \in [1 .. n -> Y]
    PROVE  p \in Seq(Y) /\ Len(p) = n
OBVIOUS

\* The slug of a module and a qualname tells the qualname.
LEMMA SlugTellsName ==
    ASSUME NEW m \in Seq(STRING), NEW q \in Seq(STRING), NEW r \in Seq(STRING),
           ModuleToSlug(m, q) = ModuleToSlug(m, r)
    PROVE  q = r
<1> DEFINE path == [i \in DOMAIN m |-> <<m[i]>>]
           Tip(x) == IF x = <<>> THEN <<>> ELSE <<x>>
<1>1. path \in Seq(Seq(STRING)) /\ Len(path) = Len(m) /\ Len(m) \in Nat
  <2>1. Len(m) \in Nat /\ DOMAIN m = 1 .. Len(m) /\ \A i \in 1 .. Len(m) : m[i] \in STRING
    OBVIOUS
  <2>2. \A i \in 1 .. Len(m) : <<m[i]>> \in Seq(STRING)
    BY <2>1
  <2>3. path = [i \in 1 .. Len(m) |-> <<m[i]>>]
    BY <2>1
  <2> HIDE DEF path
  <2>4. path \in [1 .. Len(m) -> Seq(STRING)]
    BY <2>2, <2>3
  <2> QED
    BY <2>1, <2>4, FunctionIsSeq
<1>2. ASSUME NEW x \in Seq(STRING)
      PROVE  /\ ModuleToSlug(m, x) = path \o Tip(x)
             /\ x = <<>> => Len(ModuleToSlug(m, x)) = Len(m)
             /\ x # <<>> => /\ Len(ModuleToSlug(m, x)) = Len(m) + 1
                            /\ ModuleToSlug(m, x)[Len(m) + 1] = x
  <2>1. ModuleToSlug(m, x) = path \o Tip(x)
    BY DEF ModuleToSlug
  <2> HIDE DEF path
  <2>2. CASE x = <<>>
    <3>1. Tip(x) = <<>> /\ path \o <<>> = path
      BY <1>1, <2>2
    <3> QED
      BY <1>1, <2>1, <2>2, <3>1
  <2>3. CASE x # <<>>
    <3>1. Tip(x) = <<x>> /\ <<x>> \in Seq(Seq(STRING)) /\ Len(<<x>>) = 1 /\ <<x>>[1] = x
      BY <2>3
    <3>2. /\ Len(path \o <<x>>) = Len(m) + 1
          /\ (path \o <<x>>)[Len(m) + 1] = x
      BY <1>1
    <3> QED
      BY <2>1, <2>3, <3>1, <3>2
  <2> QED
    BY <2>1, <2>2, <2>3
<1> HIDE DEF path
<1>3. Len(m) # Len(m) + 1
  <2>1. \A l \in Nat : l # l + 1
    OBVIOUS
  <2>2. Len(m) \in Nat
    BY <1>1
  <2> QED
    BY <2>1, <2>2
<1>4. /\ q = <<>> => Len(ModuleToSlug(m, q)) = Len(m)
      /\ q # <<>> => Len(ModuleToSlug(m, q)) = Len(m) + 1 /\ ModuleToSlug(m, q)[Len(m) + 1] = q
  BY <1>2, ZenonT(10)
<1>5. /\ r = <<>> => Len(ModuleToSlug(m, r)) = Len(m)
      /\ r # <<>> => Len(ModuleToSlug(m, r)) = Len(m) + 1 /\ ModuleToSlug(m, r)[Len(m) + 1] = r
  BY <1>2, ZenonT(10)
<1>6. (q = <<>>) <=> (r = <<>>)
  <2> DEFINE a == Len(ModuleToSlug(m, q))
             b == Len(ModuleToSlug(m, r))
             c == Len(m)
             d == Len(m) + 1
  <2>1. a = b /\ c # d
    BY <1>3
  <2>2. (q = <<>> => a = c) /\ (q # <<>> => a = d)
    BY <1>4
  <2>3. (r = <<>> => b = c) /\ (r # <<>> => b = d)
    BY <1>5
  <2> HIDE DEF a, b, c, d
  <2> QED
    BY <2>1, <2>2, <2>3
<1>7. q # <<>> /\ r # <<>> => q = r
  BY <1>4, <1>5, ZenonT(20)
<1> QED
  <2>1. CASE q = <<>> /\ r = <<>>
    BY <2>1
  <2>2. CASE q # <<>> /\ r # <<>>
    BY <1>7, <2>2, ZenonT(10)
  <2> QED
    BY <1>6, <2>1, <2>2, ZenonT(10)

LEMMA PrefixKnown ==
    ASSUME NEW X, NEW parts \in Seq(X), NEW known
    PROVE  LongestSymbolPrefix(parts, known) \in known \cup {<<>>}
<1> DEFINE found == {i \in DOMAIN parts : SubSeq(parts, 1, i) \in known}
<1>1. LongestSymbolPrefix(parts, known)
        = IF found = {} THEN <<>> ELSE SubSeq(parts, 1, Max(found))
  BY DEF LongestSymbolPrefix
<1>2. ASSUME found # {} PROVE Max(found) \in found
  <2>1. Len(parts) \in Nat /\ found \in SUBSET (0 .. Len(parts))
    OBVIOUS
  <2> HIDE DEF found
  <2> QED
    BY <1>2, <2>1, GreatestNumber
<1> QED
  BY <1>1, <1>2

\* What the resolver takes for known has a slug among those of the tree.
LEMMA KnownHasSlug ==
    ASSUME NEW files, IsTree(files), NEW module \in KnownModules(files)
    PROVE  /\ \E g \in ParsedFiles(files) :
                 ModuleOf[g] = module /\ SymbolsByModule(files, module) = Qualnames(files[g])
           /\ \A q \in SymbolsByModule(files, module) \cup {<<>>} :
                 ModuleToSlug(module, q) \in Slugs(files)
<1> DEFINE S == {f \in ParsedFiles(files) : ModuleOf[f] = module}
           g == Max(S)
<1>1. g \in S
  <2>1. S # {} /\ S \in SUBSET (0 .. Len(ModuleOf)) /\ Len(ModuleOf) \in Nat
    BY FilesOfWalk DEF KnownModules, ParsedFiles
  <2> HIDE DEF S
  <2> QED
    BY <2>1, GreatestNumber
<1>2. SymbolsByModule(files, module) = Qualnames(files[g])
  BY DEF SymbolsByModule
<1>3. ASSUME NEW q \in SymbolsByModule(files, module) \cup {<<>>}
      PROVE  ModuleToSlug(module, q) \in Slugs(files)
  <2>1. g \in ParsedFiles(files) /\ ModuleOf[g] = module
    BY <1>1
  <2> HIDE DEF g
  <2>2. ModuleToSlug(module, q) \in SlugsOf(g, files[g])
    BY <1>2, <1>3, <2>1 DEF SlugsOf
  <2> QED
    BY <2>1, <2>2 DEF Slugs
<1> HIDE DEF g
<1> QED
  BY <1>1, <1>2, <1>3

LEMMA MaybeLinkKnown ==
    ASSUME NEW files, IsTree(files), NEW match
    PROVE  MaybeLink(files, match) \subseteq Slugs(files)
<1>1. CASE match.module \notin KnownModules(files)
  BY <1>1 DEF MaybeLink
<1>2. CASE match.module \in KnownModules(files)
  <2> DEFINE known == SymbolsByModule(files, match.module)
             name == IF match.name = <<>> \/ match.name \in known THEN match.name
                     ELSE IF <<match.name[1]>> \in known THEN <<match.name[1]>>
                     ELSE <<>>
  <2>1. name \in known \cup {<<>>}
    OBVIOUS
  <2>2. MaybeLink(files, match) = {ModuleToSlug(match.module, name)}
    BY <1>2 DEF MaybeLink
  <2> HIDE DEF name
  <2> QED
    BY <1>2, <2>1, <2>2, KnownHasSlug
<1> QED
  BY <1>1, <1>2

LEMMA QualifiedLinkKnown ==
    ASSUME NEW files, IsTree(files), NEW X, NEW parts \in Seq(X)
    PROVE  QualifiedLink(files, parts) \subseteq Slugs(files)
<1> DEFINE RestOf(i) == SubSeq(parts, i + 1, Len(parts))
           NameIn(i) == LongestSymbolPrefix(RestOf(i),
                            SymbolsByModule(files, SubSeq(parts, 1, i)))
           found == {i \in DOMAIN parts :
                       /\ SubSeq(parts, 1, i) \in KnownModules(files)
                       /\ NameIn(i) # <<>> \/ i = Len(parts)}
           last == Max(found)
<1>1. CASE found = {}
  BY <1>1 DEF QualifiedLink
<1>2. CASE found # {}
  <2>1. last \in found
    <3>1. Len(parts) \in Nat /\ found \in SUBSET (0 .. Len(parts))
      OBVIOUS
    <3> HIDE DEF found
    <3> QED
      BY <1>2, <3>1, GreatestNumber
  <2>2. QualifiedLink(files, parts) = {ModuleToSlug(SubSeq(parts, 1, last), NameIn(last))}
    BY <1>2 DEF QualifiedLink
  <2>3. SubSeq(parts, 1, last) \in KnownModules(files) /\ last \in DOMAIN parts
    BY <2>1
  <2> HIDE DEF last
  <2>4. NameIn(last) \in SymbolsByModule(files, SubSeq(parts, 1, last)) \cup {<<>>}
    <3>1. RestOf(last) \in Seq(X)
      BY <2>3
    <3> HIDE DEF RestOf
    <3> QED
      BY <3>1, PrefixKnown
  <2> HIDE DEF NameIn
  <2> QED
    BY <2>2, <2>3, <2>4, KnownHasSlug
<1> QED
  BY <1>1, <1>2

LEMMA ResolveOneKnown ==
    ASSUME NEW files, IsTree(files), NEW f \in ParsedFiles(files), NEW symbol,
           NEW parts \in Name
    PROVE  ResolveOne(files, f, symbol, parts) \subseteq Slugs(files)
<1> DEFINE module == ModuleOf[f]
           own == SymbolsByModule(files, module)
           sibling == <<symbol.qualname[1]>> \o parts
           match == BestMatch(parts, AliasTable(files[f], KnownModules(files)))
           local == IF <<parts[1]>> \in TopLevel(files, module)
                    THEN LongestSymbolPrefix(parts, own) ELSE <<>>
<1>1. module \in KnownModules(files)
  BY DEF KnownModules
<1>2. parts \in Seq(STRING)
  BY DEF Name
<1>3. \A q \in own \cup {<<>>} : ModuleToSlug(module, q) \in Slugs(files)
  BY <1>1, KnownHasSlug
<1>4. local \in own \cup {<<>>}
  BY <1>2, PrefixKnown
<1>5. UNION {MaybeLink(files, m) : m \in match} \subseteq Slugs(files)
  BY MaybeLinkKnown
<1>6. QualifiedLink(files, parts) \subseteq Slugs(files)
  BY <1>2, QualifiedLinkKnown
<1>7. ResolveOne(files, f, symbol, parts)
        = IF Len(symbol.qualname) > 1 /\ Len(parts) = 1 /\ sibling \in own
          THEN {ModuleToSlug(module, sibling)}
          ELSE IF match # {} THEN UNION {MaybeLink(files, m) : m \in match}
          ELSE IF local # <<>> THEN {ModuleToSlug(module, local)}
          ELSE QualifiedLink(files, parts)
  BY DEF ResolveOne
<1> HIDE DEF module, own, sibling, match, local
<1> QED
  BY <1>3, <1>4, <1>5, <1>6, <1>7

\* A link leads to the slug of a module or symbol of the tree.
LEMMA LinksKnown ==
    ASSUME NEW files, IsTree(files), NEW f \in ParsedFiles(files),
           NEW q \in Qualnames(files[f]) \cup {<<>>}
    PROVE  LinksOf(files, f, q) \subseteq Slugs(files)
<1> DEFINE module == ModuleOf[f]
           symbols == files[f].symbols
           imported == {files[f].imports[i].module : i \in DOMAIN files[f].imports}
<1>1. module \in KnownModules(files)
  BY DEF KnownModules
<1>2. ASSUME q = <<>> PROVE LinksOf(files, f, q) \subseteq Slugs(files)
  <2>1. LinksOf(files, f, q)
          = {ModuleToSlug(m, <<>>) : m \in (imported \cap KnownModules(files)) \ {module}}
    BY <1>2 DEF LinksOf
  <2>2. \A m \in KnownModules(files) : ModuleToSlug(m, <<>>) \in Slugs(files)
    BY KnownHasSlug
  <2> HIDE DEF imported, module
  <2> QED
    BY <2>1, <2>2
<1>3. ASSUME q # <<>> PROVE LinksOf(files, f, q) \subseteq Slugs(files)
  <2>1. LinksOf(files, f, q)
          = ResolveFile(files, f, q)
              \cup (IF Len(q) > 1 THEN {ModuleToSlug(module, <<q[1]>>)} ELSE {})
    BY <1>3 DEF LinksOf
  <2>2. ASSUME Len(q) > 1 PROVE ModuleToSlug(module, <<q[1]>>) \in Slugs(files)
    <3>1. <<q[1]>> \in Qualnames(files[f])
      BY <1>3, <2>2, SymbolsOf
    <3>2. ModuleToSlug(module, <<q[1]>>) \in SlugsOf(f, files[f])
      BY <3>1 DEF SlugsOf
    <3> QED
      BY <3>2 DEF Slugs
  <2>3. ResolveFile(files, f, q) \subseteq Slugs(files)
    <3> DEFINE linked == {i \in DOMAIN symbols : /\ symbols[i].qualname = q
                                                 /\ Referenced(files, f, symbols[i]) # {}}
               last == Max(linked)
    <3>1. CASE linked = {}
      BY <3>1 DEF ResolveFile
    <3>2. CASE linked # {}
      <4>1. symbols \in Seq(Symbol)
        BY SymbolsOf
      <4>2. last \in linked
        <5>1. Len(symbols) \in Nat /\ linked \in SUBSET (0 .. Len(symbols))
          <6> HIDE DEF symbols
          <6> QED
            BY <4>1
        <5> HIDE DEF linked
        <5> QED
          BY <3>2, <5>1, GreatestNumber
      <4>3. last \in DOMAIN symbols
        BY <4>2
      <4>4. ResolveFile(files, f, q) = Referenced(files, f, symbols[last])
        BY <3>2 DEF ResolveFile
      <4> HIDE DEF last, symbols
      <4>5. symbols[last] \in Symbol
        BY <4>1, <4>3
      <4>6. \A r \in symbols[last].references :
                ResolveOne(files, f, symbols[last], r) \subseteq Slugs(files)
        <5>1. symbols[last].references \subseteq Name
          BY <4>5 DEF Symbol
        <5> QED
          BY <5>1, ResolveOneKnown
      <4>7. Referenced(files, f, symbols[last]) \subseteq Slugs(files)
        BY <4>6 DEF Referenced
      <4> QED
        BY <4>4, <4>7
    <3> QED
      BY <3>1, <3>2
  <2> QED
    BY <2>1, <2>2, <2>3
<1> QED
  BY <1>2, <1>3

\* The nodes to emit for a tree.
AllEmissions(files) == UNION {ToSet(Emissions(files, f)) : f \in File}

\* A node to emit belongs to a parsed file; its slug and those it links to are
\* slugs of the tree, and two nodes of one slug are one node or its files compete.
NodeOfTree(files, e) ==
    /\ e[1] \in ParsedFiles(files) /\ files[e[1]] \in UNION {CodeOf[f] : f \in File}
    /\ SlugOf(e) \in Slugs(files) /\ LinksOf(files, e[1], e[2]) \subseteq Slugs(files)
EmitFacts(files) ==
    /\ Slugs(files) \subseteq AllSlugs /\ Contested(files) \subseteq Slugs(files)
    /\ \A e \in AllEmissions(files) : NodeOfTree(files, e)
    /\ \A s \in Slugs(files) : \E e \in AllEmissions(files) : SlugOf(e) = s
    /\ \A d, e \in AllEmissions(files) :
          SlugOf(d) = SlugOf(e) /\ SlugOf(e) \notin Contested(files) => d = e

LEMMA NodesOfTree ==
    ASSUME NEW files, IsTree(files), NEW e
    PROVE  e \in AllEmissions(files)
             <=> \E f \in ParsedFiles(files) : \E q \in Qualnames(files[f]) \cup {<<>>} :
                    e = <<f, q>>
<1>1. \A f \in ParsedFiles(files) :
          /\ f \in File
          /\ ToSet(Emissions(files, f)) = {<<f, q>> : q \in Qualnames(files[f]) \cup {<<>>}}
  BY NodesOfFile DEF ParsedFiles
<1>2. ASSUME NEW f \in File, f \notin ParsedFiles(files) PROVE ToSet(Emissions(files, f)) = {}
  <2>1. Emissions(files, f) = <<>>
    BY <1>2 DEF Emissions, ParsedFiles
  <2>2. DOMAIN <<>> = {}
    OBVIOUS
  <2> QED
    BY <2>1, <2>2 DEF ToSet
<1>3. e \in AllEmissions(files) <=> \E f \in File : e \in ToSet(Emissions(files, f))
  BY DEF AllEmissions
<1>4. ParsedFiles(files) \subseteq File
  BY DEF ParsedFiles
<1> QED
  BY <1>1, <1>2, <1>3, <1>4

LEMMA EmitsNodes == ASSUME NEW files, IsTree(files) PROVE EmitFacts(files)
<1>1. ASSUME NEW f \in ParsedFiles(files)
      PROVE  /\ f \in File /\ files[f] \in CodeOf[f] /\ ModuleOf[f] \in Seq(STRING)
             /\ Qualnames(files[f]) \cup {<<>>} \subseteq Seq(STRING)
  <2>1. <<>> \in Seq(STRING)
    OBVIOUS
  <2> QED
    BY <2>1, SymbolsOf, FilesOfWalk DEF Name
<1>2. Slugs(files) \subseteq AllSlugs
  BY <1>1 DEF Slugs, AllSlugs
<1>3. Contested(files) \subseteq Slugs(files)
  BY DEF Contested
<1>4. ASSUME NEW f \in ParsedFiles(files), NEW q \in Qualnames(files[f]) \cup {<<>>}
      PROVE  /\ SlugOf(<<f, q>>) = ModuleToSlug(ModuleOf[f], q)
             /\ SlugOf(<<f, q>>) \in SlugsOf(f, files[f])
  BY DEF SlugOf, SlugsOf
<1>5. ASSUME NEW e \in AllEmissions(files) PROVE NodeOfTree(files, e)
  <2>1. PICK f, q :
            f \in ParsedFiles(files) /\ q \in Qualnames(files[f]) \cup {<<>>} /\ e = <<f, q>>
    BY NodesOfTree
  <2>2. SlugOf(e) \in Slugs(files)
    BY <1>4, <2>1 DEF Slugs
  <2>3. LinksOf(files, f, q) \subseteq Slugs(files)
    BY <2>1, LinksKnown
  <2>4. e[1] = f /\ e[2] = q
    BY <2>1
  <2> QED
    BY <1>1, <2>1, <2>2, <2>3, <2>4 DEF NodeOfTree
<1>6. ASSUME NEW s \in Slugs(files) PROVE \E e \in AllEmissions(files) : SlugOf(e) = s
  <2>1. PICK f, q :
            f \in ParsedFiles(files) /\ q \in Qualnames(files[f]) \cup {<<>>}
            /\ s = ModuleToSlug(ModuleOf[f], q)
    BY DEF Slugs, SlugsOf
  <2>2. <<f, q>> \in AllEmissions(files) /\ SlugOf(<<f, q>>) = s
    BY <1>4, <2>1, NodesOfTree
  <2> QED
    BY <2>2
<1>7. ASSUME NEW d \in AllEmissions(files), NEW e \in AllEmissions(files),
             SlugOf(d) = SlugOf(e), SlugOf(e) \notin Contested(files)
      PROVE  d = e
  <2>1. PICK f, q :
            f \in ParsedFiles(files) /\ q \in Qualnames(files[f]) \cup {<<>>} /\ d = <<f, q>>
    BY NodesOfTree
  <2>2. PICK g, r :
            g \in ParsedFiles(files) /\ r \in Qualnames(files[g]) \cup {<<>>} /\ e = <<g, r>>
    BY NodesOfTree
  <2>3. f = g
    <3>1. SlugOf(e) \in SlugsOf(f, files[f]) /\ SlugOf(e) \in SlugsOf(g, files[g])
      BY <1>4, <1>7, <2>1, <2>2
    <3>2. SlugOf(e) \in Slugs(files)
      BY <2>2, <3>1 DEF Slugs
    <3> QED
      BY <1>7, <2>1, <2>2, <3>1, <3>2 DEF Contested
  <2>4. q = r
    <3>1. ModuleToSlug(ModuleOf[f], q) = ModuleToSlug(ModuleOf[f], r)
      BY <1>4, <1>7, <2>1, <2>2, <2>3
    <3>2. q \in Seq(STRING) /\ r \in Seq(STRING) /\ ModuleOf[f] \in Seq(STRING)
      BY <1>1, <2>1, <2>2, <2>3
    <3> QED
      BY <3>1, <3>2, SlugTellsName
  <2> QED
    BY <2>1, <2>2, <2>3, <2>4
<1> QED
  BY <1>2, <1>3, <1>5, <1>6, <1>7 DEF EmitFacts

\* The order in which they are emitted.
LEMMA EmitsAll ==
    ASSUME NEW files, IsTree(files),
           NEW order, order = FlattenSeq([f \in File |-> Emissions(files, f)])
    PROVE  order \in Seq(AllEmissions(files)) /\ ToSet(order) = AllEmissions(files)
<1> DEFINE ss == [f \in File |-> Emissions(files, f)]
           X == AllEmissions(files)
<1>1. ASSUME NEW f \in File PROVE ss[f] \in Seq(X) /\ ToSet(ss[f]) \subseteq X
  <2>1. ToSet(Emissions(files, f)) \subseteq X
    BY DEF AllEmissions
  <2>2. CASE f \in ParsedFiles(files)
    <3>1. Emissions(files, f) \in Seq(File \X Seq(STRING))
      BY <2>2, NodesOfFile
    <3>2. Emissions(files, f) \in Seq(X)
      <4> HIDE DEF X
      <4> QED
        BY <2>1, <3>1, SeqOverItsSet
    <3> QED
      BY <2>1, <3>2
  <2>3. CASE f \notin ParsedFiles(files)
    <3>1. Emissions(files, f) = <<>> /\ <<>> \in Seq(X)
      BY <2>3 DEF Emissions, ParsedFiles
    <3> QED
      BY <2>1, <3>1
  <2> QED
    BY <2>2, <2>3
<1>2. ss \in Seq(Seq(X)) /\ DOMAIN ss = File
  <2>1. ss \in [1 .. Len(ModuleOf) -> Seq(X)] /\ Len(ModuleOf) \in Nat
    <3> HIDE DEF X
    <3> QED
      BY <1>1, FilesOfWalk
  <2> HIDE DEF ss, X
  <2> QED
    BY <2>1, FunctionIsSeq, FilesOfWalk
<1>3. order = FlattenSeq(ss)
  OBVIOUS
<1>4. UNION {ToSet(ss[f]) : f \in File} = X
  BY DEF AllEmissions
<1> HIDE DEF ss, X
<1>5. order \in Seq(X) /\ ToSet(order) = X
  <2>1. /\ FlattenSeq(ss) \in Seq(X)
        /\ ToSet(FlattenSeq(ss)) = UNION {ToSet(ss[i]) : i \in DOMAIN ss}
    BY <1>2, SetOfFlatten
  <2> QED
    BY <1>2, <1>3, <1>4, <2>1
<1> QED
  BY <1>5 DEF X

-----------------------------------------------------------------------------
(* The code ingest: the invariant                                           *)

CodeTypes ==
    /\ IsTree(tree) /\ IsTree(parsed)
    /\ wiki \in [AllSlugs -> CodeNode \cup {NoNode}]
    /\ stage \in {"idle", "reading", "emitting", "linking"}
    /\ outdated \subseteq AllSlugs
    /\ settled \in BOOLEAN /\ quiet \in BOOLEAN /\ broken \in BOOLEAN

\* What a run has still to do; between its transactions the node is there.
PendingOf ==
    /\ stage = "reading" => pending \in Seq(File)
    /\ stage \in {"emitting", "linking"} => pending \in Seq(AllEmissions(parsed))
    /\ stage = "linking" =>
          /\ pending # <<>> /\ wiki[SlugOf(Head(pending))] # NoNode
          /\ wiki[SlugOf(Head(pending))].hash = parsed[Head(pending)[1]]

\* A node made from the file it has to be made from, or one of several.
MadeFrom(files, e) ==
    /\ wiki[SlugOf(e)] # NoNode
    /\ SlugOf(e) \in Contested(files) \/ wiki[SlugOf(e)].hash = files[e[1]]

\* What a run has done.
EmittedSoFar ==
    stage \in {"emitting", "linking"} =>
        \A e \in AllEmissions(parsed) : e \in ToSet(pending) \/ MadeFrom(parsed, e)

\* A run that began settled reads the tree that the last one left behind.
QuietReads ==
    /\ stage # "idle" => settled = quiet
    /\ quiet /\ stage = "reading" => \A f \in File : f \in ToSet(pending) \/ parsed[f] = tree[f]
    /\ quiet /\ stage \in {"emitting", "linking"} => parsed = tree

FreshNodes == settled => \A e \in AllEmissions(tree) : MadeFrom(tree, e)

\* A link leads to a node or to one still to come.
LinksLead ==
    ~broken => \A s \in AllSlugs : wiki[s] # NoNode => \A d \in wiki[s].links :
        \/ wiki[d] # NoNode
        \/ stage \in {"emitting", "linking"} /\ \E e \in ToSet(pending) : d = SlugOf(e)

\* A node not outdated has the links of the tree, but between its transactions.
TreeLinks(s) ==
    \E e \in AllEmissions(tree) :
        SlugOf(e) = s /\ wiki[s].links = LinksOf(tree, e[1], e[2])
LinksOfTree ==
    \A s \in AllSlugs \ outdated : wiki[s] # NoNode =>
        \/ /\ stage = "linking" /\ s = SlugOf(Head(pending))
           /\ ~settled \/ s \in Contested(parsed)
        \/ TreeLinks(s)

CodebaseInv ==
    /\ CodeTypes /\ PendingOf /\ EmittedSoFar /\ QuietReads /\ FreshNodes
    /\ LinksLead /\ LinksOfTree /\ Idempotent

LEMMA NothingRead == IsTree([f \in File |-> Unparsed])
<1> DEFINE none == [f \in File |-> Unparsed]
<1>1. none \in [File -> (UNION {CodeOf[f] : f \in File}) \cup {Unparsed}]
  OBVIOUS
<1>2. \A f \in File : none[f] \in CodeOf[f] \cup {Unparsed}
  OBVIOUS
<1> QED
  BY <1>1, <1>2 DEF IsTree

LEMMA FileChanged ==
    ASSUME NEW files, IsTree(files), NEW f \in File, NEW c \in CodeOf[f] \cup {Unparsed}
    PROVE  IsTree([files EXCEPT ![f] = c])
<1> DEFINE All == (UNION {CodeOf[g] : g \in File}) \cup {Unparsed}
           new == [files EXCEPT ![f] = c]
<1>1. files \in [File -> All] /\ \A g \in File : files[g] \in CodeOf[g] \cup {Unparsed}
  BY DEF IsTree
<1>2. c \in All
  OBVIOUS
<1>3. new \in [File -> All]
  <2> HIDE DEF All
  <2> QED
    BY <1>1, <1>2
<1>4. \A g \in File : new[g] = IF g = f THEN c ELSE files[g]
  <2> HIDE DEF All
  <2> QED
    BY <1>1
<1>5. \A g \in File : new[g] \in CodeOf[g] \cup {Unparsed}
  <2> HIDE DEF new
  <2> QED
    BY <1>1, <1>4
<1> QED
  BY <1>3, <1>5 DEF IsTree

LEMMA TreesKnown == CodebaseInv => EmitFacts(tree) /\ EmitFacts(parsed)
BY EmitsNodes DEF CodebaseInv, CodeTypes

\* A node that is written is there.
LEMMA NoNodeIsNone == ASSUME NEW x \in CodeNode PROVE x # NoNode
BY SourceCode

LEMMA CodebaseInitInv == CodebaseInit => CodebaseInv
<1> SUFFICES ASSUME CodebaseInit PROVE CodebaseInv
  OBVIOUS
<1>1. IsTree(tree) /\ IsTree(parsed)
  <2>1. IsTree(tree)
    BY DEF CodebaseInit, IsTree
  <2>2. parsed = [f \in File |-> Unparsed]
    BY DEF CodebaseInit
  <2> QED
    BY <2>1, <2>2, NothingRead
<1>2. /\ wiki = [s \in AllSlugs |-> NoNode] /\ stage = "idle" /\ settled = FALSE
      /\ quiet = FALSE /\ outdated = {} /\ broken = FALSE
  BY DEF CodebaseInit
<1>3. CodeTypes
  BY <1>1, <1>2 DEF CodeTypes
<1>4. PendingOf /\ EmittedSoFar /\ QuietReads /\ FreshNodes /\ Idempotent
  BY <1>2 DEF PendingOf, EmittedSoFar, QuietReads, FreshNodes, Idempotent
<1>5. LinksLead /\ LinksOfTree
  BY <1>2 DEF LinksLead, LinksOfTree
<1> QED
  BY <1>3, <1>4, <1>5 DEF CodebaseInv

LEMMA EditSourceKeepsCode ==
    ASSUME CodebaseInv, NEW f \in File, NEW c \in CodeOf[f] \cup {Unparsed}, EditSource(f, c)
    PROVE  CodebaseInv'
<1> USE DEF CodebaseInv
<1>1. /\ tree' = [tree EXCEPT ![f] = c] /\ settled' = FALSE /\ quiet' = FALSE
      /\ outdated' = {s \in DOMAIN wiki : wiki[s] # NoNode}
      /\ UNCHANGED <<wiki, stage, parsed, pending, broken>>
  BY DEF EditSource
<1>2. IsTree(tree')
  <2>1. IsTree([tree EXCEPT ![f] = c])
    BY FileChanged DEF CodeTypes
  <2> QED
    BY <1>1, <2>1
<1>3. CodeTypes'
  BY <1>1, <1>2 DEF CodeTypes, IsTree
<1>4. PendingOf'
  BY <1>1 DEF PendingOf
<1>5. EmittedSoFar' /\ LinksLead'
  BY <1>1 DEF EmittedSoFar, LinksLead, MadeFrom
<1>6. QuietReads' /\ FreshNodes' /\ Idempotent'
  BY <1>1 DEF QuietReads, FreshNodes, Idempotent
<1>7. LinksOfTree'
  BY <1>1 DEF LinksOfTree, CodeTypes
<1> QED
  BY <1>3, <1>4, <1>5, <1>6, <1>7

LEMMA IngestCodebaseKeepsCode ==
    ASSUME CodebaseInv, NEW force \in BOOLEAN, IngestCodebase(force)
    PROVE  CodebaseInv'
<1> USE DEF CodebaseInv
<1>1. /\ stage = "idle" /\ stage' = "reading" /\ parsed' = [f \in File |-> Unparsed]
      /\ pending' = [f \in File |-> f] /\ quiet' = settled
      /\ UNCHANGED <<tree, wiki, settled, outdated, broken>>
  BY DEF IngestCodebase
<1>2. IsTree(parsed')
  BY <1>1, NothingRead
<1>3. CodeTypes'
  BY <1>1, <1>2 DEF CodeTypes, IsTree
<1>4. pending' \in Seq(File) /\ ToSet(pending') = File
  <2>1. pending' \in [1 .. Len(ModuleOf) -> File]
    BY <1>1, FilesOfWalk
  <2> QED
    BY <1>1, <2>1, FilesOfWalk, FunctionIsSeq DEF ToSet
<1>5. PendingOf' /\ EmittedSoFar' /\ Idempotent'
  BY <1>1, <1>4 DEF PendingOf, EmittedSoFar, Idempotent
<1>6. QuietReads'
  BY <1>1, <1>4 DEF QuietReads
<1>7. FreshNodes'
  BY <1>1 DEF FreshNodes, MadeFrom
<1>8. LinksLead' /\ LinksOfTree'
  BY <1>1 DEF LinksLead, LinksOfTree, TreeLinks
<1> QED
  BY <1>3, <1>5, <1>6, <1>7, <1>8

LEMMA ParseNextKeepsCode == ASSUME CodebaseInv, ParseNext PROVE CodebaseInv'
<1> USE DEF CodebaseInv
<1> DEFINE f == Head(pending)
<1>1. /\ stage = "reading" /\ pending # <<>> /\ parsed' = [parsed EXCEPT ![f] = tree[f]]
      /\ pending' = Tail(pending)
      /\ UNCHANGED <<tree, wiki, stage, settled, quiet, outdated, broken>>
  BY DEF ParseNext
<1>2. /\ f \in File /\ Tail(pending) \in Seq(File)
      /\ ToSet(pending) = {f} \cup ToSet(Tail(pending))
  <2>1. pending \in Seq(File) /\ pending # <<>>
    BY <1>1 DEF PendingOf
  <2> QED
    BY <2>1, SetOfTail
<1> HIDE DEF f
<1>3. IsTree(parsed)'
  BY <1>1, <1>2 DEF CodeTypes, IsTree
<1>4. CodeTypes'
  BY <1>1, <1>3 DEF CodeTypes, IsTree
<1>5. PendingOf' /\ EmittedSoFar' /\ Idempotent'
  BY <1>1, <1>2 DEF PendingOf, EmittedSoFar, Idempotent
<1>6. QuietReads'
  <2>1. ASSUME quiet, NEW g \in File PROVE g \in ToSet(pending') \/ parsed'[g] = tree[g]
    BY <1>1, <1>2, <2>1 DEF QuietReads, CodeTypes, IsTree
  <2> QED
    BY <1>1, <2>1 DEF QuietReads
<1>7. FreshNodes'
  BY <1>1 DEF FreshNodes, MadeFrom
<1>8. LinksLead' /\ LinksOfTree'
  BY <1>1 DEF LinksLead, LinksOfTree, TreeLinks
<1> QED
  BY <1>4, <1>5, <1>6, <1>7, <1>8

LEMMA ParseDoneKeepsCode == ASSUME CodebaseInv, ParseDone PROVE CodebaseInv'
<1> USE DEF CodebaseInv
<1>1. /\ stage = "reading" /\ pending = <<>>
      /\ pending' = FlattenSeq([f \in File |-> Emissions(parsed, f)])
      /\ UNCHANGED <<tree, wiki, parsed, quiet, outdated, broken>>
  BY DEF ParseDone
<1>2. \/ /\ ParsedFiles(parsed) = {} /\ stage' = "idle" /\ settled' = (parsed = tree)
      \/ stage' = "emitting" /\ settled' = settled
  BY DEF ParseDone, Completes
<1>3. pending' \in Seq(AllEmissions(parsed)) /\ ToSet(pending') = AllEmissions(parsed)
  BY <1>1, EmitsAll DEF CodeTypes
<1>4. CodeTypes'
  BY <1>1, <1>2 DEF CodeTypes, IsTree
<1>5. PendingOf' /\ EmittedSoFar' /\ Idempotent'
  BY <1>1, <1>2, <1>3 DEF PendingOf, EmittedSoFar, Idempotent
<1>6. QuietReads'
  <2>1. ASSUME quiet PROVE parsed = tree
    <3>1. ToSet(pending) = {}
      BY <1>1 DEF ToSet
    <3>2. \A f \in File : parsed[f] = tree[f]
      BY <1>1, <2>1, <3>1 DEF QuietReads
    <3> QED
      BY <3>2 DEF CodeTypes, IsTree
  <2> QED
    BY <1>1, <1>2, <2>1 DEF QuietReads
<1>7. FreshNodes'
  <2>1. CASE ParsedFiles(parsed) = {} /\ stage' = "idle" /\ settled' = (parsed = tree)
    <3>1. ASSUME parsed = tree PROVE AllEmissions(tree) = {}
      BY <2>1, <3>1, NodesOfTree DEF CodeTypes
    <3> QED
      BY <1>1, <2>1, <3>1 DEF FreshNodes
  <2>2. CASE settled' = settled
    BY <1>1, <2>2 DEF FreshNodes, MadeFrom
  <2> QED
    BY <1>2, <2>1, <2>2
<1>8. LinksLead' /\ LinksOfTree'
  BY <1>1, <1>2 DEF LinksLead, LinksOfTree, TreeLinks
<1> QED
  BY <1>4, <1>5, <1>6, <1>7, <1>8

\* The node at the head of the pending ones, while a run emits.
LEMMA HeadNode ==
    ASSUME CodebaseInv, stage \in {"emitting", "linking"}, pending # <<>>
    PROVE  /\ Head(pending) \in AllEmissions(parsed)
           /\ Tail(pending) \in Seq(AllEmissions(parsed))
           /\ ToSet(pending) = {Head(pending)} \cup ToSet(Tail(pending))
           /\ ToSet(pending) \subseteq AllEmissions(parsed)
           /\ SlugOf(Head(pending)) \in AllSlugs
           /\ parsed[Head(pending)[1]] \in UNION {CodeOf[f] : f \in File}
<1>1. pending \in Seq(AllEmissions(parsed))
  BY DEF CodebaseInv, PendingOf
<1>2. /\ Head(pending) \in AllEmissions(parsed)
      /\ Tail(pending) \in Seq(AllEmissions(parsed))
      /\ ToSet(pending) = {Head(pending)} \cup ToSet(Tail(pending))
      /\ ToSet(pending) \subseteq AllEmissions(parsed)
  BY <1>1, SetOfTail
<1>3. /\ SlugOf(Head(pending)) \in AllSlugs
      /\ parsed[Head(pending)[1]] \in UNION {CodeOf[f] : f \in File}
  BY <1>2, TreesKnown DEF EmitFacts, NodeOfTree
<1> QED
  BY <1>2, <1>3

LEMMA EmitSkipKeepsCode == ASSUME CodebaseInv, EmitSkip PROVE CodebaseInv'
<1> USE DEF CodebaseInv
<1> DEFINE e == Head(pending)
<1>1. /\ stage = "emitting" /\ pending # <<>> /\ pending' = Tail(pending)
      /\ wiki[SlugOf(e)] # NoNode /\ wiki[SlugOf(e)].hash = parsed[e[1]]
      /\ UNCHANGED <<tree, wiki, stage, parsed, settled, quiet, outdated, broken>>
  BY DEF EmitSkip, IsUnchanged
<1>2. /\ e \in AllEmissions(parsed) /\ Tail(pending) \in Seq(AllEmissions(parsed))
      /\ ToSet(pending) = {e} \cup ToSet(Tail(pending))
  BY <1>1, HeadNode
<1> HIDE DEF e
<1>3. CodeTypes'
  BY <1>1 DEF CodeTypes, IsTree
<1>4. PendingOf' /\ Idempotent'
  BY <1>1, <1>2 DEF PendingOf, Idempotent
<1>5. EmittedSoFar'
  BY <1>1, <1>2 DEF EmittedSoFar, MadeFrom
<1>6. QuietReads' /\ FreshNodes'
  BY <1>1 DEF QuietReads, FreshNodes, MadeFrom
<1>7. LinksLead'
  BY <1>1, <1>2 DEF LinksLead
<1>8. LinksOfTree'
  BY <1>1 DEF LinksOfTree, TreeLinks
<1> QED
  BY <1>3, <1>4, <1>5, <1>6, <1>7, <1>8

LEMMA EmitPutKeepsCode == ASSUME CodebaseInv, EmitPut PROVE CodebaseInv'
<1> USE DEF CodebaseInv
<1> DEFINE e == Head(pending)
           slug == SlugOf(e)
           links == IF wiki[slug] = NoNode THEN {} ELSE wiki[slug].links
           node == [hash |-> parsed[e[1]], links |-> links]
<1>1. /\ stage = "emitting" /\ pending # <<>> /\ stage' = "linking"
      /\ ~IsUnchanged(slug, parsed[e[1]]) /\ wiki' = [wiki EXCEPT ![slug] = node]
      /\ UNCHANGED <<tree, parsed, pending, forced, settled, quiet, outdated, broken>>
  BY DEF EmitPut
<1>2. /\ e \in AllEmissions(parsed) /\ slug \in AllSlugs
      /\ parsed[e[1]] \in UNION {CodeOf[f] : f \in File}
      /\ ToSet(pending) \subseteq AllEmissions(parsed)
  BY <1>1, HeadNode
<1>3. \A d \in AllEmissions(parsed) : SlugOf(d) = slug /\ slug \notin Contested(parsed) => d = e
  BY <1>2, TreesKnown DEF EmitFacts
<1>4. \A d \in AllEmissions(parsed) \cup AllEmissions(tree) : SlugOf(d) \in AllSlugs
  BY TreesKnown DEF EmitFacts, NodeOfTree
<1> HIDE DEF e, slug
<1>5. links \subseteq AllSlugs /\ (wiki[slug] # NoNode => links = wiki[slug].links)
  <2>1. CASE wiki[slug] # NoNode
    BY <1>2, <2>1 DEF CodeTypes, CodeNode
  <2> QED
    BY <2>1
<1> HIDE DEF links
<1>6. node \in CodeNode /\ node.hash = parsed[e[1]] /\ node.links = links
  BY <1>2, <1>5 DEF CodeNode
<1>7. node # NoNode
  BY <1>6, NoNodeIsNone
<1> HIDE DEF node
<1>8. /\ wiki' \in [AllSlugs -> CodeNode \cup {NoNode}]
      /\ \A s \in AllSlugs : wiki'[s] = IF s = slug THEN node ELSE wiki[s]
  BY <1>1, <1>2, <1>6 DEF CodeTypes
<1>9. settled = quiet /\ (quiet => parsed = tree)
  BY <1>1 DEF QuietReads
<1>10. settled /\ slug \notin Contested(tree)
         => wiki[slug] # NoNode /\ wiki[slug].hash = parsed[e[1]]
  BY <1>2, <1>9 DEF FreshNodes, MadeFrom, slug
<1>11. CodeTypes'
  BY <1>1, <1>8 DEF CodeTypes, IsTree
<1>12. PendingOf'
  BY <1>1, <1>2, <1>6, <1>7, <1>8 DEF PendingOf, e, slug
<1>13. ASSUME NEW d \in AllEmissions(parsed), MadeFrom(parsed, d) PROVE MadeFrom(parsed, d)'
  <2>1. CASE SlugOf(d) = slug
    BY <1>1, <1>2, <1>3, <1>6, <1>7, <1>8, <1>13, <2>1 DEF MadeFrom
  <2>2. CASE SlugOf(d) # slug
    BY <1>1, <1>4, <1>8, <1>13, <2>2 DEF MadeFrom
  <2> QED
    BY <2>1, <2>2
<1>14. EmittedSoFar'
  BY <1>1, <1>13 DEF EmittedSoFar
<1>15. FreshNodes'
  <2>1. ASSUME settled, NEW d \in AllEmissions(tree) PROVE MadeFrom(tree, d)'
    <3>1. parsed = tree /\ MadeFrom(tree, d)
      BY <1>9, <2>1 DEF FreshNodes
    <3>2. MadeFrom(parsed, d)'
      BY <1>13, <3>1
    <3> QED
      BY <1>1, <3>1, <3>2 DEF MadeFrom
  <2> QED
    BY <1>1, <2>1 DEF FreshNodes
<1>16. QuietReads'
  BY <1>1, <1>9 DEF QuietReads
<1>17. Idempotent'
  BY <1>1, <1>9, <1>10 DEF Idempotent, IsUnchanged, slug, e
<1>18. LinksLead'
  <2>1. ASSUME ~broken, NEW s \in AllSlugs, wiki'[s] # NoNode, NEW d \in wiki'[s].links
        PROVE  wiki'[d] # NoNode \/ \E x \in ToSet(pending) : d = SlugOf(x)
    <3>1. d \in AllSlugs
      BY <1>8, <2>1 DEF CodeNode
    <3>2. wiki[s] # NoNode /\ d \in wiki[s].links
      BY <1>5, <1>6, <1>8, <2>1 DEF links
    <3>3. wiki[d] # NoNode \/ \E x \in ToSet(pending) : d = SlugOf(x)
      BY <2>1, <3>2 DEF LinksLead
    <3> QED
      BY <1>7, <1>8, <3>1, <3>3
  <2> QED
    BY <1>1, <2>1 DEF LinksLead
<1>19. LinksOfTree'
  <2>1. ASSUME NEW s \in AllSlugs \ outdated, wiki'[s] # NoNode
        PROVE  \/ s = slug /\ (~settled \/ s \in Contested(parsed))
               \/ TreeLinks(s)'
    <3>1. ASSUME wiki[s] # NoNode PROVE TreeLinks(s)
      BY <1>1, <3>1 DEF LinksOfTree
    <3>2. CASE s # slug
      <4>1. wiki'[s] = wiki[s]
        BY <1>8, <3>2
      <4> QED
        BY <1>1, <2>1, <3>1, <4>1 DEF TreeLinks
    <3>3. CASE s = slug /\ settled /\ s \notin Contested(parsed)
      <4>1. wiki[s] # NoNode
        BY <1>9, <1>10, <3>3
      <4>2. wiki'[s].links = wiki[s].links
        BY <1>5, <1>6, <1>8, <3>3, <4>1
      <4> QED
        BY <1>1, <3>1, <4>1, <4>2 DEF TreeLinks
    <3> QED
      BY <3>2, <3>3
  <2> QED
    BY <1>1, <2>1 DEF LinksOfTree, slug, e
<1> QED
  BY <1>11, <1>12, <1>14, <1>15, <1>16, <1>17, <1>18, <1>19

LEMMA EmitLinksKeepsCode == ASSUME CodebaseInv, EmitLinks PROVE CodebaseInv'
<1> USE DEF CodebaseInv
<1> DEFINE e == Head(pending)
           slug == SlugOf(e)
           links == LinksOf(parsed, e[1], e[2])
           node == [wiki[slug] EXCEPT !.links = links]
<1>1. /\ stage = "linking" /\ stage' = "emitting" /\ pending' = Tail(pending)
      /\ wiki' = [wiki EXCEPT ![slug] = node]
      /\ outdated' = IF parsed = tree THEN outdated \ {slug} ELSE outdated \cup {slug}
      /\ UNCHANGED <<tree, parsed, settled, quiet, broken>>
  BY DEF EmitLinks, LinksWritten
<1>2. /\ pending # <<>> /\ wiki[slug] # NoNode /\ wiki[slug].hash = parsed[e[1]]
  BY <1>1 DEF PendingOf
<1>3. /\ e \in AllEmissions(parsed) /\ Tail(pending) \in Seq(AllEmissions(parsed))
      /\ ToSet(pending) = {e} \cup ToSet(Tail(pending)) /\ slug \in AllSlugs
  BY <1>1, <1>2, HeadNode
<1>4. links \subseteq Slugs(parsed) /\ Slugs(parsed) \subseteq AllSlugs
  BY <1>3, TreesKnown DEF EmitFacts, NodeOfTree
<1>5. \A d \in AllEmissions(parsed) \cup AllEmissions(tree) : SlugOf(d) \in AllSlugs
  BY TreesKnown DEF EmitFacts, NodeOfTree
<1> HIDE DEF e, slug, links
<1>6. node \in CodeNode /\ node.hash = parsed[e[1]] /\ node.links = links
  <2>1. wiki[slug] \in CodeNode
    BY <1>2, <1>3 DEF CodeTypes
  <2> QED
    BY <1>2, <1>4, <2>1 DEF CodeNode
<1>7. node # NoNode
  BY <1>6, NoNodeIsNone
<1> HIDE DEF node
<1>8. /\ wiki' \in [AllSlugs -> CodeNode \cup {NoNode}]
      /\ \A s \in AllSlugs : wiki'[s] = IF s = slug THEN node ELSE wiki[s]
  BY <1>1, <1>3, <1>6 DEF CodeTypes
<1>9. ASSUME NEW s \in AllSlugs, wiki[s] # NoNode
      PROVE  wiki'[s] # NoNode /\ wiki'[s].hash = wiki[s].hash
  BY <1>2, <1>6, <1>7, <1>8, <1>9
<1>10. CodeTypes'
  <2>1. outdated' \subseteq AllSlugs
    BY <1>1, <1>3 DEF CodeTypes
  <2> QED
    BY <1>1, <1>8, <2>1 DEF CodeTypes, IsTree
<1>11. PendingOf' /\ Idempotent'
  BY <1>1, <1>3 DEF PendingOf, Idempotent
<1>12. ASSUME NEW d \in AllEmissions(parsed) \cup AllEmissions(tree), NEW files, MadeFrom(files, d)
       PROVE  wiki'[SlugOf(d)] # NoNode
              /\ (SlugOf(d) \in Contested(files) \/ wiki'[SlugOf(d)].hash = files[d[1]])
  BY <1>5, <1>9, <1>12 DEF MadeFrom
<1>13. EmittedSoFar'
  <2>1. ASSUME NEW d \in AllEmissions(parsed)
        PROVE  d \in ToSet(pending') \/ MadeFrom(parsed, d)'
    <3>1. CASE d = e
      BY <1>1, <1>6, <1>7, <1>8, <1>3, <3>1 DEF MadeFrom, slug
    <3>2. CASE d # e
      <4>1. d \in ToSet(Tail(pending)) \/ MadeFrom(parsed, d)
        BY <1>1, <1>3, <3>2 DEF EmittedSoFar
      <4> QED
        BY <1>1, <1>12, <4>1 DEF MadeFrom
    <3> QED
      BY <3>1, <3>2
  <2> QED
    BY <1>1, <2>1 DEF EmittedSoFar
<1>14. FreshNodes'
  <2>1. ASSUME settled, NEW d \in AllEmissions(tree) PROVE MadeFrom(tree, d)'
    <3>1. MadeFrom(tree, d)
      BY <2>1 DEF FreshNodes
    <3> QED
      BY <1>1, <1>12, <3>1 DEF MadeFrom
  <2> QED
    BY <1>1, <2>1 DEF FreshNodes
<1>15. QuietReads'
  BY <1>1 DEF QuietReads
<1>16. LinksLead'
  <2>1. ASSUME ~broken, NEW s \in AllSlugs, wiki'[s] # NoNode, NEW d \in wiki'[s].links
        PROVE  wiki'[d] # NoNode \/ \E x \in ToSet(Tail(pending)) : d = SlugOf(x)
    <3>1. d \in AllSlugs
      BY <1>8, <2>1 DEF CodeNode
    <3>2. wiki[d] # NoNode \/ \E x \in ToSet(pending) : d = SlugOf(x)
      <4>1. CASE s = slug
        <5>1. d \in Slugs(parsed)
          BY <1>4, <1>6, <1>8, <2>1, <4>1
        <5>2. PICK x \in AllEmissions(parsed) : SlugOf(x) = d
          BY <5>1, TreesKnown DEF EmitFacts
        <5>3. x \in ToSet(pending) \/ MadeFrom(parsed, x)
          BY <1>1 DEF EmittedSoFar
        <5> QED
          BY <5>2, <5>3 DEF MadeFrom
      <4>2. CASE s # slug
        <5>1. wiki[s] # NoNode /\ d \in wiki[s].links
          BY <1>8, <2>1, <4>2
        <5> QED
          BY <2>1, <5>1 DEF LinksLead
      <4> QED
        BY <4>1, <4>2
    <3>3. CASE wiki[d] # NoNode
      BY <1>9, <3>1, <3>3
    <3>4. CASE \E x \in ToSet(pending) : d = SlugOf(x)
      BY <1>3, <1>7, <1>8, <3>1, <3>4 DEF slug
    <3> QED
      BY <3>2, <3>3, <3>4
  <2> QED
    BY <1>1, <2>1 DEF LinksLead
<1>17. LinksOfTree'
  <2>1. ASSUME NEW s \in AllSlugs \ outdated', wiki'[s] # NoNode PROVE TreeLinks(s)'
    <3>1. CASE s = slug
      <4>1. parsed = tree
        BY <1>1, <2>1, <3>1
      <4>2. wiki'[s].links = LinksOf(tree, e[1], e[2]) /\ SlugOf(e) = s
        BY <1>6, <1>8, <3>1, <4>1 DEF links, slug
      <4> QED
        BY <1>1, <1>3, <4>1, <4>2 DEF TreeLinks
    <3>2. CASE s # slug
      <4>1. wiki'[s] = wiki[s] /\ s \notin outdated
        BY <1>1, <1>8, <2>1, <3>2
      <4>2. TreeLinks(s)
        BY <2>1, <3>2, <4>1 DEF LinksOfTree, slug, e
      <4> QED
        BY <1>1, <4>1, <4>2 DEF TreeLinks
    <3> QED
      BY <3>1, <3>2
  <2> QED
    BY <2>1 DEF LinksOfTree
<1> QED
  BY <1>10, <1>11, <1>13, <1>14, <1>15, <1>16, <1>17

LEMMA FinishKeepsCode == ASSUME CodebaseInv, Finish PROVE CodebaseInv'
<1> USE DEF CodebaseInv
<1>1. /\ stage = "emitting" /\ pending = <<>> /\ stage' = "idle" /\ settled' = (parsed = tree)
      /\ UNCHANGED <<tree, wiki, parsed, pending, quiet, outdated, broken>>
  BY DEF Finish, Completes
<1>2. ToSet(pending) = {}
  BY <1>1 DEF ToSet
<1>3. CodeTypes'
  BY <1>1 DEF CodeTypes, IsTree
<1>4. PendingOf' /\ EmittedSoFar' /\ QuietReads' /\ Idempotent'
  BY <1>1 DEF PendingOf, EmittedSoFar, QuietReads, Idempotent
<1>5. FreshNodes'
  <2>1. ASSUME parsed = tree, NEW d \in AllEmissions(tree) PROVE MadeFrom(tree, d)
    BY <1>1, <1>2, <2>1 DEF EmittedSoFar
  <2> QED
    BY <1>1, <2>1 DEF FreshNodes, MadeFrom
<1>6. LinksLead' /\ LinksOfTree'
  BY <1>1, <1>2 DEF LinksLead, LinksOfTree, TreeLinks
<1> QED
  BY <1>3, <1>4, <1>5, <1>6

LEMMA IngestDiesKeepsCode == ASSUME CodebaseInv, IngestDies PROVE CodebaseInv'
<1> USE DEF CodebaseInv
<1>1. /\ stage # "idle" /\ stage' = "idle" /\ settled' = FALSE /\ quiet' = FALSE
      /\ outdated' = IF stage = "linking" THEN outdated \cup {SlugOf(Head(pending))} ELSE outdated
      /\ broken' = (broken \/ stage \in {"emitting", "linking"})
      /\ UNCHANGED <<tree, wiki, parsed>>
  BY DEF IngestDies
<1>2. outdated' \subseteq AllSlugs
  <2>1. stage = "linking" => SlugOf(Head(pending)) \in AllSlugs
    BY HeadNode DEF PendingOf
  <2> QED
    BY <1>1, <2>1 DEF CodeTypes
<1>3. CodeTypes'
  BY <1>1, <1>2 DEF CodeTypes, IsTree
<1>4. PendingOf' /\ EmittedSoFar' /\ QuietReads' /\ FreshNodes' /\ Idempotent'
  BY <1>1 DEF PendingOf, EmittedSoFar, QuietReads, FreshNodes, Idempotent
<1>5. LinksLead'
  BY <1>1 DEF LinksLead
<1>6. LinksOfTree'
  BY <1>1 DEF LinksOfTree, TreeLinks
<1> QED
  BY <1>3, <1>4, <1>5, <1>6

\* What the run checks follows from the invariant.
LEMMA CodebaseInvSafe == ASSUME CodebaseInv PROVE CodebaseSafe
<1> USE DEF CodebaseInv
<1>1. ASSUME NEW f \in File, NEW e \in ToSet(Emissions(tree, f))
      PROVE  e \in AllEmissions(tree) /\ e[1] = f
  <2>1. e \in AllEmissions(tree)
    BY DEF AllEmissions
  <2>2. f \in ParsedFiles(tree)
    <3>1. CASE f \notin ParsedFiles(tree)
      <4>1. Emissions(tree, f) = <<>> /\ DOMAIN <<>> = {}
        BY <3>1 DEF Emissions, ParsedFiles
      <4> QED
        BY <1>1, <4>1 DEF ToSet
    <3> QED
      BY <3>1
  <2>3. e[1] = f
    BY <2>2, NodesOfFile DEF CodeTypes
  <2> QED
    BY <2>1, <2>3
<1>2. CodebaseTypeOK
  <2>1. \A f \in File : tree[f] \in CodeOf[f] \cup {Unparsed}
    BY DEF CodeTypes, IsTree
  <2>2. DOMAIN wiki = AllSlugs
    BY DEF CodeTypes
  <2>3. ASSUME NEW s \in AllSlugs, wiki[s] # NoNode PROVE wiki[s].links \subseteq AllSlugs
    BY <2>3 DEF CodeTypes, CodeNode
  <2> QED
    BY <2>1, <2>2, <2>3 DEF CodebaseTypeOK, CodeTypes
<1>3. FreshAfterIngest
  BY <1>1 DEF FreshAfterIngest, FreshNodes, MadeFrom
<1>4. LinksProven
  BY DEF LinksProven, LinksLead, CodeTypes
<1>5. LinksCurrent
  <2>1. ASSUME settled, NEW f \in File, NEW e \in ToSet(Emissions(tree, f)),
               SlugOf(e) \notin Contested(tree), SlugOf(e) \notin outdated
        PROVE  wiki[SlugOf(e)].links = LinksOf(tree, f, e[2])
    <3>1. e \in AllEmissions(tree) /\ e[1] = f /\ SlugOf(e) \in AllSlugs
      BY <1>1, <2>1, TreesKnown DEF EmitFacts, NodeOfTree
    <3>2. wiki[SlugOf(e)] # NoNode
      BY <2>1, <3>1 DEF FreshNodes, MadeFrom
    <3>3. stage = "linking" => parsed = tree
      BY <2>1 DEF QuietReads
    <3>4. TreeLinks(SlugOf(e))
      BY <2>1, <3>1, <3>2, <3>3 DEF LinksOfTree
    <3>5. PICK d \in AllEmissions(tree) :
              SlugOf(d) = SlugOf(e) /\ wiki[SlugOf(e)].links = LinksOf(tree, d[1], d[2])
      BY <3>4 DEF TreeLinks
    <3>6. d = e
      BY <2>1, <3>1, <3>5, TreesKnown DEF EmitFacts
    <3> QED
      BY <3>1, <3>5, <3>6
  <2> QED
    BY <2>1 DEF LinksCurrent
<1> QED
  BY <1>2, <1>3, <1>4, <1>5 DEF CodebaseSafe

\* An ingest nothing disturbed leaves every module and symbol a node of its
\* present file, a second one writes nothing, links lead to nodes, and are those
\* of the tree but where an edit elsewhere or a crash left old ones behind
\* (codebase.py, resolve.py, put_node): for every tree and every number of runs.
THEOREM CodebaseKept == CodebaseSpec => []CodebaseSafe
<1>1. CodebaseInit => CodebaseInv
  BY CodebaseInitInv
<1>2. CodebaseInv /\ [CodebaseNext]_codeVars => CodebaseInv'
  <2> SUFFICES ASSUME CodebaseInv, [CodebaseNext]_codeVars PROVE CodebaseInv'
    OBVIOUS
  <2>1. CASE \E f \in File : \E c \in CodeOf[f] \cup {Unparsed} : EditSource(f, c)
    BY <2>1, EditSourceKeepsCode
  <2>2. CASE \E force \in BOOLEAN : IngestCodebase(force)
    BY <2>2, IngestCodebaseKeepsCode
  <2>3. CASE ParseNext
    BY <2>3, ParseNextKeepsCode
  <2>4. CASE ParseDone
    BY <2>4, ParseDoneKeepsCode
  <2>5. CASE EmitSkip
    BY <2>5, EmitSkipKeepsCode
  <2>6. CASE EmitPut
    BY <2>6, EmitPutKeepsCode
  <2>7. CASE EmitLinks
    BY <2>7, EmitLinksKeepsCode
  <2>8. CASE Finish
    BY <2>8, FinishKeepsCode
  <2>9. CASE IngestDies
    BY <2>9, IngestDiesKeepsCode
  <2>10. CASE UNCHANGED codeVars
    BY <2>10 DEF codeVars, CodebaseInv, CodeTypes, IsTree, PendingOf, EmittedSoFar, QuietReads,
       FreshNodes, MadeFrom, LinksLead, LinksOfTree, TreeLinks, Idempotent
  <2> QED
    BY <2>1, <2>2, <2>3, <2>4, <2>5, <2>6, <2>7, <2>8, <2>9, <2>10 DEF CodebaseNext, Ingest
<1>3. CodebaseInv => CodebaseSafe
  BY CodebaseInvSafe
<1> QED
  BY <1>1, <1>2, <1>3, PTL DEF CodebaseSpec

=============================================================================
