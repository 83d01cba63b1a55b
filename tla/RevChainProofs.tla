--------------------------- MODULE RevChainProofs ----------------------------
(***************************************************************************)
(* Proofs about RevChain, for any number of descriptors and pages: as long *)
(* as no page has more mappings than a search looks at nodes, the chains   *)
(* are exact and the lists implement RevMap.                               *)
(*                                                                         *)
(* Node is a recursive function; the proofs reason about a path, the       *)
(* sequence of nodes written as a function on Nat that is None past the    *)
(* end of the chain, and show once that Node follows it.                   *)
(***************************************************************************)
EXTENDS RevChain, FiniteSetTheorems, WellFoundedInduction, TLAPS

TypeInv ==
    /\ pte \in [Slot -> Page \cup {None}]
    /\ head \in [Page -> Slot \cup {None}]
    /\ next \in [Slot -> Slot \cup {None}]

Nodal == [Nat -> Slot \cup {None}]

\* f lists the k nodes of p's chain, which are the descriptors that map p.
IsPath(p, f, k) ==
    /\ \A i \in Nat : f[i] # None <=> i < k
    /\ head[p] = f[0]
    /\ \A i \in Nat : i < k => next[f[i]] = f[i + 1]
    /\ \A i, j \in Nat : i < k /\ f[i] = f[j] => i = j
    /\ \A s \in Slot : pte[s] = p <=> \E i \in Nat : f[i] = s

HasPath(p) == \E f \in Nodal, k \in Nat : IsPath(p, f, k)

IInv == TypeInv /\ \A p \in Page : HasPath(p)

\* No page has more mappings than a search looks at nodes.
WithinBudget ==
    \A p \in Page : Cardinality({s \in Slot : pte[s] = p}) <= Budget

-----------------------------------------------------------------------------
(* Induction over a set of naturals.                                       *)

LEMMA SetInduction ==
    ASSUME NEW T \in SUBSET Nat, 0 \in T, \A n \in T : n + 1 \in T
    PROVE  T = Nat
<1> DEFINE R == OpToRel(<, Nat)
<1>1. IsWellFoundedOn(R, Nat)
  BY NatLessThanWellFounded
<1> SUFFICES ASSUME Nat \ T # {} PROVE FALSE
    OBVIOUS
<1>2. PICK x \in Nat \ T : \A y \in Nat \ T : ~(<<y, x>> \in R)
  <2> HIDE DEF R
  <2> QED
    BY <1>1, WFMin
<1>3. \A y \in Nat \ T : ~(y < x)
  BY <1>2 DEF OpToRel
<1>4. x - 1 \in Nat /\ x - 1 < x
  OBVIOUS
<1>5. x - 1 \in T
  BY <1>3, <1>4
<1> QED
  BY <1>5

-----------------------------------------------------------------------------
(* What a path says.                                                       *)

\* A path has as many nodes as its page has mappings.
LEMMA PathLength ==
    ASSUME NEW p \in Page, NEW f \in Nodal, NEW k \in Nat, IsPath(p, f, k)
    PROVE  /\ k = Cardinality({s \in Slot : pte[s] = p})
           /\ Cardinality(Slot) \in Nat /\ k <= Cardinality(Slot)
<1> DEFINE M == {s \in Slot : pte[s] = p}
           g == [i \in 0..(k - 1) |-> f[i]]
<1>1. g \in Bijection(0..(k - 1), M)
  <2>1. \A i \in 0..(k - 1) : f[i] \in M
    BY DEF IsPath, Nodal
  <2>2. \A s \in M : \E i \in 0..(k - 1) : f[i] = s
    <3> SUFFICES ASSUME NEW s \in M PROVE \E i \in 0..(k - 1) : f[i] = s
        OBVIOUS
    <3>1. PICK i \in Nat : f[i] = s
      BY DEF IsPath
    <3>2. i < k
      BY <3>1, RevChainAssumption DEF IsPath
    <3> QED
      BY <3>1, <3>2
  <2>3. \A i, j \in 0..(k - 1) : f[i] = f[j] => i = j
    BY DEF IsPath
  <2> HIDE DEF M
  <2>4. g \in [0..(k - 1) -> M]
    BY <2>1
  <2>5. \A i \in 0..(k - 1) : g[i] = f[i]
    OBVIOUS
  <2> HIDE DEF g
  <2>6. g \in Injection(0..(k - 1), M)
    BY <2>3, <2>4, <2>5 DEF Injection, IsInjective
  <2>7. g \in Surjection(0..(k - 1), M)
    BY <2>2, <2>4, <2>5 DEF Surjection
  <2> QED
    BY <2>6, <2>7 DEF Bijection
<1>2. IsFiniteSet(0..(k - 1)) /\ Cardinality(0..(k - 1)) = k
  BY FS_Interval
<1>3. Cardinality(M) = k
  BY <1>1, <1>2, FS_Bijection DEF ExistsBijection
<1>4. M \in SUBSET Slot
  OBVIOUS
<1>5. Cardinality(Slot) \in Nat /\ Cardinality(M) <= Cardinality(Slot)
  BY <1>4, RevChainAssumption, FS_Subset, FS_CardinalityType
<1> QED
  BY <1>3, <1>5

\* Node follows the path.
LEMMA NodeIsPath ==
    ASSUME NEW p \in Page, NEW f \in Nodal, NEW k \in Nat, IsPath(p, f, k)
    PROVE  Node(p) = [n \in 0..Cardinality(Slot) |-> f[n]]
<1> DEFINE N == Cardinality(Slot)
           Walks(w) == w = [n \in 0..N |->
                              IF n = 0 THEN head[p]
                              ELSE IF w[n - 1] = None THEN None ELSE next[w[n - 1]]]
           g == [n \in 0..N |-> f[n]]
           T == {n \in Nat : n <= N => Node(p)[n] = f[n]}
<1>1. N \in Nat
  BY PathLength
<1>2. Walks(g)
  <2>1. g[0] = head[p] /\ 0 \in 0..N
    BY <1>1 DEF IsPath
  <2>2. ASSUME NEW n \in 1..N
        PROVE  g[n] = IF g[n - 1] = None THEN None ELSE next[g[n - 1]]
    <3>1. n - 1 \in Nat /\ n \in Nat /\ g[n] = f[n] /\ g[n - 1] = f[n - 1]
      BY <1>1
    <3>2. CASE n - 1 < k
      BY <3>1, <3>2 DEF IsPath
    <3>3. CASE ~(n - 1 < k)
      BY <3>1, <3>3 DEF IsPath
    <3> QED
      BY <3>2, <3>3
  <2>3. ASSUME NEW n \in 0..N
        PROVE  g[n] = IF n = 0 THEN head[p]
                      ELSE IF g[n - 1] = None THEN None ELSE next[g[n - 1]]
    <3> HIDE DEF g
    <3>1. CASE n = 0
      BY <2>1, <3>1
    <3>2. CASE n # 0
      <4>1. n \in 1..N
        BY <1>1, <3>2
      <4> QED
        BY <2>2, <3>2, <4>1
    <3> QED
      BY <3>1, <3>2
  <2>4. \A n \in 0..N : g[n] = f[n]
    OBVIOUS
  <2> QED
    BY <2>3, <2>4, Zenon
<1>3. Node(p) = CHOOSE w : Walks(w)
  BY DEF Node
<1> HIDE DEF Walks
<1>4. Walks(Node(p))
  BY <1>2, <1>3
<1> USE DEF Walks
<1> HIDE DEF N, g
<1>5. Node(p)[0] = f[0]
  BY <1>1, <1>4 DEF IsPath
<1>6. ASSUME NEW n \in Nat, n + 1 <= N, Node(p)[n] = f[n]
      PROVE  Node(p)[n + 1] = f[n + 1]
  <2>1. n + 1 \in 0..N /\ n + 1 # 0 /\ (n + 1) - 1 = n
    BY <1>1, <1>6
  <2>2. Node(p)[n + 1] = IF Node(p)[n] = None THEN None ELSE next[Node(p)[n]]
    BY <1>4, <2>1
  <2>3. CASE n < k
    BY <1>6, <2>2, <2>3 DEF IsPath
  <2>4. CASE ~(n < k)
    BY <1>6, <2>2, <2>4 DEF IsPath
  <2> QED
    BY <2>3, <2>4
<1>7. T = Nat
  <2>1. 0 \in T
    BY <1>5
  <2>2. \A n \in T : n + 1 \in T
    BY <1>1, <1>6
  <2> HIDE DEF T
  <2>3. T \in SUBSET Nat
    BY DEF T
  <2> QED
    BY <2>1, <2>2, <2>3, SetInduction
<1>8. \A n \in 0..N : Node(p)[n] = f[n]
  BY <1>1, <1>7
<1>9. Node(p) = [n \in 0..N |-> Node(p)[n]]
  BY <1>4
<1> QED
  BY <1>8, <1>9 DEF N

\* The chain of a path is exact.
LEMMA PathExact ==
    ASSUME NEW p \in Page, NEW f \in Nodal, NEW k \in Nat, IsPath(p, f, k)
    PROVE  /\ Node(p)[Cardinality(Slot)] = None
           /\ Nodes(p) = {s \in Slot : pte[s] = p}
<1> DEFINE N == Cardinality(Slot)
<1>1. N \in Nat /\ k <= N
  BY PathLength
<1> HIDE DEF N
<1>2. \A n \in 0..N : Node(p)[n] = f[n]
  BY NodeIsPath DEF N
<1>3. Node(p)[N] = None
  BY <1>1, <1>2 DEF IsPath
<1>4. Nodes(p) = {Node(p)[n] : n \in 0..N} \ {None}
  BY DEF Nodes, N
<1>5. Nodes(p) \subseteq {s \in Slot : pte[s] = p}
  BY <1>1, <1>2, <1>4 DEF IsPath, Nodal
<1>6. ASSUME NEW s \in Slot, pte[s] = p PROVE s \in Nodes(p)
  <2>1. PICK i \in Nat : f[i] = s
    BY <1>6 DEF IsPath
  <2>2. s # None /\ i < k
    BY <2>1, RevChainAssumption DEF IsPath
  <2>3. i \in 0..N /\ Node(p)[i] = s
    BY <1>1, <1>2, <2>1, <2>2
  <2> QED
    BY <1>4, <2>2, <2>3
<1> QED
  BY <1>3, <1>5, <1>6 DEF N

\* What a search within the budget does for a descriptor of the page.
LEMMA SplicedPath ==
    ASSUME IInv, WithinBudget, NEW p \in Page, NEW s \in Slot, pte[s] = p
    PROVE  \E f \in Nodal, k, j \in Nat :
              /\ IsPath(p, f, k) /\ j < k /\ f[j] = s
              /\ Spliced(p, s) =
                   IF j = 0 THEN [h |-> [head EXCEPT ![p] = next[s]], n |-> next]
                   ELSE [h |-> head, n |-> [next EXCEPT ![f[j - 1]] = next[s]]]
<1>1. PICK f \in Nodal, k \in Nat : IsPath(p, f, k)
  BY DEF IInv, HasPath
<1>2. PICK j \in Nat : f[j] = s
  BY <1>1 DEF IsPath
<1>3. j < k
  BY <1>1, <1>2, RevChainAssumption DEF IsPath
<1>4. k <= Budget /\ Budget \in Nat
  BY <1>1, PathLength, RevChainAssumption DEF WithinBudget
<1>5. Cardinality(Slot) \in Nat /\ k <= Cardinality(Slot)
  BY <1>1, PathLength
<1>6. \A n \in 0..Cardinality(Slot) : Node(p)[n] = f[n]
  BY <1>1, NodeIsPath
<1>7. Found(p, s) = {j}
  <2>1. \A n \in 0..Cardinality(Slot) : Node(p)[n] = s <=> n = j
    BY <1>1, <1>2, <1>3, <1>5, <1>6 DEF IsPath
  <2>2. j \in 0..Cardinality(Slot) /\ j < Budget
    BY <1>3, <1>4, <1>5
  <2> QED
    BY <2>1, <2>2 DEF Found
<1>8. (CHOOSE n \in Found(p, s) : \A m \in Found(p, s) : n <= m) = j
  BY <1>7
<1>9. j # 0 => Node(p)[j - 1] = f[j - 1]
  BY <1>3, <1>5, <1>6
<1>10. Spliced(p, s) =
          IF j = 0 THEN [h |-> [head EXCEPT ![p] = next[s]], n |-> next]
          ELSE [h |-> head, n |-> [next EXCEPT ![f[j - 1]] = next[s]]]
  <2>1. Found(p, s) # {}
    BY <1>7
  <2> QED
    BY <1>8, <1>9, <2>1 DEF Spliced
<1> QED
  BY <1>1, <1>2, <1>3, <1>10

-----------------------------------------------------------------------------
(* What a step does to the path of one page.                               *)

\* The page is not the one the step is about.
LEMMA KeptPath ==
    ASSUME NEW q \in Page, HasPath(q),
           \A s \in Slot : pte'[s] = q <=> pte[s] = q,
           head'[q] = head[q],
           \A s \in Slot : pte[s] = q => next'[s] = next[s]
    PROVE  HasPath(q)'
<1>1. PICK f \in Nodal, k \in Nat : IsPath(q, f, k)
  BY DEF HasPath
<1>2. \A i \in Nat : i < k => f[i] \in Slot /\ pte[f[i]] = q
  BY <1>1 DEF IsPath, Nodal
<1>3. IsPath(q, f, k)'
  BY <1>1, <1>2 DEF IsPath
<1> QED
  BY <1>3 DEF HasPath, Nodal

\* A descriptor is pushed at the head.
LEMMA PushedPath ==
    ASSUME NEW p \in Page, HasPath(p), NEW s \in Slot, pte[s] # p,
           \A x \in Slot : pte'[x] = p <=> pte[x] = p \/ x = s,
           head'[p] = s, next'[s] = head[p],
           \A x \in Slot : pte[x] = p => next'[x] = next[x]
    PROVE  HasPath(p)'
<1>1. PICK f \in Nodal, k \in Nat : IsPath(p, f, k)
  BY DEF HasPath
<1> DEFINE g == [i \in Nat |-> IF i = 0 THEN s ELSE f[i - 1]]
<1>2. g \in Nodal /\ k + 1 \in Nat
  BY DEF Nodal
<1>3. /\ g[0] = s
      /\ \A i \in Nat : g[i + 1] = f[i]
      /\ \A i \in Nat : i # 0 => i - 1 \in Nat /\ g[i] = f[i - 1]
  OBVIOUS
<1> HIDE DEF g
<1>4. s # None /\ \A i \in Nat : i < k => f[i] \in Slot /\ pte[f[i]] = p
  BY <1>1, RevChainAssumption DEF IsPath, Nodal
<1>5. \A i \in Nat : g[i] # None <=> i < k + 1
  BY <1>1, <1>3, <1>4 DEF IsPath
<1>6. \A i \in Nat : i < k + 1 => next'[g[i]] = g[i + 1]
  BY <1>1, <1>3, <1>4 DEF IsPath
<1>7. ASSUME NEW i \in Nat, NEW j \in Nat, i < k + 1, g[i] = g[j] PROVE i = j
  <2>1. \A m \in Nat : f[m] # s
    BY <1>1 DEF IsPath
  <2>2. CASE i = 0 \/ j = 0
    BY <1>3, <1>7, <2>1, <2>2
  <2>3. CASE i # 0 /\ j # 0
    BY <1>1, <1>3, <1>7, <2>3 DEF IsPath
  <2> QED
    BY <2>2, <2>3
<1>8. ASSUME NEW x \in Slot PROVE pte'[x] = p <=> \E i \in Nat : g[i] = x
  <2>1. pte'[x] = p => \E i \in Nat : g[i] = x
    BY <1>1, <1>3 DEF IsPath
  <2>2. ASSUME NEW i \in Nat, g[i] = x PROVE pte'[x] = p
    BY <1>1, <1>3, <2>2 DEF IsPath
  <2> QED
    BY <2>1, <2>2
<1>9. IsPath(p, g, k + 1)'
  BY <1>3, <1>5, <1>6, <1>7, <1>8 DEF IsPath
<1> QED
  BY <1>2, <1>9 DEF HasPath, Nodal

\* A descriptor is spliced out.
LEMMA RemovedPath ==
    ASSUME NEW p \in Page, NEW f \in Nodal, NEW k \in Nat, NEW j \in Nat,
           NEW s \in Slot, IsPath(p, f, k), j < k, f[j] = s,
           \A x \in Slot : pte'[x] = p <=> pte[x] = p /\ x # s,
           head'[p] = IF j = 0 THEN next[s] ELSE head[p],
           \A x \in Slot : pte[x] = p /\ x # s =>
               next'[x] = IF j # 0 /\ x = f[j - 1] THEN next[s] ELSE next[x]
    PROVE  HasPath(p)'
<1> DEFINE g == [i \in Nat |-> IF i < j THEN f[i] ELSE f[i + 1]]
<1>1. g \in Nodal /\ k - 1 \in Nat
  BY DEF Nodal
<1>2. /\ \A i \in Nat : i < j => g[i] = f[i]
      /\ \A i \in Nat : ~(i < j) => g[i] = f[i + 1]
  OBVIOUS
<1> HIDE DEF g
<1>3. \A i \in Nat : i < k => f[i] \in Slot /\ pte[f[i]] = p
  BY DEF IsPath, Nodal
<1>4. next[s] = f[j + 1]
  BY DEF IsPath
<1>5. \A i \in Nat : g[i] # None <=> i < k - 1
  BY <1>2 DEF IsPath
<1>6. head'[p] = g[0]
  BY <1>2, <1>4 DEF IsPath
<1>7. ASSUME NEW i \in Nat, i < k - 1 PROVE next'[g[i]] = g[i + 1]
  <2>1. CASE i + 1 < j
    <3>1. g[i] = f[i] /\ g[i + 1] = f[i + 1] /\ f[i] # s /\ f[i] # f[j - 1]
      BY <1>2, <1>7, <2>1 DEF IsPath
    <3> QED
      BY <1>3, <1>7, <3>1 DEF IsPath
  <2>2. CASE i + 1 = j
    <3>1. g[i] = f[j - 1] /\ g[i + 1] = f[j + 1] /\ f[i] # s
      BY <1>2, <1>7, <2>2 DEF IsPath
    <3> QED
      BY <1>3, <1>4, <1>7, <2>2, <3>1
  <2>3. CASE ~(i < j)
    <3>1. g[i] = f[i + 1] /\ g[i + 1] = f[i + 2] /\ f[i + 1] # s
      BY <1>2, <1>7, <2>3 DEF IsPath
    <3>2. j # 0 => f[i + 1] # f[j - 1]
      BY <1>7, <2>3 DEF IsPath
    <3>3. f[i + 1] \in Slot /\ pte[f[i + 1]] = p /\ next[f[i + 1]] = f[i + 2]
      BY <1>3, <1>7 DEF IsPath
    <3> QED
      BY <3>1, <3>2, <3>3
  <2> QED
    BY <2>1, <2>2, <2>3
<1>8. ASSUME NEW i \in Nat, NEW m \in Nat, i < k - 1, g[i] = g[m] PROVE i = m
  BY <1>2, <1>8 DEF IsPath
<1>9. ASSUME NEW x \in Slot PROVE pte'[x] = p <=> \E i \in Nat : g[i] = x
  <2>1. ASSUME pte[x] = p, x # s PROVE \E i \in Nat : g[i] = x
    <3>1. PICK i \in Nat : f[i] = x
      BY <2>1 DEF IsPath
    <3>2. CASE i < j
      BY <1>2, <3>1, <3>2
    <3>3. CASE ~(i < j)
      <4>1. i # j /\ i - 1 \in Nat /\ ~(i - 1 < j)
        BY <2>1, <3>1, <3>3
      <4> QED
        BY <1>2, <3>1, <4>1
    <3> QED
      BY <3>2, <3>3
  <2>2. ASSUME NEW i \in Nat, g[i] = x PROVE pte[x] = p /\ x # s
    <3>1. CASE i < j
      BY <1>2, <2>2, <3>1 DEF IsPath
    <3>2. CASE ~(i < j)
      BY <1>2, <2>2, <3>2 DEF IsPath
    <3> QED
      BY <3>1, <3>2
  <2> QED
    BY <2>1, <2>2
<1>10. IsPath(p, g, k - 1)'
  BY <1>5, <1>6, <1>7, <1>8, <1>9 DEF IsPath
<1> QED
  BY <1>1, <1>10 DEF HasPath, Nodal

\* A descriptor is linked in behind another.
LEMMA InsertedPath ==
    ASSUME NEW p \in Page, HasPath(p), NEW s \in Slot, NEW c \in Slot,
           pte[s] = p, pte[c] # p,
           \A x \in Slot : pte'[x] = p <=> pte[x] = p \/ x = c,
           head'[p] = head[p], next'[s] = c, next'[c] = next[s],
           \A x \in Slot : pte[x] = p /\ x # s => next'[x] = next[x]
    PROVE  HasPath(p)'
<1>1. PICK f \in Nodal, k \in Nat : IsPath(p, f, k)
  BY DEF HasPath
<1>2. PICK j \in Nat : f[j] = s
  BY <1>1 DEF IsPath
<1> DEFINE g == [i \in Nat |-> IF i <= j THEN f[i]
                               ELSE IF i = j + 1 THEN c ELSE f[i - 1]]
<1>3. g \in Nodal /\ k + 1 \in Nat
  BY DEF Nodal
<1>4. /\ \A i \in Nat : i <= j => g[i] = f[i]
      /\ g[j + 1] = c
      /\ \A i \in Nat : i > j + 1 => i - 1 \in Nat /\ g[i] = f[i - 1]
  OBVIOUS
<1> HIDE DEF g
<1>5. /\ s # None /\ c # None /\ j < k
      /\ \A i \in Nat : i < k => f[i] \in Slot /\ pte[f[i]] = p
      /\ \A i \in Nat : f[i] # c
  BY <1>1, <1>2, RevChainAssumption DEF IsPath, Nodal
<1>6. \A i \in Nat : g[i] # None <=> i < k + 1
  BY <1>1, <1>4, <1>5 DEF IsPath
<1>7. head'[p] = g[0]
  BY <1>1, <1>4 DEF IsPath
<1>8. ASSUME NEW i \in Nat, i < k + 1 PROVE next'[g[i]] = g[i + 1]
  <2>1. CASE i < j
    <3>1. g[i] = f[i] /\ g[i + 1] = f[i + 1] /\ f[i] # s
      BY <1>1, <1>2, <1>4, <1>5, <2>1 DEF IsPath
    <3> QED
      BY <1>1, <1>5, <2>1, <3>1 DEF IsPath
  <2>2. CASE i = j
    BY <1>2, <1>4, <2>2
  <2>3. CASE i = j + 1
    <3>1. g[i] = c /\ g[i + 1] = f[j + 1] /\ next[s] = f[j + 1]
      BY <1>1, <1>2, <1>4, <1>5, <2>3 DEF IsPath
    <3> QED
      BY <3>1
  <2>4. CASE i > j + 1
    <3>1. /\ i - 1 \in Nat /\ g[i] = f[i - 1] /\ g[i + 1] = f[i]
          /\ i - 1 < k /\ i - 1 # j
      BY <1>4, <1>8, <2>4
    <3>2. f[i - 1] \in Slot /\ pte[f[i - 1]] = p /\ f[i - 1] # s
      BY <1>1, <1>2, <1>5, <3>1 DEF IsPath
    <3>3. next[f[i - 1]] = f[i]
      BY <1>1, <3>1 DEF IsPath
    <3> QED
      BY <3>1, <3>2, <3>3
  <2> QED
    BY <2>1, <2>2, <2>3, <2>4
<1>9. ASSUME NEW i \in Nat, NEW m \in Nat, i < k + 1, g[i] = g[m] PROVE i = m
  <2>1. CASE i = j + 1 \/ m = j + 1
    BY <1>4, <1>5, <1>9, <2>1
  <2>2. CASE i # j + 1 /\ m # j + 1
    BY <1>1, <1>4, <1>5, <1>9, <2>2 DEF IsPath
  <2> QED
    BY <2>1, <2>2
<1>10. ASSUME NEW x \in Slot PROVE pte'[x] = p <=> \E i \in Nat : g[i] = x
  <2>1. ASSUME pte[x] = p PROVE \E i \in Nat : g[i] = x
    <3>1. PICK i \in Nat : f[i] = x
      BY <1>1, <2>1 DEF IsPath
    <3>2. CASE i <= j
      BY <1>4, <3>1, <3>2
    <3>3. CASE i > j
      <4>1. i + 1 \in Nat /\ i + 1 > j + 1 /\ (i + 1) - 1 = i
        BY <3>3
      <4>2. g[i + 1] = f[i]
        BY <1>4, <4>1
      <4> QED
        BY <3>1, <4>1, <4>2
    <3> QED
      BY <3>2, <3>3
  <2>2. ASSUME NEW i \in Nat, g[i] = x PROVE pte[x] = p \/ x = c
    <3>1. i <= j \/ i = j + 1 \/ i > j + 1
      OBVIOUS
    <3> QED
      BY <1>1, <1>4, <2>2, <3>1 DEF IsPath
  <2> QED
    BY <1>4, <2>1, <2>2
<1>11. IsPath(p, g, k + 1)'
  BY <1>6, <1>7, <1>8, <1>9, <1>10 DEF IsPath
<1> QED
  BY <1>3, <1>11 DEF HasPath, Nodal

\* A page without mappings and without a head has the empty path:
\* at first, and after hat_pageunload.
LEMMA EmptyPath ==
    ASSUME NEW p \in Page, head[p] = None, \A s \in Slot : pte[s] # p
    PROVE  HasPath(p)
<1> DEFINE f == [i \in Nat |-> None]
<1>1. f \in Nodal /\ 0 \in Nat
  BY DEF Nodal
<1>2. IsPath(p, f, 0)
  BY RevChainAssumption DEF IsPath
<1> QED
  BY <1>1, <1>2 DEF HasPath

LEMMA EmptiedPath ==
    ASSUME NEW p \in Page, head'[p] = None, \A s \in Slot : pte'[s] # p
    PROVE  HasPath(p)'
<1> DEFINE f == [i \in Nat |-> None]
<1>1. f \in Nodal /\ 0 \in Nat
  BY DEF Nodal
<1>2. IsPath(p, f, 0)'
  BY RevChainAssumption DEF IsPath
<1> QED
  BY <1>1, <1>2 DEF HasPath, Nodal

-----------------------------------------------------------------------------
(* The steps.                                                              *)

LEMMA InitIInv == Init => IInv
<1> SUFFICES ASSUME Init PROVE IInv
    OBVIOUS
<1>1. TypeInv
  BY DEF Init, TypeInv
<1>2. \A p \in Page : HasPath(p)
  BY EmptyPath, RevChainAssumption DEF Init
<1> QED
  BY <1>1, <1>2 DEF IInv

LEMMA LoadFreshStep ==
    ASSUME IInv, NEW s \in Slot, NEW p \in Page, LoadFresh(s, p)
    PROVE  IInv'
<1>1. TypeInv'
  BY DEF LoadFresh, IInv, TypeInv
<1>2. ASSUME NEW q \in Page PROVE HasPath(q)'
  <2>1. CASE q = p
    BY <2>1, PushedPath, RevChainAssumption DEF LoadFresh, IInv, TypeInv
  <2>2. CASE q # p
    BY <2>2, KeptPath, RevChainAssumption DEF LoadFresh, IInv, TypeInv
  <2> QED
    BY <2>1, <2>2
<1> QED
  BY <1>1, <1>2 DEF IInv

LEMMA UnloadStep ==
    ASSUME IInv, WithinBudget, NEW s \in Slot, Unload(s)
    PROVE  IInv'
<1> DEFINE p == pte[s]
<1>1. p \in Page
  BY DEF Unload, IInv, TypeInv
<1> HIDE DEF p
<1>2. PICK f \in Nodal, k \in Nat, j \in Nat :
        /\ IsPath(p, f, k) /\ j < k /\ f[j] = s
        /\ Spliced(p, s) =
             IF j = 0 THEN [h |-> [head EXCEPT ![p] = next[s]], n |-> next]
             ELSE [h |-> head, n |-> [next EXCEPT ![f[j - 1]] = next[s]]]
  BY <1>1, SplicedPath DEF p
<1>3. /\ pte' = [pte EXCEPT ![s] = None]
      /\ head' = IF j = 0 THEN [head EXCEPT ![p] = next[s]] ELSE head
      /\ next' = IF j = 0 THEN next ELSE [next EXCEPT ![f[j - 1]] = next[s]]
  BY <1>2 DEF Unload, p
<1>4. j # 0 => f[j - 1] \in Slot /\ pte[f[j - 1]] = p
  BY <1>2 DEF IsPath, Nodal
<1>5. TypeInv'
  BY <1>1, <1>3, <1>4 DEF IInv, TypeInv
<1>6. ASSUME NEW q \in Page PROVE HasPath(q)'
  <2>1. CASE q = p
    <3>1. \A x \in Slot : pte'[x] = p <=> pte[x] = p /\ x # s
      BY <1>1, <1>3, RevChainAssumption DEF IInv, TypeInv
    <3>2. head'[p] = IF j = 0 THEN next[s] ELSE head[p]
      BY <1>1, <1>3 DEF IInv, TypeInv
    <3>3. \A x \in Slot : pte[x] = p /\ x # s =>
              next'[x] = IF j # 0 /\ x = f[j - 1] THEN next[s] ELSE next[x]
      BY <1>3, <1>4 DEF IInv, TypeInv
    <3> QED
      BY <1>1, <1>2, <2>1, <3>1, <3>2, <3>3, RemovedPath
  <2>2. CASE q # p
    <3>1. \A x \in Slot : pte'[x] = q <=> pte[x] = q
      BY <1>3, <2>2, RevChainAssumption DEF IInv, TypeInv, p
    <3>2. head'[q] = head[q] /\ \A x \in Slot : pte[x] = q => next'[x] = next[x]
      BY <1>1, <1>3, <1>4, <2>2 DEF IInv, TypeInv
    <3> QED
      BY <3>1, <3>2, KeptPath DEF IInv
  <2> QED
    BY <2>1, <2>2
<1> QED
  BY <1>5, <1>6 DEF IInv

LEMMA LoadReplaceStep ==
    ASSUME IInv, WithinBudget, NEW s \in Slot, NEW p \in Page, LoadReplace(s, p)
    PROVE  IInv'
<1> DEFINE o == pte[s]
<1>1. o \in Page /\ o # p
  BY DEF LoadReplace, IInv, TypeInv
<1> HIDE DEF o
<1>2. PICK f \in Nodal, k \in Nat, j \in Nat :
        /\ IsPath(o, f, k) /\ j < k /\ f[j] = s
        /\ Spliced(o, s) =
             IF j = 0 THEN [h |-> [head EXCEPT ![o] = next[s]], n |-> next]
             ELSE [h |-> head, n |-> [next EXCEPT ![f[j - 1]] = next[s]]]
  BY <1>1, SplicedPath DEF o
<1>3. j # 0 => f[j - 1] \in Slot /\ pte[f[j - 1]] = o /\ f[j - 1] # s
  BY <1>2 DEF IsPath, Nodal
<1>4. /\ pte' = [pte EXCEPT ![s] = p]
      /\ \A q \in Page : head'[q] = IF q = p THEN s
                                    ELSE IF q = o /\ j = 0 THEN next[s] ELSE head[q]
      /\ \A x \in Slot : next'[x] = IF x = s THEN head[p]
                                    ELSE IF j # 0 /\ x = f[j - 1] THEN next[s]
                                    ELSE next[x]
      /\ head' \in [Page -> Slot \cup {None}] /\ next' \in [Slot -> Slot \cup {None}]
  <2> DEFINE u == Spliced(o, s)
  <2>1. /\ pte' = [pte EXCEPT ![s] = p]
        /\ next' = [u.n EXCEPT ![s] = u.h[p]]
        /\ head' = [u.h EXCEPT ![p] = s]
    BY DEF LoadReplace, o
  <2>2. /\ u.h = IF j = 0 THEN [head EXCEPT ![o] = next[s]] ELSE head
        /\ u.n = IF j = 0 THEN next ELSE [next EXCEPT ![f[j - 1]] = next[s]]
    BY <1>2
  <2> HIDE DEF u
  <2>3. u.h \in [Page -> Slot \cup {None}] /\ u.n \in [Slot -> Slot \cup {None}]
    BY <1>1, <1>3, <2>2 DEF IInv, TypeInv
  <2>4. u.h[p] = head[p]
    BY <1>1, <2>2 DEF IInv, TypeInv
  <2>5. \A q \in Page : u.h[q] = IF q = o /\ j = 0 THEN next[s] ELSE head[q]
    BY <2>2 DEF IInv, TypeInv
  <2>6. \A x \in Slot : u.n[x] = IF j # 0 /\ x = f[j - 1] THEN next[s] ELSE next[x]
    BY <2>2 DEF IInv, TypeInv
  <2> QED
    BY <2>1, <2>3, <2>4, <2>5, <2>6
<1>5. TypeInv'
  BY <1>4 DEF IInv, TypeInv
<1>6. ASSUME NEW q \in Page PROVE HasPath(q)'
  <2>1. CASE q = o
    <3>1. \A x \in Slot : pte'[x] = o <=> pte[x] = o /\ x # s
      BY <1>1, <1>4 DEF IInv, TypeInv
    <3>2. head'[o] = IF j = 0 THEN next[s] ELSE head[o]
      BY <1>1, <1>4
    <3>3. \A x \in Slot : pte[x] = o /\ x # s =>
              next'[x] = IF j # 0 /\ x = f[j - 1] THEN next[s] ELSE next[x]
      BY <1>4
    <3> QED
      BY <1>1, <1>2, <2>1, <3>1, <3>2, <3>3, RemovedPath
  <2>2. CASE q = p
    <3>1. pte[s] # p /\ \A x \in Slot : pte'[x] = p <=> pte[x] = p \/ x = s
      BY <1>1, <1>4 DEF IInv, TypeInv, o
    <3>2. /\ head'[p] = s /\ next'[s] = head[p]
          /\ \A x \in Slot : pte[x] = p => next'[x] = next[x]
      BY <1>1, <1>3, <1>4, <3>1
    <3> QED
      BY <2>2, <3>1, <3>2, PushedPath DEF IInv
  <2>3. CASE q # o /\ q # p
    <3>1. \A x \in Slot : pte'[x] = q <=> pte[x] = q
      BY <1>4, <2>3 DEF IInv, TypeInv, o
    <3>2. head'[q] = head[q] /\ \A x \in Slot : pte[x] = q => next'[x] = next[x]
      BY <1>3, <1>4, <2>3 DEF o
    <3> QED
      BY <3>1, <3>2, KeptPath DEF IInv
  <2> QED
    BY <2>1, <2>2, <2>3
<1> QED
  BY <1>5, <1>6 DEF IInv

LEMMA DupShareStep ==
    ASSUME IInv, NEW s \in Slot, NEW c \in Slot, DupShare(s, c)
    PROVE  IInv'
<1> DEFINE p == pte[s]
<1>1. p \in Page /\ pte[c] = None /\ p # None /\ c # s
  BY RevChainAssumption DEF DupShare, IInv, TypeInv
<1> HIDE DEF p
<1>2. /\ pte' = [pte EXCEPT ![c] = p] /\ head' = head
      /\ \A x \in Slot : next'[x] = IF x = s THEN c
                                    ELSE IF x = c THEN next[s] ELSE next[x]
      /\ next' \in [Slot -> Slot \cup {None}]
  BY <1>1 DEF DupShare, IInv, TypeInv, p
<1>3. TypeInv'
  BY <1>1, <1>2 DEF IInv, TypeInv
<1>4. ASSUME NEW q \in Page PROVE HasPath(q)'
  <2>1. \A x \in Slot : pte'[x] = q <=> pte[x] = q \/ (q = p /\ x = c)
    BY <1>1, <1>2, RevChainAssumption DEF IInv, TypeInv
  <2>2. CASE q = p
    <3>1. pte[s] = p /\ pte[c] # p
      BY <1>1 DEF p
    <3>2. \A x \in Slot : pte[x] = p /\ x # s => next'[x] = next[x]
      BY <1>1, <1>2
    <3> QED
      BY <1>1, <1>2, <2>1, <2>2, <3>1, <3>2, InsertedPath DEF IInv
  <2>3. CASE q # p
    <3>1. \A x \in Slot : pte[x] = q => next'[x] = next[x]
      BY <1>1, <1>2, <2>3, RevChainAssumption DEF p
    <3> QED
      BY <1>2, <2>1, <2>3, <3>1, KeptPath DEF IInv
  <2> QED
    BY <2>2, <2>3
<1> QED
  BY <1>3, <1>4 DEF IInv

\* hat_pageunload clears what maps the page, and nothing else.
LEMMA UnloadPageExact ==
    ASSUME IInv, NEW p \in Page, UnloadPage(p)
    PROVE  pte' = [s \in Slot |-> IF pte[s] = p THEN None ELSE pte[s]]
<1>1. PICK f \in Nodal, k \in Nat : IsPath(p, f, k)
  BY DEF IInv, HasPath
<1>2. Nodes(p) = {s \in Slot : pte[s] = p}
  BY <1>1, PathExact
<1> QED
  BY <1>2 DEF UnloadPage

LEMMA UnloadPageStep ==
    ASSUME IInv, NEW p \in Page, UnloadPage(p)
    PROVE  IInv'
<1>1. /\ pte' = [s \in Slot |-> IF pte[s] = p THEN None ELSE pte[s]]
      /\ head' = [head EXCEPT ![p] = None] /\ next' = next
  BY UnloadPageExact DEF UnloadPage
<1>2. TypeInv'
  BY <1>1 DEF IInv, TypeInv
<1>3. ASSUME NEW q \in Page PROVE HasPath(q)'
  <2>1. CASE q = p
    <3>1. head'[p] = None /\ \A s \in Slot : pte'[s] # p
      BY <1>1, RevChainAssumption DEF IInv, TypeInv
    <3> QED
      BY <2>1, <3>1, EmptiedPath
  <2>2. CASE q # p
    <3>1. \A s \in Slot : pte'[s] = q <=> pte[s] = q
      BY <1>1, <2>2, RevChainAssumption DEF IInv, TypeInv
    <3>2. head'[q] = head[q] /\ \A s \in Slot : pte[s] = q => next'[s] = next[s]
      BY <1>1, <2>2 DEF IInv, TypeInv
    <3> QED
      BY <3>1, <3>2, KeptPath DEF IInv
  <2> QED
    BY <2>1, <2>2
<1> QED
  BY <1>2, <1>3 DEF IInv

LEMMA NextIInv == IInv /\ WithinBudget /\ [Next]_vars => IInv'
<1> SUFFICES ASSUME IInv, WithinBudget, [Next]_vars PROVE IInv'
    OBVIOUS
<1>1. CASE UNCHANGED vars
  BY <1>1 DEF vars, IInv, TypeInv, HasPath, IsPath
<1>2. ASSUME NEW s \in Slot, NEW p \in Page, LoadFresh(s, p) PROVE IInv'
  BY <1>2, LoadFreshStep
<1>3. ASSUME NEW s \in Slot, NEW p \in Page, LoadReplace(s, p) PROVE IInv'
  BY <1>3, LoadReplaceStep
<1>4. ASSUME NEW s \in Slot, Unload(s) PROVE IInv'
  BY <1>4, UnloadStep
<1>5. ASSUME NEW s \in Slot, NEW c \in Slot, DupShare(s, c) PROVE IInv'
  BY <1>5, DupShareStep
<1>6. ASSUME NEW p \in Page, UnloadPage(p) PROVE IInv'
  BY <1>6, UnloadPageStep
<1> QED
  BY <1>1, <1>2, <1>3, <1>4, <1>5, <1>6 DEF Next

LEMMA Invariance == Spec /\ []WithinBudget => []IInv
<1>1. Init => IInv
  BY InitIInv
<1>2. IInv /\ WithinBudget /\ [Next]_vars => IInv'
  BY NextIInv
<1> QED
  BY <1>1, <1>2, PTL DEF Spec

-----------------------------------------------------------------------------

(* As long as no page has more mappings than a search looks at nodes, every *)
(* chain ends and holds exactly the descriptors that map its page, so that  *)
(* hat_pageunload, which has no counter, ends and misses none.              *)
THEOREM ListsAreExact == Spec /\ []WithinBudget => []ChainsExact
<1>1. IInv => ChainsExact
  <2> SUFFICES ASSUME IInv, NEW p \in Page
               PROVE  /\ Node(p)[Cardinality(Slot)] = None
                      /\ Nodes(p) = {s \in Slot : pte[s] = p}
      BY DEF ChainsExact
  <2> QED
    BY PathExact DEF IInv, HasPath
<1> QED
  BY <1>1, Invariance, PTL

(* With a budget no chain can exceed, that needs no proviso.               *)
THEOREM ListsAlwaysExact ==
    ASSUME Budget >= Cardinality(Slot)
    PROVE  Spec => []ChainsExact
<1>1. IInv => WithinBudget
  <2> SUFFICES ASSUME IInv, NEW p \in Page
               PROVE  Cardinality({s \in Slot : pte[s] = p}) <= Budget
      BY DEF WithinBudget
  <2>1. PICK f \in Nodal, k \in Nat : IsPath(p, f, k)
    BY DEF IInv, HasPath
  <2> QED
    BY <2>1, PathLength, RevChainAssumption
<1>2. Init => IInv
  BY InitIInv
<1>3. IInv /\ [Next]_vars => IInv'
  BY <1>1, NextIInv
<1>4. Spec => []WithinBudget
  BY <1>1, <1>2, <1>3, PTL DEF Spec
<1> QED
  BY <1>4, ListsAreExact, PTL

(* Under the same proviso the lists implement the reverse map the pager is *)
(* promised: every step is a load, an unload, or the unload of a page that *)
(* clears what maps it and nothing else.                                   *)
THEOREM ListsImplementRevMap == Spec /\ []WithinBudget => ImplementsRevMap
<1>1. Init => RevMapImpl!Init
  BY DEF Init, RevMapImpl!Init
<1>2. IInv /\ [Next]_vars => [RevMapImpl!Next]_pte
  <2> SUFFICES ASSUME IInv, [Next]_vars PROVE RevMapImpl!Next \/ pte' = pte
      OBVIOUS
  <2>1. ASSUME NEW s \in Slot, NEW p \in Page, LoadFresh(s, p) \/ LoadReplace(s, p)
        PROVE  RevMapImpl!Load(s, p)
    BY <2>1 DEF LoadFresh, LoadReplace, RevMapImpl!Load
  <2>2. ASSUME NEW s \in Slot, Unload(s) PROVE RevMapImpl!Unload(s)
    BY <2>2 DEF Unload, RevMapImpl!Unload
  <2>3. ASSUME NEW s \in Slot, NEW c \in Slot, DupShare(s, c)
        PROVE  pte[s] \in Page /\ RevMapImpl!Load(c, pte[s])
    BY <2>3 DEF DupShare, RevMapImpl!Load, IInv, TypeInv
  <2>4. ASSUME NEW p \in Page, UnloadPage(p) PROVE RevMapImpl!UnloadPage(p)
    BY <2>4, UnloadPageExact DEF RevMapImpl!UnloadPage
  <2>5. CASE UNCHANGED vars
    BY <2>5 DEF vars
  <2> QED
    BY <2>1, <2>2, <2>3, <2>4, <2>5 DEF Next, RevMapImpl!Next
<1> QED
  BY <1>1, <1>2, Invariance, PTL DEF Spec, ImplementsRevMap, RevMapImpl!Spec
=============================================================================
