--------------------------- MODULE HatCountsProofs ---------------------------
(***************************************************************************)
(* Proofs about HatCounts, for any number of address spaces, pages and     *)
(* tables: a_rss never falls below the mappings that exist, and pt_keepcnt *)
(* is the number of softlocks, modulo the width of the byte, as long as no *)
(* load that locks replaces a page.                                        *)
(***************************************************************************)
EXTENDS HatCounts, FiniteSetTheorems, WellFoundedInduction, TLAPS

\* The mappings of a.
MappedIn(a) == {s \in {a} \X VA : Mapped(s)}

IInv ==
    /\ live \subseteq AS
    /\ pte \in [Slot -> Page \cup {None}]
    /\ rss \in [AS -> Int]
    /\ \A a \in AS \ live : MappedIn(a) = {}
    /\ RssCovers

-----------------------------------------------------------------------------

LEMMA MappedInFinite ==
    ASSUME NEW a \in AS
    PROVE  /\ IsFiniteSet(MappedIn(a)) /\ Cardinality(MappedIn(a)) \in Nat
           /\ Unmapped({a} \X VA) = Cardinality(MappedIn(a))
<1>1. IsFiniteSet({a} \X VA)
  BY HatCountsAssumption, FS_Singleton, FS_Product
<1>2. IsFiniteSet(MappedIn(a))
  <2>1. MappedIn(a) \in SUBSET ({a} \X VA)
    BY DEF MappedIn
  <2> QED
    BY <1>1, <2>1, FS_Subset
<1> QED
  BY <1>2, FS_CardinalityType DEF Unmapped, MappedIn

\* A step that adds at most one mapping to a and counts it.
LEMMA Counted ==
    ASSUME IInv, NEW a \in live, NEW s \in {a} \X VA, NEW p \in Page,
           live' = live, pte' = [pte EXCEPT ![s] = p],
           rss' = [rss EXCEPT ![a] = @ + 1]
    PROVE  IInv'
<1>1. /\ a \in AS /\ s \in Slot /\ s[1] = a
      /\ pte' \in [Slot -> Page \cup {None}] /\ rss' \in [AS -> Int]
      /\ live' \subseteq AS
  BY DEF IInv, Slot
<1>2. MappedIn(a)' = MappedIn(a) \cup {s}
  BY <1>1, HatCountsAssumption DEF MappedIn, Mapped, IInv, Slot
<1>3. ASSUME NEW b \in AS, b # a PROVE MappedIn(b)' = MappedIn(b)
  BY <1>1, <1>3 DEF MappedIn, Mapped, IInv, Slot
<1>4. Cardinality(MappedIn(a) \cup {s}) <= Cardinality(MappedIn(a)) + 1
      /\ Cardinality(MappedIn(a) \cup {s}) \in Nat
  <2>1. IsFiniteSet(MappedIn(a)) /\ Cardinality(MappedIn(a)) \in Nat
    BY <1>1, MappedInFinite
  <2> QED
    BY <2>1, FS_AddElement, FS_CardinalityType
<1>5. RssCovers'
  <2> SUFFICES ASSUME NEW b \in live' PROVE (rss[b] >= Unmapped({b} \X VA))'
      BY DEF RssCovers
  <2>1. b \in AS /\ rss[b] \in Int /\ rss[b] >= Cardinality(MappedIn(b))
        /\ Cardinality(MappedIn(b)) \in Nat
    <3>1. b \in AS /\ b \in live
      BY DEF IInv
    <3>2. rss[b] \in Int /\ rss[b] >= Unmapped({b} \X VA)
      BY <3>1 DEF IInv, RssCovers
    <3> QED
      BY <3>1, <3>2, MappedInFinite
  <2>2. Unmapped({b} \X VA)' = Cardinality(MappedIn(b)')
    BY DEF Unmapped, MappedIn
  <2>3. CASE b = a
    BY <1>1, <1>2, <1>4, <2>1, <2>2, <2>3 DEF IInv
  <2>4. CASE b # a
    BY <1>1, <1>3, <2>1, <2>2, <2>4 DEF IInv
  <2> QED
    BY <2>3, <2>4
<1> QED
  BY <1>1, <1>3, <1>5 DEF IInv

\* A step that takes the mappings S away, and takes at most as many off the
\* count of an address space.
LEMMA Uncounted ==
    ASSUME IInv, NEW S \in SUBSET Slot,
           live' \subseteq live,
           pte' \in [Slot -> Page \cup {None}],
           \A s \in Slot : Mapped(s)' <=> Mapped(s) /\ s \notin S,
           rss' \in [AS -> Int],
           \A a \in live' : rss'[a] >= rss[a] - Cardinality(MappedIn(a) \cap S),
           \A a \in live \ live' : MappedIn(a) \subseteq S
    PROVE  IInv'
<1>1. ASSUME NEW a \in AS PROVE MappedIn(a)' = MappedIn(a) \ S
  BY DEF MappedIn, Slot
<1>2. \A a \in AS \ live' : MappedIn(a)' = {}
  BY <1>1 DEF IInv
<1>3. RssCovers'
  <2> SUFFICES ASSUME NEW b \in live' PROVE (rss[b] >= Unmapped({b} \X VA))'
      BY DEF RssCovers
  <2>1. b \in AS /\ b \in live
    BY DEF IInv
  <2>2. /\ IsFiniteSet(MappedIn(b)) /\ Cardinality(MappedIn(b)) \in Nat
        /\ rss[b] \in Int /\ rss[b] >= Cardinality(MappedIn(b)) /\ rss'[b] \in Int
    BY <2>1, MappedInFinite DEF IInv, RssCovers
  <2>3. Cardinality(MappedIn(b) \ S)
          = Cardinality(MappedIn(b)) - Cardinality(MappedIn(b) \cap S)
    BY <2>2, FS_Difference
  <2>4. Cardinality(MappedIn(b) \cap S) \in Nat
    BY <2>2, FS_Intersection, FS_CardinalityType
  <2>5. Unmapped({b} \X VA)' = Cardinality(MappedIn(b)')
    BY DEF Unmapped, MappedIn
  <2>6. Cardinality(MappedIn(b)') = Cardinality(MappedIn(b) \ S)
    BY <1>1, <2>1
  <2> QED
    BY <2>2, <2>3, <2>4, <2>5, <2>6
<1> QED
  BY <1>2, <1>3 DEF IInv

-----------------------------------------------------------------------------

LEMMA InitIInv == Init => IInv
<1> SUFFICES ASSUME Init PROVE IInv
    OBVIOUS
<1>1. \A a \in AS : MappedIn(a) = {}
  BY DEF Init, MappedIn, Mapped, Slot
<1> QED
  BY <1>1 DEF Init, IInv, RssCovers

LEMMA HatAllocStep == ASSUME IInv, NEW a \in AS, HatAlloc(a) PROVE IInv'
<1>1. /\ a \notin live /\ live' = live \cup {a} /\ pte' = pte
      /\ rss' = [rss EXCEPT ![a] = 0]
  BY DEF HatAlloc
<1>2. ASSUME NEW b \in AS
      PROVE  MappedIn(b)' = MappedIn(b) /\ Unmapped({b} \X VA)' = Unmapped({b} \X VA)
  BY <1>1 DEF MappedIn, Mapped, Unmapped
<1>3. Unmapped({a} \X VA) = 0
  BY <1>1, MappedInFinite, FS_EmptySet DEF IInv
<1>4. RssCovers'
  <2> SUFFICES ASSUME NEW b \in live' PROVE (rss[b] >= Unmapped({b} \X VA))'
      BY DEF RssCovers
  <2>1. b \in AS /\ rss'[b] = IF b = a THEN 0 ELSE rss[b]
    BY <1>1 DEF IInv
  <2>2. b # a => rss[b] >= Unmapped({b} \X VA)
    BY <1>1 DEF IInv, RssCovers
  <2> QED
    BY <1>2, <1>3, <2>1, <2>2
<1>5. \A b \in AS \ live' : MappedIn(b)' = {}
  BY <1>1, <1>2 DEF IInv
<1>6. live' \subseteq AS /\ pte' \in [Slot -> Page \cup {None}] /\ rss' \in [AS -> Int]
  BY <1>1 DEF IInv
<1> QED
  BY <1>4, <1>5, <1>6 DEF IInv

LEMMA LoadStep ==
    ASSUME IInv, NEW s \in Slot, NEW p \in Page, NEW lock \in BOOLEAN,
           PteloadFresh(s, p, lock) \/ PteloadReplace(s, p, lock)
    PROVE  IInv'
<1>1. CASE PteloadFresh(s, p, lock)
  <2>1. s[1] \in live /\ s \in {s[1]} \X VA
    BY <1>1 DEF PteloadFresh, Slot
  <2>2. live' = live /\ pte' = [pte EXCEPT ![s] = p] /\ rss' = [rss EXCEPT ![s[1]] = @ + 1]
    BY <1>1 DEF PteloadFresh
  <2> QED
    BY <2>1, <2>2, Counted
<1>2. CASE PteloadReplace(s, p, lock)
  <2>1. Mapped(s) /\ live' = live /\ rss' = rss /\ pte' = [pte EXCEPT ![s] = p]
    BY <1>2 DEF PteloadReplace
  <2>2. pte' \in [Slot -> Page \cup {None}] /\ \A t \in Slot : Mapped(t)' <=> Mapped(t)
    BY <2>1, HatCountsAssumption DEF IInv, Mapped
  <2>3. \A a \in AS : MappedIn(a)' = MappedIn(a)
    BY <2>2 DEF MappedIn, Slot
  <2>4. \A a \in AS : Unmapped({a} \X VA)' = Unmapped({a} \X VA)
    BY <2>3 DEF Unmapped, MappedIn
  <2> QED
    BY <2>1, <2>2, <2>3, <2>4 DEF IInv, RssCovers
<1> QED
  BY <1>1, <1>2

\* Softlocks alone: neither the mappings nor a_rss change.
LEMMA LockStep == ASSUME IInv, UNCHANGED <<live, pte, rss>> PROVE IInv'
BY DEF IInv, MappedIn, Mapped, RssCovers, Unmapped

LEMMA UnloadStep ==
    ASSUME IInv, NEW a \in AS, NEW R \in SUBSET VA, NEW unlock \in BOOLEAN,
           Unload(a, R, unlock)
    PROVE  IInv'
<1> DEFINE S == {a} \X R
<1>1. /\ S \in SUBSET Slot /\ a \in live /\ live' = live
      /\ pte' = [s \in Slot |-> IF s \in S THEN None ELSE pte[s]]
      /\ rss' = [rss EXCEPT ![a] = @ - Unmapped(S)]
  BY DEF Unload, Slot
<1>2. {s \in S : Mapped(s)} = MappedIn(a) \cap S
  BY DEF MappedIn
<1>3. ASSUME NEW b \in AS
      PROVE  Cardinality(MappedIn(b) \cap S) \in Nat
  BY MappedInFinite, FS_Intersection, FS_CardinalityType
<1>4. Unmapped(S) = Cardinality(MappedIn(a) \cap S)
  BY <1>2 DEF Unmapped
<1> HIDE DEF S
<1>5. /\ pte' \in [Slot -> Page \cup {None}]
      /\ \A s \in Slot : Mapped(s)' <=> Mapped(s) /\ s \notin S
  BY <1>1 DEF IInv, Mapped
<1>6. rss' \in [AS -> Int]
  BY <1>1, <1>3, <1>4 DEF IInv
<1>7. \A b \in live' : rss'[b] >= rss[b] - Cardinality(MappedIn(b) \cap S)
  <2> TAKE b \in live'
  <2>1. b \in AS /\ rss[b] \in Int /\ Cardinality(MappedIn(b) \cap S) \in Nat
    BY <1>1, <1>3 DEF IInv
  <2>2. rss'[b] = IF b = a THEN rss[b] - Unmapped(S) ELSE rss[b]
    BY <1>1, <2>1 DEF IInv
  <2> HIDE DEF MappedIn
  <2>3. CASE b = a
    BY <1>4, <2>1, <2>2, <2>3
  <2>4. CASE b # a
    BY <2>1, <2>2, <2>4
  <2> QED
    BY <2>3, <2>4
<1> QED
  BY <1>1, <1>5, <1>6, <1>7, Uncounted

LEMMA PageUnloadStep == ASSUME IInv, NEW p \in Page, PageUnload(p) PROVE IInv'
<1> DEFINE S == {s \in Slot : pte[s] = p}
<1>1. /\ S \in SUBSET Slot /\ live' = live /\ rss' = rss
      /\ pte' = [s \in Slot |-> IF pte[s] = p THEN None ELSE pte[s]]
  BY DEF PageUnload
<1>2. /\ pte' \in [Slot -> Page \cup {None}]
      /\ \A s \in Slot : Mapped(s)' <=> Mapped(s) /\ s \notin S
  BY <1>1, HatCountsAssumption DEF IInv, Mapped
<1> HIDE DEF S
<1>3. \A b \in live' : rss'[b] >= rss[b] - Cardinality(MappedIn(b) \cap S)
  <2> TAKE b \in live'
  <2>1. b \in AS /\ rss[b] \in Int
    BY <1>1 DEF IInv
  <2>2. Cardinality(MappedIn(b) \cap S) \in Nat
    BY <2>1, MappedInFinite, FS_Intersection, FS_CardinalityType
  <2> QED
    BY <1>1, <2>1, <2>2
<1>4. rss' \in [AS -> Int]
  BY <1>1 DEF IInv
<1> QED
  BY <1>1, <1>2, <1>3, <1>4, Uncounted

LEMMA DupStep ==
    ASSUME IInv, NEW a \in AS, NEW b \in AS, NEW v \in VA, NEW p \in Page,
           DupPage(a, b, v, p)
    PROVE  IInv'
<1>1. /\ b \in live /\ <<b, v>> \in {b} \X VA /\ live' = live
      /\ pte' = [pte EXCEPT ![<<b, v>>] = p] /\ rss' = [rss EXCEPT ![b] = @ + 1]
  BY DEF DupPage
<1> QED
  BY <1>1, Counted

LEMMA HatFreeStep == ASSUME IInv, NEW a \in AS, HatFree(a) PROVE IInv'
<1> DEFINE S == {a} \X VA
<1>1. /\ S \in SUBSET Slot /\ live' = live \ {a}
      /\ pte' = [s \in Slot |-> IF s \in S THEN None ELSE pte[s]]
      /\ rss' = [rss EXCEPT ![a] = @ - Unmapped(S)]
  BY DEF HatFree, Slot
<1>2. Unmapped(S) \in Nat
  BY MappedInFinite
<1>3. MappedIn(a) \subseteq S
  BY DEF MappedIn
<1> HIDE DEF S
<1>4. /\ pte' \in [Slot -> Page \cup {None}]
      /\ \A s \in Slot : Mapped(s)' <=> Mapped(s) /\ s \notin S
  BY <1>1 DEF IInv, Mapped
<1>5. rss' \in [AS -> Int]
  BY <1>1, <1>2 DEF IInv
<1>6. \A b \in live' : rss'[b] >= rss[b] - Cardinality(MappedIn(b) \cap S)
  <2> TAKE b \in live'
  <2>1. b \in AS /\ b # a /\ rss[b] \in Int
    BY <1>1 DEF IInv
  <2>2. Cardinality(MappedIn(b) \cap S) \in Nat
    BY <2>1, MappedInFinite, FS_Intersection, FS_CardinalityType
  <2> QED
    BY <1>1, <2>1, <2>2 DEF IInv
<1> QED
  BY <1>1, <1>3, <1>4, <1>5, <1>6, Uncounted

LEMMA NextIInv == IInv /\ [Next]_vars => IInv'
<1> SUFFICES ASSUME IInv, [Next]_vars PROVE IInv'
    OBVIOUS
<1>1. ASSUME NEW s \in Slot, NEW lock \in BOOLEAN, PteloadSame(s, lock) PROVE IInv'
  BY <1>1, LockStep DEF PteloadSame
<1>2. ASSUME NEW s \in Slot, HatUnlock(s) PROVE IInv'
  BY <1>2, LockStep DEF HatUnlock
<1>3. ASSUME NEW a \in AS, NEW R \in SUBSET VA \ {{}}, NEW unlock \in BOOLEAN,
             Unload(a, R, unlock)
      PROVE  IInv'
  BY <1>3, UnloadStep
<1>4. CASE UNCHANGED vars
  BY <1>4, LockStep DEF vars
<1> QED
  BY <1>1, <1>2, <1>3, <1>4, HatAllocStep, LoadStep, PageUnloadStep, DupStep,
     HatFreeStep DEF Next

-----------------------------------------------------------------------------

\* a_rss is never below the mappings of a live address space, so that the
\* subtractions of hat_unload and hat_free cannot take it below zero.
THEOREM RssNeverShort == Spec => []RssCovers
<1>1. IInv => RssCovers
  BY DEF IInv
<1> QED
  BY <1>1, InitIInv, NextIInv, PTL DEF Spec

-----------------------------------------------------------------------------
(* Bytes, and sums over finite sets.                                       *)

\* A remainder is known by its range.
LEMMA Remainder ==
    ASSUME NEW M \in Nat \ {0}, NEW a \in Int, NEW b \in 0..(M - 1)
    PROVE  (M * a + b) % M = b
<1> DEFINE y == M * a + b
<1>1. y \in Int
  OBVIOUS
<1>2. /\ y = M * (y \div M) + (y % M) /\ y \div M \in Int /\ y % M \in 0..(M - 1)
  BY <1>1, Z3
<1> DEFINE q == y \div M
           r == y % M
<1>3. y = M * q + r /\ q \in Int /\ r \in 0..(M - 1)
  BY <1>2
<1>31. M * a + b = M * q + r
  BY <1>3
<1> HIDE DEF q, r, y
<1>4. M * (a - q) = r - b
  BY <1>3, <1>31
<1>5. CASE a - q >= 1
  <2>1. M * (a - q) >= M
    BY <1>3, <1>5
  <2> QED
    BY <1>3, <1>4, <2>1
<1>6. CASE a - q <= -1
  <2>1. M * (a - q) <= -M
    BY <1>3, <1>6
  <2> QED
    BY <1>3, <1>4, <2>1
<1>7. CASE a = q
  <2>1. r = b
    BY <1>3, <1>4, <1>7
  <2> QED
    BY <2>1 DEF r, y
<1> QED
  BY <1>3, <1>5, <1>6, <1>7

\* Adding to a byte and to the number it stands for give the same byte.
LEMMA ModAdd ==
    ASSUME NEW s \in Int, NEW n \in Int, NEW M \in Nat \ {0}
    PROVE  ((s % M) + n) % M = (s + n) % M
<1>1. /\ s = M * (s \div M) + (s % M) /\ s \div M \in Int /\ s % M \in 0..(M - 1)
  OBVIOUS
<1> DEFINE x == (s % M) + n
<1>20. x \in Int
  BY <1>1
<1>2. /\ x = M * (x \div M) + (x % M) /\ x \div M \in Int /\ x % M \in 0..(M - 1)
  BY <1>20, Z3
<1>21. s + n = M * (s \div M) + x
  BY <1>1
<1> HIDE DEF x
<1>3. s + n = M * ((s \div M) + (x \div M)) + (x % M)
  BY <1>1, <1>2, <1>20, <1>21
<1> DEFINE a == (s \div M) + (x \div M)
           b == x % M
<1>31. a \in Int /\ b \in 0..(M - 1) /\ s + n = M * a + b
  BY <1>1, <1>2, <1>3
<1>4. (s + n) % M = x % M
  <2> HIDE DEF a
  <2>1. (M * a + b) % M = b
    <3> HIDE DEF b
    <3> QED
      BY <1>31, Remainder
  <2> QED
    BY <1>31, <2>1
<1> QED
  BY <1>4 DEF x

\* Induction over the subsets of a finite set.
LEMMA SubsetInduction ==
    ASSUME NEW V, IsFiniteSet(V), NEW Q \in SUBSET (SUBSET V),
           \A U \in SUBSET V : (\A W \in SUBSET U : W # U => W \in Q) => U \in Q
    PROVE  Q = SUBSET V
<1> DEFINE R == StrictSubsetOrdering(V)
           Bad == (SUBSET V) \ Q
<1>1. IsWellFoundedOn(R, SUBSET V)
  BY FS_StrictSubsetOrderingWellFounded, FS_FiniteSubsetsOfFinite
<1> SUFFICES ASSUME Bad # {} PROVE FALSE
    OBVIOUS
<1>2. PICK U \in Bad : \A W \in Bad : ~(<<W, U>> \in R)
  <2>1. Bad \subseteq SUBSET V
    OBVIOUS
  <2> HIDE DEF R, Bad
  <2> QED
    BY <1>1, <2>1, WFMin
<1>3. \A W \in SUBSET U : W # U => W \in Q
  BY <1>2 DEF StrictSubsetOrdering
<1> QED
  BY <1>2, <1>3

SumOf(f, S) == MapThenSumSet(LAMBDA s : f[s], S)
First(T) == CHOOSE x \in T : TRUE
Sums(f, S, it) ==
    it = [T \in SUBSET S |-> IF T = {} THEN 0 ELSE f[First(T)] + it[T \ {First(T)}]]

\* The fold is the choice of a function on the subsets of S.
LEMMA SumOfIter ==
    ASSUME NEW f, NEW S
    PROVE  SumOf(f, S) = (CHOOSE it : Sums(f, S, it))[S]
BY DEF SumOf, MapThenSumSet, MapThenFoldSet, Sums, First

\* Two such functions agree where both are defined.
LEMMA SumsAgree ==
    ASSUME NEW f, NEW S, NEW V \in SUBSET S, IsFiniteSet(V), NEW i, NEW j,
           Sums(f, S, i), Sums(f, V, j)
    PROVE  \A T \in SUBSET V : i[T] = j[T]
<1> DEFINE Q == {T \in SUBSET V : i[T] = j[T]}
<1>1. ASSUME NEW U \in SUBSET V, \A W \in SUBSET U : W # U => W \in Q
      PROVE  U \in Q
  <2>0. i[U] = (IF U = {} THEN 0 ELSE f[First(U)] + i[U \ {First(U)}])
    <3>1. U \in SUBSET S
      OBVIOUS
    <3> QED
      BY <3>1 DEF Sums
  <2>1. j[U] = (IF U = {} THEN 0 ELSE f[First(U)] + j[U \ {First(U)}])
    BY DEF Sums
  <2>2. U # {} => First(U) \in U
    BY DEF First
  <2>3. U # {} => U \ {First(U)} \in Q
    BY <1>1, <2>2
  <2> QED
    BY <2>0, <2>1, <2>3
<1>2. Q = SUBSET V
  <2> HIDE DEF Q
  <2>1. Q \in SUBSET (SUBSET V)
    BY DEF Q
  <2> QED
    BY <1>1, <2>1, SubsetInduction
<1> QED
  BY <1>2

\* There is one for every finite set.
LEMMA SumsExist ==
    ASSUME NEW f, NEW V, IsFiniteSet(V)
    PROVE  \E it : Sums(f, V, it)
<1> DEFINE Q == {T \in SUBSET V : \E it : Sums(f, T, it)}
<1>1. ASSUME NEW U \in SUBSET V, \A W \in SUBSET U : W # U => W \in Q
      PROVE  U \in Q
  <2> DEFINE Step(T) == IF T = {} THEN 0 ELSE f[First(T)] + SumOf(f, T \ {First(T)})
             it == [T \in SUBSET U |-> Step(T)]
  <2>1. ASSUME NEW T \in SUBSET U, T # U PROVE Step(T) = SumOf(f, T)
    <3> DEFINE jt == CHOOSE k : Sums(f, T, k)
               W == T \ {First(T)}
               jw == CHOOSE k : Sums(f, W, k)
    <3>1. Sums(f, T, jt)
      BY <1>1, <2>1
    <3>2. SumOf(f, T) = jt[T]
      BY SumOfIter
    <3>3. jt[T] = (IF T = {} THEN 0 ELSE f[First(T)] + jt[W])
      <4> HIDE DEF jt
      <4> QED
        BY <3>1 DEF Sums
    <3>4. ASSUME T # {} PROVE jt[W] = SumOf(f, W)
      <4>1. W \in SUBSET U /\ W # U /\ W \in SUBSET T
        BY <3>4, <2>1
      <4>2. Sums(f, W, jw)
        BY <1>1, <4>1
      <4>3. IsFiniteSet(W)
        <5>1. W \in SUBSET V
          BY <4>1
        <5> QED
          BY <5>1, FS_Subset
      <4>4. SumOf(f, W) = jw[W]
        BY SumOfIter
      <4>5. W \in SUBSET W
        OBVIOUS
      <4> HIDE DEF W, jw, jt
      <4> QED
        BY <3>1, <4>1, <4>2, <4>3, <4>4, <4>5, SumsAgree
    <3> HIDE DEF W, jt
    <3>5. T # {} => Step(T) = f[First(T)] + SumOf(f, W)
      BY DEF W
    <3> QED
      BY <3>2, <3>3, <3>4, <3>5
  <2>2. ASSUME NEW T \in SUBSET U, T # {} PROVE it[T \ {First(T)}] = SumOf(f, T \ {First(T)})
    <3> DEFINE W == T \ {First(T)}
    <3>1. First(T) \in T
      BY <2>2 DEF First
    <3>2. W \in SUBSET U /\ W # U
      BY <3>1
    <3>3. Step(W) = SumOf(f, W)
      <4> HIDE DEF W, Step
      <4> QED
        BY <2>1, <3>2
    <3> HIDE DEF Step, W
    <3>4. it[W] = Step(W)
      BY <3>2
    <3> QED
      BY <3>3, <3>4 DEF W
  <2>3. Sums(f, U, it)
    <3>1. ASSUME NEW T \in SUBSET U
          PROVE  Step(T) = IF T = {} THEN 0 ELSE f[First(T)] + it[T \ {First(T)}]
      <4> HIDE DEF it
      <4> QED
        BY <2>2
    <3>2. it = [T \in SUBSET U |-> IF T = {} THEN 0 ELSE f[First(T)] + it[T \ {First(T)}]]
      <4> DEFINE It == it
      <4>1. It = [T \in SUBSET U |-> Step(T)]
        OBVIOUS
      <4>2. \A T \in SUBSET U : Step(T) = IF T = {} THEN 0 ELSE f[First(T)] + It[T \ {First(T)}]
        BY <3>1
      <4> HIDE DEF It, Step, it
      <4>3. It = [T \in SUBSET U |-> IF T = {} THEN 0 ELSE f[First(T)] + It[T \ {First(T)}]]
        BY <4>1, <4>2
      <4> QED
        BY <4>3 DEF It
    <3> HIDE DEF it
    <3> QED
      BY <3>2 DEF Sums
  <2> QED
    BY <2>3
<1>2. Q = SUBSET V
  <2> HIDE DEF Q
  <2>1. Q \in SUBSET (SUBSET V)
    BY DEF Q
  <2> QED
    BY <1>1, <2>1, SubsetInduction
<1>3. V \in Q
  <2> HIDE DEF Q
  <2> QED
    BY <1>2
<1> QED
  BY <1>3

\* So the sum is what its recursion says.
LEMMA SumStep ==
    ASSUME NEW f, NEW V, IsFiniteSet(V)
    PROVE  SumOf(f, V) = IF V = {} THEN 0 ELSE f[First(V)] + SumOf(f, V \ {First(V)})
<1> DEFINE W == V \ {First(V)}
           i == CHOOSE k : Sums(f, V, k)
           j == CHOOSE k : Sums(f, W, k)
<1>1. W \in SUBSET V /\ IsFiniteSet(W)
  BY FS_Subset
<1>2. Sums(f, V, i)
  BY SumsExist
<1>3. Sums(f, W, j)
  <2> HIDE DEF W
  <2> QED
    BY <1>1, SumsExist
<1>4. SumOf(f, V) = i[V] /\ SumOf(f, W) = j[W]
  BY SumOfIter
<1>5. V \in SUBSET V /\ W \in SUBSET W
  OBVIOUS
<1>6. i[V] = IF V = {} THEN 0 ELSE f[First(V)] + i[V \ {First(V)}]
  <2> HIDE DEF i
  <2> QED
    BY <1>2, <1>5 DEF Sums
<1>7. i[W] = j[W]
  <2> HIDE DEF i, j, W
  <2> QED
    BY <1>1, <1>2, <1>3, <1>5, SumsAgree
<1> HIDE DEF i, j
<1> QED
  BY <1>4, <1>6, <1>7

\* A sum of naturals is a natural.
LEMMA SumType ==
    ASSUME NEW V, IsFiniteSet(V), NEW f, \A x \in V : f[x] \in Nat
    PROVE  \A U \in SUBSET V : SumOf(f, U) \in Nat
<1> DEFINE Q == {U \in SUBSET V : SumOf(f, U) \in Nat}
<1>1. ASSUME NEW U \in SUBSET V, \A W \in SUBSET U : W # U => W \in Q
      PROVE  U \in Q
  <2>1. IsFiniteSet(U)
    BY FS_Subset
  <2>2. U # {} => First(U) \in U
    BY DEF First
  <2>3. U # {} => SumOf(f, U \ {First(U)}) \in Nat
    BY <1>1, <2>2
  <2>4. SumOf(f, U) = IF U = {} THEN 0 ELSE f[First(U)] + SumOf(f, U \ {First(U)})
    BY <2>1, SumStep
  <2>5. U # {} => f[First(U)] \in Nat
    BY <2>2
  <2>6. SumOf(f, U) \in Nat
    BY <2>3, <2>4, <2>5
  <2> QED
    BY <2>6
<1>2. Q \in SUBSET (SUBSET V)
  OBVIOUS
<1> HIDE DEF Q
<1>3. Q = SUBSET V
  BY <1>1, <1>2, SubsetInduction
<1> QED
  BY <1>3 DEF Q

\* A sum of zeros.
LEMMA SumZero ==
    ASSUME NEW V, IsFiniteSet(V), NEW f, \A x \in V : f[x] = 0
    PROVE  SumOf(f, V) = 0
<1> DEFINE Q == {U \in SUBSET V : SumOf(f, U) = 0}
<1>1. ASSUME NEW U \in SUBSET V, \A W \in SUBSET U : W # U => W \in Q
      PROVE  U \in Q
  <2>1. SumOf(f, U) = IF U = {} THEN 0 ELSE f[First(U)] + SumOf(f, U \ {First(U)})
    BY FS_Subset, SumStep
  <2>2. U # {} => First(U) \in U
    BY DEF First
  <2>3. U # {} => SumOf(f, U \ {First(U)}) = 0 /\ f[First(U)] = 0
    BY <1>1, <2>2
  <2> QED
    BY <2>1, <2>3
<1>2. Q \in SUBSET (SUBSET V)
  OBVIOUS
<1> HIDE DEF Q
<1>3. Q = SUBSET V
  BY <1>1, <1>2, SubsetInduction
<1>4. V \in Q
  BY <1>3
<1> QED
  BY <1>4 DEF Q

\* Any term can be taken out first.
LEMMA SumRemove ==
    ASSUME NEW V, IsFiniteSet(V), NEW f, \A x \in V : f[x] \in Nat
    PROVE  \A U \in SUBSET V : \A x \in U : SumOf(f, U) = f[x] + SumOf(f, U \ {x})
<1> DEFINE Q == {U \in SUBSET V : \A x \in U : SumOf(f, U) = f[x] + SumOf(f, U \ {x})}
<1>1. ASSUME NEW U \in SUBSET V, \A W \in SUBSET U : W # U => W \in Q, NEW x \in U
      PROVE  SumOf(f, U) = f[x] + SumOf(f, U \ {x})
  <2> DEFINE y == First(U)
  <2>1. y \in U /\ SumOf(f, U) = f[y] + SumOf(f, U \ {y})
    <3>1. IsFiniteSet(U)
      BY FS_Subset
    <3>2. y \in U
      BY DEF First
    <3> QED
      BY <3>1, <3>2, SumStep
  <2> HIDE DEF y
  <2>2. CASE y = x
    BY <2>1, <2>2
  <2>3. CASE y # x
    <3>1. U \ {y} \in Q /\ U \ {x} \in Q /\ x \in U \ {y} /\ y \in U \ {x}
      BY <1>1, <2>1, <2>3
    <3>2. SumOf(f, U \ {y}) = f[x] + SumOf(f, (U \ {y}) \ {x})
      BY <3>1
    <3>3. SumOf(f, U \ {x}) = f[y] + SumOf(f, (U \ {x}) \ {y})
      BY <3>1
    <3>4. (U \ {x}) \ {y} = (U \ {y}) \ {x}
      OBVIOUS
    <3>5. SumOf(f, (U \ {y}) \ {x}) \in Nat
      BY SumType
    <3> QED
      BY <2>1, <3>2, <3>3, <3>4, <3>5
  <2> QED
    BY <2>2, <2>3
<1>2. Q \in SUBSET (SUBSET V)
  OBVIOUS
<1>3. Q = SUBSET V
  <2>1. ASSUME NEW U \in SUBSET V, \A W \in SUBSET U : W # U => W \in Q
        PROVE  U \in Q
    BY <1>1, <2>1
  <2> HIDE DEF Q
  <2> QED
    BY <1>2, <2>1, SubsetInduction
<1> HIDE DEF Q
<1> QED
  BY <1>3 DEF Q

\* A sum whose terms fall by 1 on F and stay elsewhere falls by |F|.
LEMMA SumLess ==
    ASSUME NEW V, IsFiniteSet(V), NEW f, NEW g, NEW F,
           \A x \in V : f[x] \in Nat /\ g[x] \in Nat,
           \A x \in V : f[x] = g[x] + (IF x \in F THEN 1 ELSE 0)
    PROVE  SumOf(f, V) = SumOf(g, V) + Cardinality(V \cap F)
<1> DEFINE Q == {U \in SUBSET V : SumOf(f, U) = SumOf(g, U) + Cardinality(U \cap F)}
<1>1. ASSUME NEW U \in SUBSET V, \A W \in SUBSET U : W # U => W \in Q
      PROVE  SumOf(f, U) = SumOf(g, U) + Cardinality(U \cap F)
  <2>1. IsFiniteSet(U) /\ IsFiniteSet(U \cap F)
    BY FS_Subset
  <2>2. CASE U = {}
    <3>1. U \cap F = {} /\ Cardinality(U \cap F) = 0
      BY <2>2, FS_EmptySet
    <3>2. SumOf(f, U) = 0 /\ SumOf(g, U) = 0
      BY <2>1, <2>2, SumStep
    <3> QED
      BY <3>1, <3>2
  <2>3. CASE U # {}
    <3>1. PICK x \in U : TRUE
      BY <2>3
    <3> DEFINE W == U \ {x}
    <3>2. W \in SUBSET V /\ W \in Q /\ x \in V
      BY <1>1, <3>1
    <3>3. SumOf(f, U) = f[x] + SumOf(f, W) /\ SumOf(g, U) = g[x] + SumOf(g, W)
      BY SumRemove
    <3>4. SumOf(f, W) = SumOf(g, W) + Cardinality(W \cap F)
      BY <3>2
    <3>5. /\ SumOf(g, W) \in Nat /\ SumOf(f, W) \in Nat
          /\ f[x] \in Nat /\ g[x] \in Nat
      BY <3>2, SumType
    <3>6. IsFiniteSet(W \cap F) /\ Cardinality(W \cap F) \in Nat
      BY <2>1, FS_Subset, FS_CardinalityType
    <3>7. CASE x \in F
      <4>1. U \cap F = (W \cap F) \cup {x} /\ x \notin W \cap F
        BY <3>1, <3>7
      <4>2. Cardinality(U \cap F) = Cardinality(W \cap F) + 1
        <5> HIDE DEF W
        <5> QED
          BY <3>6, <4>1, FS_AddElement
      <4>3. f[x] = g[x] + 1
        BY <3>2, <3>7
      <4> HIDE DEF W
      <4> QED
        BY <3>3, <3>4, <3>5, <3>6, <4>2, <4>3
    <3>8. CASE x \notin F
      <4>1. U \cap F = W \cap F
        BY <3>1, <3>8
      <4>2. f[x] = g[x]
        BY <3>2, <3>5, <3>8
      <4>3. Cardinality(U \cap F) = Cardinality(W \cap F)
        BY <4>1
      <4> HIDE DEF W
      <4> QED
        BY <3>3, <3>4, <3>5, <3>6, <4>2, <4>3
    <3> QED
      BY <3>7, <3>8
  <2> QED
    BY <2>2, <2>3
<1>2. Q \in SUBSET (SUBSET V)
  OBVIOUS
<1>3. Q = SUBSET V
  <2>1. ASSUME NEW U \in SUBSET V, \A W \in SUBSET U : W # U => W \in Q
        PROVE  U \in Q
    BY <1>1, <2>1
  <2> HIDE DEF Q
  <2> QED
    BY <1>2, <2>1, SubsetInduction
<1> QED
  <2>1. V \in Q
    <3> HIDE DEF Q
    <3> QED
      BY <1>3
  <2> QED
    BY <2>1

-----------------------------------------------------------------------------
(* pt_keepcnt against the softlocks.                                       *)

LInv ==
    /\ tables \subseteq Table
    /\ locks \in [Slot -> Nat]
    /\ keep \in [Table -> Nat]
    /\ \A s \in Slot : Mapped(s) => TableOf(s) \in tables
    /\ \A s \in Slot : locks[s] > 0 => Mapped(s)
    /\ LocksBalanced

LEMMA TableType ==
    /\ \A s \in Slot : TableOf(s) \in Table /\ TableOf(s)[1] = s[1]
    /\ \A t \in Table : InTable(t) \subseteq Slot /\ IsFiniteSet(InTable(t))
<1>1. \A s \in Slot : TableOf(s) \in Table /\ TableOf(s)[1] = s[1]
  BY HatCountsAssumption DEF TableOf, Table, Slot
<1>2. IsFiniteSet(Slot)
  BY HatCountsAssumption, FS_Product DEF Slot
<1>3. \A t \in Table : InTable(t) \subseteq Slot
  BY DEF InTable
<1>4. \A t \in Table : IsFiniteSet(InTable(t))
  BY <1>2, <1>3, FS_Subset
<1> QED
  BY <1>1, <1>3, <1>4

\* A lock less on each descriptor of F.
LEMMA Lowered ==
    ASSUME NEW t \in Table, NEW f \in [Slot -> Nat], NEW g \in [Slot -> Nat],
           NEW F \in SUBSET Slot, \A s \in F : f[s] = g[s] + 1,
           \A s \in Slot \ F : g[s] = f[s]
    PROVE  /\ SumOf(f, InTable(t)) \in Nat /\ SumOf(g, InTable(t)) \in Nat
           /\ Cardinality(InTable(t) \cap F) \in Nat
           /\ SumOf(f, InTable(t)) = SumOf(g, InTable(t)) + Cardinality(InTable(t) \cap F)
<1> DEFINE V == InTable(t)
<1>1. IsFiniteSet(V) /\ V \in SUBSET V /\ V \subseteq Slot
  BY TableType
<1>11. \A s \in V : f[s] \in Nat /\ g[s] \in Nat
  BY <1>1
<1>12. \A s \in V : f[s] = g[s] + (IF s \in F THEN 1 ELSE 0)
  BY <1>1
<1>2. Cardinality(V \cap F) \in Nat
  BY <1>1, FS_Intersection, FS_CardinalityType
<1> HIDE DEF V
<1>3. SumOf(f, V) \in Nat
  BY <1>1, <1>11, SumType
<1>4. SumOf(g, V) \in Nat
  BY <1>1, <1>11, SumType
<1>5. SumOf(f, V) = SumOf(g, V) + Cardinality(V \cap F)
  BY <1>1, <1>11, <1>12, SumLess
<1> QED
  BY <1>2, <1>3, <1>4, <1>5 DEF V

\* A lock more on s, or none.
LEMMA Raised ==
    ASSUME NEW t \in Table, NEW f \in [Slot -> Nat], NEW s \in Slot, NEW lock \in BOOLEAN
    PROVE  LET g == [f EXCEPT ![s] = @ + Bit(lock)]
           IN  /\ g \in [Slot -> Nat]
               /\ SumOf(f, InTable(t)) \in Nat
               /\ SumOf(g, InTable(t)) = SumOf(f, InTable(t))
                     + (IF t = TableOf(s) THEN Bit(lock) ELSE 0)
<1> DEFINE g == [f EXCEPT ![s] = @ + Bit(lock)]
           F == IF lock THEN {s} ELSE {}
<1>1. /\ g \in [Slot -> Nat]
      /\ F \in SUBSET Slot /\ \A x \in F : g[x] = f[x] + 1
      /\ \A x \in Slot \ F : g[x] = f[x]
  BY DEF Bit
<1>2. Cardinality(InTable(t) \cap F) = IF t = TableOf(s) THEN Bit(lock) ELSE 0
  <2>1. CASE lock /\ t = TableOf(s)
    <3>1. InTable(t) \cap F = {s}
      BY <2>1 DEF InTable
    <3> QED
      BY <2>1, <3>1, FS_Singleton DEF Bit
  <2>2. CASE ~(lock /\ t = TableOf(s))
    <3>1. InTable(t) \cap F = {}
      BY <2>2 DEF InTable
    <3> QED
      BY <2>2, <3>1, FS_EmptySet DEF Bit
  <2> QED
    BY <2>1, <2>2
<1> HIDE DEF g, F
<1>3. /\ SumOf(f, InTable(t)) \in Nat
      /\ SumOf(g, InTable(t)) = SumOf(f, InTable(t)) + Cardinality(InTable(t) \cap F)
  BY <1>1, Lowered
<1> QED
  BY <1>1, <1>2, <1>3 DEF g

\* KeepPlus keeps the byte in step with the sum.
LEMMA Stepped ==
    ASSUME NEW t \in Table, NEW u \in Int, NEW w \in Int, NEW n \in Int,
           keep[t] = u % ByteMod, w = u + n
    PROVE  (keep[t] + n) % ByteMod = w % ByteMod /\ w % ByteMod \in Nat
<1>1. ByteMod \in Nat \ {0}
  BY HatCountsAssumption
<1>2. ((u % ByteMod) + n) % ByteMod = (u + n) % ByteMod
  BY <1>1, ModAdd
<1>3. w % ByteMod \in Nat
  BY <1>1
<1> QED
  BY <1>2, <1>3

LEMMA Balanced ==
    LocksBalanced <=> \A t \in tables : keep[t] = SumOf(locks, InTable(t)) % ByteMod
BY DEF LocksBalanced, SumOf

LEMMA BalancedNext ==
    LocksBalanced' <=> \A t \in tables' : keep'[t] = SumOf(locks', InTable(t)) % ByteMod
BY DEF LocksBalanced, SumOf, MapThenSumSet, MapThenFoldSet, InTable, TableOf

LEMMA Reduced == ASSUME LInv, NEW t \in tables PROVE keep[t] = keep[t] % ByteMod
<1> DEFINE b == SumOf(locks, InTable(t))
<1>1. b \in Nat
  <2>1. /\ IsFiniteSet(InTable(t)) /\ InTable(t) \in SUBSET InTable(t)
        /\ \A s \in InTable(t) : locks[s] \in Nat
    BY TableType DEF LInv
  <2> QED
    BY <2>1, SumType
<1>2. keep[t] = b % ByteMod
  BY Balanced DEF LInv
<1> HIDE DEF b
<1>3. keep[t] \in 0..(ByteMod - 1)
  BY <1>1, <1>2, HatCountsAssumption
<1> QED
  BY <1>3, HatCountsAssumption

\* A table without mappings has no softlock, and its sum is 0.
LEMMA NoLocks ==
    ASSUME LInv, NEW t \in Table, t \notin tables
    PROVE  SumOf(locks, InTable(t)) = 0
<1> DEFINE V == InTable(t)
<1>1. \A s \in V : locks[s] = 0
  <2> TAKE s \in V
  <2>1. s \in Slot /\ ~Mapped(s)
    BY DEF LInv, InTable
  <2> QED
    BY <2>1 DEF LInv
<1> HIDE DEF V
<1>2. IsFiniteSet(V)
  BY TableType DEF V
<1>3. SumOf(locks, V) = 0
  BY <1>1, <1>2, SumZero
<1> QED
  BY <1>3 DEF V

\* A mapping of s loaded, with a lock or without; the table may be new.
LEMMA LoadLocks ==
    ASSUME LInv, NEW s \in Slot, NEW lock \in BOOLEAN, 
           locks' = [locks EXCEPT ![s] = @ + Bit(lock)],
           tables' = tables \cup {TableOf(s)},
           keep' = IF TableOf(s) \in tables
                   THEN [keep EXCEPT ![TableOf(s)] = (@ + Bit(lock)) % ByteMod]
                   ELSE [keep EXCEPT ![TableOf(s)] = Bit(lock)],
           \A x \in Slot : Mapped(x)' <=> Mapped(x) \/ x = s
    PROVE  LInv'
<1> DEFINE t == TableOf(s)
<1>1. t \in Table /\ tables' \subseteq Table /\ Bit(lock) \in {0, 1}
  BY TableType DEF LInv, Bit
<1>2. \A u \in Table :
         /\ locks' \in [Slot -> Nat] /\ SumOf(locks, InTable(u)) \in Nat
         /\ SumOf(locks', InTable(u)) = SumOf(locks, InTable(u))
               + (IF u = t THEN Bit(lock) ELSE 0)
  BY Raised DEF LInv
<1>3. ASSUME NEW u \in tables'
      PROVE  keep'[u] = SumOf(locks', InTable(u)) % ByteMod
  <2> HIDE DEF t
  <2>1. u \in Table /\ keep[u] \in Nat
    BY <1>1 DEF LInv
  <2>2. CASE u # t
    <3>1. keep'[u] = keep[u] /\ u \in tables
      BY <2>1, <2>2, <1>1 DEF LInv, t
    <3>2. SumOf(locks', InTable(u)) = SumOf(locks, InTable(u))
      <4>1. /\ SumOf(locks', InTable(u)) = SumOf(locks, InTable(u)) + 0
            /\ SumOf(locks, InTable(u)) \in Nat
        BY <1>2, <2>1, <2>2
      <4> QED
        BY <4>1
    <3> QED
      BY <3>1, <3>2, Balanced DEF LInv
  <2>3. CASE u = t /\ t \in tables
    <3>1. keep'[t] = (keep[t] + Bit(lock)) % ByteMod
      BY <2>3, <1>1 DEF LInv, t
    <3>2. keep[t] = SumOf(locks, InTable(t)) % ByteMod
      BY <2>3, Balanced DEF LInv
    <3>3. SumOf(locks', InTable(t)) = SumOf(locks, InTable(t)) + Bit(lock)
      BY <1>1, <1>2
    <3>4. SumOf(locks, InTable(t)) \in Int /\ SumOf(locks', InTable(t)) \in Int /\ Bit(lock) \in Int
      BY <1>1, <1>2, <3>3
    <3> QED
      BY <1>1, <2>3, <3>1, <3>2, <3>3, <3>4, Stepped
  <2>4. CASE u = t /\ t \notin tables
    <3>1. keep'[t] = Bit(lock)
      BY <2>4, <1>1 DEF LInv, t
    <3>2. SumOf(locks', InTable(t)) = Bit(lock)
      <4>1. SumOf(locks, InTable(t)) = 0
        BY <1>1, <2>4, NoLocks
      <4>2. SumOf(locks', InTable(t)) = 0 + Bit(lock)
        BY <1>1, <1>2, <4>1
      <4> QED
        BY <1>1, <4>2
    <3>3. Bit(lock) % ByteMod = Bit(lock)
      BY <1>1, HatCountsAssumption
    <3> QED
      BY <2>4, <3>1, <3>2, <3>3
  <2> QED
    BY <2>2, <2>3, <2>4
<1>4. keep' \in [Table -> Nat]
  <2>1. CASE t \in tables
    <3>1. (keep[t] + Bit(lock)) % ByteMod \in Nat
      BY <1>1, HatCountsAssumption DEF LInv
    <3> QED
      BY <1>1, <2>1, <3>1 DEF LInv
  <2>2. CASE t \notin tables
    BY <1>1, <2>2 DEF LInv
  <2> QED
    BY <2>1, <2>2
<1>5. locks' \in [Slot -> Nat]
  BY <1>1, <1>2
<1>6. \A x \in Slot : Mapped(x)' => TableOf(x) \in tables'
  BY DEF LInv
<1>7. \A x \in Slot : locks'[x] > 0 => Mapped(x)'
  BY DEF LInv
<1>8. LocksBalanced'
  BY <1>3, BalancedNext
<1>9. \A x \in Slot : TableOf(x)' = TableOf(x)
  BY DEF TableOf
<1> QED
  BY <1>1, <1>4, <1>5, <1>6, <1>7, <1>8, <1>9 DEF LInv

\* A lock taken off each descriptor of F, and off the bytes.
LEMMA DropLocks ==
    ASSUME LInv, NEW F \in SUBSET Slot, tables' = tables,
           \A s \in F : locks[s] = locks'[s] + 1,
           locks' \in [Slot -> Nat], \A s \in Slot \ F : locks'[s] = locks[s],
           keep' \in [Table -> Int],
           \A t \in tables : keep'[t] = (keep[t] - Cardinality(InTable(t) \cap F)) % ByteMod,
           \A t \in Table \ tables : keep'[t] \in Nat,
           \A x \in Slot : Mapped(x)' => Mapped(x),
           \A x \in Slot : locks'[x] > 0 => Mapped(x)'
    PROVE  LInv'
<1>1. ASSUME NEW t \in tables
      PROVE  keep'[t] = SumOf(locks', InTable(t)) % ByteMod /\ keep'[t] \in Nat
  <2>1. t \in Table /\ locks \in [Slot -> Nat]
    BY DEF LInv
  <2>3. /\ SumOf(locks, InTable(t)) \in Nat /\ SumOf(locks', InTable(t)) \in Nat
        /\ Cardinality(InTable(t) \cap F) \in Nat
        /\ SumOf(locks, InTable(t)) = SumOf(locks', InTable(t)) + Cardinality(InTable(t) \cap F)
    BY <2>1, Lowered
  <2> DEFINE n == Cardinality(InTable(t) \cap F)
  <2>4. keep[t] = SumOf(locks, InTable(t)) % ByteMod
    BY Balanced DEF LInv
  <2>5. keep'[t] = (keep[t] + (-n)) % ByteMod
    <3>1. keep[t] - n = keep[t] + (-n)
      BY <2>1, <2>3 DEF LInv
    <3> QED
      BY <3>1
  <2>51. /\ SumOf(locks, InTable(t)) \in Nat /\ SumOf(locks', InTable(t)) \in Nat
         /\ n \in Nat
         /\ SumOf(locks, InTable(t)) = SumOf(locks', InTable(t)) + n
    BY <2>3
  <2> HIDE DEF n
  <2>6. /\ SumOf(locks, InTable(t)) \in Int /\ SumOf(locks', InTable(t)) \in Int
        /\ -n \in Int
        /\ SumOf(locks', InTable(t)) = SumOf(locks, InTable(t)) + (-n)
    BY <2>51
  <2>7. /\ (keep[t] + (-n)) % ByteMod = SumOf(locks', InTable(t)) % ByteMod
        /\ SumOf(locks', InTable(t)) % ByteMod \in Nat
    BY <2>1, <2>4, <2>6, Stepped
  <2> QED
    BY <2>5, <2>7
<1>2. keep' \in [Table -> Nat]
  BY <1>1 DEF LInv
<1>3. LocksBalanced'
  BY <1>1, BalancedNext
<1>4. \A x \in Slot : TableOf(x)' = TableOf(x)
  BY DEF TableOf
<1> QED
  BY <1>2, <1>3, <1>4 DEF LInv

LEMMA InitLInv == Init => LInv
<1> SUFFICES ASSUME Init PROVE LInv
    OBVIOUS
<1>1. \A s \in Slot : ~Mapped(s)
  BY DEF Init, Mapped
<1> QED
  BY <1>1 DEF Init, LInv, LocksBalanced

LEMMA LockedLoadStep ==
    ASSUME IInv, LInv, NEW s \in Slot, NEW lock \in BOOLEAN,
           \/ \E p \in Page : PteloadFresh(s, p, lock)
           \/ PteloadSame(s, lock)
    PROVE  LInv'
<1>1. locks' = [locks EXCEPT ![s] = @ + Bit(lock)]
  BY DEF PteloadFresh, PteloadSame, Locking
<1>2. tables' = tables \cup {TableOf(s)}
  BY DEF PteloadFresh, PteloadSame, LInv
<1>3. \A x \in Slot : Mapped(x)' <=> Mapped(x) \/ x = s
  BY HatCountsAssumption DEF PteloadFresh, PteloadSame, Mapped, IInv
<1>4. keep' = IF TableOf(s) \in tables
              THEN [keep EXCEPT ![TableOf(s)] = (@ + Bit(lock)) % ByteMod]
              ELSE [keep EXCEPT ![TableOf(s)] = Bit(lock)]
  BY DEF PteloadFresh, PteloadSame, KeepPlus, LInv
<1> QED
  BY <1>1, <1>2, <1>3, <1>4, LoadLocks

\* A step that leaves the tables, the bytes and the softlocks alone, and every
\* locked descriptor mapped.
LEMMA SameLocks ==
    ASSUME LInv, UNCHANGED <<tables, keep, locks>>,
           \A x \in Slot : Mapped(x)' => Mapped(x),
           \A x \in Slot : locks[x] > 0 => Mapped(x)'
    PROVE  LInv'
<1>1. LocksBalanced'
  <2>1. \A t \in tables : keep[t] = SumOf(locks, InTable(t)) % ByteMod
    BY Balanced DEF LInv
  <2> QED
    BY <2>1, BalancedNext
<1>2. \A x \in Slot : TableOf(x)' = TableOf(x)
  BY DEF TableOf
<1> QED
  BY <1>1, <1>2 DEF LInv

LEMMA ReplaceLocks ==
    ASSUME IInv, LInv, ~LockedReplace, NEW s \in Slot, NEW p \in Page,
           NEW lock \in BOOLEAN, PteloadReplace(s, p, lock)
    PROVE  LInv'
<1>1. locks' = [locks EXCEPT ![s] = @ + 0] /\ locks \in [Slot -> Nat]
  BY DEF PteloadReplace, Locking, Bit, LInv
<1>2. locks' = locks
  BY <1>1
<1>3. \A x \in Slot : Mapped(x)' <=> Mapped(x)
  BY HatCountsAssumption DEF PteloadReplace, Mapped, IInv
<1> QED
  BY <1>2, <1>3, SameLocks DEF PteloadReplace, LInv

LEMMA UnlockLocks == ASSUME LInv, NEW s \in Slot, HatUnlock(s) PROVE LInv'
<1> DEFINE t0 == TableOf(s)
<1>1. /\ locks' \in [Slot -> Nat] /\ locks[s] = locks'[s] + 1
      /\ \A x \in Slot \ {s} : locks'[x] = locks[x]
  BY DEF HatUnlock, LInv
<1>2. t0 \in Table
  BY TableType
<1>3. (keep[t0] + -1) % ByteMod \in Int
  BY <1>2, HatCountsAssumption DEF LInv
<1> HIDE DEF t0
<1>4. keep' = [keep EXCEPT ![t0] = (@ + -1) % ByteMod] /\ keep' \in [Table -> Int]
  BY <1>2, <1>3 DEF HatUnlock, KeepPlus, LInv, t0
<1>5. ASSUME NEW t \in tables
      PROVE  keep'[t] = (keep[t] - Cardinality(InTable(t) \cap {s})) % ByteMod
  <2>0. t \in Table /\ keep[t] \in Nat
    BY DEF LInv
  <2>1. CASE t = t0
    <3>1. InTable(t) \cap {s} = {s}
      BY <2>1 DEF InTable, t0
    <3>2. Cardinality(InTable(t) \cap {s}) = 1
      BY <3>1, FS_Singleton
    <3>3. keep[t] + -1 = keep[t] - 1
      BY <2>0
    <3> QED
      BY <1>4, <2>0, <2>1, <3>2, <3>3
  <2>2. CASE t # t0
    <3>1. InTable(t) \cap {s} = {}
      BY <2>2 DEF InTable, t0
    <3>2. Cardinality(InTable(t) \cap {s}) = 0
      BY <3>1, FS_EmptySet
    <3>3. keep'[t] = keep[t]
      BY <1>4, <2>0, <2>2
    <3>4. keep[t] = keep[t] % ByteMod
      BY Reduced
    <3>5. keep[t] - 0 = keep[t]
      BY <2>0
    <3> QED
      BY <3>2, <3>3, <3>4, <3>5
  <2> QED
    BY <2>1, <2>2
<1>6. t0 \in tables
  BY DEF HatUnlock, LInv, t0
<1>7. \A t \in Table \ tables : keep'[t] \in Nat
  BY <1>4, <1>6 DEF LInv
<1>8. UNCHANGED <<tables, pte>>
  BY DEF HatUnlock
<1>9. \A x \in Slot : Mapped(x)' <=> Mapped(x)
  BY <1>8 DEF Mapped
<1>10. \A x \in Slot : locks'[x] > 0 => Mapped(x)'
  BY <1>1, <1>9 DEF LInv
<1> QED
  BY <1>1, <1>4, <1>5, <1>7, <1>8, <1>9, <1>10, DropLocks

LEMMA UnloadLocks ==
    ASSUME IInv, LInv, NEW a \in AS, NEW R \in SUBSET VA, NEW unlock \in BOOLEAN,
           Unload(a, R, unlock)
    PROVE  LInv'
<1> DEFINE S == {a} \X R
           M == {s \in S : Mapped(s)}
           F == IF unlock THEN M ELSE {}
<1>0. S \in SUBSET Slot /\ F \in SUBSET Slot /\ M \subseteq S
  BY DEF Slot
<1>1. /\ \A s \in S : locks[s] = Bit(unlock /\ Mapped(s))
      /\ pte' = [s \in Slot |-> IF s \in S THEN None ELSE pte[s]]
      /\ keep' = [t \in Table |->
                      IF unlock /\ t \in tables
                      THEN (keep[t] - Unmapped(S \cap InTable(t))) % ByteMod
                      ELSE keep[t]]
      /\ locks' = [s \in Slot |-> IF s \in M THEN 0 ELSE locks[s]]
      /\ tables' = tables
  BY DEF Unload
<1>2. \A t \in Table : unlock => Unmapped(S \cap InTable(t)) = Cardinality(InTable(t) \cap F)
  <2> TAKE t \in Table
  <2>1. {s \in S \cap InTable(t) : Mapped(s)} = InTable(t) \cap M
    OBVIOUS
  <2> QED
    BY <2>1 DEF Unmapped
<1>3. \A s \in F : locks[s] = 1
  BY <1>0, <1>1 DEF Bit
<1>4. \A s \in M \ F : locks[s] = 0
  BY <1>0, <1>1 DEF Bit
<1>5. unlock \/ F = {}
  OBVIOUS
<1>51. F \subseteq M
  OBVIOUS
<1>52. \A s \in S \ M : locks[s] = 0
  BY <1>0, <1>1 DEF Bit
<1>53. \A x \in Slot : Mapped(x)' <=> Mapped(x) /\ x \notin S
  BY <1>0, <1>1 DEF Mapped
<1> HIDE DEF S, M, F
<1>6. /\ locks' \in [Slot -> Nat]
      /\ \A s \in F : locks[s] = locks'[s] + 1
      /\ \A s \in Slot \ F : locks'[s] = locks[s]
  BY <1>0, <1>1, <1>3, <1>4, <1>51 DEF LInv
<1>7. \A t \in Table : Cardinality(InTable(t) \cap F) \in Nat
  BY TableType, FS_Intersection, FS_CardinalityType
<1>8. ASSUME NEW t \in tables
      PROVE  /\ keep'[t] = (keep[t] - Cardinality(InTable(t) \cap F)) % ByteMod
             /\ keep'[t] \in Int
  <2>1. t \in Table /\ keep[t] \in Nat
    BY DEF LInv
  <2>2. CASE unlock
    <3>1. keep'[t] = (keep[t] - Cardinality(InTable(t) \cap F)) % ByteMod
      BY <1>1, <1>2, <2>1, <2>2
    <3> QED
      BY <1>7, <2>1, <3>1, HatCountsAssumption
  <2>3. CASE ~unlock
    <3>1. keep'[t] = keep[t] /\ InTable(t) \cap F = {}
      BY <1>1, <1>5, <2>1, <2>3
    <3>2. keep[t] - Cardinality(InTable(t) \cap F) = keep[t]
      <4>1. Cardinality(InTable(t) \cap F) = 0
        BY <3>1, FS_EmptySet
      <4>2. keep[t] - 0 = keep[t]
        BY <2>1
      <4> QED
        BY <4>1, <4>2
    <3>3. keep[t] = keep[t] % ByteMod
      BY Reduced
    <3> QED
      BY <2>1, <3>1, <3>2, <3>3
  <2> QED
    BY <2>2, <2>3
<1>9. \A t \in Table \ tables : keep'[t] \in Nat
  BY <1>1 DEF LInv
<1>10. keep' \in [Table -> Int]
  <2>1. \A t \in Table : keep'[t] \in Int
    <3> TAKE t \in Table
    <3>1. CASE t \in tables
      BY <1>8, <3>1
    <3>2. CASE t \notin tables
      BY <1>9, <3>2
    <3> QED
      BY <3>1, <3>2
  <2>2. keep' = [t \in Table |-> keep'[t]]
    BY <1>1
  <2> QED
    BY <2>1, <2>2
<1>11. \A x \in Slot : locks'[x] > 0 => Mapped(x)'
  BY <1>1, <1>52, <1>53, <1>6 DEF LInv
<1> QED
  BY <1>0, <1>1, <1>53, <1>6, <1>8, <1>9, <1>10, <1>11, DropLocks

LEMMA PageUnloadLocks == ASSUME LInv, NEW p \in Page, PageUnload(p) PROVE LInv'
<1>1. UNCHANGED <<tables, keep, locks>>
  BY DEF PageUnload
<1>2. \A x \in Slot : Mapped(x)' <=> Mapped(x) /\ pte[x] # p
  BY HatCountsAssumption DEF PageUnload, Mapped
<1>3. \A x \in Slot : locks[x] > 0 => pte[x] # p
  BY DEF PageUnload, LInv
<1> QED
  BY <1>1, <1>2, <1>3, SameLocks DEF LInv

LEMMA DupLocks ==
    ASSUME IInv, LInv, NEW a \in AS, NEW b \in AS, NEW v \in VA, NEW p \in Page,
           DupPage(a, b, v, p)
    PROVE  LInv'
<1> DEFINE c == <<b, v>>
<1>1. c \in Slot /\ TableOf(c) \in Table
  BY TableType DEF Slot
<1> HIDE DEF c
<1>2. /\ locks' = [locks EXCEPT ![c] = @ + Bit(FALSE)]
      /\ tables' = tables \cup {TableOf(c)}
  BY <1>1 DEF DupPage, Bit, LInv, c
<1>3. keep' = IF TableOf(c) \in tables
              THEN [keep EXCEPT ![TableOf(c)] = (@ + Bit(FALSE)) % ByteMod]
              ELSE [keep EXCEPT ![TableOf(c)] = Bit(FALSE)]
  <2>1. keep' = IF TableOf(c) \in tables THEN keep ELSE [keep EXCEPT ![TableOf(c)] = 0]
    BY DEF DupPage, c
  <2>2. ASSUME TableOf(c) \in tables
        PROVE  (keep[TableOf(c)] + 0) % ByteMod = keep[TableOf(c)]
    <3>1. keep[TableOf(c)] = keep[TableOf(c)] % ByteMod
      BY <2>2, Reduced
    <3>2. keep[TableOf(c)] + 0 = keep[TableOf(c)]
      BY <1>1 DEF LInv
    <3> QED
      BY <3>1, <3>2
  <2> QED
    BY <1>1, <2>1, <2>2 DEF Bit, LInv
<1>4. \A x \in Slot : Mapped(x)' <=> Mapped(x) \/ x = c
  BY HatCountsAssumption DEF DupPage, Mapped, IInv, c
<1> QED
  BY <1>1, <1>2, <1>3, <1>4, LoadLocks

LEMMA FreeLocks == ASSUME IInv, LInv, NEW a \in AS, HatFree(a) PROVE LInv'
<1>1. /\ \A s \in Slot : s[1] = a => locks[s] = 0
      /\ tables' = {t \in tables : t[1] # a}
      /\ pte' = [s \in Slot |-> IF s[1] = a THEN None ELSE pte[s]]
      /\ keep' = [t \in Table |-> IF t[1] = a THEN 0 ELSE keep[t]]
      /\ locks' = locks
  BY DEF HatFree, Slot
<1>2. \A x \in Slot : Mapped(x)' <=> Mapped(x) /\ x[1] # a
  BY <1>1 DEF Mapped
<1>3. keep' \in [Table -> Nat]
  BY <1>1 DEF LInv
<1>4. LocksBalanced'
  <2> SUFFICES ASSUME NEW t \in tables' PROVE keep'[t] = SumOf(locks', InTable(t)) % ByteMod
      BY BalancedNext
  <2>1. t \in tables /\ t \in Table /\ t[1] # a
    BY <1>1 DEF LInv
  <2>2. keep'[t] = keep[t]
    BY <1>1, <2>1
  <2> QED
    BY <1>1, <2>1, <2>2, Balanced DEF LInv
<1>5. \A x \in Slot : Mapped(x)' => TableOf(x)' \in tables'
  BY <1>1, <1>2, TableType DEF LInv, TableOf
<1>6. \A x \in Slot : locks'[x] > 0 => Mapped(x)'
  <2> TAKE x \in Slot
  <2>1. locks[x] > 0 => Mapped(x) /\ x[1] # a
    BY <1>1 DEF LInv
  <2> QED
    BY <1>1, <1>2, <2>1
<1>7. tables' \subseteq Table
  BY <1>1 DEF LInv
<1> QED
  BY <1>1, <1>3, <1>4, <1>5, <1>6, <1>7 DEF LInv

LEMMA NextLInv == ~LockedReplace => (IInv /\ LInv /\ [Next]_vars => LInv')
<1> SUFFICES ASSUME ~LockedReplace, IInv, LInv, [Next]_vars PROVE LInv'
    OBVIOUS
<1>1. ASSUME NEW a \in AS, HatAlloc(a) PROVE LInv'
  BY <1>1, SameLocks DEF HatAlloc, Mapped, LInv
<1>2. ASSUME NEW s \in Slot, NEW p \in Page, NEW lock \in BOOLEAN,
             PteloadFresh(s, p, lock) \/ PteloadReplace(s, p, lock)
      PROVE  LInv'
  BY <1>2, LockedLoadStep, ReplaceLocks
<1>3. ASSUME NEW s \in Slot, NEW lock \in BOOLEAN, PteloadSame(s, lock) PROVE LInv'
  BY <1>3, LockedLoadStep
<1>4. ASSUME NEW a \in AS, NEW R \in SUBSET VA \ {{}}, NEW unlock \in BOOLEAN,
             Unload(a, R, unlock)
      PROVE  LInv'
  BY <1>4, UnloadLocks
<1>5. CASE UNCHANGED vars
  BY <1>5, SameLocks DEF vars, Mapped, LInv
<1> QED
  BY <1>1, <1>2, <1>3, <1>4, <1>5, UnlockLocks, PageUnloadLocks, DupLocks, FreeLocks
     DEF Next

-----------------------------------------------------------------------------

\* A table's pt_keepcnt is the number of softlocks the drivers hold on its
\* descriptors, in a byte, as long as no driver replaces a mapping with the
\* lock flag set: so it is 0 once they have unlocked what they locked, and
\* hat_ptdat_retire can give the table back.
THEOREM KeepcntIsLocks ==
    ASSUME ~LockedReplace
    PROVE  Spec => []LocksBalanced
<1>1. IInv /\ LInv /\ [Next]_vars => (IInv /\ LInv)'
  BY NextIInv, NextLInv
<1>2. Init => IInv /\ LInv
  BY InitIInv, InitLInv
<1>3. IInv /\ LInv => LocksBalanced
  BY DEF LInv
<1> QED
  BY <1>1, <1>2, <1>3, PTL DEF Spec
=============================================================================
