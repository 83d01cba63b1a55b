---------------------------- MODULE PagesProofs -----------------------------
(***************************************************************************)
(* What becomes of pages.                                                  *)
(*                                                                         *)
(* TablePages, for any number of address spaces, pages and units: the      *)
(* accounting is exact, every unit has one owner, a page given back is     *)
(* nobody's, and no sleeper is forgotten.                                  *)
(*                                                                         *)
(* PageRelease, for any number of mappings of the page.  The properties    *)
(* speak of moments (the return of a handler, the call of page_free); what *)
(* makes them true is where the process in the kernel is.  ReleaseInv      *)
(* says, for each place, which descriptors memory and the ATC may still    *)
(* lead through, and that a page given away has neither a mapping left nor *)
(* a line in the cache.                                                    *)
(***************************************************************************)
EXTENDS TablePages, PageRelease, Integers, FiniteSetTheorems, TLAPS

TypeInv ==
    /\ live \subseteq AS
    /\ use \in [Page -> {"free", "table", "sdt", "user"}]
    /\ owner \in [Page -> AS \cup {None}]
    /\ ptd \in [Page -> Unit \cup {None}]
    /\ legacy \in [AS -> SUBSET Unit]
    /\ bits \subseteq Unit
    /\ availrmem \in Int /\ pages_pp_kernel \in Int /\ pt_waiting \in Nat

\* An address space without a root has no table left in its tree, and a table
\* page has its metadata unit as long as it is one.
Ownership ==
    /\ \A a \in AS \ live : legacy[a] = {} /\ \A t \in Page : owner[t] # a
    /\ \A t \in Page : use[t] = "table" <=> ptd[t] # None

\* UnitsOwned, unit by unit.
BitsExact ==
    \A u \in Unit : u \in bits <=> \/ \E a \in AS : u \in legacy[a]
                                   \/ \E t \in Page : ptd[t] = u
Exclusive ==
    /\ \A t, w \in Page : ptd[t] = ptd[w] /\ ptd[t] # None => t = w
    /\ \A a, b \in AS, u \in Unit : u \in legacy[a] /\ u \in legacy[b] => a = b
    /\ \A a \in AS, t \in Page : ptd[t] \notin legacy[a]
PagesExact ==
    \A p \in Page : use[p] = "sdt" <=> \E u \in bits : u[1] = p
ListsExact == listed = {p \in Page : use[p] = "table"} \X (0..3)
OneOwner == BitsExact /\ Exclusive /\ PagesExact /\ ListsExact

IInv == /\ TypeInv /\ Ownership /\ OneOwner
        /\ AccountingExact /\ FreedIsUnused /\ NoLostSleeper

Kernel == {p \in Page : use[p] \in {"table", "sdt"}}

-----------------------------------------------------------------------------
(* Counting.                                                               *)

\* Pages that were free become the kernel's.
LEMMA Debited ==
    ASSUME TypeInv, AccountingExact, NEW S \in SUBSET Page,
           \A p \in S : use[p] = "free", Debit(S),
           Kernel' = Kernel \cup S
    PROVE  /\ AccountingExact' /\ availrmem' \in Int /\ pages_pp_kernel' \in Int
<1>1. IsFiniteSet(Kernel) /\ IsFiniteSet(S)
  BY TablePagesAssumption, FS_Subset DEF Kernel
<1>2. Kernel \cap S = {}
  BY DEF Kernel
<1>3. /\ Cardinality(Kernel \cup S)
           = Cardinality(Kernel) + Cardinality(S) - Cardinality(Kernel \cap S)
      /\ Cardinality(Kernel \cap S) = 0
      /\ Cardinality(Kernel) \in Nat /\ Cardinality(S) \in Nat
  BY <1>1, <1>2, FS_Union, FS_EmptySet, FS_CardinalityType
<1>4. pages_pp_kernel = Cardinality(Kernel)
  BY DEF AccountingExact, Kernel
<1>5. Cardinality(Kernel') = Cardinality(Kernel) + Cardinality(S)
  BY <1>3
<1>6. Cardinality(Page) \in Nat
  BY TablePagesAssumption, FS_CardinalityType
<1> QED
  BY <1>3, <1>4, <1>5, <1>6 DEF Debit, AccountingExact, Kernel, TypeInv

\* Kernel pages are given back.
LEMMA Credited ==
    ASSUME TypeInv, AccountingExact, NEW S \in SUBSET Kernel, Credit(S),
           Kernel' = Kernel \ S
    PROVE  /\ AccountingExact' /\ availrmem' \in Int /\ pages_pp_kernel' \in Int
<1>1. IsFiniteSet(Kernel) /\ IsFiniteSet(S)
  BY TablePagesAssumption, FS_Subset DEF Kernel
<1>2. Kernel \cap S = S
  OBVIOUS
<1>3. /\ Cardinality(Kernel \ S) = Cardinality(Kernel) - Cardinality(Kernel \cap S)
      /\ Cardinality(Kernel) \in Nat /\ Cardinality(S) \in Nat
  BY <1>1, FS_Difference, FS_CardinalityType
<1>4. pages_pp_kernel = Cardinality(Kernel)
  BY DEF AccountingExact, Kernel
<1>5. Cardinality(Kernel') = Cardinality(Kernel) - Cardinality(S)
  BY <1>2, <1>3
<1>6. Cardinality(Page) \in Nat
  BY TablePagesAssumption, FS_CardinalityType
<1> QED
  BY <1>3, <1>4, <1>5, <1>6 DEF Credit, AccountingExact, Kernel, TypeInv

-----------------------------------------------------------------------------

LEMMA InitIInv == Init => IInv
<1> SUFFICES ASSUME Init PROVE IInv
    OBVIOUS
<1>1. TypeInv /\ Ownership /\ FreedIsUnused /\ NoLostSleeper
  <2>1. Cardinality(Page) \in Nat
    BY TablePagesAssumption, FS_CardinalityType
  <2> QED
    BY <2>1, TablePagesAssumption
       DEF Init, TypeInv, Ownership, FreedIsUnused, NoLostSleeper
<1>2. AccountingExact
  <2>1. {p \in Page : use[p] \in {"table", "sdt"}} = {}
    BY DEF Init
  <2>2. Cardinality({}) = 0 /\ Cardinality(Page) \in Nat
    BY TablePagesAssumption, FS_EmptySet, FS_CardinalityType
  <2> QED
    BY <2>1, <2>2 DEF Init, AccountingExact
<1>3. OneOwner
  <2>1. None \notin Unit
    BY TablePagesAssumption DEF Unit
  <2>2. BitsExact /\ PagesExact /\ ListsExact
    BY <2>1 DEF Init, BitsExact, PagesExact, ListsExact
  <2>3. Exclusive
    BY DEF Init, Exclusive
  <2> QED
    BY <2>2, <2>3 DEF OneOwner
<1> QED
  BY <1>1, <1>2, <1>3 DEF IInv

\* A step that touches neither pages nor units.
LEMMA LightStep ==
    ASSUME IInv, UNCHANGED <<use, owner, ptd, legacy, bits, listed, availrmem,
                             pages_pp_kernel>>,
           live \subseteq live', live' \subseteq AS, pt_waiting' \in Nat,
           FreedIsUnused', NoLostSleeper'
    PROVE  IInv'
<1>1. TypeInv' /\ Ownership' /\ AccountingExact'
  BY DEF IInv, TypeInv, Ownership, AccountingExact
<1>2. OneOwner'
  BY DEF IInv, OneOwner, BitsExact, Exclusive, PagesExact, ListsExact
<1> QED
  BY <1>1, <1>2 DEF IInv

\* A page of no table changes hands outside the kernel.
LEMMA PageStep == ASSUME IInv, NEW p \in Page, PageGet(p) \/ PageFree(p) PROVE IInv'
<1>1. /\ UNCHANGED <<live, owner, ptd, legacy, bits, listed, locked, held,
                     availrmem, pages_pp_kernel, pt_waiting, asleep>>
      /\ use[p] \in {"free", "user"}
      /\ \E x \in {"free", "user"} : use' = [use EXCEPT ![p] = x]
  BY DEF PageGet, PageFree
<1>2. /\ use' \in [Page -> {"free", "table", "sdt", "user"}]
      /\ \A t \in Page : /\ use'[t] = "table" <=> use[t] = "table"
                         /\ use'[t] = "sdt" <=> use[t] = "sdt"
  BY <1>1 DEF IInv, TypeInv
<1>3. TypeInv' /\ Ownership' /\ FreedIsUnused' /\ NoLostSleeper'
  BY <1>1, <1>2 DEF IInv, TypeInv, Ownership, FreedIsUnused, NoLostSleeper
<1>4. Kernel' = Kernel
  BY <1>2 DEF Kernel
<1>5. AccountingExact'
  BY <1>1, <1>4 DEF IInv, AccountingExact, Kernel
<1>6. {t \in Page : use[t] = "table"}' = {t \in Page : use[t] = "table"}
  BY <1>2
<1>7. OneOwner'
  BY <1>1, <1>2, <1>6 DEF IInv, OneOwner, BitsExact, Exclusive, PagesExact, ListsExact
<1> QED
  BY <1>3, <1>5, <1>7 DEF IInv

-----------------------------------------------------------------------------
(* UnitsOwned, unit by unit.                                               *)

LEMMA UnitByUnit ==
    ASSUME TypeInv, Ownership
    PROVE  UnitsOwned <=> OneOwner
<1>1. (bits = (UNION {legacy[a] : a \in live}) \cup
              {ptd[t] : t \in {p \in Page : use[p] = "table"}}) <=> BitsExact
  <2> DEFINE Legacy == UNION {legacy[a] : a \in live}
             Ptdats == {ptd[t] : t \in {p \in Page : use[p] = "table"}}
  <2>1. Legacy \subseteq Unit
          /\ \A u \in Unit : u \in Legacy <=> \E a \in AS : u \in legacy[a]
    BY DEF TypeInv, Ownership
  <2>2. None \notin Unit
    BY TablePagesAssumption DEF Unit
  <2>3. Ptdats \subseteq Unit
          /\ \A u \in Unit : u \in Ptdats <=> \E t \in Page : ptd[t] = u
    BY <2>2 DEF TypeInv, Ownership
  <2> HIDE DEF Legacy, Ptdats
  <2>4. bits \subseteq Unit
    BY DEF TypeInv
  <2>5. (bits = Legacy \cup Ptdats)
          <=> \A u \in Unit : u \in bits <=> u \in Legacy \/ u \in Ptdats
    BY <2>1, <2>3, <2>4
  <2>6. (bits = Legacy \cup Ptdats) <=> BitsExact
    BY <2>1, <2>3, <2>5 DEF BitsExact
  <2> QED
    BY <2>6 DEF Legacy, Ptdats
<1>2. (\A a, b \in AS : a # b => legacy[a] \cap legacy[b] = {})
        <=> \A a, b \in AS, u \in Unit : u \in legacy[a] /\ u \in legacy[b] => a = b
  BY DEF TypeInv
<1>3. (\A p \in Page : (use[p] = "sdt") = (OnPage(bits, p) # {})) <=> PagesExact
  <2>1. \A p \in Page : OnPage(bits, p) # {} <=> \E u \in bits : u[1] = p
    BY DEF OnPage
  <2> QED
    BY <2>1 DEF PagesExact
<1> QED
  BY <1>1, <1>2, <1>3 DEF UnitsOwned, OneOwner, Exclusive, ListsExact

\* A metadata unit is on a page of its own kind, and no table's.
LEMMA UnitFacts ==
    ASSUME IInv
    PROVE  /\ None \notin Unit /\ None \notin AS
           /\ BitsExact /\ Exclusive /\ PagesExact /\ ListsExact
           /\ \A a \in AS : legacy[a] \subseteq bits
           /\ \A t \in Page : use[t] = "table" => ptd[t] \in bits
<1>1. None \notin Unit /\ None \notin AS
  BY TablePagesAssumption DEF Unit
<1>2. BitsExact /\ Exclusive /\ PagesExact /\ ListsExact
  BY DEF IInv, OneOwner
<1> QED
  BY <1>1, <1>2 DEF IInv, TypeInv, Ownership, BitsExact

-----------------------------------------------------------------------------
(* Pages taken.                                                            *)

LEMMA CarveFacts ==
    ASSUME IInv, NEW U, NEW n \in Nat \ {0}, NEW free \in SUBSET Page, Carve(U, n, free)
    PROVE  \E p \in Page : /\ U \subseteq Unit /\ U # {} /\ U \cap bits = {}
                           /\ \A u \in U : u[1] = p
                           /\ use[p] = "sdt" \/ p \in free
<1> PICK p \in Page, i \in 1..Units :
        /\ U = {p} \X (i..(i + n - 1)) /\ i + n - 1 <= Units
        /\ U \cap bits = {}
        /\ use[p] = "sdt" \/ p \in free
    BY DEF Carve
<1>1. <<p, i>> \in U
  OBVIOUS
<1>2. U \subseteq Unit /\ \A u \in U : u[1] = p
  BY TablePagesAssumption DEF Unit
<1> QED
  BY <1>1, <1>2

LEMMA GrowSdtStep == ASSUME IInv, NEW a \in AS, NEW U, GrowSdt(a, U) PROVE IInv'
<1> DEFINE F == {p \in Page : use[p] = "free"}
           new == {u[1] : u \in U} \cap F
<1>1. /\ a \in live /\ legacy[a] = {} /\ Carve(U, LegacyUnits, F)
      /\ legacy' = [legacy EXCEPT ![a] = U] /\ bits' = bits \cup U
      /\ use' = [p \in Page |-> IF p \in new THEN "sdt" ELSE use[p]]
      /\ Debit(new)
      /\ UNCHANGED <<live, owner, ptd, listed, locked, held, pt_waiting, asleep>>
  BY DEF GrowSdt, Awake
<1>2. LegacyUnits \in Nat \ {0}
  BY TablePagesAssumption
<1>3. PICK p \in Page : /\ U \subseteq Unit /\ U # {} /\ U \cap bits = {}
                        /\ \A u \in U : u[1] = p
                        /\ use[p] = "sdt" \/ p \in F
  BY <1>1, <1>2, CarveFacts
<1>4. new = {p} \cap F
  BY <1>3
<1>5. /\ use' \in [Page -> {"free", "table", "sdt", "user"}]
      /\ \A q \in Page : use'[q] = IF q = p THEN "sdt" ELSE use[q]
      /\ use[p] \in {"sdt", "free"}
  BY <1>1, <1>3, <1>4 DEF IInv, TypeInv
<1>6. AccountingExact' /\ availrmem' \in Int /\ pages_pp_kernel' \in Int
  <2>1. new \in SUBSET Page /\ \A q \in new : use[q] = "free"
    BY <1>4
  <2>2. Kernel' = Kernel \cup new
    BY <1>4, <1>5 DEF Kernel
  <2> HIDE DEF new
  <2> QED
    BY <1>1, <2>1, <2>2, Debited DEF IInv
<1> HIDE DEF new, F
<1>7. TypeInv' /\ FreedIsUnused' /\ NoLostSleeper'
  BY <1>1, <1>3, <1>5, <1>6 DEF IInv, TypeInv, FreedIsUnused, NoLostSleeper
<1>8. Ownership'
  BY <1>1, <1>5 DEF IInv, TypeInv, Ownership
<1>9. BitsExact'
  <2>1. \A u \in Unit : (\E b \in AS : u \in legacy'[b])
                          <=> u \in U \/ \E b \in AS : u \in legacy[b]
    BY <1>1 DEF IInv, TypeInv
  <2> QED
    BY <1>1, <2>1, UnitFacts DEF BitsExact
<1>10. Exclusive'
  <2>1. /\ \A b \in AS : legacy'[b] = IF b = a THEN U ELSE legacy[b]
        /\ \A b \in AS : legacy[b] \cap U = {}
        /\ \A t \in Page : ptd[t] \notin U
    <3>1. \A t \in Page : ptd[t] # None => ptd[t] \in bits
      BY UnitFacts DEF IInv, Ownership
    <3> QED
      BY <1>1, <1>3, <3>1, UnitFacts DEF IInv, TypeInv
  <2> QED
    BY <1>1, <2>1, UnitFacts DEF Exclusive
<1>11. PagesExact'
  BY <1>1, <1>3, <1>5, UnitFacts DEF PagesExact
<1>12. ListsExact'
  <2>1. {q \in Page : use'[q] = "table"} = {q \in Page : use[q] = "table"}
    BY <1>5
  <2> QED
    BY <1>1, <2>1, UnitFacts DEF ListsExact
<1> QED
  BY <1>6, <1>7, <1>8, <1>9, <1>10, <1>11, <1>12 DEF IInv, OneOwner

LEMMA PtAllocStep ==
    ASSUME IInv, NEW a \in AS, NEW t \in Page, NEW u \in Unit, PtAlloc(a, t, u)
    PROVE  IInv'
<1> DEFINE F == {p \in Page : use[p] = "free"}
           new == {t} \cup ({u[1]} \cap F)
<1>1. /\ a \in live /\ use[t] = "free"
      /\ Carve({u}, 1, {p \in Page \ {t} : use[p] = "free"})
      /\ use' = [p \in Page |-> IF p = t THEN "table"
                                ELSE IF p \in new THEN "sdt" ELSE use[p]]
      /\ owner' = [owner EXCEPT ![t] = a] /\ ptd' = [ptd EXCEPT ![t] = u]
      /\ bits' = bits \cup {u} /\ listed' = listed \cup ({t} \X (0..3))
      /\ Debit(new)
      /\ UNCHANGED <<live, legacy, locked, held, pt_waiting, asleep>>
  BY DEF PtAlloc, Awake
<1>2. PICK p \in Page : /\ u \notin bits /\ u[1] = p /\ p # t
                        /\ use[p] = "sdt" \/ use[p] = "free"
  BY <1>1, CarveFacts
<1>3. new = {t} \cup ({p} \cap F)
  BY <1>2
<1>4. /\ use' \in [Page -> {"free", "table", "sdt", "user"}]
      /\ \A q \in Page : use'[q] = IF q = t THEN "table"
                                   ELSE IF q = p THEN "sdt" ELSE use[q]
  BY <1>1, <1>2, <1>3 DEF IInv, TypeInv
<1>5. AccountingExact' /\ availrmem' \in Int /\ pages_pp_kernel' \in Int
  <2>1. new \in SUBSET Page /\ \A q \in new : use[q] = "free"
    BY <1>1, <1>3
  <2>2. Kernel' = Kernel \cup new
    BY <1>2, <1>3, <1>4 DEF Kernel
  <2> HIDE DEF new
  <2> QED
    BY <1>1, <2>1, <2>2, Debited DEF IInv
<1> HIDE DEF new, F
<1>6. None \notin Unit /\ None \notin AS /\ ptd[t] = None
  BY <1>1, UnitFacts DEF IInv, TypeInv, Ownership
<1>7. TypeInv' /\ FreedIsUnused' /\ NoLostSleeper'
  BY <1>1, <1>2, <1>4, <1>5 DEF IInv, TypeInv, FreedIsUnused, NoLostSleeper
<1>8. Ownership'
  BY <1>1, <1>2, <1>4, <1>6 DEF IInv, TypeInv, Ownership
<1>9. \A w \in Page : ptd'[w] = IF w = t THEN u ELSE ptd[w]
  BY <1>1 DEF IInv, TypeInv
<1>10. BitsExact'
  BY <1>1, <1>6, <1>9, UnitFacts DEF BitsExact
<1>11. Exclusive'
  <2>1. \A w \in Page : ptd[w] # u
    BY <1>2, <1>6, UnitFacts DEF IInv, Ownership
  <2>2. \A b \in AS : u \notin legacy[b]
    BY <1>2, UnitFacts
  <2> QED
    BY <1>1, <1>9, <2>1, <2>2, UnitFacts DEF Exclusive
<1>12. PagesExact'
  BY <1>1, <1>2, <1>4, UnitFacts DEF PagesExact
<1>13. ListsExact'
  <2>1. {q \in Page : use'[q] = "table"} = {q \in Page : use[q] = "table"} \cup {t}
    BY <1>1, <1>2, <1>4
  <2> QED
    BY <1>1, <2>1, UnitFacts DEF ListsExact
<1> QED
  BY <1>5, <1>7, <1>8, <1>10, <1>11, <1>12, <1>13 DEF IInv, OneOwner

-----------------------------------------------------------------------------
(* Pages given back.                                                       *)

LEMMA HatFreeStep == ASSUME IInv, NEW a \in AS, HatFree(a) PROVE IInv'
<1> DEFINE T == {t \in Tables(a) : Retirable(t)}
           U == Metadata(a, T)
           E == EmptiedBy(U)
           freed == T \cup E
<1>1. /\ a \in live /\ live' = live \ {a}
      /\ use' = [p \in Page |-> IF p \in freed THEN "free" ELSE use[p]]
      /\ owner' = [p \in Page |-> IF owner[p] = a THEN None ELSE owner[p]]
      /\ ptd' = [p \in Page |-> IF p \in T THEN None ELSE ptd[p]]
      /\ legacy' = [legacy EXCEPT ![a] = {}]
      /\ bits' = bits \ U /\ listed' = listed \ (T \X (0..3))
      /\ Credit(freed) /\ WakeAfter(T) /\ UNCHANGED <<locked, held>>
  BY DEF HatFree, Awake, RecordsOf
<1>2. /\ T \subseteq Page
      /\ \A t \in T : /\ use[t] = "table" /\ owner[t] = a
                      /\ t \notin locked \cup held
  BY UnitFacts DEF IInv, FreedIsUnused, Tables, Retirable
<1>3. U = legacy[a] \cup {ptd[t] : t \in T}
  BY DEF Metadata
<1>4. U \subseteq bits
  BY <1>2, <1>3, UnitFacts
<1>5. E = {p \in Page : /\ \E u \in U : u[1] = p
                        /\ \A u \in bits : u[1] = p => u \in U}
  BY DEF EmptiedBy, OnPage
<1> HIDE DEF T, U, E
<1>6. E \subseteq Page /\ \A p \in E : use[p] = "sdt"
  BY <1>4, <1>5, UnitFacts DEF PagesExact
<1>7. /\ use' \in [Page -> {"free", "table", "sdt", "user"}]
      /\ \A p \in Page : /\ use'[p] = "table" <=> use[p] = "table" /\ p \notin T
                         /\ use'[p] = "sdt" <=> use[p] = "sdt" /\ p \notin E
                         /\ use'[p] = IF p \in T \cup E THEN "free" ELSE use[p]
  BY <1>1, <1>2, <1>6 DEF IInv, TypeInv
<1>8. AccountingExact' /\ availrmem' \in Int /\ pages_pp_kernel' \in Int
  <2>1. freed \in SUBSET Kernel
    BY <1>2, <1>6 DEF Kernel
  <2>2. Kernel' = Kernel \ freed
    BY <1>7 DEF Kernel
  <2> HIDE DEF freed
  <2> QED
    BY <1>1, <2>1, <2>2, Credited DEF IInv
<1>9. pt_waiting' \in Nat /\ NoLostSleeper'
  BY <1>1 DEF WakeAfter, Wake, NoWake, IInv, TypeInv, NoLostSleeper
<1>10. TypeInv'
  BY <1>1, <1>7, <1>8, <1>9 DEF IInv, TypeInv
<1>11. FreedIsUnused'
  BY <1>1, <1>2, <1>7, UnitFacts DEF IInv, TypeInv, FreedIsUnused
<1>12. Ownership'
  BY <1>1, <1>7, UnitFacts DEF IInv, TypeInv, Ownership
<1>13. /\ \A b \in AS : legacy'[b] = IF b = a THEN {} ELSE legacy[b]
       /\ \A t \in Page : ptd'[t] = IF t \in T THEN None ELSE ptd[t]
  BY <1>1 DEF IInv, TypeInv
<1>14. BitsExact'
  <2> SUFFICES ASSUME NEW u \in Unit
               PROVE  u \in bits' <=> \/ \E b \in AS : u \in legacy'[b]
                                      \/ \E t \in Page : ptd'[t] = u
      BY DEF BitsExact
  <2>1. u \in bits' => \/ \E b \in AS : u \in legacy'[b]
                       \/ \E t \in Page : ptd'[t] = u
    BY <1>1, <1>3, <1>13, UnitFacts DEF BitsExact
  <2>2. ASSUME NEW b \in AS, u \in legacy'[b] PROVE u \in bits'
    <3>1. b # a /\ u \in legacy[b] /\ u \in bits
      BY <1>13, <2>2, UnitFacts
    <3>2. u \notin legacy[a] /\ \A t \in T : ptd[t] # u
      BY <1>2, <3>1, UnitFacts DEF Exclusive
    <3> QED
      BY <1>1, <1>3, <3>1, <3>2
  <2>3. ASSUME NEW t \in Page, ptd'[t] = u PROVE u \in bits'
    <3>1. t \notin T /\ ptd[t] = u /\ u # None
      BY <1>13, <2>3, UnitFacts
    <3>2. u \in bits
      BY <3>1, UnitFacts DEF BitsExact
    <3>3. u \notin legacy[a] /\ \A w \in T : ptd[w] # u
      BY <1>2, <3>1, UnitFacts DEF Exclusive
    <3> QED
      BY <1>1, <1>3, <3>2, <3>3
  <2> QED
    BY <2>1, <2>2, <2>3
<1>15. Exclusive'
  <2>1. /\ \A t, w \in Page : ptd[t] = ptd[w] /\ ptd[t] # None => t = w
        /\ \A b, c \in AS, u \in Unit : u \in legacy[b] /\ u \in legacy[c] => b = c
        /\ \A b \in AS, t \in Page : ptd[t] \notin legacy[b]
        /\ \A b \in AS : None \notin legacy[b]
    BY UnitFacts DEF Exclusive, IInv, TypeInv
  <2> QED
    BY <1>13, <2>1 DEF Exclusive
<1>16. PagesExact'
  BY <1>1, <1>4, <1>5, <1>7, UnitFacts DEF PagesExact
<1>17. ListsExact'
  <2>1. {p \in Page : use'[p] = "table"} = {p \in Page : use[p] = "table"} \ T
    BY <1>7
  <2> QED
    BY <1>1, <2>1, UnitFacts DEF ListsExact
<1> QED
  BY <1>8, <1>9, <1>10, <1>11, <1>12, <1>14, <1>15, <1>16, <1>17 DEF IInv, OneOwner

-----------------------------------------------------------------------------

LEMMA NextIInv == IInv /\ [Next]_vars => IInv'
<1> SUFFICES ASSUME IInv, [Next]_vars PROVE IInv'
    OBVIOUS
<1>1. CASE UNCHANGED vars
  BY <1>1, LightStep DEF vars, IInv, TypeInv, FreedIsUnused, NoLostSleeper
<1>2. ASSUME NEW a \in AS, HatAlloc(a) PROVE IInv'
  BY <1>2, LightStep DEF HatAlloc, IInv, TypeInv, FreedIsUnused, NoLostSleeper
<1>3. ASSUME NEW a \in AS, NEW U, GrowSdt(a, U) PROVE IInv'
  BY <1>3, GrowSdtStep
<1>4. ASSUME NEW a \in AS, NEW t \in Page, NEW u \in Unit, PtAlloc(a, t, u) PROVE IInv'
  BY <1>4, PtAllocStep
<1>5. ASSUME NEW a \in AS, PtAllocSleep(a) PROVE IInv'
  BY <1>5, LightStep DEF PtAllocSleep, IInv, TypeInv, FreedIsUnused, NoLostSleeper
<1>6. ASSUME NEW t \in Page, Lock(t) PROVE IInv'
  BY <1>6, LightStep DEF Lock, IInv, TypeInv, FreedIsUnused, NoLostSleeper
<1>7. ASSUME NEW t \in Page, Unlock(t) PROVE IInv'
  <2>1. pt_waiting' \in Nat /\ NoLostSleeper'
    BY <1>7 DEF Unlock, Wake, NoWake, IInv, TypeInv, NoLostSleeper
  <2> QED
    BY <1>7, <2>1, LightStep DEF Unlock, IInv, TypeInv, FreedIsUnused
<1>8. ASSUME NEW a \in AS, HatFree(a) PROVE IInv'
  BY <1>8, HatFreeStep
<1>9. ASSUME NEW p \in Page, PageGet(p) \/ PageFree(p) PROVE IInv'
  BY <1>9, PageStep
<1>10. ASSUME NEW t \in Page, PageHold(t) PROVE IInv'
  BY <1>10, LightStep DEF PageHold, IInv, TypeInv, FreedIsUnused, NoLostSleeper
<1> QED
  BY <1>1, <1>2, <1>3, <1>4, <1>5, <1>6, <1>7, <1>8, <1>9, <1>10 DEF Next

LEMMA Invariance == Spec => []IInv
<1>1. Init => IInv
  BY InitIInv
<1>2. IInv /\ [Next]_vars => IInv'
  BY NextIInv
<1> QED
  BY <1>1, <1>2, PTL DEF Spec

(* A table page is charged to the kernel for as long as the kernel has it, *)
(* and availrmem + pages_pp_kernel is conserved, with any number of        *)
(* address spaces and pages.                                               *)
THEOREM PagesAccounted == Spec => []AccountingExact
<1>1. IInv => AccountingExact
  BY DEF IInv
<1> QED
  BY <1>1, Invariance, PTL

(* Every allocated metadata unit has one live owner, a metadata page lives *)
(* exactly as long as one of its units, and the lists hold the records of  *)
(* the table pages in use: no exec loses a page.                           *)
THEOREM EveryUnitOwned == Spec => []UnitsOwned
<1>1. IInv => UnitsOwned
  BY UnitByUnit DEF IInv
<1> QED
  BY <1>1, Invariance, PTL

(* A page given back is locked by nobody, held by nobody and in no tree.   *)
THEOREM GivenBackUnused == Spec => []FreedIsUnused
<1>1. IInv => FreedIsUnused
  BY DEF IInv
<1> QED
  BY <1>1, Invariance, PTL

(* Whoever sleeps on free_pts is counted in pt_waiting, which both wakers  *)
(* look at.                                                                *)
THEOREM SleepersCounted == Spec => []NoLostSleeper
<1>1. IInv => NoLostSleeper
  BY DEF IInv
<1> QED
  BY <1>1, Invariance, PTL

-----------------------------------------------------------------------------
(* PageRelease.                                                            *)

Places == {"run", "abort", "unlink", "puflush", "abortfree", "release",
           "retire", "retired", "free", "clear", "tail"}

\* One descriptor is being unloaded and is off p_mapping already.
Spliced == /\ linked = leaf \ {cur}
           /\ leafM = leaf
           /\ atc \subseteq linked
InKernel == page = "owned" /\ ~io

AtRun       == pc = "run" => /\ cur = NoLeaf
                             /\ linked = leaf /\ leafM = leaf /\ atc \subseteq leaf
                             /\ (page # "owned" \/ io) => leaf = {}
AtAbort     == pc \in {"abort", "unlink", "release"} => InKernel /\ Spliced
AtPuflush   == pc = "puflush" => InKernel /\ linked = {} /\ leaf \subseteq {cur}
AtAbortFree == pc = "abortfree" => /\ InKernel /\ linked = {} /\ atc = {}
                                   /\ leaf \subseteq {cur} /\ leafM = leaf
AtRetire    == pc = "retire" => InKernel /\ Spliced /\ linked = {}
AtRetired   == pc = "retired" => InKernel /\ linked = {} /\ leaf = {}
AtFree      == pc = "free" => /\ InKernel /\ linked = {} /\ leaf = {}
                              /\ leafM = {} /\ atc = {}
AtClear     == pc = "clear" => /\ leaf \ {cur} = linked /\ atc \subseteq linked
                               /\ (page # "owned" \/ io) => linked = {}
AtTail      == pc = "tail" => /\ leaf = linked /\ atc \subseteq linked
                              /\ (page # "owned" \/ io) => linked = {}

Where == /\ pc \in Places
         /\ leaf \subseteq Leaf
         /\ cur \in Leaf \cup {NoLeaf}
         /\ pc \in {"release", "retire", "retired", "free", "clear"} => cur # NoLeaf
         /\ io => page = "owned"
         /\ AtRun /\ AtAbort /\ AtPuflush /\ AtAbortFree /\ AtRetire
         /\ AtRetired /\ AtFree /\ AtClear /\ AtTail

ReleaseInv == Where /\ FreeUncached /\ NewOwnerKeepsData

-----------------------------------------------------------------------------
\* The page starts owned, unmapped and clean.
LEMMA ReleaseInvInit == ReleaseInit => ReleaseInv
BY PageReleaseAssumption
   DEF ReleaseInit, ReleaseInv, Where, Places, AtRun, AtAbort, AtPuflush,
       AtAbortFree, AtRetire, AtRetired, AtFree, AtClear, AtTail, InKernel, Spliced,
       FreeUncached, NewOwnerKeepsData

\* Every step of the kernel, of user code, of the cache and of a write's end
\* keeps ReleaseInv.
LEMMA ReleaseInvNext == ReleaseInv /\ [ReleaseNext]_releaseVars => ReleaseInv'
<1> SUFFICES ASSUME ReleaseInv, [ReleaseNext]_releaseVars PROVE ReleaseInv'
    OBVIOUS
<1> USE PageReleaseAssumption DEF ReleaseInv, Where, Places, AtRun, AtAbort, AtPuflush,
        AtAbortFree, AtRetire, AtRetired, AtFree, AtClear, AtTail, InKernel,
        Spliced, FreeUncached, NewOwnerKeepsData, At, Goto
<1>1. ASSUME NEW l \in Leaf, Load(l) PROVE ReleaseInv'
    BY <1>1 DEF Load, Pflusha, PushPage
<1>2. ASSUME NEW l \in Leaf, NEW write \in BOOLEAN, Access(l, write) PROVE ReleaseInv'
    BY <1>2 DEF Access
<1>3. CASE Reuse
    BY <1>3 DEF Reuse
<1>4. CASE Evict
    BY <1>4 DEF Evict, PushPage
<1>5. CASE PvnDone
    BY <1>5 DEF PvnDone, Publish, PushPage
<1>6. CASE FreeVpPages
    BY <1>6 DEF FreeVpPages, Publish, PushPage
<1>7. CASE AbortStart
    BY <1>7 DEF AbortStart
<1>8. CASE Abort
    BY <1>8 DEF Abort
<1>9. CASE PageUnloadClear
    BY <1>9 DEF PageUnloadClear
<1>10. CASE PageUnloadFlush
    BY <1>10 DEF PageUnloadFlush, Cpusha, Pflusha, PushPage
<1>11. CASE AbortFree
    BY <1>11 DEF AbortFree, Publish, PushPage
<1>12. ASSUME NEW l \in Leaf, NEW flag \in {0, 4, 8}, Unload(l, flag) PROVE ReleaseInv'
    BY <1>12 DEF Unload
<1>13. CASE Release
    BY <1>13 DEF Release
<1>14. CASE Retire
    BY <1>14 DEF Retire
<1>15. CASE RetirePublish
    BY <1>15 DEF RetirePublish, Cpusha, Pflusha, PushPage
<1>16. CASE Free
    BY <1>16 DEF Free, Publish, PushPage
<1>17. CASE Clear
    BY <1>17 DEF Clear
<1>18. CASE Tail
    BY <1>18 DEF Tail, Cpusha, Pflusha, PushPage
<1>19. CASE UNCHANGED releaseVars
    BY <1>19 DEF releaseVars
<1> QED
    BY <1>1, <1>2, <1>3, <1>4, <1>5, <1>6, <1>7, <1>8, <1>9, <1>10, <1>11,
       <1>12, <1>13, <1>14, <1>15, <1>16, <1>17, <1>18, <1>19 DEF ReleaseNext

LEMMA ReleaseInvariance == ReleaseSpec => []ReleaseInv
BY ReleaseInvInit, ReleaseInvNext, PTL DEF ReleaseSpec

-----------------------------------------------------------------------------
\* Whatever number of descriptors map the page: once a handler that gave it
\* away has returned, none in memory and no ATC entry leads to it.
THEOREM ReleasedIsUnreachable == ReleaseSpec => []ReturnUnreachable
<1>1. ReleaseInv => ReturnUnreachable
    BY DEF ReleaseInv, Where, AtRun, ReturnUnreachable
<1> QED BY ReleaseInvariance, <1>1, PTL

\* A page on a free list, or with a new owner, has no line in the cache.
THEOREM FreedIsUncached == ReleaseSpec => []FreeUncached
BY ReleaseInvariance, PTL DEF ReleaseInv

\* No eviction and no late write puts bytes of the old owner over the new
\* one's.
THEOREM NewOwnerIsSafe == ReleaseSpec => []NewOwnerKeepsData
BY ReleaseInvariance, PTL DEF ReleaseInv

\* hat_unload calls page_free only once the descriptor is cleared in memory
\* and flushed from the ATC.
THEOREM RetiredFirst == ReleaseSpec => RetiredBeforeFree
<1>1. ReleaseInv /\ [ReleaseNext]_releaseVars
           => [pc = "free" /\ pc' # "free" => leafM = {} /\ atc = {}]_releaseVars
    BY DEF ReleaseInv, Where, AtFree
<1> QED BY ReleaseInvariance, <1>1, PTL DEF ReleaseSpec, RetiredBeforeFree
=============================================================================
