--------------------------- MODULE HatMapProofs ---------------------------
(***************************************************************************)
(* Proofs about HatMap, for any number of address spaces, virtual pages    *)
(* and frames.  Inv is inductive: the exactness of the reverse map alone   *)
(* is not, because a page may become free or become a table only if no     *)
(* descriptor names it, which is what p_mapping tells the allocator; and   *)
(* the two dirty-data invariants need the ATC to agree with the tables.    *)
(***************************************************************************)
EXTENDS HatMap, TLAPS

(* Every descriptor names a device frame or a page that is in use.         *)
LoadableMapped == \A s \in Slot : Mapped(s) => Loadable(pte[s].frame)

(* The inductive invariant.                                                *)
Inv ==
    /\ TypeOK
    /\ RevMapExact
    /\ LoadableMapped
    /\ TablesOwned
    /\ AtcCoherent
    /\ DirtyTracked
    /\ NoDirtyDiscard

(* Slots and table positions are pairs of their parts.                     *)
LEMMA SlotParts ==
    /\ \A s \in Slot : /\ s[1] \in AS /\ s[2] \in VA /\ s = <<s[1], s[2]>>
                       /\ TableOf(s) \in Table
    /\ \A a \in AS, v \in VA : /\ <<a, v>> \in Slot
                              /\ TableOf(<<a, v>>) = <<a, TabOf[v]>>
                              /\ <<a, TabOf[v]>> \in Table
    /\ \A t \in Table : t[1] \in AS /\ t[2] \in Tab /\ t = <<t[1], t[2]>>
  BY HatAssumption DEF HatAssumption, Slot, Table, TableOf

(* What the status built by hat_pteload looks like.                        *)
LEMMA LeafParts ==
    ASSUME NEW f \in Frame, NEW prot \in Prot
    PROVE  /\ Leaf(f, prot) \in Pte /\ Leaf(f, prot) # None
           /\ Leaf(f, prot).frame = f /\ ~Leaf(f, prot).m
  <1>1. Leaf(f, prot) \in Pte
    BY DEF Leaf, Pte
  <1>2. Leaf(f, prot).frame = f /\ ~Leaf(f, prot).m
    BY DEF Leaf
  <1> QED
    BY <1>1, <1>2, HatAssumption DEF HatAssumption

(* hat_alloc keeps the invariant.                                         *)
LEMMA HatAllocStep ==
    ASSUME Inv, NEW a \in AS,
           HatAlloc(a)
    PROVE  Inv'
  <1>1. TypeOK'
    BY HatAssumption, SlotParts
    DEF HatAssumption, Inv, TypeOK, Mapped, Pte, AtcEntry, Frame, HatAlloc
  <1>2. RevMapExact'
    BY HatAssumption, SlotParts
    DEF HatAssumption, Inv, TypeOK, RevMapExact, MapsTo, Mapped, Pte, HatAlloc
  <1>3. LoadableMapped'
    BY HatAssumption, SlotParts
    DEF HatAssumption, Inv, TypeOK, LoadableMapped, Loadable, Mapped, Pte, Frame,
        HatAlloc
  <1>4. TablesOwned'
    BY HatAssumption, SlotParts
    DEF HatAssumption, Inv, TypeOK, TablesOwned, Mapped, Pte, HatAlloc
  <1>5. AtcCoherent'
    BY HatAssumption, SlotParts
    DEF HatAssumption, Inv, TypeOK, AtcCoherent, Mapped, Pte, AtcEntry, HatAlloc
  <1>6. DirtyTracked'
    BY HatAssumption, SlotParts
    DEF HatAssumption, Inv, TypeOK, DirtyTracked, RevMapExact, MapsTo, Mapped, Pte,
        Frame, HatAlloc
  <1>7. NoDirtyDiscard'
    BY HatAssumption, SlotParts
    DEF HatAssumption, Inv, TypeOK, NoDirtyDiscard, DirtyTracked, RevMapExact,
        LoadableMapped, MapsTo, Mapped, Loadable, Pte, Frame, HatAlloc
  <1> QED
    BY <1>1, <1>2, <1>3, <1>4, <1>5, <1>6, <1>7 DEF Inv

(* hat_pteload into an empty slot keeps the invariant.                    *)
LEMMA PteloadFreshStep ==
    ASSUME Inv, NEW s \in Slot, NEW f \in Frame, NEW prot \in Prot,
           PteloadFresh(s, f, prot)
    PROVE  Inv'
  <1>0. /\ pte'[s] \in Pte /\ pte'[s].frame = f /\ pte'[s] # None
        /\ \A r \in Slot : r # s => pte'[r] = pte[r]
        /\ DOMAIN pte' = Slot
        /\ pte' \in [Slot -> Pte \cup {None}]
    BY LeafParts DEF PteloadFresh, Inv, TypeOK
  <1>1. TypeOK'
    BY <1>0, HatAssumption, SlotParts
    DEF HatAssumption, Inv, TypeOK, Mapped, Pte, AtcEntry, Frame, PteloadFresh,
        FlushATC, WithTable, Leaf, Loadable, Prot, Link
  <1>2. RevMapExact'
    <2> SUFFICES ASSUME NEW q \in Page, NEW r \in Slot
                 PROVE  r \in chain'[q] <=> pte'[r] # None /\ pte'[r].frame = q
      BY <1>1 DEF RevMapExact, MapsTo, Mapped, TypeOK
    <2>1. r \in chain[q] <=> pte[r] # None /\ pte[r].frame = q
      BY DEF Inv, RevMapExact, MapsTo, Mapped
    <2> QED
      BY <1>0, <2>1 DEF Inv, TypeOK, Mapped, PteloadFresh, Link
  <1>3. LoadableMapped'
    BY <1>0, HatAssumption, SlotParts
    DEF HatAssumption, Inv, TypeOK, LoadableMapped, Loadable, Mapped, Pte, Frame,
        PteloadFresh, FlushATC, WithTable, Leaf, Prot, Link
  <1>4. TablesOwned'
    <2>1. \A t \in Table : tables'[t] = tables[t] \/ (t = TableOf(s) /\ tables[t] = None /\ use[tables'[t]] = "free" /\ tables'[t] \in Page /\ use' = [use EXCEPT ![tables'[t]] = "table"])
      BY SlotParts DEF Inv, TypeOK, PteloadFresh, WithTable
    <2>2. tables'[TableOf(s)] # None
      BY SlotParts, HatAssumption DEF HatAssumption, Inv, TypeOK, PteloadFresh, WithTable
    <2>3. \A p \in Page : use[p] = "table" => use'[p] = "table"
      BY DEF Inv, TypeOK, PteloadFresh, WithTable
    <2>4. ASSUME NEW t \in Table, tables'[t] # None
          PROVE  /\ t[1] \in live'
                 /\ use'[tables'[t]] = "table"
                 /\ \A u \in Table : tables'[u] = tables'[t] => u = t
      <3>1. t[1] \in live'
        BY <1>0, <2>1, <2>4, SlotParts DEF Inv, TablesOwned, PteloadFresh, TableOf
      <3>2. use'[tables'[t]] = "table"
        BY <2>1, <2>3, <2>4 DEF Inv, TypeOK, TablesOwned
      <3>3. ASSUME NEW u \in Table, tables'[u] = tables'[t]
            PROVE  u = t
        <4>1. CASE tables'[u] = tables[u] /\ tables'[t] = tables[t]
          BY <2>4, <3>3, <4>1 DEF Inv, TablesOwned
        <4>2. CASE tables'[u] # tables[u] \/ tables'[t] # tables[t]
          BY <2>1, <2>4, <3>3, <4>2 DEF Inv, TypeOK, TablesOwned
        <4> QED
          BY <4>1, <4>2
      <3> QED
        BY <3>1, <3>2, <3>3
    <2>5. ASSUME NEW r \in Slot, Mapped(r)'
          PROVE  tables'[TableOf(r)] # None
      <3>1. r = s \/ Mapped(r)
        BY <1>0, <2>5 DEF Mapped
      <3>2. Mapped(r) => tables[TableOf(r)] # None /\ TableOf(r) \in Table
        BY SlotParts DEF Inv, TablesOwned
      <3> QED
        BY <2>1, <2>2, <3>1, <3>2
    <2> QED
      BY <2>4, <2>5 DEF TablesOwned
  <1>5. AtcCoherent'
    BY <1>0, HatAssumption, SlotParts
    DEF HatAssumption, Inv, TypeOK, AtcCoherent, Mapped, Pte, AtcEntry, PteloadFresh,
        FlushATC, WithTable, Leaf, Loadable, Prot, Link
  <1>6. DirtyTracked'
    BY <1>0, HatAssumption, SlotParts
    DEF HatAssumption, Inv, TypeOK, DirtyTracked, RevMapExact, MapsTo, Mapped, Pte,
        Frame, PteloadFresh, FlushATC, WithTable, Leaf, Loadable, Prot,
        Link
  <1>7. NoDirtyDiscard'
    BY <1>0, HatAssumption, SlotParts
    DEF HatAssumption, Inv, TypeOK, NoDirtyDiscard, DirtyTracked, RevMapExact,
        LoadableMapped, MapsTo, Mapped, Loadable, Pte, Frame,
        PteloadFresh, FlushATC, WithTable, Leaf, Prot, Link
  <1> QED
    BY <1>1, <1>2, <1>3, <1>4, <1>5, <1>6, <1>7 DEF Inv

(* hat_pteload over the same frame keeps the invariant.                   *)
LEMMA PteloadSameStep ==
    ASSUME Inv, NEW s \in Slot, NEW prot \in Prot,
           PteloadSame(s, prot)
    PROVE  Inv'
  <1>0. /\ pte'[s] \in Pte /\ pte'[s].frame = pte[s].frame /\ pte'[s] # None
        /\ \A r \in Slot : r # s => pte'[r] = pte[r]
        /\ pte' \in [Slot -> Pte \cup {None}]
    <2>1. pte[s] \in Pte /\ pte[s].frame \in Frame
      BY DEF PteloadSame, Inv, TypeOK, Mapped, Pte
    <2> QED
      BY <2>1, LeafParts DEF PteloadSame, Inv, TypeOK
  <1>1. TypeOK'
    BY HatAssumption, SlotParts
    DEF HatAssumption, Inv, TypeOK, Mapped, Pte, AtcEntry, Frame, PteloadSame, FlushATC,
        Harvest, Leaf, Prot
  <1>2. RevMapExact'
    <2> SUFFICES ASSUME NEW q \in Page, NEW r \in Slot
                 PROVE  r \in chain'[q] <=> pte'[r] # None /\ pte'[r].frame = q
      BY <1>1 DEF RevMapExact, MapsTo, Mapped, TypeOK
    <2>1. r \in chain[q] <=> pte[r] # None /\ pte[r].frame = q
      BY DEF Inv, RevMapExact, MapsTo, Mapped
    <2> QED
      BY <1>0, <2>1 DEF Inv, TypeOK, Mapped, PteloadSame
  <1>3. LoadableMapped'
    BY HatAssumption, SlotParts
    DEF HatAssumption, Inv, TypeOK, LoadableMapped, Loadable, Mapped, Pte, Frame,
        PteloadSame, FlushATC, Harvest, Leaf, Prot
  <1>4. TablesOwned'
    BY HatAssumption, SlotParts
    DEF HatAssumption, Inv, TypeOK, TablesOwned, Mapped, Pte, PteloadSame, FlushATC,
        Harvest, Leaf, Prot
  <1>5. AtcCoherent'
    BY HatAssumption, SlotParts
    DEF HatAssumption, Inv, TypeOK, AtcCoherent, Mapped, Pte, AtcEntry, PteloadSame,
        FlushATC, Harvest, Leaf, Prot
  <1>6. DirtyTracked'
    BY HatAssumption, SlotParts
    DEF HatAssumption, Inv, TypeOK, DirtyTracked, RevMapExact, MapsTo, Mapped, Pte,
        Frame, PteloadSame, FlushATC, Harvest, Leaf, Prot
  <1>7. NoDirtyDiscard'
    BY HatAssumption, SlotParts
    DEF HatAssumption, Inv, TypeOK, NoDirtyDiscard, DirtyTracked, RevMapExact,
        LoadableMapped, MapsTo, Mapped, Loadable, Pte, Frame,
        PteloadSame, FlushATC, Harvest, Leaf, Prot
  <1> QED
    BY <1>1, <1>2, <1>3, <1>4, <1>5, <1>6, <1>7 DEF Inv

(* hat_pteload over another frame keeps the invariant.                    *)
LEMMA PteloadReplaceStep ==
    ASSUME Inv, NEW s \in Slot, NEW f \in Frame, NEW prot \in Prot,
           PteloadReplace(s, f, prot)
    PROVE  Inv'
  <1>0. /\ pte'[s] \in Pte /\ pte'[s].frame = f /\ pte'[s] # None
        /\ \A r \in Slot : r # s => pte'[r] = pte[r]
        /\ pte' \in [Slot -> Pte \cup {None}]
    BY LeafParts DEF PteloadReplace, Inv, TypeOK
  <1>1. TypeOK'
    BY HatAssumption, SlotParts
    DEF HatAssumption, Inv, TypeOK, Mapped, Pte, AtcEntry, Frame, PteloadReplace,
        FlushATC, Harvest, Leaf, Loadable, Prot
  <1>2. RevMapExact'
    <2> SUFFICES ASSUME NEW q \in Page, NEW r \in Slot
                 PROVE  r \in chain'[q] <=> pte'[r] # None /\ pte'[r].frame = q
      BY <1>1 DEF RevMapExact, MapsTo, Mapped, TypeOK
    <2>1. r \in chain[q] <=> pte[r] # None /\ pte[r].frame = q
      BY DEF Inv, RevMapExact, MapsTo, Mapped
    <2> QED
      BY <1>0, <2>1 DEF Inv, TypeOK, Mapped, PteloadReplace
  <1>3. LoadableMapped'
    BY HatAssumption, SlotParts
    DEF HatAssumption, Inv, TypeOK, LoadableMapped, Loadable, Mapped, Pte, Frame,
        PteloadReplace, FlushATC, Harvest, Leaf, Prot
  <1>4. TablesOwned'
    BY HatAssumption, SlotParts
    DEF HatAssumption, Inv, TypeOK, TablesOwned, Mapped, Pte, PteloadReplace, FlushATC,
        Harvest, Leaf, Loadable, Prot
  <1>5. AtcCoherent'
    BY HatAssumption, SlotParts
    DEF HatAssumption, Inv, TypeOK, AtcCoherent, Mapped, Pte, AtcEntry, PteloadReplace,
        FlushATC, Harvest, Leaf, Loadable, Prot
  <1>6. DirtyTracked'
    BY HatAssumption, SlotParts
    DEF HatAssumption, Inv, TypeOK, DirtyTracked, RevMapExact, MapsTo, Mapped, Pte,
        Frame, PteloadReplace, FlushATC, Harvest, Leaf, Loadable, Prot
  <1>7. NoDirtyDiscard'
    BY HatAssumption, SlotParts
    DEF HatAssumption, Inv, TypeOK, NoDirtyDiscard, DirtyTracked, RevMapExact,
        LoadableMapped, MapsTo, Mapped, Loadable, Pte, Frame,
        PteloadReplace, FlushATC, Harvest, Leaf, Prot
  <1> QED
    BY <1>1, <1>2, <1>3, <1>4, <1>5, <1>6, <1>7 DEF Inv

(* hat_pageunload keeps the invariant.                                    *)
LEMMA PageUnloadStep ==
    ASSUME Inv, NEW p \in Page,
           PageUnload(p)
    PROVE  Inv'
  <1>1. TypeOK'
    BY HatAssumption, SlotParts
    DEF HatAssumption, Inv, TypeOK, Mapped, Pte, AtcEntry, Frame, PageUnload, FlushATC,
        ChainHarvest
  <1>2. RevMapExact'
    BY HatAssumption, SlotParts
    DEF HatAssumption, Inv, TypeOK, RevMapExact, MapsTo, Mapped, Pte, PageUnload,
        FlushATC, ChainHarvest
  <1>3. LoadableMapped'
    BY HatAssumption, SlotParts
    DEF HatAssumption, Inv, TypeOK, LoadableMapped, Loadable, Mapped, Pte, Frame,
        PageUnload, FlushATC, ChainHarvest
  <1>4. TablesOwned'
    BY HatAssumption, SlotParts
    DEF HatAssumption, Inv, TypeOK, TablesOwned, Mapped, Pte, PageUnload, FlushATC,
        ChainHarvest
  <1>5. AtcCoherent'
    BY HatAssumption, SlotParts
    DEF HatAssumption, Inv, TypeOK, AtcCoherent, Mapped, Pte, AtcEntry, PageUnload,
        FlushATC, ChainHarvest
  <1>6. DirtyTracked'
    BY HatAssumption, SlotParts
    DEF HatAssumption, Inv, TypeOK, DirtyTracked, RevMapExact, MapsTo, Mapped, Pte,
        Frame, PageUnload, FlushATC, ChainHarvest
  <1>7. NoDirtyDiscard'
    BY HatAssumption, SlotParts
    DEF HatAssumption, Inv, TypeOK, NoDirtyDiscard, DirtyTracked, RevMapExact,
        LoadableMapped, MapsTo, Mapped, Loadable, Pte, Frame, PageUnload,
        FlushATC, ChainHarvest
  <1> QED
    BY <1>1, <1>2, <1>3, <1>4, <1>5, <1>6, <1>7 DEF Inv

(* hat_unload keeps the invariant.                                        *)
LEMMA UnloadStep ==
    ASSUME Inv, NEW a \in AS, NEW R \in SUBSET VA,
           Unload(a, R)
    PROVE  Inv'
  <1>1. TypeOK'
    BY HatAssumption, SlotParts
    DEF HatAssumption, Inv, TypeOK, Mapped, Pte, AtcEntry, Frame, Unload, Retire,
        FlushATC, Harvest
  <1>2. RevMapExact'
    BY HatAssumption, SlotParts
    DEF HatAssumption, Inv, TypeOK, RevMapExact, MapsTo, Mapped, Pte, Unload, Retire,
        FlushATC, Harvest
  <1>3. LoadableMapped'
    BY HatAssumption, SlotParts
    DEF HatAssumption, Inv, TypeOK, LoadableMapped, Loadable, Mapped, Pte, Frame,
        Unload, Retire, FlushATC, Harvest
  <1>4. TablesOwned'
    BY HatAssumption, SlotParts
    DEF HatAssumption, Inv, TypeOK, TablesOwned, Mapped, Pte, Unload, Retire, FlushATC,
        Harvest
  <1>5. AtcCoherent'
    BY HatAssumption, SlotParts
    DEF HatAssumption, Inv, TypeOK, AtcCoherent, Mapped, Pte, AtcEntry, Unload, Retire,
        FlushATC, Harvest
  <1>6. DirtyTracked'
    BY HatAssumption, SlotParts
    DEF HatAssumption, Inv, TypeOK, DirtyTracked, RevMapExact, MapsTo, Mapped, Pte,
        Frame, Unload, Retire, FlushATC, Harvest
  <1>7. NoDirtyDiscard'
    BY HatAssumption, SlotParts
    DEF HatAssumption, Inv, TypeOK, NoDirtyDiscard, DirtyTracked, RevMapExact,
        LoadableMapped, MapsTo, Mapped, Loadable, Pte, Frame, Unload,
        Retire, FlushATC, Harvest
  <1> QED
    BY <1>1, <1>2, <1>3, <1>4, <1>5, <1>6, <1>7 DEF Inv

(* hat_unload that releases pages keeps the invariant.                    *)
LEMMA UnloadReleaseStep ==
    ASSUME Inv, NEW a \in AS, NEW R \in SUBSET VA, NEW F \in SUBSET Page,
           UnloadRelease(a, R, F)
    PROVE  Inv'
  <1>1. TypeOK'
    BY HatAssumption, SlotParts
    DEF HatAssumption, Inv, TypeOK, Mapped, Pte, AtcEntry, Frame, UnloadRelease, Retire,
        FlushATC, Harvest, Orphans, PagesOf
  <1>2. RevMapExact'
    BY HatAssumption, SlotParts
    DEF HatAssumption, Inv, TypeOK, RevMapExact, MapsTo, Mapped, Pte, UnloadRelease,
        Retire, FlushATC, Harvest, Orphans, PagesOf
  <1>3. LoadableMapped'
    BY HatAssumption, SlotParts
    DEF HatAssumption, Inv, TypeOK, LoadableMapped, Loadable, Mapped, Pte, Frame,
        UnloadRelease, Retire, FlushATC, Harvest, Orphans, PagesOf,
        RevMapExact, MapsTo
  <1>4. TablesOwned'
    BY HatAssumption, SlotParts
    DEF HatAssumption, Inv, TypeOK, TablesOwned, Mapped, Pte, UnloadRelease, Retire,
        FlushATC, Harvest, Orphans, PagesOf, LoadableMapped, Loadable,
        MapsTo, RevMapExact
  <1>5. AtcCoherent'
    BY HatAssumption, SlotParts
    DEF HatAssumption, Inv, TypeOK, AtcCoherent, Mapped, Pte, AtcEntry, UnloadRelease,
        Retire, FlushATC, Harvest, Orphans, PagesOf
  <1>6. DirtyTracked'
    <2> SUFFICES ASSUME NEW q \in Page, dirty'[q]
                 PROVE  pmod'[q] \/ \E r \in chain'[q] : Mapped(r)' /\ pte'[r].m
      BY DEF DirtyTracked
    <2> DEFINE S == {a} \X R
    <2>1. dirty[q] /\ ~(q \in F /\ Harvest(S)[q])
      BY DEF UnloadRelease
    <2>2. CASE Harvest(S)[q]
      BY <2>1, <2>2 DEF UnloadRelease
    <2>3. CASE ~Harvest(S)[q]
      <3>1. PICK r \in chain[q] : Mapped(r) /\ pte[r].m
        BY <2>1, <2>3 DEF Inv, DirtyTracked, Harvest
      <3>2. r \in Slot /\ pte[r].frame = q
        BY <3>1 DEF Inv, RevMapExact, MapsTo
      <3>3. r \notin S
        BY <2>3, <3>1, <3>2 DEF Harvest, MapsTo
      <3>4. r \in chain'[q] /\ pte'[r] = pte[r]
        BY <3>1, <3>2, <3>3 DEF UnloadRelease, Retire
      <3> QED
        BY <3>1, <3>4 DEF Mapped
    <2> QED
      BY <2>2, <2>3
  <1>7. NoDirtyDiscard'
    BY HatAssumption, SlotParts
    DEF HatAssumption, Inv, TypeOK, NoDirtyDiscard, DirtyTracked, RevMapExact,
        LoadableMapped, MapsTo, Mapped, Loadable, Pte, Frame,
        UnloadRelease, Retire, FlushATC, Harvest, Orphans, PagesOf
  <1> QED
    BY <1>1, <1>2, <1>3, <1>4, <1>5, <1>6, <1>7 DEF Inv

(* hat_unload that aborts pages keeps the invariant.                      *)
LEMMA UnloadAbortStep ==
    ASSUME Inv, NEW a \in AS, NEW R \in SUBSET VA, NEW G \in SUBSET Page,
           UnloadAbort(a, R, G)
    PROVE  Inv'
  <1>1. TypeOK'
    BY HatAssumption, SlotParts
    DEF HatAssumption, Inv, TypeOK, Mapped, Pte, AtcEntry, Frame, UnloadAbort, Retire,
        FlushATC, Harvest
  <1>2. RevMapExact'
    BY HatAssumption, SlotParts
    DEF HatAssumption, Inv, TypeOK, RevMapExact, MapsTo, Mapped, Pte, UnloadAbort,
        Retire, FlushATC, Harvest
  <1>3. LoadableMapped'
    BY HatAssumption, SlotParts
    DEF HatAssumption, Inv, TypeOK, LoadableMapped, Loadable, Mapped, Pte, Frame,
        UnloadAbort, Retire, FlushATC, Harvest, RevMapExact, MapsTo,
        PagesOf
  <1>4. TablesOwned'
    BY HatAssumption, SlotParts
    DEF HatAssumption, Inv, TypeOK, TablesOwned, Mapped, Pte, UnloadAbort, Retire,
        FlushATC, Harvest, LoadableMapped, Loadable, MapsTo, RevMapExact,
        PagesOf
  <1>5. AtcCoherent'
    BY HatAssumption, SlotParts
    DEF HatAssumption, Inv, TypeOK, AtcCoherent, Mapped, Pte, AtcEntry, UnloadAbort,
        Retire, FlushATC, Harvest
  <1>6. DirtyTracked'
    <2> SUFFICES ASSUME NEW q \in Page, dirty'[q]
                 PROVE  pmod'[q] \/ \E r \in chain'[q] : Mapped(r)' /\ pte'[r].m
      BY DEF DirtyTracked
    <2> DEFINE S == {a} \X R
    <2>1. dirty[q] /\ ~(q \in G)
      BY DEF UnloadAbort
    <2>2. CASE Harvest(S)[q]
      BY <2>1, <2>2 DEF UnloadAbort
    <2>3. CASE ~Harvest(S)[q]
      <3>1. PICK r \in chain[q] : Mapped(r) /\ pte[r].m
        BY <2>1, <2>3 DEF Inv, DirtyTracked, Harvest
      <3>2. r \in Slot /\ pte[r].frame = q
        BY <3>1 DEF Inv, RevMapExact, MapsTo
      <3>3. r \notin S
        BY <2>3, <3>1, <3>2 DEF Harvest, MapsTo
      <3>4. \A p \in G : p \in Page /\ p # q /\ r \notin chain[p]
        BY <2>1, <3>1, <3>2 DEF Inv, RevMapExact, MapsTo
      <3>5. r \in chain'[q] /\ pte'[r] = pte[r]
        BY <3>1, <3>2, <3>3, <3>4 DEF UnloadAbort, Retire
      <3> QED
        BY <3>1, <3>5 DEF Mapped
    <2> QED
      BY <2>2, <2>3
  <1>7. NoDirtyDiscard'
    BY HatAssumption, SlotParts
    DEF HatAssumption, Inv, TypeOK, NoDirtyDiscard, DirtyTracked, RevMapExact,
        LoadableMapped, MapsTo, Mapped, Loadable, Pte, Frame,
        UnloadAbort, Retire, FlushATC, Harvest
  <1> QED
    BY <1>1, <1>2, <1>3, <1>4, <1>5, <1>6, <1>7 DEF Inv

(* hat_free keeps the invariant.                                          *)
LEMMA HatFreeStep ==
    ASSUME Inv, NEW a \in AS, NEW K \in SUBSET Page,
           HatFree(a, K)
    PROVE  Inv'
  <1>0. /\ \A p \in TablePages(a) : use[p] = "table" /\ p \in Page
        /\ \A t \in Table : t[1] # a /\ tables[t] # None => tables[t] \notin TablePages(a)
    <2>1. \A t \in {a} \X Tab : t \in Table /\ t[1] = a
      BY DEF Table
    <2> QED
      BY <2>1 DEF Inv, TypeOK, TablesOwned, TablePages
  <1>a. /\ \A s \in Slot : s[1] = a => pte'[s] = None
        /\ \A s \in Slot : s[1] # a => pte'[s] = pte[s]
        /\ \A t \in Table : tables'[t] = IF t[1] = a THEN None ELSE tables[t]
        /\ \A p \in Page : use'[p] = use[p] \/ (p \in TablePages(a) /\ use'[p] = "free")
        /\ live' = live \ {a} /\ dirty' = dirty
    BY SlotParts DEF HatFree
  <1>1. TypeOK'
    BY HatAssumption, SlotParts
    DEF HatAssumption, Inv, TypeOK, Mapped, Pte, AtcEntry, Frame, HatFree, FlushATC,
        Harvest, TablePages
  <1>2. RevMapExact'
    BY HatAssumption, SlotParts
    DEF HatAssumption, Inv, TypeOK, RevMapExact, MapsTo, Mapped, Pte, HatFree, FlushATC,
        Harvest, TablePages
  <1>3. LoadableMapped'
    BY <1>0, <1>a, SlotParts DEF Inv, LoadableMapped, Loadable, Mapped
  <1>4. TablesOwned'
    <2>1. \A s \in Slot : TableOf(s)[1] = s[1] /\ TableOf(s) \in Table
      BY SlotParts DEF TableOf
    <2>2. ASSUME NEW t \in Table, tables'[t] # None
          PROVE  /\ t[1] \in live'
                 /\ use'[tables'[t]] = "table"
                 /\ \A u \in Table : tables'[u] = tables'[t] => u = t
      <3>1. t[1] # a /\ tables[t] # None /\ tables'[t] = tables[t] /\ tables[t] \in Page
        BY <1>a, <2>2 DEF Inv, TypeOK
      <3>2. \A u \in Table : tables'[u] = tables[t] => tables[u] = tables[t]
        BY <1>a, <3>1
      <3>3. t[1] \in live /\ use[tables[t]] = "table" /\ \A u \in Table : tables[u] = tables[t] => u = t
        BY <3>1 DEF Inv, TablesOwned
      <3> QED
        BY <1>0, <1>a, <3>1, <3>2, <3>3
    <2>3. ASSUME NEW s \in Slot, Mapped(s)'
          PROVE  tables'[TableOf(s)] # None
      BY <1>a, <2>1, <2>3 DEF Inv, TablesOwned, Mapped
    <2> QED
      BY <2>2, <2>3 DEF TablesOwned
  <1>5. AtcCoherent'
    BY HatAssumption, SlotParts
    DEF HatAssumption, Inv, TypeOK, AtcCoherent, Mapped, Pte, AtcEntry, HatFree,
        FlushATC, Harvest, TablePages
  <1>6. DirtyTracked'
    BY HatAssumption, SlotParts
    DEF HatAssumption, Inv, TypeOK, DirtyTracked, RevMapExact, MapsTo, Mapped, Pte,
        Frame, HatFree, FlushATC, Harvest, TablePages
  <1>7. NoDirtyDiscard'
    BY <1>0, <1>a DEF Inv, NoDirtyDiscard
  <1> QED
    BY <1>1, <1>2, <1>3, <1>4, <1>5, <1>6, <1>7 DEF Inv

(* hat_chgprot keeps the invariant.                                       *)
LEMMA ChgprotStep ==
    ASSUME Inv, NEW a \in AS, NEW R \in SUBSET VA, NEW prot \in Prot,
           Chgprot(a, R, prot)
    PROVE  Inv'
  <1>0. /\ \A r \in Slot : Mapped(r)' <=> Mapped(r)
        /\ \A r \in Slot : Mapped(r) => /\ pte'[r] \in Pte
                                        /\ pte'[r].frame = pte[r].frame
                                        /\ pte'[r].m = pte[r].m
        /\ pte' \in [Slot -> Pte \cup {None}]
    <2>1. \A d \in Pte : /\ Protected(d, prot) \in Pte
                         /\ Protected(d, prot).frame = d.frame
                         /\ Protected(d, prot).m = d.m
      BY DEF Protected, Pte, Prot
    <2>2. \A r \in Slot : Mapped(r) => pte[r] \in Pte
      BY DEF Inv, TypeOK, Mapped
    <2>3. \A r \in Slot : Mapped(r) => /\ pte'[r] \in Pte
                                       /\ pte'[r].frame = pte[r].frame
                                       /\ pte'[r].m = pte[r].m
      BY <2>1, <2>2 DEF Chgprot
    <2>4. \A r \in Slot : Mapped(r)' <=> Mapped(r)
      BY <2>3, HatAssumption DEF HatAssumption, Mapped, Chgprot
    <2> QED
      BY <2>1, <2>2, <2>3, <2>4 DEF Chgprot, Mapped
  <1>1. TypeOK'
    BY <1>0 DEF Inv, TypeOK, Chgprot, FlushATC
  <1>2. RevMapExact'
    BY <1>0, <1>1 DEF Inv, TypeOK, RevMapExact, MapsTo, Chgprot
  <1>3. LoadableMapped'
    BY <1>0 DEF Inv, LoadableMapped, Loadable, Chgprot
  <1>4. TablesOwned'
    BY <1>0 DEF Inv, TablesOwned, Chgprot
  <1>5. AtcCoherent'
    BY HatAssumption DEF AtcCoherent, Chgprot, FlushATC
  <1>6. DirtyTracked'
    <2>1. \A p \in Page : \A r \in chain[p] : r \in Slot
      BY DEF Inv, TypeOK
    <2>2. dirty' = dirty /\ pmod' = pmod /\ chain' = chain
      BY DEF Chgprot
    <2> QED
      BY <1>0, <2>1, <2>2 DEF Inv, DirtyTracked
  <1>7. NoDirtyDiscard'
    BY <1>0, HatAssumption, SlotParts
    DEF HatAssumption, Inv, TypeOK, NoDirtyDiscard, DirtyTracked, RevMapExact,
        LoadableMapped, MapsTo, Mapped, Loadable, Pte, Frame, Chgprot,
        FlushATC, Prot
  <1> QED
    BY <1>1, <1>2, <1>3, <1>4, <1>5, <1>6, <1>7 DEF Inv

(* hat_pagesync keeps the invariant.                                      *)
LEMMA PageSyncStep ==
    ASSUME Inv, NEW p \in Page,
           PageSync(p)
    PROVE  Inv'
  <1>0. /\ \A r \in Slot : Mapped(r)' <=> Mapped(r)
        /\ \A r \in Slot : Mapped(r) => pte'[r] \in Pte /\ pte'[r].frame = pte[r].frame
        /\ pte' \in [Slot -> Pte \cup {None}]
    <2>1. \A r \in Slot : Mapped(r) => pte[r] \in Pte
      BY DEF Inv, TypeOK, Mapped
    <2> QED
      BY <2>1, HatAssumption DEF HatAssumption, PageSync, Mapped, Pte, Prot, Inv, TypeOK
  <1>1. TypeOK'
    BY <1>0 DEF Inv, TypeOK, PageSync, ChainHarvest, FlushATC
  <1>2. RevMapExact'
    <2> SUFFICES ASSUME NEW q \in Page, NEW r \in Slot
                 PROVE  r \in chain'[q] <=> pte'[r] # None /\ pte'[r].frame = q
      BY <1>1 DEF RevMapExact, MapsTo, Mapped, TypeOK
    <2>1. r \in chain[q] <=> pte[r] # None /\ pte[r].frame = q
      BY DEF Inv, RevMapExact, MapsTo, Mapped
    <2> QED
      BY <1>0, <2>1 DEF Inv, TypeOK, Mapped, PageSync
  <1>3. LoadableMapped'
    BY <1>0, HatAssumption, SlotParts
    DEF HatAssumption, Inv, TypeOK, LoadableMapped, Loadable, Mapped, Pte, Frame,
        PageSync, FlushATC, ChainHarvest
  <1>4. TablesOwned'
    BY <1>0, HatAssumption, SlotParts
    DEF HatAssumption, Inv, TypeOK, TablesOwned, Mapped, Pte, PageSync, FlushATC,
        ChainHarvest
  <1>5. AtcCoherent'
    BY <1>0, HatAssumption, SlotParts
    DEF HatAssumption, Inv, TypeOK, AtcCoherent, Mapped, Pte, AtcEntry, PageSync,
        FlushATC, ChainHarvest
  <1>6. DirtyTracked'
    BY <1>0, HatAssumption, SlotParts
    DEF HatAssumption, Inv, TypeOK, DirtyTracked, RevMapExact, MapsTo, Mapped, Pte,
        Frame, PageSync, FlushATC, ChainHarvest
  <1>7. NoDirtyDiscard'
    BY <1>0, HatAssumption, SlotParts
    DEF HatAssumption, Inv, TypeOK, NoDirtyDiscard, DirtyTracked, RevMapExact,
        LoadableMapped, MapsTo, Mapped, Loadable, Pte, Frame, PageSync,
        FlushATC, ChainHarvest
  <1> QED
    BY <1>1, <1>2, <1>3, <1>4, <1>5, <1>6, <1>7 DEF Inv

(* hat_dup's table allocation keeps the invariant.                        *)
LEMMA DupTableStep ==
    ASSUME Inv, NEW a \in AS, NEW b \in AS, NEW v \in VA,
           DupTable(a, b, v)
    PROVE  Inv'
  <1>0. <<b, v>> \in Slot /\ TableOf(<<b, v>>) = <<b, TabOf[v]>> /\ <<b, TabOf[v]>> \in Table
    BY SlotParts
  <1>1. TypeOK'
    BY <1>0, HatAssumption, SlotParts
    DEF HatAssumption, Inv, TypeOK, Mapped, Pte, AtcEntry, Frame, DupTable, WithTable
  <1>2. RevMapExact'
    BY <1>0, HatAssumption, SlotParts
    DEF HatAssumption, Inv, TypeOK, RevMapExact, MapsTo, Mapped, Pte, DupTable,
        WithTable
  <1>3. LoadableMapped'
    BY <1>0, HatAssumption, SlotParts
    DEF HatAssumption, Inv, TypeOK, LoadableMapped, Loadable, Mapped, Pte, Frame,
        DupTable, WithTable
  <1>4. TablesOwned'
    BY <1>0, HatAssumption, SlotParts
    DEF HatAssumption, Inv, TypeOK, TablesOwned, Mapped, Pte, DupTable, WithTable
  <1>5. AtcCoherent'
    BY <1>0, HatAssumption, SlotParts
    DEF HatAssumption, Inv, TypeOK, AtcCoherent, Mapped, Pte, AtcEntry, DupTable,
        WithTable
  <1>6. DirtyTracked'
    BY <1>0, HatAssumption, SlotParts
    DEF HatAssumption, Inv, TypeOK, DirtyTracked, RevMapExact, MapsTo, Mapped, Pte,
        Frame, DupTable, WithTable
  <1>7. NoDirtyDiscard'
    BY <1>0, HatAssumption, SlotParts
    DEF HatAssumption, Inv, TypeOK, NoDirtyDiscard, DirtyTracked, RevMapExact,
        LoadableMapped, MapsTo, Mapped, Loadable, Pte, Frame, DupTable,
        WithTable
  <1> QED
    BY <1>1, <1>2, <1>3, <1>4, <1>5, <1>6, <1>7 DEF Inv

(* hat_dup sharing a page keeps the invariant.                            *)
LEMMA DupShareStep ==
    ASSUME Inv, NEW a \in AS, NEW b \in AS, NEW v \in VA,
           DupShare(a, b, v)
    PROVE  Inv'
  <1> DEFINE c == <<b, v>>
             o == <<a, v>>
  <1>0. /\ c \in Slot /\ o \in Slot /\ c # o
        /\ TableOf(c) = <<b, TabOf[v]>>
        /\ pte'[c] = pte[o] /\ pte[o] \in Pte /\ pte[o] # None
        /\ \A r \in Slot : r # c => pte'[r] = pte[r]
        /\ pte' \in [Slot -> Pte \cup {None}]
        /\ ~Mapped(c)
        /\ chain' = [p \in Page |-> IF p = pte[o].frame THEN chain[p] \cup {c} ELSE chain[p]]
    BY SlotParts DEF DupShare, Link, Inv, TypeOK, Mapped
  <1> HIDE DEF c, o
  <1>1. TypeOK'
    BY <1>0 DEF Inv, TypeOK, DupShare
  <1>2. RevMapExact'
    <2> SUFFICES ASSUME NEW q \in Page, NEW r \in Slot
                 PROVE  r \in chain'[q] <=> pte'[r] # None /\ pte'[r].frame = q
      BY <1>1 DEF RevMapExact, MapsTo, Mapped, TypeOK
    <2>1. r \in chain[q] <=> pte[r] # None /\ pte[r].frame = q
      BY DEF Inv, RevMapExact, MapsTo, Mapped
    <2> QED
      BY <1>0, <2>1 DEF Inv, TypeOK, Mapped, DupShare
  <1>3. LoadableMapped'
    BY <1>0 DEF Inv, LoadableMapped, Loadable, Mapped, DupShare
  <1>4. TablesOwned'
    BY <1>0, SlotParts DEF Inv, TypeOK, TablesOwned, Mapped, DupShare, c, o
  <1>5. AtcCoherent'
    BY <1>0 DEF Inv, TypeOK, AtcCoherent, Mapped, DupShare
  <1>6. DirtyTracked'
    BY <1>0 DEF Inv, TypeOK, DirtyTracked, RevMapExact, MapsTo, Mapped, DupShare
  <1>7. NoDirtyDiscard'
    BY <1>0, HatAssumption, SlotParts
    DEF HatAssumption, Inv, TypeOK, NoDirtyDiscard, DirtyTracked, RevMapExact,
        LoadableMapped, MapsTo, Mapped, Loadable, Pte, Frame, DupShare,
        Link
  <1> QED
    BY <1>1, <1>2, <1>3, <1>4, <1>5, <1>6, <1>7 DEF Inv

(* hat_dup copying a page keeps the invariant.                            *)
LEMMA DupCopyStep ==
    ASSUME Inv, NEW a \in AS, NEW b \in AS, NEW v \in VA, NEW n \in Page,
           NEW last \in BOOLEAN,
           DupCopy(a, b, v, n, last)
    PROVE  Inv'
  <1> DEFINE c == <<b, v>>
             o == <<a, v>>
  <1>0. /\ c \in Slot /\ o \in Slot /\ c # o
        /\ TableOf(c) = <<b, TabOf[v]>> /\ tables[TableOf(c)] # None
        /\ ~Mapped(c) /\ Mapped(o)
        /\ chain' = [chain EXCEPT ![n] = {c}]
    BY SlotParts DEF DupCopy
  <1>a. /\ pte'[c] = Leaf(n, "rw")
        /\ pte'[o] \in {pte[o], [pte[o] EXCEPT !.wp = FALSE]}
        /\ \A r \in Slot : r \notin {c, o} => pte'[r] = pte[r]
        /\ DOMAIN pte' = Slot
    BY <1>0 DEF DupCopy
  <1>b. /\ pte[o] \in Pte /\ pte'[o] \in Pte
        /\ pte'[o].frame = pte[o].frame /\ pte'[o].m = pte[o].m
        /\ pte'[o].res = pte[o].res /\ (~pte[o].wp => ~pte'[o].wp)
    <2>1. pte[o] \in Pte
      BY <1>0 DEF Inv, TypeOK, Mapped
    <2> QED
      BY <1>a, <2>1 DEF Pte
  <1>c. /\ pte'[c] \in Pte /\ pte'[c].frame = n /\ ~pte'[c].m
        /\ pte'[c] # None /\ pte'[o] # None
    <2>1. n \in Frame /\ "rw" \in Prot
      BY DEF Frame, Prot
    <2> QED
      BY <1>a, <1>b, <2>1, LeafParts, HatAssumption DEF HatAssumption
  <1>d. pte' \in [Slot -> Pte \cup {None}]
    <2>1. pte' = [r \in Slot |-> pte'[r]]
      BY DEF DupCopy
    <2> QED
      BY <1>a, <1>b, <1>c, <2>1 DEF Inv, TypeOK
  <1>e. \A r \in Slot : r # c => /\ Mapped(r)' <=> Mapped(r)
                                 /\ Mapped(r) => /\ pte'[r].frame = pte[r].frame
                                                 /\ pte'[r].m = pte[r].m
                                                 /\ pte'[r].res = pte[r].res
                                                 /\ ~pte[r].wp => ~pte'[r].wp
    BY <1>0, <1>a, <1>b, <1>c DEF Mapped
  <1>f. chain[n] = {} /\ \A r \in Slot : Mapped(r) => pte[r].frame # n
    BY HatAssumption DEF HatAssumption, Inv, LoadableMapped, Loadable, RevMapExact, MapsTo, DupCopy
  <1> HIDE DEF c, o
  <1>1. TypeOK'
    <2>1. use' \in [Page -> {"free", "data", "table"}]
      BY DEF Inv, TypeOK, DupCopy
    <2>2. chain' \in [Page -> SUBSET Slot]
      BY <1>0 DEF Inv, TypeOK
    <2>3. pmod' \in [Page -> BOOLEAN] /\ dirty' \in [Page -> BOOLEAN]
      BY DEF Inv, TypeOK, DupCopy
    <2> QED
      BY <1>d, <2>1, <2>2, <2>3 DEF Inv, TypeOK, DupCopy
  <1>2. RevMapExact'
    <2> SUFFICES ASSUME NEW q \in Page, NEW r \in Slot
                 PROVE  r \in chain'[q] <=> Mapped(r)' /\ pte'[r].frame = q
      BY <1>1 DEF RevMapExact, MapsTo, Mapped, TypeOK
    <2>1. r \in chain[q] <=> Mapped(r) /\ pte[r].frame = q
      BY DEF Inv, RevMapExact, MapsTo
    <2>2. CASE r = c
      BY <1>0, <1>c, <2>1, <2>2 DEF Inv, TypeOK, Mapped
    <2>3. CASE r # c
      BY <1>0, <1>e, <1>f, <2>1, <2>3 DEF Inv, TypeOK
    <2> QED
      BY <2>2, <2>3
  <1>3. LoadableMapped'
    BY <1>0, <1>c, <1>e, HatAssumption
    DEF HatAssumption, Inv, TypeOK, LoadableMapped, Loadable, DupCopy
  <1>4. TablesOwned'
    BY <1>0, <1>c, <1>e, SlotParts DEF Inv, TypeOK, TablesOwned, DupCopy
  <1>5. AtcCoherent'
    <2> SUFFICES ASSUME NEW w \in VA, atc[w] # None
                 PROVE  LET r == <<cur, w>>
                        IN  /\ r \in Slot /\ Mapped(r)'
                            /\ pte'[r].res
                            /\ pte'[r].frame = atc[w].frame
                            /\ atc[w].w => ~pte'[r].wp
                            /\ atc[w].m => pte'[r].m
      BY DEF AtcCoherent, DupCopy
    <2>1. /\ <<cur, w>> \in Slot /\ Mapped(<<cur, w>>)
          /\ pte[<<cur, w>>].res
          /\ pte[<<cur, w>>].frame = atc[w].frame
          /\ atc[w].w => ~pte[<<cur, w>>].wp
          /\ atc[w].m => pte[<<cur, w>>].m
      BY DEF Inv, AtcCoherent
    <2>2. <<cur, w>> # c
      BY <1>0, <2>1
    <2>3. cur' = cur
      BY DEF DupCopy
    <2> QED
      BY <1>e, <2>1, <2>2, <2>3
  <1>6. DirtyTracked'
    <2> SUFFICES ASSUME NEW q \in Page, dirty'[q]
                 PROVE  pmod'[q] \/ \E r \in chain'[q] : Mapped(r)' /\ pte'[r].m
      BY DEF DirtyTracked
    <2>1. CASE q = n
      BY <2>1 DEF DupCopy, Inv, TypeOK
    <2>2. CASE q # n
      <3>1. pmod[q] \/ \E r \in chain[q] : Mapped(r) /\ pte[r].m
        BY <2>2 DEF DupCopy, Inv, TypeOK, DirtyTracked
      <3>2. \A r \in chain[q] : r \in Slot /\ Mapped(r)
        BY DEF Inv, RevMapExact, MapsTo
      <3> QED
        BY <1>0, <1>e, <2>2, <3>1, <3>2 DEF DupCopy, Inv, TypeOK
    <2> QED
      BY <2>1, <2>2
  <1>7. NoDirtyDiscard'
    BY HatAssumption, SlotParts
    DEF HatAssumption, Inv, TypeOK, NoDirtyDiscard, DirtyTracked, RevMapExact,
        LoadableMapped, MapsTo, Mapped, Loadable, Pte, Frame, DupCopy,
        Leaf
  <1> QED
    BY <1>1, <1>2, <1>3, <1>4, <1>5, <1>6, <1>7 DEF Inv

(* A context switch keeps the invariant.                                  *)
LEMMA SwitchStep ==
    ASSUME Inv, NEW a \in AS,
           Switch(a)
    PROVE  Inv'
  <1>1. TypeOK'
    BY HatAssumption, SlotParts
    DEF HatAssumption, Inv, TypeOK, Mapped, Pte, AtcEntry, Frame, Switch, FlushATC
  <1>2. RevMapExact'
    BY HatAssumption, SlotParts
    DEF HatAssumption, Inv, TypeOK, RevMapExact, MapsTo, Mapped, Pte, Switch, FlushATC
  <1>3. LoadableMapped'
    BY HatAssumption, SlotParts
    DEF HatAssumption, Inv, TypeOK, LoadableMapped, Loadable, Mapped, Pte, Frame,
        Switch, FlushATC
  <1>4. TablesOwned'
    BY HatAssumption, SlotParts
    DEF HatAssumption, Inv, TypeOK, TablesOwned, Mapped, Pte, Switch, FlushATC
  <1>5. AtcCoherent'
    BY HatAssumption, SlotParts
    DEF HatAssumption, Inv, TypeOK, AtcCoherent, Mapped, Pte, AtcEntry, Switch,
        FlushATC
  <1>6. DirtyTracked'
    BY HatAssumption, SlotParts
    DEF HatAssumption, Inv, TypeOK, DirtyTracked, RevMapExact, MapsTo, Mapped, Pte,
        Frame, Switch, FlushATC
  <1>7. NoDirtyDiscard'
    BY HatAssumption, SlotParts
    DEF HatAssumption, Inv, TypeOK, NoDirtyDiscard, DirtyTracked, RevMapExact,
        LoadableMapped, MapsTo, Mapped, Loadable, Pte, Frame, Switch,
        FlushATC
  <1> QED
    BY <1>1, <1>2, <1>3, <1>4, <1>5, <1>6, <1>7 DEF Inv

(* A write through the ATC keeps the invariant.                           *)
LEMMA WriteHitStep ==
    ASSUME Inv, NEW v \in VA,
           WriteHit(v)
    PROVE  Inv'
  <1>0. /\ <<cur, v>> \in Slot /\ Mapped(<<cur, v>>)
        /\ pte[<<cur, v>>].m /\ pte[<<cur, v>>].frame = atc[v].frame
    BY DEF WriteHit, Inv, AtcCoherent
  <1>1. TypeOK'
    BY HatAssumption, SlotParts
    DEF HatAssumption, Inv, TypeOK, Mapped, Pte, AtcEntry, Frame, WriteHit, MarkDirty
  <1>2. RevMapExact'
    BY HatAssumption, SlotParts
    DEF HatAssumption, Inv, TypeOK, RevMapExact, MapsTo, Mapped, Pte, WriteHit,
        MarkDirty
  <1>3. LoadableMapped'
    BY HatAssumption, SlotParts
    DEF HatAssumption, Inv, TypeOK, LoadableMapped, Loadable, Mapped, Pte, Frame,
        WriteHit, MarkDirty
  <1>4. TablesOwned'
    BY HatAssumption, SlotParts
    DEF HatAssumption, Inv, TypeOK, TablesOwned, Mapped, Pte, WriteHit, MarkDirty
  <1>5. AtcCoherent'
    BY HatAssumption, SlotParts
    DEF HatAssumption, Inv, TypeOK, AtcCoherent, Mapped, Pte, AtcEntry, WriteHit,
        MarkDirty
  <1>6. DirtyTracked'
    <2> SUFFICES ASSUME NEW q \in Page, dirty'[q]
                 PROVE  pmod[q] \/ \E r \in chain[q] : Mapped(r) /\ pte[r].m
      BY DEF DirtyTracked, WriteHit, Mapped
    <2>1. CASE dirty[q]
      BY <2>1 DEF Inv, DirtyTracked
    <2>2. CASE q = atc[v].frame
      BY <1>0, <2>2 DEF Inv, RevMapExact, MapsTo
    <2> QED
      BY <2>1, <2>2 DEF WriteHit, MarkDirty
  <1>7. NoDirtyDiscard'
    BY <1>0, HatAssumption DEF HatAssumption, Inv, TypeOK, NoDirtyDiscard,
        LoadableMapped, Loadable, WriteHit, MarkDirty
  <1> QED
    BY <1>1, <1>2, <1>3, <1>4, <1>5, <1>6, <1>7 DEF Inv

(* A table search keeps the invariant.                                    *)
LEMMA WalkStep ==
    ASSUME Inv, NEW v \in VA, NEW write \in BOOLEAN,
           Walk(v, write)
    PROVE  Inv'
  <1> DEFINE s == <<cur, v>>
  <1>0. s \in Slot /\ Mapped(s) /\ pte[s] \in Pte
    BY SlotParts DEF Walk, Inv, TypeOK, Mapped
  <1>a. /\ pte' = [pte EXCEPT ![s] = [pte[s] EXCEPT !.m = pte[s].m \/ write]]
        /\ atc' = [atc EXCEPT ![v] = [frame |-> pte[s].frame, w |-> ~pte[s].wp,
                                      m |-> pte[s].m \/ write]]
        /\ pte[s].res
        /\ UNCHANGED <<cur, live, tables, chain, pmod, use>>
    BY DEF Walk
  <1>b. [pte[s] EXCEPT !.m = pte[s].m \/ write] \in Pte
    BY <1>0 DEF Pte
  <1>c. /\ pte'[s] \in Pte /\ pte'[s] # None
        /\ pte'[s].frame = pte[s].frame /\ pte'[s].res = pte[s].res
        /\ pte'[s].wp = pte[s].wp
        /\ pte'[s].m = (pte[s].m \/ write)
    BY <1>0, <1>a, <1>b, HatAssumption DEF HatAssumption, Inv, TypeOK, Pte
  <1>d. /\ \A r \in Slot : r # s => pte'[r] = pte[r]
        /\ pte' \in [Slot -> Pte \cup {None}]
    BY <1>0, <1>a, <1>b DEF Inv, TypeOK
  <1>e. \A p \in Page : dirty'[p] => dirty[p] \/ (write /\ p = pte[s].frame)
    BY DEF Walk, MarkDirty
  <1>f. s = <<cur, v>>
    OBVIOUS
  <1> HIDE DEF s
  <1>1. TypeOK'
    <2>1. dirty' \in [Page -> BOOLEAN]
      BY DEF Walk, MarkDirty, Inv, TypeOK
    <2>2. atc' \in [VA -> AtcEntry \cup {None}]
      BY <1>0, <1>a DEF Inv, TypeOK, Pte, AtcEntry
    <2> QED
      BY <1>a, <1>d, <2>1, <2>2 DEF Inv, TypeOK
  <1>2. RevMapExact'
    <2> SUFFICES ASSUME NEW q \in Page, NEW r \in Slot
                 PROVE  r \in chain'[q] <=> Mapped(r)' /\ pte'[r].frame = q
      BY <1>1 DEF RevMapExact, MapsTo, Mapped, TypeOK
    <2> QED
      BY <1>0, <1>a, <1>c, <1>d DEF Inv, RevMapExact, MapsTo, Mapped
  <1>3. LoadableMapped'
    BY <1>0, <1>a, <1>c, <1>d DEF Inv, LoadableMapped, Loadable, Mapped
  <1>4. TablesOwned'
    BY <1>0, <1>a, <1>c, <1>d DEF Inv, TablesOwned, Mapped
  <1>5. AtcCoherent'
    <2> SUFFICES ASSUME NEW w \in VA, atc'[w] # None
                 PROVE  LET r == <<cur, w>>
                        IN  /\ r \in Slot /\ Mapped(r)'
                            /\ pte'[r].res
                            /\ pte'[r].frame = atc'[w].frame
                            /\ atc'[w].w => ~pte'[r].wp
                            /\ atc'[w].m => pte'[r].m
      BY <1>a DEF AtcCoherent
    <2>1. CASE w = v
      BY <1>0, <1>a, <1>c, <1>f, <2>1 DEF Inv, TypeOK, Mapped
    <2>2. CASE w # v
      <3>1. atc'[w] = atc[w] /\ <<cur, w>> # s
        BY <1>a, <1>f, <2>2 DEF Inv, TypeOK
      <3>2. atc[w] # None
        BY <3>1
      <3>3. /\ <<cur, w>> \in Slot /\ Mapped(<<cur, w>>)
            /\ pte[<<cur, w>>].res
            /\ pte[<<cur, w>>].frame = atc[w].frame
            /\ atc[w].w => ~pte[<<cur, w>>].wp
            /\ atc[w].m => pte[<<cur, w>>].m
        BY <3>2 DEF Inv, AtcCoherent
      <3>4. pte'[<<cur, w>>] = pte[<<cur, w>>]
        BY <1>d, <3>1, <3>3
      <3> QED
        BY <1>a, <3>1, <3>3, <3>4 DEF Mapped
    <2> QED
      BY <2>1, <2>2
  <1>6. DirtyTracked'
    <2> SUFFICES ASSUME NEW q \in Page, dirty'[q]
                 PROVE  pmod'[q] \/ \E r \in chain'[q] : Mapped(r)' /\ pte'[r].m
      BY DEF DirtyTracked
    <2>1. CASE dirty[q]
      BY <1>0, <1>a, <1>c, <1>d, <2>1
      DEF Inv, DirtyTracked, RevMapExact, MapsTo, Mapped
    <2>2. CASE write /\ q = pte[s].frame
      BY <1>0, <1>a, <1>c, <2>2 DEF Inv, RevMapExact, MapsTo, Mapped
    <2> QED
      BY <1>e, <2>1, <2>2
  <1>7. NoDirtyDiscard'
    BY <1>0, <1>a, <1>e, HatAssumption
    DEF HatAssumption, Inv, NoDirtyDiscard, LoadableMapped, Loadable
  <1> QED
    BY <1>1, <1>2, <1>3, <1>4, <1>5, <1>6, <1>7 DEF Inv

(* page_get keeps the invariant.                                          *)
LEMMA PageGetStep ==
    ASSUME Inv, NEW p \in Page,
           PageGet(p)
    PROVE  Inv'
  <1>1. TypeOK'
    BY HatAssumption, SlotParts
    DEF HatAssumption, Inv, TypeOK, Mapped, Pte, AtcEntry, Frame, PageGet
  <1>2. RevMapExact'
    BY HatAssumption, SlotParts
    DEF HatAssumption, Inv, TypeOK, RevMapExact, MapsTo, Mapped, Pte, PageGet
  <1>3. LoadableMapped'
    BY HatAssumption, SlotParts
    DEF HatAssumption, Inv, TypeOK, LoadableMapped, Loadable, Mapped, Pte, Frame,
        PageGet
  <1>4. TablesOwned'
    BY HatAssumption, SlotParts
    DEF HatAssumption, Inv, TypeOK, TablesOwned, Mapped, Pte, PageGet
  <1>5. AtcCoherent'
    BY HatAssumption, SlotParts
    DEF HatAssumption, Inv, TypeOK, AtcCoherent, Mapped, Pte, AtcEntry, PageGet
  <1>6. DirtyTracked'
    BY HatAssumption, SlotParts
    DEF HatAssumption, Inv, TypeOK, DirtyTracked, RevMapExact, MapsTo, Mapped, Pte,
        Frame, PageGet
  <1>7. NoDirtyDiscard'
    BY HatAssumption, SlotParts
    DEF HatAssumption, Inv, TypeOK, NoDirtyDiscard, DirtyTracked, RevMapExact,
        LoadableMapped, MapsTo, Mapped, Loadable, Pte, Frame, PageGet
  <1> QED
    BY <1>1, <1>2, <1>3, <1>4, <1>5, <1>6, <1>7 DEF Inv

(* Writing a page back keeps the invariant.                               *)
LEMMA WritebackStep ==
    ASSUME Inv, NEW p \in Page,
           Writeback(p)
    PROVE  Inv'
  <1>1. TypeOK'
    BY HatAssumption, SlotParts
    DEF HatAssumption, Inv, TypeOK, Mapped, Pte, AtcEntry, Frame, Writeback
  <1>2. RevMapExact'
    BY HatAssumption, SlotParts
    DEF HatAssumption, Inv, TypeOK, RevMapExact, MapsTo, Mapped, Pte, Writeback
  <1>3. LoadableMapped'
    BY HatAssumption, SlotParts
    DEF HatAssumption, Inv, TypeOK, LoadableMapped, Loadable, Mapped, Pte, Frame,
        Writeback
  <1>4. TablesOwned'
    BY HatAssumption, SlotParts
    DEF HatAssumption, Inv, TypeOK, TablesOwned, Mapped, Pte, Writeback
  <1>5. AtcCoherent'
    BY HatAssumption, SlotParts
    DEF HatAssumption, Inv, TypeOK, AtcCoherent, Mapped, Pte, AtcEntry, Writeback
  <1>6. DirtyTracked'
    BY HatAssumption, SlotParts
    DEF HatAssumption, Inv, TypeOK, DirtyTracked, RevMapExact, MapsTo, Mapped, Pte,
        Frame, Writeback
  <1>7. NoDirtyDiscard'
    BY HatAssumption, SlotParts
    DEF HatAssumption, Inv, TypeOK, NoDirtyDiscard, DirtyTracked, RevMapExact,
        LoadableMapped, MapsTo, Mapped, Loadable, Pte, Frame, Writeback
  <1> QED
    BY <1>1, <1>2, <1>3, <1>4, <1>5, <1>6, <1>7 DEF Inv

(* page_free keeps the invariant.                                         *)
LEMMA PageFreeStep ==
    ASSUME Inv, NEW p \in Page,
           PageFree(p)
    PROVE  Inv'
  <1>1. TypeOK'
    BY HatAssumption, SlotParts
    DEF HatAssumption, Inv, TypeOK, Mapped, Pte, AtcEntry, Frame, PageFree
  <1>2. RevMapExact'
    BY HatAssumption, SlotParts
    DEF HatAssumption, Inv, TypeOK, RevMapExact, MapsTo, Mapped, Pte, PageFree
  <1>3. LoadableMapped'
    BY HatAssumption, SlotParts
    DEF HatAssumption, Inv, TypeOK, LoadableMapped, Loadable, Mapped, Pte, Frame,
        PageFree, RevMapExact, MapsTo
  <1>4. TablesOwned'
    BY HatAssumption, SlotParts
    DEF HatAssumption, Inv, TypeOK, TablesOwned, Mapped, Pte, PageFree
  <1>5. AtcCoherent'
    BY HatAssumption, SlotParts
    DEF HatAssumption, Inv, TypeOK, AtcCoherent, Mapped, Pte, AtcEntry, PageFree
  <1>6. DirtyTracked'
    BY HatAssumption, SlotParts
    DEF HatAssumption, Inv, TypeOK, DirtyTracked, RevMapExact, MapsTo, Mapped, Pte,
        Frame, PageFree
  <1>7. NoDirtyDiscard'
    BY HatAssumption, SlotParts
    DEF HatAssumption, Inv, TypeOK, NoDirtyDiscard, DirtyTracked, RevMapExact,
        LoadableMapped, MapsTo, Mapped, Loadable, Pte, Frame, PageFree
  <1> QED
    BY <1>1, <1>2, <1>3, <1>4, <1>5, <1>6, <1>7 DEF Inv

(* page_abort keeps the invariant.                                        *)
LEMMA PageAbortStep ==
    ASSUME Inv, NEW p \in Page,
           PageAbort(p)
    PROVE  Inv'
  <1>1. TypeOK'
    BY HatAssumption, SlotParts
    DEF HatAssumption, Inv, TypeOK, Mapped, Pte, AtcEntry, Frame, PageAbort, FlushATC
  <1>2. RevMapExact'
    BY HatAssumption, SlotParts
    DEF HatAssumption, Inv, TypeOK, RevMapExact, MapsTo, Mapped, Pte, PageAbort,
        FlushATC
  <1>3. LoadableMapped'
    BY HatAssumption, SlotParts
    DEF HatAssumption, Inv, TypeOK, LoadableMapped, Loadable, Mapped, Pte, Frame,
        PageAbort, FlushATC, RevMapExact, MapsTo
  <1>4. TablesOwned'
    BY HatAssumption, SlotParts
    DEF HatAssumption, Inv, TypeOK, TablesOwned, Mapped, Pte, PageAbort, FlushATC
  <1>5. AtcCoherent'
    BY HatAssumption, SlotParts
    DEF HatAssumption, Inv, TypeOK, AtcCoherent, Mapped, Pte, AtcEntry, PageAbort,
        FlushATC
  <1>6. DirtyTracked'
    BY HatAssumption, SlotParts
    DEF HatAssumption, Inv, TypeOK, DirtyTracked, RevMapExact, MapsTo, Mapped, Pte,
        Frame, PageAbort, FlushATC
  <1>7. NoDirtyDiscard'
    BY HatAssumption, SlotParts
    DEF HatAssumption, Inv, TypeOK, NoDirtyDiscard, DirtyTracked, RevMapExact,
        LoadableMapped, MapsTo, Mapped, Loadable, Pte, Frame, PageAbort,
        FlushATC
  <1> QED
    BY <1>1, <1>2, <1>3, <1>4, <1>5, <1>6, <1>7 DEF Inv

(* A step that changes nothing keeps the invariant.                        *)
LEMMA StutterStep ==
    ASSUME Inv, UNCHANGED vars
    PROVE  Inv'
  BY DEF Inv, vars, TypeOK, RevMapExact, LoadableMapped, TablesOwned, AtcCoherent,
         DirtyTracked, NoDirtyDiscard, Mapped, MapsTo, Loadable

(* The invariant holds of the empty system.                                *)
LEMMA InitInv == Init => Inv
  BY SlotParts DEF Init, Inv, TypeOK, RevMapExact, LoadableMapped, TablesOwned,
         AtcCoherent, DirtyTracked, NoDirtyDiscard, Mapped, MapsTo, Loadable

(* Every step of a handler, of the hardware and of the VM system keeps it. *)
LEMMA NextInv == Inv /\ [Next]_vars => Inv'
  <1> SUFFICES ASSUME Inv, [Next]_vars PROVE Inv'
    OBVIOUS
  <1>1. CASE Hat
    <2>1. ASSUME NEW a \in live, NEW R \in Ranges,
                 \/ Unload(a, R)
                 \/ \E F \in SUBSET Orphans({a} \X R) : UnloadRelease(a, R, F)
                 \/ \E G \in SUBSET PagesOf({a} \X R) : UnloadAbort(a, R, G)
          PROVE  Inv'
      <3>1. a \in AS /\ R \in SUBSET VA
        BY DEF Inv, TypeOK, Ranges
      <3>2. \A S : Orphans(S) \subseteq Page /\ PagesOf(S) \subseteq Page
        BY DEF Orphans, PagesOf
      <3> QED
        BY <2>1, <3>1, <3>2, UnloadStep, UnloadReleaseStep, UnloadAbortStep
    <2>2. ASSUME NEW a \in live, NEW K \in SUBSET TablePages(a), HatFree(a, K)
          PROVE  Inv'
      <3>1. a \in AS /\ TablePages(a) \subseteq Page
        BY DEF Inv, TypeOK, TablePages, Table
      <3> QED
        BY <2>2, <3>1, HatFreeStep
    <2>3. ASSUME NEW a \in live, NEW R \in Ranges, NEW prot \in Prot, Chgprot(a, R, prot)
          PROVE  Inv'
      <3>1. a \in AS /\ R \in SUBSET VA
        BY DEF Inv, TypeOK, Ranges
      <3> QED
        BY <2>3, <3>1, ChgprotStep
    <2> QED
      BY <1>1, <2>1, <2>2, <2>3, HatAllocStep, PteloadFreshStep, PteloadSameStep,
         PteloadReplaceStep, PageUnloadStep, PageSyncStep, DupTableStep,
         DupShareStep, DupCopyStep DEF Hat
  <1>2. CASE Environment
    BY <1>2, SwitchStep, WriteHitStep, WalkStep, PageGetStep, WritebackStep,
       PageFreeStep, PageAbortStep DEF Environment
  <1>3. CASE UNCHANGED vars
    BY <1>3, StutterStep
  <1> QED
    BY <1>1, <1>2, <1>3 DEF Next

(* The inductive invariant holds in every reachable state.                 *)
THEOREM Invariance == Spec => []Inv
  BY InitInv, NextInv, PTL DEF Spec

(* The variables of the HAT keep their types.                              *)
THEOREM TypeCorrect == Spec => []TypeOK
  <1>1. Inv => TypeOK
    BY DEF Inv
  <1> QED
    BY <1>1, Invariance, PTL

(* p_mapping links exactly the descriptors that map the page.              *)
THEOREM ReverseMapIsExact == Spec => []RevMapExact
  <1>1. Inv => RevMapExact
    BY DEF Inv
  <1> QED
    BY <1>1, Invariance, PTL

(* No table entry and no ATC entry reaches a free page or a table page.    *)
THEOREM FreedPagesAreUnreachable == Spec => []NoStaleTranslation
  <1>1. Inv => NoStaleTranslation
    BY DEF Inv, NoStaleTranslation, LoadableMapped, AtcCoherent
  <1> QED
    BY <1>1, Invariance, PTL

(* Leaf tables are never shared, never lost while in use, never freed twice*)
THEOREM TablesAreOwned == Spec => []TablesOwned
  <1>1. Inv => TablesOwned
    BY DEF Inv
  <1> QED
    BY <1>1, Invariance, PTL

(* The ATC never allows what the tables do not.                            *)
THEOREM AtcNeverStale == Spec => []AtcCoherent
  <1>1. Inv => AtcCoherent
    BY DEF Inv
  <1> QED
    BY <1>1, Invariance, PTL

(* A modification is in p_mod or in an M bit the chain still reaches.      *)
THEOREM ModificationsAreTracked == Spec => []DirtyTracked
  <1>1. Inv => DirtyTracked
    BY DEF Inv
  <1> QED
    BY <1>1, Invariance, PTL

(* No page with unsaved data is freed as clean.                            *)
THEOREM DirtyPagesAreNotDiscarded == Spec => []NoDirtyDiscard
  <1>1. Inv => NoDirtyDiscard
    BY DEF Inv
  <1> QED
    BY <1>1, Invariance, PTL

(* A leaf table stays attached as long as its address space lives.         *)
THEOREM TablesAreKept == Spec => TableKept
  <1> DEFINE A == \A t \in Table : tables[t] # None /\ t[1] \in live' =>
                                      tables'[t] = tables[t]
  <1>1. Inv /\ [Next]_vars => [A]_vars
    <2> SUFFICES ASSUME Inv, Next PROVE A
      OBVIOUS
    <2>1. CASE \E s \in Slot, f \in Frame, prot \in Prot : PteloadFresh(s, f, prot)
      BY <2>1, SlotParts DEF Inv, TypeOK, PteloadFresh, WithTable
    <2>2. CASE \E a, b \in AS, v \in VA : DupTable(a, b, v)
      BY <2>2, SlotParts DEF Inv, TypeOK, DupTable, WithTable
    <2>3. CASE \E a \in live : \E K \in SUBSET TablePages(a) : HatFree(a, K)
      BY <2>3 DEF HatFree
    <2>4. CASE UNCHANGED tables
      BY <2>4
    <2>5. CASE Hat
      <3>1. \A a \in AS : HatAlloc(a) => UNCHANGED tables
        BY DEF HatAlloc
      <3>2. \A s, f, prot : PteloadSame(s, prot) \/ PteloadReplace(s, f, prot)
                              => UNCHANGED tables
        BY DEF PteloadSame, PteloadReplace
      <3>3. \A a, R, F : \/ Unload(a, R) \/ UnloadRelease(a, R, F)
                         \/ UnloadAbort(a, R, F)
                         => UNCHANGED tables
        BY DEF Unload, UnloadRelease, UnloadAbort, Retire
      <3>4. \A a, R, prot, p : Chgprot(a, R, prot) \/ PageSync(p) \/ PageUnload(p)
                                 => UNCHANGED tables
        BY DEF Chgprot, PageSync, PageUnload
      <3>5. \A a, b, v, n, last : DupShare(a, b, v) \/ DupCopy(a, b, v, n, last)
                                    => UNCHANGED tables
        BY DEF DupShare, DupCopy
      <3> QED
        BY <2>1, <2>2, <2>3, <2>4, <2>5, <3>1, <3>2, <3>3, <3>4, <3>5 DEF Hat
    <2>6. CASE Environment
      BY <2>4, <2>6 DEF Environment, Switch, WriteHit, Walk, PageGet, Writeback,
                        PageFree, PageAbort
    <2> QED
      BY <2>5, <2>6 DEF Next
  <1> QED
    BY <1>1, Invariance, PTL DEF Spec, TableKept
=============================================================================
