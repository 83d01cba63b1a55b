------------------------------- MODULE HatMap -------------------------------
(***************************************************************************)
(* The translation core of the 68040 HAT: leaf descriptors, the page ->    *)
(* descriptor reverse map (p_mapping), the hardware M bit and its software *)
(* shadow p_mod, the address translation cache, and the frames the tables  *)
(* themselves occupy.  src/src/hat040.s, hat_dup040.s, hat_chgprot040.s    *)
(* and hat_pagesync040.s.                                                  *)
(*                                                                         *)
(* The kernel is not preemptive, so a handler that does not sleep is one   *)
(* action.  hat_dup calls preempt() after every page, so its pages are     *)
(* separate actions.  The chain of a page is a set here: no invariant      *)
(* depends on its order, and the unlink searches are assumed to find their *)
(* node within their budget of 256 (the module RevChain has the pointers   *)
(* and the budget).  The used bit and p_ref have the same life cycle as    *)
(* M and p_mod and are left out; the counters are in HatCounts.            *)
(***************************************************************************)
EXTENDS FiniteSets, Naturals

CONSTANTS
    AS,      \* address spaces
    VA,      \* virtual pages
    Tab,     \* leaf-table positions of an address space (A index, B index)
    TabOf,   \* the position whose leaf table holds a virtual page
    Page,    \* managed frames: those with a page_t, in [pages_base,pages_end)
    Dev,     \* unmanaged frames: device registers, frame buffers
    None     \* an empty descriptor, an absent table, no process

Frame == Page \cup Dev
Slot == AS \X VA            \* a leaf descriptor, named by where it is
Table == AS \X Tab
TableOf(s) == <<s[1], TabOf[s[2]]>>

\* res: descriptor type 1 (resident); wp: bit 2; m: bit 4, set by the walker.
Pte == [frame : Frame, res : BOOLEAN, wp : BOOLEAN, m : BOOLEAN]
AtcEntry == [frame : Frame, w : BOOLEAN, m : BOOLEAN]
Prot == {"none", "ro", "rw"}

ASSUME HatAssumption ==
    /\ TabOf \in [VA -> Tab]
    /\ Page \cap Dev = {}
    /\ None \notin AS \cup Page \cup Pte \cup AtcEntry

VARIABLES
    cur,     \* the address space on the processor, or None
    live,    \* address spaces whose root is allocated (as->hat_root # 0)
    tables,  \* frame of each leaf table, None where the B descriptor is 0
    pte,     \* leaf descriptors
    chain,   \* p_mapping: the descriptors linked from each page_t
    pmod,    \* p_mod of each page_t
    use,     \* what each managed frame is in use for
    dirty,   \* ghost: the frame holds data no backing store has
    atc      \* the translations cached for cur

vars == <<cur, live, tables, pte, chain, pmod, use, dirty, atc>>

Mapped(s) == pte[s] # None
MapsTo(f) == {s \in Slot : Mapped(s) /\ pte[s].frame = f}

\* The status long a handler builds from a protection; M starts clear.
Leaf(f, prot) ==
    [frame |-> f, res |-> prot # "none", wp |-> prot = "ro", m |-> FALSE]

\* Mutant of Harvest: the M bits are dropped with the descriptors.
NoHarvest(S) == pmod

\* p_mod of every page after the M bits of the descriptors S are OR-ed in.
Harvest(S) ==
    [p \in Page |-> pmod[p] \/ \E s \in S \cap MapsTo(p) : pte[s].m]

\* Mutant of ChainHarvest: hat_pageunload before its issue-10 fix.
NoChainHarvest(p) == pmod[p]

\* Mutant of Link: the page_t of a device frame is written too.
LinkUnchecked(f, s) ==
    [p \in Page \cup {f} |-> IF p \notin Page THEN {s}
                            ELSE IF p = f THEN chain[p] \cup {s} ELSE chain[p]]

\* The same for page p, reading the descriptors on its chain.
ChainHarvest(p) == pmod[p] \/ \E s \in chain[p] : Mapped(s) /\ pte[s].m

\* The chains once slot s is pushed on that of f, if f has a page_t.
Link(f, s) == [p \in Page |-> IF p = f THEN chain[p] \cup {s} ELSE chain[p]]

FlushATC == atc' = [v \in VA |-> None]

Init ==
    /\ cur = None
    /\ live = {}
    /\ tables = [t \in Table |-> None]
    /\ pte = [s \in Slot |-> None]
    /\ chain = [p \in Page |-> {}]
    /\ pmod = [p \in Page |-> FALSE]
    /\ use = [p \in Page |-> "free"]
    /\ dirty = [p \in Page |-> FALSE]
    /\ atc = [v \in VA |-> None]

-----------------------------------------------------------------------------
(* hat_alloc: an empty root. *)
HatAlloc(a) ==
    /\ a \notin live
    /\ live' = live \cup {a}
    /\ UNCHANGED <<cur, tables, pte, chain, pmod, use, dirty, atc>>

\* Mutant of WithTable: the page handed out as a table may still be one.
WithTableInUse(s) ==
    \/ /\ tables[TableOf(s)] # None
       /\ UNCHANGED <<tables, use>>
    \/ /\ tables[TableOf(s)] = None
       /\ \E t \in Page :
            /\ use[t] # "data"
            /\ use' = [use EXCEPT ![t] = "table"]
            /\ tables' = [tables EXCEPT ![TableOf(s)] = t]

\* The leaf table of slot s exists, or hat_ptalloc takes a free page for it
\* (CANWAIT: the caller sleeps while there is none).
WithTable(s) ==
    \/ /\ tables[TableOf(s)] # None
       /\ UNCHANGED <<tables, use>>
    \/ /\ tables[TableOf(s)] = None
       /\ \E t \in Page :
            /\ use[t] = "free"
            /\ use' = [use EXCEPT ![t] = "table"]
            /\ tables' = [tables EXCEPT ![TableOf(s)] = t]

\* A frame a segment driver may load: a device's, or a page with an identity.
Loadable(f) == f \in Dev \/ (f \in Page /\ use[f] = "data")

(* hat_pteload into an empty slot (Lwleaf): push it on the page's chain.   *)
PteloadFresh(s, f, prot) ==
    /\ s[1] \in live
    /\ Loadable(f)
    /\ ~Mapped(s)
    /\ WithTable(s)
    /\ pte' = [pte EXCEPT ![s] = Leaf(f, prot)]
    /\ chain' = Link(f, s)
    /\ FlushATC
    /\ UNCHANGED <<cur, live, pmod, dirty>>

(* hat_pteload over the same frame (Lpfnok): save M, rewrite the status.   *)
PteloadSame(s, prot) ==
    /\ Mapped(s)
    /\ pmod' = Harvest({s})
    /\ pte' = [pte EXCEPT ![s] = Leaf(pte[s].frame, prot)]
    /\ FlushATC
    /\ UNCHANGED <<cur, live, tables, chain, use, dirty>>

\* Mutant of PteloadReplace: the descriptor is rewritten as if the frame
\* were the same, as this code did before Lreplace.
ReplaceInPlace(s, f, prot) ==
    /\ Loadable(f)
    /\ Mapped(s) /\ pte[s].frame # f
    /\ pmod' = Harvest({s})
    /\ pte' = [pte EXCEPT ![s] = Leaf(f, prot)]
    /\ FlushATC
    /\ UNCHANGED <<cur, live, tables, chain, use, dirty>>

(* hat_pteload over another frame (Lreplace): harvest and unlink the old   *)
(* page, then link the slot to the new one.                                *)
PteloadReplace(s, f, prot) ==
    /\ Loadable(f)
    /\ Mapped(s)
    /\ pte[s].frame # f
    /\ pmod' = Harvest({s})
    /\ chain' = [p \in Page |->
                    IF p = pte[s].frame THEN chain[p] \ {s}
                    ELSE IF p = f THEN chain[p] \cup {s}
                    ELSE chain[p]]
    /\ pte' = [pte EXCEPT ![s] = Leaf(f, prot)]
    /\ FlushATC
    /\ UNCHANGED <<cur, live, tables, use, dirty>>

(* hat_pageunload: every descriptor on the page's chain is harvested and   *)
(* cleared.  Tables are kept.                                              *)
PageUnload(p) ==
    /\ use[p] = "data"
    /\ pmod' = [pmod EXCEPT ![p] = ChainHarvest(p)]
    /\ pte' = [s \in Slot |-> IF s \in chain[p] THEN None ELSE pte[s]]
    /\ chain' = [chain EXCEPT ![p] = {}]
    /\ FlushATC
    /\ UNCHANGED <<cur, live, tables, use, dirty>>

\* Mutant of Retire: no flush after the descriptors are cleared.
RetireUnflushed(S) ==
    /\ pte' = [s \in Slot |-> IF s \in S THEN None ELSE pte[s]]
    /\ UNCHANGED <<cur, live, tables, atc>>

\* Mutant of Retire: an emptied leaf table is detached at once.
RetireDetaching(S) ==
    /\ pte' = [s \in Slot |-> IF s \in S THEN None ELSE pte[s]]
    /\ tables' = [t \in Table |->
                    IF \E s \in Slot \ S : TableOf(s) = t /\ Mapped(s)
                    THEN tables[t] ELSE None]
    /\ FlushATC
    /\ UNCHANGED <<cur, live>>

\* What all forms of hat_unload over the slots S have in common.
Retire(S) ==
    /\ pte' = [s \in Slot |-> IF s \in S THEN None ELSE pte[s]]
    /\ FlushATC
    /\ UNCHANGED <<cur, live, tables>>

(* hat_unload without a releasing flag; an emptied leaf table is kept.     *)
Unload(a, R) ==
    LET S == {a} \X R
    IN  /\ a \in live
        /\ pmod' = Harvest(S)
        /\ chain' = [p \in Page |-> chain[p] \ S]
        /\ Retire(S)
        /\ UNCHANGED <<use, dirty>>

Ranges == SUBSET VA \ {{}}

\* The managed pages the slots S map, and those of them hat_unload of S
\* leaves without a mapping.
PagesOf(S) == {p \in Page : MapsTo(p) \cap S # {}}
Orphans(S) == {p \in PagesOf(S) : chain[p] \subseteq S}

TablePages(a) == {tables[t] : t \in {a} \X Tab} \ {None}

(* hat_unload with flag 4: a page that lost its last mapping and is not    *)
(* held is freed, after VOP_PUTPAGE(B_FREE) when the harvest says modified.*)
(* F: those of them no other holder (keepcnt, lock, i/o) protects.         *)
UnloadRelease(a, R, F) ==
    LET S == {a} \X R
        mod == Harvest(S)
    IN  /\ a \in live
        /\ F \subseteq Orphans(S)
        /\ chain' = [p \in Page |-> chain[p] \ S]
        /\ pmod' = [p \in Page |-> mod[p] /\ p \notin F]
        /\ dirty' = [p \in Page |-> dirty[p] /\ ~(p \in F /\ mod[p])]
        /\ use' = [p \in Page |-> IF p \in F THEN "free" ELSE use[p]]
        /\ Retire(S)

(* hat_unload with flag 8: the caller's hold is dropped; a page that is    *)
(* gone or has no vnode goes through page_abort, which unloads the other   *)
(* mappings and discards the contents.                                     *)
UnloadAbort(a, R, G) ==
    LET S == {a} \X R
        T == S \cup UNION {chain[p] : p \in G}
    IN  /\ a \in live
        /\ G \subseteq PagesOf(S)
        /\ chain' = [p \in Page |-> chain[p] \ T]
        /\ pmod' = [p \in Page |-> Harvest(S)[p] /\ p \notin G]
        /\ dirty' = [p \in Page |-> dirty[p] /\ p \notin G]
        /\ use' = [p \in Page |-> IF p \in G THEN "free" ELSE use[p]]
        /\ Retire(T)

\* Mutant of HatFree: the descriptors are unlinked but left valid.
HatFreeUncleared(a, K) ==
    LET S == {a} \X VA
    IN  /\ a \in live
        /\ K \subseteq TablePages(a)
        /\ live' = live \ {a}
        /\ pmod' = Harvest(S)
        /\ chain' = [p \in Page |-> chain[p] \ S]
        /\ tables' = [t \in Table |-> IF t[1] = a THEN None ELSE tables[t]]
        /\ use' = [p \in Page |-> IF p \in TablePages(a) \ K THEN "free" ELSE use[p]]
        /\ FlushATC
        /\ UNCHANGED <<cur, pte, dirty>>

(* hat_free: the whole walk, every leaf table detached and given to        *)
(* hat_ptfree (which may refuse one, K, and leak it), the root freed.      *)
HatFree(a, K) ==
    LET S == {a} \X VA
        owned == TablePages(a)
    IN  /\ a \in live
        /\ K \subseteq owned
        /\ live' = live \ {a}
        /\ pmod' = Harvest(S)
        /\ chain' = [p \in Page |-> chain[p] \ S]
        /\ pte' = [s \in Slot |-> IF s \in S THEN None ELSE pte[s]]
        /\ tables' = [t \in Table |-> IF t[1] = a THEN None ELSE tables[t]]
        /\ use' = [p \in Page |-> IF p \in owned \ K THEN "free" ELSE use[p]]
        /\ FlushATC
        /\ UNCHANGED <<cur, dirty>>

\* hat_chgprot's edit of one descriptor: clear bit 2, set it, or clear the type.
Protected(d, prot) ==
    CASE prot = "rw"   -> [d EXCEPT !.wp = FALSE]
      [] prot = "ro"   -> [d EXCEPT !.wp = TRUE]
      [] prot = "none" -> [d EXCEPT !.res = FALSE]

(* hat_chgprot over a range.                                               *)
Chgprot(a, R, prot) ==
    /\ a \in live
    /\ pte' = [s \in Slot |-> IF s \in {a} \X R /\ Mapped(s)
                              THEN Protected(pte[s], prot) ELSE pte[s]]
    /\ FlushATC
    /\ UNCHANGED <<cur, live, tables, chain, pmod, use, dirty>>

(* hat_pagesync: move M into p_mod; flush only if there was a mapping.     *)
PageSync(p) ==
    /\ use[p] = "data"
    /\ pmod' = [pmod EXCEPT ![p] = ChainHarvest(p)]
    /\ pte' = [s \in Slot |-> IF s \in chain[p] /\ Mapped(s)
                              THEN [pte[s] EXCEPT !.m = FALSE] ELSE pte[s]]
    /\ IF chain[p] = {} THEN UNCHANGED atc ELSE FlushATC
    /\ UNCHANGED <<cur, live, tables, chain, use, dirty>>

(* hat_dup, one leaf: the child gets an empty leaf table.                  *)
DupTable(a, b, v) ==
    /\ {a, b} \subseteq live /\ a # b
    /\ tables[<<a, TabOf[v]>>] # None /\ tables[<<b, TabOf[v]>>] = None
    /\ WithTable(<<b, v>>)
    /\ UNCHANGED <<cur, live, pte, chain, pmod, dirty, atc>>

(* hat_dup, one page: the child's descriptor is a copy of the parent's.    *)
DupShare(a, b, v) ==
    LET f == pte[<<a, v>>].frame
    IN  /\ {a, b} \subseteq live /\ a # b
        /\ Mapped(<<a, v>>) /\ pte[<<a, v>>].res /\ ~Mapped(<<b, v>>)
        /\ tables[<<b, TabOf[v]>>] # None
        /\ pte' = [pte EXCEPT ![<<b, v>>] = pte[<<a, v>>]]
        /\ chain' = Link(f, <<b, v>>)
        /\ UNCHANGED <<cur, live, tables, pmod, use, dirty, atc>>

(* hat_dup, one page: the child gets a private copy n, modified from the   *)
(* start; the parent's descriptor is made writable when it was the last    *)
(* holder of the old anon slot.                                            *)
DupCopy(a, b, v, n, last) ==
    LET c == <<b, v>>
    IN  /\ {a, b} \subseteq live /\ a # b
        /\ Mapped(<<a, v>>) /\ pte[<<a, v>>].res /\ pte[<<a, v>>].frame \in Page
        /\ ~Mapped(c) /\ tables[TableOf(c)] # None
        /\ use[n] = "free"
        /\ use' = [use EXCEPT ![n] = "data"]
        /\ pmod' = [pmod EXCEPT ![n] = TRUE]
        /\ dirty' = [dirty EXCEPT ![n] = TRUE]
        /\ pte' = [s \in Slot |->
                     IF s = c THEN Leaf(n, "rw")
                     ELSE IF s = <<a, v>> /\ last THEN [pte[s] EXCEPT !.wp = FALSE]
                     ELSE pte[s]]
        /\ chain' = [chain EXCEPT ![n] = {c}]
        /\ UNCHANGED <<cur, live, tables, atc>>

-----------------------------------------------------------------------------
(* The hardware and the rest of the VM system, as this code relies on them *)

(* A context switch loads another root and empties the ATC.                *)
Switch(a) ==
    /\ a \in live
    /\ cur' = a
    /\ FlushATC
    /\ UNCHANGED <<live, tables, pte, chain, pmod, use, dirty>>

MarkDirty(f) ==
    dirty' = [p \in Page |-> dirty[p] \/ p = f]

(* A write through a cached translation whose M is already set.            *)
WriteHit(v) ==
    /\ atc[v] # None /\ atc[v].w /\ atc[v].m
    /\ MarkDirty(atc[v].frame)
    /\ UNCHANGED <<cur, live, tables, pte, chain, pmod, use, atc>>

(* A table search: on a miss, or for the first write through an entry.     *)
Walk(v, write) ==
    LET s == <<cur, v>>
    IN  /\ cur \in live
        /\ Mapped(s) /\ pte[s].res /\ (write => ~pte[s].wp)
        /\ atc[v] # None => write /\ atc[v].w /\ ~atc[v].m
        /\ pte' = [pte EXCEPT ![s].m = @ \/ write]
        /\ atc' = [atc EXCEPT ![v] = [frame |-> pte[s].frame,
                                      w |-> ~pte[s].wp,
                                      m |-> pte[s].m \/ write]]
        /\ IF write THEN MarkDirty(pte[s].frame) ELSE UNCHANGED dirty
        /\ UNCHANGED <<cur, live, tables, chain, pmod, use>>

(* page_get: a free frame gets an identity, with clean contents.           *)
PageGet(p) ==
    /\ use[p] = "free"
    /\ use' = [use EXCEPT ![p] = "data"]
    /\ UNCHANGED <<cur, live, tables, pte, chain, pmod, dirty, atc>>

(* VOP_PUTPAGE of a page whose p_mod is set.                               *)
Writeback(p) ==
    /\ use[p] = "data" /\ pmod[p]
    /\ pmod' = [pmod EXCEPT ![p] = FALSE]
    /\ dirty' = [dirty EXCEPT ![p] = FALSE]
    /\ UNCHANGED <<cur, live, tables, pte, chain, use, atc>>

(* page_free of a page that looks clean; it panics on a mapped one.        *)
PageFree(p) ==
    /\ use[p] = "data" /\ chain[p] = {} /\ ~pmod[p]
    /\ use' = [use EXCEPT ![p] = "free"]
    /\ UNCHANGED <<cur, live, tables, pte, chain, pmod, dirty, atc>>

(* page_abort of a page whose identity is gone: unload it if p_mapping is  *)
(* not empty, free it, discard the contents.                               *)
PageAbort(p) ==
    /\ use[p] = "data"
    /\ pte' = [s \in Slot |-> IF s \in chain[p] THEN None ELSE pte[s]]
    /\ IF chain[p] = {} THEN UNCHANGED atc ELSE FlushATC
    /\ chain' = [chain EXCEPT ![p] = {}]
    /\ pmod' = [pmod EXCEPT ![p] = FALSE]
    /\ dirty' = [dirty EXCEPT ![p] = FALSE]
    /\ use' = [use EXCEPT ![p] = "free"]
    /\ UNCHANGED <<cur, live, tables>>

Hat ==
    \/ \E a \in AS : HatAlloc(a)
    \/ \E s \in Slot, f \in Frame, prot \in Prot : PteloadFresh(s, f, prot)
    \/ \E s \in Slot, prot \in Prot : PteloadSame(s, prot)
    \/ \E s \in Slot, f \in Frame, prot \in Prot : PteloadReplace(s, f, prot)
    \/ \E p \in Page : PageUnload(p)
    \/ \E a \in live, R \in Ranges :
            \/ Unload(a, R)
            \/ \E F \in SUBSET Orphans({a} \X R) : UnloadRelease(a, R, F)
            \/ \E G \in SUBSET PagesOf({a} \X R) : UnloadAbort(a, R, G)
    \/ \E a \in live : \E K \in SUBSET TablePages(a) : HatFree(a, K)
    \/ \E a \in live, R \in Ranges, prot \in Prot : Chgprot(a, R, prot)
    \/ \E p \in Page : PageSync(p)
    \/ \E a, b \in AS, v \in VA : DupTable(a, b, v)
    \/ \E a, b \in AS, v \in VA : DupShare(a, b, v)
    \/ \E a, b \in AS, v \in VA, n \in Page, last \in BOOLEAN :
            DupCopy(a, b, v, n, last)

Environment ==
    \/ \E a \in AS : Switch(a)
    \/ \E v \in VA : WriteHit(v)
    \/ \E v \in VA, write \in BOOLEAN : Walk(v, write)
    \/ \E p \in Page : PageGet(p)
    \/ \E p \in Page : Writeback(p)
    \/ \E p \in Page : PageFree(p)
    \/ \E p \in Page : PageAbort(p)

Next == Hat \/ Environment

Spec == Init /\ [][Next]_vars

-----------------------------------------------------------------------------
TypeOK ==
    /\ cur \in AS \cup {None}
    /\ live \subseteq AS
    /\ tables \in [Table -> Page \cup {None}]
    /\ pte \in [Slot -> Pte \cup {None}]
    /\ chain \in [Page -> SUBSET Slot]
    /\ pmod \in [Page -> BOOLEAN]
    /\ use \in [Page -> {"free", "data", "table"}]
    /\ dirty \in [Page -> BOOLEAN]
    /\ atc \in [VA -> AtcEntry \cup {None}]

(* The reverse map is exact: p_mapping of a page links precisely the       *)
(* descriptors that map it.  A missing node lets page_abort free a mapped  *)
(* page; an extra one lets hat_pageunload clear somebody else's mapping.   *)
RevMapExact == \A p \in Page : chain[p] = MapsTo(p)

(* No translation, in a table or cached, reaches a page that is free or    *)
(* that has become a translation table: the double allocation that filled  *)
(* live pages with FFFFFFFF.                                               *)
NoStaleTranslation ==
    /\ \A s \in Slot : Mapped(s) => Loadable(pte[s].frame)
    /\ \A v \in VA : atc[v] # None => Loadable(atc[v].frame)

(* Every leaf table belongs to one position of one live address space and  *)
(* no descriptor outlives its table: hat_free gives a table back once.     *)
TablesOwned ==
    /\ \A t \in Table : tables[t] # None =>
          /\ t[1] \in live
          /\ use[tables[t]] = "table"
          /\ \A u \in Table : tables[u] = tables[t] => u = t
    /\ \A s \in Slot : Mapped(s) => tables[TableOf(s)] # None

(* The ATC never allows what the table does not: same frame, no stale      *)
(* write permission, and M set in the entry only when it is in the table.  *)
(* The processor does not revisit a descriptor whose entry has M set.      *)
AtcCoherent ==
    \A v \in VA : atc[v] # None =>
        LET s == <<cur, v>>
        IN  /\ s \in Slot /\ Mapped(s)
            /\ pte[s].res
            /\ pte[s].frame = atc[v].frame
            /\ atc[v].w => ~pte[s].wp
            /\ atc[v].m => pte[s].m

(* A modification is never forgotten: it is in p_mod or in the M bit of a  *)
(* descriptor hat_pagesync will find on the chain.                         *)
DirtyTracked ==
    \A p \in Page : dirty[p] => pmod[p] \/ \E s \in chain[p] : Mapped(s) /\ pte[s].m

(* No page is freed as clean while it holds data no backing store has:     *)
(* the discarded heaps and stacks of issue 10.                             *)
NoDirtyDiscard == \A p \in Page : use[p] # "data" => ~dirty[p]

(* A leaf table stays attached until hat_free: emptying it never detaches  *)
(* it, so the remap that follows a copy-on-write unload allocates nothing. *)
TableKept ==
    [][\A t \in Table : tables[t] # None /\ t[1] \in live' =>
            tables'[t] = tables[t]]_vars
=============================================================================
