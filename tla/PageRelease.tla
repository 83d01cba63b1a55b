---------------------------- MODULE PageRelease -----------------------------
(***************************************************************************)
(* How one managed page leaves its owner, instruction group by instruction *)
(* group: hat_unload with flag 4 (HAT_RELEPP) and 8, hat_pageunload        *)
(* (src/src/hat040.s) and the barrier both free-list publications go       *)
(* through (cb_release040.s).                                              *)
(*                                                                         *)
(* A descriptor is written through the data cache and read by the table    *)
(* search from memory, so it is cleared before it is published; the page's *)
(* newest bytes may be in a dirty copyback line that outlives the page.    *)
(*                                                                         *)
(* One process at a time is in the kernel (pc # "run"); user code stores   *)
(* and the allocator reuses the page only outside it.  Evictions and the   *)
(* completion of an asynchronous write come at any time.                   *)
(***************************************************************************)
CONSTANTS
    Leaf,    \* the descriptors that may map the page
    NoLeaf   \* no descriptor

ASSUME PageReleaseAssumption == NoLeaf \notin Leaf

VARIABLES
    pc,      \* where the process in the kernel is
    cur,     \* the descriptor it unloads
    linked,  \* p_mapping
    leaf,    \* descriptors resident in the processor's view
    leafM,   \* descriptors resident in memory, where the walker reads
    atc,     \* descriptors with a cached translation
    page,    \* who has the page
    line,    \* its cache line: "none", "clean", "dirty"
    mem,     \* whose bytes memory has: "stale" for those the line replaces
    p_mod,   \* is the page known modified?
    io       \* an asynchronous write, to be freed when done, is under way

releaseVars == <<pc, cur, linked, leaf, leafM, atc, page, line, mem, p_mod, io>>

ReleaseInit ==
    /\ pc = "run"
    /\ cur = NoLeaf
    /\ linked = {} /\ leaf = {} /\ leafM = {} /\ atc = {}
    /\ page = "owned"
    /\ line = "none"
    /\ mem = "old"
    /\ p_mod = FALSE
    /\ io = FALSE

At(l) == pc = l /\ UNCHANGED io
Goto(l) == pc' = l

\* Every dirty line of the page goes to memory and out of the cache.
PushPage ==
    /\ mem' = IF line = "dirty" THEN "old" ELSE mem
    /\ line' = "none"

\* cpusha: push the data cache, descriptors and page alike.
Cpusha == PushPage /\ leafM' = leaf

Pflusha == atc' = {}

-----------------------------------------------------------------------------
(* Outside the kernel                                                      *)

(* The owner maps the page again (hat_pteload pushes and flushes).         *)
Load(l) ==
    /\ At("run") /\ page = "owned" /\ ~io
    /\ l \notin leaf
    /\ leaf' = leaf \cup {l}
    /\ leafM' = leaf'
    /\ linked' = linked \cup {l}
    /\ Pflusha
    /\ PushPage
    /\ UNCHANGED <<pc, cur, page, p_mod>>

(* User code reads or writes through l.                                    *)
Access(l, write) ==
    /\ At("run")
    /\ l \in leafM \cup atc
    /\ atc' = atc \cup {l}
    /\ line' = IF write THEN "dirty" ELSE IF line = "none" THEN "clean" ELSE line
    /\ mem' = IF write /\ mem = "old" THEN "stale" ELSE mem
    /\ UNCHANGED <<pc, cur, linked, leaf, leafM, page, p_mod>>

(* The allocator hands the page out; the new owner fills memory by DMA.    *)
Reuse ==
    /\ At("run") /\ page = "free"
    /\ page' = "reused"
    /\ mem' = "new"
    /\ UNCHANGED <<pc, cur, linked, leaf, leafM, atc, line, p_mod>>

(* The cache evicts the page's line, or the line a descriptor is in.       *)
Evict ==
    \/ /\ line # "none"
       /\ PushPage
       /\ UNCHANGED <<pc, cur, linked, leaf, leafM, atc, page, p_mod, io>>
    \/ /\ leafM # leaf
       /\ leafM' = leaf
       /\ UNCHANGED <<pc, cur, linked, leaf, atc, page, line, mem, p_mod, io>>

-----------------------------------------------------------------------------
(* The free lists                                                          *)

\* Mutant of Publish: page_free without the release barrier.
PublishUnpushed == page' = "free" /\ UNCHANGED <<line, mem>>

\* page_free and free_vp_pages: cb_page_release, then the free list.
Publish == page' = "free" /\ PushPage

(* pvn_done at the end of a write with B_FREE: p_mapping is empty.         *)
PvnDone ==
    /\ io /\ io' = FALSE
    /\ Publish
    /\ UNCHANGED <<pc, cur, linked, leaf, leafM, atc, p_mod>>

(* free_vp_pages: a page neither mapped nor modified.                      *)
FreeVpPages ==
    /\ At("run") /\ page = "owned" /\ ~io
    /\ linked = {} /\ ~p_mod
    /\ Publish
    /\ UNCHANGED <<pc, cur, linked, leaf, leafM, atc, p_mod>>

-----------------------------------------------------------------------------
(* hat_pageunload, called by page_abort                                    *)

AbortStart ==
    /\ At("run") /\ page = "owned" /\ ~io
    /\ Goto("abort")
    /\ UNCHANGED <<cur, linked, leaf, leafM, atc, page, line, mem, p_mod>>

(* page_abort asks p_mapping whether anything maps the page.               *)
Abort ==
    /\ At("abort")
    /\ Goto(IF linked = {} THEN "abortfree" ELSE "unlink")
    /\ UNCHANGED <<cur, linked, leaf, leafM, atc, page, line, mem, p_mod>>

(* Lpu_loop: clear every descriptor on the chain.                          *)
PageUnloadClear ==
    /\ At("unlink")
    /\ leaf' = leaf \ linked
    /\ linked' = {}
    /\ Goto("puflush")
    /\ UNCHANGED <<cur, leafM, atc, page, line, mem, p_mod>>

(* Lpu_done: cpusha bc, pflusha.                                           *)
PageUnloadFlush ==
    /\ At("puflush")
    /\ Cpusha /\ Pflusha
    /\ Goto("abortfree")
    /\ UNCHANGED <<cur, linked, leaf, page, p_mod>>

(* page_abort frees the page; hat_unload goes on if it was the caller.     *)
AbortFree ==
    /\ At("abortfree")
    /\ Publish
    /\ p_mod' = FALSE
    /\ Goto(IF cur = NoLeaf THEN "run" ELSE "clear")
    /\ UNCHANGED <<cur, linked, leaf, leafM, atc>>

-----------------------------------------------------------------------------
(* hat_unload of one descriptor                                            *)

(* flushmmu, harvest, unlink; then by flag.                                *)
Unload(l, flag) ==
    /\ At("run") /\ page = "owned" /\ ~io
    /\ l \in leaf
    /\ cur' = l
    /\ atc' = atc \ {l}
    /\ linked' = linked \ {l}
    /\ \E m \in BOOLEAN : p_mod' = (p_mod \/ m \/ line = "dirty")
    /\ Goto(CASE flag = 8 -> "abort" [] flag = 4 -> "release" [] OTHER -> "clear")
    /\ UNCHANGED <<leaf, leafM, page, line, mem>>

(* Lhl_flag4: a page still mapped is left; a modified one is written, to   *)
(* be freed by pvn_done, and its descriptor cleared meanwhile.             *)
Release ==
    /\ pc = "release"
    /\ IF linked # {} THEN Goto("clear") /\ UNCHANGED io
       ELSE IF p_mod THEN Goto("clear") /\ io' = TRUE
       ELSE Goto("retire") /\ UNCHANGED io
    /\ p_mod' = (p_mod /\ linked # {})
    /\ UNCHANGED <<cur, linked, leaf, leafM, atc, page, line, mem>>

\* Mutant of Retire: the order before the copyback fix.
RetireLater ==
    /\ At("retire")
    /\ Goto("free")
    /\ UNCHANGED <<cur, linked, leaf, leafM, atc, page, line, mem, p_mod>>

(* Lhl_dofree: clear the descriptor, publish the clear, drop the ATC entry *)
(* - all before page_free.                                                 *)
Retire ==
    /\ At("retire")
    /\ leaf' = leaf \ {cur}
    /\ Goto("retired")
    /\ UNCHANGED <<cur, linked, leafM, atc, page, line, mem, p_mod>>

RetirePublish ==
    /\ At("retired")
    /\ Cpusha /\ Pflusha
    /\ Goto("free")
    /\ UNCHANGED <<cur, linked, leaf, page, p_mod>>

Free ==
    /\ At("free")
    /\ Publish
    /\ Goto("clear")
    /\ UNCHANGED <<cur, linked, leaf, leafM, atc, p_mod>>

(* Lhl_clear (already done for a page freed here).                         *)
Clear ==
    /\ At("clear")
    /\ leaf' = leaf \ {cur}
    /\ Goto("tail")
    /\ UNCHANGED <<cur, linked, leafM, atc, page, line, mem, p_mod>>

\* Mutant of Tail: hat_unload returning without its final push and flush.
TailUnflushed ==
    /\ At("tail")
    /\ cur' = NoLeaf
    /\ Goto("run")
    /\ UNCHANGED <<linked, leaf, leafM, atc, page, line, mem, p_mod>>

(* cpusha bc, pflusha, return.                                             *)
Tail ==
    /\ At("tail")
    /\ Cpusha /\ Pflusha
    /\ cur' = NoLeaf
    /\ Goto("run")
    /\ UNCHANGED <<linked, leaf, page, p_mod>>

ReleaseNext ==
    \/ \E l \in Leaf : Load(l)
    \/ \E l \in Leaf, write \in BOOLEAN : Access(l, write)
    \/ Reuse
    \/ Evict
    \/ PvnDone
    \/ FreeVpPages
    \/ AbortStart \/ Abort \/ PageUnloadClear \/ PageUnloadFlush \/ AbortFree
    \/ \E l \in Leaf, flag \in {0, 4, 8} : Unload(l, flag)
    \/ Release \/ Retire \/ RetirePublish \/ Free \/ Clear \/ Tail

ReleaseSpec == ReleaseInit /\ [][ReleaseNext]_releaseVars

-----------------------------------------------------------------------------
(* "Retire leaf PTE before allocator exposure": when hat_unload calls      *)
(* page_free, no descriptor in memory and no ATC entry leads to the page.  *)
RetiredBeforeFree ==
    [][pc = "free" /\ pc' # "free" => leafM = {} /\ atc = {}]_releaseVars

(* What every path promises: no translation to a page that was given away  *)
(* survives the return of the handler that gave it away.                   *)
ReturnUnreachable == page # "owned" /\ pc = "run" => leafM = {} /\ atc = {}

(* A page on a free list has no line in the cache.                         *)
FreeUncached == page # "owned" => line = "none"

(* Bytes of the old owner never replace those of the new one.              *)
NewOwnerKeepsData == page = "reused" => mem = "new"
=============================================================================
