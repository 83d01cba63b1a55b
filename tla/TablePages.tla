----------------------------- MODULE TablePages -----------------------------
(***************************************************************************)
(* Where the memory of an address space's translation tables comes from    *)
(* and goes back to: table pages with their ptdat metadata unit, and the   *)
(* legacy 68030 segment table a dynamic exec leaves beside them.  The      *)
(* destructors are src/src/hat040.s (hat_free, hat_ptfree, hat_unlock),    *)
(* ptdatfree040.s and legacysdt040.s; the allocators hat_ptalloc,          *)
(* hat_growsdt and hat_sdtalloc/hat_sdtfree are the retained stock ones.   *)
(*                                                                         *)
(* A metadata page is carved into units by a bitmap (p_sdtbits) and is     *)
(* given back when the bitmap empties.  ptd_on and i40_on are 1, as they   *)
(* ship.                                                                   *)
(***************************************************************************)
EXTENDS Naturals, FiniteSets

CONSTANTS
    AS,          \* address spaces, each with one process
    Page,        \* physical pages
    Units,       \* 64-byte units of a metadata page are 1..Units (32)
    LegacyUnits, \* units of the legacy segment table of an exec (17)
    None

ASSUME TablePagesAssumption ==
    /\ IsFiniteSet(Page)
    /\ Units \in Nat /\ LegacyUnits \in 1..Units
    /\ None \notin AS \cup (Page \X (1..Units))

Unit == Page \X (1..Units)

VARIABLES
    live,      \* address spaces with a root
    use,       \* what each page is in use for
    owner,     \* the address space whose tree a table page is in
    ptd,       \* p_ptdats: the metadata unit of a table page
    legacy,    \* the legacy segment table of each address space, its units
    bits,      \* p_sdtbits: the units allocated
    listed,    \* ptdat records, four of a table page, on active_pts or free_pts
    locked,    \* table pages whose ptdat has pt_keepcnt # 0
    held,      \* table pages with a page hold besides the HAT's
    availrmem,
    pages_pp_kernel,
    pt_waiting,
    asleep     \* processes asleep on &free_pts in hat_ptalloc

vars == <<live, use, owner, ptd, legacy, bits, listed, locked, held,
          availrmem, pages_pp_kernel, pt_waiting, asleep>>

Tables(a) == {t \in Page : owner[t] = a}
OnPage(U, p) == {u \in U : u[1] = p}

Init ==
    /\ live = {}
    /\ use = [p \in Page |-> "free"]
    /\ owner = [p \in Page |-> None]
    /\ ptd = [p \in Page |-> None]
    /\ legacy = [a \in AS |-> {}]
    /\ bits = {}
    /\ listed = {}
    /\ locked = {}
    /\ held = {}
    /\ availrmem = Cardinality(Page)
    /\ pages_pp_kernel = 0
    /\ pt_waiting = 0
    /\ asleep = {}

Awake(a) == a \in live /\ a \notin asleep

(* hat_alloc.                                                              *)
HatAlloc(a) ==
    /\ a \notin live
    /\ live' = live \cup {a}
    /\ UNCHANGED <<use, owner, ptd, legacy, bits, listed, locked, held,
                   availrmem, pages_pp_kernel, pt_waiting, asleep>>

\* n adjacent free units of one metadata page, or of a free page.
Carve(U, n, free) ==
    /\ Cardinality(U) = n
    /\ \E p \in Page, i \in 1..Units :
          /\ U = {p} \X (i..(i + n - 1)) /\ i + n - 1 <= Units
          /\ U \cap bits = {}
          /\ use[p] = "sdt" \/ p \in free

\* The pages S become, or cease to be, the kernel's.
Debit(S) ==
    /\ availrmem' = availrmem - Cardinality(S)
    /\ pages_pp_kernel' = pages_pp_kernel + Cardinality(S)

\* Mutant of Credit: the pages are offered again and still counted as held.
CreditTwice(S) ==
    /\ availrmem' = availrmem + Cardinality(S)
    /\ UNCHANGED pages_pp_kernel

Credit(S) ==
    /\ availrmem' = availrmem + Cardinality(S)
    /\ pages_pp_kernel' = pages_pp_kernel - Cardinality(S)

(* hat_growsdt, when an exec maps its shared library.                      *)
GrowSdt(a, U) ==
    LET new == {u[1] : u \in U} \cap {p \in Page : use[p] = "free"}
    IN  /\ Awake(a) /\ legacy[a] = {}
        /\ Carve(U, LegacyUnits, {p \in Page : use[p] = "free"})
        /\ legacy' = [legacy EXCEPT ![a] = U]
        /\ bits' = bits \cup U
        /\ use' = [p \in Page |-> IF p \in new THEN "sdt" ELSE use[p]]
        /\ Debit(new)
        /\ UNCHANGED <<live, owner, ptd, listed, locked, held, pt_waiting, asleep>>

(* hat_ptalloc gets a page and a metadata unit for its four records.       *)
PtAlloc(a, t, u) ==
    LET new == {t} \cup ({u[1]} \cap {p \in Page : use[p] = "free"})
    IN  /\ Awake(a)
        /\ use[t] = "free"
        /\ Carve({u}, 1, {p \in Page \ {t} : use[p] = "free"})
        /\ use' = [p \in Page |-> IF p = t THEN "table"
                                 ELSE IF p \in new THEN "sdt" ELSE use[p]]
        /\ owner' = [owner EXCEPT ![t] = a]
        /\ ptd' = [ptd EXCEPT ![t] = u]
        /\ bits' = bits \cup {u}
        /\ listed' = listed \cup ({t} \X (0..3))
        /\ Debit(new)
        /\ UNCHANGED <<live, legacy, locked, held, pt_waiting, asleep>>

(* hat_ptalloc with CANWAIT and NOSTEAL finds nothing: count, sleep on     *)
(* &free_pts, and start again once woken.                                  *)
PtAllocSleep(a) ==
    /\ Awake(a)
    /\ ~ \E t \in Page, u \in Unit :
            /\ use[t] = "free"
            /\ Carve({u}, 1, {p \in Page \ {t} : use[p] = "free"})
    /\ asleep' = asleep \cup {a}
    /\ pt_waiting' = pt_waiting + 1
    /\ UNCHANGED <<live, use, owner, ptd, legacy, bits, listed, locked, held,
                   availrmem, pages_pp_kernel>>

Wake == asleep' = {} /\ pt_waiting' = 0
NoWake == UNCHANGED <<asleep, pt_waiting>>

\* hat_pteload with the lock flag: pt_keepcnt leaves 0.
Lock(t) ==
    /\ use[t] = "table" /\ owner[t] # None
    /\ t \notin locked
    /\ locked' = locked \cup {t}
    /\ UNCHANGED <<live, use, owner, ptd, legacy, bits, listed, held,
                   availrmem, pages_pp_kernel, pt_waiting, asleep>>

\* Mutant of Unlock: pt_waiting is cleared and nobody is woken.
UnlockForgetful(t) ==
    /\ t \in locked /\ owner[t] # None
    /\ locked' = locked \ {t}
    /\ pt_waiting' = 0
    /\ UNCHANGED <<live, use, owner, ptd, legacy, bits, listed, held,
                   availrmem, pages_pp_kernel, asleep>>

(* hat_unlock, as pt_keepcnt reaches 0: wake the sleepers, though no page  *)
(* became free.                                                            *)
Unlock(t) ==
    /\ t \in locked /\ owner[t] # None
    /\ locked' = locked \ {t}
    /\ IF pt_waiting # 0 THEN Wake ELSE NoWake
    /\ UNCHANGED <<live, use, owner, ptd, legacy, bits, listed, held,
                   availrmem, pages_pp_kernel>>

\* Mutant of Retirable: the unlocked-record test of the gate is missing.
RetirableLocked(t) == t \notin held

\* The ownership gate of hat_ptdat_retire: an exclusive hold, no record locked.
Retirable(t) == t \notin held /\ t \notin locked

\* Mutant of Metadata: hat_free before the legacy edge was restored.
MetadataPtdOnly(a, T) == {ptd[t] : t \in T}

\* The metadata units of a and of the tables T.
Metadata(a, T) == legacy[a] \cup {ptd[t] : t \in T}

\* The records REMOVE_PT takes off the lists for the tables T.
RecordsOf(T) == T \X (0..3)

\* The metadata pages hat_sdtfree of the units U empties.
EmptiedBy(U) ==
    {p \in Page : OnPage(U, p) # {} /\ OnPage(bits, p) \subseteq U}

\* hat_ptfree wakes the sleepers for a table it released, and only then.
WakeAfter(T) == IF T # {} /\ pt_waiting # 0 THEN Wake ELSE NoWake

(* hat_free: the legacy segment table first, then hat_ptfree of every      *)
(* table.  A table that fails the gate is left as it is, outside any tree. *)
HatFree(a) ==
    LET T == {t \in Tables(a) : Retirable(t)}
        U == Metadata(a, T)
        freed == T \cup EmptiedBy(U)
    IN  /\ Awake(a)
        /\ live' = live \ {a}
        /\ use' = [p \in Page |-> IF p \in freed THEN "free" ELSE use[p]]
        /\ owner' = [p \in Page |-> IF owner[p] = a THEN None ELSE owner[p]]
        /\ ptd' = [p \in Page |-> IF p \in T THEN None ELSE ptd[p]]
        /\ legacy' = [legacy EXCEPT ![a] = {}]
        /\ bits' = bits \ U
        /\ listed' = listed \ RecordsOf(T)
        /\ Credit(freed)
        /\ WakeAfter(T)
        /\ UNCHANGED <<locked, held>>

-----------------------------------------------------------------------------
(* The rest of the VM system                                               *)

(* Pageable memory: it is not charged to availrmem, and freeing it wakes   *)
(* nobody on &free_pts.                                                    *)
PageGet(p) ==
    /\ use[p] = "free"
    /\ use' = [use EXCEPT ![p] = "user"]
    /\ UNCHANGED <<live, owner, ptd, legacy, bits, listed, locked, held,
                   availrmem, pages_pp_kernel, pt_waiting, asleep>>

PageFree(p) ==
    /\ use[p] = "user"
    /\ use' = [use EXCEPT ![p] = "free"]
    /\ UNCHANGED <<live, owner, ptd, legacy, bits, listed, locked, held,
                   availrmem, pages_pp_kernel, pt_waiting, asleep>>

(* Somebody else holds, or lets go of, a table page.                       *)
PageHold(t) ==
    /\ use[t] = "table"
    /\ held' = IF t \in held THEN held \ {t} ELSE held \cup {t}
    /\ UNCHANGED <<live, use, owner, ptd, legacy, bits, listed, locked,
                   availrmem, pages_pp_kernel, pt_waiting, asleep>>

Next ==
    \/ \E a \in AS : HatAlloc(a)
    \/ \E a \in AS, p \in Page, i \in 1..Units :
            GrowSdt(a, {p} \X (i..(i + LegacyUnits - 1)))
    \/ \E a \in AS, t \in Page, u \in Unit : PtAlloc(a, t, u)
    \/ \E a \in AS : PtAllocSleep(a)
    \/ \E t \in Page : Lock(t)
    \/ \E t \in Page : Unlock(t)
    \/ \E a \in AS : HatFree(a)
    \/ \E p \in Page : PageGet(p)
    \/ \E p \in Page : PageFree(p)
    \/ \E t \in Page : PageHold(t)

Spec == Init /\ [][Next]_vars

-----------------------------------------------------------------------------
(* availrmem + pages_pp_kernel is conserved, and each counter says what is *)
(* really held: a page is never credited while the kernel still has it,    *)
(* nor debited after it went back.                                         *)
AccountingExact ==
    /\ availrmem + pages_pp_kernel = Cardinality(Page)
    /\ pages_pp_kernel = Cardinality({p \in Page : use[p] \in {"table", "sdt"}})

(* Every allocated unit belongs to exactly one live object - the legacy    *)
(* table of an address space or a table page - and a metadata page lives   *)
(* exactly as long as one of its units: the page every exec lost.  The     *)
(* lists active_pts and free_pts hold the records of the table pages in    *)
(* use and no record of a page already given away.                         *)
UnitsOwned ==
    /\ bits = (UNION {legacy[a] : a \in live}) \cup
              {ptd[t] : t \in {p \in Page : use[p] = "table"}}
    /\ \A t, w \in Page : ptd[t] = ptd[w] /\ ptd[t] # None => t = w
    /\ \A a, b \in AS : a # b => legacy[a] \cap legacy[b] = {}
    /\ \A a \in AS, t \in Page : ptd[t] \notin legacy[a]
    /\ \A p \in Page : (use[p] = "sdt") = (OnPage(bits, p) # {})
    /\ listed = {p \in Page : use[p] = "table"} \X (0..3)

(* A page given back is nobody's: not locked, not held, in no tree.        *)
FreedIsUnused ==
    \A t \in Page : use[t] # "table" =>
        t \notin locked \cup held /\ owner[t] = None

(* pt_waiting is not 0 while anybody sleeps on &free_pts: both places that *)
(* wake the sleepers look at it first.                                     *)
NoLostSleeper == asleep # {} => pt_waiting # 0
=============================================================================
