----------------------------- MODULE HatCounts ------------------------------
(***************************************************************************)
(* The two counts the HAT keeps beside the mappings: a_rss of an address   *)
(* space, and pt_keepcnt, the byte in a leaf table's ptdat that counts the *)
(* softlocks on its descriptors.  hat_ptdat_retire gives a table back only *)
(* when pt_keepcnt is 0 (TablePages).  src/src/hat040.s, hat_dup040.s.     *)
(*                                                                         *)
(* locks is what the segment drivers believe: how often each descriptor    *)
(* was loaded with the lock flag and not yet unlocked.                     *)
(***************************************************************************)
EXTENDS Integers, FiniteSets, FiniteSetsExt

CONSTANTS
    AS, VA, Tab, TabOf, Page, None,  \* as in HatMap
    ByteMod,        \* values of pt_keepcnt (256)
    MaxLock,        \* bound: softlocks on one descriptor
    MaxRss,         \* bound: a_rss, which drifts upwards
    LockedReplace   \* may a driver replace a mapping with the lock flag set?

Slot == AS \X VA
Table == AS \X Tab
TableOf(s) == <<s[1], TabOf[s[2]]>>

ASSUME HatCountsAssumption ==
    /\ IsFiniteSet(AS) /\ IsFiniteSet(VA)
    /\ TabOf \in [VA -> Tab]
    /\ None \notin Page
    /\ ByteMod \in Nat \ {0, 1} /\ MaxLock \in Nat /\ MaxRss \in Nat
    /\ LockedReplace \in BOOLEAN

VARIABLES
    live,    \* address spaces with a root
    tables,  \* leaf tables attached
    pte,     \* the page each descriptor maps
    rss,     \* a_rss
    keep,    \* pt_keepcnt of each attached table
    locks    \* softlocks outstanding on each descriptor

vars == <<live, tables, pte, rss, keep, locks>>

Mapped(s) == pte[s] # None
InTable(t) == {s \in Slot : TableOf(s) = t}

Bit(b) == IF b THEN 1 ELSE 0

Init ==
    /\ live = {}
    /\ tables = {}
    /\ pte = [s \in Slot |-> None]
    /\ rss = [a \in AS |-> 0]
    /\ keep = [t \in Table |-> 0]
    /\ locks = [s \in Slot |-> 0]

(* hat_alloc, of an address space that starts with a zero a_rss.           *)
HatAlloc(a) ==
    /\ a \notin live
    /\ live' = live \cup {a}
    /\ rss' = [rss EXCEPT ![a] = 0]
    /\ UNCHANGED <<tables, pte, keep, locks>>

\* The driver's record of a load; the bound on it.
Locking(s, lock) ==
    /\ locks[s] + Bit(lock) <= MaxLock
    /\ locks' = [locks EXCEPT ![s] = @ + Bit(lock)]

KeepPlus(t, n) == keep' = [keep EXCEPT ![t] = (@ + n) % ByteMod]

(* hat_pteload into an empty slot: one more mapping, in a table that may   *)
(* be new (and then starts from pt_keepcnt 0).                             *)
PteloadFresh(s, p, lock) ==
    LET t == TableOf(s)
    IN  /\ s[1] \in live /\ ~Mapped(s)
        /\ rss[s[1]] < MaxRss
        /\ Locking(s, lock)
        /\ tables' = tables \cup {t}
        /\ pte' = [pte EXCEPT ![s] = p]
        /\ rss' = [rss EXCEPT ![s[1]] = @ + 1]
        /\ IF t \in tables THEN KeepPlus(t, Bit(lock))
           ELSE keep' = [keep EXCEPT ![t] = Bit(lock)]
        /\ UNCHANGED live

(* hat_pteload over the same frame: no new mapping, perhaps a new lock.    *)
PteloadSame(s, lock) ==
    /\ Mapped(s)
    /\ Locking(s, lock)
    /\ KeepPlus(TableOf(s), Bit(lock))
    /\ UNCHANGED <<live, tables, pte, rss>>

(* hat_pteload over another frame (Lreplace): both counts left alone,      *)
(* whatever the lock flag says.  A driver does not replace a locked page.  *)
PteloadReplace(s, p, lock) ==
    /\ Mapped(s) /\ pte[s] # p
    /\ locks[s] = 0
    /\ lock => LockedReplace
    /\ Locking(s, lock)
    /\ pte' = [pte EXCEPT ![s] = p]
    /\ UNCHANGED <<live, tables, rss, keep>>

(* hat_unlock of a descriptor the driver locked.                           *)
HatUnlock(s) ==
    /\ locks[s] > 0
    /\ locks' = [locks EXCEPT ![s] = @ - 1]
    /\ KeepPlus(TableOf(s), -1)
    /\ UNCHANGED <<live, tables, pte, rss>>

\* Mutant of Unmapped: every page of the range counts.
UnmappedRange(S) == Cardinality(S)

\* d4 of hat_unload: the non-empty descriptors among S.
Unmapped(S) == Cardinality({s \in S : Mapped(s)})

(* hat_unload of a range.  With flag 2 each mapping found gives up its     *)
(* lock; without it the driver has none there.                             *)
Unload(a, R, unlock) ==
    LET S == {a} \X R
        found == {s \in S : Mapped(s)}
    IN  /\ a \in live
        /\ \A s \in S : locks[s] = Bit(unlock /\ Mapped(s))
        /\ pte' = [s \in Slot |-> IF s \in S THEN None ELSE pte[s]]
        /\ rss' = [rss EXCEPT ![a] = @ - Unmapped(S)]
        /\ keep' = [t \in Table |->
                      IF unlock /\ t \in tables
                      THEN (keep[t] - Unmapped(S \cap InTable(t))) % ByteMod
                      ELSE keep[t]]
        /\ locks' = [s \in Slot |-> IF s \in found THEN 0 ELSE locks[s]]
        /\ UNCHANGED <<live, tables>>

\* Mutant of PageUnload: the softlocks of the cleared descriptors forgotten.
PageUnloadLocked(p) ==
    /\ pte' = [s \in Slot |-> IF pte[s] = p THEN None ELSE pte[s]]
    /\ locks' = [s \in Slot |-> IF pte[s] = p THEN 0 ELSE locks[s]]
    /\ UNCHANGED <<live, tables, rss, keep>>

(* hat_pageunload: neither count follows.  A softlocked page is held, so   *)
(* nobody unloads it.                                                      *)
PageUnload(p) ==
    /\ \A s \in Slot : pte[s] = p => locks[s] = 0
    /\ pte' = [s \in Slot |-> IF pte[s] = p THEN None ELSE pte[s]]
    /\ UNCHANGED <<live, tables, rss, keep, locks>>

(* hat_dup of one page, shared with the parent or copied to a new page:    *)
(* the child's mapping is counted, and not locked.                         *)
DupPage(a, b, v, p) ==
    LET c == <<b, v>>
    IN  /\ {a, b} \subseteq live /\ a # b
        /\ Mapped(<<a, v>>) /\ ~Mapped(c)
        /\ p = pte[<<a, v>>] \/ \A s \in Slot : pte[s] # p
        /\ rss[b] < MaxRss
        /\ tables' = tables \cup {TableOf(c)}
        /\ keep' = IF TableOf(c) \in tables THEN keep
                   ELSE [keep EXCEPT ![TableOf(c)] = 0]
        /\ pte' = [pte EXCEPT ![c] = p]
        /\ rss' = [rss EXCEPT ![b] = @ + 1]
        /\ UNCHANGED <<live, locks>>

(* hat_free: a_rss loses what it finds; the locks are gone by then.        *)
HatFree(a) ==
    LET S == {a} \X VA
    IN  /\ a \in live
        /\ \A s \in S : locks[s] = 0
        /\ live' = live \ {a}
        /\ tables' = {t \in tables : t[1] # a}
        /\ rss' = [rss EXCEPT ![a] = @ - Unmapped(S)]
        /\ pte' = [s \in Slot |-> IF s \in S THEN None ELSE pte[s]]
        /\ keep' = [t \in Table |-> IF t[1] = a THEN 0 ELSE keep[t]]
        /\ UNCHANGED locks

Next ==
    \/ \E a \in AS : HatAlloc(a)
    \/ \E s \in Slot, p \in Page, lock \in BOOLEAN :
            \/ PteloadFresh(s, p, lock)
            \/ PteloadReplace(s, p, lock)
    \/ \E s \in Slot, lock \in BOOLEAN : PteloadSame(s, lock)
    \/ \E s \in Slot : HatUnlock(s)
    \/ \E a \in AS, R \in SUBSET VA \ {{}}, unlock \in BOOLEAN : Unload(a, R, unlock)
    \/ \E p \in Page : PageUnload(p)
    \/ \E a, b \in AS, v \in VA, p \in Page : DupPage(a, b, v, p)
    \/ \E a \in AS : HatFree(a)

Spec == Init /\ [][Next]_vars

-----------------------------------------------------------------------------
(* pt_keepcnt is the number of softlocks the drivers hold on the table.    *)
(* Above it, the table can never be given back; below it, hat_unlock takes *)
(* the byte through 0 and the table leaks too.                             *)
LocksBalanced ==
    \A t \in tables :
        keep[t] = MapThenSumSet(LAMBDA s : locks[s], InTable(t)) % ByteMod

(* a_rss drifts upwards only: it never falls below the mappings that       *)
(* exist, so that the decrements of hat_unload and hat_free cannot take it *)
(* below zero.                                                             *)
RssCovers ==
    \A a \in live : rss[a] >= Unmapped({a} \X VA)
=============================================================================
