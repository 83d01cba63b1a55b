------------------------------ MODULE RevChain ------------------------------
(***************************************************************************)
(* The reverse map as src/src/hat040.s keeps it: p_mapping of a page_t     *)
(* (offset 32) points at a leaf descriptor, and the long 256 bytes above a *)
(* descriptor points at the next one.  A descriptor is found on the chain  *)
(* of its page by a search that looks at Budget nodes (256 in the code)    *)
(* and then gives up.                                                      *)
(*                                                                         *)
(* A pointer field is named by the descriptor or page it belongs to.  The  *)
(* field of a descriptor keeps its value when the descriptor is cleared.   *)
(***************************************************************************)
EXTENDS Naturals, FiniteSets

CONSTANTS
    Slot,    \* leaf descriptors
    Page,    \* managed pages
    None,    \* an empty descriptor; the null pointer
    Budget   \* nodes a search looks at before it gives up

ASSUME RevChainAssumption ==
    /\ IsFiniteSet(Slot)
    /\ Slot \cap Page = {}
    /\ None \notin Slot \cup Page
    /\ Budget \in Nat \ {0}

VARIABLES
    pte,     \* the page each descriptor maps
    head,    \* p_mapping of each page
    next     \* the link field 256 bytes above each descriptor

vars == <<pte, head, next>>

\* The n-th node from the head of p's chain, None past its end.
Node(p) ==
    LET walk[n \in 0..Cardinality(Slot)] ==
            IF n = 0 THEN head[p]
            ELSE IF walk[n - 1] = None THEN None ELSE next[walk[n - 1]]
    IN  walk

Nodes(p) == {Node(p)[n] : n \in 0..Cardinality(Slot)} \ {None}

\* Mutant of Found: the counter is tested before the node.
FoundEarly(p, s) ==
    {n \in 0..Cardinality(Slot) : n + 1 < Budget /\ Node(p)[n] = s}

\* The places on p's chain at which the search for s stops with success.
Found(p, s) ==
    {n \in 0..Cardinality(Slot) : n < Budget /\ Node(p)[n] = s}

\* The head and link fields once s is spliced out of p's chain; unchanged
\* when the search gives up.
Spliced(p, s) ==
    IF Found(p, s) = {} THEN [h |-> head, n |-> next]
    ELSE LET i == CHOOSE n \in Found(p, s) : \A m \in Found(p, s) : n <= m
         IN  IF i = 0 THEN [h |-> [head EXCEPT ![p] = next[s]], n |-> next]
             ELSE [h |-> head, n |-> [next EXCEPT ![Node(p)[i - 1]] = next[s]]]

Init ==
    /\ pte = [s \in Slot |-> None]
    /\ head = [p \in Page |-> None]
    /\ next = [s \in Slot |-> None]

(* hat_pteload into an empty slot, hat_dup's private copy: push at the head *)
LoadFresh(s, p) ==
    /\ pte[s] = None
    /\ pte' = [pte EXCEPT ![s] = p]
    /\ next' = [next EXCEPT ![s] = head[p]]
    /\ head' = [head EXCEPT ![p] = s]

\* Mutant of LoadReplace: every load takes the path of an empty slot.
ReplacePushing(s, p) ==
    /\ pte[s] # None
    /\ pte' = [pte EXCEPT ![s] = p]
    /\ next' = [next EXCEPT ![s] = head[p]]
    /\ head' = [head EXCEPT ![p] = s]

(* hat_pteload over another page (Lreplace): unlink from the old chain,    *)
(* push on the new one, whether or not the search found the slot.          *)
LoadReplace(s, p) ==
    LET u == Spliced(pte[s], s)
    IN  /\ pte[s] \notin {None, p}
        /\ pte' = [pte EXCEPT ![s] = p]
        /\ next' = [u.n EXCEPT ![s] = u.h[p]]
        /\ head' = [u.h EXCEPT ![p] = s]

\* Mutant of Unload: the descriptor is cleared and left on the chain.
UnloadUnlinked(s) ==
    /\ pte[s] # None
    /\ pte' = [pte EXCEPT ![s] = None]
    /\ UNCHANGED <<head, next>>

(* hat_unload and hat_free of one descriptor; both clear it even when the  *)
(* search gave up.                                                         *)
Unload(s) ==
    LET u == Spliced(pte[s], s)
    IN  /\ pte[s] # None
        /\ pte' = [pte EXCEPT ![s] = None]
        /\ head' = u.h
        /\ next' = u.n

(* hat_dup's shared page: the child's descriptor c is linked in behind the *)
(* parent's s, wherever on the chain that is.                              *)
DupShare(s, c) ==
    /\ pte[s] # None
    /\ pte[c] = None
    /\ pte' = [pte EXCEPT ![c] = pte[s]]
    /\ next' = [next EXCEPT ![c] = next[s], ![s] = c]
    /\ UNCHANGED head

(* hat_pageunload: follow the chain to its end, clear every descriptor on  *)
(* it, whatever it maps.                                                   *)
UnloadPage(p) ==
    /\ pte' = [s \in Slot |-> IF s \in Nodes(p) THEN None ELSE pte[s]]
    /\ head' = [head EXCEPT ![p] = None]
    /\ UNCHANGED next

Next ==
    \/ \E s \in Slot, p \in Page : LoadFresh(s, p)
    \/ \E s \in Slot, p \in Page : LoadReplace(s, p)
    \/ \E s \in Slot : Unload(s)
    \/ \E s, c \in Slot : DupShare(s, c)
    \/ \E p \in Page : UnloadPage(p)

Spec == Init /\ [][Next]_vars

-----------------------------------------------------------------------------
(* A chain ends, visits no descriptor twice, and holds exactly those that  *)
(* map its page.  hat_pageunload has no counter: a cycle would hang it.    *)
ChainsExact ==
    \A p \in Page :
        /\ Node(p)[Cardinality(Slot)] = None
        /\ Nodes(p) = {s \in Slot : pte[s] = p}

(* With a budget no chain exceeds, the lists implement RevMap.             *)
RevMapImpl == INSTANCE RevMap WITH
    Slot <- Slot, Page <- Page, None <- None, pte <- pte
ImplementsRevMap == RevMapImpl!Spec
=============================================================================
