------------------------------- MODULE RevMap -------------------------------
(***************************************************************************)
(* What the reverse map promises the pager: every leaf descriptor maps at  *)
(* most one managed page, and unloading a page clears the descriptors that *)
(* map it, all of them and no others.  RevChain implements it with the     *)
(* linked lists of src/src/hat040.s.                                       *)
(***************************************************************************)
CONSTANTS
    Slot,    \* leaf descriptors
    Page,    \* managed pages
    None     \* an empty descriptor

VARIABLE pte \* the page each descriptor maps

Init == pte = [s \in Slot |-> None]

Load(s, p) == pte' = [pte EXCEPT ![s] = p]

Unload(s) == pte' = [pte EXCEPT ![s] = None]

UnloadPage(p) == pte' = [s \in Slot |-> IF pte[s] = p THEN None ELSE pte[s]]

Next ==
    \/ \E s \in Slot, p \in Page : Load(s, p)
    \/ \E s \in Slot : Unload(s)
    \/ \E p \in Page : UnloadPage(p)

Spec == Init /\ [][Next]_pte
=============================================================================
