--------------------------- MODULE MCPageRelease ----------------------------
(* Two descriptors map the page.                                           *)
EXTENDS PageRelease, TLC

CONSTANTS l1, l2

MC_Leaf == {l1, l2}

Symmetry == Permutations(MC_Leaf)
=============================================================================
