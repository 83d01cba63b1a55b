----------------------------- MODULE MCRevChain -----------------------------
(* Four descriptors over two pages; the budget is set by the cfg.          *)
EXTENDS RevChain, TLC

CONSTANTS s1, s2, s3, s4, p1, p2

MC_Slot == {s1, s2, s3, s4}
MC_Page == {p1, p2}

Symmetry == Permutations(MC_Slot) \cup Permutations(MC_Page)
=============================================================================
