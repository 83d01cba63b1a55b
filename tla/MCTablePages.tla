---------------------------- MODULE MCTablePages ----------------------------
(* Two address spaces over four pages.  A metadata page has three units   *)
(* and a legacy table takes two: as in the kernel, two do not fit a page.  *)
EXTENDS TablePages, TLC

CONSTANTS a1, a2, p1, p2, p3, p4

MC_AS == {a1, a2}
MC_Page == {p1, p2, p3, p4}

Symmetry == Permutations(MC_AS) \cup Permutations(MC_Page)
=============================================================================
