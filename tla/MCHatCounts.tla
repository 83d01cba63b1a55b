---------------------------- MODULE MCHatCounts -----------------------------
(* Two address spaces of one virtual page, or one of two in one table.    *)
EXTENDS HatCounts, TLC

CONSTANTS a1, a2, v1, v2, t1, p1, p2

MC_AS == {a1, a2}
MC_VA == {v1, v2}
MC_Tab == {t1}
MC_TabOf == [v \in MC_VA |-> t1]
MC_Page == {p1, p2}
MC_OneAS == {a1}

Symmetry == Permutations(MC_AS) \cup Permutations(MC_VA) \cup Permutations(MC_Page)
=============================================================================
