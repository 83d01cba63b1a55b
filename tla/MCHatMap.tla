------------------------------ MODULE MCHatMap ------------------------------
(* Two address spaces of one virtual page over four managed frames and a   *)
(* device frame.                                                           *)
EXTENDS HatMap, TLC

CONSTANTS a1, a2, v1, t1, p1, p2, p3, p4, d1

MC_AS == {a1, a2}
MC_VA == {v1}
MC_Tab == {t1}
MC_TabOf == [v \in MC_VA |-> t1]
MC_Page == {p1, p2, p3, p4}
MC_Dev == {d1}

Symmetry == Permutations(MC_AS) \cup Permutations(MC_Page)
=============================================================================
