----------------------------- MODULE MCWriteBack -----------------------------
(* Every combination of up to three write-backs, or single ones only.      *)
EXTENDS WriteBack, TLC

CONSTANTS p1, p2

MC_One == {p1}
MC_Two == {p1, p2}
MC_AnyFrame == [Wb -> TM \cup {None}]
MC_TwoStores == {f \in MC_AnyFrame : f[2] = None}

Symmetry == Permutations(Proc)
=============================================================================
