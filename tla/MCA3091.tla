------------------------------- MODULE MCA3091 -------------------------------
(* Two units.  The buffer of u1 shares its line with a word that is in no  *)
(* buffer; the buffer of u2 has a line of its own.                         *)
EXTENDS A3091

CONSTANTS u1, u2, l1, l2, w1, w2, w3

MC_Unit == {u1, u2}
MC_Line == {l1, l2}
MC_Word == {w1, w2, w3}
MC_LineOf == [w \in MC_Word |-> IF w = w3 THEN l2 ELSE l1]
MC_Requests == [u \in MC_Unit |-> IF u = u1 THEN {{w2}} ELSE {{}, {w3}}]
=============================================================================
