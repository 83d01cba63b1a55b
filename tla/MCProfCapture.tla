--------------------------- MODULE MCProfCapture ---------------------------
(***************************************************************************)
(* Captures of one to four items: two rings of the same and of different   *)
(* lengths and versions, three rings of which the first and the last may   *)
(* be confused, two stats dumps, a ring between stats dumps and the other  *)
(* way round, and boots of either version around the dumps.                *)
(***************************************************************************)
EXTENDS ProfCapture

R(v, n)      == [kind |-> "ring", ver |-> v, n |-> n, priced |-> FALSE]
S(v, priced) == [kind |-> "stats", ver |-> v, n |-> 0, priced |-> priced]
B(v)         == [kind |-> "boot", ver |-> v, n |-> 0, priced |-> FALSE]

MCCaptures == {
    <<R(1, 1), R(1, 1)>>, <<R(1, 2), R(2, 2)>>, <<R(2, 2), R(1, 2)>>,
    <<R(2, 1), R(2, 2)>>, <<R(3, 1)>>, <<S(2, TRUE), B(3)>>,
    <<S(1, TRUE), S(1, FALSE)>>, <<S(2, FALSE), S(1, TRUE)>>,
    <<R(2, 1), S(2, TRUE), R(2, 1)>>, <<S(1, TRUE), R(1, 1), S(1, TRUE)>>,
    <<R(1, 4), R(1, 1), R(1, 4)>>,
    <<B(1), S(1, FALSE), B(2), S(2, FALSE)>>,
    <<B(2), S(2, FALSE), B(1), S(1, FALSE)>>,
    <<B(2), S(2, TRUE), B(2), S(2, FALSE)>> }
=============================================================================
