----------------------------- MODULE MCSessions -----------------------------
(* Two accounts with one user name, as bob/1 and bob/123 have. *)
EXTENDS Sessions

CONSTANTS p1, p2, bob1, bob123, bob

OneName == [a \in {bob1, bob123} |-> bob]

\* The first process is used by both bobs, the second by one of them.
BothAndOne == [p \in {p1, p2} |-> IF p = p1 THEN {bob1, bob123} ELSE {bob1}]


=============================================================================
