---------------------------- MODULE MCStateTypes ----------------------------
(* Two replicas with each type of StateTypes. *)
EXTENDS StateTypes

CONSTANTS a, b

\* An id of its own for each replica, or one for both.
OwnIds == [r \in {a, b} |-> IF r = a THEN 1 ELSE 2]
OneId == [r \in {a, b} |-> 1]
OwnOrOne == {OwnIds, OneId}
OnlyOwn == {OwnIds}
OnlyOne == {OneId}

\* One replica writes twice, the other once: a in the types where its handler can,
\* b in those where a handler cannot remove or does not keep; to a map each writes once.
OnceAndTwice == [t \in AllTypes |->
    LET twice == CASE t \in {"ORSet", "TwoPSet"} -> {b} [] t = "GMap" -> {} [] OTHER -> {a}
    IN  [r \in {a, b} |-> IF r \in twice THEN 2 ELSE 1]]
OneWrite == [t \in AllTypes |-> [r \in {a, b} |-> 1]]

\* The times of their writes: never the same, or the same.
OwnTimes == [r \in {a, b} |-> IF r = a THEN {1, 3} ELSE {2}]
SameTime == [r \in {a, b} |-> {1}]

\* Two values of one key, of which either may come first, and another key.
Pairs == {<<1, 1>>, <<1, 2>>, <<2, 1>>}

Loop == {<<1, 1>>}

=============================================================================
