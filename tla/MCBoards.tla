------------------------------ MODULE MCBoards ------------------------------
(* Two processes and two users. *)
EXTENDS Boards

CONSTANTS p1, p2, alice, bob

OwnNames == [a \in {alice, bob} |-> a]

\* An id of its own for each, or one for both: the largest number, which is what is
\* read from the file of an account that "Create Account" has made.
OwnOrOne == {[a \in {alice, bob} |-> IF a = alice THEN 1 ELSE 2], [a \in {alice, bob} |-> 9]}

\* The first process is used by both, one after the other.
BothAndOne == [p \in {p1, p2} |-> IF p = p1 THEN {alice, bob} ELSE {bob}]

\* Each at a process of his own.
EachOwn == [p \in {p1, p2} |-> IF p = p1 THEN {alice} ELSE {bob}]

OneBoard == <<"backlog">>

OneUrgency == [e \in Element |-> 1]
OwnWords == [e \in Element |-> {"buy", IF e = 1 THEN "milk" ELSE "bread"}]

\* Who creates what: each a task of his own, or the first process both tasks.
OwnTasks == [p \in {p1, p2} |-> IF p = p1 THEN {1} ELSE {2}]
BothOrFirst == [p \in {p1, p2} |-> IF p = p1 THEN {1, 2} ELSE {1}]
TwoLogins == [p \in {p1, p2} |-> IF p = p1 THEN 2 ELSE 1]
ThreeEdits == [p \in {p1, p2} |-> IF p = p1 THEN 2 ELSE 1]

=============================================================================
