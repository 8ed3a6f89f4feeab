---------------------------- MODULE MCReplicaApp ----------------------------
(* Two processes of the networking application. *)
EXTENDS ReplicaApp

CONSTANTS p2020, p2021,  \* the ports of list_servers
          x              \* an element

\* One of them counts, twice; both count once.
OneCounts == [p \in {p2020, p2021} |-> IF p = p2020 THEN 2 ELSE 0]
BothCount == [p \in {p2020, p2021} |-> 1]

=============================================================================
