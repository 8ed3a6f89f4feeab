--------------------------- MODULE MCPNCounterSB ---------------------------
(* The ids of the runs of PNCounterSB. *)
EXTENDS PNCounterSB

CONSTANTS a, b

TwoIds == {1, 2}

\* Every replica counts under an id of its own.
OwnIds == [r \in {a, b} |-> IF r = a THEN 1 ELSE 2]

\* All replicas count under the same id.
SharedId == [r \in Replica |-> 2]

=============================================================================
