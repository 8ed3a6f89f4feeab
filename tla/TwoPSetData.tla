---------------------------- MODULE TwoPSetData ----------------------------
(***************************************************************************)
(* The data of the two-phase set: class TwoPSetMetadata of                 *)
(* src/src/state_based/TwoPSetSB.hpp and what its handler class TwoPSetSB  *)
(* computes from tables id -> metadata.                                    *)
(***************************************************************************)
EXTENDS FiniteSets

CONSTANT Element  \* what the sets contain

SetMetadata == [payload : SUBSET Element, tombstone : SUBSET Element]

NewSetMetadata == [payload |-> {}, tombstone |-> {}]

Insert(md, e) == [md EXCEPT !.payload = @ \cup {e}]

\* An element can be removed before it was ever inserted.
Remove(md, e) == [md EXCEPT !.tombstone = @ \cup {e}]

\* What deserialize() makes of the text of serialize(): the one writes the
\* tombstones as "tombstome", the other looks for "tombstone" and finds none.
Transferred(md) == [md EXCEPT !.tombstone = {}]

\* Mutant: an insert that finds the id taken leaves the table as it was.
MergedSetsInsertOnly(table, i, md) ==
    [j \in DOMAIN table \cup {i} |-> IF j \in DOMAIN table THEN table[j] ELSE md]

\* A metadata of a known id: both sets are united with the known ones.
United(known, md) ==
    [payload |-> known.payload \cup md.payload,
     tombstone |-> known.tombstone \cup md.tombstone]

\* One turn of the loop of addExternalReplica.
MergedSets(table, i, md) ==
    [j \in DOMAIN table \cup {i} |->
        IF j # i THEN table[j]
        ELSE IF i \in DOMAIN table THEN United(table[i], md) ELSE md]

\* updateInternalPayload: what was inserted and what was removed under any id.
AllInserted(table) == UNION {table[i].payload : i \in DOMAIN table}
AllRemoved(table) == UNION {table[i].tombstone : i \in DOMAIN table}

\* Mutant: a tombstone hides the element under its own id only.
QueryEachAlone(table) ==
    UNION {table[i].payload \ table[i].tombstone : i \in DOMAIN table}

\* TwoPSetSB::queryTwoPSet
QueryTwoPSet(table) == AllInserted(table) \ AllRemoved(table)

=============================================================================
