--------------------------- MODULE PNCounterData ---------------------------
(***************************************************************************)
(* The data of the positive-negative counter: class PNCounterMetadata of   *)
(* src/src/state_based/PNCounterSB.hpp and what its handler class          *)
(* PNCounterSB computes from tables id -> metadata.                        *)
(*                                                                         *)
(* A table is a function whose domain are the ids the handler knows; a     *)
(* number of the payload type T is one of Modulus residues, which is what  *)
(* an unsigned T holds and the bits of a signed one.                       *)
(***************************************************************************)
EXTENDS Integers, Functions

CONSTANT Modulus  \* 2^w for a payload type of w bits

ASSUME WidthAssumption == Modulus \in Nat \ {0}

-----------------------------------------------------------------------------
(* PNCounterMetadata *)

T == 0 .. Modulus - 1

\* Mutant: the difference of the parts is kept as it is.
UnwrappedNumber(n) == n

\* Unsigned arithmetic of that width.
Wrap(n) == n % Modulus

Metadata == [positivePayload : T, negativePayload : T, totalPayload : T]

\* What the constructors make, when no payload or payload 0 is given: the one
\* that takes only an id leaves the total as it was in memory.
NewMetadata(total) ==
    [positivePayload |-> 0, negativePayload |-> 0, totalPayload |-> total]

\* Mutant: the setter of the positive part leaves the total alone.
SetPayloadPOnly(md, n) == [md EXCEPT !.positivePayload = n]

\* Every setter of the positive or the negative part recomputes the total.
SetPayloadP(md, n) ==
    [md EXCEPT !.positivePayload = n,
               !.totalPayload = Wrap(n - md.negativePayload)]

SetPayloadN(md, n) ==
    [md EXCEPT !.negativePayload = n,
               !.totalPayload = Wrap(md.positivePayload - n)]

IncreasePayload(md, n) == SetPayloadP(md, Wrap(md.positivePayload + n))

DecreasePayload(md, n) == SetPayloadN(md, Wrap(md.negativePayload + n))

-----------------------------------------------------------------------------
(* PNCounterSB *)

Larger(m, n) == IF m >= n THEN m ELSE n

\* Mutants: only the positive part is compared; the parts are added up.
FixConflictPOnly(known, md) ==
    SetPayloadP(md, Larger(known.positivePayload, md.positivePayload))

FixConflictSum(known, md) ==
    SetPayloadN(SetPayloadP(md, Wrap(known.positivePayload + md.positivePayload)),
                Larger(known.negativePayload, md.negativePayload))

\* Mutant: the parts are merged without recomputing the total.
FixConflictKeepTotal(known, md) ==
    [md EXCEPT !.positivePayload = Larger(known.positivePayload, @),
               !.negativePayload = Larger(known.negativePayload, @)]

\* An incoming metadata takes the larger of its own and the known parts.
FixConflict(known, md) ==
    SetPayloadN(SetPayloadP(md, Larger(known.positivePayload, md.positivePayload)),
                Larger(known.negativePayload, md.negativePayload))

\* Mutants: the incoming metadata replaces the known one unmerged; an insert
\* that finds the id taken leaves the table as it was.
MergedOverwrite(table, i, md) ==
    [j \in DOMAIN table \cup {i} |-> IF j # i THEN table[j] ELSE md]

MergedInsertOnly(table, i, md) ==
    [j \in DOMAIN table \cup {i} |-> IF j \in DOMAIN table THEN table[j] ELSE md]

\* One turn of the loop of addExternalReplica: the first metadata of an id
\* enters the table as it is, total included.
Merged(table, i, md) ==
    [j \in DOMAIN table \cup {i} |->
        IF j # i THEN table[j]
        ELSE IF i \in DOMAIN table THEN FixConflict(table[i], md) ELSE md]

\* Every entry of one table merged into another, as if one after the other.
MergedTables(table, other) ==
    [j \in DOMAIN table \cup DOMAIN other |->
        IF j \notin DOMAIN other THEN table[j] ELSE Merged(table, j, other[j])[j]]

\* updateInternalPayload: the sum of the totals.
InternalPayload(table) ==
    Wrap(SumFunction([j \in DOMAIN table |-> table[j].totalPayload]))

-----------------------------------------------------------------------------
(* What the properties say of metadata *)

\* The total is the difference of the parts.
Consistent(md) == md.totalPayload = Wrap(md.positivePayload - md.negativePayload)

SameParts(m1, m2) == /\ m1.positivePayload = m2.positivePayload
                     /\ m1.negativePayload = m2.negativePayload

\* Neither part of m1 is larger than that of m2.
AtMost(m1, m2) == /\ m1.positivePayload <= m2.positivePayload
                  /\ m1.negativePayload <= m2.negativePayload

\* The newer table knows all ids of the other, and no part of them is lower.
Grows(table, newer) ==
    \A i \in DOMAIN table : i \in DOMAIN newer /\ AtMost(table[i], newer[i])

=============================================================================
