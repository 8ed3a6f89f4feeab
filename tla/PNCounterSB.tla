---------------------------- MODULE PNCounterSB ----------------------------
(***************************************************************************)
(* The positive-negative counter of src/src/state_based/PNCounterSB.hpp.   *)
(*                                                                         *)
(* Every replica runs a handler (class PNCounterSB): a table id ->         *)
(* metadata, and the cached sum of the totals in it.  Every replica also   *)
(* has one writer, which counts under the id the replica was given:        *)
(*   - a metadata writer updates a PNCounterMetadata object that the       *)
(*     application keeps beside the handler, as the tests do;              *)
(*   - a handler writer registers its metadata once and from then on       *)
(*     updates the entry inside its own handler, through                   *)
(*     PNCounterSB::increasePayload and decreasePayload.                   *)
(* Two replicas may have been given the same id (the conflicts of the      *)
(* README and of tests/test.cpp, and the networking application).          *)
(*                                                                         *)
(* The library is handed snapshots by the application, which took them     *)
(* with serialize() at some time and delivers them at another.  log[r]     *)
(* keeps every state the writer of r has had, and any of them may reach    *)
(* any handler, at any later time, in any order, any number of times.      *)
(***************************************************************************)
EXTENDS PNCounterData, Sequences

CONSTANTS
    Replica,        \* the replicas, each with a handler and a writer
    Id,             \* the ids a metadata object can have
    id,             \* the id each replica counts under
    HandlerWriter,  \* the replicas that count through their handler
    Amount,         \* the amounts a call adds
    IdOnly,         \* the replicas whose metadata is constructed from an id only
    Garbage,        \* what an uninitialised totalPayload may hold
    MaxUpdates      \* bound on the updates of one writer

ASSUME ReplicaAssumption == /\ id \in [Replica -> Id]
                            /\ HandlerWriter \subseteq Replica
                            /\ IdOnly \subseteq Replica
ASSUME AmountAssumption == Amount \subseteq Nat \ {0}
ASSUME GarbageAssumption == Garbage \subseteq T
ASSUME BoundAssumption == MaxUpdates \in Nat

VARIABLES
    metadata,          \* the writers' PNCounterMetadata objects
    replica_metadata,  \* per handler, the table id -> metadata
    payload,           \* per handler, the cached sum
    log                \* per writer, the states it has had

vars == <<metadata, replica_metadata, payload, log>>

-----------------------------------------------------------------------------

InitialMetadata(r) ==
    {NewMetadata(total) : total \in IF r \in IdOnly THEN Garbage ELSE {0}}

\* Mutant: the sum is refreshed before the table is replaced.
RefreshTooEarly(s, table) ==
    /\ replica_metadata' = [replica_metadata EXCEPT ![s] = table]
    /\ payload' = [payload EXCEPT ![s] = InternalPayload(replica_metadata[s])]

\* A handler's table is replaced and its cached sum refreshed.
Refresh(s, table) ==
    /\ replica_metadata' = [replica_metadata EXCEPT ![s] = table]
    /\ payload' = [payload EXCEPT ![s] = InternalPayload(table)]

Init ==
    /\ metadata \in [Replica -> UNION {InitialMetadata(r) : r \in Replica}]
    /\ \A r \in Replica : metadata[r] \in InitialMetadata(r)
    /\ replica_metadata = [s \in Replica |-> <<>>]
    /\ payload = [s \in Replica |-> 0]
    /\ log = [r \in Replica |-> <<metadata[r]>>]

\* The application counts on its metadata object; no handler knows yet.
\* A sum that would wrap around is out of the model's bounds.
UpdateMetadata(r, n) ==
    /\ r \notin HandlerWriter
    /\ Len(log[r]) <= MaxUpdates
    /\ \/ /\ metadata[r].positivePayload + n < Modulus
          /\ metadata' = [metadata EXCEPT ![r] = IncreasePayload(@, n)]
       \/ /\ metadata[r].negativePayload + n < Modulus
          /\ metadata' = [metadata EXCEPT ![r] = DecreasePayload(@, n)]
    /\ log' = [log EXCEPT ![r] = Append(@, metadata'[r])]
    /\ UNCHANGED <<replica_metadata, payload>>

\* The application counts on its handler's entry.  An id the handler does not
\* know makes the call return at once; the cached sum is not refreshed.
UpdateHandler(r, n) ==
    /\ r \in HandlerWriter
    /\ id[r] \in DOMAIN replica_metadata[r]
    /\ Len(log[r]) <= MaxUpdates
    /\ \/ /\ replica_metadata[r][id[r]].positivePayload + n < Modulus
          /\ replica_metadata' =
                [replica_metadata EXCEPT ![r][id[r]] = IncreasePayload(@, n)]
       \/ /\ replica_metadata[r][id[r]].negativePayload + n < Modulus
          /\ replica_metadata' =
                [replica_metadata EXCEPT ![r][id[r]] = DecreasePayload(@, n)]
    /\ log' = [log EXCEPT ![r] = Append(@, replica_metadata'[r][id[r]])]
    /\ UNCHANGED <<metadata, payload>>

\* Handler s is given the k-th state of the writer of r.  A call with several
\* metadata is the same as one call for each: the sum depends on the table only.
AddExternalReplica(s, r, k) ==
    /\ Refresh(s, Merged(replica_metadata[s], id[r], log[r][k]))
    /\ UNCHANGED <<metadata, log>>

\* Handler s is given a copy of handler t.  A handler without entries makes the
\* loop end before the first refresh.
UpdateLocalExternalPayload(s, t) ==
    /\ DOMAIN replica_metadata[t] # {}
    /\ Refresh(s, MergedTables(replica_metadata[s], replica_metadata[t]))
    /\ UNCHANGED <<metadata, log>>

Next ==
    \/ \E r \in Replica, n \in Amount : UpdateMetadata(r, n)
    \/ \E r \in Replica, n \in Amount : UpdateHandler(r, n)
    \/ \E s, r \in Replica : \E k \in 1 .. Len(log[r]) : AddExternalReplica(s, r, k)
    \/ \E s, t \in Replica : UpdateLocalExternalPayload(s, t)

\* Every handler keeps being given the latest state of every writer, as the
\* polling loop of the networking application and the tests' rounds do.
Poll(s, r) == AddExternalReplica(s, r, Len(log[r]))

Spec == Init /\ [][Next]_vars
FairSpec == Spec /\ \A s, r \in Replica : WF_vars(Poll(s, r))

-----------------------------------------------------------------------------
(* Properties *)

\* The tables map known ids to metadata, whose numbers stay within the payload
\* type.  What the cached sums hold is the matter of PayloadLagsOwnUpdatesOnly.
TypeOK ==
    /\ metadata \in [Replica -> Metadata]
    /\ DOMAIN replica_metadata = Replica
    /\ \A s \in Replica :
          /\ DOMAIN replica_metadata[s] \subseteq Id
          /\ replica_metadata[s] \in [DOMAIN replica_metadata[s] -> Metadata]
    /\ log \in [Replica -> Seq(Metadata)]

\* The writers that count under an id.
Writers(i) == {r \in Replica : id[r] = i}

\* r is the only replica that counts under its id.
Exclusive(r) == Writers(id[r]) = {r}

\* However snapshots are lost, repeated and reordered, and whichever way they
\* travel, the two parts of an entry are parts that writers of its id have had.
FromWriters(i, entry) ==
    /\ \E r \in Writers(i) : \E k \in 1 .. Len(log[r]) :
          entry.positivePayload = log[r][k].positivePayload
    /\ \E r \in Writers(i) : \E k \in 1 .. Len(log[r]) :
          entry.negativePayload = log[r][k].negativePayload

EntryFromWriters ==
    \A s \in Replica : \A i \in DOMAIN replica_metadata[s] :
        FromWriters(i, replica_metadata[s][i])

\* When nobody else counts under the id, the two parts are those of one and
\* the same state of the writer: a handler never shows an increase without a
\* decrease that came before it.
PastState(r, entry) == \E k \in 1 .. Len(log[r]) : SameParts(entry, log[r][k])

EntryIsPastState ==
    \A s, r \in Replica :
        Exclusive(r) /\ id[r] \in DOMAIN replica_metadata[s] =>
            PastState(r, replica_metadata[s][id[r]])

\* What the cached sum of s would be with its own entry in state md.
PayloadWithOwn(s, md) ==
    InternalPayload([replica_metadata[s] EXCEPT ![id[s]] = md])

\* The cached sum is the sum over the table.  Only a handler writer's own
\* updates can be missing from it, until the next merge: the sum then counts
\* its entry in an earlier state.
PayloadLagsOwnUpdatesOnly ==
    \A s \in Replica :
        \/ payload[s] = InternalPayload(replica_metadata[s])
        \/ /\ s \in HandlerWriter
           /\ Exclusive(s) =>
                 \E k \in 1 .. Len(log[s]) - 1 :
                     \/ payload[s] = PayloadWithOwn(s, log[s][k])
                     \/ payload[s] = PayloadWithOwn(s, SetPayloadN(log[s][k],
                                                           log[s][k].negativePayload))

\* A total that nobody initialised reaches the tables, but it does not outlive
\* the first update: every other entry has the difference of its parts as total.
Contained(i, entry) ==
    Consistent(entry) \/ \E r \in Writers(i) : entry \in InitialMetadata(r)

GarbageIsContained ==
    \A s \in Replica : \A i \in DOMAIN replica_metadata[s] :
        Contained(i, replica_metadata[s][i])

\* A handler never forgets an id nor lowers a part of an entry, though the
\* snapshots it is given may be older than what it knows.
TablesOnlyGrow ==
    [][\A s \in Replica : Grows(replica_metadata[s], replica_metadata'[s])]_vars

\* The counters of the latest states of the writers, merged per id.
Latest(i) ==
    LET last == {log[r][Len(log[r])] : r \in Writers(i)}
        Largest(S) == CHOOSE n \in S : \A m \in S : n >= m
    IN  Wrap(Largest({md.positivePayload : md \in last})
              - Largest({md.negativePayload : md \in last}))

\* Strong eventual consistency: when the writers stop, polling brings every
\* handler to the same sum, that of the latest counters of every id.
Converges ==
    <>[](\A s \in Replica :
            payload[s] = Wrap(SumFunction([i \in {id[r] : r \in Replica} |-> Latest(i)])))

-----------------------------------------------------------------------------
(* What the counters promise: module OwnerVersions *)

\* The owners are the replicas whose id nobody else uses; the version of an
\* owner that a handler knows is the place of the entry's parts in its log.
Owner == {r \in Replica : Exclusive(r)}

VersionOf(r, md) == CHOOSE k \in 1 .. Len(log[r]) : SameParts(md, log[r][k])

version == [r \in Owner |-> Len(log[r])]

view ==
    [s \in Replica |->
        [r \in Owner |->
            IF id[r] \in DOMAIN replica_metadata[s]
            THEN VersionOf(r, replica_metadata[s][id[r]])
            ELSE 0]]

Versions == INSTANCE OwnerVersions WITH Replica <- Replica, Owner <- Owner,
                                        version <- version, view <- view

\* Merging by the larger parts keeps the promise of OwnerVersions: a handler
\* knows published versions only, and its knowledge never goes back.
ImplementsVersions == Versions!Spec

=============================================================================
