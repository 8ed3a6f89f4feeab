------------------------ MODULE PNCounterSB_proofs ------------------------
(***************************************************************************)
(* Proofs about PNCounterSB, for any replicas, ids, amounts and widths.    *)
(***************************************************************************)
EXTENDS PNCounterSB, PNCounterData_proofs

-----------------------------------------------------------------------------
(* The constructors *)

\* A constructor's result is metadata with both parts zero.
LEMMA InitialType ==
    ASSUME NEW r \in Replica, NEW md \in InitialMetadata(r)
    PROVE  md \in Metadata /\ md.positivePayload = 0 /\ md.negativePayload = 0
  <1>1. PICK total \in (IF r \in IdOnly THEN Garbage ELSE {0}) :
            md = NewMetadata(total)
    BY DEF InitialMetadata
  <1>2. total \in T /\ 0 \in T
    BY <1>1, WidthAssumption, GarbageAssumption DEF T
  <1> QED
    BY <1>1, <1>2 DEF NewMetadata, Metadata

-----------------------------------------------------------------------------
(* The inductive invariant *)

\* The order in which a writer's states succeed each other.
Earlier(m1, m2) == AtMost(m1, m2) /\ ~SameParts(m1, m2)

\* Every log is a chain that starts with a constructed metadata object.
LogInv ==
    \A r \in Replica :
        /\ Len(log[r]) >= 1
        /\ log[r][1] \in InitialMetadata(r)
        /\ \A k \in 2 .. Len(log[r]) : Consistent(log[r][k])
        /\ \A k, l \in 1 .. Len(log[r]) : k < l => Earlier(log[r][k], log[r][l])

\* Where a writer's latest state is kept.
WriterInv ==
    \A r \in Replica :
        /\ r \notin HandlerWriter => metadata[r] = log[r][Len(log[r])]
        /\ r \in HandlerWriter /\ id[r] \in DOMAIN replica_metadata[r] =>
              AtMost(log[r][Len(log[r])], replica_metadata[r][id[r]])
        /\ r \in HandlerWriter /\ id[r] \notin DOMAIN replica_metadata[r] =>
              Len(log[r]) = 1

\* What may stand in a table under id i.
GoodEntry(i, entry) ==
    /\ entry \in Metadata
    /\ FromWriters(i, entry)
    /\ \A r \in Replica : id[r] = i /\ Exclusive(r) => PastState(r, entry)
    /\ Contained(i, entry)

EntryInv ==
    \A s \in Replica : \A i \in DOMAIN replica_metadata[s] :
        GoodEntry(i, replica_metadata[s][i])

IInv == TypeOK /\ LogInv /\ WriterInv /\ EntryInv

-----------------------------------------------------------------------------
(* What may stand in a table *)

\* A state of a writer may stand under the writer's id.
LEMMA SnapshotGood ==
    ASSUME TypeOK, LogInv, NEW r \in Replica, NEW k \in 1 .. Len(log[r])
    PROVE  GoodEntry(id[r], log[r][k])
  <1> DEFINE md == log[r][k]
  <1>1. md \in Metadata
    BY DEF TypeOK
  <1>2. r \in Writers(id[r])
    BY DEF Writers
  <1>3. FromWriters(id[r], md)
    BY <1>2 DEF FromWriters
  <1>4. ASSUME NEW q \in Replica, id[q] = id[r], Exclusive(q)
        PROVE  PastState(q, md)
    <2>1. q = r
      BY <1>2, <1>4 DEF Exclusive
    <2> QED
      BY <2>1 DEF PastState, SameParts
  <1>5. Contained(id[r], md)
    <2>1. CASE k = 1
      BY <2>1, <1>2 DEF LogInv, Contained
    <2>2. CASE k # 1
      <3>1. k \in 2 .. Len(log[r])
        BY <2>2 DEF TypeOK
      <3> QED
        BY <3>1 DEF LogInv, Contained
    <2> QED
      BY <2>1, <2>2
  <1> QED
    BY <1>1, <1>3, <1>4, <1>5 DEF GoodEntry

\* Two states of one writer are merged into the later one.
LEMMA MergePast ==
    ASSUME TypeOK, LogInv, NEW r \in Replica,
           NEW known \in Metadata, NEW md \in Metadata,
           PastState(r, known), PastState(r, md)
    PROVE  PastState(r, FixConflict(known, md))
  <1> DEFINE both == FixConflict(known, md)
  <1>1. PICK k \in 1 .. Len(log[r]) : SameParts(known, log[r][k])
    BY DEF PastState
  <1>2. PICK l \in 1 .. Len(log[r]) : SameParts(md, log[r][l])
    BY DEF PastState
  <1>3. /\ both.positivePayload = Larger(known.positivePayload, md.positivePayload)
        /\ both.negativePayload = Larger(known.negativePayload, md.negativePayload)
    BY FixConflictType
  <1>4. /\ known.positivePayload \in Int /\ known.negativePayload \in Int
        /\ md.positivePayload \in Int /\ md.negativePayload \in Int
    BY DEF Metadata, T
  <1>5. k \in Int /\ l \in Int
    OBVIOUS
  <1> HIDE DEF both
  <1>6. CASE k < l
    <2>1. AtMost(log[r][k], log[r][l])
      BY <1>6 DEF LogInv, Earlier
    <2>2. SameParts(both, log[r][l])
      BY <2>1, <1>1, <1>2, <1>3, <1>4 DEF SameParts, AtMost, Larger
    <2> QED
      BY <2>2 DEF PastState, both
  <1>7. CASE k = l
    <2>1. SameParts(both, log[r][l])
      BY <1>7, <1>1, <1>2, <1>3, <1>4 DEF SameParts, Larger
    <2> QED
      BY <2>1 DEF PastState, both
  <1>8. CASE l < k
    <2>1. AtMost(log[r][l], log[r][k])
      BY <1>8 DEF LogInv, Earlier
    <2>2. SameParts(both, log[r][k])
      BY <2>1, <1>1, <1>2, <1>3, <1>4 DEF SameParts, AtMost, Larger
    <2> QED
      BY <2>2 DEF PastState, both
  <1> QED
    BY <1>5, <1>6, <1>7, <1>8

\* The merge of two entries of an id may stand under that id.
LEMMA MergeGood ==
    ASSUME TypeOK, LogInv, NEW i, NEW known, NEW md,
           GoodEntry(i, known), GoodEntry(i, md)
    PROVE  GoodEntry(i, FixConflict(known, md))
  <1> DEFINE both == FixConflict(known, md)
  <1>1. known \in Metadata /\ md \in Metadata
    BY DEF GoodEntry
  <1>2. /\ both \in Metadata
        /\ both.positivePayload = Larger(known.positivePayload, md.positivePayload)
        /\ both.negativePayload = Larger(known.negativePayload, md.negativePayload)
        /\ both.totalPayload = Wrap(both.positivePayload - both.negativePayload)
    BY <1>1, FixConflictType
  <1>3. /\ both.positivePayload \in {known.positivePayload, md.positivePayload}
        /\ both.negativePayload \in {known.negativePayload, md.negativePayload}
    BY <1>2 DEF Larger
  <1>4. FromWriters(i, known) /\ FromWriters(i, md)
    BY DEF GoodEntry
  <1>5. FromWriters(i, both)
    BY <1>3, <1>4 DEF FromWriters
  <1>6. ASSUME NEW r \in Replica, id[r] = i, Exclusive(r)
        PROVE  PastState(r, both)
    BY <1>1, <1>6, MergePast DEF GoodEntry
  <1>7. Contained(i, both)
    BY <1>2 DEF Contained, Consistent
  <1> QED
    BY <1>2, <1>5, <1>6, <1>7 DEF GoodEntry

\* What may stand in a table still may when a writer has had a further state.
LEMMA LogGrowth ==
    ASSUME TypeOK, NEW w \in Replica, NEW new \in Metadata,
           log' = [log EXCEPT ![w] = Append(@, new)],
           NEW i, NEW entry, GoodEntry(i, entry)
    PROVE  GoodEntry(i, entry)'
  <1>1. ASSUME NEW r \in Replica
        PROVE  /\ Len(log[r]) <= Len(log'[r])
               /\ \A k \in 1 .. Len(log[r]) : log'[r][k] = log[r][k]
    <2>1. log[r] \in Seq(Metadata)
      BY DEF TypeOK
    <2>2. CASE r = w
      <3>1. log'[r] = Append(log[r], new)
        BY <2>2 DEF TypeOK
      <3> QED
        BY <2>1, <3>1
    <2>3. CASE r # w
      BY <2>1, <2>3 DEF TypeOK
    <2> QED
      BY <2>2, <2>3
  <1>2. ASSUME NEW r \in Replica, NEW k \in 1 .. Len(log[r])
        PROVE  k \in 1 .. Len(log'[r]) /\ log'[r][k] = log[r][k]
    <2>1. Len(log[r]) \in Nat /\ Len(log'[r]) \in Nat
      <3>1. log[r] \in Seq(Metadata)
        BY DEF TypeOK
      <3>2. log'[r] \in Seq(Metadata)
        BY <3>1 DEF TypeOK
      <3> QED
        BY <3>1, <3>2
    <2> QED
      BY <1>1, <2>1
  <1>3. Writers(i) \subseteq Replica
    BY DEF Writers
  <1>4. FromWriters(i, entry)'
    <2>1. PICK r \in Writers(i) : \E k \in 1 .. Len(log[r]) :
              entry.positivePayload = log[r][k].positivePayload
      BY DEF GoodEntry, FromWriters
    <2> PICK k \in 1 .. Len(log[r]) :
              entry.positivePayload = log[r][k].positivePayload
      BY <2>1
    <2>2. PICK q \in Writers(i) : \E l \in 1 .. Len(log[q]) :
              entry.negativePayload = log[q][l].negativePayload
      BY DEF GoodEntry, FromWriters
    <2> PICK l \in 1 .. Len(log[q]) :
              entry.negativePayload = log[q][l].negativePayload
      BY <2>2
    <2>3. k \in 1 .. Len(log'[r]) /\ log'[r][k] = log[r][k]
      BY <1>2, <1>3
    <2>4. l \in 1 .. Len(log'[q]) /\ log'[q][l] = log[q][l]
      BY <1>2, <1>3
    <2> QED
      BY <2>3, <2>4 DEF FromWriters, Writers
  <1>5. ASSUME NEW r \in Replica, id[r] = i, Exclusive(r)
        PROVE  PastState(r, entry)'
    <2>1. PICK k \in 1 .. Len(log[r]) : SameParts(entry, log[r][k])
      BY <1>5 DEF GoodEntry, PastState
    <2>2. k \in 1 .. Len(log'[r]) /\ log'[r][k] = log[r][k]
      BY <1>2
    <2> QED
      BY <2>1, <2>2 DEF PastState, SameParts
  <1>6. Contained(i, entry)' /\ entry \in Metadata
    BY DEF GoodEntry, Contained, Consistent, Writers
  <1> QED
    BY <1>4, <1>5, <1>6 DEF GoodEntry, Exclusive, Writers

-----------------------------------------------------------------------------
(* The steps *)

\* The constructors establish the invariant.
LEMMA InitInv == Init => IInv
  <1> SUFFICES ASSUME Init PROVE IInv
    OBVIOUS
  <1>1. ASSUME NEW r \in Replica
        PROVE  /\ metadata[r] \in InitialMetadata(r)
               /\ metadata[r] \in Metadata
               /\ log[r] = <<metadata[r]>>
    BY InitialType DEF Init
  <1>2. TypeOK
    <2>1. metadata \in [Replica -> Metadata]
      BY <1>1 DEF Init
    <2>2. DOMAIN replica_metadata = Replica
      BY DEF Init
    <2>3. ASSUME NEW s \in Replica
          PROVE  /\ DOMAIN replica_metadata[s] \subseteq Id
                 /\ replica_metadata[s] \in [DOMAIN replica_metadata[s] -> Metadata]
      BY DEF Init
    <2>4. log \in [Replica -> Seq(Metadata)]
      <3>1. \A r \in Replica : <<metadata[r]>> \in Seq(Metadata)
        BY <1>1
      <3> QED
        BY <3>1 DEF Init
    <2> QED
      BY <2>1, <2>2, <2>3, <2>4 DEF TypeOK
  <1>3. LogInv
    BY <1>1 DEF LogInv
  <1>4. WriterInv
    BY <1>1 DEF WriterInv, Init
  <1>5. EntryInv
    BY DEF EntryInv, Init
  <1> QED
    BY <1>2, <1>3, <1>4, <1>5 DEF IInv

\* A handler replaces its table by one that knows at least as much.
LEMMA GrowStep ==
    ASSUME IInv, NEW s \in Replica, NEW table,
           table \in [DOMAIN table -> Metadata], DOMAIN table \subseteq Id,
           \A j \in DOMAIN table : GoodEntry(j, table[j]),
           Grows(replica_metadata[s], table),
           Refresh(s, table), UNCHANGED <<metadata, log>>
    PROVE  /\ IInv'
           /\ \A t \in Replica : Grows(replica_metadata[t], replica_metadata'[t])
  <1>1. /\ DOMAIN replica_metadata' = Replica
        /\ replica_metadata'[s] = table
        /\ \A t \in Replica \ {s} : replica_metadata'[t] = replica_metadata[t]
    BY DEF IInv, TypeOK, Refresh
  <1>2. TypeOK'
    BY <1>1 DEF IInv, TypeOK
  <1>3. LogInv'
    BY DEF IInv, LogInv, InitialMetadata, NewMetadata, Consistent, Earlier, AtMost, SameParts
  <1>4. ASSUME NEW r \in Replica, r \in HandlerWriter, id[r] \in DOMAIN replica_metadata'[r]
        PROVE  AtMost(log[r][Len(log[r])], replica_metadata'[r][id[r]])
    <2> DEFINE last == log[r][Len(log[r])]
    <2>1. last \in Metadata
      <3>1. log[r] \in Seq(Metadata) /\ Len(log[r]) >= 1
        BY DEF IInv, TypeOK, LogInv
      <3> QED
        BY <3>1
    <2>2. CASE r # s
      BY <1>1, <1>4, <2>2 DEF IInv, WriterInv
    <2>3. CASE r = s /\ id[r] \in DOMAIN replica_metadata[r]
      <3>1. AtMost(last, replica_metadata[r][id[r]])
        BY <1>4, <2>3 DEF IInv, WriterInv
      <3>2. AtMost(replica_metadata[r][id[r]], table[id[r]])
        BY <2>3 DEF Grows
      <3>3. replica_metadata[r][id[r]] \in Metadata /\ table[id[r]] \in Metadata
        BY <2>3, <1>1, <1>4 DEF IInv, TypeOK
      <3> QED
        BY <1>1, <2>1, <2>3, <3>1, <3>2, <3>3, AtMostTransitive
    <2>4. CASE r = s /\ id[r] \notin DOMAIN replica_metadata[r]
      <3>1. last \in InitialMetadata(r)
        BY <1>4, <2>4 DEF IInv, WriterInv, LogInv
      <3>2. last.positivePayload = 0 /\ last.negativePayload = 0
        BY <3>1, InitialType
      <3>3. table[id[r]] \in Metadata
        BY <1>1, <1>4, <2>4
      <3>4. table[id[r]].positivePayload >= 0 /\ table[id[r]].negativePayload >= 0
        BY <3>3, WidthAssumption DEF Metadata, T
      <3>5. AtMost(last, table[id[r]])
        BY <3>2, <3>4 DEF AtMost
      <3> QED
        BY <1>1, <2>4, <3>5
    <2> QED
      BY <2>2, <2>3, <2>4
  <1>5. ASSUME NEW r \in Replica, r \in HandlerWriter, id[r] \notin DOMAIN replica_metadata'[r]
        PROVE  Len(log[r]) = 1
    <2>1. id[r] \notin DOMAIN replica_metadata[r]
      BY <1>1, <1>5 DEF Grows
    <2> QED
      BY <1>5, <2>1 DEF IInv, WriterInv
  <1>6. WriterInv'
    BY <1>4, <1>5 DEF IInv, WriterInv, AtMost
  <1>8. EntryInv'
    <2> SUFFICES ASSUME NEW t \in Replica, NEW j \in DOMAIN replica_metadata'[t]
                 PROVE  GoodEntry(j, replica_metadata[t][j])'
      BY DEF EntryInv
    <2>1. GoodEntry(j, replica_metadata'[t][j])
      BY <1>1 DEF IInv, EntryInv
    <2> QED
      BY <2>1 DEF GoodEntry, FromWriters, PastState, Contained, SameParts, Exclusive,
                  Writers, Consistent, InitialMetadata, NewMetadata
  <1>9. \A t \in Replica : Grows(replica_metadata[t], replica_metadata'[t])
    <2> SUFFICES ASSUME NEW t \in Replica, NEW j \in DOMAIN replica_metadata[t]
                 PROVE  /\ j \in DOMAIN replica_metadata'[t]
                        /\ AtMost(replica_metadata[t][j], replica_metadata'[t][j])
      BY DEF Grows
    <2>1. replica_metadata[t][j] \in Metadata
      BY DEF IInv, TypeOK
    <2> QED
      BY <1>1, <2>1 DEF Grows, AtMost, Metadata, T
  <1> QED
    BY <1>2, <1>3, <1>6, <1>8, <1>9 DEF IInv

\* An entry that is merged into a table may stand there and lies above what
\* the table had.
LEMMA MergedEntry ==
    ASSUME IInv, NEW s \in Replica, NEW i, NEW md, GoodEntry(i, md)
    PROVE  /\ GoodEntry(i, Merged(replica_metadata[s], i, md)[i])
           /\ i \in DOMAIN replica_metadata[s] =>
                 AtMost(replica_metadata[s][i], Merged(replica_metadata[s], i, md)[i])
  <1>1. CASE i \in DOMAIN replica_metadata[s]
    <2> DEFINE known == replica_metadata[s][i]
    <2>1. Merged(replica_metadata[s], i, md)[i] = FixConflict(known, md)
      BY <1>1 DEF Merged
    <2>2. GoodEntry(i, known)
      BY <1>1 DEF IInv, EntryInv
    <2>3. GoodEntry(i, FixConflict(known, md))
      BY <2>2, MergeGood DEF IInv
    <2>4. known \in Metadata /\ md \in Metadata
      BY <2>2 DEF GoodEntry
    <2>5. /\ known.positivePayload \in Int /\ known.negativePayload \in Int
          /\ md.positivePayload \in Int /\ md.negativePayload \in Int
      BY <2>4, WidthAssumption DEF Metadata, T
    <2>6. AtMost(known, FixConflict(known, md))
      BY <2>4, <2>5, FixConflictType DEF AtMost, Larger
    <2> QED
      BY <2>1, <2>3, <2>6
  <1>2. CASE i \notin DOMAIN replica_metadata[s]
    BY <1>2 DEF Merged
  <1> QED
    BY <1>1, <1>2

\* Both ways to merge give a table that GrowStep can take.
LEMMA AddExternalReplicaStep ==
    ASSUME IInv, NEW s \in Replica, NEW r \in Replica, NEW k \in 1 .. Len(log[r]),
           AddExternalReplica(s, r, k)
    PROVE  /\ IInv'
           /\ \A t \in Replica : Grows(replica_metadata[t], replica_metadata'[t])
  <1> DEFINE old == replica_metadata[s]
             i == id[r]
             md == log[r][k]
             table == Merged(old, i, md)
  <1>1. GoodEntry(i, md)
    BY SnapshotGood DEF IInv
  <1>2. /\ DOMAIN table = DOMAIN old \cup {i}
        /\ \A j \in DOMAIN old \ {i} : table[j] = old[j]
    BY DEF Merged
  <1>3. /\ GoodEntry(i, table[i])
        /\ i \in DOMAIN old => AtMost(old[i], table[i])
    BY <1>1, MergedEntry
  <1>4. /\ i \in Id /\ DOMAIN old \subseteq Id
        /\ \A j \in DOMAIN old : old[j] \in Metadata /\ GoodEntry(j, old[j])
    BY ReplicaAssumption DEF IInv, TypeOK, EntryInv
  <1>5. table = [j \in DOMAIN table |-> table[j]]
    BY DEF Merged
  <1> HIDE DEF table
  <1>6. \A j \in DOMAIN table : GoodEntry(j, table[j])
    BY <1>2, <1>3, <1>4
  <1>7. table \in [DOMAIN table -> Metadata] /\ DOMAIN table \subseteq Id
    BY <1>2, <1>4, <1>5, <1>6 DEF GoodEntry
  <1>8. Grows(old, table)
    <2>1. ASSUME NEW m \in Metadata PROVE AtMost(m, m)
      BY WidthAssumption DEF AtMost, Metadata, T
    <2> QED
      BY <1>2, <1>3, <1>4, <2>1 DEF Grows
  <1>9. Refresh(s, table) /\ UNCHANGED <<metadata, log>>
    BY DEF AddExternalReplica, table
  <1> QED
    BY <1>6, <1>7, <1>8, <1>9, GrowStep

\* Likewise for the merge of a whole handler.
LEMMA UpdateLocalExternalPayloadStep ==
    ASSUME IInv, NEW s \in Replica, NEW u \in Replica, UpdateLocalExternalPayload(s, u)
    PROVE  /\ IInv'
           /\ \A t \in Replica : Grows(replica_metadata[t], replica_metadata'[t])
  <1> DEFINE old == replica_metadata[s]
             other == replica_metadata[u]
             table == MergedTables(old, other)
  <1>1. /\ DOMAIN table = DOMAIN old \cup DOMAIN other
        /\ \A j \in DOMAIN old \ DOMAIN other : table[j] = old[j]
        /\ \A j \in DOMAIN other : table[j] = Merged(old, j, other[j])[j]
    BY DEF MergedTables
  <1>9. table = [j \in DOMAIN table |-> table[j]]
    BY DEF MergedTables
  <1>2. \A j \in DOMAIN other : GoodEntry(j, other[j])
    BY DEF IInv, EntryInv
  <1>3. \A j \in DOMAIN other :
            /\ GoodEntry(j, table[j])
            /\ j \in DOMAIN old => AtMost(old[j], table[j])
    BY <1>1, <1>2, MergedEntry
  <1>4. /\ DOMAIN old \subseteq Id /\ DOMAIN other \subseteq Id
        /\ \A j \in DOMAIN old : old[j] \in Metadata /\ GoodEntry(j, old[j])
    BY DEF IInv, TypeOK, EntryInv
  <1> HIDE DEF table
  <1>5. ASSUME NEW j \in DOMAIN table
        PROVE  /\ GoodEntry(j, table[j])
               /\ j \in DOMAIN old => AtMost(old[j], table[j])
    <2>1. CASE j \in DOMAIN other
      BY <2>1, <1>3
    <2>2. CASE j \in DOMAIN old \ DOMAIN other
      <3>1. table[j] = old[j] /\ old[j] \in Metadata /\ GoodEntry(j, old[j])
        BY <2>2, <1>1, <1>4
      <3>2. AtMost(old[j], old[j])
        BY <3>1, WidthAssumption DEF AtMost, Metadata, T
      <3> QED
        BY <3>1, <3>2
    <2> QED
      BY <2>1, <2>2, <1>1
  <1>6. table \in [DOMAIN table -> Metadata] /\ DOMAIN table \subseteq Id
    BY <1>1, <1>4, <1>5, <1>9 DEF GoodEntry
  <1>7. Grows(old, table)
    BY <1>1, <1>5 DEF Grows
  <1>8. Refresh(s, table) /\ UNCHANGED <<metadata, log>>
    BY DEF UpdateLocalExternalPayload, table
  <1> QED
    BY <1>5, <1>6, <1>7, <1>8, GrowStep

\* A writer has had one more state, later than all it has had before.
LEMMA LogChain ==
    ASSUME IInv, NEW w \in Replica, NEW old \in Metadata, NEW new \in Metadata,
           AtMost(log[w][Len(log[w])], old), Earlier(old, new), Consistent(new),
           log' = [log EXCEPT ![w] = Append(@, new)]
    PROVE  /\ log' \in [Replica -> Seq(Metadata)]
           /\ LogInv'
           /\ log'[w][Len(log'[w])] = new
           /\ \A r \in Replica \ {w} : log'[r] = log[r]
  <1> DEFINE n == Len(log[w])
  <1>1. /\ \A r \in Replica : log[r] \in Seq(Metadata)
        /\ \A r \in Replica \ {w} : log'[r] = log[r]
        /\ log'[w] = Append(log[w], new)
        /\ log' \in [Replica -> Seq(Metadata)]
    BY DEF IInv, TypeOK
  <1>2. /\ n \in Nat /\ n >= 1
        /\ Len(log'[w]) = n + 1
        /\ log'[w][n + 1] = new
        /\ \A k \in 1 .. n : log'[w][k] = log[w][k] /\ log[w][k] \in Metadata
    BY <1>1 DEF IInv, LogInv
  <1>3. ASSUME NEW k \in 1 .. n
        PROVE  Earlier(log[w][k], new)
    <2> DEFINE last == log[w][n]
    <2>1. last \in Metadata /\ log[w][k] \in Metadata
      BY <1>2
    <2>2. AtMost(log[w][k], last)
      <3>1. CASE k = n
        BY <3>1, <2>1, WidthAssumption DEF AtMost, Metadata, T
      <3>2. CASE k < n
        BY <1>2, <3>2 DEF IInv, LogInv, Earlier
      <3> QED
        BY <1>2, <3>1, <3>2
    <2>3. AtMost(log[w][k], old) /\ AtMost(old, new)
      BY <2>1, <2>2, AtMostTransitive DEF Earlier
    <2>4. /\ old.positivePayload \in Int /\ old.negativePayload \in Int
          /\ new.positivePayload \in Int /\ new.negativePayload \in Int
          /\ log[w][k].positivePayload \in Int /\ log[w][k].negativePayload \in Int
      BY <2>1, PartsType
    <2> QED
      BY <2>3, <2>4 DEF Earlier, AtMost, SameParts
  <1>4. ASSUME NEW r \in Replica
        PROVE  /\ Len(log'[r]) >= 1
               /\ log'[r][1] \in InitialMetadata(r)
               /\ \A k \in 2 .. Len(log'[r]) : Consistent(log'[r][k])
               /\ \A k, l \in 1 .. Len(log'[r]) : k < l => Earlier(log'[r][k], log'[r][l])
    <2>1. CASE r # w
      BY <1>1, <2>1 DEF IInv, LogInv
    <2>2. CASE r = w
      <3>1. Len(log'[w]) >= 1 /\ log'[w][1] \in InitialMetadata(w)
        BY <1>2 DEF IInv, LogInv
      <3>2. ASSUME NEW k \in 2 .. n + 1 PROVE Consistent(log'[w][k])
        BY <1>2, <3>2 DEF IInv, LogInv
      <3>3. ASSUME NEW k \in 1 .. n + 1, NEW l \in 1 .. n + 1, k < l
            PROVE  Earlier(log'[w][k], log'[w][l])
        <4>1. k \in 1 .. n
          BY <1>2, <3>3
        <4>2. CASE l = n + 1
          BY <1>2, <1>3, <4>1, <4>2
        <4>3. CASE l \in 1 .. n
          BY <1>2, <3>3, <4>1, <4>3 DEF IInv, LogInv
        <4> QED
          BY <1>2, <4>2, <4>3
      <3> QED
        BY <1>2, <2>2, <3>1, <3>2, <3>3
    <2> QED
      BY <2>1, <2>2
  <1>5. LogInv'
    BY <1>4 DEF LogInv, InitialMetadata, NewMetadata, Consistent, Earlier, AtMost, SameParts
  <1> QED
    BY <1>1, <1>2, <1>5

\* Counting raises one part by a positive amount.
LEMMA Counted ==
    ASSUME NEW old \in Metadata, NEW n \in Amount, NEW new,
           \/ old.positivePayload + n < Modulus /\ new = IncreasePayload(old, n)
           \/ old.negativePayload + n < Modulus /\ new = DecreasePayload(old, n)
    PROVE  new \in Metadata /\ Earlier(old, new) /\ Consistent(new)
  <1>1. n \in Nat /\ n > 0 /\ old.positivePayload \in Nat /\ old.negativePayload \in Nat
    BY AmountAssumption, PartsType
  <1>2. CASE old.positivePayload + n < Modulus /\ new = IncreasePayload(old, n)
    <2>1. /\ new \in Metadata
          /\ new.positivePayload = old.positivePayload + n
          /\ new.negativePayload = old.negativePayload
          /\ new.totalPayload = Wrap(new.positivePayload - new.negativePayload)
      BY <1>1, <1>2, IncreaseType
    <2> QED
      BY <1>1, <2>1 DEF Earlier, AtMost, SameParts, Consistent
  <1>3. CASE old.negativePayload + n < Modulus /\ new = DecreasePayload(old, n)
    <2>1. /\ new \in Metadata
          /\ new.positivePayload = old.positivePayload
          /\ new.negativePayload = old.negativePayload + n
          /\ new.totalPayload = Wrap(new.positivePayload - new.negativePayload)
      BY <1>1, <1>3, DecreaseType
    <2> QED
      BY <1>1, <2>1 DEF Earlier, AtMost, SameParts, Consistent
  <1> QED
    BY <1>2, <1>3

\* SnapshotGood for all snapshots at once, and for those after a step.
SnapshotInv ==
    \A r \in Replica : \A k \in 1 .. Len(log[r]) : GoodEntry(id[r], log[r][k])

\* Every state a writer has had may stand under its id,
LEMMA SnapshotsGood == TypeOK /\ LogInv => SnapshotInv
  BY SnapshotGood DEF SnapshotInv

\* before and after a step.
LEMMA SnapshotsGoodNext == TypeOK' /\ LogInv' => SnapshotInv'
  BY SnapshotsGood, PTL

\* Counting on a metadata object keeps the invariant; no table changes.
LEMMA UpdateMetadataStep ==
    ASSUME IInv, NEW w \in Replica, NEW n \in Amount, UpdateMetadata(w, n)
    PROVE  IInv' /\ \A t \in Replica : Grows(replica_metadata[t], replica_metadata'[t])
  <1> DEFINE old == metadata[w]
             new == metadata'[w]
  <1>1. old \in Metadata /\ AtMost(log[w][Len(log[w])], old)
    <2>1. metadata[w] \in Metadata
      BY DEF IInv, TypeOK
    <2>2. old = log[w][Len(log[w])]
      BY DEF IInv, WriterInv, UpdateMetadata
    <2> QED
      BY <2>1, <2>2, PartsType DEF AtMost
  <1>2. /\ \/ old.positivePayload + n < Modulus /\ new = IncreasePayload(old, n)
           \/ old.negativePayload + n < Modulus /\ new = DecreasePayload(old, n)
        /\ \A r \in Replica \ {w} : metadata'[r] = metadata[r]
        /\ metadata' = [metadata EXCEPT ![w] = new]
    BY DEF IInv, TypeOK, UpdateMetadata
  <1>3. new \in Metadata /\ Earlier(old, new) /\ Consistent(new)
    BY <1>1, <1>2, Counted
  <1>4. log' = [log EXCEPT ![w] = Append(@, new)]
    BY DEF UpdateMetadata
  <1>5. /\ log' \in [Replica -> Seq(Metadata)]
        /\ LogInv'
        /\ log'[w][Len(log'[w])] = new
        /\ \A r \in Replica \ {w} : log'[r] = log[r]
    BY <1>1, <1>3, <1>4, LogChain
  <1>6. w \notin HandlerWriter /\ replica_metadata' = replica_metadata
    BY DEF UpdateMetadata
  <1>7. TypeOK'
    <2>1. metadata' \in [Replica -> Metadata]
      BY <1>2, <1>3 DEF IInv, TypeOK
    <2> QED
      BY <2>1, <1>5, <1>6 DEF IInv, TypeOK
  <1>8. WriterInv'
    <2>1. \A r \in Replica : r \notin HandlerWriter => metadata'[r] = log'[r][Len(log'[r])]
      BY <1>2, <1>5 DEF IInv, WriterInv
    <2>2. \A r \in HandlerWriter \cap Replica : log'[r] = log[r]
      BY <1>5, <1>6
    <2> QED
      BY <2>1, <2>2, <1>6 DEF IInv, WriterInv, AtMost
  <1>9. EntryInv'
    <2> SUFFICES ASSUME NEW t \in Replica, NEW j \in DOMAIN replica_metadata[t]
                 PROVE  GoodEntry(j, replica_metadata[t][j])'
      BY <1>6 DEF EntryInv
    <2> PICK entry : entry = replica_metadata[t][j]
      OBVIOUS
    <2>1. GoodEntry(j, entry)
      BY DEF IInv, EntryInv
    <2>2. GoodEntry(j, entry)'
      BY <1>3, <1>4, <2>1, LogGrowth DEF IInv
    <2>3. replica_metadata'[t][j] = entry
      BY <1>6
    <2> QED
      BY <2>2, <2>3 DEF GoodEntry, FromWriters, PastState, Contained, SameParts,
                        Exclusive, Writers, Consistent, InitialMetadata, NewMetadata
  <1>10. \A t \in Replica : Grows(replica_metadata[t], replica_metadata'[t])
    <2> SUFFICES ASSUME NEW t \in Replica, NEW j \in DOMAIN replica_metadata[t]
                 PROVE  AtMost(replica_metadata[t][j], replica_metadata[t][j])
      BY <1>6 DEF Grows
    <2>1. replica_metadata[t][j] \in Metadata
      BY DEF IInv, TypeOK
    <2> QED
      BY <2>1, PartsType DEF AtMost
  <1> QED
    BY <1>5, <1>7, <1>8, <1>9, <1>10 DEF IInv

\* Counting on a handler entry keeps the invariant; that entry only grows.
LEMMA UpdateHandlerStep ==
    ASSUME IInv, NEW w \in Replica, NEW n \in Amount, UpdateHandler(w, n)
    PROVE  IInv' /\ \A t \in Replica : Grows(replica_metadata[t], replica_metadata'[t])
  <1> DEFINE i == id[w]
             old == replica_metadata[w][i]
             new == replica_metadata'[w][i]
  <1>1. /\ w \in HandlerWriter
        /\ i \in DOMAIN replica_metadata[w]
        /\ old \in Metadata
        /\ AtMost(log[w][Len(log[w])], old)
    BY DEF IInv, TypeOK, WriterInv, UpdateHandler
  <1>2. /\ DOMAIN replica_metadata' = Replica
        /\ DOMAIN replica_metadata'[w] = DOMAIN replica_metadata[w]
        /\ \A t \in Replica \ {w} : replica_metadata'[t] = replica_metadata[t]
        /\ \A j \in DOMAIN replica_metadata[w] \ {i} :
              replica_metadata'[w][j] = replica_metadata[w][j]
    BY DEF IInv, TypeOK, UpdateHandler
  <1>3. \/ old.positivePayload + n < Modulus /\ new = IncreasePayload(old, n)
        \/ old.negativePayload + n < Modulus /\ new = DecreasePayload(old, n)
    BY <1>1 DEF IInv, TypeOK, UpdateHandler
  <1>4. new \in Metadata /\ Earlier(old, new) /\ Consistent(new)
    BY <1>1, <1>3, Counted
  <1>5. log' = [log EXCEPT ![w] = Append(@, new)] /\ metadata' = metadata
    BY DEF UpdateHandler
  <1>6. /\ log' \in [Replica -> Seq(Metadata)]
        /\ LogInv'
        /\ log'[w][Len(log'[w])] = new
        /\ \A r \in Replica \ {w} : log'[r] = log[r]
    BY <1>1, <1>4, <1>5, LogChain
  <1>7. TypeOK'
    <2>1. ASSUME NEW t \in Replica
          PROVE  /\ DOMAIN replica_metadata'[t] \subseteq Id
                 /\ replica_metadata'[t] \in [DOMAIN replica_metadata'[t] -> Metadata]
      <3>1. CASE t # w
        BY <3>1, <1>2 DEF IInv, TypeOK
      <3>2. CASE t = w
        <4>1. replica_metadata'[w] = [replica_metadata[w] EXCEPT ![i] = new]
          BY <1>1 DEF IInv, TypeOK, UpdateHandler
        <4> QED
          BY <3>2, <4>1, <1>1, <1>4 DEF IInv, TypeOK
      <3> QED
        BY <3>1, <3>2
    <2> QED
      BY <2>1, <1>2, <1>5, <1>6 DEF IInv, TypeOK
  <1>8. WriterInv'
    <2>1. \A r \in Replica : r \notin HandlerWriter => metadata'[r] = log'[r][Len(log'[r])]
      BY <1>1, <1>5, <1>6 DEF IInv, WriterInv
    <2>2. AtMost(log'[w][Len(log'[w])], replica_metadata'[w][id[w]])
      BY <1>4, <1>6, PartsType DEF AtMost
    <2>3. /\ \A r \in Replica \ {w} : log'[r] = log[r]
          /\ \A r \in Replica \ {w} : replica_metadata'[r] = replica_metadata[r]
      BY <1>2, <1>6
    <2> QED
      BY <2>1, <2>2, <2>3, <1>1, <1>2 DEF IInv, WriterInv, AtMost
  <1>9. EntryInv'
    <2> SUFFICES ASSUME NEW t \in Replica, NEW j \in DOMAIN replica_metadata'[t]
                 PROVE  GoodEntry(j, replica_metadata[t][j])'
      BY DEF EntryInv
    <2> PICK entry : entry = replica_metadata'[t][j]
      OBVIOUS
    <2>1. GoodEntry(j, entry)'
      <3>1. CASE t = w /\ j = i
        <4>1. SnapshotInv'
          BY <1>6, <1>7, SnapshotsGoodNext
        <4>2. Len(log'[w]) \in 1 .. Len(log'[w])
          BY <1>6 DEF LogInv
        <4>3. log'[w][Len(log'[w])] = entry
          BY <1>6, <3>1
        <4>4. PICK k \in 1 .. Len(log'[w]) : log'[w][k] = entry
          BY <4>2, <4>3
        <4>5. GoodEntry(id[w], log[w][k])'
          BY <4>1 DEF SnapshotInv
        <4> QED
          BY <4>4, <4>5, <3>1
              DEF GoodEntry, FromWriters, PastState, Contained, SameParts,
                  Exclusive, Writers, Consistent, InitialMetadata, NewMetadata
      <3>2. CASE ~(t = w /\ j = i)
        <4>1. entry = replica_metadata[t][j] /\ j \in DOMAIN replica_metadata[t]
          BY <1>2, <3>2
        <4>2. GoodEntry(j, entry)
          BY <4>1 DEF IInv, EntryInv
        <4> QED
          BY <1>4, <1>5, <4>2, LogGrowth DEF IInv
      <3> QED
        BY <3>1, <3>2
    <2> QED
      BY <2>1 DEF GoodEntry, FromWriters, PastState, Contained, SameParts,
                  Exclusive, Writers, Consistent, InitialMetadata, NewMetadata
  <1>10. \A t \in Replica : Grows(replica_metadata[t], replica_metadata'[t])
    <2> SUFFICES ASSUME NEW t \in Replica, NEW j \in DOMAIN replica_metadata[t]
                 PROVE  /\ j \in DOMAIN replica_metadata'[t]
                        /\ AtMost(replica_metadata[t][j], replica_metadata'[t][j])
      BY DEF Grows
    <2>1. j \in DOMAIN replica_metadata'[t] /\ replica_metadata[t][j] \in Metadata
      BY <1>2 DEF IInv, TypeOK
    <2>2. CASE t = w /\ j = i
      BY <2>1, <2>2, <1>4 DEF Earlier, AtMost
    <2>3. CASE ~(t = w /\ j = i)
      <3>1. replica_metadata'[t][j] = replica_metadata[t][j]
        BY <1>2, <2>3
      <3> QED
        BY <3>1, <2>1, PartsType DEF AtMost
    <2> QED
      BY <2>1, <2>2, <2>3
  <1> QED
    BY <1>6, <1>7, <1>8, <1>9, <1>10 DEF IInv

\* Every step keeps the invariant and lets the tables only grow.
LEMMA NextStep ==
    IInv /\ [Next]_vars =>
        /\ IInv'
        /\ \A s \in Replica : Grows(replica_metadata[s], replica_metadata'[s])
  <1> SUFFICES ASSUME IInv, [Next]_vars
               PROVE  /\ IInv'
                      /\ \A s \in Replica : Grows(replica_metadata[s], replica_metadata'[s])
    OBVIOUS
  <1>1. CASE \E r \in Replica, n \in Amount : UpdateMetadata(r, n)
    BY <1>1, UpdateMetadataStep
  <1>2. CASE \E r \in Replica, n \in Amount : UpdateHandler(r, n)
    BY <1>2, UpdateHandlerStep
  <1>3. CASE \E s, r \in Replica : \E k \in 1 .. Len(log[r]) : AddExternalReplica(s, r, k)
    BY <1>3, AddExternalReplicaStep
  <1>4. CASE \E s, t \in Replica : UpdateLocalExternalPayload(s, t)
    BY <1>4, UpdateLocalExternalPayloadStep
  <1>5. CASE UNCHANGED vars
    <2>1. IInv'
      <3>1. TypeOK'
        BY <1>5 DEF vars, IInv, TypeOK
      <3>2. LogInv'
        BY <1>5 DEF vars, IInv, LogInv, InitialMetadata, NewMetadata, Consistent,
                    Earlier, AtMost, SameParts
      <3>3. WriterInv'
        BY <1>5 DEF vars, IInv, WriterInv, AtMost
      <3>4. ASSUME NEW s \in Replica, NEW j \in DOMAIN replica_metadata'[s]
            PROVE  GoodEntry(j, replica_metadata[s][j])'
        <4>1. GoodEntry(j, replica_metadata[s][j])
          BY <1>5 DEF vars, IInv, EntryInv
        <4> QED
          BY <1>5, <4>1 DEF vars, GoodEntry, FromWriters, PastState, Contained, SameParts,
                  Exclusive, Writers, Consistent, InitialMetadata, NewMetadata
      <3> QED
        BY <3>1, <3>2, <3>3, <3>4 DEF IInv, EntryInv
    <2>2. ASSUME NEW s \in Replica, NEW j \in DOMAIN replica_metadata[s]
          PROVE  AtMost(replica_metadata[s][j], replica_metadata[s][j])
      <3>1. replica_metadata[s][j] \in Metadata
        BY DEF IInv, TypeOK
      <3> QED
        BY <3>1, PartsType DEF AtMost
    <2> QED
      BY <1>5, <2>1, <2>2 DEF vars, Grows
  <1> QED
    BY <1>1, <1>2, <1>3, <1>4, <1>5 DEF Next

\* IInv is an inductive invariant of the counters.
THEOREM Inductive == Spec => []IInv
  <1>1. Init => IInv
    BY InitInv
  <1>2. IInv /\ [Next]_vars => IInv'
    BY NextStep
  <1> QED
    BY <1>1, <1>2, PTL DEF Spec

-----------------------------------------------------------------------------
(* The theorems *)

\* The tables map ids to metadata, and the parts stay within the payload type.
THEOREM TypeCorrect == Spec => []TypeOK
  <1>1. IInv => TypeOK
    BY DEF IInv
  <1> QED
    BY <1>1, Inductive, PTL

\* Whatever is lost, repeated and reordered, and however many replicas share an
\* id, no handler shows a part that no writer of the id has had.
THEOREM EntriesFromWriters == Spec => []EntryFromWriters
  <1>1. IInv => EntryFromWriters
    BY DEF IInv, EntryInv, GoodEntry, EntryFromWriters
  <1> QED
    BY <1>1, Inductive, PTL

\* With an id of its own, a writer is seen by every handler in a state it has
\* been in: the two parts belong together.
THEOREM EntriesArePastStates == Spec => []EntryIsPastState
  <1>1. IInv => EntryIsPastState
    <2> SUFFICES ASSUME IInv, NEW s \in Replica, NEW r \in Replica,
                        Exclusive(r), id[r] \in DOMAIN replica_metadata[s]
                 PROVE  PastState(r, replica_metadata[s][id[r]])
      BY DEF EntryIsPastState
    <2>1. GoodEntry(id[r], replica_metadata[s][id[r]])
      BY DEF IInv, EntryInv
    <2> QED
      BY <2>1 DEF GoodEntry
  <1> QED
    BY <1>1, Inductive, PTL

\* An uninitialised total stays with the metadata it was constructed in.
THEOREM GarbageContained == Spec => []GarbageIsContained
  <1>1. IInv => GarbageIsContained
    BY DEF IInv, EntryInv, GoodEntry, GarbageIsContained
  <1> QED
    BY <1>1, Inductive, PTL

\* No call on any handler makes a handler forget an id or lower a part.
THEOREM TablesGrow == Spec => TablesOnlyGrow
  <1>1. IInv /\ [Next]_vars =>
            [\A s \in Replica : Grows(replica_metadata[s], replica_metadata'[s])]_vars
    BY NextStep
  <1> QED
    BY <1>1, Inductive, PTL DEF Spec, TablesOnlyGrow

-----------------------------------------------------------------------------
(* The cached sums *)

\* What the sum of no totals is computed as.
First(s) == CHOOSE x \in s : TRUE

IsEmptySum(fun, iter) ==
    iter = [s \in SUBSET {} |-> IF s = {} THEN 0 ELSE fun[First(s)] + iter[s \ {First(s)}]]

\* A handler without entries has the sum zero.
LEMMA NoEntries == ASSUME NEW table, DOMAIN table = {} PROVE InternalPayload(table) = 0
  <1>1. PICK fun : fun = [j \in DOMAIN table |-> table[j].totalPayload]
    OBVIOUS
  <1>2. SumFunctionOnSet(fun, {}) = (CHOOSE iter : IsEmptySum(fun, iter))[{}]
    BY DEF SumFunctionOnSet, FoldFunctionOnSet, MapThenFoldSet, IsEmptySum, First
  <1>3. DOMAIN fun = {}
    BY <1>1
  <1>4. IsEmptySum(fun, [s \in SUBSET {} |-> 0])
    BY DEF IsEmptySum
  <1>5. IsEmptySum(fun, CHOOSE iter : IsEmptySum(fun, iter))
    BY <1>4
  <1>6. SumFunctionOnSet(fun, {}) = 0
    <2>1. PICK iter : iter = CHOOSE it : IsEmptySum(fun, it)
      OBVIOUS
    <2>2. iter[{}] = 0
      BY <1>5, <2>1 DEF IsEmptySum
    <2> QED BY <1>2, <2>1, <2>2
  <1> QED BY <1>1, <1>3, <1>6, WidthAssumption DEF InternalPayload, SumFunction, Wrap

\* An entry whose writer has its id for itself has a total that was computed, or is the one
\* the writer began with.
OwnTotalInv ==
    \A s, r \in Replica :
        Exclusive(r) /\ id[r] \in DOMAIN replica_metadata[s] =>
            Consistent(replica_metadata[s][id[r]]) \/ replica_metadata[s][id[r]] = log[r][1]

\* So do the states the writer has had.
LEMMA OwnSnapshots ==
    ASSUME IInv, NEW r \in Replica, NEW k \in 1 .. Len(log[r])
    PROVE  Consistent(log[r][k]) \/ log[r][k] = log[r][1]
  <1>1. CASE k = 1
    BY <1>1
  <1>2. CASE k # 1
    BY <1>2 DEF IInv, LogInv, TypeOK
  <1> QED BY <1>1, <1>2

\* A log keeps what it has.
LEMMA LogKeeps ==
    ASSUME IInv, [Next]_vars, NEW r \in Replica
    PROVE  /\ Len(log[r]) \in Nat /\ Len(log'[r]) \in Nat /\ 1 <= Len(log[r])
           /\ \A k \in 1 .. Len(log[r]) : log'[r][k] = log[r][k]
           /\ log'[r] = log[r] \/ Len(log'[r]) = Len(log[r]) + 1
  <1>1. log[r] \in Seq(Metadata) /\ 1 <= Len(log[r])
    BY DEF IInv, TypeOK, LogInv
  <1>2. log' = log \/ \E w \in Replica : \E new : log' = [log EXCEPT ![w] = Append(@, new)]
    BY DEF Next, vars, UpdateMetadata, UpdateHandler, AddExternalReplica, UpdateLocalExternalPayload
  <1>3. log'[r] = log[r] \/ \E new : log'[r] = Append(log[r], new)
    BY <1>2 DEF IInv, TypeOK
  <1>4. CASE log'[r] = log[r]
    BY <1>1, <1>4
  <1>5. CASE \E new : log'[r] = Append(log[r], new)
    <2>1. PICK new : log'[r] = Append(log[r], new)
      BY <1>5
    <2> QED BY <1>1, <2>1
  <1> QED BY <1>3, <1>4, <1>5

\* What is merged into a table keeps that.
LEMMA OwnTotalMerged ==
    ASSUME IInv, NEW s \in Replica, NEW i, NEW md \in Metadata, NEW first,
           i \in DOMAIN replica_metadata[s] => replica_metadata[s][i] \in Metadata,
           Consistent(md) \/ md = first
    PROVE  LET entry == Merged(replica_metadata[s], i, md)[i]
           IN  Consistent(entry) \/ entry = first
  <1>1. CASE i \in DOMAIN replica_metadata[s]
    <2>1. PICK known \in Metadata : known = replica_metadata[s][i]
      BY <1>1
    <2>2. Consistent(FixConflict(known, md))
      BY FixConflictGrows
    <2>3. Merged(replica_metadata[s], i, md)[i] = FixConflict(known, md)
      BY <1>1, <2>1 DEF Merged
    <2> QED BY <2>2, <2>3
  <1>2. CASE i \notin DOMAIN replica_metadata[s]
    <2>1. Merged(replica_metadata[s], i, md)[i] = md
      BY <1>2 DEF Merged
    <2> QED BY <2>1
  <1> QED BY <1>1, <1>2

\* So every step keeps it.
LEMMA OwnTotalStep ==
    ASSUME IInv, OwnTotalInv, [Next]_vars
    PROVE  OwnTotalInv'
  <1> SUFFICES ASSUME NEW s \in Replica, NEW r \in Replica, Exclusive(r),
                      id[r] \in DOMAIN replica_metadata'[s]
               PROVE  \/ Consistent(replica_metadata'[s][id[r]])
                      \/ replica_metadata'[s][id[r]] = log'[r][1]
    BY DEF OwnTotalInv, Exclusive, Writers, Consistent
  <1>1. PICK i \in Id : i = id[r]
    BY ReplicaAssumption
  <1>2. log'[r][1] = log[r][1]
    BY LogKeeps
  <1>3. \A t \in Replica : \A j \in DOMAIN replica_metadata[t] : replica_metadata[t][j] \in Metadata
    BY DEF IInv, TypeOK
  <1>4. CASE i \in DOMAIN replica_metadata[s] /\ replica_metadata'[s][i] = replica_metadata[s][i]
    BY <1>1, <1>2, <1>4 DEF OwnTotalInv
  <1>5. CASE UNCHANGED vars \/ \E w \in Replica, n \in Amount : UpdateMetadata(w, n)
    BY <1>1, <1>4, <1>5 DEF vars, UpdateMetadata
  <1>6. CASE \E w \in Replica, n \in Amount : UpdateHandler(w, n)
    <2>1. PICK w \in Replica, n \in Amount : UpdateHandler(w, n)
      BY <1>6
    <2>2. PICK old \in Metadata : old = replica_metadata[w][id[w]] /\ id[w] \in DOMAIN replica_metadata[w]
      BY <1>3, <2>1 DEF UpdateHandler
    <2>3. PICK new : /\ replica_metadata' = [replica_metadata EXCEPT ![w][id[w]] = new]
                     /\ \/ old.positivePayload + n < Modulus /\ new = IncreasePayload(old, n)
                        \/ old.negativePayload + n < Modulus /\ new = DecreasePayload(old, n)
      BY <2>1, <2>2 DEF UpdateHandler
    <2>4. Consistent(new)
      BY <2>3, Counted
    <2>5. replica_metadata'[s] = IF s = w THEN [replica_metadata[s] EXCEPT ![id[w]] = new]
                                 ELSE replica_metadata[s]
      BY <2>3 DEF IInv, TypeOK
    <2>6. CASE s = w /\ i = id[w]
      BY <1>1, <2>2, <2>4, <2>5, <2>6
    <2>7. CASE ~(s = w /\ i = id[w])
      BY <1>1, <1>4, <2>5, <2>7
    <2> QED BY <2>6, <2>7
  <1>7. CASE \E t, w \in Replica : \E k \in 1 .. Len(log[w]) : AddExternalReplica(t, w, k)
    <2>1. PICK t \in Replica, w \in Replica : \E k \in 1 .. Len(log[w]) : AddExternalReplica(t, w, k)
      BY <1>7
    <2>2. PICK k \in 1 .. Len(log[w]) : AddExternalReplica(t, w, k)
      BY <2>1
    <2>3. PICK md \in Metadata : md = log[w][k]
      BY DEF IInv, TypeOK
    <2>4. PICK table : table = Merged(replica_metadata[t], id[w], md)
      OBVIOUS
    <2>5. replica_metadata'[s] = IF s = t THEN table ELSE replica_metadata[s]
      BY <2>2, <2>3, <2>4 DEF AddExternalReplica, Refresh, IInv, TypeOK
    <2>6. CASE s = t /\ i = id[w]
      <3>1. w = r
        BY <1>1, <2>6 DEF Exclusive, Writers
      <3>2. Consistent(md) \/ md = log[r][1]
        BY <2>3, <3>1, OwnSnapshots
      <3>3. Consistent(table[i]) \/ table[i] = log[r][1]
        <4>1. PICK first : first = log[r][1]
          OBVIOUS
        <4> QED BY <1>3, <2>4, <2>6, <3>2, <4>1, OwnTotalMerged
      <3> QED BY <1>1, <1>2, <2>5, <2>6, <3>3
    <2>7. CASE s = t /\ i # id[w]
      <3>1. i \in DOMAIN replica_metadata[s] /\ table[i] = replica_metadata[s][i]
        BY <1>1, <2>4, <2>5, <2>7 DEF Merged
      <3> QED BY <1>4, <2>5, <2>7, <3>1
    <2>8. CASE s # t
      BY <1>1, <1>4, <2>5, <2>8
    <2> QED BY <2>6, <2>7, <2>8
  <1>8. CASE \E t, u \in Replica : UpdateLocalExternalPayload(t, u)
    <2>1. PICK t \in Replica, u \in Replica : UpdateLocalExternalPayload(t, u)
      BY <1>8
    <2>2. PICK other : other = replica_metadata[u]
      OBVIOUS
    <2>3. PICK table : table = MergedTables(replica_metadata[t], other)
      OBVIOUS
    <2>4. replica_metadata'[s] = IF s = t THEN table ELSE replica_metadata[s]
      BY <2>1, <2>2, <2>3 DEF UpdateLocalExternalPayload, Refresh, IInv, TypeOK
    <2>5. CASE s # t
      BY <1>1, <1>4, <2>4, <2>5
    <2>6. CASE s = t /\ i \in DOMAIN other
      <3>1. PICK md \in Metadata : md = other[i]
        BY <1>3, <2>2, <2>6
      <3>2. Consistent(md) \/ md = log[r][1]
        BY <1>1, <2>2, <2>6, <3>1 DEF OwnTotalInv
      <3>3. table[i] = Merged(replica_metadata[s], i, md)[i]
        BY <2>3, <2>6, <3>1 DEF MergedTables
      <3>4. Consistent(table[i]) \/ table[i] = log[r][1]
        <4>1. PICK first : first = log[r][1]
          OBVIOUS
        <4> QED BY <1>3, <3>2, <3>3, <4>1, OwnTotalMerged
      <3> QED BY <1>1, <1>2, <2>4, <2>6, <3>4
    <2>7. CASE s = t /\ i \notin DOMAIN other
      <3>1. i \in DOMAIN replica_metadata[s] /\ table[i] = replica_metadata[s][i]
        BY <1>1, <2>3, <2>4, <2>7 DEF MergedTables
      <3> QED BY <1>4, <2>4, <2>7, <3>1
    <2> QED BY <2>5, <2>6, <2>7
  <1> QED BY <1>5, <1>6, <1>7, <1>8 DEF Next

\* A handler's sum is that of its table, or counts its own entry in an earlier state.
Lags(s) ==
    \/ payload[s] = InternalPayload(replica_metadata[s])
    \/ /\ s \in HandlerWriter
       /\ Exclusive(s) =>
             \E k \in 1 .. Len(log[s]) - 1 :
                 \/ payload[s] = PayloadWithOwn(s, log[s][k])
                 \/ payload[s] = PayloadWithOwn(s, SetPayloadN(log[s][k], log[s][k].negativePayload))

\* Its own entry, before it counts on it, is a state it has been in, up to the total.
LEMMA OwnEntry ==
    ASSUME IInv, OwnTotalInv, NEW s \in Replica, Exclusive(s), id[s] \in DOMAIN replica_metadata[s]
    PROVE  \E k \in 1 .. Len(log[s]) :
              \/ replica_metadata[s][id[s]] = log[s][k]
              \/ replica_metadata[s][id[s]] = SetPayloadN(log[s][k], log[s][k].negativePayload)
  <1>1. PICK entry \in Metadata : entry = replica_metadata[s][id[s]]
    BY DEF IInv, TypeOK
  <1>2. PastState(s, entry)
    BY <1>1 DEF IInv, EntryInv, GoodEntry
  <1>3. PICK k \in 1 .. Len(log[s]) : SameParts(entry, log[s][k])
    BY <1>2 DEF PastState
  <1>4. PICK md \in Metadata : md = log[s][k]
    BY DEF IInv, TypeOK
  <1>5. CASE Consistent(entry)
    <2>1. SetPayloadN(md, md.negativePayload) = entry
      <3>1. entry.totalPayload = Wrap(md.positivePayload - md.negativePayload)
        BY <1>3, <1>4, <1>5 DEF Consistent, SameParts
      <3>2. SetPayloadN(md, md.negativePayload)
               = [positivePayload |-> md.positivePayload, negativePayload |-> md.negativePayload,
                  totalPayload |-> Wrap(md.positivePayload - md.negativePayload)]
        <4>1. PICK p \in T, n \in T, total \in T :
                 md = [positivePayload |-> p, negativePayload |-> n, totalPayload |-> total]
          BY DEF Metadata
        <4>2. PICK w : w = Wrap(p - n)
          OBVIOUS
        <4>3. SetPayloadN(md, n) = [md EXCEPT !.negativePayload = n, !.totalPayload = w]
          BY <4>1, <4>2 DEF SetPayloadN
        <4> QED BY <4>1, <4>2, <4>3
      <3>3. entry = [positivePayload |-> entry.positivePayload,
                     negativePayload |-> entry.negativePayload,
                     totalPayload |-> entry.totalPayload]
        BY DEF Metadata
      <3> QED BY <1>3, <1>4, <3>1, <3>2, <3>3 DEF SameParts
    <2> QED BY <1>1, <1>4, <2>1
  <1>6. CASE entry = log[s][1]
    <2>1. 1 \in 1 .. Len(log[s])
      BY DEF IInv, LogInv, TypeOK
    <2> QED BY <1>1, <1>6, <2>1
  <1> QED BY <1>1, <1>5, <1>6 DEF OwnTotalInv

\* Counting on a handler's entry leaves its sum behind.
LEMMA LagsWhenCounted ==
    ASSUME IInv, OwnTotalInv, NEW w \in Replica, NEW n \in Amount, UpdateHandler(w, n), Lags(w)
    PROVE  Lags(w)'
  <1>1. /\ w \in HandlerWriter /\ id[w] \in DOMAIN replica_metadata[w] /\ payload' = payload
        /\ \E new : log' = [log EXCEPT ![w] = Append(@, new)]
    BY DEF UpdateHandler
  <1>2. PICK table : table = replica_metadata[w]
    OBVIOUS
  <1>3. PICK new : replica_metadata'[w] = [table EXCEPT ![id[w]] = new]
    BY <1>2 DEF UpdateHandler, IInv, TypeOK
  <1>4. table \in [DOMAIN table -> Metadata]
    BY <1>2 DEF IInv, TypeOK
  <1>5. PICK own : own = id[w]
    OBVIOUS
  <1>6. \A md : [replica_metadata'[w] EXCEPT ![own] = md] = [table EXCEPT ![own] = md]
    BY <1>3, <1>4, <1>5
  <1>7. \A md : PayloadWithOwn(w, md)' = PayloadWithOwn(w, md)
    BY <1>2, <1>5, <1>6 DEF PayloadWithOwn
  <1>8. /\ Len(log[w]) \in Nat /\ Len(log'[w]) = Len(log[w]) + 1
        /\ \A k \in 1 .. Len(log[w]) : log'[w][k] = log[w][k]
    <2>1. PICK more : log' = [log EXCEPT ![w] = Append(@, more)]
      BY <1>1
    <2>2. log[w] \in Seq(Metadata) /\ log'[w] = Append(log[w], more)
      BY <2>1 DEF IInv, TypeOK
    <2> QED BY <2>2
  <1>9. SUFFICES ASSUME Exclusive(w)
                 PROVE  \E k \in 1 .. Len(log[w]) :
                           \/ payload[w] = PayloadWithOwn(w, log[w][k])
                           \/ payload[w] = PayloadWithOwn(w, SetPayloadN(log[w][k], log[w][k].negativePayload))
    <2>1. ASSUME Exclusive(w) /\ \E k \in 1 .. Len(log[w]) :
                           \/ payload[w] = PayloadWithOwn(w, log[w][k])
                           \/ payload[w] = PayloadWithOwn(w, SetPayloadN(log[w][k], log[w][k].negativePayload))
          PROVE  Lags(w)'
      <3>1. PICK k \in 1 .. Len(log[w]) :
                           \/ payload[w] = PayloadWithOwn(w, log[w][k])
                           \/ payload[w] = PayloadWithOwn(w, SetPayloadN(log[w][k], log[w][k].negativePayload))
        BY <2>1
      <3>2. k \in 1 .. Len(log'[w]) - 1 /\ log'[w][k] = log[w][k]
        BY <1>8
      <3>3. PICK md : md = log[w][k]
        OBVIOUS
      <3>4. payload'[w] = PayloadWithOwn(w, md)' \/ payload'[w] = PayloadWithOwn(w, SetPayloadN(md, md.negativePayload))'
        BY <1>1, <1>7, <3>1, <3>3
      <3> QED BY <1>1, <3>2, <3>3, <3>4 DEF Lags, PayloadWithOwn
    <2>2. ASSUME ~Exclusive(w) PROVE Lags(w)'
      BY <1>1, <2>2 DEF Lags, Exclusive, Writers
    <2> QED BY <2>1, <2>2
  <1>10. CASE payload[w] = InternalPayload(table)
    <2>1. [table EXCEPT ![own] = table[own]] = table
      BY <1>4
    <2>2. PICK entry : entry = table[own]
      OBVIOUS
    <2>3. payload[w] = PayloadWithOwn(w, entry)
      BY <1>2, <1>5, <1>10, <2>1, <2>2 DEF PayloadWithOwn
    <2>4. PICK k \in 1 .. Len(log[w]) :
             entry = log[w][k] \/ entry = SetPayloadN(log[w][k], log[w][k].negativePayload)
      BY <1>1, <1>2, <1>5, <1>9, <2>2, OwnEntry
    <2> QED BY <2>3, <2>4
  <1>11. CASE payload[w] # InternalPayload(table)
    <2>1. PICK k \in 1 .. Len(log[w]) - 1 :
             \/ payload[w] = PayloadWithOwn(w, log[w][k])
             \/ payload[w] = PayloadWithOwn(w, SetPayloadN(log[w][k], log[w][k].negativePayload))
      BY <1>2, <1>9, <1>11 DEF Lags
    <2>2. k \in 1 .. Len(log[w])
      BY <1>8
    <2> QED BY <2>1, <2>2
  <1> QED BY <1>10, <1>11

\* No other step leaves a sum behind.
LEMMA LagsStep ==
    ASSUME IInv, OwnTotalInv, [Next]_vars, DOMAIN payload = Replica, NEW s \in Replica, Lags(s)
    PROVE  DOMAIN payload' = Replica /\ Lags(s)'
  <1>1. CASE payload'[s] = InternalPayload(replica_metadata'[s]) /\ DOMAIN payload' = Replica
    BY <1>1 DEF Lags
  <1>2. CASE /\ payload'[s] = payload[s] /\ replica_metadata'[s] = replica_metadata[s]
             /\ log'[s] = log[s] /\ DOMAIN payload' = Replica
    BY <1>2 DEF Lags, PayloadWithOwn, Exclusive, Writers
  <1>3. ASSUME NEW t \in Replica, NEW table, Refresh(t, table), log' = log
        PROVE  DOMAIN payload' = Replica /\ Lags(s)'
    <2>1. CASE s = t
      BY <1>1, <1>3, <2>1 DEF Refresh, IInv, TypeOK
    <2>2. CASE s # t
      BY <1>2, <1>3, <2>2 DEF Refresh, IInv, TypeOK
    <2> QED BY <2>1, <2>2
  <1>4. CASE \E w \in Replica, n \in Amount : UpdateMetadata(w, n)
    <2>1. PICK w \in Replica, n \in Amount : UpdateMetadata(w, n)
      BY <1>4
    <2>2. CASE s = w
      BY <1>1, <2>1, <2>2 DEF UpdateMetadata, Lags
    <2>3. CASE s # w
      BY <1>2, <2>1, <2>3 DEF UpdateMetadata, IInv, TypeOK
    <2> QED BY <2>2, <2>3
  <1>5. CASE \E w \in Replica, n \in Amount : UpdateHandler(w, n)
    <2>1. PICK w \in Replica, n \in Amount : UpdateHandler(w, n)
      BY <1>5
    <2>2. CASE s = w
      BY <2>1, <2>2, LagsWhenCounted DEF UpdateHandler
    <2>3. CASE s # w
      <3>1. /\ log'[s] = log[s] /\ payload' = payload
            /\ \E new : replica_metadata' = [replica_metadata EXCEPT ![w][id[w]] = new]
        BY <2>1, <2>3 DEF UpdateHandler, IInv, TypeOK
      <3> QED BY <1>2, <2>3, <3>1 DEF IInv, TypeOK
    <2> QED BY <2>2, <2>3
  <1>6. CASE \E t, w \in Replica : \E k \in 1 .. Len(log[w]) : AddExternalReplica(t, w, k)
    BY <1>3, <1>6 DEF AddExternalReplica
  <1>7. CASE \E t, u \in Replica : UpdateLocalExternalPayload(t, u)
    BY <1>3, <1>7 DEF UpdateLocalExternalPayload
  <1>8. CASE UNCHANGED vars
    BY <1>2, <1>8 DEF vars
  <1> QED BY <1>4, <1>5, <1>6, <1>7, <1>8 DEF Next

\* The cached sum of a handler is the sum over its table, but for the updates its own writer
\* has made through it since the last merge.
THEOREM PayloadLags == Spec => []PayloadLagsOwnUpdatesOnly
  <1> DEFINE LagInv == DOMAIN payload = Replica /\ \A s \in Replica : Lags(s)
  <1>1. Init => OwnTotalInv /\ LagInv
    <2> SUFFICES ASSUME Init PROVE OwnTotalInv /\ LagInv
      OBVIOUS
    <2>1. \A s \in Replica : DOMAIN replica_metadata[s] = {} /\ payload[s] = 0
      BY DEF Init
    <2>2. OwnTotalInv
      BY <2>1 DEF OwnTotalInv
    <2>3. ASSUME NEW s \in Replica PROVE Lags(s)
      <3>1. PICK table : table = replica_metadata[s]
        OBVIOUS
      <3>2. InternalPayload(table) = 0
        BY <2>1, <3>1, NoEntries
      <3> QED BY <2>1, <3>1, <3>2 DEF Lags
    <2>4. DOMAIN payload = Replica
      BY DEF Init
    <2> QED BY <2>2, <2>3, <2>4
  <1>2. IInv /\ OwnTotalInv /\ LagInv /\ [Next]_vars => OwnTotalInv' /\ LagInv'
    <2> SUFFICES ASSUME IInv, OwnTotalInv, LagInv, [Next]_vars PROVE OwnTotalInv' /\ LagInv'
      OBVIOUS
    <2>1. OwnTotalInv'
      BY OwnTotalStep
    <2>2. \A s \in Replica : DOMAIN payload' = Replica /\ Lags(s)'
      BY LagsStep
    <2>3. DOMAIN payload' = Replica
      BY DEF Next, vars, UpdateMetadata, UpdateHandler, AddExternalReplica,
             UpdateLocalExternalPayload, Refresh
    <2> QED BY <2>1, <2>2, <2>3
  <1>3. LagInv => PayloadLagsOwnUpdatesOnly
    BY DEF Lags, PayloadLagsOwnUpdatesOnly
  <1> HIDE DEF LagInv
  <1> QED BY <1>1, <1>2, <1>3, Inductive, PTL DEF Spec

=============================================================================
