--------------------------- MODULE ReplicaApp_proofs ---------------------------
(***************************************************************************)
(* Proofs about the networking application, for any payload width, any     *)
(* amounts and elements and any choice of who syncs and who may end: its   *)
(* types, what each handler knows of its own process, how fresh a sync is, *)
(* and that what is known or removed stays so.                             *)
(*                                                                         *)
(* The inductive invariant IInv relates four things: the process's own     *)
(* state and its entry in the handler's table (OwnInv), what the server    *)
(* has copied and the console that waits for it (LinkInv, PendingInv), the *)
(* number of merges and the other's entry (RepairInv), and the last        *)
(* answered sync and that entry (SyncIsFresh).  One step lemma per part    *)
(* shows that no step breaks it.                                           *)
(***************************************************************************)
EXTENDS ReplicaApp, PNCounterData_proofs, FiniteSetTheorems

-----------------------------------------------------------------------------
(* The invariants *)

\* The server copies the fields for a console that is waiting, and that keeps waiting as
\* long as both run; and an answer is one.
LinkInv ==
    \A p \in Proc :
        /\ reading[p] # <<>> => socket[Peer(p)].state = "connected"
        /\ socket[p].state = "connected" => up[p] /\ up[Peer(p)]
        /\ socket[p].state = "answered" => socket[p].answer \in Message

\* Between commands the own counter has a total of its own, and so has the handler's
\* entry that is equal to it; while the console counts, the entry is behind.
OwnAt(p) ==
    /\ console[p] # "counting" =>
          /\ Consistent(counter1Metadata[p])
          /\ IF p \in DOMAIN counter1[p] THEN counter1[p][p] = counter1Metadata[p]
                                         ELSE counter1Metadata[p] = NewMetadata(0)
    /\ p \in DOMAIN counter1[p] => AtMost(counter1[p][p], counter1Metadata[p])
    /\ IF p \in DOMAIN set1[p] THEN set1[p][p] = set1Metadata[p]
                               ELSE set1Metadata[p] = NewSetMetadata

OwnInv == \A p \in Proc : OwnAt(p)

\* What is on its way to a console is no less than what the other had counted when
\* it connected: in the metadata as long as the server has not copied it, in what it
\* has copied, and in the answer.
PendingAt(p) ==
    LET q == Peer(p)
        pending == since[p].pending
    IN  /\ socket[p].state = "connected" =>
              /\ AtMost(pending, counter1Metadata[q])
              /\ Len(reading[q]) >= 1 => pending.positivePayload <= reading[q][1]
              /\ Len(reading[q]) >= 2 => pending.negativePayload <= reading[q][2]
        /\ socket[p].state = "answered" => AtMost(pending, socket[p].answer.counter)

PendingInv == \A p \in Proc : PendingAt(p)

\* The second merge of the other's state finds the first.
RepairInv ==
    \A p \in Proc :
        /\ merges[p] >= 1 => Peer(p) \in DOMAIN counter1[p]
        /\ merges[p] >= 2 => Consistent(counter1[p][Peer(p)])

IInv == TypeOK /\ LinkInv /\ OwnInv /\ PendingInv /\ RepairInv /\ SyncIsFresh

-----------------------------------------------------------------------------
(* The two processes *)

\* There are two processes, and each is the other's peer.
LEMMA PeerFacts ==
    ASSUME NEW p \in Proc
    PROVE  /\ Peer(p) \in Proc /\ Peer(p) # p /\ Peer(Peer(p)) = p
           /\ \A q \in Proc : q = p \/ q = Peer(p)
  <1>1. PICK q \in Proc : q # p
    <2> SUFFICES ASSUME Proc = {p} PROVE FALSE
      OBVIOUS
    <2>1. Cardinality({p}) = 1
      BY FS_Singleton
    <2> QED BY <2>1, ProcAssumption
  <1>2. \A r \in Proc : r = p \/ r = q
    <2> SUFFICES ASSUME NEW r \in Proc, r # p, r # q PROVE FALSE
      OBVIOUS
    <2> DEFINE one == {p}
               two == one \cup {q}
               three == two \cup {r}
    <2>1. /\ IsFiniteSet(one) /\ Cardinality(one) = 1
          /\ q \notin one
      BY <1>1, FS_Singleton
    <2>5. r \notin two /\ three \subseteq Proc
      BY <1>1
    <2> HIDE DEF one
    <2>2. IsFiniteSet(two) /\ Cardinality(two) = 2
      BY <2>1, FS_AddElement
    <2> HIDE DEF two
    <2>3. Cardinality(three) = 3
      BY <2>2, <2>5, FS_AddElement
    <2> HIDE DEF three
    <2>4. Cardinality(three) <= Cardinality(Proc)
      BY <2>5, ProcAssumption, FS_Subset
    <2> QED BY <2>3, <2>4, ProcAssumption
  <1> QED
    BY <1>1, <1>2 DEF Peer

\* The constructors' results.
LEMMA NewType ==
    /\ NewMetadata(0) \in Metadata /\ Consistent(NewMetadata(0))
    /\ NewSetMetadata \in SetMetadata
  BY WidthAssumption DEF NewMetadata, Metadata, T, Consistent, Wrap, NewSetMetadata, SetMetadata

\* A part that is raised within the bound stays within the payload type.
LEMMA PartType ==
    ASSUME NEW p \in Proc, NEW md \in Metadata, NEW n \in Amount,
           md.positivePayload + md.negativePayload + n <= MaxCount[p]
    PROVE  /\ [md EXCEPT !.positivePayload = @ + n] \in Metadata
           /\ [md EXCEPT !.negativePayload = @ + n] \in Metadata
           /\ AtMost(md, [md EXCEPT !.positivePayload = @ + n])
           /\ AtMost(md, [md EXCEPT !.negativePayload = @ + n])
  <1>1. n \in Nat /\ MaxCount[p] \in T
    BY ConsoleAssumption
  <1>2. md.positivePayload + n \in T /\ md.negativePayload + n \in T
    BY <1>1, WidthAssumption DEF Metadata, T
  <1> QED
    BY <1>1, <1>2, PartsType DEF Metadata, AtMost

\* The total that is stored is that of the parts.
LEMMA TotalType ==
    ASSUME NEW md \in Metadata
    PROVE  LET done == [md EXCEPT !.totalPayload = Wrap(md.positivePayload - md.negativePayload)]
           IN  done \in Metadata /\ SameParts(md, done) /\ Consistent(done)
  <1>1. Wrap(md.positivePayload - md.negativePayload) \in T
    BY PartsType, WrapType
  <1> QED
    BY <1>1 DEF Metadata, SameParts, Consistent

\* Nothing is known at first.
LEMMA EmptyTable == ASSUME NEW Content PROVE IsTable(<<>>, Content) /\ DOMAIN <<>> = {}
  BY DEF IsTable

\* Merging a counter into a table of a process.
LEMMA MergedCounter ==
    ASSUME NEW table, IsTable(table, Metadata), NEW i \in Proc, NEW md \in Metadata
    PROVE  /\ IsTable(Merged(table, i, md), Metadata)
           /\ DOMAIN Merged(table, i, md) = DOMAIN table \cup {i}
           /\ Grows(table, Merged(table, i, md))
           /\ AtMost(md, Merged(table, i, md)[i])
           /\ \A j \in DOMAIN table \ {i} : Merged(table, i, md)[j] = table[j]
           /\ Merged(table, i, md)[i] = IF i \in DOMAIN table THEN FixConflict(table[i], md) ELSE md
           /\ i \in DOMAIN table => Consistent(Merged(table, i, md)[i])
  <1> DEFINE merged == Merged(table, i, md)
  <1>1. table \in [DOMAIN table -> Metadata] /\ DOMAIN table \subseteq Proc
    BY DEF IsTable
  <1>2. /\ DOMAIN merged = DOMAIN table \cup {i}
        /\ merged \in [DOMAIN merged -> Metadata]
        /\ Grows(table, merged)
        /\ AtMost(md, merged[i])
        /\ \A j \in DOMAIN table \ {i} : merged[j] = table[j]
        /\ merged[i] = IF i \in DOMAIN table THEN FixConflict(table[i], md) ELSE md
        /\ i \in DOMAIN table => Consistent(merged[i])
    BY <1>1, MergedFacts
  <1> HIDE DEF merged
  <1>3. IsTable(merged, Metadata)
    BY <1>1, <1>2 DEF IsTable
  <1> QED
    BY <1>2, <1>3 DEF merged

\* Sets of a known id are united, and keep everything.
LEMMA MergedSet ==
    ASSUME NEW table, IsTable(table, SetMetadata), NEW i \in Proc, NEW md \in SetMetadata
    PROVE  /\ IsTable(MergedSets(table, i, md), SetMetadata)
           /\ DOMAIN MergedSets(table, i, md) = DOMAIN table \cup {i}
           /\ \A j \in DOMAIN table \ {i} : MergedSets(table, i, md)[j] = table[j]
           /\ MergedSets(table, i, md)[i] = IF i \in DOMAIN table THEN United(table[i], md) ELSE md
  BY DEF MergedSets, United, SetMetadata, IsTable

\* A set that has only grown replaces what was known of it.
LEMMA UnitedNewer ==
    ASSUME NEW known \in SetMetadata, NEW md \in SetMetadata,
           known.payload \subseteq md.payload, known.tombstone \subseteq md.tombstone
    PROVE  United(known, md) = md
  BY DEF United, SetMetadata

\* A set without its tombstones is one.
LEMMA TransferredType ==
    ASSUME NEW md \in SetMetadata PROVE Transferred(md) \in SetMetadata
  BY DEF Transferred, SetMetadata

\* An edit adds to what the set holds or to what it has removed.
LEMMA EditType ==
    ASSUME NEW md \in SetMetadata, NEW e \in Element, NEW edited,
           edited = Insert(md, e) \/ edited = Remove(md, e)
    PROVE  /\ edited \in SetMetadata
           /\ md.payload \subseteq edited.payload /\ md.tombstone \subseteq edited.tombstone
  BY DEF Insert, Remove, SetMetadata

\* What the two tables are after the merges of a sync: the own entries are merged first.
LEMMA MergeResponseTables ==
    ASSUME TypeOK, NEW p \in Proc, NEW message \in Message, MergeResponse(p, message)
    PROVE  \E mine, sets :
           /\ mine = Merged(counter1[p], p, counter1Metadata[p]) /\ IsTable(mine, Metadata)
           /\ sets = MergedSets(set1[p], p, set1Metadata[p]) /\ IsTable(sets, SetMetadata)
           /\ counter1'[p] = Merged(mine, Peer(p), message.counter)
           /\ set1'[p] = MergedSets(sets, Peer(p), message.set)
           /\ \A q \in Proc \ {p} : counter1'[q] = counter1[q] /\ set1'[q] = set1[q]
           /\ DOMAIN counter1' = Proc /\ DOMAIN set1' = Proc
  <1> DEFINE mine == Merged(counter1[p], p, counter1Metadata[p])
             sets == MergedSets(set1[p], p, set1Metadata[p])
  <1>1. /\ IsTable(counter1[p], Metadata) /\ counter1Metadata[p] \in Metadata
        /\ IsTable(set1[p], SetMetadata) /\ set1Metadata[p] \in SetMetadata
        /\ DOMAIN counter1 = Proc /\ DOMAIN set1 = Proc
    BY DEF TypeOK
  <1>2. IsTable(mine, Metadata) /\ IsTable(sets, SetMetadata)
    BY <1>1, MergedCounter, MergedSet
  <1>3. /\ counter1' = [counter1 EXCEPT ![p] = Merged(mine, Peer(p), message.counter)]
        /\ set1' = [set1 EXCEPT ![p] = MergedSets(sets, Peer(p), message.set)]
    BY DEF MergeResponse
  <1> HIDE DEF mine, sets
  <1>4. /\ counter1'[p] = Merged(mine, Peer(p), message.counter)
        /\ set1'[p] = MergedSets(sets, Peer(p), message.set)
        /\ \A q \in Proc \ {p} : counter1'[q] = counter1[q] /\ set1'[q] = set1[q]
        /\ DOMAIN counter1' = Proc /\ DOMAIN set1' = Proc
    BY <1>1, <1>3
  <1> QED
    BY <1>2, <1>4 DEF mine, sets

-----------------------------------------------------------------------------
(* Types *)

\* A copied field is one more.
LEMMA AppendType ==
    ASSUME NEW fields \in Seq(T), NEW n \in T
    PROVE  /\ Append(fields, n) \in Seq(T)
           /\ Len(Append(fields, n)) = Len(fields) + 1
           /\ \A k \in 1 .. Len(fields) : Append(fields, n)[k] = fields[k]
           /\ Append(fields, n)[Len(fields) + 1] = n
  OBVIOUS

\* What a pending sync has seen is metadata.
LEMMA PendingType ==
    ASSUME NEW seen \in [latest : Metadata, pending : Metadata], NEW md \in Metadata
    PROVE  [seen EXCEPT !.pending = md] \in [latest : Metadata, pending : Metadata]
  OBVIOUS

\* What ends is as it was at the start.
LEMMA EndedType ==
    ASSUME TypeOK, NEW p \in Proc, Ended(p)
    PROVE  TypeOK'
  <1>1. counter1Metadata' \in [Proc -> Metadata] /\ set1Metadata' \in [Proc -> SetMetadata]
    BY NewType DEF Ended, TypeOK
  <1>2. /\ DOMAIN counter1' = Proc /\ DOMAIN set1' = Proc
        /\ counter1'[p] = <<>> /\ set1'[p] = <<>>
        /\ \A q \in Proc \ {p} : counter1'[q] = counter1[q] /\ set1'[q] = set1[q]
    BY DEF Ended, TypeOK
  <1>3. \A q \in Proc : IsTable(counter1'[q], Metadata) /\ IsTable(set1'[q], SetMetadata)
    <2>1. IsTable(counter1'[p], Metadata) /\ IsTable(set1'[p], SetMetadata)
      BY <1>2, EmptyTable
    <2>2. \A q \in Proc \ {p} : IsTable(counter1'[q], Metadata) /\ IsTable(set1'[q], SetMetadata)
      BY <1>2 DEF TypeOK
    <2> QED BY <2>1, <2>2
  <1>4. reading' \in [Proc -> Seq(T)] /\ \A q \in Proc : Len(reading'[q]) <= 2
    BY DEF Ended, TypeOK
  <1>5. /\ socket' \in [Proc -> [state : {"closed", "connected", "answered", "failed"},
                                 answer : Message \cup {None}]]
        /\ socket'[p].state = "closed"
        /\ \A q \in Proc \ {p} : socket'[q].state = "closed" <=> socket[q].state = "closed"
    BY DEF Ended, TypeOK, Closed, Connection
  <1>6. \A q \in Proc : (console'[q] = "syncing") = (socket'[q].state # "closed")
    BY <1>5 DEF Ended, TypeOK
  <1>7. since' \in [Proc -> [latest : Metadata, pending : Metadata]]
    BY NewType DEF Ended, TypeOK, Since
  <1>8. /\ up' \in [Proc -> BOOLEAN] /\ console' \in [Proc -> {"idle", "counting", "syncing"}]
        /\ response' \in [Proc -> Message \cup {None}] /\ merges' \in [Proc -> 0 .. 2]
    BY DEF Ended, TypeOK
  <1> QED
    BY <1>1, <1>2, <1>3, <1>4, <1>5, <1>6, <1>7, <1>8 DEF TypeOK

\* The merges of a sync keep the types of what they change.
LEMMA MergeResponseType ==
    ASSUME TypeOK, NEW p \in Proc, NEW message \in Message, MergeResponse(p, message)
    PROVE  /\ DOMAIN counter1' = Proc /\ DOMAIN set1' = Proc
           /\ \A q \in Proc : IsTable(counter1'[q], Metadata) /\ IsTable(set1'[q], SetMetadata)
           /\ console' \in [Proc -> {"idle", "counting", "syncing"}]
           /\ socket' \in [Proc -> [state : {"closed", "connected", "answered", "failed"},
                                    answer : Message \cup {None}]]
           /\ \A q \in Proc : (console'[q] = "syncing") = (socket'[q].state # "closed")
           /\ merges' \in [Proc -> 0 .. 2]
  <1>1. PICK mine, sets :
           /\ IsTable(mine, Metadata) /\ IsTable(sets, SetMetadata)
           /\ counter1'[p] = Merged(mine, Peer(p), message.counter)
           /\ set1'[p] = MergedSets(sets, Peer(p), message.set)
           /\ \A q \in Proc \ {p} : counter1'[q] = counter1[q] /\ set1'[q] = set1[q]
           /\ DOMAIN counter1' = Proc /\ DOMAIN set1' = Proc
    BY MergeResponseTables
  <1>2. message.counter \in Metadata /\ message.set \in SetMetadata
    BY DEF Message
  <1>3. IsTable(counter1'[p], Metadata) /\ IsTable(set1'[p], SetMetadata)
    <2>1. Peer(p) \in Proc
      BY PeerFacts
    <2>2. IsTable(Merged(mine, Peer(p), message.counter), Metadata)
      BY <1>1, <1>2, <2>1, MergedCounter
    <2>3. IsTable(MergedSets(sets, Peer(p), message.set), SetMetadata)
      BY <1>1, <1>2, <2>1, MergedSet
    <2> QED BY <1>1, <2>2, <2>3
  <1>4. \A q \in Proc : IsTable(counter1'[q], Metadata) /\ IsTable(set1'[q], SetMetadata)
    BY <1>1, <1>3 DEF TypeOK
  <1>5. /\ console' = [console EXCEPT ![p] = "idle"]
        /\ socket' = [socket EXCEPT ![p] = Closed]
        /\ merges' = [merges EXCEPT ![p] = IF @ < 2 THEN @ + 1 ELSE 2]
    BY DEF MergeResponse
  <1>6. /\ console' \in [Proc -> {"idle", "counting", "syncing"}]
        /\ socket' \in [Proc -> [state : {"closed", "connected", "answered", "failed"},
                                    answer : Message \cup {None}]]
        /\ \A q \in Proc : (console'[q] = "syncing") = (socket'[q].state # "closed")
    BY <1>5 DEF TypeOK, Closed, Connection
  <1>7. merges' \in [Proc -> 0 .. 2]
    <2>1. merges \in [Proc -> 0 .. 2]
      BY DEF TypeOK
    <2>2. (IF merges[p] < 2 THEN merges[p] + 1 ELSE 2) \in 0 .. 2
      BY <2>1
    <2> QED BY <1>5, <2>1, <2>2
  <1> QED
    BY <1>1, <1>4, <1>6, <1>7

\* An answer is a message of what the server has copied.
LEMMA AnswerFacts ==
    ASSUME TypeOK, NEW p \in Proc, Answer(p)
    PROVE  \E message \in Message :
              /\ message.counter.positivePayload = reading[p][1]
              /\ message.counter.negativePayload = reading[p][2]
              /\ socket' = [socket EXCEPT ![Peer(p)] = [state |-> "answered", answer |-> message]]
              /\ reading' = [reading EXCEPT ![p] = <<>>]
              /\ UNCHANGED <<up, own, handlers, console, response, history>>
  <1> DEFINE message == [counter |-> [positivePayload |-> reading[p][1],
                                      negativePayload |-> reading[p][2],
                                      totalPayload |-> counter1Metadata[p].totalPayload],
                         set |-> Transferred(set1Metadata[p])]
  <1>1. reading[p][1] \in T /\ reading[p][2] \in T
    <2>1. reading[p] \in Seq(T) /\ Len(reading[p]) = 2
      BY DEF Answer, TypeOK
    <2> QED BY <2>1
  <1>2. Transferred(set1Metadata[p]) \in SetMetadata
    BY TransferredType DEF TypeOK
  <1>3. message \in Message
    BY <1>1, <1>2 DEF Message, Metadata, TypeOK
  <1>4. /\ socket' = [socket EXCEPT ![Peer(p)] = [state |-> "answered", answer |-> message]]
        /\ reading' = [reading EXCEPT ![p] = <<>>]
        /\ UNCHANGED <<up, own, handlers, console, response, history>>
    BY DEF Answer
  <1> QED BY <1>3, <1>4

\* No step leaves the types.
LEMMA TypeStep ==
    ASSUME TypeOK, LinkInv, [Next]_vars
    PROVE  TypeOK'
  <1>1. CASE UNCHANGED vars
    BY <1>1 DEF vars, TypeOK
  <1>2. ASSUME NEW p \in Proc, NEW n \in Amount, StorePart(p, n) PROVE TypeOK'
    <2>1. counter1Metadata' \in [Proc -> Metadata]
      <3> DEFINE md == counter1Metadata[p]
      <3>1. \/ counter1Metadata' = [counter1Metadata EXCEPT ![p] = [md EXCEPT !.positivePayload = @ + n]]
            \/ counter1Metadata' = [counter1Metadata EXCEPT ![p] = [md EXCEPT !.negativePayload = @ + n]]
        BY <1>2 DEF StorePart
      <3>2. md \in Metadata /\ md.positivePayload + md.negativePayload + n <= MaxCount[p]
        BY <1>2 DEF StorePart, TypeOK
      <3>3. /\ [md EXCEPT !.positivePayload = @ + n] \in Metadata
            /\ [md EXCEPT !.negativePayload = @ + n] \in Metadata
        BY <3>2, PartType
      <3> QED BY <3>1, <3>3 DEF TypeOK
    <2>2. /\ console' \in [Proc -> {"idle", "counting", "syncing"}]
          /\ \A q \in Proc : console'[q] = "syncing" <=> console[q] = "syncing"
      BY <1>2 DEF StorePart, Idle, TypeOK
    <2> QED BY <1>2, <2>1, <2>2 DEF StorePart, TypeOK, handlers, history
  <1>3. ASSUME NEW p \in Proc, StoreTotal(p) PROVE TypeOK'
    <2> DEFINE md == counter1Metadata[p]
               done == [md EXCEPT !.totalPayload = Wrap(md.positivePayload - md.negativePayload)]
    <2>1. done \in Metadata
      BY TotalType DEF TypeOK
    <2>2. /\ counter1Metadata' = [counter1Metadata EXCEPT ![p] = done]
          /\ counter1' = [counter1 EXCEPT ![p] = Merged(@, p, done)]
          /\ console' = [console EXCEPT ![p] = "idle"]
          /\ console[p] = "counting"
      BY <1>3 DEF StoreTotal
    <2> HIDE DEF done
    <2>3. IsTable(counter1'[p], Metadata)
      BY <2>1, <2>2, MergedCounter DEF TypeOK
    <2>4. /\ console' \in [Proc -> {"idle", "counting", "syncing"}]
          /\ \A q \in Proc : console'[q] = "syncing" <=> console[q] = "syncing"
      BY <2>2 DEF TypeOK
    <2>5. /\ counter1Metadata' \in [Proc -> Metadata] /\ DOMAIN counter1' = Proc
          /\ \A q \in Proc \ {p} : counter1'[q] = counter1[q]
      BY <2>1, <2>2 DEF TypeOK
    <2> QED BY <1>3, <2>3, <2>4, <2>5 DEF StoreTotal, TypeOK, history
  <1>4. ASSUME NEW p \in Proc, NEW e \in Element, EditSet(p, e) PROVE TypeOK'
    <2>1. /\ set1Metadata' \in [Proc -> SetMetadata] /\ DOMAIN set1' = Proc
          /\ set1'[p] = MergedSets(set1[p], p, set1Metadata'[p])
          /\ \A q \in Proc \ {p} : set1'[q] = set1[q]
      <3>1. \E edited :
               /\ edited = Insert(set1Metadata[p], e) \/ edited = Remove(set1Metadata[p], e)
               /\ set1Metadata' = [set1Metadata EXCEPT ![p] = edited]
        BY <1>4 DEF EditSet
      <3>2. set1Metadata' \in [Proc -> SetMetadata]
        BY <3>1, EditType DEF TypeOK
      <3> QED BY <1>4, <3>2 DEF EditSet, TypeOK
    <2>2. IsTable(set1'[p], SetMetadata)
      <3>1. IsTable(set1[p], SetMetadata) /\ set1Metadata'[p] \in SetMetadata
        BY <2>1 DEF TypeOK
      <3>2. IsTable(MergedSets(set1[p], p, set1Metadata'[p]), SetMetadata)
        BY <3>1, MergedSet
      <3> QED BY <2>1, <3>2
    <2> QED BY <1>4, <2>1, <2>2 DEF EditSet, TypeOK, history
  <1>5. ASSUME NEW p \in Proc, Sync(p) PROVE TypeOK'
    <2>1. /\ socket' \in [Proc -> [state : {"closed", "connected", "answered", "failed"},
                                   answer : Message \cup {None}]]
          /\ console' \in [Proc -> {"idle", "counting", "syncing"}]
          /\ \A q \in Proc : (console'[q] = "syncing") = (socket'[q].state # "closed")
      BY <1>5 DEF Sync, TypeOK, Connection
    <2>2. since' \in [Proc -> [latest : Metadata, pending : Metadata]]
      <3>1. since' = [since EXCEPT ![p] = [since[p] EXCEPT !.pending = counter1Metadata[Peer(p)]]]
        BY <1>5 DEF Sync
      <3>2. counter1Metadata[Peer(p)] \in Metadata
        BY PeerFacts DEF TypeOK
      <3> QED BY <3>1, <3>2, PendingType DEF TypeOK
    <2> QED BY <1>5, <2>1, <2>2 DEF Sync, TypeOK, own, handlers
  <1>6. ASSUME NEW p \in Proc, Receive(p) PROVE TypeOK'
    <2>1. socket[p].answer \in Message /\ MergeResponse(p, socket[p].answer)
      BY <1>6 DEF Receive, LinkInv
    <2>2. response' \in [Proc -> Message \cup {None}]
      BY <1>6, <2>1 DEF Receive, TypeOK
    <2>3. since' \in [Proc -> [latest : Metadata, pending : Metadata]]
      BY <1>6, NewType DEF Receive, TypeOK, Since
    <2> QED BY <1>6, <2>1, <2>2, <2>3, MergeResponseType DEF Receive, TypeOK, own
  <1>7. ASSUME NEW p \in Proc, ReceiveFailed(p) PROVE TypeOK'
    <2>1. CASE Ended(p)
      BY <2>1, EndedType
    <2>2. CASE /\ response[p] # None /\ MergeResponse(p, response[p])
               /\ since' = [since EXCEPT ![p].pending = NewMetadata(0)]
               /\ UNCHANGED <<up, own, reading, response>>
      <3>1. response[p] \in Message
        BY <2>2 DEF TypeOK
      <3>2. since' \in [Proc -> [latest : Metadata, pending : Metadata]]
        <4>1. since' = [since EXCEPT ![p] = [since[p] EXCEPT !.pending = NewMetadata(0)]]
          BY <2>2
        <4> QED BY <4>1, NewType, PendingType DEF TypeOK
      <3> QED BY <2>2, <3>1, <3>2, MergeResponseType DEF TypeOK, own
    <2> QED BY <1>7, <2>1, <2>2 DEF ReceiveFailed
  <1>8. ASSUME NEW p \in Proc, End(p) PROVE TypeOK'
    BY <1>8, EndedType DEF End
  <1>9. ASSUME NEW p \in Proc, Start(p) PROVE TypeOK'
    BY <1>9 DEF Start, TypeOK, own, handlers, history
  <1>10. ASSUME NEW p \in Proc, Accept(p) PROVE TypeOK'
    <2>1. counter1Metadata[p].positivePayload \in T
      BY DEF TypeOK, Metadata
    <2>2. reading' \in [Proc -> Seq(T)] /\ \A q \in Proc : Len(reading'[q]) <= 2
      BY <1>10, <2>1 DEF Accept, TypeOK
    <2> QED BY <1>10, <2>2 DEF Accept, TypeOK, own, handlers, history
  <1>11. ASSUME NEW p \in Proc, CopyNegative(p) PROVE TypeOK'
    <2>1. counter1Metadata[p].negativePayload \in T
      BY DEF TypeOK, Metadata
    <2>2. reading' \in [Proc -> Seq(T)] /\ \A q \in Proc : Len(reading'[q]) <= 2
      <3>1. reading[p] \in Seq(T) /\ Len(reading[p]) = 1
        BY <1>11 DEF CopyNegative, TypeOK
      <3>2. PICK fields \in Seq(T) : fields = reading[p]
        BY <3>1
      <3>3. PICK n \in T : n = counter1Metadata[p].negativePayload
        BY <2>1
      <3>4. Append(fields, n) \in Seq(T) /\ Len(Append(fields, n)) = Len(fields) + 1
        BY AppendType
      <3>5. Len(Append(fields, n)) = 2
        BY <3>1, <3>2, <3>4
      <3> QED BY <1>11, <3>2, <3>3, <3>4, <3>5 DEF CopyNegative, TypeOK
    <2> QED BY <1>11, <2>2 DEF CopyNegative, TypeOK, own, handlers, history
  <1>12. ASSUME NEW p \in Proc, Answer(p) PROVE TypeOK'
    <2>1. PICK message \in Message :
             /\ socket' = [socket EXCEPT ![Peer(p)] = [state |-> "answered", answer |-> message]]
             /\ reading' = [reading EXCEPT ![p] = <<>>]
             /\ UNCHANGED <<up, own, handlers, console, response, history>>
      BY <1>12, AnswerFacts
    <2>2. socket[Peer(p)].state = "connected" /\ Peer(p) \in Proc
      BY <1>12, PeerFacts DEF Answer, LinkInv
    <2>3. /\ socket' \in [Proc -> [state : {"closed", "connected", "answered", "failed"},
                                   answer : Message \cup {None}]]
          /\ \A q \in Proc : (console[q] = "syncing") = (socket'[q].state # "closed")
      BY <2>1, <2>2 DEF TypeOK
    <2>4. reading' \in [Proc -> Seq(T)] /\ \A q \in Proc : Len(reading'[q]) <= 2
      BY <2>1 DEF TypeOK
    <2> QED BY <2>1, <2>3, <2>4 DEF TypeOK, own, handlers, history
  <1> QED
    BY <1>1, <1>2, <1>3, <1>4, <1>5, <1>6, <1>7, <1>8, <1>9, <1>10, <1>11, <1>12
    DEF Next, Console, Server

-----------------------------------------------------------------------------
(* The steps, by what they leave alone *)

Step(p) == Console(p) \/ Server(p) \/ End(p) \/ Start(p)

\* A process changes nothing of the other but its connection, and, by ending, what the
\* other's server has copied.
LEMMA OthersUntouched ==
    ASSUME TypeOK, NEW p \in Proc, Step(p), NEW q \in Proc \ {p}
    PROVE  /\ up'[q] = up[q]
           /\ counter1Metadata'[q] = counter1Metadata[q]
           /\ set1Metadata'[q] = set1Metadata[q]
           /\ counter1'[q] = counter1[q] /\ set1'[q] = set1[q]
           /\ console'[q] = console[q]
           /\ since'[q] = since[q] /\ merges'[q] = merges[q]
  <1> USE DEF TypeOK, own, handlers, history
  <1>1. ASSUME NEW n \in Amount, StorePart(p, n) PROVE counter1Metadata'[q] = counter1Metadata[q]
    BY <1>1 DEF StorePart
  <1>2. CASE \E n \in Amount : StorePart(p, n)
    BY <1>1, <1>2 DEF StorePart
  <1>3. CASE StoreTotal(p)
    BY <1>3 DEF StoreTotal
  <1>4. CASE \E e \in Element : EditSet(p, e)
    BY <1>4 DEF EditSet
  <1>5. CASE Sync(p)
    BY <1>5 DEF Sync
  <1>6. CASE Receive(p)
    BY <1>6 DEF Receive, MergeResponse
  <1>7. CASE Ended(p)
    BY <1>7 DEF Ended
  <1>8. CASE ReceiveFailed(p)
    BY <1>7, <1>8 DEF ReceiveFailed, MergeResponse
  <1>9. CASE Server(p)
    BY <1>9 DEF Server, Accept, CopyNegative, Answer
  <1>10. CASE End(p)
    BY <1>7, <1>10 DEF End
  <1>11. CASE Start(p)
    BY <1>11 DEF Start
  <1> QED
    BY <1>2, <1>3, <1>4, <1>5, <1>6, <1>8, <1>9, <1>10, <1>11 DEF Step, Console

\* The server thread only reads the process's own state.
LEMMA ServerReads ==
    ASSUME NEW p \in Proc, Server(p)
    PROVE  UNCHANGED <<up, own, handlers, console, response, history>>
  BY DEF Server, Accept, CopyNegative, Answer, own, handlers, history

\* Next is a step of one of the processes.
LEMMA NextIsStep == Next <=> \E p \in Proc : Step(p)
  BY DEF Next, Step

-----------------------------------------------------------------------------
(* Connections *)

\* When a process ends, the connections to it fail and its own is closed.
LEMMA EndedLinks ==
    ASSUME TypeOK, NEW p \in Proc, Ended(p), NEW q \in Proc
    PROVE  /\ reading'[q] = <<>>
           /\ socket'[q].state # "connected"
           /\ socket'[q].state = "answered" => q # p /\ socket'[q] = socket[q]
  BY DEF Ended, TypeOK, Closed, Connection

\* The merges of a sync close the connection of the console.
LEMMA MergeResponseLinks ==
    ASSUME TypeOK, NEW p \in Proc, NEW message, MergeResponse(p, message)
    PROVE  /\ socket'[p].state = "closed"
           /\ \A q \in Proc \ {p} : socket'[q] = socket[q]
           /\ console'[p] = "idle"
           /\ \A q \in Proc \ {p} : console'[q] = console[q]
  BY DEF MergeResponse, TypeOK, Closed, Connection

\* What a server has begun to copy is for a console that waits.
LEMMA ReadingWaits ==
    ASSUME TypeOK, LinkInv, NEW p \in Proc, reading[Peer(p)] # <<>>
    PROVE  socket[p].state = "connected" /\ console[p] = "syncing"
  <1>1. Peer(p) \in Proc /\ Peer(Peer(p)) = p
    BY PeerFacts
  <1>2. socket[p].state = "connected"
    BY <1>1 DEF LinkInv
  <1> QED BY <1>2 DEF TypeOK

\* No step breaks what is known of the connections.
LEMMA LinkStep ==
    ASSUME TypeOK, LinkInv, [Next]_vars
    PROVE  LinkInv'
  <1>1. CASE UNCHANGED vars
    BY <1>1 DEF vars, LinkInv
  <1>2. ASSUME NEW p \in Proc, Ended(p) PROVE LinkInv'
    BY <1>2, EndedLinks, PeerFacts DEF LinkInv
  <1>3. ASSUME NEW p \in Proc, NEW message, MergeResponse(p, message), up' = up,
               reading' = reading, socket[p].state # "connected"
        PROVE  LinkInv'
    <2> SUFFICES ASSUME NEW q \in Proc
                 PROVE  /\ reading'[q] # <<>> => socket'[Peer(q)].state = "connected"
                        /\ socket'[q].state = "connected" => up'[q] /\ up'[Peer(q)]
                        /\ socket'[q].state = "answered" => socket'[q].answer \in Message
      BY DEF LinkInv
    <2>1. Peer(q) \in Proc
      BY PeerFacts
    <2>2. reading[q] # <<>> => Peer(q) # p
      BY <1>3 DEF LinkInv
    <2>3. socket'[p].state = "closed" /\ \A r \in Proc \ {p} : socket'[r] = socket[r]
      BY <1>3, MergeResponseLinks
    <2> QED BY <1>3, <2>1, <2>2, <2>3 DEF LinkInv
  <1>4. ASSUME NEW p \in Proc, UNCHANGED <<up, reading, socket>> PROVE LinkInv'
    BY <1>4 DEF LinkInv
  <1>5. ASSUME NEW p \in Proc, Sync(p) PROVE LinkInv'
    <2>1. /\ up' = up /\ reading' = reading /\ up[p] /\ socket[p].state = "closed"
          /\ socket'[p].state = IF up[Peer(p)] THEN "connected" ELSE "failed"
          /\ \A q \in Proc \ {p} : socket'[q] = socket[q]
      BY <1>5 DEF Sync, Idle, TypeOK, Connection
    <2> SUFFICES ASSUME NEW q \in Proc
                 PROVE  /\ reading'[q] # <<>> => socket'[Peer(q)].state = "connected"
                        /\ socket'[q].state = "connected" => up'[q] /\ up'[Peer(q)]
                        /\ socket'[q].state = "answered" => socket'[q].answer \in Message
      BY DEF LinkInv
    <2>2. Peer(q) \in Proc
      BY PeerFacts
    <2>3. reading[q] # <<>> => Peer(q) # p
      BY <2>1 DEF LinkInv
    <2>4. CASE q = p
      BY <2>1, <2>2, <2>3, <2>4 DEF LinkInv
    <2>5. CASE q # p
      BY <2>1, <2>2, <2>3, <2>5 DEF LinkInv
    <2> QED BY <2>4, <2>5
  <1>6. ASSUME NEW p \in Proc, Start(p) PROVE LinkInv'
    BY <1>6, PeerFacts DEF Start, LinkInv, TypeOK
  <1>7. ASSUME NEW p \in Proc, Accept(p) PROVE LinkInv'
    BY <1>7 DEF Accept, LinkInv, TypeOK
  <1>8. ASSUME NEW p \in Proc, CopyNegative(p) PROVE LinkInv'
    <2>1. reading[p] # <<>>
      BY <1>8 DEF CopyNegative
    <2> QED BY <1>8, <2>1 DEF CopyNegative, LinkInv, TypeOK
  <1>9. ASSUME NEW p \in Proc, Answer(p) PROVE LinkInv'
    <2>1. PICK message \in Message :
             /\ socket' = [socket EXCEPT ![Peer(p)] = [state |-> "answered", answer |-> message]]
             /\ reading' = [reading EXCEPT ![p] = <<>>] /\ up' = up
      BY <1>9, AnswerFacts
    <2> SUFFICES ASSUME NEW q \in Proc
                 PROVE  /\ reading'[q] # <<>> => socket'[Peer(q)].state = "connected"
                        /\ socket'[q].state = "connected" => up'[q] /\ up'[Peer(q)]
                        /\ socket'[q].state = "answered" => socket'[q].answer \in Message
      BY DEF LinkInv
    <2>3. Peer(q) \in Proc /\ Peer(p) \in Proc /\ Peer(Peer(q)) = q
      BY PeerFacts
    <2>4. /\ socket'[Peer(p)] = [state |-> "answered", answer |-> message]
          /\ \A r \in Proc \ {Peer(p)} : socket'[r] = socket[r]
          /\ reading'[p] = <<>> /\ \A r \in Proc \ {p} : reading'[r] = reading[r]
      BY <2>1, <2>3 DEF TypeOK
    <2>5. q # p => Peer(q) # Peer(p)
      BY PeerFacts
    <2> QED BY <2>1, <2>3, <2>4, <2>5 DEF LinkInv
  <1>10. ASSUME NEW p \in Proc, Receive(p) PROVE LinkInv'
    BY <1>3, <1>10 DEF Receive
  <1>11. ASSUME NEW p \in Proc, ReceiveFailed(p) PROVE LinkInv'
    BY <1>2, <1>3, <1>11 DEF ReceiveFailed
  <1>12. ASSUME NEW p \in Proc, (\E n \in Amount : StorePart(p, n)) \/ StoreTotal(p)
                                   \/ \E e \in Element : EditSet(p, e)
         PROVE  LinkInv'
    BY <1>4, <1>12 DEF StorePart, StoreTotal, EditSet
  <1> QED
    BY <1>1, <1>2, <1>5, <1>6, <1>7, <1>8, <1>9, <1>10, <1>11, <1>12
    DEF Next, Console, Server, End

-----------------------------------------------------------------------------
(* What a handler knows of its process's own state *)

\* A merge of the answer finds the own entries current, and leaves them so.
LEMMA MergeResponseOwn ==
    ASSUME TypeOK, NEW p \in Proc, OwnAt(p), console[p] # "counting", UNCHANGED own,
           NEW message \in Message, MergeResponse(p, message)
    PROVE  /\ p \in DOMAIN counter1'[p] /\ counter1'[p][p] = counter1Metadata[p]
           /\ p \in DOMAIN set1'[p] /\ set1'[p][p] = set1Metadata[p]
           /\ Consistent(counter1Metadata[p])
           /\ OwnAt(p)'
  <1>1. /\ IsTable(counter1[p], Metadata) /\ counter1Metadata[p] \in Metadata
        /\ IsTable(set1[p], SetMetadata) /\ set1Metadata[p] \in SetMetadata
    BY DEF TypeOK
  <1>2. PICK mine, sets :
           /\ mine = Merged(counter1[p], p, counter1Metadata[p]) /\ IsTable(mine, Metadata)
           /\ sets = MergedSets(set1[p], p, set1Metadata[p]) /\ IsTable(sets, SetMetadata)
           /\ counter1'[p] = Merged(mine, Peer(p), message.counter)
           /\ set1'[p] = MergedSets(sets, Peer(p), message.set)
    BY MergeResponseTables
  <1>3. p \in DOMAIN mine /\ mine[p] = counter1Metadata[p]
    <2>1. /\ DOMAIN mine = DOMAIN counter1[p] \cup {p}
          /\ mine[p] = IF p \in DOMAIN counter1[p] THEN FixConflict(counter1[p][p], counter1Metadata[p])
                                                   ELSE counter1Metadata[p]
      BY <1>2 DEF Merged
    <2>2. CASE p \in DOMAIN counter1[p]
      <3>1. counter1[p][p] = counter1Metadata[p] /\ Consistent(counter1Metadata[p])
        BY <2>2 DEF OwnAt
      <3>2. FixConflict(counter1[p][p], counter1Metadata[p]) = counter1Metadata[p]
        BY <1>1, <3>1, AtMostReflexive, FixConflictNewer
      <3> QED BY <2>1, <2>2, <3>2
    <2> QED BY <2>1, <2>2
  <1>4. p \in DOMAIN sets /\ sets[p] = set1Metadata[p]
    <2>1. /\ DOMAIN sets = DOMAIN set1[p] \cup {p}
          /\ sets[p] = IF p \in DOMAIN set1[p] THEN United(set1[p][p], set1Metadata[p])
                                               ELSE set1Metadata[p]
      BY <1>2 DEF MergedSets
    <2>2. p \in DOMAIN set1[p] => United(set1[p][p], set1Metadata[p]) = set1Metadata[p]
      BY <1>1, UnitedNewer DEF OwnAt
    <2> QED BY <2>1, <2>2
  <1>5. Peer(p) \in Proc /\ Peer(p) # p /\ message.counter \in Metadata /\ message.set \in SetMetadata
    BY PeerFacts DEF Message
  <1>6. p \in DOMAIN counter1'[p] /\ counter1'[p][p] = counter1Metadata[p]
    <2>1. /\ DOMAIN counter1'[p] = DOMAIN mine \cup {Peer(p)}
          /\ \A j \in DOMAIN mine \ {Peer(p)} : counter1'[p][j] = mine[j]
      BY <1>2 DEF Merged
    <2> QED BY <1>3, <1>5, <2>1
  <1>7. p \in DOMAIN set1'[p] /\ set1'[p][p] = set1Metadata[p]
    <2>1. /\ DOMAIN set1'[p] = DOMAIN sets \cup {Peer(p)}
          /\ \A j \in DOMAIN sets \ {Peer(p)} : set1'[p][j] = sets[j]
      BY <1>2, <1>5, MergedSet
    <2> QED BY <1>4, <1>5, <2>1
  <1>8. Consistent(counter1Metadata[p])
    BY DEF OwnAt
  <1>9. OwnAt(p)'
    BY <1>1, <1>6, <1>7, <1>8, AtMostReflexive DEF OwnAt, own
  <1> QED BY <1>6, <1>7, <1>8, <1>9

\* Storing a part leaves the handler's entry behind.
LEMMA StorePartOwn ==
    ASSUME TypeOK, NEW p \in Proc, OwnAt(p), NEW n \in Amount, StorePart(p, n)
    PROVE  OwnAt(p)' /\ AtMost(counter1Metadata[p], counter1Metadata'[p])
  <1> DEFINE md == counter1Metadata[p]
  <1>1. \/ counter1Metadata' = [counter1Metadata EXCEPT ![p] = [md EXCEPT !.positivePayload = @ + n]]
        \/ counter1Metadata' = [counter1Metadata EXCEPT ![p] = [md EXCEPT !.negativePayload = @ + n]]
    BY DEF StorePart
  <1>2. md \in Metadata /\ md.positivePayload + md.negativePayload + n <= MaxCount[p]
    BY DEF StorePart, TypeOK
  <1>3. counter1Metadata'[p] \in Metadata /\ AtMost(md, counter1Metadata'[p])
    <2>1. /\ [md EXCEPT !.positivePayload = @ + n] \in Metadata
          /\ [md EXCEPT !.negativePayload = @ + n] \in Metadata
          /\ AtMost(md, [md EXCEPT !.positivePayload = @ + n])
          /\ AtMost(md, [md EXCEPT !.negativePayload = @ + n])
      BY <1>2, PartType
    <2> QED BY <1>1, <2>1 DEF TypeOK
  <1>4. p \in DOMAIN counter1[p] => AtMost(counter1[p][p], counter1Metadata'[p])
    <2> SUFFICES ASSUME p \in DOMAIN counter1[p] PROVE AtMost(counter1[p][p], counter1Metadata'[p])
      OBVIOUS
    <2>1. counter1[p][p] \in Metadata
      BY DEF TypeOK, IsTable
    <2>2. AtMost(counter1[p][p], md)
      BY DEF OwnAt
    <2> QED BY <1>2, <1>3, <2>1, <2>2, AtMostTransitive
  <1>5. console'[p] = "counting" /\ UNCHANGED <<counter1, set1, set1Metadata>>
    BY DEF StorePart, TypeOK, handlers
  <1> QED BY <1>3, <1>4, <1>5 DEF OwnAt

\* Storing the total and merging it makes the entry current again.
LEMMA StoreTotalOwn ==
    ASSUME TypeOK, NEW p \in Proc, OwnAt(p), StoreTotal(p)
    PROVE  OwnAt(p)' /\ SameParts(counter1Metadata[p], counter1Metadata'[p])
  <1> DEFINE md == counter1Metadata[p]
             done == [md EXCEPT !.totalPayload = Wrap(md.positivePayload - md.negativePayload)]
  <1>1. /\ counter1Metadata' = [counter1Metadata EXCEPT ![p] = done]
        /\ counter1' = [counter1 EXCEPT ![p] = Merged(counter1[p], p, done)]
        /\ UNCHANGED <<set1Metadata, set1>>
    BY DEF StoreTotal
  <1>2. md \in Metadata /\ IsTable(counter1[p], Metadata)
    BY DEF TypeOK
  <1>3. done \in Metadata /\ SameParts(md, done) /\ Consistent(done)
    BY <1>2, TotalType
  <1> HIDE DEF done
  <1>4. counter1Metadata'[p] = done /\ counter1'[p] = Merged(counter1[p], p, done)
    BY <1>1 DEF TypeOK
  <1>5. p \in DOMAIN counter1'[p] /\ counter1'[p][p] = done
    <2>1. /\ p \in DOMAIN counter1'[p]
          /\ counter1'[p][p] = IF p \in DOMAIN counter1[p] THEN FixConflict(counter1[p][p], done)
                                                           ELSE done
      BY <1>4 DEF Merged
    <2>2. CASE p \in DOMAIN counter1[p]
      <3>1. counter1[p][p] \in Metadata /\ AtMost(counter1[p][p], md)
        BY <2>2 DEF OwnAt, TypeOK, IsTable
      <3>2. AtMost(counter1[p][p], done)
        BY <1>3, <3>1 DEF AtMost, SameParts
      <3>3. FixConflict(counter1[p][p], done) = done
        BY <1>3, <3>1, <3>2, FixConflictNewer
      <3> QED BY <2>1, <2>2, <3>3
    <2> QED BY <2>1, <2>2
  <1> QED
    BY <1>1, <1>3, <1>4, <1>5, AtMostReflexive DEF OwnAt

\* An edit is merged in the same command.
LEMMA EditSetOwn ==
    ASSUME TypeOK, NEW p \in Proc, OwnAt(p), NEW e \in Element, EditSet(p, e)
    PROVE  /\ OwnAt(p)'
           /\ set1Metadata[p].tombstone \subseteq set1Metadata'[p].tombstone
           /\ p \in DOMAIN set1'[p] /\ set1'[p][p] = set1Metadata'[p]
  <1>1. PICK edited :
           /\ edited = Insert(set1Metadata[p], e) \/ edited = Remove(set1Metadata[p], e)
           /\ set1Metadata' = [set1Metadata EXCEPT ![p] = edited]
    BY DEF EditSet
  <1>2. /\ set1Metadata[p] \in SetMetadata /\ edited \in SetMetadata
        /\ set1Metadata[p].payload \subseteq edited.payload
        /\ set1Metadata[p].tombstone \subseteq edited.tombstone
    BY <1>1, EditType DEF TypeOK
  <1>3. /\ set1Metadata'[p] = edited /\ set1'[p] = MergedSets(set1[p], p, edited)
        /\ UNCHANGED <<counter1Metadata, counter1, console>>
    BY <1>1 DEF EditSet, TypeOK
  <1>4. p \in DOMAIN set1'[p] /\ set1'[p][p] = edited
    <2>1. IsTable(set1[p], SetMetadata)
      BY DEF TypeOK
    <2>2. /\ DOMAIN set1'[p] = DOMAIN set1[p] \cup {p}
          /\ set1'[p][p] = IF p \in DOMAIN set1[p] THEN United(set1[p][p], edited) ELSE edited
      BY <1>3 DEF MergedSets
    <2>3. p \in DOMAIN set1[p] => United(set1[p][p], edited) = edited
      BY <1>2, UnitedNewer DEF OwnAt
    <2> QED BY <2>2, <2>3
  <1> QED BY <1>2, <1>3, <1>4 DEF OwnAt

\* No step lets the handler lose track of the process's own state.
LEMMA OwnStep ==
    ASSUME TypeOK, LinkInv, OwnInv, [Next]_vars
    PROVE  OwnInv'
  <1>1. CASE UNCHANGED vars
    BY <1>1 DEF vars, OwnInv, OwnAt, own, handlers
  <1>2. ASSUME NEW p \in Proc, Step(p) PROVE OwnAt(p)'
    <2>0. OwnAt(p)
      BY DEF OwnInv
    <2>1. CASE \E n \in Amount : StorePart(p, n)
      BY <2>0, <2>1, StorePartOwn
    <2>2. CASE StoreTotal(p)
      BY <2>0, <2>2, StoreTotalOwn
    <2>3. CASE \E e \in Element : EditSet(p, e)
      BY <2>0, <2>3, EditSetOwn
    <2>4. CASE Sync(p)
      BY <2>0, <2>4 DEF Sync, Idle, OwnAt, TypeOK, own, handlers
    <2>5. CASE Receive(p)
      <3>1. socket[p].answer \in Message /\ MergeResponse(p, socket[p].answer) /\ UNCHANGED own
        BY <2>5 DEF Receive, LinkInv
      <3>2. console[p] = "syncing"
        BY <2>5 DEF Receive, TypeOK
      <3> QED BY <2>0, <3>1, <3>2, MergeResponseOwn
    <2>6. CASE Ended(p)
      BY <2>6, NewType DEF Ended, OwnAt, TypeOK
    <2>7. CASE ReceiveFailed(p)
      <3>1. CASE /\ response[p] # None /\ MergeResponse(p, response[p]) /\ UNCHANGED own
        <4>1. console[p] = "syncing" /\ response[p] \in Message
          BY <2>7, <3>1 DEF ReceiveFailed, TypeOK
        <4> QED BY <2>0, <3>1, <4>1, MergeResponseOwn
      <3> QED BY <2>6, <2>7, <3>1 DEF ReceiveFailed
    <2>8. CASE Server(p) \/ Start(p)
      BY <2>0, <2>8, ServerReads DEF Start, OwnAt, own, handlers
    <2> QED
      BY <1>2, <2>1, <2>2, <2>3, <2>4, <2>5, <2>6, <2>7, <2>8 DEF Step, Console, End
  <1>3. ASSUME NEW p \in Proc, Step(p), NEW q \in Proc PROVE OwnAt(q)'
    <2>1. CASE q = p
      BY <1>2, <1>3, <2>1
    <2>2. CASE q # p
      BY <1>3, <2>2, OthersUntouched DEF OwnInv, OwnAt
    <2> QED BY <2>1, <2>2
  <1>4. ASSUME NEW p \in Proc, Step(p) PROVE OwnInv'
    BY <1>3, <1>4 DEF OwnInv
  <1> QED BY <1>1, <1>4, NextIsStep

-----------------------------------------------------------------------------
(* What a handler knows of the other *)

\* A table grows with every merge, and knows what it grew to.
LEMMA GrowsTransitive ==
    ASSUME NEW t1, NEW t2, NEW t3, IsTable(t1, Metadata), IsTable(t2, Metadata),
           IsTable(t3, Metadata), Grows(t1, t2), Grows(t2, t3)
    PROVE  Grows(t1, t3)
  <1> SUFFICES ASSUME NEW i \in DOMAIN t1 PROVE i \in DOMAIN t3 /\ AtMost(t1[i], t3[i])
    BY DEF Grows
  <1>1. /\ i \in DOMAIN t2 /\ AtMost(t1[i], t2[i])
        /\ i \in DOMAIN t3 /\ AtMost(t2[i], t3[i])
    BY DEF Grows
  <1>2. t1[i] \in Metadata /\ t2[i] \in Metadata /\ t3[i] \in Metadata
    BY <1>1 DEF IsTable
  <1> QED BY <1>1, <1>2, AtMostTransitive

\* A table that is left alone has not shrunk.
LEMMA GrowsReflexive ==
    ASSUME NEW table, IsTable(table, Metadata) PROVE Grows(table, table)
  BY AtMostReflexive DEF Grows, IsTable

\* The merges of a sync lower nothing, and leave the other's entry no less than the answer:
\* with a total of its own, if the other was known before.
LEMMA MergeResponseKnows ==
    ASSUME TypeOK, NEW p \in Proc, NEW message \in Message, MergeResponse(p, message)
    PROVE  /\ Grows(counter1[p], counter1'[p])
           /\ Peer(p) \in DOMAIN counter1'[p] /\ counter1'[p][Peer(p)] \in Metadata
           /\ AtMost(message.counter, counter1'[p][Peer(p)])
           /\ Peer(p) \in DOMAIN counter1[p] => Consistent(counter1'[p][Peer(p)])
  <1>1. PICK mine :
           /\ mine = Merged(counter1[p], p, counter1Metadata[p]) /\ IsTable(mine, Metadata)
           /\ counter1'[p] = Merged(mine, Peer(p), message.counter)
    BY MergeResponseTables
  <1>2. /\ IsTable(counter1[p], Metadata) /\ counter1Metadata[p] \in Metadata
        /\ message.counter \in Metadata /\ Peer(p) \in Proc
    BY PeerFacts DEF TypeOK, Message
  <1>3. Grows(counter1[p], Merged(counter1[p], p, counter1Metadata[p]))
    BY <1>2, MergedCounter
  <1>4. /\ IsTable(Merged(mine, Peer(p), message.counter), Metadata)
        /\ Grows(mine, Merged(mine, Peer(p), message.counter))
        /\ AtMost(message.counter, Merged(mine, Peer(p), message.counter)[Peer(p)])
        /\ Peer(p) \in DOMAIN mine => Consistent(Merged(mine, Peer(p), message.counter)[Peer(p)])
    BY <1>1, <1>2, MergedCounter
  <1>5. Grows(counter1[p], counter1'[p])
    BY <1>1, <1>2, <1>3, <1>4, GrowsTransitive
  <1>6. Peer(p) \in DOMAIN counter1'[p] /\ counter1'[p][Peer(p)] \in Metadata
    BY <1>1, <1>4 DEF Merged, IsTable
  <1>7. Peer(p) \in DOMAIN counter1[p] => Peer(p) \in DOMAIN mine
    BY <1>1 DEF Merged
  <1> QED BY <1>1, <1>4, <1>5, <1>6, <1>7

\* A step of a process that does not end it lowers nothing in its handler.
LEMMA KnowledgeStep ==
    ASSUME TypeOK, LinkInv, NEW p \in Proc, Step(p), NEW q \in Proc
    PROVE  (Ended(p) /\ q = p) \/ Grows(counter1[q], counter1'[q])
  <1>0. IsTable(counter1[q], Metadata)
    BY DEF TypeOK
  <1>1. CASE q # p
    BY <1>0, <1>1, OthersUntouched, GrowsReflexive
  <1>2. CASE q = p /\ counter1' = counter1
    BY <1>0, <1>2, GrowsReflexive
  <1>3. CASE q = p /\ StoreTotal(p)
    <2> DEFINE md == counter1Metadata[p]
               done == [md EXCEPT !.totalPayload = Wrap(md.positivePayload - md.negativePayload)]
    <2>1. counter1'[p] = Merged(counter1[p], p, done)
      BY <1>3 DEF StoreTotal, TypeOK
    <2>2. done \in Metadata
      BY TotalType DEF TypeOK
    <2> HIDE DEF done
    <2>3. Grows(counter1[p], Merged(counter1[p], p, done))
      BY <1>0, <1>3, <2>2, MergedCounter
    <2> QED BY <1>3, <2>1, <2>3
  <1>4. CASE q = p /\ Receive(p)
    <2>1. socket[p].answer \in Message /\ MergeResponse(p, socket[p].answer)
      BY <1>4 DEF Receive, LinkInv
    <2> QED BY <1>4, <2>1, MergeResponseKnows
  <1>5. CASE q = p /\ ReceiveFailed(p) /\ ~Ended(p)
    <2>1. response[p] \in Message /\ MergeResponse(p, response[p])
      BY <1>5 DEF ReceiveFailed, TypeOK
    <2> QED BY <1>5, <2>1, MergeResponseKnows
  <1> QED
    BY <1>1, <1>2, <1>3, <1>4, <1>5
    DEF Step, Console, StorePart, EditSet, Sync, Server, Accept, CopyNegative, Answer,
        End, Start, handlers

\* The second merge of the other's state repairs its total.
LEMMA RepairStep ==
    ASSUME TypeOK, LinkInv, RepairInv, [Next]_vars
    PROVE  RepairInv'
  <1>1. CASE UNCHANGED vars
    BY <1>1 DEF vars, RepairInv
  <1> DEFINE At(p) == /\ merges[p] >= 1 => Peer(p) \in DOMAIN counter1[p]
                      /\ merges[p] >= 2 => Consistent(counter1[p][Peer(p)])
  <1>2. ASSUME NEW p \in Proc, NEW message \in Message, MergeResponse(p, message) PROVE At(p)'
    <2>1. /\ Peer(p) \in DOMAIN counter1'[p]
          /\ Peer(p) \in DOMAIN counter1[p] => Consistent(counter1'[p][Peer(p)])
      BY <1>2, MergeResponseKnows
    <2>2. merges'[p] >= 2 => merges[p] >= 1
      <3>1. merges[p] \in 0 .. 2 /\ merges'[p] = IF merges[p] < 2 THEN merges[p] + 1 ELSE 2
        BY <1>2 DEF MergeResponse, TypeOK
      <3> QED BY <3>1
    <2> QED BY <2>1, <2>2 DEF RepairInv
  <1>3. ASSUME NEW p \in Proc, Step(p) PROVE At(p)'
    <2>1. CASE Ended(p)
      BY <2>1 DEF Ended, TypeOK
    <2>2. CASE StoreTotal(p)
      <3>1. PICK done : counter1'[p] = Merged(counter1[p], p, done)
        BY <2>2 DEF StoreTotal, TypeOK
      <3>2. Peer(p) # p
        BY PeerFacts
      <3>3. Peer(p) \in DOMAIN counter1[p] => /\ Peer(p) \in DOMAIN counter1'[p]
                                              /\ counter1'[p][Peer(p)] = counter1[p][Peer(p)]
        BY <3>1, <3>2 DEF Merged
      <3>4. merges'[p] = merges[p] /\ merges[p] \in 0 .. 2
        BY <2>2 DEF StoreTotal, TypeOK, history
      <3> QED BY <3>3, <3>4 DEF RepairInv
    <2>3. CASE Receive(p)
      <3>1. socket[p].answer \in Message /\ MergeResponse(p, socket[p].answer)
        BY <2>3 DEF Receive, LinkInv
      <3> QED BY <1>2, <3>1
    <2>4. CASE ReceiveFailed(p) /\ ~Ended(p)
      <3>1. response[p] \in Message /\ MergeResponse(p, response[p])
        BY <2>4 DEF ReceiveFailed, TypeOK
      <3> QED BY <1>2, <3>1
    <2>5. CASE UNCHANGED <<counter1, merges>>
      BY <2>5 DEF RepairInv
    <2> QED
      BY <1>3, <2>1, <2>2, <2>3, <2>4, <2>5
      DEF Step, Console, StorePart, EditSet, Sync, Server, Accept, CopyNegative, Answer,
          End, Start, handlers, history
  <1>4. ASSUME NEW p \in Proc, Step(p), NEW q \in Proc PROVE At(q)'
    <2>1. CASE q = p
      BY <1>3, <1>4, <2>1
    <2>2. CASE q # p
      <3>1. counter1'[q] = counter1[q] /\ merges'[q] = merges[q]
        BY <1>4, <2>2, OthersUntouched
      <3> QED BY <3>1 DEF RepairInv
    <2> QED BY <2>1, <2>2
  <1>5. ASSUME NEW p \in Proc, Step(p) PROVE RepairInv'
    BY <1>4, <1>5 DEF RepairInv
  <1> QED BY <1>1, <1>5, NextIsStep

-----------------------------------------------------------------------------
(* What is on its way *)

\* What a running process has counted only grows.
LEMMA CountedStep ==
    ASSUME TypeOK, NEW p \in Proc, Step(p), OwnAt(p), NEW q \in Proc
    PROVE  (Ended(p) /\ q = p) \/ AtMost(counter1Metadata[q], counter1Metadata'[q])
  <1>0. counter1Metadata[q] \in Metadata
    BY DEF TypeOK
  <1>1. CASE counter1Metadata'[q] = counter1Metadata[q]
    BY <1>0, <1>1, AtMostReflexive
  <1>2. CASE q # p
    BY <1>1, <1>2, OthersUntouched
  <1>3. CASE q = p /\ \E n \in Amount : StorePart(p, n)
    BY <1>3, StorePartOwn
  <1>4. CASE q = p /\ StoreTotal(p)
    <2>1. SameParts(counter1Metadata[p], counter1Metadata'[p])
      BY <1>4, StoreTotalOwn
    <2> QED BY <1>0, <1>4, <2>1, PartsType DEF SameParts, AtMost
  <1>5. UNCHANGED counter1Metadata \/ StoreTotal(p) \/ (\E n \in Amount : StorePart(p, n)) \/ Ended(p)
    BY DEF Step, Console, EditSet, Sync, Receive, ReceiveFailed, Server, Accept, CopyNegative,
           Answer, End, Start, own
  <1> QED BY <1>1, <1>2, <1>3, <1>4, <1>5

\* A step of the console's own process: only connecting matters, and nothing is copied yet.
LEMMA PendingOwnStep ==
    ASSUME TypeOK, LinkInv, NEW p \in Proc, PendingAt(p), Step(p)
    PROVE  PendingAt(p)'
  <1> DEFINE q == Peer(p)
  <1>0. q \in Proc /\ q # p /\ Peer(q) = p
    BY PeerFacts
  <1> HIDE DEF q
  <1>1. counter1Metadata'[q] = counter1Metadata[q]
    BY <1>0, OthersUntouched
  <1>2. CASE Ended(p)
    <2>1. socket'[p].state # "connected" /\ socket'[p].state # "answered"
      BY <1>2, EndedLinks
    <2> QED BY <2>1 DEF PendingAt
  <1>3. ASSUME NEW message, MergeResponse(p, message) PROVE PendingAt(p)'
    <2>1. socket'[p].state = "closed"
      BY <1>3, MergeResponseLinks
    <2> QED BY <2>1 DEF PendingAt
  <1>4. CASE Sync(p)
    <2>1. reading[q] = <<>> /\ reading' = reading
      <3>1. console[p] = "idle"
        BY <1>4 DEF Sync, Idle
      <3> QED BY <1>4, <3>1, ReadingWaits DEF Sync, q
    <2>2. since'[p].pending = counter1Metadata[q] /\ counter1Metadata[q] \in Metadata
      <3>1. since' = [since EXCEPT ![p] = [since[p] EXCEPT !.pending = counter1Metadata[q]]]
        BY <1>4 DEF Sync, q
      <3>2. since'[p] = [since[p] EXCEPT !.pending = counter1Metadata[q]]
        BY <3>1 DEF TypeOK
      <3> QED BY <1>0, <3>2 DEF TypeOK
    <2>3. AtMost(since'[p].pending, counter1Metadata'[q])
      BY <1>1, <2>2, AtMostReflexive
    <2>4. socket'[p].state # "answered"
      BY <1>4 DEF Sync, TypeOK, Connection
    <2>5. Len(reading'[q]) = 0
      BY <2>1
    <2> QED BY <2>3, <2>4, <2>5 DEF PendingAt, q
  <1>5. CASE UNCHANGED <<since, reading, socket>>
    BY <1>1, <1>5 DEF PendingAt, q
  <1>6. CASE Server(p)
    <2>1. socket'[p] = socket[p] /\ reading'[q] = reading[q]
      BY <1>0, <1>6 DEF Server, Accept, CopyNegative, Answer, TypeOK, q
    <2>2. since' = since
      BY <1>6, ServerReads DEF history
    <2> QED BY <1>1, <2>1, <2>2 DEF PendingAt, q
  <1> QED
    BY <1>2, <1>3, <1>4, <1>5, <1>6
    DEF Step, Console, StorePart, StoreTotal, EditSet, Receive, ReceiveFailed, End, Start, history

\* A step of the other process: what it counts, copies and answers is no less.
LEMMA PendingPeerStep ==
    ASSUME TypeOK, LinkInv, NEW p \in Proc, PendingAt(p), OwnAt(Peer(p)), Step(Peer(p))
    PROVE  PendingAt(p)'
  <1> DEFINE q == Peer(p)
  <1>0. q \in Proc /\ q # p /\ Peer(q) = p
    BY PeerFacts
  <1> HIDE DEF q
  <1>1. since'[p] = since[p] /\ since[p].pending \in Metadata
    BY <1>0, OthersUntouched DEF q, TypeOK
  <1>2. counter1Metadata[q] \in Metadata
    BY <1>0 DEF TypeOK
  <1>3. CASE Ended(q)
    <2>1. socket'[p].state # "connected" /\ (socket'[p].state = "answered" => socket'[p] = socket[p])
      BY <1>0, <1>3, EndedLinks
    <2> QED BY <1>1, <2>1 DEF PendingAt
  <1>4. CASE socket'[p] = socket[p] /\ reading'[q] = reading[q] /\ ~Ended(q)
    <2>1. AtMost(counter1Metadata[q], counter1Metadata'[q]) /\ counter1Metadata'[q] \in Metadata
      <3>1. TypeOK'
        BY <1>0, TypeStep, NextIsStep DEF q
      <3> QED BY <1>0, <1>4, <3>1, CountedStep DEF q, TypeOK
    <2>2. socket[p].state = "connected" => AtMost(since[p].pending, counter1Metadata'[q])
      BY <1>1, <1>2, <2>1, AtMostTransitive DEF PendingAt, q
    <2> QED BY <1>1, <1>4, <2>2 DEF PendingAt, q
  <1>5. CASE Accept(q)
    <2>1. /\ reading'[q] = <<counter1Metadata[q].positivePayload>>
          /\ socket'[p] = socket[p] /\ counter1Metadata'[q] = counter1Metadata[q]
      BY <1>0, <1>5 DEF Accept, TypeOK, own
    <2>2. socket[p].state = "connected" => AtMost(since[p].pending, counter1Metadata[q])
      BY DEF PendingAt, q
    <2>3. Len(reading'[q]) = 1 /\ reading'[q][1] = counter1Metadata[q].positivePayload
      BY <2>1
    <2> QED BY <1>1, <2>1, <2>2, <2>3 DEF PendingAt, q, AtMost
  <1>6. CASE CopyNegative(q)
    <2>1. /\ reading' = [reading EXCEPT ![q] = Append(reading[q], counter1Metadata[q].negativePayload)]
          /\ socket'[p] = socket[p] /\ counter1Metadata'[q] = counter1Metadata[q]
          /\ Len(reading[q]) = 1 /\ reading[q] \in Seq(T)
      BY <1>0, <1>6 DEF CopyNegative, TypeOK, own
    <2>2. PICK fields \in Seq(T), n \in T : fields = reading[q] /\ n = counter1Metadata[q].negativePayload
      BY <1>2, <2>1 DEF Metadata
    <2>3. /\ Len(Append(fields, n)) = Len(fields) + 1
          /\ \A k \in 1 .. Len(fields) : Append(fields, n)[k] = fields[k]
          /\ Append(fields, n)[Len(fields) + 1] = n
      BY AppendType
    <2>4. reading'[q] = Append(fields, n)
      BY <1>0, <2>1, <2>2 DEF TypeOK
    <2>5. reading'[q][1] = reading[q][1] /\ reading'[q][2] = n
      BY <2>1, <2>2, <2>3, <2>4
    <2>6. socket[p].state = "connected" => /\ AtMost(since[p].pending, counter1Metadata[q])
                                           /\ since[p].pending.positivePayload <= reading[q][1]
      BY <2>1 DEF PendingAt, q
    <2> QED BY <1>1, <2>1, <2>2, <2>5, <2>6 DEF PendingAt, q, AtMost
  <1>7. CASE Answer(q)
    <2>1. PICK message \in Message :
             /\ message.counter.positivePayload = reading[q][1]
             /\ message.counter.negativePayload = reading[q][2]
             /\ socket' = [socket EXCEPT ![Peer(q)] = [state |-> "answered", answer |-> message]]
      BY <1>0, <1>7, AnswerFacts
    <2>2. Len(reading[q]) = 2 /\ reading[q] # <<>>
      BY <1>7 DEF Answer
    <2>3. socket[p].state = "connected"
      BY <1>0, <2>2 DEF LinkInv
    <2>4. since[p].pending.positivePayload <= reading[q][1]
          /\ since[p].pending.negativePayload <= reading[q][2]
      BY <2>2, <2>3 DEF PendingAt, q
    <2>5. socket'[p] = [state |-> "answered", answer |-> message]
      BY <1>0, <2>1 DEF TypeOK
    <2> QED BY <1>1, <2>1, <2>4, <2>5 DEF PendingAt, AtMost
  <1>8. \/ Ended(q) \/ Accept(q) \/ CopyNegative(q) \/ Answer(q)
        \/ socket'[p] = socket[p] /\ reading'[q] = reading[q]
    <2>1. ASSUME NEW message, MergeResponse(q, message) PROVE socket'[p] = socket[p]
      BY <1>0, <2>1, MergeResponseLinks
    <2>2. Sync(q) => socket'[p] = socket[p]
      BY <1>0 DEF Sync, TypeOK
    <2>3. Step(q)
      BY DEF q
    <2> QED
      BY <2>1, <2>2, <2>3
      DEF Step, Console, StorePart, StoreTotal, EditSet, Sync, Receive, ReceiveFailed, Server,
          End, Start
  <1> QED BY <1>3, <1>4, <1>5, <1>6, <1>7, <1>8

\* No step lets an answer on its way fall behind what the sync is owed.
LEMMA PendingStep ==
    ASSUME TypeOK, LinkInv, OwnInv, PendingInv, [Next]_vars
    PROVE  PendingInv'
  <1>1. CASE UNCHANGED vars
    BY <1>1 DEF vars, PendingInv, PendingAt, own, handlers, history
  <1>2. ASSUME NEW p \in Proc, Step(p), NEW q \in Proc PROVE PendingAt(q)'
    <2>1. PendingAt(q) /\ OwnAt(p)
      BY DEF PendingInv, OwnInv
    <2>2. q = p \/ Peer(q) = p
      BY PeerFacts
    <2> QED BY <1>2, <2>1, <2>2, PendingOwnStep, PendingPeerStep
  <1>3. ASSUME NEW p \in Proc, Step(p) PROVE PendingInv'
    BY <1>2, <1>3 DEF PendingInv
  <1> QED BY <1>1, <1>3, NextIsStep

-----------------------------------------------------------------------------
(* Freshness *)

\* A merge of the answer leaves the other's entry no less than what the sync is owed, and
\* any other step but the process's end lowers neither.
LEMMA FreshStep ==
    ASSUME TypeOK, LinkInv, PendingInv, SyncIsFresh, [Next]_vars
    PROVE  SyncIsFresh'
  <1> DEFINE At(p) == \/ AtMost(since[p].latest, NewMetadata(0))
                      \/ /\ Peer(p) \in DOMAIN counter1[p]
                         /\ AtMost(since[p].latest, counter1[p][Peer(p)])
  <1>1. CASE UNCHANGED vars
    BY <1>1 DEF vars, SyncIsFresh
  <1>2. TypeOK'
    BY TypeStep
  <1>3. ASSUME NEW p \in Proc, Grows(counter1[p], counter1'[p]),
               since'[p].latest = since[p].latest
        PROVE  At(p)'
    <2>1. CASE AtMost(since[p].latest, NewMetadata(0))
      BY <1>3, <2>1
    <2>2. CASE /\ Peer(p) \in DOMAIN counter1[p]
               /\ AtMost(since[p].latest, counter1[p][Peer(p)])
      <3>1. /\ Peer(p) \in DOMAIN counter1'[p]
            /\ AtMost(counter1[p][Peer(p)], counter1'[p][Peer(p)])
        BY <1>3, <2>2 DEF Grows
      <3>2. counter1[p][Peer(p)] \in Metadata /\ since[p].latest \in Metadata
        BY <2>2 DEF TypeOK, IsTable
      <3>3. counter1'[p][Peer(p)] \in Metadata
        BY <1>2, <3>1 DEF TypeOK, IsTable
      <3> QED BY <1>3, <2>2, <3>1, <3>2, <3>3, AtMostTransitive
    <2> QED BY <2>1, <2>2 DEF SyncIsFresh
  <1>4. ASSUME NEW p \in Proc, Receive(p) PROVE At(p)'
    <2>1. socket[p].answer \in Message /\ MergeResponse(p, socket[p].answer)
      BY <1>4 DEF Receive, LinkInv
    <2>2. /\ Peer(p) \in DOMAIN counter1'[p] /\ counter1'[p][Peer(p)] \in Metadata
          /\ AtMost(socket[p].answer.counter, counter1'[p][Peer(p)])
      BY <2>1, MergeResponseKnows
    <2>3. AtMost(since[p].pending, socket[p].answer.counter)
      BY <1>4 DEF Receive, PendingInv, PendingAt
    <2>4. since'[p].latest = since[p].pending /\ since[p].pending \in Metadata
      BY <1>4 DEF Receive, TypeOK, Since
    <2>5. socket[p].answer.counter \in Metadata
      BY <2>1 DEF Message
    <2> QED BY <2>2, <2>3, <2>4, <2>5, AtMostTransitive
  <1>5. ASSUME NEW p \in Proc, Ended(p) PROVE At(p)'
    <2>1. since'[p].latest = NewMetadata(0)
      BY <1>5 DEF Ended, TypeOK, Since
    <2> QED BY <2>1, NewType, AtMostReflexive
  <1>6. ASSUME NEW p \in Proc, Step(p), ~Receive(p), ~Ended(p)
        PROVE  since'[p].latest = since[p].latest
    BY <1>6
    DEF Step, Console, StorePart, StoreTotal, EditSet, Sync, ReceiveFailed, Server, Accept,
        CopyNegative, Answer, End, Start, history, TypeOK
  <1>7. ASSUME NEW p \in Proc, Step(p), NEW q \in Proc PROVE At(q)'
    <2>1. CASE q = p /\ (Receive(p) \/ Ended(p))
      BY <1>4, <1>5, <2>1
    <2>2. CASE q = p /\ ~Receive(p) /\ ~Ended(p)
      BY <1>3, <1>6, <1>7, <2>2, KnowledgeStep
    <2>3. CASE q # p
      <3>1. since'[q] = since[q] /\ Grows(counter1[q], counter1'[q])
        BY <1>7, <2>3, OthersUntouched, KnowledgeStep
      <3> QED BY <1>3, <3>1
    <2> QED BY <2>1, <2>2, <2>3
  <1>8. ASSUME NEW p \in Proc, Step(p) PROVE SyncIsFresh'
    BY <1>7, <1>8 DEF SyncIsFresh
  <1> QED BY <1>1, <1>8, NextIsStep

\* As long as a process runs it forgets nothing that it has removed.
LEMMA TombstoneStep ==
    ASSUME TypeOK, OwnInv, NEW p \in Proc, Step(p), NEW q \in Proc
    PROVE  (Ended(p) /\ q = p) \/ set1Metadata[q].tombstone \subseteq set1Metadata'[q].tombstone
  <1>1. CASE q # p
    BY <1>1, OthersUntouched
  <1>2. CASE q = p /\ \E e \in Element : EditSet(p, e)
    <2>1. OwnAt(p)
      BY DEF OwnInv
    <2> QED BY <1>2, <2>1, EditSetOwn
  <1>3. UNCHANGED set1Metadata \/ Ended(p) \/ \E e \in Element : EditSet(p, e)
    BY DEF Step, Console, StorePart, StoreTotal, Sync, Receive, ReceiveFailed, Server, Accept,
           CopyNegative, Answer, End, Start, own
  <1> QED BY <1>1, <1>2, <1>3

-----------------------------------------------------------------------------
(* Theorems *)

\* The invariants hold at the start.
LEMMA InitInv == Init => IInv
  <1> SUFFICES ASSUME Init PROVE IInv
    OBVIOUS
  <1> USE NewType, EmptyTable DEF Init
  <1>1. TypeOK
    BY DEF TypeOK, Closed, Connection, Since
  <1>2. LinkInv /\ RepairInv
    BY PeerFacts DEF LinkInv, RepairInv, Closed, Connection
  <1>3. OwnInv /\ PendingInv
    BY DEF OwnInv, OwnAt, PendingInv, PendingAt, Closed, Connection
  <1>4. SyncIsFresh
    BY AtMostReflexive DEF SyncIsFresh, Since
  <1> QED BY <1>1, <1>2, <1>3, <1>4 DEF IInv

\* Every step keeps them.
LEMMA StepInv == IInv /\ [Next]_vars => IInv'
  BY TypeStep, LinkStep, OwnStep, PendingStep, RepairStep, FreshStep DEF IInv

\* The invariants hold throughout.
LEMMA Invariance == Spec => []IInv
  BY InitInv, StepInv, PTL DEF Spec

\* All that the two processes hold stays within its types: in particular no count leaves
\* the payload type, and what a server copies is at most two fields.
THEOREM TypeCorrect == Spec => []TypeOK
  BY Invariance, PTL DEF IInv

\* Between commands the handler knows the process's own counter and set exactly as they
\* are, whatever old answers have been merged since.
THEOREM OwnEntriesCurrent == Spec => []OwnEntryCurrent
  <1>1. IInv => OwnEntryCurrent
    BY DEF IInv, OwnInv, OwnAt, OwnEntryCurrent, Idle
  <1> QED BY <1>1, Invariance, PTL

\* A sync that got an answer knows at least what the other had counted when it connected.
THEOREM SyncsAreFresh == Spec => []SyncIsFresh
  BY Invariance, PTL DEF IInv

\* A total copied in the middle of a count is gone with the second merge.
THEOREM TornTotalsRepaired == Spec => []TornTotalRepaired
  <1>1. IInv => TornTotalRepaired
    BY DEF IInv, RepairInv, TornTotalRepaired
  <1> QED BY <1>1, Invariance, PTL

\* While a process runs, its handler forgets no id and lowers no part.
THEOREM KnowledgeGrows == Spec => KnowledgeOnlyGrows
  <1> DEFINE Kept == \A p \in Proc : up[p] /\ up'[p] => Grows(counter1[p], counter1'[p])
  <1>1. IInv /\ [Next]_vars => [Kept]_vars
    <2> SUFFICES ASSUME IInv, Next, NEW q \in Proc, up[q], up'[q]
                 PROVE  Grows(counter1[q], counter1'[q])
      OBVIOUS
    <2>1. PICK p \in Proc : Step(p)
      BY NextIsStep
    <2>2. ~(Ended(p) /\ q = p)
      BY DEF Ended, IInv, TypeOK
    <2> QED BY <2>1, <2>2, KnowledgeStep DEF IInv
  <1> QED BY <1>1, Invariance, PTL DEF Spec, KnowledgeOnlyGrows

\* While a process runs, what it has removed is never shown by its handler, whoever inserts
\* it afterwards.
THEOREM RemovedHidden == Spec => RemovedStaysHidden
  <1> DEFINE Hidden == \A p \in Proc : up[p] /\ up'[p] =>
                          \A e \in set1Metadata[p].tombstone : e \notin QueryTwoPSet(set1'[p])
  <1>1. IInv /\ [Next]_vars /\ IInv' => [Hidden]_vars
    <2> SUFFICES ASSUME IInv, Next, IInv', NEW q \in Proc, up[q], up'[q],
                        NEW e \in set1Metadata[q].tombstone
                 PROVE  e \notin QueryTwoPSet(set1'[q])
      OBVIOUS
    <2>1. PICK p \in Proc : Step(p)
      BY NextIsStep
    <2>2. ~(Ended(p) /\ q = p)
      BY DEF Ended, IInv, TypeOK
    <2>3. e \in set1Metadata'[q].tombstone
      BY <2>1, <2>2, TombstoneStep DEF IInv
    <2>4. q \in DOMAIN set1'[q] /\ set1'[q][q] = set1Metadata'[q]
      BY <2>3 DEF IInv, OwnInv, OwnAt, NewSetMetadata
    <2>5. e \in AllRemoved(set1'[q])
      BY <2>3, <2>4 DEF AllRemoved
    <2> QED BY <2>5 DEF QueryTwoPSet
  <1> QED BY <1>1, Invariance, PTL DEF Spec, RemovedStaysHidden

=============================================================================
