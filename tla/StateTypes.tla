----------------------------- MODULE StateTypes -----------------------------
(***************************************************************************)
(* The state-based types of src/src/state_based other than the PNCounter,  *)
(* in use.  As in PNCounterSB, every replica has a handler and a writer,   *)
(* and every state a writer has ever had may reach every handler, at any   *)
(* later time, in any order, any number of times.                          *)
(*                                                                         *)
(* All handlers work alike: they differ in the data, module                *)
(* StateTypesData, and in whether their own operations refresh what they   *)
(* cache.  A behaviour is about one type, chosen at the start, and about   *)
(* one way to give ids to the replicas.                                    *)
(***************************************************************************)
EXTENDS StateTypesData

CONSTANTS
    Replica,        \* the replicas, each with a handler and a writer
    Types,          \* the data types to look at
    Naming,         \* the ways to give ids to the replicas
    HandlerWriter,  \* the replicas that write through their handler, where it can
    Amount,         \* the amounts a grow-only counter is increased by
    Pair,           \* the keys and values that are put into maps
    Vertex,         \* the vertices of graphs
    Edge,           \* and their edges
    Stamp,          \* per replica, the times of its writes to a LWWMultiSet
    Sorted,         \* whether vectors are only appended to in order
    MaxUpdates      \* per type and replica, a bound on its writes

AllTypes == {"GCounter", "GSet", "TwoPSet", "MultiSet", "PriorityQueue",
             "Graph", "Vector", "LWWMultiSet", "ORSet", "GMap", "String"}

ASSUME TypesAssumption == Types \subseteq AllTypes
ASSUME NamingAssumption == \A id \in Naming : DOMAIN id = Replica /\ id \in [Replica -> Nat]
ASSUME WriterAssumption == /\ HandlerWriter \subseteq Replica
                           /\ MaxUpdates \in [AllTypes -> [Replica -> Nat]]
                           /\ Stamp \in [Replica -> SUBSET (Nat \ {0})]
ASSUME DataAssumption == /\ Amount \subseteq Nat \ {0}
                         /\ Pair \subseteq Element \X (Nat \ {0})
                         /\ Vertex \subseteq Element /\ Edge \subseteq Vertex \X Vertex
                         /\ Sorted \in BOOLEAN

VARIABLES
    type,              \* the data type
    id,                \* the id each replica writes under
    metadata,          \* the writers' metadata objects
    replica_metadata,  \* per handler, the table id -> metadata
    payload,           \* per handler, what it has cached of its table
    log,               \* per writer, the states it has had
    known              \* per handler, the writers' states it has been given

vars == <<type, id, metadata, replica_metadata, payload, log, known>>

-----------------------------------------------------------------------------
(* The types *)

NewMetadata ==
    CASE type = "GCounter" -> 0
      [] type = "GSet" -> {}
      [] type = "TwoPSet" -> NewSetMetadata
      [] type = "MultiSet" -> NewMultiSet
      [] type = "PriorityQueue" -> NoCopies
      [] type = "Graph" -> NewGraph
      [] type = "Vector" -> <<>>
      [] type = "LWWMultiSet" -> NewLWWMultiSet
      [] type \in {"ORSet", "GMap"} -> NoCopies
      [] type = "String" -> <<>>

\* An append that keeps the vector sorted.
InOrder(md, e) == \A i \in DOMAIN md : md[i] <= e

\* The times at which r may write: its clock advances between its writes.
Times(r, md) == {t \in Stamp[r] : t > md.currentTime}

RemovedAt(r, md) == {RemoveAt(md, t, e) : t \in Times(r, md), e \in Element}

\* What one write of r can make of a metadata.  Nothing is removed from a
\* LWWMultiSet that was never written to: that would read the last element of an
\* empty map, which is undefined.
Written(r, md) ==
    CASE type = "GCounter" -> {UpdatePayload(md, n) : n \in Amount}
      [] type = "GSet" -> {InsertElement(md, e) : e \in Element}
      [] type = "TwoPSet" -> {Insert(md, e) : e \in Element} \cup {Remove(md, e) : e \in Element}
      [] type = "MultiSet" ->
            {InsertCopy(md, e) : e \in Element} \cup {RemoveCopies(md, e) : e \in Element}
      [] type = "PriorityQueue" -> {Push(md, e) : e \in Element}
      [] type = "Graph" ->
            {InsertVertice(md, v) : v \in Vertex} \cup {RemoveVertice(md, v) : v \in Vertex}
            \cup {InsertEdge(md, e) : e \in Edge} \cup {RemoveEdge(md, e) : e \in Edge}
      [] type = "Vector" -> {PushBack(md, e) : e \in {e \in Element : Sorted => InOrder(md, e)}}
      [] type = "LWWMultiSet" ->
            {InsertAt(md, t, e) : t \in Times(r, md), e \in Element}
            \cup IF md.currentTime > 0 THEN RemovedAt(r, md) ELSE {}
      [] type = "ORSet" ->
            {InsertValue(md, e) : e \in Element} \cup {RemoveValue(md, e) : e \in Element}
      [] type = "GMap" ->
            {InsertPair(md, p[1], p[2]) : p \in Pair}
            \cup {UpdateIncrease(md, p[1], p[2]) : p \in Pair}
      [] type = "String" -> {InsertText(md, pos, e) : pos \in 0 .. Len(md), e \in Element}

\* The types whose handlers have operations of their own that work; those of a
\* multiset and of an ORSet only insert.
WritableHandler == {"GCounter", "GSet", "MultiSet", "Vector", "LWWMultiSet",
                    "ORSet", "GMap", "String"}

\* What a handler's operation can make of its entry.  The entry of a LWWMultiSet
\* has been queried, and so has a payload even when it was never written to.
WrittenByHandler(r, md) ==
    CASE type = "MultiSet" -> {InsertCopy(md, e) : e \in Element}
      [] type = "ORSet" -> {InsertValue(md, e) : e \in Element}
      [] type = "LWWMultiSet" -> Written(r, md) \cup RemovedAt(r, md)
      [] OTHER -> Written(r, md)

\* Those whose operations refresh the cache.
Refreshing == {"MultiSet", "LWWMultiSet", "ORSet", "String"}

\* The metadata of a known id, merged with an incoming one, after what the caller
\* says is removed; only ORSets look at that.
Join(entry, md, removed) ==
    CASE type = "GCounter" -> LargerCount(entry, md)
      [] type = "GSet" -> UnionOfSets(entry, md)
      [] type = "TwoPSet" -> United(entry, md)
      [] type = "MultiSet" -> MostCopiesOfBoth(entry, md)
      [] type = "PriorityQueue" -> KnownAndUnmatched(entry, md)
      [] type = "Graph" -> UnionOfGraphs(entry, md)
      [] type = "Vector" -> FixLocalConflict(entry, md)
      [] type = "LWWMultiSet" -> LastWrite(entry, md)
      [] type = "ORSet" -> UniteAfterRemoval(entry, md, removed)
      [] type = "String" -> FixTextConflict(entry, md)

\* What a handler caches of its table; that of a map depends on more.
Cached(table) ==
    CASE type = "GCounter" -> SumOfCounts(table)
      [] type = "GSet" -> AllElements(table)
      [] type = "TwoPSet" -> CachedTwoPSet(table)
      [] type = "MultiSet" -> CachedMultiSet(table)
      [] type = "PriorityQueue" -> AllCopies(table)
      [] type = "Graph" -> CachedGraph(table)
      [] type = "Vector" -> CachedVector(table)
      [] type = "LWWMultiSet" -> CachedMultiSet(table)
      [] type = "ORSet" -> AllCopies(table)
      [] type = "GMap" -> NewMapCache
      [] type = "String" -> CachedText(table)

-----------------------------------------------------------------------------
(* The handlers *)

\* The removed values a merge is told: per id, or none at all.
ListFor(i, removed) == [j \in {i} |-> removed]
RemovedIn(lists, i) == IF i \in DOMAIN lists THEN lists[i] ELSE NoCopies

\* One turn of the loop of addExternalReplica.
Merged(table, i, md, lists) ==
    [j \in DOMAIN table \cup {i} |->
        IF j # i THEN table[j]
        ELSE IF i \in DOMAIN table /\ type # "GMap" THEN Join(table[i], md, RemovedIn(lists, i))
        ELSE md]

\* Every entry of one table merged into another.  What an ORSet is told is removed
\* is erased from both entries; maps of known ids stay out of a map's table.
MergedTables(table, other, lists) ==
    [j \in DOMAIN table \cup DOMAIN other |->
        IF j \notin DOMAIN other \/ (type = "GMap" /\ j \in DOMAIN table) THEN table[j]
        ELSE IF type = "ORSet"
             THEN Merged(table, j, WithoutCopies(other[j], RemovedIn(lists, j)), lists)[j]
             ELSE Merged(table, j, other[j], lists)[j]]

\* The call ends with the table and the cache that hold its result.
Replace(s, table, cached) ==
    /\ replica_metadata' = [replica_metadata EXCEPT ![s] = table]
    /\ payload' = [payload EXCEPT ![s] = cached]

Init ==
    /\ type \in Types
    /\ id \in Naming
    /\ metadata = [r \in Replica |-> NewMetadata]
    /\ replica_metadata = [s \in Replica |-> <<>>]
    /\ payload = [s \in Replica |-> Cached(<<>>)]
    /\ log = [r \in Replica |-> <<NewMetadata>>]
    /\ known = [s \in Replica |-> {}]

\* The log begins with the state before the first write.
MayWrite(r) == Len(log[r]) <= MaxUpdates[type][r]

ThroughHandler(r) == r \in HandlerWriter /\ type \in WritableHandler

\* The application writes to its metadata object; no handler knows yet.
UpdateMetadata(r) ==
    /\ ~ThroughHandler(r)
    /\ MayWrite(r)
    /\ \E md \in Written(r, metadata[r]) \ {metadata[r]} :
          /\ metadata' = [metadata EXCEPT ![r] = md]
          /\ log' = [log EXCEPT ![r] = Append(@, md)]
    /\ UNCHANGED <<type, id, replica_metadata, payload, known>>

\* Mutant: the cache is refreshed from the table before the write.
UpdateHandlerRefreshFirst(r) ==
    /\ ThroughHandler(r)
    /\ id[r] \in DOMAIN replica_metadata[r]
    /\ MayWrite(r)
    /\ LET entry == replica_metadata[r][id[r]] IN
       \E md \in WrittenByHandler(r, entry) \ {entry} :
          /\ replica_metadata' = [replica_metadata EXCEPT ![r][id[r]] = md]
          /\ payload' = [payload EXCEPT ![r] = Cached(replica_metadata[r])]
          /\ log' = [log EXCEPT ![r] = Append(@, md)]
    /\ known' = [known EXCEPT ![r] = @ \cup {<<r, Len(log'[r])>>}]
    /\ UNCHANGED <<type, id, metadata>>

\* The application writes to its handler's entry.  An id the handler does not
\* know makes the call return at once.
UpdateHandler(r) ==
    /\ ThroughHandler(r)
    /\ id[r] \in DOMAIN replica_metadata[r]
    /\ MayWrite(r)
    /\ LET entry == replica_metadata[r][id[r]] IN
       \E md \in WrittenByHandler(r, entry) \ {entry} :
          /\ replica_metadata' = [replica_metadata EXCEPT ![r][id[r]] = md]
          /\ payload' = IF type \in Refreshing
                        THEN [payload EXCEPT ![r] = Cached(replica_metadata'[r])]
                        ELSE payload
          /\ log' = [log EXCEPT ![r] = Append(@, md)]
    /\ known' = [known EXCEPT ![r] = @ \cup {<<r, Len(log'[r])>>}]
    /\ UNCHANGED <<type, id, metadata>>

\* insert(id, values) of a TwoPSet handler writes into its cache; a bound: once between
\* two merges.
InsertIntoCache(r) ==
    /\ r \in HandlerWriter /\ type = "TwoPSet"
    /\ MayWrite(r)
    /\ id[r] \in DOMAIN replica_metadata[r]
    /\ payload[r] = Cached(replica_metadata[r])
    /\ \E e \in Element : payload' = [payload EXCEPT ![r].payload = @ \cup {e}]
    /\ UNCHANGED <<type, id, metadata, replica_metadata, log, known>>

\* What the writer of r has taken out between its j-th and its k-th state.
RemovedBetween(r, j, k) ==
    AllCopies([i \in j + 1 .. k |-> WithoutCopies(log[r][i - 1], log[r][i])])

\* The lists a caller may hand over with a state of r: none, or what r has removed
\* since one of its earlier states.
Lists(r, k) ==
    {<<>>} \cup IF type = "ORSet"
                THEN {ListFor(id[r], RemovedBetween(r, j, k)) : j \in 1 .. k} ELSE {}

\* Handler s is given the k-th state of the writer of r.
AddExternalReplica(s, r, k, lists) ==
    /\ LET table == Merged(replica_metadata[s], id[r], log[r][k], lists) IN
       Replace(s, table, IF type = "GMap"
                         THEN CachedWithMap(payload[s], table, id[r], log[r][k])
                         ELSE Cached(table))
    /\ known' = [known EXCEPT ![s] = @ \cup {<<r, k>>}]
    /\ UNCHANGED <<type, id, metadata, log>>

\* The states whose content a handler passes on: a map handler those that are in
\* its table, all others what they have merged.
PassedOn(t) ==
    IF type = "GMap"
    THEN {given \in known[t] : log[given[1]][given[2]] = replica_metadata[t][id[given[1]]]}
    ELSE known[t]

\* Handler s is given a copy of handler t; graphs have no such call.
UpdateLocalExternalPayload(s, t, lists) ==
    /\ type # "Graph"
    /\ DOMAIN replica_metadata[t] # {}
    /\ LET table == MergedTables(replica_metadata[s], replica_metadata[t], lists) IN
       Replace(s, table, IF type = "GMap"
                         THEN CachedWithTable(payload[s], table, replica_metadata[t])
                         ELSE Cached(table))
    /\ known' = [known EXCEPT ![s] = @ \cup PassedOn(t)]
    /\ UNCHANGED <<type, id, metadata, log>>

Next ==
    \/ \E r \in Replica : UpdateMetadata(r)
    \/ \E r \in Replica : UpdateHandler(r)
    \/ \E r \in Replica : InsertIntoCache(r)
    \/ \E s, r \in Replica : \E k \in 1 .. Len(log[r]) : \E lists \in Lists(r, k) :
          AddExternalReplica(s, r, k, lists)
    \/ \E s, t \in Replica : \E lists \in UNION {Lists(r, Len(log[r])) : r \in Replica} :
          UpdateLocalExternalPayload(s, t, lists)

Spec == Init /\ [][Next]_vars

-----------------------------------------------------------------------------
(* Properties *)

MetadataOf(t) ==
    CASE t = "GCounter" -> Nat
      [] t = "GSet" -> SUBSET Element
      [] t = "TwoPSet" -> SetMetadata
      [] t = "MultiSet" -> [payload : Copies, tombstone : Copies]
      [] t = "PriorityQueue" -> Copies
      [] t = "Graph" -> [vertices : SUBSET Vertex, vertices_tombstone : SUBSET Vertex,
                         edges : SUBSET Edge, edges_tombstone : SUBSET Edge]
      [] t = "Vector" -> Seq(Element)
      [] t = "LWWMultiSet" -> [currentTime : Nat, payload : Copies, tombstone : Copies]
      [] t \in {"ORSet", "GMap"} -> Copies
      [] t = "String" -> Seq(Element \cup {0})

Metadata == MetadataOf(type)

TypeOK ==
    /\ type \in Types /\ id \in Naming
    /\ metadata \in [Replica -> Metadata]
    /\ log \in [Replica -> Seq(Metadata)]
    /\ \A r \in Replica : log[r] # <<>>
    /\ known \in [Replica -> SUBSET (Replica \X Nat)]
    /\ DOMAIN replica_metadata = Replica /\ DOMAIN payload = Replica
    /\ \A s \in Replica :
          /\ replica_metadata[s] \in [DOMAIN replica_metadata[s] -> Metadata]
          /\ DOMAIN replica_metadata[s] = {id[given[1]] : given \in known[s]}
          /\ \A given \in known[s] : given[2] \in 1 .. Len(log[given[1]])

\* The types whose merges are meant to be order-free: not those of an ORSet, which
\* needs its lists, nor those of a map, whose table takes what comes.
OrderFree == type \notin {"ORSet", "GMap"}

\* What handlers agree on: the entry, and of a text only its characters.
Agreed(md) == IF type = "String" THEN Letters(md) ELSE md
AgreedTable(table) == [i \in DOMAIN table |-> Agreed(table[i])]

\* Strong eventual consistency: handlers that have been given the same states
\* have the same tables, in whatever order, however often and along whatever
\* ways the states came, and whoever else writes under the same id.
SameStatesSameTable ==
    \A s, t \in Replica :
        OrderFree /\ known[s] = known[t] =>
            AgreedTable(replica_metadata[s]) = AgreedTable(replica_metadata[t])

Exclusive(r) == \A q \in Replica \ {r} : id[q] # id[r]

\* When nobody else writes under the id, the entry is the latest of the writer's
\* states that have reached the handler: late and repeated ones change nothing.
EntryIsLatest ==
    \A s, r \in Replica :
        LET reached == {k \in 1 .. Len(log[r]) : <<r, k>> \in known[s]}
        IN  OrderFree /\ Exclusive(r) /\ reached # {} =>
                replica_metadata[s][id[r]] = log[r][Max(reached)]

\* A vector that nobody else writes to holds its elements in the order in which
\* they came in: it is one of the writer's vectors.
ElementsKeepOrder ==
    \A s, r \in Replica :
        type = "Vector" /\ Exclusive(r) /\ id[r] \in DOMAIN replica_metadata[s] =>
            \E k \in 1 .. Len(log[r]) : replica_metadata[s][id[r]] = log[r][k]

\* The cache is that of the table.  Only what a handler has itself written since
\* its last merge can be missing, in the types whose own operations do not
\* refresh the cache; and what a TwoPSet handler inserts is in the cache alone.
CacheLagsOwnWritesOnly ==
    \A s \in Replica :
        \/ type = "GMap"
        \/ payload[s] = Cached(replica_metadata[s])
        \/ /\ ThroughHandler(s) /\ type \notin Refreshing
           /\ Exclusive(s) =>
                 \E k \in 1 .. Len(log[s]) - 1 :
                     payload[s] = Cached([replica_metadata[s] EXCEPT ![id[s]] = log[s][k]])
        \/ /\ s \in HandlerWriter /\ type = "TwoPSet"
           /\ payload[s].tombstone = AllRemoved(replica_metadata[s])
           /\ AllInserted(replica_metadata[s]) \subseteq payload[s].payload

\* The greatest value wins: what a map handler shows for a key is the greatest
\* value in all the maps it has been given, in whatever order they came and
\* though its table may have gone back; only its own writes can be missing.
GreatestValueWins ==
    type = "GMap" => \A s \in Replica, k \in Element :
        LET given == {st \in known[s] : ~(st[1] = s /\ ThroughHandler(s))}
            Greatest(states) == Max({0} \cup {log[st[1]][st[2]][k] : st \in states})
        IN  payload[s].totalPayload[k] \in Greatest(given) .. Greatest(known[s])

\* A handler whose ORSet entry is a state of a sole writer catches up with a later
\* state, when it is told what was removed in between.
ORSetCatchesUp ==
    [][\A s, r \in Replica : \A j, k \in 1 .. Len(log[r]) :
          /\ type = "ORSet" /\ Exclusive(r) /\ j <= k
          /\ id[r] \in DOMAIN replica_metadata[s]
          /\ replica_metadata[s][id[r]] = log[r][j]
          /\ <<r, k>> \in known'[s]
          /\ AddExternalReplica(s, r, k, ListFor(id[r], RemovedBetween(r, j, k)))
          => replica_metadata'[s][id[r]] = log[r][k]]_vars

\* What a metadata says is removed, and what a handler shows.
Tombstones(md) ==
    CASE type = "TwoPSet" -> md.tombstone
      [] type = "MultiSet" -> {e \in Element : md.tombstone[e] > 0}
      [] type = "Graph" -> md.vertices_tombstone
      [] OTHER -> {}

Shown(cached) ==
    CASE type = "TwoPSet" -> cached.payload \ cached.tombstone
      [] type = "MultiSet" -> {e \in Element : QueryMultiset(cached)[e] > 0}
      [] type = "Graph" -> cached.vertices \ cached.vertices_tombstone
      [] OTHER -> {}

\* Once a handler has been given a state in which an element is removed, it never
\* shows the element, under whichever id it is or will be inserted.
RemovedStaysHidden ==
    \A s, r \in Replica : \A k \in 1 .. Len(log[r]) :
        <<r, k>> \in known[s] => Tombstones(log[r][k]) \cap Shown(payload[s]) = {}

\* A handler never loses what an entry has taken in: merging the earlier entry
\* again would not change the later one.
TablesOnlyGrow ==
    [][\A s \in Replica : \A i \in DOMAIN replica_metadata[s] :
          /\ i \in DOMAIN replica_metadata'[s]
          /\ OrderFree /\ replica_metadata'[s][i] # replica_metadata[s][i] =>
                LET entry == replica_metadata'[s][i]
                IN  Agreed(Join(entry, replica_metadata[s][i], NoCopies)) = Agreed(entry)]_vars

=============================================================================
