--------------------------- MODULE StateTypesData ---------------------------
(***************************************************************************)
(* The data of the state-based types that are merged like the counter and  *)
(* the two-phase set: the metadata classes and the merge and refresh code  *)
(* of the handler classes in src/src/state_based.                          *)
(*                                                                         *)
(* For each type: what its metadata holds at first, its operations, how a  *)
(* known and an incoming metadata of one id are merged (the body of the    *)
(* loop of addExternalReplica), and what the handler caches of its table   *)
(* (updateInternalPayload).  A table is a function id -> metadata.         *)
(***************************************************************************)
EXTENDS TwoPSetData, Integers, Sequences, FiniteSetsExt, Functions

Seqs == INSTANCE SequencesExt

ASSUME ElementAssumption == IsFiniteSet(Element) /\ Element \subseteq Int

-----------------------------------------------------------------------------
(* GCounterSB *)

UpdatePayload(md, n) == md + n

LargerCount(known, md) == Max({known, md})

SumOfCounts(table) == SumFunction(table)

-----------------------------------------------------------------------------
(* GSetSB *)

InsertElement(md, e) == md \cup {e}

UnionOfSets(known, md) == known \cup md

AllElements(table) == UNION {table[i] : i \in DOMAIN table}

-----------------------------------------------------------------------------
(* TwoPSetSB, whose metadata and merge are those of TwoPSetData *)

CachedTwoPSet(table) == [payload |-> AllInserted(table), tombstone |-> AllRemoved(table)]

-----------------------------------------------------------------------------
(* Multisets: how many copies of each element they hold *)

Copies == [Element -> Nat]

NoCopies == [e \in Element |-> 0]

OneMore(bag, e) == [bag EXCEPT ![e] = @ + 1]

\* std::set_union keeps as many copies as the multiset with more of them has.
MostCopies(bag1, bag2) == [e \in Element |-> Max({bag1[e], bag2[e]})]

\* Mutant: more copies can be taken away than there are.
Difference(bag, removed) == [e \in Element |-> bag[e] - removed[e]]

\* Every removed copy hides one copy, if there is one left.
WithoutCopies(bag, removed) == [e \in Element |-> Max({bag[e] - removed[e], 0})]

\* All copies of several multisets.
AllCopies(bag) == [e \in Element |-> SumFunction([i \in DOMAIN bag |-> bag[i][e]])]

-----------------------------------------------------------------------------
(* MultiSetSB: one tombstone hides all copies of an element *)

NewMultiSet == [payload |-> NoCopies, tombstone |-> NoCopies]

InsertCopy(md, e) == [md EXCEPT !.payload = OneMore(@, e)]

RemoveCopies(md, e) == [md EXCEPT !.tombstone = OneMore(@, e)]

\* Mutant: the tombstones of the known metadata are forgotten.
MostCopiesOfPayload(known, md) ==
    [md EXCEPT !.payload = MostCopies(known.payload, @)]

MostCopiesOfBoth(known, md) ==
    [payload |-> MostCopies(known.payload, md.payload),
     tombstone |-> MostCopies(known.tombstone, md.tombstone)]

CachedMultiSet(table) ==
    [payload |-> AllCopies([i \in DOMAIN table |-> table[i].payload]),
     tombstone |-> AllCopies([i \in DOMAIN table |-> table[i].tombstone])]

QueryMultiset(cached) ==
    [e \in Element |-> IF cached.tombstone[e] > 0 THEN 0 ELSE cached.payload[e]]

-----------------------------------------------------------------------------
(* PriorityQueueSB: a multiset that is read in the order of its elements *)

Push(md, e) == OneMore(md, e)

\* The known queue, and of the incoming one what has no partner in it.
KnownAndUnmatched(known, md) ==
    [e \in Element |-> known[e] + WithoutCopies(md, known)[e]]

-----------------------------------------------------------------------------
(* ORSetSB: a sorted vector, which is a multiset here.  What a writer has      *)
(* removed is not in its metadata; the caller of a merge hands over a list.    *)

InsertValue(md, e) == OneMore(md, e)

\* One occurrence, if there is one.
RemoveValue(md, e) == WithoutCopies(md, OneMore(NoCopies, e))

\* Mutant: the list is not looked at.
UniteWithoutList(known, md, removed) == KnownAndUnmatched(known, md)

\* The values of the list are erased from what is known before the union.
UniteAfterRemoval(known, md, removed) == KnownAndUnmatched(WithoutCopies(known, removed), md)

-----------------------------------------------------------------------------
(* GMapSB with numbers as values; 0 stands for a key without a value.  Beside  *)
(* its table a handler keeps, per id, a map merged from those it was given     *)
(* (payload), and one map of all (totalPayload).                               *)

InsertPair(md, key, value) == [md EXCEPT ![key] = value]

UpdateIncrease(md, key, increment) == [md EXCEPT ![key] = @ + increment]

NewMapCache == [payload |-> <<>>, totalPayload |-> NoCopies]

\* Mutant: a map that comes later overwrites.
LaterValues(total, md) == [k \in Element |-> IF md[k] > 0 THEN md[k] ELSE total[k]]

GreaterValues(total, md) == MostCopies(total, md)

AllGreaterValues(total, maps) == [k \in Element |-> Max({total[k]} \cup {md[k] : md \in maps})]

\* Only the keys of the incoming map are looked up in what the id had before.
FixSameKeyConflict(md, held) ==
    [k \in Element |-> IF md[k] > 0 THEN Max({md[k], held[k]}) ELSE 0]

\* The table takes the incoming map as it is; the merged one goes to the cache.
CachedWithMap(cached, table, i, md) ==
    LET fixed == IF i \in DOMAIN cached.payload
                 THEN FixSameKeyConflict(md, cached.payload[i]) ELSE md
        total == AllGreaterValues(cached.totalPayload, Range(table))
    IN  [payload |-> [j \in DOMAIN cached.payload \cup {i} |->
                         IF j = i THEN fixed ELSE cached.payload[j]],
         totalPayload |-> GreaterValues(total, fixed)]

\* Another handler's maps of known ids are merged into the cache only.
CachedWithTable(cached, table, other) ==
    [payload |-> [j \in DOMAIN cached.payload \cup DOMAIN other |->
                     IF j \notin DOMAIN cached.payload THEN other[j]
                     ELSE IF j \notin DOMAIN other THEN cached.payload[j]
                     ELSE GreaterValues(cached.payload[j], other[j])],
     totalPayload |-> AllGreaterValues(cached.totalPayload, Range(table) \cup Range(other))]

-----------------------------------------------------------------------------
(* TwoPTwoPGraphSB: two two-phase sets, of vertices and of edges *)

NewGraph == [vertices |-> {}, vertices_tombstone |-> {},
             edges |-> {}, edges_tombstone |-> {}]

InsertVertice(md, v) == [md EXCEPT !.vertices = @ \cup {v}]
RemoveVertice(md, v) == [md EXCEPT !.vertices_tombstone = @ \cup {v}]
InsertEdge(md, e) == [md EXCEPT !.edges = @ \cup {e}]
RemoveEdge(md, e) == [md EXCEPT !.edges_tombstone = @ \cup {e}]

UnionOfGraphs(known, md) ==
    [vertices |-> known.vertices \cup md.vertices,
     vertices_tombstone |-> known.vertices_tombstone \cup md.vertices_tombstone,
     edges |-> known.edges \cup md.edges,
     edges_tombstone |-> known.edges_tombstone \cup md.edges_tombstone]

CachedGraph(table) ==
    LET All(part) == UNION {table[i][part] : i \in DOMAIN table}
    IN  [part \in DOMAIN NewGraph |-> All(part)]

-----------------------------------------------------------------------------
(* VectorSB *)

PushBack(md, e) == Append(md, e)

\* std::merge walks both ranges once, as if they were sorted, and takes from the
\* second only what is smaller.
MergedRanges(v, w) ==
    LET rest[taken \in (0 .. Len(v)) \X (0 .. Len(w))] ==
            LET i == taken[1]
                j == taken[2]
            IN  IF i = Len(v) THEN SubSeq(w, j + 1, Len(w))
                ELSE IF j = Len(w) THEN SubSeq(v, i + 1, Len(v))
                ELSE IF w[j + 1] < v[i + 1] THEN <<w[j + 1]>> \o rest[<<i, j + 1>>]
                                            ELSE <<v[i + 1]>> \o rest[<<i + 1, j>>]
    IN  rest[<<0, 0>>]

Occurrences(v, e) == Cardinality({i \in DOMAIN v : v[i] = e})

\* Mutant: nothing is taken out again.
MergedOnly(known, md) == MergedRanges(known, md)

\* For every element of the incoming vector that has a partner in the known one,
\* the first of its kind is taken out of the merged vector.
FixLocalConflict(known, md) ==
    LET HasPartner(j) == Occurrences(SubSeq(md, 1, j), md[j]) <= Occurrences(known, md[j])
    IN  Seqs!FoldLeftDomain(
            LAMBDA merged, j : IF HasPartner(j) THEN Seqs!RemoveFirst(merged, md[j]) ELSE merged,
            MergedRanges(known, md), md)

\* The vectors merged one after the other; the order of the ids, which is that
\* of a hash table, makes no difference when the vectors are sorted.
CachedVector(table) ==
    Seqs!FoldLeft(LAMBDA merged, i : MergedRanges(merged, table[i]), <<>>,
                  Seqs!SetToSortSeq(DOMAIN table, <))

-----------------------------------------------------------------------------
(* StringOB; a character is an element, and 0 the one that resize() fills in.  *)
(* Blanks, which are trimmed at both ends after a merge, are left out.         *)

\* An insertion at the end finds the text grown by one character first.
InsertText(md, pos, e) ==
    LET text == IF pos >= Len(md) THEN md \o [i \in 1 .. pos + 1 - Len(md) |-> 0] ELSE md
    IN  Seqs!InsertAt(text, pos + 1, e)

Letters(text) == [e \in Element \cup {0} |-> Occurrences(text, e)]

\* Mutant: what only the shorter text has is left out.
LongerText(known, md) == IF Len(known) > Len(md) THEN known ELSE md

\* The longer text, or the incoming one, into which the characters that the other
\* has more of are put, one place after that at which the two differ there.
FixTextConflict(known, md) ==
    LET short == IF Len(known) > Len(md) THEN md ELSE known
        long == IF Len(known) > Len(md) THEN known ELSE md
        Differing(i) == {j \in 1 .. i : short[j] = short[i] /\ short[j] # long[j]}
        Missing(i) ==
            /\ i \in Differing(i)
            /\ Cardinality(Differing(i)) <= Occurrences(short, short[i]) - Occurrences(long, short[i])
    IN  Seqs!FoldLeftDomain(
            LAMBDA merged, i : IF Missing(i) THEN Seqs!InsertAt(merged, i + 1, short[i]) ELSE merged,
            long, short)

\* The cached text is that of all entries with blanks between, in the order of a
\* hash table: it is determined by them.
CachedText(table) == table

-----------------------------------------------------------------------------
(* LWWMultiSetSB: a multiset with the time of its last write *)

NewLWWMultiSet == [currentTime |-> 0, payload |-> NoCopies, tombstone |-> NoCopies]

\* A write at a later time starts from the payload and without tombstones; one
\* from before the last write changes nothing.  The slices of earlier times, which
\* the code keeps in its maps, are never read again.
AtTime(md, t) ==
    IF t > md.currentTime THEN [md EXCEPT !.currentTime = t, !.tombstone = NoCopies] ELSE md

InsertAt(md, t, e) ==
    IF t < md.currentTime THEN md
    ELSE [AtTime(md, t) EXCEPT !.payload = OneMore(@, e)]

\* All that was removed at this time is taken out of the payload again.
RemoveAt(md, t, e) ==
    IF t < md.currentTime THEN md
    ELSE LET removed == OneMore(AtTime(md, t).tombstone, e)
         IN  [currentTime |-> t,
              payload |-> WithoutCopies(md.payload, removed),
              tombstone |-> removed]

\* Mutant: the times are not compared.
IncomingWrite(known, md) == md

\* The last write wins, the known one when both are of the same time.
LastWrite(known, md) == IF known.currentTime >= md.currentTime THEN known ELSE md

=============================================================================
