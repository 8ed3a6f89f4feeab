-------------------------- MODULE StateTypes_proofs ---------------------------
(***************************************************************************)
(* Proofs about the state-based types: for any replicas, ids, elements,    *)
(* times and numbers of writes, and for states that reach the handlers in  *)
(* any order, any number of times.                                         *)
(*                                                                         *)
(* The invariant IInv says why handlers agree: a writer's states only grow *)
(* (ChainInv), and a handler's entry is the least upper bound of the       *)
(* states that were given under its id (LubInv), which does not depend on  *)
(* how they came.  Of vectors and texts, ordered by what is in them, that  *)
(* fixes the elements; their places follow from sortedness (SortedInv),    *)
(* and from the lengths of a sole writer's texts (TextInv).  The entries   *)
(* of a map, and of a LWWMultiSet, are states that were given (HeldInv).   *)
(* What a handler caches follows its table by itself (CacheStep), and what *)
(* a map handler shows is bounded by what it was given (MapInv).           *)
(***************************************************************************)
EXTENDS StateTypes, StateTypesData_proofs

-----------------------------------------------------------------------------
(* The types *)

\* The types whose data are sequences: they are compared by what is in them, not by where.
Sequential == {"Vector", "String"}

\* The types whose merge is a least upper bound.
Lattice == {"GCounter", "GSet", "TwoPSet", "MultiSet", "PriorityQueue", "Graph", "LWWMultiSet",
            "Vector", "String"}

\* What the second metadata of a type knows, compared with the first.
Leq(t, m1, m2) ==
    CASE t = "GCounter" -> m1 <= m2
      [] t = "GSet" -> m1 \subseteq m2
      [] t = "TwoPSet" -> m1.payload \subseteq m2.payload /\ m1.tombstone \subseteq m2.tombstone
      [] t = "MultiSet" -> /\ FewerCopies(m1.payload, m2.payload)
                           /\ FewerCopies(m1.tombstone, m2.tombstone)
      [] t = "PriorityQueue" -> FewerCopies(m1, m2)
      [] t = "Graph" -> /\ m1.vertices \subseteq m2.vertices
                        /\ m1.vertices_tombstone \subseteq m2.vertices_tombstone
                        /\ m1.edges \subseteq m2.edges
                        /\ m1.edges_tombstone \subseteq m2.edges_tombstone
      [] t = "LWWMultiSet" -> m1 = m2 \/ m1.currentTime < m2.currentTime
      [] t = "Vector" -> FewerOf(Element, m1, m2)
      [] t = "String" -> FewerOf(Character, m1, m2)

\* Two metadata that can be merged without a tie: only LWWMultiSets can be tied.
Untied(t, m1, m2) == t = "LWWMultiSet" => Leq(t, m1, m2) \/ Leq(t, m2, m1)

\* The order is one, but for the places of what is in a sequence.
LEMMA LeqOrder ==
    ASSUME NEW t \in Lattice, NEW m1 \in MetadataOf(t), NEW m2 \in MetadataOf(t)
    PROVE  /\ Leq(t, m1, m1)
           /\ t \notin Sequential /\ Leq(t, m1, m2) /\ Leq(t, m2, m1) => m1 = m2
           /\ \A m3 \in MetadataOf(t) : Leq(t, m1, m2) /\ Leq(t, m2, m3) => Leq(t, m1, m3)
  <1>1. CASE t = "GCounter"
    BY <1>1 DEF Leq, MetadataOf
  <1>2. CASE t = "GSet"
    BY <1>2 DEF Leq, MetadataOf
  <1>3. CASE t = "TwoPSet"
    BY <1>3 DEF Leq, MetadataOf, SetMetadata
  <1>4. CASE t = "MultiSet"
    <2> DEFINE Bags == [payload : Copies, tombstone : Copies]
    <2>1. /\ MetadataOf(t) = Bags
          /\ \A m, n : Leq(t, m, n) = (/\ FewerCopies(m.payload, n.payload)
                                       /\ FewerCopies(m.tombstone, n.tombstone))
      BY <1>4 DEF MetadataOf, Leq
    <2>2. \A m \in Bags : m.payload \in Copies /\ m.tombstone \in Copies
      OBVIOUS
    <2>3. \A m, n \in Bags : m.payload = n.payload /\ m.tombstone = n.tombstone => m = n
      OBVIOUS
    <2> HIDE DEF Bags
    <2> QED BY <2>1, <2>2, <2>3, FewerCopiesOrder
  <1>5. CASE t = "PriorityQueue"
    <2>1. MetadataOf(t) = Copies /\ \A m, n : Leq(t, m, n) = FewerCopies(m, n)
      BY <1>5 DEF MetadataOf, Leq
    <2> QED BY <2>1, FewerCopiesOrder
  <1>6. CASE t = "Graph"
    BY <1>6 DEF Leq, MetadataOf
  <1>7. CASE t = "LWWMultiSet"
    BY <1>7 DEF Leq, MetadataOf
  <1>8. CASE t = "Vector"
    <2>1. MetadataOf(t) = Seq(Element) /\ \A m, n : Leq(t, m, n) = FewerOf(Element, m, n)
      BY <1>8 DEF MetadataOf, Leq
    <2> QED BY <1>8, <2>1, FewerOfOrder DEF Sequential
  <1>9. CASE t = "String"
    <2>1. MetadataOf(t) = Seq(Character) /\ \A m, n : Leq(t, m, n) = FewerOf(Character, m, n)
      BY <1>9 DEF MetadataOf, Leq, Character
    <2> QED BY <1>9, <2>1, FewerOfOrder DEF Sequential
  <1> QED BY <1>1, <1>2, <1>3, <1>4, <1>5, <1>6, <1>7, <1>8, <1>9 DEF Lattice

\* Handlers agree on metadata that know the same: sorted vectors of the same elements are the
\* same, and of texts only the characters count.
LEMMA AlikeAgree ==
    ASSUME type \in Lattice, NEW m1 \in Metadata, NEW m2 \in Metadata,
           Leq(type, m1, m2), Leq(type, m2, m1),
           type = "Vector" => Ascending(m1) /\ Ascending(m2)
    PROVE  Agreed(m1) = Agreed(m2)
  <1>1. CASE type \notin Sequential
    <2>1. m1 = m2
      BY <1>1, LeqOrder DEF Metadata
    <2> QED BY <2>1
  <1>2. CASE type = "Vector"
    <2>1. /\ m1 \in Seq(Element) /\ m2 \in Seq(Element)
          /\ FewerOf(Element, m1, m2) /\ FewerOf(Element, m2, m1)
      BY <1>2 DEF Metadata, MetadataOf, Leq
    <2>2. \A e \in Element : Occurrences(m1, e) = Occurrences(m2, e)
      BY <2>1, FewerOfOrder
    <2>3. m1 = m2
      BY <1>2, <2>1, <2>2, AscendingEqual
    <2> QED BY <2>3
  <1>3. CASE type = "String"
    <2>1. /\ m1 \in Seq(Character) /\ m2 \in Seq(Character)
          /\ FewerOf(Character, m1, m2) /\ FewerOf(Character, m2, m1)
      BY <1>3 DEF Metadata, MetadataOf, Leq, Character
    <2>2. \A e \in Character : Occurrences(m1, e) = Occurrences(m2, e)
      BY <2>1, FewerOfOrder
    <2>3. Letters(m1) = Letters(m2)
      BY <2>2 DEF Letters, Character
    <2> QED BY <1>3, <2>3 DEF Agreed
  <1> QED BY <1>1, <1>2, <1>3 DEF Sequential

\* The constructors' results; nothing is known to them but the time 0.
LEMMA NewFacts ==
    ASSUME type \in AllTypes
    PROVE  /\ NewMetadata \in Metadata
           /\ type \in Lattice \ {"LWWMultiSet"} => \A md \in Metadata : Leq(type, NewMetadata, md)
           /\ type = "LWWMultiSet" => NewMetadata = NewLWWMultiSet
  <1>1. CASE type = "GCounter"
    BY <1>1 DEF NewMetadata, Metadata, MetadataOf, Leq
  <1>2. CASE type = "GSet"
    BY <1>2 DEF NewMetadata, Metadata, MetadataOf, Leq
  <1>3. CASE type = "TwoPSet"
    BY <1>3 DEF NewMetadata, Metadata, MetadataOf, Leq, NewSetMetadata, SetMetadata
  <1>4. CASE type = "MultiSet"
    <2>1. /\ NewMetadata = NewMultiSet /\ Metadata = [payload : Copies, tombstone : Copies]
          /\ \A m, n : Leq(type, m, n) = (/\ FewerCopies(m.payload, n.payload)
                                          /\ FewerCopies(m.tombstone, n.tombstone))
      BY <1>4 DEF NewMetadata, Metadata, MetadataOf, Leq
    <2>2. NewMultiSet.payload = NoCopies /\ NewMultiSet.tombstone = NoCopies
      BY DEF NewMultiSet
    <2>3. NewMultiSet \in [payload : Copies, tombstone : Copies]
      BY NoCopiesFacts DEF NewMultiSet
    <2>4. ASSUME NEW md \in Metadata PROVE Leq(type, NewMetadata, md)
      <3>1. md.payload \in Copies /\ md.tombstone \in Copies
        BY <2>1
      <3>2. FewerCopies(NoCopies, md.payload) /\ FewerCopies(NoCopies, md.tombstone)
        BY <3>1, NoCopiesFacts
      <3> QED BY <2>1, <2>2, <3>2
    <2> QED BY <1>4, <2>1, <2>3, <2>4
  <1>5. CASE type = "PriorityQueue"
    BY <1>5, NoCopiesFacts DEF NewMetadata, Metadata, MetadataOf, Leq
  <1>6. CASE type = "Graph"
    BY <1>6 DEF NewMetadata, Metadata, MetadataOf, Leq, NewGraph
  <1>7. CASE type = "LWWMultiSet"
    BY <1>7, NoCopiesFacts DEF NewMetadata, Metadata, MetadataOf, NewLWWMultiSet
  <1>8. CASE type \in {"ORSet", "GMap"}
    BY <1>8, NoCopiesFacts DEF NewMetadata, Metadata, MetadataOf, Lattice
  <1>9. CASE type \in Sequential
    <2>1. PICK S : S = IF type = "Vector" THEN Element ELSE Character
      OBVIOUS
    <2>2. /\ NewMetadata = <<>> /\ Metadata = Seq(S)
          /\ \A m, n : Leq(type, m, n) = FewerOf(S, m, n)
      BY <1>9, <2>1 DEF Sequential, NewMetadata, Metadata, MetadataOf, Leq, Character
    <2>3. <<>> \in Seq(S)
      OBVIOUS
    <2> QED BY <1>9, <2>2, <2>3, FewerOfOrder DEF Sequential
  <1> QED BY <1>1, <1>2, <1>3, <1>4, <1>5, <1>6, <1>7, <1>8, <1>9 DEF AllTypes, Sequential

\* Merging is taking the least upper bound: it knows what both know, and no more.
LEMMA JoinFacts ==
    ASSUME type \in Lattice, NEW m1 \in Metadata, NEW m2 \in Metadata, NEW removed,
           Untied(type, m1, m2)
    PROVE  LET both == Join(m1, m2, removed)
           IN  /\ both \in Metadata
               /\ Leq(type, m1, both) /\ Leq(type, m2, both)
               /\ \A m3 \in Metadata : Leq(type, m1, m3) /\ Leq(type, m2, m3) => Leq(type, both, m3)
               /\ type = "LWWMultiSet" => both = m1 \/ both = m2
  <1> DEFINE both == Join(m1, m2, removed)
  <1>1. CASE type = "GCounter"
    <2>1. m1 \in Nat /\ m2 \in Nat /\ both = IF m1 >= m2 THEN m1 ELSE m2
      BY <1>1, MaxOfTwo DEF Join, LargerCount, Metadata, MetadataOf
    <2> QED BY <1>1, <2>1 DEF Leq, Metadata, MetadataOf
  <1>2. CASE type = "GSet"
    BY <1>2 DEF Join, UnionOfSets, Leq, Metadata, MetadataOf
  <1>3. CASE type = "TwoPSet"
    <2>1. both = United(m1, m2) /\ Metadata = SetMetadata
      BY <1>3 DEF Join, Metadata, MetadataOf
    <2> HIDE DEF both
    <2> QED BY <1>3, <2>1 DEF United, Leq, SetMetadata, both
  <1>4. CASE type = "MultiSet"
    <2> DEFINE p == MostCopies(m1.payload, m2.payload)
               t == MostCopies(m1.tombstone, m2.tombstone)
    <2>1. both = [payload |-> p, tombstone |-> t]
      BY <1>4 DEF Join, MostCopiesOfBoth
    <2>2. /\ Metadata = [payload : Copies, tombstone : Copies]
          /\ \A m, n : Leq(type, m, n) = (/\ FewerCopies(m.payload, n.payload)
                                          /\ FewerCopies(m.tombstone, n.tombstone))
      BY <1>4 DEF Metadata, MetadataOf, Leq
    <2>3. /\ m1.payload \in Copies /\ m2.payload \in Copies
          /\ m1.tombstone \in Copies /\ m2.tombstone \in Copies
      BY <2>2
    <2>4. /\ p \in Copies /\ FewerCopies(m1.payload, p) /\ FewerCopies(m2.payload, p)
          /\ t \in Copies /\ FewerCopies(m1.tombstone, t) /\ FewerCopies(m2.tombstone, t)
      BY <2>3, MostCopiesFacts
    <2>5. ASSUME NEW m3 \in Metadata, Leq(type, m1, m3), Leq(type, m2, m3)
          PROVE  FewerCopies(p, m3.payload) /\ FewerCopies(t, m3.tombstone)
      <3>1. m3.payload \in Copies /\ m3.tombstone \in Copies
        BY <2>2
      <3>2. /\ FewerCopies(m1.payload, m3.payload) /\ FewerCopies(m2.payload, m3.payload)
            /\ FewerCopies(m1.tombstone, m3.tombstone) /\ FewerCopies(m2.tombstone, m3.tombstone)
        BY <2>2, <2>5
      <3> QED BY <2>3, <3>1, <3>2, MostCopiesFacts
    <2>6. both.payload = p /\ both.tombstone = t
      BY <2>1
    <2> HIDE DEF p, t
    <2>7. both \in Metadata
      BY <2>1, <2>2, <2>4
    <2> HIDE DEF both
    <2>8. Leq(type, m1, both) /\ Leq(type, m2, both)
      BY <2>2, <2>4, <2>6
    <2>9. ASSUME NEW m3 \in Metadata, Leq(type, m1, m3), Leq(type, m2, m3)
          PROVE  Leq(type, both, m3)
      BY <2>2, <2>5, <2>6, <2>9
    <2> QED BY <1>4, <2>7, <2>8, <2>9 DEF both
  <1>5. CASE type = "PriorityQueue"
    <2>1. m1 \in Copies /\ m2 \in Copies /\ Metadata = Copies
      BY <1>5 DEF Metadata, MetadataOf
    <2>2. both = MostCopies(m1, m2)
      BY <1>5, <2>1, UnmatchedIsMost DEF Join
    <2>3. \A m, n : Leq(type, m, n) = FewerCopies(m, n)
      BY <1>5 DEF Leq
    <2> HIDE DEF both
    <2> QED BY <1>5, <2>1, <2>2, <2>3, MostCopiesFacts DEF both
  <1>6. CASE type = "Graph"
    <2>1. both = UnionOfGraphs(m1, m2)
      BY <1>6 DEF Join
    <2> HIDE DEF both
    <2> QED BY <1>6, <2>1 DEF UnionOfGraphs, Leq, Metadata, MetadataOf, both
  <1>7. CASE type = "LWWMultiSet"
    <2>1. both = IF m1.currentTime >= m2.currentTime THEN m1 ELSE m2
      BY <1>7 DEF Join, LastWrite
    <2>2. m1.currentTime \in Nat /\ m2.currentTime \in Nat
      BY <1>7 DEF Metadata, MetadataOf
    <2>3. Leq(type, m1, m2) \/ Leq(type, m2, m1)
      BY <1>7 DEF Untied
    <2>4. \A m, n : Leq(type, m, n) = (m = n \/ m.currentTime < n.currentTime)
      BY <1>7 DEF Leq
    <2> HIDE DEF both
    <2>5. both = m1 \/ both = m2
      BY <2>1
    <2>6. Leq(type, m1, both) /\ Leq(type, m2, both)
      <3>1. CASE m1.currentTime >= m2.currentTime
        <4>1. both = m1
          BY <2>1, <3>1
        <4>2. Leq(type, m1, m2) => m1 = m2
          <5>1. Leq(type, m1, m2) => (m1 = m2 \/ m1.currentTime < m2.currentTime)
            BY <2>4
          <5> QED BY <2>2, <3>1, <5>1
        <4>3. Leq(type, m1, m1)
          BY <2>4
        <4> QED BY <2>3, <4>1, <4>2, <4>3
      <3>2. CASE ~(m1.currentTime >= m2.currentTime)
        <4>1. both = m2
          BY <2>1, <3>2
        <4>2. m1.currentTime < m2.currentTime
          BY <2>2, <3>2
        <4> QED BY <2>4, <4>1, <4>2
      <3> QED BY <3>1, <3>2
    <2>7. both \in Metadata
      BY <2>5
    <2>8. \A m3 \in Metadata : Leq(type, m1, m3) /\ Leq(type, m2, m3) => Leq(type, both, m3)
      BY <2>5
    <2> QED BY <2>5, <2>6, <2>7, <2>8 DEF both
  <1>8. CASE type \in Sequential
    <2>1. PICK S : S = IF type = "Vector" THEN Element ELSE Character
      OBVIOUS
    <2>2. Metadata = Seq(S) /\ \A m, n : Leq(type, m, n) = FewerOf(S, m, n)
      BY <1>8, <2>1 DEF Sequential, Metadata, MetadataOf, Leq, Character
    <2>3. /\ both \in Seq(S)
          /\ \A e : Occurrences(both, e) = IF Occurrences(m1, e) >= Occurrences(m2, e)
                                           THEN Occurrences(m1, e) ELSE Occurrences(m2, e)
      <3>1. CASE type = "Vector"
        <4>1. S = Element /\ both = FixLocalConflict(m1, m2)
          BY <2>1, <3>1 DEF Join
        <4> QED BY <2>2, <4>1, FixLocalConflictFacts
      <3>2. CASE type = "String"
        <4>1. S = Character /\ both = FixTextConflict(m1, m2)
          BY <2>1, <3>2 DEF Join
        <4> QED BY <2>2, <4>1, FixTextConflictFacts
      <3> QED BY <1>8, <3>1, <3>2 DEF Sequential
    <2> HIDE DEF both
    <2>4. /\ FewerOf(S, m1, both) /\ FewerOf(S, m2, both)
          /\ \A x : FewerOf(S, m1, x) /\ FewerOf(S, m2, x) => FewerOf(S, both, x)
      BY <2>2, <2>3, MostOfBoth
    <2> QED BY <1>8, <2>2, <2>3, <2>4 DEF both, Sequential
  <1> QED BY <1>1, <1>2, <1>3, <1>4, <1>5, <1>6, <1>7, <1>8 DEF Lattice, Sequential

\* Merging what is known already changes nothing on which handlers agree.
LEMMA JoinAbsorbs ==
    ASSUME type \in Lattice, NEW m1 \in Metadata, NEW m2 \in Metadata, NEW removed,
           Leq(type, m2, m1), type = "Vector" => Ascending(m1) /\ Ascending(m2)
    PROVE  Agreed(Join(m1, m2, removed)) = Agreed(m1)
  <1>1. PICK both : both = Join(m1, m2, removed)
    OBVIOUS
  <1>2. /\ both \in Metadata /\ Leq(type, m1, both)
        /\ Leq(type, m1, m1) /\ Leq(type, m2, m1) => Leq(type, both, m1)
    BY <1>1, JoinFacts DEF Untied
  <1>3. Leq(type, m1, m1)
    BY LeqOrder DEF Metadata
  <1>4. type = "Vector" => Ascending(both)
    BY <1>1, FixLocalConflictFacts DEF Join, Metadata, MetadataOf
  <1>5. Agreed(both) = Agreed(m1)
    BY <1>2, <1>3, <1>4, AlikeAgree
  <1> QED BY <1>1, <1>5

\* A write at a later time than the last makes a metadata of that time.
LEMMA WrittenAtFacts ==
    ASSUME NEW md \in [currentTime : Nat, payload : Copies, tombstone : Copies],
           NEW t \in Nat, t > md.currentTime, NEW e \in Element
    PROVE  /\ InsertAt(md, t, e) \in [currentTime : Nat, payload : Copies, tombstone : Copies]
           /\ RemoveAt(md, t, e) \in [currentTime : Nat, payload : Copies, tombstone : Copies]
           /\ InsertAt(md, t, e).currentTime = t /\ RemoveAt(md, t, e).currentTime = t
  <1>1. /\ AtTime(md, t) = [currentTime |-> t, payload |-> md.payload, tombstone |-> NoCopies]
        /\ ~(t < md.currentTime)
    <2>1. md.currentTime \in Nat
      OBVIOUS
    <2>2. AtTime(md, t) = [[md EXCEPT !.currentTime = t] EXCEPT !.tombstone = NoCopies]
      BY <2>1 DEF AtTime
    <2>3. AtTime(md, t) = [currentTime |-> t, payload |-> md.payload, tombstone |-> NoCopies]
      BY <2>2
    <2> QED BY <2>1, <2>3
  <1>2. InsertAt(md, t, e) =
           [currentTime |-> t, payload |-> OneMore(md.payload, e), tombstone |-> NoCopies]
    BY <1>1 DEF InsertAt
  <1>3. RemoveAt(md, t, e) =
           [currentTime |-> t, payload |-> WithoutCopies(md.payload, OneMore(NoCopies, e)),
            tombstone |-> OneMore(NoCopies, e)]
    BY <1>1 DEF RemoveAt
  <1>4. /\ OneMore(md.payload, e) \in Copies /\ NoCopies \in Copies
        /\ OneMore(NoCopies, e) \in Copies
    BY OneMoreFacts, NoCopiesFacts
  <1>5. WithoutCopies(md.payload, OneMore(NoCopies, e)) \in Copies
    BY <1>4, WithoutCopiesFacts
  <1> QED BY <1>2, <1>3, <1>4, <1>5

\* What a write makes of a metadata: one of the same type, that knows more.
LEMMA WrittenFacts ==
    ASSUME type \in AllTypes, NEW r \in Replica, NEW md \in Metadata,
           NEW new \in Written(r, md) \cup WrittenByHandler(r, md)
    PROVE  /\ new \in Metadata
           /\ type \in Lattice => Leq(type, md, new)
           /\ type = "LWWMultiSet" => /\ new.currentTime \in Stamp[r]
                                      /\ md.currentTime < new.currentTime
           /\ type = "Vector" /\ Sorted /\ Ascending(md) => Ascending(new)
           /\ type = "String" => Len(md) < Len(new)
  <1>1. CASE type = "GCounter"
    <2>1. md \in Nat /\ \E n \in Amount : new = md + n
      BY <1>1 DEF Metadata, MetadataOf, Written, WrittenByHandler, UpdatePayload
    <2>2. new \in Nat /\ md <= new
      BY <2>1, DataAssumption
    <2> QED BY <1>1, <2>2 DEF Metadata, MetadataOf, Leq
  <1>2. CASE type = "GSet"
    <2>1. md \subseteq Element /\ \E e \in Element : new = md \cup {e}
      BY <1>2 DEF Metadata, MetadataOf, Written, WrittenByHandler, InsertElement
    <2> QED BY <1>2, <2>1 DEF Metadata, MetadataOf, Leq
  <1>3. CASE type = "TwoPSet"
    <2>1. md \in SetMetadata /\ \E e \in Element : new = Insert(md, e) \/ new = Remove(md, e)
      BY <1>3 DEF Metadata, MetadataOf, Written, WrittenByHandler
    <2>2. /\ new \in SetMetadata /\ md.payload \subseteq new.payload
          /\ md.tombstone \subseteq new.tombstone
      BY <2>1 DEF SetMetadata, Insert, Remove
    <2> QED BY <1>3, <2>2 DEF Metadata, MetadataOf, Leq
  <1>4. CASE type = "MultiSet"
    <2>1. PICK e \in Element : new = InsertCopy(md, e) \/ new = RemoveCopies(md, e)
      BY <1>4 DEF Written, WrittenByHandler
    <2>2. /\ Metadata = [payload : Copies, tombstone : Copies]
          /\ Leq(type, md, new) <=> (/\ FewerCopies(md.payload, new.payload)
                                     /\ FewerCopies(md.tombstone, new.tombstone))
      BY <1>4 DEF Metadata, MetadataOf, Leq
    <2>3. /\ OneMore(md.payload, e) \in Copies /\ FewerCopies(md.payload, OneMore(md.payload, e))
          /\ OneMore(md.tombstone, e) \in Copies
          /\ FewerCopies(md.tombstone, OneMore(md.tombstone, e))
          /\ FewerCopies(md.payload, md.payload) /\ FewerCopies(md.tombstone, md.tombstone)
      BY <2>2, OneMoreFacts, FewerCopiesOrder
    <2>4. /\ new \in [payload : Copies, tombstone : Copies]
          /\ new.payload = md.payload \/ new.payload = OneMore(md.payload, e)
          /\ new.tombstone = md.tombstone \/ new.tombstone = OneMore(md.tombstone, e)
      BY <2>1, <2>2, <2>3 DEF InsertCopy, RemoveCopies
    <2> QED BY <1>4, <2>2, <2>3, <2>4
  <1>5. CASE type = "PriorityQueue"
    <2>1. md \in Copies /\ \E e \in Element : new = OneMore(md, e)
      BY <1>5 DEF Metadata, MetadataOf, Written, WrittenByHandler, Push
    <2>2. new \in Copies /\ FewerCopies(md, new)
      BY <2>1, OneMoreFacts
    <2> QED BY <1>5, <2>2 DEF Metadata, MetadataOf, Leq
  <1>6. CASE type = "Graph"
    <2> DEFINE Graphs == [vertices : SUBSET Vertex, vertices_tombstone : SUBSET Vertex,
                          edges : SUBSET Edge, edges_tombstone : SUBSET Edge]
    <2>1. /\ md \in Graphs
          /\ \/ \E v \in Vertex : new = InsertVertice(md, v) \/ new = RemoveVertice(md, v)
             \/ \E e \in Edge : new = InsertEdge(md, e) \/ new = RemoveEdge(md, e)
      BY <1>6 DEF Metadata, MetadataOf, Written, WrittenByHandler
    <2>2. /\ new \in Graphs
          /\ md.vertices \subseteq new.vertices
          /\ md.vertices_tombstone \subseteq new.vertices_tombstone
          /\ md.edges \subseteq new.edges /\ md.edges_tombstone \subseteq new.edges_tombstone
      BY <2>1 DEF InsertVertice, RemoveVertice, InsertEdge, RemoveEdge
    <2> QED BY <1>6, <2>2 DEF Metadata, MetadataOf, Leq
  <1>7. CASE type = "LWWMultiSet"
    <2>1. Metadata = [currentTime : Nat, payload : Copies, tombstone : Copies]
      BY <1>7 DEF Metadata, MetadataOf
    <2>2. PICK t \in Times(r, md), e \in Element :
             new = InsertAt(md, t, e) \/ new = RemoveAt(md, t, e)
      BY <1>7 DEF Written, WrittenByHandler, RemovedAt
    <2>3. t \in Stamp[r] /\ t \in Nat /\ t > md.currentTime
      BY <2>2, WriterAssumption DEF Times
    <2>4. new \in Metadata /\ new.currentTime = t
      BY <2>1, <2>2, <2>3, WrittenAtFacts
    <2>5. md.currentTime < new.currentTime
      BY <2>1, <2>3, <2>4
    <2>6. Leq(type, md, new)
      BY <1>7, <2>5 DEF Leq
    <2> QED BY <1>7, <2>3, <2>4, <2>5, <2>6
  <1>8. CASE type = "ORSet"
    <2>1. /\ md \in Copies
          /\ \E e \in Element : \/ new = OneMore(md, e)
                                \/ new = WithoutCopies(md, OneMore(NoCopies, e))
      BY <1>8 DEF Metadata, MetadataOf, Written, WrittenByHandler, InsertValue, RemoveValue
    <2>2. new \in Copies
      BY <2>1, OneMoreFacts, NoCopiesFacts, WithoutCopiesFacts
    <2> QED BY <1>8, <2>2 DEF Metadata, MetadataOf, Lattice
  <1>9. CASE type = "GMap"
    <2>1. /\ md \in Copies
          /\ \E p \in Pair : \/ new = [md EXCEPT ![p[1]] = p[2]]
                             \/ new = [md EXCEPT ![p[1]] = @ + p[2]]
      BY <1>9 DEF Metadata, MetadataOf, Written, WrittenByHandler, InsertPair, UpdateIncrease
    <2>2. \A p \in Pair : p[1] \in Element /\ p[2] \in Nat
      BY DataAssumption
    <2>3. new \in Copies
      BY <2>1, <2>2 DEF Copies
    <2> QED BY <1>9, <2>3 DEF Metadata, MetadataOf, Lattice
  <1>10. CASE type = "Vector"
    <2>1. md \in Seq(Element) /\ \E e \in Element : new = PushBack(md, e) /\ (Sorted => InOrder(md, e))
      BY <1>10 DEF Metadata, MetadataOf, Written, WrittenByHandler
    <2>2. PICK e \in Element : new = PushBack(md, e) /\ (Sorted => InOrder(md, e))
      BY <2>1
    <2>3. /\ new \in Seq(Element) /\ FewerOf(Element, md, new)
          /\ Sorted /\ Ascending(md) => Ascending(new)
      BY <2>1, <2>2, PushBackFacts DEF InOrder
    <2> QED BY <1>10, <2>3 DEF Metadata, MetadataOf, Leq
  <1>11. CASE type = "String"
    <2>1. md \in Seq(Character)
      BY <1>11 DEF Metadata, MetadataOf, Character
    <2>2. PICK pos \in 0 .. Len(md), e \in Element : new = InsertText(md, pos, e)
      BY <1>11 DEF Written, WrittenByHandler
    <2>3. new \in Seq(Character) /\ FewerOf(Character, md, new) /\ Len(md) < Len(new)
      BY <2>1, <2>2, InsertTextFacts
    <2> QED BY <1>11, <2>3 DEF Metadata, MetadataOf, Leq, Character
  <1> QED BY <1>1, <1>2, <1>3, <1>4, <1>5, <1>6, <1>7, <1>8, <1>9, <1>10, <1>11 DEF AllTypes

-----------------------------------------------------------------------------
(* The handlers *)

\* A merged metadata is one.
LEMMA JoinType ==
    ASSUME type \in AllTypes, type # "GMap",
           NEW m1 \in Metadata, NEW m2 \in Metadata, NEW removed \in Copies
    PROVE  Join(m1, m2, removed) \in Metadata
  <1>1. CASE type \in Lattice \ {"LWWMultiSet"}
    BY <1>1, JoinFacts DEF Untied
  <1>2. CASE type = "LWWMultiSet"
    BY <1>2 DEF Join, LastWrite
  <1>3. CASE type = "ORSet"
    <2>1. m1 \in Copies /\ m2 \in Copies /\ Metadata = Copies
      BY <1>3 DEF Metadata, MetadataOf
    <2>2. Join(m1, m2, removed) = MostCopies(WithoutCopies(m1, removed), m2)
      BY <1>3, <2>1, WithoutCopiesFacts, UnmatchedIsMost DEF Join, UniteAfterRemoval
    <2> QED BY <2>1, <2>2, WithoutCopiesFacts, MostCopiesFacts
  <1> QED BY <1>1, <1>2, <1>3 DEF Lattice, AllTypes

\* What a caller says is removed is a multiset.
LEMMA ListsType ==
    ASSUME TypeOK,
           NEW r \in Replica, NEW k \in 1 .. Len(log[r]), NEW lists \in Lists(r, k), NEW i
    PROVE  RemovedIn(lists, i) \in Copies
  <1>1. CASE lists = <<>>
    <2>1. DOMAIN lists = {}
      BY <1>1
    <2> QED BY <2>1, NoCopiesFacts DEF RemovedIn
  <1>2. CASE lists # <<>>
    <2>1. PICK j \in 1 .. k : lists = ListFor(id[r], RemovedBetween(r, j, k)) /\ type = "ORSet"
      BY <1>2 DEF Lists
    <2>2. log[r] \in Seq(Copies)
      <3>1. log[r] \in Seq(Metadata) /\ Metadata = Copies
        BY <2>1 DEF TypeOK, Metadata, MetadataOf
      <3> QED BY <3>1
    <2> DEFINE bags == [n \in j + 1 .. k |-> WithoutCopies(log[r][n - 1], log[r][n])]
    <2>3. \A n \in j + 1 .. k : WithoutCopies(log[r][n - 1], log[r][n]) \in Copies
      <3>1. ASSUME NEW n \in j + 1 .. k
            PROVE  log[r][n - 1] \in Copies /\ log[r][n] \in Copies
        <4>1. n \in 1 .. Len(log[r]) /\ n - 1 \in 1 .. Len(log[r])
          BY <2>2
        <4> QED BY <2>2, <4>1
      <3> QED BY <3>1, WithoutCopiesFacts
    <2>4. IsFiniteSet(DOMAIN bags) /\ bags \in [DOMAIN bags -> Copies]
      <3>1. IsFiniteSet(j + 1 .. k)
        <4>1. j + 1 \in Int /\ k \in Int
          BY <2>2
        <4> QED BY <4>1, FS_Interval
      <3> QED BY <2>3, <3>1
    <2>5. RemovedBetween(r, j, k) = AllCopies(bags)
      BY DEF RemovedBetween
    <2> HIDE DEF bags
    <2>6. RemovedBetween(r, j, k) \in Copies
      BY <2>4, <2>5, AllCopiesFacts
    <2> QED BY <2>1, <2>6, NoCopiesFacts DEF ListFor, RemovedIn
  <1> QED BY <1>1, <1>2

\* A table with one metadata merged into it.
LEMMA MergedFacts ==
    ASSUME type \in AllTypes,
           NEW table, table \in [DOMAIN table -> Metadata],
           NEW i, NEW md \in Metadata, NEW lists, RemovedIn(lists, i) \in Copies
    PROVE  /\ Merged(table, i, md, lists) \in [DOMAIN table \cup {i} -> Metadata]
           /\ \A j \in DOMAIN table \ {i} : Merged(table, i, md, lists)[j] = table[j]
           /\ Merged(table, i, md, lists)[i] =
                 IF i \in DOMAIN table /\ type # "GMap"
                 THEN Join(table[i], md, RemovedIn(lists, i)) ELSE md
  <1>1. i \in DOMAIN table /\ type # "GMap" =>
           Join(table[i], md, RemovedIn(lists, i)) \in Metadata
    BY JoinType
  <1> QED BY <1>1 DEF Merged

\* A table with another merged into it.
LEMMA MergedTablesFacts ==
    ASSUME type \in AllTypes,
           NEW table, table \in [DOMAIN table -> Metadata],
           NEW other, other \in [DOMAIN other -> Metadata],
           NEW lists, \A i : RemovedIn(lists, i) \in Copies
    PROVE  /\ MergedTables(table, other, lists) \in [DOMAIN table \cup DOMAIN other -> Metadata]
           /\ \A j \in DOMAIN table \cup DOMAIN other :
                 /\ j \notin DOMAIN other \/ (type = "GMap" /\ j \in DOMAIN table) =>
                       MergedTables(table, other, lists)[j] = table[j]
                 /\ j \in DOMAIN other /\ type # "ORSet" /\ j \notin DOMAIN table =>
                       MergedTables(table, other, lists)[j] = other[j]
                 /\ j \in DOMAIN other /\ type \notin {"ORSet", "GMap"} /\ j \in DOMAIN table =>
                       MergedTables(table, other, lists)[j] =
                          Join(table[j], other[j], RemovedIn(lists, j))
  <1> DEFINE all == MergedTables(table, other, lists)
  <1>1. ASSUME NEW j \in DOMAIN other, type = "ORSet"
        PROVE  WithoutCopies(other[j], RemovedIn(lists, j)) \in Metadata
    <2>1. Metadata = Copies
      BY <1>1 DEF Metadata, MetadataOf
    <2> QED BY <2>1, WithoutCopiesFacts
  <1>2. ASSUME NEW j \in DOMAIN table \cup DOMAIN other
        PROVE  /\ all[j] \in Metadata
               /\ j \notin DOMAIN other \/ (type = "GMap" /\ j \in DOMAIN table) =>
                     all[j] = table[j]
               /\ j \in DOMAIN other /\ type # "ORSet" /\ j \notin DOMAIN table =>
                     all[j] = other[j]
               /\ j \in DOMAIN other /\ type \notin {"ORSet", "GMap"} /\ j \in DOMAIN table =>
                     all[j] = Join(table[j], other[j], RemovedIn(lists, j))
    <2>1. CASE j \notin DOMAIN other \/ (type = "GMap" /\ j \in DOMAIN table)
      <3>1. all[j] = table[j] /\ j \in DOMAIN table
        BY <2>1 DEF MergedTables
      <3> QED BY <2>1, <3>1
    <2>2. CASE j \in DOMAIN other /\ ~(type = "GMap" /\ j \in DOMAIN table) /\ type = "ORSet"
      <3> DEFINE md == WithoutCopies(other[j], RemovedIn(lists, j))
      <3>1. all[j] = Merged(table, j, md, lists)[j] /\ md \in Metadata
        BY <1>1, <2>2 DEF MergedTables
      <3> HIDE DEF md
      <3>2. Merged(table, j, md, lists) \in [DOMAIN table \cup {j} -> Metadata]
        BY <3>1, MergedFacts
      <3>3. all[j] \in Metadata
        BY <3>1, <3>2
      <3> QED BY <2>2, <3>3
    <2>3. CASE j \in DOMAIN other /\ ~(type = "GMap" /\ j \in DOMAIN table) /\ type # "ORSet"
      <3>1. all[j] = Merged(table, j, other[j], lists)[j] /\ other[j] \in Metadata
        BY <2>3 DEF MergedTables
      <3>2. /\ Merged(table, j, other[j], lists) \in [DOMAIN table \cup {j} -> Metadata]
            /\ Merged(table, j, other[j], lists)[j] =
                  IF j \in DOMAIN table /\ type # "GMap"
                  THEN Join(table[j], other[j], RemovedIn(lists, j)) ELSE other[j]
        <4>1. PICK md : md = other[j]
          OBVIOUS
        <4>2. md \in Metadata /\ RemovedIn(lists, j) \in Copies
          BY <3>1, <4>1
        <4>3. /\ Merged(table, j, md, lists) \in [DOMAIN table \cup {j} -> Metadata]
              /\ Merged(table, j, md, lists)[j] =
                    IF j \in DOMAIN table /\ type # "GMap"
                    THEN Join(table[j], md, RemovedIn(lists, j)) ELSE md
          <5>1. Merged(table, j, md, lists) \in [DOMAIN table \cup {j} -> Metadata]
            BY <4>2, MergedFacts
          <5>2. Merged(table, j, md, lists)[j] =
                   IF j \in DOMAIN table /\ type # "GMap"
                   THEN Join(table[j], md, RemovedIn(lists, j)) ELSE md
            BY DEF Merged
          <5> QED BY <5>1, <5>2
        <4> QED BY <4>1, <4>3
      <3>3. all[j] \in Metadata
        BY <3>1, <3>2
      <3> HIDE DEF all
      <3> QED BY <2>3, <3>1, <3>2, <3>3
    <2> QED BY <2>1, <2>2, <2>3
  <1>3. all = [j \in DOMAIN table \cup DOMAIN other |-> all[j]]
    BY DEF MergedTables
  <1> HIDE DEF all
  <1>4. all \in [DOMAIN table \cup DOMAIN other -> Metadata]
    BY <1>2, <1>3
  <1> QED BY <1>2, <1>4 DEF all

-----------------------------------------------------------------------------
(* What never changes, and what is only added to *)

\* A state is named by its writer and its place in the writer's log.
State(st) == log[st[1]][st[2]]

\* The states under one id that a handler has been given.
States(s, i) == {State(st) : st \in {st \in known[s] : id[st[1]] = i}}

\* A write appends to a log.
LEMMA AppendFacts ==
    ASSUME NEW S, NEW seq \in Seq(S), NEW md \in S
    PROVE  /\ Append(seq, md) \in Seq(S) /\ Append(seq, md) # <<>>
           /\ Len(Append(seq, md)) = Len(seq) + 1
           /\ Append(seq, md)[Len(seq) + 1] = md
           /\ \A k \in 1 .. Len(seq) : Append(seq, md)[k] = seq[k]
  OBVIOUS

\* A write through a handler finds the metadata in its table.
LEMMA EntryFacts ==
    ASSUME TypeOK, NEW s \in Replica
    PROVE  /\ replica_metadata[s] \in [DOMAIN replica_metadata[s] -> Metadata]
           /\ DOMAIN replica_metadata[s] = {id[st[1]] : st \in known[s]}
           /\ \A st \in known[s] : /\ st[1] \in Replica /\ st[2] \in 1 .. Len(log[st[1]])
                                   /\ State(st) \in Metadata
           /\ \A i \in DOMAIN replica_metadata[s] : States(s, i) # {} /\ States(s, i) \subseteq Metadata
  <1>1. \A st \in known[s] : st[1] \in Replica /\ st[2] \in 1 .. Len(log[st[1]])
    BY DEF TypeOK
  <1>2. ASSUME NEW st \in known[s] PROVE State(st) \in Metadata
    <2>1. log[st[1]] \in Seq(Metadata)
      BY <1>1 DEF TypeOK
    <2> QED BY <1>1, <2>1 DEF State
  <1>3. DOMAIN replica_metadata[s] = {id[st[1]] : st \in known[s]}
    BY DEF TypeOK
  <1>4. replica_metadata[s] \in [DOMAIN replica_metadata[s] -> Metadata]
    BY DEF TypeOK
  <1>5. ASSUME NEW i \in DOMAIN replica_metadata[s]
        PROVE  States(s, i) # {} /\ States(s, i) \subseteq Metadata
    <2>1. PICK st \in known[s] : i = id[st[1]]
      BY <1>3
    <2> QED BY <1>2, <2>1 DEF States
  <1> QED BY <1>1, <1>2, <1>3, <1>4, <1>5

\* The type and the ids stay; logs and what is known only grow.
LEMMA LogStep ==
    ASSUME TypeOK, [Next]_vars
    PROVE  /\ type' = type /\ id' = id /\ Metadata' = Metadata
           /\ log' \in [Replica -> Seq(Metadata)]
           /\ \A r \in Replica :
                 /\ log'[r] # <<>> /\ Len(log[r]) <= Len(log'[r])
                 /\ \A k \in 1 .. Len(log[r]) : log'[r][k] = log[r][k]
           /\ \A s \in Replica : known[s] \subseteq known'[s]
  <1>0. /\ type \in AllTypes /\ log \in [Replica -> Seq(Metadata)]
        /\ metadata \in [Replica -> Metadata]
        /\ \A r \in Replica : log[r] # <<>>
        /\ known \in [Replica -> SUBSET (Replica \X Nat)]
    BY TypesAssumption DEF TypeOK
  <1>1. type' = type /\ id' = id
    BY DEF Next, UpdateMetadata, UpdateHandler, InsertIntoCache, AddExternalReplica,
           UpdateLocalExternalPayload, vars
  <1>2. \A s \in Replica : known[s] \subseteq known'[s]
    BY <1>0 DEF Next, UpdateMetadata, UpdateHandler, InsertIntoCache, AddExternalReplica,
                UpdateLocalExternalPayload, vars
  <1>3. \/ log' = log
        \/ \E r \in Replica, md \in Metadata : log' = [log EXCEPT ![r] = Append(log[r], md)]
    <2>1. ASSUME NEW r \in Replica, UpdateMetadata(r)
          PROVE  \E md \in Metadata : log' = [log EXCEPT ![r] = Append(log[r], md)]
      <3>1. PICK md \in Written(r, metadata[r]) : log' = [log EXCEPT ![r] = Append(log[r], md)]
        BY <2>1 DEF UpdateMetadata
      <3>2. metadata[r] \in Metadata
        BY <1>0
      <3> QED BY <1>0, <3>1, <3>2, WrittenFacts
    <2>2. ASSUME NEW r \in Replica, UpdateHandler(r)
          PROVE  \E md \in Metadata : log' = [log EXCEPT ![r] = Append(log[r], md)]
      <3>1. PICK md \in WrittenByHandler(r, replica_metadata[r][id[r]]) :
               log' = [log EXCEPT ![r] = Append(log[r], md)]
        BY <2>2 DEF UpdateHandler
      <3>2. replica_metadata[r][id[r]] \in Metadata
        BY <2>2, EntryFacts DEF UpdateHandler
      <3> QED BY <1>0, <3>1, <3>2, WrittenFacts
    <2>3. ASSUME NEW r \in Replica, InsertIntoCache(r) PROVE log' = log
      BY <2>3 DEF InsertIntoCache
    <2>4. ASSUME NEW s \in Replica, NEW r \in Replica, NEW k \in 1 .. Len(log[r]),
                 NEW lists \in Lists(r, k), AddExternalReplica(s, r, k, lists)
          PROVE  log' = log
      BY <2>4 DEF AddExternalReplica
    <2>5. ASSUME NEW s \in Replica, NEW t \in Replica, NEW lists,
                 UpdateLocalExternalPayload(s, t, lists)
          PROVE  log' = log
      BY <2>5 DEF UpdateLocalExternalPayload
    <2> QED BY <2>1, <2>2, <2>3, <2>4, <2>5 DEF Next, vars
  <1>4. CASE log' = log
    BY <1>0, <1>1, <1>2, <1>4 DEF Metadata
  <1>5. ASSUME NEW r \in Replica, NEW md \in Metadata,
               log' = [log EXCEPT ![r] = Append(log[r], md)]
        PROVE  /\ log' \in [Replica -> Seq(Metadata)]
               /\ \A q \in Replica :
                     /\ log'[q] # <<>> /\ Len(log[q]) <= Len(log'[q])
                     /\ \A k \in 1 .. Len(log[q]) : log'[q][k] = log[q][k]
    <2>1. /\ Append(log[r], md) \in Seq(Metadata) /\ Append(log[r], md) # <<>>
          /\ Len(log[r]) <= Len(Append(log[r], md))
          /\ \A k \in 1 .. Len(log[r]) : Append(log[r], md)[k] = log[r][k]
      <3>1. log[r] \in Seq(Metadata)
        BY <1>0
      <3>2. PICK seq : seq = log[r]
        OBVIOUS
      <3> QED BY <3>1, <3>2, AppendFacts
    <2>2. log'[r] = Append(log[r], md) /\ \A q \in Replica \ {r} : log'[q] = log[q]
      BY <1>0, <1>5
    <2>3. log' \in [Replica -> Seq(Metadata)]
      BY <1>0, <1>5, <2>1
    <2>4. ASSUME NEW q \in Replica
          PROVE  /\ log'[q] # <<>> /\ Len(log[q]) <= Len(log'[q])
                 /\ \A k \in 1 .. Len(log[q]) : log'[q][k] = log[q][k]
      <3>1. CASE q = r
        BY <2>1, <2>2, <3>1
      <3>2. CASE q # r
        BY <1>0, <2>2, <3>2
      <3> QED BY <3>1, <3>2
    <2> QED BY <2>3, <2>4
  <1>6. Metadata' = Metadata
    BY <1>1 DEF Metadata
  <1> QED BY <1>1, <1>2, <1>3, <1>4, <1>5, <1>6

-----------------------------------------------------------------------------
(* What a step does to the table of one handler *)

\* Nothing.
Kept(s) == replica_metadata'[s] = replica_metadata[s] /\ known'[s] = known[s]

\* The replica writes md to its own entry.
Wrote(s, md) ==
    /\ ThroughHandler(s) /\ id[s] \in DOMAIN replica_metadata[s]
    /\ md \in WrittenByHandler(s, replica_metadata[s][id[s]])
    /\ replica_metadata'[s] = [replica_metadata[s] EXCEPT ![id[s]] = md]
    /\ log' = [log EXCEPT ![s] = Append(log[s], md)]
    /\ known'[s] = known[s] \cup {<<s, Len(log[s]) + 1>>}

\* One state is merged into it,
Took(s, r, k, lists) ==
    /\ \A i : RemovedIn(lists, i) \in Copies
    /\ replica_metadata'[s] = Merged(replica_metadata[s], id[r], log[r][k], lists)
    /\ known'[s] = known[s] \cup {<<r, k>>}
    /\ log' = log

\* or the table of another handler.
TookAll(s, t, lists) ==
    /\ \A i : RemovedIn(lists, i) \in Copies
    /\ replica_metadata'[s] = MergedTables(replica_metadata[s], replica_metadata[t], lists)
    /\ known'[s] = known[s] \cup PassedOn(t)
    /\ log' = log

\* A write through a handler is one to the entry.
LEMMA HandlerFacts ==
    ASSUME TypeOK, NEW r \in Replica, UpdateHandler(r)
    PROVE  /\ DOMAIN replica_metadata' = Replica /\ DOMAIN payload' = Replica
           /\ DOMAIN known' = Replica
           /\ \E md \in Metadata : Wrote(r, md)
           /\ \A s \in Replica \ {r} : Kept(s)
  <1>0. /\ DOMAIN replica_metadata = Replica /\ DOMAIN payload = Replica
        /\ known \in [Replica -> SUBSET (Replica \X Nat)]
        /\ log \in [Replica -> Seq(Metadata)] /\ type \in AllTypes
    BY TypesAssumption DEF TypeOK
  <1>1. PICK md \in WrittenByHandler(r, replica_metadata[r][id[r]]) :
           /\ replica_metadata' = [replica_metadata EXCEPT ![r][id[r]] = md]
           /\ log' = [log EXCEPT ![r] = Append(log[r], md)]
    BY DEF UpdateHandler
  <1>2. /\ ThroughHandler(r) /\ id[r] \in DOMAIN replica_metadata[r]
        /\ DOMAIN payload' = Replica
        /\ known' = [known EXCEPT ![r] = @ \cup {<<r, Len(log'[r])>>}]
    BY <1>0 DEF UpdateHandler
  <1>3. md \in Metadata
    BY <1>0, <1>1, <1>2, EntryFacts, WrittenFacts
  <1>4. Len(log'[r]) = Len(log[r]) + 1
    <2>1. log'[r] = Append(log[r], md) /\ log[r] \in Seq(Metadata)
      BY <1>0, <1>1
    <2> QED BY <1>3, <2>1, AppendFacts
  <1>5. Wrote(r, md)
    <2>1. replica_metadata'[r] = [replica_metadata[r] EXCEPT ![id[r]] = md]
      BY <1>0, <1>1
    <2>2. known'[r] = known[r] \cup {<<r, Len(log[r]) + 1>>}
      BY <1>0, <1>2, <1>4
    <2> QED BY <1>1, <1>2, <2>1, <2>2 DEF Wrote
  <1>6. ASSUME NEW s \in Replica \ {r} PROVE Kept(s)
    BY <1>0, <1>1, <1>2 DEF Kept
  <1>7. DOMAIN replica_metadata' = Replica /\ DOMAIN known' = Replica
    BY <1>0, <1>1, <1>2
  <1> QED BY <1>2, <1>3, <1>5, <1>6, <1>7

\* These are all the cases.
LEMMA TableStep ==
    ASSUME TypeOK, [Next]_vars
    PROVE  /\ DOMAIN replica_metadata' = Replica /\ DOMAIN payload' = Replica
           /\ DOMAIN known' = Replica
           /\ \A s \in Replica :
                 \/ Kept(s)
                 \/ \E md \in Metadata : Wrote(s, md)
                 \/ \E r \in Replica : \E k \in 1 .. Len(log[r]) : \E lists : Took(s, r, k, lists)
                 \/ \E t \in Replica : \E lists : TookAll(s, t, lists)
  <1>0. /\ DOMAIN replica_metadata = Replica /\ DOMAIN payload = Replica
        /\ known \in [Replica -> SUBSET (Replica \X Nat)]
        /\ log \in [Replica -> Seq(Metadata)] /\ type \in AllTypes
    BY TypesAssumption DEF TypeOK
  <1>1. ASSUME NEW r \in Replica, UpdateMetadata(r) \/ InsertIntoCache(r) \/ UNCHANGED vars
        PROVE  /\ DOMAIN replica_metadata' = Replica /\ DOMAIN payload' = Replica
               /\ DOMAIN known' = Replica /\ \A s \in Replica : Kept(s)
    BY <1>0, <1>1 DEF UpdateMetadata, InsertIntoCache, vars, Kept
  <1>2. ASSUME NEW r \in Replica, UpdateHandler(r)
        PROVE  /\ DOMAIN replica_metadata' = Replica /\ DOMAIN payload' = Replica
               /\ DOMAIN known' = Replica
               /\ \E md \in Metadata : Wrote(r, md)
               /\ \A s \in Replica \ {r} : Kept(s)
    BY <1>2, HandlerFacts
  <1>3. ASSUME NEW s \in Replica, NEW r \in Replica, NEW k \in 1 .. Len(log[r]),
               NEW lists \in Lists(r, k), AddExternalReplica(s, r, k, lists)
        PROVE  /\ DOMAIN replica_metadata' = Replica /\ DOMAIN payload' = Replica
               /\ DOMAIN known' = Replica
               /\ Took(s, r, k, lists) /\ \A q \in Replica \ {s} : Kept(q)
    <2>1. \A i : RemovedIn(lists, i) \in Copies
      BY ListsType
    <2> QED BY <1>0, <1>3, <2>1 DEF AddExternalReplica, Replace, Took, Kept
  <1>4. ASSUME NEW s \in Replica, NEW t \in Replica,
               NEW lists \in UNION {Lists(r, Len(log[r])) : r \in Replica},
               UpdateLocalExternalPayload(s, t, lists)
        PROVE  /\ DOMAIN replica_metadata' = Replica /\ DOMAIN payload' = Replica
               /\ DOMAIN known' = Replica
               /\ TookAll(s, t, lists) /\ \A q \in Replica \ {s} : Kept(q)
    <2>1. PICK r \in Replica : lists \in Lists(r, Len(log[r]))
      OBVIOUS
    <2>2. Len(log[r]) \in 1 .. Len(log[r])
      BY DEF TypeOK
    <2>3. \A i : RemovedIn(lists, i) \in Copies
      BY <2>1, <2>2, ListsType
    <2> QED BY <1>0, <1>4, <2>3 DEF UpdateLocalExternalPayload, Replace, TookAll, Kept
  <1>5. ASSUME UNCHANGED vars
        PROVE  /\ DOMAIN replica_metadata' = Replica /\ DOMAIN payload' = Replica
               /\ DOMAIN known' = Replica /\ \A s \in Replica : Kept(s)
    BY <1>0, <1>5 DEF vars, Kept
  <1> QED BY <1>1, <1>2, <1>3, <1>4, <1>5 DEF Next

\* The entries whose metadata were taken as they came are states that were given: those of
\* a map, and those that hold the last write.
HeldInv ==
    type \in {"GMap", "LWWMultiSet"} =>
        \A s \in Replica : \A i \in DOMAIN replica_metadata[s] :
            replica_metadata[s][i] \in States(s, i)

\* The states that were given stay what they are,
LEMMA StatesStay ==
    ASSUME TypeOK, [Next]_vars, NEW s \in Replica
    PROVE  /\ \A st \in known[s] : State(st)' = State(st)
           /\ \A i : States(s, i) \subseteq States(s, i)'
           /\ \A st : known'[s] = known[s] \cup {st} =>
                 \A i : States(s, i)' = States(s, i) \cup IF i = id[st[1]] THEN {State(st)'} ELSE {}
  <1>1. \A st \in known[s] : st[1] \in Replica /\ st[2] \in 1 .. Len(log[st[1]])
    BY EntryFacts
  <1>2. /\ id' = id /\ known[s] \subseteq known'[s]
        /\ \A r \in Replica : \A k \in 1 .. Len(log[r]) : log'[r][k] = log[r][k]
    BY LogStep
  <1>3. ASSUME NEW st \in known[s] PROVE State(st)' = State(st)
    BY <1>1, <1>2 DEF State
  <1>4. \A i : States(s, i)' = {State(st)' : st \in {st \in known'[s] : id[st[1]] = i}}
    BY <1>2 DEF States
  <1>5. ASSUME NEW i PROVE States(s, i) \subseteq States(s, i)'
    BY <1>2, <1>3, <1>4 DEF States
  <1>6. ASSUME NEW st, known'[s] = known[s] \cup {st}, NEW i
        PROVE  States(s, i)' = States(s, i) \cup IF i = id[st[1]] THEN {State(st)'} ELSE {}
    <2>1. ASSUME NEW md \in States(s, i)'
          PROVE  md \in States(s, i) \/ (i = id[st[1]] /\ md = State(st)')
      <3>1. PICK given \in known'[s] : id[given[1]] = i /\ md = State(given)'
        BY <1>4
      <3>2. CASE given \in known[s]
        BY <1>3, <3>1, <3>2 DEF States
      <3>3. CASE given = st
        BY <3>1, <3>3
      <3> QED BY <1>6, <3>2, <3>3
    <2>2. i = id[st[1]] => State(st)' \in States(s, i)'
      BY <1>4, <1>6
    <2>3. States(s, i) \subseteq States(s, i)'
      BY <1>5
    <2> QED BY <2>1, <2>2, <2>3
  <1> QED BY <1>3, <1>5, <1>6

\* and the steps add to them what they merge.
LEMMA StatesStep ==
    ASSUME TypeOK, [Next]_vars, NEW s \in Replica, NEW i
    PROVE  /\ Kept(s) => States(s, i)' = States(s, i)
           /\ \A md : md \in Metadata /\ Wrote(s, md) =>
                 States(s, i)' = States(s, i) \cup IF i = id[s] THEN {md} ELSE {}
           /\ \A r, k, lists : Took(s, r, k, lists) =>
                 States(s, i)' = States(s, i) \cup IF i = id[r] THEN {log[r][k]} ELSE {}
           /\ \A t, lists : t \in Replica /\ TookAll(s, t, lists) /\ type # "GMap" =>
                 States(s, i)' = States(s, i) \cup States(t, i)
  <1>1. ASSUME Kept(s) PROVE States(s, i)' = States(s, i)
    <2>1. id' = id /\ known'[s] = known[s]
      BY <1>1, LogStep DEF Kept
    <2>2. States(s, i)' = {State(st)' : st \in {st \in known[s] : id[st[1]] = i}}
      BY <2>1 DEF States
    <2> QED BY <2>2, StatesStay DEF States
  <1>2. ASSUME NEW md \in Metadata, Wrote(s, md)
        PROVE  States(s, i)' = States(s, i) \cup IF i = id[s] THEN {md} ELSE {}
    <2>1. PICK st : st = <<s, Len(log[s]) + 1>>
      OBVIOUS
    <2>2. known'[s] = known[s] \cup {st} /\ st[1] = s /\ st[2] = Len(log[s]) + 1
      BY <1>2, <2>1 DEF Wrote
    <2>3. State(st)' = md
      <3>1. log \in [Replica -> Seq(Metadata)] /\ log' = [log EXCEPT ![s] = Append(log[s], md)]
        BY <1>2 DEF TypeOK, Wrote
      <3>2. log[s] \in Seq(Metadata) /\ log'[s] = Append(log[s], md)
        BY <3>1
      <3>3. log'[s][Len(log[s]) + 1] = md
        BY <3>2, AppendFacts
      <3> QED BY <2>2, <3>3 DEF State
    <2> QED BY <2>2, <2>3, StatesStay
  <1>3. ASSUME NEW r, NEW k, NEW lists, Took(s, r, k, lists)
        PROVE  States(s, i)' = States(s, i) \cup IF i = id[r] THEN {log[r][k]} ELSE {}
    <2>1. PICK st : st = <<r, k>>
      OBVIOUS
    <2>2. known'[s] = known[s] \cup {st} /\ st[1] = r /\ st[2] = k /\ log' = log
      BY <1>3, <2>1 DEF Took
    <2>3. State(st)' = log[r][k]
      BY <2>2 DEF State
    <2> QED BY <2>2, <2>3, StatesStay
  <1>4. ASSUME NEW t \in Replica, NEW lists, TookAll(s, t, lists), type # "GMap"
        PROVE  States(s, i)' = States(s, i) \cup States(t, i)
    <2>1. known'[s] = known[s] \cup known[t] /\ log' = log /\ id' = id
      BY <1>4, LogStep DEF TookAll, PassedOn
    <2>2. \A st : State(st)' = State(st)
      BY <2>1 DEF State
    <2>3. States(s, i)' = {State(st) : st \in {st \in known'[s] : id[st[1]] = i}}
      BY <2>1, <2>2 DEF States
    <2> QED BY <2>1, <2>3 DEF States
  <1> QED BY <1>1, <1>2, <1>3, <1>4

\* What a step leaves in a table: what was written,
LEMMA WroteFacts ==
    ASSUME TypeOK, NEW s \in Replica, NEW md \in Metadata, Wrote(s, md)
    PROVE  /\ replica_metadata'[s] \in [DOMAIN replica_metadata[s] -> Metadata]
           /\ \A i \in DOMAIN replica_metadata[s] :
                 replica_metadata'[s][i] = IF i = id[s] THEN md ELSE replica_metadata[s][i]
  <1>1. replica_metadata[s] \in [DOMAIN replica_metadata[s] -> Metadata]
    BY EntryFacts
  <1> QED BY <1>1 DEF Wrote

\* the merged state,
LEMMA TookFacts ==
    ASSUME TypeOK, NEW s \in Replica, NEW r \in Replica,
           NEW k \in 1 .. Len(log[r]), NEW lists, Took(s, r, k, lists)
    PROVE  /\ replica_metadata'[s] \in [DOMAIN replica_metadata[s] \cup {id[r]} -> Metadata]
           /\ \A i \in DOMAIN replica_metadata[s] \ {id[r]} :
                 replica_metadata'[s][i] = replica_metadata[s][i]
           /\ replica_metadata'[s][id[r]] =
                 IF id[r] \in DOMAIN replica_metadata[s] /\ type # "GMap"
                 THEN Join(replica_metadata[s][id[r]], log[r][k], RemovedIn(lists, id[r]))
                 ELSE log[r][k]
           /\ log[r][k] \in Metadata
  <1>0. type \in AllTypes
    BY TypesAssumption DEF TypeOK
  <1>1. replica_metadata[s] \in [DOMAIN replica_metadata[s] -> Metadata]
    BY EntryFacts
  <1>2. log[r] \in Seq(Metadata)
    BY DEF TypeOK
  <1>3. PICK md, table, i : md = log[r][k] /\ table = replica_metadata[s] /\ i = id[r]
    OBVIOUS
  <1>4. md \in Metadata
    BY <1>2, <1>3
  <1>5. RemovedIn(lists, i) \in Copies /\ table \in [DOMAIN table -> Metadata]
    BY <1>1, <1>3 DEF Took
  <1>6. /\ Merged(table, i, md, lists) \in [DOMAIN table \cup {i} -> Metadata]
        /\ \A j \in DOMAIN table \ {i} : Merged(table, i, md, lists)[j] = table[j]
        /\ Merged(table, i, md, lists)[i] =
              IF i \in DOMAIN table /\ type # "GMap"
              THEN Join(table[i], md, RemovedIn(lists, i)) ELSE md
    <2>1. Merged(table, i, md, lists) \in [DOMAIN table \cup {i} -> Metadata]
      BY <1>0, <1>4, <1>5, MergedFacts
    <2>2. \A j \in DOMAIN table \ {i} : Merged(table, i, md, lists)[j] = table[j]
      BY DEF Merged
    <2>3. Merged(table, i, md, lists)[i] =
             IF i \in DOMAIN table /\ type # "GMap"
             THEN Join(table[i], md, RemovedIn(lists, i)) ELSE md
      BY DEF Merged
    <2> QED BY <2>1, <2>2, <2>3
  <1>7. replica_metadata'[s] = Merged(table, i, md, lists)
    BY <1>3 DEF Took
  <1> QED BY <1>3, <1>4, <1>6, <1>7

\* and the merged table.
LEMMA TookAllFacts ==
    ASSUME TypeOK, NEW s \in Replica, NEW t \in Replica,
           NEW lists, TookAll(s, t, lists)
    PROVE  /\ replica_metadata'[s] \in
                 [DOMAIN replica_metadata[s] \cup DOMAIN replica_metadata[t] -> Metadata]
           /\ \A i \in DOMAIN replica_metadata[s] :
                 i \notin DOMAIN replica_metadata[t] \/ type = "GMap" =>
                    replica_metadata'[s][i] = replica_metadata[s][i]
           /\ \A i \in DOMAIN replica_metadata[t] :
                 /\ type # "ORSet" /\ i \notin DOMAIN replica_metadata[s] =>
                       replica_metadata'[s][i] = replica_metadata[t][i]
                 /\ type \notin {"ORSet", "GMap"} /\ i \in DOMAIN replica_metadata[s] =>
                       replica_metadata'[s][i] =
                          Join(replica_metadata[s][i], replica_metadata[t][i], RemovedIn(lists, i))
  <1>0. type \in AllTypes
    BY TypesAssumption DEF TypeOK
  <1>1. \A q \in Replica : replica_metadata[q] \in [DOMAIN replica_metadata[q] -> Metadata]
    BY EntryFacts
  <1>2. PICK table, other : table = replica_metadata[s] /\ other = replica_metadata[t]
    OBVIOUS
  <1>3. /\ table \in [DOMAIN table -> Metadata] /\ other \in [DOMAIN other -> Metadata]
        /\ \A i : RemovedIn(lists, i) \in Copies
    BY <1>1, <1>2 DEF TookAll
  <1>4. PICK all : all = MergedTables(table, other, lists)
    OBVIOUS
  <1>5. /\ all \in [DOMAIN table \cup DOMAIN other -> Metadata]
        /\ \A j \in DOMAIN table \cup DOMAIN other :
              /\ j \notin DOMAIN other \/ (type = "GMap" /\ j \in DOMAIN table) =>
                    all[j] = table[j]
              /\ j \in DOMAIN other /\ type # "ORSet" /\ j \notin DOMAIN table =>
                    all[j] = other[j]
              /\ j \in DOMAIN other /\ type \notin {"ORSet", "GMap"} /\ j \in DOMAIN table =>
                    all[j] = Join(table[j], other[j], RemovedIn(lists, j))
    <2>1. all \in [DOMAIN table \cup DOMAIN other -> Metadata]
      BY <1>0, <1>3, <1>4, MergedTablesFacts
    <2>2. ASSUME NEW j \in DOMAIN table \cup DOMAIN other
          PROVE  /\ j \notin DOMAIN other \/ (type = "GMap" /\ j \in DOMAIN table) =>
                       all[j] = table[j]
                 /\ j \in DOMAIN other /\ type # "ORSet" /\ j \notin DOMAIN table =>
                       all[j] = other[j]
                 /\ j \in DOMAIN other /\ type \notin {"ORSet", "GMap"} /\ j \in DOMAIN table =>
                       all[j] = Join(table[j], other[j], RemovedIn(lists, j))
      BY <1>4 DEF MergedTables, Merged
    <2> QED BY <2>1, <2>2
  <1>6. replica_metadata'[s] = all
    BY <1>2, <1>4 DEF TookAll
  <1> QED BY <1>2, <1>5, <1>6

\* Every call keeps it so that an entry of a map or a LWWMultiSet is a state that was given.
LEMMA HeldStep ==
    ASSUME TypeOK, HeldInv, [Next]_vars
    PROVE  HeldInv'
  <1> SUFFICES ASSUME type \in {"GMap", "LWWMultiSet"}, NEW s \in Replica,
                      NEW i \in DOMAIN replica_metadata'[s]
               PROVE  replica_metadata'[s][i] \in States(s, i)'
    BY LogStep DEF HeldInv
  <1>1. \A q \in Replica : \A j \in DOMAIN replica_metadata[q] : replica_metadata[q][j] \in States(q, j)
    BY DEF HeldInv
  <1>2. States(s, i) \subseteq States(s, i)'
    BY StatesStay
  <1>3. CASE Kept(s)
    BY <1>1, <1>2, <1>3 DEF Kept
  <1>4. ASSUME NEW md \in Metadata, Wrote(s, md) PROVE replica_metadata'[s][i] \in States(s, i)'
    <2>1. /\ i \in DOMAIN replica_metadata[s]
          /\ replica_metadata'[s][i] = IF i = id[s] THEN md ELSE replica_metadata[s][i]
      BY <1>4, WroteFacts
    <2>2. i = id[s] => md \in States(s, i)'
      BY <1>4, StatesStep
    <2> QED BY <1>1, <1>2, <2>1, <2>2
  <1>5. ASSUME NEW r \in Replica, NEW k \in 1 .. Len(log[r]), NEW lists, Took(s, r, k, lists)
        PROVE  replica_metadata'[s][i] \in States(s, i)'
    <2>1. i = id[r] => log[r][k] \in States(s, i)'
      BY <1>5, StatesStep
    <2>2. /\ replica_metadata'[s] \in [DOMAIN replica_metadata[s] \cup {id[r]} -> Metadata]
          /\ i # id[r] => replica_metadata'[s][i] = replica_metadata[s][i]
          /\ replica_metadata'[s][id[r]] =
                IF id[r] \in DOMAIN replica_metadata[s] /\ type # "GMap"
                THEN Join(replica_metadata[s][id[r]], log[r][k], RemovedIn(lists, id[r]))
                ELSE log[r][k]
      <3>1. replica_metadata'[s] \in [DOMAIN replica_metadata[s] \cup {id[r]} -> Metadata]
        BY <1>5, TookFacts
      <3>2. i \in DOMAIN replica_metadata[s] \ {id[r]} =>
               replica_metadata'[s][i] = replica_metadata[s][i]
        BY <1>5, TookFacts
      <3>3. replica_metadata'[s][id[r]] =
               IF id[r] \in DOMAIN replica_metadata[s] /\ type # "GMap"
               THEN Join(replica_metadata[s][id[r]], log[r][k], RemovedIn(lists, id[r]))
               ELSE log[r][k]
        BY <1>5 DEF Took, Merged
      <3> QED BY <3>1, <3>2, <3>3
    <2>3. type = "LWWMultiSet" =>
             \A m1, m2, removed : Join(m1, m2, removed) = m1 \/ Join(m1, m2, removed) = m2
      BY DEF Join, LastWrite
    <2>4. i \in DOMAIN replica_metadata[s] \/ i = id[r]
      BY <2>2
    <2> QED BY <1>1, <1>2, <2>1, <2>2, <2>3, <2>4
  <1>6. ASSUME NEW t \in Replica, NEW lists, TookAll(s, t, lists)
        PROVE  replica_metadata'[s][i] \in States(s, i)'
    <2>1. /\ i \in DOMAIN replica_metadata[s] \/ i \in DOMAIN replica_metadata[t]
          /\ i \in DOMAIN replica_metadata[s] =>
                (i \notin DOMAIN replica_metadata[t] \/ type = "GMap" =>
                          replica_metadata'[s][i] = replica_metadata[s][i])
          /\ i \in DOMAIN replica_metadata[t] =>
                /\ i \notin DOMAIN replica_metadata[s] =>
                      replica_metadata'[s][i] = replica_metadata[t][i]
                /\ type # "GMap" /\ i \in DOMAIN replica_metadata[s] =>
                      replica_metadata'[s][i] =
                         Join(replica_metadata[s][i], replica_metadata[t][i], RemovedIn(lists, i))
      <3>1. /\ replica_metadata'[s] \in
                  [DOMAIN replica_metadata[s] \cup DOMAIN replica_metadata[t] -> Metadata]
            /\ \A j \in DOMAIN replica_metadata[s] :
                  j \notin DOMAIN replica_metadata[t] \/ type = "GMap" =>
                     replica_metadata'[s][j] = replica_metadata[s][j]
        BY <1>6, TookAllFacts
      <3>2. \A j \in DOMAIN replica_metadata[t] :
               /\ type # "ORSet" /\ j \notin DOMAIN replica_metadata[s] =>
                     replica_metadata'[s][j] = replica_metadata[t][j]
               /\ type \notin {"ORSet", "GMap"} /\ j \in DOMAIN replica_metadata[s] =>
                     replica_metadata'[s][j] =
                        Join(replica_metadata[s][j], replica_metadata[t][j], RemovedIn(lists, j))
        BY <1>6 DEF TookAll, MergedTables, Merged
      <3> QED BY <3>1, <3>2
    <2>2. CASE type = "LWWMultiSet"
      <3>1. States(s, i)' = States(s, i) \cup States(t, i)
        BY <1>6, <2>2, StatesStep
      <3>2. \A m1, m2, removed : Join(m1, m2, removed) = m1 \/ Join(m1, m2, removed) = m2
        BY <2>2 DEF Join, LastWrite
      <3> QED BY <1>1, <2>1, <2>2, <3>1, <3>2
    <2>3. CASE type = "GMap"
      <3>1. CASE i \in DOMAIN replica_metadata[s]
        BY <1>1, <1>2, <2>1, <2>3, <3>1
      <3>2. CASE i \notin DOMAIN replica_metadata[s]
        <4>1. PICK st \in known[t] : id[st[1]] = i /\ replica_metadata[t][i] = State(st)
          BY <1>1, <2>1, <3>2 DEF States
        <4>2. st \in PassedOn(t)
          BY <4>1 DEF PassedOn, State
        <4>3. st \in known'[s] /\ State(st)' = State(st) /\ id' = id
          BY <1>6, <4>1, <4>2, StatesStay, LogStep DEF TookAll
        <4> QED BY <2>1, <3>2, <4>1, <4>3 DEF States
      <3> QED BY <3>1, <3>2
    <2> QED BY <2>2, <2>3
  <1> QED BY <1>3, <1>4, <1>5, <1>6, TableStep

\* The types stay what they are.
LEMMA TypeStep ==
    ASSUME TypeOK, HeldInv, [Next]_vars
    PROVE  TypeOK'
  <1>0. /\ type \in Types /\ id \in Naming /\ metadata \in [Replica -> Metadata]
        /\ known \in [Replica -> SUBSET (Replica \X Nat)]
        /\ type \in AllTypes
    BY TypesAssumption DEF TypeOK
  <1>1. /\ type' = type /\ id' = id /\ Metadata' = Metadata
        /\ log' \in [Replica -> Seq(Metadata)]
        /\ \A r \in Replica : log'[r] # <<>> /\ Len(log[r]) <= Len(log'[r])
        /\ \A s \in Replica : known[s] \subseteq known'[s]
    BY LogStep
  <1>2. /\ DOMAIN replica_metadata' = Replica /\ DOMAIN payload' = Replica
        /\ DOMAIN known' = Replica
    BY TableStep
  <1>3. metadata' \in [Replica -> Metadata]
    <2>1. ASSUME NEW r \in Replica, UpdateMetadata(r) PROVE metadata' \in [Replica -> Metadata]
      <3>1. PICK md \in Written(r, metadata[r]) : metadata' = [metadata EXCEPT ![r] = md]
        BY <2>1 DEF UpdateMetadata
      <3>2. metadata[r] \in Metadata
        BY <1>0
      <3>3. md \in Metadata
        BY <1>0, <3>1, <3>2, WrittenFacts
      <3> QED BY <1>0, <3>1, <3>3
    <2>2. metadata' = metadata => metadata' \in [Replica -> Metadata]
      BY <1>0
    <2> QED BY <2>1, <2>2 DEF Next, vars, UpdateHandler, InsertIntoCache, AddExternalReplica,
                              UpdateLocalExternalPayload
  <1>4. \A q \in Replica :
           /\ replica_metadata[q] \in [DOMAIN replica_metadata[q] -> Metadata]
           /\ DOMAIN replica_metadata[q] = {id[st[1]] : st \in known[q]}
           /\ \A st \in known[q] : st \in Replica \X Nat /\ st[2] \in 1 .. Len(log'[st[1]])
    <2>1. ASSUME NEW q \in Replica, NEW st \in known[q] PROVE st[2] \in 1 .. Len(log'[st[1]])
      <3>1. st[1] \in Replica /\ st[2] \in 1 .. Len(log[st[1]])
        BY <2>1, EntryFacts
      <3>2. Len(log[st[1]]) \in Nat /\ Len(log'[st[1]]) \in Nat
        BY <1>1, <3>1 DEF TypeOK
      <3> QED BY <1>1, <3>1, <3>2
    <2> QED BY <1>0, <2>1, EntryFacts
  <1> DEFINE Fine(s) ==
          /\ replica_metadata'[s] \in [DOMAIN replica_metadata'[s] -> Metadata]
          /\ DOMAIN replica_metadata'[s] = {id[st[1]] : st \in known'[s]}
          /\ \A st \in known'[s] : st \in Replica \X Nat /\ st[2] \in 1 .. Len(log'[st[1]])
  <1>5. ASSUME NEW s \in Replica, Kept(s) PROVE Fine(s)
    BY <1>4, <1>5 DEF Kept
  <1>6. ASSUME NEW s \in Replica, NEW md \in Metadata, Wrote(s, md) PROVE Fine(s)
    <2>1. PICK st : st = <<s, Len(log[s]) + 1>>
      OBVIOUS
    <2>2. log[s] \in Seq(Metadata) /\ log'[s] = Append(log[s], md)
      BY <1>6 DEF Wrote, TypeOK
    <2>3. Len(log[s]) \in Nat /\ Len(log'[s]) = Len(log[s]) + 1
      BY <2>2
    <2>4. st \in Replica \X Nat /\ st[2] \in 1 .. Len(log'[st[1]]) /\ st[1] = s
      BY <2>1, <2>3
    <2>5. known'[s] = known[s] \cup {st} /\ id[st[1]] \in DOMAIN replica_metadata[s]
      BY <1>6, <2>1 DEF Wrote
    <2>6. replica_metadata'[s] \in [DOMAIN replica_metadata[s] -> Metadata]
      BY <1>6, WroteFacts
    <2>7. DOMAIN replica_metadata[s] = {id[given[1]] : given \in known'[s]}
      BY <1>4, <2>5
    <2> QED BY <1>4, <2>4, <2>5, <2>6, <2>7
  <1>7. ASSUME NEW s \in Replica, NEW r \in Replica, NEW k \in 1 .. Len(log[r]), NEW lists,
               Took(s, r, k, lists)
        PROVE  Fine(s)
    <2>1. PICK st : st = <<r, k>>
      OBVIOUS
    <2>2. st \in Replica \X Nat /\ st[2] \in 1 .. Len(log'[st[1]]) /\ st[1] = r
      BY <1>7, <2>1 DEF Took
    <2>3. known'[s] = known[s] \cup {st}
      BY <1>7, <2>1 DEF Took
    <2>4. replica_metadata'[s] \in [DOMAIN replica_metadata[s] \cup {id[st[1]]} -> Metadata]
      BY <1>7, <2>2, TookFacts
    <2>5. DOMAIN replica_metadata[s] \cup {id[st[1]]} = {id[given[1]] : given \in known'[s]}
      BY <1>4, <2>3
    <2> QED BY <1>4, <2>2, <2>3, <2>4, <2>5
  <1>8. ASSUME NEW s \in Replica, NEW t \in Replica, NEW lists, TookAll(s, t, lists)
        PROVE  Fine(s)
    <2>1. replica_metadata'[s] \in
             [DOMAIN replica_metadata[s] \cup DOMAIN replica_metadata[t] -> Metadata]
      BY <1>8, TookAllFacts
    <2>2. known'[s] = known[s] \cup PassedOn(t) /\ PassedOn(t) \subseteq known[t]
      BY <1>8 DEF TookAll, PassedOn
    <2>3. {id[st[1]] : st \in PassedOn(t)} = DOMAIN replica_metadata[t]
      <3>1. CASE type = "GMap"
        <4>1. ASSUME NEW i \in DOMAIN replica_metadata[t]
              PROVE  \E st \in PassedOn(t) : i = id[st[1]]
          <5>1. PICK st \in known[t] : id[st[1]] = i /\ replica_metadata[t][i] = State(st)
            BY <3>1 DEF HeldInv, States
          <5> QED BY <3>1, <5>1 DEF PassedOn, State
        <4> QED BY <1>4, <2>2, <4>1
      <3>2. CASE type # "GMap"
        BY <1>4, <3>2 DEF PassedOn
      <3> QED BY <3>1, <3>2
    <2>4. DOMAIN replica_metadata[s] \cup DOMAIN replica_metadata[t] =
             {id[st[1]] : st \in known'[s]}
      BY <1>4, <2>2, <2>3
    <2> QED BY <1>4, <2>1, <2>2, <2>4
  <1>9. \A s \in Replica : Fine(s)
    BY <1>5, <1>6, <1>7, <1>8, TableStep
  <1> HIDE DEF Fine
  <1>10. known' \in [Replica -> SUBSET (Replica \X Nat)]
    <2>1. \A s \in Replica : known'[s] \subseteq Replica \X Nat
      BY <1>9 DEF Fine
    <2>2. known' = [s \in Replica |-> known'[s]]
      BY <1>0 DEF Next, UpdateMetadata, UpdateHandler, InsertIntoCache, AddExternalReplica,
                  UpdateLocalExternalPayload, vars
    <2> QED BY <2>1, <2>2
  <1> QED BY <1>0, <1>1, <1>2, <1>3, <1>9, <1>10 DEF TypeOK, Fine

\* The types of the start.
LEMMA TypeInit ==
    ASSUME Init
    PROVE  TypeOK /\ HeldInv
  <1>1. NewMetadata \in Metadata
    <2>1. type \in AllTypes
      BY TypesAssumption DEF Init
    <2> QED BY <2>1, NewFacts
  <1>2. <<NewMetadata>> \in Seq(Metadata) /\ <<NewMetadata>> # <<>>
    BY <1>1
  <1>3. log \in [Replica -> Seq(Metadata)] /\ \A r \in Replica : log[r] # <<>>
    BY <1>2 DEF Init
  <1>4. \A s \in Replica : known[s] = {} /\ replica_metadata[s] = <<>>
    BY DEF Init
  <1>5. \A s \in Replica : /\ DOMAIN replica_metadata[s] = {}
                           /\ replica_metadata[s] \in [{} -> Metadata]
    <2>1. <<>> \in Seq(Metadata) /\ Len(<<>>) = 0 /\ DOMAIN <<>> = {}
      OBVIOUS
    <2>2. <<>> = [i \in {} |-> <<>>[i]]
      BY <2>1
    <2>3. <<>> \in [{} -> Metadata]
      BY <2>2
    <2> QED BY <1>4, <2>1, <2>3
  <1>6. HeldInv
    BY <1>5 DEF HeldInv
  <1>7. /\ metadata \in [Replica -> Metadata] /\ DOMAIN replica_metadata = Replica
        /\ DOMAIN payload = Replica /\ known \in [Replica -> SUBSET (Replica \X Nat)]
        /\ type \in Types /\ id \in Naming
    BY <1>1 DEF Init
  <1> QED BY <1>3, <1>4, <1>5, <1>6, <1>7 DEF TypeOK

-----------------------------------------------------------------------------
(* Least upper bounds *)

\* m knows what the metadata of S know, and no more.
IsLub(t, m, S) ==
    /\ m \in MetadataOf(t)
    /\ \A x \in S : Leq(t, x, m)
    /\ \A n \in MetadataOf(t) : (\A x \in S : Leq(t, x, n)) => Leq(t, m, n)

\* All there are know the same.
LEMMA LubUnique ==
    ASSUME NEW t \in Lattice, NEW S, NEW m, NEW n, IsLub(t, m, S), IsLub(t, n, S)
    PROVE  /\ m \in MetadataOf(t) /\ n \in MetadataOf(t)
           /\ Leq(t, m, n) /\ Leq(t, n, m)
  BY DEF IsLub

\* One metadata is its own.
LEMMA LubOfOne ==
    ASSUME NEW t \in Lattice, NEW m \in MetadataOf(t)
    PROVE  IsLub(t, m, {m})
  BY LeqOrder DEF IsLub

\* A metadata that knows more takes its place.
LEMMA LubAbove ==
    ASSUME NEW t \in Lattice, NEW S \in SUBSET MetadataOf(t), NEW m, IsLub(t, m, S),
           NEW n \in MetadataOf(t), Leq(t, m, n)
    PROVE  IsLub(t, n, S \cup {n})
  <1>1. m \in MetadataOf(t) /\ \A x \in S : Leq(t, x, m)
    BY DEF IsLub
  <1>2. \A x \in S : Leq(t, x, n)
    BY <1>1, LeqOrder
  <1>3. Leq(t, n, n)
    BY LeqOrder
  <1> QED BY <1>2, <1>3 DEF IsLub

\* The metadata of a known id, merged with another, knows what both stand for.
LEMMA LubOfJoin ==
    ASSUME type \in Lattice, NEW S \in SUBSET Metadata, NEW T \in SUBSET Metadata,
           NEW m, NEW n, IsLub(type, m, S), IsLub(type, n, T), Untied(type, m, n), NEW removed
    PROVE  IsLub(type, Join(m, n, removed), S \cup T)
  <1>0. Metadata = MetadataOf(type) /\ m \in Metadata /\ n \in Metadata
    BY DEF Metadata, IsLub
  <1>1. PICK both : both = Join(m, n, removed)
    OBVIOUS
  <1>2. /\ both \in Metadata /\ Leq(type, m, both) /\ Leq(type, n, both)
        /\ \A m3 \in Metadata : Leq(type, m, m3) /\ Leq(type, n, m3) => Leq(type, both, m3)
    BY <1>0, <1>1, JoinFacts
  <1>3. ASSUME NEW x \in S \cup T PROVE Leq(type, x, both)
    <2>1. Leq(type, x, m) \/ Leq(type, x, n)
      BY DEF IsLub
    <2> QED BY <1>0, <1>2, <2>1, LeqOrder
  <1>4. ASSUME NEW m3 \in Metadata, \A x \in S \cup T : Leq(type, x, m3)
        PROVE  Leq(type, both, m3)
    <2>1. Leq(type, m, m3) /\ Leq(type, n, m3)
      BY <1>0, <1>4 DEF IsLub
    <2> QED BY <1>2, <2>1
  <1> QED BY <1>0, <1>1, <1>2, <1>3, <1>4 DEF IsLub

-----------------------------------------------------------------------------
(* Entries are least upper bounds *)

\* Nobody writes to a LWWMultiSet at the time of another who writes under the same id: on
\* a tie the known one stays, and handlers differ.
DistinctTimes ==
    \A q, r \in Replica : q # r /\ id[q] = id[r] => Stamp[q] \cap Stamp[r] = {}

\* What is meant to be mergeable in any order.
Mergeable == type \in Lattice /\ (type = "LWWMultiSet" => DistinctTimes)

\* A log starts with a new metadata and ends with what the writer has; a handler has been
\* given what it has itself written.
WriterInv ==
    \A r \in Replica :
        /\ log[r][1] = NewMetadata
        /\ ~ThroughHandler(r) => metadata[r] = log[r][Len(log[r])]
        /\ ThroughHandler(r) => \A k \in 2 .. Len(log[r]) : <<r, k>> \in known[r]

\* A writer only adds to what it knows.
ChainInv ==
    \A r \in Replica : \A k \in 1 .. Len(log[r]) : \A j \in 1 .. k :
        Leq(type, log[r][j], log[r][k])

\* The time of a state is one of its writer's, or that of none.
TimesInv ==
    type = "LWWMultiSet" =>
        \A r \in Replica : \A k \in 1 .. Len(log[r]) :
            log[r][k] = NewLWWMultiSet \/ log[r][k].currentTime \in Stamp[r]

\* An entry knows what the states know that were given under its id, and no more.
LubInv ==
    \A s \in Replica : \A i \in DOMAIN replica_metadata[s] :
        IsLub(type, replica_metadata[s][i], States(s, i))

MergeInv == Mergeable => ChainInv /\ TimesInv /\ LubInv

\* Vectors that are only appended to in order are sorted, and so are their merges.
SortedInv ==
    type = "Vector" /\ Sorted =>
        /\ \A r \in Replica : \A k \in 1 .. Len(log[r]) : Ascending(log[r][k])
        /\ \A s \in Replica : \A i \in DOMAIN replica_metadata[s] : Ascending(replica_metadata[s][i])

\* A writer's texts get longer and longer.
GetLonger(r) ==
    \A k \in 1 .. Len(log[r]) : \A j \in 1 .. k - 1 : Len(log[r][j]) < Len(log[r][k])

\* The entry is the k-th state of r, and no later one was given.
HasLatest(s, r, k) ==
    /\ <<r, k>> \in known[s] /\ replica_metadata[s][id[r]] = log[r][k]
    /\ \A st \in known[s] : st[1] = r => st[2] <= k

\* A text that nobody else writes to is one of the writer's, letter by letter: a longer one has
\* all that a shorter one has, so that a merge puts nothing into it.
TextInv ==
    type = "String" =>
        \A r \in Replica : Exclusive(r) =>
            /\ GetLonger(r)
            /\ \A s \in Replica : id[r] \in DOMAIN replica_metadata[s] =>
                  \E k \in 1 .. Len(log[r]) : HasLatest(s, r, k)

IInv == TypeOK /\ HeldInv /\ WriterInv /\ MergeInv /\ SortedInv /\ TextInv

\* What writes do to the logs.
LEMMA WriteFacts ==
    ASSUME TypeOK, WriterInv, [Next]_vars
    PROVE  \/ log' = log /\ metadata' = metadata
           \/ \E r \in Replica, md \in Metadata :
                 /\ log' = [log EXCEPT ![r] = Append(log[r], md)]
                 /\ \/ /\ ~ThroughHandler(r)
                       /\ metadata' = [metadata EXCEPT ![r] = md]
                       /\ md \in Written(r, log[r][Len(log[r])])
                    \/ /\ Wrote(r, md)
                       /\ metadata' = metadata
  <1>0. type \in AllTypes /\ metadata \in [Replica -> Metadata]
    BY TypesAssumption DEF TypeOK
  <1>1. ASSUME NEW r \in Replica, UpdateMetadata(r)
        PROVE  \E md \in Metadata :
                  /\ log' = [log EXCEPT ![r] = Append(log[r], md)]
                  /\ ~ThroughHandler(r)
                  /\ metadata' = [metadata EXCEPT ![r] = md]
                  /\ md \in Written(r, log[r][Len(log[r])])
    <2>1. PICK md \in Written(r, metadata[r]) :
             /\ log' = [log EXCEPT ![r] = Append(log[r], md)]
             /\ metadata' = [metadata EXCEPT ![r] = md]
      BY <1>1 DEF UpdateMetadata
    <2>2. ~ThroughHandler(r) /\ metadata[r] = log[r][Len(log[r])] /\ metadata[r] \in Metadata
      BY <1>0, <1>1 DEF UpdateMetadata, WriterInv
    <2>3. md \in Metadata
      BY <1>0, <2>1, <2>2, WrittenFacts
    <2> QED BY <2>1, <2>2, <2>3
  <1>2. ASSUME NEW r \in Replica, UpdateHandler(r)
        PROVE  metadata' = metadata /\ \E md \in Metadata : Wrote(r, md)
    BY <1>2, HandlerFacts DEF UpdateHandler
  <1>3. ASSUME NEW r \in Replica, NEW md \in Metadata, Wrote(r, md)
        PROVE  log' = [log EXCEPT ![r] = Append(log[r], md)]
    BY <1>3 DEF Wrote
  <1>4. \/ log' = log /\ metadata' = metadata
        \/ \E r \in Replica : UpdateMetadata(r) \/ UpdateHandler(r)
    BY DEF Next, vars, InsertIntoCache, AddExternalReplica, UpdateLocalExternalPayload
  <1> QED BY <1>1, <1>2, <1>3, <1>4

\* Every call keeps the logs begun, and the writers at their ends.
LEMMA WriterStep ==
    ASSUME TypeOK, WriterInv, [Next]_vars
    PROVE  WriterInv'
  <1>0. /\ type' = type /\ id' = id
        /\ \A r \in Replica : /\ Len(log[r]) \in Nat /\ 1 \in 1 .. Len(log[r])
                              /\ \A k \in 1 .. Len(log[r]) : log'[r][k] = log[r][k]
        /\ \A s \in Replica : known[s] \subseteq known'[s]
        /\ log \in [Replica -> Seq(Metadata)] /\ metadata \in [Replica -> Metadata]
    <2>1. \A r \in Replica : Len(log[r]) \in Nat /\ 1 \in 1 .. Len(log[r])
      BY DEF TypeOK
    <2> QED BY <2>1, LogStep DEF TypeOK
  <1>1. NewMetadata' = NewMetadata /\ \A r \in Replica : ThroughHandler(r)' = ThroughHandler(r)
    BY <1>0 DEF NewMetadata, ThroughHandler
  <1> SUFFICES ASSUME NEW q \in Replica
               PROVE  /\ log'[q][1] = NewMetadata
                      /\ ~ThroughHandler(q) => metadata'[q] = log'[q][Len(log'[q])]
                      /\ ThroughHandler(q) => \A k \in 2 .. Len(log'[q]) : <<q, k>> \in known'[q]
    BY <1>1 DEF WriterInv
  <1>2. log'[q][1] = NewMetadata
    BY <1>0 DEF WriterInv
  <1>3. CASE log'[q] = log[q] /\ metadata'[q] = metadata[q]
    BY <1>0, <1>2, <1>3 DEF WriterInv
  <1>4. ASSUME NEW md \in Metadata, log'[q] = Append(log[q], md)
        PROVE  /\ Len(log'[q]) = Len(log[q]) + 1 /\ log'[q][Len(log'[q])] = md
    BY <1>0, <1>4, AppendFacts
  <1>5. ASSUME NEW md \in Metadata, log' = [log EXCEPT ![q] = Append(log[q], md)],
               ~ThroughHandler(q), metadata' = [metadata EXCEPT ![q] = md]
        PROVE  metadata'[q] = log'[q][Len(log'[q])]
    BY <1>0, <1>4, <1>5
  <1>6. ASSUME NEW md \in Metadata, Wrote(q, md)
        PROVE  ThroughHandler(q) /\ \A k \in 2 .. Len(log'[q]) : <<q, k>> \in known'[q]
    <2>1. /\ known'[q] = known[q] \cup {<<q, Len(log[q]) + 1>>} /\ ThroughHandler(q)
          /\ log'[q] = Append(log[q], md)
      BY <1>0, <1>6 DEF Wrote
    <2>2. Len(log'[q]) = Len(log[q]) + 1
      BY <1>4, <2>1
    <2>3. ASSUME NEW k \in 2 .. Len(log'[q]) PROVE <<q, k>> \in known'[q]
      <3>1. k \in 2 .. Len(log[q]) \/ k = Len(log[q]) + 1
        BY <1>0, <2>2
      <3> QED BY <2>1, <3>1 DEF WriterInv
    <2> QED BY <2>1, <2>3
  <1>7. \/ log'[q] = log[q] /\ metadata'[q] = metadata[q]
        \/ \E md \in Metadata : /\ log' = [log EXCEPT ![q] = Append(log[q], md)]
                                /\ ~ThroughHandler(q) /\ metadata' = [metadata EXCEPT ![q] = md]
        \/ \E md \in Metadata : Wrote(q, md)
    <2>1. ASSUME NEW r \in Replica, NEW md \in Metadata,
                 log' = [log EXCEPT ![r] = Append(log[r], md)],
                 metadata' = metadata \/ metadata' = [metadata EXCEPT ![r] = md], r # q
          PROVE  log'[q] = log[q] /\ metadata'[q] = metadata[q]
      BY <1>0, <2>1
    <2> QED BY <2>1, WriteFacts
  <1> QED BY <1>2, <1>3, <1>5, <1>6, <1>7

\* A write makes a state that knows more than all before it.
LEMMA WriteIsAbove ==
    ASSUME TypeOK, WriterInv, MergeInv, Mergeable,
           NEW r \in Replica, NEW md \in Metadata,
           (~ThroughHandler(r) /\ md \in Written(r, log[r][Len(log[r])])) \/ Wrote(r, md),
           NEW k \in 1 .. Len(log[r])
    PROVE  /\ Leq(type, log[r][k], md)
           /\ type = "LWWMultiSet" => md.currentTime \in Stamp[r]
  <1>0. /\ type \in AllTypes /\ type \in Lattice /\ Metadata = MetadataOf(type)
        /\ log[r] \in Seq(Metadata) /\ log[r] # <<>> /\ log[r][k] \in Metadata
    BY TypesAssumption DEF TypeOK, Mergeable, Metadata
  <1>1. CASE ~ThroughHandler(r) /\ md \in Written(r, log[r][Len(log[r])])
    <2>1. Len(log[r]) \in 1 .. Len(log[r]) /\ log[r][Len(log[r])] \in Metadata
      BY <1>0
    <2>2. Leq(type, log[r][k], log[r][Len(log[r])])
      BY <2>1 DEF MergeInv, ChainInv
    <2>3. /\ Leq(type, log[r][Len(log[r])], md)
          /\ type = "LWWMultiSet" => md.currentTime \in Stamp[r]
      BY <1>0, <1>1, <2>1, WrittenFacts
    <2> QED BY <1>0, <2>1, <2>2, <2>3, LeqOrder
  <1>2. CASE Wrote(r, md)
    <2>1. PICK i, entry : i = id[r] /\ entry = replica_metadata[r][i]
      OBVIOUS
    <2>2. ThroughHandler(r) /\ i \in DOMAIN replica_metadata[r] /\ md \in WrittenByHandler(r, entry)
      BY <1>2, <2>1 DEF Wrote
    <2>3. entry \in Metadata
      BY <2>1, <2>2, EntryFacts
    <2>4. /\ Leq(type, entry, md)
          /\ type = "LWWMultiSet" => /\ md.currentTime \in Stamp[r]
                                     /\ entry.currentTime < md.currentTime
      BY <1>0, <2>2, <2>3, WrittenFacts
    <2>5. CASE k # 1
      <3>1. <<r, k>> \in known[r]
        BY <1>0, <2>2, <2>5 DEF WriterInv
      <3>2. log[r][k] \in States(r, i)
        <4>1. PICK st : st = <<r, k>>
          OBVIOUS
        <4>2. st \in known[r] /\ id[st[1]] = i /\ State(st) = log[r][k]
          BY <2>1, <3>1, <4>1 DEF State
        <4> QED BY <4>2 DEF States
      <3>3. Leq(type, log[r][k], entry)
        BY <2>1, <2>2, <3>2 DEF MergeInv, LubInv, IsLub
      <3> QED BY <1>0, <2>3, <2>4, <3>3, LeqOrder
    <2>6. CASE k = 1 /\ type # "LWWMultiSet"
      <3>1. log[r][k] = NewMetadata
        BY <2>6 DEF WriterInv
      <3> QED BY <1>0, <2>4, <2>6, <3>1, NewFacts
    <2>7. CASE k = 1 /\ type = "LWWMultiSet"
      <3>1. log[r][k].currentTime = 0
        BY <1>0, <2>7, NewFacts DEF WriterInv, NewLWWMultiSet
      <3>2. entry.currentTime \in Nat /\ md.currentTime \in Nat
        BY <1>0, <2>3, <2>7 DEF MetadataOf
      <3>3. log[r][k].currentTime < md.currentTime
        BY <2>4, <2>7, <3>1, <3>2
      <3> QED BY <2>4, <2>7, <3>3 DEF Leq
    <2> QED BY <2>5, <2>6, <2>7
  <1> QED BY <1>1, <1>2

\* Writers keep to their order.
LEMMA ChainStep ==
    ASSUME TypeOK, WriterInv, MergeInv, Mergeable, [Next]_vars
    PROVE  ChainInv' /\ TimesInv'
  <1>0. /\ type' = type /\ type \in Lattice /\ Metadata = MetadataOf(type)
        /\ log \in [Replica -> Seq(Metadata)]
        /\ \A q \in Replica : Len(log[q]) \in Nat
    BY LogStep DEF TypeOK, Mergeable, Metadata
  <1>1. ChainInv /\ TimesInv
    BY DEF MergeInv
  <1>2. CASE log' = log
    BY <1>0, <1>1, <1>2 DEF ChainInv, TimesInv
  <1>3. ASSUME NEW r \in Replica, NEW md \in Metadata,
               log' = [log EXCEPT ![r] = Append(log[r], md)],
               (~ThroughHandler(r) /\ md \in Written(r, log[r][Len(log[r])])) \/ Wrote(r, md)
        PROVE  ChainInv' /\ TimesInv'
    <2>1. /\ log'[r] = Append(log[r], md)
          /\ \A q \in Replica \ {r} : log'[q] = log[q]
      BY <1>0, <1>3
    <2>2. PICK n \in Nat : n = Len(log[r])
      BY <1>0
    <2>3. /\ Len(log'[r]) = n + 1 /\ log'[r][n + 1] = md
          /\ \A k \in 1 .. n : log'[r][k] = log[r][k]
      <3>1. log[r] \in Seq(Metadata)
        BY <1>0
      <3>2. PICK seq : seq = log[r]
        OBVIOUS
      <3> QED BY <1>3, <2>1, <2>2, <3>1, <3>2, AppendFacts
    <2>4. \A k \in 1 .. n : Leq(type, log[r][k], md)
      BY <1>3, <2>2, WriteIsAbove
    <2>5. type = "LWWMultiSet" => md.currentTime \in Stamp[r]
      <3>1. 1 \in 1 .. Len(log[r])
        BY DEF TypeOK
      <3> QED BY <1>3, <3>1, WriteIsAbove
    <2>6. ASSUME NEW k \in 1 .. Len(log'[r]), NEW j \in 1 .. k
          PROVE  Leq(type, log'[r][j], log'[r][k])
      <3>1. CASE k \in 1 .. n
        <4>1. Leq(type, log[r][j], log[r][k])
          BY <1>1, <2>2, <3>1 DEF ChainInv
        <4>2. j \in 1 .. n
          BY <3>1
        <4> QED BY <2>3, <3>1, <4>1, <4>2
      <3>2. CASE k = n + 1
        <4>1. CASE j = n + 1
          BY <1>0, <2>3, <3>2, <4>1, LeqOrder
        <4>2. CASE j # n + 1
          <5>1. j \in 1 .. n
            BY <3>2, <4>2
          <5> QED BY <2>3, <2>4, <3>2, <5>1
        <4> QED BY <4>1, <4>2
      <3>3. k \in 1 .. n \/ k = n + 1
        BY <2>3
      <3> QED BY <3>1, <3>2, <3>3
    <2>7. ChainInv'
      <3>1. ASSUME NEW q \in Replica, NEW k \in 1 .. Len(log'[q]), NEW j \in 1 .. k
            PROVE  Leq(type, log'[q][j], log'[q][k])
        <4>1. CASE q = r
          BY <2>6, <4>1
        <4>2. CASE q # r
          BY <1>1, <2>1, <4>2 DEF ChainInv
        <4> QED BY <4>1, <4>2
      <3> QED BY <1>0, <3>1 DEF ChainInv
    <2>8. TimesInv'
      <3>1. ASSUME type = "LWWMultiSet", NEW q \in Replica, NEW k \in 1 .. Len(log'[q])
            PROVE  log'[q][k] = NewLWWMultiSet \/ log'[q][k].currentTime \in Stamp[q]
        <4>1. CASE q = r
          <5>1. k \in 1 .. n \/ k = n + 1
            BY <2>3, <4>1
          <5>2. k \in 1 .. n => log[r][k] = NewLWWMultiSet \/ log[r][k].currentTime \in Stamp[r]
            BY <1>1, <2>2, <3>1 DEF TimesInv
          <5> QED BY <2>3, <2>5, <3>1, <4>1, <5>1, <5>2
        <4>2. CASE q # r
          BY <1>1, <2>1, <3>1, <4>2 DEF TimesInv
        <4> QED BY <4>1, <4>2
      <3> QED BY <1>0, <3>1 DEF TimesInv
    <2> QED BY <2>7, <2>8
  <1> QED BY <1>2, <1>3, WriteFacts

\* States under one id can be merged without a tie.
LEMMA LogsUntied ==
    ASSUME TypeOK, MergeInv, Mergeable,
           NEW q \in Replica, NEW r \in Replica, id[q] = id[r],
           NEW j \in 1 .. Len(log[q]), NEW k \in 1 .. Len(log[r])
    PROVE  Untied(type, log[q][j], log[r][k])
  <1> SUFFICES ASSUME type = "LWWMultiSet"
               PROVE  Leq(type, log[q][j], log[r][k]) \/ Leq(type, log[r][k], log[q][j])
    BY DEF Untied
  <1>1. CASE q = r
    <2>1. j \in Nat /\ k \in Nat /\ (j \in 1 .. k \/ k \in 1 .. j)
      OBVIOUS
    <2> QED BY <1>1, <2>1 DEF MergeInv, ChainInv
  <1>2. CASE q # r
    <2>1. PICK m, n : m = log[q][j] /\ n = log[r][k]
      OBVIOUS
    <2>2. /\ m = NewLWWMultiSet \/ m.currentTime \in Stamp[q]
          /\ n = NewLWWMultiSet \/ n.currentTime \in Stamp[r]
      BY <2>1 DEF MergeInv, TimesInv
    <2>3. /\ Stamp[q] \subseteq Nat \ {0} /\ Stamp[r] \subseteq Nat \ {0}
          /\ Stamp[q] \cap Stamp[r] = {}
      BY <1>2, WriterAssumption DEF Mergeable, DistinctTimes
    <2>4. NewLWWMultiSet.currentTime = 0
      BY DEF NewLWWMultiSet
    <2>5. m = n \/ m.currentTime < n.currentTime \/ n.currentTime < m.currentTime
      BY <2>2, <2>3, <2>4
    <2> QED BY <2>1, <2>5 DEF Leq
  <1> QED BY <1>1, <1>2

\* Entries under one id can be merged without a tie, and states into them.
LEMMA EntriesUntied ==
    ASSUME TypeOK, HeldInv, MergeInv, Mergeable,
           NEW s \in Replica, NEW i \in DOMAIN replica_metadata[s]
    PROVE  /\ \A r \in Replica : \A k \in 1 .. Len(log[r]) :
                 i = id[r] => Untied(type, replica_metadata[s][i], log[r][k])
           /\ \A t \in Replica :
                 i \in DOMAIN replica_metadata[t] =>
                    Untied(type, replica_metadata[s][i], replica_metadata[t][i])
  <1> SUFFICES ASSUME type = "LWWMultiSet"
               PROVE  /\ \A r \in Replica : \A k \in 1 .. Len(log[r]) :
                            i = id[r] => Untied(type, replica_metadata[s][i], log[r][k])
                      /\ \A t \in Replica :
                            i \in DOMAIN replica_metadata[t] =>
                               Untied(type, replica_metadata[s][i], replica_metadata[t][i])
    BY DEF Untied
  <1>1. ASSUME NEW t \in Replica, i \in DOMAIN replica_metadata[t]
        PROVE  \E r \in Replica : \E k \in 1 .. Len(log[r]) :
                  id[r] = i /\ replica_metadata[t][i] = log[r][k]
    <2>1. PICK st \in known[t] : id[st[1]] = i /\ replica_metadata[t][i] = State(st)
      BY <1>1 DEF HeldInv, States
    <2> QED BY <2>1, EntryFacts DEF State
  <1>2. PICK q \in Replica :
           id[q] = i /\ \E j \in 1 .. Len(log[q]) : replica_metadata[s][i] = log[q][j]
    BY <1>1
  <1>3. \A r \in Replica : \A k \in 1 .. Len(log[r]) :
           i = id[r] => Untied(type, replica_metadata[s][i], log[r][k])
    BY <1>2, LogsUntied
  <1> QED BY <1>1, <1>3

\* The entries stay least upper bounds.
LEMMA LubStep ==
    ASSUME TypeOK, HeldInv, WriterInv, MergeInv, Mergeable, [Next]_vars
    PROVE  LubInv'
  <1>0. /\ type \in AllTypes /\ type \in Lattice /\ Metadata = MetadataOf(type)
        /\ type \notin {"ORSet", "GMap"}
    BY TypesAssumption DEF TypeOK, Mergeable, Metadata, Lattice
  <1>1. \A q \in Replica : \A j \in DOMAIN replica_metadata[q] :
           /\ IsLub(type, replica_metadata[q][j], States(q, j))
           /\ States(q, j) \subseteq Metadata
    BY EntryFacts DEF MergeInv, LubInv
  <1>2. ASSUME NEW q \in Replica, NEW i, i \notin DOMAIN replica_metadata[q]
        PROVE  States(q, i) = {}
    BY <1>2, EntryFacts DEF States
  <1> SUFFICES ASSUME NEW s \in Replica, NEW i \in DOMAIN replica_metadata'[s]
               PROVE  IsLub(type, replica_metadata'[s][i], States(s, i)')
    BY LogStep DEF LubInv
  <1>3. CASE Kept(s)
    <2>1. States(s, i)' = States(s, i)
      BY <1>3, StatesStep
    <2> QED BY <1>1, <1>3, <2>1 DEF Kept
  <1>4. ASSUME NEW md \in Metadata, Wrote(s, md)
        PROVE  IsLub(type, replica_metadata'[s][i], States(s, i)')
    <2>1. /\ i \in DOMAIN replica_metadata[s]
          /\ replica_metadata'[s][i] = IF i = id[s] THEN md ELSE replica_metadata[s][i]
      BY <1>4, WroteFacts
    <2>2. States(s, i)' = States(s, i) \cup IF i = id[s] THEN {md} ELSE {}
      BY <1>4, StatesStep
    <2>3. CASE i # id[s]
      BY <1>1, <2>1, <2>2, <2>3
    <2>4. CASE i = id[s]
      <3>1. PICK entry : entry = replica_metadata[s][i]
        OBVIOUS
      <3>2. entry \in Metadata /\ md \in WrittenByHandler(s, entry)
        BY <1>4, <2>1, <2>4, <3>1, EntryFacts DEF Wrote
      <3>3. Leq(type, entry, md)
        BY <1>0, <3>2, WrittenFacts
      <3>4. IsLub(type, md, States(s, i) \cup {md})
        BY <1>0, <1>1, <2>1, <3>1, <3>3, LubAbove
      <3> QED BY <2>1, <2>2, <2>4, <3>4
    <2> QED BY <2>3, <2>4
  <1>5. ASSUME NEW r \in Replica, NEW k \in 1 .. Len(log[r]), NEW lists, Took(s, r, k, lists)
        PROVE  IsLub(type, replica_metadata'[s][i], States(s, i)')
    <2>1. PICK md : md = log[r][k]
      OBVIOUS
    <2>2. /\ replica_metadata'[s] = Merged(replica_metadata[s], id[r], md, lists)
          /\ States(s, i)' = States(s, i) \cup IF i = id[r] THEN {md} ELSE {}
      <3>1. replica_metadata'[s] = Merged(replica_metadata[s], id[r], md, lists)
        BY <1>5, <2>1 DEF Took
      <3>2. States(s, i)' = States(s, i) \cup IF i = id[r] THEN {log[r][k]} ELSE {}
        BY <1>5, StatesStep
      <3> QED BY <2>1, <3>1, <3>2
    <2>3. md \in Metadata
      BY <1>5, <2>1, TookFacts
    <2>4. CASE i # id[r]
      <3>1. i \in DOMAIN replica_metadata[s] /\ replica_metadata'[s][i] = replica_metadata[s][i]
        BY <2>2, <2>4 DEF Merged
      <3> QED BY <1>1, <2>2, <2>4, <3>1
    <2>5. CASE i = id[r] /\ i \notin DOMAIN replica_metadata[s]
      <3>1. replica_metadata'[s][i] = md
        BY <2>2, <2>5 DEF Merged
      <3>2. States(s, i)' = {md}
        BY <1>2, <2>2, <2>5
      <3> QED BY <1>0, <2>3, <3>1, <3>2, LubOfOne
    <2>6. CASE i = id[r] /\ i \in DOMAIN replica_metadata[s]
      <3>1. PICK entry : entry = replica_metadata[s][i]
        OBVIOUS
      <3>2. replica_metadata'[s][i] = Join(entry, md, RemovedIn(lists, i))
        BY <1>0, <2>2, <2>6, <3>1 DEF Merged
      <3>3. Untied(type, entry, md)
        BY <2>1, <2>6, <3>1, EntriesUntied
      <3>4. IsLub(type, md, {md}) /\ IsLub(type, entry, States(s, i))
        BY <1>0, <1>1, <2>3, <2>6, <3>1, LubOfOne
      <3>5. IsLub(type, Join(entry, md, RemovedIn(lists, i)), States(s, i) \cup {md})
        BY <1>0, <1>1, <2>3, <2>6, <3>3, <3>4, LubOfJoin
      <3> QED BY <2>2, <2>6, <3>2, <3>5
    <2> QED BY <2>4, <2>5, <2>6
  <1>6. ASSUME NEW t \in Replica, NEW lists, TookAll(s, t, lists)
        PROVE  IsLub(type, replica_metadata'[s][i], States(s, i)')
    <2>1. PICK table, other : table = replica_metadata[s] /\ other = replica_metadata[t]
      OBVIOUS
    <2>2. /\ replica_metadata'[s] = MergedTables(table, other, lists)
          /\ States(s, i)' = States(s, i) \cup States(t, i)
      <3>1. replica_metadata'[s] = MergedTables(table, other, lists)
        BY <1>6, <2>1 DEF TookAll
      <3>2. States(s, i)' = States(s, i) \cup States(t, i)
        BY <1>0, <1>6, StatesStep
      <3> QED BY <3>1, <3>2
    <2>3. CASE i \notin DOMAIN other
      <3>1. i \in DOMAIN table /\ replica_metadata'[s][i] = table[i]
        BY <2>2, <2>3 DEF MergedTables
      <3>2. States(s, i)' = States(s, i)
        BY <1>2, <2>1, <2>2, <2>3
      <3> QED BY <1>1, <2>1, <3>1, <3>2
    <2>4. CASE i \in DOMAIN other /\ i \notin DOMAIN table
      <3>1. replica_metadata'[s][i] = other[i]
        BY <1>0, <2>2, <2>4 DEF MergedTables, Merged
      <3>2. States(s, i)' = States(t, i)
        BY <1>2, <2>1, <2>2, <2>4
      <3> QED BY <1>1, <2>1, <2>4, <3>1, <3>2
    <2>5. CASE i \in DOMAIN other /\ i \in DOMAIN table
      <3>1. PICK m, n : m = table[i] /\ n = other[i]
        OBVIOUS
      <3>2. replica_metadata'[s][i] = Join(m, n, RemovedIn(lists, i))
        BY <1>0, <2>2, <2>5, <3>1 DEF MergedTables, Merged
      <3>3. Untied(type, m, n)
        BY <2>1, <2>5, <3>1, EntriesUntied
      <3>4. /\ IsLub(type, m, States(s, i)) /\ IsLub(type, n, States(t, i))
            /\ States(s, i) \subseteq Metadata /\ States(t, i) \subseteq Metadata
        BY <1>1, <2>1, <2>5, <3>1
      <3>5. IsLub(type, Join(m, n, RemovedIn(lists, i)), States(s, i) \cup States(t, i))
        BY <1>0, <3>3, <3>4, LubOfJoin
      <3> QED BY <2>2, <3>2, <3>5
    <2> QED BY <2>3, <2>4, <2>5
  <1> QED BY <1>3, <1>4, <1>5, <1>6, TableStep

-----------------------------------------------------------------------------
(* Vectors and texts *)

\* Appends in order, and merges, keep the vectors sorted.
LEMMA SortedStep ==
    ASSUME TypeOK, WriterInv, SortedInv, [Next]_vars
    PROVE  SortedInv'
  <1> SUFFICES ASSUME type = "Vector", Sorted
               PROVE  /\ \A r \in Replica : \A k \in 1 .. Len(log'[r]) : Ascending(log'[r][k])
                      /\ \A s \in Replica : \A i \in DOMAIN replica_metadata'[s] :
                            Ascending(replica_metadata'[s][i])
    BY LogStep DEF SortedInv
  <1>1. /\ type \in AllTypes /\ Metadata = Seq(Element)
        /\ log \in [Replica -> Seq(Metadata)] /\ \A r \in Replica : Len(log[r]) \in 1 .. Len(log[r])
    BY TypesAssumption DEF TypeOK, Metadata, MetadataOf
  <1>2. /\ \A r \in Replica : \A k \in 1 .. Len(log[r]) : Ascending(log[r][k])
        /\ \A s \in Replica : \A i \in DOMAIN replica_metadata[s] : Ascending(replica_metadata[s][i])
        /\ \A s \in Replica : replica_metadata[s] \in [DOMAIN replica_metadata[s] -> Metadata]
    BY EntryFacts DEF SortedInv
  <1>3. ASSUME NEW r \in Replica, NEW md \in Metadata, Wrote(r, md) PROVE Ascending(md)
    <2>1. PICK entry : entry = replica_metadata[r][id[r]]
      OBVIOUS
    <2>2. entry \in Metadata /\ Ascending(entry) /\ md \in WrittenByHandler(r, entry)
      BY <1>2, <1>3, <2>1 DEF Wrote
    <2> QED BY <1>1, <2>2, WrittenFacts
  <1>4. ASSUME NEW r \in Replica, NEW md \in Metadata, md \in Written(r, log[r][Len(log[r])])
        PROVE  Ascending(md)
    <2>1. PICK last : last = log[r][Len(log[r])]
      OBVIOUS
    <2>2. last \in Metadata /\ Ascending(last) /\ md \in Written(r, last)
      BY <1>1, <1>2, <1>4, <2>1
    <2> QED BY <1>1, <2>2, WrittenFacts
  <1>5. ASSUME NEW r \in Replica, NEW k \in 1 .. Len(log'[r]) PROVE Ascending(log'[r][k])
    <2>1. CASE log'[r] = log[r]
      BY <1>2, <2>1
    <2>2. ASSUME NEW md \in Metadata, log'[r] = Append(log[r], md), Ascending(md)
          PROVE  Ascending(log'[r][k])
      <3>1. PICK seq, n : seq = log[r] /\ n = Len(seq)
        OBVIOUS
      <3>2. /\ Len(log'[r]) = n + 1 /\ log'[r][n + 1] = md /\ n \in Nat
            /\ \A j \in 1 .. n : log'[r][j] = log[r][j]
        BY <1>1, <2>2, <3>1, AppendFacts
      <3>3. k \in 1 .. n \/ k = n + 1
        BY <3>2
      <3> QED BY <1>2, <2>2, <3>1, <3>2, <3>3
    <2>3. \/ log'[r] = log[r]
          \/ \E md \in Metadata : log'[r] = Append(log[r], md) /\ Ascending(md)
      <3>1. ASSUME NEW q \in Replica, NEW md \in Metadata, log' = [log EXCEPT ![q] = Append(log[q], md)],
                   Ascending(md)
            PROVE  \/ log'[r] = log[r]
                   \/ log'[r] = Append(log[r], md) /\ Ascending(md)
        BY <1>1, <3>1
      <3> QED BY <1>3, <1>4, <3>1, WriteFacts
    <2> QED BY <2>1, <2>2, <2>3
  <1> SUFFICES ASSUME NEW s \in Replica, NEW i \in DOMAIN replica_metadata'[s]
               PROVE  Ascending(replica_metadata'[s][i])
    BY <1>5
  <1>6. ASSUME NEW m1 \in Metadata, NEW m2 \in Metadata, Ascending(m1), Ascending(m2), NEW removed
        PROVE  Ascending(Join(m1, m2, removed))
    <2>1. Join(m1, m2, removed) = FixLocalConflict(m1, m2)
      BY DEF Join
    <2> QED BY <1>1, <1>6, <2>1, FixLocalConflictFacts
  <1>7. CASE Kept(s)
    BY <1>2, <1>7 DEF Kept
  <1>8. ASSUME NEW md \in Metadata, Wrote(s, md) PROVE Ascending(replica_metadata'[s][i])
    <2>1. /\ replica_metadata'[s] \in [DOMAIN replica_metadata[s] -> Metadata]
          /\ \A j \in DOMAIN replica_metadata[s] :
                replica_metadata'[s][j] = IF j = id[s] THEN md ELSE replica_metadata[s][j]
      BY <1>8, WroteFacts
    <2> QED BY <1>2, <1>3, <1>8, <2>1
  <1>9. ASSUME NEW r \in Replica, NEW k \in 1 .. Len(log[r]), NEW lists, Took(s, r, k, lists)
        PROVE  Ascending(replica_metadata'[s][i])
    <2>1. PICK md : md = log[r][k]
      OBVIOUS
    <2>2. md \in Metadata /\ Ascending(md)
      BY <1>1, <1>2, <2>1
    <2>3. replica_metadata'[s] = Merged(replica_metadata[s], id[r], md, lists)
      BY <1>9, <2>1 DEF Took
    <2>4. CASE i # id[r]
      <3>1. i \in DOMAIN replica_metadata[s] /\ replica_metadata'[s][i] = replica_metadata[s][i]
        BY <2>3, <2>4 DEF Merged
      <3> QED BY <1>2, <3>1
    <2>5. CASE i = id[r] /\ i \notin DOMAIN replica_metadata[s]
      BY <2>2, <2>3, <2>5 DEF Merged
    <2>6. CASE i = id[r] /\ i \in DOMAIN replica_metadata[s]
      <3>1. replica_metadata'[s][i] = Join(replica_metadata[s][i], md, RemovedIn(lists, i))
        BY <2>3, <2>6 DEF Merged
      <3>2. replica_metadata[s][i] \in Metadata /\ Ascending(replica_metadata[s][i])
        BY <1>2, <2>6
      <3> QED BY <1>6, <2>2, <3>1, <3>2
    <2> QED BY <2>4, <2>5, <2>6
  <1>10. ASSUME NEW t \in Replica, NEW lists, TookAll(s, t, lists)
         PROVE  Ascending(replica_metadata'[s][i])
    <2>1. PICK table, other : table = replica_metadata[s] /\ other = replica_metadata[t]
      OBVIOUS
    <2>2. replica_metadata'[s] = MergedTables(table, other, lists)
      BY <1>10, <2>1 DEF TookAll
    <2>3. /\ \A j \in DOMAIN table : table[j] \in Metadata /\ Ascending(table[j])
          /\ \A j \in DOMAIN other : other[j] \in Metadata /\ Ascending(other[j])
      BY <1>2, <2>1
    <2>4. CASE i \notin DOMAIN other
      <3>1. i \in DOMAIN table /\ replica_metadata'[s][i] = table[i]
        BY <2>2, <2>4 DEF MergedTables
      <3> QED BY <2>3, <3>1
    <2>5. CASE i \in DOMAIN other /\ i \notin DOMAIN table
      <3>1. replica_metadata'[s][i] = other[i]
        BY <2>2, <2>5 DEF MergedTables, Merged
      <3> QED BY <2>3, <2>5, <3>1
    <2>6. CASE i \in DOMAIN other /\ i \in DOMAIN table
      <3>1. replica_metadata'[s][i] = Join(table[i], other[i], RemovedIn(lists, i))
        BY <2>2, <2>6 DEF MergedTables, Merged
      <3> QED BY <1>6, <2>3, <2>6, <3>1
    <2> QED BY <2>4, <2>5, <2>6
  <1> QED BY <1>7, <1>8, <1>9, <1>10, TableStep

\* Two texts of one writer merge into the later one.
LEMMA TextsMerge ==
    ASSUME TypeOK, ChainInv, type = "String", NEW r \in Replica, GetLonger(r),
           NEW j \in 1 .. Len(log[r]), NEW k \in 1 .. Len(log[r]), NEW removed
    PROVE  Join(log[r][j], log[r][k], removed) = log[r][IF j <= k THEN k ELSE j]
  <1>1. Metadata = Seq(Character) /\ log[r] \in Seq(Metadata)
    BY DEF TypeOK, Metadata, MetadataOf, Character
  <1>2. PICK m, n : m = log[r][j] /\ n = log[r][k]
    OBVIOUS
  <1>3. m \in Seq(Character) /\ n \in Seq(Character) /\ Len(m) \in Nat /\ Len(n) \in Nat
    <2>1. m \in Seq(Character) /\ n \in Seq(Character)
      BY <1>1, <1>2
    <2> QED BY <2>1, LenProperties
  <1>4. Join(m, n, removed) = FixTextConflict(m, n)
    BY DEF Join
  <1>5. \A v, w : Leq(type, v, w) = FewerOf(Character, v, w)
    BY DEF Leq
  <1>6. CASE j <= k
    <2>1. FewerOf(Character, m, n)
      <3>1. j \in 1 .. k
        BY <1>6
      <3> QED BY <1>2, <1>5, <3>1 DEF ChainInv
    <2>2. Len(m) <= Len(n)
      <3>1. j = k \/ j \in 1 .. k - 1
        BY <1>6
      <3>2. m = n \/ Len(m) < Len(n)
        BY <1>2, <3>1 DEF GetLonger
      <3> QED BY <1>3, <3>2
    <2>3. FixTextConflict(m, n) = n
      BY <1>3, <2>1, <2>2, FixTextConflictFacts DEF FewerOf
    <2> QED BY <1>2, <1>4, <1>6, <2>3
  <1>7. CASE ~(j <= k)
    <2>1. k \in 1 .. j - 1 /\ k \in 1 .. j
      BY <1>7
    <2>2. FewerOf(Character, n, m)
      BY <1>2, <1>5, <2>1 DEF ChainInv
    <2>3. Len(m) > Len(n)
      BY <1>2, <1>3, <2>1 DEF GetLonger
    <2>4. FixTextConflict(m, n) = m
      BY <1>3, <2>2, <2>3, FixTextConflictFacts DEF FewerOf
    <2> QED BY <1>2, <1>4, <1>7, <2>4
  <1> QED BY <1>6, <1>7

\* A sole writer that writes through its handler writes to its latest text.
LEMMA WritesToLatest ==
    ASSUME TypeOK, WriterInv, NEW r \in Replica, ThroughHandler(r), NEW k \in 1 .. Len(log[r]),
           HasLatest(r, r, k)
    PROVE  k = Len(log[r])
  <1>1. PICK n : n = Len(log[r])
    OBVIOUS
  <1>2. n \in Nat /\ k \in 1 .. n
    BY <1>1 DEF TypeOK
  <1>3. CASE n \in 2 .. n
    <2>1. PICK st : st = <<r, n>>
      OBVIOUS
    <2>2. st \in known[r] /\ st[1] = r /\ st[2] = n
      BY <1>1, <1>3, <2>1 DEF WriterInv
    <2> QED BY <1>1, <1>2, <2>2 DEF HasLatest
  <1>4. CASE n \notin 2 .. n
    BY <1>1, <1>2, <1>4
  <1> QED BY <1>3, <1>4

\* A sole writer's next text is longer than all before it.
LEMMA TextsGetLonger ==
    ASSUME TypeOK, WriterInv, TextInv, type = "String", [Next]_vars,
           NEW r \in Replica, Exclusive(r)
    PROVE  GetLonger(r)'
  <1>1. /\ type \in AllTypes /\ Metadata = Seq(Character) /\ log \in [Replica -> Seq(Metadata)]
        /\ log[r] \in Seq(Metadata) /\ Len(log[r]) \in Nat /\ Len(log[r]) \in 1 .. Len(log[r])
    BY TypesAssumption DEF TypeOK, Metadata, MetadataOf, Character
  <1>2. GetLonger(r) /\ \A s \in Replica : id[r] \in DOMAIN replica_metadata[s] =>
                             \E k \in 1 .. Len(log[r]) : HasLatest(s, r, k)
    BY DEF TextInv
  <1>3. PICK seq, n : seq = log[r] /\ n = Len(seq)
    OBVIOUS
  <1>4. PICK last : last = log[r][n]
    OBVIOUS
  <1>5. last \in Metadata /\ n \in Nat /\ \A k \in 1 .. n : log[r][k] \in Seq(Character)
    BY <1>1, <1>3, <1>4
  <1>6. CASE log'[r] = log[r]
    BY <1>2, <1>6 DEF GetLonger
  <1>7. ASSUME NEW md \in Metadata, log'[r] = Append(log[r], md), Len(last) < Len(md)
        PROVE  GetLonger(r)'
    <2>1. /\ Len(log'[r]) = n + 1 /\ log'[r][n + 1] = md
          /\ \A k \in 1 .. n : log'[r][k] = log[r][k]
      BY <1>1, <1>3, <1>7, AppendFacts
    <2>2. Len(last) \in Nat /\ Len(md) \in Nat /\ \A k \in 1 .. n : Len(log[r][k]) \in Nat
      BY <1>1, <1>5, LenProperties
    <2>3. ASSUME NEW k \in 1 .. n + 1, NEW j \in 1 .. k - 1
          PROVE  Len(log'[r][j]) < Len(log'[r][k])
      <3>1. CASE k \in 1 .. n
        <4>1. j \in 1 .. n
          BY <1>5, <3>1
        <4> QED BY <1>2, <1>3, <2>1, <3>1, <4>1 DEF GetLonger
      <3>2. CASE k = n + 1
        <4>1. j \in 1 .. n /\ (j = n \/ j \in 1 .. n - 1)
          BY <1>5, <3>2
        <4>2. n \in 1 .. Len(log[r])
          BY <1>1, <1>3
        <4>3. j = n \/ Len(log[r][j]) < Len(last)
          BY <1>2, <1>4, <4>1, <4>2 DEF GetLonger
        <4>4. Len(log[r][j]) < Len(md)
          BY <1>4, <1>7, <2>2, <4>1, <4>3
        <4> QED BY <2>1, <3>2, <4>1, <4>4
      <3>3. k \in 1 .. n \/ k = n + 1
        BY <1>5
      <3> QED BY <3>1, <3>2, <3>3
    <2> QED BY <2>1, <2>3 DEF GetLonger
  <1>8. \/ log'[r] = log[r]
        \/ \E md \in Metadata : log'[r] = Append(log[r], md) /\ Len(last) < Len(md)
    <2>1. ASSUME NEW q \in Replica, NEW md \in Metadata,
                 log' = [log EXCEPT ![q] = Append(log[q], md)]
          PROVE  q # r => log'[r] = log[r]
      BY <1>1, <2>1
    <2>2. ASSUME NEW md \in Metadata, log' = [log EXCEPT ![r] = Append(log[r], md)],
                 md \in Written(r, log[r][Len(log[r])])
          PROVE  log'[r] = Append(log[r], md) /\ Len(last) < Len(md)
      <3>1. md \in Written(r, last)
        BY <1>3, <1>4, <2>2
      <3>2. Len(last) < Len(md)
        BY <1>1, <1>5, <3>1, WrittenFacts
      <3> QED BY <1>1, <2>2, <3>2
    <2>3. ASSUME NEW md \in Metadata, log' = [log EXCEPT ![r] = Append(log[r], md)], Wrote(r, md)
          PROVE  log'[r] = Append(log[r], md) /\ Len(last) < Len(md)
      <3>1. /\ ThroughHandler(r) /\ id[r] \in DOMAIN replica_metadata[r]
            /\ md \in WrittenByHandler(r, replica_metadata[r][id[r]])
        BY <2>3 DEF Wrote
      <3>2. PICK k \in 1 .. Len(log[r]) : HasLatest(r, r, k)
        BY <1>2, <3>1
      <3>3. k = n
        BY <1>3, <3>1, <3>2, WritesToLatest
      <3>4. md \in WrittenByHandler(r, last)
        BY <1>4, <3>1, <3>2, <3>3 DEF HasLatest
      <3>5. Len(last) < Len(md)
        BY <1>1, <1>5, <3>4, WrittenFacts
      <3> QED BY <1>1, <2>3, <3>5
    <2> QED BY <2>1, <2>2, <2>3, WriteFacts
  <1> QED BY <1>6, <1>7, <1>8

\* Every call keeps a sole writer's texts in the tables.
LEMMA TextStep ==
    ASSUME TypeOK, WriterInv, MergeInv, TextInv, [Next]_vars
    PROVE  TextInv'
  <1>0. type' = type /\ id' = id
    BY LogStep
  <1> SUFFICES ASSUME type = "String", NEW r \in Replica, Exclusive(r), NEW s \in Replica,
                      id[r] \in DOMAIN replica_metadata'[s]
               PROVE  \E k \in 1 .. Len(log'[r]) : HasLatest(s, r, k)'
    <2>1. \A r \in Replica : Exclusive(r)' = Exclusive(r)
      BY <1>0 DEF Exclusive
    <2> QED BY <1>0, <2>1, TextsGetLonger DEF TextInv
  <1>1. ChainInv
    BY DEF MergeInv, Mergeable, Lattice
  <1>2. GetLonger(r) /\ \A q \in Replica : id[r] \in DOMAIN replica_metadata[q] =>
                             \E k \in 1 .. Len(log[r]) : HasLatest(q, r, k)
    BY DEF TextInv
  <1>3. \A q \in Replica : id[q] = id[r] => q = r
    BY DEF Exclusive
  <1>4. /\ \A k \in 1 .. Len(log[r]) : k \in 1 .. Len(log'[r]) /\ log'[r][k] = log[r][k]
        /\ log[r] \in Seq(Metadata) /\ log'[r] \in Seq(Metadata) /\ Len(log[r]) \in Nat
    <2>1. /\ log'[r] \in Seq(Metadata) /\ log[r] \in Seq(Metadata) /\ Len(log[r]) <= Len(log'[r])
          /\ \A k \in 1 .. Len(log[r]) : log'[r][k] = log[r][k]
      BY LogStep DEF TypeOK
    <2>2. Len(log[r]) \in Nat /\ Len(log'[r]) \in Nat
      BY <2>1, LenProperties
    <2> QED BY <2>1, <2>2
  <1>5. /\ \A q \in Replica : \A st \in known[q] :
              /\ st = <<st[1], st[2]>> /\ st[1] \in Replica /\ id[st[1]] \in DOMAIN replica_metadata[q]
              /\ st[2] \in 1 .. Len(log[st[1]])
        /\ \A q \in Replica : replica_metadata[q] \in [DOMAIN replica_metadata[q] -> Metadata]
    <2>1. ASSUME NEW q \in Replica, NEW st \in known[q]
          PROVE  /\ st = <<st[1], st[2]>> /\ st[1] \in Replica
                 /\ id[st[1]] \in DOMAIN replica_metadata[q] /\ st[2] \in 1 .. Len(log[st[1]])
      <3>1. st \in Replica \X Nat
        BY DEF TypeOK
      <3> QED BY <3>1, EntryFacts
    <2> QED BY <2>1, EntryFacts
  <1>6. CASE Kept(s)
    <2>1. PICK k \in 1 .. Len(log[r]) : HasLatest(s, r, k)
      BY <1>2, <1>6 DEF Kept
    <2>2. HasLatest(s, r, k)'
      BY <1>0, <1>4, <1>6, <2>1 DEF Kept, HasLatest
    <2> QED BY <1>4, <2>1, <2>2
  <1>7. ASSUME NEW md \in Metadata, Wrote(s, md)
        PROVE  \E k \in 1 .. Len(log'[r]) : HasLatest(s, r, k)'
    <2>1. PICK st : st = <<s, Len(log[s]) + 1>>
      OBVIOUS
    <2>2. known'[s] = known[s] \cup {st} /\ st[1] = s /\ st[2] = Len(log[s]) + 1
      BY <1>7, <2>1 DEF Wrote
    <2>3. /\ id[r] \in DOMAIN replica_metadata[s]
          /\ replica_metadata'[s][id[r]] =
                IF id[r] = id[s] THEN md ELSE replica_metadata[s][id[r]]
      <3>1. /\ replica_metadata'[s] \in [DOMAIN replica_metadata[s] -> Metadata]
            /\ \A i \in DOMAIN replica_metadata[s] :
                  replica_metadata'[s][i] = IF i = id[s] THEN md ELSE replica_metadata[s][i]
        BY <1>7, WroteFacts
      <3> QED BY <3>1
    <2>4. CASE s # r
      <3>1. PICK k \in 1 .. Len(log[r]) : HasLatest(s, r, k)
        BY <1>2, <2>3
      <3>2. id[r] # id[s]
        BY <1>3, <2>4
      <3>3. HasLatest(s, r, k)'
        BY <1>0, <1>4, <2>2, <2>3, <2>4, <3>1, <3>2 DEF HasLatest
      <3> QED BY <1>4, <3>1, <3>3
    <2>5. CASE s = r
      <3>1. PICK seq, n : seq = log[r] /\ n = Len(seq)
        OBVIOUS
      <3>2. log'[r] = Append(seq, md) /\ seq \in Seq(Metadata)
        <4>1. log \in [Replica -> Seq(Metadata)] /\ log' = [log EXCEPT ![s] = Append(log[s], md)]
          BY <1>7 DEF Wrote, TypeOK
        <4> QED BY <2>5, <3>1, <4>1
      <3>3. Len(log'[r]) = n + 1 /\ log'[r][n + 1] = md /\ n \in Nat
        BY <1>4, <3>1, <3>2, AppendFacts
      <3>4. <<r, n + 1>> \in known'[s] /\ replica_metadata'[s][id[r]] = log'[r][n + 1]
        BY <2>1, <2>2, <2>3, <2>5, <3>1, <3>3
      <3>5. ASSUME NEW given \in known'[s], given[1] = r PROVE given[2] <= n + 1
        <4>1. CASE given = st
          BY <2>2, <2>5, <3>1, <3>3, <4>1
        <4>2. CASE given \in known[s]
          <5>1. given[2] \in 1 .. n
            BY <1>5, <3>1, <3>5, <4>2
          <5> QED BY <3>3, <5>1
        <4> QED BY <2>2, <4>1, <4>2
      <3>6. HasLatest(s, r, n + 1)'
        BY <1>0, <3>4, <3>5 DEF HasLatest
      <3>7. n + 1 \in 1 .. Len(log'[r])
        BY <3>3
      <3> QED BY <3>6, <3>7
    <2> QED BY <2>4, <2>5
  <1>8. ASSUME NEW q \in Replica, NEW k \in 1 .. Len(log[q]), NEW lists, Took(s, q, k, lists)
        PROVE  \E n \in 1 .. Len(log'[r]) : HasLatest(s, r, n)'
    <2>1. PICK st : st = <<q, k>>
      OBVIOUS
    <2>2. known'[s] = known[s] \cup {st} /\ st[1] = q /\ st[2] = k /\ log' = log
      BY <1>8, <2>1 DEF Took
    <2>3. /\ replica_metadata'[s] = Merged(replica_metadata[s], id[q], log[q][k], lists)
          /\ type # "GMap"
      BY <1>8 DEF Took
    <2>4. CASE q # r
      <3>1. /\ id[r] \in DOMAIN replica_metadata[s]
            /\ replica_metadata'[s][id[r]] = replica_metadata[s][id[r]]
        BY <1>3, <2>3, <2>4 DEF Merged
      <3>2. PICK n \in 1 .. Len(log[r]) : HasLatest(s, r, n)
        BY <1>2, <3>1
      <3>3. HasLatest(s, r, n)'
        BY <1>0, <2>2, <2>4, <3>1, <3>2 DEF HasLatest
      <3> QED BY <1>4, <3>2, <3>3
    <2>5. CASE q = r /\ id[r] \notin DOMAIN replica_metadata[s]
      <3>1. replica_metadata'[s][id[r]] = log[r][k]
        BY <2>3, <2>5 DEF Merged
      <3>2. \A given \in known[s] : given[1] # r
        BY <1>5, <2>5
      <3>3. HasLatest(s, r, k)'
        <4>1. <<r, k>> \in known'[s]
          BY <2>1, <2>2, <2>5
        <4>2. k \in Nat /\ \A given \in known'[s] : given[1] = r => given[2] <= k
          BY <2>2, <3>2
        <4> QED BY <1>0, <2>2, <3>1, <4>1, <4>2 DEF HasLatest
      <3> QED BY <1>4, <2>5, <3>3
    <2>6. CASE q = r /\ id[r] \in DOMAIN replica_metadata[s]
      <3>1. PICK j \in 1 .. Len(log[r]) : HasLatest(s, r, j)
        BY <1>2, <2>6
      <3>2. PICK n : n = IF j <= k THEN k ELSE j
        OBVIOUS
      <3>3. n \in 1 .. Len(log[r]) /\ j <= n /\ k <= n /\ n \in Nat /\ j \in Nat /\ k \in Nat
        BY <2>6, <3>1, <3>2
      <3>4. replica_metadata'[s][id[r]] = Join(log[r][j], log[r][k], RemovedIn(lists, id[r]))
        BY <2>3, <2>6, <3>1 DEF Merged, HasLatest
      <3>5. replica_metadata'[s][id[r]] = log[r][n]
        <4>1. k \in 1 .. Len(log[r])
          BY <2>6
        <4>2. \A removed : Join(log[r][j], log[r][k], removed) = log[r][IF j <= k THEN k ELSE j]
          BY <1>1, <1>2, <4>1, TextsMerge
        <4> QED BY <3>2, <3>4, <4>2
      <3>6. <<r, n>> \in known'[s]
        BY <2>1, <2>2, <2>6, <3>1, <3>2 DEF HasLatest
      <3>7. ASSUME NEW given \in known'[s], given[1] = r PROVE given[2] <= n
        <4>1. CASE given = st
          BY <2>2, <3>3, <4>1
        <4>2. CASE given \in known[s]
          <5>1. given[2] <= j /\ given[2] \in Nat
            BY <1>5, <3>1, <3>7, <4>2 DEF HasLatest
          <5> QED BY <3>3, <5>1
        <4> QED BY <2>2, <4>1, <4>2
      <3>8. HasLatest(s, r, n)'
        BY <1>0, <2>2, <3>5, <3>6, <3>7 DEF HasLatest
      <3> QED BY <1>4, <3>3, <3>8
    <2> QED BY <2>4, <2>5, <2>6
  <1>9. ASSUME NEW t \in Replica, NEW lists, TookAll(s, t, lists)
        PROVE  \E n \in 1 .. Len(log'[r]) : HasLatest(s, r, n)'
    <2>1. PICK table, other : table = replica_metadata[s] /\ other = replica_metadata[t]
      OBVIOUS
    <2>2. /\ replica_metadata'[s] = MergedTables(table, other, lists)
          /\ known'[s] = known[s] \cup known[t] /\ log' = log
      BY <1>9, <2>1 DEF TookAll, PassedOn
    <2>3. CASE id[r] \notin DOMAIN other
      <3>1. id[r] \in DOMAIN table /\ replica_metadata'[s][id[r]] = table[id[r]]
        BY <2>2, <2>3 DEF MergedTables
      <3>2. \A given \in known[t] : given[1] # r
        BY <1>5, <2>1, <2>3
      <3>3. PICK n \in 1 .. Len(log[r]) : HasLatest(s, r, n)
        BY <1>2, <2>1, <3>1
      <3>4. HasLatest(s, r, n)'
        BY <1>0, <2>1, <2>2, <3>1, <3>2, <3>3 DEF HasLatest
      <3> QED BY <1>4, <3>3, <3>4
    <2>4. CASE id[r] \in DOMAIN other /\ id[r] \notin DOMAIN table
      <3>1. replica_metadata'[s][id[r]] = other[id[r]]
        BY <2>2, <2>4 DEF MergedTables, Merged
      <3>2. \A given \in known[s] : given[1] # r
        BY <1>5, <2>1, <2>4
      <3>3. PICK n \in 1 .. Len(log[r]) : HasLatest(t, r, n)
        BY <1>2, <2>1, <2>4
      <3>4. HasLatest(s, r, n)'
        BY <1>0, <2>1, <2>2, <3>1, <3>2, <3>3 DEF HasLatest
      <3> QED BY <1>4, <3>3, <3>4
    <2>5. CASE id[r] \in DOMAIN other /\ id[r] \in DOMAIN table
      <3>1. PICK j \in 1 .. Len(log[r]) : HasLatest(s, r, j)
        BY <1>2, <2>1, <2>5
      <3>2. PICK k \in 1 .. Len(log[r]) : HasLatest(t, r, k)
        BY <1>2, <2>1, <2>5
      <3>3. PICK n : n = IF j <= k THEN k ELSE j
        OBVIOUS
      <3>4. n \in 1 .. Len(log[r]) /\ j <= n /\ k <= n /\ n \in Nat /\ j \in Nat /\ k \in Nat
        BY <1>4, <3>1, <3>2, <3>3
      <3>5. replica_metadata'[s][id[r]] = Join(log[r][j], log[r][k], RemovedIn(lists, id[r]))
        <4>1. table[id[r]] = log[r][j] /\ other[id[r]] = log[r][k]
          BY <2>1, <3>1, <3>2 DEF HasLatest
        <4>2. replica_metadata'[s][id[r]] =
                 Join(table[id[r]], other[id[r]], RemovedIn(lists, id[r]))
          BY <2>2, <2>5 DEF MergedTables, Merged
        <4> QED BY <4>1, <4>2
      <3>6. replica_metadata'[s][id[r]] = log[r][n]
        <4>1. \A removed : Join(log[r][j], log[r][k], removed) = log[r][IF j <= k THEN k ELSE j]
          BY <1>1, <1>2, TextsMerge
        <4> QED BY <3>3, <3>5, <4>1
      <3>7. <<r, n>> \in known'[s]
        BY <2>2, <3>1, <3>2, <3>3 DEF HasLatest
      <3>8. ASSUME NEW given \in known'[s], given[1] = r PROVE given[2] <= n
        <4>1. given \in known[s] \/ given \in known[t]
          BY <2>2
        <4>2. given[2] \in Nat /\ (given[2] <= j \/ given[2] <= k)
          BY <1>5, <3>1, <3>2, <3>8, <4>1 DEF HasLatest
        <4> QED BY <3>4, <4>2
      <3>9. HasLatest(s, r, n)'
        BY <1>0, <2>2, <3>6, <3>7, <3>8 DEF HasLatest
      <3> QED BY <1>4, <3>4, <3>9
    <2> QED BY <2>3, <2>4, <2>5
  <1> QED BY <1>6, <1>7, <1>8, <1>9, TableStep

-----------------------------------------------------------------------------
(* The invariant *)

\* The invariant holds at the start,
LEMMA StartsWell ==
    ASSUME Init
    PROVE  IInv
  <1>1. TypeOK /\ HeldInv
    BY TypeInit
  <1>2. \A r \in Replica : /\ log[r] = <<NewMetadata>> /\ metadata[r] = NewMetadata
                           /\ replica_metadata[r] = <<>>
    BY DEF Init
  <1>3. ASSUME NEW r \in Replica PROVE Len(log[r]) = 1 /\ log[r][1] = NewMetadata
    <2>1. Len(<<NewMetadata>>) = 1 /\ <<NewMetadata>>[1] = NewMetadata
      OBVIOUS
    <2>2. log[r] = <<NewMetadata>>
      BY <1>2
    <2> QED BY <2>1, <2>2
  <1>4. WriterInv
    BY <1>2, <1>3 DEF WriterInv
  <1>5. ASSUME Mergeable PROVE ChainInv /\ TimesInv /\ LubInv
    <2>1. /\ type \in AllTypes /\ type \in Lattice
          /\ NewMetadata \in MetadataOf(type)
      BY <1>5, TypesAssumption, NewFacts DEF TypeOK, Mergeable, Metadata, Init
    <2>0. ASSUME NEW r \in Replica, NEW k \in 1 .. Len(log[r]) PROVE k = 1
      <3>1. Len(log[r]) = 1
        BY <1>3
      <3> QED BY <3>1
    <2>2. ChainInv
      <3>1. ASSUME NEW r \in Replica, NEW k \in 1 .. Len(log[r]), NEW j \in 1 .. k
            PROVE  Leq(type, log[r][j], log[r][k])
        <4>1. k = 1
          BY <2>0
        <4>2. j = 1
          BY <4>1
        <4> QED BY <1>3, <2>1, <4>1, <4>2, LeqOrder
      <3> QED BY <3>1 DEF ChainInv
    <2>3. TimesInv
      <3>1. ASSUME type = "LWWMultiSet", NEW r \in Replica, NEW k \in 1 .. Len(log[r])
            PROVE  log[r][k] = NewLWWMultiSet
        <4>1. k = 1
          BY <2>0
        <4> QED BY <1>3, <2>1, <3>1, <4>1, NewFacts
      <3> QED BY <3>1 DEF TimesInv
    <2>4. LubInv
      <3>1. \A s \in Replica : DOMAIN replica_metadata[s] = {}
        BY <1>2
      <3> QED BY <3>1 DEF LubInv
    <2> QED BY <2>2, <2>3, <2>4
  <1>6. ASSUME NEW r \in Replica, NEW k \in 1 .. Len(log[r]) PROVE k = 1 /\ log[r][k] = NewMetadata
    <2>1. Len(log[r]) = 1 /\ log[r][1] = NewMetadata
      BY <1>3
    <2>2. k = 1
      BY <2>1
    <2> QED BY <2>1, <2>2
  <1>7. \A s \in Replica : DOMAIN replica_metadata[s] = {}
    BY <1>2
  <1>8. SortedInv
    <2>1. type = "Vector" => Ascending(NewMetadata)
      BY DEF NewMetadata, Ascending
    <2> QED BY <1>6, <1>7, <2>1 DEF SortedInv
  <1>9. TextInv
    <2>1. \A r \in Replica : GetLonger(r)
      <3>1. ASSUME NEW r \in Replica, NEW k \in 1 .. Len(log[r]), NEW j \in 1 .. k - 1 PROVE FALSE
        <4>1. k = 1
          BY <1>6
        <4> QED BY <4>1
      <3> QED BY <3>1 DEF GetLonger
    <2> QED BY <1>7, <2>1 DEF TextInv
  <1> QED BY <1>1, <1>4, <1>5, <1>8, <1>9 DEF MergeInv, IInv

\* The type, the ids and the times stay.
LEMMA SameType ==
    ASSUME [Next]_vars
    PROVE  type' = type /\ id' = id /\ Mergeable' = Mergeable /\ DistinctTimes' = DistinctTimes
  <1>1. type' = type /\ id' = id
    BY DEF Next, UpdateMetadata, UpdateHandler, InsertIntoCache, AddExternalReplica,
           UpdateLocalExternalPayload, vars
  <1> QED BY <1>1 DEF Mergeable, DistinctTimes

\* every call keeps it,
LEMMA StaysWell ==
    ASSUME IInv, [Next]_vars
    PROVE  IInv'
  <1>1. TypeOK /\ HeldInv /\ WriterInv /\ MergeInv /\ SortedInv /\ TextInv
    BY DEF IInv
  <1>2. TypeOK' /\ HeldInv' /\ WriterInv'
    BY <1>1, TypeStep, HeldStep, WriterStep
  <1>3. Mergeable => ChainInv' /\ TimesInv' /\ LubInv'
    BY <1>1, ChainStep, LubStep
  <1>4. MergeInv'
    BY <1>3, SameType DEF MergeInv
  <1>5. SortedInv' /\ TextInv'
    BY <1>1, SortedStep, TextStep
  <1> QED BY <1>2, <1>4, <1>5 DEF IInv

\* and so it always holds.
LEMMA Invariance == Spec => []IInv
  <1>1. Init => IInv
    BY StartsWell
  <1>2. IInv /\ [Next]_vars => IInv'
    BY StaysWell
  <1> QED BY <1>1, <1>2, PTL DEF Spec

\* Vectors are only appended to in order, the one way in which their merges are sorted.
InOrderOnly == type = "Vector" => Sorted

\* What can be merged in any order: not a LWWMultiSet in which two writers of one id write
\* at the same time, nor vectors that are not sorted, which std::merge mixes up.
Settled == (type = "LWWMultiSet" => DistinctTimes) /\ InOrderOnly

\* What kind of behaviour it is never changes.
LEMMA StaysSettled == (Spec /\ Settled => []Settled) /\ (Spec /\ InOrderOnly => []InOrderOnly)
  <1>1. Settled /\ [Next]_vars => Settled'
    BY SameType DEF Settled, InOrderOnly
  <1>2. InOrderOnly /\ [Next]_vars => InOrderOnly'
    BY SameType DEF InOrderOnly
  <1> QED BY <1>1, <1>2, PTL DEF Spec

-----------------------------------------------------------------------------
(* The theorems *)

\* Every table, writer and log holds metadata of the type of the handlers, and a table has
\* an entry for each id under which a state was given.
THEOREM TypeCorrect == Spec => []TypeOK
  <1>1. IInv => TypeOK
    BY DEF IInv
  <1> QED BY <1>1, Invariance, PTL

\* What the invariant says of types whose merges are order-free.
LEMMA SettledFacts ==
    ASSUME IInv, Settled, OrderFree
    PROVE  /\ TypeOK /\ Mergeable /\ ChainInv /\ LubInv
           /\ type \in Lattice /\ Metadata = MetadataOf(type)
           /\ type = "Vector" =>
                 /\ \A r \in Replica : \A k \in 1 .. Len(log[r]) : Ascending(log[r][k])
                 /\ \A s \in Replica : \A i \in DOMAIN replica_metadata[s] :
                       Ascending(replica_metadata[s][i])
  <1>1. TypeOK /\ MergeInv /\ type \in AllTypes
    BY TypesAssumption DEF IInv, TypeOK
  <1>2. type \in Lattice
    BY <1>1 DEF OrderFree, Lattice, AllTypes
  <1>3. Mergeable
    BY <1>2 DEF Mergeable, Settled
  <1> QED BY <1>1, <1>2, <1>3 DEF MergeInv, Metadata, IInv, SortedInv, Settled, InOrderOnly

\* Strong eventual consistency: handlers that were given the same states have the same
\* tables.  An entry is the least upper bound of what was given under its id, so that
\* neither the order nor the repetition of merges can be seen in it.
LEMMA SameStates ==
    ASSUME IInv, Settled
    PROVE  SameStatesSameTable
  <1> SUFFICES ASSUME OrderFree, NEW s \in Replica, NEW t \in Replica, known[s] = known[t]
               PROVE  AgreedTable(replica_metadata[s]) = AgreedTable(replica_metadata[t])
    BY DEF SameStatesSameTable
  <1>1. /\ TypeOK /\ LubInv /\ type \in Lattice /\ Metadata = MetadataOf(type)
        /\ type = "Vector" => \A q \in Replica : \A i \in DOMAIN replica_metadata[q] :
                                 Ascending(replica_metadata[q][i])
    BY SettledFacts
  <1>2. DOMAIN replica_metadata[s] = DOMAIN replica_metadata[t]
    BY <1>1, EntryFacts
  <1>3. ASSUME NEW i \in DOMAIN replica_metadata[s]
        PROVE  Agreed(replica_metadata[s][i]) = Agreed(replica_metadata[t][i])
    <2>1. States(s, i) = States(t, i)
      BY DEF States
    <2>2. /\ IsLub(type, replica_metadata[s][i], States(s, i))
          /\ IsLub(type, replica_metadata[t][i], States(s, i))
      BY <1>1, <1>2, <2>1 DEF LubInv
    <2>3. PICK m, n : m = replica_metadata[s][i] /\ n = replica_metadata[t][i]
      OBVIOUS
    <2>4. m \in Metadata /\ n \in Metadata /\ Leq(type, m, n) /\ Leq(type, n, m)
      BY <1>1, <2>2, <2>3, LubUnique
    <2>5. type = "Vector" => Ascending(m) /\ Ascending(n)
      BY <1>1, <1>2, <2>3
    <2> QED BY <1>1, <2>3, <2>4, <2>5, AlikeAgree
  <1> QED BY <1>1, <1>2, <1>3 DEF AgreedTable

\* Strong eventual consistency: handlers that have been given the same states have the
\* same tables, in whatever order, however often and along whatever ways the states came, and
\* whoever else writes under the same id.
THEOREM SameStatesAgree == Spec /\ Settled => []SameStatesSameTable
  <1>1. IInv /\ Settled => SameStatesSameTable
    BY SameStates
  <1> QED BY <1>1, Invariance, StaysSettled, PTL

\* Of some places in a log, one is the last.
LEMMA GreatestPlace ==
    ASSUME NEW n \in Nat, NEW places \in SUBSET (1 .. n), places # {}
    PROVE  Max(places) \in places /\ \A k \in places : Max(places) >= k
  <1>1. IsFiniteSet(1 .. n)
    BY FS_Interval
  <1>2. IsFiniteSet(places)
    BY <1>1, FS_Subset
  <1>3. places \subseteq Int
    OBVIOUS
  <1> QED BY <1>2, <1>3, MaxFacts

\* Late and repeated states change nothing: an entry to which one replica writes is the
\* latest of its states that were given, since each knows all that those before it know.
LEMMA LatestEntry ==
    ASSUME IInv, Settled
    PROVE  EntryIsLatest
  <1> SUFFICES ASSUME OrderFree, NEW s \in Replica, NEW r \in Replica, Exclusive(r),
                      {k \in 1 .. Len(log[r]) : <<r, k>> \in known[s]} # {}
               PROVE  replica_metadata[s][id[r]] =
                         log[r][Max({k \in 1 .. Len(log[r]) : <<r, k>> \in known[s]})]
    BY DEF EntryIsLatest
  <1>1. /\ TypeOK /\ ChainInv /\ LubInv /\ type \in Lattice /\ Metadata = MetadataOf(type)
        /\ type = "Vector" =>
              /\ \A k \in 1 .. Len(log[r]) : Ascending(log[r][k])
              /\ \A i \in DOMAIN replica_metadata[s] : Ascending(replica_metadata[s][i])
    BY SettledFacts
  <1>2. log[r] \in Seq(Metadata)
    BY <1>1 DEF TypeOK
  <1>3. PICK reached : reached = {k \in 1 .. Len(log[r]) : <<r, k>> \in known[s]}
    OBVIOUS
  <1>4. reached \in SUBSET (1 .. Len(log[r])) /\ Len(log[r]) \in Nat
    BY <1>2, <1>3
  <1>5. PICK last \in reached : last = Max(reached) /\ \A k \in reached : last >= k
    BY <1>3, <1>4, GreatestPlace
  <1>6. PICK i : i = id[r]
    OBVIOUS
  <1>7. log[r][last] \in States(s, i)
    <2>1. PICK st : st = <<r, last>>
      OBVIOUS
    <2>2. st \in known[s] /\ id[st[1]] = i /\ State(st) = log[r][last]
      BY <1>3, <1>5, <1>6, <2>1 DEF State
    <2> QED BY <2>2 DEF States
  <1>8. ASSUME NEW x \in States(s, i) PROVE Leq(type, x, log[r][last])
    <2>1. PICK st \in known[s] : id[st[1]] = i /\ x = State(st)
      BY DEF States
    <2>2. st \in Replica \X Nat /\ st[1] \in Replica /\ st[2] \in 1 .. Len(log[st[1]])
      BY <1>1, <2>1 DEF TypeOK
    <2>3. st[1] = r
      BY <1>6, <2>1, <2>2 DEF Exclusive
    <2>4. st = <<r, st[2]>>
      BY <2>2, <2>3
    <2>5. st[2] \in reached
      BY <1>3, <2>1, <2>2, <2>3, <2>4
    <2>6. st[2] \in 1 .. last /\ last \in 1 .. Len(log[r])
      BY <1>3, <1>5, <2>2, <2>5
    <2> QED BY <1>1, <2>1, <2>3, <2>6 DEF ChainInv, State
  <1>9. IsLub(type, log[r][last], States(s, i))
    <2>1. last \in 1 .. Len(log[r])
      BY <1>3, <1>5
    <2>2. log[r][last] \in Metadata
      BY <1>2, <2>1
    <2> QED BY <1>1, <1>7, <1>8, <2>2 DEF IsLub
  <1>10. i \in DOMAIN replica_metadata[s]
    <2>1. PICK st : st = <<r, last>>
      OBVIOUS
    <2>2. st \in known[s] /\ id[st[1]] = i
      BY <1>3, <1>5, <1>6, <2>1
    <2> QED BY <1>1, <2>2, EntryFacts
  <1>11. IsLub(type, replica_metadata[s][i], States(s, i))
    BY <1>1, <1>10 DEF LubInv
  <1>12. CASE type # "String"
    <2>1. PICK m, n : m = replica_metadata[s][i] /\ n = log[r][last]
      OBVIOUS
    <2>2. m \in Metadata /\ n \in Metadata /\ Leq(type, m, n) /\ Leq(type, n, m)
      BY <1>1, <1>9, <1>11, <2>1, LubUnique
    <2>3. last \in 1 .. Len(log[r])
      BY <1>3, <1>5
    <2>4. type = "Vector" => Ascending(m) /\ Ascending(n)
      BY <1>1, <1>10, <2>1, <2>3
    <2>5. Agreed(m) = Agreed(n)
      BY <1>1, <2>2, <2>4, AlikeAgree
    <2>6. replica_metadata[s][i] = log[r][last]
      BY <1>12, <2>1, <2>5 DEF Agreed
    <2> QED BY <1>3, <1>5, <1>6, <2>6
  <1>13. CASE type = "String"
    <2>1. PICK k \in 1 .. Len(log[r]) : HasLatest(s, r, k)
      BY <1>6, <1>10, <1>13 DEF IInv, TextInv
    <2>2. PICK st : st = <<r, last>>
      OBVIOUS
    <2>3. st \in known[s] /\ st[1] = r /\ st[2] = last
      BY <1>3, <1>5, <2>2
    <2>4. last <= k
      BY <2>1, <2>3 DEF HasLatest
    <2>5. k \in reached
      BY <1>3, <2>1 DEF HasLatest
    <2>6. last >= k /\ k \in Nat /\ last \in Nat
      BY <1>3, <1>5, <2>5
    <2>7. last = k
      BY <2>4, <2>6
    <2> QED BY <1>3, <1>5, <2>1, <2>7 DEF HasLatest
  <1> QED BY <1>12, <1>13

\* When nobody else writes under an id, a handler's entry is the latest of the writer's states
\* that have reached it: late and repeated ones change nothing.
THEOREM EntriesAreLatest == Spec /\ Settled => []EntryIsLatest
  <1>1. IInv /\ Settled => EntryIsLatest
    BY LatestEntry
  <1> QED BY <1>1, Invariance, StaysSettled, PTL

\* An entry that is the latest state given is one of the writer's.
LEMMA KeptOrder ==
    ASSUME IInv, Settled
    PROVE  ElementsKeepOrder
  <1> SUFFICES ASSUME NEW s \in Replica, NEW r \in Replica, type = "Vector", Exclusive(r),
                      id[r] \in DOMAIN replica_metadata[s]
               PROVE  \E k \in 1 .. Len(log[r]) : replica_metadata[s][id[r]] = log[r][k]
    BY DEF ElementsKeepOrder
  <1>1. PICK reached : reached = {k \in 1 .. Len(log[r]) : <<r, k>> \in known[s]}
    OBVIOUS
  <1>2. PICK st \in known[s] : id[st[1]] = id[r]
    BY EntryFacts DEF IInv
  <1>3. st \in Replica \X Nat /\ st[2] \in 1 .. Len(log[st[1]]) /\ Len(log[r]) \in Nat
    BY <1>2 DEF IInv, TypeOK
  <1>4. st[1] = r
    BY <1>2, <1>3 DEF Exclusive
  <1>5. st[2] \in reached
    <2>1. st = <<r, st[2]>>
      BY <1>3, <1>4
    <2> QED BY <1>1, <1>2, <1>3, <1>4, <2>1
  <1>6. replica_metadata[s][id[r]] = log[r][Max(reached)]
    BY <1>1, <1>5, LatestEntry DEF EntryIsLatest, OrderFree
  <1>7. Max(reached) \in reached
    <2>1. reached \in SUBSET (1 .. Len(log[r]))
      BY <1>1
    <2> QED BY <1>3, <1>5, <2>1, GreatestPlace
  <1> QED BY <1>1, <1>6, <1>7

\* The order of a vector's elements survives every merge, if nobody else writes to the vector
\* and it is only appended to in order; unsorted vectors lose it (the run vector_order).
THEOREM SortedVectorsKeepOrder == Spec /\ Settled => []ElementsKeepOrder
  <1>1. IInv /\ Settled => ElementsKeepOrder
    BY KeptOrder
  <1> QED BY <1>1, Invariance, StaysSettled, PTL

\* A handler never loses what an entry has taken in: more states are given, and so the new
\* entry knows all that the old one knew, and to merge that again changes nothing.
LEMMA GrowStep ==
    ASSUME IInv, IInv', Settled, [Next]_vars, NEW s \in Replica,
           NEW i \in DOMAIN replica_metadata[s]
    PROVE  /\ i \in DOMAIN replica_metadata'[s]
           /\ OrderFree =>
                 Agreed(Join(replica_metadata'[s][i], replica_metadata[s][i], NoCopies))
                    = Agreed(replica_metadata'[s][i])
  <1>1. TypeOK /\ TypeOK' /\ type' = type /\ id' = id /\ Metadata' = Metadata
    BY LogStep, SameType DEF IInv, Settled
  <1>2. i \in DOMAIN replica_metadata'[s]
    <2>1. PICK st \in known[s] : id[st[1]] = i
      BY <1>1, EntryFacts
    <2>2. st \in known'[s] /\ DOMAIN replica_metadata'[s] = {id'[given[1]] : given \in known'[s]}
      BY <1>1, LogStep DEF Settled, TypeOK
    <2> QED BY <1>1, <2>1, <2>2
  <1>3. ASSUME OrderFree
        PROVE  Agreed(Join(replica_metadata'[s][i], replica_metadata[s][i], NoCopies))
                  = Agreed(replica_metadata'[s][i])
    <2>1. PICK old, new : old = replica_metadata[s][i] /\ new = replica_metadata'[s][i]
      OBVIOUS
    <2>2. /\ Mergeable /\ LubInv /\ type \in Lattice /\ Metadata = MetadataOf(type)
      BY <1>3, SettledFacts
    <2>3. LubInv'
      BY <1>1, <2>2, SameType DEF IInv, Settled, MergeInv
    <2>4. IsLub(type, old, States(s, i))
      BY <2>1, <2>2 DEF LubInv
    <2>5. IsLub(type, new, States(s, i)')
      BY <1>1, <1>2, <2>1, <2>3 DEF LubInv
    <2>6. States(s, i) \subseteq States(s, i)'
      BY <1>1, StatesStay DEF Settled
    <2>7. old \in Metadata /\ new \in Metadata /\ Leq(type, old, new)
      BY <2>2, <2>4, <2>5, <2>6 DEF IsLub
    <2>8. type = "Vector" => Ascending(new) /\ Ascending(old)
      BY <1>1, <1>2, <2>1 DEF IInv, SortedInv, Settled, InOrderOnly
    <2>9. Agreed(Join(new, old, NoCopies)) = Agreed(new)
      BY <2>2, <2>7, <2>8, JoinAbsorbs
    <2> QED BY <2>1, <2>9
  <1> QED BY <1>2, <1>3

\* A handler never loses an id, nor what an entry has taken in.
THEOREM TablesGrow == Spec /\ Settled => TablesOnlyGrow
  <1> DEFINE Grow == \A s \in Replica : \A i \in DOMAIN replica_metadata[s] :
          /\ i \in DOMAIN replica_metadata'[s]
          /\ OrderFree /\ replica_metadata'[s][i] # replica_metadata[s][i] =>
                LET entry == replica_metadata'[s][i]
                IN  Agreed(Join(entry, replica_metadata[s][i], NoCopies)) = Agreed(entry)
  <1>1. IInv /\ IInv' /\ Settled /\ [Next]_vars => [Grow]_vars
    BY GrowStep
  <1> QED BY <1>1, Invariance, StaysSettled, PTL DEF Spec, TablesOnlyGrow

-----------------------------------------------------------------------------
(* What is cached *)

\* Every call keeps the caches right, or behind by the handler's own writes only.
LEMMA CacheStep ==
    ASSUME IInv, InOrderOnly, CacheLagsOwnWritesOnly, [Next]_vars
    PROVE  CacheLagsOwnWritesOnly'
  <1>0. /\ type' = type /\ id' = id /\ TypeOK /\ type \in AllTypes
        /\ DOMAIN payload = Replica /\ DOMAIN replica_metadata = Replica
        /\ log \in [Replica -> Seq(Metadata)]
    BY SameType, TypesAssumption DEF IInv, TypeOK
  <1> DEFINE Lags(s, table, cached, states) ==
          \/ type = "GMap"
          \/ cached = Cached(table)
          \/ /\ ThroughHandler(s) /\ type \notin Refreshing
             /\ Exclusive(s) =>
                   \E k \in 1 .. Len(states) - 1 :
                       cached = Cached([table EXCEPT ![id[s]] = states[k]])
          \/ /\ s \in HandlerWriter /\ type = "TwoPSet"
             /\ cached.tombstone = AllRemoved(table)
             /\ AllInserted(table) \subseteq cached.payload
  <1>1. \A s \in Replica : Lags(s, replica_metadata[s], payload[s], log[s])
    BY DEF CacheLagsOwnWritesOnly
  <1> SUFFICES ASSUME NEW s \in Replica
               PROVE  Lags(s, replica_metadata'[s], payload'[s], log'[s])
    BY <1>0 DEF CacheLagsOwnWritesOnly, Cached, ThroughHandler, Exclusive
  <1>2. ASSUME payload'[s] = payload[s], replica_metadata'[s] = replica_metadata[s],
               log'[s] = log[s] \/ ~ThroughHandler(s)
        PROVE  Lags(s, replica_metadata'[s], payload'[s], log'[s])
    <2>1. CASE log'[s] = log[s]
      BY <1>1, <1>2, <2>1
    <2>2. CASE ~ThroughHandler(s)
      BY <1>1, <1>2, <2>2
    <2> QED BY <1>2, <2>1, <2>2
  <1>3. ASSUME payload'[s] = Cached(replica_metadata'[s])
        PROVE  Lags(s, replica_metadata'[s], payload'[s], log'[s])
    BY <1>3
  <1>4. ASSUME NEW r \in Replica, UpdateMetadata(r)
        PROVE  Lags(s, replica_metadata'[s], payload'[s], log'[s])
    <2>1. /\ payload'[s] = payload[s] /\ replica_metadata'[s] = replica_metadata[s]
          /\ log'[s] = log[s] \/ ~ThroughHandler(s)
      <3>1. CASE s = r
        BY <1>4, <3>1 DEF UpdateMetadata
      <3>2. CASE s # r
        BY <1>0, <1>4, <3>2 DEF UpdateMetadata
      <3> QED BY <3>1, <3>2
    <2> HIDE DEF Lags
    <2> QED BY <1>2, <2>1
  <1>5. ASSUME NEW r \in Replica, UpdateHandler(r)
        PROVE  Lags(s, replica_metadata'[s], payload'[s], log'[s])
    <2>1. PICK md : Wrote(r, md) /\ md \in Metadata
      BY <1>0, <1>5, HandlerFacts
    <2>2. CASE s # r
      <3>1. /\ payload'[s] = payload[s] /\ replica_metadata'[s] = replica_metadata[s]
            /\ log'[s] = log[s]
        BY <1>0, <1>5, <2>2 DEF UpdateHandler
      <3> HIDE DEF Lags
      <3> QED BY <1>2, <3>1
    <2>3. CASE s = r /\ type \in Refreshing
      <3>1. payload'[s] = Cached(replica_metadata'[s])
        BY <1>0, <1>5, <2>3 DEF UpdateHandler
      <3> HIDE DEF Lags
      <3> QED BY <1>3, <3>1
    <2>4. CASE s = r /\ type \notin Refreshing /\ type # "GMap"
      <3>1. PICK table, i, states : table = replica_metadata[s] /\ i = id[s] /\ states = log[s]
        OBVIOUS
      <3>2. /\ ThroughHandler(s) /\ i \in DOMAIN table
            /\ replica_metadata'[s] = [table EXCEPT ![i] = md]
            /\ log'[s] = Append(states, md) /\ states \in Seq(Metadata)
            /\ payload'[s] = payload[s]
        BY <1>0, <1>5, <2>1, <2>4, <3>1 DEF Wrote, UpdateHandler
      <3>3. table \in [DOMAIN table -> Metadata]
        BY <1>0, <3>1, EntryFacts
      <3>4. type \in {"GCounter", "GSet", "Vector"}
        BY <1>0, <2>4, <3>2 DEF ThroughHandler, WritableHandler, Refreshing, AllTypes
      <3>5. \A k \in 1 .. Len(states) :
               /\ [[table EXCEPT ![i] = md] EXCEPT ![i] = Append(states, md)[k]]
                     = [table EXCEPT ![i] = states[k]]
               /\ k \in 1 .. Len(Append(states, md)) - 1
        <4>1. \A k \in 1 .. Len(states) : Append(states, md)[k] = states[k]
          BY <2>1, <3>2, AppendFacts
        <4>2. Len(Append(states, md)) - 1 = Len(states) /\ Len(states) \in Nat
          BY <2>1, <3>2, AppendFacts
        <4> QED BY <3>2, <3>3, <4>1, <4>2
      <3>6. Exclusive(s) => \E k \in 1 .. Len(states) :
               payload[s] = Cached([table EXCEPT ![i] = states[k]])
        <4> SUFFICES ASSUME Exclusive(s)
                     PROVE  \E k \in 1 .. Len(states) :
                               payload[s] = Cached([table EXCEPT ![i] = states[k]])
          OBVIOUS
        <4>1. CASE payload[s] = Cached(table)
          <5>1. \E k \in 1 .. Len(states) : table[i] = states[k]
            <6>1. EntryIsLatest /\ OrderFree
              BY <1>0, <3>4, LatestEntry DEF Settled, OrderFree
            <6>2. PICK reached : reached = {k \in 1 .. Len(states) : <<s, k>> \in known[s]}
              OBVIOUS
            <6>3. PICK st \in known[s] : id[st[1]] = i
              BY <1>0, <3>1, <3>2, EntryFacts
            <6>4. st \in Replica \X Nat /\ st[2] \in 1 .. Len(log[st[1]])
              BY <1>0, <6>3 DEF TypeOK
            <6>5. st[1] = s
              BY <3>1, <6>3, <6>4 DEF Exclusive
            <6>6. st[2] \in reached
              <7>1. st = <<s, st[2]>>
                BY <6>4, <6>5
              <7> QED BY <3>1, <6>2, <6>3, <6>4, <6>5, <7>1
            <6>7. table[i] = states[Max(reached)]
              BY <3>1, <6>1, <6>2, <6>6 DEF EntryIsLatest
            <6>8. Max(reached) \in reached
              <7>1. reached \in SUBSET (1 .. Len(states)) /\ Len(states) \in Nat
                BY <3>2, <6>2
              <7> QED BY <6>6, <7>1, GreatestPlace
            <6> QED BY <6>2, <6>7, <6>8
          <5>2. PICK k \in 1 .. Len(states) : table[i] = states[k]
            BY <5>1
          <5>3. table = [table EXCEPT ![i] = states[k]]
            BY <3>2, <3>3, <5>2
          <5> QED BY <4>1, <5>2, <5>3
        <4>2. CASE payload[s] # Cached(table)
          <5>1. PICK k \in 1 .. Len(states) - 1 :
                   payload[s] = Cached([table EXCEPT ![i] = states[k]])
            BY <1>1, <3>1, <3>4, <4>2
          <5>2. k \in 1 .. Len(states)
            BY <3>2, <5>1
          <5> QED BY <5>1, <5>2
        <4> QED BY <4>1, <4>2
      <3>7. ASSUME Exclusive(s)
            PROVE  \E k \in 1 .. Len(log'[s]) - 1 :
                      payload'[s] = Cached([replica_metadata'[s] EXCEPT ![id[s]] = log'[s][k]])
        <4>1. PICK k \in 1 .. Len(states) :
                 payload[s] = Cached([table EXCEPT ![i] = states[k]])
          BY <3>6, <3>7
        <4>2. [replica_metadata'[s] EXCEPT ![id[s]] = log'[s][k]] = [table EXCEPT ![i] = states[k]]
          BY <3>1, <3>2, <3>5
        <4> QED BY <3>2, <3>5, <4>1, <4>2
      <3> QED BY <2>4, <3>2, <3>7
    <2>5. CASE type = "GMap"
      BY <2>5
    <2> HIDE DEF Lags
    <2> QED BY <2>2, <2>3, <2>4, <2>5
  <1>6. ASSUME NEW r \in Replica, InsertIntoCache(r)
        PROVE  Lags(s, replica_metadata'[s], payload'[s], log'[s])
    <2>1. CASE s # r
      <3>1. /\ payload'[s] = payload[s] /\ replica_metadata'[s] = replica_metadata[s]
            /\ log'[s] = log[s]
        BY <1>0, <1>6, <2>1 DEF InsertIntoCache
      <3> HIDE DEF Lags
      <3> QED BY <1>2, <3>1
    <2>2. CASE s = r
      <3>1. PICK e \in Element : payload' = [payload EXCEPT ![s].payload = @ \cup {e}]
        BY <1>6, <2>2 DEF InsertIntoCache
      <3>2. /\ s \in HandlerWriter /\ type = "TwoPSet" /\ replica_metadata' = replica_metadata
            /\ payload[s] = Cached(replica_metadata[s])
        BY <1>6, <2>2 DEF InsertIntoCache
      <3>3. payload[s] = CachedTwoPSet(replica_metadata[s])
        BY <3>2 DEF Cached
      <3>4. payload'[s] = [payload[s] EXCEPT !.payload = @ \cup {e}]
        BY <1>0, <3>1
      <3>5. /\ payload'[s].tombstone = AllRemoved(replica_metadata[s])
            /\ AllInserted(replica_metadata[s]) \subseteq payload'[s].payload
        BY <3>3, <3>4 DEF CachedTwoPSet
      <3> QED BY <3>2, <3>5
    <2> QED BY <2>1, <2>2
  <1>7. ASSUME NEW q \in Replica, NEW table, NEW cached, Replace(q, table, cached), log' = log,
               type # "GMap" => cached = Cached(table)
        PROVE  Lags(s, replica_metadata'[s], payload'[s], log'[s])
    <2>1. CASE s # q
      <3>1. /\ payload'[s] = payload[s] /\ replica_metadata'[s] = replica_metadata[s]
            /\ log'[s] = log[s]
        BY <1>0, <1>7, <2>1 DEF Replace
      <3> HIDE DEF Lags
      <3> QED BY <1>2, <3>1
    <2>2. CASE s = q /\ type # "GMap"
      <3>1. payload'[s] = Cached(replica_metadata'[s])
        BY <1>0, <1>7, <2>2 DEF Replace
      <3> HIDE DEF Lags
      <3> QED BY <1>3, <3>1
    <2>3. CASE type = "GMap"
      BY <2>3
    <2> HIDE DEF Lags
    <2> QED BY <2>1, <2>2, <2>3
  <1>8. ASSUME NEW q \in Replica, NEW r \in Replica, NEW k \in 1 .. Len(log[r]), NEW lists,
               AddExternalReplica(q, r, k, lists)
        PROVE  Lags(s, replica_metadata'[s], payload'[s], log'[s])
    <2> HIDE DEF Lags
    <2> QED BY <1>7, <1>8 DEF AddExternalReplica
  <1>9. ASSUME NEW q \in Replica, NEW t \in Replica, NEW lists,
               UpdateLocalExternalPayload(q, t, lists)
        PROVE  Lags(s, replica_metadata'[s], payload'[s], log'[s])
    <2> HIDE DEF Lags
    <2> QED BY <1>7, <1>9 DEF UpdateLocalExternalPayload
  <1>10. CASE UNCHANGED vars
    BY <1>1, <1>10 DEF vars
  <1> HIDE DEF Lags
  <1> QED BY <1>4, <1>5, <1>6, <1>8, <1>9, <1>10 DEF Next

\* The cache is that of the table, but for what the handler has itself written since its last
\* merge, where its own operations do not refresh the cache.
THEOREM CachesLagOwnWritesOnly == Spec /\ InOrderOnly => []CacheLagsOwnWritesOnly
  <1>1. Init => CacheLagsOwnWritesOnly
    <2>1. ASSUME Init, NEW s \in Replica PROVE payload[s] = Cached(replica_metadata[s])
      BY <2>1 DEF Init
    <2> QED BY <2>1 DEF CacheLagsOwnWritesOnly
  <1>2. IInv /\ InOrderOnly /\ CacheLagsOwnWritesOnly /\ [Next]_vars
           => CacheLagsOwnWritesOnly'
    BY CacheStep
  <1> QED BY <1>1, <1>2, Invariance, StaysSettled, PTL DEF Spec

\* A handler has been given finitely many states, so that its table is finite and the copies
\* in it can be added up.
FiniteInv == \A s \in Replica : IsFiniteSet(known[s])

\* Every call keeps them finitely many.
LEMMA FiniteStep ==
    ASSUME IInv, FiniteInv, [Next]_vars
    PROVE  FiniteInv'
  <1> SUFFICES ASSUME NEW s \in Replica PROVE IsFiniteSet(known'[s])
    BY DEF FiniteInv
  <1>1. \A q \in Replica : IsFiniteSet(known[q])
    BY DEF FiniteInv
  <1>2. ASSUME NEW st, known'[s] = known[s] \cup {st} PROVE IsFiniteSet(known'[s])
    BY <1>1, <1>2, FS_AddElement
  <1>3. ASSUME NEW t \in Replica, known'[s] = known[s] \cup PassedOn(t)
        PROVE  IsFiniteSet(known'[s])
    <2>1. PassedOn(t) \subseteq known[t]
      BY DEF PassedOn
    <2>2. IsFiniteSet(PassedOn(t))
      BY <1>1, <2>1, FS_Subset
    <2> QED BY <1>1, <1>3, <2>2, FS_Union
  <1>4. TypeOK
    BY DEF IInv
  <1> QED BY <1>1, <1>2, <1>3, <1>4, TableStep DEF Kept, Wrote, Took, TookAll

\* A table's ids are those of the states it was given.
LEMMA TablesAreFinite ==
    ASSUME TypeOK, FiniteInv, NEW s \in Replica
    PROVE  IsFiniteSet(DOMAIN replica_metadata[s])
  <1>1. DOMAIN replica_metadata[s] = {id[st[1]] : st \in known[s]}
    BY EntryFacts
  <1>2. IsFiniteSet(known[s])
    BY DEF FiniteInv
  <1> DEFINE ids == [st \in known[s] |-> id[st[1]]]
  <1>3. ids \in Surjection(known[s], DOMAIN replica_metadata[s])
    BY <1>1 DEF Surjection
  <1> QED BY <1>2, <1>3, FS_Surjection

\* What a given state says is removed, the entry says, and what any entry says is removed
\* no handler shows.
LEMMA RemovedIsHidden ==
    ASSUME IInv, CacheLagsOwnWritesOnly, FiniteInv
    PROVE  RemovedStaysHidden
  <1> SUFFICES ASSUME NEW s \in Replica, NEW r \in Replica, NEW k \in 1 .. Len(log[r]),
                      <<r, k>> \in known[s]
               PROVE  Tombstones(log[r][k]) \cap Shown(payload[s]) = {}
    BY DEF RemovedStaysHidden
  <1>1. TypeOK /\ MergeInv
    BY DEF IInv
  <1>2. PICK i, md, table : i = id[r] /\ md = log[r][k] /\ table = replica_metadata[s]
    OBVIOUS
  <1>3. md \in States(s, i) /\ i \in DOMAIN table
    <2>1. PICK st : st = <<r, k>>
      OBVIOUS
    <2>2. st \in known[s] /\ id[st[1]] = i /\ State(st) = md
      BY <1>2, <2>1 DEF State
    <2> QED BY <1>1, <1>2, <2>2, EntryFacts DEF States
  <1>4. ASSUME type \in {"TwoPSet", "MultiSet", "Graph"}
        PROVE  Leq(type, md, table[i]) /\ md \in Metadata /\ table \in [DOMAIN table -> Metadata]
    <2>1. Mergeable
      BY <1>4 DEF Mergeable, Lattice
    <2>2. Leq(type, md, table[i])
      BY <1>1, <1>2, <1>3, <2>1 DEF MergeInv, LubInv, IsLub
    <2>3. table \in [DOMAIN table -> Metadata] /\ md \in Metadata
      BY <1>1, <1>2, <1>3, EntryFacts
    <2> QED BY <2>2, <2>3
  <1>5. CASE type = "TwoPSet"
    <2>1. payload[s].tombstone = AllRemoved(table)
      <3>1. \/ payload[s] = Cached(table)
            \/ payload[s].tombstone = AllRemoved(table)
        BY <1>2, <1>5 DEF CacheLagsOwnWritesOnly, ThroughHandler, WritableHandler
      <3>2. Cached(table).tombstone = AllRemoved(table)
        BY <1>5 DEF Cached, CachedTwoPSet
      <3> QED BY <3>1, <3>2
    <2>2. md.tombstone \subseteq table[i].tombstone
      BY <1>4, <1>5 DEF Leq
    <2>3. md.tombstone \subseteq AllRemoved(table)
      BY <1>3, <2>2 DEF AllRemoved
    <2> QED BY <1>2, <1>5, <2>1, <2>3 DEF Tombstones, Shown
  <1>6. CASE type = "MultiSet"
    <2>1. payload[s] = CachedMultiSet(table)
      BY <1>2, <1>6 DEF CacheLagsOwnWritesOnly, Refreshing, Cached
    <2> DEFINE bags == [j \in DOMAIN table |-> table[j].tombstone]
    <2>2. Metadata = [payload : Copies, tombstone : Copies]
      BY <1>6 DEF Metadata, MetadataOf
    <2>3. IsFiniteSet(DOMAIN bags) /\ bags \in [DOMAIN bags -> Copies]
      BY <1>1, <1>2, <1>4, <1>6, <2>2, TablesAreFinite
    <2>4. payload[s].tombstone = AllCopies(bags)
      BY <2>1 DEF CachedMultiSet
    <2>5. bags[i] = table[i].tombstone /\ i \in DOMAIN bags
      BY <1>3
    <2> HIDE DEF bags
    <2>6. FewerCopies(table[i].tombstone, AllCopies(bags)) /\ AllCopies(bags) \in Copies
      BY <2>3, <2>5, AllCopiesFacts
    <2>7. /\ FewerCopies(md.tombstone, table[i].tombstone)
          /\ md.tombstone \in Copies /\ table[i].tombstone \in Copies
      BY <1>3, <1>4, <1>6, <2>2 DEF Leq
    <2>8. FewerCopies(md.tombstone, payload[s].tombstone)
      BY <2>4, <2>6, <2>7, FewerCopiesOrder
    <2>9. ASSUME NEW e \in Element, md.tombstone[e] > 0 PROVE QueryMultiset(payload[s])[e] = 0
      <3>1. md.tombstone[e] <= payload[s].tombstone[e]
        BY <2>8 DEF FewerCopies
      <3>2. md.tombstone[e] \in Nat /\ payload[s].tombstone[e] \in Nat
        BY <2>4, <2>6, <2>7 DEF Copies
      <3> QED BY <2>9, <3>1, <3>2 DEF QueryMultiset
    <2> QED BY <1>2, <1>6, <2>9 DEF Tombstones, Shown
  <1>7. CASE type = "Graph"
    <2>1. payload[s] = CachedGraph(table)
      BY <1>2, <1>7 DEF CacheLagsOwnWritesOnly, ThroughHandler, WritableHandler, Cached
    <2>2. payload[s].vertices_tombstone = UNION {table[j].vertices_tombstone : j \in DOMAIN table}
      BY <2>1 DEF CachedGraph, NewGraph
    <2>3. md.vertices_tombstone \subseteq table[i].vertices_tombstone
      BY <1>4, <1>7 DEF Leq
    <2>4. md.vertices_tombstone \subseteq payload[s].vertices_tombstone
      BY <1>3, <2>2, <2>3
    <2> QED BY <1>2, <1>7, <2>4 DEF Tombstones, Shown
  <1>8. CASE type \notin {"TwoPSet", "MultiSet", "Graph"}
    BY <1>8 DEF Tombstones
  <1> QED BY <1>5, <1>6, <1>7, <1>8

\* Once a handler has been given a state in which an element is removed, it never shows the
\* element, under whichever id it is inserted.
THEOREM RemovedHidden == Spec => []RemovedStaysHidden
  <1>1. Init => CacheLagsOwnWritesOnly /\ FiniteInv
    <2>1. ASSUME Init, NEW s \in Replica
          PROVE  payload[s] = Cached(replica_metadata[s]) /\ known[s] = {}
      BY <2>1 DEF Init
    <2> QED BY <2>1, FS_EmptySet DEF CacheLagsOwnWritesOnly, FiniteInv
  <1>2. IInv /\ InOrderOnly /\ CacheLagsOwnWritesOnly /\ FiniteInv /\ [Next]_vars
           => CacheLagsOwnWritesOnly' /\ FiniteInv'
    BY CacheStep, FiniteStep
  <1>3. IInv /\ CacheLagsOwnWritesOnly /\ FiniteInv => RemovedStaysHidden
    BY RemovedIsHidden
  <1>4. type = "Vector" => RemovedStaysHidden
    BY DEF RemovedStaysHidden, Tombstones
  <1>5. type = "Vector" /\ [Next]_vars => (type = "Vector")'
    BY SameType
  <1>6. type = "Vector" \/ InOrderOnly
    BY DEF InOrderOnly
  <1>7. Spec /\ type = "Vector" => []RemovedStaysHidden
    BY <1>4, <1>5, PTL DEF Spec
  <1>8. Spec /\ InOrderOnly => []RemovedStaysHidden
    BY <1>1, <1>2, <1>3, Invariance, StaysSettled, PTL DEF Spec
  <1> QED BY <1>6, <1>7, <1>8, PTL

-----------------------------------------------------------------------------
(* Maps *)

\* The states that came to a handler from elsewhere.
Given(s) == {st \in known[s] : ~(st[1] = s /\ ThroughHandler(s))}

\* No value a map handler has is greater than all that it was given for the key.
ValuesAreGiven(s) ==
    \A k \in Element : \A n \in Values(payload[s], k) :
        n = 0 \/ \E st \in known[s] : n <= State(st)[k]

\* What it shows is no less than what came from elsewhere.
MapInv ==
    type = "GMap" =>
        \A s \in Replica :
            /\ MapCache(payload[s])
            /\ \A st \in Given(s) : FewerCopies(State(st), payload[s].totalPayload)
            /\ ValuesAreGiven(s)

\* Every call keeps both.
LEMMA MapStep ==
    ASSUME IInv, IInv', FiniteInv, FiniteInv', MapInv, [Next]_vars
    PROVE  MapInv'
  <1> SUFFICES ASSUME type = "GMap" PROVE MapInv'
    BY SameType DEF MapInv
  <1>0. /\ TypeOK /\ TypeOK' /\ HeldInv /\ HeldInv'
        /\ type' = type /\ id' = id /\ Metadata = Copies /\ Metadata' = Copies
        /\ DOMAIN payload = Replica /\ DOMAIN replica_metadata = Replica
        /\ known \in [Replica -> SUBSET (Replica \X Nat)]
        /\ \A q \in Replica : ThroughHandler(q)' = ThroughHandler(q)
    BY SameType DEF IInv, Metadata, MetadataOf, TypeOK, ThroughHandler
  <1> SUFFICES ASSUME NEW s \in Replica
               PROVE  /\ MapCache(payload'[s])
                      /\ \A st \in Given(s)' :
                            FewerCopies(State(st)', payload'[s].totalPayload)
                      /\ \A k \in Element : \A n \in Values(payload'[s], k) :
                            n = 0 \/ \E st \in known'[s] : n <= State(st)'[k]
    BY <1>0 DEF MapInv, ValuesAreGiven, MapCache, Values
  <1>1. /\ MapCache(payload[s])
        /\ \A st \in Given(s) : FewerCopies(State(st), payload[s].totalPayload)
        /\ \A k \in Element : \A n \in Values(payload[s], k) :
              n = 0 \/ \E st \in known[s] : n <= State(st)[k]
    BY DEF MapInv, ValuesAreGiven
  <1>2. /\ known[s] \subseteq known'[s]
        /\ \A q \in Replica : \A st \in known[q] : State(st)' = State(st) /\ State(st) \in Copies
    BY <1>0, LogStep, StatesStay, EntryFacts
  <1>3. Given(s)' = {st \in known'[s] : ~(st[1] = s /\ ThroughHandler(s))}
    BY <1>0 DEF Given
  <1>4. ASSUME payload'[s] = payload[s],
               \A st \in known'[s] : st \in known[s] \/ (st[1] = s /\ ThroughHandler(s))
        PROVE  /\ MapCache(payload'[s])
               /\ \A st \in Given(s)' :
                     FewerCopies(State(st)', payload'[s].totalPayload)
               /\ \A k \in Element : \A n \in Values(payload'[s], k) :
                     n = 0 \/ \E st \in known'[s] : n <= State(st)'[k]
    <2>1. ASSUME NEW st \in Given(s)' PROVE FewerCopies(State(st)', payload'[s].totalPayload)
      BY <1>1, <1>2, <1>3, <1>4 DEF Given
    <2>2. ASSUME NEW k \in Element, NEW n \in Values(payload'[s], k)
          PROVE  n = 0 \/ \E st \in known'[s] : n <= State(st)'[k]
      BY <1>1, <1>2, <1>4
    <2> QED BY <1>1, <1>4, <2>1, <2>2
  <1>5. ASSUME MapCache(payload'[s]),
               \A j \in DOMAIN replica_metadata'[s] : replica_metadata'[s][j] \in Copies,
               FewerCopies(payload[s].totalPayload, payload'[s].totalPayload),
               NEW others \in SUBSET known'[s], known'[s] = known[s] \cup others,
               \A st \in others : /\ State(st)' \in Copies
                                  /\ FewerCopies(State(st)', payload'[s].totalPayload),
               \A e \in Element : \A n \in Values(payload'[s], e) :
                  \/ n = 0 \/ n \in Values(payload[s], e)
                  \/ \E j \in DOMAIN replica_metadata'[s] : n = replica_metadata'[s][j][e]
                  \/ \E st \in others : n = State(st)'[e]
        PROVE  /\ MapCache(payload'[s])
               /\ \A st \in Given(s)' :
                     FewerCopies(State(st)', payload'[s].totalPayload)
               /\ \A e \in Element : \A n \in Values(payload'[s], e) :
                     n = 0 \/ \E st \in known'[s] : n <= State(st)'[e]
    <2>1. ASSUME NEW st \in Given(s)' PROVE FewerCopies(State(st)', payload'[s].totalPayload)
      <3>1. CASE st \in others
        BY <1>5, <3>1
      <3>2. CASE st \in known[s]
        <4>1. st \in Given(s)
          BY <1>3, <3>2 DEF Given
        <4>2. FewerCopies(State(st)', payload[s].totalPayload) /\ State(st)' \in Copies
          BY <1>1, <1>2, <3>2, <4>1
        <4>3. payload[s].totalPayload \in Copies /\ payload'[s].totalPayload \in Copies
          BY <1>1, <1>5 DEF MapCache
        <4> QED BY <1>5, <4>2, <4>3, FewerCopiesOrder
      <3> QED BY <1>3, <1>5, <3>1, <3>2
    <2>2. ASSUME NEW e \in Element, NEW n \in Values(payload'[s], e)
          PROVE  n = 0 \/ \E st \in known'[s] : n <= State(st)'[e]
      <3>1. CASE n \in Values(payload[s], e)
        BY <1>1, <1>2, <3>1
      <3>2. CASE \E j \in DOMAIN replica_metadata'[s] : n = replica_metadata'[s][j][e]
        <4>1. PICK j \in DOMAIN replica_metadata'[s] : n = replica_metadata'[s][j][e]
          BY <3>2
        <4>2. replica_metadata'[s][j] \in States(s, j)'
          BY <1>0 DEF HeldInv
        <4>3. PICK st \in known'[s] : replica_metadata'[s][j] = State(st)'
          BY <4>2 DEF States
        <4>4. n \in Nat
          BY <1>5, <4>1 DEF Copies
        <4> QED BY <4>1, <4>3, <4>4
      <3>3. CASE \E st \in others : n = State(st)'[e]
        <4>1. PICK st \in others : n = State(st)'[e]
          BY <3>3
        <4>2. n \in Nat
          BY <1>5, <4>1 DEF Copies
        <4> QED BY <4>1, <4>2
      <3> QED BY <1>5, <3>1, <3>2, <3>3
    <2> QED BY <1>5, <2>1, <2>2
  <1>6. /\ replica_metadata'[s] \in [DOMAIN replica_metadata'[s] -> Copies]
        /\ IsFiniteSet(DOMAIN replica_metadata'[s])
    <2>1. DOMAIN replica_metadata'[s] = {id'[st[1]] : st \in known'[s]}
      BY <1>0 DEF TypeOK
    <2>2. IsFiniteSet(known'[s])
      BY DEF FiniteInv
    <2> DEFINE ids == [st \in known'[s] |-> id'[st[1]]]
    <2>3. ids \in Surjection(known'[s], DOMAIN replica_metadata'[s])
      BY <2>1 DEF Surjection
    <2>4. IsFiniteSet(DOMAIN replica_metadata'[s])
      BY <2>2, <2>3, FS_Surjection
    <2> QED BY <1>0, <2>4 DEF TypeOK
  <1>7. ASSUME NEW r \in Replica, UpdateMetadata(r) \/ InsertIntoCache(r)
        PROVE  payload'[s] = payload[s] /\ known'[s] = known[s]
    BY <1>7 DEF UpdateMetadata, InsertIntoCache
  <1>8. ASSUME NEW r \in Replica, UpdateHandler(r)
        PROVE  /\ payload'[s] = payload[s]
               /\ \A st \in known'[s] : st \in known[s] \/ (st[1] = s /\ ThroughHandler(s))
    BY <1>0, <1>8 DEF UpdateHandler, Refreshing
  <1>9. ASSUME NEW q \in Replica, NEW r \in Replica, NEW k \in 1 .. Len(log[r]), NEW lists,
               AddExternalReplica(q, r, k, lists)
        PROVE  /\ MapCache(payload'[s])
               /\ \A st \in Given(s)' :
                     FewerCopies(State(st)', payload'[s].totalPayload)
               /\ \A e \in Element : \A n \in Values(payload'[s], e) :
                     n = 0 \/ \E st \in known'[s] : n <= State(st)'[e]
    <2>1. CASE s # q
      <3>1. payload'[s] = payload[s] /\ known'[s] = known[s]
        BY <1>0, <1>9, <2>1 DEF AddExternalReplica, Replace
      <3> QED BY <1>4, <3>1
    <2>2. CASE s = q
      <3>1. PICK st, md, table, i, cached :
               /\ st = <<r, k>> /\ md = log[r][k] /\ table = replica_metadata'[s]
               /\ i = id[r] /\ cached = payload[s]
        OBVIOUS
      <3>2. /\ payload'[s] = CachedWithMap(cached, table, i, md)
            /\ known'[s] = known[s] \cup {st} /\ log' = log
        BY <1>0, <1>9, <2>2, <3>1 DEF AddExternalReplica, Replace
      <3>3. md \in Copies /\ State(st)' = md
        <4>1. log[r] \in Seq(Copies)
          BY <1>0 DEF TypeOK
        <4> QED BY <3>1, <3>2, <4>1 DEF State
      <3>4. PICK new : new = CachedWithMap(cached, table, i, md)
        OBVIOUS
      <3>5. table \in [DOMAIN table -> Copies] /\ IsFiniteSet(DOMAIN table) /\ MapCache(cached)
        BY <1>1, <1>6, <3>1
      <3>6. /\ MapCache(new)
            /\ FewerCopies(cached.totalPayload, new.totalPayload)
            /\ \A j \in DOMAIN table : FewerCopies(table[j], new.totalPayload)
            /\ \A e \in Element :
                  Values(new, e) \subseteq
                     Values(cached, e) \cup {0, md[e]} \cup {table[j][e] : j \in DOMAIN table}
        BY <3>3, <3>4, <3>5, WithMapFacts
      <3>7. i \in DOMAIN table /\ table[i] = md
        BY <1>0, <1>9, <2>2, <3>1 DEF AddExternalReplica, Replace, Merged
      <3>8. FewerCopies(State(st)', new.totalPayload)
        BY <3>3, <3>6, <3>7
      <3>9. PICK others \in SUBSET known'[s] : others = {st}
        BY <3>2
      <3>10. payload'[s] = new /\ replica_metadata'[s] = table
        BY <3>1, <3>2, <3>4
      <3>11. \A given \in others : /\ State(given)' \in Copies
                                   /\ FewerCopies(State(given)', payload'[s].totalPayload)
        BY <3>3, <3>8, <3>9, <3>10
      <3>12. ASSUME NEW e \in Element, NEW n \in Values(payload'[s], e)
             PROVE  \/ n = 0 \/ n \in Values(payload[s], e)
                    \/ \E j \in DOMAIN replica_metadata'[s] : n = replica_metadata'[s][j][e]
                    \/ \E given \in others : n = State(given)'[e]
        <4>1. n \in Values(cached, e) \cup {0, md[e]} \cup {table[j][e] : j \in DOMAIN table}
          BY <3>6, <3>10, <3>12
        <4> QED BY <3>1, <3>3, <3>9, <4>1
      <3>13. FewerCopies(payload[s].totalPayload, payload'[s].totalPayload)
        BY <3>1, <3>6, <3>10
      <3>14. known'[s] = known[s] \cup others
        BY <3>2, <3>9
      <3>15. /\ MapCache(payload'[s])
             /\ \A j \in DOMAIN replica_metadata'[s] : replica_metadata'[s][j] \in Copies
        BY <3>5, <3>6, <3>10
      <3> QED BY <1>5, <3>11, <3>12, <3>13, <3>14, <3>15
    <2> QED BY <2>1, <2>2
  <1>10. ASSUME NEW q \in Replica, NEW t \in Replica, NEW lists,
                UpdateLocalExternalPayload(q, t, lists)
         PROVE  /\ MapCache(payload'[s])
                /\ \A st \in Given(s)' :
                      FewerCopies(State(st)', payload'[s].totalPayload)
                /\ \A e \in Element : \A n \in Values(payload'[s], e) :
                      n = 0 \/ \E st \in known'[s] : n <= State(st)'[e]
    <2>1. CASE s # q
      <3>1. payload'[s] = payload[s] /\ known'[s] = known[s]
        BY <1>0, <1>10, <2>1 DEF UpdateLocalExternalPayload, Replace
      <3> QED BY <1>4, <3>1
    <2>2. CASE s = q
      <3>1. PICK table, other, cached, others :
               /\ table = replica_metadata'[s] /\ other = replica_metadata[t]
               /\ cached = payload[s] /\ others = PassedOn(t)
        OBVIOUS
      <3>2. /\ payload'[s] = CachedWithTable(cached, table, other)
            /\ known'[s] = known[s] \cup others
        BY <1>0, <1>10, <2>2, <3>1 DEF UpdateLocalExternalPayload, Replace
      <3>3. PICK new : new = CachedWithTable(cached, table, other)
        OBVIOUS
      <3>4. /\ table \in [DOMAIN table -> Copies] /\ IsFiniteSet(DOMAIN table)
            /\ MapCache(cached)
        BY <1>1, <1>6, <3>1
      <3>5. other \in [DOMAIN other -> Copies] /\ IsFiniteSet(DOMAIN other)
        BY <1>0, <3>1, EntryFacts, TablesAreFinite
      <3>6. /\ MapCache(new)
            /\ FewerCopies(cached.totalPayload, new.totalPayload)
            /\ \A j \in DOMAIN other : FewerCopies(other[j], new.totalPayload)
            /\ \A e \in Element : \A n \in Values(new, e) :
                  \/ n \in Values(cached, e)
                  \/ \E j \in DOMAIN table : n = table[j][e]
                  \/ \E j \in DOMAIN other : n = other[j][e]
        <4>1. MapCache(CachedWithTable(cached, table, other))
          BY <3>4, <3>5, WithTableFacts
        <4>2. FewerCopies(cached.totalPayload, CachedWithTable(cached, table, other).totalPayload)
          BY <3>4, <3>5, WithTableFacts
        <4>3. \A j \in DOMAIN other :
                 FewerCopies(other[j], CachedWithTable(cached, table, other).totalPayload)
          BY <3>4, <3>5, WithTableFacts
        <4>4. ASSUME NEW e \in Element, NEW n \in Values(CachedWithTable(cached, table, other), e)
              PROVE  \/ n \in Values(cached, e)
                     \/ \E j \in DOMAIN table : n = table[j][e]
                     \/ \E j \in DOMAIN other : n = other[j][e]
          <5>1. table \in [DOMAIN table -> Copies] /\ other \in [DOMAIN other -> Copies]
            BY <3>4, <3>5
          <5>2. IsFiniteSet(DOMAIN table) /\ IsFiniteSet(DOMAIN other) /\ MapCache(cached)
            BY <3>4, <3>5
          <5> QED BY <5>1, <5>2, WithTableFacts, <4>4, SMTT(60)
        <4> QED BY <3>3, <4>1, <4>2, <4>3, <4>4
      <3>7. /\ others = {st \in known[t] : State(st) = other[id[st[1]]]}
            /\ others \subseteq known'[s]
        BY <3>1, <3>2 DEF PassedOn, State
      <3>8. \A st \in others : /\ State(st)' \in Copies
                                /\ FewerCopies(State(st)', new.totalPayload)
        <4>1. SUFFICES ASSUME NEW st \in others
                       PROVE  /\ State(st)' \in Copies
                              /\ FewerCopies(State(st)', new.totalPayload)
          OBVIOUS
        <4>2. st \in known[t]
          BY <3>7
        <4>3. id[st[1]] \in DOMAIN other
          BY <1>0, <3>1, <4>2, EntryFacts
        <4>4. State(st)' = other[id[st[1]]] /\ State(st)' \in Copies
          BY <1>2, <3>7, <4>2
        <4> QED BY <3>6, <4>3, <4>4
      <3>9. ASSUME NEW e \in Element, NEW j \in DOMAIN other
            PROVE  \E st \in others : other[j][e] = State(st)'[e]
        <4>1. other[j] \in States(t, j)
          BY <1>0, <3>1 DEF HeldInv
        <4>2. PICK st \in known[t] : id[st[1]] = j /\ other[j] = State(st)
          BY <4>1 DEF States
        <4>3. st \in others /\ State(st)' = State(st)
          BY <1>2, <3>7, <4>2
        <4> QED BY <4>2, <4>3
      <3>10. payload'[s] = new /\ replica_metadata'[s] = table
        BY <3>1, <3>2, <3>3
      <3>11. \A st \in others : /\ State(st)' \in Copies
                                /\ FewerCopies(State(st)', payload'[s].totalPayload)
        BY <3>8, <3>10
      <3>12. ASSUME NEW e \in Element, NEW n \in Values(payload'[s], e)
             PROVE  \/ n = 0 \/ n \in Values(payload[s], e)
                    \/ \E j \in DOMAIN replica_metadata'[s] : n = replica_metadata'[s][j][e]
                    \/ \E st \in others : n = State(st)'[e]
        <4>1. \/ n \in Values(cached, e)
              \/ \E j \in DOMAIN table : n = table[j][e]
              \/ \E j \in DOMAIN other : n = other[j][e]
          BY <3>6, <3>10, <3>12
        <4> QED BY <3>1, <3>9, <4>1
      <3>13. FewerCopies(payload[s].totalPayload, payload'[s].totalPayload)
        BY <3>1, <3>6, <3>10
      <3>14. others \in SUBSET known'[s] /\ known'[s] = known[s] \cup others
        BY <3>2, <3>7
      <3>15. /\ MapCache(payload'[s])
             /\ \A j \in DOMAIN replica_metadata'[s] : replica_metadata'[s][j] \in Copies
        BY <3>4, <3>6, <3>10
      <3> QED BY <1>5, <3>11, <3>12, <3>13, <3>14, <3>15
    <2> QED BY <2>1, <2>2
  <1>11. CASE UNCHANGED vars
    BY <1>4, <1>11 DEF vars
  <1> QED BY <1>4, <1>7, <1>8, <1>9, <1>10, <1>11 DEF Next

\* It holds the zero and the values of the states it was given, so the greatest of them.
LEMMA MapsShowGreatest ==
    ASSUME TypeOK, MapInv, FiniteInv
    PROVE  GreatestValueWins
  <1> SUFFICES ASSUME type = "GMap", NEW s \in Replica, NEW k \in Element,
                      NEW given, given = {st \in known[s] : ~(st[1] = s /\ ThroughHandler(s))}
               PROVE  payload[s].totalPayload[k]
                         \in Max({0} \cup {log[st[1]][st[2]][k] : st \in given})
                            .. Max({0} \cup {log[st[1]][st[2]][k] : st \in known[s]})
    BY DEF GreatestValueWins
  <1>1. Metadata = Copies
    BY DEF Metadata, MetadataOf
  <1>2. \A st \in known[s] : State(st) \in Copies
    BY <1>1, EntryFacts
  <1>3. given \subseteq known[s] /\ IsFiniteSet(known[s])
    BY DEF FiniteInv
  <1>4. PICK total : total = payload[s].totalPayload[k]
    OBVIOUS
  <1>5. /\ total \in Nat
        /\ \A st \in given : State(st)[k] <= total
        /\ total = 0 \/ \E st \in known[s] : total <= State(st)[k]
    <2>1. payload[s].totalPayload \in Copies
      BY DEF MapInv, MapCache
    <2>2. \A st \in given : FewerCopies(State(st), payload[s].totalPayload)
      BY DEF MapInv, Given
    <2>3. total \in Values(payload[s], k)
      BY <1>4 DEF Values
    <2>4. total = 0 \/ \E st \in known[s] : total <= State(st)[k]
      BY <2>3 DEF MapInv, ValuesAreGiven
    <2> QED BY <1>4, <2>1, <2>2, <2>4 DEF Copies, FewerCopies
  <1>6. ASSUME NEW S \in SUBSET known[s]
        PROVE  LET values == {0} \cup {log[st[1]][st[2]][k] : st \in S}
               IN  Max(values) \in values /\ values \subseteq Nat
                   /\ \A n \in values : n <= Max(values)
    <2> DEFINE values == {0} \cup {log[st[1]][st[2]][k] : st \in S}
    <2>1. values \subseteq Nat
      BY <1>2 DEF State, Copies
    <2>2. IsFiniteSet(values)
      <3> DEFINE f == [st \in S |-> log[st[1]][st[2]][k]]
      <3>1. IsFiniteSet(S)
        BY <1>3, FS_Subset
      <3>2. f \in Surjection(S, {log[st[1]][st[2]][k] : st \in S})
        BY DEF Surjection
      <3>3. IsFiniteSet({log[st[1]][st[2]][k] : st \in S})
        BY <3>1, <3>2, FS_Surjection
      <3>4. IsFiniteSet({0})
        BY FS_Singleton
      <3> QED BY <3>3, <3>4, FS_Union
    <2>3. values # {}
      OBVIOUS
    <2> HIDE DEF values
    <2>4. values \subseteq Int
      BY <2>1
    <2>5. Max(values) \in values /\ \A n \in values : Max(values) >= n
      BY <2>2, <2>3, <2>4, MaxFacts
    <2>6. Max(values) \in values /\ values \subseteq Nat /\ \A n \in values : n <= Max(values)
      BY <2>1, <2>5
    <2> QED BY <2>6 DEF values
  <1>7. PICK low : low = Max({0} \cup {log[st[1]][st[2]][k] : st \in given})
    OBVIOUS
  <1>8. PICK high : high = Max({0} \cup {log[st[1]][st[2]][k] : st \in known[s]})
    OBVIOUS
  <1>9. low \in Nat /\ low <= total
    <2>1. low \in {0} \cup {log[st[1]][st[2]][k] : st \in given} /\ low \in Nat
      BY <1>3, <1>6, <1>7
    <2> QED BY <1>5, <2>1 DEF State
  <1>10. high \in Nat /\ total <= high
    <2>1. high \in Nat /\ 0 <= high /\ \A st \in known[s] : State(st)[k] <= high
      BY <1>6, <1>8 DEF State
    <2>2. \A st \in known[s] : State(st)[k] \in Nat
      BY <1>2 DEF Copies
    <2> QED BY <1>5, <2>1, <2>2
  <1> QED BY <1>4, <1>5, <1>7, <1>8, <1>9, <1>10

\* At the start there is nothing to show.
LEMMA MapInit ==
    ASSUME Init
    PROVE  MapInv
  <1> SUFFICES ASSUME type = "GMap", NEW s \in Replica
               PROVE  /\ MapCache(payload[s])
                      /\ \A st \in Given(s) : FewerCopies(State(st), payload[s].totalPayload)
                      /\ ValuesAreGiven(s)
    BY DEF MapInv
  <1>1. known[s] = {} /\ payload[s] = [payload |-> <<>>, totalPayload |-> NoCopies]
    BY DEF Init, Cached, NewMapCache
  <1>2. DOMAIN payload[s].payload = {} /\ payload[s].payload = [j \in {} |-> NoCopies]
    BY <1>1
  <1>3. NoCopies \in Copies /\ \A k \in Element : NoCopies[k] = 0
    BY NoCopiesFacts DEF NoCopies
  <1>4. MapCache(payload[s])
    BY <1>1, <1>2, <1>3 DEF MapCache
  <1>5. \A k \in Element : Values(payload[s], k) = {0}
    BY <1>1, <1>2, <1>3 DEF Values
  <1> QED BY <1>1, <1>4, <1>5 DEF Given, ValuesAreGiven

\* The greatest value wins: what a map handler shows for a key is the greatest value in all
\* the maps it has been given, in whatever order they came and though its table may have gone
\* back; only its own writes can be missing.
THEOREM GreatestWins == Spec => []GreatestValueWins
  <1>1. Init => MapInv /\ FiniteInv
    <2>1. Init => FiniteInv
      BY FS_EmptySet DEF Init, FiniteInv
    <2> QED BY <2>1, MapInit
  <1>2. IInv /\ FiniteInv /\ [Next]_vars => FiniteInv'
    BY FiniteStep
  <1>3. IInv /\ IInv' /\ FiniteInv /\ FiniteInv' /\ MapInv /\ [Next]_vars => MapInv'
    BY MapStep
  <1>4. IInv /\ MapInv /\ FiniteInv => GreatestValueWins
    BY MapsShowGreatest DEF IInv
  <1> QED BY <1>1, <1>2, <1>3, <1>4, Invariance, PTL DEF Spec

-----------------------------------------------------------------------------
(* ORSets *)

\* A handler that has one state of a sole writer, and is told what was taken out up to a later
\* one, has the later one after the merge: whatever is left of the first is in it.
LEMMA CatchUpStep ==
    ASSUME IInv, type = "ORSet", NEW s \in Replica, NEW r \in Replica,
           NEW k \in 1 .. Len(log[r]), NEW j \in 1 .. k,
           id[r] \in DOMAIN replica_metadata[s], replica_metadata[s][id[r]] = log[r][j],
           AddExternalReplica(s, r, k, ListFor(id[r], RemovedBetween(r, j, k)))
    PROVE  replica_metadata'[s][id[r]] = log[r][k]
  <1>1. TypeOK /\ Metadata = Copies
    BY DEF IInv, Metadata, MetadataOf
  <1>2. log[r] \in Seq(Copies)
    BY <1>1 DEF TypeOK
  <1>3. PICK i, states, n, removed :
           /\ i = id[r] /\ states = log[r] /\ n = Len(log[r])
           /\ removed = RemovedBetween(r, j, k)
    OBVIOUS
  <1>4. n \in Nat /\ states \in [1 .. n -> Copies] /\ k \in 1 .. n
    BY <1>2, <1>3
  <1>5. RemovedIn(ListFor(i, removed), i) = removed
    BY DEF RemovedIn, ListFor
  <1>6. replica_metadata'[s] = Merged(replica_metadata[s], i, states[k], ListFor(i, removed))
    BY <1>1, <1>3 DEF AddExternalReplica, Replace, TypeOK
  <1>7. replica_metadata'[s][i] = UniteAfterRemoval(states[j], states[k], removed)
    BY <1>3, <1>5, <1>6 DEF Merged, Join
  <1>8. removed = AllCopies([l \in j + 1 .. k |-> WithoutCopies(states[l - 1], states[l])])
    BY <1>3 DEF RemovedBetween
  <1>9. UniteAfterRemoval(states[j], states[k], removed) = states[k]
    BY <1>4, <1>8, CatchUpFacts
  <1> QED BY <1>3, <1>7, <1>9

\* A handler whose ORSet entry is a state of a sole writer catches up with a later state, when
\* it is told what was removed in between.
THEOREM ORSetsCatchUp == Spec => ORSetCatchesUp
  <1> DEFINE CatchUp == \A s, r \in Replica : \A j, k \in 1 .. Len(log[r]) :
          /\ type = "ORSet" /\ Exclusive(r) /\ j <= k
          /\ id[r] \in DOMAIN replica_metadata[s]
          /\ replica_metadata[s][id[r]] = log[r][j]
          /\ <<r, k>> \in known'[s]
          /\ AddExternalReplica(s, r, k, ListFor(id[r], RemovedBetween(r, j, k)))
          => replica_metadata'[s][id[r]] = log[r][k]
  <1>1. IInv => CatchUp
    <2> SUFFICES ASSUME IInv, NEW s \in Replica, NEW r \in Replica,
                        NEW j \in 1 .. Len(log[r]), NEW k \in 1 .. Len(log[r]),
                        type = "ORSet", j <= k, id[r] \in DOMAIN replica_metadata[s],
                        replica_metadata[s][id[r]] = log[r][j],
                        AddExternalReplica(s, r, k, ListFor(id[r], RemovedBetween(r, j, k)))
                 PROVE  replica_metadata'[s][id[r]] = log[r][k]
      OBVIOUS
    <2>1. j \in 1 .. k
      OBVIOUS
    <2> QED BY <2>1, CatchUpStep
  <1>2. IInv /\ [Next]_vars => [CatchUp]_vars
    BY <1>1
  <1> QED BY <1>2, Invariance, PTL DEF Spec, ORSetCatchesUp

=============================================================================
