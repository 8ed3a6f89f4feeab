----------------------------- MODULE Boards_proofs -----------------------------
(***************************************************************************)
(* Proofs about the boards of the Trello application: the types, and that  *)
(* - the number below a board is that of the tasks on it (CountIsShown),   *)
(* - the priority list is that of all tasks shown (PriorityOfShown),       *)
(* - what was deleted stays hidden (DeletedStaysHidden), and               *)
(* - no task is shown more often than it was created (NoTaskTwice).        *)
(*                                                                         *)
(* All rest on who writes under which id (LinkInv): a process saves its    *)
(* lists under the id of its user, who may have other processes, and has   *)
(* another id only during a login, before which its lists are new unless   *)
(* they were taken over.  The last needs, for each board and task, how     *)
(* often each user is said to have created it (MostInv): no list, server   *)
(* or file has more copies under his id, and the sum is no more than were  *)
(* created.  A login that takes over a list ends that: the copies in it    *)
(* are then also saved under the id of its new owner.                      *)
(***************************************************************************)
EXTENDS Boards, StateTypesData_proofs, SequenceTheorems

-----------------------------------------------------------------------------
(* Lists and servers *)

\* A list is a multiset of tasks and one of their tombstones.
LEMMA ListFacts ==
    /\ NewMultiSet \in MultiSetMetadata
    /\ \A e \in Element : NewMultiSet.payload[e] = 0
    /\ \A md \in MultiSetMetadata :
          /\ md.payload \in Copies /\ md.tombstone \in Copies
          /\ \A e \in Element : md.payload[e] \in Nat /\ md.tombstone[e] \in Nat
  <1>1. NoCopies \in Copies /\ \A e \in Element : NoCopies[e] = 0
    BY NoCopiesFacts DEF NoCopies
  <1>2. \A md \in MultiSetMetadata : md.payload \in Copies /\ md.tombstone \in Copies
    BY DEF MultiSetMetadata
  <1>3. \A bag \in Copies : \A e \in Element : bag[e] \in Nat
    BY DEF Copies
  <1> QED BY <1>1, <1>2, <1>3 DEF NewMultiSet, MultiSetMetadata

\* Two lists of one id are merged into one with the most copies of both.
LEMMA BothListsFacts ==
    ASSUME NEW known \in MultiSetMetadata, NEW md \in MultiSetMetadata
    PROVE  LET both == MostCopiesOfBoth(known, md)
           IN  /\ both \in MultiSetMetadata
               /\ \A e \in Element :
                     /\ both.payload[e] \in {known.payload[e], md.payload[e]}
                     /\ known.tombstone[e] <= both.tombstone[e]
  <1>1. PICK payload : payload = MostCopies(known.payload, md.payload)
    OBVIOUS
  <1>2. PICK tombstone : tombstone = MostCopies(known.tombstone, md.tombstone)
    OBVIOUS
  <1>3. MostCopiesOfBoth(known, md) = [payload |-> payload, tombstone |-> tombstone]
    BY <1>1, <1>2 DEF MostCopiesOfBoth
  <1>4. payload \in Copies /\ tombstone \in Copies /\ FewerCopies(known.tombstone, tombstone)
    BY <1>1, <1>2, ListFacts, MostCopiesFacts
  <1>5. ASSUME NEW e \in Element PROVE payload[e] \in {known.payload[e], md.payload[e]}
    <2>1. known.payload[e] \in Int /\ md.payload[e] \in Int
      BY ListFacts
    <2>2. payload[e] = Max({known.payload[e], md.payload[e]})
      BY <1>1 DEF MostCopies
    <2> QED BY <2>1, <2>2, MaxOfTwo
  <1>6. MostCopiesOfBoth(known, md) \in MultiSetMetadata
    BY <1>3, <1>4 DEF MultiSetMetadata
  <1> QED BY <1>3, <1>4, <1>5, <1>6 DEF FewerCopies

\* A server that is given a list forgets no id and no tombstone.
LEMMA MergedListsFacts ==
    ASSUME NEW ids, NEW table, IsTable(table, ids, MultiSetMetadata), NEW i \in ids,
           NEW md \in MultiSetMetadata, NEW merged, merged = MergedLists(table, i, md)
    PROVE  /\ IsTable(merged, ids, MultiSetMetadata)
           /\ DOMAIN merged = DOMAIN table \cup {i}
           /\ \A j \in DOMAIN table, e \in Element :
                 table[j].tombstone[e] <= merged[j].tombstone[e]
  <1>1. merged = MergedLists(table, i, md)
    OBVIOUS
  <1>2. /\ DOMAIN merged = DOMAIN table \cup {i}
        /\ merged = [j \in DOMAIN merged |-> merged[j]]
        /\ \A j \in DOMAIN merged :
              merged[j] = IF j # i THEN table[j]
                          ELSE IF i \in DOMAIN table THEN MostCopiesOfBoth(table[i], md) ELSE md
    BY <1>1 DEF MergedLists
  <1>3. DOMAIN table \subseteq ids /\ \A j \in DOMAIN table : table[j] \in MultiSetMetadata
    BY DEF IsTable
  <1>4. ASSUME NEW j \in DOMAIN merged
        PROVE  /\ merged[j] \in MultiSetMetadata
               /\ j \in DOMAIN table =>
                     \A e \in Element : table[j].tombstone[e] <= merged[j].tombstone[e]
    <2>1. CASE j # i
      <3>1. j \in DOMAIN table /\ merged[j] = table[j] /\ merged[j] \in MultiSetMetadata
        BY <1>2, <1>3, <2>1
      <3>2. \A e \in Element : merged[j].tombstone[e] \in Nat
        BY <3>1, ListFacts
      <3> QED BY <3>1, <3>2
    <2>2. CASE j = i /\ i \notin DOMAIN table
      BY <1>2, <2>2
    <2>3. CASE j = i /\ i \in DOMAIN table
      <3>1. PICK known \in MultiSetMetadata : known = table[i]
        BY <1>3, <2>3
      <3>2. merged[j] = MostCopiesOfBoth(known, md)
        BY <1>2, <2>3, <3>1
      <3>3. /\ merged[j] \in MultiSetMetadata
            /\ \A e \in Element : known.tombstone[e] <= merged[j].tombstone[e]
        BY <3>2, BothListsFacts
      <3> QED BY <2>3, <3>1, <3>3
    <2> QED BY <2>1, <2>2, <2>3
  <1>5. IsTable(merged, ids, MultiSetMetadata)
    BY <1>2, <1>3, <1>4 DEF IsTable
  <1> QED BY <1>1, <1>2, <1>4, <1>5

\* What a server shows.
LEMMA TasksFacts ==
    ASSUME NEW ids, IsFiniteSet(ids), NEW table, IsTable(table, ids, MultiSetMetadata),
           NEW e \in Element
    PROVE  /\ Tasks(table)[e] \in Nat
           /\ CachedMultiSet(table).tombstone[e] \in Nat
           /\ \A i \in DOMAIN table :
                 table[i].tombstone[e] > 0 => CachedMultiSet(table).tombstone[e] > 0
           /\ CachedMultiSet(table).tombstone[e] > 0 =>
                 /\ Tasks(table)[e] = 0
                 /\ \E i \in DOMAIN table : table[i].tombstone[e] > 0
           /\ \A most : IsFiniteSet(DOMAIN most) /\ DOMAIN table \subseteq DOMAIN most
                        /\ (\A i \in DOMAIN most : most[i] \in Nat)
                        /\ (\A i \in DOMAIN table : table[i].payload[e] <= most[i])
                 => Tasks(table)[e] <= SumFunction(most)
  <1>1. PICK fun : fun = [i \in DOMAIN table |-> table[i].payload[e]]
    OBVIOUS
  <1>2. PICK gun : gun = [i \in DOMAIN table |-> table[i].tombstone[e]]
    OBVIOUS
  <1>3. /\ DOMAIN fun = DOMAIN table /\ DOMAIN gun = DOMAIN table
        /\ \A i \in DOMAIN table : /\ fun[i] = table[i].payload[e] /\ fun[i] \in Nat
                                   /\ gun[i] = table[i].tombstone[e] /\ gun[i] \in Nat
    BY <1>1, <1>2, ListFacts DEF IsTable
  <1>4. IsFiniteSet(DOMAIN table)
    BY FS_Subset DEF IsTable
  <1>5. /\ CachedMultiSet(table).payload[e] = SumFunction(fun)
        /\ CachedMultiSet(table).tombstone[e] = SumFunction(gun)
    BY <1>1, <1>2 DEF CachedMultiSet, AllCopies
  <1>6. SumFunction(fun) \in Nat /\ SumFunction(gun) \in Nat
    BY <1>3, <1>4, SumBounds
  <1>7. Tasks(table)[e] = IF SumFunction(gun) > 0 THEN 0 ELSE SumFunction(fun)
    BY <1>5 DEF Tasks, QueryMultiset
  <1>8. ASSUME NEW i \in DOMAIN table, table[i].tombstone[e] > 0 PROVE SumFunction(gun) > 0
    <2>1. SumFunction(gun) >= gun[i]
      BY <1>3, <1>4, SumBounds
    <2> QED BY <1>3, <1>6, <1>8, <2>1
  <1>9. ASSUME SumFunction(gun) > 0 PROVE \E i \in DOMAIN table : table[i].tombstone[e] > 0
    <2> SUFFICES ASSUME \A i \in DOMAIN table : ~(table[i].tombstone[e] > 0) PROVE FALSE
      OBVIOUS
    <2>1. \A i \in DOMAIN table : gun[i] = 0
      BY <1>3
    <2>2. SumFunction(gun) = 0
      BY <1>3, <1>4, <2>1, SumOfZeros DEF SumFunction
    <2> QED BY <1>9, <2>2
  <1>10. ASSUME NEW most, IsFiniteSet(DOMAIN most), DOMAIN table \subseteq DOMAIN most,
                \A i \in DOMAIN most : most[i] \in Nat,
                \A i \in DOMAIN table : table[i].payload[e] <= most[i]
         PROVE  Tasks(table)[e] <= SumFunction(most)
    <2>1. SumFunctionOnSet(fun, DOMAIN table) <= SumFunctionOnSet(most, DOMAIN most)
      BY <1>3, <1>10, SumOrder
    <2>2. SumFunctionOnSet(most, DOMAIN most) \in Nat
      BY <1>10, SumType
    <2> QED BY <1>3, <1>6, <1>7, <2>1, <2>2 DEF SumFunction
  <1> QED BY <1>5, <1>6, <1>7, <1>8, <1>9, <1>10

\* The number of tasks on a board,
LEMMA HowManyFacts ==
    ASSUME NEW ids, IsFiniteSet(ids), NEW table, IsTable(table, ids, MultiSetMetadata)
    PROVE  HowMany(Tasks(table)) \in Nat
  <1>1. PICK tasks : tasks = Tasks(table)
    OBVIOUS
  <1>2. DOMAIN tasks = Element /\ IsFiniteSet(DOMAIN tasks)
    BY <1>1, ElementAssumption DEF Tasks, QueryMultiset
  <1>3. \A e \in DOMAIN tasks : tasks[e] \in Nat
    BY <1>1, <1>2, TasksFacts
  <1> QED BY <1>1, <1>2, <1>3, SumBounds DEF HowMany

\* and what a cleared counter shows that is given as many.
LEMMA CountedFacts ==
    ASSUME NEW ids, IsFiniteSet(ids), NEW table, IsTable(table, ids, Counter!Metadata),
           NEW i \in ids, NEW n \in Nat
    PROVE  LET counted == Counted(ClearedCounters(table), i, n)
           IN  /\ IsTable(counted, ids, Counter!Metadata)
               /\ Counter!InternalPayload(counted) = n % Modulus
  <1>0. Modulus \in Nat \ {0}
    BY BoardAssumption
  <1>1. PICK w : w = n % Modulus
    OBVIOUS
  <1>2. w \in 0 .. Modulus - 1 /\ w % Modulus = w
    BY <1>0, <1>1
  <1>3. PICK zero : zero = [positivePayload |-> 0, negativePayload |-> 0, totalPayload |-> 0]
    OBVIOUS
  <1>4. zero \in Counter!Metadata /\ Counter!NewMetadata(0) = zero
    BY <1>0, <1>3 DEF Counter!Metadata, Counter!T, Counter!NewMetadata
  <1>5. PICK full : full = [positivePayload |-> w, negativePayload |-> 0, totalPayload |-> w]
    OBVIOUS
  <1>6. full \in Counter!Metadata
    BY <1>0, <1>2, <1>5 DEF Counter!Metadata, Counter!T
  <1>7. Counter!IncreasePayload(zero, n) = full
    <2>1. Counter!Wrap(zero.positivePayload + n) = w
      BY <1>1, <1>3 DEF Counter!Wrap
    <2>2. Counter!Wrap(w - zero.negativePayload) = w
      BY <1>2, <1>3 DEF Counter!Wrap
    <2>3. Counter!SetPayloadP(zero, w) = full
      <3>1. Counter!SetPayloadP(zero, w) = [zero EXCEPT !.positivePayload = w, !.totalPayload = w]
        BY <2>2 DEF Counter!SetPayloadP
      <3> QED BY <1>3, <1>5, <3>1
    <2> QED BY <2>1, <2>3 DEF Counter!IncreasePayload
  <1>8. Counter!FixConflict(zero, full) = full
    <2>1. /\ Counter!Larger(zero.positivePayload, full.positivePayload) = w
          /\ Counter!Larger(zero.negativePayload, full.negativePayload) = 0
      BY <1>2, <1>3, <1>5 DEF Counter!Larger
    <2>2. Counter!Wrap(w - full.negativePayload) = w /\ Counter!Wrap(full.positivePayload - 0) = w
      BY <1>2, <1>5 DEF Counter!Wrap
    <2>3. Counter!SetPayloadP(full, w) = full
      <3>1. Counter!SetPayloadP(full, w) = [full EXCEPT !.positivePayload = w, !.totalPayload = w]
        BY <2>2 DEF Counter!SetPayloadP
      <3> QED BY <1>5, <3>1
    <2>4. Counter!SetPayloadN(full, 0) = full
      <3>1. Counter!SetPayloadN(full, 0) = [full EXCEPT !.negativePayload = 0, !.totalPayload = w]
        BY <2>2 DEF Counter!SetPayloadN
      <3> QED BY <1>5, <3>1
    <2> QED BY <2>1, <2>3, <2>4 DEF Counter!FixConflict
  <1>9. PICK counted : counted = Counted(ClearedCounters(table), i, n)
    OBVIOUS
  <1>10. PICK cleared : cleared = ClearedCounters(table)
    OBVIOUS
  <1>11. DOMAIN cleared = DOMAIN table /\ cleared = [j \in DOMAIN table |-> zero]
    BY <1>4, <1>10 DEF ClearedCounters
  <1>12. DOMAIN table \subseteq ids
    BY DEF IsTable
  <1>13. PICK totals : totals = [j \in DOMAIN counted |-> counted[j].totalPayload]
    OBVIOUS
  <1>14. Counter!InternalPayload(counted) = SumFunctionOnSet(totals, DOMAIN counted) % Modulus
    <2>1. Counter!SumFunction(totals) = SumFunctionOnSet(totals, DOMAIN totals)
      BY DEF Counter!SumFunction, Counter!SumFunctionOnSet, Counter!FoldFunctionOnSet,
             Counter!MapThenFoldSet, SumFunctionOnSet, FoldFunctionOnSet, MapThenFoldSet
    <2>2. DOMAIN totals = DOMAIN counted
      BY <1>13
    <2> QED BY <1>13, <2>1, <2>2 DEF Counter!InternalPayload, Counter!Wrap
  <1>15. CASE n = 0
    <2>1. counted = cleared
      BY <1>9, <1>10, <1>15 DEF Counted
    <2>2. IsTable(counted, ids, Counter!Metadata) /\ IsFiniteSet(DOMAIN counted)
      BY <1>4, <1>11, <1>12, <2>1, FS_Subset DEF IsTable
    <2>3. \A j \in DOMAIN counted : totals[j] = 0
      BY <1>3, <1>11, <1>13, <2>1
    <2>4. SumFunctionOnSet(totals, DOMAIN counted) = 0
      BY <2>2, <2>3, SumOfZeros
    <2> QED BY <1>9, <1>14, <1>15, <2>2, <2>4
  <1>16. CASE n # 0
    <2>1. counted = Counter!Merged(cleared, i, full)
      BY <1>4, <1>7, <1>9, <1>10, <1>16 DEF Counted
    <2>2. /\ DOMAIN counted = DOMAIN table \cup {i}
          /\ counted = [j \in DOMAIN counted |-> IF j = i THEN full ELSE zero]
      BY <1>8, <1>11, <2>1 DEF Counter!Merged
    <2>3. IsTable(counted, ids, Counter!Metadata) /\ IsFiniteSet(DOMAIN counted)
      <3>1. DOMAIN counted \subseteq ids
        BY <1>12, <2>2
      <3>2. counted \in [DOMAIN counted -> Counter!Metadata]
        BY <1>4, <1>6, <2>2
      <3> QED BY <3>1, <3>2, FS_Subset DEF IsTable
    <2>4. \A j \in DOMAIN counted : totals[j] = IF j = i THEN w ELSE 0
      BY <1>3, <1>5, <1>13, <2>2
    <2>5. i \in DOMAIN counted /\ \A j \in DOMAIN counted : totals[j] \in Nat
      BY <1>2, <2>2, <2>4
    <2>6. SumFunctionOnSet(totals, DOMAIN counted)
             = totals[i] + SumFunctionOnSet(totals, DOMAIN counted \ {i})
      BY <2>3, <2>5, SumByAny
    <2>7. SumFunctionOnSet(totals, DOMAIN counted \ {i}) = 0
      <3>1. IsFiniteSet(DOMAIN counted \ {i})
        BY <2>3, FS_Subset
      <3> QED BY <2>4, <3>1, SumOfZeros
    <2>8. SumFunctionOnSet(totals, DOMAIN counted) = w
      BY <1>2, <2>4, <2>5, <2>6, <2>7
    <2> QED BY <1>1, <1>2, <1>9, <1>14, <2>3, <2>8
  <1> QED BY <1>15, <1>16

-----------------------------------------------------------------------------
(* Types *)

\* What a process can be in the middle of.
LEMMA DoingFacts ==
    /\ Idle \in Doings /\ Idle.step = "none"
    /\ LoggingIn \in Doings /\ LoggingIn.step = "login" /\ LoggingIn.login
    /\ \A login \in BOOLEAN : /\ Show(login) \in Doings
                              /\ Show(login).step = "show" /\ Show(login).login = login
                              /\ Account # {} => Converge(login) \in Doings
                              /\ Converge(login).step = "converge"
                              /\ Converge(login).login = login
    /\ \A b \in Board : [step |-> "save", board |-> b] \in Doings
    /\ \A d \in Doings : /\ d.step = "converge" =>
                               /\ d = [step |-> "converge", board |-> d.board, left |-> d.left,
                                       login |-> d.login]
                               /\ d.board \in DOMAIN Boards /\ d.left \in SUBSET Name
                               /\ d.login \in BOOLEAN
                         /\ d.step = "show" => d.login \in BOOLEAN
                         /\ d.step = "save" => d.board \in Board
                         /\ d.step = "login" => d = LoggingIn
  <1>1. Len(Boards) \in Nat /\ Len(Boards) > 0 /\ DOMAIN Boards = 1 .. Len(Boards)
    BY BoardAssumption
  <1>2. 1 \in DOMAIN Boards
    BY <1>1
  <1>3. Account # {} => Name # {}
    BY BoardAssumption DEF Name, Range
  <1>4. \A d \in Doings : /\ d.step = "converge" =>
                               /\ d = [step |-> "converge", board |-> d.board, left |-> d.left,
                                       login |-> d.login]
                               /\ d.board \in DOMAIN Boards /\ d.left \in SUBSET Name
                               /\ d.login \in BOOLEAN
                          /\ d.step = "show" => d.login \in BOOLEAN
                          /\ d.step = "save" => d.board \in Board
                          /\ d.step = "login" => d = LoggingIn
    BY DEF Doings, Idle, LoggingIn
  <1>5. \A login \in BOOLEAN : /\ Show(login) \in Doings
                               /\ Account # {} => Converge(login) \in Doings
    BY <1>2, <1>3 DEF Doings, Show, Converge
  <1>6. \A login \in BOOLEAN : /\ Show(login).step = "show" /\ Show(login).login = login
                               /\ Converge(login).step = "converge"
                               /\ Converge(login).login = login
    BY DEF Show, Converge
  <1>7. \A b \in Board : [step |-> "save", board |-> b] \in Doings
    BY DEF Doings
  <1> QED BY <1>4, <1>5, <1>6, <1>7 DEF Doings, Idle, LoggingIn

\* What comes after a file is another one, or what is shown.
LEMMA AfterFileFacts ==
    ASSUME NEW p \in Process, doing[p] \in Doings, doing[p].step = "converge", NEW n
    PROVE  /\ AfterFile(p, n) \in Doings
           /\ AfterFile(p, n).step \in {"converge", "show"}
           /\ AfterFile(p, n).login = doing[p].login
  <1>1. PICK d : d = doing[p]
    OBVIOUS
  <1>2. /\ d \in Doings /\ d = [step |-> "converge", board |-> d.board, left |-> d.left, login |-> d.login]
        /\ d.board \in DOMAIN Boards /\ d.left \in SUBSET Name /\ d.login \in BOOLEAN
    BY <1>1, DoingFacts
  <1>3. PICK left : left = d.left \ {n}
    OBVIOUS
  <1>4. left \in SUBSET Name
    BY <1>2, <1>3
  <1>5. CASE left # {}
    <2>1. AfterFile(p, n) = [step |-> "converge", board |-> d.board, left |-> left, login |-> d.login]
      BY <1>1, <1>2, <1>3, <1>5 DEF AfterFile
    <2> QED BY <1>1, <1>2, <1>4, <1>5, <2>1 DEF Doings
  <1>6. CASE left = {} /\ d.board < Len(Boards)
    <2>1. AfterFile(p, n) = [step |-> "converge", board |-> d.board + 1, left |-> Name, login |-> d.login]
      BY <1>1, <1>2, <1>3, <1>6 DEF AfterFile
    <2>2. d.board + 1 \in DOMAIN Boards
      BY <1>2, <1>6, BoardAssumption
    <2>3. Name # {}
      BY <1>2, <1>1, DoingFacts DEF Doings, Idle, LoggingIn
    <2> QED BY <1>1, <1>2, <2>1, <2>2, <2>3 DEF Doings
  <1>7. CASE left = {} /\ ~(d.board < Len(Boards))
    BY <1>1, <1>2, <1>3, <1>7, DoingFacts DEF AfterFile
  <1> QED BY <1>5, <1>6, <1>7

\* A new process knows nothing.
LEMMA NewMemoryFacts ==
    ASSUME NEW ids
    PROVE  /\ IsMemory(NewMemory, ids) /\ NewMemory.id = 0
           /\ \A b \in Board : /\ NewMemory.list[b] = NewMultiSet
                               /\ DOMAIN NewMemory.server[b] = {}
  <1>1. DOMAIN NewMemory = {"id", "list", "server", "counters", "priorities"}
    BY DEF NewMemory
  <1>2. /\ NewMemory.id = 0 /\ NewMemory.list = [b \in Board |-> NewMultiSet]
        /\ NewMemory.server = [b \in Board |-> <<>>] /\ NewMemory.counters = [b \in Board |-> <<>>]
    BY DEF NewMemory
  <1>3. \A S : DOMAIN <<>> = {} /\ <<>> \in [{} -> S]
    OBVIOUS
  <1> QED BY <1>1, <1>2, <1>3, ListFacts DEF IsMemory, IsTable

\* A change of one list,
LEMMA ListChanged ==
    ASSUME NEW ids, NEW m, IsMemory(m, ids), NEW b \in Board, NEW md \in MultiSetMetadata,
           NEW n, DOMAIN n = DOMAIN m, n.id = m.id, n.server = m.server, n.counters = m.counters,
           n.list = [m.list EXCEPT ![b] = md]
    PROVE  /\ IsMemory(n, ids)
           /\ \A c \in Board : n.list[c] = IF c = b THEN md ELSE m.list[c]
  <1>1. /\ n.list \in [Board -> MultiSetMetadata]
        /\ \A c \in Board : n.list[c] = IF c = b THEN md ELSE m.list[c]
    BY DEF IsMemory
  <1> QED BY <1>1 DEF IsMemory

\* of one server,
LEMMA ServerChanged ==
    ASSUME NEW ids, NEW m, IsMemory(m, ids), NEW b \in Board, NEW table,
           NEW n, DOMAIN n = DOMAIN m, n.id = m.id, n.list = m.list, n.counters = m.counters,
           n.server = [m.server EXCEPT ![b] = table], IsTable(table, ids, MultiSetMetadata)
    PROVE  /\ IsMemory(n, ids)
           /\ \A c \in Board : n.server[c] = IF c = b THEN table ELSE m.server[c]
  <1>1. /\ DOMAIN n.server = Board
        /\ \A c \in Board : n.server[c] = IF c = b THEN table ELSE m.server[c]
    BY DEF IsMemory
  <1> QED BY <1>1 DEF IsMemory

\* and of what is shown.
LEMMA ShownChanged ==
    ASSUME NEW ids, NEW m, IsMemory(m, ids), NEW n, DOMAIN n = DOMAIN m, n.id \in ids \cup {0},
           n.list = m.list, n.server = m.server, DOMAIN n.counters = Board,
           \A b \in Board : IsTable(n.counters[b], ids \cup {0}, Counter!Metadata)
    PROVE  IsMemory(n, ids)
  BY DEF IsMemory

\* The ids, which are fewer than the accounts.
LEMMA IdFacts ==
    ASSUME TypeOK
    PROVE  /\ IsFiniteSet(Range(uniqueID)) /\ Range(uniqueID) \subseteq Nat \ {0}
           /\ \A a \in Account : uniqueID[a] \in Range(uniqueID)
           /\ None \notin Account
  <1>1. /\ uniqueID \in [Account -> Nat \ {0}] /\ IsFiniteSet(Account) /\ None \notin Account
        /\ Range(uniqueID) = {uniqueID[a] : a \in Account}
    BY BoardAssumption DEF TypeOK, Range
  <1>2. IsFiniteSet(DOMAIN uniqueID)
    BY <1>1
  <1> QED BY <1>1, <1>2, FiniteImages

\* What one process does.
StepOf(p) ==
    \/ \E a \in Uses[p] : Login(p, a)
    \/ \E b \in Board, e \in Plans[p] : CreateBoard(p, b, e)
    \/ \E b \in Board, e \in Element : DeleteBoard(p, b, e)
    \/ Merge(p) \/ ReadFile(p) \/ Save(p) \/ UpdateTable(p)
    \/ SetOnline(p) \/ CloseAddWindow(p) \/ Logout(p) \/ Close(p) \/ Crash(p)

\* It does nothing to the others but to the files.
LEMMA OthersStay ==
    ASSUME TypeOK, NEW p \in Process, StepOf(p)
    PROVE  /\ uniqueID' = uniqueID
           /\ DOMAIN memory' = Process /\ DOMAIN doing' = Process
           /\ DOMAIN loggedIn' = Process /\ DOMAIN endUser' = Process
           /\ \A q \in Process \ {p} : /\ memory'[q] = memory[q] /\ doing'[q] = doing[q]
                                       /\ loggedIn'[q] = loggedIn[q] /\ endUser'[q] = endUser[q]
  <1> USE DEF TypeOK
  <1>1. CASE \E a \in Uses[p] : Login(p, a)
    BY <1>1 DEF Login
  <1>2. CASE \E b \in Board, e \in Plans[p] : CreateBoard(p, b, e)
    BY <1>2 DEF CreateBoard, Edit
  <1>3. CASE \E b \in Board, e \in Element : DeleteBoard(p, b, e)
    BY <1>3 DEF DeleteBoard, Edit
  <1>4. CASE Merge(p)
    BY <1>4 DEF Merge
  <1>5. CASE ReadFile(p)
    BY <1>5 DEF ReadFile, Gone
  <1>6. CASE Save(p)
    BY <1>6 DEF Save
  <1>7. CASE UpdateTable(p)
    BY <1>7 DEF UpdateTable
  <1>8. CASE Logout(p) \/ SetOnline(p) \/ CloseAddWindow(p)
    BY <1>8 DEF Logout, SetOnline, CloseAddWindow
  <1>9. CASE Close(p) \/ Crash(p)
    BY <1>9 DEF Close, Crash, Gone
  <1> QED BY <1>1, <1>2, <1>3, <1>4, <1>5, <1>6, <1>7, <1>8, <1>9 DEF StepOf

-----------------------------------------------------------------------------
(* Who writes under which id *)

\* A login has begun and not ended.
InLogin(p) == doing[p].step \in {"login", "converge", "show"} /\ doing[p].login

\* A process has the id of its user, except during a login; then its lists are new, unless
\* they were taken over.  A process without an id has written nothing.
LinkInv ==
    \A p \in Process :
        /\ memory[p].id = 0 => \A b \in Board : memory[p].list[b] = NewMultiSet
        /\ loggedIn[p] # None =>
              \/ memory[p].id = uniqueID[loggedIn[p]]
              \/ InLogin(p) /\ (carried \/ \A b \in Board : memory[p].list[b] = NewMultiSet)

\* What is changed, and by whom.
LEMMA EditFacts ==
    ASSUME TypeOK, LinkInv, NEW p \in Process, NEW b \in Board, NEW md \in MultiSetMetadata,
           OnBoard(p), Edit(p, b, md)
    PROVE  /\ IsMemory(memory'[p], Range(uniqueID))
           /\ memory'[p].id = memory[p].id /\ memory[p].id \in Range(uniqueID)
           /\ memory[p].id = uniqueID[loggedIn[p]]
           /\ memory'[p].server = memory[p].server /\ memory'[p].counters = memory[p].counters
           /\ \A c \in Board : memory'[p].list[c] = IF c = b THEN md ELSE memory[p].list[c]
           /\ loggedIn[p] \in Account /\ userName[loggedIn[p]] \in Name
           /\ json' = [json EXCEPT ![b][userName[loggedIn[p]]] = Torn]
           /\ json' \in [Board -> [Name -> Files]]
           /\ doing'[p] = [step |-> "save", board |-> b]
           /\ loggedIn' = loggedIn /\ online' = online /\ carried' = carried
  <1>1. loggedIn[p] \in Account /\ userName[loggedIn[p]] \in Name
    BY BoardAssumption DEF TypeOK, OnBoard, Name, Range
  <1>2. ~InLogin(p) /\ loggedIn[p] # None
    BY DoingFacts DEF OnBoard, InLogin
  <1>3. memory[p].id = uniqueID[loggedIn[p]] /\ memory[p].id \in Range(uniqueID)
    BY <1>1, <1>2, IdFacts DEF LinkInv
  <1>4. PICK m : m = memory[p]
    OBVIOUS
  <1>5. PICK n : n = memory'[p]
    OBVIOUS
  <1>6. n = [m EXCEPT !.list[b] = md] /\ IsMemory(m, Range(uniqueID))
    BY <1>4, <1>5 DEF TypeOK, Edit
  <1>7. /\ IsMemory(n, Range(uniqueID))
        /\ n.id = m.id /\ n.server = m.server /\ n.counters = m.counters
        /\ \A c \in Board : n.list[c] = IF c = b THEN md ELSE m.list[c]
    <2>1. /\ DOMAIN n = DOMAIN m /\ n.id = m.id /\ n.server = m.server
          /\ n.counters = m.counters /\ n.list = [m.list EXCEPT ![b] = md]
      BY <1>6 DEF IsMemory
    <2>2. IsMemory(m, Range(uniqueID))
      BY <1>6
    <2>3. IsMemory(n, Range(uniqueID))
      BY <2>1, <2>2, ListChanged
    <2>4. \A c \in Board : n.list[c] = IF c = b THEN md ELSE m.list[c]
      BY <2>1, <2>2 DEF IsMemory
    <2> QED BY <2>1, <2>3, <2>4
  <1>8. /\ json' = [json EXCEPT ![b][userName[loggedIn[p]]] = Torn]
        /\ doing'[p] = [step |-> "save", board |-> b]
        /\ loggedIn' = loggedIn /\ online' = online /\ carried' = carried
    BY DEF Edit, TypeOK
  <1>9. json' \in [Board -> [Name -> Files]]
    BY <1>1, <1>8 DEF TypeOK, Files
  <1> QED BY <1>1, <1>3, <1>4, <1>5, <1>7, <1>8, <1>9

\* What is saved, and given to the server.
LEMMA SaveFacts ==
    ASSUME TypeOK, LinkInv, NEW p \in Process, Save(p)
    PROVE  /\ doing[p].board \in Board /\ loggedIn[p] \in Account
           /\ userName[loggedIn[p]] \in Name
           /\ memory[p].id \in Range(uniqueID) /\ memory[p].id = uniqueID[loggedIn[p]]
           /\ memory[p].list[doing[p].board] \in MultiSetMetadata
           /\ json' = [json EXCEPT ![doing[p].board][userName[loggedIn[p]]] =
                          [status |-> "saved", id |-> memory[p].id,
                           list |-> memory[p].list[doing[p].board]]]
           /\ json' \in [Board -> [Name -> Files]]
           /\ IsMemory(memory'[p], Range(uniqueID))
           /\ memory'[p].id = memory[p].id /\ memory'[p].list = memory[p].list
           /\ memory'[p].counters = memory[p].counters
           /\ \A c \in Board : memory'[p].server[c] =
                 IF c = doing[p].board
                 THEN MergedLists(memory[p].server[c], memory[p].id, memory[p].list[c])
                 ELSE memory[p].server[c]
           /\ doing'[p] = Show(FALSE)
           /\ loggedIn' = loggedIn /\ online' = online /\ carried' = carried /\ created' = created
  <1>1. doing[p].step = "save" /\ doing[p].board \in Board
    BY DoingFacts DEF Save, TypeOK
  <1>2. loggedIn[p] \in Account /\ userName[loggedIn[p]] \in Name /\ ~InLogin(p) /\ loggedIn[p] # None
    BY <1>1, DoingFacts, BoardAssumption DEF TypeOK, Name, Range, InLogin
  <1>3. memory[p].id = uniqueID[loggedIn[p]] /\ memory[p].id \in Range(uniqueID)
    BY <1>2, IdFacts DEF LinkInv
  <1>4. PICK b : b = doing[p].board
    OBVIOUS
  <1>5. PICK m : m = memory[p]
    OBVIOUS
  <1>6. PICK n : n = memory'[p]
    OBVIOUS
  <1>7. PICK md : md = m.list[b]
    OBVIOUS
  <1>8. PICK i : i = m.id
    OBVIOUS
  <1>9. IsMemory(m, Range(uniqueID)) /\ md \in MultiSetMetadata /\ i \in Range(uniqueID) /\ b \in Board
    BY <1>1, <1>3, <1>4, <1>5, <1>7, <1>8 DEF TypeOK, IsMemory
  <1>10. PICK table : table = MergedLists(m.server[b], i, md)
    OBVIOUS
  <1>11. IsTable(table, Range(uniqueID), MultiSetMetadata)
    <2>1. IsTable(m.server[b], Range(uniqueID), MultiSetMetadata)
      BY <1>9 DEF IsMemory
    <2> QED BY <1>9, <1>10, <2>1, MergedListsFacts
  <1>12. n = [m EXCEPT !.server[b] = table]
    BY <1>4, <1>5, <1>6, <1>7, <1>8, <1>10 DEF Save, TypeOK
  <1>13. /\ IsMemory(n, Range(uniqueID))
         /\ n.id = m.id /\ n.list = m.list /\ n.counters = m.counters
         /\ \A c \in Board : n.server[c] = IF c = b THEN table ELSE m.server[c]
    <2>1. /\ DOMAIN n = DOMAIN m /\ n.id = m.id /\ n.list = m.list
          /\ n.counters = m.counters /\ n.server = [m.server EXCEPT ![b] = table]
      BY <1>9, <1>12 DEF IsMemory
    <2>2. IsMemory(n, Range(uniqueID))
      BY <1>9, <1>11, <2>1, ServerChanged
    <2>3. \A c \in Board : n.server[c] = IF c = b THEN table ELSE m.server[c]
      BY <1>9, <2>1 DEF IsMemory
    <2> QED BY <2>1, <2>2, <2>3
  <1>14. /\ json' = [json EXCEPT ![b][userName[loggedIn[p]]] = [status |-> "saved", id |-> i, list |-> md]]
         /\ doing'[p] = Show(FALSE)
         /\ loggedIn' = loggedIn /\ online' = online /\ carried' = carried /\ created' = created
    BY <1>4, <1>5, <1>7, <1>8 DEF Save, Saved, TypeOK
  <1>15. json' \in [Board -> [Name -> Files]]
    <2>1. [status |-> "saved", id |-> i, list |-> md] \in Files
      BY <1>9 DEF Files
    <2> QED BY <1>2, <1>14, <2>1 DEF TypeOK
  <1>16. \A c \in Board : n.server[c] = IF c = b THEN MergedLists(m.server[c], m.id, m.list[c])
                                        ELSE m.server[c]
    BY <1>7, <1>8, <1>10, <1>13
  <1>17. /\ doing[p].board \in Board /\ loggedIn[p] \in Account /\ userName[loggedIn[p]] \in Name
         /\ memory[p].list[doing[p].board] \in MultiSetMetadata
         /\ json' = [json EXCEPT ![doing[p].board][userName[loggedIn[p]]] =
                          [status |-> "saved", id |-> memory[p].id,
                           list |-> memory[p].list[doing[p].board]]]
    BY <1>1, <1>2, <1>4, <1>5, <1>7, <1>8, <1>9, <1>14
  <1> QED BY <1>3, <1>4, <1>5, <1>6, <1>13, <1>14, <1>15, <1>16, <1>17

\* What is read, and given to the server.
LEMMA ReadFacts ==
    ASSUME TypeOK, NEW p \in Process, ReadFile(p)
    PROVE  /\ json' = json /\ online' = online /\ carried' = carried /\ created' = created
           /\ \/ /\ memory'[p] = NewMemory /\ doing'[p] = Idle /\ loggedIn'[p] = None
              \/ /\ memory'[p] = memory[p] \/ \E b \in Board, n \in Name :
                       /\ json[b][n].status = "saved"
                       /\ json[b][n].id \in Range(uniqueID)
                       /\ json[b][n].list \in MultiSetMetadata
                       /\ memory'[p].id = memory[p].id /\ memory'[p].list = memory[p].list
                       /\ memory'[p].counters = memory[p].counters
                       /\ \A c \in Board : memory'[p].server[c] =
                             IF c = b
                             THEN MergedLists(memory[p].server[c], json[b][n].id, json[b][n].list)
                             ELSE memory[p].server[c]
                 /\ IsMemory(memory'[p], Range(uniqueID))
                 /\ loggedIn' = loggedIn /\ loggedIn[p] # None
                 /\ doing'[p] \in Doings /\ doing'[p] # Idle
                 /\ InLogin(p)' = InLogin(p)
  <1>1. doing[p] \in Doings /\ doing[p].step = "converge"
    BY DEF ReadFile, TypeOK
  <1>2. json' = json /\ online' = online /\ carried' = carried /\ created' = created
    BY DEF ReadFile
  <1>3. loggedIn[p] # None
    BY <1>1, DoingFacts DEF TypeOK
  <1>4. PICK n \in doing[p].left :
           LET b == Boards[doing[p].board]
               read == json[b][n]
           IN  IF read = Torn THEN Gone(p)
              ELSE /\ memory' = IF read = NoFile THEN memory
                                ELSE [memory EXCEPT ![p].server[b] =
                                         MergedLists(@, read.id, read.list)]
                   /\ doing' = [doing EXCEPT ![p] = AfterFile(p, n)]
                   /\ UNCHANGED <<loggedIn, endUser>>
    BY DEF ReadFile
  <1>5. PICK b : b = Boards[doing[p].board]
    OBVIOUS
  <1>6. b \in Board /\ n \in Name
    <2>1. doing[p].board \in DOMAIN Boards /\ doing[p].left \in SUBSET Name
      BY <1>1, DoingFacts
    <2> QED BY <1>5, <2>1 DEF Board, Range
  <1>7. PICK read \in Files : read = json[b][n]
    BY <1>6 DEF TypeOK
  <1>8. CASE read = Torn
    BY <1>2, <1>4, <1>5, <1>7, <1>8 DEF Gone, TypeOK
  <1>9. CASE read # Torn
    <2>1. /\ memory' = IF read = NoFile THEN memory
                       ELSE [memory EXCEPT ![p].server[b] = MergedLists(@, read.id, read.list)]
          /\ doing' = [doing EXCEPT ![p] = AfterFile(p, n)]
          /\ loggedIn' = loggedIn
      BY <1>4, <1>5, <1>7, <1>9
    <2>2. doing'[p] = AfterFile(p, n)
      BY <2>1 DEF TypeOK
    <2>3. /\ doing'[p] \in Doings /\ doing'[p].step \in {"converge", "show"}
          /\ doing'[p].login = doing[p].login
      BY <1>1, <2>2, AfterFileFacts
    <2>4. doing'[p] # Idle /\ InLogin(p)' = InLogin(p)
      BY <1>1, <2>3, DoingFacts DEF InLogin
    <2>5. CASE read = NoFile
      <3>1. memory'[p] = memory[p] /\ IsMemory(memory'[p], Range(uniqueID))
        BY <2>1, <2>5 DEF TypeOK
      <3> QED BY <1>2, <1>3, <2>1, <2>3, <2>4, <3>1
    <2>6. CASE read # NoFile
      <3>1. read.status = "saved" /\ read.id \in Range(uniqueID) /\ read.list \in MultiSetMetadata
        BY <1>9, <2>6 DEF Files
      <3>2. PICK i \in Range(uniqueID), md \in MultiSetMetadata : i = read.id /\ md = read.list
        BY <3>1
      <3>3. PICK m : m = memory[p]
        OBVIOUS
      <3>4. PICK new : new = memory'[p]
        OBVIOUS
      <3>5. IsMemory(m, Range(uniqueID)) /\ IsTable(m.server[b], Range(uniqueID), MultiSetMetadata)
        BY <1>6, <3>3 DEF TypeOK, IsMemory
      <3>6. PICK table : table = MergedLists(m.server[b], i, md)
        OBVIOUS
      <3>7. IsTable(table, Range(uniqueID), MultiSetMetadata)
        BY <3>2, <3>5, <3>6, MergedListsFacts
      <3>8. new = [m EXCEPT !.server[b] = table]
        BY <2>1, <2>6, <3>2, <3>3, <3>4, <3>6 DEF TypeOK
      <3>9. /\ IsMemory(new, Range(uniqueID))
            /\ new.id = m.id /\ new.list = m.list /\ new.counters = m.counters
            /\ \A c \in Board : new.server[c] = IF c = b THEN table ELSE m.server[c]
        <4>1. /\ DOMAIN new = DOMAIN m /\ new.id = m.id /\ new.list = m.list
              /\ new.counters = m.counters /\ new.server = [m.server EXCEPT ![b] = table]
          BY <3>5, <3>8 DEF IsMemory
        <4> QED BY <1>6, <3>5, <3>7, <4>1, ServerChanged
      <3>10. /\ json[b][n].status = "saved"
             /\ json[b][n].id \in Range(uniqueID)
             /\ json[b][n].list \in MultiSetMetadata
             /\ memory'[p].id = memory[p].id /\ memory'[p].list = memory[p].list
             /\ memory'[p].counters = memory[p].counters
             /\ \A c \in Board : memory'[p].server[c] =
                   IF c = b
                   THEN MergedLists(memory[p].server[c], json[b][n].id, json[b][n].list)
                   ELSE memory[p].server[c]
        BY <1>7, <3>1, <3>2, <3>3, <3>4, <3>6, <3>9
      <3> QED BY <1>2, <1>3, <1>6, <2>1, <2>3, <2>4, <3>4, <3>9, <3>10
    <2> QED BY <2>5, <2>6
  <1> QED BY <1>8, <1>9

\* What is shown.
LEMMA UpdateFacts ==
    ASSUME TypeOK, NEW p \in Process, UpdateTable(p)
    PROVE  /\ json' = json /\ online' = online /\ carried' = carried /\ created' = created
           /\ loggedIn' = loggedIn /\ loggedIn[p] \in Account /\ doing'[p] = Idle
           /\ IsMemory(memory'[p], Range(uniqueID))
           /\ memory'[p].id = (IF InLogin(p) THEN uniqueID[loggedIn[p]] ELSE memory[p].id)
           /\ memory'[p].list = memory[p].list /\ memory'[p].server = memory[p].server
           /\ memory'[p].priorities = ShownPriorities(memory[p].priorities, memory[p].server)
           /\ \A b \in Board : Counter!InternalPayload(memory'[p].counters[b])
                                 = HowMany(Tasks(memory[p].server[b])) % Modulus
  <1>1. doing[p].step = "show" /\ doing[p] \in Doings
    BY DEF UpdateTable, TypeOK
  <1>2. loggedIn[p] \in Account
    BY <1>1, DoingFacts DEF TypeOK
  <1>3. InLogin(p) = doing[p].login
    BY <1>1, DoingFacts DEF InLogin
  <1>4. PICK m : m = memory[p]
    OBVIOUS
  <1>5. PICK n : n = memory'[p]
    OBVIOUS
  <1>6. PICK i : i = IF doing[p].login THEN uniqueID[loggedIn[p]] ELSE m.id
    OBVIOUS
  <1>7. PICK counters : counters = [b \in Board |->
              Counted(ClearedCounters(m.counters[b]), m.id, HowMany(Tasks(m.server[b])))]
    OBVIOUS
  <1>8. PICK priorities :
           priorities = ShownPriorities(m.priorities, m.server)
    OBVIOUS
  <1>9. n = [m EXCEPT !.priorities = priorities, !.counters = counters, !.id = i]
    BY <1>4, <1>5, <1>6, <1>7, <1>8 DEF UpdateTable, TypeOK, IsMemory
  <1>10. IsMemory(m, Range(uniqueID))
    BY <1>4 DEF TypeOK
  <1>11. i \in Range(uniqueID) \cup {0} /\ m.id \in Range(uniqueID) \cup {0}
    BY <1>2, <1>6, <1>10, IdFacts DEF IsMemory
  <1>12. PICK ids : ids = Range(uniqueID) \cup {0}
    OBVIOUS
  <1>13. IsFiniteSet(ids) /\ IsFiniteSet(Range(uniqueID))
    BY <1>12, IdFacts, FS_Singleton, FS_Union
  <1>14. ASSUME NEW b \in Board
         PROVE  /\ IsTable(counters[b], ids, Counter!Metadata)
                /\ Counter!InternalPayload(counters[b]) = HowMany(Tasks(m.server[b])) % Modulus
    <2>1. PICK table : table = m.counters[b]
      OBVIOUS
    <2>2. PICK server : server = m.server[b]
      OBVIOUS
    <2>3. IsTable(table, ids, Counter!Metadata) /\ IsTable(server, Range(uniqueID), MultiSetMetadata)
      BY <1>10, <1>12, <2>1, <2>2 DEF IsMemory
    <2>4. PICK number \in Nat : number = HowMany(Tasks(server))
      BY <1>13, <2>3, HowManyFacts
    <2>5. PICK own \in ids : own = m.id
      BY <1>11, <1>12
    <2>6. PICK counted : counted = Counted(ClearedCounters(table), own, number)
      OBVIOUS
    <2>7. IsTable(counted, ids, Counter!Metadata) /\ Counter!InternalPayload(counted) = number % Modulus
      BY <1>13, <2>3, <2>6, CountedFacts
    <2>8. counters[b] = counted
      BY <1>7, <2>1, <2>2, <2>4, <2>5, <2>6
    <2> QED BY <2>2, <2>4, <2>7, <2>8
  <1>15. DOMAIN counters = Board
    BY <1>7
  <1>16. /\ IsMemory(n, Range(uniqueID))
         /\ n.id = i /\ n.list = m.list /\ n.server = m.server /\ n.counters = counters
         /\ n.priorities = priorities
    <2>1. /\ DOMAIN n = DOMAIN m
          /\ n.id = i /\ n.list = m.list /\ n.server = m.server /\ n.counters = counters
          /\ n.priorities = priorities
      BY <1>9, <1>10 DEF IsMemory
    <2>2. /\ n.id \in Range(uniqueID) \cup {0} /\ DOMAIN n.counters = Board
          /\ \A b \in Board : IsTable(n.counters[b], Range(uniqueID) \cup {0}, Counter!Metadata)
      BY <1>11, <1>12, <1>14, <1>15, <2>1
    <2> QED BY <1>10, <2>1, <2>2, ShownChanged
  <1>17. /\ json' = json /\ online' = online /\ carried' = carried /\ created' = created
         /\ loggedIn' = loggedIn /\ doing'[p] = Idle
    BY DEF UpdateTable, TypeOK
  <1> QED BY <1>2, <1>3, <1>4, <1>5, <1>6, <1>8, <1>14, <1>16, <1>17

\* The histories and counters keep their types.
LEMMA HistoryTypes ==
    ASSUME TypeOK, LinkInv, NEW p \in Process, StepOf(p)
    PROVE  /\ edits' \in [Process -> Nat] /\ logins' \in [Process -> Nat]
           /\ created' \in [Board -> Copies]
           /\ overwritten' \in BOOLEAN /\ carried' \in BOOLEAN
  <1> USE DEF TypeOK
  <1>1. CASE \E a \in Uses[p] : Login(p, a)
    <2>1. PICK a \in Uses[p] : Login(p, a)
      BY <1>1
    <2> QED BY <2>1 DEF Login
  <1>2. CASE \E b \in Board, e \in Plans[p] : CreateBoard(p, b, e)
    <2>1. PICK b \in Board, e \in Plans[p] : CreateBoard(p, b, e)
      BY <1>2
    <2>2. e \in Element
      BY BoardAssumption
    <2>3. PICK bag \in Copies : bag = created[b]
      OBVIOUS
    <2>4. OneMore(bag, e) \in Copies
      BY <2>2, OneMoreFacts
    <2>5. created' \in [Board -> Copies]
      BY <2>1, <2>3, <2>4 DEF CreateBoard
    <2> QED BY <2>1, <2>5 DEF CreateBoard, Edit
  <1>3. CASE \E b \in Board, e \in Element : DeleteBoard(p, b, e)
    BY <1>3 DEF DeleteBoard, Edit
  <1>4. CASE Merge(p)
    BY <1>4 DEF Merge
  <1>5. CASE ReadFile(p)
    BY <1>5 DEF ReadFile
  <1>6. CASE Save(p)
    BY <1>6 DEF Save
  <1>7. CASE UpdateTable(p)
    BY <1>7 DEF UpdateTable
  <1>8. CASE Logout(p) \/ SetOnline(p) \/ CloseAddWindow(p)
    BY <1>8 DEF Logout, SetOnline, CloseAddWindow
  <1>9. CASE Close(p) \/ Crash(p)
    BY <1>9 DEF Close, Crash
  <1> QED BY <1>1, <1>2, <1>3, <1>4, <1>5, <1>6, <1>7, <1>8, <1>9 DEF StepOf

\* What an edit makes of a list.
LEMMA EditedLists ==
    ASSUME NEW md \in MultiSetMetadata, NEW e \in Element
    PROVE  /\ InsertCopy(md, e) \in MultiSetMetadata /\ RemoveCopies(md, e) \in MultiSetMetadata
           /\ InsertCopy(md, e).payload = OneMore(md.payload, e)
           /\ RemoveCopies(md, e).payload = md.payload
  <1>1. PICK payload \in Copies, tombstone \in Copies :
           md = [payload |-> payload, tombstone |-> tombstone]
    BY DEF MultiSetMetadata
  <1>2. OneMore(payload, e) \in Copies /\ OneMore(tombstone, e) \in Copies
    BY OneMoreFacts
  <1>3. /\ InsertCopy(md, e) = [payload |-> OneMore(payload, e), tombstone |-> tombstone]
        /\ RemoveCopies(md, e) = [payload |-> payload, tombstone |-> OneMore(tombstone, e)]
    BY <1>1 DEF InsertCopy, RemoveCopies
  <1> QED BY <1>1, <1>2, <1>3 DEF MultiSetMetadata

\* What a process makes of its own state and of the files has its type.
LEMMA OwnTypes ==
    ASSUME TypeOK, LinkInv, NEW p \in Process, StepOf(p)
    PROVE  /\ json' \in [Board -> [Name -> Files]]
           /\ IsMemory(memory'[p], Range(uniqueID))
           /\ doing' \in [Process -> Doings] /\ loggedIn' \in [Process -> Account \cup {None}]
  <1>1. CASE \E a \in Uses[p] : Login(p, a)
    <2>1. PICK a \in Account : Login(p, a)
      BY <1>1, BoardAssumption
    <2> QED BY <2>1, DoingFacts DEF Login, TypeOK
  <1>2. CASE \E b \in Board, e \in Plans[p] : CreateBoard(p, b, e)
    <2>1. PICK b \in Board, e \in Element : CreateBoard(p, b, e)
      BY <1>2, BoardAssumption
    <2>2. PICK md : md = InsertCopy(memory[p].list[b], e)
      OBVIOUS
    <2>3. md \in MultiSetMetadata
      <3>1. memory[p].list[b] \in MultiSetMetadata
        BY DEF TypeOK, IsMemory
      <3> QED BY <2>2, <3>1, EditedLists
    <2>4. OnBoard(p) /\ Edit(p, b, md)
      BY <2>1, <2>2 DEF CreateBoard
    <2>5. json' \in [Board -> [Name -> Files]] /\ IsMemory(memory'[p], Range(uniqueID))
      BY <2>3, <2>4, EditFacts
    <2> QED BY <2>4, <2>5, DoingFacts DEF Edit, TypeOK
  <1>3. CASE \E b \in Board, e \in Element : DeleteBoard(p, b, e)
    <2>1. PICK b \in Board, e \in Element : DeleteBoard(p, b, e)
      BY <1>3
    <2>2. PICK md : md = RemoveCopies(memory[p].list[b], e)
      OBVIOUS
    <2>3. md \in MultiSetMetadata
      <3>1. memory[p].list[b] \in MultiSetMetadata
        BY DEF TypeOK, IsMemory
      <3> QED BY <2>2, <3>1, EditedLists
    <2>4. OnBoard(p) /\ Edit(p, b, md)
      BY <2>1, <2>2 DEF DeleteBoard
    <2>5. json' \in [Board -> [Name -> Files]] /\ IsMemory(memory'[p], Range(uniqueID))
      BY <2>3, <2>4, EditFacts
    <2> QED BY <2>4, <2>5, DoingFacts DEF Edit, TypeOK
  <1>4. CASE Merge(p)
    <2>1. loggedIn[p] \in Account /\ Converge(FALSE) \in Doings
      BY <1>4, DoingFacts DEF Merge, OnBoard, TypeOK
    <2> QED BY <1>4, <2>1 DEF Merge, TypeOK
  <1>5. CASE ReadFile(p)
    <2>1. json' = json /\ IsMemory(memory'[p], Range(uniqueID)) /\ doing'[p] \in Doings
      BY <1>5, ReadFacts, NewMemoryFacts, DoingFacts
    <2>2. \/ doing' = [doing EXCEPT ![p] = Idle]
          \/ \E n \in doing[p].left : doing' = [doing EXCEPT ![p] = AfterFile(p, n)]
      BY <1>5 DEF ReadFile, Gone
    <2>3. doing' \in [Process -> Doings]
      BY <2>1, <2>2 DEF TypeOK
    <2> QED BY <1>5, <2>1, <2>3 DEF ReadFile, Gone, TypeOK
  <1>6. CASE Save(p)
    <2>1. json' \in [Board -> [Name -> Files]] /\ IsMemory(memory'[p], Range(uniqueID))
      BY <1>6, SaveFacts
    <2> QED BY <1>6, <2>1, DoingFacts DEF Save, TypeOK
  <1>7. CASE UpdateTable(p)
    <2>1. json' = json /\ IsMemory(memory'[p], Range(uniqueID))
      BY <1>7, UpdateFacts
    <2> QED BY <1>7, <2>1, DoingFacts DEF UpdateTable, TypeOK
  <1>8. CASE Logout(p) \/ CloseAddWindow(p)
    BY <1>8 DEF Logout, CloseAddWindow, TypeOK
  <1>10. CASE SetOnline(p)
    <2>1. Account # {} /\ Converge(TRUE) \in Doings
      BY <1>10, DoingFacts DEF SetOnline, TypeOK
    <2> QED BY <1>10, <2>1 DEF SetOnline, TypeOK
  <1>9. CASE Close(p) \/ Crash(p)
    <2>1. json' = json /\ memory'[p] = NewMemory
      BY <1>9 DEF Close, Crash, Gone, TypeOK
    <2>2. IsMemory(memory'[p], Range(uniqueID))
      BY <2>1, NewMemoryFacts
    <2> QED BY <1>9, <2>1, <2>2, DoingFacts DEF Close, Crash, Gone, TypeOK
  <1> QED BY <1>1, <1>2, <1>3, <1>4, <1>5, <1>6, <1>7, <1>8, <1>9, <1>10 DEF StepOf

\* Who is on the board is the account that was logged in last, and a process with nobody on
\* the board is idle.
LEMMA UserStep ==
    ASSUME TypeOK, NEW p \in Process, StepOf(p)
    PROVE  /\ online' \subseteq Account
           /\ endUser' \in [Process -> Account \cup {None}]
           /\ loggedIn'[p] = None => doing'[p] = Idle
           /\ loggedIn'[p] # None => endUser'[p] = loggedIn'[p]
  <1>1. CASE \E a \in Uses[p] : Login(p, a)
    <2>1. PICK a \in Account : Login(p, a)
      BY <1>1, BoardAssumption
    <2>2. /\ online' = online /\ loggedIn'[p] = a /\ endUser'[p] = a
          /\ endUser' = [endUser EXCEPT ![p] = a]
      BY <2>1 DEF Login, TypeOK
    <2> QED BY <2>2, BoardAssumption DEF TypeOK
  <1>2. CASE \/ \E b \in Board, e \in Plans[p] : CreateBoard(p, b, e)
             \/ \E b \in Board, e \in Element : DeleteBoard(p, b, e)
             \/ Merge(p)
    <2>1. UNCHANGED <<loggedIn, endUser, online>> /\ loggedIn[p] # None
      BY <1>2 DEF CreateBoard, DeleteBoard, Edit, Merge, OnBoard
    <2> QED BY <2>1 DEF TypeOK
  <1>3. CASE Save(p) \/ UpdateTable(p)
    <2>1. doing[p] # Idle
      BY <1>3, DoingFacts DEF Save, UpdateTable
    <2>2. UNCHANGED <<loggedIn, endUser, online>>
      BY <1>3 DEF Save, UpdateTable
    <2> QED BY <2>1, <2>2 DEF TypeOK
  <1>4. CASE ReadFile(p)
    <2>1. doing[p] # Idle /\ online' = online
      BY <1>4, DoingFacts DEF ReadFile
    <2>2. \/ UNCHANGED <<loggedIn, endUser>>
          \/ /\ loggedIn' = [loggedIn EXCEPT ![p] = None] /\ doing' = [doing EXCEPT ![p] = Idle]
             /\ endUser' = [endUser EXCEPT ![p] = None]
      BY <1>4 DEF ReadFile, Gone
    <2> QED BY <2>1, <2>2 DEF TypeOK
  <1>5. CASE SetOnline(p) \/ CloseAddWindow(p)
    <2>1. loggedIn[p] # None
      BY <1>5, DoingFacts DEF SetOnline, CloseAddWindow, OnBoard, TypeOK
    <2>2. UNCHANGED <<loggedIn, endUser>> /\ online' = online \cup {loggedIn[p]}
      BY <1>5 DEF SetOnline, CloseAddWindow
    <2> QED BY <2>1, <2>2 DEF TypeOK
  <1>6. CASE Logout(p) \/ Close(p) \/ Crash(p)
    <2>1. loggedIn'[p] = None /\ doing'[p] = Idle /\ online' \subseteq online
      BY <1>6 DEF Logout, Close, Crash, Gone, OnBoard, TypeOK
    <2>2. endUser' = endUser \/ endUser' = [endUser EXCEPT ![p] = None]
      BY <1>6 DEF Logout, Close, Crash, Gone
    <2> QED BY <2>1, <2>2 DEF TypeOK
  <1> QED BY <1>1, <1>2, <1>3, <1>4, <1>5, <1>6 DEF StepOf

\* So every step keeps the types.
LEMMA TypeStep ==
    ASSUME TypeOK, LinkInv, NEW p \in Process, StepOf(p)
    PROVE  TypeOK'
  <1>1. /\ uniqueID' = uniqueID /\ DOMAIN memory' = Process
        /\ \A q \in Process \ {p} : /\ memory'[q] = memory[q] /\ doing'[q] = doing[q]
                                    /\ loggedIn'[q] = loggedIn[q]
    BY OthersStay
  <1>2. /\ json' \in [Board -> [Name -> Files]]
        /\ IsMemory(memory'[p], Range(uniqueID))
        /\ doing' \in [Process -> Doings] /\ loggedIn' \in [Process -> Account \cup {None}]
    BY OwnTypes
  <1>3. (json \in [Board -> [Name -> Files]])'
    BY <1>1, <1>2 DEF Files
  <1>4. \A q \in Process : IsMemory(memory'[q], Range(uniqueID'))
    BY <1>1, <1>2 DEF TypeOK
  <1>5. \A q \in Process : /\ loggedIn'[q] = None => doing'[q] = Idle
                           /\ loggedIn'[q] # None => endUser'[q] = loggedIn'[q]
    BY <1>1, UserStep, OthersStay DEF TypeOK
  <1>6. /\ uniqueID' \in Naming /\ online' \subseteq Account
        /\ endUser' \in [Process -> Account \cup {None}]
    BY <1>1, UserStep DEF TypeOK
  <1> QED BY <1>1, <1>2, <1>3, <1>4, <1>5, <1>6, HistoryTypes DEF TypeOK

\* Every step keeps who writes under which id.
LEMMA LinkStep ==
    ASSUME TypeOK, LinkInv, NEW p \in Process, StepOf(p)
    PROVE  LinkInv'
  <1>1. /\ uniqueID' = uniqueID
        /\ \A q \in Process \ {p} : /\ memory'[q] = memory[q] /\ doing'[q] = doing[q]
                                    /\ loggedIn'[q] = loggedIn[q]
    BY OthersStay
  <1>2. carried => carried'
    BY DEF StepOf, Login, CreateBoard, DeleteBoard, Edit, Merge, ReadFile, Save, UpdateTable,
           SetOnline, CloseAddWindow, Logout, Close, Crash
  <1>3. \A q \in Process \ {p} : InLogin(q)' = InLogin(q)
    BY <1>1 DEF InLogin
  <1>4. /\ memory'[p].id = 0 => \A b \in Board : memory'[p].list[b] = NewMultiSet
        /\ loggedIn'[p] # None =>
              \/ memory'[p].id = uniqueID[loggedIn'[p]]
              \/ InLogin(p)' /\ (carried' \/ \A b \in Board : memory'[p].list[b] = NewMultiSet)
    <2>1. CASE \E a \in Uses[p] : Login(p, a)
      <3>1. PICK a \in Account : Login(p, a)
        BY <2>1, BoardAssumption
      <3>2. /\ memory'[p] = memory[p] /\ doing'[p] = LoggingIn /\ loggedIn'[p] = a
            /\ carried' = \/ carried
                          \/ memory[p].id # uniqueID[a]
                             /\ \E b \in Board : memory[p].list[b] # NewMultiSet
        BY <3>1 DEF Login, TypeOK
      <3>3. InLogin(p)'
        BY <3>2, DoingFacts DEF InLogin
      <3> QED BY <3>2, <3>3 DEF LinkInv
    <2>2. CASE \/ \E b \in Board, e \in Plans[p] : CreateBoard(p, b, e)
               \/ \E b \in Board, e \in Element : DeleteBoard(p, b, e)
      <3>1. PICK b \in Board, e \in Element : CreateBoard(p, b, e) \/ DeleteBoard(p, b, e)
        BY <2>2, BoardAssumption
      <3>2. PICK md : md = IF CreateBoard(p, b, e) THEN InsertCopy(memory[p].list[b], e)
                           ELSE RemoveCopies(memory[p].list[b], e)
        OBVIOUS
      <3>3. md \in MultiSetMetadata
        <4>1. memory[p].list[b] \in MultiSetMetadata
          BY DEF TypeOK, IsMemory
        <4> QED BY <3>2, <4>1, EditedLists
      <3>4. OnBoard(p) /\ Edit(p, b, md)
        BY <3>1, <3>2 DEF CreateBoard, DeleteBoard
      <3>5. /\ memory'[p].id = memory[p].id /\ memory[p].id \in Range(uniqueID)
            /\ memory[p].id = uniqueID[loggedIn[p]] /\ loggedIn' = loggedIn
        BY <3>3, <3>4, EditFacts
      <3> QED BY <3>5, IdFacts
    <2>3. CASE Merge(p)
      <3>1. memory' = memory /\ loggedIn' = loggedIn /\ loggedIn[p] # None /\ doing[p] = Idle
        BY <2>3 DEF Merge, OnBoard
      <3>2. ~InLogin(p)
        BY <3>1, DoingFacts DEF InLogin
      <3> QED BY <3>1, <3>2 DEF LinkInv
    <2>4. CASE ReadFile(p)
      <3>1. CASE memory'[p] = NewMemory /\ loggedIn'[p] = None
        BY <3>1, NewMemoryFacts
      <3>2. CASE /\ memory'[p].id = memory[p].id /\ memory'[p].list = memory[p].list
                 /\ loggedIn' = loggedIn /\ InLogin(p)' = InLogin(p)
        BY <1>2, <3>2 DEF LinkInv
      <3> QED BY <2>4, <3>1, <3>2, ReadFacts
    <2>5. CASE Save(p)
      <3>1. /\ memory'[p].id = memory[p].id /\ memory[p].id = uniqueID[loggedIn[p]]
            /\ memory'[p].list = memory[p].list /\ loggedIn' = loggedIn
        BY <2>5, SaveFacts
      <3> QED BY <3>1 DEF LinkInv
    <2>6. CASE UpdateTable(p)
      <3>1. /\ loggedIn' = loggedIn /\ loggedIn[p] \in Account
            /\ memory'[p].id = (IF InLogin(p) THEN uniqueID[loggedIn[p]] ELSE memory[p].id)
            /\ memory'[p].list = memory[p].list
        BY <2>6, UpdateFacts
      <3>2. uniqueID[loggedIn[p]] # 0
        BY <3>1, IdFacts
      <3> QED BY <3>1, <3>2 DEF LinkInv
    <2>7. CASE Logout(p)
      <3>1. memory' = memory /\ loggedIn'[p] = None
        BY <2>7 DEF Logout, TypeOK
      <3> QED BY <3>1 DEF LinkInv
    <2>9. CASE SetOnline(p)
      <3>1. /\ memory' = memory /\ loggedIn' = loggedIn /\ doing[p].step = "login"
            /\ doing'[p] = Converge(TRUE)
        BY <2>9 DEF SetOnline, TypeOK
      <3>2. InLogin(p) /\ InLogin(p)'
        BY <3>1, DoingFacts DEF InLogin, TypeOK
      <3> QED BY <1>2, <3>1, <3>2 DEF LinkInv
    <2>10. CASE CloseAddWindow(p)
      <3>1. memory' = memory /\ loggedIn' = loggedIn /\ doing' = doing
        BY <2>10 DEF CloseAddWindow
      <3> QED BY <1>2, <3>1 DEF LinkInv, InLogin
    <2>8. CASE Close(p) \/ Crash(p)
      <3>1. memory'[p] = NewMemory /\ loggedIn'[p] = None
        BY <2>8 DEF Close, Crash, Gone, TypeOK
      <3> QED BY <3>1, NewMemoryFacts
    <2> QED BY <2>1, <2>2, <2>3, <2>4, <2>5, <2>6, <2>7, <2>8, <2>9, <2>10 DEF StepOf
  <1>5. \A q \in Process :
           /\ memory'[q].id = 0 => \A b \in Board : memory'[q].list[b] = NewMultiSet
           /\ loggedIn'[q] # None =>
                 \/ memory'[q].id = uniqueID'[loggedIn'[q]]
                 \/ InLogin(q)' /\ (carried' \/ \A b \in Board : memory'[q].list[b] = NewMultiSet)
    <2>1. TAKE q \in Process
    <2>2. CASE q = p
      BY <1>1, <1>4, <2>2
    <2>3. CASE q # p
      BY <1>1, <1>2, <1>3, <2>3 DEF LinkInv
    <2> QED BY <2>2, <2>3
  <1> QED BY <1>5 DEF LinkInv

\* The invariant all proofs below build on.
IInv == TypeOK /\ LinkInv

\* It holds when the processes are started,
LEMMA InitialFacts ==
    ASSUME Init
    PROVE  IInv
  <1>1. uniqueID \in Naming
    BY DEF Init
  <1>2. \A p \in Process : IsMemory(memory[p], Range(uniqueID)) /\ memory[p] = NewMemory
    BY NewMemoryFacts DEF Init
  <1>3. NoCopies \in Copies
    BY NoCopiesFacts
  <1>4. TypeOK
    BY <1>1, <1>2, <1>3, DoingFacts DEF Init, TypeOK, Files
  <1>5. LinkInv
    BY <1>2, NewMemoryFacts DEF Init, LinkInv
  <1> QED BY <1>4, <1>5 DEF IInv

\* and after every step.
LEMMA Step ==
    ASSUME IInv, [Next]_vars
    PROVE  IInv'
  <1>1. CASE Next
    <2>1. PICK p \in Process : StepOf(p)
      BY <1>1 DEF Next, StepOf
    <2> QED BY <2>1, TypeStep, LinkStep DEF IInv
  <1>2. CASE UNCHANGED vars
    BY <1>2 DEF vars, IInv, TypeOK, LinkInv, InLogin, Files
  <1> QED BY <1>1, <1>2

\* THEOREM: every variable has its type in every state.
THEOREM TypeCorrect == Spec => []TypeOK
  <1>1. Spec => []IInv
    BY InitialFacts, Step, PTL DEF Spec
  <1> QED BY <1>1, PTL DEF IInv

-----------------------------------------------------------------------------
(* What is shown is what is there *)

\* Whoever is on the board has had it counted: everything else that brings a process there
\* has left its counter and its server alone.
LEMMA CountStep ==
    ASSUME IInv, CountIsShown, NEW p \in Process, StepOf(p)
    PROVE  CountIsShown'
  <1> USE DEF IInv
  <1>1. \A q \in Process \ {p} : /\ memory'[q] = memory[q] /\ doing'[q] = doing[q]
                                 /\ loggedIn'[q] = loggedIn[q]
    BY OthersStay
  <1>2. ASSUME NEW b \in Board, OnBoard(p)'
        PROVE  Counter!InternalPayload(memory'[p].counters[b])
                 = HowMany(Tasks(memory'[p].server[b])) % Modulus
    <2>0. loggedIn'[p] # None /\ doing'[p] = Idle
      BY <1>2 DEF OnBoard
    <2>1. CASE \E a \in Uses[p] : Login(p, a)
      BY <2>0, <2>1, DoingFacts DEF Login, TypeOK
    <2>2. CASE \/ \E c \in Board, e \in Plans[p] : CreateBoard(p, c, e)
               \/ \E c \in Board, e \in Element : DeleteBoard(p, c, e)
      <3>1. PICK c \in Board : doing' = [doing EXCEPT ![p] = [step |-> "save", board |-> c]]
        BY <2>2 DEF CreateBoard, DeleteBoard, Edit
      <3>2. doing'[p].step = "save"
        BY <3>1 DEF TypeOK
      <3> QED BY <2>0, <3>2, DoingFacts
    <2>3. CASE Merge(p) \/ SetOnline(p)
      BY <2>0, <2>3, DoingFacts DEF Merge, SetOnline, TypeOK
    <2>4. CASE ReadFile(p)
      BY <2>0, <2>4, ReadFacts
    <2>5. CASE Save(p)
      BY <2>0, <2>5, SaveFacts, DoingFacts
    <2>6. CASE UpdateTable(p)
      BY <2>6, UpdateFacts
    <2>7. CASE Logout(p) \/ Close(p) \/ Crash(p)
      BY <2>0, <2>7 DEF Logout, Close, Crash, Gone, TypeOK
    <2>8. CASE CloseAddWindow(p)
      BY <2>8, <1>2 DEF CloseAddWindow, OnBoard, CountIsShown
    <2> QED BY <2>1, <2>2, <2>3, <2>4, <2>5, <2>6, <2>7, <2>8 DEF StepOf
  <1>3. ASSUME NEW q \in Process \ {p}, NEW b \in Board, OnBoard(q)'
        PROVE  Counter!InternalPayload(memory'[q].counters[b])
                 = HowMany(Tasks(memory'[q].server[b])) % Modulus
    BY <1>1, <1>3 DEF CountIsShown, OnBoard
  <1> QED BY <1>2, <1>3 DEF CountIsShown

\* THEOREM: the number below a board is that of the tasks on it, whatever ids the counter has
\* had and whatever it had counted before.
THEOREM CountsShown == Spec => []CountIsShown
  <1>1. Init => IInv /\ CountIsShown
    BY InitialFacts DEF Init, CountIsShown, OnBoard
  <1>2. IInv /\ CountIsShown /\ [Next]_vars => IInv' /\ CountIsShown'
    <2> SUFFICES ASSUME IInv, CountIsShown, [Next]_vars PROVE IInv' /\ CountIsShown'
      OBVIOUS
    <2>1. CASE Next
      <3>1. PICK p \in Process : StepOf(p)
        BY <2>1 DEF Next, StepOf
      <3> QED BY <3>1, CountStep, Step
    <2>2. CASE UNCHANGED vars
      BY <2>2, Step DEF vars, CountIsShown, OnBoard
    <2> QED BY <2>1, <2>2
  <1> QED BY <1>1, <1>2, PTL DEF Spec

-----------------------------------------------------------------------------
(* The priority list *)

\* The words of those of some tasks that have a number.
WordsOf(tasks, u) == UNION {words[e] : e \in {t \in tasks : urgency[t] = u}}

\* A list of nothing but these tasks.
Lists(prio, tasks) ==
    /\ DOMAIN prio.list = {urgency[e] : e \in tasks}
    /\ DOMAIN prio.payload = DOMAIN prio.list /\ DOMAIN prio.total = DOMAIN prio.list
    /\ \A u \in DOMAIN prio.list : /\ prio.list[u] \subseteq WordsOf(tasks, u)
                                   /\ prio.payload[u] = WordsOf(tasks, u)
                                   /\ prio.total[u] = WordsOf(tasks, u)

\* What a priority list can be.
Numbered == UNION {[D -> SUBSET UNION Range(words)] : D \in SUBSET Range(urgency)}
PriorityLists == [list : Numbered, payload : Numbered, total : Numbered]

\* A function that is one.
LEMMA NumberedFacts ==
    ASSUME NEW f
    PROVE  f \in Numbered <=> /\ f = [u \in DOMAIN f |-> f[u]]
                              /\ DOMAIN f \subseteq Range(urgency)
                              /\ \A u \in DOMAIN f : f[u] \subseteq UNION Range(words)
  <1>1. ASSUME f \in Numbered
        PROVE  /\ f = [u \in DOMAIN f |-> f[u]] /\ DOMAIN f \subseteq Range(urgency)
               /\ \A u \in DOMAIN f : f[u] \subseteq UNION Range(words)
    <2>1. PICK D \in SUBSET Range(urgency) : f \in [D -> SUBSET UNION Range(words)]
      BY <1>1 DEF Numbered
    <2> QED BY <2>1
  <1>2. ASSUME f = [u \in DOMAIN f |-> f[u]], DOMAIN f \subseteq Range(urgency),
               \A u \in DOMAIN f : f[u] \subseteq UNION Range(words)
        PROVE  f \in Numbered
    <2>1. f \in [DOMAIN f -> SUBSET UNION Range(words)]
      BY <1>2
    <2> QED BY <1>2, <2>1 DEF Numbered
  <1> QED BY <1>1, <1>2

\* One task more.
LEMMA InsertPriorityFacts ==
    ASSUME NEW prio, NEW e \in Element
    PROVE  /\ prio \in PriorityLists => InsertPriority(prio, e) \in PriorityLists
           /\ \A tasks \in SUBSET Element :
                 Lists(prio, tasks) => Lists(InsertPriority(prio, e), tasks \cup {e})
  <1>1. PICK v : v = urgency[e]
    OBVIOUS
  <1>2. PICK list : list = [u \in DOMAIN prio.list \cup {v} |-> IF u = v THEN words[e] ELSE prio.list[u]]
    OBVIOUS
  <1>3. PICK fixed : fixed = [u \in DOMAIN list |->
             IF u \in DOMAIN prio.payload THEN prio.payload[u] \cup list[u] ELSE list[u]]
    OBVIOUS
  <1>4. PICK some : some = JoinedWords(prio.total, list)
    OBVIOUS
  <1>5. PICK total : total = JoinedWords(some, fixed)
    OBVIOUS
  <1>6. InsertPriority(prio, e) = [list |-> list, payload |-> fixed, total |-> total]
    BY <1>1, <1>2, <1>3, <1>4, <1>5 DEF InsertPriority
  <1>7. v \in Range(urgency) /\ words[e] \subseteq UNION Range(words)
    <2>1. DOMAIN urgency = Element /\ DOMAIN words = Element
      BY BoardAssumption
    <2> QED BY <1>1, <2>1 DEF Range
  <1>8. ASSUME prio \in PriorityLists PROVE InsertPriority(prio, e) \in PriorityLists
    <2>1. prio.list \in Numbered /\ prio.payload \in Numbered /\ prio.total \in Numbered
      BY <1>8 DEF PriorityLists
    <2>2. list \in Numbered
      <3>1. ASSUME NEW u \in DOMAIN list PROVE u \in Range(urgency) /\ list[u] \subseteq UNION Range(words)
        BY <1>2, <1>7, <2>1, NumberedFacts
      <3>2. list = [u \in DOMAIN list |-> list[u]]
        BY <1>2
      <3> QED BY <3>1, <3>2, NumberedFacts
    <2>3. fixed \in Numbered
      <3>1. ASSUME NEW u \in DOMAIN fixed PROVE u \in Range(urgency) /\ fixed[u] \subseteq UNION Range(words)
        BY <1>3, <2>1, <2>2, NumberedFacts
      <3>2. fixed = [u \in DOMAIN fixed |-> fixed[u]]
        BY <1>3
      <3> QED BY <3>1, <3>2, NumberedFacts
    <2>4. ASSUME NEW map1 \in Numbered, NEW map2 \in Numbered PROVE JoinedWords(map1, map2) \in Numbered
      <3>1. PICK both : both = JoinedWords(map1, map2)
        OBVIOUS
      <3>2. ASSUME NEW u \in DOMAIN both PROVE u \in Range(urgency) /\ both[u] \subseteq UNION Range(words)
        BY <3>1, NumberedFacts DEF JoinedWords
      <3>3. both = [u \in DOMAIN both |-> both[u]]
        BY <3>1 DEF JoinedWords
      <3> QED BY <3>1, <3>2, <3>3, NumberedFacts
    <2>5. some \in Numbered /\ total \in Numbered
      BY <1>4, <1>5, <2>1, <2>2, <2>3, <2>4
    <2> QED BY <1>6, <2>2, <2>3, <2>5 DEF PriorityLists
  <1>9. ASSUME NEW tasks \in SUBSET Element, Lists(prio, tasks)
        PROVE  Lists(InsertPriority(prio, e), tasks \cup {e})
    <2>1. PICK more : more = tasks \cup {e}
      OBVIOUS
    <2>2. DOMAIN list = {urgency[t] : t \in more} /\ DOMAIN fixed = DOMAIN list
      BY <1>1, <1>2, <1>3, <1>9, <2>1 DEF Lists
    <2>3. DOMAIN total = DOMAIN list
      BY <1>2, <1>4, <1>5, <1>9, <2>2 DEF Lists, JoinedWords
    <2>4. ASSUME NEW u \in DOMAIN list
          PROVE  /\ list[u] \subseteq WordsOf(more, u)
                 /\ fixed[u] = WordsOf(more, u)
                 /\ total[u] = WordsOf(more, u)
      <3>1. WordsOf(more, u) = WordsOf(tasks, u) \cup (IF u = v THEN words[e] ELSE {})
        BY <1>1, <2>1 DEF WordsOf
      <3>2. u \notin DOMAIN prio.list => WordsOf(tasks, u) = {} /\ u = v
        BY <1>2, <1>9 DEF Lists, WordsOf
      <3>3. list[u] = IF u = v THEN words[e] ELSE prio.list[u]
        BY <1>2
      <3>4. list[u] \subseteq WordsOf(more, u)
        BY <1>9, <3>1, <3>2, <3>3 DEF Lists
      <3>5. fixed[u] = WordsOf(more, u)
        <4>1. fixed[u] = IF u \in DOMAIN prio.payload THEN prio.payload[u] \cup list[u] ELSE list[u]
          BY <1>3, <2>2
        <4>2. CASE u \in DOMAIN prio.list
          <5>1. prio.payload[u] = WordsOf(tasks, u) /\ prio.list[u] \subseteq WordsOf(tasks, u)
                /\ u \in DOMAIN prio.payload
            BY <1>9, <4>2 DEF Lists
          <5> QED BY <3>1, <3>3, <4>1, <5>1
        <4>3. CASE u \notin DOMAIN prio.list
          <5>1. u \notin DOMAIN prio.payload
            BY <1>9, <4>3 DEF Lists
          <5> QED BY <3>1, <3>2, <3>3, <4>1, <4>3, <5>1
        <4> QED BY <4>2, <4>3
      <3>6. total[u] = WordsOf(more, u)
        <4>1. some[u] = (IF u \in DOMAIN prio.total THEN prio.total[u] ELSE {}) \cup list[u]
              /\ u \in DOMAIN some
          BY <1>4 DEF JoinedWords
        <4>2. total[u] = some[u] \cup fixed[u]
          BY <1>5, <2>2, <4>1 DEF JoinedWords
        <4>3. (IF u \in DOMAIN prio.total THEN prio.total[u] ELSE {}) \subseteq WordsOf(more, u)
          BY <1>9, <3>1 DEF Lists
        <4> QED BY <3>4, <3>5, <4>1, <4>2, <4>3
      <3> QED BY <3>4, <3>5, <3>6
    <2>5. PICK after : after = InsertPriority(prio, e)
      OBVIOUS
    <2>6. after.list = list /\ after.payload = fixed /\ after.total = total
      BY <1>6, <2>5
    <2>7. Lists(after, more)
      BY <2>2, <2>3, <2>4, <2>6 DEF Lists
    <2> QED BY <2>1, <2>5, <2>7
  <1> QED BY <1>8, <1>9

\* Tasks put on the list one after the other.
Put(prio, seq) == Seqs!FoldLeft(InsertPriority, prio, seq)

\* They are joined to those that are on it.
LEMMA PutFacts ==
    ASSUME NEW prio \in PriorityLists, NEW seq \in Seq(Element)
    PROVE  /\ Put(prio, seq) \in PriorityLists
           /\ \A tasks \in SUBSET Element :
                 Lists(prio, tasks) => Lists(Put(prio, seq), tasks \cup Range(seq))
  <1> DEFINE IsPut(iter) ==
               iter = [s \in SUBSET DOMAIN seq |->
                         IF s = {} THEN prio ELSE InsertPriority(iter[s \ {Max(s)}], seq[Max(s)])]
  <1>1. Put(prio, seq) = (CHOOSE iter : IsPut(iter))[DOMAIN seq]
    BY DEF Put, Seqs!FoldLeft, Seqs!MapThenFoldSet, Seqs!Max, Max
  <1>2. PICK n \in Nat : n = Len(seq) /\ DOMAIN seq = 1 .. n
    BY LenProperties
  <1>3. \A i \in 1 .. n : seq[i] \in Element
    BY <1>2, ElementOfSeq
  <1>4. \E iter : IsPut(iter)
    <2>1. PICK F : F = [i \in 1 .. n |-> [list \in PriorityLists |-> InsertPriority(list, seq[i])]]
      OBVIOUS
    <2>2. F \in [1 .. n -> [PriorityLists -> PriorityLists]]
          /\ \A list \in PriorityLists, i \in 1 .. n : F[i][list] = InsertPriority(list, seq[i])
      BY <1>3, <2>1, InsertPriorityFacts
    <2>3. PICK iter : IsFold(n, PriorityLists, prio, F, iter)
      BY <2>2, FoldExists
    <2>4. ASSUME NEW s \in SUBSET (1 .. n)
          PROVE  iter[s] = IF s = {} THEN prio ELSE InsertPriority(iter[s \ {Max(s)}], seq[Max(s)])
      <3>1. CASE s # {}
        <4>1. IsFiniteSet(s) /\ s \subseteq Int
          <5>1. IsFiniteSet(1 .. n) /\ 1 .. n \subseteq Int
            BY FS_Interval
          <5>2. IsFiniteSet(s)
            BY <5>1, FS_Subset
          <5> QED BY <5>1, <5>2
        <4>2. Max(s) \in 1 .. n
          BY <3>1, <4>1, MaxFacts
        <4>3. iter[s \ {Max(s)}] \in PriorityLists
          BY <2>3 DEF IsFold
        <4>4. iter[s] = F[Max(s)][iter[s \ {Max(s)}]]
          BY <2>3, <3>1 DEF IsFold
        <4> QED BY <2>2, <3>1, <4>2, <4>3, <4>4
      <3> QED BY <2>3, <3>1 DEF IsFold
    <2>5. IsPut(iter)
      BY <1>2, <2>3, <2>4 DEF IsFold
    <2> QED BY <2>5
  <1>5. PICK iter : IsPut(iter) /\ Put(prio, seq) = iter[DOMAIN seq]
    BY <1>1, <1>4
  <1>6. iter[{}] = prio
    BY <1>5
  <1>7. ASSUME NEW i \in 1 .. n PROVE iter[1 .. i] = InsertPriority(iter[1 .. (i - 1)], seq[i])
    <2>1. 1 .. i \in SUBSET (1 .. n) /\ 1 .. i # {} /\ Max(1 .. i) = i
          /\ iter[(1 .. i) \ {i}] = iter[1 .. (i - 1)]
      BY FoldSteps
    <2> QED BY <1>2, <1>5, <2>1
  <1> HIDE DEF IsPut
  <1> DEFINE upto(i) == {seq[j] : j \in 1 .. i}
             Good == {i \in 0 .. n :
                        /\ iter[1 .. i] \in PriorityLists
                        /\ \A tasks \in SUBSET Element :
                              Lists(prio, tasks) => Lists(iter[1 .. i], tasks \cup upto(i))}
  <1>8. 0 \in Good
    <2>1. 1 .. 0 = {} /\ upto(0) = {} /\ 0 \in 0 .. n
      OBVIOUS
    <2>2. \A tasks \in SUBSET Element : tasks \cup upto(0) = tasks
      BY <2>1
    <2> QED BY <1>6, <2>1, <2>2
  <1>9. ASSUME NEW i \in 1 .. n, i - 1 \in Good PROVE i \in Good
    <2>1. PICK before, e : before = iter[1 .. (i - 1)] /\ e = seq[i]
      OBVIOUS
    <2>2. e \in Element /\ before \in PriorityLists /\ iter[1 .. i] = InsertPriority(before, e)
      BY <1>3, <1>7, <1>9, <2>1
    <2>3. upto(i) = upto(i - 1) \cup {e} /\ upto(i - 1) \in SUBSET Element
      <3>1. 1 .. i = (1 .. i - 1) \cup {i}
        OBVIOUS
      <3>2. \A j \in 1 .. i : j \in 1 .. n
        OBVIOUS
      <3> QED BY <1>3, <2>1, <3>1, <3>2
    <2>4. ASSUME NEW tasks \in SUBSET Element, Lists(prio, tasks)
          PROVE  Lists(iter[1 .. i], tasks \cup upto(i))
      <3>1. Lists(before, tasks \cup upto(i - 1))
        BY <1>9, <2>1, <2>4
      <3>2. Lists(iter[1 .. i], (tasks \cup upto(i - 1)) \cup {e})
        BY <2>2, <2>3, <3>1, InsertPriorityFacts
      <3> QED BY <2>3, <3>2
    <2>5. iter[1 .. i] \in PriorityLists
      BY <2>2, InsertPriorityFacts
    <2> QED BY <2>4, <2>5
  <1>10. n \in Good
    <2>1. n \in 0 .. n
      OBVIOUS
    <2> HIDE DEF Good
    <2> QED BY <1>8, <1>9, <2>1, UpToInduction
  <1>11. upto(n) = Range(seq)
    BY <1>2 DEF Range
  <1> HIDE DEF upto
  <1> QED BY <1>2, <1>5, <1>10, <1>11

\* The tasks of a board are in their order, each once.
LEMMA ShownInOrderFacts ==
    ASSUME NEW table
    PROVE  /\ ShownInOrder(table) \in Seq(Element)
           /\ Range(ShownInOrder(table)) = {e \in Element : Tasks(table)[e] > 0}
  <1>1. PICK shown \in SUBSET Element : shown = {e \in Element : Tasks(table)[e] > 0}
    OBVIOUS
  <1>2. PICK n \in Nat : n = Cardinality(shown)
    BY ElementAssumption, FS_Subset, FS_CardinalityType
  <1> DEFINE smaller(e) == {d \in shown : d < e}
             place == [e \in shown |-> Cardinality(smaller(e)) + 1]
             at(k) == CHOOSE e \in shown : Cardinality(smaller(e)) = k - 1
  <1>3. IsFiniteSet(shown)
    BY ElementAssumption, FS_Subset
  <1>4. ASSUME NEW e \in shown PROVE Cardinality(smaller(e)) \in Nat /\ Cardinality(smaller(e)) + 1 \in 1 .. n
    <2>1. IsFiniteSet(smaller(e)) /\ Cardinality(smaller(e)) <= n
          /\ (Cardinality(smaller(e)) = n => smaller(e) = shown)
      <3>1. smaller(e) \in SUBSET shown
        OBVIOUS
      <3> HIDE DEF smaller
      <3> QED BY <1>2, <1>3, <3>1, FS_Subset
    <2>2. e \notin smaller(e)
      BY ElementAssumption
    <2>3. Cardinality(smaller(e)) \in Nat
      BY <2>1, FS_CardinalityType
    <2> HIDE DEF smaller
    <2> QED BY <2>1, <2>2, <2>3
  <1>5. ASSUME NEW d \in shown, NEW e \in shown, d < e
        PROVE  Cardinality(smaller(d)) < Cardinality(smaller(e))
    <2>1. smaller(d) \in SUBSET smaller(e) /\ d \in smaller(e) /\ d \notin smaller(d)
          /\ smaller(e) \in SUBSET shown
      <3>1. \A x \in shown : x \in Int
        BY ElementAssumption
      <3>2. \A x \in shown : x < d => x < e
        BY <1>5, <3>1
      <3>3. ~(d < d)
        BY <3>1
      <3> QED BY <1>5, <3>2, <3>3
    <2> HIDE DEF smaller
    <2>2. IsFiniteSet(smaller(e))
      BY <1>3, <2>1, FS_Subset
    <2>3. Cardinality(smaller(d)) <= Cardinality(smaller(e))
          /\ Cardinality(smaller(d)) # Cardinality(smaller(e))
      BY <2>1, <2>2, FS_Subset
    <2> QED BY <1>4, <2>3
  <1>6. place \in Surjection(shown, 1 .. n)
    <2>1. place \in [shown -> 1 .. n]
      BY <1>4
    <2>2. ASSUME NEW d \in shown, NEW e \in shown, place[d] = place[e] PROVE d = e
      <3>1. d \in Int /\ e \in Int
        BY ElementAssumption
      <3>2. Cardinality(smaller(d)) = Cardinality(smaller(e))
        <4>1. Cardinality(smaller(d)) \in Nat /\ Cardinality(smaller(e)) \in Nat
          BY <1>4
        <4>2. Cardinality(smaller(d)) + 1 = Cardinality(smaller(e)) + 1
          BY <2>2
        <4> HIDE DEF smaller
        <4> QED BY <4>1, <4>2
      <3>3. ~(d < e) /\ ~(e < d)
        <4>1. Cardinality(smaller(d)) \in Nat /\ Cardinality(smaller(e)) \in Nat
          BY <1>4
        <4> HIDE DEF smaller, place
        <4> QED BY <1>5, <3>2, <4>1
      <3> QED BY <3>1, <3>3
    <2>3. place \in Injection(shown, 1 .. n)
      <3> HIDE DEF place
      <3> QED BY <2>1, <2>2 DEF Injection, IsInjective
    <2>4. IsFiniteSet(1 .. n) /\ Cardinality(1 .. n) = n
      BY FS_Interval
    <2> HIDE DEF place
    <2> QED BY <1>2, <2>3, <2>4, FS_Injection
  <1>7. ASSUME NEW k \in 1 .. n PROVE at(k) \in shown /\ Cardinality(smaller(at(k))) = k - 1
    <2>1. PICK e \in shown : place[e] = k
      <3> HIDE DEF place
      <3> QED BY <1>6 DEF Surjection
    <2>2. Cardinality(smaller(e)) = k - 1
      <3>1. Cardinality(smaller(e)) \in Nat /\ Cardinality(smaller(e)) + 1 = k
        BY <1>4, <2>1
      <3> HIDE DEF smaller
      <3> QED BY <3>1
    <2> HIDE DEF smaller
    <2> QED BY <2>2
  <1>8. ShownInOrder(table) = [k \in 1 .. n |-> at(k)]
    BY <1>1, <1>2 DEF ShownInOrder
  <1>9. ASSUME NEW e \in shown PROVE \E k \in 1 .. n : at(k) = e
    <2>1. PICK k \in 1 .. n : k = Cardinality(smaller(e)) + 1
      BY <1>4
    <2>2. at(k) \in shown /\ Cardinality(smaller(at(k))) = k - 1
      BY <1>7
    <2>3. PICK d \in shown : d = at(k)
      BY <2>2
    <2>4. Cardinality(smaller(d)) = Cardinality(smaller(e)) /\ Cardinality(smaller(d)) \in Nat
      <3>1. Cardinality(smaller(d)) = k - 1 /\ Cardinality(smaller(e)) \in Nat
            /\ Cardinality(smaller(d)) \in Nat
        BY <1>4, <2>2, <2>3
      <3> HIDE DEF smaller, at
      <3> QED BY <2>1, <3>1
    <2>5. d \in Int /\ e \in Int
      BY ElementAssumption
    <2>6. d = e
      <3> HIDE DEF smaller, at
      <3> QED BY <1>5, <2>4, <2>5
    <2> QED BY <2>3, <2>6
  <1>10. \A k \in 1 .. n : at(k) \in shown
    BY <1>7
  <1> HIDE DEF at
  <1>11. ShownInOrder(table) \in Seq(Element) /\ DOMAIN ShownInOrder(table) = 1 .. n
    BY <1>8, <1>10
  <1>12. Range(ShownInOrder(table)) = shown
    BY <1>8, <1>9, <1>10 DEF Range
  <1> QED BY <1>1, <1>11, <1>12

\* The priority list of the tasks of some boards is that of all that any of them shows.
LEMMA ShownPrioritiesFacts ==
    ASSUME NEW prio, NEW server
    PROVE  Lists(ShownPriorities(prio, server),
                 {e \in Element : \E b \in Board : Tasks(server[b])[e] > 0})
  <1> DEFINE of(i) == ShownInOrder(server[Boards[i]])
             IsPut(iter) ==
               iter = [s \in SUBSET DOMAIN Boards |->
                         IF s = {} THEN NewPriorities
                         ELSE Put(iter[s \ {Max(s)}], of(Max(s)))]
  <1>1. ShownPriorities(prio, server) = (CHOOSE iter : IsPut(iter))[DOMAIN Boards]
    BY DEF ShownPriorities, ClearedPriorities, Put, Seqs!FoldLeft, Seqs!MapThenFoldSet, Seqs!Max, Max
  <1>2. PICK n \in Nat : n = Len(Boards) /\ DOMAIN Boards = 1 .. n
    BY BoardAssumption, LenProperties
  <1>3. \A i \in 1 .. n : of(i) \in Seq(Element)
    BY ShownInOrderFacts
  <1>4. NewPriorities \in PriorityLists /\ Lists(NewPriorities, {})
    <2>1. <<>> \in Numbered
      <3>1. DOMAIN <<>> = {} /\ <<>> = [u \in DOMAIN <<>> |-> <<>>[u]]
        OBVIOUS
      <3> QED BY <3>1, NumberedFacts
    <2> QED BY <2>1 DEF NewPriorities, PriorityLists, Lists
  <1>5. \E iter : IsPut(iter)
    <2>1. PICK F : F = [i \in 1 .. n |-> [list \in PriorityLists |-> Put(list, of(i))]]
      OBVIOUS
    <2>2. F \in [1 .. n -> [PriorityLists -> PriorityLists]]
          /\ \A list \in PriorityLists, i \in 1 .. n : F[i][list] = Put(list, of(i))
      <3> HIDE DEF of
      <3> QED BY <1>3, <2>1, PutFacts
    <2>3. PICK iter : IsFold(n, PriorityLists, NewPriorities, F, iter)
      BY <1>4, <2>2, FoldExists
    <2>4. ASSUME NEW s \in SUBSET (1 .. n)
          PROVE  iter[s] = IF s = {} THEN NewPriorities ELSE Put(iter[s \ {Max(s)}], of(Max(s)))
      <3> HIDE DEF of
      <3>1. CASE s # {}
        <4>1. IsFiniteSet(s) /\ s \subseteq Int
          <5>1. IsFiniteSet(1 .. n) /\ 1 .. n \subseteq Int
            BY FS_Interval
          <5>2. IsFiniteSet(s)
            BY <5>1, FS_Subset
          <5> QED BY <5>1, <5>2
        <4>2. Max(s) \in 1 .. n
          BY <3>1, <4>1, MaxFacts
        <4>3. iter[s \ {Max(s)}] \in PriorityLists
          BY <2>3 DEF IsFold
        <4>4. iter[s] = F[Max(s)][iter[s \ {Max(s)}]]
          BY <2>3, <3>1 DEF IsFold
        <4> QED BY <2>2, <3>1, <4>2, <4>3, <4>4
      <3> QED BY <2>3, <3>1 DEF IsFold
    <2>5. IsPut(iter)
      <3> HIDE DEF of
      <3> QED BY <1>2, <2>3, <2>4 DEF IsFold
    <2> QED BY <2>5
  <1>6. PICK iter : IsPut(iter) /\ ShownPriorities(prio, server) = iter[DOMAIN Boards]
    BY <1>1, <1>5
  <1>7. iter[{}] = NewPriorities
    BY <1>6
  <1>8. ASSUME NEW i \in 1 .. n PROVE iter[1 .. i] = Put(iter[1 .. (i - 1)], of(i))
    <2>1. 1 .. i \in SUBSET (1 .. n) /\ 1 .. i # {} /\ Max(1 .. i) = i
          /\ iter[(1 .. i) \ {i}] = iter[1 .. (i - 1)]
      BY FoldSteps
    <2> HIDE DEF of
    <2> QED BY <1>2, <1>6, <2>1
  <1> HIDE DEF IsPut
  <1> DEFINE upto(i) == {e \in Element : \E j \in 1 .. i : Tasks(server[Boards[j]])[e] > 0}
             Good == {i \in 0 .. n : iter[1 .. i] \in PriorityLists /\ Lists(iter[1 .. i], upto(i))}
  <1>9. 0 \in Good
    <2>1. 1 .. 0 = {} /\ upto(0) = {} /\ 0 \in 0 .. n
      OBVIOUS
    <2> QED BY <1>4, <1>7, <2>1
  <1>10. ASSUME NEW i \in 1 .. n, i - 1 \in Good PROVE i \in Good
    <2>1. PICK before, seq : before = iter[1 .. (i - 1)] /\ seq = of(i)
      OBVIOUS
    <2>2. seq \in Seq(Element) /\ before \in PriorityLists /\ iter[1 .. i] = Put(before, seq)
      BY <1>3, <1>8, <1>10, <2>1
    <2>3. upto(i) = upto(i - 1) \cup Range(seq) /\ upto(i - 1) \in SUBSET Element
      <3>1. 1 .. i = (1 .. i - 1) \cup {i}
        OBVIOUS
      <3>2. Range(seq) = {e \in Element : Tasks(server[Boards[i]])[e] > 0}
        BY <2>1, ShownInOrderFacts
      <3> QED BY <3>1, <3>2
    <2>4. Lists(iter[1 .. i], upto(i)) /\ iter[1 .. i] \in PriorityLists
      <3>1. Lists(before, upto(i - 1))
        BY <1>10, <2>1
      <3> HIDE DEF upto
      <3> QED BY <2>2, <2>3, <3>1, PutFacts
    <2> QED BY <2>4
  <1>11. n \in Good
    <2>1. n \in 0 .. n
      OBVIOUS
    <2> HIDE DEF Good
    <2> QED BY <1>9, <1>10, <2>1, UpToInduction
  <1>12. upto(n) = {e \in Element : \E b \in Board : Tasks(server[b])[e] > 0}
    BY <1>2 DEF Board, Range
  <1>13. Lists(iter[1 .. n], upto(n))
    BY <1>11
  <1> HIDE DEF upto
  <1> QED BY <1>2, <1>6, <1>12, <1>13

\* The tasks a process shows on any of its boards,
ShownBy(p) == {e \in Element : \E b \in Board : Tasks(memory[p].server[b])[e] > 0}

\* and its priority list, which is of them: what is in the list that is overwritten is also in
\* the one that is joined.
PriorityInv == \A p \in Process : OnBoard(p) => Lists(memory[p].priorities, ShownBy(p))

\* Whoever is on the board has been shown it: his list is the one made then, of the servers he
\* still has.
LEMMA PriorityStep ==
    ASSUME IInv, PriorityInv, NEW p \in Process, StepOf(p)
    PROVE  PriorityInv'
  <1> USE DEF IInv
  <1>1. \A q \in Process \ {p} : /\ memory'[q] = memory[q] /\ doing'[q] = doing[q]
                                 /\ loggedIn'[q] = loggedIn[q]
    BY OthersStay
  <1>2. ASSUME OnBoard(p)' PROVE Lists(memory'[p].priorities, ShownBy(p)')
    <2>0. loggedIn'[p] # None /\ doing'[p] = Idle
      BY <1>2 DEF OnBoard
    <2>1. CASE \E a \in Uses[p] : Login(p, a)
      BY <2>0, <2>1, DoingFacts DEF Login, TypeOK
    <2>2. CASE \/ \E c \in Board, e \in Plans[p] : CreateBoard(p, c, e)
               \/ \E c \in Board, e \in Element : DeleteBoard(p, c, e)
      <3>1. PICK c \in Board : doing' = [doing EXCEPT ![p] = [step |-> "save", board |-> c]]
        BY <2>2 DEF CreateBoard, DeleteBoard, Edit
      <3>2. doing'[p].step = "save"
        BY <3>1 DEF TypeOK
      <3> QED BY <2>0, <3>2, DoingFacts
    <2>3. CASE Merge(p) \/ SetOnline(p)
      BY <2>0, <2>3, DoingFacts DEF Merge, SetOnline, TypeOK
    <2>4. CASE ReadFile(p)
      BY <2>0, <2>4, ReadFacts
    <2>5. CASE Save(p)
      BY <2>0, <2>5, SaveFacts, DoingFacts
    <2>6. CASE UpdateTable(p)
      <3>1. PICK prio, server : prio = memory[p].priorities /\ server = memory[p].server
        OBVIOUS
      <3>2. memory'[p].priorities = ShownPriorities(prio, server) /\ memory'[p].server = server
        BY <2>6, <3>1, UpdateFacts
      <3>3. Lists(ShownPriorities(prio, server),
                  {e \in Element : \E b \in Board : Tasks(server[b])[e] > 0})
        BY ShownPrioritiesFacts
      <3> QED BY <3>2, <3>3 DEF ShownBy
    <2>7. CASE Logout(p) \/ Close(p) \/ Crash(p)
      BY <2>0, <2>7 DEF Logout, Close, Crash, Gone, TypeOK
    <2>8. CASE CloseAddWindow(p)
      BY <2>8, <1>2 DEF CloseAddWindow, OnBoard, PriorityInv, ShownBy
    <2> QED BY <2>1, <2>2, <2>3, <2>4, <2>5, <2>6, <2>7, <2>8 DEF StepOf
  <1>3. ASSUME NEW q \in Process \ {p}, OnBoard(q)'
        PROVE  Lists(memory'[q].priorities, ShownBy(q)')
    <2>1. Lists(memory[q].priorities, ShownBy(q))
      BY <1>1, <1>3 DEF PriorityInv, OnBoard
    <2> QED BY <1>1, <2>1 DEF ShownBy
  <1> QED BY <1>2, <1>3 DEF PriorityInv

\* THEOREM: the priority list has, per number, the words of all tasks on all boards that begin
\* with it, and of no others.
THEOREM PrioritiesShown == Spec => []PriorityOfShown
  <1>1. Init => IInv /\ PriorityInv
    BY InitialFacts DEF Init, PriorityInv, OnBoard
  <1>2. IInv /\ PriorityInv /\ [Next]_vars => IInv' /\ PriorityInv'
    <2> SUFFICES ASSUME IInv, PriorityInv, [Next]_vars PROVE IInv' /\ PriorityInv'
      OBVIOUS
    <2>1. CASE Next
      <3>1. PICK p \in Process : StepOf(p)
        BY <2>1 DEF Next, StepOf
      <3> QED BY <3>1, PriorityStep, Step
    <2>2. CASE UNCHANGED vars
      BY <2>2, Step DEF vars, PriorityInv, OnBoard, ShownBy
    <2> QED BY <2>1, <2>2
  <1>3. PriorityInv => PriorityOfShown
    BY DEF PriorityInv, PriorityOfShown, ShownBy, Lists, WordsOf
  <1> QED BY <1>1, <1>2, <1>3, PTL DEF Spec

-----------------------------------------------------------------------------
(* What was deleted *)

\* A tombstone of a server is there after it was given a list,
LEMMA HiddenAfterMerge ==
    ASSUME NEW ids, IsFiniteSet(ids), NEW table, IsTable(table, ids, MultiSetMetadata),
           NEW i \in ids, NEW md \in MultiSetMetadata, NEW e \in Element,
           CachedMultiSet(table).tombstone[e] > 0
    PROVE  Tasks(MergedLists(table, i, md))[e] = 0
  <1>1. PICK merged : merged = MergedLists(table, i, md)
    OBVIOUS
  <1>2. IsTable(merged, ids, MultiSetMetadata)
    BY <1>1, MergedListsFacts
  <1>3. DOMAIN merged = DOMAIN table \cup {i}
    BY <1>1 DEF MergedLists
  <1>4. PICK j \in DOMAIN table : table[j].tombstone[e] > 0
    BY TasksFacts
  <1>5. table[j].tombstone[e] <= merged[j].tombstone[e]
    BY <1>1, <1>4, MergedListsFacts
  <1>6. table[j].tombstone[e] \in Nat /\ merged[j].tombstone[e] \in Nat
    <2>1. table[j] \in MultiSetMetadata /\ merged[j] \in MultiSetMetadata
      BY <1>2, <1>4, <1>3 DEF IsTable
    <2> QED BY <2>1, ListFacts
  <1>7. j \in DOMAIN merged /\ merged[j].tombstone[e] > 0
    BY <1>4, <1>6, <1>5, <1>3
  <1> QED BY <1>1, <1>2, <1>7, TasksFacts

\* and a new server shows nothing.
LEMMA NothingShown ==
    ASSUME NEW table, DOMAIN table = {}, NEW e \in Element
    PROVE  Tasks(table)[e] = 0
  <1>1. PICK fun : fun = [i \in DOMAIN table |-> table[i].payload[e]]
    OBVIOUS
  <1>2. SumFunction(fun) = 0
    <2>1. DOMAIN fun = {} /\ IsFiniteSet(DOMAIN fun)
      BY <1>1, FS_EmptySet
    <2> QED BY <2>1, SumOfZeros DEF SumFunction
  <1>3. CachedMultiSet(table).payload[e] = 0
    BY <1>1, <1>2 DEF CachedMultiSet, AllCopies
  <1> QED BY <1>3 DEF Tasks, QueryMultiset

\* Whatever a process does to a server, what was deleted on it stays hidden.
LEMMA HiddenStep ==
    ASSUME IInv, NEW p \in Process, StepOf(p), NEW q \in Process, NEW b \in Board,
           NEW e \in Element, CachedMultiSet(memory[q].server[b]).tombstone[e] > 0
    PROVE  Tasks(memory'[q].server[b])[e] = 0
  <1> USE DEF IInv
  <1>1. PICK ids : ids = Range(uniqueID)
    OBVIOUS
  <1>2. PICK table : table = memory[q].server[b]
    OBVIOUS
  <1>3. IsFiniteSet(ids) /\ IsTable(table, ids, MultiSetMetadata)
    BY <1>1, <1>2, IdFacts DEF TypeOK, IsMemory
  <1>4. CachedMultiSet(table).tombstone[e] > 0
    BY <1>2
  <1>5. Tasks(table)[e] = 0
    BY <1>3, <1>4, TasksFacts
  <1>6. CASE memory'[q].server[b] = memory[q].server[b]
    BY <1>2, <1>5, <1>6
  <1>7. ASSUME NEW i \in ids, NEW md \in MultiSetMetadata,
               memory'[q].server[b] = MergedLists(table, i, md)
        PROVE  Tasks(memory'[q].server[b])[e] = 0
    BY <1>3, <1>4, <1>7, HiddenAfterMerge
  <1>8. CASE memory'[q] = NewMemory
    <2>1. PICK new : new = memory'[q].server[b]
      OBVIOUS
    <2>2. DOMAIN new = {}
      BY <1>8, <2>1, NewMemoryFacts
    <2> QED BY <2>1, <2>2, NothingShown
  <1>9. CASE q # p
    BY <1>6, <1>9, OthersStay
  <1>10. CASE q = p
    <2>1. CASE \E a \in Uses[p] : Login(p, a)
      BY <1>6, <2>1 DEF Login
    <2>2. CASE \/ \E c \in Board, f \in Plans[p] : CreateBoard(p, c, f)
               \/ \E c \in Board, f \in Element : DeleteBoard(p, c, f)
      <3>1. PICK c \in Board : \E list : memory' = [memory EXCEPT ![p].list[c] = list]
        BY <2>2 DEF CreateBoard, DeleteBoard, Edit
      <3>2. memory'[p].server[b] = memory[p].server[b]
        BY <3>1 DEF TypeOK, IsMemory
      <3> QED BY <1>6, <1>10, <3>2
    <2>3. CASE Merge(p) \/ Logout(p) \/ SetOnline(p) \/ CloseAddWindow(p)
      BY <1>6, <2>3 DEF Merge, Logout, SetOnline, CloseAddWindow
    <2>4. CASE ReadFile(p)
      <3>1. CASE memory'[p] = NewMemory
        BY <1>8, <1>10, <3>1
      <3>2. CASE memory'[p] = memory[p]
        BY <1>6, <1>10, <3>2
      <3>3. CASE \E c \in Board, n \in Name :
                   /\ json[c][n].id \in Range(uniqueID)
                   /\ json[c][n].list \in MultiSetMetadata
                   /\ \A d \in Board : memory'[p].server[d] =
                         IF d = c
                         THEN MergedLists(memory[p].server[d], json[c][n].id, json[c][n].list)
                         ELSE memory[p].server[d]
        <4>1. PICK c \in Board, n \in Name :
                   /\ json[c][n].id \in Range(uniqueID)
                   /\ json[c][n].list \in MultiSetMetadata
                   /\ \A d \in Board : memory'[p].server[d] =
                         IF d = c
                         THEN MergedLists(memory[p].server[d], json[c][n].id, json[c][n].list)
                         ELSE memory[p].server[d]
          BY <3>3
        <4>2. CASE b = c
          BY <1>1, <1>2, <1>7, <1>10, <4>1, <4>2
        <4>3. CASE b # c
          BY <1>6, <1>10, <4>1, <4>3
        <4> QED BY <4>2, <4>3
      <3> QED BY <2>4, <3>1, <3>2, <3>3, ReadFacts
    <2>5. CASE Save(p)
      <3>1. PICK i \in ids, md \in MultiSetMetadata :
               i = memory[p].id /\ md = memory[p].list[b]
        <4>1. memory[p].id \in ids
          BY <1>1, <2>5, SaveFacts
        <4>2. memory[p].list[b] \in MultiSetMetadata
          BY DEF TypeOK, IsMemory
        <4> QED BY <4>1, <4>2
      <3>2. memory'[p].server[b] = table \/ memory'[p].server[b] = MergedLists(table, i, md)
        BY <1>2, <1>10, <2>5, <3>1, SaveFacts
      <3> QED BY <1>2, <1>6, <1>7, <1>10, <3>2
    <2>6. CASE UpdateTable(p)
      BY <1>6, <1>10, <2>6, UpdateFacts
    <2>7. CASE Close(p) \/ Crash(p)
      BY <1>8, <1>10, <2>7 DEF Close, Crash, Gone, TypeOK
    <2> QED BY <2>1, <2>2, <2>3, <2>4, <2>5, <2>6, <2>7 DEF StepOf
  <1> QED BY <1>9, <1>10

\* THEOREM: a task that a process has seen deleted is not shown by it again, whatever files
\* it reads and whichever users log in.
THEOREM DeletedHidden == Spec => DeletedStaysHidden
  <1>1. Spec => []IInv
    BY InitialFacts, Step, PTL DEF Spec
  <1>2. IInv /\ [Next]_vars =>
           [\A p \in Process, b \in Board :
               LET before == CachedMultiSet(memory[p].server[b]).tombstone
               IN  \A e \in Element :
                       before[e] > 0 => Tasks(memory'[p].server[b])[e] = 0]_vars
    <2> SUFFICES ASSUME IInv, Next, NEW q \in Process, NEW b \in Board, NEW e \in Element,
                        CachedMultiSet(memory[q].server[b]).tombstone[e] > 0
                 PROVE  Tasks(memory'[q].server[b])[e] = 0
      OBVIOUS
    <2>1. PICK p \in Process : StepOf(p)
      BY DEF Next, StepOf
    <2> QED BY <2>1, HiddenStep
  <1> QED BY <1>1, <1>2, PTL DEF Spec, DeletedStaysHidden

-----------------------------------------------------------------------------
(* How often a task is shown *)

\* Nobody has more copies of a task from a user, in memory
MemoryBounded(m, b, e, most) ==
    /\ m.id # 0 => m.list[b].payload[e] <= most[m.id]
    /\ \A i \in DOMAIN m.server[b] : m.server[b][i].payload[e] <= most[i]

\* or in a file,
FileBounded(file, e, most) ==
    file.status = "saved" => file.list.payload[e] <= most[file.id]

\* than that user is said to have created, and together they created no more than were.
Bounded(b, e, most) ==
    /\ \A p \in Process : MemoryBounded(memory[p], b, e, most)
    /\ \A n \in Name : FileBounded(json[b][n], e, most)
    /\ SumFunction(most) <= created[b][e]

MostInv ==
    ~carried => \A b \in Board, e \in Element :
        \E most \in [Range(uniqueID) -> Nat] : Bounded(b, e, most)

\* It is what a server needs to show no task twice.
LEMMA BoundedShown ==
    ASSUME IInv, NEW b \in Board, NEW e \in Element, NEW most \in [Range(uniqueID) -> Nat],
           Bounded(b, e, most), NEW p \in Process
    PROVE  Tasks(memory[p].server[b])[e] <= created[b][e]
  <1>1. PICK ids : ids = Range(uniqueID)
    OBVIOUS
  <1>2. PICK table : table = memory[p].server[b]
    OBVIOUS
  <1>3. IsFiniteSet(ids) /\ IsTable(table, ids, MultiSetMetadata)
    BY <1>1, <1>2, IdFacts DEF IInv, TypeOK, IsMemory
  <1>4. IsFiniteSet(DOMAIN most) /\ DOMAIN table \subseteq DOMAIN most
    BY <1>1, <1>3 DEF IsTable
  <1>5. \A i \in DOMAIN most : most[i] \in Nat
    OBVIOUS
  <1>6. \A i \in DOMAIN table : table[i].payload[e] <= most[i]
    BY <1>2 DEF Bounded, MemoryBounded
  <1>7. Tasks(table)[e] <= SumFunction(most)
    BY <1>3, <1>4, <1>5, <1>6, TasksFacts
  <1>8. Tasks(table)[e] \in Nat
    BY <1>3, TasksFacts
  <1>9. SumFunction(most) \in Nat
    BY <1>4, <1>5, SumBounds
  <1>10. created[b][e] \in Nat
    BY DEF IInv, TypeOK, Copies
  <1> QED BY <1>2, <1>7, <1>8, <1>9, <1>10 DEF Bounded

\* A server that is given a list within the bounds stays within them.
LEMMA BoundedMerge ==
    ASSUME NEW ids, NEW table, IsTable(table, ids, MultiSetMetadata), NEW i \in ids,
           NEW md \in MultiSetMetadata, NEW e \in Element, NEW most,
           \A j \in DOMAIN table : table[j].payload[e] <= most[j], md.payload[e] <= most[i]
    PROVE  \A j \in DOMAIN MergedLists(table, i, md) :
              MergedLists(table, i, md)[j].payload[e] <= most[j]
  <1>1. PICK merged : merged = MergedLists(table, i, md)
    OBVIOUS
  <1>2. \A j \in DOMAIN table : table[j] \in MultiSetMetadata
    BY DEF IsTable
  <1>3. ASSUME NEW j \in DOMAIN merged PROVE merged[j].payload[e] <= most[j]
    <2>1. merged[j] = IF j # i THEN table[j]
                      ELSE IF i \in DOMAIN table THEN MostCopiesOfBoth(table[i], md) ELSE md
      BY <1>1 DEF MergedLists
    <2>2. j \in DOMAIN table \cup {i}
      BY <1>1 DEF MergedLists
    <2>3. CASE j # i \/ i \notin DOMAIN table
      BY <2>1, <2>2, <2>3
    <2>4. CASE j = i /\ i \in DOMAIN table
      <3>1. PICK known \in MultiSetMetadata : known = table[i]
        BY <1>2, <2>4
      <3>2. MostCopiesOfBoth(known, md).payload[e] \in {known.payload[e], md.payload[e]}
        BY BothListsFacts
      <3>3. merged[j].payload[e] \in {known.payload[e], md.payload[e]}
        BY <2>1, <2>4, <3>1, <3>2
      <3>4. known.payload[e] <= most[i] /\ md.payload[e] <= most[i]
        BY <2>4, <3>1
      <3> QED BY <2>4, <3>3, <3>4
    <2> QED BY <2>3, <2>4
  <1> QED BY <1>1, <1>3

\* A new task: its user may have created one more.
LEMMA BoundedCreate ==
    ASSUME IInv, NEW p \in Process, NEW c \in Board, NEW f \in Element, CreateBoard(p, c, f),
           StepOf(p), NEW b \in Board, NEW e \in Element,
           NEW most \in [Range(uniqueID) -> Nat], Bounded(b, e, most)
    PROVE  \E more \in [Range(uniqueID) -> Nat] : Bounded(b, e, more)'
  <1> USE DEF IInv
  <1>1. PICK md : md = InsertCopy(memory[p].list[c], f)
    OBVIOUS
  <1>2. memory[p].list[c] \in MultiSetMetadata /\ memory[p].list[b] \in MultiSetMetadata
    BY DEF TypeOK, IsMemory
  <1>3. md \in MultiSetMetadata /\ md.payload = OneMore(memory[p].list[c].payload, f)
    BY <1>1, <1>2, EditedLists
  <1>4. OnBoard(p) /\ Edit(p, c, md)
    BY <1>1 DEF CreateBoard
  <1>5. PICK id \in Range(uniqueID) : id = memory[p].id
    BY <1>3, <1>4, EditFacts
  <1>6. /\ memory'[p].id = id /\ id # 0 /\ memory'[p].server = memory[p].server
        /\ \A d \in Board : memory'[p].list[d] = IF d = c THEN md ELSE memory[p].list[d]
        /\ json' = [json EXCEPT ![c][userName[loggedIn[p]]] = Torn]
    <2>1. md \in MultiSetMetadata
      BY <1>3
    <2>2. memory'[p].id = memory[p].id /\ memory'[p].server = memory[p].server
      BY <1>4, <2>1, EditFacts
    <2>3. \A d \in Board : memory'[p].list[d] = IF d = c THEN md ELSE memory[p].list[d]
      BY <1>4 DEF Edit, TypeOK, IsMemory
    <2>4. json' = [json EXCEPT ![c][userName[loggedIn[p]]] = Torn]
      BY <1>4 DEF Edit
    <2> QED BY <1>5, <2>2, <2>3, <2>4, IdFacts
  <1>7. \A q \in Process \ {p} : memory'[q] = memory[q]
    BY OthersStay
  <1>8. created' = [created EXCEPT ![c] = OneMore(@, f)]
    BY DEF CreateBoard
  <1>9. memory[p].list[b].payload \in Copies /\ created[b] \in Copies
    BY <1>2, ListFacts DEF TypeOK
  <1>10. created'[b] = (IF b = c THEN OneMore(created[b], f) ELSE created[b])
    BY <1>8 DEF TypeOK
  <1>11. \A n \in Name : json'[b][n] = json[b][n] \/ json'[b][n] = Torn
    BY <1>6 DEF TypeOK
  <1>12. IsFiniteSet(Range(uniqueID)) /\ SumFunction(most) \in Nat
    BY IdFacts, SumBounds
  <1>13. ASSUME NEW more \in [Range(uniqueID) -> Nat],
                \A i \in Range(uniqueID) : most[i] <= more[i],
                memory'[p].list[b].payload[e] <= more[id],
                SumFunction(more) <= created'[b][e]
         PROVE  Bounded(b, e, more)'
    <2>1. ASSUME NEW n \in Name PROVE FileBounded(json'[b][n], e, more)
      <3>1. CASE json'[b][n] = Torn
        BY <3>1 DEF FileBounded, Torn
      <3>2. CASE json'[b][n] = json[b][n] /\ json[b][n].status = "saved"
        <4>1. PICK file \in Files : file = json[b][n] /\ file.status = "saved"
          BY <3>2 DEF TypeOK
        <4>2. file.id \in Range(uniqueID) /\ file.list \in MultiSetMetadata
          BY <4>1 DEF Files, NoFile, Torn
        <4>3. file.list.payload[e] <= most[file.id]
          BY <4>1 DEF Bounded, FileBounded
        <4>4. file.list.payload[e] \in Nat
          BY <4>2, ListFacts
        <4>5. /\ most[file.id] \in Nat /\ more[file.id] \in Nat
              /\ most[file.id] <= more[file.id]
          BY <1>13, <4>2
        <4>6. file.list.payload[e] <= more[file.id]
          BY <4>3, <4>4, <4>5
        <4> QED BY <3>2, <4>1, <4>6 DEF FileBounded
      <3> QED BY <1>11, <3>1, <3>2 DEF FileBounded
    <2>2. ASSUME NEW q \in Process PROVE MemoryBounded(memory'[q], b, e, more)
      <3>1. PICK m : m = memory[q]
        OBVIOUS
      <3>2. IsMemory(m, Range(uniqueID)) /\ MemoryBounded(m, b, e, most)
        BY <3>1 DEF TypeOK, Bounded
      <3>3. memory'[q].server = m.server
        BY <1>6, <1>7, <3>1
      <3>4. ASSUME NEW i \in DOMAIN m.server[b]
            PROVE  m.server[b][i].payload[e] <= more[i]
        <4>1. i \in Range(uniqueID) /\ m.server[b][i] \in MultiSetMetadata
          BY <3>2 DEF IsMemory, IsTable
        <4>2. PICK md2 \in MultiSetMetadata : md2 = m.server[b][i]
          BY <4>1
        <4>3. md2.payload[e] \in Nat
          BY ListFacts
        <4>4. md2.payload[e] <= most[i]
          BY <3>2, <4>2 DEF MemoryBounded
        <4>5. most[i] \in Nat /\ more[i] \in Nat /\ most[i] <= more[i]
          BY <1>13, <4>1
        <4> QED BY <4>2, <4>3, <4>4, <4>5
      <3>5. ASSUME memory'[q].id # 0
            PROVE  memory'[q].list[b].payload[e] <= more[memory'[q].id]
        <4>1. CASE q = p
          BY <1>6, <1>13, <4>1
        <4>2. CASE q # p
          <5>1. memory'[q] = m /\ m.id \in Range(uniqueID) /\ m.list[b] \in MultiSetMetadata
            BY <1>7, <3>1, <3>2, <3>5, <4>2 DEF IsMemory
          <5>2. PICK md2 \in MultiSetMetadata : md2 = m.list[b]
            BY <5>1
          <5>3. md2.payload[e] \in Nat
            BY ListFacts
          <5>4. md2.payload[e] <= most[m.id]
            BY <3>2, <3>5, <5>1, <5>2 DEF MemoryBounded
          <5>5. most[m.id] \in Nat /\ more[m.id] \in Nat /\ most[m.id] <= more[m.id]
            BY <1>13, <5>1
          <5> QED BY <5>1, <5>2, <5>3, <5>4, <5>5
        <4> QED BY <4>1, <4>2
      <3> QED BY <3>3, <3>4, <3>5 DEF MemoryBounded
    <2> QED BY <1>13, <2>1, <2>2 DEF Bounded
  <1>14. memory[p].list[b].payload[e] <= most[id]
    BY <1>5, <1>6 DEF Bounded, MemoryBounded
  <1>15. memory[p].list[b].payload[e] \in Nat /\ most[id] \in Nat /\ created[b][e] \in Nat
    BY <1>9 DEF Copies
  <1>16. SumFunction(most) <= created[b][e]
    BY DEF Bounded
  <1>17. CASE b = c /\ e = f
    <2>1. PICK more : more = [most EXCEPT ![id] = @ + 1]
      OBVIOUS
    <2>2. /\ more \in [Range(uniqueID) -> Nat] /\ more[id] = most[id] + 1
          /\ \A i \in Range(uniqueID) : i # id => more[i] = most[i]
      BY <2>1
    <2>3. SumFunction(more) = SumFunction(most) + 1
      <3>1. SumFunctionOnSet(more, Range(uniqueID)) = SumFunctionOnSet(most, Range(uniqueID)) + 1
        <4>1. \A i \in Range(uniqueID) : most[i] \in Nat
          OBVIOUS
        <4> QED BY <1>12, <2>2, <4>1, SumOfOneMore
      <3>2. DOMAIN more = Range(uniqueID) /\ DOMAIN most = Range(uniqueID)
        BY <2>2
      <3> QED BY <3>1, <3>2 DEF SumFunction
    <2>4. memory'[p].list[b].payload[e] = memory[p].list[b].payload[e] + 1
      BY <1>3, <1>6, <1>9, <1>17 DEF OneMore, Copies
    <2>5. created'[b][e] = created[b][e] + 1
      BY <1>9, <1>10, <1>17 DEF OneMore, Copies
    <2>6. \A i \in Range(uniqueID) : most[i] <= more[i]
      BY <2>2
    <2>7. memory'[p].list[b].payload[e] <= more[id]
      BY <1>14, <1>15, <2>2, <2>4
    <2>8. SumFunction(more) <= created'[b][e]
      BY <1>12, <1>15, <1>16, <2>3, <2>5
    <2> QED BY <1>13, <2>2, <2>6, <2>7, <2>8
  <1>18. CASE ~(b = c /\ e = f)
    <2>1. memory'[p].list[b].payload[e] = memory[p].list[b].payload[e]
      BY <1>3, <1>6, <1>9, <1>18 DEF OneMore, Copies
    <2>2. created'[b][e] = created[b][e]
      BY <1>9, <1>10, <1>18 DEF OneMore, Copies
    <2>3. \A i \in Range(uniqueID) : most[i] <= most[i]
      OBVIOUS
    <2> QED BY <1>13, <1>14, <1>16, <2>1, <2>2, <2>3
  <1> QED BY <1>17, <1>18

\* Every other step keeps the bounds as they are.
LEMMA BoundedOther ==
    ASSUME IInv, NEW p \in Process, StepOf(p), ~carried,
           ~(\E c \in Board, f \in Plans[p] : CreateBoard(p, c, f)),
           NEW b \in Board, NEW e \in Element,
           NEW most \in [Range(uniqueID) -> Nat], Bounded(b, e, most)
    PROVE  Bounded(b, e, most)'
  <1> USE DEF IInv
  <1>1. \A q \in Process \ {p} : memory'[q] = memory[q]
    BY OthersStay
  <1>2. PICK m : m = memory[p]
    OBVIOUS
  <1>3. IsMemory(m, Range(uniqueID)) /\ MemoryBounded(m, b, e, most)
    BY <1>2 DEF TypeOK, Bounded
  <1>4. created' = created
    BY DEF StepOf, Login, DeleteBoard, Merge, ReadFile, Save, UpdateTable, SetOnline,
           CloseAddWindow, Logout, Close, Crash
  <1>5. SUFFICES /\ MemoryBounded(memory'[p], b, e, most)
                 /\ \A n \in Name : FileBounded(json'[b][n], e, most)
    BY <1>1, <1>4 DEF Bounded
  <1>6. \A n \in Name : FileBounded(json[b][n], e, most)
    BY DEF Bounded
  <1>7. CASE \/ \E a \in Uses[p] : Login(p, a)
             \/ Merge(p) \/ SetOnline(p) \/ CloseAddWindow(p) \/ Logout(p)
    BY <1>2, <1>3, <1>6, <1>7 DEF Login, Merge, SetOnline, CloseAddWindow, Logout
  <1>8. CASE \E c \in Board, f \in Element : DeleteBoard(p, c, f)
    <2>1. PICK c \in Board, f \in Element : DeleteBoard(p, c, f)
      BY <1>8
    <2>2. PICK md : md = RemoveCopies(m.list[c], f)
      OBVIOUS
    <2>3. m.list[c] \in MultiSetMetadata
      BY <1>3 DEF IsMemory
    <2>4. md \in MultiSetMetadata /\ md.payload = m.list[c].payload
      BY <2>2, <2>3, EditedLists
    <2>5. OnBoard(p) /\ Edit(p, c, md)
      BY <1>2, <2>1, <2>2 DEF DeleteBoard
    <2>6. /\ memory'[p].id = m.id /\ memory'[p].server = m.server
          /\ \A d \in Board : memory'[p].list[d] = IF d = c THEN md ELSE m.list[d]
          /\ json' = [json EXCEPT ![c][userName[loggedIn[p]]] = Torn]
      <3>1. md \in MultiSetMetadata
        BY <2>4
      <3>2. memory'[p].id = memory[p].id /\ memory'[p].server = memory[p].server
        BY <2>5, <3>1, EditFacts
      <3>3. \A d \in Board : memory'[p].list[d] = IF d = c THEN md ELSE memory[p].list[d]
        BY <1>2, <2>5 DEF Edit, TypeOK, IsMemory
      <3>4. json' = [json EXCEPT ![c][userName[loggedIn[p]]] = Torn]
        BY <2>5 DEF Edit
      <3> QED BY <1>2, <3>2, <3>3, <3>4
    <2>7. memory'[p].list[b].payload = m.list[b].payload
      BY <2>4, <2>6
    <2>8. MemoryBounded(memory'[p], b, e, most)
      BY <1>3, <2>6, <2>7 DEF MemoryBounded
    <2>9. \A n \in Name : json'[b][n] = json[b][n] \/ json'[b][n] = Torn
      BY <2>6 DEF TypeOK
    <2>10. FileBounded(Torn, e, most)
      BY DEF FileBounded, Torn
    <2> QED BY <1>6, <2>8, <2>9, <2>10
  <1>9. ASSUME NEW i \in Range(uniqueID), NEW md \in MultiSetMetadata, md.payload[e] <= most[i],
               memory'[p].id = m.id, memory'[p].list = m.list,
               \/ memory'[p].server[b] = m.server[b]
               \/ memory'[p].server[b] = MergedLists(m.server[b], i, md)
        PROVE  MemoryBounded(memory'[p], b, e, most)
    <2>1. PICK table : table = m.server[b]
      OBVIOUS
    <2>2. /\ IsTable(table, Range(uniqueID), MultiSetMetadata)
          /\ \A j \in DOMAIN table : table[j].payload[e] <= most[j]
      BY <1>3, <2>1 DEF IsMemory, MemoryBounded
    <2>3. PICK merged : merged = MergedLists(table, i, md)
      OBVIOUS
    <2>4. \A j \in DOMAIN merged : merged[j].payload[e] <= most[j]
      BY <1>9, <2>2, <2>3, BoundedMerge
    <2>5. memory'[p].server[b] = table \/ memory'[p].server[b] = merged
      BY <1>9, <2>1, <2>3
    <2>6. \A j \in DOMAIN memory'[p].server[b] : memory'[p].server[b][j].payload[e] <= most[j]
      BY <2>2, <2>4, <2>5
    <2> QED BY <1>3, <1>9, <2>6 DEF MemoryBounded
  <1>10. CASE memory'[p] = NewMemory /\ json' = json
    BY <1>6, <1>10, NewMemoryFacts DEF MemoryBounded
  <1>11. CASE ReadFile(p)
    <2>1. json' = json
      BY <1>11, ReadFacts
    <2>2. CASE memory'[p] = m
      BY <1>3, <1>6, <2>1, <2>2
    <2>3. CASE \E c \in Board, n \in Name :
                  /\ json[c][n].status = "saved"
                  /\ json[c][n].id \in Range(uniqueID)
                  /\ json[c][n].list \in MultiSetMetadata
                  /\ memory'[p].id = m.id /\ memory'[p].list = m.list
                  /\ \A d \in Board : memory'[p].server[d] =
                        IF d = c THEN MergedLists(m.server[d], json[c][n].id, json[c][n].list)
                        ELSE m.server[d]
      <3>1. PICK c \in Board, n \in Name :
                  /\ json[c][n].status = "saved"
                  /\ json[c][n].id \in Range(uniqueID)
                  /\ json[c][n].list \in MultiSetMetadata
                  /\ memory'[p].id = m.id /\ memory'[p].list = m.list
                  /\ \A d \in Board : memory'[p].server[d] =
                        IF d = c THEN MergedLists(m.server[d], json[c][n].id, json[c][n].list)
                        ELSE m.server[d]
        BY <2>3
      <3>2. CASE b = c
        <4>1. PICK i \in Range(uniqueID), md \in MultiSetMetadata :
                 i = json[c][n].id /\ md = json[c][n].list
          BY <3>1
        <4>2. md.payload[e] <= most[i]
          BY <1>6, <3>1, <3>2, <4>1 DEF FileBounded
        <4>3. /\ memory'[p].id = m.id /\ memory'[p].list = m.list
              /\ memory'[p].server[b] = MergedLists(m.server[b], i, md)
          BY <3>1, <3>2, <4>1
        <4>4. MemoryBounded(memory'[p], b, e, most)
          BY <1>9, <4>2, <4>3
        <4> QED BY <1>6, <2>1, <4>4
      <3>3. CASE b # c
        <4>1. memory'[p].id = m.id /\ memory'[p].list = m.list /\ memory'[p].server[b] = m.server[b]
          BY <3>1, <3>3
        <4> QED BY <1>3, <1>6, <2>1, <4>1 DEF MemoryBounded
      <3> QED BY <3>2, <3>3
    <2> QED BY <1>2, <1>10, <1>11, <2>1, <2>2, <2>3, ReadFacts
  <1>12. CASE Save(p)
    <2>1. PICK c \in Board : c = doing[p].board
      BY <1>12, SaveFacts
    <2>2. /\ m.id \in Range(uniqueID) /\ m.id # 0 /\ m.list[b] \in MultiSetMetadata
          /\ memory'[p].id = m.id /\ memory'[p].list = m.list
          /\ \A d \in Board : memory'[p].server[d] =
                IF d = c THEN MergedLists(m.server[d], m.id, m.list[d]) ELSE m.server[d]
          /\ json' = [json EXCEPT ![c][userName[loggedIn[p]]] =
                          [status |-> "saved", id |-> m.id, list |-> m.list[c]]]
      <3>1. m.id \in Range(uniqueID) /\ m.id # 0
        BY <1>2, <1>12, SaveFacts, IdFacts
      <3>2. m.list[b] \in MultiSetMetadata
        BY <1>3 DEF IsMemory
      <3> QED BY <1>2, <1>12, <2>1, <3>1, <3>2, SaveFacts
    <2>3. PICK i \in Range(uniqueID), md \in MultiSetMetadata : i = m.id /\ md = m.list[b]
      BY <2>2
    <2>4. md.payload[e] <= most[i]
      BY <1>3, <2>2, <2>3 DEF MemoryBounded
    <2>5. \/ memory'[p].server[b] = m.server[b]
          \/ memory'[p].server[b] = MergedLists(m.server[b], i, md)
      BY <2>2, <2>3
    <2>6. memory'[p].id = m.id /\ memory'[p].list = m.list
      BY <2>2
    <2>7. MemoryBounded(memory'[p], b, e, most)
      BY <1>9, <2>4, <2>5, <2>6
    <2>8. PICK file : file = [status |-> "saved", id |-> i, list |-> md]
      OBVIOUS
    <2>9. FileBounded(file, e, most)
      BY <2>4, <2>8 DEF FileBounded
    <2>10. \A n \in Name : json'[b][n] = json[b][n] \/ json'[b][n] = file
      BY <2>2, <2>3, <2>8 DEF TypeOK
    <2> QED BY <1>6, <2>7, <2>9, <2>10
  <1>13. CASE UpdateTable(p)
    <2>1. /\ json' = json /\ loggedIn[p] \in Account
          /\ memory'[p].id = (IF InLogin(p) THEN uniqueID[loggedIn[p]] ELSE m.id)
          /\ memory'[p].list = m.list /\ memory'[p].server = m.server
      BY <1>2, <1>13, UpdateFacts
    <2>2. CASE memory'[p].id = m.id
      BY <1>3, <1>6, <2>1, <2>2 DEF MemoryBounded
    <2>3. CASE memory'[p].id # m.id
      <3>1. InLogin(p) /\ loggedIn[p] # None /\ uniqueID[loggedIn[p]] # m.id
        BY <2>1, <2>3, IdFacts
      <3>2. m.list[b] = NewMultiSet
        BY <1>2, <3>1 DEF LinkInv
      <3>3. m.list[b].payload[e] = 0
        BY <3>2, ListFacts
      <3>4. memory'[p].id \in Range(uniqueID)
        BY <2>1, <3>1, IdFacts
      <3>5. most[memory'[p].id] \in Nat
        BY <3>4
      <3>6. memory'[p].list[b].payload[e] <= most[memory'[p].id]
        BY <2>1, <3>3, <3>5
      <3> QED BY <1>3, <1>6, <2>1, <3>6 DEF MemoryBounded
    <2> QED BY <2>2, <2>3
  <1>14. CASE Close(p) \/ Crash(p)
    BY <1>10, <1>14 DEF Close, Crash, Gone, TypeOK
  <1> QED BY <1>7, <1>8, <1>11, <1>12, <1>13, <1>14 DEF StepOf

\* So every step keeps the bounds,
LEMMA MostStep ==
    ASSUME IInv, MostInv, NEW p \in Process, StepOf(p)
    PROVE  MostInv'
  <1> SUFFICES ASSUME ~carried', NEW b \in Board, NEW e \in Element
               PROVE  \E more \in [Range(uniqueID') -> Nat] : Bounded(b, e, more)'
    BY DEF MostInv
  <1>1. ~carried
    BY DEF StepOf, Login, CreateBoard, DeleteBoard, Edit, Merge, ReadFile, Save, UpdateTable,
           SetOnline, CloseAddWindow, Logout, Close, Crash, IInv, TypeOK
  <1>2. PICK most \in [Range(uniqueID) -> Nat] : Bounded(b, e, most)
    BY <1>1 DEF MostInv
  <1>3. uniqueID' = uniqueID
    BY OthersStay DEF IInv
  <1>4. CASE \E c \in Board, f \in Plans[p] : CreateBoard(p, c, f)
    <2>1. PICK c \in Board, f \in Element : CreateBoard(p, c, f)
      BY <1>4, BoardAssumption
    <2> QED BY <1>2, <1>3, <2>1, BoundedCreate
  <1>5. CASE ~(\E c \in Board, f \in Plans[p] : CreateBoard(p, c, f))
    BY <1>1, <1>2, <1>3, <1>5, BoundedOther
  <1> QED BY <1>4, <1>5

\* which hold when nobody has created anything.
LEMMA MostInitially ==
    ASSUME Init
    PROVE  MostInv
  <1> SUFFICES ASSUME NEW b \in Board, NEW e \in Element
               PROVE  \E most \in [Range(uniqueID) -> Nat] : Bounded(b, e, most)
    BY DEF MostInv
  <1>1. IInv
    BY InitialFacts
  <1>2. PICK most : most = [i \in Range(uniqueID) |-> 0]
    OBVIOUS
  <1>3. /\ most \in [Range(uniqueID) -> Nat] /\ DOMAIN most = Range(uniqueID)
        /\ \A i \in DOMAIN most : most[i] = 0
    BY <1>2
  <1>4. SumFunction(most) = 0
    <2>1. IsFiniteSet(DOMAIN most)
      BY <1>1, <1>3, IdFacts DEF IInv
    <2> QED BY <1>3, <2>1, SumOfZeros DEF SumFunction
  <1>5. SumFunction(most) <= created[b][e]
    <2>1. created[b][e] \in Nat
      BY <1>1 DEF IInv, TypeOK, Copies
    <2> QED BY <1>4, <2>1
  <1>6. \A p \in Process : MemoryBounded(memory[p], b, e, most)
    BY NewMemoryFacts DEF Init, MemoryBounded
  <1>7. \A n \in Name : FileBounded(json[b][n], e, most)
    BY DEF Init, FileBounded, NoFile
  <1> QED BY <1>3, <1>5, <1>6, <1>7 DEF Bounded

\* THEOREM: no task is shown more often than it was created, in however many merges of the
\* same files and after whatever restarts, unless a list was taken over by another user.
THEOREM TasksOnce == Spec => []NoTaskTwice
  <1>1. IInv /\ MostInv /\ [Next]_vars => MostInv'
    <2> SUFFICES ASSUME IInv, MostInv, [Next]_vars PROVE MostInv'
      OBVIOUS
    <2>1. CASE Next
      <3>1. PICK p \in Process : StepOf(p)
        BY <2>1 DEF Next, StepOf
      <3> QED BY <3>1, MostStep
    <2>2. CASE UNCHANGED vars
      BY <2>2 DEF vars, MostInv, Bounded
    <2> QED BY <2>1, <2>2
  <1>2. IInv /\ MostInv => NoTaskTwice
    <2> SUFFICES ASSUME IInv, MostInv, ~carried, NEW p \in Process, NEW b \in Board,
                        NEW e \in Element
                 PROVE  Tasks(memory[p].server[b])[e] <= created[b][e]
      BY DEF NoTaskTwice
    <2>1. PICK most \in [Range(uniqueID) -> Nat] : Bounded(b, e, most)
      BY DEF MostInv
    <2> QED BY <2>1, BoundedShown
  <1> QED BY <1>1, <1>2, InitialFacts, Step, MostInitially, PTL DEF Spec

=============================================================================
