---------------------- MODULE PNCounterVersions_proofs ----------------------
(***************************************************************************)
(* The proof that the counters of PNCounterSB implement OwnerVersions.     *)
(*                                                                         *)
(* view is defined with CHOOSE.  The proof first characterises it by what  *)
(* it stands for (ViewInv), which is then used before and after a step.    *)
(***************************************************************************)
EXTENDS PNCounterSB_proofs

\* The version a handler knows is the one place in the log with the entry's parts.
ViewInv ==
    \A s \in Replica, r \in Owner :
        /\ id[r] \notin DOMAIN replica_metadata[s] => view[s][r] = 0
        /\ id[r] \in DOMAIN replica_metadata[s] =>
              /\ view[s][r] \in 1 .. Len(log[r])
              /\ SameParts(replica_metadata[s][id[r]], log[r][view[s][r]])

\* Two places of a log never have the same parts.
LEMMA PlaceUnique ==
    ASSUME TypeOK, LogInv, NEW r \in Replica,
           NEW k \in 1 .. Len(log[r]), NEW l \in 1 .. Len(log[r]),
           SameParts(log[r][k], log[r][l])
    PROVE  k = l
  <1>1. SameParts(log[r][l], log[r][k])
    BY DEF SameParts
  <1>2. ~(k < l) /\ ~(l < k)
    BY <1>1 DEF LogInv, Earlier
  <1>3. k \in Int /\ l \in Int
    OBVIOUS
  <1> QED
    BY <1>2, <1>3

\* What a handler knows of an owner is one of its versions,
LEMMA ViewFacts == IInv => ViewInv
  <1> SUFFICES ASSUME IInv, NEW s \in Replica, NEW r \in Owner
               PROVE  /\ id[r] \notin DOMAIN replica_metadata[s] => view[s][r] = 0
                      /\ id[r] \in DOMAIN replica_metadata[s] =>
                            /\ view[s][r] \in 1 .. Len(log[r])
                            /\ SameParts(replica_metadata[s][id[r]], log[r][view[s][r]])
    BY DEF ViewInv
  <1> DEFINE entry == replica_metadata[s][id[r]]
  <1>1. view[s][r] = IF id[r] \in DOMAIN replica_metadata[s]
                     THEN VersionOf(r, entry) ELSE 0
    BY DEF view
  <1>2. CASE id[r] \in DOMAIN replica_metadata[s]
    <2>1. r \in Replica /\ Exclusive(r)
      BY DEF Owner
    <2>2. GoodEntry(id[r], entry)
      BY <1>2 DEF IInv, EntryInv
    <2>3. \E k \in 1 .. Len(log[r]) : SameParts(entry, log[r][k])
      BY <2>1, <2>2 DEF GoodEntry, PastState
    <2>4. /\ VersionOf(r, entry) \in 1 .. Len(log[r])
          /\ SameParts(entry, log[r][VersionOf(r, entry)])
      BY <2>3 DEF VersionOf
    <2> QED
      BY <1>1, <1>2, <2>4
  <1> QED
    BY <1>1, <1>2

\* before and after a step.
LEMMA ViewFactsNext == IInv' => ViewInv'
  BY ViewFacts, PTL

\* version and view are functions to natural numbers.
LEMMA ViewType ==
    ASSUME IInv
    PROVE  /\ version \in [Owner -> Nat]
           /\ view \in [Replica -> [Owner -> Nat]]
           /\ \A s \in Replica, r \in Owner : view[s][r] <= version[r]
  <1>1. ASSUME NEW r \in Owner PROVE Len(log[r]) \in Nat
    <2>1. log[r] \in Seq(Metadata)
      BY DEF Owner, IInv, TypeOK
    <2> QED
      BY <2>1
  <1>2. ASSUME NEW s \in Replica, NEW r \in Owner
        PROVE  view[s][r] \in Nat /\ view[s][r] <= Len(log[r])
    <2>1. ViewInv
      BY ViewFacts
    <2> QED
      BY <1>1, <2>1 DEF ViewInv
  <1>3. version = [r \in Owner |-> Len(log[r])]
    BY DEF version
  <1>4. view = [s \in Replica |-> [r \in Owner |-> view[s][r]]]
    BY DEF view
  <1>5. \A s \in Replica : [r \in Owner |-> view[s][r]] \in [Owner -> Nat]
    BY <1>2
  <1> HIDE DEF view
  <1> QED
    BY <1>1, <1>2, <1>3, <1>4, <1>5

\* They still are after a step.
LEMMA ViewTypeNext ==
    IInv' => /\ version' \in [Owner -> Nat]
             /\ view' \in [Replica -> [Owner -> Nat]]
             /\ \A s \in Replica, r \in Owner : view'[s][r] <= version'[r]
  <1> DEFINE P == /\ version \in [Owner -> Nat]
                  /\ view \in [Replica -> [Owner -> Nat]]
                  /\ \A s \in Replica, r \in Owner : view[s][r] <= version[r]
  <1>1. IInv => P
    BY ViewType
  <1> HIDE DEF P
  <1>2. IInv' => P'
    BY <1>1, PTL
  <1> QED
    BY <1>2 DEF P

\* An entry that is left alone, and one whose parts stay the same, keeps its
\* version though the log may have become longer.
LEMMA SameView ==
    ASSUME IInv, IInv', NEW s \in Replica, NEW r \in Owner,
           id[r] \in DOMAIN replica_metadata'[s] <=> id[r] \in DOMAIN replica_metadata[s],
           id[r] \in DOMAIN replica_metadata[s] =>
               replica_metadata'[s][id[r]] = replica_metadata[s][id[r]],
           Len(log[r]) <= Len(log'[r]),
           \A k \in 1 .. Len(log[r]) : log'[r][k] = log[r][k]
    PROVE  view'[s][r] = view[s][r]
  <1>1. ViewInv /\ ViewInv'
    BY ViewFacts, ViewFactsNext
  <1>2. CASE id[r] \notin DOMAIN replica_metadata[s]
    BY <1>1, <1>2 DEF ViewInv
  <1>3. CASE id[r] \in DOMAIN replica_metadata[s]
    <2> DEFINE old == view[s][r]
               new == view'[s][r]
               entry == replica_metadata[s][id[r]]
    <2>1. old \in 1 .. Len(log[r]) /\ SameParts(entry, log[r][old])
      BY <1>1, <1>3 DEF ViewInv
    <2>2. new \in 1 .. Len(log'[r]) /\ SameParts(entry, log'[r][new])
      BY <1>1, <1>3 DEF ViewInv, SameParts
    <2>3. /\ Len(log[r]) \in Nat /\ Len(log'[r]) \in Nat
      <3>1. log[r] \in Seq(Metadata) /\ log'[r] \in Seq(Metadata)
        BY DEF Owner, IInv, TypeOK
      <3> QED
        BY <3>1
    <2> HIDE DEF old, new, entry
    <2>4. old \in 1 .. Len(log'[r]) /\ log'[r][old] = log[r][old]
      BY <2>1, <2>3
    <2>5. SameParts(log'[r][old], log'[r][new])
      BY <2>1, <2>2, <2>4 DEF SameParts
    <2>6. ~(old < new) /\ ~(new < old)
      BY <2>2, <2>4, <2>5 DEF IInv, LogInv, Earlier, Owner, SameParts
    <2>7. old = new
      BY <2>2, <2>4, <2>6, <2>3
    <2> QED
      BY <2>7 DEF old, new
  <1> QED
    BY <1>2, <1>3

\* A handler that merges learns.
LEMMA LearnStep ==
    ASSUME IInv, IInv', NEW s \in Replica, log' = log,
           Grows(replica_metadata[s], replica_metadata'[s]),
           \A t \in Replica \ {s} : replica_metadata'[t] = replica_metadata[t]
    PROVE  Versions!Learn(s)
  <1>1. ViewInv /\ ViewInv'
    BY ViewFacts, ViewFactsNext
  <1>2. /\ version' \in [Owner -> Nat]
        /\ view' \in [Replica -> [Owner -> Nat]]
        /\ \A t \in Replica, r \in Owner : view'[t][r] <= version'[r]
    BY ViewTypeNext
  <1>3. view \in [Replica -> [Owner -> Nat]]
    BY ViewType
  <1>4. version' = version
    BY DEF version
  <1>5. ASSUME NEW r \in Owner
        PROVE  view[s][r] <= view'[s][r]
    <2> DEFINE old == view[s][r]
               new == view'[s][r]
    <2>1. old \in Nat /\ new \in Nat
      BY <1>2, <1>3
    <2>2. CASE id[r] \notin DOMAIN replica_metadata[s]
      BY <1>1, <2>1, <2>2 DEF ViewInv
    <2>3. CASE id[r] \in DOMAIN replica_metadata[s]
      <3>1. /\ old \in 1 .. Len(log[r])
            /\ SameParts(replica_metadata[s][id[r]], log[r][old])
        BY <1>1, <2>3 DEF ViewInv
      <3>2. /\ id[r] \in DOMAIN replica_metadata'[s]
            /\ AtMost(replica_metadata[s][id[r]], replica_metadata'[s][id[r]])
        BY <2>3 DEF Grows
      <3>3. /\ new \in 1 .. Len(log[r])
            /\ SameParts(replica_metadata'[s][id[r]], log[r][new])
        BY <1>1, <3>2 DEF ViewInv, SameParts
      <3> HIDE DEF old, new
      <3>4. ASSUME new < old PROVE FALSE
        <4>1. Earlier(log[r][new], log[r][old])
          BY <3>1, <3>3, <3>4 DEF IInv, LogInv, Owner
        <4>2. AtMost(log[r][old], log[r][new])
          BY <3>1, <3>2, <3>3 DEF AtMost, SameParts
        <4>3. log[r][new] \in Metadata /\ log[r][old] \in Metadata
          BY <3>1, <3>3 DEF IInv, TypeOK, Owner
        <4> QED
          BY <4>1, <4>2, <4>3, PartsType DEF Earlier, AtMost, SameParts
      <3> QED
        BY <2>1, <3>4 DEF old, new
    <2> QED
      BY <2>2, <2>3
  <1>6. view'[s] \in Versions!Newer(s)
    <2>1. view'[s] \in [Owner -> Nat]
      BY <1>2
    <2>2. \A r \in Owner : view[s][r] <= view'[s][r] /\ view'[s][r] <= version[r]
      BY <1>2, <1>4, <1>5
    <2> QED
      BY <2>1, <2>2 DEF Versions!Newer
  <1>7. ASSUME NEW t \in Replica \ {s}, NEW r \in Owner
        PROVE  view'[t][r] = view[t][r]
    <2>1. Len(log[r]) <= Len(log'[r])
      <3>1. log[r] \in Seq(Metadata)
        BY DEF IInv, TypeOK, Owner
      <3> QED
        BY <3>1
    <2> QED
      BY <2>1, SameView
  <1>8. view' = [view EXCEPT ![s] = view'[s]]
    <2>1. \A t \in Replica \ {s} : view'[t] = view[t]
      BY <1>2, <1>3, <1>7
    <2> HIDE DEF view
    <2> QED
      BY <2>1, <1>2, <1>3
  <1> QED
    BY <1>4, <1>6, <1>8 DEF Versions!Learn

\* Of all entries only the writer's own may change, to the new state.
OwnEntryOnly(w, new) ==
    \A s \in Replica :
        /\ DOMAIN replica_metadata'[s] = DOMAIN replica_metadata[s]
        /\ \A j \in DOMAIN replica_metadata[s] :
              \/ replica_metadata'[s][j] = replica_metadata[s][j]
              \/ s = w /\ j = id[w] /\ replica_metadata'[s][j] = new

\* A writer that counts publishes, unless others count under its id.
LEMMA PublishStep ==
    ASSUME IInv, IInv', NEW w \in Replica, NEW new,
           log' = [log EXCEPT ![w] = Append(@, new)],
           OwnEntryOnly(w, new)
    PROVE  (Versions!Publish(w) /\ w \in Owner) \/ UNCHANGED <<version, view>>
  <1>1. /\ \A r \in Replica : log[r] \in Seq(Metadata) /\ log'[r] \in Seq(Metadata)
        /\ \A r \in Replica \ {w} : log'[r] = log[r]
        /\ log'[w] = Append(log[w], new)
    BY DEF IInv, TypeOK
  <1>2. ASSUME NEW r \in Replica
        PROVE  /\ Len(log[r]) \in Nat /\ Len(log'[r]) \in Nat
               /\ Len(log[r]) <= Len(log'[r])
               /\ \A k \in 1 .. Len(log[r]) : log'[r][k] = log[r][k]
    <2>1. CASE r = w
      <3>1. log[w] \in Seq(Metadata) /\ log'[w] \in Seq(Metadata)
        BY <1>1
      <3> QED
        BY <1>1, <2>1, <3>1
    <2>2. CASE r # w
      BY <1>1, <2>2
    <2> QED
      BY <2>1, <2>2
  <1>3. /\ Len(log'[w]) = Len(log[w]) + 1
        /\ log'[w][Len(log[w]) + 1] = new
    BY <1>1
  <1>4. Owner \subseteq Replica /\ Owner' = Owner
    BY DEF Owner, Exclusive, Writers
  <1>5. /\ view \in [Replica -> [Owner -> Nat]]
        /\ view' \in [Replica -> [Owner -> Nat]]
    BY ViewType, ViewTypeNext
  <1>6. version' = [r \in Owner |-> Len(log'[r])] /\ version = [r \in Owner |-> Len(log[r])]
    BY DEF version, Owner, Exclusive, Writers
  <1>7. ASSUME NEW s \in Replica, NEW r \in Owner, ~(s = w /\ r = w)
        PROVE  view'[s][r] = view[s][r]
    <2>1. id[r] \in DOMAIN replica_metadata'[s] <=> id[r] \in DOMAIN replica_metadata[s]
      BY DEF OwnEntryOnly
    <2>2. id[r] \in DOMAIN replica_metadata[s] =>
             replica_metadata'[s][id[r]] = replica_metadata[s][id[r]]
      <3>1. ~(s = w /\ id[r] = id[w])
        BY <1>7 DEF Owner, Exclusive, Writers
      <3> QED
        BY <3>1 DEF OwnEntryOnly
    <2> QED
      BY <2>1, <2>2, <1>2, <1>4, SameView
  <1>8. CASE w \notin Owner
    <2>1. view' = view
      <3>1. \A s \in Replica : \A r \in Owner : view'[s][r] = view[s][r]
        BY <1>7, <1>8
      <3> HIDE DEF view
      <3> QED
        BY <1>5, <3>1
    <2>2. version' = version
      BY <1>1, <1>4, <1>6, <1>8
    <2> QED
      BY <2>1, <2>2
  <1>9. CASE w \in Owner
    <2>1. version' = [version EXCEPT ![w] = @ + 1]
      BY <1>1, <1>3, <1>4, <1>6, <1>9
    <2>2. version[w] = Len(log[w])
      BY <1>6, <1>9
    <2>3. view'[w][w] = view[w][w] \/ view'[w][w] = version[w] + 1
      <3>1. CASE id[w] \in DOMAIN replica_metadata[w] /\ replica_metadata'[w][id[w]] = new
        <4> DEFINE n == view'[w][w]
                   last == Len(log[w]) + 1
        <4>1. n \in 1 .. Len(log'[w]) /\ SameParts(new, log'[w][n])
          <5>1. ViewInv'
            BY ViewFactsNext
          <5>2. id[w] \in DOMAIN replica_metadata'[w]
            BY <3>1 DEF OwnEntryOnly
          <5> QED
            BY <1>4, <1>9, <3>1, <5>1, <5>2 DEF ViewInv, SameParts
        <4>2. last \in 1 .. Len(log'[w]) /\ log'[w][last] = new
          BY <1>2, <1>3
        <4> HIDE DEF n, last
        <4>3. ~(n < last) /\ ~(last < n)
          BY <4>1, <4>2 DEF IInv, LogInv, Earlier, SameParts
        <4>4. n = last
          BY <1>2, <4>1, <4>2, <4>3
        <4> QED
          BY <2>2, <4>4 DEF n, last
      <3>2. CASE ~(id[w] \in DOMAIN replica_metadata[w] /\ replica_metadata'[w][id[w]] = new)
        <4>1. id[w] \in DOMAIN replica_metadata'[w] <=> id[w] \in DOMAIN replica_metadata[w]
          BY DEF OwnEntryOnly
        <4>2. id[w] \in DOMAIN replica_metadata[w] =>
                 replica_metadata'[w][id[w]] = replica_metadata[w][id[w]]
          BY <3>2 DEF OwnEntryOnly
        <4> QED
          BY <4>1, <4>2, <1>2, <1>9, SameView
      <3> QED
        BY <3>1, <3>2
    <2>4. view' = view \/ view' = [view EXCEPT ![w][w] = version[w] + 1]
      <3>1. \A s \in Replica \ {w} : \A r \in Owner : view'[s][r] = view[s][r]
        BY <1>7
      <3>2. \A r \in Owner \ {w} : view'[w][r] = view[w][r]
        BY <1>7
      <3>3. \A s \in Replica \ {w} : view'[s] = view[s]
        BY <1>5, <3>1
      <3> HIDE DEF view, version
      <3>4. CASE view'[w][w] = view[w][w]
        <4>0. /\ view[w] \in [Owner -> Nat] /\ view'[w] \in [Owner -> Nat]
              /\ \A r \in Owner : view'[w][r] = view[w][r]
          BY <1>5, <3>2, <3>4
        <4>1. view'[w] = view[w]
          BY <4>0
        <4>2. \A s \in Replica : view'[s] = view[s]
          BY <3>3, <4>1
        <4>3. view' = view
          BY <1>5, <4>2
        <4> QED
          BY <4>3
      <3>5. CASE view'[w][w] = version[w] + 1
        <4>1. view'[w] = [view[w] EXCEPT ![w] = version[w] + 1]
          BY <1>5, <3>2, <3>5
        <4> QED
          BY <1>5, <3>3, <4>1
      <3> QED
        BY <2>3, <3>4, <3>5
    <2> QED
      BY <1>9, <2>1, <2>4 DEF Versions!Publish
  <1> QED
    BY <1>8, <1>9

\* Every step of the counters is a step of OwnerVersions or changes nothing in it.
LEMMA VersionsStep == IInv /\ [Next]_vars => [Versions!Next]_Versions!vars
  <1> SUFFICES ASSUME IInv, [Next]_vars
               PROVE  [Versions!Next]_Versions!vars
    OBVIOUS
  <1>1. IInv' /\ \A s \in Replica : Grows(replica_metadata[s], replica_metadata'[s])
    BY NextStep
  <1>2. ASSUME NEW w \in Replica, NEW n \in Amount, UpdateMetadata(w, n)
        PROVE  [Versions!Next]_Versions!vars
    <2> PICK new : new = metadata'[w]
      OBVIOUS
    <2>1. log' = [log EXCEPT ![w] = Append(@, new)] /\ replica_metadata' = replica_metadata
      BY <1>2 DEF UpdateMetadata
    <2>2. OwnEntryOnly(w, new)
      BY <2>1 DEF OwnEntryOnly
    <2> QED
      BY <1>1, <2>1, <2>2, PublishStep DEF Versions!Next, Versions!vars
  <1>3. ASSUME NEW w \in Replica, NEW n \in Amount, UpdateHandler(w, n)
        PROVE  [Versions!Next]_Versions!vars
    <2> PICK new : new = replica_metadata'[w][id[w]]
      OBVIOUS
    <2>1. log' = [log EXCEPT ![w] = Append(@, new)]
      BY <1>3 DEF UpdateHandler
    <2>2. ASSUME NEW s \in Replica
          PROVE  /\ DOMAIN replica_metadata'[s] = DOMAIN replica_metadata[s]
                 /\ \A j \in DOMAIN replica_metadata[s] :
                       \/ replica_metadata'[s][j] = replica_metadata[s][j]
                       \/ s = w /\ j = id[w] /\ replica_metadata'[s][j] = new
      <3>1. id[w] \in DOMAIN replica_metadata[w]
        BY <1>3 DEF UpdateHandler
      <3>2. PICK md : replica_metadata' = [replica_metadata EXCEPT ![w][id[w]] = md]
        BY <1>3 DEF UpdateHandler
      <3>3. \A t \in Replica \ {w} : replica_metadata'[t] = replica_metadata[t]
        BY <3>2 DEF IInv, TypeOK
      <3>4. /\ DOMAIN replica_metadata'[w] = DOMAIN replica_metadata[w]
            /\ \A j \in DOMAIN replica_metadata[w] \ {id[w]} :
                  replica_metadata'[w][j] = replica_metadata[w][j]
        BY <3>2 DEF IInv, TypeOK
      <3> QED
        BY <3>3, <3>4
    <2>3. OwnEntryOnly(w, new)
      BY <2>2 DEF OwnEntryOnly
    <2>4. (Versions!Publish(w) /\ w \in Owner) \/ UNCHANGED <<version, view>>
      BY <1>1, <2>1, <2>3, PublishStep
    <2> QED
      BY <2>4 DEF Versions!Next, Versions!vars
  <1>4. ASSUME NEW s \in Replica, NEW table, Refresh(s, table), log' = log
        PROVE  [Versions!Next]_Versions!vars
    <2>1. \A t \in Replica \ {s} : replica_metadata'[t] = replica_metadata[t]
      BY <1>4 DEF IInv, TypeOK, Refresh
    <2> QED
      BY <1>1, <1>4, <2>1, LearnStep DEF Versions!Next
  <1>5. CASE \E s, r \in Replica : \E k \in 1 .. Len(log[r]) : AddExternalReplica(s, r, k)
    BY <1>4, <1>5 DEF AddExternalReplica
  <1>6. CASE \E s, t \in Replica : UpdateLocalExternalPayload(s, t)
    BY <1>4, <1>6 DEF UpdateLocalExternalPayload
  <1>7. CASE UNCHANGED vars
    BY <1>7 DEF vars, Versions!vars, version, view, VersionOf, SameParts, Owner,
                Exclusive, Writers
  <1> QED
    BY <1>2, <1>3, <1>5, <1>6, <1>7 DEF Next

\* The counters keep the promise of OwnerVersions: whatever happens to the
\* snapshots, handlers learn published versions only and never go back.
THEOREM VersionsImplemented == Spec => ImplementsVersions
  <1>1. Init => Versions!Init
    <2> SUFFICES ASSUME Init PROVE Versions!Init
      OBVIOUS
    <2>1. version = [r \in Owner |-> 1]
      <3>1. \A r \in Owner : Len(log[r]) = 1
        BY DEF Init, Owner
      <3> QED
        BY <3>1 DEF version
    <2>2. view = [s \in Replica |-> [r \in Owner |-> 0]]
      BY DEF Init, view
    <2> QED
      BY <2>1, <2>2 DEF Versions!Init
  <1>2. IInv /\ [Next]_vars => [Versions!Next]_Versions!vars
    BY VersionsStep
  <1> QED
    BY <1>1, <1>2, Inductive, PTL DEF Spec, ImplementsVersions, Versions!Spec

=============================================================================
