------------------------ MODULE PNCounterData_proofs ------------------------
(***************************************************************************)
(* What the operators of PNCounterData return, for any width: the lemmas   *)
(* that the proofs about the modules with counters in them rest on.        *)
(***************************************************************************)
EXTENDS PNCounterData, TLAPS

-----------------------------------------------------------------------------
(* Metadata *)

\* Unsigned arithmetic stays within the payload type.
LEMMA WrapType == ASSUME NEW n \in Int PROVE Wrap(n) \in T
  BY WidthAssumption DEF Wrap, T

\* Parts and totals are natural numbers below the modulus.
LEMMA PartsType ==
    ASSUME NEW md \in Metadata
    PROVE  md.positivePayload \in Nat /\ md.negativePayload \in Nat
  BY WidthAssumption DEF Metadata, T

\* The setters change one part, and recompute the total.
LEMMA SetPayloadPType ==
    ASSUME NEW md \in Metadata, NEW n \in T
    PROVE  /\ SetPayloadP(md, n) \in Metadata
           /\ SetPayloadP(md, n).positivePayload = n
           /\ SetPayloadP(md, n).negativePayload = md.negativePayload
           /\ SetPayloadP(md, n).totalPayload = Wrap(n - md.negativePayload)
  <1>1. n - md.negativePayload \in Int
    BY WidthAssumption DEF Metadata, T
  <1>2. Wrap(n - md.negativePayload) \in T
    BY <1>1, WrapType
  <1> QED
    BY <1>2 DEF SetPayloadP, Metadata

\* Likewise for the negative part.
LEMMA SetPayloadNType ==
    ASSUME NEW md \in Metadata, NEW n \in T
    PROVE  /\ SetPayloadN(md, n) \in Metadata
           /\ SetPayloadN(md, n).positivePayload = md.positivePayload
           /\ SetPayloadN(md, n).negativePayload = n
           /\ SetPayloadN(md, n).totalPayload = Wrap(md.positivePayload - n)
  <1>1. md.positivePayload - n \in Int
    BY WidthAssumption DEF Metadata, T
  <1>2. Wrap(md.positivePayload - n) \in T
    BY <1>1, WrapType
  <1> QED
    BY <1>2 DEF SetPayloadN, Metadata

\* Counting up or down raises one part by the amount, if it does not wrap.
LEMMA IncreaseType ==
    ASSUME NEW md \in Metadata, NEW n \in Nat, md.positivePayload + n < Modulus
    PROVE  LET more == IncreasePayload(md, n)
           IN  /\ more \in Metadata
               /\ more.positivePayload = md.positivePayload + n
               /\ more.negativePayload = md.negativePayload
               /\ more.totalPayload = Wrap(more.positivePayload - more.negativePayload)
  <1> DEFINE p == md.positivePayload + n
  <1>1. /\ p \in T
        /\ Wrap(p) = p
    BY WidthAssumption DEF Metadata, T, Wrap
  <1>2. IncreasePayload(md, n) = SetPayloadP(md, Wrap(p))
    BY DEF IncreasePayload
  <1> HIDE DEF p
  <1>3. QED
    BY <1>1, <1>2, SetPayloadPType DEF p

\* Likewise for counting down.
LEMMA DecreaseType ==
    ASSUME NEW md \in Metadata, NEW n \in Nat, md.negativePayload + n < Modulus
    PROVE  LET less == DecreasePayload(md, n)
           IN  /\ less \in Metadata
               /\ less.positivePayload = md.positivePayload
               /\ less.negativePayload = md.negativePayload + n
               /\ less.totalPayload = Wrap(less.positivePayload - less.negativePayload)
  <1> DEFINE q == md.negativePayload + n
  <1>1. /\ q \in T
        /\ Wrap(q) = q
    BY WidthAssumption DEF Metadata, T, Wrap
  <1>2. DecreasePayload(md, n) = SetPayloadN(md, Wrap(q))
    BY DEF DecreasePayload
  <1> HIDE DEF q
  <1>3. QED
    BY <1>1, <1>2, SetPayloadNType DEF q

\* The merge is the least upper bound of the parts, and its total is theirs.
LEMMA FixConflictType ==
    ASSUME NEW known \in Metadata, NEW md \in Metadata
    PROVE  LET both == FixConflict(known, md)
           IN  /\ both \in Metadata
               /\ both.positivePayload
                     = Larger(known.positivePayload, md.positivePayload)
               /\ both.negativePayload
                     = Larger(known.negativePayload, md.negativePayload)
               /\ both.totalPayload
                     = Wrap(both.positivePayload - both.negativePayload)
  <1> DEFINE p == Larger(known.positivePayload, md.positivePayload)
             n == Larger(known.negativePayload, md.negativePayload)
             first == SetPayloadP(md, p)
  <1>1. p \in T /\ n \in T
    BY DEF Metadata, Larger
  <1> HIDE DEF p, n
  <1>2. /\ first \in Metadata
        /\ first.positivePayload = p
    BY <1>1, SetPayloadPType
  <1>3. FixConflict(known, md) = SetPayloadN(first, n)
    BY DEF FixConflict, p, n
  <1> HIDE DEF first
  <1>4. QED
    BY <1>1, <1>2, <1>3, SetPayloadNType DEF p, n

-----------------------------------------------------------------------------
(* Order *)

\* "No part is larger" is transitive.
LEMMA AtMostTransitive ==
    ASSUME NEW m1 \in Metadata, NEW m2 \in Metadata, NEW m3 \in Metadata,
           AtMost(m1, m2), AtMost(m2, m3)
    PROVE  AtMost(m1, m3)
  <1>1. /\ m1.positivePayload \in Int /\ m1.negativePayload \in Int
        /\ m2.positivePayload \in Int /\ m2.negativePayload \in Int
        /\ m3.positivePayload \in Int /\ m3.negativePayload \in Int
    BY WidthAssumption DEF Metadata, T
  <1> QED
    BY <1>1 DEF AtMost

\* Every metadata has no larger parts than itself.
LEMMA AtMostReflexive == ASSUME NEW md \in Metadata PROVE AtMost(md, md)
  BY PartsType DEF AtMost

\* A merge has no part less than those it merges, and a total that is theirs.
LEMMA FixConflictGrows ==
    ASSUME NEW known \in Metadata, NEW md \in Metadata
    PROVE  LET both == FixConflict(known, md)
           IN  AtMost(known, both) /\ AtMost(md, both) /\ Consistent(both)
  <1> DEFINE both == FixConflict(known, md)
  <1>1. /\ both.positivePayload = Larger(known.positivePayload, md.positivePayload)
        /\ both.negativePayload = Larger(known.negativePayload, md.negativePayload)
        /\ both.totalPayload = Wrap(both.positivePayload - both.negativePayload)
    BY FixConflictType
  <1> HIDE DEF both
  <1>2. /\ known.positivePayload \in Nat /\ known.negativePayload \in Nat
        /\ md.positivePayload \in Nat /\ md.negativePayload \in Nat
    BY PartsType
  <1> QED
    BY <1>1, <1>2 DEF AtMost, Larger, Consistent, both

\* A newer state of one writer replaces an older one.
LEMMA FixConflictNewer ==
    ASSUME NEW known \in Metadata, NEW md \in Metadata, AtMost(known, md), Consistent(md)
    PROVE  FixConflict(known, md) = md
  <1> DEFINE both == FixConflict(known, md)
  <1>1. /\ both \in Metadata
        /\ both.positivePayload = Larger(known.positivePayload, md.positivePayload)
        /\ both.negativePayload = Larger(known.negativePayload, md.negativePayload)
        /\ both.totalPayload = Wrap(both.positivePayload - both.negativePayload)
    BY FixConflictType
  <1> HIDE DEF both
  <1>2. /\ known.positivePayload \in Nat /\ known.negativePayload \in Nat
        /\ md.positivePayload \in Nat /\ md.negativePayload \in Nat
    BY PartsType
  <1>3. both.positivePayload = md.positivePayload /\ both.negativePayload = md.negativePayload
    BY <1>1, <1>2 DEF AtMost, Larger
  <1>4. both.totalPayload = md.totalPayload
    BY <1>1, <1>3 DEF Consistent
  <1> QED
    BY <1>1, <1>3, <1>4 DEF Metadata, both

-----------------------------------------------------------------------------
(* Tables *)

\* Merging one metadata changes one entry, which becomes no smaller than either, and
\* has a total of its own if the id was known.
LEMMA MergedFacts ==
    ASSUME NEW table, table \in [DOMAIN table -> Metadata], NEW i, NEW md \in Metadata
    PROVE  LET merged == Merged(table, i, md)
           IN  /\ DOMAIN merged = DOMAIN table \cup {i}
               /\ merged \in [DOMAIN merged -> Metadata]
               /\ Grows(table, merged)
               /\ AtMost(md, merged[i])
               /\ \A j \in DOMAIN table \ {i} : merged[j] = table[j]
               /\ merged[i] = IF i \in DOMAIN table THEN FixConflict(table[i], md) ELSE md
               /\ i \in DOMAIN table => Consistent(merged[i])
  <1> DEFINE merged == Merged(table, i, md)
  <1>1. /\ DOMAIN merged = DOMAIN table \cup {i}
        /\ merged = [j \in DOMAIN merged |-> merged[j]]
        /\ \A j \in DOMAIN table \ {i} : merged[j] = table[j]
        /\ merged[i] = IF i \in DOMAIN table THEN FixConflict(table[i], md) ELSE md
    BY DEF Merged
  <1> HIDE DEF merged
  <1>2. /\ merged[i] \in Metadata /\ AtMost(md, merged[i])
        /\ i \in DOMAIN table => AtMost(table[i], merged[i]) /\ Consistent(merged[i])
    <2>1. CASE i \in DOMAIN table
      BY <1>1, <2>1, FixConflictType, FixConflictGrows
    <2>2. CASE i \notin DOMAIN table
      BY <1>1, <2>2, AtMostReflexive
    <2> QED BY <2>1, <2>2
  <1>3. \A j \in DOMAIN table : AtMost(table[j], merged[j])
    BY <1>1, <1>2, AtMostReflexive
  <1>4. \A j \in DOMAIN merged : merged[j] \in Metadata
    BY <1>1, <1>2
  <1> QED
    BY <1>1, <1>2, <1>3, <1>4 DEF Grows, merged

=============================================================================
