-------------------------- MODULE StateTypesData_proofs --------------------------
(***************************************************************************)
(* What the operators of StateTypesData return, for any elements: sums and *)
(* maxima, and the order by which each type's merge is a least upper       *)
(* bound.                                                                  *)
(***************************************************************************)
EXTENDS StateTypesData, FiniteSetTheorems, SequenceTheorems, TLAPS

-----------------------------------------------------------------------------
(* Finite sets *)

\* Among subsets of a finite set, one has no other below it.
LEMMA MinimalSubset ==
    ASSUME NEW S, IsFiniteSet(S), NEW Bad \in SUBSET SUBSET S, Bad # {}
    PROVE  \E least \in Bad : \A t \in SUBSET least : t # least => t \notin Bad
  <1>1. FiniteSubsetsOf(S) = SUBSET S
    BY FS_FiniteSubsetsOfFinite
  <1>2. IsWellFoundedOn(StrictSubsetOrdering(S), SUBSET S)
    BY <1>1, FS_StrictSubsetOrderingWellFounded
  <1>3. PICK least \in Bad : \A t \in Bad : ~(<<t, least>> \in StrictSubsetOrdering(S))
    BY <1>2, WFMin
  <1>4. ASSUME NEW t \in SUBSET least, t # least PROVE t \notin Bad
    <2>1. <<t, least>> \in StrictSubsetOrdering(S)
      BY <1>4 DEF StrictSubsetOrdering
    <2> QED BY <1>3, <2>1
  <1> QED BY <1>4

\* Induction over the subsets of a finite set, for a set of subsets: it holds the whole if
\* it holds the empty set, and with each of its members the member and one element more.
LEMMA SubsetInduction ==
    ASSUME NEW S, IsFiniteSet(S), NEW Good, {} \in Good,
           \A small \in SUBSET S, x \in S :
              small \in Good /\ x \notin small => small \cup {x} \in Good
    PROVE  S \in Good
  <1> DEFINE Bad == {t \in SUBSET S : t \notin Good}
  <1> SUFFICES ASSUME S \notin Good PROVE FALSE
    OBVIOUS
  <1>1. Bad # {} /\ Bad \subseteq SUBSET S
    OBVIOUS
  <1>2. PICK least \in Bad : \A t \in SUBSET least : t # least => t \notin Bad
    <2> HIDE DEF Bad
    <2> QED BY <1>1, MinimalSubset
  <1>3. least \in SUBSET S /\ least \notin Good
    OBVIOUS
  <1>4. PICK x \in least : TRUE
    BY <1>3
  <1>5. least \ {x} \in Good
    <2>1. least \ {x} \subseteq least /\ least \ {x} # least
      BY <1>4
    <2> QED BY <1>2, <1>3, <2>1
  <1>6. (least \ {x}) \cup {x} \in Good
    BY <1>3, <1>4, <1>5
  <1>7. (least \ {x}) \cup {x} = least
    BY <1>4
  <1> QED BY <1>3, <1>6, <1>7

\* The greater of two numbers.
LEMMA MaxOfTwo ==
    ASSUME NEW m \in Int, NEW n \in Int
    PROVE  Max({m, n}) = IF m >= n THEN m ELSE n
  BY DEF Max

\* A finite set of numbers that is not empty has a greatest.
LEMMA MaxFacts ==
    ASSUME NEW S, IsFiniteSet(S), S \subseteq Int, S # {}
    PROVE  Max(S) \in S /\ \A n \in S : Max(S) >= n
  <1> DEFINE Good == {t \in SUBSET S : t # {} => \E m \in t : \A n \in t : m >= n}
  <1>1. {} \in Good
    OBVIOUS
  <1>2. ASSUME NEW small \in SUBSET S, NEW x \in S, small \in Good, x \notin small
        PROVE  small \cup {x} \in Good
    <2>1. CASE small = {}
      BY <2>1
    <2>2. CASE small # {}
      <3>1. PICK m \in small : \A n \in small : m >= n
        BY <1>2, <2>2
      <3> DEFINE top == IF m >= x THEN m ELSE x
      <3>2. top \in small \cup {x} /\ \A n \in small \cup {x} : top >= n
        BY <3>1
      <3> QED BY <3>2
    <2> QED BY <2>1, <2>2
  <1> HIDE DEF Good
  <1>3. S \in Good
    BY <1>1, <1>2, SubsetInduction
  <1>4. \E m \in S : \A n \in S : m >= n
    BY <1>3 DEF Good
  <1> QED BY <1>4 DEF Max

\* Induction over the numbers up to n, for a set of numbers.
LEMMA UpToInduction ==
    ASSUME NEW n \in Nat, NEW Good, 0 \in Good,
           \A i \in 1 .. n : i - 1 \in Good => i \in Good
    PROVE  \A i \in 0 .. n : i \in Good
  <1> SUFFICES ASSUME NEW wrong \in 0 .. n, wrong \notin Good PROVE FALSE
    OBVIOUS
  <1> DEFINE Bad == {0 .. i : i \in {i \in 0 .. n : i \notin Good}}
  <1>1. Bad \in SUBSET SUBSET (0 .. n) /\ Bad # {} /\ IsFiniteSet(0 .. n)
    <2>1. IsFiniteSet(0 .. n)
      BY FS_Interval
    <2>2. \A i \in 0 .. n : 0 .. i \in SUBSET (0 .. n)
      OBVIOUS
    <2>3. 0 .. wrong \in Bad
      OBVIOUS
    <2> QED BY <2>1, <2>2, <2>3
  <1>2. PICK least \in Bad : \A t \in SUBSET least : t # least => t \notin Bad
    <2> HIDE DEF Bad
    <2> QED BY <1>1, MinimalSubset
  <1>3. PICK i \in 0 .. n : i \notin Good /\ least = 0 .. i
    OBVIOUS
  <1>4. i \in 1 .. n /\ i - 1 \in 0 .. n /\ i - 1 \notin Good
    BY <1>3
  <1>5. 0 .. i - 1 \in Bad
    BY <1>4
  <1>6. 0 .. i - 1 \in SUBSET least
    BY <1>3, <1>4
  <1>7. 0 .. i - 1 # least
    BY <1>3, <1>4
  <1> QED BY <1>2, <1>5, <1>6, <1>7

-----------------------------------------------------------------------------
(* Folds over sequences, which the community modules define on sets of places *)

\* The greatest of the first places is the last.
LEMMA PrefixFacts ==
    ASSUME NEW n \in Nat, NEW i \in 1 .. n
    PROVE  /\ 1 .. i \in SUBSET (1 .. n) /\ 1 .. i # {} /\ Max(1 .. i) = i
           /\ (1 .. i) \ {i} = 1 .. (i - 1)
  <1>1. IsFiniteSet(1 .. i) /\ 1 .. i \subseteq Int /\ i \in 1 .. i
    BY FS_Interval
  <1>2. Max(1 .. i) \in 1 .. i /\ Max(1 .. i) >= i
    BY <1>1, MaxFacts
  <1> QED BY <1>1, <1>2

\* The function by which such a fold of n steps is defined: F[i] is the step at place i.
IsFold(n, A, base, F, iter) ==
    /\ iter \in [SUBSET (1 .. n) -> A]
    /\ \A s \in SUBSET (1 .. n) :
          iter[s] = IF s = {} THEN base ELSE F[Max(s)][iter[s \ {Max(s)}]]

\* It exists.
LEMMA FoldExists ==
    ASSUME NEW n \in Nat, NEW A, NEW base \in A, NEW F \in [1 .. n -> [A -> A]]
    PROVE  \E iter : IsFold(n, A, base, F, iter)
  <1> DEFINE Fits(m, f) ==
               \A s \in SUBSET (1 .. m) :
                  f[s] = IF s = {} THEN base ELSE F[Max(s)][f[s \ {Max(s)}]]
             Good == {m \in 0 .. n : \E f \in [SUBSET (1 .. m) -> A] : Fits(m, f)}
  <1>1. 0 \in Good
    <2>1. SUBSET (1 .. 0) = {{}}
      OBVIOUS
    <2>2. PICK f : f = [s \in {{}} |-> base]
      OBVIOUS
    <2>3. f \in [SUBSET (1 .. 0) -> A] /\ Fits(0, f)
      BY <2>1, <2>2
    <2>4. \E h \in [SUBSET (1 .. 0) -> A] : Fits(0, h)
      BY <2>3
    <2>5. 0 \in 0 .. n
      OBVIOUS
    <2> HIDE DEF Fits
    <2> QED BY <2>4, <2>5, Zenon
  <1>2. ASSUME NEW m \in 1 .. n, m - 1 \in Good PROVE m \in Good
    <2>1. PICK f \in [SUBSET (1 .. m - 1) -> A] : Fits(m - 1, f)
      BY <1>2
    <2>2. PICK g : g = [s \in SUBSET (1 .. m) |-> IF m \in s THEN F[m][f[s \ {m}]] ELSE f[s]]
      OBVIOUS
    <2>3. ASSUME NEW s \in SUBSET (1 .. m)
          PROVE  /\ g[s] \in A
                 /\ g[s] = IF s = {} THEN base ELSE F[Max(s)][g[s \ {Max(s)}]]
      <3>1. g[s] = IF m \in s THEN F[m][f[s \ {m}]] ELSE f[s]
        BY <2>2
      <3>2. CASE m \in s
        <4>1. IsFiniteSet(s) /\ s \subseteq Int /\ s # {}
          <5>1. IsFiniteSet(1 .. m) /\ 1 .. m \subseteq Int
            BY FS_Interval
          <5>2. IsFiniteSet(s)
            BY <5>1, FS_Subset
          <5> QED BY <3>2, <5>1, <5>2
        <4>2. Max(s) = m
          <5>1. Max(s) \in s /\ Max(s) >= m
            BY <3>2, <4>1, MaxFacts
          <5>2. Max(s) \in 1 .. m
            BY <5>1
          <5>3. PICK top : top = Max(s)
            OBVIOUS
          <5> QED BY <5>1, <5>2, <5>3
        <4>3. s \ {m} \in SUBSET (1 .. m - 1) /\ s \ {m} \in SUBSET (1 .. m) /\ m \notin s \ {m}
          OBVIOUS
        <4>4. g[s \ {m}] = f[s \ {m}] /\ f[s \ {m}] \in A
          BY <2>2, <4>3
        <4>5. F[m][f[s \ {m}]] \in A
          BY <4>4
        <4> QED BY <3>1, <3>2, <4>1, <4>2, <4>4, <4>5
      <3>3. CASE m \notin s
        <4>1. s \in SUBSET (1 .. m - 1)
          BY <3>3
        <4>2. f[s] \in A /\ f[s] = IF s = {} THEN base ELSE F[Max(s)][f[s \ {Max(s)}]]
          BY <2>1, <4>1
        <4>3. s \ {Max(s)} \in SUBSET (1 .. m) /\ m \notin s \ {Max(s)}
          BY <3>3
        <4>4. g[s \ {Max(s)}] = f[s \ {Max(s)}]
          BY <2>2, <4>3
        <4> QED BY <3>1, <3>3, <4>2, <4>4
      <3> QED BY <3>2, <3>3
    <2>4. g \in [SUBSET (1 .. m) -> A]
      BY <2>2, <2>3
    <2>5. Fits(m, g)
      BY <2>3
    <2>6. \E h \in [SUBSET (1 .. m) -> A] : Fits(m, h)
      BY <2>4, <2>5
    <2> HIDE DEF Fits
    <2> QED BY <2>6
  <1>3. n \in Good
    <2>1. n \in 0 .. n
      OBVIOUS
    <2> HIDE DEF Good
    <2> QED BY <1>1, <1>2, <2>1, UpToInduction
  <1>4. PICK iter \in [SUBSET (1 .. n) -> A] : Fits(n, iter)
    BY <1>3
  <1>5. IsFold(n, A, base, F, iter)
    BY <1>4 DEF IsFold
  <1> QED BY <1>5

\* The places of a sequence in the order in which a fold takes them.
LEMMA FoldSteps ==
    ASSUME NEW n \in Nat, NEW i \in 1 .. n, NEW iter
    PROVE  /\ 1 .. i \in SUBSET (1 .. n) /\ 1 .. i # {} /\ Max(1 .. i) = i
           /\ iter[(1 .. i) \ {i}] = iter[1 .. (i - 1)]
  BY PrefixFacts

-----------------------------------------------------------------------------
(* Sums *)

First(s) == CHOOSE x \in s : TRUE

\* What the fold computes for every subset of D, from smaller to larger ones.
IsIter(fun, iter, D) ==
    iter = [s \in SUBSET D |->
              IF s = {} THEN 0 ELSE fun[First(s)] + iter[s \ {First(s)}]]

\* The sum is what that computation has for the whole.
LEMMA SumIsIter ==
    ASSUME NEW fun, NEW S
    PROVE  SumFunctionOnSet(fun, S) = (CHOOSE iter : IsIter(fun, iter, S))[S]
  BY DEF SumFunctionOnSet, FoldFunctionOnSet, MapThenFoldSet, IsIter, First

\* There is one such computation,
LEMMA IterUnique ==
    ASSUME NEW fun, NEW D, IsFiniteSet(D), NEW g, NEW h,
           IsIter(fun, g, D), IsIter(fun, h, D)
    PROVE  g = h
  <1> DEFINE Bad == {s \in SUBSET D : g[s] # h[s]}
  <1>1. g = [s \in SUBSET D |-> g[s]] /\ h = [s \in SUBSET D |-> h[s]]
    BY DEF IsIter
  <1>2. ASSUME Bad # {} PROVE FALSE
    <2>1. PICK least \in Bad : \A t \in SUBSET least : t # least => t \notin Bad
      <3>1. Bad \in SUBSET SUBSET D
        OBVIOUS
      <3> HIDE DEF Bad
      <3> QED BY <1>2, <3>1, MinimalSubset
    <2>2. least # {}
      BY DEF IsIter
    <2> DEFINE rest == least \ {First(least)}
    <2>3. rest \in SUBSET least /\ rest # least
      BY <2>2 DEF First
    <2>4. g[rest] = h[rest]
      BY <2>1, <2>3
    <2>5. g[least] = fun[First(least)] + g[rest] /\ h[least] = fun[First(least)] + h[rest]
      BY <2>2 DEF IsIter
    <2> QED BY <2>1, <2>4, <2>5
  <1> QED BY <1>1, <1>2

\* and there is one.
LEMMA IterExists ==
    ASSUME NEW fun, NEW S, IsFiniteSet(S)
    PROVE  \E iter : IsIter(fun, iter, S)
  <1> DEFINE Bad == {t \in SUBSET S : ~ \E iter : IsIter(fun, iter, t)}
             The(t) == CHOOSE iter : IsIter(fun, iter, t)
  <1> SUFFICES ASSUME Bad # {} PROVE FALSE
    OBVIOUS
  <1>1. PICK least \in Bad : \A t \in SUBSET least : t # least => t \notin Bad
    <2>1. Bad \in SUBSET SUBSET S
      OBVIOUS
    <2> HIDE DEF Bad
    <2> QED BY <2>1, MinimalSubset
  <1>2. least \in SUBSET S
    BY <1>1
  <1>3. \A t \in SUBSET least : t # least => IsIter(fun, The(t), t)
    BY <1>1, <1>2
  <1>4. \A t \in SUBSET least : IsFiniteSet(t)
    BY <1>2, FS_Subset
  <1> HIDE DEF The
  <1>5. ASSUME NEW t \in SUBSET least, t # least, t # {}
        PROVE  The(t)[t] = fun[First(t)] + The(t \ {First(t)})[t \ {First(t)}]
    <2> DEFINE rest == t \ {First(t)}
               part == [s \in SUBSET rest |-> The(t)[s]]
    <2>1. rest \in SUBSET t /\ rest # t /\ First(t) \in t
      BY <1>5 DEF First
    <2>2. rest \in SUBSET least /\ rest # least
      BY <2>1, <1>5
    <2>3. IsIter(fun, The(t), t) /\ IsIter(fun, The(rest), rest)
      BY <1>3, <1>5, <2>2
    <2>4. IsIter(fun, part, rest)
      <3>1. \A s \in SUBSET rest : s # {} => s \ {First(s)} \in SUBSET rest
        OBVIOUS
      <3>2. \A s \in SUBSET rest :
               The(t)[s] = IF s = {} THEN 0 ELSE fun[First(s)] + The(t)[s \ {First(s)}]
        BY <2>1, <2>3 DEF IsIter
      <3> QED BY <3>1, <3>2 DEF IsIter
    <2>5. part = The(rest)
      BY <1>4, <2>2, <2>3, <2>4, IterUnique
    <2>6. The(t)[rest] = The(rest)[rest]
      BY <2>5
    <2> QED BY <1>5, <2>3, <2>6 DEF IsIter
  <1> DEFINE whole == [s \in SUBSET least |->
                         IF s = {} THEN 0
                         ELSE fun[First(s)] + The(s \ {First(s)})[s \ {First(s)}]]
  <1>6. ASSUME NEW t \in SUBSET least, t # least PROVE whole[t] = The(t)[t]
    <2>1. CASE t = {}
      BY <1>3, <1>6, <2>1 DEF IsIter
    <2> QED BY <1>5, <1>6, <2>1
  <1>7. IsIter(fun, whole, least)
    <2>1. ASSUME NEW s \in SUBSET least, s # {}
          PROVE  whole[s \ {First(s)}] = The(s \ {First(s)})[s \ {First(s)}]
      <3>1. s \ {First(s)} \in SUBSET least /\ s \ {First(s)} # least
        BY <2>1 DEF First
      <3> HIDE DEF whole
      <3> QED BY <1>6, <3>1
    <2> QED BY <2>1 DEF IsIter
  <1> QED BY <1>1, <1>7

\* A sum is any of its first elements and the sum of the others.
LEMMA SumByFirst ==
    ASSUME NEW fun, NEW S, IsFiniteSet(S)
    PROVE  SumFunctionOnSet(fun, S) =
              IF S = {} THEN 0
              ELSE fun[First(S)] + SumFunctionOnSet(fun, S \ {First(S)})
  <1> DEFINE The(t) == CHOOSE iter : IsIter(fun, iter, t)
  <1>1. \A t \in SUBSET S : IsIter(fun, The(t), t)
    BY IterExists, FS_Subset
  <1>2. \A t : SumFunctionOnSet(fun, t) = The(t)[t]
    BY SumIsIter
  <1> HIDE DEF The
  <1>3. CASE S = {}
    BY <1>1, <1>2, <1>3 DEF IsIter
  <1>4. CASE S # {}
    <2> DEFINE rest == S \ {First(S)}
               part == [s \in SUBSET rest |-> The(S)[s]]
    <2>1. rest \in SUBSET S /\ IsFiniteSet(rest)
      BY FS_Subset
    <2>2. IsIter(fun, The(S), S) /\ IsIter(fun, The(rest), rest)
      BY <1>1, <2>1
    <2>3. IsIter(fun, part, rest)
      <3>1. \A s \in SUBSET rest : s # {} => s \ {First(s)} \in SUBSET rest
        OBVIOUS
      <3>2. \A s \in SUBSET rest :
               The(S)[s] = IF s = {} THEN 0 ELSE fun[First(s)] + The(S)[s \ {First(s)}]
        BY <2>1, <2>2 DEF IsIter
      <3> QED BY <3>1, <3>2 DEF IsIter
    <2>4. part = The(rest)
      BY <2>1, <2>2, <2>3, IterUnique
    <2>5. The(S)[rest] = The(rest)[rest]
      BY <2>4
    <2>6. The(S)[S] = fun[First(S)] + The(S)[rest]
      BY <1>4, <2>2 DEF IsIter
    <2>7. SumFunctionOnSet(fun, S) = The(S)[S] /\ SumFunctionOnSet(fun, rest) = The(rest)[rest]
      BY <1>2
    <2> QED BY <1>4, <2>5, <2>6, <2>7
  <1> QED BY <1>3, <1>4

\* A sum of natural numbers is one.
LEMMA SumType ==
    ASSUME NEW fun, NEW S, IsFiniteSet(S), \A x \in S : fun[x] \in Nat
    PROVE  SumFunctionOnSet(fun, S) \in Nat
  <1> DEFINE Bad == {t \in SUBSET S : SumFunctionOnSet(fun, t) \notin Nat}
  <1> SUFFICES ASSUME Bad # {} PROVE FALSE
    OBVIOUS
  <1>1. PICK least \in Bad : \A t \in SUBSET least : t # least => t \notin Bad
    <2>1. Bad \in SUBSET SUBSET S
      OBVIOUS
    <2> HIDE DEF Bad
    <2> QED BY <2>1, MinimalSubset
  <1>2. least \in SUBSET S /\ IsFiniteSet(least)
    BY <1>1, FS_Subset
  <1> DEFINE rest == least \ {First(least)}
  <1>3. SumFunctionOnSet(fun, least) =
           IF least = {} THEN 0 ELSE fun[First(least)] + SumFunctionOnSet(fun, rest)
    BY <1>2, SumByFirst
  <1>4. CASE least # {}
    <2>1. First(least) \in least /\ rest \in SUBSET least /\ rest # least
      BY <1>4 DEF First
    <2>2. SumFunctionOnSet(fun, rest) \in Nat
      BY <1>1, <1>2, <2>1
    <2> QED BY <1>1, <1>2, <1>3, <1>4, <2>1, <2>2
  <1> QED BY <1>1, <1>3, <1>4

\* A sum can be taken in any order.
LEMMA SumByAny ==
    ASSUME NEW fun, NEW S, IsFiniteSet(S), \A x \in S : fun[x] \in Nat, NEW x \in S
    PROVE  SumFunctionOnSet(fun, S) = fun[x] + SumFunctionOnSet(fun, S \ {x})
  <1> DEFINE Sum(t) == SumFunctionOnSet(fun, t)
             Bad == {t \in SUBSET S : ~ \A y \in t : Sum(t) = fun[y] + Sum(t \ {y})}
  <1> SUFFICES ASSUME Bad # {} PROVE FALSE
    OBVIOUS
  <1>0. \A t \in SUBSET S : IsFiniteSet(t) /\ Sum(t) \in Nat
    BY FS_Subset, SumType
  <1>1. \A t \in SUBSET S : Sum(t) = IF t = {} THEN 0 ELSE fun[First(t)] + Sum(t \ {First(t)})
    BY <1>0, SumByFirst
  <1> HIDE DEF Sum
  <1>2. PICK least \in Bad : \A t \in SUBSET least : t # least => t \notin Bad
    <2>1. Bad \in SUBSET SUBSET S
      OBVIOUS
    <2> HIDE DEF Bad
    <2> QED BY <2>1, MinimalSubset
  <1>3. least \in SUBSET S
    BY <1>2
  <1>4. PICK y \in least : Sum(least) # fun[y] + Sum(least \ {y})
    BY <1>2
  <1> DEFINE z == First(least)
  <1>5. z \in least /\ Sum(least) = fun[z] + Sum(least \ {z})
    BY <1>1, <1>3, <1>4 DEF First
  <1> HIDE DEF z
  <1>6. y # z
    BY <1>4, <1>5
  <1>7. Sum(least \ {z}) = fun[y] + Sum((least \ {z}) \ {y})
    <2>1. least \ {z} \in SUBSET least /\ least \ {z} # least /\ y \in least \ {z}
      BY <1>4, <1>5, <1>6
    <2> QED BY <1>2, <1>3, <2>1
  <1>8. Sum(least \ {y}) = fun[z] + Sum((least \ {y}) \ {z})
    <2>1. least \ {y} \in SUBSET least /\ least \ {y} # least /\ z \in least \ {y}
      BY <1>4, <1>5, <1>6
    <2> QED BY <1>2, <1>3, <2>1
  <1>9. (least \ {z}) \ {y} = (least \ {y}) \ {z}
    OBVIOUS
  <1>10. Sum((least \ {y}) \ {z}) \in Nat /\ fun[y] \in Nat /\ fun[z] \in Nat
    <2>1. (least \ {y}) \ {z} \in SUBSET S
      BY <1>3
    <2>2. y \in S /\ z \in S
      BY <1>3, <1>5
    <2> QED BY <1>0, <2>1, <2>2
  <1>11. Sum(least \ {z}) = fun[y] + Sum((least \ {y}) \ {z})
    BY <1>7, <1>9
  <1> QED BY <1>4, <1>5, <1>8, <1>10, <1>11

\* A sum is no less than any of its elements.
LEMMA SumBounds ==
    ASSUME NEW fun, IsFiniteSet(DOMAIN fun), \A x \in DOMAIN fun : fun[x] \in Nat
    PROVE  /\ SumFunction(fun) \in Nat
           /\ \A x \in DOMAIN fun : SumFunction(fun) >= fun[x]
  <1>1. SumFunctionOnSet(fun, DOMAIN fun) \in Nat
    BY SumType
  <1>2. ASSUME NEW x \in DOMAIN fun PROVE SumFunctionOnSet(fun, DOMAIN fun) >= fun[x]
    <2>1. SumFunctionOnSet(fun, DOMAIN fun) = fun[x] + SumFunctionOnSet(fun, DOMAIN fun \ {x})
      BY SumByAny
    <2>2. SumFunctionOnSet(fun, DOMAIN fun \ {x}) \in Nat
      <3>1. IsFiniteSet(DOMAIN fun \ {x})
        BY FS_Subset
      <3> QED BY <3>1, SumType
    <2> QED BY <2>1, <2>2
  <1> QED BY <1>1, <1>2 DEF SumFunction

\* A sum with one more number.
LEMMA SumExtended ==
    ASSUME NEW fun, NEW S, IsFiniteSet(S), \A x \in S : fun[x] \in Nat,
           NEW small \in SUBSET S, NEW x \in S, x \notin small
    PROVE  SumFunctionOnSet(fun, small \cup {x}) = fun[x] + SumFunctionOnSet(fun, small)
  <1>1. PICK more : more = small \cup {x}
    OBVIOUS
  <1>2. /\ more \in SUBSET S /\ x \in more /\ more \ {x} = small
        /\ \A y \in more : fun[y] \in Nat
    BY <1>1
  <1>3. IsFiniteSet(more)
    BY <1>2, FS_Subset
  <1>4. SumFunctionOnSet(fun, more) = fun[x] + SumFunctionOnSet(fun, more \ {x})
    BY <1>2, <1>3, SumByAny
  <1> QED BY <1>1, <1>2, <1>4

\* Where no number is less, the sum is not; a sum over more numbers is no less.
LEMMA SumOrder ==
    ASSUME NEW fun, NEW gun, NEW D, IsFiniteSet(D), NEW S \in SUBSET D,
           \A x \in D : gun[x] \in Nat,
           \A x \in S : fun[x] \in Nat /\ fun[x] <= gun[x]
    PROVE  SumFunctionOnSet(fun, S) <= SumFunctionOnSet(gun, D)
  <1> DEFINE Good == {t \in SUBSET D : SumFunctionOnSet(fun, t \cap S) <= SumFunctionOnSet(gun, t)}
  <1>1. \A t \in SUBSET D : IsFiniteSet(t) /\ IsFiniteSet(t \cap S)
    BY FS_Subset
  <1>2. IsFiniteSet(S)
    BY FS_Subset
  <1>3. {} \in Good
    <2>1. SumFunctionOnSet(fun, {}) = 0 /\ SumFunctionOnSet(gun, {}) = 0
      BY FS_EmptySet, SumByFirst
    <2>2. {} \cap S = {}
      OBVIOUS
    <2> QED BY <2>1, <2>2
  <1>4. ASSUME NEW small \in SUBSET D, NEW x \in D, small \in Good, x \notin small
        PROVE  small \cup {x} \in Good
    <2>1. SumFunctionOnSet(gun, small \cup {x}) = gun[x] + SumFunctionOnSet(gun, small)
      BY <1>4, SumExtended
    <2>2. /\ SumFunctionOnSet(gun, small) \in Nat /\ gun[x] \in Nat
          /\ SumFunctionOnSet(fun, small \cap S) \in Nat
      BY <1>1, SumType
    <2>3. SumFunctionOnSet(fun, small \cap S) <= SumFunctionOnSet(gun, small)
      BY <1>4
    <2>4. CASE x \in S
      <3>1. PICK part \in SUBSET S : part = small \cap S
        OBVIOUS
      <3>2. SumFunctionOnSet(fun, part \cup {x}) = fun[x] + SumFunctionOnSet(fun, part)
        BY <1>2, <1>4, <2>4, <3>1, SumExtended
      <3>3. (small \cup {x}) \cap S = part \cup {x}
        BY <2>4, <3>1
      <3>4. SumFunctionOnSet(fun, (small \cup {x}) \cap S)
               = fun[x] + SumFunctionOnSet(fun, small \cap S)
        BY <3>1, <3>2, <3>3
      <3>5. fun[x] \in Nat /\ fun[x] <= gun[x]
        BY <2>4
      <3>6. SumFunctionOnSet(fun, (small \cup {x}) \cap S) <= SumFunctionOnSet(gun, small \cup {x})
        BY <2>1, <2>2, <2>3, <3>4, <3>5
      <3> QED BY <3>6
    <2>5. CASE x \notin S
      <3>1. (small \cup {x}) \cap S = small \cap S
        BY <2>5
      <3> QED BY <2>1, <2>2, <2>3, <3>1
    <2> QED BY <2>4, <2>5
  <1>5. D \in Good
    <2> HIDE DEF Good
    <2> QED BY <1>3, <1>4, SubsetInduction
  <1>6. D \cap S = S
    OBVIOUS
  <1> QED BY <1>5, <1>6

\* Nothing adds up to more than nothing.
LEMMA SumOfZeros ==
    ASSUME NEW fun, NEW S, IsFiniteSet(S), \A x \in S : fun[x] = 0
    PROVE  SumFunctionOnSet(fun, S) = 0
  <1> DEFINE Good == {t \in SUBSET S : SumFunctionOnSet(fun, t) = 0}
  <1>1. {} \in Good
    BY FS_EmptySet, SumByFirst
  <1>2. ASSUME NEW small \in SUBSET S, NEW x \in S, small \in Good, x \notin small
        PROVE  small \cup {x} \in Good
    <2>1. SumFunctionOnSet(fun, small \cup {x}) = fun[x] + SumFunctionOnSet(fun, small)
      BY <1>2, SumExtended
    <2> QED BY <1>2, <2>1
  <1>3. S \in Good
    <2> HIDE DEF Good
    <2> QED BY <1>1, <1>2, SubsetInduction
  <1> QED BY <1>3

\* One number that is one more makes the sum one more.
LEMMA SumOfOneMore ==
    ASSUME NEW fun, NEW gun, NEW S, IsFiniteSet(S), \A x \in S : fun[x] \in Nat, NEW y \in S,
           gun[y] = fun[y] + 1, \A x \in S : x # y => gun[x] = fun[x]
    PROVE  SumFunctionOnSet(gun, S) = SumFunctionOnSet(fun, S) + 1
  <1> DEFINE rest == S \ {y}
  <1>1. \A x \in S : gun[x] \in Nat
    OBVIOUS
  <1>2. IsFiniteSet(rest)
    BY FS_Subset
  <1>3. /\ SumFunctionOnSet(fun, S) = fun[y] + SumFunctionOnSet(fun, rest)
        /\ SumFunctionOnSet(gun, S) = gun[y] + SumFunctionOnSet(gun, rest)
    BY <1>1, SumByAny
  <1>4. /\ SumFunctionOnSet(fun, rest) \in Nat /\ SumFunctionOnSet(gun, rest) \in Nat
    BY <1>1, <1>2, SumType
  <1>5. /\ \A x \in rest : /\ fun[x] \in Nat /\ gun[x] \in Nat
                           /\ fun[x] <= gun[x] /\ gun[x] <= fun[x]
        /\ rest \in SUBSET rest
    BY <1>1
  <1> HIDE DEF rest
  <1>6. SumFunctionOnSet(fun, rest) <= SumFunctionOnSet(gun, rest)
    BY <1>2, <1>5, SumOrder
  <1>7. SumFunctionOnSet(gun, rest) <= SumFunctionOnSet(fun, rest)
    BY <1>2, <1>5, SumOrder
  <1> QED BY <1>3, <1>4, <1>6, <1>7

-----------------------------------------------------------------------------
(* Multisets *)

\* No element has more copies in the first.
FewerCopies(bag1, bag2) == \A e \in Element : bag1[e] <= bag2[e]

\* An insertion adds one copy of one element.
LEMMA OneMoreFacts ==
    ASSUME NEW bag \in Copies, NEW e \in Element
    PROVE  OneMore(bag, e) \in Copies /\ FewerCopies(bag, OneMore(bag, e))
  BY DEF OneMore, Copies, FewerCopies

\* Nobody has fewer copies than none.
LEMMA NoCopiesFacts ==
    /\ NoCopies \in Copies
    /\ \A bag \in Copies : FewerCopies(NoCopies, bag)
  BY DEF NoCopies, Copies, FewerCopies

\* Multisets are equal if neither has more copies.
LEMMA FewerCopiesOrder ==
    ASSUME NEW bag1 \in Copies, NEW bag2 \in Copies
    PROVE  /\ FewerCopies(bag1, bag1)
           /\ FewerCopies(bag1, bag2) /\ FewerCopies(bag2, bag1) => bag1 = bag2
           /\ \A bag3 \in Copies :
                 FewerCopies(bag1, bag2) /\ FewerCopies(bag2, bag3) => FewerCopies(bag1, bag3)
  <1>1. \A e \in Element : bag1[e] \in Nat /\ bag2[e] \in Nat
    BY DEF Copies
  <1>2. FewerCopies(bag1, bag1)
    BY <1>1 DEF FewerCopies
  <1>3. ASSUME FewerCopies(bag1, bag2), FewerCopies(bag2, bag1) PROVE bag1 = bag2
    <2>1. \A e \in Element : bag1[e] = bag2[e]
      BY <1>1, <1>3 DEF FewerCopies
    <2> QED BY <2>1 DEF Copies
  <1>4. ASSUME NEW bag3 \in Copies, FewerCopies(bag1, bag2), FewerCopies(bag2, bag3)
        PROVE  FewerCopies(bag1, bag3)
    <2>1. \A e \in Element : bag3[e] \in Nat
      BY DEF Copies
    <2> QED BY <1>1, <1>4, <2>1 DEF FewerCopies
  <1> QED BY <1>2, <1>3, <1>4

\* std::set_union makes the least multiset that has the copies of both.
LEMMA MostCopiesFacts ==
    ASSUME NEW bag1 \in Copies, NEW bag2 \in Copies
    PROVE  /\ MostCopies(bag1, bag2) \in Copies
           /\ FewerCopies(bag1, MostCopies(bag1, bag2))
           /\ FewerCopies(bag2, MostCopies(bag1, bag2))
           /\ \A bag3 \in Copies : FewerCopies(bag1, bag3) /\ FewerCopies(bag2, bag3)
                                      => FewerCopies(MostCopies(bag1, bag2), bag3)
  <1>1. \A e \in Element : bag1[e] \in Nat /\ bag2[e] \in Nat
    BY DEF Copies
  <1>2. \A e \in Element :
           MostCopies(bag1, bag2)[e] = IF bag1[e] >= bag2[e] THEN bag1[e] ELSE bag2[e]
    BY <1>1, MaxOfTwo DEF MostCopies
  <1>3. MostCopies(bag1, bag2) \in Copies
    <2>1. MostCopies(bag1, bag2) = [e \in Element |-> MostCopies(bag1, bag2)[e]]
      BY DEF MostCopies
    <2> QED BY <1>1, <1>2, <2>1 DEF Copies
  <1>4. FewerCopies(bag1, MostCopies(bag1, bag2)) /\ FewerCopies(bag2, MostCopies(bag1, bag2))
    BY <1>1, <1>2 DEF FewerCopies
  <1>5. ASSUME NEW bag3 \in Copies, FewerCopies(bag1, bag3), FewerCopies(bag2, bag3)
        PROVE  FewerCopies(MostCopies(bag1, bag2), bag3)
    BY <1>2, <1>5 DEF FewerCopies
  <1> QED BY <1>3, <1>4, <1>5

\* What is left after a removal.
LEMMA WithoutCopiesFacts ==
    ASSUME NEW bag \in Copies, NEW removed \in Copies
    PROVE  /\ WithoutCopies(bag, removed) \in Copies
           /\ \A e \in Element : WithoutCopies(bag, removed)[e] =
                 IF bag[e] >= removed[e] THEN bag[e] - removed[e] ELSE 0
  <1>1. \A e \in Element : bag[e] \in Nat /\ removed[e] \in Nat
    BY DEF Copies
  <1>2. \A e \in Element : WithoutCopies(bag, removed)[e] =
                              IF bag[e] >= removed[e] THEN bag[e] - removed[e] ELSE 0
    BY <1>1, MaxOfTwo DEF WithoutCopies
  <1>3. WithoutCopies(bag, removed) = [e \in Element |-> WithoutCopies(bag, removed)[e]]
    BY DEF WithoutCopies
  <1> QED BY <1>1, <1>2, <1>3 DEF Copies

\* The merge of queues is that of multisets, though it is computed otherwise.
LEMMA UnmatchedIsMost ==
    ASSUME NEW bag1 \in Copies, NEW bag2 \in Copies
    PROVE  KnownAndUnmatched(bag1, bag2) = MostCopies(bag1, bag2)
  <1>1. \A e \in Element : bag1[e] \in Nat /\ bag2[e] \in Nat
    BY DEF Copies
  <1>2. \A e \in Element :
           MostCopies(bag1, bag2)[e] = IF bag1[e] >= bag2[e] THEN bag1[e] ELSE bag2[e]
    BY <1>1, MaxOfTwo DEF MostCopies
  <1>3. \A e \in Element : KnownAndUnmatched(bag1, bag2)[e] =
                              bag1[e] + (IF bag2[e] >= bag1[e] THEN bag2[e] - bag1[e] ELSE 0)
    BY WithoutCopiesFacts DEF KnownAndUnmatched
  <1>4. \A e \in Element : KnownAndUnmatched(bag1, bag2)[e] = MostCopies(bag1, bag2)[e]
    BY <1>1, <1>2, <1>3
  <1> QED BY <1>4 DEF KnownAndUnmatched, MostCopies

\* All copies of finitely many multisets.
LEMMA AllCopiesFacts ==
    ASSUME NEW bags, IsFiniteSet(DOMAIN bags), bags \in [DOMAIN bags -> Copies]
    PROVE  /\ AllCopies(bags) \in Copies
           /\ \A i \in DOMAIN bags : FewerCopies(bags[i], AllCopies(bags))
  <1>1. ASSUME NEW e \in Element
        PROVE  /\ AllCopies(bags)[e] \in Nat
               /\ \A i \in DOMAIN bags : bags[i][e] <= AllCopies(bags)[e]
    <2> DEFINE fun == [i \in DOMAIN bags |-> bags[i][e]]
    <2>1. DOMAIN fun = DOMAIN bags /\ \A i \in DOMAIN bags : fun[i] = bags[i][e]
      OBVIOUS
    <2>2. \A i \in DOMAIN fun : fun[i] \in Nat
      BY DEF Copies
    <2>3. AllCopies(bags)[e] = SumFunction(fun)
      BY DEF AllCopies
    <2> HIDE DEF fun
    <2>4. SumFunction(fun) \in Nat /\ \A i \in DOMAIN fun : SumFunction(fun) >= fun[i]
      BY <2>1, <2>2, SumBounds
    <2> QED BY <2>1, <2>2, <2>3, <2>4
  <1>2. AllCopies(bags) = [e \in Element |-> AllCopies(bags)[e]]
    BY DEF AllCopies
  <1> QED BY <1>1, <1>2 DEF Copies, FewerCopies

\* What is known of the j-th of a writer's states, without all that was taken out up to the
\* k-th, is no more than what the k-th holds.
LEMMA CatchUpFacts ==
    ASSUME NEW n \in Nat, NEW states \in [1 .. n -> Copies], NEW k \in 1 .. n, NEW j \in 1 .. k
    PROVE  LET removed == AllCopies([i \in j + 1 .. k |-> WithoutCopies(states[i - 1], states[i])])
           IN  UniteAfterRemoval(states[j], states[k], removed) = states[k]
  <1> DEFINE bags == [i \in j + 1 .. k |-> WithoutCopies(states[i - 1], states[i])]
  <1>1. PICK removed : removed = AllCopies(bags)
    OBVIOUS
  <1>2. \A i \in j + 1 .. k : i \in 1 .. n /\ i - 1 \in 1 .. n
    OBVIOUS
  <1>3. \A i \in j + 1 .. k : states[i] \in Copies /\ states[i - 1] \in Copies
    BY <1>2
  <1>4. IsFiniteSet(j + 1 .. k)
    BY FS_Interval
  <1>5. bags \in [DOMAIN bags -> Copies] /\ IsFiniteSet(DOMAIN bags)
    <2>1. DOMAIN bags = j + 1 .. k
      OBVIOUS
    <2>2. \A i \in j + 1 .. k : bags[i] \in Copies
      BY <1>3, WithoutCopiesFacts
    <2> QED BY <1>4, <2>1, <2>2
  <1>6. removed \in Copies
    <2> HIDE DEF bags
    <2> QED BY <1>1, <1>5, AllCopiesFacts
  <1>7. states[j] \in Copies /\ states[k] \in Copies
    OBVIOUS
  <1>8. ASSUME NEW e \in Element
        PROVE  states[j][e] - removed[e] <= states[k][e]
    <2> DEFINE fun == [i \in j + 1 .. k |-> bags[i][e]]
               Sum(m) == SumFunctionOnSet(fun, j + 1 .. m)
               Good == {m \in 0 .. k : m >= j => states[j][e] - Sum(m) <= states[m][e]}
    <2>1. removed[e] = Sum(k)
      <3>1. DOMAIN fun = j + 1 .. k /\ DOMAIN bags = j + 1 .. k
        OBVIOUS
      <3> QED BY <1>1, <3>1 DEF AllCopies, SumFunction
    <2>2. \A i \in j + 1 .. k : fun[i] =
             IF states[i - 1][e] >= states[i][e] THEN states[i - 1][e] - states[i][e] ELSE 0
      BY <1>3, WithoutCopiesFacts
    <2>3. \A i \in 1 .. n : states[i][e] \in Nat
      BY DEF Copies
    <2>4. \A i \in j + 1 .. k : fun[i] \in Nat
      BY <1>2, <2>2, <2>3
    <2> HIDE DEF fun
    <2>5. Sum(j) = 0
      <3>1. j + 1 .. j = {}
        OBVIOUS
      <3> QED BY <3>1, FS_EmptySet, SumByFirst
    <2>6. ASSUME NEW m \in j + 1 .. k PROVE Sum(m) = fun[m] + Sum(m - 1) /\ Sum(m - 1) \in Nat
      <3>1. PICK small : small = j + 1 .. m - 1
        OBVIOUS
      <3>2. small \in SUBSET (j + 1 .. k) /\ m \notin small /\ j + 1 .. m = small \cup {m}
        BY <3>1
      <3>3. SumFunctionOnSet(fun, small \cup {m}) = fun[m] + SumFunctionOnSet(fun, small)
        BY <1>4, <2>4, <3>2, SumExtended
      <3>4. SumFunctionOnSet(fun, small) \in Nat
        BY <1>4, <2>4, <3>2, FS_Subset, SumType
      <3> QED BY <3>1, <3>2, <3>3, <3>4
    <2> HIDE DEF Sum
    <2>7. ASSUME NEW m \in 1 .. k, m - 1 \in Good PROVE m \in Good
      <3>1. CASE m = j
        BY <2>3, <2>5, <3>1
      <3>2. CASE m < j
        BY <3>2
      <3>3. CASE m > j
        <4>1. m \in j + 1 .. k /\ m - 1 >= j /\ m \in 1 .. n /\ m - 1 \in 1 .. n /\ m \in 0 .. k
          BY <3>3
        <4>2. states[j][e] - Sum(m - 1) <= states[m - 1][e]
          BY <2>7, <4>1
        <4>3. /\ states[m][e] \in Nat /\ states[m - 1][e] \in Nat /\ states[j][e] \in Nat
              /\ fun[m] \in Nat /\ Sum(m) = fun[m] + Sum(m - 1) /\ Sum(m - 1) \in Nat
              /\ fun[m] = IF states[m - 1][e] >= states[m][e]
                          THEN states[m - 1][e] - states[m][e] ELSE 0
          BY <2>2, <2>3, <2>4, <2>6, <4>1
        <4>4. states[j][e] - Sum(m) <= states[m][e]
          BY <4>2, <4>3
        <4> QED BY <4>1, <4>4
      <3> QED BY <3>1, <3>2, <3>3
    <2>8. 0 \in Good
      OBVIOUS
    <2>9. k \in Good
      <3>1. k \in Nat /\ k \in 0 .. k
        OBVIOUS
      <3> HIDE DEF Good
      <3> QED BY <2>7, <2>8, <3>1, UpToInduction
    <2> QED BY <2>1, <2>9
  <1>9. PICK bag : bag = WithoutCopies(states[j], removed)
    OBVIOUS
  <1>10. bag \in Copies /\ \A e \in Element : bag[e] <= states[k][e]
    <2>1. bag \in Copies
      BY <1>6, <1>7, <1>9, WithoutCopiesFacts
    <2>2. \A e \in Element : bag[e] = IF states[j][e] >= removed[e] THEN states[j][e] - removed[e] ELSE 0
      BY <1>6, <1>7, <1>9, WithoutCopiesFacts
    <2>3. ASSUME NEW e \in Element PROVE bag[e] <= states[k][e]
      <3>1. states[k][e] \in Nat /\ states[j][e] \in Nat /\ removed[e] \in Nat
        BY <1>6, <1>7 DEF Copies
      <3>2. bag[e] = IF states[j][e] >= removed[e] THEN states[j][e] - removed[e] ELSE 0
        BY <2>2
      <3>3. states[j][e] - removed[e] <= states[k][e]
        BY <1>8
      <3> QED BY <3>1, <3>2, <3>3
    <2> QED BY <2>1, <2>3
  <1>11. KnownAndUnmatched(bag, states[k]) = MostCopies(bag, states[k])
    BY <1>7, <1>10, UnmatchedIsMost
  <1>12. MostCopies(bag, states[k]) \in Copies
         /\ \A e \in Element : MostCopies(bag, states[k])[e] = states[k][e]
    <2>1. \A e \in Element : bag[e] \in Nat /\ states[k][e] \in Nat
      BY <1>7, <1>10 DEF Copies
    <2>2. \A e \in Element : MostCopies(bag, states[k])[e]
             = IF bag[e] >= states[k][e] THEN bag[e] ELSE states[k][e]
      BY <2>1, MaxOfTwo DEF MostCopies
    <2> QED BY <1>7, <1>10, <2>1, <2>2, MostCopiesFacts
  <1>13. MostCopies(bag, states[k]) = states[k]
    BY <1>7, <1>12 DEF Copies
  <1> QED BY <1>1, <1>9, <1>11, <1>13 DEF UniteAfterRemoval

-----------------------------------------------------------------------------
(* What a map handler caches *)

\* The values of a finite function, and those of a finite set of functions at one place.
LEMMA FiniteImages ==
    ASSUME NEW fun, IsFiniteSet(DOMAIN fun)
    PROVE  IsFiniteSet(Range(fun))
  <1> DEFINE f == [x \in DOMAIN fun |-> fun[x]]
  <1>1. f \in Surjection(DOMAIN fun, Range(fun))
    BY DEF Surjection, Range
  <1> QED BY <1>1, FS_Surjection

\* and so have finitely many maps for one key.
LEMMA FiniteValues ==
    ASSUME NEW maps, IsFiniteSet(maps), NEW k
    PROVE  IsFiniteSet({md[k] : md \in maps})
  <1> DEFINE f == [md \in maps |-> md[k]]
  <1>1. f \in Surjection(maps, {md[k] : md \in maps})
    BY DEF Surjection
  <1> QED BY <1>1, FS_Surjection

\* The greater values of finitely many maps.
LEMMA AllGreaterFacts ==
    ASSUME NEW total \in Copies, NEW maps \in SUBSET Copies, IsFiniteSet(maps)
    PROVE  /\ AllGreaterValues(total, maps) \in Copies
           /\ FewerCopies(total, AllGreaterValues(total, maps))
           /\ \A md \in maps : FewerCopies(md, AllGreaterValues(total, maps))
           /\ \A k \in Element : AllGreaterValues(total, maps)[k] \in {total[k]} \cup {md[k] : md \in maps}
  <1>1. ASSUME NEW k \in Element
        PROVE  /\ AllGreaterValues(total, maps)[k] \in {total[k]} \cup {md[k] : md \in maps}
               /\ AllGreaterValues(total, maps)[k] \in Nat
               /\ total[k] <= AllGreaterValues(total, maps)[k]
               /\ \A md \in maps : md[k] <= AllGreaterValues(total, maps)[k]
    <2> DEFINE values == {total[k]} \cup {md[k] : md \in maps}
    <2>1. total[k] \in Nat /\ \A md \in maps : md[k] \in Nat
      BY DEF Copies
    <2>2. values \subseteq Nat /\ values \subseteq Int /\ values # {}
      BY <2>1
    <2>3. IsFiniteSet(values)
      <3>1. IsFiniteSet({md[k] : md \in maps})
        BY FiniteValues
      <3>2. IsFiniteSet({total[k]})
        BY FS_Singleton
      <3> QED BY <3>1, <3>2, FS_Union
    <2>4. AllGreaterValues(total, maps)[k] = Max(values)
      BY DEF AllGreaterValues
    <2>5. total[k] \in values /\ \A md \in maps : md[k] \in values
      OBVIOUS
    <2>6. \A n \in values : n \in Nat
      BY <2>2
    <2> HIDE DEF values
    <2>7. Max(values) \in values /\ \A n \in values : Max(values) >= n
      BY <2>2, <2>3, MaxFacts
    <2>8. /\ AllGreaterValues(total, maps)[k] \in values
          /\ AllGreaterValues(total, maps)[k] \in Nat
          /\ total[k] <= AllGreaterValues(total, maps)[k]
          /\ \A md \in maps : md[k] <= AllGreaterValues(total, maps)[k]
      BY <2>4, <2>5, <2>6, <2>7
    <2> QED BY <2>8 DEF values
  <1>2. AllGreaterValues(total, maps) = [k \in Element |-> AllGreaterValues(total, maps)[k]]
    BY DEF AllGreaterValues
  <1> QED BY <1>1, <1>2 DEF Copies, FewerCopies

\* A cache of maps, and the merge of a state into it: the new values are old ones or those
\* of the maps at hand, and the total is no less than any of the table.
MapCache(cached) ==
    /\ cached.payload \in [DOMAIN cached.payload -> Copies]
    /\ cached.totalPayload \in Copies

\* The values of a map resolved against what its id had before are theirs, or none,
LEMMA FixedFacts ==
    ASSUME NEW md \in Copies, NEW held \in Copies
    PROVE  /\ FixSameKeyConflict(md, held) \in Copies
           /\ \A k \in Element : FixSameKeyConflict(md, held)[k] \in {0, md[k], held[k]}
  <1>1. ASSUME NEW k \in Element
        PROVE  FixSameKeyConflict(md, held)[k] \in {0, md[k], held[k]} /\ md[k] \in Nat /\ held[k] \in Nat
    <2>1. md[k] \in Nat /\ held[k] \in Nat
      BY DEF Copies
    <2>2. Max({md[k], held[k]}) = IF md[k] >= held[k] THEN md[k] ELSE held[k]
      BY <2>1, MaxOfTwo
    <2> QED BY <2>1, <2>2 DEF FixSameKeyConflict
  <1>2. FixSameKeyConflict(md, held) = [k \in Element |-> FixSameKeyConflict(md, held)[k]]
    BY DEF FixSameKeyConflict
  <1>3. \A k \in Element : FixSameKeyConflict(md, held)[k] \in Nat
    BY <1>1
  <1> QED BY <1>1, <1>2, <1>3 DEF Copies

\* and those of the greater values of two maps are theirs.
LEMMA GreaterFacts ==
    ASSUME NEW total \in Copies, NEW md \in Copies
    PROVE  /\ GreaterValues(total, md) \in Copies
           /\ FewerCopies(total, GreaterValues(total, md))
           /\ \A k \in Element : GreaterValues(total, md)[k] \in {total[k], md[k]}
  <1>1. \A k \in Element : total[k] \in Nat /\ md[k] \in Nat
    BY DEF Copies
  <1>2. \A k \in Element : GreaterValues(total, md)[k] = IF total[k] >= md[k] THEN total[k] ELSE md[k]
    BY <1>1, MaxOfTwo DEF GreaterValues, MostCopies
  <1> QED BY <1>2, MostCopiesFacts DEF GreaterValues

\* All the values a cache has for a key.
Values(cached, k) ==
    {cached.totalPayload[k]} \cup {cached.payload[j][k] : j \in DOMAIN cached.payload}

\* A state is merged into the cache,
LEMMA WithMapFacts ==
    ASSUME NEW cached, MapCache(cached), NEW table, table \in [DOMAIN table -> Copies],
           IsFiniteSet(DOMAIN table), NEW i, NEW md \in Copies
    PROVE  LET new == CachedWithMap(cached, table, i, md)
           IN  /\ MapCache(new)
               /\ FewerCopies(cached.totalPayload, new.totalPayload)
               /\ \A j \in DOMAIN table : FewerCopies(table[j], new.totalPayload)
               /\ \A k \in Element :
                     Values(new, k) \subseteq
                        Values(cached, k) \cup {0, md[k]} \cup {table[j][k] : j \in DOMAIN table}
  <1>1. PICK new : new = CachedWithMap(cached, table, i, md)
    OBVIOUS
  <1>2. PICK fixed : fixed = IF i \in DOMAIN cached.payload
                             THEN FixSameKeyConflict(md, cached.payload[i]) ELSE md
    OBVIOUS
  <1>3. PICK total : total = AllGreaterValues(cached.totalPayload, Range(table))
    OBVIOUS
  <1>4. /\ DOMAIN new.payload = DOMAIN cached.payload \cup {i}
        /\ new.payload = [j \in DOMAIN new.payload |-> new.payload[j]]
        /\ \A j \in DOMAIN new.payload :
              new.payload[j] = IF j = i THEN fixed ELSE cached.payload[j]
        /\ new.totalPayload = GreaterValues(total, fixed)
    BY <1>1, <1>2, <1>3 DEF CachedWithMap
  <1>5. /\ fixed \in Copies
        /\ \A k \in Element : fixed[k] \in Values(cached, k) \cup {0, md[k]}
    <2>1. CASE i \in DOMAIN cached.payload
      <3>1. PICK held \in Copies : held = cached.payload[i]
        BY <2>1 DEF MapCache
      <3>2. fixed \in Copies /\ \A k \in Element : fixed[k] \in {0, md[k], held[k]}
        BY <1>2, <2>1, <3>1, FixedFacts
      <3>3. \A k \in Element : held[k] \in Values(cached, k)
        BY <2>1, <3>1 DEF Values
      <3> QED BY <3>2, <3>3
    <2>2. CASE i \notin DOMAIN cached.payload
      BY <1>2, <2>2
    <2> QED BY <2>1, <2>2
  <1>6. /\ total \in Copies /\ FewerCopies(cached.totalPayload, total)
        /\ \A j \in DOMAIN table : FewerCopies(table[j], total)
        /\ \A k \in Element : total[k] \in Values(cached, k) \cup {table[j][k] : j \in DOMAIN table}
    <2>1. PICK maps : maps = Range(table)
      OBVIOUS
    <2>2. maps \in SUBSET Copies /\ IsFiniteSet(maps) /\ \A j \in DOMAIN table : table[j] \in maps
      BY <2>1, FiniteImages DEF Range
    <2>3. cached.totalPayload \in Copies
      BY DEF MapCache
    <2>4. /\ total \in Copies /\ FewerCopies(cached.totalPayload, total)
          /\ \A m \in maps : FewerCopies(m, total)
          /\ \A k \in Element : total[k] \in {cached.totalPayload[k]} \cup {m[k] : m \in maps}
      BY <1>3, <2>1, <2>2, <2>3, AllGreaterFacts
    <2>5. \A k \in Element : {m[k] : m \in maps} = {table[j][k] : j \in DOMAIN table}
      BY <2>1 DEF Range
    <2> QED BY <2>2, <2>4, <2>5 DEF Values
  <1>7. /\ new.totalPayload \in Copies /\ FewerCopies(total, new.totalPayload)
        /\ \A k \in Element : new.totalPayload[k] \in {total[k], fixed[k]}
    BY <1>4, <1>5, <1>6, GreaterFacts
  <1>8. MapCache(new)
    <2>1. \A j \in DOMAIN new.payload : new.payload[j] \in Copies
      BY <1>4, <1>5 DEF MapCache
    <2>2. new.payload \in [DOMAIN new.payload -> Copies]
      BY <1>4, <2>1
    <2> QED BY <1>7, <2>2 DEF MapCache
  <1>9. /\ FewerCopies(cached.totalPayload, new.totalPayload)
        /\ \A j \in DOMAIN table : FewerCopies(table[j], new.totalPayload)
    <2>1. cached.totalPayload \in Copies /\ \A j \in DOMAIN table : table[j] \in Copies
      BY DEF MapCache
    <2> QED BY <1>6, <1>7, <2>1, FewerCopiesOrder
  <1>10. ASSUME NEW k \in Element
         PROVE  Values(new, k) \subseteq
                   Values(cached, k) \cup {0, md[k]} \cup {table[j][k] : j \in DOMAIN table}
    <2>1. new.totalPayload[k] \in
             Values(cached, k) \cup {0, md[k]} \cup {table[j][k] : j \in DOMAIN table}
      BY <1>5, <1>6, <1>7
    <2>2. ASSUME NEW j \in DOMAIN new.payload
          PROVE  new.payload[j][k] \in Values(cached, k) \cup {0, md[k]}
      <3>1. CASE j = i
        BY <1>4, <1>5, <3>1
      <3>2. CASE j # i
        BY <1>4, <3>2 DEF Values
      <3> QED BY <3>1, <3>2
    <2> QED BY <2>1, <2>2 DEF Values
  <1> QED BY <1>1, <1>8, <1>9, <1>10

\* or the table of another handler.
LEMMA WithTableFacts ==
    ASSUME NEW cached, MapCache(cached), NEW table, table \in [DOMAIN table -> Copies],
           NEW other, other \in [DOMAIN other -> Copies],
           IsFiniteSet(DOMAIN table), IsFiniteSet(DOMAIN other)
    PROVE  LET new == CachedWithTable(cached, table, other)
           IN  /\ MapCache(new)
               /\ FewerCopies(cached.totalPayload, new.totalPayload)
               /\ \A j \in DOMAIN other : FewerCopies(other[j], new.totalPayload)
               /\ \A k \in Element : \A n \in Values(new, k) :
                     \/ n \in Values(cached, k)
                     \/ \E j \in DOMAIN table : n = table[j][k]
                     \/ \E j \in DOMAIN other : n = other[j][k]
  <1>1. PICK new : new = CachedWithTable(cached, table, other)
    OBVIOUS
  <1>2. /\ DOMAIN new.payload = DOMAIN cached.payload \cup DOMAIN other
        /\ new.payload = [j \in DOMAIN new.payload |-> new.payload[j]]
        /\ \A j \in DOMAIN new.payload :
              new.payload[j] = IF j \notin DOMAIN cached.payload THEN other[j]
                               ELSE IF j \notin DOMAIN other THEN cached.payload[j]
                               ELSE GreaterValues(cached.payload[j], other[j])
        /\ new.totalPayload = AllGreaterValues(cached.totalPayload, Range(table) \cup Range(other))
    BY <1>1 DEF CachedWithTable
  <1>3. ASSUME NEW j \in DOMAIN new.payload
        PROVE  /\ new.payload[j] \in Copies
               /\ \A k \in Element : new.payload[j][k] \in
                     Values(cached, k) \cup {other[l][k] : l \in DOMAIN other}
    <2>1. j \in DOMAIN cached.payload => cached.payload[j] \in Copies
      BY DEF MapCache
    <2>2. CASE j \notin DOMAIN cached.payload \/ j \notin DOMAIN other
      BY <1>2, <2>1, <2>2 DEF Values
    <2>3. CASE j \in DOMAIN cached.payload /\ j \in DOMAIN other
      <3>1. PICK held \in Copies, incoming \in Copies :
               held = cached.payload[j] /\ incoming = other[j]
        BY <2>1, <2>3
      <3>2. new.payload[j] = GreaterValues(held, incoming)
        BY <1>2, <2>3, <3>1
      <3>3. /\ new.payload[j] \in Copies
            /\ \A k \in Element : new.payload[j][k] \in {held[k], incoming[k]}
        BY <3>2, GreaterFacts
      <3>4. \A k \in Element : held[k] \in Values(cached, k)
        BY <2>3, <3>1 DEF Values
      <3> QED BY <2>3, <3>1, <3>3, <3>4
    <2> QED BY <2>2, <2>3
  <1>4. PICK maps : maps = Range(table) \cup Range(other)
    OBVIOUS
  <1>5. maps \in SUBSET Copies /\ \A j \in DOMAIN other : other[j] \in maps
    BY <1>4 DEF Range
  <1>6. IsFiniteSet(maps)
    <2>1. IsFiniteSet(Range(table)) /\ IsFiniteSet(Range(other))
      BY FiniteImages
    <2> QED BY <1>4, <2>1, FS_Union
  <1>7. cached.totalPayload \in Copies
    BY DEF MapCache
  <1>8. PICK total : total = new.totalPayload
    OBVIOUS
  <1>9. /\ total \in Copies /\ FewerCopies(cached.totalPayload, total)
        /\ \A m \in maps : FewerCopies(m, total)
        /\ \A k \in Element : total[k] \in {cached.totalPayload[k]} \cup {m[k] : m \in maps}
    <2>1. PICK start \in Copies : start = cached.totalPayload
      BY <1>7
    <2>2. total = AllGreaterValues(start, maps)
      BY <1>2, <1>4, <1>8, <2>1
    <2>3. /\ total \in Copies /\ FewerCopies(start, total)
          /\ \A m \in maps : FewerCopies(m, total)
          /\ \A k \in Element : total[k] \in {start[k]} \cup {m[k] : m \in maps}
      BY <1>5, <1>6, <2>2, AllGreaterFacts
    <2> QED BY <2>1, <2>3
  <1>10. MapCache(new)
    <2>1. new.payload \in [DOMAIN new.payload -> Copies]
      BY <1>2, <1>3
    <2> QED BY <1>8, <1>9, <2>1 DEF MapCache
  <1>11. ASSUME NEW k \in Element
         PROVE  Values(new, k) \subseteq
                   Values(cached, k) \cup {table[j][k] : j \in DOMAIN table}
                                     \cup {other[j][k] : j \in DOMAIN other}
    <2>1. {m[k] : m \in maps} =
             {table[j][k] : j \in DOMAIN table} \cup {other[j][k] : j \in DOMAIN other}
      BY <1>4 DEF Range
    <2>2. total[k] \in Values(cached, k) \cup {table[j][k] : j \in DOMAIN table}
                                        \cup {other[j][k] : j \in DOMAIN other}
      BY <1>9, <2>1 DEF Values
    <2> QED BY <1>3, <1>8, <2>2 DEF Values
  <1> QED BY <1>1, <1>5, <1>8, <1>9, <1>10, <1>11

-----------------------------------------------------------------------------
(* Sequences *)

\* A finite set of numbers that is not empty has a least.
LEMMA MinFacts ==
    ASSUME NEW n \in Nat, NEW S \in SUBSET (1 .. n), S # {}
    PROVE  Min(S) \in S /\ \A i \in S : Min(S) <= i
  <1> DEFINE Good == {i \in 0 .. n : S \cap (1 .. i) # {} =>
                                        \E m \in S : \A l \in S : m <= l}
  <1>1. 0 \in Good
    OBVIOUS
  <1>2. ASSUME NEW i \in 1 .. n, i - 1 \in Good PROVE i \in Good
    <2>1. CASE S \cap (1 .. i - 1) # {}
      BY <1>2, <2>1
    <2>2. CASE S \cap (1 .. i - 1) = {} /\ S \cap (1 .. i) # {}
      <3>1. i \in S /\ \A l \in S : i <= l
        BY <2>2
      <3> QED BY <3>1
    <2>3. CASE S \cap (1 .. i) = {}
      BY <2>3
    <2> QED BY <2>1, <2>2, <2>3
  <1> HIDE DEF Good
  <1>3. n \in Good
    BY <1>1, <1>2, UpToInduction
  <1>4. \E m \in S : \A l \in S : m <= l
    BY <1>3 DEF Good
  <1> QED BY <1>4 DEF Min

\* The places of an element in a sequence.
Places(v, e) == {i \in DOMAIN v : v[i] = e}

\* How often an element occurs is a number, and zero when it is at no place.
LEMMA OccurrencesNat ==
    ASSUME NEW S, NEW v \in Seq(S), NEW e
    PROVE  /\ IsFiniteSet(Places(v, e)) /\ Occurrences(v, e) = Cardinality(Places(v, e))
           /\ Occurrences(v, e) \in Nat
           /\ Occurrences(v, e) = 0 <=> \A i \in DOMAIN v : v[i] # e
  <1>1. DOMAIN v = 1 .. Len(v) /\ Len(v) \in Nat
    BY LenProperties
  <1>2. Places(v, e) \in SUBSET (1 .. Len(v))
    BY <1>1 DEF Places
  <1>3. IsFiniteSet(Places(v, e))
    <2>1. IsFiniteSet(1 .. Len(v))
      BY <1>1, FS_Interval
    <2> QED BY <1>2, <2>1, FS_Subset
  <1>4. Occurrences(v, e) = Cardinality(Places(v, e))
    BY DEF Occurrences, Places
  <1>5. Cardinality(Places(v, e)) \in Nat /\ (Cardinality(Places(v, e)) = 0 <=> Places(v, e) = {})
    BY <1>3, FS_CardinalityType, FS_EmptySet
  <1> QED BY <1>3, <1>4, <1>5 DEF Places

\* The places of two sequences, one after the other.
LEMMA OccurrencesConcat ==
    ASSUME NEW S, NEW v \in Seq(S), NEW w \in Seq(S), NEW e
    PROVE  /\ v \o w \in Seq(S) /\ Len(v \o w) = Len(v) + Len(w)
           /\ Occurrences(v \o w, e) = Occurrences(v, e) + Occurrences(w, e)
  <1>1. /\ v \o w \in Seq(S) /\ Len(v \o w) = Len(v) + Len(w)
        /\ \A i \in 1 .. Len(v) + Len(w) : (v \o w)[i] = IF i <= Len(v) THEN v[i] ELSE w[i - Len(v)]
    BY ConcatProperties
  <1>2. PICK m, n : m = Len(v) /\ n = Len(w)
    OBVIOUS
  <1>3. m \in Nat /\ n \in Nat /\ DOMAIN v = 1 .. m /\ DOMAIN w = 1 .. n
    BY <1>2, LenProperties
  <1>4. DOMAIN (v \o w) = 1 .. m + n
    BY <1>1, <1>2, LenProperties
  <1> DEFINE moved == [i \in Places(w, e) |-> i + m]
             later == {i + m : i \in Places(w, e)}
  <1>5. IsFiniteSet(later) /\ Cardinality(later) = Cardinality(Places(w, e))
    <2>1. \A i \in Places(w, e) : i \in Nat
      BY <1>3 DEF Places
    <2>2. moved \in Bijection(Places(w, e), later)
      <3>1. moved \in [Places(w, e) -> later] /\ \A x \in later : \E i \in Places(w, e) : moved[i] = x
        OBVIOUS
      <3>2. \A i, j \in Places(w, e) : moved[i] = moved[j] => i = j
        BY <1>3, <2>1
      <3> QED BY <3>1, <3>2 DEF Bijection, Injection, Surjection, IsInjective
    <2>3. IsFiniteSet(Places(w, e))
      BY OccurrencesNat
    <2> HIDE DEF moved, later
    <2> QED BY <2>2, <2>3, FS_Bijection DEF ExistsBijection
  <1>6. Places(v \o w, e) = Places(v, e) \cup later
    <2>1. ASSUME NEW i \in Places(v \o w, e) PROVE i \in Places(v, e) \cup later
      <3>1. i \in 1 .. m + n /\ (IF i <= m THEN v[i] ELSE w[i - m]) = e
        BY <1>1, <1>2, <1>4 DEF Places
      <3>2. CASE i <= m
        BY <1>3, <3>1, <3>2 DEF Places
      <3>3. CASE ~(i <= m)
        <4>1. i - m \in 1 .. n /\ w[i - m] = e /\ i = (i - m) + m
          BY <1>3, <3>1, <3>3
        <4> QED BY <1>3, <4>1 DEF Places
      <3> QED BY <3>2, <3>3
    <2>2. ASSUME NEW i \in Places(v, e) PROVE i \in Places(v \o w, e)
      BY <1>1, <1>2, <1>3, <1>4 DEF Places
    <2>3. ASSUME NEW i \in later PROVE i \in Places(v \o w, e)
      <3>1. PICK j \in Places(w, e) : i = j + m
        OBVIOUS
      <3>2. j \in 1 .. n /\ w[j] = e
        BY <1>3 DEF Places
      <3>3. i \in 1 .. m + n /\ ~(i <= m) /\ i - m = j
        BY <1>3, <3>1, <3>2
      <3> QED BY <1>1, <1>2, <1>4, <3>2, <3>3 DEF Places
    <2> QED BY <2>1, <2>2, <2>3
  <1>7. Places(v, e) \cap later = {}
    BY <1>3 DEF Places
  <1> HIDE DEF later
  <1>8. IsFiniteSet(Places(v, e)) /\ Occurrences(v, e) = Cardinality(Places(v, e))
        /\ Occurrences(w, e) = Cardinality(Places(w, e))
    BY OccurrencesNat
  <1>9. Cardinality(Places(v \o w, e)) = Cardinality(Places(v, e)) + Cardinality(later)
    <2>1. Cardinality(Places(v, e) \cap later) = 0 /\ Cardinality(Places(v, e)) \in Nat
          /\ Cardinality(later) \in Nat
      BY <1>5, <1>7, <1>8, FS_EmptySet, FS_CardinalityType
    <2>2. Cardinality(Places(v, e) \cup later) =
             Cardinality(Places(v, e)) + Cardinality(later) - Cardinality(Places(v, e) \cap later)
      BY <1>5, <1>8, FS_Union
    <2> QED BY <1>6, <2>1, <2>2
  <1>10. Occurrences(v \o w, e) = Cardinality(Places(v \o w, e))
    BY <1>1, OccurrencesNat
  <1> QED BY <1>1, <1>5, <1>8, <1>9, <1>10

\* One element, and none.
LEMMA OccurrencesOne ==
    ASSUME NEW S, NEW x \in S, NEW e
    PROVE  /\ <<x>> \in Seq(S) /\ Len(<<x>>) = 1 /\ <<x>>[1] = x
           /\ Occurrences(<<x>>, e) = IF x = e THEN 1 ELSE 0
           /\ <<>> \in Seq(S) /\ Occurrences(<<>>, e) = 0
  <1>1. <<x>> \in Seq(S) /\ DOMAIN <<x>> = {1} /\ <<x>>[1] = x /\ Len(<<x>>) = 1
    OBVIOUS
  <1>2. Places(<<x>>, e) = IF x = e THEN {1} ELSE {}
    BY <1>1 DEF Places
  <1>3. Occurrences(<<x>>, e) = Cardinality(Places(<<x>>, e))
    BY <1>1, OccurrencesNat
  <1>4. Cardinality({1}) = 1 /\ Cardinality({}) = 0
    BY FS_Singleton, FS_EmptySet
  <1>5. <<>> \in Seq(S) /\ DOMAIN <<>> = {}
    OBVIOUS
  <1>6. Occurrences(<<>>, e) = 0
    BY <1>5, OccurrencesNat
  <1> QED BY <1>1, <1>2, <1>3, <1>4, <1>5, <1>6

\* An element more at the end.
LEMMA OccurrencesAppend ==
    ASSUME NEW S, NEW v \in Seq(S), NEW x \in S, NEW e
    PROVE  /\ Append(v, x) \in Seq(S)
           /\ Occurrences(Append(v, x), e) = Occurrences(v, e) + (IF x = e THEN 1 ELSE 0)
  <1>1. PICK w \in Seq(S) : w = <<x>> /\ Occurrences(w, e) = IF x = e THEN 1 ELSE 0
    BY OccurrencesOne
  <1>2. Append(v, x) = v \o w
    BY <1>1, AppendIsConcat
  <1>3. v \o w \in Seq(S) /\ Occurrences(v \o w, e) = Occurrences(v, e) + Occurrences(w, e)
    BY OccurrencesConcat
  <1> QED BY <1>1, <1>2, <1>3

\* A sequence is the part up to a place and the part after it.
LEMMA PartsFacts ==
    ASSUME NEW S, NEW v \in Seq(S), NEW i \in 1 .. Len(v)
    PROVE  /\ SubSeq(v, 1, i - 1) \in Seq(S) /\ SubSeq(v, 1, i) \in Seq(S)
           /\ SubSeq(v, i + 1, Len(v)) \in Seq(S) /\ SubSeq(v, i, Len(v)) \in Seq(S)
           /\ Len(SubSeq(v, 1, i - 1)) = i - 1 /\ Len(SubSeq(v, i + 1, Len(v))) = Len(v) - i
           /\ SubSeq(v, 1, i) = SubSeq(v, 1, i - 1) \o <<v[i]>>
           /\ SubSeq(v, i, Len(v)) = <<v[i]>> \o SubSeq(v, i + 1, Len(v))
           /\ v = SubSeq(v, 1, i) \o SubSeq(v, i + 1, Len(v))
           /\ v[i] \in S
  <1>1. PICK n \in Nat : n = Len(v)
    BY LenProperties
  <1>2. DOMAIN v = 1 .. n /\ i \in 1 .. n /\ i \in Nat /\ \A j \in 1 .. n : v[j] \in S
    BY <1>1, ElementOfSeq
  <1>3. /\ SubSeq(v, 1, i - 1) \in Seq(S) /\ Len(SubSeq(v, 1, i - 1)) = i - 1
        /\ SubSeq(v, 1, i) \in Seq(S)
    <2>1. \A j \in 1 .. i : v[j] \in S
      BY <1>2
    <2>2. i - 1 \in Int /\ \A j \in 1 .. i - 1 : v[j] \in S
      BY <1>2
    <2> QED BY <1>2, <2>1, <2>2, SubSeqProperties
  <1>4. /\ SubSeq(v, i + 1, n) \in Seq(S) /\ Len(SubSeq(v, i + 1, n)) = n - i
        /\ SubSeq(v, i, n) \in Seq(S)
    <2>1. i + 1 \in Int /\ n \in Int /\ \A j \in i + 1 .. n : v[j] \in S
      BY <1>2
    <2>2. i \in Int /\ \A j \in i .. n : v[j] \in S
      BY <1>2
    <2>3. SubSeq(v, i + 1, n) \in Seq(S)
          /\ Len(SubSeq(v, i + 1, n)) = IF i + 1 <= n THEN n - (i + 1) + 1 ELSE 0
      BY <2>1, SubSeqProperties
    <2>4. SubSeq(v, i, n) \in Seq(S)
      BY <1>1, <2>2, SubSeqProperties
    <2> QED BY <1>2, <2>3, <2>4
  <1>5. SubSeq(v, 1, i) = SubSeq(v, 1, i - 1) \o <<v[i]>>
    <2>1. 1 \in 1 .. Len(v) /\ i \in 1 .. Len(v)
      BY <1>1, <1>2
    <2> QED BY <2>1, SubSeqRecursiveSecond
  <1>6. SubSeq(v, i, n) = <<v[i]>> \o SubSeq(v, i + 1, n)
    <2>1. n \in i .. Len(v)
      BY <1>1, <1>2
    <2> QED BY <2>1, SubSeqRecursiveFirst
  <1>7. v = SubSeq(v, 1, i) \o SubSeq(v, i + 1, n)
    <2>1. 1 \in 1 .. Len(v) + 1 /\ i \in 1 - 1 .. Len(v) /\ n \in i .. Len(v)
      BY <1>1, <1>2
    <2>2. SubSeq(v, 1, i) \o SubSeq(v, i + 1, n) = SubSeq(v, 1, n)
      BY <2>1, ConcatAdjacentSubSeq
    <2> QED BY <1>1, <2>2, SubSeqFull
  <1>8. v[i] \in S
    BY <1>2
  <1> QED BY <1>1, <1>3, <1>4, <1>5, <1>6, <1>7, <1>8

\* One place more at the front is one element more.
LEMMA FrontAdds ==
    ASSUME NEW S, NEW v \in Seq(S), NEW i \in 1 .. Len(v), NEW e
    PROVE  Occurrences(SubSeq(v, 1, i), e) =
              Occurrences(SubSeq(v, 1, i - 1), e) + (IF v[i] = e THEN 1 ELSE 0)
  <1>1. PICK before, one, upto :
           before = SubSeq(v, 1, i - 1) /\ one = <<v[i]>> /\ upto = SubSeq(v, 1, i)
    OBVIOUS
  <1>2. before \in Seq(S) /\ upto = before \o one /\ v[i] \in S
    BY <1>1, PartsFacts
  <1>3. one \in Seq(S) /\ Occurrences(one, e) = IF v[i] = e THEN 1 ELSE 0
    BY <1>1, <1>2, OccurrencesOne
  <1>4. Occurrences(before \o one, e) = Occurrences(before, e) + Occurrences(one, e)
    BY <1>2, <1>3, OccurrencesConcat
  <1> QED BY <1>1, <1>2, <1>3, <1>4

\* So is one place more at the back.
LEMMA TailAdds ==
    ASSUME NEW S, NEW v \in Seq(S), NEW i \in 1 .. Len(v), NEW e
    PROVE  Occurrences(SubSeq(v, i, Len(v)), e) =
              (IF v[i] = e THEN 1 ELSE 0) + Occurrences(SubSeq(v, i + 1, Len(v)), e)
  <1>1. PICK after, one, from :
           after = SubSeq(v, i + 1, Len(v)) /\ one = <<v[i]>> /\ from = SubSeq(v, i, Len(v))
    OBVIOUS
  <1>2. after \in Seq(S) /\ from = one \o after /\ v[i] \in S
    BY <1>1, PartsFacts
  <1>3. one \in Seq(S) /\ Occurrences(one, e) = IF v[i] = e THEN 1 ELSE 0
    BY <1>1, <1>2, OccurrencesOne
  <1>4. Occurrences(one \o after, e) = Occurrences(one, e) + Occurrences(after, e)
    BY <1>2, <1>3, OccurrencesConcat
  <1> QED BY <1>1, <1>2, <1>3, <1>4

\* An element occurs as often as in the part up to a place and in the part after it together.
LEMMA PartsAdd ==
    ASSUME NEW S, NEW v \in Seq(S), NEW i \in 1 .. Len(v), NEW e
    PROVE  Occurrences(v, e) =
              Occurrences(SubSeq(v, 1, i), e) + Occurrences(SubSeq(v, i + 1, Len(v)), e)
  <1>1. PICK after, upto : after = SubSeq(v, i + 1, Len(v)) /\ upto = SubSeq(v, 1, i)
    OBVIOUS
  <1>2. after \in Seq(S) /\ upto \in Seq(S) /\ v = upto \o after
    BY <1>1, PartsFacts
  <1>3. Occurrences(upto \o after, e) = Occurrences(upto, e) + Occurrences(after, e)
    BY <1>2, OccurrencesConcat
  <1> QED BY <1>1, <1>2, <1>3

\* What occurs is somewhere.
LEMMA OccursSomewhere ==
    ASSUME NEW S, NEW v \in Seq(S), NEW e, Occurrences(v, e) # 0
    PROVE  \E i \in DOMAIN v : v[i] = e
  BY OccurrencesNat

-----------------------------------------------------------------------------
(* Sorted sequences *)

\* No element is greater than a later one.
Ascending(v) == \A i, j \in DOMAIN v : i <= j => v[i] <= v[j]

\* A sorted sequence stays so with an element before it that is not greater than any.
LEMMA AscendingCons ==
    ASSUME NEW v \in Seq(Element), NEW x \in Element, Ascending(v),
           \A i \in DOMAIN v : x <= v[i]
    PROVE  Ascending(<<x>> \o v)
  <1>1. PICK n \in Nat : n = Len(v)
    BY LenProperties
  <1>2. /\ DOMAIN v = 1 .. n /\ DOMAIN (<<x>> \o v) = 1 .. n + 1
        /\ \A i \in 1 .. n + 1 : (<<x>> \o v)[i] = IF i = 1 THEN x ELSE v[i - 1]
        /\ \A i \in 1 .. n : v[i] \in Element
    BY <1>1
  <1>3. PICK long : long = <<x>> \o v
    OBVIOUS
  <1>4. ASSUME NEW i \in 1 .. n + 1, NEW j \in 1 .. n + 1, i <= j PROVE long[i] <= long[j]
    <2>1. CASE i = 1 /\ j = 1
      BY <1>2, <1>3, <2>1, ElementAssumption
    <2>2. CASE i = 1 /\ j # 1
      <3>1. j - 1 \in 1 .. n
        BY <2>2
      <3> QED BY <1>2, <1>3, <2>2, <3>1
    <2>3. CASE i # 1
      <3>1. i - 1 \in 1 .. n /\ j - 1 \in 1 .. n /\ i - 1 <= j - 1 /\ j # 1
        BY <1>4, <2>3
      <3> QED BY <1>2, <1>3, <2>3, <3>1 DEF Ascending
    <2> QED BY <2>1, <2>2, <2>3
  <1> QED BY <1>2, <1>3, <1>4 DEF Ascending

\* What is left of a sorted sequence after some elements are taken from the front is sorted.
LEMMA AscendingTail ==
    ASSUME NEW v \in Seq(Element), Ascending(v), NEW i \in 0 .. Len(v)
    PROVE  Ascending(SubSeq(v, i + 1, Len(v)))
  <1>1. PICK n \in Nat : n = Len(v)
    BY LenProperties
  <1>2. DOMAIN v = 1 .. n
    BY <1>1
  <1>3. /\ DOMAIN SubSeq(v, i + 1, n) = 1 .. n - i
        /\ \A j \in 1 .. n - i : SubSeq(v, i + 1, n)[j] = v[i + j] /\ i + j \in 1 .. n
    BY <1>1, <1>2
  <1>4. PICK tail : tail = SubSeq(v, i + 1, n)
    OBVIOUS
  <1>5. ASSUME NEW j \in 1 .. n - i, NEW k \in 1 .. n - i, j <= k PROVE tail[j] <= tail[k]
    <2>1. i + j <= i + k
      BY <1>5
    <2> QED BY <1>2, <1>3, <1>4, <2>1 DEF Ascending
  <1> QED BY <1>1, <1>3, <1>4, <1>5 DEF Ascending

\* So are its first elements.
LEMMA AscendingFront ==
    ASSUME NEW v \in Seq(Element), Ascending(v), NEW i \in 0 .. Len(v)
    PROVE  /\ SubSeq(v, 1, i) \in Seq(Element) /\ Len(SubSeq(v, 1, i)) = i
           /\ \A j \in 1 .. i : SubSeq(v, 1, i)[j] = v[j]
           /\ Ascending(SubSeq(v, 1, i))
  <1>1. PICK n \in Nat : n = Len(v)
    BY LenProperties
  <1>2. DOMAIN v = 1 .. n /\ i \in Nat /\ i <= n
    BY <1>1
  <1>3. /\ SubSeq(v, 1, i) \in Seq(Element) /\ Len(SubSeq(v, 1, i)) = i
        /\ DOMAIN SubSeq(v, 1, i) = 1 .. i
        /\ \A j \in 1 .. i : SubSeq(v, 1, i)[j] = v[j] /\ j \in 1 .. n
    BY <1>1, <1>2
  <1> QED BY <1>2, <1>3 DEF Ascending

\* The last element.
LEMMA LastAdds ==
    ASSUME NEW S, NEW v \in Seq(S), NEW n \in Nat, n = Len(v), n # 0, NEW e
    PROVE  Occurrences(v, e) = Occurrences(SubSeq(v, 1, n - 1), e) + (IF v[n] = e THEN 1 ELSE 0)
  <1>1. n \in 1 .. Len(v)
    OBVIOUS
  <1>2. Occurrences(SubSeq(v, 1, n), e) =
           Occurrences(SubSeq(v, 1, n - 1), e) + (IF v[n] = e THEN 1 ELSE 0)
    BY <1>1, FrontAdds
  <1>3. SubSeq(v, 1, n) = v
    BY SubSeqFull
  <1> QED BY <1>2, <1>3

\* Sorted sequences of the same elements are the same.
LEMMA AscendingEqual ==
    ASSUME NEW v \in Seq(Element), NEW w \in Seq(Element), Ascending(v), Ascending(w),
           \A e \in Element : Occurrences(v, e) = Occurrences(w, e)
    PROVE  v = w
  <1> DEFINE Good == {n \in 0 .. Len(v) :
                        \A s, t \in Seq(Element) :
                           /\ Len(s) = n /\ Ascending(s) /\ Ascending(t)
                           /\ \A e \in Element : Occurrences(s, e) = Occurrences(t, e)
                           => s = t}
  <1>1. Len(v) \in Nat
    BY LenProperties
  <1>2. 0 \in Good
    <2> SUFFICES ASSUME NEW s \in Seq(Element), NEW t \in Seq(Element), Len(s) = 0,
                        \A e \in Element : Occurrences(s, e) = Occurrences(t, e)
                 PROVE  s = t
      BY <1>1
    <2>1. s = <<>>
      OBVIOUS
    <2>2. ASSUME t # <<>> PROVE FALSE
      <3>1. 1 \in DOMAIN t /\ t[1] \in Element
        BY <2>2
      <3>2. Occurrences(t, t[1]) # 0
        BY <3>1, OccurrencesNat
      <3>3. Occurrences(s, t[1]) = 0
        BY <2>1, <3>1, OccurrencesOne
      <3> QED BY <3>1, <3>2, <3>3
    <2> QED BY <2>1, <2>2
  <1>3. ASSUME NEW n \in 1 .. Len(v), n - 1 \in Good PROVE n \in Good
    <2> SUFFICES ASSUME NEW s \in Seq(Element), NEW t \in Seq(Element), Len(s) = n,
                        Ascending(s), Ascending(t),
                        \A e \in Element : Occurrences(s, e) = Occurrences(t, e)
                 PROVE  s = t
      BY <1>1
    <2>1. PICK m \in Nat : m = Len(t)
      BY LenProperties
    <2>2. /\ DOMAIN s = 1 .. n /\ n \in 1 .. n /\ s[n] \in Element /\ DOMAIN t = 1 .. m
          /\ n \in Nat
      BY <1>1, <2>1
    <2>3. PICK a \in DOMAIN t : t[a] = s[n]
      <3>1. Occurrences(s, s[n]) # 0
        BY <2>2, OccurrencesNat
      <3>2. Occurrences(t, s[n]) # 0
        BY <2>2, <3>1
      <3> QED BY <3>2, OccursSomewhere
    <2>4. m \in 1 .. m /\ t[m] \in Element
      <3>1. m \in 1 .. m
        BY <2>2, <2>3
      <3> QED BY <2>1, <3>1, ElementOfSeq
    <2>5. PICK b \in DOMAIN s : s[b] = t[m]
      <3>1. Occurrences(t, t[m]) # 0
        BY <2>2, <2>4, OccurrencesNat
      <3>2. Occurrences(s, t[m]) # 0
        BY <2>4, <3>1
      <3> QED BY <3>2, OccursSomewhere
    <2>6. s[n] = t[m]
      <3>1. s[n] <= t[m]
        BY <2>2, <2>3, <2>4 DEF Ascending
      <3>2. t[m] <= s[n]
        BY <2>2, <2>5 DEF Ascending
      <3>3. s[n] \in Int /\ t[m] \in Int
        BY <2>2, <2>4, ElementAssumption
      <3> HIDE DEF Good
      <3> QED BY <3>1, <3>2, <3>3
    <2>7. PICK s1, t1 : s1 = SubSeq(s, 1, n - 1) /\ t1 = SubSeq(t, 1, m - 1)
      OBVIOUS
    <2>8. /\ s1 \in Seq(Element) /\ t1 \in Seq(Element) /\ Len(s1) = n - 1 /\ Len(t1) = m - 1
          /\ \A i \in 1 .. n - 1 : s1[i] = s[i]
          /\ \A i \in 1 .. m - 1 : t1[i] = t[i]
          /\ Ascending(s1) /\ Ascending(t1)
      <3>1. n - 1 \in 0 .. Len(s) /\ m - 1 \in 0 .. Len(t)
        BY <2>1, <2>2, <2>4
      <3> QED BY <2>7, <3>1, AscendingFront
    <2>10. ASSUME NEW e \in Element PROVE Occurrences(s1, e) = Occurrences(t1, e)
      <3>1. /\ Occurrences(s, e) = Occurrences(s1, e) + (IF s[n] = e THEN 1 ELSE 0)
            /\ Occurrences(t, e) = Occurrences(t1, e) + (IF t[m] = e THEN 1 ELSE 0)
        <4> HIDE DEF Good
        <4>1. n \in Nat /\ n # 0 /\ n = Len(s)
          BY <2>2
        <4>2. m \in Nat /\ m # 0 /\ m = Len(t)
          BY <2>1, <2>4
        <4>3. Occurrences(s, e) = Occurrences(s1, e) + (IF s[n] = e THEN 1 ELSE 0)
          <5>1. PICK k \in Nat : k = n /\ k = Len(s) /\ k # 0
            BY <4>1
          <5>2. Occurrences(s, e) = Occurrences(SubSeq(s, 1, k - 1), e) + (IF s[k] = e THEN 1 ELSE 0)
            BY <5>1, LastAdds
          <5> QED BY <2>7, <5>1, <5>2
        <4>4. Occurrences(t, e) = Occurrences(t1, e) + (IF t[m] = e THEN 1 ELSE 0)
          <5>1. PICK k \in Nat : k = m /\ k = Len(t) /\ k # 0
            BY <4>2
          <5>2. Occurrences(t, e) = Occurrences(SubSeq(t, 1, k - 1), e) + (IF t[k] = e THEN 1 ELSE 0)
            BY <5>1, LastAdds
          <5> QED BY <2>7, <5>1, <5>2
        <4> QED BY <4>3, <4>4
      <3>3. Occurrences(s1, e) \in Nat /\ Occurrences(t1, e) \in Nat
        BY <2>8, OccurrencesNat
      <3>4. Occurrences(s, e) = Occurrences(t, e)
        OBVIOUS
      <3>5. PICK x, y, d : /\ x = Occurrences(s1, e) /\ y = Occurrences(t1, e)
                           /\ d = IF t[m] = e THEN 1 ELSE 0
        OBVIOUS
      <3>6. x + d = y + d /\ x \in Nat /\ y \in Nat /\ d \in Nat
        BY <2>6, <3>1, <3>3, <3>4, <3>5
      <3>7. x = y
        BY <3>6
      <3> QED BY <3>5, <3>7
    <2>11. s1 = t1
      BY <1>3, <2>8, <2>10
    <2>12. n = m
      BY <2>2, <2>8, <2>11
    <2> QED BY <2>1, <2>2, <2>6, <2>8, <2>11, <2>12
  <1>4. Len(v) \in Good
    <2>1. Len(v) \in 0 .. Len(v)
      BY <1>1
    <2> HIDE DEF Good
    <2> QED BY <1>1, <1>2, <1>3, <2>1, UpToInduction
  <1> QED BY <1>4

-----------------------------------------------------------------------------
(* What std::merge makes of two ranges *)

\* What it makes of the rest of two vectors, where f says what it makes of less.
MergedRest(v, w, i, j, f) ==
    IF i = Len(v) THEN SubSeq(w, j + 1, Len(w))
    ELSE IF j = Len(w) THEN SubSeq(v, i + 1, Len(v))
    ELSE IF w[j + 1] < v[i + 1] THEN <<w[j + 1]>> \o f[<<i, j + 1>>]
                                ELSE <<v[i + 1]>> \o f[<<i + 1, j>>]

IsMerge(v, w, f) ==
    f = [taken \in (0 .. Len(v)) \X (0 .. Len(w)) |-> MergedRest(v, w, taken[1], taken[2], f)]

\* The loop ends: the function by which it is defined exists.
LEMMA MergeExists ==
    ASSUME NEW S, NEW v \in Seq(S), NEW w \in Seq(S)
    PROVE  \E f : IsMerge(v, w, f)
  <1>1. PICK m \in Nat, n \in Nat : m = Len(v) /\ n = Len(w)
    BY LenProperties
  <1> DEFINE Pairs == (0 .. m) \X (0 .. n)
             left(i, j) == (m - i) + (n - j)
             Fits(d, f) == \A i \in 0 .. m, j \in 0 .. n :
                              left(i, j) <= d => f[<<i, j>>] = MergedRest(v, w, i, j, f)
             Good == {d \in 0 .. m + n : \E f : Fits(d, f)}
  <1>2. 0 \in Good
    <2>1. PICK f : f = [taken \in Pairs |-> SubSeq(w, n + 1, n)]
      OBVIOUS
    <2>2. ASSUME NEW i \in 0 .. m, NEW j \in 0 .. n, left(i, j) <= 0
          PROVE  f[<<i, j>>] = MergedRest(v, w, i, j, f)
      <3>1. i = m /\ j = n
        BY <2>2
      <3> QED BY <1>1, <2>1, <3>1 DEF MergedRest
    <2>3. \E h : Fits(0, h)
      BY <2>2
    <2>4. 0 \in 0 .. m + n
      OBVIOUS
    <2> HIDE DEF Fits
    <2> QED BY <2>3, <2>4
  <1>3. ASSUME NEW d \in 1 .. m + n, d - 1 \in Good PROVE d \in Good
    <2>1. PICK f : Fits(d - 1, f)
      BY <1>3
    <2>2. PICK g : g = [taken \in Pairs |->
                          IF left(taken[1], taken[2]) = d
                          THEN MergedRest(v, w, taken[1], taken[2], f) ELSE f[taken]]
      OBVIOUS
    <2>3. \A i \in 0 .. m, j \in 0 .. n :
             g[<<i, j>>] = IF left(i, j) = d THEN MergedRest(v, w, i, j, f) ELSE f[<<i, j>>]
      BY <2>2
    <2>4. ASSUME NEW i \in 0 .. m, NEW j \in 0 .. n, left(i, j) <= d
          PROVE  MergedRest(v, w, i, j, g) = MergedRest(v, w, i, j, f)
      <3>1. CASE i = m \/ j = n
        BY <1>1, <3>1 DEF MergedRest
      <3>2. CASE i # m /\ j # n
        <4>1. /\ i + 1 \in 0 .. m /\ j + 1 \in 0 .. n
              /\ left(i + 1, j) # d /\ left(i, j + 1) # d
          BY <2>4, <3>2
        <4>2. g[<<i + 1, j>>] = f[<<i + 1, j>>] /\ g[<<i, j + 1>>] = f[<<i, j + 1>>]
          <5> HIDE DEF left
          <5> QED BY <2>3, <4>1
        <4> QED BY <4>2 DEF MergedRest
      <3> QED BY <3>1, <3>2
    <2>5. ASSUME NEW i \in 0 .. m, NEW j \in 0 .. n, left(i, j) <= d
          PROVE  g[<<i, j>>] = MergedRest(v, w, i, j, g)
      <3>1. CASE left(i, j) = d
        <4>1. g[<<i, j>>] = MergedRest(v, w, i, j, f)
          BY <2>3, <3>1
        <4> QED BY <2>4, <2>5, <4>1
      <3>2. CASE left(i, j) # d
        <4>1. left(i, j) <= d - 1
          BY <2>5, <3>2
        <4>2. g[<<i, j>>] = f[<<i, j>>] /\ f[<<i, j>>] = MergedRest(v, w, i, j, f)
          <5> HIDE DEF left
          <5> QED BY <2>1, <2>3, <3>2, <4>1
        <4> QED BY <2>4, <2>5, <4>2
      <3> QED BY <3>1, <3>2
    <2>6. \E h : Fits(d, h)
      BY <2>5
    <2>7. d \in 0 .. m + n
      OBVIOUS
    <2> HIDE DEF Fits
    <2> QED BY <2>6, <2>7
  <1>4. m + n \in Good
    <2>1. m + n \in Nat /\ m + n \in 0 .. m + n
      OBVIOUS
    <2> HIDE DEF Good
    <2> QED BY <1>2, <1>3, <2>1, UpToInduction
  <1>5. PICK f : Fits(m + n, f)
    BY <1>4
  <1>6. PICK h : h = [taken \in Pairs |-> f[taken]]
    OBVIOUS
  <1>7. ASSUME NEW i \in 0 .. m, NEW j \in 0 .. n
        PROVE  h[<<i, j>>] = MergedRest(v, w, i, j, h)
    <2>1. left(i, j) <= m + n
      OBVIOUS
    <2>2. h[<<i, j>>] = f[<<i, j>>] /\ f[<<i, j>>] = MergedRest(v, w, i, j, f)
      BY <1>5, <1>6, <2>1
    <2>3. MergedRest(v, w, i, j, h) = MergedRest(v, w, i, j, f)
      <3>1. CASE i = m \/ j = n
        BY <1>1, <3>1 DEF MergedRest
      <3>2. CASE i # m /\ j # n
        <4>1. i + 1 \in 0 .. m /\ j + 1 \in 0 .. n
          BY <3>2
        <4>2. h[<<i + 1, j>>] = f[<<i + 1, j>>] /\ h[<<i, j + 1>>] = f[<<i, j + 1>>]
          BY <1>6, <4>1
        <4> QED BY <4>2 DEF MergedRest
      <3> QED BY <3>1, <3>2
    <2> QED BY <2>2, <2>3
  <1>8. IsMerge(v, w, h)
    <2>1. ASSUME NEW taken \in Pairs
          PROVE  h[taken] = MergedRest(v, w, taken[1], taken[2], h)
      <3>1. taken[1] \in 0 .. m /\ taken[2] \in 0 .. n /\ taken = <<taken[1], taken[2]>>
        OBVIOUS
      <3> QED BY <1>7, <3>1
    <2>2. h = [taken \in Pairs |-> MergedRest(v, w, taken[1], taken[2], h)]
      BY <1>6, <2>1
    <2> QED BY <1>1, <2>2 DEF IsMerge
  <1> QED BY <1>8

\* What it makes of what is left after i elements of the one and j of the other.
LEMMA MergedRangesSteps ==
    ASSUME NEW S, NEW v \in Seq(S), NEW w \in Seq(S)
    PROVE  \E f : /\ MergedRanges(v, w) = f[<<0, 0>>]
                  /\ \A i \in 0 .. Len(v), j \in 0 .. Len(w) :
                        f[<<i, j>>] = MergedRest(v, w, i, j, f)
  <1>1. MergedRanges(v, w) = (CHOOSE f : IsMerge(v, w, f))[<<0, 0>>]
    BY DEF MergedRanges, IsMerge, MergedRest
  <1>2. PICK f : IsMerge(v, w, f) /\ MergedRanges(v, w) = f[<<0, 0>>]
    BY <1>1, MergeExists
  <1>3. \A i \in 0 .. Len(v), j \in 0 .. Len(w) : f[<<i, j>>] = MergedRest(v, w, i, j, f)
    BY <1>2 DEF IsMerge
  <1> QED BY <1>2, <1>3

\* The end of a sequence after its first i elements.
LEMMA RestFacts ==
    ASSUME NEW S, NEW v \in Seq(S), NEW i \in 0 .. Len(v)
    PROVE  /\ SubSeq(v, i + 1, Len(v)) \in Seq(S)
           /\ i = Len(v) => \A e : Occurrences(SubSeq(v, i + 1, Len(v)), e) = 0
           /\ i # Len(v) =>
                 /\ v[i + 1] \in S
                 /\ \A e : Occurrences(SubSeq(v, i + 1, Len(v)), e) =
                             (IF v[i + 1] = e THEN 1 ELSE 0)
                             + Occurrences(SubSeq(v, (i + 1) + 1, Len(v)), e)
  <1>1. PICK n \in Nat : n = Len(v)
    BY LenProperties
  <1>2. CASE i = n
    <2>1. SubSeq(v, i + 1, n) = <<>>
      BY <1>1, <1>2
    <2>2. <<>> \in Seq(S) /\ \A e : Occurrences(<<>>, e) = 0
      <3>1. <<>> \in Seq(S) /\ DOMAIN <<>> = {}
        OBVIOUS
      <3> QED BY <3>1, OccurrencesNat
    <2> QED BY <1>1, <1>2, <2>1, <2>2
  <1>3. CASE i # n
    <2>1. i + 1 \in 1 .. Len(v)
      BY <1>1, <1>3
    <2>2. SubSeq(v, i + 1, Len(v)) \in Seq(S) /\ v[i + 1] \in S
      BY <2>1, PartsFacts
    <2>3. \A e : Occurrences(SubSeq(v, i + 1, Len(v)), e) =
                    (IF v[i + 1] = e THEN 1 ELSE 0)
                    + Occurrences(SubSeq(v, (i + 1) + 1, Len(v)), e)
      BY <2>1, TailAdds
    <2> QED BY <1>1, <1>3, <2>2, <2>3
  <1> QED BY <1>2, <1>3

\* Nothing is lost and nothing is added.
LEMMA MergedRangesCount ==
    ASSUME NEW S, NEW v \in Seq(S), NEW w \in Seq(S), NEW f,
           \A i \in 0 .. Len(v), j \in 0 .. Len(w) : f[<<i, j>>] = MergedRest(v, w, i, j, f)
    PROVE  \A i \in 0 .. Len(v), j \in 0 .. Len(w) :
              /\ f[<<i, j>>] \in Seq(S)
              /\ \A e : Occurrences(f[<<i, j>>], e) =
                           Occurrences(SubSeq(v, i + 1, Len(v)), e)
                           + Occurrences(SubSeq(w, j + 1, Len(w)), e)
  <1>1. PICK m \in Nat, n \in Nat : m = Len(v) /\ n = Len(w)
    BY LenProperties
  <1> DEFINE left(i, j) == (m - i) + (n - j)
             Right(i, j) == /\ f[<<i, j>>] \in Seq(S)
                            /\ \A e : Occurrences(f[<<i, j>>], e) =
                                         Occurrences(SubSeq(v, i + 1, m), e)
                                         + Occurrences(SubSeq(w, j + 1, n), e)
             Good == {d \in 0 .. m + n :
                        \A i \in 0 .. m, j \in 0 .. n : left(i, j) <= d => Right(i, j)}
  <1>2. ASSUME NEW i \in 0 .. m, NEW j \in 0 .. n, i = m \/ j = n PROVE Right(i, j)
    <2>1. /\ SubSeq(v, i + 1, m) \in Seq(S) /\ SubSeq(w, j + 1, n) \in Seq(S)
          /\ i = m => \A e : Occurrences(SubSeq(v, i + 1, m), e) = 0
          /\ j = n => \A e : Occurrences(SubSeq(w, j + 1, n), e) = 0
      BY <1>1, RestFacts
    <2>2. f[<<i, j>>] = IF i = m THEN SubSeq(w, j + 1, n) ELSE SubSeq(v, i + 1, m)
      BY <1>1, <1>2 DEF MergedRest
    <2>3. \A e : Occurrences(SubSeq(v, i + 1, m), e) \in Nat
                 /\ Occurrences(SubSeq(w, j + 1, n), e) \in Nat
      BY <2>1, OccurrencesNat
    <2>4. CASE i = m
      <3>1. PICK rest : rest = SubSeq(w, j + 1, n)
        OBVIOUS
      <3>2. f[<<i, j>>] = rest
        BY <2>2, <2>4, <3>1
      <3>3. ASSUME NEW e PROVE Occurrences(rest, e) =
                                  Occurrences(SubSeq(v, i + 1, m), e)
                                  + Occurrences(SubSeq(w, j + 1, n), e)
        <4>1. Occurrences(SubSeq(v, i + 1, m), e) = 0 /\ Occurrences(rest, e) \in Nat
          BY <2>1, <2>3, <2>4, <3>1
        <4> QED BY <3>1, <4>1
      <3> QED BY <2>1, <3>1, <3>2, <3>3
    <2>5. CASE i # m
      <3>1. PICK rest : rest = SubSeq(v, i + 1, m)
        OBVIOUS
      <3>2. f[<<i, j>>] = rest /\ j = n
        BY <1>2, <2>2, <2>5, <3>1
      <3>3. ASSUME NEW e PROVE Occurrences(rest, e) =
                                  Occurrences(SubSeq(v, i + 1, m), e)
                                  + Occurrences(SubSeq(w, j + 1, n), e)
        <4>1. Occurrences(SubSeq(w, j + 1, n), e) = 0 /\ Occurrences(rest, e) \in Nat
          BY <2>1, <2>3, <3>1, <3>2
        <4> QED BY <3>1, <4>1
      <3> QED BY <2>1, <3>1, <3>2, <3>3
    <2> QED BY <2>4, <2>5
  <1>3. 0 \in Good
    <2>1. ASSUME NEW i \in 0 .. m, NEW j \in 0 .. n, left(i, j) <= 0 PROVE i = m
      BY <2>1
    <2>2. \A i \in 0 .. m, j \in 0 .. n : left(i, j) <= 0 => Right(i, j)
      <3> HIDE DEF left, Right
      <3> QED BY <1>2, <2>1
    <2>3. 0 \in 0 .. m + n
      OBVIOUS
    <2> HIDE DEF Right
    <2> QED BY <2>2, <2>3
  <1>4. ASSUME NEW d \in 1 .. m + n, d - 1 \in Good PROVE d \in Good
    <2>1. ASSUME NEW i \in 0 .. m, NEW j \in 0 .. n, left(i, j) <= d, i # m, j # n
          PROVE  Right(i, j)
      <3>1. /\ i + 1 \in 0 .. m /\ j + 1 \in 0 .. n
            /\ left(i + 1, j) <= d - 1 /\ left(i, j + 1) <= d - 1
        BY <2>1
      <3>2. Right(i + 1, j) /\ Right(i, j + 1)
        <4> HIDE DEF left, Right
        <4> QED BY <1>4, <3>1
      <3>3. PICK x, y : x = v[i + 1] /\ y = w[j + 1]
        OBVIOUS
      <3>4. PICK vi, wj, vi1, wj1 :
               /\ vi = SubSeq(v, i + 1, m) /\ wj = SubSeq(w, j + 1, n)
               /\ vi1 = SubSeq(v, (i + 1) + 1, m) /\ wj1 = SubSeq(w, (j + 1) + 1, n)
        OBVIOUS
      <3>5. /\ x \in S /\ y \in S
            /\ vi \in Seq(S) /\ wj \in Seq(S)
            /\ \A e : Occurrences(vi, e) = (IF x = e THEN 1 ELSE 0) + Occurrences(vi1, e)
            /\ \A e : Occurrences(wj, e) = (IF y = e THEN 1 ELSE 0) + Occurrences(wj1, e)
        BY <1>1, <2>1, <3>3, <3>4, RestFacts
      <3>6. vi1 \in Seq(S) /\ wj1 \in Seq(S)
        BY <1>1, <3>1, <3>4, RestFacts
      <3>7. PICK r1, r2 : r1 = f[<<i + 1, j>>] /\ r2 = f[<<i, j + 1>>]
        OBVIOUS
      <3>8. /\ r1 \in Seq(S) /\ \A e : Occurrences(r1, e) = Occurrences(vi1, e) + Occurrences(wj, e)
            /\ r2 \in Seq(S) /\ \A e : Occurrences(r2, e) = Occurrences(vi, e) + Occurrences(wj1, e)
        BY <3>2, <3>4, <3>7
      <3>9. f[<<i, j>>] = IF y < x THEN <<y>> \o r2 ELSE <<x>> \o r1
        BY <1>1, <2>1, <3>3, <3>7 DEF MergedRest
      <3>10. ASSUME NEW one \in S, NEW r \in Seq(S), NEW e
             PROVE  /\ <<one>> \o r \in Seq(S)
                    /\ Occurrences(<<one>> \o r, e) = (IF one = e THEN 1 ELSE 0) + Occurrences(r, e)
        <4>1. PICK s \in Seq(S) : s = <<one>> /\ Occurrences(s, e) = IF one = e THEN 1 ELSE 0
          BY OccurrencesOne
        <4>2. s \o r \in Seq(S) /\ Occurrences(s \o r, e) = Occurrences(s, e) + Occurrences(r, e)
          BY OccurrencesConcat
        <4> QED BY <4>1, <4>2
      <3>11. PICK all : all = f[<<i, j>>]
        OBVIOUS
      <3>12. all \in Seq(S)
        BY <3>5, <3>8, <3>9, <3>10, <3>11
      <3>13. ASSUME NEW e PROVE Occurrences(all, e) = Occurrences(vi, e) + Occurrences(wj, e)
        <4>1. PICK isX, isY : isX = (IF x = e THEN 1 ELSE 0) /\ isY = (IF y = e THEN 1 ELSE 0)
          OBVIOUS
        <4>2. PICK a, b, c, d1 : /\ a = Occurrences(vi, e) /\ b = Occurrences(wj, e)
                                /\ c = Occurrences(vi1, e) /\ d1 = Occurrences(wj1, e)
          OBVIOUS
        <4>3. a \in Nat /\ b \in Nat /\ c \in Nat /\ d1 \in Nat /\ isX \in Nat /\ isY \in Nat
          BY <3>5, <3>6, <4>1, <4>2, OccurrencesNat
        <4>4. a = isX + c /\ b = isY + d1
          BY <3>5, <4>1, <4>2
        <4>5. Occurrences(all, e) = IF y < x THEN isY + (a + d1) ELSE isX + (c + b)
          <5>1. CASE y < x
            <6>1. all = <<y>> \o r2
              BY <3>9, <3>11, <5>1
            <6>2. Occurrences(<<y>> \o r2, e) = isY + Occurrences(r2, e)
              BY <3>5, <3>8, <3>10, <4>1
            <6> QED BY <3>8, <4>2, <5>1, <6>1, <6>2
          <5>2. CASE ~(y < x)
            <6>1. all = <<x>> \o r1
              BY <3>9, <3>11, <5>2
            <6>2. Occurrences(<<x>> \o r1, e) = isX + Occurrences(r1, e)
              BY <3>5, <3>8, <3>10, <4>1
            <6> QED BY <3>8, <4>2, <5>2, <6>1, <6>2
          <5> QED BY <5>1, <5>2
        <4>6. Occurrences(all, e) = a + b
          <5>1. isY + (a + d1) = a + b /\ isX + (c + b) = a + b
            BY <4>3, <4>4
          <5> QED BY <4>5, <5>1
        <4> QED BY <4>2, <4>6
      <3> QED BY <3>4, <3>11, <3>12, <3>13
    <2>2. \A i \in 0 .. m, j \in 0 .. n : left(i, j) <= d => Right(i, j)
      <3> HIDE DEF left, Right
      <3> QED BY <1>2, <2>1
    <2>3. d \in 0 .. m + n
      OBVIOUS
    <2> HIDE DEF Right
    <2> QED BY <2>2, <2>3
  <1>5. m + n \in Good
    <2>1. m + n \in Nat /\ m + n \in 0 .. m + n
      OBVIOUS
    <2> HIDE DEF Good
    <2> QED BY <1>3, <1>4, <2>1, UpToInduction
  <1>6. ASSUME NEW i \in 0 .. m, NEW j \in 0 .. n PROVE Right(i, j)
    <2>1. left(i, j) <= m + n
      OBVIOUS
    <2> HIDE DEF left, Right
    <2> QED BY <1>5, <2>1
  <1>7. ASSUME NEW i \in 0 .. Len(v), NEW j \in 0 .. Len(w)
        PROVE  /\ f[<<i, j>>] \in Seq(S)
               /\ \A e : Occurrences(f[<<i, j>>], e) =
                            Occurrences(SubSeq(v, i + 1, Len(v)), e)
                            + Occurrences(SubSeq(w, j + 1, Len(w)), e)
    <2>1. Right(i, j)
      <3> HIDE DEF Right
      <3> QED BY <1>1, <1>6
    <2> QED BY <1>1, <2>1
  <1> QED BY <1>7

\* Two sorted vectors are merged into one.
LEMMA MergedRangesSorted ==
    ASSUME NEW v \in Seq(Element), NEW w \in Seq(Element), Ascending(v), Ascending(w), NEW f,
           \A i \in 0 .. Len(v), j \in 0 .. Len(w) : f[<<i, j>>] = MergedRest(v, w, i, j, f)
    PROVE  \A i \in 0 .. Len(v), j \in 0 .. Len(w) : Ascending(f[<<i, j>>])
  <1>1. PICK m \in Nat, n \in Nat : m = Len(v) /\ n = Len(w)
    BY LenProperties
  <1> DEFINE left(i, j) == (m - i) + (n - j)
             Good == {d \in 0 .. m + n :
                        \A i \in 0 .. m, j \in 0 .. n : left(i, j) <= d => Ascending(f[<<i, j>>])}
  <1>2. ASSUME NEW i \in 0 .. m, NEW j \in 0 .. n, i = m \/ j = n PROVE Ascending(f[<<i, j>>])
    <2>1. f[<<i, j>>] = IF i = m THEN SubSeq(w, j + 1, n) ELSE SubSeq(v, i + 1, m)
      BY <1>1, <1>2 DEF MergedRest
    <2>2. Ascending(SubSeq(w, j + 1, n)) /\ Ascending(SubSeq(v, i + 1, m))
      BY <1>1, AscendingTail
    <2> QED BY <2>1, <2>2
  <1>3. 0 \in Good
    <2>1. ASSUME NEW i \in 0 .. m, NEW j \in 0 .. n, left(i, j) <= 0 PROVE i = m
      BY <2>1
    <2>2. \A i \in 0 .. m, j \in 0 .. n : left(i, j) <= 0 => Ascending(f[<<i, j>>])
      <3> HIDE DEF left
      <3> QED BY <1>2, <2>1
    <2>3. 0 \in 0 .. m + n
      OBVIOUS
    <2> QED BY <2>2, <2>3
  <1>4. ASSUME NEW i \in 0 .. m, NEW j \in 0 .. n, NEW x \in Int,
               \A a \in i + 1 .. m : x <= v[a], \A b \in j + 1 .. n : x <= w[b]
        PROVE  \A k \in DOMAIN f[<<i, j>>] : x <= f[<<i, j>>][k]
    <2>1. PICK all : all = f[<<i, j>>]
      OBVIOUS
    <2> SUFFICES ASSUME NEW k \in DOMAIN all PROVE x <= all[k]
      BY <2>1
    <2>2. PICK vi, wj : vi = SubSeq(v, i + 1, m) /\ wj = SubSeq(w, j + 1, n)
      OBVIOUS
    <2>3. PICK e : e = all[k]
      OBVIOUS
    <2>4. all \in Seq(Element) /\ Occurrences(all, e) = Occurrences(vi, e) + Occurrences(wj, e)
      <3>1. i \in 0 .. Len(v) /\ j \in 0 .. Len(w)
        BY <1>1
      <3>2. /\ f[<<i, j>>] \in Seq(Element)
            /\ \A c : Occurrences(f[<<i, j>>], c) =
                         Occurrences(SubSeq(v, i + 1, Len(v)), c)
                         + Occurrences(SubSeq(w, j + 1, Len(w)), c)
        BY <3>1, MergedRangesCount
      <3> QED BY <1>1, <2>1, <2>2, <3>2
    <2>5. vi \in Seq(Element) /\ wj \in Seq(Element)
      BY <1>1, <2>2, RestFacts
    <2>6. Occurrences(all, e) # 0
      BY <2>3, <2>4, OccurrencesNat
    <2>7. Occurrences(vi, e) # 0 \/ Occurrences(wj, e) # 0
      BY <2>4, <2>6
    <2>8. CASE Occurrences(vi, e) # 0
      <3>1. PICK a \in DOMAIN vi : vi[a] = e
        BY <2>5, <2>8, OccursSomewhere
      <3>2. i + a \in i + 1 .. m /\ vi[a] = v[i + a]
        BY <1>1, <2>2
      <3> QED BY <1>4, <2>3, <3>1, <3>2
    <2>9. CASE Occurrences(wj, e) # 0
      <3>1. PICK b \in DOMAIN wj : wj[b] = e
        BY <2>5, <2>9, OccursSomewhere
      <3>2. j + b \in j + 1 .. n /\ wj[b] = w[j + b]
        BY <1>1, <2>2
      <3> QED BY <1>4, <2>3, <3>1, <3>2
    <2> QED BY <2>7, <2>8, <2>9
  <1>5. ASSUME NEW d \in 1 .. m + n, d - 1 \in Good PROVE d \in Good
    <2>1. ASSUME NEW i \in 0 .. m, NEW j \in 0 .. n, left(i, j) <= d, i # m, j # n
          PROVE  Ascending(f[<<i, j>>])
      <3>1. /\ i + 1 \in 0 .. m /\ j + 1 \in 0 .. n
            /\ i + 1 \in 1 .. m /\ j + 1 \in 1 .. n
            /\ left(i + 1, j) <= d - 1 /\ left(i, j + 1) <= d - 1
        BY <2>1
      <3>2. PICK r1, r2 : r1 = f[<<i + 1, j>>] /\ r2 = f[<<i, j + 1>>]
        OBVIOUS
      <3>3. Ascending(r1) /\ Ascending(r2)
        <4> HIDE DEF left
        <4> QED BY <1>5, <3>1, <3>2
      <3>4. r1 \in Seq(Element) /\ r2 \in Seq(Element)
        BY <1>1, <3>1, <3>2, MergedRangesCount
      <3>5. PICK x, y : x = v[i + 1] /\ y = w[j + 1]
        OBVIOUS
      <3>6. x \in Element /\ y \in Element /\ x \in Int /\ y \in Int
        BY <1>1, <3>1, <3>5, ElementOfSeq, ElementAssumption
      <3>7. f[<<i, j>>] = IF y < x THEN <<y>> \o r2 ELSE <<x>> \o r1
        BY <1>1, <2>1, <3>2, <3>5 DEF MergedRest
      <3>8. /\ \A a \in i + 1 .. m : x <= v[a] /\ v[a] \in Int
            /\ \A b \in j + 1 .. n : y <= w[b] /\ w[b] \in Int
        <4>1. DOMAIN v = 1 .. m /\ DOMAIN w = 1 .. n
          BY <1>1, LenProperties
        <4>2. \A a \in i + 1 .. m : a \in 1 .. m /\ i + 1 <= a
          OBVIOUS
        <4>3. \A b \in j + 1 .. n : b \in 1 .. n /\ j + 1 <= b
          OBVIOUS
        <4>4. /\ \A a \in 1 .. m : v[a] \in Int
              /\ \A b \in 1 .. n : w[b] \in Int
          BY <1>1, ElementOfSeq, ElementAssumption
        <4> QED BY <3>1, <3>5, <4>1, <4>2, <4>3, <4>4 DEF Ascending
      <3>9. CASE y < x
        <4>1. \A a \in i + 1 .. m : y <= v[a]
          BY <3>6, <3>8, <3>9
        <4>2. \A b \in (j + 1) + 1 .. n : y <= w[b]
          BY <3>8
        <4>3. \A k \in DOMAIN r2 : y <= r2[k]
          BY <1>4, <3>1, <3>2, <3>6, <4>1, <4>2
        <4> QED BY <3>3, <3>4, <3>6, <3>7, <3>9, <4>3, AscendingCons
      <3>10. CASE ~(y < x)
        <4>1. \A b \in j + 1 .. n : x <= w[b]
          BY <3>6, <3>8, <3>10
        <4>2. \A a \in (i + 1) + 1 .. m : x <= v[a]
          BY <3>8
        <4>3. \A k \in DOMAIN r1 : x <= r1[k]
          BY <1>4, <3>1, <3>2, <3>6, <4>1, <4>2
        <4> QED BY <3>3, <3>4, <3>6, <3>7, <3>10, <4>3, AscendingCons
      <3> QED BY <3>9, <3>10
    <2>2. \A i \in 0 .. m, j \in 0 .. n : left(i, j) <= d => Ascending(f[<<i, j>>])
      <3> HIDE DEF left
      <3> QED BY <1>2, <2>1
    <2>3. d \in 0 .. m + n
      OBVIOUS
    <2> QED BY <2>2, <2>3
  <1>6. m + n \in Good
    <2>1. m + n \in Nat /\ m + n \in 0 .. m + n
      OBVIOUS
    <2> HIDE DEF Good
    <2> QED BY <1>3, <1>5, <2>1, UpToInduction
  <1>7. ASSUME NEW i \in 0 .. m, NEW j \in 0 .. n PROVE Ascending(f[<<i, j>>])
    <2>1. left(i, j) <= m + n
      OBVIOUS
    <2> HIDE DEF left
    <2> QED BY <1>6, <2>1
  <1> QED BY <1>1, <1>7

\* The merged vector has all elements of both, and is sorted if they are.
LEMMA MergedRangesFacts ==
    ASSUME NEW v \in Seq(Element), NEW w \in Seq(Element)
    PROVE  /\ MergedRanges(v, w) \in Seq(Element)
           /\ \A e : Occurrences(MergedRanges(v, w), e) = Occurrences(v, e) + Occurrences(w, e)
           /\ Ascending(v) /\ Ascending(w) => Ascending(MergedRanges(v, w))
  <1>1. PICK f : /\ MergedRanges(v, w) = f[<<0, 0>>]
                 /\ \A i \in 0 .. Len(v), j \in 0 .. Len(w) :
                       f[<<i, j>>] = MergedRest(v, w, i, j, f)
    BY MergedRangesSteps
  <1>2. PICK m \in Nat, n \in Nat : m = Len(v) /\ n = Len(w)
    BY LenProperties
  <1>3. 0 \in 0 .. m /\ 0 \in 0 .. n
    OBVIOUS
  <1>4. SubSeq(v, 0 + 1, m) = v /\ SubSeq(w, 0 + 1, n) = w
    BY <1>2, SubSeqFull
  <1>5. /\ f[<<0, 0>>] \in Seq(Element)
        /\ \A e : Occurrences(f[<<0, 0>>], e) =
                     Occurrences(SubSeq(v, 0 + 1, m), e) + Occurrences(SubSeq(w, 0 + 1, n), e)
    BY <1>1, <1>2, <1>3, MergedRangesCount
  <1>6. Ascending(v) /\ Ascending(w) => Ascending(f[<<0, 0>>])
    BY <1>1, <1>2, <1>3, MergedRangesSorted
  <1> QED BY <1>1, <1>4, <1>5, <1>6

\* Without its first element of a kind a sequence has one of these less, and its order.
LEMMA RemoveFirstFacts ==
    ASSUME NEW v \in Seq(Element), NEW e
    PROVE  LET r == Seqs!RemoveFirst(v, e)
           IN  /\ r \in Seq(Element)
               /\ \A c : Occurrences(r, c) =
                           Occurrences(v, c) - (IF c = e /\ Occurrences(v, e) # 0 THEN 1 ELSE 0)
               /\ Ascending(v) => Ascending(r)
  <1>1. PICK n \in Nat : n = Len(v) /\ DOMAIN v = 1 .. n
    BY LenProperties
  <1>2. PICK r : r = Seqs!RemoveFirst(v, e)
    OBVIOUS
  <1>3. CASE Occurrences(v, e) = 0
    <2>1. \A i \in 1 .. n : v[i] # e
      BY <1>1, <1>3, OccurrencesNat
    <2>2. r = v
      BY <1>1, <1>2, <2>1 DEF Seqs!RemoveFirst
    <2>3. \A c : Occurrences(v, c) \in Nat
      BY OccurrencesNat
    <2> QED BY <1>2, <1>3, <2>2, <2>3
  <1>4. CASE Occurrences(v, e) # 0
    <2>1. PICK places \in SUBSET (1 .. n) : places = {i \in 1 .. n : v[i] = e}
      OBVIOUS
    <2>2. places # {}
      BY <1>1, <1>4, <2>1, OccursSomewhere
    <2>3. PICK i : i = Min(places)
      OBVIOUS
    <2>4. i \in places
      BY <2>2, <2>3, MinFacts
    <2>5. i \in 1 .. n /\ v[i] = e
      BY <2>1, <2>4
    <2>6. PICK before, after : before = SubSeq(v, 1, i - 1) /\ after = SubSeq(v, i + 1, n)
      OBVIOUS
    <2>7. r = before \o after
      <3>1. \E k \in 1 .. Len(v) : v[k] = e
        BY <1>1, <2>5
      <3>2. r = Seqs!RemoveAt(v, Seqs!SelectInSeq(v, LAMBDA x : x = e))
        BY <1>2, <3>1 DEF Seqs!RemoveFirst
      <3>3. Seqs!SelectInSeq(v, LAMBDA x : x = e) = i
        BY <1>1, <2>1, <2>2, <2>3 DEF Seqs!SelectInSeq, Seqs!Min, Min
      <3> QED BY <1>1, <2>6, <3>2, <3>3 DEF Seqs!RemoveAt
    <2>8. /\ before \in Seq(Element) /\ after \in Seq(Element)
          /\ Len(before) = i - 1 /\ Len(after) = n - i
      BY <1>1, <2>5, <2>6, PartsFacts
    <2>9. r \in Seq(Element) /\ Len(r) = n - 1
      <3>1. before \o after \in Seq(Element) /\ Len(before \o after) = Len(before) + Len(after)
        BY <2>8, ConcatProperties
      <3>2. Len(r) = (i - 1) + (n - i)
        BY <2>7, <2>8, <3>1
      <3>3. (i - 1) + (n - i) = n - 1
        BY <2>5
      <3> QED BY <2>7, <3>1, <3>2, <3>3
    <2>10. ASSUME NEW c
           PROVE  Occurrences(r, c) = Occurrences(v, c) - (IF c = e THEN 1 ELSE 0)
      <3>1. PICK x, y, z, one : /\ x = Occurrences(before, c) /\ y = Occurrences(after, c)
                                /\ z = Occurrences(SubSeq(v, 1, i), c)
                                /\ one = IF c = e THEN 1 ELSE 0
        OBVIOUS
      <3>2. x \in Nat /\ y \in Nat /\ one \in Nat
        BY <2>8, <3>1, OccurrencesNat
      <3>3. Occurrences(r, c) = x + y
        BY <2>7, <2>8, <3>1, OccurrencesConcat
      <3>4. i \in 1 .. Len(v)
        BY <1>1, <2>5
      <3>5. z = x + one
        BY <2>5, <2>6, <3>1, <3>4, FrontAdds
      <3>6. Occurrences(v, c) = z + y
        BY <1>1, <2>6, <3>1, <3>4, PartsAdd
      <3>7. x + y = (x + one + y) - one
        BY <3>2
      <3> QED BY <3>1, <3>3, <3>5, <3>6, <3>7
    <2>11. ASSUME Ascending(v) PROVE Ascending(r)
      <3>1. DOMAIN r = 1 .. n - 1
        BY <2>9
      <3>2. ASSUME NEW k \in 1 .. n - 1 PROVE r[k] = v[IF k < i THEN k ELSE k + 1]
        <4>1. CASE k < i
          <5>1. k \in 1 .. Len(before) + Len(after) /\ k <= Len(before) /\ k \in 1 .. i - 1
            BY <2>5, <2>8, <4>1
          <5>2. r[k] = before[k]
            BY <2>7, <2>8, <5>1, ConcatProperties
          <5>3. before[k] = v[k]
            <6>1. 1 \in Int /\ i - 1 \in Int /\ \A l \in 1 .. i - 1 : v[l] \in Element
              BY <1>1, <2>5, ElementOfSeq
            <6>2. k \in 1 .. (i - 1) - 1 + 1 /\ 1 + k - 1 = k
              BY <2>5, <5>1
            <6>3. before[k] = v[1 + k - 1]
              BY <2>6, <6>1, <6>2, SubSeqProperties
            <6> QED BY <6>2, <6>3
          <5> QED BY <4>1, <5>2, <5>3
        <4>2. CASE ~(k < i)
          <5>1. k - (i - 1) \in 1 .. n - i /\ k \in 1 .. Len(before) + Len(after)
                /\ ~(k <= Len(before))
            BY <2>5, <2>8, <4>2
          <5>2. r[k] = after[k - (i - 1)]
            BY <2>7, <2>8, <5>1, ConcatProperties
          <5>3. after[k - (i - 1)] = v[i + (k - (i - 1))]
            <6>1. i + 1 \in Int /\ n \in Int /\ \A l \in i + 1 .. n : v[l] \in Element
              BY <1>1, <2>5, ElementOfSeq
            <6>2. PICK l : l = k - (i - 1)
              OBVIOUS
            <6>3. l \in 1 .. n - (i + 1) + 1 /\ (i + 1) + l - 1 = i + l
              BY <2>5, <5>1, <6>2
            <6>4. after[l] = v[(i + 1) + l - 1]
              BY <2>6, <6>1, <6>3, SubSeqProperties
            <6> QED BY <6>2, <6>3, <6>4
          <5>4. i + (k - (i - 1)) = k + 1
            BY <2>5
          <5> QED BY <4>2, <5>2, <5>3, <5>4
        <4> QED BY <4>1, <4>2
      <3>3. ASSUME NEW k \in 1 .. n - 1, NEW l \in 1 .. n - 1, k <= l PROVE r[k] <= r[l]
        <4>1. PICK k1, l1 : k1 = (IF k < i THEN k ELSE k + 1) /\ l1 = (IF l < i THEN l ELSE l + 1)
          OBVIOUS
        <4>2. k1 \in 1 .. n /\ l1 \in 1 .. n /\ k1 <= l1
          BY <2>5, <3>3, <4>1
        <4>3. r[k] = v[k1] /\ r[l] = v[l1]
          BY <3>2, <4>1
        <4> QED BY <1>1, <2>11, <4>2, <4>3 DEF Ascending
      <3> QED BY <3>1, <3>3 DEF Ascending
    <2> QED BY <1>2, <1>4, <2>9, <2>10, <2>11
  <1> QED BY <1>3, <1>4

-----------------------------------------------------------------------------
(* Two vectors *)

\* For an element of the incoming vector that has a partner, one is taken out again.
TakeOut(v, w, merged, j) ==
    IF Occurrences(SubSeq(w, 1, j), w[j]) <= Occurrences(v, w[j])
    THEN Seqs!RemoveFirst(merged, w[j]) ELSE merged

OwnPlace(w) == [j \in DOMAIN w |-> j]

IsFix(v, w, iter) ==
    iter = [s \in SUBSET DOMAIN OwnPlace(w) |->
              IF s = {} THEN MergedRanges(v, w)
              ELSE TakeOut(v, w, iter[s \ {Max(s)}], OwnPlace(w)[Max(s)])]

\* A set of places.
LEMMA MaxOfPlaces ==
    ASSUME NEW n \in Nat, NEW s \in SUBSET (1 .. n), s # {}
    PROVE  Max(s) \in 1 .. n
  <1>1. IsFiniteSet(1 .. n) /\ 1 .. n \subseteq Int
    BY FS_Interval
  <1>2. IsFiniteSet(s)
    BY <1>1, FS_Subset
  <1> QED BY <1>1, <1>2, MaxFacts

\* The vectors on the way from the merged one to the result.
LEMMA FixLocalConflictSteps ==
    ASSUME NEW v \in Seq(Element), NEW w \in Seq(Element)
    PROVE  \E h : /\ h[0] = MergedRanges(v, w) /\ FixLocalConflict(v, w) = h[Len(w)]
                  /\ \A j \in 1 .. Len(w) : h[j] = TakeOut(v, w, h[j - 1], j)
  <1>1. FixLocalConflict(v, w) = (CHOOSE iter : IsFix(v, w, iter))[DOMAIN OwnPlace(w)]
    BY DEF FixLocalConflict, Seqs!FoldLeftDomain, Seqs!FoldLeft, Seqs!MapThenFoldSet, MapThenFoldSet,
           IsFix, TakeOut, OwnPlace, Seqs!Max, Max
  <1>2. PICK n \in Nat : n = Len(w) /\ DOMAIN w = 1 .. n
    BY LenProperties
  <1>3. DOMAIN OwnPlace(w) = 1 .. n /\ \A j \in 1 .. n : OwnPlace(w)[j] = j
    BY <1>2 DEF OwnPlace
  <1>4. ASSUME NEW merged \in Seq(Element), NEW j PROVE TakeOut(v, w, merged, j) \in Seq(Element)
    BY RemoveFirstFacts DEF TakeOut
  <1>5. \E iter : IsFix(v, w, iter)
    <2>1. PICK F : F = [j \in 1 .. n |-> [merged \in Seq(Element) |-> TakeOut(v, w, merged, j)]]
      OBVIOUS
    <2>2. /\ F \in [1 .. n -> [Seq(Element) -> Seq(Element)]]
          /\ \A merged \in Seq(Element), j \in 1 .. n : F[j][merged] = TakeOut(v, w, merged, j)
      BY <1>4, <2>1
    <2>3. MergedRanges(v, w) \in Seq(Element)
      BY MergedRangesFacts
    <2>4. PICK iter : IsFold(n, Seq(Element), MergedRanges(v, w), F, iter)
      BY <2>2, <2>3, FoldExists
    <2>5. ASSUME NEW s \in SUBSET (1 .. n)
          PROVE  iter[s] = IF s = {} THEN MergedRanges(v, w)
                           ELSE TakeOut(v, w, iter[s \ {Max(s)}], OwnPlace(w)[Max(s)])
      <3>1. CASE s # {}
        <4>1. Max(s) \in 1 .. n
          BY <3>1, MaxOfPlaces
        <4>2. iter[s \ {Max(s)}] \in Seq(Element)
          BY <2>4 DEF IsFold
        <4>3. iter[s] = F[Max(s)][iter[s \ {Max(s)}]]
          BY <2>4, <3>1 DEF IsFold
        <4> QED BY <1>3, <2>2, <3>1, <4>1, <4>2, <4>3
      <3> QED BY <2>4, <3>1 DEF IsFold
    <2>6. iter = [s \in SUBSET (1 .. n) |-> iter[s]]
      BY <2>4 DEF IsFold
    <2>7. IsFix(v, w, iter)
      BY <1>3, <2>5, <2>6 DEF IsFix
    <2> QED BY <2>7
  <1>6. PICK iter : IsFix(v, w, iter) /\ FixLocalConflict(v, w) = iter[1 .. n]
    BY <1>1, <1>3, <1>5
  <1>7. PICK h : h = [j \in 0 .. n |-> iter[1 .. j]]
    OBVIOUS
  <1>8. h[0] = MergedRanges(v, w)
    <2>1. 1 .. 0 = {} /\ h[0] = iter[1 .. 0]
      BY <1>7
    <2> QED BY <1>3, <1>6, <2>1 DEF IsFix
  <1>9. h[n] = FixLocalConflict(v, w)
    BY <1>6, <1>7
  <1>10a. ASSUME NEW s \in SUBSET (1 .. n), s # {}
          PROVE  iter[s] = TakeOut(v, w, iter[s \ {Max(s)}], OwnPlace(w)[Max(s)])
    BY <1>3, <1>6, <1>10a DEF IsFix
  <1>10. ASSUME NEW j \in 1 .. n PROVE h[j] = TakeOut(v, w, h[j - 1], j)
    <2>1. /\ 1 .. j \in SUBSET (1 .. n) /\ 1 .. j # {} /\ Max(1 .. j) = j
          /\ iter[(1 .. j) \ {j}] = iter[1 .. (j - 1)]
      BY FoldSteps
    <2>2. PICK s \in SUBSET (1 .. n) : s = 1 .. j
      BY <2>1
    <2>3. /\ iter[s] = TakeOut(v, w, iter[s \ {Max(s)}], OwnPlace(w)[Max(s)])
          /\ Max(s) = j /\ OwnPlace(w)[Max(s)] = j
          /\ iter[s \ {Max(s)}] = iter[1 .. (j - 1)]
      BY <1>3, <1>10a, <2>1, <2>2
    <2>4. iter[1 .. j] = TakeOut(v, w, iter[1 .. (j - 1)], j)
      BY <2>2, <2>3
    <2>5. h[j] = iter[1 .. j] /\ h[j - 1] = iter[1 .. (j - 1)]
      BY <1>7
    <2> QED BY <2>4, <2>5
  <1> QED BY <1>2, <1>8, <1>9, <1>10

\* The result has of each element as many as the vector that has more of them, and is sorted
\* if both are.
LEMMA FixLocalConflictFacts ==
    ASSUME NEW v \in Seq(Element), NEW w \in Seq(Element)
    PROVE  LET both == FixLocalConflict(v, w)
           IN  /\ both \in Seq(Element)
               /\ \A e : Occurrences(both, e) = IF Occurrences(v, e) >= Occurrences(w, e)
                                                THEN Occurrences(v, e) ELSE Occurrences(w, e)
               /\ Ascending(v) /\ Ascending(w) => Ascending(both)
  <1>1. PICK n \in Nat : n = Len(w) /\ DOMAIN w = 1 .. n
    BY LenProperties
  <1>2. PICK h : /\ h[0] = MergedRanges(v, w) /\ FixLocalConflict(v, w) = h[n]
                 /\ \A j \in 1 .. n : h[j] = TakeOut(v, w, h[j - 1], j)
    BY <1>1, FixLocalConflictSteps
  <1> DEFINE seen(j, e) == Occurrences(SubSeq(w, 1, j), e)
             taken(j, e) == IF seen(j, e) <= Occurrences(v, e) THEN seen(j, e) ELSE Occurrences(v, e)
             Right(j) == /\ h[j] \in Seq(Element)
                         /\ \A e : Occurrences(h[j], e) =
                                      (Occurrences(v, e) + Occurrences(w, e)) - taken(j, e)
                         /\ Ascending(v) /\ Ascending(w) => Ascending(h[j])
             Good == {j \in 0 .. n : Right(j)}
  <1>3. ASSUME NEW e PROVE Occurrences(v, e) \in Nat /\ Occurrences(w, e) \in Nat
    BY OccurrencesNat
  <1>4. ASSUME NEW j \in 0 .. n, NEW e PROVE seen(j, e) \in Nat /\ seen(j, e) <= Occurrences(w, e)
    <2>1. CASE j = 0
      <3>1. SubSeq(w, 1, j) = <<>>
        BY <2>1
      <3>2. Occurrences(<<>>, e) = 0
        <4>1. <<>> \in Seq(Element) /\ DOMAIN <<>> = {}
          OBVIOUS
        <4> QED BY <4>1, OccurrencesNat
      <3>3. seen(j, e) = 0
        BY <3>1, <3>2
      <3> HIDE DEF seen
      <3> QED BY <1>3, <3>3
    <2>2. CASE j # 0
      <3>1. j \in 1 .. Len(w)
        BY <1>1, <2>2
      <3>2. /\ SubSeq(w, 1, j) \in Seq(Element) /\ SubSeq(w, j + 1, Len(w)) \in Seq(Element)
            /\ Occurrences(w, e) =
                  Occurrences(SubSeq(w, 1, j), e) + Occurrences(SubSeq(w, j + 1, Len(w)), e)
        BY <3>1, PartsFacts, PartsAdd
      <3>3. Occurrences(SubSeq(w, 1, j), e) \in Nat /\ Occurrences(SubSeq(w, j + 1, Len(w)), e) \in Nat
        BY <3>2, OccurrencesNat
      <3> QED BY <3>2, <3>3
    <2> QED BY <2>1, <2>2
  <1>5. 0 \in Good
    <2>1. ASSUME NEW e PROVE seen(0, e) = 0
      <3>1. SubSeq(w, 1, 0) = <<>>
        OBVIOUS
      <3>2. <<>> \in Seq(Element) /\ DOMAIN <<>> = {}
        OBVIOUS
      <3> QED BY <3>1, <3>2, OccurrencesNat
    <2>2. ASSUME NEW e PROVE taken(0, e) = 0
      BY <1>3, <2>1
    <2>3. /\ MergedRanges(v, w) \in Seq(Element)
          /\ \A e : Occurrences(MergedRanges(v, w), e) = Occurrences(v, e) + Occurrences(w, e)
          /\ Ascending(v) /\ Ascending(w) => Ascending(MergedRanges(v, w))
      BY MergedRangesFacts
    <2>4. ASSUME NEW e PROVE Occurrences(h[0], e) = (Occurrences(v, e) + Occurrences(w, e)) - taken(0, e)
      <3> HIDE DEF taken
      <3> QED BY <1>2, <1>3, <2>2, <2>3
    <2>5. Right(0)
      BY <1>2, <2>3, <2>4
    <2>6. 0 \in 0 .. n
      OBVIOUS
    <2> HIDE DEF Right
    <2> QED BY <2>5, <2>6
  <1>6. ASSUME NEW j \in 1 .. n, j - 1 \in Good PROVE j \in Good
    <2>1. PICK x \in Element : x = w[j]
      BY <1>1, ElementOfSeq
    <2>2. PICK before : before = h[j - 1]
      OBVIOUS
    <2>3. /\ before \in Seq(Element)
          /\ \A e : Occurrences(before, e) = (Occurrences(v, e) + Occurrences(w, e)) - taken(j - 1, e)
          /\ Ascending(v) /\ Ascending(w) => Ascending(before)
      BY <1>6, <2>2
    <2>4. ASSUME NEW e PROVE seen(j, e) = seen(j - 1, e) + (IF x = e THEN 1 ELSE 0)
      BY <1>1, <2>1, FrontAdds
    <2>5. h[j] = IF seen(j, x) <= Occurrences(v, x) THEN Seqs!RemoveFirst(before, x) ELSE before
      BY <1>2, <2>1, <2>2 DEF TakeOut
    <2>6. j \in 0 .. n /\ j - 1 \in 0 .. n
      OBVIOUS
    <2>7. ASSUME NEW e
          PROVE  /\ seen(j, e) \in Nat /\ seen(j - 1, e) \in Nat
                 /\ seen(j, e) <= Occurrences(w, e)
                 /\ Occurrences(v, e) \in Nat /\ Occurrences(w, e) \in Nat
      BY <1>3, <1>4, <2>6
    <2>8. CASE seen(j, x) <= Occurrences(v, x)
      <3>1. Occurrences(before, x) # 0
        <4>1. PICK a, b, c, d : /\ a = seen(j, x) /\ b = seen(j - 1, x)
                                /\ c = Occurrences(v, x) /\ d = Occurrences(w, x)
          OBVIOUS
        <4>2. a = b + 1 /\ a <= d /\ a <= c /\ a \in Nat /\ b \in Nat /\ c \in Nat /\ d \in Nat
          BY <2>4, <2>7, <2>8, <4>1
        <4>3. Occurrences(before, x) = (c + d) - (IF b <= c THEN b ELSE c)
          BY <2>3, <4>1
        <4> QED BY <4>2, <4>3
      <3>2. h[j] = Seqs!RemoveFirst(before, x)
        BY <2>5, <2>8
      <3>3. /\ h[j] \in Seq(Element)
            /\ \A c : Occurrences(h[j], c) = Occurrences(before, c) - (IF c = x THEN 1 ELSE 0)
            /\ Ascending(before) => Ascending(h[j])
        BY <2>3, <3>1, <3>2, RemoveFirstFacts
      <3>4. ASSUME NEW e
            PROVE  Occurrences(h[j], e) = (Occurrences(v, e) + Occurrences(w, e)) - taken(j, e)
        <4>1. PICK a, b, c, d : /\ a = seen(j, e) /\ b = seen(j - 1, e)
                                /\ c = Occurrences(v, e) /\ d = Occurrences(w, e)
          OBVIOUS
        <4>2. /\ a = b + (IF x = e THEN 1 ELSE 0)
              /\ a \in Nat /\ b \in Nat /\ c \in Nat /\ d \in Nat
          BY <2>4, <2>7, <4>1
        <4>3. x = e => a <= c
          BY <2>8, <4>1
        <4>4. Occurrences(h[j], e) =
                 ((c + d) - (IF b <= c THEN b ELSE c)) - (IF e = x THEN 1 ELSE 0)
          BY <2>3, <3>3, <4>1
        <4>5. Occurrences(h[j], e) = (c + d) - (IF a <= c THEN a ELSE c)
          BY <4>2, <4>3, <4>4
        <4> QED BY <4>1, <4>5
      <3>5. Right(j)
        BY <2>3, <3>3, <3>4
      <3> HIDE DEF Right
      <3> QED BY <2>6, <3>5
    <2>9. CASE ~(seen(j, x) <= Occurrences(v, x))
      <3>1. h[j] = before
        BY <2>5, <2>9
      <3>2. ASSUME NEW e
            PROVE  Occurrences(h[j], e) = (Occurrences(v, e) + Occurrences(w, e)) - taken(j, e)
        <4>1. PICK a, b, c, d : /\ a = seen(j, e) /\ b = seen(j - 1, e)
                                /\ c = Occurrences(v, e) /\ d = Occurrences(w, e)
          OBVIOUS
        <4>2. /\ a = b + (IF x = e THEN 1 ELSE 0)
              /\ a \in Nat /\ b \in Nat /\ c \in Nat /\ d \in Nat
          BY <2>4, <2>7, <4>1
        <4>3. x = e => ~(a <= c)
          BY <2>9, <4>1
        <4>4. Occurrences(h[j], e) = (c + d) - (IF b <= c THEN b ELSE c)
          BY <2>3, <3>1, <4>1
        <4>5. Occurrences(h[j], e) = (c + d) - (IF a <= c THEN a ELSE c)
          BY <4>2, <4>3, <4>4
        <4> QED BY <4>1, <4>5
      <3>3. Right(j)
        BY <2>3, <3>1, <3>2
      <3> HIDE DEF Right
      <3> QED BY <2>6, <3>3
    <2> QED BY <2>8, <2>9
  <1>7. n \in Good
    <2>1. n \in 0 .. n
      OBVIOUS
    <2> HIDE DEF Good
    <2> QED BY <1>5, <1>6, <2>1, UpToInduction
  <1>8. SubSeq(w, 1, n) = w
    BY <1>1, SubSeqFull
  <1>9. ASSUME NEW e
        PROVE  Occurrences(h[n], e) = IF Occurrences(v, e) >= Occurrences(w, e)
                                      THEN Occurrences(v, e) ELSE Occurrences(w, e)
    <2>1. PICK c, d : c = Occurrences(v, e) /\ d = Occurrences(w, e)
      OBVIOUS
    <2>2. c \in Nat /\ d \in Nat
      BY <1>3, <2>1
    <2>3. Occurrences(h[n], e) = (c + d) - (IF d <= c THEN d ELSE c)
      BY <1>7, <1>8, <2>1
    <2> QED BY <2>1, <2>2, <2>3
  <1> QED BY <1>2, <1>7, <1>9

-----------------------------------------------------------------------------
(* Two texts *)

\* What a text consists of; 0 stands where none was put.
Character == Element \cup {0}

\* A character put in makes the text longer by one, and there is one more of its kind.
LEMMA PutInFacts ==
    ASSUME NEW S, NEW v \in Seq(S), NEW i \in 0 .. Len(v), NEW e \in S
    PROVE  /\ Seqs!InsertAt(v, i + 1, e) \in Seq(S)
           /\ Len(Seqs!InsertAt(v, i + 1, e)) = Len(v) + 1
           /\ \A c : Occurrences(Seqs!InsertAt(v, i + 1, e), c) =
                        Occurrences(v, c) + (IF e = c THEN 1 ELSE 0)
  <1>0. ASSUME NEW x \in Seq(S), NEW y \in Seq(S)
        PROVE  /\ x \o y \in Seq(S) /\ Len(x \o y) = Len(x) + Len(y)
               /\ \A c : Occurrences(x \o y, c) = Occurrences(x, c) + Occurrences(y, c)
    <2>1. ASSUME NEW c
          PROVE  /\ x \o y \in Seq(S) /\ Len(x \o y) = Len(x) + Len(y)
                 /\ Occurrences(x \o y, c) = Occurrences(x, c) + Occurrences(y, c)
      BY OccurrencesConcat
    <2> QED BY <2>1
  <1>1. PICK n \in Nat : n = Len(v) /\ DOMAIN v = 1 .. n
    BY LenProperties
  <1>2. PICK before, one, after :
           before = SubSeq(v, 1, i) /\ one = <<e>> /\ after = SubSeq(v, i + 1, n)
    OBVIOUS
  <1>3. Seqs!InsertAt(v, i + 1, e) = (before \o one) \o after
    <2>1. (i + 1) - 1 = i
      OBVIOUS
    <2> QED BY <1>1, <1>2, <2>1 DEF Seqs!InsertAt
  <1>4. one \in Seq(S) /\ Len(one) = 1 /\ \A c : Occurrences(one, c) = IF e = c THEN 1 ELSE 0
    BY <1>2, OccurrencesOne
  <1>5. /\ before \in Seq(S) /\ after \in Seq(S) /\ Len(before) + Len(after) = n
        /\ \A c : Occurrences(v, c) = Occurrences(before, c) + Occurrences(after, c)
    <2>1. CASE i = 0
      <3>1. before = <<>> /\ after = v
        <4>1. SubSeq(v, 1, n) = v
          BY <1>1, SubSeqFull
        <4> QED BY <1>2, <2>1, <4>1
      <3>2. \A c : Occurrences(<<>>, c) = 0 /\ Occurrences(v, c) \in Nat
        BY OccurrencesNat, OccurrencesOne
      <3> QED BY <1>1, <3>1, <3>2
    <2>2. CASE i # 0
      <3>1. i \in 1 .. Len(v)
        BY <1>1, <2>2
      <3>2. before \in Seq(S) /\ after \in Seq(S) /\ Len(after) = n - i /\ v = before \o after
        BY <1>1, <1>2, <3>1, PartsFacts
      <3>3. /\ Len(before \o after) = Len(before) + Len(after)
            /\ \A c : Occurrences(before \o after, c) = Occurrences(before, c) + Occurrences(after, c)
        BY <1>0, <3>2
      <3> QED BY <1>1, <3>2, <3>3
    <2> QED BY <2>1, <2>2
  <1>6. /\ before \o one \in Seq(S) /\ Len(before \o one) = Len(before) + 1
        /\ \A c : Occurrences(before \o one, c) = Occurrences(before, c) + (IF e = c THEN 1 ELSE 0)
    <2>1. /\ before \o one \in Seq(S) /\ Len(before \o one) = Len(before) + Len(one)
          /\ \A c : Occurrences(before \o one, c) = Occurrences(before, c) + Occurrences(one, c)
      BY <1>0, <1>4, <1>5
    <2> QED BY <1>4, <2>1
  <1>7. PICK longer : longer = before \o one
    OBVIOUS
  <1>8. /\ longer \o after \in Seq(S) /\ Len(longer \o after) = Len(longer) + Len(after)
        /\ \A c : Occurrences(longer \o after, c) = Occurrences(longer, c) + Occurrences(after, c)
    BY <1>0, <1>5, <1>6, <1>7
  <1>9. Len(longer \o after) = n + 1
    <2>1. Len(before) \in Nat /\ Len(after) \in Nat
      BY <1>5, LenProperties
    <2> QED BY <1>5, <1>6, <1>7, <1>8, <2>1
  <1>10. ASSUME NEW c
         PROVE  Occurrences(longer \o after, c) = Occurrences(v, c) + (IF e = c THEN 1 ELSE 0)
    <2>1. PICK x, y, z, add : /\ x = Occurrences(before, c) /\ y = Occurrences(after, c)
                              /\ z = Occurrences(longer, c) /\ add = IF e = c THEN 1 ELSE 0
      OBVIOUS
    <2>2. x \in Nat /\ y \in Nat /\ add \in Nat
      BY <1>5, <2>1, OccurrencesNat
    <2>3. z = x + add /\ Occurrences(longer \o after, c) = z + y /\ Occurrences(v, c) = x + y
      BY <1>5, <1>6, <1>7, <1>8, <2>1
    <2> QED BY <2>1, <2>2, <2>3
  <1> QED BY <1>1, <1>3, <1>7, <1>8, <1>9, <1>10

\* The same of one kind of character.
LEMMA PutInCount ==
    ASSUME NEW S, NEW v \in Seq(S), NEW i \in 0 .. Len(v), NEW e \in S, NEW c
    PROVE  Occurrences(Seqs!InsertAt(v, i + 1, e), c) =
              Occurrences(v, c) + (IF e = c THEN 1 ELSE 0)
  <1>1. PICK r : r = Seqs!InsertAt(v, i + 1, e)
    OBVIOUS
  <1>2. \A x : Occurrences(Seqs!InsertAt(v, i + 1, e), x) =
                  Occurrences(v, x) + (IF e = x THEN 1 ELSE 0)
    BY PutInFacts
  <1> QED BY <1>2

\* The shorter of two texts, or the known one, and the other.
ShortText(known, md) == IF Len(known) > Len(md) THEN md ELSE known
LongText(known, md) == IF Len(known) > Len(md) THEN known ELSE md

\* The places up to the i-th at which the short text has a c and the long one has not.
DifferingAt(short, long, c, i) == {j \in 1 .. i : short[j] = c /\ short[j] # long[j]}

\* Whether the i-th character of the short text is put into the long one, and what it makes
\* of what the long one has become by then.
MissingAt(short, long, i) ==
    /\ i \in DifferingAt(short, long, short[i], i)
    /\ Cardinality(DifferingAt(short, long, short[i], i))
          <= Occurrences(short, short[i]) - Occurrences(long, short[i])

PutIn(short, long, merged, i) ==
    IF MissingAt(short, long, i) THEN Seqs!InsertAt(merged, i + 1, short[i]) ELSE merged

IsTextFix(short, long, iter) ==
    iter = [s \in SUBSET DOMAIN OwnPlace(short) |->
              IF s = {} THEN long
              ELSE PutIn(short, long, iter[s \ {Max(s)}], OwnPlace(short)[Max(s)])]

TextFix(short, long) == (CHOOSE iter : IsTextFix(short, long, iter))[DOMAIN OwnPlace(short)]

\* What the long text becomes, character by character of the short one.
IsTextPath(S, short, long, h) ==
    /\ h[0] = long
    /\ \A i \in 0 .. Len(short) : h[i] \in Seq(S) /\ Len(long) <= Len(h[i])
    /\ \A i \in 1 .. Len(short) : h[i] = PutIn(short, long, h[i - 1], i)

\* The texts on the way from the long one to the result.
LEMMA FixTextSteps ==
    ASSUME NEW S, NEW short \in Seq(S), NEW long \in Seq(S), Len(short) <= Len(long)
    PROVE  \E h : IsTextPath(S, short, long, h) /\ TextFix(short, long) = h[Len(short)]
  <1>1. PICK n \in Nat : n = Len(short) /\ DOMAIN short = 1 .. n
    BY LenProperties
  <1>2. PICK m \in Nat : m = Len(long) /\ n <= m
    BY <1>1, LenProperties
  <1>3. DOMAIN OwnPlace(short) = 1 .. n /\ \A j \in 1 .. n : OwnPlace(short)[j] = j
    BY <1>1 DEF OwnPlace
  <1>4. PICK texts : texts = {v \in Seq(S) : m <= Len(v)}
    OBVIOUS
  <1>5. ASSUME NEW merged \in texts, NEW i \in 1 .. n PROVE PutIn(short, long, merged, i) \in texts
    <2>1. merged \in Seq(S) /\ m <= Len(merged) /\ Len(merged) \in Nat
      BY <1>4, LenProperties
    <2>2. i \in 0 .. Len(merged) /\ short[i] \in S
      BY <1>1, <1>2, <2>1, ElementOfSeq
    <2>3. PICK e \in S : e = short[i]
      BY <2>2
    <2>5. /\ Seqs!InsertAt(merged, i + 1, e) \in Seq(S)
          /\ Len(Seqs!InsertAt(merged, i + 1, e)) = Len(merged) + 1
      BY <2>1, <2>2, PutInFacts
    <2>4. m <= Len(merged) + 1
      BY <2>1
    <2> QED BY <1>4, <2>3, <2>4, <2>5 DEF PutIn
  <1>6. \E iter : IsTextFix(short, long, iter) /\ iter \in [SUBSET (1 .. n) -> texts]
    <2>1. PICK F : F = [j \in 1 .. n |-> [merged \in texts |-> PutIn(short, long, merged, j)]]
      OBVIOUS
    <2>2. /\ F \in [1 .. n -> [texts -> texts]]
          /\ \A merged \in texts, j \in 1 .. n : F[j][merged] = PutIn(short, long, merged, j)
      BY <1>5, <2>1
    <2>3. long \in texts
      BY <1>2, <1>4
    <2>4. PICK iter : IsFold(n, texts, long, F, iter)
      BY <2>2, <2>3, FoldExists
    <2>5. ASSUME NEW s \in SUBSET (1 .. n)
          PROVE  iter[s] = IF s = {} THEN long
                           ELSE PutIn(short, long, iter[s \ {Max(s)}], OwnPlace(short)[Max(s)])
      <3>1. CASE s # {}
        <4>1. Max(s) \in 1 .. n
          BY <3>1, MaxOfPlaces
        <4>2. iter[s \ {Max(s)}] \in texts
          BY <2>4 DEF IsFold
        <4>3. iter[s] = F[Max(s)][iter[s \ {Max(s)}]]
          BY <2>4, <3>1 DEF IsFold
        <4> QED BY <1>3, <2>2, <3>1, <4>1, <4>2, <4>3
      <3> QED BY <2>4, <3>1 DEF IsFold
    <2>6. iter \in [SUBSET (1 .. n) -> texts] /\ iter = [s \in SUBSET (1 .. n) |-> iter[s]]
      BY <2>4 DEF IsFold
    <2>7. IsTextFix(short, long, iter)
      BY <1>3, <2>5, <2>6 DEF IsTextFix
    <2> QED BY <2>6, <2>7
  <1>7. PICK iter : /\ IsTextFix(short, long, iter)
                    /\ (CHOOSE f : IsTextFix(short, long, f)) = iter
    BY <1>6
  <1>8. PICK h : h = [j \in 0 .. n |-> iter[1 .. j]]
    OBVIOUS
  <1>9. ASSUME NEW s \in SUBSET (1 .. n), s # {}
        PROVE  iter[s] = PutIn(short, long, iter[s \ {Max(s)}], OwnPlace(short)[Max(s)])
    BY <1>3, <1>7, <1>9 DEF IsTextFix
  <1>10. h[0] = long
    <2>1. 1 .. 0 = {} /\ h[0] = iter[1 .. 0]
      BY <1>8
    <2> QED BY <1>3, <1>7, <2>1 DEF IsTextFix
  <1>11. h[n] = (CHOOSE f : IsTextFix(short, long, f))[DOMAIN OwnPlace(short)]
    <2>1. h[n] = iter[1 .. n]
      BY <1>8
    <2> QED BY <1>3, <1>7, <2>1
  <1>12. ASSUME NEW j \in 1 .. n PROVE h[j] = PutIn(short, long, h[j - 1], j)
    <2>1. /\ 1 .. j \in SUBSET (1 .. n) /\ 1 .. j # {} /\ Max(1 .. j) = j
          /\ iter[(1 .. j) \ {j}] = iter[1 .. (j - 1)]
      BY FoldSteps
    <2>2. PICK s \in SUBSET (1 .. n) : s = 1 .. j
      BY <2>1
    <2>3. /\ iter[s] = PutIn(short, long, iter[s \ {Max(s)}], OwnPlace(short)[Max(s)])
          /\ Max(s) = j /\ OwnPlace(short)[Max(s)] = j
          /\ iter[s \ {Max(s)}] = iter[1 .. (j - 1)]
      BY <1>3, <1>9, <2>1, <2>2
    <2>4. iter[1 .. j] = PutIn(short, long, iter[1 .. (j - 1)], j)
      BY <2>2, <2>3
    <2>5. h[j] = iter[1 .. j] /\ h[j - 1] = iter[1 .. (j - 1)]
      BY <1>8
    <2> QED BY <2>4, <2>5
  <1> DEFINE Good == {j \in 0 .. n : h[j] \in texts}
  <1>13. 0 \in Good
    BY <1>2, <1>4, <1>10
  <1>14. ASSUME NEW j \in 1 .. n, j - 1 \in Good PROVE j \in Good
    <2>1. h[j] \in texts
      BY <1>5, <1>12, <1>14
    <2> QED BY <2>1
  <1>15. \A j \in 0 .. n : j \in Good
    <2> HIDE DEF Good
    <2> QED BY <1>13, <1>14, UpToInduction
  <1>16. \A j \in 0 .. n : h[j] \in Seq(S) /\ m <= Len(h[j])
    BY <1>4, <1>15
  <1>17. IsTextPath(S, short, long, h)
    BY <1>1, <1>2, <1>10, <1>12, <1>16 DEF IsTextPath
  <1>18. TextFix(short, long) = h[Len(short)]
    BY <1>1, <1>11 DEF TextFix
  <1> QED BY <1>17, <1>18

\* The places at which a character of the short text is not at the same place of the long one.
LEMMA DifferingFacts ==
    ASSUME NEW S, NEW short \in Seq(S), NEW long \in Seq(S), Len(short) <= Len(long), NEW c
    PROVE  /\ \A i \in 0 .. Len(short) : Cardinality(DifferingAt(short, long, c, i)) \in Nat
           /\ Cardinality(DifferingAt(short, long, c, 0)) = 0
           /\ \A i \in 1 .. Len(short) :
                 Cardinality(DifferingAt(short, long, c, i)) =
                    Cardinality(DifferingAt(short, long, c, i - 1))
                    + IF short[i] = c /\ short[i] # long[i] THEN 1 ELSE 0
           /\ Occurrences(short, c) <=
                 Occurrences(long, c) + Cardinality(DifferingAt(short, long, c, Len(short)))
  <1>1. PICK n \in Nat, m \in Nat : /\ n = Len(short) /\ DOMAIN short = 1 .. n
                                    /\ m = Len(long) /\ DOMAIN long = 1 .. m /\ n <= m
    BY LenProperties
  <1> DEFINE places(i) == DifferingAt(short, long, c, i)
  <1>2. ASSUME NEW i \in 0 .. n
        PROVE  IsFiniteSet(places(i)) /\ Cardinality(places(i)) \in Nat
    <2>1. places(i) \subseteq 1 .. i /\ IsFiniteSet(1 .. i)
      BY FS_Interval DEF DifferingAt
    <2>2. IsFiniteSet(places(i))
      BY <2>1, FS_Subset
    <2> QED BY <2>2, FS_CardinalityType
  <1>3. Cardinality(places(0)) = 0
    <2>1. places(0) = {}
      BY DEF DifferingAt
    <2> QED BY <2>1, FS_EmptySet
  <1>4. ASSUME NEW i \in 1 .. n
        PROVE  Cardinality(places(i)) = Cardinality(places(i - 1))
                  + IF short[i] = c /\ short[i] # long[i] THEN 1 ELSE 0
    <2>1. /\ places(i) = places(i - 1) \cup
                            IF short[i] = c /\ short[i] # long[i] THEN {i} ELSE {}
          /\ i \notin places(i - 1) /\ i \in 0 .. n /\ i - 1 \in 0 .. n
      BY DEF DifferingAt
    <2>2. PICK before, now : before = places(i - 1) /\ now = places(i)
      OBVIOUS
    <2>3. IsFiniteSet(before) /\ Cardinality(before) \in Nat /\ i \notin before
          /\ IsFiniteSet(now)
      BY <1>2, <2>1, <2>2
    <2>4. Cardinality(before \cup {i}) = Cardinality(before) + 1
      BY <2>3, FS_AddElement
    <2>5. Cardinality(now) = Cardinality(before)
             + IF short[i] = c /\ short[i] # long[i] THEN 1 ELSE 0
      <3>1. CASE short[i] = c /\ short[i] # long[i]
        <4>1. now = before \cup {i}
          BY <2>1, <2>2, <3>1
        <4> QED BY <2>4, <3>1, <4>1
      <3>2. CASE ~(short[i] = c /\ short[i] # long[i])
        <4>1. now = before
          BY <2>1, <2>2, <3>2
        <4> QED BY <2>3, <3>2, <4>1
      <3> QED BY <3>1, <3>2
    <2> QED BY <2>2, <2>5
  <1>5. Occurrences(short, c) <= Occurrences(long, c) + Cardinality(places(n))
    <2>1. PICK here, there, same, other :
             /\ here = Places(short, c) /\ there = Places(long, c)
             /\ same = here \cap there /\ other = places(n)
      OBVIOUS
    <2>2. /\ IsFiniteSet(here) /\ IsFiniteSet(there)
          /\ Occurrences(short, c) = Cardinality(here) /\ Occurrences(long, c) = Cardinality(there)
      BY <2>1, OccurrencesNat
    <2>3. here = same \cup other
      <3>1. here = {j \in 1 .. n : short[j] = c}
        BY <1>1, <2>1 DEF Places
      <3>2. there = {j \in 1 .. m : long[j] = c}
        BY <1>1, <2>1 DEF Places
      <3>3. other = {j \in 1 .. n : short[j] = c /\ short[j] # long[j]}
        BY <2>1 DEF DifferingAt
      <3>4. 1 .. n \subseteq 1 .. m
        BY <1>1
      <3> QED BY <2>1, <3>1, <3>2, <3>3, <3>4
    <2>4. IsFiniteSet(other) /\ Cardinality(other) \in Nat
      BY <1>2, <2>1
    <2>5. IsFiniteSet(same) /\ Cardinality(same) <= Cardinality(there)
      BY <2>1, <2>2, FS_Subset
    <2>6. /\ Cardinality(here) = Cardinality(same) + Cardinality(other) - Cardinality(same \cap other)
          /\ IsFiniteSet(same \cap other)
      BY <2>3, <2>4, <2>5, FS_Union, FS_Intersection
    <2>7. /\ Cardinality(same) \in Nat /\ Cardinality(there) \in Nat
          /\ Cardinality(same \cap other) \in Nat
      BY <2>2, <2>5, <2>6, FS_CardinalityType
    <2> QED BY <2>1, <2>2, <2>4, <2>5, <2>6, <2>7
  <1> HIDE DEF places
  <1>6. \A i \in 0 .. n : Cardinality(places(i)) \in Nat
    BY <1>2
  <1>7. \A i \in 1 .. n : Cardinality(places(i)) = Cardinality(places(i - 1))
                              + IF short[i] = c /\ short[i] # long[i] THEN 1 ELSE 0
    BY <1>4
  <1> QED BY <1>1, <1>3, <1>5, <1>6, <1>7 DEF places

\* The long text becomes one that has of each character as many as the text with more of them,
\* and stays what it is if it lacks none.
LEMMA FixTextFacts ==
    ASSUME NEW S, NEW short \in Seq(S), NEW long \in Seq(S), Len(short) <= Len(long), NEW h,
           IsTextPath(S, short, long, h)
    PROVE  LET both == h[Len(short)]
           IN  /\ both \in Seq(S)
               /\ \A c : Occurrences(both, c) = IF Occurrences(short, c) <= Occurrences(long, c)
                                                THEN Occurrences(long, c) ELSE Occurrences(short, c)
               /\ (\A c \in S : Occurrences(short, c) <= Occurrences(long, c)) => both = long
  <1>1. PICK n \in Nat, m \in Nat : /\ n = Len(short) /\ DOMAIN short = 1 .. n
                                    /\ m = Len(long) /\ n <= m
    BY LenProperties
  <1>0. /\ h[0] = long /\ \A i \in 0 .. n : h[i] \in Seq(S) /\ m <= Len(h[i])
        /\ \A i \in 1 .. n : h[i] = PutIn(short, long, h[i - 1], i)
    BY <1>1 DEF IsTextPath
  <1> DEFINE few(c) == Occurrences(short, c)
             many(c) == Occurrences(long, c)
             differ(c, i) == Cardinality(DifferingAt(short, long, c, i))
             put(c, i) == IF few(c) <= many(c) THEN 0
                          ELSE IF differ(c, i) <= few(c) - many(c) THEN differ(c, i)
                          ELSE few(c) - many(c)
  <1>2. ASSUME NEW c
        PROVE  /\ few(c) \in Nat /\ many(c) \in Nat /\ differ(c, 0) = 0
               /\ \A i \in 0 .. n : differ(c, i) \in Nat
               /\ few(c) <= many(c) + differ(c, n)
               /\ \A i \in 1 .. n :
                     /\ differ(c, i) = differ(c, i - 1)
                           + IF short[i] = c /\ short[i] # long[i] THEN 1 ELSE 0
                     /\ i \in DifferingAt(short, long, c, i) => differ(c, i) # 0
    <2>1. few(c) \in Nat /\ many(c) \in Nat
      BY OccurrencesNat
    <2>2. differ(c, 0) = 0 /\ \A i \in 0 .. n : differ(c, i) \in Nat
      BY <1>1, DifferingFacts
    <2>3. few(c) <= many(c) + differ(c, n)
      BY <1>1, DifferingFacts
    <2>4. \A i \in 1 .. n :
             differ(c, i) = differ(c, i - 1)
                + IF short[i] = c /\ short[i] # long[i] THEN 1 ELSE 0
      BY <1>1, DifferingFacts
    <2>5. \A i \in 1 .. n : i \in DifferingAt(short, long, c, i) => differ(c, i) # 0
      <3> SUFFICES ASSUME NEW i \in 1 .. n, short[i] = c /\ short[i] # long[i]
                   PROVE  differ(c, i) # 0
        BY DEF DifferingAt
      <3>1. i - 1 \in 0 .. n
        OBVIOUS
      <3>2. PICK d \in Nat : d = differ(c, i - 1)
        BY <2>2, <3>1
      <3>3. differ(c, i) = d + 1
        BY <2>4, <3>2
      <3> HIDE DEF differ
      <3> QED BY <3>3
    <2> QED BY <2>1, <2>2, <2>3, <2>4, <2>5
  <1>3. ASSUME NEW i \in 1 .. n
        PROVE  \A c : Occurrences(h[i], c) = Occurrences(h[i - 1], c)
                         + IF c = short[i] /\ MissingAt(short, long, i) THEN 1 ELSE 0
    <2>1. i - 1 \in 0 .. n /\ short[i] \in S
      BY <1>1, ElementOfSeq
    <2>2. PICK v \in Seq(S), e \in S : v = h[i - 1] /\ e = short[i] /\ m <= Len(v) /\ Len(v) \in Nat
      BY <1>0, <2>1, LenProperties
    <2>3. i \in 0 .. Len(v)
      BY <1>1, <2>2
    <2>4. \A c : Occurrences(Seqs!InsertAt(v, i + 1, e), c) =
                    Occurrences(v, c) + (IF e = c THEN 1 ELSE 0)
      BY <2>3, PutInCount
    <2>5. h[i] = IF MissingAt(short, long, i) THEN Seqs!InsertAt(v, i + 1, e) ELSE v
      BY <1>0, <2>2 DEF PutIn
    <2>6. \A c : Occurrences(v, c) \in Nat
      BY OccurrencesNat
    <2>7. CASE MissingAt(short, long, i)
      BY <2>2, <2>4, <2>5, <2>7
    <2>8. CASE ~MissingAt(short, long, i)
      BY <2>2, <2>5, <2>6, <2>8
    <2> QED BY <2>7, <2>8
  <1>4. ASSUME NEW i \in 1 .. n, NEW c
        PROVE  put(c, i) = put(c, i - 1) + IF c = short[i] /\ MissingAt(short, long, i) THEN 1 ELSE 0
    <2>1. PICK d, d0, f, g : /\ d = differ(c, i) /\ d0 = differ(c, i - 1)
                             /\ f = few(c) /\ g = many(c)
      OBVIOUS
    <2>2. /\ f \in Nat /\ g \in Nat /\ d \in Nat /\ d0 \in Nat
          /\ d = d0 + IF short[i] = c /\ short[i] # long[i] THEN 1 ELSE 0
          /\ short[i] = c /\ short[i] # long[i] => d # 0
      <3>1. i \in 0 .. n /\ i - 1 \in 0 .. n
        OBVIOUS
      <3> QED BY <1>2, <2>1, <3>1
    <2>3. c = short[i] => (MissingAt(short, long, i) <=> (short[i] # long[i] /\ d <= f - g))
      <3>1. i \in DifferingAt(short, long, c, i) <=> (short[i] = c /\ short[i] # long[i])
        BY DEF DifferingAt
      <3> QED BY <2>1, <3>1 DEF MissingAt
    <2>4. /\ put(c, i) = IF f <= g THEN 0 ELSE IF d <= f - g THEN d ELSE f - g
          /\ put(c, i - 1) = IF f <= g THEN 0 ELSE IF d0 <= f - g THEN d0 ELSE f - g
      BY <2>1
    <2> HIDE DEF put
    <2>5. CASE c = short[i] /\ short[i] # long[i]
      <3>1. d = d0 + 1
        BY <2>2, <2>5
      <3>2. MissingAt(short, long, i) <=> d <= f - g
        BY <2>3, <2>5
      <3>3. PICK p, p0 : p = put(c, i) /\ p0 = put(c, i - 1)
        OBVIOUS
      <3>4. p = p0 + IF d <= f - g THEN 1 ELSE 0
        <4>1. CASE f <= g
          BY <2>2, <2>4, <3>1, <3>3, <4>1
        <4>2. CASE ~(f <= g) /\ d <= f - g
          BY <2>2, <2>4, <3>1, <3>3, <4>2
        <4>3. CASE ~(f <= g) /\ ~(d <= f - g)
          BY <2>2, <2>4, <3>1, <3>3, <4>3
        <4> QED BY <4>1, <4>2, <4>3
      <3> QED BY <2>5, <3>2, <3>3, <3>4
    <2>6. CASE ~(c = short[i] /\ short[i] # long[i])
      <3>1. d = d0 /\ ~(c = short[i] /\ MissingAt(short, long, i))
        BY <2>2, <2>3, <2>6
      <3>2. put(c, i) = put(c, i - 1) /\ put(c, i - 1) \in Int
        BY <2>2, <2>4, <3>1
      <3> QED BY <3>1, <3>2
    <2> QED BY <2>5, <2>6
  <1>5. ASSUME NEW c
        PROVE  Occurrences(h[n], c) = many(c) + put(c, n)
    <2> DEFINE Good == {i \in 0 .. n : Occurrences(h[i], c) = many(c) + put(c, i)}
    <2>1. \A i \in 0 .. n : put(c, i) \in Int
      <3>1. ASSUME NEW i \in 0 .. n PROVE put(c, i) \in Int
        <4>1. few(c) \in Nat /\ many(c) \in Nat /\ differ(c, i) \in Nat
          BY <1>2
        <4> HIDE DEF few, many, differ
        <4> QED BY <4>1
      <3> QED BY <3>1
    <2>2. 0 \in Good
      <3>1. put(c, 0) = 0
        <4>1. few(c) \in Nat /\ many(c) \in Nat /\ differ(c, 0) = 0
          BY <1>2
        <4> HIDE DEF few, many, differ
        <4> QED BY <4>1
      <3>2. many(c) \in Nat /\ 0 \in 0 .. n
        BY <1>2
      <3> HIDE DEF put
      <3> QED BY <1>0, <3>1, <3>2
    <2>3. ASSUME NEW i \in 1 .. n, i - 1 \in Good PROVE i \in Good
      <3>1. PICK x, y, z, one : /\ x = many(c) /\ y = put(c, i - 1) /\ z = put(c, i)
                                /\ one = IF c = short[i] /\ MissingAt(short, long, i) THEN 1 ELSE 0
        OBVIOUS
      <3>2. x \in Nat /\ y \in Int /\ z \in Int /\ one \in Int /\ z = y + one
        <4>1. i - 1 \in 0 .. n /\ i \in 0 .. n
          OBVIOUS
        <4>2. x \in Nat
          BY <1>2, <3>1
        <4> HIDE DEF put
        <4>3. y \in Int /\ z \in Int
          BY <2>1, <3>1, <4>1
        <4>4. z = y + one
          BY <1>4, <3>1
        <4> QED BY <3>1, <4>2, <4>3, <4>4
      <3>3. Occurrences(h[i - 1], c) = x + y
        BY <2>3, <3>1
      <3>4. Occurrences(h[i], c) = (x + y) + one
        BY <1>3, <3>1, <3>3
      <3>5. Occurrences(h[i], c) = x + z
        BY <3>2, <3>4
      <3>6. i \in 0 .. n /\ Occurrences(h[i], c) = many(c) + put(c, i)
        BY <3>1, <3>5
      <3> HIDE DEF many, put
      <3> QED BY <3>6
    <2>4. n \in Good
      <3>1. n \in 0 .. n
        OBVIOUS
      <3> HIDE DEF Good
      <3> QED BY <2>2, <2>3, <3>1, UpToInduction
    <2> QED BY <2>4
  <1>6. ASSUME NEW c
        PROVE  Occurrences(h[n], c) = IF few(c) <= many(c) THEN many(c) ELSE few(c)
    <2>1. PICK f, g, d : f = few(c) /\ g = many(c) /\ d = differ(c, n)
      OBVIOUS
    <2>2. f \in Nat /\ g \in Nat /\ d \in Nat /\ f <= g + d
      <3>1. n \in 0 .. n
        OBVIOUS
      <3> QED BY <1>2, <2>1, <3>1
    <2>3. Occurrences(h[n], c) = g + IF f <= g THEN 0 ELSE IF d <= f - g THEN d ELSE f - g
      BY <1>5, <2>1
    <2> QED BY <2>1, <2>2, <2>3
  <1>7. ASSUME \A c \in S : few(c) <= many(c) PROVE h[n] = long
    <2> DEFINE Good == {i \in 0 .. n : h[i] = long}
    <2>1. 0 \in Good
      BY <1>0
    <2>2. ASSUME NEW i \in 1 .. n, i - 1 \in Good PROVE i \in Good
      <3>1. PICK c \in S : c = short[i]
        BY <1>1, ElementOfSeq
      <3>2. ~MissingAt(short, long, i)
        <4>1. PICK d, f, g : d = differ(c, i) /\ f = few(c) /\ g = many(c)
          OBVIOUS
        <4>2. f \in Nat /\ g \in Nat /\ f <= g /\ d \in Nat
          <5>1. i \in 0 .. n
            OBVIOUS
          <5> QED BY <1>2, <1>7, <4>1, <5>1
        <4>3. i \in DifferingAt(short, long, c, i) => d # 0
          BY <1>2, <4>1
        <4>4. ~(i \in DifferingAt(short, long, c, i) /\ d <= f - g)
          BY <4>2, <4>3
        <4> QED BY <3>1, <4>1, <4>4 DEF MissingAt
      <3>3. h[i] = h[i - 1]
        BY <1>0, <3>2 DEF PutIn
      <3> QED BY <2>2, <3>3
    <2>3. n \in Good
      <3>1. n \in 0 .. n
        OBVIOUS
      <3> HIDE DEF Good
      <3> QED BY <2>1, <2>2, <3>1, UpToInduction
    <2> QED BY <2>3
  <1>8. h[n] \in Seq(S)
    BY <1>0
  <1> QED BY <1>1, <1>6, <1>7, <1>8

\* The result of a merge has of each character as many as the text that has more of them; and a
\* text that is longer and has all characters of the other absorbs it.
LEMMA FixTextConflictFacts ==
    ASSUME NEW known \in Seq(Character), NEW md \in Seq(Character)
    PROVE  LET both == FixTextConflict(known, md)
           IN  /\ both \in Seq(Character)
               /\ \A c : Occurrences(both, c) = IF Occurrences(known, c) >= Occurrences(md, c)
                                                THEN Occurrences(known, c) ELSE Occurrences(md, c)
               /\ /\ \A c \in Character : Occurrences(known, c) <= Occurrences(md, c)
                  /\ Len(known) <= Len(md)
                  => both = md
               /\ /\ \A c \in Character : Occurrences(md, c) <= Occurrences(known, c)
                  /\ Len(known) > Len(md)
                  => both = known
  <1>1. PICK short, long : short = ShortText(known, md) /\ long = LongText(known, md)
    OBVIOUS
  <1>2. Len(known) \in Nat /\ Len(md) \in Nat
    BY LenProperties
  <1>3. short \in Seq(Character) /\ long \in Seq(Character) /\ Len(short) <= Len(long)
    BY <1>1, <1>2 DEF ShortText, LongText
  <1>4. FixTextConflict(known, md) = TextFix(short, long)
    BY <1>1 DEF FixTextConflict, Seqs!FoldLeftDomain, Seqs!FoldLeft, Seqs!MapThenFoldSet,
                MapThenFoldSet, TextFix, IsTextFix, PutIn, MissingAt, DifferingAt, OwnPlace,
                ShortText, LongText, Seqs!Max, Max
  <1>5. PICK h : IsTextPath(Character, short, long, h) /\ TextFix(short, long) = h[Len(short)]
    BY <1>3, FixTextSteps
  <1>6. PICK both : both = FixTextConflict(known, md)
    OBVIOUS
  <1>7. /\ both \in Seq(Character)
        /\ \A c : Occurrences(both, c) = IF Occurrences(short, c) <= Occurrences(long, c)
                                         THEN Occurrences(long, c) ELSE Occurrences(short, c)
        /\ (\A c \in Character : Occurrences(short, c) <= Occurrences(long, c)) => both = long
    <2>1. both = h[Len(short)]
      BY <1>4, <1>5, <1>6
    <2> QED BY <1>3, <1>5, <2>1, FixTextFacts
  <1>8. \A c : Occurrences(known, c) \in Nat /\ Occurrences(md, c) \in Nat
    BY OccurrencesNat
  <1>9. CASE Len(known) > Len(md)
    <2>1. short = md /\ long = known /\ ~(Len(known) <= Len(md))
      BY <1>1, <1>2, <1>9 DEF ShortText, LongText
    <2> QED BY <1>6, <1>7, <1>8, <2>1
  <1>10. CASE ~(Len(known) > Len(md))
    <2>1. short = known /\ long = md
      BY <1>1, <1>10 DEF ShortText, LongText
    <2> QED BY <1>6, <1>7, <1>8, <1>10, <2>1
  <1> QED BY <1>9, <1>10

-----------------------------------------------------------------------------
(* What is in a vector, or a text *)

\* The first holds no element of the set more often than the second.
FewerOf(S, v, w) == \A e \in S : Occurrences(v, e) <= Occurrences(w, e)

\* This is an order but for the places of the elements, and a sequence that has as many of
\* each as two others have at the most is the least above both.
LEMMA FewerOfOrder ==
    ASSUME NEW S, NEW v \in Seq(S), NEW w \in Seq(S), NEW x \in Seq(S)
    PROVE  /\ FewerOf(S, v, v)
           /\ FewerOf(S, v, w) /\ FewerOf(S, w, x) => FewerOf(S, v, x)
           /\ FewerOf(S, v, w) /\ FewerOf(S, w, v) =>
                 \A e \in S : Occurrences(v, e) = Occurrences(w, e)
           /\ FewerOf(S, <<>>, v)
  <1>1. ASSUME NEW e \in S
        PROVE  /\ Occurrences(v, e) \in Nat /\ Occurrences(w, e) \in Nat
               /\ Occurrences(x, e) \in Nat /\ Occurrences(<<>>, e) = 0
    <2>1. Occurrences(v, e) \in Nat
      BY OccurrencesNat
    <2>2. Occurrences(w, e) \in Nat
      BY OccurrencesNat
    <2>3. Occurrences(x, e) \in Nat
      BY OccurrencesNat
    <2>4. Occurrences(<<>>, e) = 0
      BY OccurrencesOne
    <2> QED BY <2>1, <2>2, <2>3, <2>4
  <1>2. FewerOf(S, v, v)
    BY <1>1 DEF FewerOf
  <1>3. ASSUME FewerOf(S, v, w), FewerOf(S, w, x) PROVE FewerOf(S, v, x)
    <2>1. ASSUME NEW e \in S PROVE Occurrences(v, e) <= Occurrences(x, e)
      <3>1. Occurrences(v, e) <= Occurrences(w, e) /\ Occurrences(w, e) <= Occurrences(x, e)
        BY <1>3 DEF FewerOf
      <3> QED BY <1>1, <3>1
    <2> QED BY <2>1 DEF FewerOf
  <1>4. ASSUME FewerOf(S, v, w), FewerOf(S, w, v), NEW e \in S
        PROVE  Occurrences(v, e) = Occurrences(w, e)
    <2>1. Occurrences(v, e) <= Occurrences(w, e) /\ Occurrences(w, e) <= Occurrences(v, e)
      BY <1>4 DEF FewerOf
    <2> QED BY <1>1, <2>1
  <1>5. FewerOf(S, <<>>, v)
    BY <1>1 DEF FewerOf
  <1> QED BY <1>2, <1>3, <1>4, <1>5

\* A sequence with as many of each as the one of two others that has more of it.
LEMMA MostOfBoth ==
    ASSUME NEW S, NEW v \in Seq(S), NEW w \in Seq(S), NEW both \in Seq(S),
           \A e : Occurrences(both, e) = IF Occurrences(v, e) >= Occurrences(w, e)
                                         THEN Occurrences(v, e) ELSE Occurrences(w, e)
    PROVE  /\ FewerOf(S, v, both) /\ FewerOf(S, w, both)
           /\ \A x : FewerOf(S, v, x) /\ FewerOf(S, w, x) => FewerOf(S, both, x)
  <1>1. ASSUME NEW e \in S PROVE Occurrences(v, e) \in Nat /\ Occurrences(w, e) \in Nat
    <2>1. Occurrences(v, e) \in Nat
      BY OccurrencesNat
    <2>2. Occurrences(w, e) \in Nat
      BY OccurrencesNat
    <2> QED BY <2>1, <2>2
  <1>2. ASSUME NEW e \in S
        PROVE  /\ Occurrences(v, e) <= Occurrences(both, e)
               /\ Occurrences(w, e) <= Occurrences(both, e)
    <2>1. PICK a, b, c : a = Occurrences(v, e) /\ b = Occurrences(w, e) /\ c = Occurrences(both, e)
      OBVIOUS
    <2>2. a \in Nat /\ b \in Nat /\ c = IF a >= b THEN a ELSE b
      BY <1>1, <2>1
    <2> QED BY <2>1, <2>2
  <1>3. ASSUME NEW x, FewerOf(S, v, x), FewerOf(S, w, x), NEW e \in S
        PROVE  Occurrences(both, e) <= Occurrences(x, e)
    <2>1. Occurrences(v, e) <= Occurrences(x, e) /\ Occurrences(w, e) <= Occurrences(x, e)
      BY <1>3 DEF FewerOf
    <2>2. Occurrences(both, e) = Occurrences(v, e) \/ Occurrences(both, e) = Occurrences(w, e)
      OBVIOUS
    <2> QED BY <2>1, <2>2
  <1> QED BY <1>2, <1>3 DEF FewerOf

\* A push_back adds one element, and keeps a vector sorted if no element is greater.
LEMMA PushBackFacts ==
    ASSUME NEW v \in Seq(Element), NEW e \in Element
    PROVE  /\ PushBack(v, e) \in Seq(Element)
           /\ FewerOf(Element, v, PushBack(v, e))
           /\ Ascending(v) /\ (\A i \in DOMAIN v : v[i] <= e) => Ascending(PushBack(v, e))
  <1>1. PICK longer : longer = Append(v, e)
    OBVIOUS
  <1>2. longer \in Seq(Element)
    BY <1>1
  <1>3. ASSUME NEW c \in Element PROVE Occurrences(v, c) <= Occurrences(longer, c)
    <2>1. Occurrences(longer, c) = Occurrences(v, c) + (IF e = c THEN 1 ELSE 0)
      BY <1>1, OccurrencesAppend
    <2>2. Occurrences(v, c) \in Nat
      BY OccurrencesNat
    <2> QED BY <2>1, <2>2
  <1>4. ASSUME Ascending(v), \A i \in DOMAIN v : v[i] <= e PROVE Ascending(longer)
    <2>1. PICK n \in Nat : n = Len(v) /\ DOMAIN v = 1 .. n
      BY LenProperties
    <2>2. /\ DOMAIN longer = 1 .. n + 1 /\ longer[n + 1] = e
          /\ \A i \in 1 .. n : longer[i] = v[i]
      BY <1>1, <2>1
    <2>3. ASSUME NEW i \in 1 .. n + 1, NEW j \in 1 .. n + 1, i <= j
          PROVE  longer[i] <= longer[j]
      <3>1. CASE j \in 1 .. n
        <4>1. i \in 1 .. n
          BY <2>3, <3>1
        <4> QED BY <1>4, <2>1, <2>2, <2>3, <3>1, <4>1 DEF Ascending
      <3>2. CASE j = n + 1 /\ i \in 1 .. n
        BY <1>4, <2>1, <2>2, <3>2
      <3>3. CASE j = n + 1 /\ i = n + 1
        BY <2>2, <3>3, ElementAssumption
      <3> QED BY <3>1, <3>2, <3>3
    <2> QED BY <2>2, <2>3 DEF Ascending
  <1> QED BY <1>1, <1>2, <1>3, <1>4 DEF PushBack, FewerOf

\* An insertion makes a text longer, and nothing that is in it goes.
LEMMA InsertTextFacts ==
    ASSUME NEW md \in Seq(Character), NEW pos \in 0 .. Len(md), NEW e \in Element
    PROVE  /\ InsertText(md, pos, e) \in Seq(Character)
           /\ FewerOf(Character, md, InsertText(md, pos, e))
           /\ Len(md) < Len(InsertText(md, pos, e))
  <1>1. PICK n \in Nat : n = Len(md) /\ pos \in 0 .. n
    BY LenProperties
  <1>2. PICK filler, text :
           /\ filler = [i \in 1 .. pos + 1 - Len(md) |-> 0]
           /\ text = IF pos >= Len(md) THEN md \o filler ELSE md
    OBVIOUS
  <1>3. text \in Seq(Character) /\ pos \in 0 .. Len(text) /\ n <= Len(text)
        /\ FewerOf(Character, md, text)
    <2>1. CASE pos >= n
      <3>1. filler \in Seq(Character) /\ Len(filler) \in Nat
        <4>1. pos + 1 - n \in Nat
          BY <1>1, <2>1
        <4>2. filler \in [1 .. pos + 1 - n -> Character]
          BY <1>1, <1>2 DEF Character
        <4>3. filler \in Seq(Character)
          BY <4>1, <4>2, SeqDef
        <4> QED BY <4>3, LenProperties
      <3>2. ASSUME NEW c \in Character
            PROVE  /\ text \in Seq(Character) /\ Len(text) = Len(md) + Len(filler)
                   /\ Occurrences(md, c) <= Occurrences(text, c)
        <4>1. /\ md \o filler \in Seq(Character) /\ Len(md \o filler) = Len(md) + Len(filler)
              /\ Occurrences(md \o filler, c) = Occurrences(md, c) + Occurrences(filler, c)
          BY <3>1, OccurrencesConcat
        <4>2. text = md \o filler
          BY <1>1, <1>2, <2>1
        <4>3. Occurrences(md, c) \in Nat
          BY OccurrencesNat
        <4>4. Occurrences(filler, c) \in Nat
          BY <3>1, OccurrencesNat
        <4> QED BY <4>1, <4>2, <4>3, <4>4
      <3>3. 0 \in Character
        BY DEF Character
      <3>4. text \in Seq(Character) /\ Len(text) = n + Len(filler)
        BY <1>1, <3>2, <3>3
      <3>5. FewerOf(Character, md, text)
        BY <3>2 DEF FewerOf
      <3> QED BY <1>1, <3>1, <3>4, <3>5
    <2>2. CASE ~(pos >= n)
      <3>1. text = md
        BY <1>1, <1>2, <2>2
      <3> QED BY <1>1, <3>1, FewerOfOrder
    <2> QED BY <2>1, <2>2
  <1>4. e \in Character
    BY DEF Character
  <1>5. InsertText(md, pos, e) = Seqs!InsertAt(text, pos + 1, e)
    BY <1>2 DEF InsertText
  <1>6. PICK longer : longer = Seqs!InsertAt(text, pos + 1, e)
    OBVIOUS
  <1>7. longer \in Seq(Character) /\ Len(longer) = Len(text) + 1
    BY <1>3, <1>4, <1>6, PutInFacts
  <1>8. FewerOf(Character, text, longer)
    <2>1. ASSUME NEW c \in Character PROVE Occurrences(text, c) <= Occurrences(longer, c)
      <3>1. Occurrences(longer, c) = Occurrences(text, c) + (IF e = c THEN 1 ELSE 0)
        BY <1>3, <1>4, <1>6, PutInCount
      <3>2. Occurrences(text, c) \in Nat
        BY <1>3, OccurrencesNat
      <3> QED BY <3>1, <3>2
    <2> QED BY <2>1 DEF FewerOf
  <1>9. FewerOf(Character, md, longer)
    BY <1>3, <1>7, <1>8, FewerOfOrder
  <1>10. Len(text) \in Nat
    BY <1>3, LenProperties
  <1> QED BY <1>1, <1>3, <1>5, <1>6, <1>7, <1>9, <1>10

=============================================================================
