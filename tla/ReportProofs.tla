----------------------------- MODULE ReportProofs -----------------------------
(***************************************************************************)
(* Proofs about Report, for any finite set of users and any bytes.         *)
(***************************************************************************)
EXTENDS Report, FiniteSetTheorems, TLAPS

USE ReportAssumption

\* The users of a report are finitely many, and the merged bytes of each are
\* a natural number.
LEMMA InputFacts ==
  ASSUME historicalRows \in Source, liveSnapshot \in Source
  PROVE  /\ Users \subseteq User
         /\ Cardinality(Users) \in Nat
         /\ \A u \in Users : Merged(u) \in Nat
<1>1. PICK S \in SUBSET User : historicalRows \in [S -> 0 .. MaxBytes]
  BY DEF Source
<1>2. PICK T \in SUBSET User : liveSnapshot \in [T -> 0 .. MaxBytes]
  BY DEF Source
<1>3. Users \subseteq User
  BY <1>1, <1>2 DEF Users
<1>4. Cardinality(Users) \in Nat
  BY <1>3, FS_Subset, FS_CardinalityType
<1>5. ASSUME NEW u \in Users
      PROVE  Merged(u) \in Nat
  <2>1. Bytes(historicalRows, u) \in Nat
    BY <1>1 DEF Bytes
  <2>2. Bytes(liveSnapshot, u) \in Nat
    BY <1>2 DEF Bytes
  <2> QED BY <2>1, <2>2 DEF Merged
<1> QED BY <1>3, <1>4, <1>5

LEMMA InitListing ==
  ASSUME Init
  PROVE  TypeOK /\ ListsEveryoneOnce
<1>1. /\ historicalRows \in Source /\ liveSnapshot \in Source
      /\ stats \in Listings /\ i = 1 /\ j = 2
  BY DEF Init
<1> DEFINE n == Cardinality(Users)
<1>2. n \in Nat /\ Users \subseteq User /\ \A u \in Users : Merged(u) \in Nat
  BY <1>1, InputFacts
<1> HIDE DEF n
<1>3. PICK order \in Bijection(1 .. n, Users) :
        stats = [k \in DOMAIN order |->
                   [UserID |-> order[k], BytesAdded |-> Merged(order[k])]]
  BY <1>1 DEF Listings, n
<1>4. /\ order \in [1 .. n -> Users]
      /\ \A k, m \in 1 .. n : order[k] = order[m] => k = m
      /\ \A u \in Users : \E k \in 1 .. n : order[k] = u
  BY <1>3 DEF Bijection, Injection, Surjection, IsInjective
<1>5. stats = [k \in 1 .. n |->
                 [UserID |-> order[k], BytesAdded |-> Merged(order[k])]]
  BY <1>3, <1>4
<1>6. stats \in [1 .. n -> Stat]
  BY <1>2, <1>4, <1>5 DEF Stat
<1>7. stats \in Seq(Stat) /\ Len(stats) = n
  BY <1>2, <1>6
<1>8. \A k \in 1 .. n :
        stats[k].UserID = order[k] /\ stats[k].BytesAdded = Merged(order[k])
  BY <1>5
<1>9. TypeOK
  BY <1>1, <1>2, <1>7 DEF TypeOK
<1>10. {stats[k].UserID : k \in 1 .. n} = Users
  BY <1>4, <1>8
<1> QED BY <1>4, <1>7, <1>8, <1>9, <1>10 DEF ListsEveryoneOnce, Merged

LEMMA InitRanks == Init => TypeOK /\ ListsEveryoneOnce /\ RanksFinal
<1> SUFFICES ASSUME Init
             PROVE  RanksFinal
  BY InitListing
<1>1. i = 1 /\ j = 2
  BY DEF Init
<1>2. TypeOK
  BY InitListing
<1>3. Sorting => stats[1].BytesAdded \in Nat
  <2>1. Sorting => stats[1] \in Stat
    BY <1>1, <1>2 DEF Sorting, TypeOK
  <2> QED BY <2>1 DEF Stat
<1> QED BY <1>1, <1>2, <1>3 DEF RanksFinal, TypeOK

-----------------------------------------------------------------------------
\* Comparing and exchanging entries i and j: the sequence keeps its length,
\* every entry but these two, and the multiset of these two.
LEMMA ExchangeEffect ==
  ASSUME TypeOK, Exchange
  PROVE  /\ stats' \in Seq(Stat) /\ Len(stats') = Len(stats)
         /\ i \in 1 .. Len(stats) /\ j \in 1 .. Len(stats) /\ i < j
         /\ i' = i /\ j' = j + 1
         /\ \A k \in 1 .. Len(stats) : k # i /\ k # j => stats'[k] = stats[k]
         /\ \/ stats'[i] = stats[i] /\ stats'[j] = stats[j]
            \/ stats'[i] = stats[j] /\ stats'[j] = stats[i]
         /\ stats'[i].BytesAdded >= stats[i].BytesAdded
         /\ stats'[i].BytesAdded >= stats'[j].BytesAdded
<1>1. /\ i \in 1 .. Len(stats) /\ j \in 1 .. Len(stats) /\ i < j
      /\ i' = i /\ j' = j + 1
      /\ stats \in Seq(Stat)
  BY DEF TypeOK, Exchange, Sorting
<1>2. stats[i] \in Stat /\ stats[j] \in Stat
  BY <1>1
<1>3. stats[i].BytesAdded \in Nat /\ stats[j].BytesAdded \in Nat
  BY <1>2 DEF Stat
<1>4. CASE stats[j].BytesAdded > stats[i].BytesAdded
  <2>1. stats' = [stats EXCEPT ![i] = stats[j], ![j] = stats[i]]
    BY <1>4 DEF Exchange
  <2>2. stats' \in Seq(Stat) /\ Len(stats') = Len(stats)
    BY <1>1, <1>2, <2>1
  <2>3. /\ stats'[i] = stats[j] /\ stats'[j] = stats[i]
        /\ \A k \in 1 .. Len(stats) : k # i /\ k # j => stats'[k] = stats[k]
    BY <1>1, <2>1
  <2> QED BY <1>1, <1>3, <1>4, <2>2, <2>3
<1>5. CASE ~(stats[j].BytesAdded > stats[i].BytesAdded)
  <2>1. stats' = stats
    BY <1>5 DEF Exchange
  <2> QED BY <1>1, <1>3, <1>5, <2>1
<1> QED BY <1>4, <1>5

LEMMA TypeNext == TypeOK /\ [Next]_vars => TypeOK'
<1> SUFFICES ASSUME TypeOK, [Next]_vars
             PROVE  TypeOK'
  OBVIOUS
<1>1. CASE Exchange
  <2>1. UNCHANGED inputs
    BY <1>1 DEF Exchange
  <2> QED BY <1>1, <2>1, ExchangeEffect DEF TypeOK, inputs, Source
<1>2. CASE NextRank
  BY <1>2 DEF NextRank, Sorting, TypeOK, inputs, Source
<1>3. CASE UNCHANGED vars
  BY <1>3 DEF vars, inputs, TypeOK, Source
<1> QED BY <1>1, <1>2, <1>3 DEF Next

\* Types, and the loop variables stay within the sequence's bounds.
THEOREM TypeCorrect == Spec => []TypeOK
<1>1. Init => TypeOK
  BY InitListing
<1> QED BY <1>1, TypeNext, PTL DEF Spec

LEMMA RanksNext == TypeOK /\ RanksFinal /\ [Next]_vars => RanksFinal'
<1> SUFFICES ASSUME TypeOK, RanksFinal, [Next]_vars
             PROVE  RanksFinal'
  OBVIOUS
<1> DEFINE b(k) == stats[k].BytesAdded
           c(k) == stats'[k].BytesAdded
<1>0. /\ Len(stats) \in Nat /\ i \in Nat /\ j \in Nat
      /\ \A k \in 1 .. Len(stats) : b(k) \in Nat
  <2>1. \A k \in 1 .. Len(stats) : stats[k] \in Stat
    BY DEF TypeOK
  <2>2. \A k \in 1 .. Len(stats) : b(k) \in Nat
    BY <2>1 DEF Stat
  <2> QED BY <2>2 DEF TypeOK
<1>1. CASE Exchange
  <2>1. /\ Len(stats') = Len(stats) /\ i' = i /\ j' = j + 1
        /\ i \in 1 .. Len(stats) /\ j \in 1 .. Len(stats) /\ i < j
        /\ \A k \in 1 .. Len(stats) : k # i /\ k # j => c(k) = b(k)
        /\ \/ c(i) = b(i) /\ c(j) = b(j)
           \/ c(i) = b(j) /\ c(j) = b(i)
        /\ c(i) >= b(i) /\ c(i) >= c(j)
    BY <1>1, ExchangeEffect
  <2>2. Sorting
    BY <1>1 DEF Exchange
  <2>3. ASSUME NEW k \in 1 .. Len(stats), NEW m \in 1 .. Len(stats), k < i, k < m
        PROVE  c(k) >= c(m)
    <3>1. c(k) = b(k)
      BY <2>1, <2>3
    <3>2. \E p \in 1 .. Len(stats) : k < p /\ c(m) = b(p)
      BY <2>1, <2>3
    <3> QED BY <2>3, <3>1, <3>2 DEF RanksFinal
  <2>4. ASSUME NEW m \in i .. j
        PROVE  c(i) >= c(m)
    <3>1. CASE m = i
      BY <1>0, <2>1, <3>1
    <3>2. CASE m = j
      BY <2>1, <3>2
    <3>3. CASE m # i /\ m # j
      <4>1. m \in i .. j - 1 /\ m \in 1 .. Len(stats)
        BY <1>0, <2>1, <2>4, <3>3
      <4>2. b(i) >= b(m) /\ c(m) = b(m)
        BY <2>1, <2>2, <3>3, <4>1 DEF RanksFinal
      <4> QED BY <1>0, <2>1, <4>1, <4>2
    <3> QED BY <3>1, <3>2, <3>3
  <2>5. j' - 1 = j
    BY <1>0, <2>1
  <2> QED BY <2>1, <2>3, <2>4, <2>5 DEF RanksFinal
<1>2. CASE NextRank
  <2>1. /\ stats' = stats /\ i' = i + 1 /\ j' = i + 2
        /\ Sorting /\ i \in 1 .. Len(stats) /\ j = Len(stats) + 1
    BY <1>2 DEF NextRank, Sorting, TypeOK
  <2>2. ASSUME NEW k \in 1 .. Len(stats), NEW m \in 1 .. Len(stats), k < i + 1, k < m
        PROVE  b(k) >= b(m)
    <3>1. CASE k < i
      BY <2>2, <3>1 DEF RanksFinal
    <3>2. CASE k = i
      BY <1>0, <2>1, <2>2, <3>2 DEF RanksFinal
    <3> QED BY <1>0, <2>2, <3>1, <3>2
  <2>3. Sorting' => \A m \in i + 1 .. i + 1 : b(i + 1) >= b(m)
    BY <1>0, <2>1 DEF Sorting
  <2> QED BY <1>0, <2>1, <2>2, <2>3 DEF RanksFinal
<1>3. CASE UNCHANGED vars
  BY <1>3 DEF vars, RanksFinal, Sorting
<1> QED BY <1>1, <1>2, <1>3 DEF Next

\* The loop invariant: the ranks the outer loop has passed stay final, and
\* entry i is the highest of those it was compared with.
THEOREM RanksAreFinal == Spec => []RanksFinal
<1>1. Init => TypeOK /\ RanksFinal
  BY InitRanks
<1> QED BY <1>1, TypeNext, RanksNext, PTL DEF Spec

\* The report is sorted: highest contributor first, whatever order the map
\* was listed in and however many users are equal.
THEOREM ReportIsSorted == Spec => []SortedWhenDone
<1>1. TypeOK /\ RanksFinal => SortedWhenDone
  <2> SUFFICES ASSUME TypeOK, RanksFinal, ~Sorting,
                      NEW k \in 1 .. Len(stats), NEW m \in 1 .. Len(stats), k < m
               PROVE  stats[k].BytesAdded >= stats[m].BytesAdded
    BY DEF SortedWhenDone
  <2>1. k < i
    BY DEF Sorting, TypeOK
  <2> QED BY <2>1 DEF RanksFinal
<1> QED BY <1>1, TypeCorrect, RanksAreFinal, PTL

-----------------------------------------------------------------------------
LEMMA ListsNext == TypeOK /\ ListsEveryoneOnce /\ [Next]_vars => ListsEveryoneOnce'
<1> SUFFICES ASSUME TypeOK, ListsEveryoneOnce, [Next]_vars
             PROVE  ListsEveryoneOnce'
  OBVIOUS
<1>1. CASE Exchange
  <2>1. /\ Len(stats') = Len(stats)
        /\ i \in 1 .. Len(stats) /\ j \in 1 .. Len(stats) /\ i < j
        /\ \A k \in 1 .. Len(stats) : k # i /\ k # j => stats'[k] = stats[k]
        /\ \/ stats'[i] = stats[i] /\ stats'[j] = stats[j]
           \/ stats'[i] = stats[j] /\ stats'[j] = stats[i]
    BY <1>1, ExchangeEffect
  <2>2. historicalRows' = historicalRows /\ liveSnapshot' = liveSnapshot
    BY <1>1 DEF Exchange, inputs
  \* p says which old entry is the new k-th one.
  <2> DEFINE p[k \in 1 .. Len(stats)] ==
               IF stats'[i] = stats[i] /\ stats'[j] = stats[j] THEN k
               ELSE IF k = i THEN j ELSE IF k = j THEN i ELSE k
  <2>3. /\ \A k \in 1 .. Len(stats) : p[k] \in 1 .. Len(stats) /\ stats'[k] = stats[p[k]]
        /\ \A k, m \in 1 .. Len(stats) : p[k] = p[m] => k = m
        /\ \A k \in 1 .. Len(stats) : p[p[k]] = k
    BY <2>1
  <2> HIDE DEF p
  <2>4. {stats'[k].UserID : k \in 1 .. Len(stats)} = {stats[k].UserID : k \in 1 .. Len(stats)}
    BY <2>3
  <2>5. \A k, m \in 1 .. Len(stats) : stats'[k].UserID = stats'[m].UserID => k = m
    BY <2>3 DEF ListsEveryoneOnce
  <2>6. \A k \in 1 .. Len(stats) :
          stats'[k].BytesAdded = Bytes(historicalRows, stats'[k].UserID)
                                   + Bytes(liveSnapshot, stats'[k].UserID)
    BY <2>3 DEF ListsEveryoneOnce
  <2>7. Users' = Users
    BY <2>2 DEF Users
  <2> QED BY <2>1, <2>2, <2>4, <2>5, <2>6, <2>7 DEF ListsEveryoneOnce, Bytes
<1>2. CASE NextRank
  BY <1>2 DEF NextRank, inputs, ListsEveryoneOnce, Users, Bytes
<1>3. CASE UNCHANGED vars
  BY <1>3 DEF vars, inputs, ListsEveryoneOnce, Users, Bytes
<1> QED BY <1>1, <1>2, <1>3 DEF Next

\* Nobody's contribution is dropped, duplicated or altered by the merge or by
\* the exchanges of the sort.
THEOREM NobodyMissing == Spec => []ListsEveryoneOnce
<1>1. Init => TypeOK /\ ListsEveryoneOnce
  BY InitListing
<1> QED BY <1>1, TypeNext, ListsNext, PTL DEF Spec
=============================================================================
