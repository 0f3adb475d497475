-------------------------------- MODULE Report --------------------------------
(***************************************************************************)
(* MergeWithLive of analytics/report.go: the rows of the contributions     *)
(* table and the live counters are added up per user, listed in the random *)
(* order of a Go map, and sorted by bytes, highest first, by exchanging.   *)
(*                                                                         *)
(* EditCount and ActiveSecs are added up like BytesAdded and left out; so  *)
(* are the percentages, whose rounding is not modelled.                    *)
(***************************************************************************)
EXTENDS Naturals, Sequences, FiniteSets, Functions

CONSTANTS
  User,
  MaxBytes   \* bound on the bytes of one user in one of the sources

ASSUME ReportAssumption == IsFiniteSet(User) /\ MaxBytes \in Nat

VARIABLES
  historicalRows,  \* bytes per user of the table (one row per user)
  liveSnapshot,    \* bytes per user of the counters
  stats,           \* the result, being sorted
  i, j             \* the loop variables, counting from 1

inputs == <<historicalRows, liveSnapshot>>
vars == <<inputs, stats, i, j>>

Bytes(source, u) == IF u \in DOMAIN source THEN source[u] ELSE 0
Users == DOMAIN historicalRows \union DOMAIN liveSnapshot

\* Mutant of Merged: a live entry replaces the user's row.
MergedReplaces(u) ==
  IF u \in DOMAIN liveSnapshot THEN liveSnapshot[u] ELSE historicalRows[u]

\* statsMap: a user of both sources gets the sum.
Merged(u) == Bytes(historicalRows, u) + Bytes(liveSnapshot, u)

Stat == [UserID : User, BytesAdded : Nat]

\* The entries of statsMap in any order.
Listings ==
  {[k \in DOMAIN order |-> [UserID |-> order[k], BytesAdded |-> Merged(order[k])]] :
     order \in Bijection(1 .. Cardinality(Users), Users)}

Source == UNION {[S -> 0 .. MaxBytes] : S \in SUBSET User}

Init ==
  /\ historicalRows \in Source
  /\ liveSnapshot \in Source
  /\ stats \in Listings
  /\ i = 1 /\ j = 2

Sorting == i <= Len(stats)

\* Mutant of Exchange: neighbours are compared.
ExchangeNeighbours ==
  /\ Sorting /\ j <= Len(stats)
  /\ stats' = IF stats[j].BytesAdded > stats[j - 1].BytesAdded
                THEN [stats EXCEPT ![j - 1] = stats[j], ![j] = stats[j - 1]] ELSE stats
  /\ j' = j + 1
  /\ UNCHANGED <<inputs, i>>

\* The inner loop.
Exchange ==
  /\ Sorting /\ j <= Len(stats)
  /\ stats' = IF stats[j].BytesAdded > stats[i].BytesAdded
                THEN [stats EXCEPT ![i] = stats[j], ![j] = stats[i]] ELSE stats
  /\ j' = j + 1
  /\ UNCHANGED <<inputs, i>>

\* Mutant of NextRank: the inner loop starts at the same index.
NextRankSame ==
  /\ Sorting /\ j > Len(stats)
  /\ i' = i + 1
  /\ j' = i + 1
  /\ UNCHANGED <<inputs, stats>>

\* The outer loop.
NextRank ==
  /\ Sorting /\ j > Len(stats)
  /\ i' = i + 1
  /\ j' = i + 2
  /\ UNCHANGED <<inputs, stats>>

Next == Exchange \/ NextRank

Spec == Init /\ [][Next]_vars

-----------------------------------------------------------------------------
TypeOK ==
  /\ historicalRows \in Source /\ liveSnapshot \in Source
  /\ stats \in Seq(Stat)
  /\ i \in 1 .. Len(stats) + 1
  /\ j \in i + 1 .. (IF i > Len(stats) THEN i + 1 ELSE Len(stats) + 1)

\* While it sorts, the first i - 1 entries are final: in order, and none of
\* the rest is higher; and entry i is the highest of those compared so far.
RanksFinal ==
  /\ \A k, m \in 1 .. Len(stats) :
       k < i /\ k < m => stats[k].BytesAdded >= stats[m].BytesAdded
  /\ Sorting =>
       \A m \in i .. j - 1 : stats[i].BytesAdded >= stats[m].BytesAdded

\* The report is by bytes descending: highest contributor first.
SortedWhenDone ==
  ~Sorting =>
    \A k, m \in 1 .. Len(stats) : k < m => stats[k].BytesAdded >= stats[m].BytesAdded

\* Every user with a row or a counter is listed exactly once, with the sum of
\* both, and nobody else is, whatever is exchanged.
ListsEveryoneOnce ==
  /\ {stats[k].UserID : k \in 1 .. Len(stats)} = Users
  /\ \A k, m \in 1 .. Len(stats) : stats[k].UserID = stats[m].UserID => k = m
  /\ \A k \in 1 .. Len(stats) :
       stats[k].BytesAdded = Bytes(historicalRows, stats[k].UserID)
                               + Bytes(liveSnapshot, stats[k].UserID)
=============================================================================
