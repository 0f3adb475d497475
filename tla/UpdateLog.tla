------------------------------ MODULE UpdateLog ------------------------------
(***************************************************************************)
(* What the document store promises: an append-only log of diffs whose     *)
(* pending entries are moved, each exactly once, to the end of the merged  *)
(* document.  Transactions, rows, compactors and crashes are not visible.  *)
(***************************************************************************)
EXTENDS Sequences, FiniteSets, Naturals

CONSTANTS Doc, Update, DocOf

VARIABLES
  pending,  \* the updates logged and not merged yet
  merged    \* [Doc -> Seq(Update)]: the updates in each document's blob

logVars == <<pending, merged>>

Elements(s) == {s[i] : i \in DOMAIN s}

\* All the ways to put a finite set in a sequence.
Orderings(S) ==
  {s \in [1 .. Cardinality(S) -> S] :
     /\ Elements(s) = S
     /\ \A i, j \in DOMAIN s : s[i] = s[j] => i = j}

Init ==
  /\ pending = {}
  /\ merged = [d \in Doc |-> <<>>]

Log(u) ==
  /\ u \notin pending \union Elements(merged[DocOf[u]])
  /\ pending' = pending \union {u}
  /\ UNCHANGED merged

Merge(d) ==
  \E S \in SUBSET {u \in pending : DocOf[u] = d} : \E s \in Orderings(S) :
    /\ merged' = [merged EXCEPT ![d] = @ \o s]
    /\ pending' = pending \ S

Next == (\E u \in Update : Log(u)) \/ (\E d \in Doc : Merge(d))

Spec == Init /\ [][Next]_logVars
=============================================================================
