------------------------------- MODULE MCStore -------------------------------
(***************************************************************************)
(* Instances of Store for TLC.                                             *)
(***************************************************************************)
EXTENDS Store, TLC

CONSTANTS s1, s2, d1, d2, d3, u1, u2, u3, u4

\* Two updates of d1, one of d2 and one of d3, all received by s1.
DocOfFour == (u1 :> d1) @@ (u2 :> d1) @@ (u3 :> d2) @@ (u4 :> d3)
AllAtS1 == [u \in {u1, u2, u3, u4} |-> s1]

\* Three updates of d1, received by two servers.
DocOfThree == (u1 :> d1) @@ (u2 :> d1) @@ (u3 :> d1)
AtBoth == (u1 :> s1) @@ (u2 :> s1) @@ (u3 :> s2)

-----------------------------------------------------------------------------
\* An inserted update is merged in the end, as long as its own document can
\* be read: neither another document's errors nor a bounded number of failed
\* transactions and crashes stop the compactor for good.
EveryUpdateMerged ==
  \A u \in Update :
    row[u] = "pending" /\ DocOf[u] \notin Broken ~> row[u] = "compacted"

-----------------------------------------------------------------------------
\* What the documentation says and the code does not do.

\* model.go:81, "CompactedAt == nil means not yet merged into blob", hence
\* set means merged; with two servers, each running its compactor.
MarkedIsMerged ==
  \A u \in Update : row[u] = "compacted" => u \in Elements(blob[DocOf[u]])
=============================================================================
