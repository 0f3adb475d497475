------------------------------ MODULE MCTracker ------------------------------
(***************************************************************************)
(* Instance of Tracker for TLC: alice edits and reads, bob edits once.     *)
(***************************************************************************)
EXTENDS Tracker, TLC

CONSTANTS d1, r1, alice, bob

AllWantD1 == [r \in Reader |-> d1]
AllColumns == Field
TwoAndOne == (alice :> 2) @@ (bob :> 1)
OneAndNone == (alice :> 1) @@ (bob :> 0)

-----------------------------------------------------------------------------
\* Every edit is handed to the database in the end, unless a save fails, the
\* process crashes, or a shutdown's ForceFlush did not find it: neither the
\* requests in progress nor the other entries hold it up.
EveryEditSaved ==
  \A c \in Cell : \A n \in 1 .. MaxEdits[c[2]] :
    Edits(recorded, c) = n ~> Edits(saved, c) + late[c] >= n \/ failed
=============================================================================
