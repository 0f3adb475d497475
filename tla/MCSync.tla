------------------------------- MODULE MCSync -------------------------------
(***************************************************************************)
(* Instances of Sync for TLC: alice edits d1 twice, bob joins it.          *)
(***************************************************************************)
EXTENDS Sync, TLC

CONSTANTS c1, c2, alice, bob, d1, d2

PeersUserOf == (c1 :> alice) @@ (c2 :> bob)
BothInD1 == (c1 :> d1) @@ (c2 :> d1)
TwoFrames == (c1 :> 2) @@ (c2 :> 0)
NoTasks == [s \in User \X Doc |-> 0]
=============================================================================
