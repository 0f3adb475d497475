------------------------------ MODULE MCPubSub ------------------------------
(***************************************************************************)
(* Instance of PubSub for TLC: alice edits d1 on s1; bob reads it on s1,   *)
(* carol on s2.                                                            *)
(***************************************************************************)
EXTENDS PubSub

CONSTANTS s1, s2, c1, c2, c3, alice, bob, carol, d1

ThreeHomes == (c1 :> s1) @@ (c2 :> s1) @@ (c3 :> s2)
ThreeUsers == (c1 :> alice) @@ (c2 :> bob) @@ (c3 :> carol)
OneDoc == [c \in Conn |-> d1]
AliceEdits == [c \in Conn |-> IF c = c1 THEN 2 ELSE 0]
=============================================================================
