------------------------------ MODULE MCReport ------------------------------
(***************************************************************************)
(* An instance of Report for TLC.  Users are interchangeable.              *)
(***************************************************************************)
EXTENDS Report, TLC

CONSTANTS alice, bob, carol

Team == {alice, bob, carol}
Interchangeable == Permutations(Team)
=============================================================================
