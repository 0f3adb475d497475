------------------------------ MODULE MCPresence ------------------------------
(***************************************************************************)
(* Instances of Presence for TLC: a call while connections come and go.    *)
(***************************************************************************)
EXTENDS Presence, TLC

CONSTANTS d1, r1

AllAskD1 == [r \in Call |-> d1]

\* No definition tells two users apart.
AnyUser == Permutations(User)

-----------------------------------------------------------------------------
\* What the documentation says and the code does not do.

\* hub.go:114-115, "route this through a dedicated query channel to avoid
\* races. Safe here because this is only called from REST handlers".
RangesAreSafe == ~thrown
=============================================================================
