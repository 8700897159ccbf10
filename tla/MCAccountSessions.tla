------------------------- MODULE MCAccountSessions -------------------------
(***************************************************************************)
(* AccountSessions for TLC: the two users of the server.                   *)
(***************************************************************************)
EXTENDS AccountSessions

CONSTANTS hafsa, amna

TwoUsers == {hafsa, amna}
Symmetry == Permutations(TwoUsers)
=============================================================================
