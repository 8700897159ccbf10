---------------------------- MODULE MCKeyManager ----------------------------
(***************************************************************************)
(* KeyManager for TLC: three ids, which the code treats alike.             *)
(***************************************************************************)
EXTENDS KeyManager, TLC

CONSTANTS k1, k2, k3

ThreeIds == {k1, k2, k3}
Symmetry == Permutations(ThreeIds)
=============================================================================
