--------------------------- MODULE MCCertificates ---------------------------
(***************************************************************************)
(* Certificates for TLC: two servers, which are alike.                     *)
(***************************************************************************)
EXTENDS Certificates, TLC

CONSTANTS s1, s2

TwoServers == {s1, s2}
Symmetry == Permutations(TwoServers)
=============================================================================
