--------------------------- MODULE MCCryptoCalls ----------------------------
(***************************************************************************)
(* CryptoCalls for TLC: small numbers, and texts and keys around the       *)
(* lengths at which the ciphers pad, cut off and wrap.                     *)
(***************************************************************************)
EXTENDS CryptoCalls

(* Letters of both cases, digits and signs, in turn, from the i-th on.     *)
Some(length, i) ==
    [j \in 1..length |-> <<72, 105, 32, 122, 90, 57, 33, 97, 65, 109, 126>>[((i + j) % 11) + 1]]

MCNumbers == 0..20
MCExponents == 0..9
MCCandidates == 0..100
MCSizes == 2..5
MCGroups == {2, 7, 11, 15}
MCGenerators == {2, 6, 13}
MCPrivates == 0..5
MCTexts == {Some(n, n) : n \in {1, 2, 7, 8, 9}} \cup {<<233>>, <<33, 201, 97, 233>>}
           \cup {<<97, SharpS>>, <<DotlessI, 33, 90>>, <<LongS>>}
MCShifts == {-5, 0, 3, 29}
MCKeys == {Some(n, 2 * n) : n \in {1, 3, 8, 9, 17}} \cup {<<233, 75>>, <<SharpS, DotlessI, LongS>>}
MCRandom16 == {[i \in 1..16 |-> 255], [i \in 1..16 |-> (37 * i) % 256]}
MCRandom8 == {[i \in 1..8 |-> 0], [i \in 1..8 |-> (91 * i) % 256]}
=============================================================================
