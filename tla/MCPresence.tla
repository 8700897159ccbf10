----------------------------- MODULE MCPresence -----------------------------
(***************************************************************************)
(* Presence for TLC: small sets of users and connections.  They are not    *)
(* declared symmetric, because the runs check liveness.                    *)
(***************************************************************************)
EXTENDS Presence

CONSTANTS u1, u2, c1, c2

OneUser == {u1}
TwoUsers == {u1, u2}
TwoConns == {c1, c2}
=============================================================================
