----------------------------- MODULE MCUserStore -----------------------------
(***************************************************************************)
(* UserStore for TLC: the two users of the code and two client threads.    *)
(***************************************************************************)
EXTENDS UserStore

CONSTANTS hafsa, amna, t1, t2

MCDemo == <<hafsa, amna>>
TwoThreads == {t1, t2}
=============================================================================
