------------------------------ MODULE MCLedger ------------------------------
(***************************************************************************)
(* Ledger for TLC: two threads, and digests that differ whenever the       *)
(* blocks do.                                                              *)
(***************************************************************************)
EXTENDS Ledger

CONSTANTS t1, t2

MCThreads == {t1, t2}

(* Injective for up to MaxSends messages and MaxCrashes deaths: a          *)
(* positional code of the three fields, the previous digest in the high    *)
(* places.                                                                 *)
MCBase == MaxSends + MaxCrashes + 2
MCHash(i, data, prev) == (MCBase * prev + data) * MCBase + i + 1
=============================================================================
