----------------------------- MODULE AppendLog -----------------------------
(***************************************************************************)
(* What the research log promises its users: messages are put at its end,  *)
(* one at a time, and a sender who is told that message m has become block *)
(* i finds it there for as long as the server lives.  When the server goes *)
(* down its promises are void, and it comes back with a prefix of the log. *)
(***************************************************************************)
EXTENDS Naturals, Sequences

CONSTANT Message

VARIABLES up,       \* the log is served
          log,      \* the messages, in order
          promises  \* [msg, index]: messages acknowledged with their place

vars == <<up, log, promises>>

Init == up = TRUE /\ log = <<>> /\ promises = {}

Put == /\ up
       /\ \E m \in Message : log' = Append(log, m)
       /\ UNCHANGED <<up, promises>>

Promise == /\ up
           /\ \E i \in DOMAIN log :
                promises' = promises \cup {[msg |-> log[i], index |-> i]}
           /\ UNCHANGED <<up, log>>

GoDown == /\ up
          /\ up' = FALSE
          /\ promises' = {}
          /\ UNCHANGED log

ComeBack == /\ ~up
            /\ up' = TRUE
            /\ \E n \in 0..Len(log) : log' = SubSeq(log, 1, n)
            /\ UNCHANGED promises

Next == Put \/ Promise \/ GoDown \/ ComeBack

Spec == Init /\ [][Next]_vars
=============================================================================
