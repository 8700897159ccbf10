---------------------------- MODULE Certificates ----------------------------
(***************************************************************************)
(* The first thing a server does: ensure_certificates of core/pki_certs.py *)
(* called from MessageServer.__init__.  If one of four files is missing,   *)
(* a new CA and a new server certificate are written over all of them, one *)
(* after the other, each truncated before it is filled.                    *)
(*                                                                         *)
(* A server may be killed, or fail to write, at any point, and be started  *)
(* again.  A second one may be started at any time too: it only fails      *)
(* later, when it binds its port.  What a call generates fits together, so *)
(* the content of a file is the number of the start that wrote it.         *)
(***************************************************************************)
EXTENDS Naturals

CONSTANTS
    Servers,   \* server processes on this machine
    MaxStarts  \* bound: starts of a server

ASSUME CertificatesAssumption == MaxStarts \in Nat

(* In the order of writing: CA_KEY_FILE, CA_CERT_FILE, SERVER_KEY_FILE,    *)
(* SERVER_CERT_FILE.                                                       *)
Files == 1..4

VARIABLES
    files,      \* [Files -> state and, for whole ones, the start it is of]
    pc,         \* [Servers -> where the server is in ensure_certificates]
    at,         \* [Servers -> the file it is writing]
    start,      \* [Servers -> number of its start]
    starts,     \* starts so far
    overlapped  \* history: two servers have generated at the same time

vars == <<files, pc, at, start, starts, overlapped>>

Absent  == [state |-> "absent", of |-> 0]
Empty   == [state |-> "empty", of |-> 0]
Garbled == [state |-> "garbled", of |-> 0]
Whole(n) == [state |-> "whole", of |-> n]

Init ==
    /\ files = [i \in Files |-> Absent]
    /\ pc = [s \in Servers |-> "down"]
    /\ at = [s \in Servers |-> 1]
    /\ start = [s \in Servers |-> 0]
    /\ starts = 0
    /\ overlapped = FALSE

(* Variants of AllExist: one pair is enough, and nothing ever is.          *)
OnePairExists == \A i \in {1, 2} : files[i] # Absent
NoneExists == FALSE

AllExist == \A i \in Files : files[i] # Absent

Generating(s) == pc[s] \in {"open", "write"}

(* The files only ever come into existence, so asking for one after the    *)
(* other is asking for all at once, when the last answer is given.         *)
Ensure(s) ==
    /\ pc[s] = "down" /\ starts < MaxStarts
    /\ starts' = starts + 1
    /\ start' = [start EXCEPT ![s] = starts + 1]
    /\ at' = [at EXCEPT ![s] = 1]
    /\ IF AllExist
         THEN /\ pc' = [pc EXCEPT ![s] = "ready"]
              /\ UNCHANGED overlapped
         ELSE /\ pc' = [pc EXCEPT ![s] = "open"]
              /\ overlapped' = (overlapped \/ \E r \in Servers : Generating(r))
    /\ UNCHANGED files

Open(s) ==
    /\ pc[s] = "open"
    /\ files' = [files EXCEPT ![at[s]] = Empty]
    /\ pc' = [pc EXCEPT ![s] = "write"]
    /\ UNCHANGED <<at, start, starts, overlapped>>

(* A variant of Write that goes on after the last file. *)
WriteOn(s) ==
    /\ pc[s] = "write"
    /\ files' = [files EXCEPT ![at[s]] = Whole(start[s])]
    /\ at' = [at EXCEPT ![s] = @ + 1]
    /\ pc' = [pc EXCEPT ![s] = "open"]
    /\ UNCHANGED <<start, starts, overlapped>>

(* The text is written from the start of the file when it is closed; where *)
(* another server has written a longer one since, its end stays.           *)
Write(s) ==
    /\ pc[s] = "write"
    /\ \E new \in {Whole(start[s])} \cup
                  (IF files[at[s]] = Empty THEN {} ELSE {Garbled}) :
          files' = [files EXCEPT ![at[s]] = new]
    /\ IF at[s] < 4
         THEN /\ at' = [at EXCEPT ![s] = @ + 1]
              /\ pc' = [pc EXCEPT ![s] = "open"]
         ELSE /\ pc' = [pc EXCEPT ![s] = "ready"]
              /\ UNCHANGED at
    /\ UNCHANGED <<start, starts, overlapped>>

(* A kill, an error from open or write, or in the end the stop. *)
Die(s) ==
    /\ pc[s] # "down"
    /\ pc' = [pc EXCEPT ![s] = "down"]
    /\ UNCHANGED <<files, at, start, starts, overlapped>>

Next == \E s \in Servers : Ensure(s) \/ Open(s) \/ Write(s) \/ Die(s)

Spec == Init /\ [][Next]_vars

-----------------------------------------------------------------------------
(* Properties.                                                             *)

(* Every variable keeps its type.                                          *)
TypeOK ==
    /\ files \in [Files -> {Absent, Empty, Garbled} \cup {Whole(n) : n \in 1..starts}]
    /\ pc \in [Servers -> {"down", "open", "write", "ready"}]
    /\ at \in [Servers -> Files]
    /\ start \in [Servers -> 0..starts]
    /\ starts \in 0..MaxStarts
    /\ overlapped \in BOOLEAN

(* What a server goes on with fits together, whatever servers died before  *)
(* it, at whatever point: one key of the CA, its certificate and a server  *)
(* key of one start, and the server certificate of the same start, or an   *)
(* empty one if its writer has died over the very last file (or is at it): *)
(* existence is all that is asked for, and the last file is the one that   *)
(* tells.  Two servers that generate at the same time void this            *)
(* (ensure_certificates).                                                  *)
AcceptedFitTogether ==
    ~overlapped =>
        \A s \in Servers : pc[s] = "ready" =>
            \E n \in 1..starts :
                /\ \A i \in 1..3 : files[i] = Whole(n)
                /\ files[4] \in {Empty, Whole(n)}

(* Once a server has gone on with a whole set of certificates, that set    *)
(* stays, through all further starts and deaths: nobody who trusts the CA  *)
(* certificate has it replaced under him (ensure_certificates).            *)
CertificatesStay ==
    [][~overlapped /\ files[4].state = "whole" /\ (\E s \in Servers : pc[s] = "ready")
          => UNCHANGED files]_vars

-----------------------------------------------------------------------------
(* What the repository says of itself and the code does not do.            *)

(* A server has gone on, and nobody is at work on the files. *)
Settled == (\E s \in Servers : pc[s] = "ready") /\ \A s \in Servers : ~Generating(s)

(* pki_certs.py:82, "server key and certificate signed by CA": where the   *)
(* files that a server goes on with are whole, its certificate is of the   *)
(* CA that is there, and so of the same start.                             *)
WholeFilesFit ==
    Settled /\ (\A i \in Files : files[i].state = "whole")
        => \E n \in 1..starts : \A i \in Files : files[i] = Whole(n)

(* pki_certs.py:142, "Using existing CA and server certificates": where    *)
(* no two servers have generated at the same time, there is something in   *)
(* the files that a server goes on with.                                   *)
ExistingFilesFilled ==
    Settled /\ ~overlapped => \A i \in Files : files[i] # Empty
=============================================================================
