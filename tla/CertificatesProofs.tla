------------------------- MODULE CertificatesProofs -------------------------
(***************************************************************************)
(* Proofs about Certificates, for any number of servers and of starts:     *)
(* every variable keeps its type; a server goes on only with certificates  *)
(* that fit together; and once one has, they stay.                         *)
(*                                                                         *)
(* Unless two servers have generated at once, there is one generator, all  *)
(* files behind it are whole and its own, and the one it has opened is     *)
(* empty.  The last file is what tells: once it exists, the others are     *)
(* whole and of one start, so nobody begins to generate again, and the     *)
(* only one who may still be at it is about to fill that last file.        *)
(***************************************************************************)
EXTENDS Certificates, TLAPS

OneGenerator ==
    \A r, s \in Servers : Generating(r) /\ Generating(s) => r = s

Behind ==
    \A s \in Servers : Generating(s) =>
        \A i \in Files : i < at[s] => files[i] = Whole(start[s])

Opened == \A s \in Servers : pc[s] = "write" => files[at[s]] = Empty

FitTogether ==
    \E n \in 1..starts :
        /\ \A i \in 1..3 : files[i] = Whole(n)
        /\ files[4] \in {Empty, Whole(n)}

LastTells ==
    files[4] # Absent =>
        /\ FitTogether
        /\ \A s \in Servers : Generating(s) => pc[s] = "write" /\ at[s] = 4

ReadyWithLast == \A s \in Servers : pc[s] = "ready" => files[4] # Absent

Numbered == \A s \in Servers : Generating(s) => start[s] \in 1..starts

IInv ==
    /\ TypeOK
    /\ Numbered
    /\ ~overlapped => /\ OneGenerator /\ Behind /\ Opened
                      /\ LastTells /\ ReadyWithLast

-----------------------------------------------------------------------------
LEMMA ContentsDiffer ==
    /\ Empty # Absent /\ Garbled # Absent /\ Empty.state # "whole"
    /\ \A n : Whole(n) # Absent /\ Whole(n) # Empty
  BY DEF Empty, Absent, Garbled, Whole

LEMMA InitInvariant == Init => IInv
  <1> SUFFICES ASSUME Init PROVE IInv
    OBVIOUS
  <1>1. TypeOK
    <2>1. starts = 0 /\ starts \in 0..MaxStarts
      BY CertificatesAssumption DEF Init
    <2>2. overlapped \in BOOLEAN
      BY Zenon DEF Init
    <2>3. /\ files \in [Files -> {Absent}] /\ start \in [Servers -> 0..0]
          /\ pc \in [Servers -> {"down"}] /\ at \in [Servers -> Files]
      BY DEF Init, Files
    <2> QED  BY <2>1, <2>2, <2>3 DEF TypeOK
  <1>2. \A s \in Servers : pc[s] = "down" /\ ~Generating(s)
    BY DEF Init, Generating
  <1>3. files[4] = Absent
    BY DEF Init, Files
  <1> QED
    BY <1>1, <1>2, <1>3
    DEF IInv, Numbered, OneGenerator, Behind, Opened, LastTells, ReadyWithLast

-----------------------------------------------------------------------------
(* Starting: with all files there the server is ready; else it generates,  *)
(* and it does so alone unless the history is marked.                      *)
LEMMA EnsureInvariant ==
    ASSUME IInv, NEW s \in Servers, Ensure(s)
    PROVE  IInv'
  <1> USE DEF Files
  <1>1. /\ TypeOK /\ Numbered
        /\ pc[s] = "down" /\ starts \in Nat /\ files' = files
        /\ starts' = starts + 1 /\ start' = [start EXCEPT ![s] = starts + 1]
        /\ at' = [at EXCEPT ![s] = 1]
    BY DEF IInv, Ensure, TypeOK
  <1>2. /\ starts' \in 0..MaxStarts /\ start' \in [Servers -> 0..starts']
        /\ at' \in [Servers -> Files] /\ overlapped' \in BOOLEAN
        /\ files' \in [Files -> {Absent, Empty, Garbled}
                                  \cup {Whole(n) : n \in 1..starts'}]
    <2>1. starts' \in 0..MaxStarts
      BY <1>1, CertificatesAssumption DEF Ensure, TypeOK
    <2>2. start' \in [Servers -> 0..starts'] /\ at' \in [Servers -> Files]
      BY <1>1 DEF TypeOK
    <2>3. overlapped' \in BOOLEAN
      BY <1>1, Zenon DEF Ensure, TypeOK
    <2>4. 1..starts \subseteq 1..starts'
      BY <1>1
    <2>5. files' \in [Files -> {Absent, Empty, Garbled}
                                \cup {Whole(n) : n \in 1..starts'}]
      BY <1>1, <2>4 DEF TypeOK
    <2> QED  BY <2>1, <2>2, <2>3, <2>5
  <1>3. CASE AllExist
    <2>1. pc' = [pc EXCEPT ![s] = "ready"] /\ overlapped' = overlapped
      BY <1>3 DEF Ensure
    <2>2. \A r \in Servers : Generating(r)' => r # s /\ Generating(r)
      BY <1>1, <2>1 DEF Generating, TypeOK
    <2>3. \A r \in Servers : r # s => start'[r] = start[r] /\ at'[r] = at[r] /\ pc'[r] = pc[r]
      BY <1>1, <2>1 DEF TypeOK
    <2>4. TypeOK'
      BY <1>1, <1>2, <2>1 DEF TypeOK
    <2>5. Numbered'
      BY <1>1, <2>2, <2>3 DEF Numbered, TypeOK
    <2>6. ASSUME ~overlapped' PROVE OneGenerator' /\ Behind' /\ Opened'
      <3>1. OneGenerator /\ Behind /\ Opened
        BY <2>1, <2>6 DEF IInv
      <3>2. OneGenerator'
        BY <2>2, <3>1 DEF OneGenerator
      <3>3. Behind'
        BY <1>1, <2>2, <2>3, <3>1 DEF Behind
      <3>4. Opened'
        BY <1>1, <2>1, <2>3, <3>1 DEF Opened, TypeOK
      <3> QED  BY <3>2, <3>3, <3>4
    <2>7. ASSUME ~overlapped' PROVE LastTells' /\ ReadyWithLast'
      <3>1. LastTells /\ ReadyWithLast
        BY <2>1, <2>7 DEF IInv
      <3>2. FitTogether => FitTogether'
        BY <1>1 DEF FitTogether
      <3>3. LastTells'
        BY <1>1, <2>2, <2>3, <3>1, <3>2 DEF LastTells
      <3>4. files[4] # Absent
        BY <1>3 DEF AllExist
      <3>5. ReadyWithLast'
        BY <1>1, <3>4 DEF ReadyWithLast
      <3> QED  BY <3>3, <3>5
    <2> QED  BY <2>4, <2>5, <2>6, <2>7 DEF IInv
  <1>4. CASE ~AllExist
    <2>1. /\ pc' = [pc EXCEPT ![s] = "open"]
          /\ overlapped' = (overlapped \/ \E r \in Servers : Generating(r))
      BY <1>4 DEF Ensure
    <2>2. \A r \in Servers : r # s => start'[r] = start[r] /\ at'[r] = at[r] /\ pc'[r] = pc[r]
      BY <1>1, <2>1 DEF TypeOK
    <2>3. start'[s] = starts + 1 /\ at'[s] = 1 /\ pc'[s] = "open"
      BY <1>1, <2>1 DEF TypeOK
    <2>4. TypeOK'
      BY <1>1, <1>2, <2>1 DEF TypeOK
    <2>5. Numbered'
      BY <1>1, <2>2, <2>3 DEF Numbered, TypeOK, Generating
    <2>6. ASSUME ~overlapped' PROVE /\ OneGenerator' /\ Behind' /\ Opened'
                                    /\ LastTells' /\ ReadyWithLast'
      <3>1. /\ \A r \in Servers : ~Generating(r)
            /\ OneGenerator /\ Behind /\ Opened /\ LastTells /\ ReadyWithLast
        BY <2>1, <2>6 DEF IInv
      <3>2. \A r \in Servers : Generating(r)' => r = s
        BY <2>2, <3>1 DEF Generating
      <3>3. OneGenerator'
        BY <3>2 DEF OneGenerator
      <3>4. Behind'
        BY <2>3, <3>2 DEF Behind
      <3>5. Opened'
        BY <1>1, <2>2, <2>3, <3>1 DEF Opened
      <3>6. files[4] = Absent
        BY <1>4, <3>1, ContentsDiffer DEF AllExist, LastTells, FitTogether
      <3>7. LastTells'
        BY <1>1, <3>6 DEF LastTells, Absent
      <3>8. ReadyWithLast'
        BY <1>1, <2>2, <2>3, <3>1 DEF ReadyWithLast
      <3> QED  BY <3>3, <3>4, <3>5, <3>7, <3>8
    <2> QED  BY <2>4, <2>5, <2>6 DEF IInv
  <1> QED  BY <1>3, <1>4

(* Opening a file: the last one is opened with the three others behind.    *)
LEMMA OpenInvariant ==
    ASSUME IInv, NEW s \in Servers, Open(s)
    PROVE  IInv'
  <1> USE DEF Files
  <1>1. /\ TypeOK /\ Numbered /\ pc[s] = "open" /\ Generating(s) /\ at[s] \in Files
        /\ files' = [files EXCEPT ![at[s]] = Empty]
        /\ pc' = [pc EXCEPT ![s] = "write"]
        /\ at' = at /\ start' = start /\ starts' = starts /\ overlapped' = overlapped
    BY DEF IInv, Open, TypeOK, Generating
  <1>2. \A r \in Servers : r # s => pc'[r] = pc[r]
    BY <1>1 DEF TypeOK
  <1>3. pc'[s] = "write" /\ files'[at[s]] = Empty
        /\ \A i \in Files : i # at[s] => files'[i] = files[i]
    BY <1>1 DEF TypeOK
  <1>4. \A r \in Servers : Generating(r)' <=> Generating(r)
    BY <1>1, <1>2, <1>3 DEF Generating
  <1>5. TypeOK' /\ Numbered'
    BY <1>1, <1>4 DEF TypeOK, Numbered
  <1>6. ASSUME ~overlapped' PROVE /\ OneGenerator' /\ Behind' /\ Opened'
                                  /\ LastTells' /\ ReadyWithLast'
    <2>1. OneGenerator /\ Behind /\ Opened /\ LastTells /\ ReadyWithLast
      BY <1>1, <1>6 DEF IInv
    <2>2. \A r \in Servers : Generating(r) => r = s
      BY <1>1, <2>1 DEF OneGenerator
    <2>3. OneGenerator'
      BY <1>4, <2>2 DEF OneGenerator
    <2>4. Behind'
      BY <1>1, <1>3, <1>4, <2>1, <2>2 DEF Behind
    <2>5. Opened'
      BY <1>1, <1>2, <1>3, <1>4, <2>2 DEF Opened, Generating
    <2>6. files[4] = Absent
      BY <1>1, <2>1 DEF LastTells
    <2>7. LastTells'
      <3>1. CASE at[s] = 4
        <4>1. \A i \in 1..3 : files'[i] = Whole(start[s])
          BY <1>1, <1>3, <2>1, <3>1 DEF Behind
        <4>2. start[s] \in 1..starts'
          BY <1>1 DEF Numbered
        <4>3. FitTogether'
          BY <1>3, <3>1, <4>1, <4>2 DEF FitTogether
        <4> QED  BY <1>1, <1>3, <1>4, <2>2, <3>1, <4>3 DEF LastTells
      <3>2. CASE at[s] # 4
        BY <1>3, <2>6, <3>2 DEF LastTells, Absent
      <3> QED  BY <3>1, <3>2
    <2>8. ReadyWithLast'
      BY <1>2, <1>3, <2>1, <2>6 DEF ReadyWithLast
    <2> QED  BY <2>3, <2>4, <2>5, <2>7, <2>8
  <1> QED  BY <1>5, <1>6 DEF IInv

(* Writing a file: what the only generator fills is the empty file that it *)
(* has opened, so it comes out whole.                                      *)
LEMMA WriteInvariant ==
    ASSUME IInv, NEW s \in Servers, Write(s)
    PROVE  IInv'
  <1> USE DEF Files
  <1>1. /\ TypeOK /\ Numbered /\ pc[s] = "write" /\ Generating(s) /\ at[s] \in Files
        /\ start' = start /\ starts' = starts /\ overlapped' = overlapped
        /\ starts \in Nat /\ start[s] \in 1..starts
    BY DEF IInv, Write, TypeOK, Generating, Numbered
  <1>2. PICK new \in {Whole(start[s])} \cup
                  (IF files[at[s]] = Empty THEN {} ELSE {Garbled}) :
            files' = [files EXCEPT ![at[s]] = new]
    BY DEF Write
  <1>3. /\ files'[at[s]] = new /\ new # Absent
        /\ \A i \in Files : i # at[s] => files'[i] = files[i]
    BY <1>1, <1>2, ContentsDiffer DEF TypeOK
  <1>4. /\ at[s] # 4 => /\ at' = [at EXCEPT ![s] = at[s] + 1]
                         /\ pc' = [pc EXCEPT ![s] = "open"]
        /\ at[s] = 4 => at' = at /\ pc' = [pc EXCEPT ![s] = "ready"]
    BY <1>1 DEF Write
  <1>5. \A r \in Servers : r # s => pc'[r] = pc[r] /\ at'[r] = at[r]
    BY <1>4, <1>1 DEF TypeOK
  <1>6. \A r \in Servers : Generating(r)' => Generating(r)
    BY <1>1, <1>5 DEF Generating
  <1>7. TypeOK'
    <2>1. new \in {Absent, Empty, Garbled} \cup {Whole(n) : n \in 1..starts}
      BY <1>1
    <2>2. files' \in [Files -> {Absent, Empty, Garbled} \cup {Whole(n) : n \in 1..starts}]
      BY <1>1, <1>2, <2>1 DEF TypeOK
    <2>3. at' \in [Servers -> Files] /\ pc' \in [Servers -> {"down", "open", "write", "ready"}]
      BY <1>1, <1>4 DEF TypeOK
    <2> QED  BY <1>1, <2>2, <2>3 DEF TypeOK
  <1>8. Numbered'
    BY <1>1, <1>6 DEF Numbered
  <1>9. ASSUME ~overlapped' PROVE /\ OneGenerator' /\ Behind' /\ Opened'
                                  /\ LastTells' /\ ReadyWithLast'
    <2>1. OneGenerator /\ Behind /\ Opened /\ LastTells /\ ReadyWithLast
      BY <1>1, <1>9 DEF IInv
    <2>2. \A r \in Servers : Generating(r) => r = s
      BY <1>1, <2>1 DEF OneGenerator
    <2>3. new = Whole(start[s])
      BY <1>1, <1>2, <2>1 DEF Opened
    <2>4. OneGenerator'
      BY <1>6, <2>2 DEF OneGenerator
    <2>5. Opened'
      <3> SUFFICES ASSUME NEW r \in Servers, pc'[r] = "write" PROVE FALSE
        BY DEF Opened
      <3>1. r = s
        BY <1>5, <2>2 DEF Generating
      <3> QED  BY <1>1, <1>4, <3>1 DEF TypeOK
    <2>6. ReadyWithLast'
      <3> SUFFICES ASSUME NEW r \in Servers, pc'[r] = "ready" PROVE files'[4] # Absent
        BY DEF ReadyWithLast, Absent
      <3>1. CASE r = s
        BY <1>1, <1>3, <1>4, <3>1 DEF TypeOK
      <3>2. CASE r # s
        BY <1>1, <1>3, <1>5, <2>1, <3>2 DEF ReadyWithLast
      <3> QED  BY <3>1, <3>2
    <2>7. CASE at[s] = 4
      <3>1. \A r \in Servers : ~Generating(r)'
        BY <1>1, <1>4, <1>6, <2>2, <2>7 DEF Generating, TypeOK
      <3>2. \A i \in 1..3 : files'[i] = Whole(start[s])
        BY <1>1, <1>3, <2>1, <2>7 DEF Behind
      <3>3. FitTogether'
        BY <1>1, <1>3, <2>3, <2>7, <3>2 DEF FitTogether
      <3> QED  BY <2>4, <2>5, <2>6, <3>1, <3>3 DEF Behind, LastTells
    <2>8. CASE at[s] # 4
      <3>1. at'[s] = at[s] + 1 /\ pc'[s] = "open"
        BY <1>1, <1>4, <2>8 DEF TypeOK
      <3>2. Behind'
        <4> SUFFICES ASSUME NEW r \in Servers, Generating(r)', NEW i \in Files, i < at'[r]
                     PROVE  files'[i] = Whole(start'[r])
          BY DEF Behind
        <4>1. r = s
          BY <1>6, <2>2
        <4>2. CASE i = at[s]
          BY <1>1, <1>3, <2>3, <4>1, <4>2
        <4>3. CASE i # at[s]
          <5>1. i < at[s]
            BY <1>1, <3>1, <4>1, <4>3
          <5> QED  BY <1>1, <1>3, <2>1, <4>1, <4>3, <5>1 DEF Behind
        <4> QED  BY <4>2, <4>3
      <3>3. files[4] = Absent
        BY <1>1, <2>1, <2>8 DEF LastTells
      <3>4. LastTells'
        BY <1>3, <2>8, <3>3 DEF LastTells, Absent
      <3> QED  BY <2>4, <2>5, <2>6, <3>2, <3>4
    <2> QED  BY <2>7, <2>8
  <1> QED  BY <1>7, <1>8, <1>9 DEF IInv

LEMMA DieInvariant ==
    ASSUME IInv, NEW s \in Servers, Die(s)
    PROVE  IInv'
  <1>1. /\ TypeOK /\ Numbered /\ pc' = [pc EXCEPT ![s] = "down"]
        /\ files' = files /\ at' = at /\ start' = start /\ starts' = starts
        /\ overlapped' = overlapped
    BY DEF IInv, Die
  <1>2. \A r \in Servers : pc'[r] # "down" => r # s /\ pc'[r] = pc[r]
    BY <1>1 DEF TypeOK
  <1>3. \A r \in Servers : Generating(r)' => Generating(r) /\ pc'[r] = pc[r]
    BY <1>2 DEF Generating
  <1>4. TypeOK' /\ Numbered'
    BY <1>1, <1>3 DEF TypeOK, Numbered
  <1>5. ASSUME ~overlapped' PROVE /\ OneGenerator' /\ Behind' /\ Opened'
                                  /\ LastTells' /\ ReadyWithLast'
    <2>1. OneGenerator /\ Behind /\ Opened /\ LastTells /\ ReadyWithLast
      BY <1>1, <1>5 DEF IInv
    <2>2. OneGenerator' /\ Behind'
      BY <1>1, <1>3, <2>1 DEF OneGenerator, Behind
    <2>3. Opened' /\ ReadyWithLast'
      BY <1>1, <1>2, <2>1 DEF Opened, ReadyWithLast
    <2>4. FitTogether => FitTogether'
      BY <1>1 DEF FitTogether
    <2>5. LastTells'
      BY <1>1, <1>3, <2>1, <2>4 DEF LastTells
    <2> QED  BY <2>2, <2>3, <2>5
  <1> QED  BY <1>4, <1>5 DEF IInv

LEMMA StepInvariant == IInv /\ [Next]_vars => IInv'
  <1> SUFFICES ASSUME IInv, [Next]_vars PROVE IInv'
    OBVIOUS
  <1>1. CASE UNCHANGED vars
    BY <1>1 DEF vars, IInv, TypeOK, Numbered, OneGenerator, Behind, Opened,
                LastTells, FitTogether, ReadyWithLast, Generating
  <1>2. CASE Next
    <2>1. PICK s \in Servers : Ensure(s) \/ Open(s) \/ Write(s) \/ Die(s)
      BY <1>2 DEF Next
    <2> QED
      BY <2>1, EnsureInvariant, OpenInvariant, WriteInvariant, DieInvariant
  <1> QED  BY <1>1, <1>2

LEMMA Invariant == Spec => []IInv
  <1> QED  BY InitInvariant, StepInvariant, PTL DEF Spec

-----------------------------------------------------------------------------
(* Every variable keeps its type: no server writes past the last file, and *)
(* every whole file is of a start that there was (ensure_certificates).    *)
THEOREM TypeCorrect == Spec => []TypeOK
  <1>1. IInv => TypeOK
    BY DEF IInv
  <1> QED  BY <1>1, Invariant, PTL

(* Whatever servers have died at whatever point, what a server goes on     *)
(* with is of one start, but for an empty last file (ensure_certificates). *)
THEOREM AcceptedTogether == Spec => []AcceptedFitTogether
  <1>1. IInv => AcceptedFitTogether
    <2> SUFFICES ASSUME IInv, ~overlapped, NEW s \in Servers, pc[s] = "ready"
                 PROVE  FitTogether
      BY DEF AcceptedFitTogether, FitTogether
    <2> QED  BY DEF IInv, ReadyWithLast, LastTells
  <1> QED  BY <1>1, Invariant, PTL

(* Certificates that a server has gone on with are there to stay, through  *)
(* all further starts and deaths (ensure_certificates).                    *)
THEOREM CertificatesKept == Spec => CertificatesStay
  <1> DEFINE Stay == ~overlapped /\ files[4].state = "whole"
                         /\ (\E s \in Servers : pc[s] = "ready")
                     => UNCHANGED files
  <1>1. IInv /\ [Next]_vars => [Stay]_vars
    <2> SUFFICES ASSUME IInv, Next, ~overlapped, files[4].state = "whole"
                 PROVE  UNCHANGED files
      BY DEF Stay
    <2>1. files[4] # Absent /\ files[4] # Empty
      BY DEF Absent, Empty
    <2>2. \A s \in Servers : ~Generating(s)
      BY <2>1 DEF IInv, LastTells, Opened
    <2>3. \A s \in Servers : ~Open(s) /\ ~Write(s)
      BY <2>2 DEF Open, Write, Generating
    <2> QED  BY <2>3 DEF Next, Ensure, Die
  <1> QED  BY <1>1, Invariant, PTL DEF Spec, CertificatesStay
=============================================================================
