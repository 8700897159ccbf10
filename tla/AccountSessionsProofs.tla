----------------------- MODULE AccountSessionsProofs -----------------------
(***************************************************************************)
(* Proofs about AccountSessions, for any users and any number of clock     *)
(* readings and managed sessions.                                          *)
(***************************************************************************)
EXTENDS AccountSessions, SequenceTheorems, TLAPS

Distinct(s) == \A i, j \in DOMAIN s : s[i] = s[j] => i = j

(* What assignment to a key of a dict does to the keys. *)
LEMMA PutKey ==
    ASSUME NEW S, NEW s \in Seq(S), Distinct(s), NEW k \in S
    PROVE  /\ Put(s, k) \in Seq(S) /\ Distinct(Put(s, k))
           /\ ToSet(Put(s, k)) = ToSet(s) \cup {k}
           /\ Len(s) \in Nat /\ Len(Put(s, k)) \in Nat /\ Len(Put(s, k)) >= Len(s)
  <1>1. Len(s) \in Nat /\ DOMAIN s = 1..Len(s)
    BY LenProperties
  <1>2. CASE Contains(s, k)
    BY <1>1, <1>2 DEF Put, Contains, ToSet
  <1>3. CASE ~Contains(s, k)
    <2>1. /\ Append(s, k) \in Seq(S) /\ Len(Append(s, k)) = Len(s) + 1
          /\ DOMAIN Append(s, k) = 1..(Len(s) + 1)
          /\ \A i \in 1..Len(s) : Append(s, k)[i] = s[i]
          /\ Append(s, k)[Len(s) + 1] = k
      BY <1>1, AppendProperties, LenProperties
    <2>2. \A i \in 1..Len(s) : s[i] # k
      BY <1>3 DEF Contains
    <2>3. Put(s, k) = Append(s, k)
      BY <1>3 DEF Put
    <2>4. Distinct(Append(s, k))
      BY <1>1, <2>1, <2>2 DEF Distinct
    <2>5. ToSet(Append(s, k)) = ToSet(s) \cup {k}
      BY <1>1, <2>1 DEF ToSet
    <2> QED  BY <1>1, <2>1, <2>3, <2>4, <2>5
  <1> QED  BY <1>2, <1>3

LEMMA PutTwoKeys ==
    ASSUME NEW S, NEW s \in Seq(S), Distinct(s), NEW k \in S, NEW l \in S
    PROVE  /\ Put(Put(s, k), l) \in Seq(S) /\ Distinct(Put(Put(s, k), l))
           /\ ToSet(Put(Put(s, k), l)) = ToSet(s) \cup {k, l}
  <1>1. /\ Put(s, k) \in Seq(S) /\ Distinct(Put(s, k))
        /\ ToSet(Put(s, k)) = ToSet(s) \cup {k}
    BY PutKey
  <1>2. ASSUME NEW r \in Seq(S), Distinct(r)
        PROVE  /\ Put(r, l) \in Seq(S) /\ Distinct(Put(r, l))
               /\ ToSet(Put(r, l)) = ToSet(r) \cup {l}
    BY <1>2, PutKey
  <1>3. /\ Put(Put(s, k), l) \in Seq(S) /\ Distinct(Put(Put(s, k), l))
        /\ ToSet(Put(Put(s, k), l)) = ToSet(Put(s, k)) \cup {l}
    BY <1>1, <1>2
  <1> QED  BY <1>1, <1>3

(* What deletion of the i-th key does to them. *)
LEMMA DeleteKey ==
    ASSUME NEW S, NEW s \in Seq(S), NEW i \in DOMAIN s
    PROVE  /\ RemoveAt(s, i) \in Seq(S) /\ Len(s) \in Nat
           /\ Len(RemoveAt(s, i)) = Len(s) - 1
           /\ \A j \in 1..(Len(s) - 1) :
                 RemoveAt(s, i)[j] = IF j < i THEN s[j] ELSE s[j + 1]
           /\ ToSet(RemoveAt(s, i)) \subseteq ToSet(s)
           /\ Distinct(s) => Distinct(RemoveAt(s, i))
  <1>1. Len(s) \in Nat /\ DOMAIN s = 1..Len(s) /\ i \in 1..Len(s)
    BY LenProperties
  <1> DEFINE before == SubSeq(s, 1, i - 1)
             after == SubSeq(s, i + 1, Len(s))
             r == before \o after
  <1>2. /\ before \in Seq(S) /\ Len(before) = i - 1
        /\ \A j \in 1..(i - 1) : before[j] = s[j]
    BY <1>1, SubSeqProperties
  <1>3. /\ after \in Seq(S) /\ Len(after) = Len(s) - i
        /\ \A j \in 1..(Len(s) - i) : after[j] = s[i + j]
    BY <1>1, SubSeqProperties
  <1> HIDE DEF before, after
  <1>4. /\ r \in Seq(S) /\ Len(r) = Len(before) + Len(after)
        /\ \A j \in 1..(Len(before) + Len(after)) :
              r[j] = IF j <= Len(before) THEN before[j] ELSE after[j - Len(before)]
    BY <1>2, <1>3, ConcatProperties
  <1> HIDE DEF r
  <1>5. Len(r) = Len(s) - 1 /\ DOMAIN r = 1..(Len(s) - 1)
    BY <1>1, <1>2, <1>3, <1>4, LenProperties
  <1>6. ASSUME NEW j \in 1..(Len(s) - 1)
        PROVE  r[j] = IF j < i THEN s[j] ELSE s[j + 1]
    <2>1. r[j] = IF j <= Len(before) THEN before[j] ELSE after[j - Len(before)]
      BY <1>1, <1>2, <1>3, <1>4
    <2>2. CASE j < i
      BY <1>1, <1>2, <2>1, <2>2
    <2>3. CASE ~(j < i)
      <3>1. j - (i - 1) \in 1..(Len(s) - i) /\ i + (j - (i - 1)) = j + 1 /\ ~(j <= i - 1)
        BY <1>1, <2>3
      <3>2. after[j - (i - 1)] = s[j + 1]
        BY <1>3, <3>1
      <3> QED  BY <1>2, <2>1, <2>3, <3>1, <3>2
    <2> QED  BY <2>2, <2>3
  <1>7. ToSet(r) \subseteq ToSet(s)
    BY <1>1, <1>5, <1>6 DEF ToSet
  <1>8. Distinct(s) => Distinct(r)
    BY <1>1, <1>5, <1>6 DEF Distinct
  <1>9. RemoveAt(s, i) = r
    BY DEF RemoveAt, r, before, after
  <1> QED  BY <1>1, <1>4, <1>5, <1>6, <1>7, <1>8, <1>9

-----------------------------------------------------------------------------
LEMMA KeyTypes ==
    ASSUME NEW u \in Users
    PROVE  /\ Name(u) \in Keys
           /\ \A t \in 0..MaxTime : SessionId(u, t) \in Keys
           /\ \A i \in 1..MaxMade : Managed(u, i) \in Keys
  BY DEF Keys

LEMMA InitTypeOK == Init => TypeOK
  <1> SUFFICES ASSUME Init PROVE TypeOK
    OBVIOUS
  <1>1. active = <<>> /\ DOMAIN active = {} /\ active \in Seq(Keys)
    BY DEF Init
  <1> QED
    BY <1>1, AccountSessionsAssumption DEF Init, TypeOK

LEMMA LoginActive ==
    ASSUME TypeOK, NEW u \in Users, Login(u)
    PROVE  /\ active' \in Seq(Keys) /\ Distinct(active') /\ clock' \in 0..MaxTime
  <1>1. PICK t \in clock..MaxTime :
          /\ clock' = t
          /\ active' = Put(Put(active, SessionId(u, t)), Name(u))
    BY DEF Login
  <1>2. t \in 0..MaxTime
    BY AccountSessionsAssumption DEF TypeOK
  <1>3. SessionId(u, t) \in Keys /\ Name(u) \in Keys
    BY <1>2, KeyTypes
  <1>4. active \in Seq(Keys) /\ Distinct(active)
    BY DEF TypeOK, Distinct
  <1>5. active' \in Seq(Keys) /\ Distinct(active')
    <2>1. ASSUME NEW k \in Keys, NEW l \in Keys, active' = Put(Put(active, k), l)
          PROVE  active' \in Seq(Keys) /\ Distinct(active')
      <3>1. Put(Put(active, k), l) \in Seq(Keys) /\ Distinct(Put(Put(active, k), l))
        BY <1>4, PutTwoKeys
      <3> QED  BY <2>1, <3>1
    <2> QED  BY <1>1, <1>3, <2>1
  <1> QED  BY <1>1, <1>2, <1>5

(* EndEntry leaves the keys alone, or deletes one of them. *)
LEMMA EndEntryEffect ==
    ASSUME TypeOK, NEW arg \in Keys, EndEntry(arg)
    PROVE  /\ active' \in Seq(Keys) /\ Distinct(active')
           /\ answer' \in [arg : Keys, ok : BOOLEAN]
  <1>1. active \in Seq(Keys) /\ Distinct(active)
    BY DEF TypeOK, Distinct
  <1>3. /\ active' \in Seq(Keys) /\ Distinct(active')
        /\ ToSet(active') \subseteq ToSet(active)
    <2>1. CASE active' = active
      BY <1>1, <2>1
    <2>2. ASSUME NEW i \in Candidates(arg), active' = RemoveAt(active, i)
          PROVE  /\ active' \in Seq(Keys) /\ Distinct(active')
                 /\ ToSet(active') \subseteq ToSet(active)
      <3>1. i \in DOMAIN active
        BY DEF Candidates, Under, OfUser
      <3> QED  BY <1>1, <2>2, <3>1, DeleteKey
    <2> QED  BY <2>1, <2>2 DEF EndEntry
  <1>5. answer' \in [arg : Keys, ok : BOOLEAN]
    <2>1. (Candidates(arg) # {}) \in BOOLEAN
      BY Zenon
    <2> QED  BY <2>1 DEF EndEntry
  <1> QED  BY <1>3, <1>5

LEMMA StepTypeOK ==
    ASSUME TypeOK, Next
    PROVE  TypeOK'
  <1> USE AccountSessionsAssumption DEF TypeOK
  <1>1. ASSUME NEW u \in Users, Login(u) PROVE TypeOK'
    <2>1. /\ active' \in Seq(Keys) /\ Distinct(active') /\ clock' \in 0..MaxTime
      BY <1>1, LoginActive
    <2>2. answer' = NoAnswer /\ managed' = managed /\ made' = made
      BY <1>1 DEF Login
    <2> QED  BY <2>1, <2>2 DEF Distinct
  <1>2. ASSUME NEW u \in Users, CreateSecureSession(u) PROVE TypeOK'
    <2>1. made' \in 1..MaxMade /\ managed' = managed \cup {Managed(u, made')}
      BY <1>2 DEF CreateSecureSession
    <2>2. Managed(u, made') \in Keys
      BY <2>1, KeyTypes
    <2> QED  BY <1>2, <2>1, <2>2 DEF CreateSecureSession
  <1>3. ASSUME NEW k \in Keys, Logout(k) \/ EndSession(k) PROVE TypeOK'
    <2>1. EndEntry(k) /\ clock' = clock /\ made' = made /\ managed' \subseteq managed
      BY <1>3 DEF Logout, EndSession
    <2>2. /\ active' \in Seq(Keys) /\ Distinct(active')
          /\ answer' \in [arg : Keys, ok : BOOLEAN]
      BY <2>1, EndEntryEffect
    <2> QED  BY <2>1, <2>2 DEF Distinct
  <1> QED  BY <1>1, <1>2, <1>3 DEF Next

(* Every variable keeps its type, and no key is twice in active_sessions.  *)
THEOREM TypeCorrect == Spec => []TypeOK
  <1>1. TypeOK /\ [Next]_vars => TypeOK'
    <2>1. ASSUME TypeOK, UNCHANGED vars PROVE TypeOK'
      BY <2>1 DEF TypeOK, vars
    <2> QED  BY <2>1, StepTypeOK
  <1> QED  BY <1>1, InitTypeOK, PTL DEF Spec

-----------------------------------------------------------------------------
(* What one call of logout does. *)

LEMMA EndEntryRefusal ==
    ASSUME NEW arg \in Keys, EndEntry(arg)
    PROVE  RefusedOnlyWhenGone'
  <1> SUFFICES ASSUME ~answer'.ok
               PROVE  /\ Under(arg)' = {} /\ answer'.arg = arg
                      /\ arg.kind = "name" => OfUser(arg.user)' = {}
    BY DEF RefusedOnlyWhenGone, Under, OfUser
  <1>1. answer'.arg = arg /\ answer'.ok = (Candidates(arg) # {})
    BY DEF EndEntry
  <1>2. Candidates(arg) = {}
    BY <1>1
  <1>3. active' = active
    BY <1>2 DEF EndEntry
  <1>4. Under(arg) = {} /\ (arg.kind = "name" => OfUser(arg.user) = {})
    BY <1>2 DEF Candidates
  <1> QED  BY <1>1, <1>3, <1>4 DEF Under, OfUser

(* logout answers "Invalid session" only if no entry is there that it      *)
(* could have deleted.                                                     *)
THEOREM RefusalsJustified == Spec => []RefusedOnlyWhenGone
  <1>1. Init => RefusedOnlyWhenGone
    BY DEF Init, NoAnswer, RefusedOnlyWhenGone
  <1>2. RefusedOnlyWhenGone /\ [Next]_vars => RefusedOnlyWhenGone'
    <2>1. ASSUME NEW u \in Users, Login(u) PROVE RefusedOnlyWhenGone'
      BY <2>1 DEF Login, NoAnswer, RefusedOnlyWhenGone
    <2>2. ASSUME RefusedOnlyWhenGone, active' = active, answer' = answer
          PROVE  RefusedOnlyWhenGone'
      BY <2>2 DEF RefusedOnlyWhenGone, Under, OfUser
    <2>3. ASSUME NEW k \in Keys, Logout(k) \/ EndSession(k) PROVE RefusedOnlyWhenGone'
      BY <2>3, EndEntryRefusal DEF Logout, EndSession
    <2> QED  BY <2>1, <2>2, <2>3 DEF Next, CreateSecureSession, vars
  <1> QED  BY <1>1, <1>2, PTL DEF Spec

LEMMA EndEntryEndsOne ==
    ASSUME NEW arg \in Keys, EndEntry(arg), active' # active
    PROVE  \E i \in DOMAIN active :
              /\ active' = RemoveAt(active, i)
              /\ answer'.ok /\ answer'.arg.user = active[i].user
              /\ answer'.arg.kind # "name" => active[i] = answer'.arg
  <1>1. PICK i \in Candidates(arg) : active' = RemoveAt(active, i)
    BY DEF EndEntry
  <1>2. answer'.arg = arg /\ answer'.ok = (Candidates(arg) # {})
    BY DEF EndEntry
  <1>3. answer'.ok
    BY <1>1, <1>2
  <1>4. /\ i \in DOMAIN active /\ arg.user = active[i].user
        /\ arg.kind # "name" => active[i] = arg
    BY DEF Candidates, Under, OfUser
  <1> QED  BY <1>1, <1>2, <1>3, <1>4

(* A logout that deletes anything deletes one entry, of the user it names: *)
(* the user's other sessions, and the entry under the username after a     *)
(* logout by session id, stay (logout, end_session).                       *)
THEOREM OneEnded == Spec => LogoutEndsOne
  <1> DEFINE Ends == Len(active') # Len(active) /\ answer' # NoAnswer =>
                       \E i \in DOMAIN active :
                          /\ active' = RemoveAt(active, i)
                          /\ answer'.ok /\ answer'.arg.user = active[i].user
                          /\ answer'.arg.kind # "name" => active[i] = answer'.arg
  <1>1. ASSUME Next PROVE Ends
    <2>1. ASSUME NEW k \in Keys, Logout(k) \/ EndSession(k) PROVE Ends
      BY <2>1, EndEntryEndsOne DEF Logout, EndSession
    <2>2. ASSUME NEW u \in Users, Login(u) PROVE Ends
      BY <2>2 DEF Login
    <2>3. ASSUME NEW u \in Users, CreateSecureSession(u) PROVE Ends
      BY <2>3 DEF CreateSecureSession
    <2> QED  BY <1>1, <2>1, <2>2, <2>3 DEF Next
  <1>2. [Next]_vars => [Ends]_vars
    BY <1>1
  <1> QED  BY <1>2, PTL DEF Spec, LogoutEndsOne
=============================================================================
