--------------------------- MODULE PresenceProofs ---------------------------
(***************************************************************************)
(* Proofs about Presence, for any users, any number of connections and     *)
(* any mix of modes.                                                       *)
(***************************************************************************)
EXTENDS Presence, TLAPS

LEMMA InitTypeOK == Init => TypeOK
  BY DEF Init, TypeOK

LEMMA StepTypeOK ==
    ASSUME TypeOK, NEW c \in Conns,
           \/ Accept(c) \/ Handshake(c) \/ (\E u \in Users : Login(c, u)) \/ Leave(c)
           \/ Thread(c)
    PROVE  TypeOK'
  <1> USE DEF TypeOK
  <1>1. CASE Accept(c)
    BY <1>1 DEF Accept
  <1>2. CASE Handshake(c)
    <2>1. sid' \subseteq Conns /\ sid \subseteq sid'
      BY <1>2 DEF Handshake
    <2> QED  BY <1>2, <2>1 DEF Handshake
  <1>3. ASSUME NEW u \in Users, Login(c, u) PROVE TypeOK'
    BY <1>3 DEF Login
  <1>4. CASE Leave(c)
    BY <1>4 DEF Leave
  <1>5. CASE EndOfLoop(c)
    BY <1>5 DEF EndOfLoop
  <1>6. CASE DestroySession(c)
    BY <1>6 DEF DestroySession
  <1>7. CASE Unregister(c)
    BY <1>7 DEF Unregister
  <1> QED  BY <1>1, <1>2, <1>3, <1>4, <1>5, <1>6, <1>7 DEF Thread

(* Every variable keeps its type, and a connection's session is destroyed  *)
(* only if it was established (the finally clause of _handle_client).      *)
THEOREM TypeCorrect == Spec => []TypeOK
  <1>1. TypeOK /\ [Next]_vars => TypeOK'
    <2>1. ASSUME TypeOK, UNCHANGED vars PROVE TypeOK'
      BY <2>1 DEF TypeOK, vars
    <2> QED  BY <2>1, StepTypeOK DEF Next
  <1> QED  BY <1>1, InitTypeOK, PTL DEF Spec

-----------------------------------------------------------------------------
(* A thread knows a username only after a login in clear, in basic mode;   *)
(* it unregisters a name only if it knows one; and it has served every     *)
(* connection on which anything has happened.                              *)
NamesKnown ==
    \A c \in Conns :
        /\ username[c] # NoUser => mode[c] = "basic" /\ username[c] \in logins[c]
        /\ spc[c] = "unregister" => username[c] # NoUser
        /\ spc[c] = "none" => conn[c] = "unused" /\ logins[c] = {}
        /\ conn[c] = "unused" => spc[c] = "none"

ReachInv == TypeOK /\ NamesKnown /\ LatestLoginReachable

LEMMA InitReachInv == Init => ReachInv
  BY InitTypeOK DEF Init, ReachInv, NamesKnown, LatestLoginReachable

LEMMA StepNamesKnown ==
    ASSUME TypeOK, NamesKnown, NEW c \in Conns,
           \/ Accept(c) \/ Handshake(c) \/ (\E u \in Users : Login(c, u)) \/ Leave(c)
           \/ Thread(c)
    PROVE  NamesKnown'
  <1> USE DEF TypeOK, NamesKnown
  <1>1. CASE Accept(c)
    BY <1>1 DEF Accept
  <1>2. CASE Handshake(c)
    BY <1>2 DEF Handshake
  <1>3. ASSUME NEW u \in Users, Login(c, u) PROVE NamesKnown'
    BY <1>3 DEF Login
  <1>4. CASE Leave(c)
    BY <1>4 DEF Leave
  <1>5. CASE EndOfLoop(c)
    BY <1>5 DEF EndOfLoop
  <1>6. CASE DestroySession(c)
    BY <1>6 DEF DestroySession
  <1>7. CASE Unregister(c)
    BY <1>7 DEF Unregister
  <1> QED  BY <1>1, <1>2, <1>3, <1>4, <1>5, <1>6, <1>7 DEF Thread

(* A thread that has cleaned up has come to its end. *)
LEMMA CleanedUpStays ==
    ASSUME TypeOK, NamesKnown, NEW c \in Conns, NEW u \in Users, CleanedUp(u),
           \/ Accept(c) \/ Handshake(c) \/ (\E v \in Users : Login(c, v)) \/ Leave(c)
           \/ Thread(c)
    PROVE  CleanedUp(u)'
  <1>1. PICK d \in Conns : mode[d] = "basic" /\ username[d] = u /\ spc[d] = "done"
    BY DEF CleanedUp
  <1>2. mode'[d] = mode[d] /\ username'[d] = username[d] /\ spc'[d] = spc[d]
    BY <1>1 DEF Accept, Handshake, Login, Leave, Thread, EndOfLoop, DestroySession,
                Unregister, TypeOK, NamesKnown
  <1> QED  BY <1>1, <1>2 DEF CleanedUp

LEMMA StepReachable ==
    ASSUME ReachInv, NEW c \in Conns,
           \/ Accept(c) \/ Handshake(c) \/ (\E u \in Users : Login(c, u)) \/ Leave(c)
           \/ Thread(c)
    PROVE  LatestLoginReachable'
  <1> SUFFICES ASSUME NEW u \in Users
               PROVE  \/ clients'[u] = newest'[u]
                      \/ clients'[u] = NoConn /\ CleanedUp(u)'
    BY DEF LatestLoginReachable
  <1>1. CleanedUp(u) => CleanedUp(u)'
    BY CleanedUpStays DEF ReachInv
  <1>2. clients[u] = newest[u] \/ (clients[u] = NoConn /\ CleanedUp(u))
    BY DEF ReachInv, LatestLoginReachable
  <1>3. ASSUME clients' = clients, newest' = newest
        PROVE  clients'[u] = newest'[u] \/ (clients'[u] = NoConn /\ CleanedUp(u)')
    BY <1>1, <1>2, <1>3
  <1>4. ASSUME NEW v \in Users, Login(c, v)
        PROVE  clients'[u] = newest'[u] \/ (clients'[u] = NoConn /\ CleanedUp(u)')
    <2>1. CASE u = v
      BY <1>4, <2>1 DEF Login, ReachInv, TypeOK
    <2>2. CASE u # v
      <3>1. clients'[u] = clients[u] /\ newest'[u] = newest[u]
        BY <1>4, <2>2 DEF Login, ReachInv, TypeOK
      <3> QED  BY <1>1, <1>2, <3>1
    <2> QED  BY <2>1, <2>2
  <1>5. CASE Unregister(c)
    <2>1. CASE u = username[c]
      (* The user whose entry goes was served in basic mode on c. *)
      <3>1. mode'[c] = "basic" /\ username'[c] = u /\ spc'[c] = "done"
        BY <1>5, <2>1 DEF Unregister, ReachInv, TypeOK, NamesKnown
      <3>2. clients'[u] = NoConn
        BY <1>5, <2>1 DEF Unregister, ReachInv, TypeOK
      <3> QED  BY <3>1, <3>2 DEF CleanedUp
    <2>2. CASE u # username[c]
      <3>1. clients'[u] = clients[u] /\ newest'[u] = newest[u]
        BY <1>5, <2>2 DEF Unregister, ReachInv, TypeOK
      <3> QED  BY <1>1, <1>2, <3>1
    <2> QED  BY <2>1, <2>2
  <1> QED
    BY <1>3, <1>4, <1>5
    DEF Accept, Handshake, Leave, Thread, EndOfLoop, DestroySession

LEMMA ReachInvariant == Spec => []ReachInv
  <1>1. ReachInv /\ [Next]_vars => ReachInv'
    <2>1. ASSUME ReachInv, Next PROVE ReachInv'
      BY <2>1, StepTypeOK, StepNamesKnown, StepReachable
      DEF Next, ReachInv
    <2>2. ASSUME ReachInv, UNCHANGED vars PROVE ReachInv'
      BY <2>2 DEF ReachInv, TypeOK, NamesKnown, LatestLoginReachable,
                  CleanedUp, vars
    <2> QED  BY <2>1, <2>2
  <1> QED  BY <1>1, InitReachInv, PTL DEF Spec

(* However many connections a user has and in whatever order their threads *)
(* clean up, the server reaches the user on that of the latest login or    *)
(* not at all, and loses the user only to the thread of a connection in    *)
(* basic mode (_handle_login, _handle_client).                             *)
THEOREM LatestReachable == Spec => []LatestLoginReachable
  BY ReachInvariant, PTL DEF ReachInv

-----------------------------------------------------------------------------
(* Every entry of sessions is of a connection with a session id.           *)
EntriesHaveId == \A c \in Conns : sessions[c] # NoEntry => c \in sid

LEMMA StepLeftovers ==
    ASSUME TypeOK, NamesKnown, EntriesHaveId, LeftoverSessions, NEW c \in Conns,
           \/ Accept(c) \/ Handshake(c) \/ (\E u \in Users : Login(c, u)) \/ Leave(c)
           \/ Thread(c)
    PROVE  EntriesHaveId' /\ LeftoverSessions'
  <1> USE DEF TypeOK, EntriesHaveId, LeftoverSessions
  <1>1. CASE Accept(c)
    BY <1>1 DEF Accept
  <1>2. CASE Handshake(c)
    BY <1>2 DEF Handshake
  <1>3. ASSUME NEW u \in Users, Login(c, u) PROVE EntriesHaveId' /\ LeftoverSessions'
    BY <1>3 DEF Login
  <1>4. CASE Leave(c)
    BY <1>4 DEF Leave
  <1>5. CASE EndOfLoop(c)
    BY <1>5 DEF EndOfLoop
  <1>6. CASE DestroySession(c)
    BY <1>6 DEF DestroySession
  <1>7. CASE Unregister(c)
    BY <1>7 DEF Unregister
  <1> QED  BY <1>1, <1>2, <1>3, <1>4, <1>5, <1>6, <1>7 DEF Thread

(* The map of sessions names only users who logged in on the connection,   *)
(* and the entries that stay for ever are those of finished connections    *)
(* that never logged in in clear (_handle_client).                         *)
THEOREM SessionsLeftOver == Spec => []LeftoverSessions
  <1> DEFINE Inv == EntriesHaveId /\ LeftoverSessions
  <1>1. Init => Inv
    BY DEF Init, EntriesHaveId, LeftoverSessions
  <1>2. ReachInv /\ Inv /\ [Next]_vars => Inv'
    <2>1. ASSUME Inv, UNCHANGED vars PROVE Inv'
      BY <2>1 DEF EntriesHaveId, LeftoverSessions, vars
    <2> QED  BY <2>1, StepLeftovers DEF Next, ReachInv
  <1>3. Inv => LeftoverSessions
    OBVIOUS
  <1> QED  BY <1>1, <1>2, <1>3, ReachInvariant, PTL DEF Spec
=============================================================================
