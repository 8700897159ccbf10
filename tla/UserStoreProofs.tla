--------------------------- MODULE UserStoreProofs ---------------------------
(***************************************************************************)
(* Proofs about UserStore, for any demo users, any number of client        *)
(* threads, logins, deaths and failed saves, in any base.                  *)
(***************************************************************************)
EXTENDS UserStore, TLAPS

Account == [login_count : Nat, created_at : Nat]
Stores == UNION {[D -> Account] : D \in SUBSET Users}

LEMMA StoreDomain ==
    ASSUME NEW a
    PROVE  a \in Stores <=> DOMAIN a \subseteq Users /\ a \in [DOMAIN a -> Account]
  BY DEF Stores

LEMMA EmptyStore == NoAccounts \in Stores /\ DOMAIN NoAccounts = {}
  BY StoreDomain DEF NoAccounts

LEMMA PutStore ==
    ASSUME NEW a, a \in Stores, NEW u \in Users, NEW v \in Account
    PROVE  /\ Put(a, u, v) \in Stores /\ DOMAIN Put(a, u, v) = DOMAIN a \cup {u}
           /\ \A w \in DOMAIN Put(a, u, v) : Put(a, u, v)[w] = IF w = u THEN v ELSE a[w]
  BY StoreDomain DEF Put

(* What setting a login count does to the accounts. *)
LEMMA CountStore ==
    ASSUME NEW a, a \in Stores, NEW u \in Users, NEW n \in Nat
    PROVE  /\ [a EXCEPT ![u].login_count = n] \in Stores
           /\ DOMAIN [a EXCEPT ![u].login_count = n] = DOMAIN a
           /\ \A w \in DOMAIN a : [a EXCEPT ![u].login_count = n][w].login_count =
                                      IF w = u THEN n ELSE a[w].login_count
  <1> DEFINE b == [a EXCEPT ![u].login_count = n]
  <1>1. DOMAIN b = DOMAIN a
    OBVIOUS
  <1>2. ASSUME NEW w \in DOMAIN a
        PROVE  /\ b[w] \in Account
               /\ b[w].login_count = IF w = u THEN n ELSE a[w].login_count
    BY StoreDomain DEF Account
  <1>3. b = [w \in DOMAIN b |-> b[w]]
    OBVIOUS
  <1> HIDE DEF b
  <1>4. b \in Stores
    BY <1>1, <1>2, <1>3, StoreDomain
  <1>5. b \in Stores /\ DOMAIN b = DOMAIN a /\ \A w \in DOMAIN a :
                                 b[w].login_count = IF w = u THEN n ELSE a[w].login_count
    BY <1>1, <1>2, <1>4
  <1> QED  BY <1>5 DEF b

LEMMA DemoUsers == Demo[1] \in Users /\ 1 \in DOMAIN Demo /\ DOMAIN Demo \subseteq Nat \ {0}
  BY UserStoreAssumption DEF Users

-----------------------------------------------------------------------------
Places == {"idle", "register", "count", "copy", "open", "write", "read digests",
           "open digests", "write digests", "done"}

LEMMA PlacesExist ==
    /\ "idle" \in Places /\ "register" \in Places /\ "count" \in Places
    /\ "copy" \in Places /\ "open" \in Places /\ "write" \in Places
    /\ "read digests" \in Places /\ "open digests" \in Places
    /\ "write digests" \in Places /\ "done" \in Places
  BY DEF Places

(* TypeOK with the types of what it leaves open, and what registration     *)
(* needs: whoever is being registered has an account already.              *)
StoreInv ==
    /\ phase \in {"down", "setup", "serving"}
    /\ accounts \in Stores /\ DOMAIN keys \subseteq DOMAIN accounts
    /\ pc \in [Workers -> Places] /\ user \in [Workers -> Users]
    /\ count \in [Workers -> Nat]
    /\ copy = [t \in Workers |-> copy[t]] /\ \A t \in Workers : copy[t] \in Stores
    /\ usersFile.state \in {"absent", "empty", "torn", "whole"} /\ usersFile.of \in Stores
    /\ integrity.state \in {"absent", "empty", "whole"} /\ integrity.of \in Stores
    /\ life \in Nat /\ logins \in [Users -> Nat]
    /\ \A t \in Threads : phase # "serving" => pc[t] = "idle"
    /\ phase # "setup" => pc[Main] = "idle"
    /\ phase = "setup" /\ pc[Main] # "register" => user[Main] \in DOMAIN accounts

LEMMA StoreInvTypes == StoreInv => TypeOK
  <1> SUFFICES ASSUME StoreInv PROVE TypeOK
    OBVIOUS
  <1>1. ASSUME NEW a, a \in Stores, NEW u \in DOMAIN a
        PROVE  u \in Users /\ a[u].login_count \in Nat
    BY <1>1, StoreDomain DEF Account
  <1> QED  BY <1>1 DEF StoreInv, TypeOK

LEMMA InitStoreInv == Init => StoreInv
  BY EmptyStore, DemoUsers DEF Init, StoreInv, Absent, Places, Workers

LEMMA LoadedStore ==
    ASSUME usersFile.of \in Stores
    PROVE  LoadUsers(usersFile) \in Stores
  BY EmptyStore DEF LoadUsers

LEMMA StepStoreInv ==
    ASSUME StoreInv, Next
    PROVE  StoreInv'
  <1> USE DEF StoreInv, At, Goto, Workers, memory, local, disk, history
  <1>1. CASE Boot
    <2>1. accounts' \in Stores /\ DOMAIN keys' = DOMAIN accounts' /\ life' \in Nat
      <3>1. LoadUsers(usersFile) \in Stores /\ accounts' = LoadUsers(usersFile)
        BY <1>1, LoadedStore DEF Boot
      <3>2. accounts' \in Stores
        BY <3>1
      <3>3. life' \in Nat
        BY <1>1 DEF Boot
      <3> QED  BY <1>1, <3>2, <3>3 DEF Boot
    <2>2. /\ phase' \in {"setup", "serving"} /\ pc' \in [Workers -> Places]
          /\ \A t \in Threads : pc'[t] = "idle"
          /\ phase' # "setup" => pc'[Main] = "idle"
          /\ phase' = "setup" => pc'[Main] = "register"
      BY <1>1, PlacesExist, UserStoreAssumption DEF Boot
    <2>3. UNCHANGED <<user, count, copy, usersFile, integrity, logins>>
      BY <1>1 DEF Boot
    <2> QED  BY <2>1, <2>2, <2>3
  <1>2. CASE Register
    <2>1. PICK i \in Missing : /\ user' = [user EXCEPT ![Main] = Demo[i]]
                               /\ accounts' = Put(accounts, Demo[i], NewAccount)
      BY <1>2 DEF Register
    <2>2. Demo[i] \in Users /\ NewAccount \in Account
      BY <2>1 DEF Missing, Users, NewAccount, Account
    <2>3. accounts' \in Stores /\ DOMAIN accounts' = DOMAIN accounts \cup {Demo[i]}
      <3>1. accounts \in Stores
        OBVIOUS
      <3> HIDE DEF StoreInv
      <3>2. Put(accounts, Demo[i], NewAccount) \in Stores
        BY <2>2, <3>1, PutStore
      <3>3. DOMAIN accounts' = DOMAIN accounts \cup {Demo[i]}
        BY <2>1 DEF Put
      <3> QED  BY <2>1, <3>2, <3>3
    <2>4. copy' = [t \in Workers |-> copy'[t]] /\ \A t \in Workers : copy'[t] \in Stores
      BY <1>2, EmptyStore DEF Register
    <2>5. UNCHANGED <<phase, keys, count, usersFile, integrity, life, logins>>
      BY <1>2 DEF Register
    <2>6. pc' = [pc EXCEPT ![Main] = "copy"] /\ phase = "setup"
      BY <1>2 DEF Register
    <2>7. user' \in [Workers -> Users] /\ user'[Main] = Demo[i]
      BY <2>1, <2>2
    <2>8. pc' \in [Workers -> Places] /\ \A t \in Threads : pc'[t] = pc[t]
      BY <2>6, PlacesExist, UserStoreAssumption
    <2> QED  BY <2>3, <2>4, <2>5, <2>6, <2>7, <2>8
  <1>3. CASE Registered
    <2>1. DOMAIN keys' \subseteq DOMAIN accounts
      BY <1>3, PlacesExist, UserStoreAssumption DEF Registered, Put
    <2> QED  BY <1>3, <2>1, PlacesExist, UserStoreAssumption DEF Registered
  <1>4. ASSUME NEW t \in Threads, NEW u \in Users, Login(t, u) PROVE StoreInv'
    <2>1. accounts[u].login_count \in Nat /\ u \in DOMAIN accounts
      BY <1>4, StoreDomain DEF Login, Account
    <2>2. /\ user' \in [Workers -> Users] /\ count' \in [Workers -> Nat]
          /\ pc' \in [Workers -> Places]
      BY <1>4, <2>1, PlacesExist DEF Login
    <2>4. logins' \in [Users -> Nat]
      BY <1>4 DEF Login
    <2>3. /\ phase = "serving" /\ pc'[Main] = pc[Main]
          /\ UNCHANGED <<phase, accounts, keys, copy, usersFile, integrity, life>>
      BY <1>4, PlacesExist, UserStoreAssumption DEF Login
    <2> QED  BY <2>2, <2>3, <2>4
  <1>5. ASSUME NEW t \in Threads, CountLogin(t) PROVE StoreInv'
    <2>1. accounts' \in Stores /\ DOMAIN accounts' = DOMAIN accounts
      <3>1. ASSUME NEW u \in Users, NEW n \in Nat,
                   accounts' = [accounts EXCEPT ![u].login_count = n]
            PROVE  accounts' \in Stores /\ DOMAIN accounts' = DOMAIN accounts
        <4>1. DOMAIN accounts' = DOMAIN accounts
          BY <3>1
        <4>2. accounts \in Stores
          OBVIOUS
        <4> HIDE DEF StoreInv
        <4>3. [accounts EXCEPT ![u].login_count = n] \in Stores
          BY <4>2, CountStore
        <4> QED  BY <3>1, <4>1, <4>3
      <3>2. user[t] \in Users /\ count[t] + 1 \in Nat
        OBVIOUS
      <3>3. accounts' = [accounts EXCEPT ![user[t]].login_count = count[t] + 1]
        BY <1>5 DEF CountLogin
      <3> HIDE DEF StoreInv
      <3> QED  BY <3>1, <3>2, <3>3
    <2>2. copy' = [w \in Workers |-> copy'[w]] /\ \A w \in Workers : copy'[w] \in Stores
      BY <1>5, EmptyStore DEF CountLogin
    <2> QED  BY <1>5, <2>1, <2>2, PlacesExist, UserStoreAssumption DEF CountLogin
  <1>6. ASSUME NEW t \in Workers, CopyAccount(t) PROVE StoreInv'
    <2>1. PICK u \in DOMAIN accounts \ DOMAIN copy[t] :
             copy' = [copy EXCEPT ![t] = Put(copy[t], u, accounts[u])]
      BY <1>6 DEF CopyAccount
    <2>2. u \in Users /\ accounts[u] \in Account
      BY <2>1, StoreDomain
    <2>3. Put(copy[t], u, accounts[u]) \in Stores
      BY <2>2, PutStore
    <2>4. copy' = [w \in Workers |-> copy'[w]] /\ \A w \in Workers : copy'[w] \in Stores
      BY <2>1, <2>3
    <2> QED  BY <1>6, <2>4, PlacesExist, UserStoreAssumption DEF CopyAccount
  <1>7. ASSUME NEW t \in Workers, OpenUsers(t) PROVE StoreInv'
    BY <1>7, EmptyStore, PlacesExist, UserStoreAssumption DEF OpenUsers, Empty
  <1>8. ASSUME NEW t \in Workers, WriteUsers(t) PROVE StoreInv'
    <2>1. /\ usersFile'.state \in {"torn", "whole"} /\ usersFile'.of \in Stores
      BY <1>8, EmptyStore DEF WriteUsers, Overwritten, Whole
    <2> QED  BY <1>8, <2>1, PlacesExist, UserStoreAssumption DEF WriteUsers
  <1>9. ASSUME NEW t \in Workers, ReadDigests(t) PROVE StoreInv'
    BY <1>9, PlacesExist, UserStoreAssumption DEF ReadDigests
  <1>10. ASSUME NEW t \in Workers, OpenDigests(t) PROVE StoreInv'
    BY <1>10, EmptyStore, PlacesExist, UserStoreAssumption DEF OpenDigests, Empty
  <1>11. ASSUME NEW t \in Workers, WriteDigests(t) PROVE StoreInv'
    BY <1>11, PlacesExist, UserStoreAssumption DEF WriteDigests, Whole
  <1>12. ASSUME NEW t \in Workers, SaveFails(t) PROVE StoreInv'
    BY <1>12, PlacesExist, UserStoreAssumption DEF SaveFails
  <1>13. ASSUME NEW t \in Threads, Answer(t) PROVE StoreInv'
    BY <1>13, PlacesExist, UserStoreAssumption DEF Answer
  <1>14. CASE Crash
    <2>1. phase' = "down" /\ \A t \in Workers : pc'[t] = "idle"
      BY <1>14 DEF Crash
    <2>2. pc' \in [Workers -> Places]
      BY <1>14, PlacesExist DEF Crash
    <2>3. UNCHANGED <<accounts, keys, user, count, copy, usersFile, integrity, life, logins>>
      BY <1>14 DEF Crash
    <2> QED  BY <2>1, <2>2, <2>3
  <1> QED
    BY <1>1, <1>2, <1>3, <1>4, <1>5, <1>6, <1>7, <1>8, <1>9, <1>10, <1>11, <1>12,
       <1>13, <1>14
    DEF Next, Save

LEMMA StoreInvariant == Spec => []StoreInv
  <1>1. StoreInv /\ [Next]_vars => StoreInv'
    <2>1. ASSUME StoreInv, UNCHANGED vars PROVE StoreInv'
      BY <2>1, StoreDomain DEF StoreInv, vars
    <2> QED  BY <2>1, StepStoreInv
  <1> QED  BY <1>1, InitStoreInv, PTL DEF Spec

(* Every variable keeps its type, client threads work only once the server *)
(* is set up, and keys belong to accounts (__init__, _handle_login).       *)
THEOREM TypeCorrect == Spec => []TypeOK
  BY StoreInvariant, StoreInvTypes, PTL

-----------------------------------------------------------------------------
(* No login is made up.  A count that a thread is about to write is one    *)
(* login behind what has happened, and every copy of the accounts counts   *)
(* logins that happened, as a copy is never ahead of its original.         *)

CountsInv ==
    /\ \A u \in DOMAIN accounts : accounts[u].login_count <= logins[u]
    /\ \A t \in Workers : \A u \in DOMAIN copy[t] : copy[t][u].login_count <= logins[u]
    /\ \A u \in DOMAIN usersFile.of : usersFile.of[u].login_count <= logins[u]
    /\ \A t \in Threads : pc[t] = "count" => count[t] + 1 <= logins[user[t]]

LEMMA InitCounts == Init => CountsInv
  BY EmptyStore DEF Init, CountsInv, Absent, Workers

LEMMA StoredCount ==
    ASSUME NEW a \in Stores, NEW u \in DOMAIN a
    PROVE  u \in Users /\ a[u].login_count \in Nat /\ a[u] \in Account
  BY StoreDomain DEF Account

LEMMA StepCounts ==
    ASSUME StoreInv, CountsInv, Next
    PROVE  CountsInv'
  <1> USE DEF At, Goto, Workers, memory, local, disk, history
  <1>1. CASE Boot
    <2>1. /\ UNCHANGED <<user, count, copy, usersFile, logins>>
          /\ accounts' = usersFile.of \/ accounts' = NoAccounts
          /\ \A t \in Threads : pc'[t] = pc[t]
      BY <1>1, UserStoreAssumption DEF Boot, LoadUsers, StoreInv
    <2> QED  BY <2>1, EmptyStore DEF CountsInv
  <1>2. CASE Register
    <2>1. PICK i \in Missing : accounts' = Put(accounts, Demo[i], NewAccount)
      BY <1>2 DEF Register
    <2>2. Demo[i] \in Users /\ NewAccount.login_count = 0 /\ 0 <= logins[Demo[i]]
      BY <2>1 DEF Missing, Users, NewAccount, StoreInv
    <2>3. \A u \in DOMAIN accounts' : accounts'[u].login_count <= logins[u]
      BY <2>1, <2>2 DEF Put, CountsInv
    <2>4. copy' = [copy EXCEPT ![Main] = NoAccounts] /\ UNCHANGED <<count, usersFile, logins>>
      BY <1>2 DEF Register
    <2>5. \A t \in Threads : pc'[t] = pc[t] /\ user'[t] = user[t]
      BY <1>2, UserStoreAssumption DEF Register, StoreInv
    <2>6. \A t \in Workers : \A u \in DOMAIN copy'[t] : copy'[t][u].login_count <= logins[u]
      BY <2>4, EmptyStore DEF CountsInv, StoreInv
    <2> QED  BY <2>3, <2>4, <2>5, <2>6 DEF CountsInv
  <1>3. CASE Registered
    <2>1. /\ UNCHANGED <<accounts, user, count, copy, usersFile, logins>>
          /\ \A t \in Threads : pc'[t] = pc[t]
      BY <1>3, UserStoreAssumption DEF Registered, StoreInv
    <2> QED  BY <2>1 DEF CountsInv
  <1>4. ASSUME NEW t \in Threads, NEW v \in Users, Login(t, v) PROVE CountsInv'
    <2>1. /\ UNCHANGED <<accounts, copy, usersFile>>
          /\ logins' = [logins EXCEPT ![v] = @ + 1] /\ v \in DOMAIN accounts
      BY <1>4 DEF Login
    <2>2. \A u \in Users : logins[u] \in Nat /\ logins'[u] \in Nat /\ logins[u] <= logins'[u]
      BY <2>1 DEF StoreInv
    <2>3. ASSUME NEW a \in Stores, \A u \in DOMAIN a : a[u].login_count <= logins[u]
          PROVE  \A u \in DOMAIN a : a[u].login_count <= logins'[u]
      <3> TAKE u \in DOMAIN a
      <3>1. u \in Users /\ a[u].login_count \in Nat /\ a[u].login_count <= logins[u]
        BY <2>3, StoredCount
      <3> QED  BY <2>2, <3>1
    <2>4. ASSUME NEW w \in Threads, pc'[w] = "count"
          PROVE  count'[w] + 1 <= logins'[user'[w]]
      <3>1. CASE w = t
        <4>1. count'[w] = accounts[v].login_count /\ user'[w] = v
          BY <1>4, <3>1 DEF Login, StoreInv
        <4>2. accounts[v].login_count \in Nat /\ accounts[v].login_count <= logins[v]
          BY <2>1, StoredCount DEF StoreInv, CountsInv
        <4>3. logins'[v] = logins[v] + 1 /\ logins[v] \in Nat
          BY <2>1 DEF StoreInv
        <4> QED  BY <4>1, <4>2, <4>3
      <3>2. CASE w # t
        <4>1. /\ count'[w] = count[w] /\ user'[w] = user[w] /\ pc[w] = "count"
              /\ count[w] \in Nat /\ user[w] \in Users
          BY <1>4, <2>4, <3>2 DEF Login, StoreInv
        <4>2. count[w] + 1 <= logins[user[w]]
          BY <4>1 DEF CountsInv
        <4> QED  BY <2>2, <4>1, <4>2
      <3> QED  BY <3>1, <3>2
    <2>5. /\ \A u \in DOMAIN accounts : accounts[u].login_count <= logins'[u]
          /\ \A u \in DOMAIN usersFile.of : usersFile.of[u].login_count <= logins'[u]
      BY <2>3 DEF StoreInv, CountsInv
    <2>6. \A w \in Workers : \A u \in DOMAIN copy[w] : copy[w][u].login_count <= logins'[u]
      BY <2>3 DEF StoreInv, CountsInv
    <2> QED  BY <2>1, <2>4, <2>5, <2>6 DEF CountsInv
  <1>5. ASSUME NEW t \in Threads, CountLogin(t) PROVE CountsInv'
    <2>1. /\ accounts' = [accounts EXCEPT ![user[t]].login_count = count[t] + 1]
          /\ copy' = [copy EXCEPT ![t] = NoAccounts]
          /\ UNCHANGED <<user, count, usersFile, logins>>
          /\ pc[t] = "count" /\ pc' = [pc EXCEPT ![t] = "copy"]
      BY <1>5 DEF CountLogin
    <2>2. count[t] + 1 <= logins[user[t]] /\ user[t] \in Users /\ count[t] + 1 \in Nat
      BY <2>1 DEF CountsInv, StoreInv
    <2>3. \A u \in DOMAIN accounts' : accounts'[u].login_count <= logins[u]
      <3> TAKE u \in DOMAIN accounts'
      <3>1. u \in DOMAIN accounts /\ accounts[u] \in Account
        BY <2>1, StoredCount DEF StoreInv
      <3>2. accounts'[u].login_count = IF u = user[t] THEN count[t] + 1
                                       ELSE accounts[u].login_count
        BY <2>1, <3>1 DEF Account
      <3> QED  BY <2>2, <3>1, <3>2 DEF CountsInv
    <2>4. \A w \in Workers : \A u \in DOMAIN copy'[w] : copy'[w][u].login_count <= logins[u]
      BY <2>1, EmptyStore DEF CountsInv, StoreInv
    <2>5. \A w \in Threads : pc'[w] = "count" => pc[w] = "count"
      BY <2>1 DEF StoreInv
    <2> QED  BY <2>1, <2>3, <2>4, <2>5 DEF CountsInv
  <1>6. ASSUME NEW t \in Workers, CopyAccount(t) PROVE CountsInv'
    <2>1. PICK v \in DOMAIN accounts \ DOMAIN copy[t] :
             copy' = [copy EXCEPT ![t] = Put(copy[t], v, accounts[v])]
      BY <1>6 DEF CopyAccount
    <2>2. \A u \in DOMAIN Put(copy[t], v, accounts[v]) :
             Put(copy[t], v, accounts[v])[u].login_count <= logins[u]
      BY <2>1 DEF Put, CountsInv
    <2>3. \A w \in Workers : \A u \in DOMAIN copy'[w] : copy'[w][u].login_count <= logins[u]
      BY <2>1, <2>2 DEF CountsInv, StoreInv
    <2>4. /\ UNCHANGED <<accounts, user, count, usersFile, logins>>
          /\ \A w \in Threads : pc'[w] = "count" => pc[w] = "count"
      BY <1>6 DEF CopyAccount, StoreInv
    <2> QED  BY <2>3, <2>4 DEF CountsInv
  <1>7. ASSUME NEW t \in Workers, WriteUsers(t) PROVE CountsInv'
    <2>1. usersFile'.of = copy[t] \/ usersFile'.of = NoAccounts
      BY <1>7 DEF WriteUsers, Overwritten, Whole
    <2>2. /\ UNCHANGED <<accounts, user, count, copy, logins>>
          /\ \A w \in Threads : pc'[w] = "count" => pc[w] = "count"
      BY <1>7 DEF WriteUsers, StoreInv
    <2>3. \A u \in DOMAIN usersFile'.of : usersFile'.of[u].login_count <= logins[u]
      BY <2>1, EmptyStore DEF CountsInv
    <2> QED  BY <2>2, <2>3 DEF CountsInv
  <1>8. ASSUME NEW t \in Workers, OpenUsers(t) PROVE CountsInv'
    <2>1. usersFile'.of = NoAccounts
      BY <1>8 DEF OpenUsers, Empty
    <2>2. /\ UNCHANGED <<accounts, user, count, copy, logins>>
          /\ \A w \in Threads : pc'[w] = "count" => pc[w] = "count"
      BY <1>8 DEF OpenUsers, StoreInv
    <2> QED  BY <2>1, <2>2, EmptyStore DEF CountsInv
  <1>9. ASSUME UNCHANGED <<accounts, user, count, copy, usersFile, logins>>,
               \A w \in Threads : pc'[w] = "count" => pc[w] = "count"
        PROVE  CountsInv'
    BY <1>9 DEF CountsInv
  <1>10. ASSUME NEW t \in Workers,
                ReadDigests(t) \/ OpenDigests(t) \/ WriteDigests(t) \/ SaveFails(t)
         PROVE  CountsInv'
    <2>1. /\ UNCHANGED <<accounts, user, count, copy, usersFile, logins>>
          /\ \A w \in Threads : pc'[w] = "count" => pc[w] = "count"
      BY <1>10 DEF ReadDigests, OpenDigests, WriteDigests, SaveFails, StoreInv
    <2> QED  BY <1>9, <2>1
  <1>11. ASSUME NEW t \in Threads, Answer(t) PROVE CountsInv'
    <2>1. /\ UNCHANGED <<accounts, user, count, copy, usersFile, logins>>
          /\ \A w \in Threads : pc'[w] = "count" => pc[w] = "count"
      BY <1>11 DEF Answer, StoreInv
    <2> QED  BY <1>9, <2>1
  <1>12. CASE Crash
    <2>1. /\ UNCHANGED <<accounts, user, count, copy, usersFile, logins>>
          /\ \A w \in Threads : pc'[w] = "count" => pc[w] = "count"
      BY <1>12 DEF Crash
    <2> QED  BY <1>9, <2>1
  <1> QED
    BY <1>1, <1>2, <1>3, <1>4, <1>5, <1>6, <1>7, <1>8, <1>10, <1>11, <1>12
    DEF Next, Save

(* Neither the accounts nor what a restart would load ever counts a login  *)
(* that did not happen, however logins and their saves overlap (login,     *)
(* save_users, load_users).                                                *)
THEOREM NoLoginMadeUp == Spec => []CountsRealLogins
  <1>1. StoreInv /\ CountsInv /\ [Next]_vars => CountsInv'
    <2>1. ASSUME CountsInv, UNCHANGED vars PROVE CountsInv'
      BY <2>1 DEF CountsInv, vars
    <2> QED  BY <2>1, StepCounts
  <1>2. CountsInv => CountsRealLogins
    <2> SUFFICES ASSUME CountsInv PROVE CountsRealLogins
      OBVIOUS
    <2>1. LoadUsers(usersFile) = usersFile.of \/ LoadUsers(usersFile) = NoAccounts
      BY DEF LoadUsers
    <2> QED  BY <2>1, EmptyStore DEF CountsInv, CountsRealLogins
  <1> QED  BY <1>1, <1>2, InitCounts, StoreInvariant, PTL DEF Spec

-----------------------------------------------------------------------------
(* The first demo user.  Registration is in the order of demo_users and    *)
(* each registration is saved, so no accounts but those of before the very *)
(* first registration lack the first user, and neither does any text that  *)
(* is written.                                                             *)

First == Demo[1]

FirstInv ==
    /\ phase = "serving" => First \in DOMAIN accounts /\ DOMAIN keys = DOMAIN accounts
    /\ phase = "setup" /\ pc[Main] = "register" => DOMAIN keys = DOMAIN accounts
    /\ phase = "setup" /\ pc[Main] # "register" =>
          First \in DOMAIN accounts /\ DOMAIN accounts = DOMAIN keys \cup {user[Main]}
    /\ \A t \in Workers : pc[t] \in {"open", "write"} => First \in DOMAIN copy[t]
    /\ usersFile.state = "whole" => First \in DOMAIN usersFile.of

LEMMA InitFirst == Init => FirstInv
  BY DEF Init, FirstInv, Absent, Workers

(* A worker at a save finds the first user among the accounts. *)
LEMMA SavingAfterFirst ==
    ASSUME StoreInv, FirstInv, NEW t \in Workers,
           phase # "down", pc[t] \notin {"idle", "register"}
    PROVE  First \in DOMAIN accounts
  BY DEF StoreInv, FirstInv, Workers

LEMMA StepFirst ==
    ASSUME StoreInv, FirstInv, Next
    PROVE  FirstInv'
  <1> USE DEF At, Goto, memory, local, disk, history
  <1>0. Main \in Workers /\ Threads \subseteq Workers /\ Main \notin Threads
    BY UserStoreAssumption DEF Workers
  <1>1. CASE Boot
    <2>1. /\ DOMAIN keys' = DOMAIN accounts' /\ UNCHANGED <<copy, usersFile>>
          /\ accounts' = LoadUsers(usersFile)
      BY <1>1 DEF Boot
    <2>2. \/ accounts' = NoAccounts /\ phase' = "setup" /\ pc' = [pc EXCEPT ![Main] = "register"]
          \/ accounts' # NoAccounts /\ phase' = "serving" /\ pc' = pc
      BY <1>1 DEF Boot
    <2>3. accounts' # NoAccounts => First \in DOMAIN accounts'
      BY <2>1 DEF LoadUsers, FirstInv
    <2>4. \A t \in Workers : pc'[t] \notin {"open", "write"}
      BY <1>1, <1>0, <2>2 DEF Boot, StoreInv, Workers
    <2>5. phase' = "setup" => pc'[Main] = "register"
      BY <1>0, <2>2 DEF StoreInv
    <2> QED  BY <2>1, <2>2, <2>3, <2>4, <2>5 DEF FirstInv
  <1>2. CASE Register
    <2>1. PICK i \in Missing : /\ \A j \in Missing : i <= j
                               /\ user' = [user EXCEPT ![Main] = Demo[i]]
                               /\ accounts' = Put(accounts, Demo[i], NewAccount)
      BY <1>2 DEF Register
    <2>2. /\ copy' = [copy EXCEPT ![Main] = NoAccounts] /\ pc' = [pc EXCEPT ![Main] = "copy"]
          /\ UNCHANGED <<phase, keys, usersFile>> /\ pc[Main] = "register" /\ phase # "down"
      BY <1>2 DEF Register
    <2>3. phase = "setup" /\ DOMAIN keys = DOMAIN accounts
      BY <2>2 DEF StoreInv, FirstInv
    <2>4. DOMAIN accounts' = DOMAIN accounts \cup {Demo[i]} /\ user'[Main] = Demo[i]
      BY <1>0, <2>1 DEF Put, StoreInv
    <2>5. First \in DOMAIN accounts'
      <3>1. CASE First \in DOMAIN accounts
        BY <2>4, <3>1
      <3>2. CASE First \notin DOMAIN accounts
        <4>1. 1 \in Missing /\ i \in Nat \ {0}
          BY <2>1, <3>2, DemoUsers DEF Missing, First
        <4>2. i = 1
          BY <2>1, <4>1
        <4> QED  BY <2>4, <4>2 DEF First
      <3> QED  BY <3>1, <3>2
    <2>6. pc'[Main] = "copy" /\ \A t \in Workers \ {Main} : pc'[t] = pc[t] /\ copy'[t] = copy[t]
      BY <1>0, <2>2 DEF StoreInv
    <2>7. \A t \in Workers : pc'[t] \in {"open", "write"} => First \in DOMAIN copy'[t]
      BY <2>6 DEF FirstInv
    <2>8. usersFile'.state = "whole" => First \in DOMAIN usersFile'.of
      BY <2>2 DEF FirstInv
    <2> QED  BY <2>2, <2>3, <2>4, <2>5, <2>6, <2>7, <2>8 DEF FirstInv
  <1>3. CASE Registered
    <2>1. /\ keys' = Put(keys, user[Main], life) /\ pc[Main] = "done" /\ phase # "down"
          /\ UNCHANGED <<accounts, user, copy, usersFile>>
          /\ \/ phase' = "serving" /\ pc' = [pc EXCEPT ![Main] = "idle"]
             \/ phase' = phase /\ pc' = [pc EXCEPT ![Main] = "register"]
      BY <1>3 DEF Registered
    <2>2. phase = "setup"
      BY <2>1 DEF StoreInv
    <2>3. First \in DOMAIN accounts /\ DOMAIN keys' = DOMAIN accounts
      BY <2>1, <2>2 DEF FirstInv, Put
    <2>4. /\ \A t \in Workers \ {Main} : pc'[t] = pc[t]
          /\ pc'[Main] \in {"idle", "register"} /\ (phase' = "setup" => pc'[Main] = "register")
      BY <1>0, <2>1, <2>2 DEF StoreInv
    <2>5. \A t \in Workers : pc'[t] \in {"open", "write"} => First \in DOMAIN copy'[t]
      BY <2>1, <2>4 DEF FirstInv
    <2> QED  BY <2>1, <2>3, <2>4, <2>5 DEF FirstInv
  <1>4. ASSUME NEW t \in Threads, NEW u \in Users, Login(t, u) PROVE FirstInv'
    <2>1. /\ UNCHANGED <<phase, accounts, keys, copy, usersFile>> /\ phase = "serving"
          /\ \A w \in Workers : pc'[w] \in {"open", "write"} => pc[w] \in {"open", "write"}
      BY <1>4 DEF Login, StoreInv
    <2> QED  BY <2>1 DEF FirstInv
  <1>5. ASSUME NEW t \in Threads, CountLogin(t) PROVE FirstInv'
    <2>1. /\ UNCHANGED <<phase, keys, user, usersFile>>
          /\ DOMAIN accounts' = DOMAIN accounts
          /\ copy' = [copy EXCEPT ![t] = NoAccounts] /\ pc' = [pc EXCEPT ![t] = "copy"]
      BY <1>5 DEF CountLogin
    <2>2. /\ pc'[t] = "copy"
          /\ \A w \in Workers \ {t} : pc'[w] = pc[w] /\ copy'[w] = copy[w]
      BY <1>0, <2>1 DEF StoreInv
    <2>3. \A w \in Workers : pc'[w] \in {"open", "write"} => First \in DOMAIN copy'[w]
      BY <2>2 DEF FirstInv
    <2>4. pc'[Main] = pc[Main]
      BY <1>0, <2>2
    <2> QED  BY <2>1, <2>3, <2>4 DEF FirstInv
  <1>6. ASSUME NEW t \in Workers, CopyAccount(t) PROVE FirstInv'
    <2>1. PICK v \in DOMAIN accounts \ DOMAIN copy[t] :
             copy' = [copy EXCEPT ![t] = Put(copy[t], v, accounts[v])]
      BY <1>6 DEF CopyAccount
    <2>2. /\ UNCHANGED <<phase, accounts, keys, user, usersFile>>
          /\ pc[t] = "copy" /\ phase # "down"
          /\ pc' = [pc EXCEPT ![t] = IF DOMAIN copy'[t] = DOMAIN accounts THEN "open" ELSE "copy"]
      BY <1>6 DEF CopyAccount
    <2>3. First \in DOMAIN accounts
      BY <2>2, SavingAfterFirst
    <2>4. pc'[t] = "open" => First \in DOMAIN copy'[t]
      BY <2>2, <2>3 DEF StoreInv
    <2>5. /\ pc'[t] \in {"open", "copy"}
          /\ \A w \in Workers \ {t} : pc'[w] = pc[w] /\ copy'[w] = copy[w]
      BY <2>1, <2>2 DEF StoreInv
    <2>6. \A w \in Workers : pc'[w] \in {"open", "write"} => First \in DOMAIN copy'[w]
      BY <2>4, <2>5 DEF FirstInv
    <2>7. phase = "setup" => (pc'[Main] = "register" <=> pc[Main] = "register")
      BY <1>0, <2>2, <2>5
    <2> QED  BY <2>2, <2>6, <2>7 DEF FirstInv
  <1>7. ASSUME NEW t \in Workers, WriteUsers(t) PROVE FirstInv'
    <2>1. /\ UNCHANGED <<phase, accounts, keys, user, copy>> /\ pc[t] = "write"
          /\ usersFile' = Overwritten(usersFile, copy[t])
          /\ pc' = [pc EXCEPT ![t] = "read digests"]
      BY <1>7 DEF WriteUsers
    <2>2. usersFile'.state = "whole" => usersFile'.of = copy[t]
      BY <2>1 DEF Overwritten, Whole
    <2>3. First \in DOMAIN copy[t]
      BY <2>1 DEF FirstInv
    <2>4. pc'[t] = "read digests" /\ \A w \in Workers \ {t} : pc'[w] = pc[w]
      BY <2>1 DEF StoreInv
    <2>5. /\ \A w \in Workers : pc'[w] \in {"open", "write"} => pc[w] \in {"open", "write"}
          /\ (pc'[Main] = "register" <=> pc[Main] = "register")
      BY <1>0, <2>1, <2>4
    <2> QED  BY <2>1, <2>2, <2>3, <2>5 DEF FirstInv
  <1>8. ASSUME NEW t \in Workers, OpenUsers(t) PROVE FirstInv'
    <2>1. /\ UNCHANGED <<phase, accounts, keys, user, copy>> /\ pc[t] = "open"
          /\ usersFile'.state = "empty" /\ pc' = [pc EXCEPT ![t] = "write"]
      BY <1>8 DEF OpenUsers, Empty
    <2>2. pc'[t] = "write" /\ \A w \in Workers \ {t} : pc'[w] = pc[w]
      BY <2>1 DEF StoreInv
    <2>3. /\ \A w \in Workers : pc'[w] \in {"open", "write"} => pc[w] \in {"open", "write"}
          /\ (pc'[Main] = "register" <=> pc[Main] = "register")
      BY <1>0, <2>1, <2>2
    <2> QED  BY <2>1, <2>3 DEF FirstInv
  <1>9. ASSUME UNCHANGED <<phase, accounts, keys, user, copy, usersFile>>,
               \A w \in Workers : pc'[w] \in {"open", "write"} => pc[w] \in {"open", "write"},
               pc'[Main] = "register" <=> pc[Main] = "register"
        PROVE  FirstInv'
    BY <1>9 DEF FirstInv
  <1>10. ASSUME NEW t \in Workers,
                ReadDigests(t) \/ OpenDigests(t) \/ WriteDigests(t) \/ SaveFails(t)
         PROVE  FirstInv'
    <2>1. /\ UNCHANGED <<phase, accounts, keys, user, copy, usersFile>> /\ pc[t] # "register"
          /\ \E p \in {"done", "open digests", "write digests"} : pc' = [pc EXCEPT ![t] = p]
      BY <1>10 DEF ReadDigests, OpenDigests, WriteDigests, SaveFails
    <2>2. /\ \A w \in Workers : pc'[w] \in {"open", "write"} => pc[w] \in {"open", "write"}
          /\ (pc'[Main] = "register" <=> pc[Main] = "register")
      BY <1>0, <2>1 DEF StoreInv
    <2> QED  BY <1>9, <2>1, <2>2
  <1>11. ASSUME NEW t \in Threads, Answer(t) PROVE FirstInv'
    <2>1. /\ UNCHANGED <<phase, accounts, keys, user, copy, usersFile>> /\ pc[t] = "done"
          /\ pc' = [pc EXCEPT ![t] = "idle"]
      BY <1>11 DEF Answer
    <2>2. /\ \A w \in Workers : pc'[w] \in {"open", "write"} => pc[w] \in {"open", "write"}
          /\ (pc'[Main] = "register" <=> pc[Main] = "register")
      BY <1>0, <2>1 DEF StoreInv
    <2> QED  BY <1>9, <2>1, <2>2
  <1>12. CASE Crash
    <2>1. /\ phase' = "down" /\ usersFile' = usersFile
          /\ \A w \in Workers : pc'[w] = "idle"
      BY <1>12 DEF Crash
    <2> QED  BY <2>1 DEF FirstInv
  <1> QED
    BY <1>1, <1>2, <1>3, <1>4, <1>5, <1>6, <1>7, <1>8, <1>10, <1>11, <1>12, <1>0
    DEF Next, Save

(* Whenever the server takes logins, its first demo user has an account    *)
(* and every account has a key, whatever deaths, failing saves and garbled *)
(* files went before (__init__, _setup_demo_users).                        *)
THEOREM FirstUserAlwaysServed == Spec => []FirstUserServed
  <1>1. StoreInv /\ FirstInv /\ [Next]_vars => FirstInv'
    <2>1. ASSUME FirstInv, UNCHANGED vars PROVE FirstInv'
      BY <2>1 DEF FirstInv, vars
    <2> QED  BY <2>1, StepFirst
  <1>2. FirstInv => FirstUserServed
    BY DEF FirstInv, FirstUserServed, First
  <1> QED  BY <1>1, <1>2, InitFirst, StoreInvariant, PTL DEF Spec
-----------------------------------------------------------------------------
(* What a quiet server has on disk.  While no save has failed and no two   *)
(* have overlapped, at most one worker is on its way from a login or a     *)
(* registration to the end of its save; how far it is says what users.json *)
(* holds, whatever an earlier life has left there.  The digest can be      *)
(* followed in the same way only in the first life: a kill between the two *)
(* writes of a digest leaves a file that no later save repairs.            *)

Current(f) == f.state = "whole" /\ f.of = accounts

Digests == {"read digests", "open digests", "write digests", "done"}

(* Worker t is the one at work. *)
Working(t) ==
    /\ pc[t] # "idle" /\ \A w \in Workers \ {t} : pc[w] = "idle"
    /\ pc[t] = "copy" =>
          \A u \in DOMAIN copy[t] : u \in DOMAIN accounts /\ copy[t][u] = accounts[u]
    /\ pc[t] \in {"open", "write", "read digests", "open digests", "write digests"} =>
          copy[t] = accounts
    /\ pc[t] = "write" => usersFile.state = "empty"
    /\ pc[t] \in Digests => Current(usersFile)
    /\ life = 1 => /\ pc[t] # "write digests" => integrity.state # "empty"
                   /\ pc[t] = "done" => Current(integrity)

(* Nobody is. *)
Saved ==
    /\ phase = "serving" /\ \A t \in Workers : pc[t] = "idle"
    /\ Current(usersFile)
    /\ life = 1 => Current(integrity)

SavedInv ==
    /\ phase # "down" /\ ~disturbed => Saved \/ \E t \in Workers : Working(t)
    /\ life = 0 => phase = "down" /\ usersFile = Absent /\ integrity = Absent

LEMMA InitSaved == Init => SavedInv
  BY DEF Init, SavedInv

(* A worker that has left "idle" is the one at work. *)
LEMMA OneAtWork ==
    ASSUME SavedInv, phase # "down", ~disturbed, NEW t \in Workers, pc[t] # "idle"
    PROVE  Working(t)
  BY DEF SavedInv, Saved, Working

(* So it has only to be shown what its own step does to it. *)
LEMMA OneWorks ==
    ASSUME SavedInv, life' = life, disturbed' = disturbed, phase # "down",
           NEW t \in Workers, pc[t] # "idle", Working(t) => Working(t)'
    PROVE  SavedInv'
  <1>1. life' # 0
    BY DEF SavedInv
  <1>2. ~disturbed' => Working(t)'
    BY OneAtWork
  <1> QED  BY <1>1, <1>2 DEF SavedInv

(* Two sets of accounts on one domain. *)
LEMMA SameAccounts ==
    ASSUME NEW a, a \in Stores, NEW b, b \in Stores, DOMAIN a = DOMAIN b,
           \A u \in DOMAIN a : a[u] = b[u]
    PROVE  a = b
  BY StoreDomain

LEMMA StepSaved ==
    ASSUME StoreInv, SavedInv, Next
    PROVE  SavedInv'
  <1> USE DEF At, Goto, memory, local, disk, history
  <1>0. Main \in Workers /\ Threads \subseteq Workers /\ Main \notin Threads
    BY UserStoreAssumption DEF Workers
  <1>p. pc = [w \in Workers |-> pc[w]] /\ pc \in [Workers -> Places] /\ life \in Nat
    BY DEF StoreInv
  <1>1. CASE Boot
    <2>1. /\ life' = life + 1 /\ UNCHANGED <<usersFile, integrity>>
          /\ accounts' = LoadUsers(usersFile)
          /\ \A t \in Workers : pc[t] = "idle"
      BY <1>1 DEF Boot, StoreInv, Workers
    <2>2. life' # 0 /\ (life' = 1 => usersFile = Absent /\ integrity = Absent)
      BY <1>p, <2>1 DEF SavedInv
    <2>3. \/ phase' = "setup" /\ pc' = [pc EXCEPT ![Main] = "register"]
          \/ phase' = "serving" /\ pc' = pc /\ accounts' # NoAccounts
      BY <1>1 DEF Boot
    <2>4. CASE phase' = "setup" /\ pc' = [pc EXCEPT ![Main] = "register"]
      <3>1. pc'[Main] = "register" /\ \A w \in Workers \ {Main} : pc'[w] = "idle"
        BY <1>0, <1>p, <2>1, <2>4
      <3>2. life' = 1 => integrity'.state # "empty"
        BY <2>1, <2>2 DEF Absent
      <3>3. Working(Main)'
        BY <3>1, <3>2 DEF Working, Digests
      <3> QED  BY <1>0, <2>2, <3>3 DEF SavedInv
    <2>5. CASE phase' = "serving" /\ pc' = pc /\ accounts' # NoAccounts
      <3>1. usersFile.state = "whole" /\ usersFile.of = accounts'
        BY <2>1, <2>5 DEF LoadUsers
      <3>2. life' # 1
        BY <2>2, <3>1 DEF Absent
      <3>3. Saved'
        BY <2>1, <2>5, <3>1, <3>2 DEF Saved, Current
      <3> QED  BY <2>2, <3>3 DEF SavedInv
    <2> QED  BY <2>3, <2>4, <2>5
  <1>2. CASE Register
    <2>1. /\ copy' = [copy EXCEPT ![Main] = NoAccounts] /\ pc' = [pc EXCEPT ![Main] = "copy"]
          /\ UNCHANGED <<phase, usersFile, integrity, life, disturbed>>
          /\ pc[Main] = "register" /\ phase # "down"
      BY <1>2 DEF Register
    <2>2. /\ pc'[Main] = "copy" /\ \A w \in Workers \ {Main} : pc'[w] = pc[w]
          /\ DOMAIN copy'[Main] = {}
      BY <1>0, <1>p, <2>1, EmptyStore DEF StoreInv
    <2>3. Working(Main) => Working(Main)'
      BY <2>1, <2>2 DEF Working, Digests
    <2> QED  BY <1>0, <2>1, <2>3, OneWorks
  <1>3. CASE Registered
    <2>1. /\ UNCHANGED <<accounts, copy, usersFile, integrity, life, disturbed>>
          /\ pc[Main] = "done" /\ phase # "down"
      BY <1>3 DEF Registered
    <2>2. CASE phase' = "serving" /\ pc' = [pc EXCEPT ![Main] = "idle"]
      <3>1. ASSUME ~disturbed PROVE Saved'
        <4>1. Working(Main)
          BY <1>0, <2>1, <3>1, OneAtWork
        <4>2. \A w \in Workers : pc'[w] = "idle"
          BY <1>0, <1>p, <2>2, <4>1 DEF Working
        <4> QED  BY <2>1, <2>2, <4>1, <4>2 DEF Working, Saved, Digests, Current
      <3> QED  BY <2>1, <3>1 DEF SavedInv
    <2>3. CASE phase' = phase /\ pc' = [pc EXCEPT ![Main] = "register"]
      <3>1. pc'[Main] = "register" /\ \A w \in Workers \ {Main} : pc'[w] = pc[w]
        BY <1>0, <1>p, <2>3
      <3>2. Working(Main) => Working(Main)'
        BY <2>1, <3>1 DEF Working, Digests
      <3> QED  BY <1>0, <2>1, <2>3, <3>2, OneWorks
    <2> QED  BY <1>3, <2>2, <2>3 DEF Registered
  <1>4. ASSUME NEW t \in Threads, NEW u \in Users, Login(t, u) PROVE SavedInv'
    <2>1. /\ UNCHANGED <<phase, accounts, copy, usersFile, integrity, life>>
          /\ phase = "serving" /\ pc[t] = "idle" /\ pc' = [pc EXCEPT ![t] = "count"]
          /\ disturbed' = (disturbed \/ \E w \in Threads : pc[w] # "idle")
      BY <1>4 DEF Login
    <2>2. life' # 0
      BY <2>1 DEF SavedInv
    <2>3. ASSUME ~disturbed' PROVE Working(t)'
      <3>1. ~disturbed /\ \A w \in Workers : pc[w] = "idle"
        BY <2>1, <2>3 DEF StoreInv, Workers
      <3>2. Saved
        BY <2>1, <3>1 DEF SavedInv, Working
      <3>3. pc'[t] = "count" /\ \A w \in Workers \ {t} : pc'[w] = "idle"
        BY <1>0, <1>p, <2>1, <3>1
      <3>4. life' = 1 => integrity'.state # "empty"
        BY <2>1, <3>2 DEF Saved, Current
      <3> QED  BY <3>3, <3>4 DEF Working, Digests
    <2> QED  BY <1>0, <2>2, <2>3 DEF SavedInv
  <1>5. ASSUME NEW t \in Threads, CountLogin(t) PROVE SavedInv'
    <2>1. /\ copy' = [copy EXCEPT ![t] = NoAccounts] /\ pc' = [pc EXCEPT ![t] = "copy"]
          /\ UNCHANGED <<phase, usersFile, integrity, life, disturbed>>
          /\ pc[t] = "count" /\ phase # "down"
      BY <1>5 DEF CountLogin
    <2>2. /\ pc'[t] = "copy" /\ \A w \in Workers \ {t} : pc'[w] = pc[w]
          /\ DOMAIN copy'[t] = {}
      BY <1>0, <1>p, <2>1, EmptyStore DEF StoreInv
    <2>3. Working(t) => Working(t)'
      BY <2>1, <2>2 DEF Working, Digests
    <2> QED  BY <1>0, <2>1, <2>3, OneWorks
  <1>6. ASSUME NEW t \in Workers, CopyAccount(t) PROVE SavedInv'
    <2>1. PICK v \in DOMAIN accounts \ DOMAIN copy[t] :
             copy' = [copy EXCEPT ![t] = Put(copy[t], v, accounts[v])]
      BY <1>6 DEF CopyAccount
    <2>2. /\ UNCHANGED <<phase, accounts, usersFile, integrity, life, disturbed>>
          /\ pc[t] = "copy" /\ phase # "down"
          /\ pc' = [pc EXCEPT ![t] = IF DOMAIN copy'[t] = DOMAIN accounts THEN "open" ELSE "copy"]
      BY <1>6 DEF CopyAccount
    <2>3. /\ pc'[t] = IF DOMAIN copy'[t] = DOMAIN accounts THEN "open" ELSE "copy"
          /\ \A w \in Workers \ {t} : pc'[w] = pc[w]
      BY <1>p, <2>2
    <2>4. copy'[t] \in Stores /\ copy'[t] = Put(copy[t], v, accounts[v])
      <3>1. copy'[t] = Put(copy[t], v, accounts[v])
        BY <2>1 DEF StoreInv
      <3>2. v \in Users /\ accounts[v] \in Account /\ copy[t] \in Stores
        BY <2>1, StoredCount DEF StoreInv
      <3>3. Put(copy[t], v, accounts[v]) \in Stores
        BY <3>2, PutStore
      <3> QED  BY <3>1, <3>3
    <2>5. ASSUME Working(t) PROVE Working(t)'
      <3>1. \A u \in DOMAIN copy'[t] : u \in DOMAIN accounts /\ copy'[t][u] = accounts[u]
        BY <2>1, <2>2, <2>4, <2>5 DEF Working, Put
      <3>2. pc'[t] = "open" => copy'[t] = accounts
        BY <2>3, <2>4, <3>1, SameAccounts DEF StoreInv
      <3>3. pc'[t] \in {"open", "copy"}
        BY <2>3
      <3> QED  BY <2>2, <2>3, <2>5, <3>1, <3>2, <3>3 DEF Working, Digests
    <2>6. CASE DOMAIN copy'[t] = DOMAIN accounts
      <3>1. pc' = [pc EXCEPT ![t] = "open"]
        BY <2>2, <2>6
      <3> QED  BY <2>2, <2>5, <3>1, OneWorks
    <2>7. CASE DOMAIN copy'[t] # DOMAIN accounts
      <3>1. pc' = [pc EXCEPT ![t] = "copy"]
        BY <2>2, <2>7
      <3> QED  BY <2>2, <2>5, <3>1, OneWorks
    <2> QED  BY <2>6, <2>7
  <1>7. ASSUME NEW t \in Workers, OpenUsers(t) PROVE SavedInv'
    <2>1. /\ UNCHANGED <<phase, accounts, copy, integrity, life, disturbed>>
          /\ usersFile' = Empty /\ pc[t] = "open" /\ phase # "down"
          /\ pc' = [pc EXCEPT ![t] = "write"]
      BY <1>7 DEF OpenUsers
    <2>2. pc'[t] = "write" /\ \A w \in Workers \ {t} : pc'[w] = pc[w]
      BY <1>p, <2>1
    <2>3. Working(t) => Working(t)'
      BY <2>1, <2>2 DEF Working, Digests, Empty
    <2> QED  BY <2>1, <2>3, OneWorks
  <1>8. ASSUME NEW t \in Workers, WriteUsers(t) PROVE SavedInv'
    <2>1. /\ UNCHANGED <<phase, accounts, copy, integrity, life, disturbed>>
          /\ usersFile' = Overwritten(usersFile, copy[t]) /\ pc[t] = "write" /\ phase # "down"
          /\ pc' = [pc EXCEPT ![t] = "read digests"]
      BY <1>8 DEF WriteUsers
    <2>2. pc'[t] = "read digests" /\ \A w \in Workers \ {t} : pc'[w] = pc[w]
      BY <1>p, <2>1
    <2>3. ASSUME Working(t) PROVE Working(t)'
      <3>1. usersFile.state = "empty" /\ copy[t] = accounts
        BY <2>1, <2>3 DEF Working
      <3>2. usersFile'.state = "whole" /\ usersFile'.of = accounts
        BY <2>1, <3>1 DEF Overwritten, Whole
      <3> QED  BY <2>1, <2>2, <2>3, <3>1, <3>2 DEF Working, Digests, Current
    <2> QED  BY <2>1, <2>3, OneWorks
  <1>9. ASSUME NEW t \in Workers, ReadDigests(t) PROVE SavedInv'
    <2>1. /\ UNCHANGED <<phase, accounts, copy, usersFile, integrity, life, disturbed>>
          /\ pc[t] = "read digests" /\ phase # "down"
          /\ pc' = [pc EXCEPT ![t] = IF integrity.state = "empty" THEN "done" ELSE "open digests"]
      BY <1>9 DEF ReadDigests
    <2>2. \A w \in Workers \ {t} : pc'[w] = pc[w]
      BY <1>p, <2>1
    <2>3. CASE integrity.state = "empty"
      <3>1. pc'[t] = "done" /\ pc' = [pc EXCEPT ![t] = "done"]
        BY <1>p, <2>1, <2>3
      <3>2. Working(t) => Working(t)'
        BY <2>1, <2>2, <2>3, <3>1 DEF Working, Digests, Current
      <3> QED  BY <2>1, <3>1, <3>2, OneWorks
    <2>4. CASE integrity.state # "empty"
      <3>1. pc'[t] = "open digests" /\ pc' = [pc EXCEPT ![t] = "open digests"]
        BY <1>p, <2>1, <2>4
      <3>2. Working(t) => Working(t)'
        BY <2>1, <2>2, <2>4, <3>1 DEF Working, Digests, Current
      <3> QED  BY <2>1, <3>1, <3>2, OneWorks
    <2> QED  BY <2>3, <2>4
  <1>10. ASSUME NEW t \in Workers, OpenDigests(t) PROVE SavedInv'
    <2>1. /\ UNCHANGED <<phase, accounts, copy, usersFile, life, disturbed>>
          /\ pc[t] = "open digests" /\ phase # "down"
          /\ pc' = [pc EXCEPT ![t] = "write digests"]
      BY <1>10 DEF OpenDigests
    <2>2. pc'[t] = "write digests" /\ \A w \in Workers \ {t} : pc'[w] = pc[w]
      BY <1>p, <2>1
    <2>3. Working(t) => Working(t)'
      BY <2>1, <2>2 DEF Working, Digests, Current
    <2> QED  BY <2>1, <2>3, OneWorks
  <1>11. ASSUME NEW t \in Workers, WriteDigests(t) PROVE SavedInv'
    <2>1. /\ UNCHANGED <<phase, accounts, copy, usersFile, life, disturbed>>
          /\ integrity' = Whole(copy[t]) /\ pc[t] = "write digests" /\ phase # "down"
          /\ pc' = [pc EXCEPT ![t] = "done"]
      BY <1>11 DEF WriteDigests
    <2>2. pc'[t] = "done" /\ \A w \in Workers \ {t} : pc'[w] = pc[w]
      BY <1>p, <2>1
    <2>3. integrity'.state = "whole" /\ integrity'.of = copy[t]
      BY <2>1 DEF Whole
    <2>4. Working(t) => Working(t)'
      BY <2>1, <2>2, <2>3 DEF Working, Digests, Current
    <2> QED  BY <2>1, <2>4, OneWorks
  <1>12. ASSUME NEW t \in Workers, SaveFails(t) PROVE SavedInv'
    <2>1. disturbed' /\ life' = life /\ phase # "down"
      BY <1>12 DEF SaveFails
    <2> QED  BY <2>1 DEF SavedInv
  <1>13. ASSUME NEW t \in Threads, Answer(t) PROVE SavedInv'
    <2>1. /\ UNCHANGED <<phase, accounts, copy, usersFile, integrity, life, disturbed>>
          /\ pc[t] = "done" /\ phase # "down" /\ pc' = [pc EXCEPT ![t] = "idle"]
      BY <1>13 DEF Answer
    <2>2. ASSUME ~disturbed PROVE Saved'
      <3>1. Working(t)
        BY <1>0, <2>1, <2>2, OneAtWork
      <3>2. \A w \in Workers : pc'[w] = "idle"
        BY <1>0, <1>p, <2>1, <3>1 DEF Working
      <3>3. phase = "serving"
        BY <2>1 DEF StoreInv
      <3> QED  BY <2>1, <3>1, <3>2, <3>3 DEF Working, Saved, Digests, Current
    <2> QED  BY <2>1, <2>2 DEF SavedInv
  <1>14. CASE Crash
    <2>1. phase' = "down" /\ life' = life /\ phase # "down"
      BY <1>14 DEF Crash
    <2> QED  BY <2>1 DEF SavedInv
  <1> QED
    BY <1>1, <1>2, <1>3, <1>4, <1>5, <1>6, <1>7, <1>8, <1>9, <1>10, <1>11, <1>12,
       <1>13, <1>14, <1>0
    DEF Next, Save

LEMMA SavedInvariant == Spec => []SavedInv
  <1>1. StoreInv /\ SavedInv /\ [Next]_vars => SavedInv'
    <2>1. ASSUME SavedInv, UNCHANGED vars PROVE SavedInv'
      BY <2>1 DEF SavedInv, Saved, Working, Current, vars
    <2> QED  BY <2>1, StepSaved
  <1> QED  BY <1>1, InitSaved, StoreInvariant, PTL DEF Spec

(* A server that is quiet could be killed without loss: a restart would    *)
(* load the accounts it has, however many demo users and threads there     *)
(* are, and whatever deaths cut off the saves of earlier lives, as long as *)
(* in this life no save failed and no two overlapped (login's save,        *)
(* save_users, load_users).                                                *)
THEOREM QuietServerIsSaved == Spec => []QuietServerSaved
  <1>1. SavedInv => QuietServerSaved
    <2> SUFFICES ASSUME SavedInv, Quiet, ~disturbed PROVE LoadUsers(usersFile) = accounts
      BY DEF QuietServerSaved
    <2>1. Saved
      BY DEF SavedInv, Working, Quiet
    <2> QED  BY <2>1 DEF Saved, Current, LoadUsers
  <1> QED  BY <1>1, SavedInvariant, PTL

(* And until the first death the digest is that of the file, so that its   *)
(* verification succeeds (_save_integrity_hash, verify_file_integrity).    *)
THEOREM DigestIsCurrent == Spec => []DigestCurrentUntilCrash
  <1>1. SavedInv => DigestCurrentUntilCrash
    <2> SUFFICES ASSUME SavedInv, Quiet, ~disturbed, life = 1
                 PROVE  Verified(usersFile, integrity)
      BY DEF DigestCurrentUntilCrash
    <2>1. Saved
      BY DEF SavedInv, Working, Quiet
    <2> QED  BY <2>1 DEF Saved, Current, Verified
  <1> QED  BY <1>1, SavedInvariant, PTL
=============================================================================
