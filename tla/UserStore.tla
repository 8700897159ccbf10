------------------------------ MODULE UserStore ------------------------------
(***************************************************************************)
(* The accounts of the server: UserAuthentication (core/authentication.py) *)
(* over SecureStorage (core/storage.py), and what MessageServer.__init__   *)
(* makes of them at every start (server_research.py).                      *)
(*                                                                         *)
(* Each login counts itself and saves all accounts, in its client's        *)
(* thread and under no lock.  A save copies the accounts one by one,       *)
(* truncates users.json, writes it, then does the same with the digest in  *)
(* integrity.json.  Two threads that have both truncated the file write    *)
(* over each other from its first byte on, so a shorter text leaves the    *)
(* tail of a longer one behind.  A text is longer when a login count has   *)
(* more digits: Base is the base they are written in, 10 in the code.      *)
(*                                                                         *)
(* A login with a wrong name or password changes nothing and is left out.  *)
(* Of keys.json nothing is modelled but that it never exists: see Boot.    *)
(***************************************************************************)
EXTENDS Integers, Sequences, FiniteSetsExt

CONSTANTS
    Demo,         \* demo_users, in order
    Threads,      \* the server's client threads
    Base,         \* of the numerals in the saved text
    DiskFails,    \* whether open or write may raise
    MaxLogins,    \* bound: logins that succeed
    MaxCrashes    \* bound: deaths of the server

Main == "main"    \* the server's first thread

ASSUME UserStoreAssumption ==
    /\ Base \in Nat \ {0, 1} /\ DiskFails \in BOOLEAN
    /\ MaxLogins \in Nat /\ MaxCrashes \in Nat
    /\ Demo # <<>> /\ Main \notin Threads
    /\ Demo \in Seq({Demo[i] : i \in DOMAIN Demo})

Users == {Demo[i] : i \in DOMAIN Demo}
Workers == Threads \cup {Main}

VARIABLES
    phase,     \* of the server: "down", "setup" in _setup_demo_users, "serving"
    accounts,  \* self.users: a function on the registered users
    keys,      \* user_keys and the KDC: [registered users -> life the key is from]
    pc,        \* [Workers -> place in login, register_user and save_users]
    user,      \* [Workers -> whose account it is about]
    count,     \* [Workers -> login_count as read]
    copy,      \* [Workers -> storage_users]
    usersFile, \* users.json
    integrity, \* integrity.json
    life,      \* number of the server process, from 1
    logins,    \* history: [Users -> logins that succeeded]
    disturbed  \* history: in this life a save failed, or two overlapped

vars == <<phase, accounts, keys, pc, user, count, copy, usersFile, integrity,
          life, logins, disturbed>>
memory == <<accounts, keys>>
local == <<user, count, copy>>
disk == <<usersFile, integrity>>
history == <<life, logins, disturbed>>

(* Assignment to a key of a dict. *)
Put(f, u, value) == [v \in DOMAIN f \cup {u} |-> IF v = u THEN value ELSE f[v]]

NoAccounts == [u \in {} |-> 0]
NewAccount == [login_count |-> 0, created_at |-> life]

Digits(n) == CHOOSE d \in 1..(n + 1) : n < Base ^ d /\ (d = 1 \/ n >= Base ^ (d - 1))

(* The length of the saved text, up to what all texts have in common. *)
Length(a) == MapThenSumSet(LAMBDA u : Digits(a[u].login_count), DOMAIN a)

Absent == [state |-> "absent", of |-> NoAccounts, length |-> 0]
Empty  == [state |-> "empty", of |-> NoAccounts, length |-> 0]
Whole(a) == [state |-> "whole", of |-> a, length |-> Length(a)]

(* What is in file f once a text for a is written from its start: a text   *)
(* that another thread has written meanwhile stays behind where it is      *)
(* longer.                                                                 *)
Overwritten(f, a) ==
    IF f.state \in {"absent", "empty"} \/ f.length <= Length(a) THEN Whole(a)
    ELSE [state |-> "torn", of |-> NoAccounts, length |-> f.length]

(* load_users: anything but a whole file gives no accounts. *)
LoadUsers(f) == IF f.state = "whole" THEN f.of ELSE NoAccounts

(* verify_file_integrity("users"). *)
Verified(f, i) == f.state = "whole" /\ i.state = "whole" /\ f.of = i.of

-----------------------------------------------------------------------------
Init ==
    /\ phase = "down"
    /\ accounts = NoAccounts /\ keys = NoAccounts
    /\ pc = [t \in Workers |-> "idle"]
    /\ user = [t \in Workers |-> Demo[1]]
    /\ count = [t \in Workers |-> 0]
    /\ copy = [t \in Workers |-> NoAccounts]
    /\ usersFile = Absent /\ integrity = Absent
    /\ life = 0
    /\ logins = [u \in Users |-> 0]
    /\ disturbed = FALSE

At(t, place) == phase # "down" /\ pc[t] = place
Goto(t, place) == pc' = [pc EXCEPT ![t] = place]

(* Variants of Boot: one that trusts the presence of the file, one that    *)
(* makes keys for the demo users before it knows which exist.              *)
BootTrustingFile ==
    /\ phase = "down"
    /\ life' = life + 1 /\ disturbed' = FALSE
    /\ accounts' = LoadUsers(usersFile)
    /\ keys' = [u \in DOMAIN accounts' |-> life']
    /\ IF usersFile = Absent
         THEN phase' = "setup" /\ Goto(Main, "register")
         ELSE phase' = "serving" /\ UNCHANGED pc
    /\ UNCHANGED <<local, disk, logins>>
BootKeyingAll ==
    /\ phase = "down"
    /\ life' = life + 1 /\ disturbed' = FALSE
    /\ accounts' = LoadUsers(usersFile)
    /\ keys' = [u \in Users |-> life']
    /\ IF accounts' = NoAccounts
         THEN phase' = "setup" /\ Goto(Main, "register")
         ELSE phase' = "serving" /\ UNCHANGED pc
    /\ UNCHANGED <<local, disk, logins>>

(* __init__ up to _setup_demo_users.  There are no stored keys to rebuild  *)
(* from: save_user_keys encodes its argument before it opens the file, and *)
(* json.dumps raises on ElGamalKeyPair objects.  So every account that was *)
(* loaded gets a new key.                                                  *)
Boot ==
    /\ phase = "down"
    /\ life' = life + 1 /\ disturbed' = FALSE
    /\ accounts' = LoadUsers(usersFile)
    /\ keys' = [u \in DOMAIN accounts' |-> life']
    /\ IF accounts' = NoAccounts
         THEN phase' = "setup" /\ Goto(Main, "register")
         ELSE phase' = "serving" /\ UNCHANGED pc
    /\ UNCHANGED <<local, disk, logins>>

Missing == {i \in DOMAIN Demo : Demo[i] \notin DOMAIN accounts}

(* register_user, for the first demo user without an account, up to its    *)
(* save.                                                                   *)
Register ==
    /\ At(Main, "register")
    /\ \E i \in Missing :
          /\ \A j \in Missing : i <= j
          /\ user' = [user EXCEPT ![Main] = Demo[i]]
          /\ accounts' = Put(accounts, Demo[i], NewAccount)
    /\ copy' = [copy EXCEPT ![Main] = NoAccounts]
    /\ Goto(Main, "copy")
    /\ UNCHANGED <<phase, keys, count, disk, history>>

(* Registration returned: the user gets a key; the next one is registered. *)
Registered ==
    /\ At(Main, "done")
    /\ keys' = Put(keys, user[Main], life)
    /\ IF Missing = {}
         THEN phase' = "serving" /\ Goto(Main, "idle")
         ELSE UNCHANGED phase /\ Goto(Main, "register")
    /\ UNCHANGED <<accounts, local, disk, history>>

LoginsMade == MapThenSumSet(LAMBDA u : logins[u], Users)

(* login: the password is right; login_count += 1 reads ... *)
Login(t, u) ==
    /\ phase = "serving" /\ pc[t] = "idle"
    /\ u \in DOMAIN accounts
    /\ LoginsMade < MaxLogins
    /\ logins' = [logins EXCEPT ![u] = @ + 1]
    /\ user' = [user EXCEPT ![t] = u]
    /\ count' = [count EXCEPT ![t] = accounts[u].login_count]
    /\ Goto(t, "count")
    /\ disturbed' = (disturbed \/ \E w \in Threads : pc[w] # "idle")
    /\ UNCHANGED <<phase, memory, copy, disk, life>>

(* Variants of CountLogin: one adds to a count it has added to already,    *)
(* one does not save.                                                      *)
CountLoginTwice(t) ==
    /\ At(t, "count")
    /\ accounts' = [accounts EXCEPT ![user[t]].login_count = @ + count[t] + 1]
    /\ copy' = [copy EXCEPT ![t] = NoAccounts]
    /\ Goto(t, "copy")
    /\ UNCHANGED <<phase, keys, user, count, disk, history>>

CountLoginUnsaved(t) ==
    /\ At(t, "count")
    /\ accounts' = [accounts EXCEPT ![user[t]].login_count = count[t] + 1]
    /\ Goto(t, "done")
    /\ UNCHANGED <<phase, keys, local, disk, history>>

(* ... and writes. *)
CountLogin(t) ==
    /\ At(t, "count")
    /\ accounts' = [accounts EXCEPT ![user[t]].login_count = count[t] + 1]
    /\ copy' = [copy EXCEPT ![t] = NoAccounts]
    /\ Goto(t, "copy")
    /\ UNCHANGED <<phase, keys, user, count, disk, history>>

(* _save_users copies the accounts one at a time in dictionary order: that *)
(* of registration, or alphabetical once they were loaded; here any order. *)
CopyAccount(t) ==
    /\ At(t, "copy")
    /\ \E u \in DOMAIN accounts \ DOMAIN copy[t] :
          copy' = [copy EXCEPT ![t] = Put(@, u, accounts[u])]
    /\ Goto(t, IF DOMAIN copy'[t] = DOMAIN accounts THEN "open" ELSE "copy")
    /\ UNCHANGED <<phase, memory, user, count, disk, history>>

(* save_users: open(..., "w") ... *)
OpenUsers(t) ==
    /\ At(t, "open")
    /\ usersFile' = Empty
    /\ Goto(t, "write")
    /\ UNCHANGED <<phase, memory, local, integrity, history>>

(* A variant of WriteUsers that leaves the digest as it is. *)
WriteUsersAlone(t) ==
    /\ At(t, "write")
    /\ usersFile' = Overwritten(usersFile, copy[t])
    /\ Goto(t, "done")
    /\ UNCHANGED <<phase, memory, local, integrity, history>>

(* ... and the text reaches the file when it is closed. *)
WriteUsers(t) ==
    /\ At(t, "write")
    /\ usersFile' = Overwritten(usersFile, copy[t])
    /\ Goto(t, "read digests")
    /\ UNCHANGED <<phase, memory, local, integrity, history>>

(* _save_integrity_hash reads the digests there are; an empty file does    *)
(* not parse, and the error ends the save with a warning.                  *)
ReadDigests(t) ==
    /\ At(t, "read digests")
    /\ Goto(t, IF integrity.state = "empty" THEN "done" ELSE "open digests")
    /\ UNCHANGED <<phase, memory, local, disk, history>>

OpenDigests(t) ==
    /\ At(t, "open digests")
    /\ integrity' = Empty
    /\ Goto(t, "write digests")
    /\ UNCHANGED <<phase, memory, local, usersFile, history>>

(* Digest files all have one length: the last writer's stays. *)
WriteDigests(t) ==
    /\ At(t, "write digests")
    /\ integrity' = Whole(copy[t])
    /\ Goto(t, "done")
    /\ UNCHANGED <<phase, memory, local, usersFile, history>>

(* One of these calls raises; save_users and _save_integrity_hash catch it. *)
SaveFails(t) ==
    /\ DiskFails /\ phase # "down"
    /\ pc[t] \in {"open", "write", "read digests", "open digests", "write digests"}
    /\ disturbed' = TRUE
    /\ Goto(t, "done")
    /\ UNCHANGED <<phase, memory, local, disk, life, logins>>

Answer(t) ==
    /\ At(t, "done")
    /\ Goto(t, "idle")
    /\ UNCHANGED <<phase, memory, local, disk, history>>

(* A kill, or Ctrl-C, which waits for no client thread.  Boot replaces the *)
(* accounts and the keys; until then they keep their last values.          *)
Crash ==
    /\ phase # "down" /\ life <= MaxCrashes
    /\ phase' = "down"
    /\ pc' = [t \in Workers |-> "idle"]
    /\ UNCHANGED <<memory, local, disk, history>>

Save(t) ==
    \/ CopyAccount(t) \/ OpenUsers(t) \/ WriteUsers(t)
    \/ ReadDigests(t) \/ OpenDigests(t) \/ WriteDigests(t) \/ SaveFails(t)

Next ==
    \/ Boot \/ Register \/ Registered \/ Save(Main)
    \/ \E t \in Threads :
          (\E u \in Users : Login(t, u)) \/ CountLogin(t) \/ Save(t) \/ Answer(t)
    \/ Crash

Spec == Init /\ [][Next]_vars

-----------------------------------------------------------------------------
(* Properties.                                                             *)

(* Every variable keeps its type, client threads work only once the server *)
(* is set up, and keys belong to accounts.                                 *)
TypeOK ==
    /\ phase \in {"down", "setup", "serving"}
    /\ DOMAIN accounts \subseteq Users /\ DOMAIN keys \subseteq DOMAIN accounts
    /\ \A t \in Threads : phase # "serving" => pc[t] = "idle"
    /\ phase # "setup" => pc[Main] = "idle"
    /\ usersFile.state \in {"absent", "empty", "torn", "whole"}
    /\ integrity.state \in {"absent", "empty", "whole"}
    /\ \A a \in {accounts, usersFile.of, integrity.of} \cup {copy[t] : t \in Workers} :
          \A u \in DOMAIN a : u \in Users /\ a[u].login_count \in Nat

Quiet == phase = "serving" /\ \A t \in Workers : pc[t] = "idle"

(* Overlapping logins may lose counts, but none is made up: neither the    *)
(* accounts nor what a restart would load counts more logins of a user     *)
(* than there were (login, save_users, load_users).                        *)
CountsRealLogins ==
    \A a \in {accounts, LoadUsers(usersFile)} :
        \A u \in DOMAIN a : a[u].login_count <= logins[u]

(* Whenever the server takes logins, its first demo user can log in and    *)
(* every account has a key, whatever crashes, failed saves and overlapping *)
(* saves left in users.json (__init__ and _setup_demo_users).              *)
FirstUserServed ==
    phase = "serving" => Demo[1] \in DOMAIN accounts /\ DOMAIN keys = DOMAIN accounts

(* A quiet server could be killed without loss: a restart would load       *)
(* exactly the accounts it has, whatever crashes cut off the saves of      *)
(* earlier lives, if in this life no save failed and no two overlapped     *)
(* (login's save and load_users).                                          *)
QuietServerSaved == Quiet /\ ~disturbed => LoadUsers(usersFile) = accounts

(* Under the same conditions, and until the first crash, the digest is     *)
(* that of the file: each save brings it up to date, or creates it         *)
(* (_save_integrity_hash, verify_file_integrity).                          *)
DigestCurrentUntilCrash ==
    Quiet /\ ~disturbed /\ life = 1 => Verified(usersFile, integrity)

-----------------------------------------------------------------------------
(* What the repository says of itself and the code does not do.            *)

(* core/storage.py:77, "Users saved securely (XOR)": on a quiet server     *)
(* whose every save said so, the saved users can be loaded.                *)
SavedUsersReadable == Quiet => usersFile.state = "whole"

(* README.md:21, "protected by SHA-256 integrity hashes": on a quiet       *)
(* server without failed or overlapping saves, where a file of digests was *)
(* ever begun, it holds that of the users' file, also after a crash.       *)
SavedUsersProtected ==
    Quiet /\ ~disturbed /\ integrity # Absent => Verified(usersFile, integrity)

(* server_research.py:198, "Use hafsa/amna accounts", the answer to a      *)
(* registration: a server that takes logins has both accounts.             *)
BothUsersServed == phase = "serving" => DOMAIN accounts = Users
=============================================================================
