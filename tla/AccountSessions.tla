--------------------------- MODULE AccountSessions ---------------------------
(***************************************************************************)
(* Who is logged in, according to UserAuthentication.active_sessions       *)
(* (core/authentication.py), with the SecureSessionManager of              *)
(* core/security_utils.py that is put in front of it.                      *)
(*                                                                         *)
(* A login makes two entries, one under a session id and one under the     *)
(* username; logout takes either and deletes one.  active_sessions is a    *)
(* dict, so it is the sequence of its keys in the order of insertion.  The *)
(* session id is a hash of the username and the clock, which may not have  *)
(* moved since the last login, cut to 16 characters; the manager's id is a *)
(* random one of 64.  A key is written as what it was made from: by their  *)
(* lengths the two kinds of id never meet, and different hashes are taken  *)
(* to differ, also from the users' names.                                  *)
(***************************************************************************)
EXTENDS Naturals, Sequences, SequencesExt

CONSTANTS
    Users,    \* the registered users
    MaxTime,  \* bound: readings of the clock
    MaxMade   \* bound: sessions the manager has made

ASSUME AccountSessionsAssumption == MaxTime \in Nat /\ MaxMade \in Nat

VARIABLES
    active,   \* the keys of active_sessions, oldest first
    managed,  \* the keys of SecureSessionManager.session_data
    clock,    \* the last reading of the clock
    made,     \* sessions the manager has made; numbers the last one
    answer    \* history: the last logout's argument and answer, or NoAnswer

vars == <<active, managed, clock, made, answer>>

(* Keys of the two maps; the entry under a key is of the key's user. *)
Name(u)         == [kind |-> "name", user |-> u, n |-> 0]
SessionId(u, t) == [kind |-> "session", user |-> u, n |-> t]
Managed(u, i)   == [kind |-> "managed", user |-> u, n |-> i]

Keys == {Name(u) : u \in Users}
        \cup {SessionId(u, t) : u \in Users, t \in 0..MaxTime}
        \cup {Managed(u, i) : u \in Users, i \in 1..MaxMade}

NoAnswer == [ok |-> TRUE]

Init ==
    /\ active = <<>> /\ managed = {}
    /\ clock = 0 /\ made = 0
    /\ answer = NoAnswer

(* A variant of Put that forgets that a key may be there. *)
PutAgain(s, k) == Append(s, k)

(* Assignment to a dict: a key that is there keeps its place. *)
Put(s, k) == IF Contains(s, k) THEN s ELSE Append(s, k)

Login(u) ==
    /\ \E t \in clock..MaxTime :
          /\ clock' = t
          /\ active' = Put(Put(active, SessionId(u, t)), Name(u))
    /\ answer' = NoAnswer
    /\ UNCHANGED <<managed, made>>

(* Places in active_sessions. *)
Under(key) == {i \in DOMAIN active : active[i] = key}
OfUser(u) == {i \in DOMAIN active : active[i].user = u}

(* A variant of Candidates without the search by username. *)
CandidatesByKey(arg) == Under(arg)

(* The entries logout may delete: that under the argument, or if there is  *)
(* none and the argument is a username, those of that user.                *)
Candidates(arg) ==
    IF Under(arg) # {} THEN Under(arg)
    ELSE IF arg.kind = "name" THEN OfUser(arg.user)
    ELSE {}

(* A variant of EndEntry without the return in the loop. *)
EndEntries(arg) ==
    /\ active' = SelectSeq(active, LAMBDA k : \A i \in Candidates(arg) : active[i] # k)
    /\ answer' = [arg |-> arg, ok |-> Candidates(arg) # {}]

(* logout: the oldest candidate is deleted; "Invalid session" if none. *)
EndEntry(arg) ==
    /\ \/ Candidates(arg) = {} /\ UNCHANGED active
       \/ \E i \in Candidates(arg) :
             /\ \A j \in Candidates(arg) : i <= j
             /\ active' = RemoveAt(active, i)
    /\ answer' = [arg |-> arg, ok |-> Candidates(arg) # {}]

Logout(arg) == EndEntry(arg) /\ UNCHANGED <<managed, clock, made>>

CreateSecureSession(u) ==
    /\ made < MaxMade
    /\ made' = made + 1
    /\ managed' = managed \cup {Managed(u, made + 1)}
    /\ UNCHANGED <<active, clock, answer>>

(* end_session hands the id on to logout whether it knows it or not. *)
EndSession(id) ==
    /\ managed' = managed \ {id}
    /\ EndEntry(id)
    /\ UNCHANGED <<clock, made>>

Next ==
    \/ \E u \in Users : Login(u) \/ CreateSecureSession(u)
    \/ \E k \in Keys : Logout(k) \/ EndSession(k)

Spec == Init /\ [][Next]_vars

-----------------------------------------------------------------------------
(* Properties.                                                             *)

(* Every variable keeps its type, and no key is in a map twice. *)
TypeOK ==
    /\ active \in Seq(Keys)
    /\ \A i, j \in DOMAIN active : active[i] = active[j] => i = j
    /\ managed \in SUBSET Keys
    /\ clock \in 0..MaxTime /\ made \in 0..MaxMade
    /\ answer = NoAnswer \/ answer \in [arg : Keys, ok : BOOLEAN]

(* A logout is refused only if it would have had nothing to end: by id, if *)
(* that id is not active; by name, if not one session of that user is,     *)
(* however many logins and logouts there were (logout).                    *)
RefusedOnlyWhenGone ==
    ~answer.ok =>
        /\ Under(answer.arg) = {}
        /\ answer.arg.kind = "name" => OfUser(answer.arg.user) = {}

(* A logout that ends anything ends one entry, of the user it names, and   *)
(* nobody else's: the user's other entries stay, also the other one of the *)
(* same login (logout, is_session_active).  It counts entries: two logins  *)
(* within one reading of the clock share theirs, and end together.         *)
LogoutEndsOne ==
    [][Len(active') # Len(active) /\ answer' # NoAnswer =>
          \E i \in DOMAIN active :
              /\ active' = RemoveAt(active, i)
              /\ answer'.ok /\ answer'.arg.user = active[i].user
              /\ answer'.arg.kind # "name" => active[i] = answer'.arg]_vars

-----------------------------------------------------------------------------
(* What the repository says of itself and the code does not do.            *)

(* authentication.py:102, "Logout user and end session": after a logout    *)
(* that was answered as successful the user has no active session.         *)
LogoutEndsSessions ==
    answer # NoAnswer /\ answer.ok => OfUser(answer.arg.user) = {}

(* security_utils.py:198, "Create a secure session": what the manager has  *)
(* created for a user who is logged in, and has not ended, is valid, which *)
(* validate_session asks of active_sessions.                               *)
CreatedSessionsValid ==
    \A k \in managed : OfUser(k.user) # {} => Under(k) # {}
=============================================================================
