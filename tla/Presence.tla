------------------------------ MODULE Presence ------------------------------
(***************************************************************************)
(* Who is online, according to the server: the maps clients and sessions   *)
(* of MessageServer and the threads that serve one connection each         *)
(* (_handle_client in server_research.py).  A user may hold several        *)
(* connections, and a client that has gone may be back on a new one before *)
(* the thread of the old one has noticed.                                  *)
(*                                                                         *)
(* A connection stands for its socket and for the session id its client    *)
(* drew.  Its client talks in secure mode, or in basic mode when the       *)
(* handshake failed; the server takes LOGIN either way, but only a LOGIN   *)
(* in clear sets the username of the thread.  Each access to the maps is   *)
(* one block under self.lock, hence one action.                            *)
(***************************************************************************)
EXTENDS Naturals

CONSTANTS Users, Conns,
          Secure,   \* whether there are clients in secure mode
          Basic     \* whether there are clients in basic mode

NoUser == "nobody"     \* None
NoEntry == "no entry"  \* the key is not in the map
NoConn == "no connection"

ASSUME PresenceAssumption ==
    /\ Secure \in BOOLEAN /\ Basic \in BOOLEAN
    /\ {NoUser, NoEntry} \cap Users = {} /\ NoConn \notin Conns

VARIABLES
    conn,      \* [Conns -> what the client has done with the connection]
    mode,      \* [Conns -> the client's mode, "none" before the handshake]
    spc,       \* [Conns -> where the server thread is]
    sid,       \* connections whose thread has a session_id
    username,  \* [Conns -> the thread's local username]
    destroyed, \* connections whose protocol session was destroyed
    clients,   \* [Users -> Conns], self.clients
    sessions,  \* [Conns -> Users, NoUser or NoEntry], self.sessions
    logins,    \* history: [Conns -> users logged in on it]
    newest     \* history: [Users -> connection of the user's latest login]

vars == <<conn, mode, spc, sid, username, destroyed, clients, sessions, logins, newest>>

Init ==
    /\ conn = [c \in Conns |-> "unused"] /\ mode = [c \in Conns |-> "none"]
    /\ spc = [c \in Conns |-> "none"]
    /\ sid = {} /\ destroyed = {}
    /\ username = [c \in Conns |-> NoUser]
    /\ clients = [u \in Users |-> NoConn]
    /\ sessions = [c \in Conns |-> NoEntry]
    /\ logins = [c \in Conns |-> {}]
    /\ newest = [u \in Users |-> NoConn]

(* A client connects and start() spawns its thread. *)
Accept(c) ==
    /\ conn[c] = "unused"
    /\ conn' = [conn EXCEPT ![c] = "open"]
    /\ spc' = [spc EXCEPT ![c] = "serving"]
    /\ UNCHANGED <<mode, sid, username, destroyed, clients, sessions, logins, newest>>

(* HANDSHAKE_INIT.  In basic mode the client missed the answer, or the     *)
(* server never read the request.                                          *)
Handshake(c) ==
    /\ conn[c] = "open" /\ spc[c] = "serving" /\ mode[c] = "none"
    /\ \/ /\ Secure
          /\ mode' = [mode EXCEPT ![c] = "secure"]
          /\ sid' = sid \cup {c}
       \/ /\ Basic
          /\ mode' = [mode EXCEPT ![c] = "basic"]
          /\ sid' \in {sid, sid \cup {c}}
    /\ sessions' = [sessions EXCEPT ![c] = IF c \in sid' THEN NoUser ELSE @]
    /\ UNCHANGED <<conn, spc, username, destroyed, clients, logins, newest>>

(* A variant of Login that remembers the name in secure mode as well. *)
LoginRemembered(c, u) ==
    /\ conn[c] # "unused" /\ spc[c] = "serving" /\ mode[c] # "none"
    /\ clients' = [clients EXCEPT ![u] = c]
    /\ sessions' = IF c \in sid THEN [sessions EXCEPT ![c] = u] ELSE sessions
    /\ username' = [username EXCEPT ![c] = u]
    /\ logins' = [logins EXCEPT ![c] = @ \cup {u}]
    /\ newest' = [newest EXCEPT ![u] = c]
    /\ UNCHANGED <<conn, mode, spc, sid, destroyed>>

(* A LOGIN with the right password.  The request may still be under way    *)
(* when the client has closed, and a client whose answer got lost may log  *)
(* in again, under the same name or another.                               *)
Login(c, u) ==
    /\ conn[c] # "unused" /\ spc[c] = "serving" /\ mode[c] # "none"
    /\ clients' = [clients EXCEPT ![u] = c]
    /\ sessions' = IF c \in sid THEN [sessions EXCEPT ![c] = u] ELSE sessions
    /\ username' = IF mode[c] = "basic" THEN [username EXCEPT ![c] = u] ELSE username
    /\ logins' = [logins EXCEPT ![c] = @ \cup {u}]
    /\ newest' = [newest EXCEPT ![u] = c]
    /\ UNCHANGED <<conn, mode, spc, sid, destroyed>>

(* The client closes its socket, whatever it was doing. *)
Leave(c) ==
    /\ conn[c] = "open"
    /\ conn' = [conn EXCEPT ![c] = "closed"]
    /\ UNCHANGED <<mode, spc, sid, username, destroyed, clients, sessions, logins, newest>>

(* LOGOUT in clear, or recv reports the close: the loop ends.  LOGOUT in   *)
(* secure mode is an unknown command and changes nothing.                  *)
EndOfLoop(c) ==
    /\ spc[c] = "serving"
    /\ conn[c] = "closed" \/ (conn[c] = "open" /\ mode[c] = "basic" /\ logins[c] # {})
    /\ spc' = [spc EXCEPT ![c] = "destroy"]
    /\ UNCHANGED <<conn, mode, sid, username, destroyed, clients, sessions, logins, newest>>

(* A variant of DestroySession that does not ask for a session_id. *)
DestroyAnySession(c) ==
    /\ spc[c] = "destroy"
    /\ destroyed' = destroyed \cup {c}
    /\ spc' = [spc EXCEPT ![c] = IF username[c] # NoUser THEN "unregister" ELSE "done"]
    /\ UNCHANGED <<conn, mode, sid, username, clients, sessions, logins, newest>>

(* finally, first part. *)
DestroySession(c) ==
    /\ spc[c] = "destroy"
    /\ destroyed' = destroyed \cup (sid \cap {c})
    /\ spc' = [spc EXCEPT ![c] = IF username[c] # NoUser THEN "unregister" ELSE "done"]
    /\ UNCHANGED <<conn, mode, sid, username, clients, sessions, logins, newest>>

(* Variants of Unregister: one forgets the map of clients, one the other.  *)
UnregisterSession(c) ==
    /\ spc[c] = "unregister"
    /\ sessions' = IF c \in sid THEN [sessions EXCEPT ![c] = NoEntry] ELSE sessions
    /\ spc' = [spc EXCEPT ![c] = "done"]
    /\ UNCHANGED <<conn, mode, sid, username, destroyed, clients, logins, newest>>

UnregisterClient(c) ==
    /\ spc[c] = "unregister"
    /\ clients' = [clients EXCEPT ![username[c]] = NoConn]
    /\ spc' = [spc EXCEPT ![c] = "done"]
    /\ UNCHANGED <<conn, mode, sid, username, destroyed, sessions, logins, newest>>

(* finally, second part: the entry of the user goes, whosever it is. *)
Unregister(c) ==
    /\ spc[c] = "unregister"
    /\ clients' = [clients EXCEPT ![username[c]] = NoConn]
    /\ sessions' = IF c \in sid THEN [sessions EXCEPT ![c] = NoEntry] ELSE sessions
    /\ spc' = [spc EXCEPT ![c] = "done"]
    /\ UNCHANGED <<conn, mode, sid, username, destroyed, logins, newest>>

Thread(c) == EndOfLoop(c) \/ DestroySession(c) \/ Unregister(c)

Next == \E c \in Conns :
    \/ Accept(c) \/ Handshake(c) \/ (\E u \in Users : Login(c, u)) \/ Leave(c)
    \/ Thread(c)

Spec == Init /\ [][Next]_vars

(* A server thread that can go on does: recv returns once the peer closed. *)
FairSpec == Spec /\ \A c \in Conns : WF_vars(Thread(c))

-----------------------------------------------------------------------------
(* Properties.                                                             *)

(* Every variable keeps its type, and only sessions that were established  *)
(* are destroyed (the finally clause of _handle_client).                   *)
TypeOK ==
    /\ conn \in [Conns -> {"unused", "open", "closed"}]
    /\ mode \in [Conns -> {"none", "secure", "basic"}]
    /\ spc \in [Conns -> {"none", "serving", "destroy", "unregister", "done"}]
    /\ sid \subseteq Conns /\ destroyed \subseteq sid
    /\ username \in [Conns -> Users \cup {NoUser}]
    /\ clients \in [Users -> Conns \cup {NoConn}]
    /\ sessions \in [Conns -> Users \cup {NoUser, NoEntry}]
    /\ logins \in [Conns -> SUBSET Users]
    /\ newest \in [Users -> Conns \cup {NoConn}]

(* A thread that served user u in basic mode has cleaned up. *)
CleanedUp(u) ==
    \E c \in Conns : mode[c] = "basic" /\ username[c] = u /\ spc[c] = "done"

(* The server reaches a user on the connection of the latest login or not  *)
(* at all, however many older connections of the user are being cleaned    *)
(* up, and loses the user only to a thread that knew the name, from a      *)
(* LOGIN in clear (_handle_login against the finally clause of             *)
(* _handle_client, which deletes the entry whosever connection it holds).  *)
LatestLoginReachable ==
    \A u \in Users : \/ clients[u] = newest[u]
                     \/ clients[u] = NoConn /\ CleanedUp(u)

(* The map of sessions never names a user who did not log in there, and    *)
(* what it keeps of a finished connection, for ever, is of one that never  *)
(* logged in in clear (_handle_handshake and _handle_login against the     *)
(* finally clause of _handle_client).                                      *)
LeftoverSessions ==
    \A c \in Conns : sessions[c] # NoEntry =>
        /\ sessions[c] \in logins[c] \cup {NoUser}
        /\ spc[c] = "done" => username[c] = NoUser /\ c \in destroyed

(* Who logged in in clear and has left is not kept online by the old       *)
(* connection: in the end the entry is gone or is a newer one.             *)
BasicUserGoesOffline ==
    \A c \in Conns, u \in Users :
        (conn[c] = "closed" /\ username[c] = u) ~> (clients[u] # c \/ username[c] # u)

-----------------------------------------------------------------------------
(* What the repository says of itself and the code does not do.            *)

(* client_research.py:280, "offline" for a user who is not in clients: who *)
(* is being served on the latest connection is not listed so.              *)
ServedUserOnline ==
    \A u \in Users :
        newest[u] # NoConn /\ spc[newest[u]] = "serving" => clients[u] # NoConn

(* client_research.py:280, "* online" for a user in clients: who has left  *)
(* does not stay online for ever.                                          *)
UserGoesOffline ==
    \A c \in Conns, u \in Users :
        (conn[c] = "closed" /\ u \in logins[c]) ~> (clients[u] # c)
=============================================================================
