--------------------------- MODULE SecureChannel ---------------------------
(***************************************************************************)
(* One client connected to its server thread over one TCP connection: the  *)
(* DH handshake, AEAD-protected commands, plain commands, automatic and    *)
(* manual key rotation, notifications pushed by other server threads,      *)
(* the client's receive timeout, a keyboard interrupt and the disconnect.  *)
(*                                                                         *)
(* The client (client_research.py) is one sequential program: cpc says     *)
(* where it is.  The server thread (_handle_client) only blocks in recv,   *)
(* so one action is one turn of its loop.  recv returns whatever has       *)
(* arrived, at most 32768 bytes of it: n >= 1 whole frames, which          *)
(* json.loads reads only if n = 1, or a piece of one that was cut.         *)
(***************************************************************************)
EXTENDS SecureSession, Sequences, FiniteSets

CONSTANTS
    Faults,          \* which disturbances may happen, see FaultKinds
    MaxFrames,       \* bound: no new command once this many frames were sent
    MaxNotes,        \* bound: notifications pushed to this client
    MaxTimeouts,     \* bound: times the client's 15 s receive timeout fires
    MaxLong,         \* bound: pieces, after its first, of frames cut by a receive
    RecursionLimit   \* nested _send_secure_command calls before Python gives up

FaultKinds == {"notification", "timeout", "age", "interrupt", "long"}

ASSUME ChannelAssumption ==
    /\ Faults \subseteq FaultKinds
    /\ {MaxFrames, MaxNotes, MaxTimeouts, MaxLong, RecursionLimit} \subseteq Nat

VARIABLES
    sess,       \* [Party -> Session], the SecureSession of each end
    live,       \* parties whose SecureProtocol.sessions holds the session
    secure,     \* [Party -> BOOLEAN], secure_mode of each end
    c2s, s2c,   \* frames sent and not yet received, per direction
    cpc,        \* where the client program is
    cmd,        \* the command the client is working on
    resend,     \* the rotation in progress was started by _send_secure_command
    depth,      \* nesting of _send_secure_command
    loggedIn,   \* self.username is set
    left,       \* handlers of an interrupt that would still call disconnect
    spc,        \* "serving" until the server thread reaches its finally clause
    rid,        \* number of frames the client has sent; names the last one
    notes, timeouts, longs,  \* counters of disturbances
    sealed,     \* history: every AEAD encryption, in order
    served,     \* history: ids of the command frames the server carried out
    last,       \* history: the last command that returned, and its answer
    rotation    \* history: how the last rotation ended at the client

clientVars == <<cpc, cmd, resend, depth, loggedIn, left, rid, last, rotation>>
boundVars  == <<notes, timeouts, longs>>
vars == <<sess, live, secure, c2s, s2c, clientVars, spc, boundVars, sealed, served>>

ClientFrames == {"HANDSHAKE_INIT", "SECURE_MESSAGE", "KEY_ROTATION", "PLAIN", "LOGOUT",
                 "PIECE"}
ServerFrames == {"HANDSHAKE_RESPONSE", "SECURE_MESSAGE", "KEY_ROTATION", "PLAIN",
                 "KEY_ROTATION_REQUIRED", "ERROR", "NEW_MESSAGE", "PIECE"}
Commands == {"NONE", "LOGIN", "REQUEST", "VIEW", "LOGOUT"}
Waiting  == {"handshake", "await", "rotating"}

(* rid: the frame this is, or answers; key: sealed under; pub: public key. *)
Frame(types) == [type : types, rid : Nat, key : SessionKey, pub : Nat]
Message(t, r, k, q) == [type |-> t, rid |-> r, key |-> k, pub |-> q]

(* What a receive that yields no JSON object is turned into by the client. *)
NoAnswer == Message("ERROR", 0, NoKey, 0)

Seals(p) == [by |-> p, key |-> sess[p].key, nonce |-> sess[p].counter + 1]

-----------------------------------------------------------------------------
Init ==
    /\ sess = [p \in Party |-> Destroy(NewSession)]   \* none yet
    /\ live = {}
    /\ secure = [p \in Party |-> FALSE]
    /\ c2s = <<>> /\ s2c = <<>>
    /\ cpc = "start" /\ cmd = "NONE" /\ resend = FALSE /\ depth = 0
    /\ loggedIn = FALSE
    /\ left = 2   \* the except clause of run, the finally clause of main
    /\ spc = "serving"
    /\ rid = 0 /\ notes = 0 /\ timeouts = 0 /\ longs = 0
    /\ sealed = <<>> /\ served = <<>>
    /\ last = [req |-> 0, re |-> 0]
    /\ rotation = "none"

-----------------------------------------------------------------------------
(* Client: sending.                                                        *)

Transmit(t, k, q) ==
    /\ rid' = rid + 1
    /\ c2s' = Append(c2s, Message(t, rid + 1, k, q))

(* connect and _establish_secure_session up to the receive. *)
Connect ==
    /\ cpc = "start"
    /\ sess' = [sess EXCEPT !["client"] = NewSession]
    /\ live' = live \cup {"client"}
    /\ Transmit("HANDSHAKE_INIT", NoKey, NewSession.eph)
    /\ cpc' = "handshake"
    /\ UNCHANGED <<secure, s2c, cmd, resend, depth, loggedIn, left, spc, boundVars,
                   sealed, served, last, rotation>>

AfterSending(c) == IF c = "LOGOUT" THEN "closing" ELSE "await"

SendPlain(c) ==
    /\ Transmit(IF c = "LOGOUT" THEN "LOGOUT" ELSE "PLAIN", NoKey, 0)
    /\ cpc' = AfterSending(c)
    /\ UNCHANGED <<sess, sealed, rotation, resend>>

(* _rotate_keys up to the receive. *)
StartRotation(again) ==
    /\ sess' = [sess EXCEPT !["client"] = RotateKey(@)]
    /\ Transmit("KEY_ROTATION", NoKey, RotateKey(sess["client"]).eph)
    /\ cpc' = "rotating"
    /\ resend' = again
    /\ UNCHANGED <<sealed, rotation>>

SealAndSend(c) ==
    /\ sess' = [sess EXCEPT !["client"] = EncryptMessage(@)]
    /\ sealed' = Append(sealed, Seals("client"))
    /\ Transmit("SECURE_MESSAGE", sess["client"].key, 0)
    /\ cpc' = AfterSending(c)
    /\ UNCHANGED <<rotation, resend>>

(* One call of _send_secure_command (or of _send_request when c is one of  *)
(* the commands sent in clear).                                            *)
SendCommand(c) ==
    /\ cmd' = c
    /\ \/ /\ c = "VIEW" \/ ~secure["client"]
          /\ SendPlain(c)
       \/ /\ c # "VIEW" /\ secure["client"]
          /\ IF NeedsRotation(sess["client"]) THEN StartRotation(TRUE)
                                              ELSE SealAndSend(c)

(* A menu entry: login, any command about messages or users, or one of the *)
(* two blockchain views, which always go in clear.                         *)
BeginCommand(c) ==
    /\ cpc = "idle" /\ rid < MaxFrames
    /\ c \in IF loggedIn THEN {"REQUEST", "VIEW"} ELSE {"LOGIN"}
    /\ depth' = 0
    /\ SendCommand(c)
    /\ UNCHANGED <<live, secure, s2c, loggedIn, left, spc, boundVars, served, last>>

(* Menu entry 5. *)
RotateManually ==
    /\ cpc = "idle" /\ rid < MaxFrames /\ loggedIn
    /\ StartRotation(FALSE)
    /\ UNCHANGED <<live, secure, s2c, cmd, depth, loggedIn, left, spc, boundVars,
                   served, last>>

(* A variant of Resend with an off-by-one at the limit. *)
ResendPastLimit ==
    /\ cpc = "resend" /\ depth <= RecursionLimit
    /\ depth' = depth + 1
    /\ SendCommand(cmd)
    /\ UNCHANGED <<live, secure, s2c, loggedIn, left, spc, boundVars, served, last>>

(* After an automatic rotation, successful or not, _send_secure_command    *)
(* calls itself; at the recursion limit the call returns False.            *)
Resend ==
    /\ cpc = "resend" /\ depth < RecursionLimit
    /\ depth' = depth + 1
    /\ SendCommand(cmd)
    /\ UNCHANGED <<live, secure, s2c, loggedIn, left, spc, boundVars, served, last>>

(* If that call begins one more rotation, the error is swallowed in        *)
(* _rotate_keys before anything is sent; it can leave the pair destroyed,  *)
(* which the next command, due for rotation as well, replaces.             *)
GiveUpResending ==
    /\ cpc = "resend" /\ depth >= RecursionLimit
    /\ cpc' = IF cmd = "LOGOUT" THEN "closing" ELSE "idle"
    /\ last' = [req |-> rid, re |-> 0]
    /\ rotation' = IF NeedsRotation(sess["client"]) THEN "failed" ELSE rotation
    /\ UNCHANGED <<sess, live, secure, c2s, s2c, cmd, resend, depth, loggedIn,
                   left, spc, rid, boundVars, sealed, served>>

(* disconnect up to the point where LOGOUT has been sent. *)
Leave ==
    /\ depth' = 0
    /\ IF loggedIn
         THEN SendCommand("LOGOUT")
         ELSE /\ cpc' = "closing"
              /\ UNCHANGED <<sess, c2s, cmd, resend, rid, sealed, rotation>>
    /\ UNCHANGED <<live, secure, s2c, loggedIn, spc, boundVars, served, last>>

(* Menu entries 7 and 8. *)
Disconnect ==
    /\ cpc = "idle"
    /\ Leave
    /\ UNCHANGED left

(* Ctrl-C at the prompt or in a blocking receive, that of the rotation     *)
(* before a LOGOUT included: the except clause of run disconnects, and if  *)
(* that is interrupted in its turn the finally clause of main.             *)
Interrupt ==
    /\ "interrupt" \in Faults
    /\ cpc = "idle" \/ cpc \in Waiting
    /\ left > 0
    /\ left' = left - 1
    /\ Leave

(* Ctrl-C with no handler left: the process ends, its socket is closed.    *)
InterruptEnds ==
    /\ "interrupt" \in Faults
    /\ cpc \in Waiting /\ left = 0
    /\ sess' = [sess EXCEPT !["client"] = Gone(@)]
    /\ live' = live \ {"client"}
    /\ cpc' = "closed"
    /\ UNCHANGED <<secure, c2s, s2c, cmd, resend, depth, loggedIn, left, spc, rid,
                   boundVars, sealed, served, last, rotation>>

(* The rest of disconnect: destroy_session, then close the socket. *)
Close ==
    /\ cpc = "closing"
    /\ sess' = [sess EXCEPT !["client"] = Destroy(@)]
    /\ live' = live \ {"client"}
    /\ cpc' = "closed"
    /\ UNCHANGED <<secure, c2s, s2c, cmd, resend, depth, loggedIn, left, spc, rid,
                   boundVars, sealed, served, last, rotation>>

-----------------------------------------------------------------------------
(* Client: receiving.  m is the frame read, or NoAnswer.                   *)

(* The end of _establish_secure_session. *)
HandshakeAnswer(m) ==
    /\ cpc = "handshake"
    /\ IF m.type = "HANDSHAKE_RESPONSE"
         THEN /\ sess' = [sess EXCEPT !["client"] =
                              CompleteKeyExchange("client", @, m.pub)]
              /\ secure' = [secure EXCEPT !["client"] = TRUE]
         ELSE UNCHANGED <<sess, secure>>
    /\ cpc' = "idle"
    /\ UNCHANGED <<loggedIn, last, rotation>>

(* The end of _rotate_keys. *)
RotationAnswer(m) ==
    /\ cpc = "rotating"
    /\ IF m.type = "KEY_ROTATION"
         THEN /\ sess' = [sess EXCEPT !["client"] =
                              CompleteKeyExchange("client", @, m.pub)]
              /\ rotation' = "ok"
         ELSE /\ rotation' = "failed"
              /\ UNCHANGED sess
    /\ cpc' = IF resend THEN "resend" ELSE "idle"
    /\ UNCHANGED <<secure, loggedIn, last>>

(* Whether the caller of the receive sees status "success": an answer in   *)
(* clear is taken as it is, a sealed one if it was awaited and decrypts.   *)
Accepts(m) ==
    \/ m.type = "PLAIN"
    \/ /\ m.type = "SECURE_MESSAGE"
       /\ cmd # "VIEW" /\ secure["client"]
       /\ Decrypts(sess["client"], m.key)

(* The end of login, send_message, view_messages, view_blockchain, ... *)
CommandAnswer(m) ==
    /\ cpc = "await"
    /\ last' = [req |-> rid, re |-> IF Accepts(m) THEN m.rid ELSE 0]
    /\ loggedIn' = (loggedIn \/ (cmd = "LOGIN" /\ Accepts(m)))
    /\ cpc' = "idle"
    /\ UNCHANGED <<sess, secure, rotation>>

Answered(m) == HandshakeAnswer(m) \/ RotationAnswer(m) \/ CommandAnswer(m)

Drop(n, s) == SubSeq(s, n + 1, Len(s))

(* _receive_response: a notification that arrives alone is shown and the   *)
(* client waits on; anything that is not one JSON object is an error.      *)
ClientReceive ==
    /\ cpc \in Waiting
    /\ \E n \in 1..Len(s2c) :
         /\ s2c' = Drop(n, s2c)
         /\ IF n = 1 /\ s2c[1].type = "NEW_MESSAGE"
              THEN UNCHANGED <<sess, secure, cpc, loggedIn, last, rotation>>
              ELSE Answered(IF n = 1 THEN s2c[1] ELSE NoAnswer)
    /\ UNCHANGED <<live, c2s, cmd, resend, depth, left, spc, rid, boundVars,
                   sealed, served>>

ClientTimeout ==
    /\ "timeout" \in Faults /\ timeouts < MaxTimeouts
    /\ cpc \in Waiting
    /\ timeouts' = timeouts + 1
    /\ Answered(NoAnswer)
    /\ UNCHANGED <<live, c2s, s2c, cmd, resend, depth, left, spc, rid, notes, longs,
                   sealed, served>>

-----------------------------------------------------------------------------
(* Server thread.  Each handler answers the frame m it was given.          *)

Reply(t, m, k, q) ==
    /\ s2c' = Append(s2c, Message(t, m.rid, k, q))
    /\ UNCHANGED longs

(* _send_response of an answer too long for one recv(32768) of the client. *)
(* It is read in as many pieces as it takes, or in fewer, down to one, if  *)
(* send, which is not sendall, has not written all of it.  A client asks   *)
(* for messages or blocks once it is logged in.                            *)
ReplyInPieces(m) ==
    /\ "long" \in Faults /\ loggedIn
    /\ \E n \in 1..(1 + MaxLong - longs) :
          /\ longs' = longs + n - 1
          /\ s2c' = s2c \o [i \in 1..n |-> Message("PIECE", m.rid, NoKey, 0)]

(* A variant: without its "continue" the turn goes on to Unknown command. *)
HandshakeFallingThrough(m) ==
    LET s == CompleteKeyExchange("server", NewSession, m.pub) IN
    /\ m.type = "HANDSHAKE_INIT"
    /\ sess' = [sess EXCEPT !["server"] = s]
    /\ live' = live \cup {"server"}
    /\ secure' = [secure EXCEPT !["server"] = TRUE]
    /\ s2c' = s2c \o <<Message("HANDSHAKE_RESPONSE", m.rid, NoKey, s.eph),
                       Message("ERROR", m.rid, NoKey, 0)>>
    /\ UNCHANGED <<spc, longs, sealed, served>>

Handshake(m) ==
    LET s == CompleteKeyExchange("server", NewSession, m.pub) IN
    /\ m.type = "HANDSHAKE_INIT"
    /\ sess' = [sess EXCEPT !["server"] = s]
    /\ live' = live \cup {"server"}
    /\ secure' = [secure EXCEPT !["server"] = TRUE]
    /\ Reply("HANDSHAKE_RESPONSE", m, NoKey, s.eph)
    /\ UNCHANGED <<spc, sealed, served>>

(* A variant of SecureReply: nothing is sent when a rotation is due. *)
SecureReplyOrSilence(m) ==
    IF NeedsRotation(sess["server"])
      THEN UNCHANGED <<sess, sealed, s2c, longs>>
      ELSE /\ sess' = [sess EXCEPT !["server"] = EncryptMessage(@)]
           /\ sealed' = Append(sealed, Seals("server"))
           /\ Reply("SECURE_MESSAGE", m, sess["server"].key, 0) \/ ReplyInPieces(m)

(* The answer to a command is sealed unless this end's own session is due  *)
(* for rotation: the command has been carried out all the same.            *)
SecureReply(m) ==
    IF NeedsRotation(sess["server"])
      THEN /\ Reply("KEY_ROTATION_REQUIRED", m, NoKey, 0)
           /\ UNCHANGED <<sess, sealed>>
      ELSE /\ sess' = [sess EXCEPT !["server"] = EncryptMessage(@)]
           /\ sealed' = Append(sealed, Seals("server"))
           /\ Reply("SECURE_MESSAGE", m, sess["server"].key, 0) \/ ReplyInPieces(m)

HandleSecureMessage(m) ==
    /\ m.type = "SECURE_MESSAGE" /\ secure["server"]
    /\ IF "server" \in live /\ Decrypts(sess["server"], m.key)
         THEN /\ served' = Append(served, m.rid)
              /\ SecureReply(m)
         ELSE /\ Reply("ERROR", m, NoKey, 0)
              /\ UNCHANGED <<sess, sealed, served>>
    /\ UNCHANGED <<live, secure, spc>>

(* Variants of RotatedBy: in the wrong order, and with the count kept. *)
CompletedThenRotated(s, theirs) == RotateKey(CompleteKeyExchange("server", s, theirs))
RotatedKeepingCount(s, theirs) ==
    CompleteKeyExchange("server", RotateKeyKeepingCount(s), theirs)

(* The session after _handle_key_rotation: rotate, then complete. *)
RotatedBy(s, theirs) == CompleteKeyExchange("server", RotateKey(s), theirs)

HandleKeyRotation(m) ==
    LET s == RotatedBy(sess["server"], m.pub) IN
    /\ m.type = "KEY_ROTATION" /\ secure["server"]
    /\ sess' = [sess EXCEPT !["server"] = s]
    /\ Reply("KEY_ROTATION", m, NoKey, s.eph)
    /\ UNCHANGED <<live, secure, spc, sealed, served>>

HandlePlain(m) ==
    /\ m.type = "PLAIN"
    /\ served' = Append(served, m.rid)
    /\ Reply("PLAIN", m, NoKey, 0) \/ ReplyInPieces(m)
    /\ UNCHANGED <<sess, live, secure, spc, sealed>>

(* A variant of Reject: what cannot be read is skipped. *)
RejectSilently(m) ==
    /\ \/ m.type \in {"ERROR", "PIECE"}
       \/ m.type \in {"SECURE_MESSAGE", "KEY_ROTATION"} /\ ~secure["server"]
    /\ UNCHANGED <<s2c, longs, sess, live, secure, spc, sealed, served>>

(* A frame that no branch of the loop knows, or bytes that are not JSON. *)
Reject(m) ==
    /\ \/ m.type \in {"ERROR", "PIECE"}
       \/ m.type \in {"SECURE_MESSAGE", "KEY_ROTATION"} /\ ~secure["server"]
    /\ Reply("ERROR", m, NoKey, 0)
    /\ UNCHANGED <<sess, live, secure, spc, sealed, served>>

(* The finally clause of _handle_client. *)
Cleanup ==
    /\ spc' = "done"
    /\ sess' = IF "server" \in live
                 THEN [sess EXCEPT !["server"] = Destroy(@)] ELSE sess
    /\ live' = live \ {"server"}

HandleLogout(m) ==
    /\ m.type = "LOGOUT"
    /\ Reply("PLAIN", m, NoKey, 0)
    /\ Cleanup
    /\ UNCHANGED <<secure, sealed, served>>

Handle(m) ==
    \/ Handshake(m) \/ HandleSecureMessage(m) \/ HandleKeyRotation(m)
    \/ HandlePlain(m) \/ HandleLogout(m) \/ Reject(m)

ServerReceive ==
    /\ spc = "serving"
    /\ \E n \in 1..Len(c2s) :
         /\ c2s' = Drop(n, c2s)
         /\ Handle(IF n = 1 THEN c2s[1]
                            ELSE Message("ERROR", c2s[n].rid, NoKey, 0))
    /\ UNCHANGED <<clientVars, notes, timeouts>>

(* recv returns a piece of the nth frame together with the frames before   *)
(* it, which is not JSON, and neither is the rest of that frame.           *)
ServerReceivePart ==
    /\ spc = "serving" /\ "long" \in Faults /\ longs < MaxLong
    /\ longs' = longs + 1
    /\ \E n \in 1..Len(c2s) :
         /\ c2s' = [Drop(n - 1, c2s) EXCEPT ![1].type = "PIECE"]
         /\ s2c' = Append(s2c, Message("ERROR", c2s[n].rid, NoKey, 0))
    /\ UNCHANGED <<sess, live, secure, clientVars, spc, notes, timeouts, sealed, served>>

(* A variant of ServerSeesClose: a reset connection is not cleaned up. *)
ServerSeesOrderlyClose ==
    /\ spc = "serving" /\ cpc = "closed"
    /\ c2s = <<>> /\ s2c = <<>>
    /\ Cleanup
    /\ UNCHANGED <<secure, c2s, s2c, clientVars, boundVars, sealed, served>>

(* The client has closed: recv returns b'', or raises if unread data made  *)
(* the client's kernel reset the connection, what was in flight being lost.*)
ServerSeesClose ==
    /\ spc = "serving" /\ cpc = "closed"
    /\ c2s = <<>> \/ s2c # <<>>
    /\ Cleanup
    /\ UNCHANGED <<secure, c2s, s2c, clientVars, boundVars, sealed, served>>

(* Another thread delivers a message addressed to this user, who is in     *)
(* self.clients once a LOGIN has been carried out.                         *)
Notify ==
    /\ "notification" \in Faults /\ notes < MaxNotes
    /\ served # <<>> /\ spc = "serving" /\ cpc # "closed"
    /\ notes' = notes + 1
    /\ s2c' = Append(s2c, Message("NEW_MESSAGE", 0, NoKey, 0))
    /\ UNCHANGED <<sess, live, secure, c2s, clientVars, spc, timeouts, longs,
                   sealed, served>>

(* A session becomes an hour old; the client's was created first. *)
Age(p) ==
    /\ "age" \in Faults
    /\ p \in live /\ ~sess[p].aged
    /\ p = "server" => sess["client"].aged
    /\ sess' = [sess EXCEPT ![p].aged = TRUE]
    /\ UNCHANGED <<live, secure, c2s, s2c, clientVars, spc, boundVars, sealed, served>>

-----------------------------------------------------------------------------
ClientStep == Connect \/ ClientReceive \/ Resend \/ GiveUpResending \/ Close
UserStep   == (\E c \in Commands : BeginCommand(c)) \/ RotateManually \/ Disconnect
ServerStep == ServerReceive \/ ServerReceivePart \/ ServerSeesClose
Disturb    == \/ Notify \/ ClientTimeout \/ Interrupt \/ InterruptEnds
              \/ \E p \in Party : Age(p)

Next == ClientStep \/ UserStep \/ ServerStep \/ Disturb

Spec == Init /\ [][Next]_vars

(* A thread that can run does: the client never stops between two blocking *)
(* calls, the server thread keeps reading.  The user owes nothing.         *)
Fairness == WF_vars(ClientStep) /\ WF_vars(ServerStep)

FairSpec == Spec /\ Fairness

-----------------------------------------------------------------------------
(* Properties.                                                             *)

Client == sess["client"]
Server == sess["server"]

(* No receive has ended before its answer: what ends one early is the      *)
(* timeout, two notifications that one recv returns together, a second     *)
(* piece of a frame, or an interrupt, which begins the disconnect.         *)
InStep ==
    /\ timeouts = 0 /\ notes < 2 /\ longs = 0
    /\ cmd = "LOGOUT" => "interrupt" \notin Faults

(* Every variable keeps its type, and the recursion of                     *)
(* _send_secure_command stays within the interpreter's limit.              *)
TypeOK ==
    /\ sess \in [Party -> Session]
    /\ live \in SUBSET Party
    /\ secure \in [Party -> BOOLEAN]
    /\ c2s \in Seq(Frame(ClientFrames)) /\ s2c \in Seq(Frame(ServerFrames))
    /\ cpc \in Waiting \cup {"start", "idle", "resend", "closing", "closed"}
    /\ cmd \in Commands /\ resend \in BOOLEAN /\ loggedIn \in BOOLEAN
    /\ left \in 0..2
    /\ depth \in 0..RecursionLimit
    /\ spc \in {"serving", "done"}
    /\ rid \in Nat /\ notes \in 0..MaxNotes
    /\ timeouts \in 0..MaxTimeouts /\ longs \in 0..MaxLong
    /\ sealed \in Seq([by : Party, key : SessionKey, nonce : Nat])
    /\ served \in Seq(Nat)
    /\ last \in [req : Nat, re : Nat]
    /\ rotation \in {"none", "ok", "failed"}

(* No end ever seals two messages with one key and one nonce, through any  *)
(* number of rotations, failed rotations, timeouts and interrupts          *)
(* (encrypt_message, "Unique nonce per message").                          *)
NonceUnique ==
    \A i, j \in DOMAIN sealed :
        /\ i # j
        /\ sealed[i].by = sealed[j].by
        /\ sealed[i].key = sealed[j].key
        => sealed[i].nonce # sealed[j].nonce

(* The answer the client takes for a command is the answer to a command it *)
(* really sent, and lags behind by at most one per receive that timed out, *)
(* one per two notifications (two of them read at once end a receive whose *)
(* answer is still to come) and one per piece, after the first, that an    *)
(* answer or a request was cut into (each ends one receive of the client   *)
(* or is answered by the server); never ahead, whatever rotations, lost    *)
(* answers, rejected frames and interrupts came in between.                *)
LagBounded ==
    last.re # 0 =>
        /\ last.re <= last.req
        /\ last.req - last.re <= timeouts + notes \div 2 + longs

(* While nothing has shifted the answers, the two ends hold the same       *)
(* session key outside a rotation, unless the client has seen its last     *)
(* rotation fail (_rotate_keys against _handle_key_rotation).              *)
KeysAgree ==
    /\ cpc \in {"idle", "await", "resend"}
    /\ secure["client"] /\ live = Party
    /\ InStep /\ rotation # "failed"
    => Client.key = Server.key

(* The messages that p has sealed under key k, by their places in sealed.  *)
Uses(p, k) == {i \in DOMAIN sealed : sealed[i].by = p /\ sealed[i].key = k}

(* No key protects more than max_messages_before_rotation messages of one  *)
(* end, as long as every receive has ended with its own answer; of the     *)
(* client's messages this is so while nothing was pushed to it, as a       *)
(* notification read together with the answer to a rotation makes it keep  *)
(* its key and count from zero (needs_rotation and _rotate_keys against    *)
(* _handle_key_rotation).                                                  *)
KeyUsageBound ==
    InStep =>
        \A p \in Party, k \in {sealed[i].key : i \in DOMAIN sealed} :
            p = "server" \/ notes = 0 => Cardinality(Uses(p, k)) <= MaxMessages

(* While client and server are in step the message limit is noticed by the *)
(* client, which rotates and sends again, never by the server, which would *)
(* carry the command out and withhold its answer (send_secure_message,     *)
(* called by both ends).                                                   *)
ServerNeverAtLimit ==
    InStep =>
        \A i \in DOMAIN s2c : s2c[i].type = "KEY_ROTATION_REQUIRED" => Server.aged

(* A client that waits never waits for nothing: the frame it wrote is on   *)
(* its way to a server thread that will read it, or something that is no   *)
(* notification is on its way back, although frames are read together and  *)
(* rejected as one, receives are cut short, and shown notifications make   *)
(* it wait on (_receive_response against the loop of _handle_client).      *)
NoWaitInVain ==
    cpc \in Waiting =>
        \/ spc = "serving" /\ c2s # <<>>
        \/ \E i \in DOMAIN s2c : s2c[i].type # "NEW_MESSAGE"

(* Every blocking receive of the client ends without its timeout having to *)
(* fire: whatever frame the server gets, it answers (_handle_client).      *)
EveryWaitEnds == (cpc \in Waiting) ~> (cpc \notin Waiting)

(* Once the client has closed the connection, orderly or by its end, both  *)
(* ends have destroyed their session, whatever was still in flight: it is  *)
(* in no table, its pair zeroed and SecureSession.session_key overwritten  *)
(* (disconnect, the finally clause of _handle_client, destroy_session).    *)
SessionsDestroyed ==
    (cpc = "closed") ~>
        (live = {} /\ \A p \in Party : sess[p].eph = 0 /\ sess[p].key = NoKey)

-----------------------------------------------------------------------------
(* What the repository says of itself and the code does not do.            *)

(* core/aead.py:53, "Unique nonce (must never repeat with same key!)", of  *)
(* the key both ends share.                                                *)
NonceNeverRepeats ==
    \A i, j \in DOMAIN sealed :
        i # j /\ sealed[i].key = sealed[j].key => sealed[i].nonce # sealed[j].nonce

(* core/postquantum.py:44, "Destroy ephemeral keys (forward secrecy).      *)
(* After this, past sessions cannot be decrypted.", of a session that was  *)
(* destroyed: no object of it holds its key any more.                      *)
KeysDestroyed ==
    \A p \in Party : p \notin live => sess[p].key = NoKey /\ sess[p].copy = NoKey
=============================================================================
