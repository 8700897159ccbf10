------------------------ MODULE SecureChannelProofs ------------------------
(***************************************************************************)
(* Proofs about SecureChannel, for every value of its constants: all types *)
(* are preserved, no end ever repeats a nonce under one key, how far the   *)
(* answers can lag behind, that no wait is in vain, and that the two ends  *)
(* agree while no answer lags.                                             *)
(***************************************************************************)
EXTENDS SecureChannel, SequenceTheorems, FiniteSetTheorems, TLAPS

(* Frame queue t is s with p answers to request q after it; u is c without *)
(* its first h frames.                                                     *)
Lengthened(t, s, p, q) ==
    /\ Len(t) = Len(s) + p /\ \A i \in 1..Len(s) : t[i] = s[i]
    /\ \A i \in 1..p : t[Len(s) + i].type # "NEW_MESSAGE" /\ t[Len(s) + i].rid = q

Shortened(u, c, h) ==
    Len(u) + h = Len(c) /\ \A j \in 1..Len(u) : u[j].rid = c[j + h].rid

(* Appending to a frame queue or to a history. *)
LEMMA AppendLemma ==
    ASSUME NEW S, NEW s \in Seq(S), NEW e \in S
    PROVE  /\ Append(s, e) \in Seq(S)
           /\ Len(Append(s, e)) = Len(s) + 1
           /\ DOMAIN Append(s, e) = 1..(Len(s) + 1)
           /\ \A i \in 1..Len(s) : Append(s, e)[i] = s[i]
           /\ Append(s, e)[Len(s) + 1] = e
  BY AppendProperties

(* What Drop leaves, frame by frame. *)
LEMMA DropIs ==
    ASSUME NEW S, NEW s \in Seq(S), NEW n \in 0..Len(s)
    PROVE  Drop(n, s) = [i \in 1..(Len(s) - n) |-> s[i + n]]
  <1>1. Len(s) \in Nat /\ n \in Nat /\ n <= Len(s)
    BY LenProperties
  <1>2. Drop(n, s) = [i \in 1..(1 + Len(s) - (n + 1)) |-> s[(n + 1) + i - 1]]
    BY <1>1, SMT DEF Drop
  <1> QED  BY <1>1, <1>2

(* Frames added to a frame queue at once. *)
LEMMA ConcatLemma ==
    ASSUME NEW S, NEW s \in Seq(S), NEW b \in Seq(S)
    PROVE  /\ Len(s \o b) = Len(s) + Len(b)
           /\ \A i \in 1..Len(s) : (s \o b)[i] = s[i]
           /\ \A i \in 1..Len(b) : (s \o b)[Len(s) + i] = b[i]
  <1>1. Len(s) \in Nat /\ Len(b) \in Nat
    BY LenProperties
  <1>2. \A i \in 1..Len(b) :
           /\ Len(s) + i \in 1..(Len(s) + Len(b)) /\ ~(Len(s) + i <= Len(s))
           /\ Len(s) + i - Len(s) = i
    BY <1>1
  <1>3. \A i \in 1..Len(s) : i \in 1..(Len(s) + Len(b)) /\ i <= Len(s)
    BY <1>1
  <1> QED  BY <1>2, <1>3, ConcatProperties

(* What is left of a frame queue after a receive. *)
LEMMA DropLemma ==
    ASSUME NEW S, NEW s \in Seq(S), NEW n \in 1..Len(s)
    PROVE  /\ Drop(n, s) \in Seq(S)
           /\ DOMAIN Drop(n, s) = 1..(Len(s) - n)
           /\ \A i \in 1..(Len(s) - n) : Drop(n, s)[i] = s[i + n]
  <1>1. /\ Len(s) \in Nat /\ n \in Nat /\ n >= 1 /\ n <= Len(s)
        /\ \A i \in 1..Len(s) : s[i] \in S
    BY ElementOfSeq, LenProperties
  <1>2. Drop(n, s) = [i \in 1..(Len(s) - n) |-> s[i + n]]
    BY <1>1, DropIs
  <1>3. \A i \in 1..(Len(s) - n) : s[i + n] \in S
    BY <1>1
  <1>4. Len(s) - n \in Nat
    BY <1>1
  <1>5. [i \in 1..(Len(s) - n) |-> s[i + n]] \in Seq(S)
    BY <1>3, <1>4, IsASeq
  <1> QED  BY <1>2, <1>5

(* The same of a receive that cuts the nth frame: its rest stays behind.   *)
LEMMA PartLemma ==
    ASSUME NEW S, NEW s \in Seq(Frame(S)), NEW n \in 1..Len(s), "PIECE" \in S,
           NEW u, u = [Drop(n - 1, s) EXCEPT ![1].type = "PIECE"]
    PROVE  /\ u \in Seq(Frame(S)) /\ Len(u) \in Nat /\ DOMAIN u = 1..Len(u)
           /\ Len(u) >= 1 /\ Shortened(u, s, n - 1) /\ u[1].type = "PIECE"
           /\ \A i \in 1..Len(u) :
                 /\ i + (n - 1) \in 1..Len(s)
                 /\ u[i].type \in {s[i + (n - 1)].type, "PIECE"}
                 /\ i # 1 => u[i] = s[i + (n - 1)]
  <1> DEFINE l == Len(s) - (n - 1)
             d == [i \in 1..l |-> s[i + (n - 1)]]
  <1>1. /\ Len(s) \in Nat /\ n \in Nat /\ n - 1 \in Nat /\ n <= Len(s)
        /\ l \in Nat /\ l >= 1 /\ l + (n - 1) = Len(s)
        /\ \A i \in 1..l : i + (n - 1) \in 1..Len(s)
    BY LenProperties
  <1>2. Drop(n - 1, s) = d
    <2>1. n - 1 \in 0..Len(s)
      BY <1>1
    <2> QED  BY <2>1, DropIs
  <1>3. \A i \in 1..l : d[i] = s[i + (n - 1)] /\ d[i] \in Frame(S)
    <2>1. \A j \in 1..Len(s) : s[j] \in Frame(S)
      BY ElementOfSeq
    <2>2. \A i \in 1..l : d[i] = s[i + (n - 1)]
      OBVIOUS
    <2> QED  BY <1>1, <2>1, <2>2
  <1> DEFINE e == [d[1] EXCEPT !.type = "PIECE"]
  <1> HIDE DEF l, d
  <1>4. 1 \in 1..l /\ d[1] \in Frame(S)
    BY <1>1, <1>3
  <1>5. e \in Frame(S) /\ e.type = "PIECE" /\ e.rid = d[1].rid
    <2> DEFINE x == d[1]
    <2>1. x \in [type : S, rid : Nat, key : SessionKey, pub : Nat]
      BY <1>4 DEF Frame
    <2> HIDE DEF x
    <2>2. /\ [x EXCEPT !.type = "PIECE"] \in [type : S, rid : Nat, key : SessionKey, pub : Nat]
          /\ [x EXCEPT !.type = "PIECE"].type = "PIECE"
          /\ [x EXCEPT !.type = "PIECE"].rid = x.rid
      BY <2>1
    <2> QED  BY <2>2 DEF x, Frame
  <1>6. u = [i \in 1..l |-> IF i = 1 THEN e ELSE d[i]]
    <2>1. u = [d EXCEPT ![1] = e]
      BY <1>2, Zenon
    <2> QED  BY <1>4, <2>1 DEF d
  <1> HIDE DEF e
  <1>7. \A i \in 1..l : u[i] = IF i = 1 THEN e ELSE d[i]
    BY <1>6
  <1>8. u \in Seq(Frame(S)) /\ Len(u) = l /\ DOMAIN u = 1..l
    <2>1. \A i \in 1..l : (IF i = 1 THEN e ELSE d[i]) \in Frame(S)
      BY <1>3, <1>5
    <2>2. u \in [1..l -> Frame(S)]
      BY <1>6, <2>1
    <2>3. u \in Seq(Frame(S))
      <3> DEFINE F == Frame(S)
      <3> HIDE DEF F
      <3>1. u \in UNION {[1..m -> F] : m \in Nat}
        BY <1>1, <2>2 DEF F
      <3> QED  BY <3>1, SeqDef DEF F
    <2>4. 1..Len(u) = 1..l /\ Len(u) \in Nat
      BY <2>2, <2>3, LenProperties
    <2>5. l \in 1..l
      BY <1>1
    <2>6. Len(u) \in 1..l
      BY <2>4, <2>5
    <2> QED  BY <1>1, <2>2, <2>3, <2>4, <2>5, <2>6
  <1>9. ASSUME NEW i \in 1..l
        PROVE  /\ u[i].rid = s[i + (n - 1)].rid /\ u[i].type \in {s[i + (n - 1)].type, "PIECE"}
               /\ i # 1 => u[i] = s[i + (n - 1)]
    BY <1>3, <1>5, <1>7
  <1> QED  BY <1>1, <1>4, <1>5, <1>7, <1>8, <1>9 DEF Shortened

(* A session's fields; Session itself is kept folded where it can be.      *)
SessionRecord ==
    [eph : Nat, key : SessionKey, copy : SessionKey,
     counter : Nat, encrypted : Nat, aged : BOOLEAN]

(* The operations of SecureSession preserve its type. *)
LEMMA SessionTypes ==
    ASSUME NEW s \in Session, NEW p \in Party, NEW theirs \in Nat
    PROVE  /\ NewSession \in Session
           /\ CompleteKeyExchange(p, s, theirs) \in Session
           /\ RotateKey(s) \in Session
           /\ EncryptMessage(s) \in Session
           /\ Destroy(s) \in Session
           /\ Gone(s) \in Session
           /\ [s EXCEPT !.aged = TRUE] \in Session
  <1>1. /\ s.eph \in Nat /\ s.key \in SessionKey /\ s.copy \in SessionKey /\ s.counter \in Nat
        /\ s.encrypted \in Nat /\ s.aged \in BOOLEAN
    BY DEF Session
  <1>2. NoKey \in SessionKey /\ ComputeSessionKey(p, s.eph, theirs) \in SessionKey
    BY <1>1 DEF NoKey, SessionKey, ComputeSessionKey
  <1>3. NewSession \in Session
    BY <1>2 DEF NewSession, Session
  <1>4. CompleteKeyExchange(p, s, theirs) \in Session
    BY <1>2 DEF CompleteKeyExchange, Session
  <1>5. RotateKey(s) \in Session
    <2>1. s.eph + 1 \in Nat /\ 0 \in Nat
      BY <1>1
    <2> QED  BY <1>2, <2>1 DEF RotateKey, Session
  <1>6. EncryptMessage(s) \in Session
    <2>1. s.counter + 1 \in Nat /\ s.encrypted + 1 \in Nat
      BY <1>1
    <2> QED  BY <2>1 DEF EncryptMessage, Session
  <1>7. Destroy(s) \in Session
    BY <1>2 DEF Destroy, Session
  <1>8. [s EXCEPT !.aged = TRUE] \in Session
    BY DEF Session
  <1>9. Gone(s) \in Session
    BY <1>2, <1>7 DEF Gone, Session
  <1> QED  BY <1>3, <1>4, <1>5, <1>6, <1>7, <1>8, <1>9

LEMMA FrameType ==
    ASSUME NEW T, NEW t \in T, NEW r \in Nat, NEW k \in SessionKey, NEW q \in Nat
    PROVE  Message(t, r, k, q) \in Frame(T)
  BY DEF Message, Frame

LEMMA NoKeyType == NoKey \in SessionKey
  BY DEF NoKey, SessionKey

-----------------------------------------------------------------------------
(* Type correctness, one lemma per building block of the actions.          *)

(* Writing one frame to the server. *)
LEMMA TransmitType ==
    ASSUME TypeOK, NEW t \in ClientFrames, NEW k \in SessionKey, NEW q \in Nat,
           Transmit(t, k, q)
    PROVE  rid' \in Nat /\ c2s' \in Seq(Frame(ClientFrames))
  <1>1. rid + 1 \in Nat
    BY DEF TypeOK
  <1>2. Message(t, rid + 1, k, q) \in Frame(ClientFrames)
    BY <1>1, FrameType
  <1> QED  BY <1>1, <1>2, AppendLemma DEF TypeOK, Transmit

(* Sealing adds a well-typed entry to the history. *)
LEMMA SealType ==
    ASSUME TypeOK, NEW p \in Party
    PROVE  Append(sealed, Seals(p)) \in Seq([by : Party, key : SessionKey, nonce : Nat])
  <1>1. sess[p].key \in SessionKey /\ sess[p].counter + 1 \in Nat
    BY DEF TypeOK, Session
  <1>2. Seals(p) \in [by : Party, key : SessionKey, nonce : Nat]
    BY <1>1 DEF Seals
  <1> QED  BY <1>2, AppendLemma DEF TypeOK

(* What a call of _rotate_keys writes. *)
LEMMA StartRotationType ==
    ASSUME TypeOK, NEW again \in BOOLEAN, StartRotation(again)
    PROVE  /\ sess' \in [Party -> Session] /\ resend' \in BOOLEAN
           /\ rid' \in Nat /\ c2s' \in Seq(Frame(ClientFrames))
           /\ cpc' \in {"await", "rotating", "closing"}
           /\ sealed' = sealed /\ rotation' = rotation
  <1>1. sess["client"] \in Session
    BY DEF TypeOK, Party
  <1>2. RotateKey(sess["client"]) \in Session
    BY <1>1, SessionTypes DEF Party
  <1>3. RotateKey(sess["client"]).eph \in Nat
    BY <1>2 DEF Session
  <1>4. rid' \in Nat /\ c2s' \in Seq(Frame(ClientFrames))
    BY <1>3, NoKeyType, TransmitType DEF StartRotation, ClientFrames
  <1> QED  BY <1>2, <1>4 DEF TypeOK, StartRotation

(* What a call of _send_secure_command writes. *)
LEMMA SendCommandType ==
    ASSUME TypeOK, NEW c \in Commands, SendCommand(c)
    PROVE  /\ sess' \in [Party -> Session] /\ cmd' \in Commands
           /\ rid' \in Nat /\ c2s' \in Seq(Frame(ClientFrames))
           /\ cpc' \in {"await", "rotating", "closing"} /\ resend' \in BOOLEAN
           /\ sealed' \in Seq([by : Party, key : SessionKey, nonce : Nat])
           /\ rotation' = rotation
  <1>0. cmd' \in Commands
    BY DEF SendCommand
  <1>1. CASE SendPlain(c)
    <2>1. rid' \in Nat /\ c2s' \in Seq(Frame(ClientFrames))
      <3>1. CASE c = "LOGOUT"
        BY <1>1, <3>1, NoKeyType, TransmitType DEF SendPlain, ClientFrames
      <3>2. CASE c # "LOGOUT"
        BY <1>1, <3>2, NoKeyType, TransmitType DEF SendPlain, ClientFrames
      <3> QED  BY <3>1, <3>2
    <2> QED  BY <1>0, <1>1, <2>1 DEF TypeOK, SendPlain, AfterSending
  <1>2. CASE StartRotation(TRUE)
    <2>1. /\ sess' \in [Party -> Session] /\ resend' \in BOOLEAN
          /\ rid' \in Nat /\ c2s' \in Seq(Frame(ClientFrames))
          /\ cpc' \in {"await", "rotating", "closing"}
          /\ sealed' = sealed /\ rotation' = rotation
      BY <1>2, StartRotationType
    <2> QED  BY <1>0, <2>1 DEF TypeOK
  <1>3. CASE SealAndSend(c)
    <2>1. sess["client"] \in Session
      BY DEF TypeOK, Party
    <2>2. EncryptMessage(sess["client"]) \in Session /\ sess["client"].key \in SessionKey
      BY <2>1, SessionTypes DEF Party, Session
    <2>3. rid' \in Nat /\ c2s' \in Seq(Frame(ClientFrames))
      BY <1>3, <2>2, TransmitType DEF SealAndSend, ClientFrames
    <2>4. sealed' \in Seq([by : Party, key : SessionKey, nonce : Nat])
      BY <1>3, SealType DEF SealAndSend, Party
    <2>5. sess' \in [Party -> Session]
      BY <1>3, <2>2 DEF TypeOK, SealAndSend
    <2> QED  BY <1>0, <1>3, <2>3, <2>4, <2>5 DEF TypeOK, SealAndSend, AfterSending
  <1> QED  BY <1>1, <1>2, <1>3 DEF SendCommand

(* What the end of a receive writes. *)
LEMMA AnsweredType ==
    ASSUME TypeOK, NEW m \in Frame(ServerFrames), Answered(m)
    PROVE  /\ sess' \in [Party -> Session]
           /\ secure' \in [Party -> BOOLEAN]
           /\ cpc' \in {"idle", "resend"}
           /\ loggedIn' \in BOOLEAN
           /\ last' \in [req : Nat, re : Nat]
           /\ rotation' \in {"none", "ok", "failed"}
  <1>1. m.rid \in Nat /\ m.pub \in Nat /\ sess["client"] \in Session
    BY DEF TypeOK, Frame, Party
  <1>2. CompleteKeyExchange("client", sess["client"], m.pub) \in Session
    BY <1>1, SessionTypes DEF Party
  <1>3. CASE HandshakeAnswer(m)
    BY <1>2, <1>3 DEF TypeOK, HandshakeAnswer
  <1>4. CASE RotationAnswer(m)
    BY <1>2, <1>4 DEF TypeOK, RotationAnswer
  <1>5. CASE CommandAnswer(m)
    <2>1. last' \in [req : Nat, re : Nat]
      BY <1>1, <1>5 DEF TypeOK, CommandAnswer
    <2>2. loggedIn' \in BOOLEAN
      BY <1>5 DEF CommandAnswer
    <2> QED  BY <1>5, <2>1, <2>2 DEF TypeOK, CommandAnswer
  <1> QED  BY <1>3, <1>4, <1>5 DEF Answered

(* Answering a frame. *)
LEMMA ReplyType ==
    ASSUME TypeOK, NEW t \in ServerFrames, NEW m \in Frame(ClientFrames \cup {"ERROR"}),
           NEW k \in SessionKey, NEW q \in Nat, Reply(t, m, k, q)
    PROVE  s2c' \in Seq(Frame(ServerFrames)) /\ longs' = longs
  <1>1. m.rid \in Nat
    BY DEF Frame
  <1>2. Message(t, m.rid, k, q) \in Frame(ServerFrames)
    BY <1>1, FrameType
  <1> QED  BY <1>2, AppendLemma DEF TypeOK, Reply

LEMMA ReplyInPiecesType ==
    ASSUME TypeOK, NEW m \in Frame(ClientFrames \cup {"ERROR"}), ReplyInPieces(m)
    PROVE  s2c' \in Seq(Frame(ServerFrames)) /\ longs' \in 0..MaxLong
  <1> DEFINE piece == Message("PIECE", m.rid, NoKey, 0)
  <1>1. piece \in Frame(ServerFrames)
    <2>1. m.rid \in Nat
      BY DEF Frame
    <2> QED  BY <2>1, NoKeyType, FrameType DEF ServerFrames
  <1>2. PICK n \in 1..(1 + MaxLong - longs) :
           longs' = longs + n - 1 /\ s2c' = s2c \o [i \in 1..n |-> piece]
    BY DEF ReplyInPieces
  <1>6. longs \in 0..MaxLong /\ MaxLong \in Nat /\ n \in Nat
    BY ChannelAssumption DEF TypeOK
  <1>3. [i \in 1..n |-> piece] \in Seq(Frame(ServerFrames))
    BY <1>1, <1>6, IsASeq
  <1>4. s2c' \in Seq(Frame(ServerFrames))
    BY <1>2, <1>3, ConcatProperties DEF TypeOK
  <1>5. longs' \in 0..MaxLong
    BY <1>2, <1>6
  <1> QED  BY <1>4, <1>5

(* What one turn of the server's loop writes. *)
LEMMA HandleType ==
    ASSUME TypeOK, NEW m \in Frame(ClientFrames \cup {"ERROR"}), Handle(m)
    PROVE  /\ sess' \in [Party -> Session]
           /\ live' \in SUBSET Party
           /\ secure' \in [Party -> BOOLEAN]
           /\ s2c' \in Seq(Frame(ServerFrames)) /\ longs' \in 0..MaxLong
           /\ spc' \in {"serving", "done"}
           /\ sealed' \in Seq([by : Party, key : SessionKey, nonce : Nat])
           /\ served' \in Seq(Nat)
  <1>1. /\ m.rid \in Nat /\ m.pub \in Nat
        /\ sess["server"] \in Session /\ sess["server"].key \in SessionKey
    BY DEF TypeOK, Frame, Party, Session
  <1>2. Append(served, m.rid) \in Seq(Nat)
    BY <1>1, AppendLemma DEF TypeOK
  <1>3. CASE Handshake(m)
    <2> DEFINE s == CompleteKeyExchange("server", NewSession, m.pub)
    <2>1. NewSession \in Session
      BY <1>1, SessionTypes DEF Party
    <2>2. s \in Session
      BY <1>1, <2>1, SessionTypes DEF Party
    <2>3. s.eph \in Nat
      BY <2>2 DEF Session
    <2>4. s2c' \in Seq(Frame(ServerFrames)) /\ longs' = longs
      BY <1>3, <2>3, NoKeyType, ReplyType DEF Handshake, ServerFrames
    <2>5. sess' \in [Party -> Session]
      BY <1>3, <2>2 DEF TypeOK, Handshake
    <2> QED  BY <1>3, <2>4, <2>5 DEF TypeOK, Handshake, Party
  <1>4. CASE HandleSecureMessage(m)
    <2>1. CASE "server" \in live /\ Decrypts(sess["server"], m.key)
      <3>1. SecureReply(m) /\ served' = Append(served, m.rid)
        BY <1>4, <2>1 DEF HandleSecureMessage
      <3>2. CASE NeedsRotation(sess["server"])
        <4>1. s2c' \in Seq(Frame(ServerFrames)) /\ longs' = longs
          BY <3>1, <3>2, NoKeyType, ReplyType DEF SecureReply, ServerFrames
        <4> QED  BY <1>2, <1>4, <3>1, <3>2, <4>1
                 DEF TypeOK, HandleSecureMessage, SecureReply
      <3>3. CASE ~NeedsRotation(sess["server"])
        <4>1. s2c' \in Seq(Frame(ServerFrames)) /\ longs' \in 0..MaxLong
          <5>1. \/ Reply("SECURE_MESSAGE", m, sess["server"].key, 0)
                \/ ReplyInPieces(m)
            BY <3>1, <3>3 DEF SecureReply
          <5>2. CASE ReplyInPieces(m)
            BY <5>2, ReplyInPiecesType
          <5>3. CASE Reply("SECURE_MESSAGE", m, sess["server"].key, 0)
            BY <1>1, <5>3, ReplyType DEF ServerFrames, TypeOK
          <5> QED  BY <5>1, <5>2, <5>3
        <4>2. EncryptMessage(sess["server"]) \in Session
          BY <1>1, SessionTypes DEF Party
        <4>3. sess' \in [Party -> Session]
          BY <3>1, <3>3, <4>2 DEF TypeOK, SecureReply
        <4>4. sealed' \in Seq([by : Party, key : SessionKey, nonce : Nat])
          BY <3>1, <3>3, SealType DEF SecureReply, Party
        <4> QED  BY <1>2, <1>4, <3>1, <4>1, <4>3, <4>4 DEF TypeOK, HandleSecureMessage
      <3> QED  BY <3>2, <3>3
    <2>2. CASE ~("server" \in live /\ Decrypts(sess["server"], m.key))
      <3>1. s2c' \in Seq(Frame(ServerFrames)) /\ longs' = longs
        BY <1>4, <2>2, NoKeyType, ReplyType DEF HandleSecureMessage, ServerFrames
      <3> QED  BY <1>4, <2>2, <3>1 DEF TypeOK, HandleSecureMessage
    <2> QED  BY <2>1, <2>2
  <1>5. CASE HandleKeyRotation(m)
    <2> DEFINE s == RotatedBy(sess["server"], m.pub)
    <2>1. RotateKey(sess["server"]) \in Session
      BY <1>1, SessionTypes DEF Party
    <2>2. s \in Session
      BY <1>1, <2>1, SessionTypes DEF Party, RotatedBy
    <2>3. s.eph \in Nat
      BY <2>2 DEF Session
    <2>4. s2c' \in Seq(Frame(ServerFrames)) /\ longs' = longs
      BY <1>5, <2>3, NoKeyType, ReplyType DEF HandleKeyRotation, ServerFrames
    <2>5. sess' \in [Party -> Session]
      BY <1>5, <2>2 DEF TypeOK, HandleKeyRotation
    <2> QED  BY <1>5, <2>4, <2>5 DEF TypeOK, HandleKeyRotation
  <1>6. CASE HandlePlain(m)
    <2>1. s2c' \in Seq(Frame(ServerFrames)) /\ longs' \in 0..MaxLong
      <3>1. CASE ReplyInPieces(m)
        BY <3>1, ReplyInPiecesType
      <3>2. CASE Reply("PLAIN", m, NoKey, 0)
        BY <3>2, NoKeyType, ReplyType DEF ServerFrames, TypeOK
      <3> QED  BY <1>6, <3>1, <3>2 DEF HandlePlain
    <2> QED  BY <1>2, <1>6, <2>1 DEF TypeOK, HandlePlain
  <1>7. CASE HandleLogout(m)
    <2>1. s2c' \in Seq(Frame(ServerFrames)) /\ longs' = longs
      BY <1>7, NoKeyType, ReplyType DEF HandleLogout, ServerFrames
    <2>2. Destroy(sess["server"]) \in Session
      BY <1>1, SessionTypes DEF Party
    <2>3. sess' \in [Party -> Session]
      BY <1>7, <2>2 DEF TypeOK, HandleLogout, Cleanup
    <2> QED  BY <1>7, <2>1, <2>3 DEF TypeOK, HandleLogout, Cleanup
  <1>8. CASE Reject(m)
    <2>1. s2c' \in Seq(Frame(ServerFrames)) /\ longs' = longs
      BY <1>8, NoKeyType, ReplyType DEF Reject, ServerFrames
    <2> QED  BY <1>8, <2>1 DEF TypeOK, Reject
  <1> QED  BY <1>3, <1>4, <1>5, <1>6, <1>7, <1>8 DEF Handle

LEMMA InitTypeOK == Init => TypeOK
  <1> SUFFICES ASSUME Init PROVE TypeOK
    OBVIOUS
  <1>1. Destroy(NewSession) \in Session
    BY NoKeyType DEF NewSession, Session, Destroy
  <1>2. /\ MaxNotes \in Nat /\ MaxTimeouts \in Nat /\ RecursionLimit \in Nat
        /\ MaxLong \in Nat
    BY ChannelAssumption
  <1>3. /\ sess \in [Party -> Session] /\ secure \in [Party -> BOOLEAN]
    BY <1>1 DEF Init
  <1>4. /\ c2s \in Seq(Frame(ClientFrames)) /\ s2c \in Seq(Frame(ServerFrames))
        /\ sealed \in Seq([by : Party, key : SessionKey, nonce : Nat])
        /\ served \in Seq(Nat)
    BY EmptySeq DEF Init
  <1>5. /\ depth \in 0..RecursionLimit /\ rid \in Nat
        /\ notes \in 0..MaxNotes /\ timeouts \in 0..MaxTimeouts
        /\ longs \in 0..MaxLong
        /\ last \in [req : Nat, re : Nat]
    BY <1>2 DEF Init
  <1>6. /\ live \in SUBSET Party
        /\ cpc \in Waiting \cup {"start", "idle", "resend", "closing", "closed"}
        /\ cmd \in Commands /\ resend \in BOOLEAN /\ loggedIn \in BOOLEAN
        /\ spc \in {"serving", "done"}
        /\ rotation \in {"none", "ok", "failed"}
    BY DEF Init, Commands
  <1>7. left \in 0..2
    BY DEF Init
  <1> QED  BY <1>3, <1>4, <1>5, <1>6, <1>7 DEF TypeOK

(* The steps of the client program, blocking receives included. *)
LEMMA ClientTypeOK ==
    ASSUME TypeOK, ClientStep \/ UserStep \/ ClientTimeout \/ Interrupt \/ InterruptEnds
    PROVE  TypeOK'
  <1> USE DEF clientVars, boundVars
  <1>0. /\ MaxNotes \in Nat /\ MaxTimeouts \in Nat /\ RecursionLimit \in Nat
        /\ MaxLong \in Nat
    BY ChannelAssumption
  <1>1. CASE Connect
    <2>1. NewSession \in Session /\ NewSession.eph \in Nat
      BY NoKeyType DEF NewSession, Session
    <2>2. rid' \in Nat /\ c2s' \in Seq(Frame(ClientFrames))
      BY <1>1, <2>1, NoKeyType, TransmitType DEF Connect, ClientFrames
    <2>3. sess' \in [Party -> Session] /\ live' \in SUBSET Party
      BY <1>1, <2>1 DEF TypeOK, Connect, Party
    <2> QED  BY <1>1, <2>2, <2>3 DEF TypeOK, Connect, Waiting
  <1>2. ASSUME NEW c \in Commands, BeginCommand(c) PROVE TypeOK'
    <2>1. SendCommand(c)
      BY <1>2 DEF BeginCommand
    <2>2. /\ sess' \in [Party -> Session] /\ cmd' \in Commands
          /\ rid' \in Nat /\ c2s' \in Seq(Frame(ClientFrames))
          /\ cpc' \in {"await", "rotating", "closing"} /\ resend' \in BOOLEAN
          /\ sealed' \in Seq([by : Party, key : SessionKey, nonce : Nat])
          /\ rotation' = rotation
      BY <2>1, SendCommandType
    <2> QED  BY <1>0, <1>2, <2>2 DEF TypeOK, BeginCommand, Waiting
  <1>3. CASE RotateManually
    <2>1. /\ sess' \in [Party -> Session] /\ resend' \in BOOLEAN
          /\ rid' \in Nat /\ c2s' \in Seq(Frame(ClientFrames))
          /\ cpc' \in {"await", "rotating", "closing"}
          /\ sealed' = sealed /\ rotation' = rotation
      BY <1>3, StartRotationType DEF RotateManually
    <2> QED  BY <1>3, <2>1 DEF TypeOK, RotateManually, Waiting
  <1>4. CASE Resend
    <2>1. /\ sess' \in [Party -> Session] /\ cmd' \in Commands
          /\ rid' \in Nat /\ c2s' \in Seq(Frame(ClientFrames))
          /\ cpc' \in {"await", "rotating", "closing"} /\ resend' \in BOOLEAN
          /\ sealed' \in Seq([by : Party, key : SessionKey, nonce : Nat])
          /\ rotation' = rotation
      BY <1>4, SendCommandType DEF Resend, TypeOK
    <2>2. depth' \in 0..RecursionLimit
      BY <1>0, <1>4 DEF TypeOK, Resend
    <2> QED  BY <1>4, <2>1, <2>2 DEF TypeOK, Resend, Waiting
  <1>5. CASE GiveUpResending
    BY <1>5 DEF TypeOK, GiveUpResending, Waiting
  <1>6. ASSUME Leave, left' \in 0..2 PROVE TypeOK'
    <2>1. CASE loggedIn
      <3>1. /\ sess' \in [Party -> Session] /\ cmd' \in Commands
            /\ rid' \in Nat /\ c2s' \in Seq(Frame(ClientFrames))
            /\ cpc' \in {"await", "rotating", "closing"} /\ resend' \in BOOLEAN
            /\ sealed' \in Seq([by : Party, key : SessionKey, nonce : Nat])
            /\ rotation' = rotation
        <4>1. "LOGOUT" \in Commands /\ SendCommand("LOGOUT")
          BY <1>6, <2>1 DEF Leave, Commands
        <4> QED  BY <4>1, SendCommandType
      <3> QED  BY <1>0, <1>6, <3>1 DEF TypeOK, Leave, Waiting
    <2>2. CASE ~loggedIn
      BY <1>0, <1>6, <2>2 DEF TypeOK, Leave, Waiting
    <2> QED  BY <2>1, <2>2
  <1>10. CASE Disconnect \/ Interrupt
    <2>1. left \in 0..2
      BY DEF TypeOK
    <2>2. left' \in 0..2
      BY <1>10, <2>1 DEF Disconnect, Interrupt
    <2> QED  BY <1>6, <1>10, <2>2 DEF Disconnect, Interrupt
  <1>11. CASE InterruptEnds
    <2>1. Gone(sess["client"]) \in Session
      BY SessionTypes DEF TypeOK, Party
    <2>2. sess' \in [Party -> Session]
      BY <1>11, <2>1 DEF TypeOK, InterruptEnds
    <2> QED  BY <1>11, <2>2 DEF TypeOK, InterruptEnds, Waiting
  <1>7. CASE Close
    <2>1. Destroy(sess["client"]) \in Session
      BY SessionTypes DEF TypeOK, Party
    <2>2. sess' \in [Party -> Session]
      BY <1>7, <2>1 DEF TypeOK, Close
    <2> QED  BY <1>7, <2>2 DEF TypeOK, Close, Waiting
  <1>8. CASE ClientReceive
    <2>1. PICK n \in 1..Len(s2c) :
            /\ s2c' = Drop(n, s2c)
            /\ IF n = 1 /\ s2c[1].type = "NEW_MESSAGE"
                 THEN UNCHANGED <<sess, secure, cpc, loggedIn, last, rotation>>
                 ELSE Answered(IF n = 1 THEN s2c[1] ELSE NoAnswer)
      BY <1>8 DEF ClientReceive
    <2>2. s2c' \in Seq(Frame(ServerFrames))
      BY <2>1, DropLemma DEF TypeOK
    <2>3. CASE n = 1 /\ s2c[1].type = "NEW_MESSAGE"
      BY <1>8, <2>1, <2>2, <2>3 DEF TypeOK, ClientReceive
    <2>4. CASE ~(n = 1 /\ s2c[1].type = "NEW_MESSAGE")
      <3> DEFINE m == IF n = 1 THEN s2c[1] ELSE NoAnswer
      <3>1. n = 1 => s2c[1] \in Frame(ServerFrames)
        BY ElementOfSeq DEF TypeOK
      <3>2. NoAnswer \in Frame(ServerFrames)
        BY NoKeyType, FrameType DEF NoAnswer, ServerFrames
      <3>3. m \in Frame(ServerFrames) /\ Answered(m)
        BY <2>1, <2>4, <3>1, <3>2
      <3>4. /\ sess' \in [Party -> Session]
            /\ secure' \in [Party -> BOOLEAN]
            /\ cpc' \in {"idle", "resend"}
            /\ loggedIn' \in BOOLEAN
            /\ last' \in [req : Nat, re : Nat]
            /\ rotation' \in {"none", "ok", "failed"}
        BY <3>3, AnsweredType
      <3> QED  BY <1>8, <2>2, <3>4 DEF TypeOK, ClientReceive
    <2> QED  BY <2>3, <2>4
  <1>9. CASE ClientTimeout
    <2>1. NoAnswer \in Frame(ServerFrames) /\ Answered(NoAnswer)
      BY <1>9, NoKeyType, FrameType DEF NoAnswer, ServerFrames, ClientTimeout
    <2>2. /\ sess' \in [Party -> Session]
          /\ secure' \in [Party -> BOOLEAN]
          /\ cpc' \in {"idle", "resend"}
          /\ loggedIn' \in BOOLEAN
          /\ last' \in [req : Nat, re : Nat]
          /\ rotation' \in {"none", "ok", "failed"}
      BY <2>1, AnsweredType
    <2>3. timeouts' \in 0..MaxTimeouts
      BY <1>0, <1>9 DEF TypeOK, ClientTimeout
    <2> QED  BY <1>9, <2>2, <2>3 DEF TypeOK, ClientTimeout
  <1> QED
    BY <1>1, <1>2, <1>3, <1>4, <1>5, <1>7, <1>8, <1>9, <1>10, <1>11 DEF ClientStep, UserStep

(* The steps of the server thread and of everything else. *)
LEMMA ServerTypeOK ==
    ASSUME TypeOK, ServerStep \/ Notify \/ (\E p \in Party : Age(p))
    PROVE  TypeOK'
  <1> USE DEF clientVars, boundVars
  <1>0. /\ MaxNotes \in Nat /\ MaxTimeouts \in Nat /\ RecursionLimit \in Nat
        /\ MaxLong \in Nat
    BY ChannelAssumption
  <1>1. CASE ServerReceive
    <2> DEFINE mess(n) == IF n = 1 THEN c2s[1] ELSE Message("ERROR", c2s[n].rid, NoKey, 0)
    <2>1. PICK n \in 1..Len(c2s) : c2s' = Drop(n, c2s) /\ Handle(mess(n))
      BY <1>1 DEF ServerReceive
    <2>2. c2s' \in Seq(Frame(ClientFrames))
      BY <2>1, DropLemma DEF TypeOK
    <2>3. c2s[n] \in Frame(ClientFrames)
      BY ElementOfSeq DEF TypeOK
    <2>4. c2s[n].rid \in Nat /\ c2s[n] \in Frame(ClientFrames \cup {"ERROR"})
      BY <2>3 DEF Frame
    <2>5. mess(n) \in Frame(ClientFrames \cup {"ERROR"})
      <3>1. Message("ERROR", c2s[n].rid, NoKey, 0) \in Frame(ClientFrames \cup {"ERROR"})
        BY <2>4, NoKeyType, FrameType
      <3> QED  BY <2>4, <3>1
    <2>6. /\ sess' \in [Party -> Session]
          /\ live' \in SUBSET Party
          /\ secure' \in [Party -> BOOLEAN]
          /\ s2c' \in Seq(Frame(ServerFrames)) /\ longs' \in 0..MaxLong
          /\ spc' \in {"serving", "done"}
          /\ sealed' \in Seq([by : Party, key : SessionKey, nonce : Nat])
          /\ served' \in Seq(Nat)
      BY <2>1, <2>5, HandleType
    <2> QED  BY <1>1, <2>2, <2>6 DEF TypeOK, ServerReceive
  <1>2. CASE ServerSeesClose
    <2>1. Destroy(sess["server"]) \in Session
      BY SessionTypes DEF TypeOK, Party
    <2>2. sess' \in [Party -> Session]
      BY <1>2, <2>1 DEF TypeOK, ServerSeesClose, Cleanup
    <2> QED  BY <1>2, <2>2 DEF TypeOK, ServerSeesClose, Cleanup
  <1>3. CASE Notify
    <2>1. Message("NEW_MESSAGE", 0, NoKey, 0) \in Frame(ServerFrames)
      BY NoKeyType, FrameType DEF ServerFrames
    <2>2. s2c' \in Seq(Frame(ServerFrames))
      BY <1>3, <2>1, AppendLemma DEF TypeOK, Notify
    <2>3. notes' \in 0..MaxNotes
      BY <1>0, <1>3 DEF TypeOK, Notify
    <2> QED  BY <1>3, <2>2, <2>3 DEF TypeOK, Notify
  <1>4. ASSUME NEW p \in Party, Age(p) PROVE TypeOK'
    <2>1. [sess[p] EXCEPT !.aged = TRUE] \in Session
      BY SessionTypes DEF TypeOK
    <2>2. sess' = [sess EXCEPT ![p] = [sess[p] EXCEPT !.aged = TRUE]]
      BY <1>4 DEF Age
    <2>3. sess' \in [Party -> Session]
      BY <2>1, <2>2 DEF TypeOK
    <2> QED  BY <1>4, <2>3 DEF TypeOK, Age
  <1>5. CASE ServerReceivePart
    <2>1. PICK n \in 1..Len(c2s) :
            /\ c2s' = [Drop(n - 1, c2s) EXCEPT ![1].type = "PIECE"]
            /\ s2c' = Append(s2c, Message("ERROR", c2s[n].rid, NoKey, 0))
      BY <1>5 DEF ServerReceivePart
    <2>2. "PIECE" \in ClientFrames /\ "ERROR" \in ServerFrames /\ c2s[n].rid \in Nat
      <3>1. c2s[n] \in Frame(ClientFrames)
        BY ElementOfSeq DEF TypeOK
      <3> QED  BY <3>1 DEF ClientFrames, ServerFrames, Frame
    <2>3. c2s' \in Seq(Frame(ClientFrames))
      <3>1. c2s \in Seq(Frame(ClientFrames))
        BY DEF TypeOK
      <3> QED  BY <2>1, <2>2, <3>1, PartLemma
    <2>4. Message("ERROR", c2s[n].rid, NoKey, 0) \in Frame(ServerFrames)
      BY <2>2, NoKeyType, FrameType
    <2>5. s2c' \in Seq(Frame(ServerFrames))
      BY <2>1, <2>4, AppendLemma DEF TypeOK
    <2>6. longs' \in 0..MaxLong
      <3>1. longs \in 0..MaxLong
        BY DEF TypeOK
      <3>2. longs < MaxLong /\ longs' = longs + 1
        BY <1>5 DEF ServerReceivePart
      <3> QED  BY <1>0, <3>1, <3>2
    <2> QED  BY <1>5, <2>3, <2>5, <2>6 DEF TypeOK, ServerReceivePart
  <1> QED  BY <1>1, <1>2, <1>3, <1>4, <1>5 DEF ServerStep

(* Every variable keeps its type and the recursion its limit, whatever the *)
(* bounds and the disturbances admitted.                                   *)
THEOREM TypeCorrect == Spec => []TypeOK
  <1>1. Init => TypeOK
    BY InitTypeOK
  <1>2. TypeOK /\ [Next]_vars => TypeOK'
    <2>1. ASSUME TypeOK, Next PROVE TypeOK'
      BY <2>1, ClientTypeOK, ServerTypeOK DEF Next, Disturb
    <2>2. ASSUME TypeOK, UNCHANGED vars PROVE TypeOK'
      BY <2>2 DEF TypeOK, vars, clientVars, boundVars
    <2> QED  BY <2>1, <2>2
  <1> QED  BY <1>1, <1>2, PTL DEF Spec

-----------------------------------------------------------------------------
(* Nonces.  The uniqueness of nonces is not inductive: it holds because a  *)
(* nonce is a counter that is never reset while it is in use.  The server  *)
(* does reset it, with its whole session, on a HANDSHAKE_INIT; so the      *)
(* argument needs that only one is ever sent, before anything was sealed.  *)

(* No end has used a nonce beyond its counter, and an end's nonces grow in *)
(* the order in which it sealed.                                           *)
NoncesGrow ==
    /\ \A i \in DOMAIN sealed : sealed[i].nonce <= sess[sealed[i].by].counter
    /\ \A i, j \in DOMAIN sealed :
         i < j /\ sealed[i].by = sealed[j].by => sealed[i].nonce < sealed[j].nonce

(* The handshake is the first frame sent, is sent once, and the server has *)
(* sealed nothing until it has carried it out.                             *)
HandshakeFirst ==
    /\ cpc = "start" => c2s = <<>> /\ sealed = <<>> /\ ~secure["server"]
    /\ \A i \in DOMAIN c2s : c2s[i].type = "HANDSHAKE_INIT" => i = 1 /\ ~secure["server"]
    /\ \A i \in DOMAIN sealed : sealed[i].by = "server" => secure["server"]

NonceInv == TypeOK /\ NoncesGrow /\ HandshakeFirst

(* A step that seals nothing and lowers no counter keeps NoncesGrow. *)
LEMMA NoSealLemma ==
    ASSUME TypeOK, TypeOK', NoncesGrow, sealed' = sealed,
           \A p \in Party : sess'[p].counter >= sess[p].counter
    PROVE  NoncesGrow'
  <1>1. ASSUME NEW i \in DOMAIN sealed PROVE sealed[i].nonce <= sess'[sealed[i].by].counter
    <2>0. sealed \in Seq([by : Party, key : SessionKey, nonce : Nat])
      BY DEF TypeOK
    <2>1. sealed[i] \in [by : Party, key : SessionKey, nonce : Nat]
      <3>1. i \in 1..Len(sealed)
        BY <2>0, LenProperties
      <3> QED  BY <2>0, <3>1, ElementOfSeq
    <2>2. sealed[i].by \in Party /\ sealed[i].nonce \in Nat
      BY <2>1
    <2>3. sess[sealed[i].by].counter \in Nat /\ sess'[sealed[i].by].counter \in Nat
      BY <2>2 DEF TypeOK, Session
    <2>4. sealed[i].nonce <= sess[sealed[i].by].counter
      BY DEF NoncesGrow
    <2> QED  BY <2>2, <2>3, <2>4
  <1> QED  BY <1>1 DEF NoncesGrow

(* Sealing one message keeps it. *)
LEMMA SealLemma ==
    ASSUME TypeOK, TypeOK', NoncesGrow, NEW p \in Party,
           sealed' = Append(sealed, Seals(p)),
           sess' = [sess EXCEPT ![p] = EncryptMessage(@)]
    PROVE  NoncesGrow'
  <1> DEFINE last1 == Len(sealed) + 1
  <1>1. /\ Len(sealed) \in Nat /\ DOMAIN sealed = 1..Len(sealed)
        /\ DOMAIN sealed' = 1..last1
        /\ sealed'[last1] = Seals(p)
        /\ \A i \in 1..Len(sealed) : sealed'[i] = sealed[i]
    <2>1. Seals(p) \in [by : Party, key : SessionKey, nonce : Nat]
      BY DEF Seals, TypeOK, Session
    <2> QED  BY <2>1, AppendLemma, LenProperties DEF TypeOK
  <1>2. /\ sess[p] \in Session /\ sess[p].counter \in Nat
        /\ sess'[p].counter = sess[p].counter + 1
        /\ \A r \in Party : sess[r].counter \in Nat /\ sess'[r].counter >= sess[r].counter
    <2>1. \A r \in Party : sess[r] \in Session /\ sess[r].counter \in Nat
      BY DEF TypeOK, Session
    <2>2. sess'[p] = EncryptMessage(sess[p])
      BY DEF TypeOK
    <2>3. EncryptMessage(sess[p]).counter = sess[p].counter + 1
      <3>1. sess[p] \in SessionRecord
        BY <2>1 DEF Session, SessionRecord
      <3> QED  BY <3>1 DEF EncryptMessage, SessionRecord
    <2>4. \A r \in Party \ {p} : sess'[r] = sess[r]
      BY DEF TypeOK
    <2> QED  BY <2>1, <2>2, <2>3, <2>4
  <1>3. \A i \in 1..Len(sealed) :
          /\ sealed[i].by \in Party /\ sealed[i].nonce \in Nat
          /\ sealed[i].nonce <= sess[sealed[i].by].counter
    <2>1. \A i \in 1..Len(sealed) : sealed[i] \in [by : Party, key : SessionKey, nonce : Nat]
      BY ElementOfSeq DEF TypeOK
    <2> QED  BY <1>1, <2>1 DEF NoncesGrow
  <1>4. Seals(p).by = p /\ Seals(p).nonce = sess[p].counter + 1
    BY DEF Seals
  <1>5. ASSUME NEW i \in 1..last1 PROVE sealed'[i].nonce <= sess'[sealed'[i].by].counter
    <2>1. CASE i = last1
      BY <1>1, <1>2, <1>4, <2>1
    <2>2. CASE i \in 1..Len(sealed)
      <3>1. /\ sealed'[i].by \in Party /\ sealed'[i].nonce \in Nat
            /\ sealed'[i].nonce <= sess[sealed'[i].by].counter
        BY <1>1, <1>3, <2>2
      <3>2. /\ sess[sealed'[i].by].counter \in Nat
            /\ sess'[sealed'[i].by].counter \in Nat
            /\ sess'[sealed'[i].by].counter >= sess[sealed'[i].by].counter
        BY <1>2, <3>1 DEF TypeOK, Session
      <3> QED  BY <3>1, <3>2
    <2> QED  BY <1>1, <2>1, <2>2
  <1>6. ASSUME NEW i \in 1..last1, NEW j \in 1..last1, i < j, sealed'[i].by = sealed'[j].by
        PROVE  sealed'[i].nonce < sealed'[j].nonce
    <2>1. i \in 1..Len(sealed)
      BY <1>1, <1>6
    <2>2. CASE j = last1
      <3>1. sealed[i].by = p /\ sealed[i].nonce <= sess[p].counter /\ sealed[i].nonce \in Nat
        BY <1>1, <1>3, <1>4, <1>6, <2>1, <2>2
      <3> QED  BY <1>1, <1>2, <1>4, <2>1, <2>2, <3>1
    <2>3. CASE j \in 1..Len(sealed)
      BY <1>1, <1>6, <2>1, <2>3 DEF NoncesGrow
    <2> QED  BY <1>1, <2>2, <2>3
  <1> QED  BY <1>1, <1>5, <1>6 DEF NoncesGrow

(* Any frame but a second handshake keeps HandshakeFirst. *)
LEMMA LaterFrameLemma ==
    ASSUME TypeOK, HandshakeFirst, cpc' # "start", UNCHANGED secure,
           NEW t \in ClientFrames \ {"HANDSHAKE_INIT"}, NEW k \in SessionKey,
           NEW q \in Nat, Transmit(t, k, q),
           \A i \in DOMAIN sealed' : sealed'[i].by = "server" => secure["server"]
    PROVE  HandshakeFirst'
  <1>1. rid + 1 \in Nat
    BY DEF TypeOK
  <1>2. Message(t, rid + 1, k, q) \in Frame(ClientFrames)
    BY <1>1, FrameType
  <1>3. /\ DOMAIN c2s = 1..Len(c2s) /\ DOMAIN c2s' = 1..(Len(c2s) + 1)
        /\ Len(c2s) \in Nat
        /\ \A i \in 1..Len(c2s) : c2s'[i] = c2s[i]
        /\ c2s'[Len(c2s) + 1] = Message(t, rid + 1, k, q)
    BY <1>2, AppendLemma, LenProperties DEF TypeOK, Transmit
  <1>4. Message(t, rid + 1, k, q).type # "HANDSHAKE_INIT"
    BY DEF Message
  <1>5. ASSUME NEW i \in DOMAIN c2s', c2s'[i].type = "HANDSHAKE_INIT"
        PROVE  i = 1 /\ ~secure["server"]
    <2>1. i \in DOMAIN c2s /\ c2s'[i] = c2s[i]
      BY <1>3, <1>4, <1>5
    <2> QED  BY <1>5, <2>1 DEF HandshakeFirst
  <1> QED  BY <1>5 DEF HandshakeFirst

(* A call of _rotate_keys keeps both. *)
LEMMA StartRotationNonces ==
    ASSUME NonceInv, TypeOK', NEW again \in BOOLEAN, StartRotation(again), UNCHANGED secure
    PROVE  NoncesGrow' /\ HandshakeFirst'
  <1> USE DEF NonceInv
  <1>1. sess["client"] \in Session /\ sess["client"].counter \in Nat
    BY DEF TypeOK, Party, Session
  <1>2. RotateKey(sess["client"]).counter = sess["client"].counter
    <2>1. sess["client"] \in SessionRecord
      BY <1>1 DEF Session, SessionRecord
    <2> QED  BY <2>1 DEF RotateKey, SessionRecord
  <1>3. RotateKey(sess["client"]).eph \in Nat
    BY <1>1, SessionTypes DEF Party, Session
  <1>4. NoncesGrow'
    <2>1. \A p \in Party : sess[p].counter \in Nat
      BY DEF TypeOK, Session
    <2>2. \A p \in Party : sess'[p].counter = sess[p].counter
      BY <1>2 DEF TypeOK, StartRotation
    <2> QED  BY <2>1, <2>2, NoSealLemma DEF StartRotation
  <1>5. HandshakeFirst'
    <2>1. "KEY_ROTATION" \in ClientFrames \ {"HANDSHAKE_INIT"}
      BY DEF ClientFrames
    <2>2. \A i \in DOMAIN sealed' : sealed'[i].by = "server" => secure["server"]
      BY DEF StartRotation, HandshakeFirst
    <2> QED  BY <1>3, <2>1, <2>2, NoKeyType, LaterFrameLemma DEF StartRotation
  <1> QED  BY <1>4, <1>5

(* A call of _send_secure_command keeps both. *)
LEMMA SendCommandNonces ==
    ASSUME NonceInv, TypeOK', NEW c \in Commands, SendCommand(c), UNCHANGED secure
    PROVE  NoncesGrow' /\ HandshakeFirst'
  <1> USE DEF NonceInv
  <1>1. CASE SendPlain(c)
    <2>1. NoncesGrow'
      <3>1. sess' = sess /\ \A p \in Party : sess[p].counter \in Nat
        BY <1>1 DEF SendPlain, TypeOK, Session
      <3> QED  BY <1>1, <3>1, NoSealLemma DEF SendPlain
    <2>2. PICK t \in {"LOGOUT", "PLAIN"} : Transmit(t, NoKey, 0)
      BY <1>1 DEF SendPlain
    <2>3. t \in ClientFrames \ {"HANDSHAKE_INIT"} /\ cpc' # "start"
      BY <1>1 DEF ClientFrames, SendPlain, AfterSending
    <2>4. \A i \in DOMAIN sealed' : sealed'[i].by = "server" => secure["server"]
      BY <1>1 DEF SendPlain, HandshakeFirst
    <2> QED  BY <2>1, <2>2, <2>3, <2>4, NoKeyType, LaterFrameLemma
  <1>2. CASE StartRotation(TRUE)
    BY <1>2, StartRotationNonces
  <1>3. CASE SealAndSend(c)
    <2>1. NoncesGrow'
      BY <1>3, SealLemma DEF SealAndSend, Party
    <2>2. "SECURE_MESSAGE" \in ClientFrames \ {"HANDSHAKE_INIT"} /\ cpc' # "start"
      BY <1>3 DEF ClientFrames, SealAndSend, AfterSending
    <2>3. sess["client"].key \in SessionKey
      BY DEF TypeOK, Party, Session
    <2>4. \A i \in DOMAIN sealed' : sealed'[i].by = "server" => secure["server"]
      <3>0. sess["client"].counter \in Nat
        BY DEF TypeOK, Session, Party
      <3>1. Seals("client") \in [by : Party, key : SessionKey, nonce : Nat]
        BY <2>3, <3>0 DEF Seals, Party
      <3>2. /\ DOMAIN sealed = 1..Len(sealed) /\ DOMAIN sealed' = 1..(Len(sealed) + 1)
            /\ Len(sealed) \in Nat
            /\ \A i \in 1..Len(sealed) : sealed'[i] = sealed[i]
            /\ sealed'[Len(sealed) + 1] = Seals("client")
        <4>1. /\ sealed \in Seq([by : Party, key : SessionKey, nonce : Nat])
              /\ sealed' = Append(sealed, Seals("client"))
          BY <1>3 DEF TypeOK, SealAndSend
        <4> QED  BY <3>1, <4>1, AppendLemma, LenProperties
      <3>3. Seals("client").by = "client"
        BY DEF Seals
      <3> QED  BY <3>2, <3>3 DEF HandshakeFirst
    <2>5. Transmit("SECURE_MESSAGE", sess["client"].key, 0)
      BY <1>3 DEF SealAndSend
    <2> QED  BY <2>1, <2>2, <2>3, <2>4, <2>5, LaterFrameLemma
  <1> QED  BY <1>1, <1>2, <1>3 DEF SendCommand

(* The end of a receive keeps both: it may replace the client's key, never *)
(* its counter.                                                            *)
LEMMA AnsweredNonces ==
    ASSUME NonceInv, TypeOK', NEW m \in Frame(ServerFrames), Answered(m),
           UNCHANGED <<c2s, sealed>>
    PROVE  NoncesGrow' /\ HandshakeFirst'
  <1> USE DEF NonceInv
  <1>1. sess["client"] \in SessionRecord
    BY DEF TypeOK, Party, Session, SessionRecord
  <1>2. CompleteKeyExchange("client", sess["client"], m.pub).counter = sess["client"].counter
    BY <1>1 DEF CompleteKeyExchange, SessionRecord
  <1>3. \A p \in Party : sess[p].counter \in Nat
    BY DEF TypeOK, Session
  <1>4. \A p \in Party : sess'[p].counter = sess[p].counter
    BY <1>2 DEF TypeOK, Answered, HandshakeAnswer, RotationAnswer, CommandAnswer
  <1>5. NoncesGrow'
    BY <1>3, <1>4, NoSealLemma
  <1>6. secure'["server"] = secure["server"] /\ cpc' # "start"
    BY DEF TypeOK, Party, Answered, HandshakeAnswer, RotationAnswer, CommandAnswer
  <1>7. HandshakeFirst'
    BY <1>6 DEF HandshakeFirst
  <1> QED  BY <1>5, <1>7

LEMMA ClientNonces ==
    ASSUME NonceInv, TypeOK',
           ClientStep \/ UserStep \/ ClientTimeout \/ Interrupt \/ InterruptEnds
    PROVE  NoncesGrow' /\ HandshakeFirst'
  <1> USE DEF NonceInv
  <1>0. \A p \in Party : sess[p] \in Session /\ sess[p].counter \in Nat
    BY DEF TypeOK, Session
  <1>1. CASE Connect
    <2>1. sealed = <<>> /\ sealed' = sealed /\ ~secure["server"] /\ c2s = <<>>
      BY <1>1 DEF Connect, HandshakeFirst
    <2>2. NoncesGrow'
      BY <2>1 DEF NoncesGrow
    <2>3. DOMAIN c2s' = {1}
      BY <1>1, <2>1 DEF Connect, Transmit
    <2> QED  BY <1>1, <2>1, <2>2, <2>3 DEF Connect, HandshakeFirst
  <1>2. ASSUME NEW c \in Commands, BeginCommand(c) PROVE NoncesGrow' /\ HandshakeFirst'
    BY <1>2, SendCommandNonces DEF BeginCommand
  <1>3. CASE RotateManually
    BY <1>3, StartRotationNonces DEF RotateManually
  <1>4. CASE Resend
    BY <1>4, SendCommandNonces DEF Resend, TypeOK
  <1>5. CASE GiveUpResending
    <2>1. \A p \in Party : sess'[p].counter = sess[p].counter
      BY <1>5 DEF GiveUpResending
    <2>2. NoncesGrow'
      BY <1>0, <1>5, <2>1, NoSealLemma DEF GiveUpResending
    <2> QED  BY <1>5, <2>2 DEF GiveUpResending, HandshakeFirst
  <1>6. CASE Disconnect \/ Interrupt
    <2>0. Leave
      BY <1>6 DEF Disconnect, Interrupt
    <2>1. CASE loggedIn
      <3>1. "LOGOUT" \in Commands /\ SendCommand("LOGOUT") /\ UNCHANGED secure
        BY <2>0, <2>1 DEF Leave, Commands
      <3> QED  BY <3>1, SendCommandNonces
    <2>2. CASE ~loggedIn
      <3>1. sess' = sess /\ sealed' = sealed
        BY <2>0, <2>2 DEF Leave
      <3>2. NoncesGrow'
        BY <1>0, <3>1, NoSealLemma
      <3> QED  BY <2>0, <2>2, <3>2 DEF Leave, HandshakeFirst
    <2> QED  BY <2>1, <2>2
  <1>7. CASE Close \/ InterruptEnds
    <2>1. sess["client"] \in SessionRecord
      BY <1>0 DEF Party, Session, SessionRecord
    <2>2. /\ Destroy(sess["client"]).counter = sess["client"].counter
          /\ Gone(sess["client"]).counter = sess["client"].counter
      BY <2>1 DEF Destroy, Gone, SessionRecord
    <2>3. \A p \in Party : sess'[p].counter = sess[p].counter
      BY <1>7, <2>2 DEF Close, InterruptEnds, TypeOK
    <2>4. NoncesGrow'
      BY <1>0, <1>7, <2>3, NoSealLemma DEF Close, InterruptEnds
    <2> QED  BY <1>7, <2>4 DEF Close, InterruptEnds, HandshakeFirst
  <1>8. CASE ClientReceive
    <2>1. PICK n \in 1..Len(s2c) :
            IF n = 1 /\ s2c[1].type = "NEW_MESSAGE"
              THEN UNCHANGED <<sess, secure, cpc, loggedIn, last, rotation>>
              ELSE Answered(IF n = 1 THEN s2c[1] ELSE NoAnswer)
      BY <1>8 DEF ClientReceive
    <2>2. c2s' = c2s /\ sealed' = sealed
      BY <1>8 DEF ClientReceive
    <2>3. CASE n = 1 /\ s2c[1].type = "NEW_MESSAGE"
      <3>1. NoncesGrow'
        BY <1>0, <2>1, <2>2, <2>3, NoSealLemma
      <3> QED  BY <2>1, <2>2, <2>3, <3>1 DEF HandshakeFirst
    <2>4. CASE ~(n = 1 /\ s2c[1].type = "NEW_MESSAGE")
      <3> DEFINE m == IF n = 1 THEN s2c[1] ELSE NoAnswer
      <3>1. n = 1 => s2c[1] \in Frame(ServerFrames)
        BY ElementOfSeq DEF TypeOK
      <3>2. NoAnswer \in Frame(ServerFrames)
        BY NoKeyType, FrameType DEF NoAnswer, ServerFrames
      <3>3. m \in Frame(ServerFrames) /\ Answered(m)
        BY <2>1, <2>4, <3>1, <3>2
      <3> QED  BY <2>2, <3>3, AnsweredNonces
    <2> QED  BY <2>3, <2>4
  <1>9. CASE ClientTimeout
    <2>1. NoAnswer \in Frame(ServerFrames) /\ Answered(NoAnswer)
      BY <1>9, NoKeyType, FrameType DEF NoAnswer, ServerFrames, ClientTimeout
    <2> QED  BY <1>9, <2>1, AnsweredNonces DEF ClientTimeout
  <1> QED
    BY <1>1, <1>2, <1>3, <1>4, <1>5, <1>6, <1>7, <1>8, <1>9 DEF ClientStep, UserStep

(* The server's turns.  A frame read alone may be the handshake, but then  *)
(* the server has sealed nothing yet; no later frame is one.               *)
LEMMA ServerReceiveNonces ==
    ASSUME NonceInv, TypeOK', ServerReceive
    PROVE  NoncesGrow' /\ HandshakeFirst'
  <1> USE DEF NonceInv, clientVars, boundVars
  <1> DEFINE mess(n) == IF n = 1 THEN c2s[1] ELSE Message("ERROR", c2s[n].rid, NoKey, 0)
  <1>1. PICK n \in 1..Len(c2s) : c2s' = Drop(n, c2s) /\ Handle(mess(n))
    BY DEF ServerReceive
  <1> DEFINE m == mess(n)
  <1>2. /\ Len(c2s) \in Nat /\ DOMAIN c2s = 1..Len(c2s)
        /\ DOMAIN c2s' = 1..(Len(c2s) - n)
        /\ \A i \in 1..(Len(c2s) - n) : c2s'[i] = c2s[i + n]
    <2>1. c2s \in Seq(Frame(ClientFrames)) /\ c2s' = Drop(n, c2s) /\ n \in 1..Len(c2s)
      BY <1>1 DEF TypeOK
    <2>2. /\ DOMAIN Drop(n, c2s) = 1..(Len(c2s) - n)
          /\ \A i \in 1..(Len(c2s) - n) : Drop(n, c2s)[i] = c2s[i + n]
      BY <2>1, DropLemma
    <2> QED  BY <2>1, <2>2, LenProperties
  <1>3. cpc # "start" /\ cpc' = cpc
    <2>1. c2s # <<>>
      BY <1>1, <1>2
    <2> QED  BY <2>1 DEF HandshakeFirst, ServerReceive
  <1>4. \A i \in DOMAIN c2s' : c2s'[i].type # "HANDSHAKE_INIT"
    <2>1. ASSUME NEW i \in 1..(Len(c2s) - n) PROVE c2s'[i].type # "HANDSHAKE_INIT"
      <3>1. i + n \in DOMAIN c2s /\ i + n # 1 /\ c2s'[i] = c2s[i + n]
        BY <1>2
      <3> QED  BY <3>1 DEF HandshakeFirst
    <2> QED  BY <1>2, <2>1
  <1>5. /\ sess["server"] \in SessionRecord
        /\ \A p \in Party : sess[p] \in Session /\ sess[p].counter \in Nat
    BY DEF TypeOK, Party, Session, SessionRecord
  <1>6. CASE Handshake(m)
    <2>1. m.type = "HANDSHAKE_INIT" /\ sealed' = sealed /\ secure'["server"] = TRUE
      BY <1>6 DEF Handshake, TypeOK, Party
    <2>2. n = 1
      BY <2>1 DEF Message
    <2>3. ~secure["server"]
      BY <1>2, <2>1, <2>2 DEF HandshakeFirst
    <2>4. \A i \in DOMAIN sealed : sealed[i].by = "client"
      <3>1. ASSUME NEW i \in DOMAIN sealed PROVE sealed[i].by = "client"
        <4>1. sealed \in Seq([by : Party, key : SessionKey, nonce : Nat])
          BY DEF TypeOK
        <4>2. i \in 1..Len(sealed)
          BY <4>1, LenProperties
        <4>3. sealed[i] \in [by : Party, key : SessionKey, nonce : Nat]
          BY <4>1, <4>2, ElementOfSeq
        <4> QED  BY <2>3, <4>3 DEF HandshakeFirst, Party
      <3> QED  BY <3>1
    <2>5. sess'["client"] = sess["client"]
      BY <1>6 DEF Handshake, TypeOK, Party
    <2>6. NoncesGrow'
      BY <2>1, <2>4, <2>5 DEF NoncesGrow
    <2>7. HandshakeFirst'
      BY <1>3, <1>4, <2>1 DEF HandshakeFirst
    <2> QED  BY <2>6, <2>7
  <1>7. CASE HandleSecureMessage(m)
    <2>1. secure["server"] /\ secure' = secure
      BY <1>7 DEF HandleSecureMessage
    <2>2. HandshakeFirst'
      BY <1>3, <1>4, <2>1 DEF HandshakeFirst
    <2>3. CASE sess' = sess /\ sealed' = sealed
      <3>1. NoncesGrow'
        BY <1>5, <2>3, NoSealLemma
      <3> QED  BY <2>2, <3>1
    <2>4. CASE ~(sess' = sess /\ sealed' = sealed)
      <3>1. /\ sealed' = Append(sealed, Seals("server"))
            /\ sess' = [sess EXCEPT !["server"] = EncryptMessage(@)]
        BY <1>7, <2>4 DEF HandleSecureMessage, SecureReply
      <3>2. NoncesGrow'
        BY <3>1, SealLemma DEF Party
      <3> QED  BY <2>2, <3>2
    <2> QED  BY <2>3, <2>4
  <1>8. CASE HandleKeyRotation(m)
    <2>1. sealed' = sealed /\ secure' = secure
      BY <1>8 DEF HandleKeyRotation
    <2>2. RotatedBy(sess["server"], m.pub).counter = sess["server"].counter
      <3>1. RotateKey(sess["server"]).counter = sess["server"].counter
        BY <1>5 DEF RotateKey, SessionRecord
      <3>2. RotateKey(sess["server"]) \in SessionRecord
        BY <1>5, SessionTypes DEF Session, SessionRecord, Party
      <3> QED  BY <3>1, <3>2 DEF RotatedBy, CompleteKeyExchange, SessionRecord
    <2>3. \A p \in Party : sess'[p].counter = sess[p].counter
      BY <1>8, <2>2 DEF HandleKeyRotation, TypeOK
    <2>4. NoncesGrow'
      BY <1>5, <2>1, <2>3, NoSealLemma
    <2> QED  BY <1>3, <1>4, <2>1, <2>4 DEF HandshakeFirst
  <1>9. CASE HandlePlain(m) \/ Reject(m)
    <2>1. sess' = sess /\ sealed' = sealed /\ secure' = secure
      BY <1>9 DEF HandlePlain, Reject
    <2>2. NoncesGrow'
      BY <1>5, <2>1, NoSealLemma
    <2> QED  BY <1>3, <1>4, <2>1, <2>2 DEF HandshakeFirst
  <1>10. CASE HandleLogout(m)
    <2>1. sealed' = sealed /\ secure' = secure
      BY <1>10 DEF HandleLogout
    <2>2. Destroy(sess["server"]).counter = sess["server"].counter
      BY <1>5 DEF Destroy, SessionRecord
    <2>3. \A p \in Party : sess'[p].counter = sess[p].counter
      BY <1>10, <2>2 DEF HandleLogout, Cleanup, TypeOK
    <2>4. NoncesGrow'
      BY <1>5, <2>1, <2>3, NoSealLemma
    <2> QED  BY <1>3, <1>4, <2>1, <2>4 DEF HandshakeFirst
  <1> QED  BY <1>1, <1>6, <1>7, <1>8, <1>9, <1>10 DEF Handle

LEMMA ServerNonces ==
    ASSUME NonceInv, TypeOK', ServerStep \/ Notify \/ (\E p \in Party : Age(p))
    PROVE  NoncesGrow' /\ HandshakeFirst'
  <1> USE DEF NonceInv, clientVars, boundVars
  <1>1. \A p \in Party : sess[p] \in Session /\ sess[p].counter \in Nat
    BY DEF TypeOK, Session
  <1>2. CASE ServerReceive
    BY <1>2, ServerReceiveNonces
  <1>3. CASE ServerSeesClose
    <2>1. sess["server"] \in SessionRecord
      BY <1>1 DEF Party, Session, SessionRecord
    <2>2. Destroy(sess["server"]).counter = sess["server"].counter
      BY <2>1 DEF Destroy, SessionRecord
    <2>3. \A p \in Party : sess'[p].counter = sess[p].counter
      BY <1>3, <2>2 DEF ServerSeesClose, Cleanup, TypeOK
    <2>4. NoncesGrow'
      BY <1>1, <1>3, <2>3, NoSealLemma DEF ServerSeesClose
    <2> QED  BY <1>3, <2>4 DEF ServerSeesClose, HandshakeFirst
  <1>4. CASE Notify
    <2>1. sess' = sess /\ sealed' = sealed
      BY <1>4 DEF Notify
    <2>2. NoncesGrow'
      BY <1>1, <2>1, NoSealLemma
    <2> QED  BY <1>4, <2>2 DEF Notify, HandshakeFirst
  <1>5. ASSUME NEW p \in Party, Age(p) PROVE NoncesGrow' /\ HandshakeFirst'
    <2>1. sess[p] \in SessionRecord
      BY <1>1 DEF Session, SessionRecord
    <2>2. [sess[p] EXCEPT !.aged = TRUE].counter = sess[p].counter
      BY <2>1 DEF SessionRecord
    <2>3. sess' = [sess EXCEPT ![p] = [sess[p] EXCEPT !.aged = TRUE]] /\ sealed' = sealed
      BY <1>5 DEF Age
    <2>4. \A r \in Party : sess'[r].counter = sess[r].counter
      BY <2>2, <2>3 DEF TypeOK
    <2>5. NoncesGrow'
      BY <1>1, <2>3, <2>4, NoSealLemma
    <2> QED  BY <1>5, <2>5 DEF Age, HandshakeFirst
  <1>6. CASE ServerReceivePart
    <2>1. sess' = sess /\ sealed' = sealed /\ secure' = secure /\ cpc' = cpc
      BY <1>6 DEF ServerReceivePart
    <2>2. NoncesGrow'
      BY <1>1, <2>1, NoSealLemma
    <2>3. PICK n \in 1..Len(c2s) : c2s' = [Drop(n - 1, c2s) EXCEPT ![1].type = "PIECE"]
      BY <1>6 DEF ServerReceivePart
    <2>4. /\ c2s \in Seq(Frame(ClientFrames)) /\ "PIECE" \in ClientFrames
          /\ Len(c2s) \in Nat /\ DOMAIN c2s = 1..Len(c2s)
      BY LenProperties DEF TypeOK, ClientFrames
    <2>5. /\ DOMAIN c2s' = 1..Len(c2s') /\ Len(c2s') \in Nat /\ c2s'[1].type = "PIECE"
          /\ \A i \in 1..Len(c2s') : /\ i + (n - 1) \in 1..Len(c2s)
                                     /\ i # 1 => c2s'[i] = c2s[i + (n - 1)]
      <3> DEFINE u == c2s'
      <3>1. u = [Drop(n - 1, c2s) EXCEPT ![1].type = "PIECE"]
        BY <2>3
      <3> HIDE DEF u
      <3>2. /\ DOMAIN u = 1..Len(u) /\ Len(u) \in Nat /\ u[1].type = "PIECE"
            /\ \A i \in 1..Len(u) : /\ i + (n - 1) \in 1..Len(c2s)
                                    /\ i # 1 => u[i] = c2s[i + (n - 1)]
        BY <2>4, <3>1, PartLemma
      <3> QED  BY <3>2 DEF u
    <2>6. ASSUME NEW i \in DOMAIN c2s' PROVE c2s'[i].type # "HANDSHAKE_INIT"
      <3>1. CASE i = 1
        BY <2>5, <3>1
      <3>2. CASE i # 1
        <4>1. i \in Nat /\ i >= 1 /\ n \in Nat /\ n >= 1
          BY <2>4, <2>5
        <4>2. i + (n - 1) # 1
          BY <3>2, <4>1
        <4> QED  BY <2>4, <2>5, <3>2, <4>2 DEF HandshakeFirst
      <3> QED  BY <3>1, <3>2
    <2>7. c2s # <<>>
      BY <2>3, <2>4
    <2> QED  BY <2>1, <2>2, <2>6, <2>7 DEF HandshakeFirst
  <1> QED  BY <1>2, <1>3, <1>4, <1>5, <1>6 DEF ServerStep

LEMMA NonceInvariant == Spec => []NonceInv
  <1>1. Init => NonceInv
    <2> SUFFICES ASSUME Init PROVE NonceInv
      OBVIOUS
    <2>1. TypeOK
      BY InitTypeOK
    <2>2. sealed = <<>> /\ c2s = <<>> /\ ~secure["server"]
      BY DEF Init, Party
    <2> QED  BY <2>1, <2>2 DEF NonceInv, NoncesGrow, HandshakeFirst
  <1>2. NonceInv /\ TypeOK' /\ [Next]_vars => NonceInv'
    <2>1. ASSUME NonceInv, TypeOK', Next PROVE NonceInv'
      BY <2>1, ClientNonces, ServerNonces DEF Next, Disturb, NonceInv
    <2>2. ASSUME NonceInv, TypeOK', UNCHANGED vars PROVE NonceInv'
      BY <2>2 DEF NonceInv, NoncesGrow, HandshakeFirst, vars, clientVars, boundVars
    <2> QED  BY <2>1, <2>2
  <1> QED  BY <1>1, <1>2, TypeCorrect, PTL DEF Spec

(* No end ever seals two messages with one key and one nonce, whatever     *)
(* rotations, lost answers, timeouts and interrupts the connection sees.   *)
THEOREM NoncesUnique == Spec => []NonceUnique
  <1>1. NonceInv => NonceUnique
    <2> SUFFICES ASSUME NonceInv,
                        NEW i \in DOMAIN sealed, NEW j \in DOMAIN sealed, i # j,
                        sealed[i].by = sealed[j].by
                 PROVE  sealed[i].nonce # sealed[j].nonce
      BY DEF NonceUnique
    <2>0. sealed \in Seq([by : Party, key : SessionKey, nonce : Nat])
      BY DEF NonceInv, TypeOK
    <2>1. i \in 1..Len(sealed) /\ j \in 1..Len(sealed) /\ Len(sealed) \in Nat
      BY <2>0, LenProperties
    <2>2. i < j \/ j < i
      BY <2>1
    <2>3. /\ sealed[i] \in [by : Party, key : SessionKey, nonce : Nat]
          /\ sealed[j] \in [by : Party, key : SessionKey, nonce : Nat]
      BY <2>0, <2>1, ElementOfSeq
    <2>4. sealed[i].nonce \in Nat /\ sealed[j].nonce \in Nat
      BY <2>3
    <2>5. sealed[i].nonce < sealed[j].nonce \/ sealed[j].nonce < sealed[i].nonce
      BY <2>2 DEF NonceInv, NoncesGrow
    <2> QED  BY <2>4, <2>5
  <1> QED  BY <1>1, NonceInvariant, PTL

-----------------------------------------------------------------------------
(* What needs both directions of the connection at once: how far the       *)
(* answers can lag behind, and, while they do not lag, that the two ends   *)
(* hold one key, do not overuse it, and that the client is the end that    *)
(* sees to that.                                                           *)

(* Answers are counted without recursion: f is a tally of frame queue s if *)
(* f[i] of its first i frames are no notifications.                        *)
One(m) == IF m.type = "NEW_MESSAGE" THEN 0 ELSE 1

Tally(f, s) ==
    /\ f \in [0..Len(s) -> Nat] /\ f[0] = 0
    /\ \A i \in 1..Len(s) : f[i] = f[i - 1] + One(s[i])
    /\ \A i, j \in 0..Len(s) : i <= j => f[i] <= f[j] /\ f[j] + i <= f[i] + j

LEMMA TallyEmpty == Tally([i \in 0..0 |-> 0], <<>>)
  BY DEF Tally

LEMMA TallyAppend ==
    ASSUME NEW T, NEW s \in Seq(T), NEW e \in T, NEW f, Tally(f, s)
    PROVE  \E g : /\ Tally(g, Append(s, e))
                  /\ \A i \in 0..Len(s) : g[i] = f[i]
                  /\ g[Len(s) + 1] = f[Len(s)] + One(e)
  <1> DEFINE n == Len(s)
             g == [i \in 0..(n + 1) |-> IF i <= n THEN f[i] ELSE f[n] + One(e)]
  <1>1. /\ n \in Nat /\ Len(Append(s, e)) = n + 1
        /\ \A i \in 1..n : Append(s, e)[i] = s[i]
        /\ Append(s, e)[n + 1] = e
    BY AppendLemma, LenProperties
  <1>2. /\ \A i \in 0..n : f[i] \in Nat
        /\ f[0] = 0 /\ One(e) \in Nat /\ One(e) <= 1
        /\ \A i \in 1..n : f[i] = f[i - 1] + One(s[i])
        /\ \A i, j \in 0..n : i <= j => f[i] <= f[j] /\ f[j] + i <= f[i] + j
    BY DEF Tally, One
  <1>3. /\ \A i \in 0..n : g[i] = f[i]
        /\ g[n + 1] = f[n] + One(e)
    BY <1>1
  <1>4. g \in [0..(n + 1) -> Nat]
    <2>1. ASSUME NEW i \in 0..(n + 1) PROVE (IF i <= n THEN f[i] ELSE f[n] + One(e)) \in Nat
      <3>1. CASE i <= n
        BY <1>1, <1>2, <3>1
      <3>2. CASE ~(i <= n)
        <4>1. f[n] \in Nat /\ One(e) \in Nat
          BY <1>1, <1>2
        <4> QED  BY <3>2, <4>1
      <3> QED  BY <3>1, <3>2
    <2> QED  BY <2>1
  <1> HIDE DEF g
  <1>5. ASSUME NEW i \in 1..(n + 1)
        PROVE  g[i] = g[i - 1] + One(Append(s, e)[i])
    <2>1. CASE i \in 1..n
      <3>1. i - 1 \in 0..n /\ i \in 0..n
        BY <1>1, <2>1
      <3> QED  BY <1>1, <1>2, <1>3, <2>1, <3>1
    <2>2. CASE i = n + 1
      <3>1. i - 1 = n /\ n \in 0..n
        BY <1>1, <2>2
      <3> QED  BY <1>1, <1>3, <2>2, <3>1
    <2> QED  BY <1>1, <2>1, <2>2
  <1>6. ASSUME NEW i \in 0..(n + 1), NEW j \in 0..(n + 1), i <= j
        PROVE  g[i] <= g[j] /\ g[j] + i <= g[i] + j
    <2>1. CASE j \in 0..n
      <3>1. i \in 0..n
        BY <1>1, <1>6, <2>1
      <3> QED  BY <1>2, <1>3, <1>6, <2>1, <3>1
    <2>2. CASE j = n + 1 /\ i \in 0..n
      <3>1. n \in 0..n /\ i <= n
        BY <1>1, <2>2
      <3>2. f[i] <= f[n] /\ f[n] + i <= f[i] + n
        BY <1>2, <2>2, <3>1
      <3>3. f[i] \in Nat /\ f[n] \in Nat
        BY <1>2, <2>2, <3>1
      <3>4. g[i] = f[i] /\ g[j] = f[n] + One(e)
        BY <1>3, <2>2
      <3>5. i \in Nat /\ n \in Nat /\ One(e) \in Nat /\ One(e) <= 1
        BY <1>1, <1>2, <2>2
      <3>6. f[i] <= f[n] + One(e) /\ (f[n] + One(e)) + i <= f[i] + (n + 1)
        <4> DEFINE a == f[i]  b == f[n]  d == One(e)
        <4>1. /\ a \in Nat /\ b \in Nat /\ d \in Nat /\ d <= 1
              /\ a <= b /\ b + i <= a + n
          BY <3>2, <3>3, <3>5
        <4> HIDE DEF a, b, d
        <4>2. a <= b + d /\ (b + d) + i <= a + (n + 1)
          BY <3>5, <4>1
        <4> QED  BY <4>2 DEF a, b, d
      <3> QED  BY <2>2, <3>4, <3>6
    <2>3. CASE j = n + 1 /\ i = n + 1
      BY <1>1, <1>4, <2>3
    <2> QED  BY <1>1, <2>1, <2>2, <2>3
  <1>7. Tally(g, Append(s, e))
    <2>1. g[0] = 0
      <3>1. 0 \in 0..n
        BY <1>1
      <3> QED  BY <1>2, <1>3, <3>1
    <2> QED  BY <1>1, <1>4, <1>5, <1>6, <2>1 DEF Tally
  <1> QED  BY <1>3, <1>7

(* g continues the tally f of l frames with p that count. *)
Continued(g, f, l, p) ==
    (\A i \in 0..l : g[i] = f[i]) /\ \A i \in 0..p : g[l + i] = f[l] + i

LEMMA RankDifference ==
    \A a, n, i, j \in Nat :
        i <= j => a + (i - n) <= a + (j - n) /\ (a + (j - n)) + i <= (a + (i - n)) + j
  OBVIOUS

(* Frames that are no notification are appended. *)
LEMMA TallyMore ==
    ASSUME NEW T, NEW s \in Seq(T), NEW f, Tally(f, s),
           NEW t, NEW p \in Nat, NEW q, Lengthened(t, s, p, q)
    PROVE  \E g : Tally(g, t) /\ Continued(g, f, Len(s), p)
  <1> DEFINE n == Len(s)  a == f[n]
             g == [i \in 0..(n + p) |-> IF i <= n THEN f[i] ELSE a + (i - n)]
  <1>1. n \in Nat
    BY LenProperties
  <1>0. /\ Len(t) = n + p /\ \A i \in 1..n : t[i] = s[i]
        /\ \A i \in 1..p : One(t[n + i]) = 1
    BY DEF Lengthened, One
  <1>2. /\ \A i \in 0..n : f[i] \in Nat
        /\ f[0] = 0 /\ a \in Nat
        /\ \A i \in 1..n : f[i] = f[i - 1] + One(s[i])
        /\ \A i, j \in 0..n : i <= j => f[i] <= f[j] /\ f[j] + i <= f[i] + j
    <2>1. n \in 0..n
      BY <1>1
    <2> QED  BY <2>1 DEF Tally
  <1>3. /\ \A i \in 0..n : g[i] = f[i]
        /\ \A i \in 0..p : g[n + i] = a + i
    <2>1. ASSUME NEW i \in 0..n PROVE g[i] = f[i]
      BY <1>1
    <2>2. ASSUME NEW i \in 0..p PROVE g[n + i] = a + i
      <3>1. CASE i = 0
        <4>3. \A y \in Nat : y + 0 = y /\ y \in 0..y
          OBVIOUS
        <4>1. n + i = n /\ n \in 0..n /\ a + i = a
          BY <1>1, <1>2, <3>1, <4>3
        <4>2. g[n] = f[n]
          BY <2>1, <4>1
        <4> HIDE DEF g, n
        <4> QED  BY <4>1, <4>2
      <3>2. CASE i # 0
        BY <1>1, <3>2
      <3> QED  BY <3>1, <3>2
    <2> QED  BY <2>1, <2>2
  <1> HIDE DEF g, a, n
  <1>4. ASSUME NEW i \in 0..(n + p) PROVE i \in 0..n \/ (i - n \in 1..p /\ i = n + (i - n))
    BY <1>1
  <1>5. g \in [0..(n + p) -> Nat]
    <2>1. ASSUME NEW i \in 0..(n + p) PROVE (IF i <= n THEN f[i] ELSE a + (i - n)) \in Nat
      <3>1. CASE i <= n
        BY <1>1, <1>2, <3>1
      <3>2. CASE ~(i <= n)
        BY <1>1, <1>2, <3>2
      <3> QED  BY <3>1, <3>2
    <2> QED  BY <2>1 DEF g
  <1>6. ASSUME NEW i \in 1..(n + p)
        PROVE  g[i] = g[i - 1] + One(t[i])
    <2>1. CASE i \in 0..n
      <3>1. i \in 1..n /\ i - 1 \in 0..n
        BY <1>1, <2>1
      <3> QED  BY <1>0, <1>2, <1>3, <2>1, <3>1
    <2>2. CASE i - n \in 1..p /\ i = n + (i - n)
      <3> DEFINE m == i - n
      <3>1. m \in 0..p /\ m - 1 \in 0..p /\ m \in 1..p /\ i = n + m /\ i - 1 = n + (m - 1)
        BY <1>1, <2>2
      <3>2. g[i] = a + m /\ g[i - 1] = a + (m - 1) /\ One(t[i]) = 1
        BY <1>0, <1>3, <3>1
      <3> QED  BY <1>1, <1>2, <3>1, <3>2
    <2> QED  BY <1>1, <1>4, <2>1, <2>2
  <1>7. ASSUME NEW i \in 0..(n + p), NEW j \in 0..(n + p), i <= j
        PROVE  g[i] <= g[j] /\ g[j] + i <= g[i] + j
    <2>1. CASE j \in 0..n
      <3>1. i \in 0..n
        BY <1>1, <1>7, <2>1
      <3> QED  BY <1>2, <1>3, <1>7, <2>1, <3>1
    <2>2. CASE j - n \in 1..p /\ j = n + (j - n) /\ i \in 0..n
      <3> DEFINE b == f[i]
      <3>1. n \in 0..n /\ i <= n /\ j - n \in 0..p
        BY <1>1, <2>2
      <3>2. b <= a /\ a + i <= b + n /\ b \in Nat
        BY <1>2, <2>2, <3>1 DEF a
      <3>3. g[i] = b /\ g[j] = a + (j - n)
        BY <1>3, <2>2, <3>1
      <3> HIDE DEF b
      <3>4. b <= a + (j - n) /\ (a + (j - n)) + i <= b + j
        BY <1>1, <1>2, <2>2, <3>1, <3>2
      <3> QED  BY <3>3, <3>4
    <2>3. CASE j - n \in 1..p /\ i - n \in 1..p
      <3>1. j - n \in 0..p /\ i - n \in 0..p /\ j = n + (j - n) /\ i = n + (i - n)
        BY <1>1, <2>3
      <3>2. g[i] = a + (i - n) /\ g[j] = a + (j - n)
        BY <1>3, <3>1
      <3>3. a + (i - n) <= a + (j - n) /\ (a + (j - n)) + i <= (a + (i - n)) + j
        <4>1. a \in Nat /\ n \in Nat /\ i \in Nat /\ j \in Nat
          BY <1>1, <1>2
        <4> QED  BY <1>7, <4>1, RankDifference
      <3> QED  BY <3>2, <3>3
    <2> QED  BY <1>1, <1>4, <1>7, <2>1, <2>2, <2>3
  <1>8. g[0] = 0
    <2>1. 0 \in 0..n
      BY <1>1
    <2> QED  BY <1>2, <1>3, <2>1
  <1>9. Tally(g, t)
    BY <1>0, <1>5, <1>6, <1>7, <1>8 DEF Tally
  <1> QED  BY <1>3, <1>9 DEF Continued, n, a

LEMMA TallyDrop ==
    ASSUME NEW T, NEW s \in Seq(T), NEW n \in 1..Len(s), NEW f, Tally(f, s)
    PROVE  \E g : /\ Tally(g, Drop(n, s))
                  /\ \A i \in 0..(Len(s) - n) : g[i] + f[n] = f[i + n]
  <1> DEFINE l == Len(s) - n
             g == [i \in 0..l |-> f[i + n] - f[n]]
  <1>1. /\ Len(s) \in Nat /\ n \in Nat /\ n >= 1 /\ n <= Len(s) /\ l \in Nat
        /\ Len(Drop(n, s)) = l
        /\ \A i \in 1..l : Drop(n, s)[i] = s[i + n]
    <2>1. /\ Drop(n, s) \in Seq(T) /\ DOMAIN Drop(n, s) = 1..(Len(s) - n)
          /\ \A i \in 1..(Len(s) - n) : Drop(n, s)[i] = s[i + n]
      BY DropLemma
    <2>2. Len(s) \in Nat /\ n \in Nat /\ n >= 1 /\ n <= Len(s)
      BY LenProperties
    <2>3. Len(Drop(n, s)) = Len(s) - n
      BY <2>1, <2>2, LenProperties
    <2> QED  BY <2>1, <2>2, <2>3
  <1>2. /\ \A i \in 0..Len(s) : f[i] \in Nat
        /\ \A i \in 1..Len(s) : f[i] = f[i - 1] + One(s[i])
        /\ \A i, j \in 0..Len(s) : i <= j => f[i] <= f[j] /\ f[j] + i <= f[i] + j
    BY DEF Tally
  <1>3. ASSUME NEW i \in 0..l
        PROVE  g[i] \in Nat /\ g[i] + f[n] = f[i + n]
    <2>1. i + n \in 0..Len(s) /\ n \in 0..Len(s) /\ n <= i + n
      BY <1>1
    <2>2. f[i + n] \in Nat /\ f[n] \in Nat /\ f[n] <= f[i + n]
      BY <1>2, <2>1
    <2> QED  BY <2>2
  <1>4. g \in [0..l -> Nat]
    BY <1>3
  <1> HIDE DEF g
  <1>5. f[n] \in Nat
    BY <1>1, <1>2
  <1>6. g[0] = 0
    <2>1. 0 \in 0..l /\ 0 + n = n
      BY <1>1
    <2>2. g[0] \in Nat /\ g[0] + f[n] = f[n]
      BY <1>3, <2>1
    <2> QED  BY <1>5, <2>2
  <1>7. ASSUME NEW i \in 1..l
        PROVE  g[i] = g[i - 1] + One(Drop(n, s)[i])
    <2>1. i \in 0..l /\ i - 1 \in 0..l /\ i + n \in 1..Len(s) /\ (i - 1) + n = (i + n) - 1
      BY <1>1
    <2>2. /\ g[i] + f[n] = f[i + n] /\ g[i - 1] + f[n] = f[(i - 1) + n]
          /\ g[i] \in Nat /\ g[i - 1] \in Nat
      BY <1>3, <2>1
    <2>3. f[i + n] = f[(i + n) - 1] + One(s[i + n])
      BY <1>2, <2>1
    <2>6. f[i + n] \in Nat /\ f[(i + n) - 1] \in Nat
      <3>1. i + n \in 0..Len(s) /\ (i + n) - 1 \in 0..Len(s)
        BY <1>1, <2>1
      <3> QED  BY <1>2, <3>1
    <2>4. Drop(n, s)[i] = s[i + n]
      BY <1>1
    <2>5. One(s[i + n]) \in Nat
      BY DEF One
    <2> HIDE DEF One
    <2>7. f[i + n] = f[(i - 1) + n] + One(s[i + n])
      BY <2>1, <2>3
    <2>8. f[(i - 1) + n] \in Nat
      BY <2>1, <2>6
    <2>9. g[i] = g[i - 1] + One(s[i + n])
      <3> DEFINE a == g[i]  b == g[i - 1]  x == f[i + n]  y == f[(i - 1) + n]
                 z == f[n]  e == One(s[i + n])
      <3>1. /\ a \in Nat /\ b \in Nat /\ x \in Nat /\ y \in Nat /\ z \in Nat /\ e \in Nat
            /\ a + z = x /\ b + z = y /\ x = y + e
        BY <1>5, <2>2, <2>5, <2>6, <2>7, <2>8
      <3> HIDE DEF a, b, x, y, z, e
      <3>2. a = b + e
        BY <3>1
      <3> QED  BY <3>2 DEF a, b, e
    <2> QED  BY <2>4, <2>9
  <1>8. ASSUME NEW i \in 0..l, NEW j \in 0..l, i <= j
        PROVE  g[i] <= g[j] /\ g[j] + i <= g[i] + j
    <2>1. i + n \in 0..Len(s) /\ j + n \in 0..Len(s) /\ i + n <= j + n
      BY <1>1, <1>8
    <2>2. f[i + n] <= f[j + n] /\ f[j + n] + (i + n) <= f[i + n] + (j + n)
      BY <1>2, <2>1
    <2>3. /\ g[i] \in Nat /\ g[i] + f[n] = f[i + n]
          /\ g[j] \in Nat /\ g[j] + f[n] = f[j + n]
      BY <1>3
    <2>4. f[i + n] \in Nat /\ f[j + n] \in Nat
      BY <1>2, <2>1
    <2>5. i \in Nat /\ j \in Nat /\ n \in Nat
      BY <1>1
    <2> DEFINE a == g[i]  b == g[j]  x == f[i + n]  y == f[j + n]  z == f[n]
    <2>6. /\ a \in Nat /\ b \in Nat /\ x \in Nat /\ y \in Nat /\ z \in Nat
          /\ a + z = x /\ b + z = y /\ x <= y /\ y + (i + n) <= x + (j + n)
      BY <1>5, <2>2, <2>3, <2>4
    <2> HIDE DEF a, b, x, y, z
    <2>7. a <= b /\ b + i <= a + j
      BY <2>5, <2>6
    <2> QED  BY <2>7 DEF a, b
  <1>9. Tally(g, Drop(n, s))
    BY <1>1, <1>4, <1>6, <1>7, <1>8 DEF Tally
  <1> QED  BY <1>3, <1>9
-----------------------------------------------------------------------------
(* How far behind the answers are.  s and c are the queues towards the     *)
(* client and towards the server, r frames were sent, slot is 1 while the  *)
(* client could send another, w notifications wait in s, n were pushed in  *)
(* all, and d receives were ended by a timeout or by the rest of a long    *)
(* answer.  The requests and answers on their way exceed one by at most d  *)
(* and half of the notifications already received; and so does the rank of *)
(* the frame that each of them belongs to, counted from the last one sent. *)
Owed(x, y, w, n, d) == 2 * x + w <= n + 2 * (d + y)

Within(f, s, c, slot, r, w, n, d) ==
    /\ Tally(f, s) /\ Len(s) = f[Len(s)] + w /\ w <= n
    /\ Owed(slot + f[Len(s)] + Len(c), 1, w, n, d)
    /\ \A i \in 1..Len(s) : s[i].type # "NEW_MESSAGE" =>
          s[i].rid <= r /\ Owed(slot + r + f[i - 1], s[i].rid, w, n, d)
    /\ \A j \in 1..Len(c) :
          c[j].rid <= r /\ Owed(slot + r + f[Len(s)] + j, c[j].rid + 1, w, n, d)

(* What is owed may be less, or for more, or with more allowed. *)
LEMMA OwedMore ==
    ASSUME NEW x \in Nat, NEW y \in Nat, NEW w \in Nat, NEW n \in Nat, NEW d \in Nat,
           Owed(x, y, w, n, d), NEW x2 \in Nat, NEW y2 \in Nat, NEW d2 \in Nat,
           x2 + y + d <= x + y2 + d2
    PROVE  Owed(x2, y2, w, n, d2)
  BY DEF Owed

LEMMA FrameFacts ==
    ASSUME NEW T, NEW s \in Seq(Frame(T))
    PROVE  Len(s) \in Nat /\ DOMAIN s = 1..Len(s) /\ \A i \in 1..Len(s) : s[i].rid \in Nat
  <1>1. Len(s) \in Nat /\ DOMAIN s = 1..Len(s)
    BY LenProperties
  <1>2. ASSUME NEW i \in 1..Len(s) PROVE s[i].rid \in Nat
    <2>1. s[i] \in Frame(T)
      BY ElementOfSeq
    <2> QED  BY <2>1 DEF Frame
  <1> QED  BY <1>1, <1>2

(* What can be added up. *)
LEMMA OperandTypes ==
    ASSUME NEW S, NEW s \in Seq(Frame(S)), NEW C, NEW c \in Seq(Frame(C)), NEW f, Tally(f, s)
    PROVE  /\ Len(s) \in Nat /\ Len(c) \in Nat /\ f[Len(s)] \in Nat
           /\ \A i \in 1..Len(s) : f[i - 1] \in Nat /\ s[i].rid \in Nat
           /\ \A j \in 1..Len(c) : c[j].rid \in Nat
  <1>1. /\ Len(s) \in Nat /\ Len(c) \in Nat
        /\ \A i \in 1..Len(s) : s[i].rid \in Nat
        /\ \A j \in 1..Len(c) : c[j].rid \in Nat
    BY FrameFacts
  <1>2. \A i \in 0..Len(s) : f[i] \in Nat
    BY DEF Tally
  <1>3. Len(s) \in 0..Len(s) /\ \A i \in 1..Len(s) : i - 1 \in 0..Len(s)
    BY <1>1
  <1> QED  BY <1>1, <1>2, <1>3

LEMMA DropLen ==
    ASSUME NEW T, NEW s \in Seq(T), NEW k \in 1..Len(s)
    PROVE  /\ k \in Nat /\ k >= 1 /\ Len(Drop(k, s)) \in Nat /\ Len(Drop(k, s)) + k = Len(s)
           /\ \A i \in 1..Len(Drop(k, s)) : Drop(k, s)[i] = s[i + k] /\ i + k \in 1..Len(s)
  <1>1. /\ Drop(k, s) \in Seq(T) /\ DOMAIN Drop(k, s) = 1..(Len(s) - k)
        /\ \A i \in 1..(Len(s) - k) : Drop(k, s)[i] = s[i + k]
    BY DropLemma
  <1>2. Len(s) \in Nat /\ k \in Nat /\ k >= 1 /\ k <= Len(s)
    BY LenProperties
  <1>3. Len(Drop(k, s)) = Len(s) - k
    BY <1>1, <1>2, LenProperties
  <1> QED  BY <1>1, <1>2, <1>3

(* The client sends a frame e and waits. *)
LEMMA WithinSend ==
    ASSUME NEW S, NEW s \in Seq(Frame(S)), NEW C, NEW c \in Seq(Frame(C)),
           NEW r \in Nat, NEW w \in Nat, NEW n \in Nat, NEW d \in Nat, NEW f,
           Within(f, s, c, 1, r, w, n, d), NEW e \in Frame(C), e.rid = r + 1
    PROVE  Within(f, s, Append(c, e), 0, r + 1, w, n, d)
  <1> DEFINE a == f[Len(s)]
  <1>1. /\ Len(s) \in Nat /\ Len(c) \in Nat /\ a \in Nat
        /\ \A i \in 1..Len(s) : f[i - 1] \in Nat /\ s[i].rid \in Nat
        /\ \A j \in 1..Len(c) : c[j].rid \in Nat
    BY OperandTypes DEF Within
  <1>2. /\ Len(Append(c, e)) = Len(c) + 1 /\ Append(c, e)[Len(c) + 1] = e
        /\ \A j \in 1..Len(c) : Append(c, e)[j] = c[j]
    BY AppendLemma
  <1>3. Owed(0 + a + Len(Append(c, e)), 1, w, n, d)
    <2>1. Owed(1 + a + Len(c), 1, w, n, d)
      BY DEF Within
    <2>2. a \in Nat /\ Len(c) \in Nat /\ Len(Append(c, e)) = Len(c) + 1
      BY <1>1, <1>2
    <2> HIDE DEF a
    <2>3. Owed(0 + a + Len(Append(c, e)), 1, w, n, d)
      BY <2>1, <2>2 DEF Owed
    <2> QED  BY <2>3 DEF a
  <1>4. ASSUME NEW i \in 1..Len(s), s[i].type # "NEW_MESSAGE"
        PROVE  s[i].rid <= r + 1 /\ Owed(0 + (r + 1) + f[i - 1], s[i].rid, w, n, d)
    <2> DEFINE b == f[i - 1]  q == s[i].rid
    <2>1. b \in Nat /\ q \in Nat /\ q <= r /\ Owed(1 + r + b, q, w, n, d)
      BY <1>1, <1>4 DEF Within
    <2> HIDE DEF b, q
    <2>2. q <= r + 1 /\ Owed(0 + (r + 1) + b, q, w, n, d)
      BY <2>1 DEF Owed
    <2> QED  BY <2>2 DEF b, q
  <1>5. ASSUME NEW j \in 1..Len(Append(c, e))
        PROVE  /\ Append(c, e)[j].rid <= r + 1
               /\ Owed(0 + (r + 1) + a + j, Append(c, e)[j].rid + 1, w, n, d)
    <2> DEFINE q == Append(c, e)[j].rid  l == Len(c)
    <2>1. CASE j \in 1..Len(c)
      <3>1. /\ q \in Nat /\ q <= r /\ j \in Nat
            /\ Owed(1 + r + a + j, q + 1, w, n, d)
        <4>1. q = c[j].rid
          BY <1>2, <2>1
        <4>2. /\ c[j].rid \in Nat /\ c[j].rid <= r /\ j \in Nat
              /\ Owed(1 + r + a + j, c[j].rid + 1, w, n, d)
          <5>1. c[j].rid \in Nat /\ j \in Nat
            BY <1>1, <2>1
          <5> QED  BY <2>1, <5>1 DEF Within
        <4> HIDE DEF q
        <4> QED  BY <4>1, <4>2
      <3>2. a \in Nat
        BY <1>1
      <3> HIDE DEF a, q
      <3>3. q <= r + 1 /\ Owed(0 + (r + 1) + a + j, q + 1, w, n, d)
        BY <3>1, <3>2 DEF Owed
      <3> QED  BY <3>3 DEF a, q
    <2>2. CASE j = Len(c) + 1
      <3>1. Owed(1 + a + l, 1, w, n, d)
        BY DEF Within
      <3>2. q = r + 1 /\ j = l + 1 /\ l \in Nat /\ a \in Nat
        BY <1>1, <1>2, <2>2
      <3> HIDE DEF a, q, l
      <3>3. q <= r + 1 /\ Owed(0 + (r + 1) + a + j, q + 1, w, n, d)
        BY <3>1, <3>2 DEF Owed
      <3> QED  BY <3>3 DEF a, q
    <2> QED  BY <1>1, <1>2, <2>1, <2>2
  <1> QED  BY <1>3, <1>4, <1>5 DEF Within

(* The client ends a receive, more receives may have been disturbed, or    *)
(* another notification is pushed; the queues stay as they are.            *)
LEMMA WithinWait ==
    ASSUME NEW S, NEW s \in Seq(Frame(S)), NEW C, NEW c \in Seq(Frame(C)),
           NEW slot \in Nat, NEW r \in Nat, NEW w \in Nat, NEW n \in Nat, NEW d \in Nat, NEW f,
           Within(f, s, c, slot, r, w, n, d),
           NEW slot2 \in Nat, NEW d2 \in Nat, slot2 + d <= slot + d2, d <= d2
    PROVE  Within(f, s, c, slot2, r, w, n, d2)
  <1> DEFINE a == f[Len(s)]
  <1>1. /\ Len(s) \in Nat /\ Len(c) \in Nat /\ a \in Nat
        /\ \A i \in 1..Len(s) : f[i - 1] \in Nat /\ s[i].rid \in Nat
        /\ \A j \in 1..Len(c) : c[j].rid \in Nat
    BY OperandTypes DEF Within
  <1>3. Owed(slot2 + a + Len(c), 1, w, n, d2)
    <2>1. Owed(slot + a + Len(c), 1, w, n, d)
      BY DEF Within
    <2>2. a \in Nat /\ Len(c) \in Nat
      BY <1>1
    <2> HIDE DEF a
    <2>3. Owed(slot2 + a + Len(c), 1, w, n, d2)
      BY <2>1, <2>2 DEF Owed
    <2> QED  BY <2>3 DEF a
  <1>4. ASSUME NEW i \in 1..Len(s), s[i].type # "NEW_MESSAGE"
        PROVE  s[i].rid <= r /\ Owed(slot2 + r + f[i - 1], s[i].rid, w, n, d2)
    <2> DEFINE b == f[i - 1]  q == s[i].rid
    <2>1. b \in Nat /\ q \in Nat /\ q <= r /\ Owed(slot + r + b, q, w, n, d)
      BY <1>1, <1>4 DEF Within
    <2> HIDE DEF b, q
    <2>2. q <= r /\ Owed(slot2 + r + b, q, w, n, d2)
      BY <2>1 DEF Owed
    <2> QED  BY <2>2 DEF b, q
  <1>5. ASSUME NEW j \in 1..Len(c)
        PROVE  c[j].rid <= r /\ Owed(slot2 + r + a + j, c[j].rid + 1, w, n, d2)
    <2> DEFINE q == c[j].rid
    <2>1. /\ q \in Nat /\ q <= r /\ j \in Nat /\ Owed(slot + r + a + j, q + 1, w, n, d)
      <3>1. c[j].rid \in Nat
        BY <1>1
      <3>2. j \in Nat
        BY <1>1
      <3> QED  BY <3>1, <3>2 DEF Within
    <2>3. a \in Nat
      BY <1>1
    <2> HIDE DEF a, q
    <2>2. q <= r /\ Owed(slot2 + r + a + j, q + 1, w, n, d2)
      BY <2>1, <2>3 DEF Owed
    <2> QED  BY <2>2 DEF a, q
  <1> QED  BY <1>3, <1>4, <1>5 DEF Within
(* The client receives k frames.  Ending a receive takes an answer or two  *)
(* notifications.                                                          *)
LEMMA WithinTake ==
    ASSUME NEW S, NEW s \in Seq(Frame(S)), NEW C, NEW c \in Seq(Frame(C)),
           NEW slot \in Nat, NEW r \in Nat, NEW w \in Nat, NEW n \in Nat, NEW d \in Nat, NEW f,
           Within(f, s, c, slot, r, w, n, d),
           NEW k \in 1..Len(s), NEW slot2 \in Nat, slot2 <= slot + 1,
           slot2 <= slot \/ k + f[k] >= 2
    PROVE  \E g, w2 : /\ w2 \in Nat /\ Within(g, Drop(k, s), c, slot2, r, w2, n, d)
                      /\ w2 + k = w + f[k]
  <1> DEFINE a == f[Len(s)]
  <1>1. /\ Len(s) \in Nat /\ Len(c) \in Nat /\ a \in Nat
        /\ \A i \in 1..Len(s) : f[i - 1] \in Nat /\ s[i].rid \in Nat
        /\ \A j \in 1..Len(c) : c[j].rid \in Nat
    BY OperandTypes DEF Within
  <1> DEFINE t == Drop(k, s)  l == Len(t)  b == f[k]
  <1>2. /\ k \in Nat /\ l \in Nat /\ l + k = Len(s)
        /\ \A i \in 1..l : t[i] = s[i + k] /\ i + k \in 1..Len(s)
    BY DropLen
  <1>3. PICK g : Tally(g, t) /\ \A i \in 0..l : g[i] + b = f[i + k]
    <2>1. PICK g : Tally(g, t) /\ \A i \in 0..(Len(s) - k) : g[i] + b = f[i + k]
      BY TallyDrop DEF Within
    <2>2. l = Len(s) - k
      <3>1. k \in Nat /\ l \in Nat /\ l + k = Len(s) /\ Len(s) \in Nat
        BY <1>1, <1>2
      <3> HIDE DEF l, t
      <3> QED  BY <3>1
    <2> QED  BY <2>1, <2>2
  <1>4. /\ b \in Nat /\ b <= a /\ a + k <= b + Len(s) /\ Len(s) = a + w /\ w <= n
    <2>1. k \in 0..Len(s) /\ Len(s) \in 0..Len(s) /\ k <= Len(s)
      BY <1>1
    <2> QED  BY <2>1 DEF Within, Tally
  <1> DEFINE w2 == w + b - k
  <1>5. w2 \in Nat /\ w2 + k = w + b /\ w2 <= n /\ b <= k
    <2>1. b <= k
      <3>1. k \in 0..Len(s) /\ 0 \in 0..Len(s) /\ 0 <= k
        BY <1>1
      <3>2. f[k] + 0 <= f[0] + k /\ f[0] = 0
        BY <3>1 DEF Within, Tally
      <3> QED  BY <1>2, <1>4, <3>2
    <2>2. a \in Nat /\ Len(s) \in Nat /\ k \in Nat /\ k <= Len(s)
      BY <1>1
    <2> DEFINE z == Len(s)
    <2>3. z = a + w /\ a + k <= b + z /\ b \in Nat /\ w <= n /\ k <= z /\ a \in Nat /\ z \in Nat
      BY <1>4, <2>2
    <2> HIDE DEF a, b, l, t, z
    <2>4. w + b - k \in Nat /\ (w + b - k) + k = w + b /\ w + b - k <= n
      BY <2>1, <2>2, <2>3
    <2> QED  BY <2>1, <2>4
  <1>6. /\ \A i \in 0..l : g[i] \in Nat
        /\ \A i \in 1..l : g[i - 1] \in Nat /\ g[i - 1] + b = f[(i + k) - 1] /\ i + k \in 1..Len(s)
        /\ g[l] + b = a
    <2>1. \A i \in 0..l : g[i] \in Nat
      BY <1>2, <1>3 DEF Tally
    <2>2. ASSUME NEW i \in 1..l
          PROVE  g[i - 1] \in Nat /\ g[i - 1] + b = f[(i + k) - 1] /\ i + k \in 1..Len(s)
      <3>1. i - 1 \in 0..l /\ (i - 1) + k = (i + k) - 1 /\ i + k \in 1..Len(s)
        BY <1>2
      <3>2. g[i - 1] + b = f[(i - 1) + k]
        BY <1>3, <3>1
      <3> QED  BY <2>1, <3>1, <3>2
    <2>3. l \in 0..l
      BY <1>2
    <2> QED  BY <1>2, <1>3, <2>1, <2>2, <2>3
  <1>7. g[l] \in Nat /\ l = g[l] + w2
    <2> DEFINE z == g[l]
    <2>1. /\ z \in Nat /\ z + b = a /\ b \in Nat /\ a \in Nat /\ l \in Nat /\ l + k = a + w
          /\ w2 \in Nat /\ w2 + k = w + b /\ k \in Nat
      <3>1. l \in 0..l
        BY <1>2
      <3> QED  BY <1>1, <1>2, <1>4, <1>5, <1>6, <3>1
    <2> HIDE DEF z, b, a, w2, l
    <2>2. l = z + w2
      BY <2>1
    <2> QED  BY <2>1, <2>2 DEF z
  <1> HIDE DEF w2
  <1>8. /\ slot2 <= slot \/ (slot2 <= slot + 1 /\ k + b >= 2)
        /\ k \in Nat /\ w2 \in Nat /\ w2 + k = w + b /\ w2 <= n /\ b <= k /\ b \in Nat
    BY <1>2, <1>4, <1>5
  <1>9. Owed(slot2 + g[l] + Len(c), 1, w2, n, d)
    <2> DEFINE z == g[l]  v == Len(c)
    <2>1. Owed(slot + a + v, 1, w, n, d)
      BY DEF Within
    <2>2. z \in Nat /\ z + b = a /\ v \in Nat /\ b \in Nat
      BY <1>1, <1>4, <1>6, <1>7
    <2> HIDE DEF a, b, z, t, l, v
    <2>3. Owed(slot2 + z + v, 1, w2, n, d)
      <3>1. CASE slot2 <= slot
        BY <1>8, <2>1, <2>2, <3>1 DEF Owed
      <3>2. CASE slot2 <= slot + 1 /\ k + b >= 2
        BY <1>8, <2>1, <2>2, <3>2 DEF Owed
      <3> QED  BY <1>8, <3>1, <3>2
    <2> QED  BY <2>3 DEF z, l, t, v
  <1>10. ASSUME NEW i \in 1..l, t[i].type # "NEW_MESSAGE"
         PROVE  t[i].rid <= r /\ Owed(slot2 + r + g[i - 1], t[i].rid, w2, n, d)
    <2> DEFINE x == f[(i + k) - 1]  y == g[i - 1]  q == t[i].rid
    <2>1. /\ i + k \in 1..Len(s) /\ t[i] = s[i + k] /\ y \in Nat /\ y + b = x
      BY <1>2, <1>6
    <2>2. q \in Nat /\ q <= r /\ Owed(slot + r + x, q, w, n, d)
      BY <1>1, <1>10, <2>1 DEF Within
    <2>3. y \in Nat /\ y + b = x
      BY <2>1
    <2> HIDE DEF b, x, y, q, t, l
    <2>4. q <= r /\ Owed(slot2 + r + y, q, w2, n, d)
      <3>1. CASE slot2 <= slot
        BY <1>8, <2>2, <2>3, <3>1 DEF Owed
      <3>2. CASE slot2 <= slot + 1 /\ k + b >= 2
        BY <1>8, <2>2, <2>3, <3>2 DEF Owed
      <3> QED  BY <1>8, <3>1, <3>2
    <2> QED  BY <2>4 DEF y, q, t, l
  <1>11. ASSUME NEW j \in 1..Len(c)
         PROVE  c[j].rid <= r /\ Owed(slot2 + r + g[l] + j, c[j].rid + 1, w2, n, d)
    <2> DEFINE q == c[j].rid  z == g[l]  x == r + j  y == q + 1
    <2>1. q \in Nat /\ q <= r /\ j \in Nat /\ Owed(slot + r + a + j, q + 1, w, n, d)
      <3>1. c[j].rid \in Nat
        BY <1>1
      <3>2. j \in Nat
        BY <1>1
      <3> QED  BY <3>1, <3>2 DEF Within
    <2>2. z \in Nat /\ z + b = a /\ b \in Nat
      BY <1>4, <1>6, <1>7
    <2>3. /\ x \in Nat /\ y \in Nat /\ Owed(slot + a + x, y, w, n, d)
      <3> HIDE DEF a, b, q, z, t, l
      <3>1. a \in Nat
        BY <2>2
      <3> QED  BY <2>1, <3>1 DEF Owed
    <2> HIDE DEF a, b, q, z, t, l, x, y
    <2>4. Owed(slot2 + z + x, y, w2, n, d)
      <3>1. CASE slot2 <= slot
        BY <1>8, <2>2, <2>3, <3>1 DEF Owed
      <3>2. CASE slot2 <= slot + 1 /\ k + b >= 2
        BY <1>8, <2>2, <2>3, <3>2 DEF Owed
      <3> QED  BY <1>8, <3>1, <3>2
    <2>5. q <= r /\ Owed(slot2 + r + z + j, q + 1, w2, n, d)
      BY <2>1, <2>2, <2>4 DEF Owed, x, y
    <2> QED  BY <2>5 DEF q, z, l, t
  <1>12. Within(g, t, c, slot2, r, w2, n, d)
    BY <1>2, <1>3, <1>5, <1>7, <1>9, <1>10, <1>11 DEF Within
  <1> QED  BY <1>5, <1>12

(* Another thread pushes a notification e. *)
LEMMA WithinNote ==
    ASSUME NEW S, NEW s \in Seq(Frame(S)), NEW C, NEW c \in Seq(Frame(C)),
           NEW slot \in Nat, NEW r \in Nat, NEW w \in Nat, NEW n \in Nat, NEW d \in Nat, NEW f,
           Within(f, s, c, slot, r, w, n, d),
           NEW e \in Frame(S), e.type = "NEW_MESSAGE"
    PROVE  \E g : Within(g, Append(s, e), c, slot, r, w + 1, n + 1, d)
  <1> DEFINE a == f[Len(s)]
  <1>1. /\ Len(s) \in Nat /\ Len(c) \in Nat /\ a \in Nat
        /\ \A i \in 1..Len(s) : f[i - 1] \in Nat /\ s[i].rid \in Nat
        /\ \A j \in 1..Len(c) : c[j].rid \in Nat
    BY OperandTypes DEF Within
  <1> DEFINE t == Append(s, e)  l == Len(s)
  <1>2. /\ Len(t) = l + 1 /\ t[l + 1] = e /\ \A i \in 1..l : t[i] = s[i]
    BY AppendLemma
  <1>3. PICK g : /\ Tally(g, t) /\ (\A i \in 0..l : g[i] = f[i]) /\ g[l + 1] = a + One(e)
    BY TallyAppend DEF Within
  <1>4. /\ \A i \in 1..l : g[i - 1] = f[i - 1]
        /\ g[(l + 1) - 1] = a /\ g[Len(t)] = a + One(e)
    <2>1. /\ \A i \in 1..l : i - 1 \in 0..l
          /\ (l + 1) - 1 = l /\ l \in 0..l
      BY <1>1
    <2> QED  BY <1>2, <1>3, <2>1
  <1>5. One(e) = 0
    BY DEF One
  <1>6. Len(t) = g[Len(t)] + (w + 1) /\ w + 1 <= n + 1 /\ g[Len(t)] = a
    <2>1. l = a + w /\ w <= n
      BY DEF Within
    <2>2. g[Len(t)] = a /\ a \in Nat
      BY <1>1, <1>4, <1>5
    <2>3. Len(t) = l + 1 /\ l \in Nat
      BY <1>1, <1>2
    <2> HIDE DEF a, l, t
    <2> QED  BY <2>1, <2>2, <2>3
  <1>7. Owed(slot + g[Len(t)] + Len(c), 1, w + 1, n + 1, d)
    <2>1. Owed(slot + a + Len(c), 1, w, n, d) /\ a \in Nat /\ Len(c) \in Nat
      BY <1>1 DEF Within
    <2> HIDE DEF a
    <2>2. Owed(slot + a + Len(c), 1, w + 1, n + 1, d)
      BY <2>1 DEF Owed
    <2> QED  BY <1>6, <2>2
  <1>8. ASSUME NEW i \in 1..Len(t), t[i].type # "NEW_MESSAGE"
        PROVE  t[i].rid <= r /\ Owed(slot + r + g[i - 1], t[i].rid, w + 1, n + 1, d)
    <2> DEFINE x == f[i - 1]  q == s[i].rid
    <2>1. i \in 1..l /\ t[i] = s[i] /\ g[i - 1] = f[i - 1]
      <3>1. i # l + 1
        BY <1>2, <1>8
      <3>2. i \in 1..l
        BY <1>1, <1>2, <3>1
      <3> QED  BY <1>2, <1>4, <3>2
    <2>2. q \in Nat /\ q <= r /\ x \in Nat /\ Owed(slot + r + x, q, w, n, d)
      BY <1>1, <1>8, <2>1 DEF Within
    <2> HIDE DEF x, q
    <2>3. q <= r /\ Owed(slot + r + x, q, w + 1, n + 1, d)
      BY <2>2 DEF Owed
    <2> QED  BY <2>1, <2>3 DEF x, q
  <1>9. ASSUME NEW j \in 1..Len(c)
        PROVE  c[j].rid <= r /\ Owed(slot + r + g[Len(t)] + j, c[j].rid + 1, w + 1, n + 1, d)
    <2> DEFINE q == c[j].rid
    <2>1. /\ q \in Nat /\ q <= r /\ j \in Nat /\ Owed(slot + r + a + j, q + 1, w, n, d) /\ a \in Nat
      BY <1>1 DEF Within
    <2> HIDE DEF a, q
    <2>3. q <= r /\ Owed(slot + r + a + j, q + 1, w + 1, n + 1, d)
      BY <2>1 DEF Owed
    <2> QED  BY <1>6, <2>3 DEF q
  <1>10. Within(g, t, c, slot, r, w + 1, n + 1, d)
    BY <1>3, <1>6, <1>7, <1>8, <1>9 DEF Within
  <1> QED  BY <1>10

(* The sums that WithinAnswer compares. *)
LEMMA QueueSum ==
    \A v, a, z, b, d, e, p, k, h \in Nat :
        k >= 1 /\ e + h + 1 = d + p + k /\ b + h = z =>
            (v + (a + p) + b) + 1 + d <= (v + a + z) + 1 + e
  OBVIOUS

LEMMA AnswerSum ==
    \A v, a, q, d, e, p, k, h, m \in Nat :
        m >= 1 /\ m <= p /\ k >= 1 /\ h <= k /\ e + h + 1 = d + p + k =>
            (v + (a + (m - 1))) + (q + 1) + d <= (v + a + k) + q + e
  OBVIOUS

LEMMA RequestSum ==
    \A v, a, j, q, d, e, p, k, h \in Nat :
        k >= 1 /\ e + h + 1 = d + p + k =>
            (v + (a + p) + j) + q + d <= (v + a + (j + h)) + q + e
  OBVIOUS

LEMMA SlackSum == \A y, q, d, e \in Nat : d <= e => y + q + d <= y + q + e
  OBVIOUS

LEMMA RankAfter ==
    \A l, p \in Nat : \A i \in 1..(l + p) :
        i \notin 1..l => /\ i - l \in 1..p /\ i = l + (i - l)
                        /\ (i - l) - 1 \in 0..p /\ i - 1 = l + ((i - l) - 1)
  OBVIOUS

LEMMA ExcessSum ==
    \A d, e, p, k, h \in Nat : p >= 1 /\ h <= k /\ e + h + 1 = d + p + k => d <= e
  OBVIOUS

LEMMA LengthSum == \A l, a, w, p \in Nat : l = a + w => l + p = (a + p) + w
  OBVIOUS

(* The server answers its kth frame with p frames, having taken that frame *)
(* too (h = k) or having left the rest of it behind (h = k - 1).           *)
LEMMA WithinAnswer ==
    ASSUME NEW s \in Seq(Frame(ServerFrames)), NEW c \in Seq(Frame(ClientFrames)),
           NEW slot \in Nat, NEW r \in Nat, NEW w \in Nat, NEW n \in Nat, NEW d \in Nat, NEW f,
           Within(f, s, c, slot, r, w, n, d),
           NEW k \in 1..Len(c), NEW h \in Nat, h <= k,
           NEW u \in Seq(Frame(ClientFrames)), Shortened(u, c, h),
           NEW t \in Seq(Frame(ServerFrames)), NEW p \in Nat, p >= 1, Lengthened(t, s, p, c[k].rid),
           NEW e \in Nat, e + h + 1 = d + p + k
    PROVE  \E g : Within(g, t, u, slot, r, w, n, e)
  <1> DEFINE l == Len(s)  a == f[l]  lu == Len(u)
  <1>1. /\ l \in Nat /\ Len(c) \in Nat /\ a \in Nat /\ lu \in Nat /\ k \in Nat /\ k >= 1
        /\ d <= e
        /\ \A i \in 1..l : f[i - 1] \in Nat /\ s[i].rid \in Nat
        /\ \A j \in 1..Len(c) : c[j].rid \in Nat
    <2>1. /\ l \in Nat /\ Len(c) \in Nat /\ a \in Nat
          /\ \A i \in 1..l : f[i - 1] \in Nat /\ s[i].rid \in Nat
          /\ \A j \in 1..Len(c) : c[j].rid \in Nat
      BY OperandTypes DEF Within
    <2>2. lu \in Nat
      BY LenProperties
    <2>3. k \in Nat /\ k >= 1
      BY <2>1
    <2>4. d <= e
      BY <2>3, ExcessSum
    <2> QED  BY <2>1, <2>2, <2>3, <2>4
  <1>11. PICK g : Tally(g, t) /\ Continued(g, f, Len(s), p)
    <2>1. Tally(f, s)
      BY DEF Within
    <2> QED  BY <2>1, TallyMore
  <1>2. /\ Tally(g, t) /\ (\A i \in 0..l : g[i] = f[i])
        /\ \A i \in 0..p : g[l + i] = a + i
    BY <1>11 DEF Continued
  <1>10. /\ Len(t) = l + p /\ \A i \in 1..l : t[i] = s[i]
         /\ \A i \in 1..p : t[l + i].type # "NEW_MESSAGE" /\ t[l + i].rid = c[k].rid
         /\ lu + h = Len(c) /\ \A j \in 1..lu : u[j].rid = c[j + h].rid
    BY DEF Lengthened, Shortened
  <1>3. g[Len(t)] = a + p
    <2>1. p \in 0..p
      BY <1>1
    <2> QED  BY <1>2, <1>10, <2>1
  <1>4. Len(t) = g[Len(t)] + w /\ w <= n
    <2>1. l = a + w /\ w <= n
      BY DEF Within
    <2> HIDE DEF l, a
    <2>2. l + p = (a + p) + w
      BY <1>1, <2>1, LengthSum
    <2> QED  BY <1>3, <1>10, <2>1, <2>2
  <1>5. Owed(slot + (a + p) + lu, 1, w, n, e)
    <2>1. Owed(slot + a + Len(c), 1, w, n, d)
      BY DEF Within
    <2> DEFINE z == Len(c)
    <2>2. z \in Nat /\ lu + h = z
      BY <1>1, <1>10
    <2> HIDE DEF l, a, lu, z
    <2>3. /\ slot + a + z \in Nat /\ slot + (a + p) + lu \in Nat /\ 1 \in Nat
          /\ (slot + (a + p) + lu) + 1 + d <= (slot + a + z) + 1 + e
      <3>1. \A v, b, o \in Nat : v + b + o \in Nat /\ b + o \in Nat
        OBVIOUS
      <3>2. slot + a + z \in Nat /\ slot + (a + p) + lu \in Nat /\ 1 \in Nat
        BY <1>1, <2>2, <3>1
      <3> QED  BY <1>1, <2>2, <3>2, QueueSum
    <2>4. Owed(slot + a + z, 1, w, n, d)
      BY <2>1 DEF z
    <2> HIDE DEF Owed
    <2> QED  BY <1>1, <2>3, <2>4, OwedMore
  <1>6. ASSUME NEW i \in 1..Len(t), t[i].type # "NEW_MESSAGE"
        PROVE  t[i].rid <= r /\ Owed(slot + r + g[i - 1], t[i].rid, w, n, e)
    <2>1. CASE i \in 1..l
      <3> DEFINE b == f[i - 1]  q == s[i].rid
      <3>1. i - 1 \in 0..l
        <4>1. l \in Nat
          BY <1>1
        <4> HIDE DEF l
        <4> QED  BY <2>1, <4>1
      <3>2. t[i] = s[i] /\ g[i - 1] = b
        BY <1>2, <1>10, <2>1, <3>1
      <3>3. q \in Nat /\ b \in Nat /\ q <= r /\ Owed(slot + r + b, q, w, n, d)
        BY <1>1, <1>6, <2>1, <3>2 DEF Within
      <3> HIDE DEF b, q, l
      <3>4. slot + r + b \in Nat /\ (slot + r + b) + q + d <= (slot + r + b) + q + e
        <4>1. slot + r + b \in Nat
          BY <3>3
        <4> QED  BY <1>1, <3>3, <4>1, SlackSum
      <3>5. Owed(slot + r + b, q, w, n, e)
        BY <1>1, <3>3, <3>4, OwedMore
      <3> QED  BY <3>2, <3>3, <3>5 DEF q
    <2>2. CASE i \notin 1..l
      <3> DEFINE m == i - l  q == c[k].rid
      <3>1. m \in 1..p /\ i = l + m /\ m - 1 \in 0..p /\ i - 1 = l + (m - 1)
        <4>1. i \in 1..(l + p) /\ i \notin 1..l
          BY <1>10, <2>2
        <4> QED  BY <1>1, <4>1, RankAfter
      <3>2. t[i].rid = q /\ g[i - 1] = a + (m - 1)
        BY <1>2, <1>10, <3>1
      <3>3. q \in Nat /\ q <= r /\ Owed(slot + r + a + k, q + 1, w, n, d)
        BY <1>1 DEF Within
      <3> HIDE DEF l, a, m, q
      <3>4. /\ slot + r + a + k \in Nat /\ slot + r + (a + (m - 1)) \in Nat /\ q + 1 \in Nat
            /\ (slot + r + (a + (m - 1))) + (q + 1) + d <= (slot + r + a + k) + q + e
        <4>1. \A v, b \in Nat : v + b \in Nat
          OBVIOUS
        <4>2. /\ slot + r \in Nat /\ q + 1 \in Nat /\ slot + r + a + k \in Nat
              /\ m \in Nat /\ m >= 1 /\ m <= p /\ m - 1 \in Nat
          <5>1. m \in Nat /\ m >= 1 /\ m <= p /\ m - 1 \in Nat
            BY <3>1
          <5> QED  BY <1>1, <3>3, <4>1, <5>1
        <4>3. slot + r + (a + (m - 1)) \in Nat
          BY <1>1, <4>1, <4>2
        <4> QED  BY <1>1, <3>1, <3>3, <4>2, <4>3, AnswerSum
      <3>5. Owed(slot + r + (a + (m - 1)), q, w, n, e)
        BY <1>1, <3>3, <3>4, OwedMore
      <3> QED  BY <3>2, <3>3, <3>5
    <2> QED  BY <2>1, <2>2
  <1>7. ASSUME NEW j \in 1..lu
        PROVE  u[j].rid <= r /\ Owed(slot + r + (a + p) + j, u[j].rid + 1, w, n, e)
    <2> DEFINE q == c[j + h].rid
    <2>1. j \in Nat /\ j + h \in 1..Len(c) /\ u[j].rid = q
      BY <1>1, <1>10
    <2>2. q \in Nat /\ q <= r /\ Owed(slot + r + a + (j + h), q + 1, w, n, d)
      BY <1>1, <2>1 DEF Within
    <2> HIDE DEF l, a, lu, q
    <2>3. /\ slot + r + a + (j + h) \in Nat /\ slot + r + (a + p) + j \in Nat /\ q + 1 \in Nat
          /\ (slot + r + (a + p) + j) + (q + 1) + d <= (slot + r + a + (j + h)) + (q + 1) + e
      <3>1. \A v, b \in Nat : v + b \in Nat
        OBVIOUS
      <3>2. slot + r \in Nat /\ q + 1 \in Nat /\ j + h \in Nat /\ a + p \in Nat
        BY <1>1, <2>1, <2>2, <3>1
      <3>3. slot + r + a + (j + h) \in Nat /\ slot + r + (a + p) + j \in Nat
        BY <1>1, <2>1, <3>1, <3>2
      <3> QED  BY <1>1, <2>1, <3>2, <3>3, RequestSum
    <2>4. Owed(slot + r + (a + p) + j, q + 1, w, n, e)
      BY <1>1, <2>2, <2>3, OwedMore
    <2> QED  BY <2>1, <2>2, <2>4
  <1>8. Within(g, t, u, slot, r, w, n, e)
    BY <1>2, <1>3, <1>4, <1>5, <1>6, <1>7 DEF Within
  <1> QED  BY <1>8

(* The same with what the turn does to the queues as one hypothesis.       *)
Turned(t, u, s, c, k, h, p, d, e) ==
    /\ k \in 1..Len(c) /\ h \in Nat /\ h <= k /\ p \in Nat /\ p >= 1
    /\ e \in Nat /\ e + h + 1 = d + p + k
    /\ Shortened(u, c, h) /\ Lengthened(t, s, p, c[k].rid)

LEMMA WithinTurn ==
    ASSUME NEW s \in Seq(Frame(ServerFrames)), NEW c \in Seq(Frame(ClientFrames)),
           NEW t \in Seq(Frame(ServerFrames)), NEW u \in Seq(Frame(ClientFrames)),
           NEW slot \in Nat, NEW r \in Nat, NEW w \in Nat, NEW n \in Nat, NEW d \in Nat,
           NEW f, Within(f, s, c, slot, r, w, n, d),
           NEW k, NEW h, NEW p, NEW e, Turned(t, u, s, c, k, h, p, d, e)
    PROVE  \E g : Within(g, t, u, slot, r, w, n, e)
  <1>1. /\ k \in 1..Len(c) /\ h \in Nat /\ h <= k /\ p \in Nat /\ p >= 1
        /\ e \in Nat /\ e + h + 1 = d + p + k
        /\ Shortened(u, c, h) /\ Lengthened(t, s, p, c[k].rid)
    BY DEF Turned
  <1> QED  BY <1>1, WithinAnswer
-----------------------------------------------------------------------------
(* The bound holds until an interrupt cuts a receive short: the client     *)
(* then sends LOGOUT without having its answer, and disconnects.           *)

Slot == IF cpc \in {"start", "idle", "resend"} THEN 1 ELSE 0

Interrupted == cmd = "LOGOUT" /\ "interrupt" \in Faults

Answering ==
    Interrupted \/
    \E f, w : w \in Nat /\ Within(f, s2c, c2s, Slot, rid, w, notes, timeouts + longs)

(* LOGOUT is the last command: what it waits for is a rotation before it   *)
(* is sent, after which it is sent again.                                  *)
LogoutLast ==
    cmd = "LOGOUT" => /\ cpc \in {"rotating", "resend", "closing", "closed"}
                      /\ cpc = "rotating" => resend

LEMMA SendCommandSends ==
    ASSUME TypeOK, NEW c \in Commands, SendCommand(c)
    PROVE  /\ cmd' = c /\ cpc' \in {"await", "rotating", "closing"}
           /\ cpc' = "await" => c # "LOGOUT"
           /\ cpc' = "rotating" => resend'
           /\ \E t \in ClientFrames, k \in SessionKey, q \in Nat : Transmit(t, k, q)
  <1>0. cmd' = c
    BY DEF SendCommand
  <1>1. CASE SendPlain(c)
    <2>1. PICK t \in {"LOGOUT", "PLAIN"} : Transmit(t, NoKey, 0)
      BY <1>1 DEF SendPlain
    <2>2. t \in ClientFrames
      BY DEF ClientFrames
    <2> QED  BY <1>0, <1>1, <2>1, <2>2, NoKeyType DEF SendPlain, AfterSending
  <1>2. CASE StartRotation(TRUE)
    <2>1. RotateKey(sess["client"]) \in Session
      BY SessionTypes DEF TypeOK, Party
    <2>2. RotateKey(sess["client"]).eph \in Nat /\ "KEY_ROTATION" \in ClientFrames
      BY <2>1 DEF Session, ClientFrames
    <2> QED  BY <1>0, <1>2, <2>2, NoKeyType DEF StartRotation
  <1>3. CASE SealAndSend(c)
    <2>1. sess["client"].key \in SessionKey /\ "SECURE_MESSAGE" \in ClientFrames
      BY DEF TypeOK, Session, Party, ClientFrames
    <2> QED  BY <1>0, <1>3, <2>1 DEF SealAndSend, AfterSending
  <1> QED  BY <1>1, <1>2, <1>3 DEF SendCommand

LEMMA StepLogoutLast ==
    ASSUME TypeOK, LogoutLast, Next
    PROVE  LogoutLast' /\ (cmd = "LOGOUT" => cmd' = "LOGOUT")
  <1> USE DEF LogoutLast, clientVars
  <1>1. CASE Connect
    BY <1>1 DEF Connect
  <1>2. ASSUME NEW c \in Commands, BeginCommand(c) PROVE cpc = "idle" /\ c # "LOGOUT" /\ cmd' = c
    BY <1>2 DEF BeginCommand, SendCommand
  <1>3. CASE RotateManually
    BY <1>3 DEF RotateManually, StartRotation
  <1>4. CASE Resend
    <2>1. SendCommand(cmd) /\ cmd \in Commands
      BY <1>4 DEF Resend, TypeOK
    <2> QED  BY <2>1, SendCommandSends
  <1>5. CASE GiveUpResending
    BY <1>5 DEF GiveUpResending
  <1>6. CASE Disconnect \/ Interrupt
    <2>0. Leave
      BY <1>6 DEF Disconnect, Interrupt
    <2>1. CASE loggedIn
      <3>1. SendCommand("LOGOUT") /\ "LOGOUT" \in Commands
        BY <2>0, <2>1 DEF Leave, Commands
      <3> QED  BY <3>1, SendCommandSends
    <2>2. CASE ~loggedIn
      BY <2>0, <2>2 DEF Leave
    <2> QED  BY <2>1, <2>2
  <1>7. CASE Close \/ InterruptEnds
    BY <1>7 DEF Close, InterruptEnds
  <1>8. ASSUME NEW m, Answered(m), UNCHANGED <<cmd, resend>>
        PROVE  LogoutLast' /\ (cmd = "LOGOUT" => cmd' = "LOGOUT")
    BY <1>8 DEF Answered, HandshakeAnswer, RotationAnswer, CommandAnswer
  <1>9. CASE ClientReceive
    <2>1. UNCHANGED <<cmd, resend>> /\ (cpc' = cpc \/ \E m : Answered(m))
      BY <1>9 DEF ClientReceive
    <2> QED  BY <1>8, <2>1
  <1>10. CASE ClientTimeout
    BY <1>8, <1>10 DEF ClientTimeout
  <1>11. ASSUME UNCHANGED <<cmd, resend, cpc>>
         PROVE  LogoutLast' /\ (cmd = "LOGOUT" => cmd' = "LOGOUT")
    BY <1>11
  <1>12. CASE ServerStep \/ Notify \/ (\E p \in Party : Age(p))
    <2>1. UNCHANGED <<cmd, resend, cpc>>
      BY <1>12 DEF ServerStep, ServerReceive, ServerReceivePart, ServerSeesClose, Notify, Age
    <2> QED  BY <1>11, <2>1
  <1> QED
    BY <1>1, <1>2, <1>3, <1>4, <1>5, <1>6, <1>7, <1>9, <1>10, <1>12
    DEF Next, ClientStep, UserStep, Disturb

(* What a step may do to the queues, one lemma for each kind of step.      *)

LEMMA SumType == \A a, b \in Nat : a + b \in Nat
  OBVIOUS

LEMMA LagOperands ==
    ASSUME TypeOK
    PROVE  /\ s2c \in Seq(Frame(ServerFrames)) /\ c2s \in Seq(Frame(ClientFrames))
           /\ Slot \in Nat /\ rid \in Nat /\ notes \in Nat /\ timeouts \in Nat /\ longs \in Nat
           /\ timeouts + longs \in Nat
  BY ChannelAssumption DEF TypeOK, Slot

LEMMA LagSend ==
    ASSUME TypeOK, Answering, ~Interrupted, UNCHANGED <<s2c, notes, timeouts, longs>>,
           Slot = 1, Slot' = 0,
           NEW t \in ClientFrames, NEW k \in SessionKey, NEW q \in Nat, Transmit(t, k, q)
    PROVE  Answering'
  <1> DEFINE e == Message(t, rid + 1, k, q)
  <1>1. PICK f, w : w \in Nat /\ Within(f, s2c, c2s, 1, rid, w, notes, timeouts + longs)
    BY DEF Answering
  <1>2. e \in Frame(ClientFrames) /\ e.rid = rid + 1
    <2>1. rid + 1 \in Nat
      BY LagOperands
    <2> QED  BY <2>1, FrameType DEF Message
  <1>3. Within(f, s2c, Append(c2s, e), 0, rid + 1, w, notes, timeouts + longs)
    BY <1>1, <1>2, LagOperands, WithinSend
  <1> QED  BY <1>1, <1>3 DEF Answering, Transmit

LEMMA LagWait ==
    ASSUME TypeOK, TypeOK', Answering, ~Interrupted, UNCHANGED <<s2c, c2s, rid, notes>>,
           timeouts <= timeouts', longs' = longs, Slot' + timeouts <= Slot + timeouts'
    PROVE  Answering'
  <1>1. PICK f, w : w \in Nat /\ Within(f, s2c, c2s, Slot, rid, w, notes, timeouts + longs)
    BY DEF Answering
  <1>2. /\ Slot \in Nat /\ Slot' \in Nat /\ timeouts \in Nat /\ timeouts' \in Nat
        /\ longs \in Nat /\ timeouts + longs \in Nat /\ timeouts' + longs' \in Nat
    <2>1. MaxTimeouts \in Nat /\ MaxLong \in Nat
      BY ChannelAssumption
    <2>2. timeouts \in Nat /\ timeouts' \in Nat /\ longs \in Nat /\ longs' \in Nat
      BY <2>1 DEF TypeOK
    <2>3. Slot \in Nat /\ Slot' \in Nat
      BY DEF Slot
    <2>4. timeouts + longs \in Nat /\ timeouts' + longs' \in Nat
      BY <2>2, SumType
    <2> QED  BY <2>2, <2>3, <2>4
  <1>3. /\ Slot' + (timeouts + longs) <= Slot + (timeouts' + longs')
        /\ timeouts + longs <= timeouts' + longs'
    <2> DEFINE x == Slot  y == Slot'  a == timeouts  b == timeouts'  c == longs
    <2>1. /\ x \in Nat /\ y \in Nat /\ a \in Nat /\ b \in Nat /\ c \in Nat
          /\ a <= b /\ y + a <= x + b /\ longs' = c
      BY <1>2
    <2> HIDE DEF x, y, a, b, c
    <2>2. y + (a + c) <= x + (b + c) /\ a + c <= b + c
      BY <2>1
    <2> QED  BY <2>1, <2>2 DEF x, y, a, b, c
  <1>4. Within(f, s2c, c2s, Slot', rid, w, notes, timeouts' + longs')
    BY <1>1, <1>2, <1>3, LagOperands, WithinWait
  <1> QED  BY <1>1, <1>4 DEF Answering

LEMMA LagTake ==
    ASSUME TypeOK, Answering, ~Interrupted,
           UNCHANGED <<c2s, rid, notes, timeouts, longs>>,
           NEW n \in 1..Len(s2c), s2c' = Drop(n, s2c), Slot = 0, Slot' \in {0, 1},
           Slot' = 0 \/ n >= 2 \/ s2c[1].type # "NEW_MESSAGE"
    PROVE  Answering'
  <1>1. PICK f, w : w \in Nat /\ Within(f, s2c, c2s, Slot, rid, w, notes, timeouts + longs)
    BY DEF Answering
  <1>2. /\ Len(s2c) \in Nat /\ n \in Nat /\ n >= 1 /\ f[n] \in Nat
        /\ s2c[1].type # "NEW_MESSAGE" => f[1] = 1
    <2>1. Len(s2c) \in Nat /\ n \in Nat /\ n >= 1 /\ n \in 0..Len(s2c) /\ 1 \in 1..Len(s2c)
      BY LagOperands, LenProperties
    <2>2. f[1] = f[1 - 1] + One(s2c[1]) /\ f[0] = 0
      BY <1>1, <2>1 DEF Within, Tally
    <2> QED  BY <1>1, <2>1, <2>2 DEF Within, Tally, One
  <1>3. Slot' <= Slot \/ n + f[n] >= 2
    <2>1. CASE n = 1 /\ s2c[1].type # "NEW_MESSAGE"
      BY <1>2, <2>1
    <2>2. CASE n >= 2
      BY <1>2, <2>2
    <2> QED  BY <1>2, <2>1, <2>2
  <1>4. Slot' \in Nat /\ Slot' <= Slot + 1
    OBVIOUS
  <1>5. PICK g, w2 : w2 \in Nat /\ Within(g, Drop(n, s2c), c2s, Slot', rid, w2, notes, timeouts + longs)
    <2>1. /\ s2c \in Seq(Frame(ServerFrames)) /\ c2s \in Seq(Frame(ClientFrames))
          /\ Slot \in Nat /\ rid \in Nat /\ notes \in Nat /\ timeouts + longs \in Nat
      BY LagOperands
    <2> DEFINE d == timeouts + longs  slot == Slot  slot2 == Slot'
    <2>2. /\ slot \in Nat /\ slot2 \in Nat /\ d \in Nat /\ slot2 <= slot + 1
          /\ slot2 <= slot \/ n + f[n] >= 2
          /\ w \in Nat /\ Within(f, s2c, c2s, slot, rid, w, notes, d)
      BY <1>1, <1>3, <1>4, <2>1
    <2> HIDE DEF d, slot, slot2
    <2>3. PICK g, w2 : w2 \in Nat /\ Within(g, Drop(n, s2c), c2s, slot2, rid, w2, notes, d)
      BY <2>1, <2>2, WithinTake, ZenonT(30)
    <2> QED  BY <2>3 DEF d, slot2
  <1> QED  BY <1>5 DEF Answering

LEMMA LagSums ==
    /\ \A u, v, v2, p, k, h \in Nat :
          v2 + h + 1 = v + p + k =>
              u + v2 \in Nat /\ (u + v2) + h + 1 = (u + v) + p + k
    /\ \A v, p, k \in Nat : (v + p - 1) + k + 1 = v + p + k
    /\ \A v, h \in Nat : (v + 1) + h + 1 = v + 1 + (h + 1)
  OBVIOUS

LEMMA LagAnswer ==
    ASSUME TypeOK, TypeOK', Answering, ~Interrupted, UNCHANGED <<rid, notes, timeouts, cpc>>,
           NEW k \in 1..Len(c2s), NEW h \in Nat, h <= k,
           Shortened(c2s', c2s, h),
           NEW p \in Nat, p >= 1, Lengthened(s2c', s2c, p, c2s[k].rid),
           longs' + h + 1 = longs + p + k
    PROVE  Answering'
  <1> DEFINE d == timeouts + longs  e == timeouts' + longs'
  <1>1. PICK f, w : w \in Nat /\ Within(f, s2c, c2s, Slot, rid, w, notes, d)
    BY DEF Answering
  <1>2. /\ s2c \in Seq(Frame(ServerFrames)) /\ c2s \in Seq(Frame(ClientFrames))
        /\ s2c' \in Seq(Frame(ServerFrames)) /\ c2s' \in Seq(Frame(ClientFrames))
        /\ Slot \in Nat /\ rid \in Nat /\ notes \in Nat /\ d \in Nat
    BY LagOperands DEF TypeOK
  <1>3. Turned(s2c', c2s', s2c, c2s, k, h, p, d, e)
    <2> DEFINE y == timeouts  v == longs  v2 == longs'
    <2>1. y \in Nat /\ v \in Nat /\ v2 \in Nat /\ timeouts' = y
      BY ChannelAssumption, LagOperands DEF TypeOK
    <2>2. k \in Nat /\ v2 + h + 1 = v + p + k
      BY <1>2, LenProperties
    <2>3. d = y + v /\ e = y + v2
      BY <2>1
    <2> HIDE DEF y, v, v2, d, e
    <2>4. y + v2 \in Nat /\ (y + v2) + h + 1 = (y + v) + p + k
      BY <2>1, <2>2, LagSums
    <2> QED  BY <2>3, <2>4 DEF Turned
  <1> HIDE DEF d, e
  <1>4. PICK g : Within(g, s2c', c2s', Slot, rid, w, notes, e)
    <2> DEFINE slot == Slot  t == s2c'  u == c2s'
    <2>1. /\ w \in Nat /\ Within(f, s2c, c2s, slot, rid, w, notes, d) /\ slot \in Nat
          /\ t \in Seq(Frame(ServerFrames)) /\ u \in Seq(Frame(ClientFrames))
          /\ Turned(t, u, s2c, c2s, k, h, p, d, e)
      BY <1>1, <1>2, <1>3
    <2> HIDE DEF slot, t, u
    <2>2. \E g : Within(g, t, u, slot, rid, w, notes, e)
      BY <1>2, <2>1, WithinTurn
    <2> QED  BY <2>2 DEF slot, t, u
  <1> QED  BY <1>1, <1>4 DEF Answering, Slot, e

LEMMA LagReply ==
    ASSUME TypeOK, TypeOK', Answering, ~Interrupted,
           UNCHANGED <<rid, notes, timeouts, longs, cpc>>,
           NEW n \in 1..Len(c2s), c2s' = Drop(n, c2s),
           NEW t \in ServerFrames \ {"NEW_MESSAGE"}, NEW k \in SessionKey, NEW q \in Nat,
           s2c' = Append(s2c, Message(t, c2s[n].rid, k, q))
    PROVE  Answering'
  <1> DEFINE e == Message(t, c2s[n].rid, k, q)
  <1>1. e \in Frame(ServerFrames) /\ e.rid = c2s[n].rid /\ e.type # "NEW_MESSAGE"
    <2>1. c2s[n].rid \in Nat
      BY LagOperands, FrameFacts
    <2> QED  BY <2>1, FrameType DEF Message
  <1> HIDE DEF e
  <1>2. /\ Len(s2c') = Len(s2c) + 1 /\ s2c'[Len(s2c) + 1] = e
        /\ \A i \in 1..Len(s2c) : s2c'[i] = s2c[i]
    BY <1>1, LagOperands, AppendLemma DEF e
  <1>3. Lengthened(s2c', s2c, 1, c2s[n].rid)
    <2>1. \A i \in 1..1 : s2c'[Len(s2c) + i] = e
      BY <1>2
    <2> QED  BY <1>1, <1>2, <2>1 DEF Lengthened
  <1>4. n \in Nat /\ Shortened(c2s', c2s, n)
    BY LagOperands, DropLen DEF Shortened
  <1>5. longs' + n + 1 = longs + 1 + n
    BY <1>4, LagOperands
  <1>6. 1 \in Nat /\ 1 >= 1 /\ n <= n
    BY <1>4
  <1> QED  BY <1>3, <1>4, <1>5, <1>6, LagAnswer

LEMMA LagReplyInPieces ==
    ASSUME TypeOK, TypeOK', Answering, ~Interrupted, UNCHANGED <<rid, notes, timeouts, cpc>>,
           NEW n \in 1..Len(c2s), c2s' = Drop(n, c2s),
           NEW p \in Nat, p >= 1, longs' = longs + p - 1,
           s2c' = s2c \o [i \in 1..p |-> Message("PIECE", c2s[n].rid, NoKey, 0)]
    PROVE  Answering'
  <1> DEFINE e == Message("PIECE", c2s[n].rid, NoKey, 0)  b == [i \in 1..p |-> e]
  <1>1. e \in Frame(ServerFrames) /\ e.rid = c2s[n].rid /\ e.type # "NEW_MESSAGE"
    <2>1. c2s[n].rid \in Nat /\ "PIECE" \in ServerFrames
      BY LagOperands, FrameFacts DEF ServerFrames
    <2> QED  BY <2>1, FrameType, NoKeyType DEF Message
  <1> HIDE DEF e
  <1>2. b \in Seq(Frame(ServerFrames)) /\ Len(b) = p /\ \A i \in 1..p : b[i] = e
    BY <1>1, IsASeq
  <1> HIDE DEF b
  <1>3. s2c' = s2c \o b
    BY DEF b, e
  <1>4. Lengthened(s2c', s2c, p, c2s[n].rid)
    <2>1. /\ Len(s2c') = Len(s2c) + Len(b)
          /\ \A i \in 1..Len(s2c) : s2c'[i] = s2c[i]
          /\ \A i \in 1..Len(b) : s2c'[Len(s2c) + i] = b[i]
      BY <1>2, <1>3, LagOperands, ConcatLemma
    <2> QED  BY <1>1, <1>2, <2>1 DEF Lengthened
  <1>5. n \in Nat /\ Shortened(c2s', c2s, n)
    BY LagOperands, DropLen DEF Shortened
  <1>6. longs' + n + 1 = longs + p + n
    <2>1. longs \in Nat
      BY LagOperands
    <2> QED  BY <1>5, <2>1, LagSums
  <1>7. n <= n
    BY <1>5
  <1> QED  BY <1>4, <1>5, <1>6, <1>7, LagAnswer

(* A request is cut: both its pieces will have been answered.              *)
LEMMA LagPart ==
    ASSUME TypeOK, TypeOK', Answering, ~Interrupted, ServerReceivePart
    PROVE  Answering'
  <1>1. PICK n \in 1..Len(c2s) :
           /\ c2s' = [Drop(n - 1, c2s) EXCEPT ![1].type = "PIECE"]
           /\ s2c' = Append(s2c, Message("ERROR", c2s[n].rid, NoKey, 0))
    BY DEF ServerReceivePart
  <1> DEFINE e == Message("ERROR", c2s[n].rid, NoKey, 0)
  <1>2. e \in Frame(ServerFrames) /\ e.rid = c2s[n].rid /\ e.type # "NEW_MESSAGE"
    <2>1. c2s[n].rid \in Nat /\ "ERROR" \in ServerFrames
      BY LagOperands, FrameFacts DEF ServerFrames
    <2> QED  BY <2>1, FrameType, NoKeyType DEF Message
  <1> HIDE DEF e
  <1>3. /\ Len(s2c') = Len(s2c) + 1 /\ s2c'[Len(s2c) + 1] = e
        /\ \A i \in 1..Len(s2c) : s2c'[i] = s2c[i]
    BY <1>1, <1>2, LagOperands, AppendLemma DEF e
  <1>4. Lengthened(s2c', s2c, 1, c2s[n].rid)
    <2>1. \A i \in 1..1 : s2c'[Len(s2c) + i] = e
      BY <1>3
    <2> QED  BY <1>2, <1>3, <2>1 DEF Lengthened
  <1> DEFINE h == n - 1
  <1>5. n \in Nat /\ h \in Nat /\ h + 1 = n /\ Shortened(c2s', c2s, h)
    <2>1. c2s \in Seq(Frame(ClientFrames)) /\ Len(c2s) \in Nat /\ "PIECE" \in ClientFrames
      BY LagOperands, LenProperties DEF ClientFrames
    <2>2. n \in Nat /\ h \in Nat /\ h + 1 = n
      BY <2>1
    <2>3. Shortened(c2s', c2s, n - 1)
      BY <1>1, <2>1, PartLemma
    <2> QED  BY <2>2, <2>3
  <1> HIDE DEF h
  <1>6. longs' + h + 1 = longs + 1 + n
    <2>1. longs \in Nat /\ longs' = longs + 1
      BY LagOperands DEF ServerReceivePart
    <2>2. (longs + 1) + h + 1 = longs + 1 + (h + 1)
      BY <1>5, <2>1, LagSums
    <2> QED  BY <1>5, <2>1, <2>2
  <1>7. UNCHANGED <<rid, notes, timeouts, cpc>>
    BY DEF ServerReceivePart, clientVars
  <1>8. 1 \in Nat /\ 1 >= 1 /\ h <= n
    BY <1>5
  <1> QED  BY <1>4, <1>5, <1>6, <1>7, <1>8, LagAnswer

LEMMA LagNote ==
    ASSUME TypeOK, Answering, ~Interrupted, UNCHANGED <<c2s, rid, timeouts, longs, cpc>>,
           notes' = notes + 1, s2c' = Append(s2c, Message("NEW_MESSAGE", 0, NoKey, 0))
    PROVE  Answering'
  <1> DEFINE e == Message("NEW_MESSAGE", 0, NoKey, 0)
  <1>1. PICK f, w : w \in Nat /\ Within(f, s2c, c2s, Slot, rid, w, notes, timeouts + longs)
    BY DEF Answering
  <1>2. e \in Frame(ServerFrames) /\ e.type = "NEW_MESSAGE"
    BY NoKeyType, FrameType DEF ServerFrames, Message
  <1>3. PICK g : Within(g, Append(s2c, e), c2s, Slot, rid, w + 1, notes + 1, timeouts + longs)
    BY <1>1, <1>2, LagOperands, WithinNote
  <1>4. w + 1 \in Nat
    BY <1>1
  <1> QED  BY <1>3, <1>4 DEF Answering, Slot
(* A turn of the server's loop answers the frame it was given, with one    *)
(* frame that is no notification or with a long answer.                    *)
LEMMA HandleReplies ==
    ASSUME TypeOK, NEW m \in Frame(ClientFrames \cup {"ERROR"}), Handle(m)
    PROVE  \/ /\ longs' = longs
              /\ \E t \in ServerFrames \ {"NEW_MESSAGE"}, k \in SessionKey, q \in Nat :
                    s2c' = Append(s2c, Message(t, m.rid, k, q))
           \/ ReplyInPieces(m)
  <1>1. m.pub \in Nat /\ sess["server"] \in Session /\ sess["server"].key \in SessionKey
    BY DEF TypeOK, Frame, Party, Session
  <1>2. ASSUME NEW t \in {"HANDSHAKE_RESPONSE", "KEY_ROTATION_REQUIRED", "SECURE_MESSAGE",
                          "ERROR", "KEY_ROTATION", "PLAIN"},
               NEW k \in SessionKey, NEW q \in Nat, Reply(t, m, k, q)
        PROVE  /\ longs' = longs
               /\ \E t2 \in ServerFrames \ {"NEW_MESSAGE"}, k2 \in SessionKey, q2 \in Nat :
                     s2c' = Append(s2c, Message(t2, m.rid, k2, q2))
    <2>1. t \in ServerFrames \ {"NEW_MESSAGE"}
      BY DEF ServerFrames
    <2> QED  BY <1>2, <2>1 DEF Reply
  <1>3. CASE Handshake(m)
    <2> DEFINE s == CompleteKeyExchange("server", NewSession, m.pub)
    <2>1. NewSession \in Session
      BY <1>1, SessionTypes DEF Party
    <2>2. s \in Session
      BY <1>1, <2>1, SessionTypes DEF Party
    <2>3. s.eph \in Nat
      BY <2>2 DEF Session
    <2> QED  BY <1>2, <1>3, <2>3, NoKeyType DEF Handshake
  <1>4. CASE HandleSecureMessage(m)
    BY <1>1, <1>2, <1>4, NoKeyType DEF HandleSecureMessage, SecureReply
  <1>5. CASE HandleKeyRotation(m)
    <2> DEFINE s == RotatedBy(sess["server"], m.pub)
    <2>1. RotateKey(sess["server"]) \in Session
      BY <1>1, SessionTypes DEF Party
    <2>2. s \in Session
      BY <1>1, <2>1, SessionTypes DEF Party, RotatedBy
    <2>3. s.eph \in Nat
      BY <2>2 DEF Session
    <2> QED  BY <1>2, <1>5, <2>3, NoKeyType DEF HandleKeyRotation
  <1>6. CASE HandlePlain(m)
    BY <1>2, <1>6, NoKeyType DEF HandlePlain
  <1>7. CASE HandleLogout(m)
    BY <1>2, <1>7, NoKeyType DEF HandleLogout
  <1>8. CASE Reject(m)
    BY <1>2, <1>8, NoKeyType DEF Reject
  <1> QED  BY <1>3, <1>4, <1>5, <1>6, <1>7, <1>8 DEF Handle

LEMMA ServerTurn ==
    ASSUME TypeOK, ServerReceive
    PROVE  \E n \in 1..Len(c2s), m \in Frame(ClientFrames \cup {"ERROR"}) :
              /\ c2s' = Drop(n, c2s) /\ Handle(m) /\ m.rid = c2s[n].rid
              /\ IF n = 1 THEN m = c2s[1] ELSE m.type = "ERROR"
  <1> DEFINE mess(n) == IF n = 1 THEN c2s[1] ELSE Message("ERROR", c2s[n].rid, NoKey, 0)
  <1>1. PICK n \in 1..Len(c2s) : c2s' = Drop(n, c2s) /\ Handle(mess(n))
    BY DEF ServerReceive
  <1>2. c2s[n] \in Frame(ClientFrames)
    BY ElementOfSeq DEF TypeOK
  <1>3. c2s[n].rid \in Nat /\ c2s[n] \in Frame(ClientFrames \cup {"ERROR"})
    BY <1>2 DEF Frame
  <1>4. /\ mess(n) \in Frame(ClientFrames \cup {"ERROR"}) /\ mess(n).rid = c2s[n].rid
        /\ IF n = 1 THEN mess(n) = c2s[1] ELSE mess(n).type = "ERROR"
    <2>1. CASE n = 1
      BY <1>3, <2>1
    <2>2. CASE n # 1
      <3>1. Message("ERROR", c2s[n].rid, NoKey, 0) \in Frame(ClientFrames \cup {"ERROR"})
        BY <1>3, NoKeyType, FrameType
      <3> QED  BY <2>2, <3>1 DEF Message
    <2> QED  BY <2>1, <2>2
  <1> QED  BY <1>1, <1>4

LEMMA StepAnswering ==
    ASSUME TypeOK, TypeOK', LogoutLast, Answering, Next
    PROVE  Answering'
  <1> USE DEF clientVars, boundVars
  <1>1. cmd = "LOGOUT" => cmd' = "LOGOUT"
    BY StepLogoutLast
  <1>2. CASE Interrupted'
    BY <1>2 DEF Answering
  <1>3. CASE ~Interrupted'
    <2>0. ~Interrupted
      BY <1>1, <1>3 DEF Interrupted
    <2>1. ASSUME cpc \in {"start", "idle", "resend"},
                 UNCHANGED <<s2c, notes, timeouts, longs>>,
                 cpc' \in {"handshake", "await", "rotating", "closing"},
                 \E t \in ClientFrames, k \in SessionKey, q \in Nat : Transmit(t, k, q)
          PROVE  Answering'
      <3>1. Slot = 1 /\ Slot' = 0
        BY <2>1 DEF Slot
      <3> QED  BY <2>0, <2>1, <3>1, LagSend
    <2>2. ASSUME UNCHANGED <<s2c, c2s, rid, notes, timeouts, longs>>,
                 cpc' = cpc \/ cpc' \in {"closing", "closed"} \/ cpc = "resend"
          PROVE  Answering'
      <3>1. Slot \in {0, 1} /\ Slot' \in {0, 1} /\ Slot' <= Slot
        BY <2>2 DEF Slot
      <3>2. timeouts \in Nat
        BY LagOperands
      <3>3. timeouts <= timeouts' /\ Slot' + timeouts <= Slot + timeouts'
        <4> DEFINE x == Slot  y == Slot'  a == timeouts  b == timeouts'
        <4>1. x \in Nat /\ y \in Nat /\ y <= x /\ a \in Nat /\ b = a
          BY <2>2, <3>1, <3>2
        <4> HIDE DEF x, y, a, b
        <4>2. a <= b /\ y + a <= x + b
          BY <4>1
        <4> QED  BY <4>2 DEF x, y, a, b
      <3> QED  BY <2>0, <2>2, <3>3, LagWait
    <2>3. CASE Connect
      <3>1. NewSession.eph \in Nat /\ "HANDSHAKE_INIT" \in ClientFrames
        BY DEF NewSession, ClientFrames
      <3> QED  BY <2>1, <2>3, <3>1, NoKeyType DEF Connect
    <2>4. ASSUME NEW c \in Commands, BeginCommand(c) PROVE Answering'
      BY <2>1, <2>4, SendCommandSends DEF BeginCommand
    <2>5. CASE RotateManually
      <3>1. RotateKey(sess["client"]) \in Session
        BY SessionTypes DEF TypeOK, Party
      <3>2. RotateKey(sess["client"]).eph \in Nat /\ "KEY_ROTATION" \in ClientFrames
        BY <3>1 DEF Session, ClientFrames
      <3> QED  BY <2>1, <2>5, <3>2, NoKeyType DEF RotateManually, StartRotation
    <2>6. CASE Resend
      <3>1. SendCommand(cmd) /\ cmd \in Commands
        BY <2>6 DEF Resend, TypeOK
      <3> QED  BY <2>1, <2>6, <3>1, SendCommandSends DEF Resend
    <2>7. CASE GiveUpResending
      BY <2>2, <2>7 DEF GiveUpResending
    <2>8. CASE Disconnect \/ Interrupt
      <3>0. Leave /\ UNCHANGED <<s2c, notes, timeouts, longs>>
        BY <2>8 DEF Disconnect, Interrupt, Leave
      <3>1. CASE loggedIn
        <4>1. SendCommand("LOGOUT") /\ "LOGOUT" \in Commands
          BY <3>0, <3>1 DEF Leave, Commands
        <4>2. cmd' = "LOGOUT"
          BY <4>1, SendCommandSends
        <4>3. cpc = "idle"
          BY <1>3, <2>8, <4>2 DEF Disconnect, Interrupt, Interrupted
        <4> QED  BY <2>1, <3>0, <4>1, <4>3, SendCommandSends
      <3>2. CASE ~loggedIn
        BY <2>2, <3>0, <3>2 DEF Leave
      <3> QED  BY <3>1, <3>2
    <2>9. CASE Close \/ InterruptEnds
      BY <2>2, <2>9 DEF Close, InterruptEnds
    <2>10. CASE ClientReceive
      <3>1. PICK n \in 1..Len(s2c) :
              /\ s2c' = Drop(n, s2c)
              /\ IF n = 1 /\ s2c[1].type = "NEW_MESSAGE"
                   THEN UNCHANGED <<sess, secure, cpc, loggedIn, last, rotation>>
                   ELSE Answered(IF n = 1 THEN s2c[1] ELSE NoAnswer)
        BY <2>10 DEF ClientReceive
      <3>2. Slot = 0 /\ Slot' \in {0, 1} /\ (cpc' = cpc => Slot' = 0)
        BY <2>10 DEF ClientReceive, Waiting, Slot
      <3>3. Len(s2c) \in Nat /\ (n = 1 \/ n >= 2)
        BY LagOperands, LenProperties
      <3>4. UNCHANGED <<c2s, rid, notes, timeouts, longs>>
        BY <2>10 DEF ClientReceive
      <3> QED  BY <2>0, <3>1, <3>2, <3>3, <3>4, LagTake
    <2>11. CASE ClientTimeout
      <3>1. UNCHANGED <<s2c, c2s, rid, notes, longs>> /\ timeouts' = timeouts + 1
        BY <2>11 DEF ClientTimeout
      <3>2. Slot \in {0, 1} /\ Slot' \in {0, 1} /\ timeouts \in Nat
        BY LagOperands DEF Slot
      <3>3. timeouts <= timeouts' /\ Slot' + timeouts <= Slot + timeouts'
        <4> DEFINE x == Slot  y == Slot'  a == timeouts  b == timeouts'
        <4>1. x \in Nat /\ y \in Nat /\ y <= 1 /\ a \in Nat /\ b = a + 1
          BY <3>1, <3>2
        <4> HIDE DEF x, y, a, b
        <4>2. a <= b /\ y + a <= x + b
          BY <4>1
        <4> QED  BY <4>2 DEF x, y, a, b
      <3> QED  BY <2>0, <3>1, <3>3, LagWait
    <2>12. CASE ServerReceive
      <3>1. PICK n \in 1..Len(c2s), m \in Frame(ClientFrames \cup {"ERROR"}) :
              c2s' = Drop(n, c2s) /\ Handle(m) /\ m.rid = c2s[n].rid
        BY <2>12, ServerTurn
      <3>2. UNCHANGED <<rid, notes, timeouts, cpc>>
        BY <2>12 DEF ServerReceive
      <3>3. CASE ReplyInPieces(m)
        <4>1. PICK p \in 1..(1 + MaxLong - longs) :
                 /\ longs' = longs + p - 1
                 /\ s2c' = s2c \o [i \in 1..p |-> Message("PIECE", m.rid, NoKey, 0)]
          BY <3>3 DEF ReplyInPieces
        <4>2. p \in Nat /\ p >= 1
          OBVIOUS
        <4> QED  BY <2>0, <3>1, <3>2, <4>1, <4>2, LagReplyInPieces
      <3>4. CASE ~ReplyInPieces(m)
        <4>1. /\ longs' = longs
              /\ \E t \in ServerFrames \ {"NEW_MESSAGE"}, k \in SessionKey, q \in Nat :
                    s2c' = Append(s2c, Message(t, m.rid, k, q))
          BY <3>1, <3>4, HandleReplies
        <4> QED  BY <2>0, <3>1, <3>2, <4>1, LagReply
      <3> QED  BY <3>3, <3>4
    <2>13. CASE ServerSeesClose
      BY <2>2, <2>13 DEF ServerSeesClose
    <2>16. CASE ServerReceivePart
      BY <2>0, <2>16, LagPart
    <2>14. CASE Notify
      BY <2>0, <2>14, LagNote DEF Notify
    <2>15. ASSUME NEW p \in Party, Age(p) PROVE Answering'
      BY <2>2, <2>15 DEF Age
    <2> QED
      BY <2>3, <2>4, <2>5, <2>6, <2>7, <2>8, <2>9, <2>10, <2>11, <2>12, <2>13, <2>14, <2>15,
         <2>16
      DEF Next, ClientStep, UserStep, ServerStep, Disturb
  <1> QED  BY <1>2, <1>3

LEMMA Half == \A n, x, d \in Nat : 2 * x <= n + 2 * d => x <= d + n \div 2
  OBVIOUS

LEMMA HalfGrows ==
    \A n \in Nat : n \div 2 \in Nat /\ (n + 1) \div 2 \in Nat /\ n \div 2 <= (n + 1) \div 2
  OBVIOUS

LEMMA StepLagBounded ==
    ASSUME TypeOK, TypeOK', LogoutLast, Answering, LagBounded, Next
    PROVE  LagBounded'
  <1> USE DEF clientVars, boundVars
  <1>0. /\ notes \in Nat /\ timeouts \in Nat /\ longs \in Nat /\ rid \in Nat
        /\ last.req \in Nat /\ last.re \in Nat
    BY LagOperands DEF TypeOK
  <1>1. ASSUME last' = last, notes' \in {notes, notes + 1}, timeouts' \in {timeouts, timeouts + 1},
               longs' \in Nat, longs <= longs'
        PROVE  LagBounded'
    <2>1. notes \div 2 <= notes' \div 2 /\ notes \div 2 \in Nat /\ notes' \div 2 \in Nat
      <3> DEFINE a == notes  b == notes'
      <3>1. a \in Nat /\ (b = a \/ b = a + 1)
        BY <1>0, <1>1
      <3> HIDE DEF a, b
      <3>2. a \div 2 <= b \div 2 /\ a \div 2 \in Nat /\ b \div 2 \in Nat
        <4>1. CASE b = a
          <5> DEFINE h == a \div 2
          <5>1. h \in Nat
            BY <3>1, HalfGrows
          <5> HIDE DEF h
          <5>2. h <= h
            BY <5>1
          <5> QED  BY <4>1, <5>1, <5>2 DEF h
        <4>2. CASE b = a + 1
          BY <3>1, <4>2, HalfGrows
        <4> QED  BY <3>1, <4>1, <4>2
      <3> QED  BY <3>2 DEF a, b
    <2>2. timeouts <= timeouts' /\ longs <= longs' /\ timeouts' \in Nat /\ longs' \in Nat
      BY <1>0, <1>1
    <2> DEFINE h == notes \div 2  h2 == notes' \div 2
    <2> HIDE DEF h, h2
    <2>3. h <= h2 /\ h \in Nat /\ h2 \in Nat
      BY <2>1 DEF h, h2
    <2>4. last.re # 0 => last.re <= last.req /\ last.req - last.re <= timeouts + h + longs
      BY DEF LagBounded, h
    <2>5. last.re # 0 => last.re <= last.req /\ last.req - last.re <= timeouts' + h2 + longs'
      BY <1>0, <2>2, <2>3, <2>4
    <2> QED  BY <1>1, <2>5 DEF LagBounded, h2
  <1>10. longs' \in Nat /\ (longs' = longs => longs <= longs')
    BY <1>0, ChannelAssumption DEF TypeOK
  <1>2. ASSUME last'.re = 0 PROVE LagBounded'
    BY <1>2 DEF LagBounded
  <1>3. ASSUME cpc = "await", Len(s2c) # 0, s2c[1].type # "NEW_MESSAGE",
               last' = [req |-> rid, re |-> s2c[1].rid], UNCHANGED <<notes, timeouts, longs>>
        PROVE  LagBounded'
    <2>1. ~Interrupted
      BY <1>3 DEF LogoutLast, Interrupted
    <2>2. PICK f, w : w \in Nat /\ Within(f, s2c, c2s, Slot, rid, w, notes, timeouts + longs)
      BY <2>1 DEF Answering
    <2>3. 1 \in 1..Len(s2c) /\ s2c[1].rid \in Nat /\ Slot = 0
      <3>1. Len(s2c) \in Nat
        BY LagOperands, LenProperties
      <3>2. 1 \in 1..Len(s2c)
        BY <1>3, <3>1
      <3> QED  BY <1>3, <3>2, LagOperands, FrameFacts DEF Slot
    <2> DEFINE q == s2c[1].rid  d == timeouts + longs
    <2>4. q <= rid /\ Owed(0 + rid + f[1 - 1], q, w, notes, d) /\ f[0] = 0
      BY <1>3, <2>2, <2>3 DEF Within, Tally
    <2>5. q \in Nat /\ d \in Nat /\ 2 * rid + w <= notes + 2 * (d + q) /\ q <= rid
      <3>1. f[1 - 1] = 0 /\ q \in Nat /\ d \in Nat
        BY <1>0, <2>3, <2>4
      <3> HIDE DEF q, d
      <3> QED  BY <1>0, <2>2, <2>4, <3>1 DEF Owed
    <2>6. rid - q \in Nat /\ 2 * (rid - q) <= notes + 2 * d
      <3> HIDE DEF q, d
      <3> QED  BY <1>0, <2>2, <2>5
    <2>7. rid - q <= d + notes \div 2
      <3> HIDE DEF q, d
      <3> QED  BY <1>0, <2>5, <2>6, Half
    <2>8. rid - q <= timeouts + notes \div 2 + longs
      <3> DEFINE h == notes \div 2
      <3>1. h \in Nat
        BY <1>0
      <3>2. rid - q <= (timeouts + longs) + h
        BY <2>7
      <3> HIDE DEF h, q, d
      <3>3. rid - q <= timeouts + h + longs
        BY <1>0, <2>5, <3>1, <3>2
      <3> QED  BY <3>3 DEF h
    <2> QED  BY <1>3, <2>5, <2>8 DEF LagBounded
  <1>4. ASSUME NEW m, CommandAnswer(m), m = NoAnswer
        PROVE  last'.re = 0
    BY <1>4 DEF CommandAnswer, Accepts, NoAnswer, Message
  <1>5. CASE ClientReceive
    <2>1. PICK n \in 1..Len(s2c) :
            /\ s2c' = Drop(n, s2c)
            /\ IF n = 1 /\ s2c[1].type = "NEW_MESSAGE"
                 THEN UNCHANGED <<sess, secure, cpc, loggedIn, last, rotation>>
                 ELSE Answered(IF n = 1 THEN s2c[1] ELSE NoAnswer)
      BY <1>5 DEF ClientReceive
    <2>2. UNCHANGED <<notes, timeouts, longs>>
      BY <1>5 DEF ClientReceive
    <2>3. CASE last' = last
      BY <1>1, <1>10, <2>2, <2>3
    <2>4. CASE n = 1 /\ s2c[1].type # "NEW_MESSAGE" /\ CommandAnswer(s2c[1])
      <3>1. Len(s2c) # 0 /\ cpc = "await"
        BY <2>4, LagOperands, LenProperties DEF CommandAnswer
      <3>2. last'.re = 0 \/ last' = [req |-> rid, re |-> s2c[1].rid]
        BY <2>4 DEF CommandAnswer
      <3> QED  BY <1>2, <1>3, <2>2, <2>4, <3>1, <3>2
    <2>5. CASE n # 1 /\ CommandAnswer(NoAnswer)
      BY <1>2, <1>4, <2>5
    <2> QED  BY <2>1, <2>3, <2>4, <2>5 DEF Answered, HandshakeAnswer, RotationAnswer
  <1>6. CASE ClientTimeout
    <2>1. Answered(NoAnswer) /\ UNCHANGED <<notes, longs>> /\ timeouts' = timeouts + 1
      BY <1>6 DEF ClientTimeout
    <2> QED  BY <1>1, <1>2, <1>4, <1>10, <2>1 DEF Answered, HandshakeAnswer, RotationAnswer
  <1>7. CASE GiveUpResending
    BY <1>2, <1>7 DEF GiveUpResending
  <1>8. CASE ServerReceive
    <2>1. PICK n \in 1..Len(c2s), m \in Frame(ClientFrames \cup {"ERROR"}) : Handle(m)
      BY <1>8, ServerTurn
    <2>2. longs <= longs'
      <3>1. CASE longs' = longs
        BY <1>10, <3>1
      <3>2. CASE ReplyInPieces(m)
        <4>1. PICK p \in 1..(1 + MaxLong - longs) : longs' = longs + p - 1
          BY <3>2 DEF ReplyInPieces
        <4> QED  BY <1>0, <4>1
      <3> QED  BY <2>1, <3>1, <3>2, HandleReplies
    <2>3. UNCHANGED <<last, notes, timeouts>>
      BY <1>8 DEF ServerReceive
    <2> QED  BY <1>1, <1>10, <2>2, <2>3
  <1>11. CASE ServerReceivePart
    <2>1. longs' = longs + 1 /\ UNCHANGED <<last, notes, timeouts>>
      BY <1>11 DEF ServerReceivePart
    <2>2. longs <= longs'
      BY <1>0, <2>1
    <2> QED  BY <1>1, <1>10, <2>1, <2>2
  <1>9. CASE Connect \/ Resend \/ Close \/ UserStep \/ ServerSeesClose \/ Notify
             \/ Interrupt \/ InterruptEnds \/ (\E p \in Party : Age(p))
    <2>1. last' = last /\ notes' \in {notes, notes + 1} /\ UNCHANGED <<timeouts, longs>>
      BY <1>9 DEF Connect, Resend, Close, UserStep, BeginCommand, RotateManually, Disconnect,
                  Leave, ServerSeesClose, Notify, Interrupt, InterruptEnds, Age
    <2> QED  BY <1>1, <1>10, <2>1
  <1> QED  BY <1>5, <1>6, <1>7, <1>8, <1>9, <1>11 DEF Next, ClientStep, ServerStep, Disturb

LagInv == TypeOK /\ LogoutLast /\ Answering /\ LagBounded

LEMMA LagInvariant == Spec => []LagInv
  <1>1. Init => LagInv
    <2> SUFFICES ASSUME Init PROVE LagInv
      OBVIOUS
    <2>1. TypeOK /\ LogoutLast /\ LagBounded
      BY InitTypeOK DEF Init, LogoutLast, LagBounded
    <2>2. Answering
      <3> DEFINE f == [i \in 0..0 |-> 0]
      <3>1. /\ Tally(f, <<>>) /\ f[0] = 0 /\ Slot = 1 /\ s2c = <<>> /\ c2s = <<>>
            /\ rid = 0 /\ notes = 0 /\ timeouts + longs = 0
        BY TallyEmpty DEF Init, Slot
      <3> HIDE DEF f
      <3>2. Within(f, <<>>, <<>>, 1, 0, 0, 0, 0)
        BY <3>1 DEF Within, Owed
      <3> QED  BY <3>1, <3>2 DEF Answering
    <2> QED  BY <2>1, <2>2 DEF LagInv
  <1>2. LagInv /\ TypeOK' /\ [Next]_vars => LagInv'
    <2>1. ASSUME LagInv, TypeOK', Next PROVE LagInv'
      BY <2>1, StepLogoutLast, StepAnswering, StepLagBounded DEF LagInv
    <2>2. ASSUME LagInv, TypeOK', UNCHANGED vars PROVE LagInv'
      BY <2>2 DEF LagInv, LogoutLast, Answering, Interrupted, Slot, LagBounded,
                  vars, clientVars, boundVars
    <2> QED  BY <2>1, <2>2
  <1> QED  BY <1>1, <1>2, TypeCorrect, PTL DEF Spec

(* The answer that the client takes for a command is that of a command it  *)
(* sent, late by no more than the receives that timed out, half of the     *)
(* notifications and the long answers account for, through any number of   *)
(* rotations, resent commands and rejected frames (_receive_response       *)
(* against the turns of _handle_client).                                   *)
THEOREM LagIsBounded == Spec => []LagBounded
  <1>1. LagInv => LagBounded
    BY DEF LagInv
  <1> QED  BY <1>1, LagInvariant, PTL

-----------------------------------------------------------------------------
(* What the client waits for is under way.  This needs that the server     *)
(* thread outlives every wait: LOGOUT is the last frame ever written, and  *)
(* the client that has written it receives nothing any more.               *)

StillServed ==
    cpc \notin {"closing", "closed"} =>
        spc = "serving" /\ \A i \in DOMAIN c2s : c2s[i].type # "LOGOUT"

(* A command is sent as one frame, which is LOGOUT only if it is the end.  *)
LEMMA SendCommandOpens ==
    ASSUME TypeOK, NEW c \in Commands, SendCommand(c)
    PROVE  /\ cpc' \in {"await", "rotating", "closing"}
           /\ \E t \in ClientFrames, k \in SessionKey, q \in Nat :
                 Transmit(t, k, q) /\ (t = "LOGOUT" => cpc' = "closing")
  <1>1. CASE SendPlain(c)
    <2>1. PICK t \in {"LOGOUT", "PLAIN"} : Transmit(t, NoKey, 0) /\ (t = "LOGOUT" => c = "LOGOUT")
      BY <1>1 DEF SendPlain
    <2>2. t \in ClientFrames
      BY DEF ClientFrames
    <2> QED  BY <1>1, <2>1, <2>2, NoKeyType DEF SendPlain, AfterSending
  <1>2. CASE StartRotation(TRUE)
    <2>1. RotateKey(sess["client"]) \in Session
      BY SessionTypes DEF TypeOK, Party
    <2>2. RotateKey(sess["client"]).eph \in Nat /\ "KEY_ROTATION" \in ClientFrames
      BY <2>1 DEF Session, ClientFrames
    <2> QED  BY <1>2, <2>2, NoKeyType DEF StartRotation
  <1>3. CASE SealAndSend(c)
    <2>1. sess["client"].key \in SessionKey /\ "SECURE_MESSAGE" \in ClientFrames
      BY DEF TypeOK, Session, Party, ClientFrames
    <2> QED  BY <1>3, <2>1 DEF SealAndSend, AfterSending
  <1> QED  BY <1>1, <1>2, <1>3 DEF SendCommand

(* A client that has written a frame waits for a thread that will read it. *)
LEMMA SendingOpens ==
    ASSUME TypeOK, StillServed, cpc \notin {"closing", "closed"}, spc' = spc,
           NEW t \in ClientFrames, NEW k \in SessionKey, NEW q \in Nat, Transmit(t, k, q),
           t = "LOGOUT" => cpc' = "closing"
    PROVE  StillServed' /\ NoWaitInVain'
  <1>1. Message(t, rid + 1, k, q) \in Frame(ClientFrames)
    BY FrameType DEF TypeOK
  <1>2. /\ c2s' = Append(c2s, Message(t, rid + 1, k, q))
        /\ DOMAIN c2s' = 1..(Len(c2s) + 1) /\ c2s'[Len(c2s) + 1] = Message(t, rid + 1, k, q)
        /\ \A i \in 1..Len(c2s) : c2s'[i] = c2s[i]
        /\ DOMAIN c2s = 1..Len(c2s) /\ Len(c2s) \in Nat
    BY <1>1, AppendLemma, LenProperties DEF TypeOK, Transmit
  <1>3. spc' = "serving" /\ c2s' # <<>>
    <2>1. Len(c2s) + 1 \in DOMAIN c2s'
      BY <1>2
    <2> QED  BY <2>1 DEF StillServed
  <1>4. \A i \in DOMAIN c2s' : i \in 1..Len(c2s) \/ i = Len(c2s) + 1
    BY <1>2
  <1>5. cpc' # "closing" => \A i \in DOMAIN c2s' : c2s'[i].type # "LOGOUT"
    BY <1>2, <1>4 DEF StillServed, Message
  <1> QED  BY <1>3, <1>5 DEF StillServed, NoWaitInVain

(* Whatever the server answers with, something to read is under way.       *)
LEMMA RepliedUnderWay ==
    ASSUME TypeOK, NEW m \in Frame(ClientFrames \cup {"ERROR"}), Handle(m)
    PROVE  \E i \in DOMAIN s2c' : s2c'[i].type # "NEW_MESSAGE"
  <1>0. s2c \in Seq(Frame(ServerFrames)) /\ Len(s2c) \in Nat /\ m.rid \in Nat
    BY LenProperties DEF TypeOK, Frame
  <1>1. CASE ReplyInPieces(m)
    <2> DEFINE p == Message("PIECE", m.rid, NoKey, 0)
    <2>1. PICK n \in 1..(1 + MaxLong - longs) : s2c' = s2c \o [i \in 1..n |-> p]
      BY <1>1 DEF ReplyInPieces
    <2>2. p \in Frame(ServerFrames) /\ p.type = "PIECE"
      BY <1>0, FrameType, NoKeyType DEF ServerFrames, Message
    <2> DEFINE b == [i \in 1..n |-> p]
    <2> HIDE DEF p
    <2>3. n \in Nat /\ n >= 1 /\ 1 \in 1..n
      BY <2>1, ChannelAssumption DEF TypeOK
    <2>4. b \in Seq(Frame(ServerFrames)) /\ Len(b) = n /\ \A i \in 1..n : b[i] = p
      BY <2>2, <2>3, IsASeq
    <2> HIDE DEF b
    <2>5. /\ Len(s2c \o b) = Len(s2c) + n /\ DOMAIN (s2c \o b) = 1..Len(s2c \o b)
          /\ (s2c \o b)[Len(s2c) + 1] = b[1]
      <3> DEFINE F == Frame(ServerFrames)
      <3>1. s2c \in Seq(F) /\ b \in Seq(F)
        BY <1>0, <2>4
      <3> HIDE DEF F
      <3>2. s2c \o b \in Seq(F)
        BY <3>1, ConcatProperties
      <3>3. DOMAIN (s2c \o b) = 1..Len(s2c \o b)
        BY <3>2, LenProperties
      <3>4. Len(s2c \o b) = Len(s2c) + Len(b) /\ \A i \in 1..Len(b) : (s2c \o b)[Len(s2c) + i] = b[i]
        BY <3>1, ConcatLemma
      <3> QED  BY <2>3, <2>4, <3>3, <3>4
    <2>6. Len(s2c) + 1 \in DOMAIN (s2c \o b)
      BY <1>0, <2>3, <2>5
    <2>7. s2c' = s2c \o b
      BY <2>1 DEF b
    <2> QED  BY <2>2, <2>3, <2>4, <2>5, <2>6, <2>7
  <1>2. CASE ~ReplyInPieces(m)
    <2>1. PICK t \in ServerFrames \ {"NEW_MESSAGE"}, k \in SessionKey, q \in Nat :
             s2c' = Append(s2c, Message(t, m.rid, k, q))
      BY <1>2, HandleReplies
    <2>2. Message(t, m.rid, k, q) \in Frame(ServerFrames)
      BY <1>0, <2>1, FrameType
    <2>3. DOMAIN s2c' = 1..(Len(s2c) + 1) /\ s2c'[Len(s2c) + 1] = Message(t, m.rid, k, q)
      BY <1>0, <2>1, <2>2, AppendLemma
    <2>4. Len(s2c) + 1 \in DOMAIN s2c' /\ Message(t, m.rid, k, q).type = t
      BY <1>0, <2>3 DEF Message
    <2> QED  BY <2>1, <2>3, <2>4
  <1> QED  BY <1>1, <1>2

(* A turn of the server ends the thread only on LOGOUT.                    *)
LEMMA TurnKeepsServing ==
    ASSUME NEW m, Handle(m), m.type # "LOGOUT"
    PROVE  spc' = spc
  BY DEF Handle, Handshake, HandleSecureMessage, HandleKeyRotation, HandlePlain, HandleLogout,
         Reject

(* A receive of the client that returns.                                   *)
LEMMA AnsweredMoves ==
    ASSUME NEW m, Answered(m)
    PROVE  cpc \in Waiting /\ cpc' \in {"idle", "resend"}
  BY DEF Answered, HandshakeAnswer, RotationAnswer, CommandAnswer, Waiting

LEMMA StepWaits ==
    ASSUME TypeOK, StillServed, NoWaitInVain, Next
    PROVE  StillServed' /\ NoWaitInVain'
  <1> USE DEF clientVars, boundVars
  <1>1. ASSUME UNCHANGED <<c2s, spc>>, cpc' \notin Waiting,
               cpc' \in {"closing", "closed"} \/ cpc \notin {"closing", "closed"}
        PROVE  StillServed' /\ NoWaitInVain'
    BY <1>1 DEF StillServed, NoWaitInVain
  <1>2. CASE Connect
    <2>1. NewSession.eph \in Nat /\ "HANDSHAKE_INIT" \in ClientFrames
      BY DEF NewSession, ClientFrames
    <2> QED  BY <1>2, <2>1, NoKeyType, SendingOpens DEF Connect
  <1>3. ASSUME NEW c \in Commands, SendCommand(c), cpc \notin {"closing", "closed"}, spc' = spc
        PROVE  StillServed' /\ NoWaitInVain'
    BY <1>3, SendCommandOpens, SendingOpens
  <1>4. ASSUME NEW c \in Commands, BeginCommand(c) PROVE StillServed' /\ NoWaitInVain'
    BY <1>3, <1>4 DEF BeginCommand
  <1>5. CASE RotateManually
    <2>1. RotateKey(sess["client"]) \in Session
      BY SessionTypes DEF TypeOK, Party
    <2>2. RotateKey(sess["client"]).eph \in Nat /\ "KEY_ROTATION" \in ClientFrames
      BY <2>1 DEF Session, ClientFrames
    <2> QED  BY <1>5, <2>2, NoKeyType, SendingOpens DEF RotateManually, StartRotation
  <1>6. CASE Resend
    BY <1>3, <1>6 DEF Resend, TypeOK
  <1>7. CASE GiveUpResending
    BY <1>1, <1>7 DEF GiveUpResending, Waiting
  <1>8. CASE Disconnect \/ Interrupt
    <2>1. cpc \notin {"closing", "closed"} /\ spc' = spc /\ Leave
      BY <1>8 DEF Disconnect, Interrupt, Leave, Waiting
    <2>2. CASE loggedIn
      BY <1>3, <2>1, <2>2 DEF Leave, Commands
    <2>3. CASE ~loggedIn
      BY <1>1, <2>1, <2>3 DEF Leave, Waiting
    <2> QED  BY <2>2, <2>3
  <1>9. CASE Close \/ InterruptEnds
    BY <1>1, <1>9 DEF Close, InterruptEnds, Waiting
  <1>10. CASE ClientReceive
    <2>1. PICK n \in 1..Len(s2c) :
            /\ s2c' = Drop(n, s2c)
            /\ IF n = 1 /\ s2c[1].type = "NEW_MESSAGE"
                 THEN UNCHANGED <<sess, secure, cpc, loggedIn, last, rotation>>
                 ELSE Answered(IF n = 1 THEN s2c[1] ELSE NoAnswer)
      BY <1>10 DEF ClientReceive
    <2>2. UNCHANGED <<c2s, spc>> /\ cpc \in Waiting
      BY <1>10 DEF ClientReceive
    <2>3. CASE n = 1 /\ s2c[1].type = "NEW_MESSAGE"
      <3>1. s2c \in Seq(Frame(ServerFrames)) /\ Len(s2c) \in Nat /\ DOMAIN s2c = 1..Len(s2c)
        BY LenProperties DEF TypeOK
      <3>2. /\ DOMAIN s2c' = 1..(Len(s2c) - 1)
            /\ \A i \in 1..(Len(s2c) - 1) : s2c'[i] = s2c[i + 1]
        BY <2>1, <2>3, <3>1, DropLemma
      <3>3. ASSUME NEW i \in DOMAIN s2c, s2c[i].type # "NEW_MESSAGE"
            PROVE  \E j \in DOMAIN s2c' : s2c'[j].type # "NEW_MESSAGE"
        <4>1. i # 1 /\ i \in 1..Len(s2c)
          BY <2>3, <3>1, <3>3
        <4>2. i - 1 \in 1..(Len(s2c) - 1) /\ (i - 1) + 1 = i
          BY <3>1, <4>1
        <4>3. s2c'[i - 1] = s2c[i]
          BY <3>2, <4>2
        <4> QED  BY <3>2, <3>3, <4>2, <4>3
      <3>4. cpc' = cpc
        BY <2>1, <2>3
      <3> QED  BY <2>2, <3>3, <3>4 DEF NoWaitInVain, StillServed
    <2>4. CASE ~(n = 1 /\ s2c[1].type = "NEW_MESSAGE")
      <3>1. cpc \in Waiting /\ cpc' \in {"idle", "resend"}
        BY <2>1, <2>4, AnsweredMoves
      <3> QED  BY <1>1, <2>2, <3>1 DEF Waiting
    <2> QED  BY <2>3, <2>4
  <1>11. CASE ClientTimeout
    <2>1. cpc \in Waiting /\ cpc' \in {"idle", "resend"} /\ UNCHANGED <<c2s, spc>>
      BY <1>11, AnsweredMoves DEF ClientTimeout
    <2> QED  BY <1>1, <2>1 DEF Waiting
  <1>12. CASE ServerReceive
    <2>1. PICK n \in 1..Len(c2s), m \in Frame(ClientFrames \cup {"ERROR"}) :
             /\ c2s' = Drop(n, c2s) /\ Handle(m) /\ m.rid = c2s[n].rid
             /\ IF n = 1 THEN m = c2s[1] ELSE m.type = "ERROR"
      BY <1>12, ServerTurn
    <2>2. \E i \in DOMAIN s2c' : s2c'[i].type # "NEW_MESSAGE"
      BY <2>1, RepliedUnderWay
    <2>3. c2s \in Seq(Frame(ClientFrames)) /\ Len(c2s) \in Nat /\ DOMAIN c2s = 1..Len(c2s)
      BY LenProperties DEF TypeOK
    <2>4. /\ DOMAIN c2s' = 1..(Len(c2s) - n)
          /\ \A i \in 1..(Len(c2s) - n) : c2s'[i] = c2s[i + n]
      BY <2>1, <2>3, DropLemma
    <2>5. cpc' = cpc
      BY <1>12 DEF ServerReceive
    <2>6. ASSUME cpc \notin {"closing", "closed"}
          PROVE  spc' = "serving" /\ \A i \in DOMAIN c2s' : c2s'[i].type # "LOGOUT"
      <3>1. spc = "serving" /\ \A i \in 1..Len(c2s) : c2s[i].type # "LOGOUT"
        BY <2>3, <2>6 DEF StillServed
      <3>2. m.type # "LOGOUT"
        <4>1. 1 \in 1..Len(c2s)
          BY <2>1, <2>3
        <4> QED  BY <2>1, <3>1, <4>1
      <3>3. \A i \in 1..(Len(c2s) - n) : i + n \in 1..Len(c2s)
        BY <2>1, <2>3
      <3> QED  BY <2>1, <2>4, <3>1, <3>2, <3>3, TurnKeepsServing
    <2> QED  BY <2>2, <2>5, <2>6 DEF StillServed, NoWaitInVain
  <1>16. CASE ServerReceivePart
    <2>1. PICK n \in 1..Len(c2s) :
             /\ c2s' = [Drop(n - 1, c2s) EXCEPT ![1].type = "PIECE"]
             /\ s2c' = Append(s2c, Message("ERROR", c2s[n].rid, NoKey, 0))
      BY <1>16 DEF ServerReceivePart
    <2>2. UNCHANGED <<cpc, spc>>
      BY <1>16 DEF ServerReceivePart
    <2>3. \E i \in DOMAIN s2c' : s2c'[i].type # "NEW_MESSAGE"
      <3> DEFINE e == Message("ERROR", c2s[n].rid, NoKey, 0)
      <3>1. e \in Frame(ServerFrames) /\ e.type = "ERROR"
        <4>1. c2s[n].rid \in Nat /\ "ERROR" \in ServerFrames
          BY LagOperands, FrameFacts DEF ServerFrames
        <4> QED  BY <4>1, FrameType, NoKeyType DEF Message
      <3> HIDE DEF e
      <3>2. s2c \in Seq(Frame(ServerFrames)) /\ Len(s2c) \in Nat
        BY LenProperties DEF TypeOK
      <3>3. DOMAIN s2c' = 1..(Len(s2c) + 1) /\ s2c'[Len(s2c) + 1] = e
        BY <2>1, <3>1, <3>2, AppendLemma DEF e
      <3>4. Len(s2c) + 1 \in DOMAIN s2c'
        BY <3>2, <3>3
      <3> QED  BY <3>1, <3>3, <3>4
    <2>4. ASSUME \A i \in DOMAIN c2s : c2s[i].type # "LOGOUT"
          PROVE  \A i \in DOMAIN c2s' : c2s'[i].type # "LOGOUT"
      <3>1. c2s \in Seq(Frame(ClientFrames)) /\ "PIECE" \in ClientFrames
        BY DEF TypeOK, ClientFrames
      <3>2. DOMAIN c2s = 1..Len(c2s)
        BY <3>1, LenProperties
      <3>3. \A i \in DOMAIN c2s' : /\ i + (n - 1) \in 1..Len(c2s)
                                   /\ c2s'[i].type \in {c2s[i + (n - 1)].type, "PIECE"}
        <4> DEFINE u == c2s'
        <4>1. u = [Drop(n - 1, c2s) EXCEPT ![1].type = "PIECE"]
          BY <2>1
        <4> HIDE DEF u
        <4>2. /\ DOMAIN u = 1..Len(u)
              /\ \A i \in 1..Len(u) : /\ i + (n - 1) \in 1..Len(c2s)
                                      /\ u[i].type \in {c2s[i + (n - 1)].type, "PIECE"}
          BY <3>1, <4>1, PartLemma
        <4> QED  BY <4>2 DEF u
      <3> QED  BY <2>4, <3>2, <3>3
    <2> QED  BY <2>2, <2>3, <2>4 DEF StillServed, NoWaitInVain
  <1>13. CASE ServerSeesClose
    BY <1>13 DEF ServerSeesClose, StillServed, NoWaitInVain, Waiting
  <1>14. CASE Notify
    <2> DEFINE m == Message("NEW_MESSAGE", 0, NoKey, 0)
    <2>1. m \in Frame(ServerFrames)
      BY FrameType, NoKeyType DEF ServerFrames
    <2>2. /\ s2c \in Seq(Frame(ServerFrames)) /\ s2c' = Append(s2c, m)
          /\ UNCHANGED <<c2s, spc, cpc>>
      BY <1>14 DEF Notify, TypeOK
    <2> HIDE DEF m
    <2>3. \A i \in DOMAIN s2c : i \in DOMAIN s2c' /\ s2c'[i] = s2c[i]
      <3>1. Len(s2c) \in Nat /\ DOMAIN s2c = 1..Len(s2c)
        BY <2>2, LenProperties
      <3>2. DOMAIN s2c' = 1..(Len(s2c) + 1) /\ \A i \in 1..Len(s2c) : s2c'[i] = s2c[i]
        BY <2>1, <2>2, AppendLemma
      <3> QED  BY <3>1, <3>2
    <2> QED  BY <2>2, <2>3 DEF StillServed, NoWaitInVain
  <1>15. ASSUME NEW p \in Party, Age(p) PROVE StillServed' /\ NoWaitInVain'
    BY <1>15 DEF Age, StillServed, NoWaitInVain
  <1> QED
    BY <1>2, <1>4, <1>5, <1>6, <1>7, <1>8, <1>9, <1>10, <1>11, <1>12, <1>13, <1>14, <1>15,
       <1>16
    DEF Next, ClientStep, UserStep, ServerStep, Disturb

(* The client never waits with nothing under way to end its wait, however  *)
(* frames were merged, rejected, timed out, cut in pieces or interrupted:  *)
(* every turn of the server answers what it has read, and the thread reads *)
(* on until LOGOUT, after which nobody waits (_receive_response against    *)
(* _handle_client).                                                        *)
THEOREM NeverWaitsInVain == Spec => []NoWaitInVain
  <1>1. Init => StillServed /\ NoWaitInVain
    BY DEF Init, StillServed, NoWaitInVain, Waiting
  <1>2. TypeOK /\ StillServed /\ NoWaitInVain /\ [Next]_vars => (StillServed /\ NoWaitInVain)'
    <2>1. ASSUME StillServed, NoWaitInVain, UNCHANGED vars PROVE (StillServed /\ NoWaitInVain)'
      BY <2>1 DEF StillServed, NoWaitInVain, vars, clientVars
    <2> QED  BY <2>1, StepWaits
  <1> QED  BY <1>1, <1>2, TypeCorrect, PTL DEF Spec

-----------------------------------------------------------------------------
(* While the two ends are in step, one frame at a time is on its way, and  *)
(* every step is one of a few moves of the client's and the server's       *)
(* sessions.  What the sessions agree on is inductive over these moves.    *)

Frames(s) == {s[i] : i \in 1..Len(s)}
AnswersIn(s) == {m \in Frames(s) : m.type # "NEW_MESSAGE"}

Requests == Frames(c2s)
Answers  == AnswersIn(s2c)

OneAtATime ==
    /\ Len(c2s) <= 1 /\ Len(s2c) <= 1 + notes
    /\ Requests = {} \/ Answers = {}
    /\ Slot = 1 => Requests = {} /\ Answers = {}

LEMMA FramesAppend ==
    ASSUME NEW T, NEW s \in Seq(Frame(T)), NEW e \in Frame(T)
    PROVE  /\ Frames(Append(s, e)) = Frames(s) \cup {e}
           /\ e.type # "NEW_MESSAGE" => AnswersIn(Append(s, e)) = AnswersIn(s) \cup {e}
           /\ e.type = "NEW_MESSAGE" => AnswersIn(Append(s, e)) = AnswersIn(s)
  <1>1. /\ Len(Append(s, e)) = Len(s) + 1 /\ Len(s) \in Nat
        /\ \A i \in 1..Len(s) : Append(s, e)[i] = s[i]
        /\ Append(s, e)[Len(s) + 1] = e
    BY AppendLemma, LenProperties
  <1>2. 1..(Len(s) + 1) = (1..Len(s)) \cup {Len(s) + 1}
    BY <1>1
  <1>3. Frames(Append(s, e)) = Frames(s) \cup {e}
    BY <1>1, <1>2 DEF Frames
  <1> QED  BY <1>3 DEF AnswersIn

LEMMA FramesDrop ==
    ASSUME NEW T, NEW s \in Seq(Frame(T)), NEW n \in 1..Len(s)
    PROVE  /\ Frames(Drop(n, s)) \subseteq Frames(s)
           /\ AnswersIn(Drop(n, s)) \subseteq AnswersIn(s)
  <1>1. \A i \in 1..Len(Drop(n, s)) : Drop(n, s)[i] = s[i + n] /\ i + n \in 1..Len(s)
    BY DropLen
  <1> QED  BY <1>1 DEF Frames, AnswersIn

LEMMA HowMany ==
    ASSUME NEW x \in Nat, NEW a \in Nat, NEW c \in Nat, NEW w \in Nat, NEW n \in Nat,
           n < 2, w <= n, Owed(x + a + c, 1, w, n, 0)
    PROVE  x + a + c <= 1
  BY DEF Owed

LEMMA OneFrame ==
    ASSUME TypeOK, Answering, InStep
    PROVE  OneAtATime
  <1>1. /\ ~Interrupted /\ timeouts + longs = 0 /\ notes < 2
    BY DEF InStep, Interrupted
  <1>2. PICK f, w : w \in Nat /\ Within(f, s2c, c2s, Slot, rid, w, notes, 0)
    BY <1>1 DEF Answering
  <1>3. /\ Len(s2c) \in Nat /\ Len(c2s) \in Nat /\ f[Len(s2c)] \in Nat
        /\ notes \in Nat /\ Slot \in Nat
    BY <1>2, LagOperands, OperandTypes DEF Within
  <1>4. Slot + f[Len(s2c)] + Len(c2s) <= 1
    BY <1>1, <1>2, <1>3, HowMany DEF Within
  <1>5. f[Len(s2c)] = 0 => Answers = {}
    <2> SUFFICES ASSUME f[Len(s2c)] = 0, NEW i \in 1..Len(s2c) PROVE s2c[i].type = "NEW_MESSAGE"
      BY DEF Answers, AnswersIn, Frames
    <2>1. i \in 0..Len(s2c) /\ i - 1 \in 0..Len(s2c) /\ Len(s2c) \in 0..Len(s2c) /\ i <= Len(s2c)
      BY <1>3
    <2>2. f[i] \in Nat /\ f[i - 1] \in Nat /\ f[i] <= f[Len(s2c)] /\ f[i] = f[i - 1] + One(s2c[i])
      BY <1>2, <2>1 DEF Within, Tally
    <2>3. One(s2c[i]) # 1
      BY <2>2
    <2> QED  BY <2>3 DEF One
  <1>6. Len(c2s) = 0 => Requests = {}
    BY DEF Requests, Frames
  <1>7. Len(s2c) = f[Len(s2c)] + w /\ w <= notes
    BY <1>2 DEF Within
  <1>8. /\ Len(c2s) <= 1 /\ Len(s2c) <= 1 + notes /\ (Len(c2s) = 0 \/ f[Len(s2c)] = 0)
        /\ Slot = 1 => Len(c2s) = 0 /\ f[Len(s2c)] = 0
    <2> DEFINE x == Slot  b == f[Len(s2c)]  c == Len(c2s)  l == Len(s2c)
    <2>1. /\ x \in Nat /\ b \in Nat /\ c \in Nat /\ l \in Nat /\ w \in Nat /\ notes \in Nat
          /\ x + b + c <= 1 /\ l = b + w /\ w <= notes
      BY <1>2, <1>3, <1>4, <1>7
    <2> HIDE DEF x, b, c, l
    <2>2. c <= 1 /\ l <= 1 + notes /\ (c = 0 \/ b = 0) /\ (x = 1 => c = 0 /\ b = 0)
      BY <2>1
    <2> QED  BY <2>2 DEF x, b, c, l
  <1> QED  BY <1>5, <1>6, <1>8 DEF OneAtATime

(* The counters of disturbances only grow. *)
LEMMA CountersGrow ==
    ASSUME TypeOK, Next
    PROVE  /\ notes' \in {notes, notes + 1} /\ timeouts' \in {timeouts, timeouts + 1}
           /\ longs' \in Nat /\ longs' >= longs
  <1> USE DEF clientVars, boundVars
  <1>0. longs \in Nat /\ MaxLong \in Nat
    BY LagOperands, ChannelAssumption
  <1>1. CASE ServerReceive
    <2>1. PICK n \in 1..Len(c2s), m \in Frame(ClientFrames \cup {"ERROR"}) : Handle(m)
      BY <1>1, ServerTurn
    <2>2. longs' = longs \/ \E p \in 1..(1 + MaxLong - longs) : longs' = longs + p - 1
      BY <2>1, HandleReplies DEF ReplyInPieces
    <2>3. longs' \in Nat /\ longs' >= longs
      BY <1>0, <2>2
    <2> QED  BY <1>1, <2>3 DEF ServerReceive
  <1>2. CASE ClientTimeout
    BY <1>0, <1>2 DEF ClientTimeout
  <1>3. CASE ServerReceivePart
    BY <1>0, <1>3 DEF ServerReceivePart
  <1>4. CASE \/ ClientStep \/ UserStep \/ ServerSeesClose \/ Notify \/ Interrupt \/ InterruptEnds
             \/ \E p \in Party : Age(p)
    <2>1. longs' = longs /\ timeouts' = timeouts /\ notes' \in {notes, notes + 1}
      BY <1>4 DEF ClientStep, UserStep, Connect, ClientReceive, Resend, GiveUpResending, Close,
                  BeginCommand, RotateManually, Disconnect, Interrupt, InterruptEnds, Leave,
                  ServerSeesClose, Notify, Age
    <2> QED  BY <1>0, <2>1
  <1> QED  BY <1>1, <1>2, <1>3, <1>4 DEF Next, ServerStep, Disturb

LEMMA StaysInStep ==
    ASSUME TypeOK, LogoutLast, Next, InStep'
    PROVE  InStep /\ timeouts' = timeouts /\ longs' = longs /\ ~Interrupted'
  <1>1. notes \in Nat /\ timeouts \in Nat /\ longs \in Nat
    BY LagOperands
  <1>2. timeouts' = 0 /\ longs' = 0 /\ notes' < 2 /\ ~Interrupted'
    BY DEF InStep, Interrupted
  <1>3. cmd = "LOGOUT" => "interrupt" \notin Faults
    BY <1>2, StepLogoutLast DEF Interrupted
  <1>4. notes < 2 /\ timeouts = 0 /\ longs = 0
    BY <1>1, <1>2, CountersGrow
  <1> QED  BY <1>2, <1>3, <1>4 DEF InStep

(* What the operations of SecureSession leave of what matters here. *)
LEMMA SessionEffects ==
    ASSUME NEW s \in Session, NEW p \in Party, NEW q \in Nat
    PROVE  /\ CompleteKeyExchange(p, s, q).key = ComputeSessionKey(p, s.eph, q)
           /\ CompleteKeyExchange(p, s, q).eph = s.eph
           /\ CompleteKeyExchange(p, s, q).encrypted = s.encrypted
           /\ CompleteKeyExchange(p, s, q).aged = s.aged
           /\ RotateKey(s).key = s.key /\ RotateKey(s).eph = s.eph + 1
           /\ RotateKey(s).encrypted = 0 /\ RotateKey(s).aged = s.aged
           /\ EncryptMessage(s).key = s.key /\ EncryptMessage(s).eph = s.eph
           /\ EncryptMessage(s).encrypted = s.encrypted + 1 /\ EncryptMessage(s).aged = s.aged
           /\ Destroy(s).encrypted = s.encrypted /\ Destroy(s).aged = s.aged
           /\ Gone(s).encrypted = s.encrypted
  <1>1. s \in SessionRecord
    BY DEF Session, SessionRecord
  <1> QED  BY <1>1 DEF SessionRecord, CompleteKeyExchange, RotateKey, EncryptMessage, Destroy, Gone

(* The moves.  A session that is kept may at most grow old. *)
Kept(p) ==
    /\ sess'[p].eph = sess[p].eph /\ sess'[p].key = sess[p].key
    /\ sess'[p].encrypted = sess[p].encrypted
    /\ sess[p].aged => sess'[p].aged

Connects ==
    /\ cpc = "start" /\ cpc' = "handshake" /\ sealed = <<>>
    /\ Client'.eph = 1 /\ Client'.key = NoKey /\ Client'.encrypted = 0
    /\ Answers' = {}
    /\ \E m \in Requests' : Requests' = {m} /\ m.type = "HANDSHAKE_INIT" /\ m.pub = 1
    /\ UNCHANGED <<Server, secure["server"], served, spc, sealed, rotation, notes>>

SendsPlain(m) ==
    /\ \/ m.type = "PLAIN" /\ cpc' = "await"
       \/ m.type = "LOGOUT" /\ cpc' = "closing"
    /\ UNCHANGED <<Client, sealed>>

SendsRotation(m) ==
    /\ m.type = "KEY_ROTATION" /\ m.pub = Client'.eph /\ cpc' = "rotating"
    /\ Client'.eph = Client.eph + 1 /\ Client'.key = Client.key /\ Client'.encrypted = 0
    /\ UNCHANGED sealed

SendsSealed(m) ==
    /\ m.type = "SECURE_MESSAGE" /\ cpc' \in {"await", "closing"}
    /\ Client'.eph = Client.eph /\ Client'.key = Client.key
    /\ Client.encrypted < MaxMessages /\ Client'.encrypted = Client.encrypted + 1
    /\ sealed' = Append(sealed, Seals("client"))

Sends ==
    /\ cpc \in {"idle", "resend"} /\ Answers' = {}
    /\ \E m \in Requests' :
          Requests' = {m} /\ (SendsPlain(m) \/ SendsRotation(m) \/ SendsSealed(m))
    /\ UNCHANGED <<Server, secure["server"], served, spc, rotation, notes>>

Waits ==
    /\ Kept("client") /\ Kept("server")
    /\ notes' = notes \/ (notes' = notes + 1 /\ served # <<>>)
    /\ \/ cpc' = cpc
       \/ cpc' = "closing" /\ cpc # "closed"
       \/ cpc' = "idle" /\ cpc = "resend"
    /\ Requests' = Requests /\ Answers' \subseteq Answers
    /\ rotation' \in {rotation, "failed"}
    /\ UNCHANGED <<secure["server"], served, spc, sealed>>

Closes ==
    /\ cpc' = "closed" /\ Client'.encrypted = Client.encrypted
    /\ Requests' = Requests /\ Answers' = Answers
    /\ UNCHANGED <<Server, secure["server"], served, spc, sealed, rotation, notes>>

ReceivesKey(m) ==
    /\ cpc \in {"handshake", "rotating"} /\ m \in Answers
    /\ Client'.key = [c |-> Client.eph, s |-> m.pub]
    /\ Client'.eph = Client.eph /\ Client'.encrypted = Client.encrypted
    /\ rotation' \in {rotation, "ok"} /\ (cpc = "rotating" => rotation' = "ok")

Receives ==
    /\ cpc \in Waiting /\ cpc' \in {"idle", "resend"}
    /\ Requests = {} /\ Requests' = {} /\ Answers' = {}
    /\ UNCHANGED <<Server, secure["server"], served, spc, sealed, notes>>
    /\ \/ cpc = "await" /\ UNCHANGED <<Client, rotation>>
       \/ \E m \in Answers : ReceivesKey(m)
       \/ cpc = "rotating" /\ notes # 0 /\ rotation' = "failed" /\ UNCHANGED Client

TurnsHandshake(m, a) ==
    /\ m.type = "HANDSHAKE_INIT" /\ a.type = "HANDSHAKE_RESPONSE"
    /\ Server'.key = [c |-> m.pub, s |-> 1] /\ Server'.eph = 1 /\ a.pub = 1
    /\ Server'.encrypted = 0 /\ secure'["server"]
    /\ \A i \in DOMAIN sealed : sealed[i].by # "server"
    /\ UNCHANGED <<served, spc, sealed>>

TurnsRotation(m, a) ==
    /\ m.type = "KEY_ROTATION" /\ a.type = "KEY_ROTATION"
    /\ Server'.key = [c |-> m.pub, s |-> Server.eph + 1]
    /\ Server'.eph = Server.eph + 1 /\ a.pub = Server.eph + 1
    /\ Server'.encrypted = 0
    /\ UNCHANGED <<secure["server"], served, spc, sealed>>

TurnsSealed(m, a) ==
    /\ m.type = "SECURE_MESSAGE" /\ a.type \in {"SECURE_MESSAGE", "PIECE"}
    /\ Server'.eph = Server.eph /\ Server'.key = Server.key
    /\ Server.encrypted < MaxMessages /\ Server'.encrypted = Server.encrypted + 1
    /\ sealed' = Append(sealed, Seals("server"))
    /\ UNCHANGED <<secure["server"], spc>>

TurnsPlain(m, a) ==
    /\ m.type \in {"PLAIN", "PIECE", "SECURE_MESSAGE", "KEY_ROTATION"}
    /\ a.type \in {"PLAIN", "PIECE", "ERROR", "KEY_ROTATION_REQUIRED"}
    /\ m.type = "KEY_ROTATION" => ~secure["server"]
    /\ a.type = "KEY_ROTATION_REQUIRED" =>
          m.type = "SECURE_MESSAGE" /\ (Server.encrypted >= MaxMessages \/ Server.aged)
    /\ Kept("server")
    /\ UNCHANGED <<secure["server"], spc, sealed>>

TurnsLogout(m, a) ==
    /\ m.type = "LOGOUT" /\ a.type = "PLAIN" /\ spc' = "done"
    /\ Server'.encrypted = Server.encrypted
    /\ UNCHANGED <<secure["server"], served, sealed>>

Turns ==
    /\ spc = "serving" /\ Answers = {} /\ Requests' = {}
    /\ \E m \in Requests, a \in Answers' :
          /\ Requests = {m} /\ Answers' = {a}
          /\ \/ TurnsHandshake(m, a) \/ TurnsRotation(m, a) \/ TurnsSealed(m, a)
             \/ TurnsPlain(m, a) \/ TurnsLogout(m, a)
    /\ UNCHANGED <<Client, cpc, rotation, notes>>

Ends ==
    /\ cpc = "closed" /\ cpc' = "closed" /\ spc' = "done"
    /\ Server'.encrypted = Server.encrypted /\ (Server.aged => Server'.aged)
    /\ Requests' = Requests /\ Answers' = Answers
    /\ UNCHANGED <<Client, secure["server"], served, sealed, rotation, notes>>

Move == Connects \/ Sends \/ Waits \/ Closes \/ Receives \/ Turns \/ Ends

(* What is on its way fits what the client waits for, and the two ends     *)
(* hold the same key between two rotations.                                *)
Fitting ==
    /\ cpc \notin {"closing", "closed"} => spc = "serving"
    /\ cpc \in {"start", "handshake"} => served = <<>> /\ notes = 0
    /\ cpc \in {"idle", "await", "resend", "rotating"} => secure["server"]
    /\ \A m \in Requests :
          /\ cpc = "handshake" => m.type = "HANDSHAKE_INIT" /\ m.pub = Client.eph
          /\ cpc = "rotating" => m.type = "KEY_ROTATION" /\ m.pub = Client.eph
          /\ cpc = "await" => m.type \in {"PLAIN", "SECURE_MESSAGE"}
          /\ m.type = "KEY_ROTATION" => secure["server"]
    /\ \A m \in Answers :
          /\ cpc = "handshake" => m.type = "HANDSHAKE_RESPONSE"
          /\ cpc = "rotating" => m.type = "KEY_ROTATION"
          /\ cpc \in {"handshake", "rotating"} =>
                secure["server"] /\ Server.key = [c |-> Client.eph, s |-> m.pub]
    /\ cpc \in {"idle", "await", "resend"} /\ rotation # "failed" => Client.key = Server.key

(* The server never counts more messages than the client has, and one less *)
(* while the client's message is on its way.                               *)
Counting ==
    /\ Client.encrypted <= MaxMessages
    /\ cpc \in {"start", "handshake"} => Server.encrypted = 0
    /\ (\A m \in Requests : m.type # "KEY_ROTATION") => Server.encrypted <= Client.encrypted
    /\ \A m \in Requests : m.type = "SECURE_MESSAGE" => Server.encrypted < Client.encrypted
    /\ \A m \in Answers : m.type = "KEY_ROTATION_REQUIRED" => Server.aged

-----------------------------------------------------------------------------
(* In step, every step is one of the moves.                                *)

LEMMA StateTypes ==
    ASSUME TypeOK
    PROVE  /\ Client \in Session /\ Client.eph \in Nat /\ Client.key \in SessionKey
           /\ Client.encrypted \in Nat /\ Client.key.c \in Nat
           /\ Server \in Session /\ Server.eph \in Nat /\ Server.key \in SessionKey
           /\ Server.encrypted \in Nat /\ Server.key.s \in Nat
           /\ notes \in Nat /\ MaxMessages \in Nat /\ MaxMessages > 0
           /\ sess["client"] = Client /\ sess["server"] = Server
  <1>1. Client \in Session /\ Server \in Session
    BY DEF TypeOK, Client, Server, Party
  <1>2. /\ Client.eph \in Nat /\ Client.key \in SessionKey /\ Client.encrypted \in Nat
        /\ Server.eph \in Nat /\ Server.key \in SessionKey /\ Server.encrypted \in Nat
    BY <1>1 DEF Session
  <1>3. Client.key.c \in Nat /\ Server.key.s \in Nat
    BY <1>2 DEF SessionKey
  <1>4. notes \in Nat /\ MaxMessages \in Nat /\ MaxMessages > 0
    BY LagOperands, MaxMessagesAssumption
  <1> QED  BY <1>1, <1>2, <1>3, <1>4 DEF Client, Server

(* Sending, when nothing is on its way, leaves just the frame sent. *)
LEMMA SentAlone ==
    ASSUME TypeOK, OneAtATime, Slot = 1, UNCHANGED s2c,
           NEW t \in ClientFrames, NEW k \in SessionKey, NEW q \in Nat, Transmit(t, k, q)
    PROVE  /\ Answers' = {}
           /\ \E m \in Requests' : Requests' = {m} /\ m.type = t /\ m.pub = q
  <1> DEFINE e == Message(t, rid + 1, k, q)
  <1>1. e \in Frame(ClientFrames) /\ e.type = t /\ e.pub = q
    <2>1. rid + 1 \in Nat
      BY LagOperands
    <2> QED  BY <2>1, FrameType DEF Message
  <1>2. c2s' = Append(c2s, e)
    BY DEF Transmit
  <1> HIDE DEF e
  <1>3. Frames(Append(c2s, e)) = Frames(c2s) \cup {e}
    BY <1>1, LagOperands, FramesAppend
  <1>4. Requests' = {e}
    BY <1>2, <1>3 DEF OneAtATime, Requests
  <1>5. Answers' = {}
    BY DEF OneAtATime, Answers, AnswersIn, Frames
  <1> QED  BY <1>1, <1>4, <1>5

LEMMA ConnectMoves ==
    ASSUME TypeOK, OneAtATime, HandshakeFirst, Connect
    PROVE  Connects
  <1>1. Slot = 1 /\ UNCHANGED s2c
    BY DEF Connect, Slot
  <1>2. /\ "HANDSHAKE_INIT" \in ClientFrames /\ NewSession.eph \in Nat /\ NewSession.eph = 1
        /\ NewSession.key = NoKey /\ NewSession.encrypted = 0
    BY DEF ClientFrames, NewSession
  <1>3. /\ Answers' = {}
        /\ \E m \in Requests' : Requests' = {m} /\ m.type = "HANDSHAKE_INIT" /\ m.pub = NewSession.eph
    BY <1>1, <1>2, NoKeyType, SentAlone DEF Connect
  <1>4. Client' = NewSession /\ Server' = Server
    BY DEF Connect, TypeOK, Party, Client, Server
  <1> QED  BY <1>2, <1>3, <1>4 DEF Connect, Connects, HandshakeFirst, boundVars

LEMMA RotationMoves ==
    ASSUME TypeOK, OneAtATime, cpc \in {"idle", "resend"}, NEW again, StartRotation(again),
           UNCHANGED <<s2c, secure, served, spc, notes>>
    PROVE  Sends
  <1>1. Slot = 1
    BY DEF Slot
  <1>2. /\ sess["client"] \in Session /\ RotateKey(sess["client"]) \in Session
        /\ "KEY_ROTATION" \in ClientFrames
    BY SessionTypes DEF TypeOK, Party, ClientFrames
  <1>3. RotateKey(sess["client"]).eph \in Nat
    BY <1>2 DEF Session
  <1>4. /\ Answers' = {}
        /\ \E m \in Requests' : /\ Requests' = {m} /\ m.type = "KEY_ROTATION"
                                /\ m.pub = RotateKey(sess["client"]).eph
    BY <1>1, <1>2, <1>3, NoKeyType, SentAlone DEF StartRotation
  <1>5. Client' = RotateKey(Client) /\ Server' = Server
    BY DEF StartRotation, TypeOK, Party, Client, Server
  <1>6. /\ RotateKey(Client).eph = Client.eph + 1 /\ RotateKey(Client).key = Client.key
        /\ RotateKey(Client).encrypted = 0
    BY <1>2, SessionEffects DEF Client, Party
  <1> QED  BY <1>4, <1>5, <1>6 DEF StartRotation, Sends, SendsRotation, Client

LEMMA SendMoves ==
    ASSUME TypeOK, OneAtATime, cpc \in {"idle", "resend"}, NEW c \in Commands, SendCommand(c),
           UNCHANGED <<s2c, secure, served, spc, notes>>
    PROVE  Sends
  <1>1. Slot = 1
    BY DEF Slot
  <1>2. CASE SendPlain(c)
    <2>1. PICK t \in {"PLAIN", "LOGOUT"} :
             /\ Transmit(t, NoKey, 0)
             /\ (t = "PLAIN" /\ cpc' = "await") \/ (t = "LOGOUT" /\ cpc' = "closing")
      BY <1>2 DEF SendPlain, AfterSending
    <2>2. t \in ClientFrames
      BY DEF ClientFrames
    <2>3. /\ Answers' = {}
          /\ \E m \in Requests' : Requests' = {m} /\ m.type = t
      BY <1>1, <2>1, <2>2, NoKeyType, SentAlone
    <2>4. Client' = Client /\ Server' = Server
      BY <1>2 DEF SendPlain, Client, Server
    <2> QED  BY <1>2, <2>1, <2>3, <2>4 DEF SendPlain, Sends, SendsPlain
  <1>3. CASE StartRotation(TRUE)
    BY <1>3, RotationMoves
  <1>4. CASE SealAndSend(c) /\ ~NeedsRotation(sess["client"])
    <2>1. "SECURE_MESSAGE" \in ClientFrames /\ sess["client"].key \in SessionKey
      BY StateTypes DEF ClientFrames
    <2>2. /\ Answers' = {}
          /\ \E m \in Requests' : Requests' = {m} /\ m.type = "SECURE_MESSAGE"
      BY <1>1, <1>4, <2>1, SentAlone DEF SealAndSend
    <2>3. Client' = EncryptMessage(Client) /\ Server' = Server
      BY <1>4 DEF SealAndSend, TypeOK, Party, Client, Server
    <2>4. /\ EncryptMessage(Client).eph = Client.eph /\ EncryptMessage(Client).key = Client.key
          /\ EncryptMessage(Client).encrypted = Client.encrypted + 1
      BY StateTypes, SessionEffects DEF Party
    <2>5. Client.encrypted < MaxMessages
      <3>1. ~(Client.encrypted >= MaxMessages)
        BY <1>4 DEF NeedsRotation, Client
      <3> QED  BY <3>1, StateTypes
    <2> QED  BY <1>4, <2>2, <2>3, <2>4, <2>5 DEF SealAndSend, AfterSending, Sends, SendsSealed
  <1> QED  BY <1>2, <1>3, <1>4 DEF SendCommand

(* What the client has received leaves nothing on its way. *)
LEMMA ReceiveMoves ==
    ASSUME TypeOK, TypeOK', OneAtATime, OneAtATime', Fitting, InStep, ClientReceive
    PROVE  Waits \/ Receives
  <1>0. /\ c2s' = c2s /\ cpc \in Waiting
        /\ UNCHANGED <<secure["server"], served, spc, sealed, notes>>
    <2>1. UNCHANGED secure \/ \E b \in BOOLEAN : secure' = [secure EXCEPT !["client"] = b]
      BY DEF ClientReceive, Answered, HandshakeAnswer, RotationAnswer, CommandAnswer
    <2>2. UNCHANGED secure["server"]
      BY <2>1 DEF TypeOK, Party
    <2> QED  BY <2>2 DEF ClientReceive, boundVars
  <1>1. PICK n \in 1..Len(s2c) :
          /\ s2c' = Drop(n, s2c)
          /\ IF n = 1 /\ s2c[1].type = "NEW_MESSAGE"
               THEN UNCHANGED <<sess, secure, cpc, loggedIn, last, rotation>>
               ELSE Answered(IF n = 1 THEN s2c[1] ELSE NoAnswer)
    BY DEF ClientReceive
  <1>2. Requests' = Requests /\ Answers' \subseteq Answers
    <2>1. AnswersIn(Drop(n, s2c)) \subseteq AnswersIn(s2c)
      BY LagOperands, FramesDrop
    <2> QED  BY <1>0, <1>1, <2>1 DEF Requests, Answers
  <1>3. CASE n = 1 /\ s2c[1].type = "NEW_MESSAGE"
    <2>1. UNCHANGED <<sess, cpc, rotation>>
      BY <1>1, <1>3
    <2>2. Kept("client") /\ Kept("server")
      BY <2>1 DEF Kept
    <2> QED  BY <1>0, <1>2, <2>1, <2>2 DEF Waits
  <1>4. ASSUME NEW m, Answered(m)
        PROVE  /\ cpc' \in {"idle", "resend"} /\ Server' = Server
               /\ Requests = {} /\ Requests' = {} /\ Answers' = {}
    <2>1. cpc' \in {"idle", "resend"}
      BY <1>4 DEF Answered, HandshakeAnswer, RotationAnswer, CommandAnswer
    <2>2. Slot' = 1
      BY <2>1 DEF Slot
    <2>3. Requests' = {} /\ Answers' = {}
      BY <2>2 DEF OneAtATime
    <2>4. UNCHANGED sess \/ \E s : sess' = [sess EXCEPT !["client"] = s]
      BY <1>4 DEF Answered, HandshakeAnswer, RotationAnswer, CommandAnswer
    <2>5. Server' = Server
      BY <2>4 DEF TypeOK, Party, Server
    <2> QED  BY <1>2, <2>1, <2>3, <2>5
  <1>5. CASE n = 1 /\ s2c[1].type # "NEW_MESSAGE"
    <2> DEFINE m == s2c[1]
    <2>1. Answered(m)
      BY <1>1, <1>5
    <2>2. m \in Answers /\ m \in Frame(ServerFrames)
      BY <1>5, LagOperands, ElementOfSeq DEF Answers, AnswersIn, Frames
    <2>3. m.pub \in Nat
      BY <2>2 DEF Frame
    <2> HIDE DEF m
    <2>4. CASE HandshakeAnswer(m)
      <3>1. cpc = "handshake" /\ m.type = "HANDSHAKE_RESPONSE"
        BY <2>2, <2>4 DEF HandshakeAnswer, Fitting
      <3>2. Client' = CompleteKeyExchange("client", Client, m.pub) /\ rotation' = rotation
        BY <2>4, <3>1 DEF HandshakeAnswer, TypeOK, Party, Client
      <3>3. /\ CompleteKeyExchange("client", Client, m.pub).key = [c |-> Client.eph, s |-> m.pub]
            /\ CompleteKeyExchange("client", Client, m.pub).eph = Client.eph
            /\ CompleteKeyExchange("client", Client, m.pub).encrypted = Client.encrypted
        BY <2>3, StateTypes, SessionEffects DEF Party, ComputeSessionKey
      <3>4. ReceivesKey(m)
        BY <2>2, <3>1, <3>2, <3>3 DEF ReceivesKey
      <3> QED  BY <1>0, <1>4, <2>1, <2>2, <3>4 DEF Receives
    <2>5. CASE RotationAnswer(m)
      <3>1. cpc = "rotating" /\ m.type = "KEY_ROTATION"
        BY <2>2, <2>5 DEF RotationAnswer, Fitting
      <3>2. Client' = CompleteKeyExchange("client", Client, m.pub) /\ rotation' = "ok"
        BY <2>5, <3>1 DEF RotationAnswer, TypeOK, Party, Client
      <3>3. /\ CompleteKeyExchange("client", Client, m.pub).key = [c |-> Client.eph, s |-> m.pub]
            /\ CompleteKeyExchange("client", Client, m.pub).eph = Client.eph
            /\ CompleteKeyExchange("client", Client, m.pub).encrypted = Client.encrypted
        BY <2>3, StateTypes, SessionEffects DEF Party, ComputeSessionKey
      <3>4. ReceivesKey(m)
        BY <2>2, <3>1, <3>2, <3>3 DEF ReceivesKey
      <3> QED  BY <1>0, <1>4, <2>1, <2>2, <3>4 DEF Receives
    <2>6. CASE CommandAnswer(m)
      <3>1. cpc = "await" /\ UNCHANGED <<Client, rotation>>
        BY <2>6 DEF CommandAnswer, Client
      <3> QED  BY <1>0, <1>4, <2>1, <3>1 DEF Receives
    <2> QED  BY <2>1, <2>4, <2>5, <2>6 DEF Answered
  <1>6. CASE n # 1
    <2>1. notes # 0
      <3>1. Len(s2c) \in Nat /\ n \in Nat /\ 1 <= n /\ n <= Len(s2c) /\ Len(s2c) <= 1 + notes
        BY LagOperands, LenProperties DEF OneAtATime
      <3>2. notes \in Nat
        BY LagOperands
      <3> QED  BY <1>6, <3>1, <3>2
    <2>2. Answered(NoAnswer)
      BY <1>1, <1>6
    <2>3. NoAnswer.type = "ERROR"
      BY DEF NoAnswer, Message
    <2>4. ~HandshakeAnswer(NoAnswer)
      BY <2>1 DEF HandshakeAnswer, Fitting
    <2>5. \/ cpc = "rotating" /\ rotation' = "failed" /\ UNCHANGED Client
          \/ cpc = "await" /\ UNCHANGED <<Client, rotation>>
      BY <2>2, <2>3, <2>4 DEF Answered, RotationAnswer, CommandAnswer, Client
    <2> QED  BY <1>0, <1>4, <2>1, <2>2, <2>5 DEF Receives
  <1> QED  BY <1>3, <1>5, <1>6

(* One turn of the server's loop takes the request and leaves its answer. *)
LEMMA RepliedAlone ==
    ASSUME TypeOK, Answers = {}, NEW m \in Frame(ClientFrames \cup {"ERROR"}),
           NEW t \in ServerFrames \ {"NEW_MESSAGE"}, NEW k \in SessionKey, NEW q \in Nat,
           Reply(t, m, k, q)
    PROVE  \E a \in Answers' : Answers' = {a} /\ a.type = t /\ a.pub = q
  <1> DEFINE e == Message(t, m.rid, k, q)
  <1>1. e \in Frame(ServerFrames) /\ e.type = t /\ e.pub = q /\ e.type # "NEW_MESSAGE"
    <2>1. m.rid \in Nat /\ t \in ServerFrames
      BY DEF Frame
    <2> QED  BY <2>1, FrameType DEF Message
  <1>2. s2c' = Append(s2c, e)
    BY DEF Reply
  <1> HIDE DEF e
  <1>3. AnswersIn(Append(s2c, e)) = AnswersIn(s2c) \cup {e}
    BY <1>1, LagOperands, FramesAppend
  <1>4. Answers' = {e}
    BY <1>2, <1>3 DEF Answers
  <1> QED  BY <1>1, <1>4

(* A long answer that one receive can take is one frame. *)
LEMMA OnePiece ==
    ASSUME TypeOK, NEW m \in Frame(ClientFrames), ReplyInPieces(m), longs' = longs
    PROVE  Reply("PIECE", m, NoKey, 0)
  <1> DEFINE e == Message("PIECE", m.rid, NoKey, 0)
  <1>1. PICK n \in 1..(1 + MaxLong - longs) :
           longs' = longs + n - 1 /\ s2c' = s2c \o [i \in 1..n |-> e]
    BY DEF ReplyInPieces
  <1>2. e \in Frame(ServerFrames)
    <2>1. m.rid \in Nat /\ "PIECE" \in ServerFrames
      BY DEF Frame, ServerFrames
    <2> QED  BY <2>1, FrameType, NoKeyType
  <1> HIDE DEF e
  <1>3. n = 1
    <2>1. longs \in Nat /\ MaxLong \in Nat /\ longs = longs + n - 1
      BY <1>1, LagOperands, ChannelAssumption
    <2> QED  BY <2>1
  <1>4. [i \in 1..1 |-> e] = <<e>>
    OBVIOUS
  <1>5. s2c \o <<e>> = Append(s2c, e)
    <2>1. s2c \in Seq(Frame(ServerFrames))
      BY LagOperands
    <2> QED  BY <1>2, <2>1, AppendIsConcat
  <1> QED  BY <1>1, <1>3, <1>4, <1>5 DEF Reply, e

LEMMA TurnMoves ==
    ASSUME TypeOK, TypeOK', OneAtATime, HandshakeFirst, longs' = longs, ServerReceive
    PROVE  Turns
  <1>1. PICK n \in 1..Len(c2s), m \in Frame(ClientFrames \cup {"ERROR"}) :
           /\ c2s' = Drop(n, c2s) /\ Handle(m)
           /\ IF n = 1 THEN m = c2s[1] ELSE m.type = "ERROR"
    BY ServerTurn
  <1>2. /\ n = 1 /\ m = c2s[1] /\ 1 \in 1..Len(c2s) /\ Len(c2s) = 1
        /\ Requests = {m} /\ Requests' = {} /\ Answers = {}
    <2>1. Len(c2s) \in Nat /\ n \in Nat /\ 1 <= n /\ n <= Len(c2s) /\ Len(c2s) <= 1
      BY LagOperands, LenProperties DEF OneAtATime
    <2>2. n = 1 /\ Len(c2s) = 1
      <3> DEFINE l == Len(c2s)
      <3>1. l \in Nat /\ n \in Nat /\ 1 <= n /\ n <= l /\ l <= 1
        BY <2>1
      <3> HIDE DEF l
      <3>2. n = 1 /\ l = 1
        BY <3>1
      <3> QED  BY <3>2 DEF l
    <2>3. Requests = {m}
      BY <1>1, <2>2 DEF Requests, Frames
    <2>4. Len(Drop(n, c2s)) \in Nat /\ Len(Drop(n, c2s)) + n = Len(c2s)
      BY LagOperands, DropLen
    <2>5. Len(Drop(n, c2s)) = 0
      BY <2>2, <2>4
    <2>6. Requests' = {}
      BY <1>1, <2>5 DEF Requests, Frames
    <2> QED  BY <1>1, <2>2, <2>3, <2>6 DEF OneAtATime
  <1>3. m \in Frame(ClientFrames) /\ m.pub \in Nat /\ m.rid \in Nat
    <2>1. m \in Frame(ClientFrames)
      BY <1>2, LagOperands, ElementOfSeq
    <2> QED  BY <2>1 DEF Frame
  <1>4. /\ spc = "serving" /\ UNCHANGED <<Client, cpc, rotation, notes>>
    <2>1. UNCHANGED sess \/ \E s : sess' = [sess EXCEPT !["server"] = s]
      BY <1>1 DEF Handle, Handshake, HandleSecureMessage, SecureReply, HandleKeyRotation,
                  HandlePlain, HandleLogout, Cleanup, Reject
    <2>2. UNCHANGED Client
      BY <2>1 DEF TypeOK, Party, Client
    <2> QED  BY <2>2 DEF ServerReceive, clientVars
  <1>5. ASSUME NEW a \in Answers', Answers' = {a},
               \/ TurnsHandshake(m, a) \/ TurnsRotation(m, a) \/ TurnsSealed(m, a)
               \/ TurnsPlain(m, a) \/ TurnsLogout(m, a)
        PROVE  Turns
    BY <1>2, <1>4, <1>5 DEF Turns
  <1>6. Server \in Session /\ Server.eph \in Nat /\ Server.key \in SessionKey
    BY StateTypes
  <1>7. ReplyInPieces(m) => Reply("PIECE", m, NoKey, 0)
    BY <1>3, OnePiece
  <1>8. CASE Handshake(m)
    <2> DEFINE s == CompleteKeyExchange("server", NewSession, m.pub)
    <2>1. m.type = "HANDSHAKE_INIT" /\ Reply("HANDSHAKE_RESPONSE", m, NoKey, s.eph)
          /\ sess' = [sess EXCEPT !["server"] = s]
          /\ secure' = [secure EXCEPT !["server"] = TRUE] /\ UNCHANGED <<spc, sealed, served>>
      BY <1>8 DEF Handshake
    <2>2. NewSession \in Session /\ NewSession.eph = 1 /\ NewSession.encrypted = 0
      BY <1>6, SessionTypes DEF Party, NewSession
    <2>3. s.key = [c |-> m.pub, s |-> 1] /\ s.eph = 1 /\ s.encrypted = 0
      BY <1>3, <2>2, SessionEffects DEF Party, ComputeSessionKey
    <2>4. Server' = s /\ secure'["server"]
      BY <2>1 DEF TypeOK, Party, Server
    <2>5. \A i \in DOMAIN sealed : sealed[i].by # "server"
      <3>1. 1 \in DOMAIN c2s
        BY <1>2, LagOperands, LenProperties
      <3> QED  BY <1>2, <2>1, <3>1 DEF HandshakeFirst
    <2> HIDE DEF s
    <2>6. PICK a \in Answers' : Answers' = {a} /\ a.type = "HANDSHAKE_RESPONSE" /\ a.pub = s.eph
      <3>1. "HANDSHAKE_RESPONSE" \in ServerFrames \ {"NEW_MESSAGE"} /\ s.eph \in Nat
        <4>1. s.eph \in Nat
          BY <2>3
        <4> QED  BY <4>1 DEF ServerFrames
      <3> QED  BY <1>2, <2>1, <3>1, NoKeyType, RepliedAlone, ZenonT(30)
    <2>7. TurnsHandshake(m, a)
      BY <2>1, <2>3, <2>4, <2>5, <2>6 DEF TurnsHandshake
    <2> QED  BY <1>5, <2>6, <2>7
  <1>9. ASSUME NEW t \in {"PLAIN", "PIECE", "ERROR", "KEY_ROTATION_REQUIRED"}, Reply(t, m, NoKey, 0),
               m.type \in {"PLAIN", "PIECE", "SECURE_MESSAGE", "KEY_ROTATION"},
               m.type = "KEY_ROTATION" => ~secure["server"],
               t = "KEY_ROTATION_REQUIRED" =>
                  m.type = "SECURE_MESSAGE" /\ NeedsRotation(sess["server"]),
               UNCHANGED <<sess, secure, spc, sealed>>
        PROVE  Turns
    <2>1. t \in ServerFrames \ {"NEW_MESSAGE"}
      BY DEF ServerFrames
    <2>4. Reply(t, m, NoKey, 0)
      BY <1>9
    <2>5. \E a \in Answers' : Answers' = {a} /\ a.type = t /\ a.pub = 0
      BY <1>2, <2>1, <2>4, NoKeyType, RepliedAlone
    <2>2. PICK a \in Answers' : Answers' = {a} /\ a.type = t
      BY <2>5
    <2>3. TurnsPlain(m, a)
      BY <1>9, <2>2 DEF TurnsPlain, Kept, NeedsRotation, Server
    <2> QED  BY <1>5, <2>2, <2>3
  <1>10. CASE HandleSecureMessage(m)
    <2>1. m.type = "SECURE_MESSAGE" /\ UNCHANGED <<secure, spc>>
      BY <1>10 DEF HandleSecureMessage
    <2>2. CASE Reply("ERROR", m, NoKey, 0) /\ UNCHANGED <<sess, sealed>>
      BY <1>9, <2>1, <2>2
    <2>3. CASE SecureReply(m) /\ NeedsRotation(sess["server"])
      BY <1>9, <2>1, <2>3 DEF SecureReply
    <2>4. CASE SecureReply(m) /\ ~NeedsRotation(sess["server"])
      <3>1. /\ \/ Reply("SECURE_MESSAGE", m, sess["server"].key, 0)
               \/ Reply("PIECE", m, NoKey, 0)
            /\ sess' = [sess EXCEPT !["server"] = EncryptMessage(@)]
            /\ sealed' = Append(sealed, Seals("server"))
        BY <1>7, <2>4 DEF SecureReply
      <3>2. PICK t \in {"SECURE_MESSAGE", "PIECE"}, k \in SessionKey : Reply(t, m, k, 0)
        BY <1>6, <3>1, NoKeyType DEF Server
      <3>7. PICK a \in Answers' : Answers' = {a} /\ a.type = t
        <4>1. t \in ServerFrames \ {"NEW_MESSAGE"}
          BY DEF ServerFrames
        <4>2. \E a \in Answers' : Answers' = {a} /\ a.type = t /\ a.pub = 0
          BY <1>2, <3>2, <4>1, RepliedAlone
        <4> QED  BY <4>2
      <3>3. Server' = EncryptMessage(Server)
        BY <3>1 DEF TypeOK, Party, Server
      <3>4. /\ EncryptMessage(Server).eph = Server.eph /\ EncryptMessage(Server).key = Server.key
            /\ EncryptMessage(Server).encrypted = Server.encrypted + 1
        BY <1>6, SessionEffects DEF Party
      <3>5. Server.encrypted < MaxMessages
        <4>1. ~(Server.encrypted >= MaxMessages)
          BY <2>4 DEF NeedsRotation, Server
        <4> QED  BY <4>1, StateTypes
      <3>6. TurnsSealed(m, a)
        BY <2>1, <3>1, <3>3, <3>4, <3>5, <3>7 DEF TurnsSealed
      <3> QED  BY <1>5, <3>6, <3>7
    <2> QED  BY <1>10, <2>2, <2>3, <2>4 DEF HandleSecureMessage
  <1>11. CASE HandleKeyRotation(m)
    <2> DEFINE s == RotatedBy(sess["server"], m.pub)
    <2>1. /\ m.type = "KEY_ROTATION" /\ Reply("KEY_ROTATION", m, NoKey, s.eph)
          /\ sess' = [sess EXCEPT !["server"] = s] /\ UNCHANGED <<secure, spc, sealed, served>>
      BY <1>11 DEF HandleKeyRotation
    <2>2. /\ RotateKey(Server) \in Session /\ RotateKey(Server).eph = Server.eph + 1
          /\ RotateKey(Server).encrypted = 0
      BY <1>6, SessionTypes, SessionEffects DEF Party
    <2>3. s.key = [c |-> m.pub, s |-> Server.eph + 1] /\ s.eph = Server.eph + 1 /\ s.encrypted = 0
      <3>1. s = CompleteKeyExchange("server", RotateKey(Server), m.pub)
        BY DEF RotatedBy, Server
      <3> HIDE DEF s
      <3> QED  BY <1>3, <2>2, <3>1, SessionEffects DEF Party, ComputeSessionKey
    <2>4. Server' = s
      BY <2>1 DEF TypeOK, Party, Server
    <2> HIDE DEF s
    <2>5. PICK a \in Answers' : Answers' = {a} /\ a.type = "KEY_ROTATION" /\ a.pub = s.eph
      <3> DEFINE t == "KEY_ROTATION"  q == s.eph
      <3>1. t \in ServerFrames \ {"NEW_MESSAGE"} /\ q \in Nat
        BY <1>6, <2>3 DEF ServerFrames
      <3>2. Reply(t, m, NoKey, q)
        BY <2>1
      <3> HIDE DEF t, q
      <3>3. \E a \in Answers' : Answers' = {a} /\ a.type = t /\ a.pub = q
        BY <1>2, <3>1, <3>2, NoKeyType, RepliedAlone
      <3> QED  BY <3>3 DEF t, q
    <2>6. TurnsRotation(m, a)
      BY <2>1, <2>3, <2>4, <2>5 DEF TurnsRotation
    <2> QED  BY <1>5, <2>5, <2>6
  <1>12. CASE HandlePlain(m)
    <2>1. /\ Reply("PLAIN", m, NoKey, 0) \/ Reply("PIECE", m, NoKey, 0)
          /\ m.type = "PLAIN" /\ UNCHANGED <<sess, secure, spc, sealed>>
      BY <1>7, <1>12 DEF HandlePlain
    <2> QED  BY <1>9, <2>1
  <1>13. CASE HandleLogout(m)
    <2>1. /\ m.type = "LOGOUT" /\ Reply("PLAIN", m, NoKey, 0) /\ spc' = "done"
          /\ UNCHANGED <<secure, sealed, served>>
      BY <1>13 DEF HandleLogout, Cleanup
    <2>2. "PLAIN" \in ServerFrames \ {"NEW_MESSAGE"}
      BY DEF ServerFrames
    <2>3. PICK a \in Answers' : Answers' = {a} /\ a.type = "PLAIN"
      BY <1>2, <2>1, <2>2, NoKeyType, RepliedAlone
    <2>4. Server' = Server \/ Server' = Destroy(Server)
      BY <1>13 DEF HandleLogout, Cleanup, TypeOK, Party, Server
    <2>5. Server'.encrypted = Server.encrypted
      <3>1. Destroy(Server).encrypted = Server.encrypted
        BY <1>6, <1>3, SessionEffects DEF Party
      <3> QED  BY <2>4, <3>1
    <2>6. TurnsLogout(m, a)
      BY <2>1, <2>3, <2>5 DEF TurnsLogout
    <2> QED  BY <1>5, <2>3, <2>6
  <1>14. CASE Reject(m)
    <2>1. /\ Reply("ERROR", m, NoKey, 0) /\ UNCHANGED <<sess, secure, spc, sealed>>
          /\ \/ m.type = "PIECE"
             \/ m.type \in {"SECURE_MESSAGE", "KEY_ROTATION"} /\ ~secure["server"]
      <3>1. m.type # "ERROR"
        BY <1>3 DEF Frame, ClientFrames
      <3> QED  BY <1>14, <3>1 DEF Reject
    <2> QED  BY <1>9, <2>1
  <1> QED  BY <1>1, <1>8, <1>10, <1>11, <1>12, <1>13, <1>14 DEF Handle

LEMMA InStepMoves ==
    ASSUME TypeOK, TypeOK', LogoutLast, HandshakeFirst, OneAtATime, OneAtATime', Fitting,
           InStep', Next
    PROVE  Move
  <1> USE DEF clientVars, boundVars
  <1>0. InStep /\ timeouts' = timeouts /\ longs' = longs /\ ~Interrupted'
    BY StaysInStep
  <1>1. ASSUME UNCHANGED <<sess, secure, c2s, s2c, served, spc, sealed, notes>>,
               rotation' \in {rotation, "failed"},
               cpc' = cpc \/ (cpc' = "closing" /\ cpc # "closed") \/ (cpc' = "idle" /\ cpc = "resend")
        PROVE  Move
    <2>1. Requests' = Requests /\ Answers' = Answers
      BY <1>1 DEF Requests, Answers
    <2> QED  BY <1>1, <2>1 DEF Move, Waits, Kept
  <1>2. CASE Connect
    BY <1>2, ConnectMoves DEF Move
  <1>3. ASSUME NEW c \in Commands, BeginCommand(c) PROVE Move
    BY <1>3, SendMoves DEF BeginCommand, Move
  <1>4. CASE RotateManually
    BY <1>4, RotationMoves DEF RotateManually, Move
  <1>5. CASE Resend
    BY <1>5, SendMoves DEF Resend, Move, TypeOK
  <1>6. CASE GiveUpResending
    BY <1>1, <1>6 DEF GiveUpResending
  <1>7. CASE Disconnect \/ Interrupt
    <2>1. CASE loggedIn
      <3>1. "LOGOUT" \in Commands /\ SendCommand("LOGOUT") /\ cmd' = "LOGOUT"
        BY <1>7, <2>1 DEF Disconnect, Interrupt, Leave, Commands, SendCommand
      <3>2. cpc = "idle" /\ UNCHANGED <<s2c, secure, served, spc, notes>>
        BY <1>0, <1>7, <3>1 DEF Disconnect, Interrupt, Leave, Interrupted
      <3> QED  BY <3>1, <3>2, SendMoves DEF Move
    <2>2. CASE ~loggedIn
      BY <1>1, <1>7, <2>2 DEF Disconnect, Interrupt, Leave, Waiting
    <2> QED  BY <2>1, <2>2
  <1>8. CASE Close \/ InterruptEnds
    <2>1. (Client' = Destroy(Client) \/ Client' = Gone(Client)) /\ Server' = Server
      BY <1>8 DEF Close, InterruptEnds, TypeOK, Party, Client, Server
    <2>2. Destroy(Client).encrypted = Client.encrypted /\ Gone(Client).encrypted = Client.encrypted
      BY StateTypes, SessionEffects DEF Party
    <2>3. Requests' = Requests /\ Answers' = Answers
      BY <1>8 DEF Close, InterruptEnds, Requests, Answers
    <2> QED  BY <1>8, <2>1, <2>2, <2>3 DEF Close, InterruptEnds, Closes, Move
  <1>9. CASE ClientReceive
    BY <1>0, <1>9, ReceiveMoves DEF Move
  <1>10. CASE ClientTimeout
    BY <1>0, <1>10, LagOperands DEF ClientTimeout
  <1>11. CASE ServerReceive
    BY <1>0, <1>11, TurnMoves DEF Move
  <1>15. CASE ServerReceivePart
    BY <1>0, <1>15, LagOperands DEF ServerReceivePart
  <1>12. CASE ServerSeesClose
    <2>1. Server' = Server \/ Server' = Destroy(Server)
      BY <1>12 DEF ServerSeesClose, Cleanup, TypeOK, Party, Server
    <2>2. UNCHANGED Client
      BY <1>12 DEF ServerSeesClose, Cleanup, TypeOK, Party, Client
    <2>3. Destroy(Server).encrypted = Server.encrypted /\ Destroy(Server).aged = Server.aged
      BY StateTypes, SessionEffects DEF Party
    <2>4. Requests' = Requests /\ Answers' = Answers
      BY <1>12 DEF ServerSeesClose, Requests, Answers
    <2> QED  BY <1>12, <2>1, <2>2, <2>3, <2>4 DEF ServerSeesClose, Cleanup, Ends, Move
  <1>13. CASE Notify
    <2> DEFINE e == Message("NEW_MESSAGE", 0, NoKey, 0)
    <2>1. e \in Frame(ServerFrames) /\ e.type = "NEW_MESSAGE"
      BY NoKeyType, FrameType DEF ServerFrames, Message
    <2>2. s2c' = Append(s2c, e)
      BY <1>13 DEF Notify
    <2> HIDE DEF e
    <2>3. AnswersIn(Append(s2c, e)) = AnswersIn(s2c)
      BY <2>1, LagOperands, FramesAppend
    <2>4. Requests' = Requests /\ Answers' = Answers
      BY <1>13, <2>2, <2>3 DEF Notify, Requests, Answers
    <2> QED  BY <1>13, <2>4 DEF Notify, Waits, Kept, Move
  <1>14. ASSUME NEW p \in Party, Age(p) PROVE Move
    <2>1. sess' = [sess EXCEPT ![p].aged = TRUE]
      BY <1>14 DEF Age
    <2>2. sess[p] \in SessionRecord
      BY DEF TypeOK, Session, SessionRecord
    <2>3. \A r \in Party : Kept(r)
      <3>1. sess'[p] = [sess[p] EXCEPT !.aged = TRUE] /\ \A r \in Party \ {p} : sess'[r] = sess[r]
        BY <2>1 DEF TypeOK
      <3> QED  BY <2>2, <3>1 DEF Kept, SessionRecord
    <2>4. Requests' = Requests /\ Answers' = Answers
      BY <1>14 DEF Age, Requests, Answers
    <2> QED  BY <1>14, <2>3, <2>4 DEF Age, Waits, Move, Party
  <1> QED
    BY <1>2, <1>3, <1>4, <1>5, <1>6, <1>7, <1>8, <1>9, <1>10, <1>11, <1>12, <1>13, <1>14,
       <1>15
    DEF Next, ClientStep, UserStep, ServerStep, Disturb

-----------------------------------------------------------------------------
(* The moves keep the agreement of the two ends.                           *)

LEMMA MoveFitting ==
    ASSUME TypeOK, TypeOK', OneAtATime, Fitting, Move
    PROVE  Fitting'
  <1> USE DEF Fitting
  <1>0. notes \in Nat /\ (cpc \in {"start", "idle", "resend"} => Requests = {})
    BY LagOperands DEF OneAtATime, Slot
  <1>1. CASE Connects
    BY <1>1 DEF Connects
  <1>2. CASE Sends
    <2>1. PICK m \in Requests' : Requests' = {m} /\ (SendsPlain(m) \/ SendsRotation(m) \/ SendsSealed(m))
      BY <1>2 DEF Sends
    <2>2. /\ cpc \in {"idle", "resend"} /\ Answers' = {}
          /\ UNCHANGED <<Server, secure["server"], served, spc, rotation, notes>>
      BY <1>2 DEF Sends
    <2>3. CASE SendsPlain(m)
      BY <2>1, <2>2, <2>3 DEF SendsPlain
    <2>4. CASE SendsRotation(m)
      BY <2>1, <2>2, <2>4 DEF SendsRotation
    <2>5. CASE SendsSealed(m)
      BY <2>1, <2>2, <2>5 DEF SendsSealed
    <2> QED  BY <2>1, <2>3, <2>4, <2>5
  <1>3. CASE Waits
    <2>1. (cpc \in {"start", "handshake"} => notes' = notes) /\ (notes' = 0 => notes = 0)
      BY <1>0, <1>3 DEF Waits
    <2> QED  BY <1>3, <2>1 DEF Waits, Kept, Client, Server
  <1>4. CASE Closes
    BY <1>4 DEF Closes
  <1>5. CASE Receives
    <2>1. /\ cpc \in {"handshake", "await", "rotating"} /\ cpc' \in {"idle", "resend"}
          /\ Requests' = {} /\ Answers' = {}
          /\ UNCHANGED <<Server, secure["server"], served, spc, notes>>
      BY <1>5 DEF Receives, Waiting
    <2>2. CASE cpc = "await" /\ UNCHANGED <<Client, rotation>>
      BY <2>1, <2>2
    <2>3. ASSUME NEW m \in Answers, ReceivesKey(m) PROVE Fitting'
      BY <2>1, <2>3 DEF ReceivesKey
    <2>4. CASE cpc = "rotating" /\ notes # 0 /\ rotation' = "failed" /\ UNCHANGED Client
      <3>1. secure["server"]
        BY <1>5, <2>4 DEF Receives
      <3> QED  BY <2>1, <2>4, <3>1
    <2> QED  BY <1>5, <2>2, <2>3, <2>4 DEF Receives
  <1>6. CASE Turns
    <2>1. PICK m \in Requests, a \in Answers' :
             /\ Requests = {m} /\ Answers' = {a}
             /\ \/ TurnsHandshake(m, a) \/ TurnsRotation(m, a) \/ TurnsSealed(m, a)
                \/ TurnsPlain(m, a) \/ TurnsLogout(m, a)
      BY <1>6 DEF Turns
    <2>2. /\ spc = "serving" /\ Requests' = {} /\ cpc \notin {"start", "idle", "resend"}
          /\ UNCHANGED <<Client, cpc, rotation, notes>>
      BY <1>0, <1>6 DEF Turns
    <2>3. CASE TurnsHandshake(m, a)
      BY <2>1, <2>2, <2>3 DEF TurnsHandshake
    <2>4. CASE TurnsRotation(m, a)
      BY <2>1, <2>2, <2>4 DEF TurnsRotation
    <2>5. CASE TurnsSealed(m, a)
      BY <2>1, <2>2, <2>5 DEF TurnsSealed
    <2>6. CASE TurnsPlain(m, a)
      BY <2>1, <2>2, <2>6 DEF TurnsPlain, Kept, Server
    <2>7. CASE TurnsLogout(m, a)
      <3>1. cpc \notin {"handshake", "rotating", "await"}
        BY <2>7 DEF TurnsLogout
      <3>2. cpc \in {"closing", "closed"}
        BY <2>2, <3>1 DEF TypeOK, Waiting
      <3> QED  BY <2>1, <2>2, <2>7, <3>2 DEF TurnsLogout
    <2> QED  BY <2>1, <2>3, <2>4, <2>5, <2>6, <2>7
  <1>7. CASE Ends
    BY <1>7 DEF Ends
  <1> QED  BY <1>1, <1>2, <1>3, <1>4, <1>5, <1>6, <1>7 DEF Move

LEMMA MoveCounting ==
    ASSUME TypeOK, TypeOK', OneAtATime, Fitting, Counting, Move
    PROVE  Counting'
  <1> USE DEF Counting
  <1>0. /\ Client.encrypted \in Nat /\ Server.encrypted \in Nat
        /\ MaxMessages \in Nat /\ MaxMessages > 0
        /\ cpc \in {"start", "idle", "resend"} => Requests = {}
    BY StateTypes DEF OneAtATime, Slot
  <1>1. CASE Connects
    BY <1>0, <1>1 DEF Connects
  <1>2. CASE Sends
    <2>1. PICK m \in Requests' : Requests' = {m} /\ (SendsPlain(m) \/ SendsRotation(m) \/ SendsSealed(m))
      BY <1>2 DEF Sends
    <2>2. /\ cpc \in {"idle", "resend"} /\ Answers' = {} /\ Server' = Server
          /\ Server.encrypted <= Client.encrypted
      BY <1>0, <1>2 DEF Sends
    <2>3. CASE SendsPlain(m)
      BY <1>0, <2>1, <2>2, <2>3 DEF SendsPlain
    <2>4. CASE SendsRotation(m)
      BY <1>0, <2>1, <2>2, <2>4 DEF SendsRotation
    <2>5. CASE SendsSealed(m)
      BY <1>0, <2>1, <2>2, <2>5 DEF SendsSealed
    <2> QED  BY <2>1, <2>3, <2>4, <2>5
  <1>3. CASE Waits
    BY <1>3 DEF Waits, Kept, Client, Server
  <1>4. CASE Closes
    BY <1>4 DEF Closes
  <1>5. CASE Receives
    <2>1. Client'.encrypted = Client.encrypted /\ Server' = Server
      BY <1>5 DEF Receives, ReceivesKey
    <2> QED  BY <1>5, <2>1 DEF Receives
  <1>6. CASE Turns
    <2>1. PICK m \in Requests, a \in Answers' :
             /\ Requests = {m} /\ Answers' = {a}
             /\ \/ TurnsHandshake(m, a) \/ TurnsRotation(m, a) \/ TurnsSealed(m, a)
                \/ TurnsPlain(m, a) \/ TurnsLogout(m, a)
      BY <1>6 DEF Turns
    <2>2. /\ Requests' = {} /\ cpc \notin {"start", "idle", "resend"}
          /\ Client' = Client /\ cpc' = cpc
          /\ cpc = "handshake" => m.type = "HANDSHAKE_INIT"
          /\ cpc = "rotating" => m.type = "KEY_ROTATION"
          /\ m.type = "KEY_ROTATION" => secure["server"]
      BY <1>0, <1>6, <2>1 DEF Turns, Fitting
    <2>3. CASE TurnsHandshake(m, a)
      BY <1>0, <2>1, <2>2, <2>3 DEF TurnsHandshake
    <2>4. CASE TurnsRotation(m, a)
      BY <1>0, <2>1, <2>2, <2>4 DEF TurnsRotation
    <2>5. CASE TurnsSealed(m, a)
      BY <1>0, <2>1, <2>2, <2>5 DEF TurnsSealed
    <2>6. CASE TurnsPlain(m, a)
      <3>1. m.type # "KEY_ROTATION" /\ m.type # "HANDSHAKE_INIT"
        BY <2>2, <2>6 DEF TurnsPlain
      <3>2. Server.encrypted <= Client.encrypted /\ Client.encrypted <= MaxMessages
        BY <2>1, <3>1
      <3>3. a.type = "KEY_ROTATION_REQUIRED" => Server.aged
        BY <1>0, <2>1, <2>6, <3>2 DEF TurnsPlain
      <3>4. Server'.encrypted = Server.encrypted /\ (Server.aged => Server'.aged)
        BY <2>6 DEF TurnsPlain, Kept, Server
      <3> QED  BY <2>1, <2>2, <3>1, <3>2, <3>3, <3>4
    <2>7. CASE TurnsLogout(m, a)
      BY <2>1, <2>2, <2>7 DEF TurnsLogout
    <2> QED  BY <2>1, <2>3, <2>4, <2>5, <2>6, <2>7
  <1>7. CASE Ends
    BY <1>7 DEF Ends
  <1> QED  BY <1>1, <1>2, <1>3, <1>4, <1>5, <1>6, <1>7 DEF Move

(* The keys of a session are drawn in order: those that an end has sealed  *)
(* under come before the one it takes up next.                             *)
Fresh ==
    /\ cpc # "closed" =>
          /\ Client.key.c <= Client.eph
          /\ cpc \in {"handshake", "rotating"} => Client.key.c < Client.eph
          /\ \A i \in DOMAIN sealed : sealed[i].by = "client" => sealed[i].key.c <= Client.key.c
    /\ spc = "serving" =>
          /\ Server.key.s <= Server.eph
          /\ \A i \in DOMAIN sealed : sealed[i].by = "server" => sealed[i].key.s <= Server.eph

LEMMA SealedTypes ==
    ASSUME TypeOK
    PROVE  /\ Len(sealed) \in Nat /\ DOMAIN sealed = 1..Len(sealed)
           /\ \A i \in DOMAIN sealed : sealed[i].key.c \in Nat /\ sealed[i].key.s \in Nat
  <1>1. Len(sealed) \in Nat /\ DOMAIN sealed = 1..Len(sealed)
    BY LenProperties DEF TypeOK
  <1>2. ASSUME NEW i \in DOMAIN sealed PROVE sealed[i].key \in SessionKey
    <2>1. sealed[i] \in [by : Party, key : SessionKey, nonce : Nat]
      BY <1>1, ElementOfSeq DEF TypeOK
    <2> QED  BY <2>1
  <1> QED  BY <1>1, <1>2 DEF SessionKey

LEMMA SealAppended ==
    ASSUME TypeOK, NEW p \in Party, sealed' = Append(sealed, Seals(p))
    PROVE  /\ DOMAIN sealed' = (DOMAIN sealed) \cup {Len(sealed) + 1}
           /\ \A i \in DOMAIN sealed : sealed'[i] = sealed[i]
           /\ sealed'[Len(sealed) + 1].by = p /\ sealed'[Len(sealed) + 1].key = sess[p].key
  <1>1. Seals(p) \in [by : Party, key : SessionKey, nonce : Nat]
    <2>1. sess[p] \in Session
      BY DEF TypeOK
    <2>2. sess[p].key \in SessionKey /\ sess[p].counter \in Nat
      BY <2>1 DEF Session
    <2> QED  BY <2>2 DEF Seals
  <1>2. /\ DOMAIN sealed' = 1..(Len(sealed) + 1) /\ sealed'[Len(sealed) + 1] = Seals(p)
        /\ \A i \in 1..Len(sealed) : sealed'[i] = sealed[i]
    BY <1>1, AppendLemma DEF TypeOK
  <1>3. 1..(Len(sealed) + 1) = (1..Len(sealed)) \cup {Len(sealed) + 1}
    BY SealedTypes
  <1>4. Seals(p).by = p /\ Seals(p).key = sess[p].key
    BY DEF Seals
  <1> QED  BY <1>2, <1>3, <1>4, SealedTypes

LEMMA MoveFresh ==
    ASSUME TypeOK, TypeOK', Fresh, Move
    PROVE  Fresh'
  <1> USE DEF Fresh
  <1>0. /\ Client.eph \in Nat /\ Client.key.c \in Nat /\ Server.eph \in Nat /\ Server.key.s \in Nat
        /\ sess["client"] = Client /\ sess["server"] = Server
    BY StateTypes
  <1>s. \A i \in DOMAIN sealed : sealed[i].key.c \in Nat /\ sealed[i].key.s \in Nat
    BY SealedTypes
  <1>1. CASE Connects
    <2>1. DOMAIN sealed = {}
      BY <1>1 DEF Connects
    <2>2. NoKey.c = 0
      BY DEF NoKey
    <2> QED  BY <1>1, <2>1, <2>2 DEF Connects
  <1>2. CASE Sends
    <2>1. PICK m \in Requests' : Requests' = {m} /\ (SendsPlain(m) \/ SendsRotation(m) \/ SendsSealed(m))
      BY <1>2 DEF Sends
    <2>2. cpc \in {"idle", "resend"} /\ Server' = Server /\ spc' = spc
      BY <1>2 DEF Sends
    <2>3. CASE SendsPlain(m)
      BY <2>2, <2>3 DEF SendsPlain
    <2>4. CASE SendsRotation(m)
      <3>1. Client.key.c < Client.eph + 1 /\ Client.key.c <= Client.eph + 1
        BY <1>0, <2>2
      <3> QED  BY <2>2, <2>4, <3>1 DEF SendsRotation
    <2>5. CASE SendsSealed(m)
      <3>1. /\ DOMAIN sealed' = (DOMAIN sealed) \cup {Len(sealed) + 1}
            /\ \A i \in DOMAIN sealed : sealed'[i] = sealed[i]
            /\ sealed'[Len(sealed) + 1].by = "client" /\ sealed'[Len(sealed) + 1].key = Client.key
        BY <1>0, <2>5, SealAppended DEF SendsSealed, Party
      <3> QED  BY <1>0, <2>2, <2>5, <3>1 DEF SendsSealed
    <2> QED  BY <2>1, <2>3, <2>4, <2>5
  <1>3. CASE Waits
    BY <1>3 DEF Waits, Kept, Client, Server
  <1>4. CASE Closes
    BY <1>4 DEF Closes
  <1>5. CASE Receives
    <2>1. cpc \in {"handshake", "await", "rotating"} /\ cpc' \in {"idle", "resend"}
          /\ UNCHANGED <<Server, spc, sealed>>
      BY <1>5 DEF Receives, Waiting
    <2>2. CASE UNCHANGED Client
      BY <2>1, <2>2
    <2>3. ASSUME NEW m \in Answers, ReceivesKey(m) PROVE Fresh'
      <3>1. Client'.key.c = Client.eph /\ Client'.eph = Client.eph
        BY <2>3 DEF ReceivesKey
      <3>2. \A i \in DOMAIN sealed : sealed[i].by = "client" => sealed[i].key.c <= Client.eph
        BY <1>0, <1>s, <2>1
      <3> QED  BY <1>0, <2>1, <3>1, <3>2
    <2> QED  BY <1>5, <2>2, <2>3 DEF Receives
  <1>6. CASE Turns
    <2>1. PICK m \in Requests, a \in Answers' :
             /\ Requests = {m} /\ Answers' = {a}
             /\ \/ TurnsHandshake(m, a) \/ TurnsRotation(m, a) \/ TurnsSealed(m, a)
                \/ TurnsPlain(m, a) \/ TurnsLogout(m, a)
      BY <1>6 DEF Turns
    <2>2. spc = "serving" /\ UNCHANGED <<Client, cpc>>
      BY <1>6 DEF Turns
    <2>3. CASE TurnsHandshake(m, a)
      BY <2>2, <2>3 DEF TurnsHandshake
    <2>4. CASE TurnsRotation(m, a)
      <3>1. /\ Server'.key.s = Server.eph + 1 /\ Server'.eph = Server.eph + 1
            /\ UNCHANGED <<spc, sealed>>
        BY <2>4 DEF TurnsRotation
      <3>2. \A i \in DOMAIN sealed : sealed[i].by = "server" => sealed[i].key.s <= Server.eph + 1
        BY <1>0, <1>s, <2>2
      <3> QED  BY <1>0, <2>2, <3>1, <3>2
    <2>5. CASE TurnsSealed(m, a)
      <3>1. /\ DOMAIN sealed' = (DOMAIN sealed) \cup {Len(sealed) + 1}
            /\ \A i \in DOMAIN sealed : sealed'[i] = sealed[i]
            /\ sealed'[Len(sealed) + 1].by = "server" /\ sealed'[Len(sealed) + 1].key = Server.key
        BY <1>0, <2>5, SealAppended DEF TurnsSealed, Party
      <3> QED  BY <1>0, <2>2, <2>5, <3>1 DEF TurnsSealed
    <2>6. CASE TurnsPlain(m, a)
      BY <2>2, <2>6 DEF TurnsPlain, Kept, Server
    <2>7. CASE TurnsLogout(m, a)
      BY <2>2, <2>7 DEF TurnsLogout
    <2> QED  BY <2>1, <2>3, <2>4, <2>5, <2>6, <2>7
  <1>7. CASE Ends
    BY <1>7 DEF Ends
  <1> QED  BY <1>1, <1>2, <1>3, <1>4, <1>5, <1>6, <1>7 DEF Move
-----------------------------------------------------------------------------
(* How often an end has used a key.  This is only bounded while no         *)
(* notification was pushed: one that is read together with the answer to a *)
(* rotation makes the client keep its key and forget how often it used it. *)
UsesIn(s, p, k) == {i \in DOMAIN s : s[i].by = p /\ s[i].key = k}

UsesBounded ==
    /\ \A k \in SessionKey : Cardinality(UsesIn(sealed, "server", k)) <= MaxMessages
    /\ spc = "serving" => Cardinality(UsesIn(sealed, "server", Server.key)) <= Server.encrypted
    /\ notes = 0 =>
          /\ \A k \in SessionKey : Cardinality(UsesIn(sealed, "client", k)) <= MaxMessages
          /\ cpc \in {"idle", "await", "resend"} =>
                Cardinality(UsesIn(sealed, "client", Client.key)) <= Client.encrypted

LEMMA UsesFinite ==
    ASSUME TypeOK, NEW p, NEW k
    PROVE  /\ IsFiniteSet(UsesIn(sealed, p, k))
           /\ Cardinality(UsesIn(sealed, p, k)) \in Nat
  <1>1. IsFiniteSet(1..Len(sealed))
    BY SealedTypes, FS_Interval
  <1>2. UsesIn(sealed, p, k) \subseteq 1..Len(sealed)
    BY SealedTypes DEF UsesIn
  <1> QED  BY <1>1, <1>2, FS_Subset, FS_CardinalityType

(* Sealing a message adds one use of one key. *)
LEMMA UsesSealed ==
    ASSUME TypeOK, NEW p \in Party, sealed' = Append(sealed, Seals(p)), NEW r, NEW k
    PROVE  /\ r # p \/ k # sess[p].key => UsesIn(sealed', r, k) = UsesIn(sealed, r, k)
           /\ r = p /\ k = sess[p].key =>
                Cardinality(UsesIn(sealed', r, k)) = Cardinality(UsesIn(sealed, r, k)) + 1
  <1> DEFINE n == Len(sealed) + 1
  <1>1. /\ DOMAIN sealed' = (DOMAIN sealed) \cup {n}
        /\ \A i \in DOMAIN sealed : sealed'[i] = sealed[i]
        /\ sealed'[n].by = p /\ sealed'[n].key = sess[p].key
    BY SealAppended
  <1>2. n \notin DOMAIN sealed
    BY SealedTypes
  <1> HIDE DEF n
  <1>3. r # p \/ k # sess[p].key => UsesIn(sealed', r, k) = UsesIn(sealed, r, k)
    BY <1>1 DEF UsesIn
  <1>4. ASSUME r = p, k = sess[p].key
        PROVE  Cardinality(UsesIn(sealed', r, k)) = Cardinality(UsesIn(sealed, r, k)) + 1
    <2>1. UsesIn(sealed', r, k) = UsesIn(sealed, r, k) \cup {n}
      BY <1>1, <1>4 DEF UsesIn
    <2>2. n \notin UsesIn(sealed, r, k)
      BY <1>2 DEF UsesIn
    <2>3. Cardinality(UsesIn(sealed, r, k) \cup {n}) = Cardinality(UsesIn(sealed, r, k)) + 1
      BY <2>2, UsesFinite, FS_AddElement
    <2> QED  BY <2>1, <2>3
  <1> QED  BY <1>3, <1>4

LEMMA MoveUses ==
    ASSUME TypeOK, TypeOK', Counting, Fresh, UsesBounded, Move
    PROVE  UsesBounded'
  <1> USE DEF UsesBounded
  <1>0. /\ Client.eph \in Nat /\ Client.key \in SessionKey /\ Client.encrypted \in Nat
        /\ Client.key.c \in Nat /\ Server.key.s \in Nat
        /\ Server.eph \in Nat /\ Server.key \in SessionKey /\ Server.encrypted \in Nat
        /\ notes \in Nat /\ MaxMessages \in Nat
        /\ sess["client"] = Client /\ sess["server"] = Server
    BY StateTypes
  <1>1. Client'.encrypted \in Nat /\ Server'.encrypted \in Nat
    BY DEF TypeOK, Session, Party, Client, Server
  <1>s. \A i \in DOMAIN sealed : sealed[i].key.c \in Nat /\ sealed[i].key.s \in Nat
    BY SealedTypes
  <1>2. \A p, k : Cardinality(UsesIn(sealed, p, k)) \in Nat
    BY UsesFinite
  <1>3. ASSUME NEW k, k.c = Client.eph, cpc \in {"handshake", "rotating"}
        PROVE  Cardinality(UsesIn(sealed, "client", k)) = 0
    <2>1. UsesIn(sealed, "client", k) = {}
      <3> SUFFICES ASSUME NEW i \in DOMAIN sealed, sealed[i].by = "client", sealed[i].key = k
                   PROVE  FALSE
        BY DEF UsesIn
      <3>1. Client.key.c < Client.eph /\ sealed[i].key.c <= Client.key.c /\ sealed[i].key.c \in Nat
        BY <1>3, <1>s DEF Fresh
      <3>2. sealed[i].key.c = Client.eph
        BY <1>3
      <3> DEFINE x == sealed[i].key.c  y == Client.key.c  z == Client.eph
      <3>3. x \in Nat /\ y \in Nat /\ z \in Nat /\ y < z /\ x <= y /\ x = z
        BY <1>0, <3>1, <3>2
      <3> HIDE DEF x, y, z
      <3> QED  BY <3>3
    <2> QED  BY <2>1, FS_EmptySet
  <1>4. CASE Connects
    BY <1>4 DEF Connects
  <1>5. CASE Sends
    <2>1. PICK m \in Requests' : Requests' = {m} /\ (SendsPlain(m) \/ SendsRotation(m) \/ SendsSealed(m))
      BY <1>5 DEF Sends
    <2>2. cpc \in {"idle", "resend"} /\ UNCHANGED <<Server, spc, notes>>
      BY <1>5 DEF Sends
    <2>3. CASE SendsPlain(m)
      BY <2>2, <2>3 DEF SendsPlain
    <2>4. CASE SendsRotation(m)
      BY <2>2, <2>4 DEF SendsRotation
    <2>5. CASE SendsSealed(m)
      <3>1. /\ sealed' = Append(sealed, Seals("client")) /\ Client'.key = Client.key
            /\ Client'.encrypted = Client.encrypted + 1 /\ Client.encrypted < MaxMessages
        BY <2>5 DEF SendsSealed
      <3>2. \A k : UsesIn(sealed', "server", k) = UsesIn(sealed, "server", k)
        BY <3>1, UsesSealed DEF Party
      <3>3. \A k : k # Client.key => UsesIn(sealed', "client", k) = UsesIn(sealed, "client", k)
        BY <1>0, <3>1, UsesSealed DEF Party
      <3>4. Cardinality(UsesIn(sealed', "client", Client.key)) =
               Cardinality(UsesIn(sealed, "client", Client.key)) + 1
        BY <1>0, <3>1, UsesSealed DEF Party
      <3>5. notes = 0 => /\ Cardinality(UsesIn(sealed', "client", Client.key)) <= Client.encrypted + 1
                         /\ Cardinality(UsesIn(sealed', "client", Client.key)) <= MaxMessages
        <4> DEFINE x == Cardinality(UsesIn(sealed', "client", Client.key))
                   y == Cardinality(UsesIn(sealed, "client", Client.key))
                   z == Client.encrypted
        <4>1. y \in Nat /\ z \in Nat /\ x = y + 1 /\ z < MaxMessages /\ (notes = 0 => y <= z)
          BY <1>0, <1>2, <2>2, <3>1, <3>4
        <4> HIDE DEF x, y, z
        <4>2. notes = 0 => x <= z + 1 /\ x <= MaxMessages
          BY <1>0, <4>1
        <4> QED  BY <4>2 DEF x, z
      <3> QED  BY <2>2, <3>1, <3>2, <3>3, <3>5
    <2> QED  BY <2>1, <2>3, <2>4, <2>5
  <1>6. CASE Waits
    <2>1. notes' = 0 => notes = 0
      BY <1>0, <1>6 DEF Waits
    <2> QED  BY <1>6, <2>1 DEF Waits, Kept, Client, Server
  <1>7. CASE Closes
    BY <1>7 DEF Closes
  <1>8. CASE Receives
    <2>1. cpc \in {"handshake", "await", "rotating"} /\ cpc' \in {"idle", "resend"}
          /\ UNCHANGED <<Server, spc, sealed, notes>>
      BY <1>8 DEF Receives, Waiting
    <2>2. CASE cpc = "await" /\ UNCHANGED Client
      BY <2>1, <2>2
    <2>3. ASSUME NEW m \in Answers, ReceivesKey(m) PROVE UsesBounded'
      <3>1. /\ Client'.key = [c |-> Client.eph, s |-> m.pub] /\ cpc \in {"handshake", "rotating"}
        BY <2>3 DEF ReceivesKey
      <3>2. Client'.key.c = Client.eph
        BY <3>1
      <3>3. Cardinality(UsesIn(sealed, "client", Client'.key)) = 0
        BY <1>3, <3>1, <3>2
      <3>4. Cardinality(UsesIn(sealed', "client", Client'.key)) <= Client'.encrypted
        <4>1. Cardinality(UsesIn(sealed', "client", Client'.key)) = 0
          BY <2>1, <3>3
        <4> QED  BY <1>1, <4>1
      <3> QED  BY <2>1, <3>4
    <2>4. CASE notes # 0
      BY <2>1, <2>4
    <2> QED  BY <1>8, <2>2, <2>3, <2>4 DEF Receives
  <1>9. CASE Turns
    <2>1. PICK m \in Requests, a \in Answers' :
             /\ Requests = {m} /\ Answers' = {a}
             /\ \/ TurnsHandshake(m, a) \/ TurnsRotation(m, a) \/ TurnsSealed(m, a)
                \/ TurnsPlain(m, a) \/ TurnsLogout(m, a)
      BY <1>9 DEF Turns
    <2>2. spc = "serving" /\ UNCHANGED <<Client, cpc, notes>>
      BY <1>9 DEF Turns
    <2>3. ASSUME UNCHANGED sealed, Cardinality(UsesIn(sealed, "server", Server'.key)) = 0
          PROVE  UsesBounded'
      <3>1. Cardinality(UsesIn(sealed', "server", Server'.key)) <= Server'.encrypted
        <4>1. Cardinality(UsesIn(sealed', "server", Server'.key)) = 0
          BY <2>3
        <4> QED  BY <1>1, <4>1
      <3> QED  BY <2>2, <2>3, <3>1
    <2>4. CASE TurnsHandshake(m, a)
      <3>1. UsesIn(sealed, "server", Server'.key) = {}
        BY <2>4 DEF TurnsHandshake, UsesIn
      <3> QED  BY <2>3, <2>4, <3>1, FS_EmptySet DEF TurnsHandshake
    <2>5. CASE TurnsRotation(m, a)
      <3>1. Server'.key.s = Server.eph + 1 /\ UNCHANGED sealed
        BY <2>5 DEF TurnsRotation
      <3>2. UsesIn(sealed, "server", Server'.key) = {}
        <4> SUFFICES ASSUME NEW i \in DOMAIN sealed, sealed[i].by = "server",
                            sealed[i].key = Server'.key
                     PROVE  FALSE
          BY DEF UsesIn
        <4>1. sealed[i].key.s <= Server.eph /\ sealed[i].key.s \in Nat
          BY <1>s, <2>2 DEF Fresh
        <4>2. sealed[i].key.s = Server.eph + 1
          BY <3>1
        <4> DEFINE x == sealed[i].key.s  z == Server.eph
        <4>3. x \in Nat /\ z \in Nat /\ x <= z /\ x = z + 1
          BY <1>0, <4>1, <4>2
        <4> HIDE DEF x, z
        <4> QED  BY <4>3
      <3> QED  BY <2>3, <3>1, <3>2, FS_EmptySet
    <2>6. CASE TurnsSealed(m, a)
      <3>1. /\ sealed' = Append(sealed, Seals("server")) /\ Server'.key = Server.key
            /\ Server'.encrypted = Server.encrypted + 1 /\ Server.encrypted < MaxMessages
        BY <2>6 DEF TurnsSealed
      <3>2. \A k : UsesIn(sealed', "client", k) = UsesIn(sealed, "client", k)
        BY <3>1, UsesSealed DEF Party
      <3>3. \A k : k # Server.key => UsesIn(sealed', "server", k) = UsesIn(sealed, "server", k)
        BY <1>0, <3>1, UsesSealed DEF Party
      <3>4. Cardinality(UsesIn(sealed', "server", Server.key)) =
               Cardinality(UsesIn(sealed, "server", Server.key)) + 1
        BY <1>0, <3>1, UsesSealed DEF Party
      <3>5. /\ Cardinality(UsesIn(sealed', "server", Server.key)) <= Server.encrypted + 1
            /\ Cardinality(UsesIn(sealed', "server", Server.key)) <= MaxMessages
        <4> DEFINE x == Cardinality(UsesIn(sealed', "server", Server.key))
                   y == Cardinality(UsesIn(sealed, "server", Server.key))
                   z == Server.encrypted
        <4>1. y \in Nat /\ z \in Nat /\ x = y + 1 /\ z < MaxMessages /\ y <= z
          BY <1>0, <1>2, <2>2, <3>1, <3>4
        <4> HIDE DEF x, y, z
        <4>2. x <= z + 1 /\ x <= MaxMessages
          BY <1>0, <4>1
        <4> QED  BY <4>2 DEF x, z
      <3> QED  BY <2>2, <3>1, <3>2, <3>3, <3>5
    <2>7. CASE TurnsPlain(m, a)
      BY <2>2, <2>7 DEF TurnsPlain, Kept, Server
    <2>8. CASE TurnsLogout(m, a)
      BY <2>2, <2>8 DEF TurnsLogout
    <2> QED  BY <2>1, <2>4, <2>5, <2>6, <2>7, <2>8
  <1>10. CASE Ends
    BY <1>10 DEF Ends
  <1> QED  BY <1>4, <1>5, <1>6, <1>7, <1>8, <1>9, <1>10 DEF Move
-----------------------------------------------------------------------------
(* The inductive invariant, and what follows from it.                      *)
InStepIsOneAtATime == InStep => OneAtATime

AgreeInv == InStep => Fitting /\ Counting /\ Fresh /\ UsesBounded

LEMMA AgreeInvariant == Spec => [](InStepIsOneAtATime /\ AgreeInv)
  <1>1. LagInv => InStepIsOneAtATime
    BY OneFrame DEF LagInv, InStepIsOneAtATime
  <1>2. Init => AgreeInv
    <2> SUFFICES ASSUME Init PROVE Fitting /\ Counting /\ Fresh /\ UsesBounded
      BY DEF AgreeInv
    <2>2. /\ cpc = "start" /\ spc = "serving" /\ served = <<>> /\ notes = 0 /\ rotation = "none"
          /\ sealed = <<>> /\ Client = Destroy(NewSession) /\ Server = Destroy(NewSession)
          /\ Requests = {} /\ Answers = {}
      BY DEF Init, Party, Client, Server, Requests, Answers, AnswersIn, Frames
    <2>3. /\ Destroy(NewSession).encrypted = 0 /\ Destroy(NewSession).eph = 0
          /\ Destroy(NewSession).key.c = 0 /\ Destroy(NewSession).key.s = 0
      BY DEF Destroy, NewSession, NoKey
    <2>4. Fitting
      BY <2>2 DEF Fitting
    <2>5. Counting
      BY <2>2, <2>3, MaxMessagesAssumption DEF Counting
    <2>6. Fresh
      BY <2>2, <2>3 DEF Fresh
    <2>7. UsesBounded
      <3>1. \A p, k : UsesIn(sealed, p, k) = {}
        BY <2>2 DEF UsesIn
      <3>2. \A p, k : Cardinality(UsesIn(sealed, p, k)) = 0
        BY <3>1, FS_EmptySet
      <3> QED  BY <2>2, <2>3, <3>2, MaxMessagesAssumption DEF UsesBounded
    <2> QED  BY <2>4, <2>5, <2>6, <2>7
  <1>3. /\ LagInv /\ LagInv' /\ NonceInv
        /\ InStepIsOneAtATime /\ InStepIsOneAtATime' /\ AgreeInv /\ [Next]_vars
        => AgreeInv'
    <2> SUFFICES ASSUME LagInv, LagInv', NonceInv, InStepIsOneAtATime, InStepIsOneAtATime',
                        AgreeInv, [Next]_vars
                 PROVE  AgreeInv'
      OBVIOUS
    <2>1. CASE Next
      <3> SUFFICES ASSUME InStep' PROVE Fitting' /\ Counting' /\ Fresh' /\ UsesBounded'
        BY DEF AgreeInv
      <3>1. TypeOK /\ TypeOK' /\ LogoutLast /\ HandshakeFirst
        BY DEF LagInv, NonceInv
      <3>2. InStep
        BY <2>1, <3>1, StaysInStep
      <3>3. Fitting /\ Counting /\ Fresh /\ UsesBounded /\ OneAtATime /\ OneAtATime'
        BY <3>2 DEF AgreeInv, InStepIsOneAtATime
      <3>4. Move
        BY <2>1, <3>1, <3>3, InStepMoves
      <3> QED  BY <3>1, <3>3, <3>4, MoveFitting, MoveCounting, MoveFresh, MoveUses
    <2>2. CASE UNCHANGED vars
      BY <2>2 DEF AgreeInv, InStep, Fitting, Counting, Fresh, UsesBounded, Client, Server,
                  Requests, Answers, vars, clientVars, boundVars
    <2> QED  BY <2>1, <2>2
  <1> QED  BY <1>1, <1>2, <1>3, LagInvariant, NonceInvariant, PTL DEF Spec

(* While no receive has ended before its answer, the two ends hold the     *)
(* same session key outside a rotation, unless the last rotation failed in *)
(* the client's eyes (_rotate_keys against _handle_key_rotation).          *)
THEOREM KeysStayEqual == Spec => []KeysAgree
  <1>1. AgreeInv => KeysAgree
    BY DEF AgreeInv, Fitting, KeysAgree
  <1> QED  BY <1>1, AgreeInvariant, PTL

(* In step it is always the client that notices that the key is used up;   *)
(* the server withholds an answer for the age of its session only          *)
(* (send_secure_message, called by both ends).                             *)
THEOREM ServerNotAtLimit == Spec => []ServerNeverAtLimit
  <1>1. LagInv /\ AgreeInv => ServerNeverAtLimit
    <2> SUFFICES ASSUME TypeOK, Counting, NEW i \in DOMAIN s2c,
                        s2c[i].type = "KEY_ROTATION_REQUIRED"
                 PROVE  Server.aged
      BY DEF LagInv, AgreeInv, ServerNeverAtLimit
    <2>1. s2c[i] \in Answers
      BY LagOperands, LenProperties DEF Answers, AnswersIn, Frames
    <2> QED  BY <2>1 DEF Counting
  <1> QED  BY <1>1, LagInvariant, AgreeInvariant, PTL

(* No end seals more than max_messages_before_rotation messages under one  *)
(* key, however many rotations the connection goes through, while every    *)
(* receive ends with its own answer and, for the client, nothing was       *)
(* pushed (needs_rotation, _rotate_keys, _handle_key_rotation).            *)
THEOREM KeyUsageIsBounded == Spec => []KeyUsageBound
  <1>1. LagInv /\ AgreeInv => KeyUsageBound
    <2> SUFFICES ASSUME TypeOK, UsesBounded, NEW p \in Party,
                        NEW i \in DOMAIN sealed, p = "server" \/ notes = 0
                 PROVE  Cardinality(Uses(p, sealed[i].key)) <= MaxMessages
      BY DEF LagInv, AgreeInv, KeyUsageBound
    <2>1. sealed[i].key \in SessionKey
      <3>1. sealed[i] \in [by : Party, key : SessionKey, nonce : Nat]
        BY SealedTypes, ElementOfSeq DEF TypeOK
      <3> QED  BY <3>1
    <2>2. Uses(p, sealed[i].key) = UsesIn(sealed, p, sealed[i].key)
      BY DEF Uses, UsesIn
    <2> QED  BY <2>1, <2>2 DEF UsesBounded, Party
  <1> QED  BY <1>1, LagInvariant, AgreeInvariant, PTL
=============================================================================
