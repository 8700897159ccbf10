--------------------------- MODULE SecureSession ---------------------------
(***************************************************************************)
(* The class SecureSession of core/secure_protocol.py together with the    *)
(* EphemeralDH of core/postquantum.py it owns, as operators on a session   *)
(* record.  Both ends of a connection hold one.                            *)
(*                                                                         *)
(* A private exponent is abstracted to the number of key pairs its owner   *)
(* has generated so far, so a freshly generated pair differs from every    *)
(* earlier one (the code draws 128 random bits); the public value carries  *)
(* the same number.  g^(ab) = g^(ba): both ends derive the same session    *)
(* key exactly when they combine the same two pairs, so a session key is   *)
(* the record of the client's and the server's pair.  It is stored twice:  *)
(* in SecureSession.session_key ("key") and in the EphemeralDH that        *)
(* derived it ("copy").                                                    *)
(***************************************************************************)
EXTENDS Naturals

CONSTANT MaxMessages   \* max_messages_before_rotation, 1000 in the code

ASSUME MaxMessagesAssumption == MaxMessages \in Nat \ {0}

Party == {"client", "server"}

NoKey == [c |-> 0, s |-> 0]
SessionKey == [c : Nat, s : Nat]

(* SHA-256 of their_public ^ private mod P, as derived by party p. *)
ComputeSessionKey(p, private, theirs) ==
    IF p = "client" THEN [c |-> private, s |-> theirs]
                    ELSE [c |-> theirs, s |-> private]

Session ==
    [eph : Nat, key : SessionKey, copy : SessionKey,
     counter : Nat, encrypted : Nat, aged : BOOLEAN]

NewSession ==
    [eph |-> 1, key |-> NoKey, copy |-> NoKey,
     counter |-> 0, encrypted |-> 0, aged |-> FALSE]

CompleteKeyExchange(p, s, theirs) ==
    LET k == ComputeSessionKey(p, s.eph, theirs)
    IN  [s EXCEPT !.key = k, !.copy = k]

(* A variant of NeedsRotation with an off-by-one, for the mutation runs. *)
NeedsRotationLate(s) == s.encrypted > MaxMessages \/ s.aged

(* "aged" stands for time.time() - created_at >= max_session_age_seconds.  *)
NeedsRotation(s) == s.encrypted >= MaxMessages \/ s.aged

(* Variants of RotateKey with a plausible slip, for the mutation runs. *)
RotateKeyRestartingNonces(s) ==
    [s EXCEPT !.eph = @ + 1, !.copy = NoKey, !.counter = 0, !.encrypted = 0]
RotateKeyKeepingCount(s) == [s EXCEPT !.eph = @ + 1, !.copy = NoKey]

(* The old EphemeralDH is destroyed and a new one made; the session key    *)
(* itself stays in use until complete_key_exchange, created_at is kept.    *)
RotateKey(s) == [s EXCEPT !.eph = @ + 1, !.copy = NoKey, !.encrypted = 0]

(* The session after encrypt_message; the nonce used is its new counter. *)
EncryptMessage(s) == [s EXCEPT !.counter = @ + 1, !.encrypted = @ + 1]

(* destroy: the private and public key and SecureSession.session_key are   *)
(* zeroed; the copy of the session key in the EphemeralDH is not.          *)
Destroy(s) == [s EXCEPT !.eph = 0, !.key = NoKey]

(* The session of a process that has ended. *)
Gone(s) == [Destroy(s) EXCEPT !.copy = NoKey]

(* decrypt_message accepts a ciphertext iff the tag verifies, that is iff  *)
(* it was sealed under the key this session holds.                         *)
Decrypts(s, key) == s.key # NoKey /\ s.key = key
=============================================================================
