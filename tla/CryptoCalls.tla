---------------------------- MODULE CryptoCalls -----------------------------
(***************************************************************************)
(* The calls of core's functions on numbers and texts, one at a time: a    *)
(* question of arithmetic with its answer; a key pair, a number sealed for *)
(* its owner, and opened; a message encrypted by the server for its        *)
(* sender, and decrypted by the client of its reader with what the sender  *)
(* was told (SEND_MESSAGE of server_research.py, _decrypt_message of       *)
(* client_research.py).  Every call works on objects of its own, so calls  *)
(* of other threads do not show.                                           *)
(***************************************************************************)
EXTENDS PublicKeys, Ciphers

CONSTANTS
    Numbers,     \* arguments of gcd, extended_gcd and mod_inverse
    Exponents,   \* bases, exponents and moduli of power_mod
    Candidates,  \* numbers asked about for being prime
    Sizes,       \* bits of the prime of a key pair
    Groups,      \* moduli of an exchange
    Generators,  \* generators given for an exchange
    Privates,    \* private keys of an exchange
    Texts,       \* messages, not empty
    Shifts,      \* shifts typed for Caesar
    Keys,        \* keys typed for the other ciphers, not empty
    Random16,    \* outcomes of os.urandom(16)
    Random8      \* outcomes of os.urandom(8)

ASSUME NumbersAssumption ==
    /\ Numbers \cup Exponents \cup Candidates \cup Privates \subseteq Nat
    /\ Groups \cup Generators \subseteq Nat \ {0}
    /\ Sizes \subseteq Nat \ {0}

ASSUME TextsAssumption ==
    /\ Texts \subseteq Seq(Characters)
    /\ Shifts \subseteq Int
    /\ Keys \subseteq Seq(Characters) \ {<<>>}
    /\ Random16 \subseteq [1..16 -> 0..255]
    /\ Random8 \subseteq [1..8 -> 0..255]

VARIABLE call  \* the last call, with its arguments and its answer

Idle == [op |-> "idle"]

Init == call = Idle

AskGcd ==
    /\ call = Idle
    /\ \E a, b \in Numbers :
          call' = [op |-> "gcd", a |-> a, b |-> b, gcd |-> Gcd(a, b),
                   extended |-> ExtendedGcd(a, b),
                   inverse |-> ModInverse(a, b)]

AskPower ==
    /\ call = Idle
    /\ \E b, e \in Exponents, m \in Exponents \ {0} :
          call' = [op |-> "power", base |-> b, exponent |-> e, modulus |-> m,
                   answer |-> PowerMod(b, e, m)]

AskPrime ==
    /\ call = Idle
    /\ \E n \in Candidates : \E answer \in IsPrime(n) :
          call' = [op |-> "prime", n |-> n, answer |-> answer]

(* DHKeyExchange at two ends that agreed on the group, with a generator    *)
(* that is given or else DEMO_G, each with the public key of the other.    *)
Exchange ==
    /\ call = Idle
    /\ \E p \in Groups, g \in Generators \cup {DemoG}, a, b \in Privates :
          call' = [op |-> "exchange",
                   mine |-> SharedSecret(PublicKey(b, p, g), a, p),
                   theirs |-> SharedSecret(PublicKey(a, p, g), b, p)]

MakeKeys ==
    /\ call = Idle
    /\ \E bits \in Sizes : \E pair \in GenerateKeys(bits) :
          call' = [op |-> "keys", pair |-> pair]

Seal ==
    /\ call.op = "keys"
    /\ \E m \in 0..call.pair.p : \E c \in Encrypt(m, call.pair) :
          call' = [op |-> "sealed", pair |-> call.pair, m |-> m, c |-> c]

Open ==
    /\ call.op = "sealed"
    /\ call' = [op |-> "opened", pair |-> call.pair, m |-> call.m,
                answer |-> Decrypt(call.c, call.pair)]

-----------------------------------------------------------------------------
(* The hash of a text is the text, as if digests did not collide.  told is *)
(* what the sender has typed or is told to keep.                           *)
Sent(method, text, ciphertext, hashed, told) ==
    [op |-> "sent", method |-> method, text |-> text, ciphertext |-> ciphertext,
     hash |-> hashed, told |-> told]

(* A key, when one is typed, or a random one.                              *)
XorKeys == {Encode(k) : k \in Keys} \cup Random16
BlockKeys == {BlockKey(k) : k \in Keys} \cup Random8

SendMessage ==
    /\ call = Idle
    /\ \E text \in Texts :
          \/ \E shift \in Shifts :
                /\ ~CaesarRaises(text)
                /\ call' = Sent("Caesar", text, Caesar(text, shift), UpperText(text), shift)
          \/ \E key \in Keys :
                call' = Sent("Vigenere", text, Vigenere(text, key, 1), text, key)
          \/ \E key \in XorKeys :
                call' = Sent("XOR", text, Hex(XorStream(Encode(text), key)), text, Hex(key))
          \/ \E key \in BlockKeys :
                call' = Sent("Block", text, Hex(BlockEncrypt(Encode(text), key)), text, Hex(key))

(* The answer "Encryption failed", and no message.                         *)
SendFails ==
    /\ call = Idle
    /\ \E text \in Texts : CaesarRaises(text)
    /\ call' = [op |-> "failed"]

(* _decrypt_message, with the shift, the key or the key in hex as typed.   *)
Decrypted(sent) ==
    CASE sent.method = "Caesar" -> Caesar(sent.ciphertext, -sent.told)
      [] sent.method = "Vigenere" -> Vigenere(sent.ciphertext, sent.told, -1)
      [] sent.method = "XOR" ->
            Decode(XorStream(FromHex(sent.ciphertext), FromHex(sent.told)))
      [] sent.method = "Block" ->
            Decode(BlockDecrypt(FromHex(sent.ciphertext), FromHex(sent.told)))

ReadMessage ==
    /\ call.op = "sent"
    /\ call' = [op |-> "read", method |-> call.method, text |-> call.text,
                shown |-> Decrypted(call), verified |-> Decrypted(call) = call.hash]

(* The call is over. *)
Return == call # Idle /\ call' = Idle

Next ==
    \/ AskGcd \/ AskPower \/ AskPrime \/ Exchange
    \/ MakeKeys \/ Seal \/ Open
    \/ SendMessage \/ SendFails \/ ReadMessage
    \/ Return

Spec == Init /\ [][Next]_call

-----------------------------------------------------------------------------
(* Properties.                                                             *)

Divides(d, n) == IF d = 0 THEN n = 0 ELSE n % d = 0
Prime(n) == n > 1 /\ \A d \in 2..(n - 1) : ~Divides(d, n)

(* gcd answers the greatest common divisor, extended_gcd the same with its *)
(* coefficients, and mod_inverse the one inverse among 0..b-1 exactly when *)
(* there is one, the modulus 1 included, of which InverseTimesIsOne        *)
(* speaks; for the modulus 0 it only raises (gcd, extended_gcd,            *)
(* mod_inverse).                                                           *)
GcdsAgree ==
    call.op = "gcd" =>
        LET a == call.a  b == call.b  d == call.gcd  x == call.extended
            Common == {c \in 1..(a + b) : Divides(c, a) /\ Divides(c, b)}
        IN /\ \A c \in Common : Divides(c, d)
           /\ a + b > 0 => d \in Common
           /\ x.gcd = d /\ x.x * a + x.y * b = d
           /\ IF b = 0 THEN call.inverse < 0
              ELSE {i \in 0..(b - 1) : (a * i) % b = 1 % b} = {call.inverse} \ {NoInverse}

(* The docstring of mod_inverse: it returns x such that (a * x) % m = 1.   *)
(* Violated: for the modulus 1 it returns 0, and the product is 0          *)
(* (mod_inverse).                                                          *)
InverseTimesIsOne ==
    call.op = "gcd" /\ call.inverse >= 0 => (call.a * call.inverse) % call.b = 1

(* Square-and-multiply computes the built-in pow, except that it answers 1 *)
(* and not 0 for the exponent 0 and the modulus 1, against its docstring,  *)
(* see PowerIsRemainder (power_mod).                                       *)
PowersAgree ==
    call.op = "power" =>
        IF call.exponent = 0 THEN call.answer = 1
        ELSE call.answer = Power(call.base, call.exponent, call.modulus)

(* The docstring of power_mod: it computes (base^exponent) % modulus.      *)
(* Violated: that is 0 for the exponent 0 and the modulus 1, and the       *)
(* answer is 1 (power_mod).                                                *)
PowerIsRemainder ==
    call.op = "power" => call.answer = Power(call.base, call.exponent, call.modulus)

(* is_prime never says of a prime that it is none, whatever bases it       *)
(* draws (is_prime).                                                       *)
PrimesPass == call.op = "prime" /\ Prime(call.n) => call.answer

(* And what passes is 2 or odd, and if it is no prime, then at most a      *)
(* quarter of the bases mislead the test, so five rounds err once in a     *)
(* thousand (is_prime).                                                    *)
PrimalityTest ==
    /\ PrimesPass
    /\ call.op = "prime" /\ call.answer /\ ~Prime(call.n) =>
          LET n == call.n
              Misleading == {a \in 2..(n - 2) : Passes(n, a)}
          IN n % 2 = 1 /\ 4 * Cardinality(Misleading) <= n - 1

(* What the holder of the private key can work out of a sealed number, or  *)
(* the error of mod_inverse.                                               *)
Recovered(c, pair) ==
    LET inverse == ModInverse(PowerMod(c.c1, pair.x, pair.p), pair.p)
    IN IF inverse = NoInverse THEN NoInverse ELSE (c.c2 * inverse) % pair.p

(* Two ends of an exchange have one secret, every element of the group is  *)
(* a power of the generator of a key pair, if its modulus is a prime, and  *)
(* a number sealed for a key pair hides nothing from its private key: the  *)
(* mask that it was multiplied by can be found and divided out.  Under a   *)
(* modulus that is_prime took for a prime and is none, such as 62745, the  *)
(* mask may have no inverse (generate_keys, encrypt,                       *)
(* compute_shared_secret).  decrypt itself gets nowhere, see OpensToNumber.*)
PeersAgree ==
    /\ call.op = "exchange" => call.mine = call.theirs
    /\ call.op = "keys" =>
          LET p == call.pair.p
          IN Prime(p) => {Power(call.pair.g, e, p) : e \in 1..(p - 1)} = 1..(p - 1)
    /\ call.op = "sealed" =>
          \/ Recovered(call.c, call.pair) = call.m
          \/ Recovered(call.c, call.pair) = NoInverse /\ ~Prime(call.pair.p)

(* The docstring of decrypt: it returns the decrypted message, an integer. *)
(* Violated: its import raises, for every key pair and every number        *)
(* (ElGamal.decrypt).                                                      *)
OpensToNumber == call.op = "opened" => call.answer \in Nat

(* The letters that a cipher takes for others, for good: all but the 26,   *)
(* except that Caesar has first made them upper case.                      *)
Mistaken(method) ==
    {c \in Letters : \/ method = "Caesar" /\ ToUpper(c)[1] \notin 65..90
                     \/ method = "Vigenere" /\ c > 127}

(* Who reads a message with the right key sees what was sent, in upper     *)
(* case for Caesar, and is told that its hash matches; unless it has a     *)
(* letter that its cipher mistakes, and then the reader sees another text  *)
(* and is warned (_handle_send_message, _decrypt_message).                 *)
MessagesReadBack ==
    call.op = "read" =>
        LET plain == IF call.method = "Caesar" THEN UpperText(call.text) ELSE call.text
        IN /\ call.verified <=> call.shown = plain
           /\ call.verified <=> \A i \in DOMAIN call.text :
                                    call.text[i] \notin Mistaken(call.method)
=============================================================================
