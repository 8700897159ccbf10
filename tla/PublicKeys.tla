----------------------------- MODULE PublicKeys -----------------------------
(***************************************************************************)
(* ElGamal of core/elgamal.py and the exchange of core/key_exchange.py,    *)
(* whose derive_session_key is left out: a digest of the shared secret.    *)
(***************************************************************************)
EXTENDS NumberTheory

(* generate_keys; randint(2, p - 2) raises for p = 3. *)
GenerateKeys(bits) ==
    UNION {{[p |-> p, g |-> g, x |-> x, y |-> PowerMod(g, x, p)] :
               g \in FindPrimitiveRoot(p), x \in 2..(p - 2)} :
           p \in GeneratePrime(bits)}

(* A variant of Encrypt that masks with a power of the generator. *)
EncryptWithGenerator(m, pair) ==
    IF m >= pair.p THEN {}
    ELSE {[c1 |-> PowerMod(pair.g, k, pair.p),
           c2 |-> (m * PowerMod(pair.g, k, pair.p)) % pair.p] :
             k \in 2..(pair.p - 2)}

(* encrypt; the set is empty for a message that is too large.              *)
Encrypt(m, pair) ==
    IF m >= pair.p THEN {}
    ELSE {[c1 |-> PowerMod(pair.g, k, pair.p),
           c2 |-> (m * PowerMod(pair.y, k, pair.p)) % pair.p] :
             k \in 2..(pair.p - 2)}

(* ModuleNotFoundError of decrypt. *)
NoModule == -3

(* decrypt: the import that follows the mask names a module crypto_math,   *)
(* and there is only core.crypto_math, so no call gets past it.            *)
Decrypt(c, pair) == NoModule

(* generate_public_key and compute_shared_secret of core/key_exchange.py.  *)
PublicKey(private, p, g) == Power(g, private, p)
SharedSecret(theirs, private, p) == Power(theirs, private, p)
DemoG == 5
=============================================================================
