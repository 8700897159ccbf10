---------------------------- MODULE NumberTheory ----------------------------
(***************************************************************************)
(* core/crypto_math.py.  Arguments are natural numbers, as in its callers. *)
(* What a function answers under random choices is the set of answers.     *)
(***************************************************************************)
EXTENDS Integers

(* ValueError and ZeroDivisionError of mod_inverse. *)
NoInverse == -1
DividedByZero == -2

(* The built-in pow(base, exponent, modulus).                              *)
Power(base, exponent, modulus) ==
    LET power[e \in Nat] ==
            IF e = 0 THEN 1 % modulus ELSE (base * power[e - 1]) % modulus
    IN power[exponent]

Gcd(a, b) ==
    LET gcd[p \in Nat \X Nat] ==
            IF p[2] = 0 THEN p[1] ELSE gcd[<<p[2], p[1] % p[2]>>]
    IN gcd[<<a, b>>]

(* rest is what the recursive call answers for p[2] % p[1] and p[1].       *)
ExtendedGcd(a, b) ==
    LET Combine(p, rest) ==
            [gcd |-> rest.gcd, x |-> rest.y - (p[2] \div p[1]) * rest.x, y |-> rest.x]
        extended[p \in Nat \X Nat] ==
            IF p[1] = 0 THEN [gcd |-> p[2], x |-> 0, y |-> 1]
            ELSE Combine(p, extended[<<p[2] % p[1], p[1]>>])
    IN extended[<<a, b>>]

(* A variant of ModInverse that does not ask whether there is one. *)
ModInverseUnchecked(a, m) ==
    IF m = 0 THEN DividedByZero ELSE ExtendedGcd(a, m).x % m

ModInverse(a, m) ==
    IF ExtendedGcd(a, m).gcd # 1 THEN NoInverse
    ELSE IF m = 0 THEN DividedByZero
    ELSE ((ExtendedGcd(a, m).x % m) + m) % m

-----------------------------------------------------------------------------
(* n = 2^r * d with an odd d: r and d of is_prime.                          *)
Halve(n) ==
    LET Count(rest) == [r |-> rest.r + 1, d |-> rest.d]
        halve[k \in Nat \ {0}] ==
            IF k % 2 = 1 THEN [r |-> 0, d |-> k] ELSE Count(halve[k \div 2])
    IN halve[n]

(* x of a round after i squarings.                                         *)
Squared(x, i, n) ==
    LET squared[j \in Nat] == IF j = 0 THEN x ELSE Power(squared[j - 1], 2, n)
    IN squared[i]

(* A variant of Passes with one squaring too few. *)
PassesEarly(n, a) ==
    LET s == Halve(n - 1)
        x == Power(a, s.d, n)
    IN x \in {1, n - 1} \/ \E i \in 1..(s.r - 2) : Squared(x, i, n) = n - 1

(* One round of is_prime, with base a. *)
Passes(n, a) ==
    LET s == Halve(n - 1)
        x == Power(a, s.d, n)
    IN x \in {1, n - 1} \/ \E i \in 1..(s.r - 1) : Squared(x, i, n) = n - 1

(* is_prime: the same base may be drawn in all five rounds.                *)
IsPrime(n) ==
    IF n \in {2, 3} THEN {TRUE}
    ELSE IF n < 2 \/ n % 2 = 0 THEN {FALSE}
    ELSE {Passes(n, a) : a \in 2..(n - 2)}

GeneratePrime(bits) ==
    {n \in 2^(bits - 1)..(2^bits - 1) : n % 2 = 1 /\ TRUE \in IsPrime(n)}

-----------------------------------------------------------------------------
(* The loop of power_mod; s is <<result, base, exponent>>.                 *)
SquareAndMultiply(result, base, exponent, modulus) ==
    LET loop[s \in Nat \X Nat \X Nat] ==
            IF s[3] = 0 THEN s[1]
            ELSE loop[<<IF s[3] % 2 = 1 THEN (s[1] * s[2]) % modulus ELSE s[1],
                        (s[2] * s[2]) % modulus, s[3] \div 2>>]
    IN loop[<<result, base, exponent>>]

(* A variant of PowerMod that starts from the base. *)
PowerModFromBase(base, exponent, modulus) ==
    SquareAndMultiply(base % modulus, base % modulus, exponent, modulus)

PowerMod(base, exponent, modulus) ==
    SquareAndMultiply(1, base % modulus, exponent, modulus)

(* The integer part of n**0.5. *)
Root(n) == CHOOSE r \in 0..n : r * r <= n /\ (r + 1) * (r + 1) > n

(* The inner loop, and the outer one after its round for i.                *)
Without(n, i) ==
    LET without[k \in Nat \ {0}] == IF k % i = 0 THEN without[k \div i] ELSE k
    IN without[n]

TrialDivision(n) ==
    LET Divide(left, i) ==
            IF left.n % i # 0 THEN left
            ELSE [n |-> Without(left.n, i), factors |-> left.factors \cup {i}]
        divided[i \in Nat \ {0}] ==
            IF i = 1 THEN [n |-> n, factors |-> {}] ELSE Divide(divided[i - 1], i)
    IN divided[Root(n)]

PrimeFactors(n) ==
    TrialDivision(n).factors
        \cup (IF TrialDivision(n).n > 1 THEN {TrialDivision(n).n} ELSE {})

IsGenerator(g, p) ==
    \A factor \in PrimeFactors(p - 1) : PowerMod(g, (p - 1) \div factor, p) # 1

(* find_primitive_root; the set is empty where the function returns None.  *)
FindPrimitiveRoot(p) ==
    IF p = 2 THEN {1}
    ELSE {g \in 2..(p - 1) :
             IsGenerator(g, p) /\ \A h \in 2..(g - 1) : ~IsGenerator(h, p)}
=============================================================================
