-------------------------- MODULE CryptoCallsProofs --------------------------
(***************************************************************************)
(* Proofs about CryptoCalls, for any arguments, sizes, texts, keys and     *)
(* random choices: what core/crypto_math.py computes, for core/elgamal.py  *)
(* and core/key_exchange.py, and what the four ciphers of                  *)
(* core/classical_ciphers.py and core/modern_ciphers.py read back.         *)
(*                                                                         *)
(* An induction is over the set P of the numbers, or the sequences, that   *)
(* have the property, so that its theorem needs no operator parameter, and *)
(* a recursive function is what its definition says because its argument   *)
(* decreases (RecursionDefined).                                           *)
(***************************************************************************)
EXTENDS CryptoCalls, WellFoundedInduction, SequenceTheorems, FiniteSetTheorems, TLAPS

-----------------------------------------------------------------------------
(* Induction, and the recursive functions.                                 *)

(* A set with a number in it has a least number. *)
LEMMA LeastElement ==
  ASSUME NEW S, NEW s \in Nat, s \in S
  PROVE  \E m \in Nat : m \in S /\ \A k \in Nat : k \in S => m <= k
<1>1. \E x \in Nat \cap S : \A y \in Nat \cap S : ~(<<y,x>> \in OpToRel(<,Nat))
  <2>1. Nat \cap S \subseteq Nat /\ Nat \cap S # {}
    OBVIOUS
  <2> QED BY <2>1, NatLessThanWellFounded, WFMin
<1>2. PICK x \in Nat \cap S : \A y \in Nat \cap S : ~(<<y,x>> \in OpToRel(<,Nat))
  BY <1>1
<1>3. \A y \in Nat \cap S : ~(y < x)
  BY <1>2 DEF OpToRel
<1> QED BY <1>3

(* Induction on a measure. *)
LEMMA MeasureInduction ==
  ASSUME NEW S, NEW mu \in [S -> Nat], NEW P,
         \A x \in S : (\A y \in S : mu[y] < mu[x] => y \in P) => x \in P
  PROVE  S \subseteq P
<1> SUFFICES ASSUME NEW s \in S, s \notin P
             PROVE  FALSE
  OBVIOUS
<1> DEFINE Values == {mu[x] : x \in S \ P}
<1>1. mu[s] \in Nat /\ mu[s] \in Values
  OBVIOUS
<1>2. PICK m \in Nat : m \in Values /\ \A k \in Nat : k \in Values => m <= k
  <2> HIDE DEF Values
  <2> QED BY <1>1, LeastElement
<1>3. PICK x \in S \ P : m = mu[x]
  BY <1>2
<1>4. \A y \in S : mu[y] < mu[x] => y \in P
  <2> TAKE y \in S
  <2> HAVE mu[y] < mu[x]
  <2> SUFFICES ASSUME y \notin P PROVE FALSE
    OBVIOUS
  <2>1. mu[y] \in Values /\ mu[y] \in Nat
    OBVIOUS
  <2> QED BY <2>1, <1>2, <1>3
<1> QED BY <1>3, <1>4

(* Induction on the numbers. *)
LEMMA SetInduction ==
  ASSUME NEW P, 0 \in P, \A n \in Nat : n \in P => n + 1 \in P
  PROVE  \A n \in Nat : n \in P
<1> DEFINE mu == [n \in Nat |-> n]
<1>1. mu \in [Nat -> Nat]
  OBVIOUS
<1>2. ASSUME NEW n \in Nat, \A y \in Nat : mu[y] < mu[n] => y \in P
      PROVE  n \in P
  <2>1. CASE n = 0
    BY <2>1
  <2>2. CASE n # 0
    <3>1. n - 1 \in Nat /\ mu[n - 1] < mu[n] /\ n = (n - 1) + 1
      BY <2>2
    <3>2. n - 1 \in P
      BY <3>1, <1>2
    <3> QED BY <3>1, <3>2
  <2> QED BY <2>1, <2>2
<1>3. Nat \subseteq P
  <2> HIDE DEF mu
  <2> QED BY <1>1, <1>2, MeasureInduction
<1> QED BY <1>3

(* A recursive definition on S with values in T: on B it is c, elsewhere   *)
(* it is computed by G from the value for next, which has a smaller        *)
(* measure.                                                                *)
Recursion(S, T, B, mu, c, next, G) ==
    /\ mu \in [S -> Nat] /\ c \in [S -> T]
    /\ next \in [S -> S] /\ G \in [S -> [T -> T]]
    /\ \A x \in S \ B : mu[next[x]] < mu[x]

(* There is such a function. *)
LEMMA RecursionDefined ==
  ASSUME NEW S, NEW T, NEW B, NEW mu, NEW c, NEW next, NEW G,
         Recursion(S, T, B, mu, c, next, G)
  PROVE  \E f \in [S -> T] :
            \A x \in S : f[x] = IF x \in B THEN c[x] ELSE G[x][f[next[x]]]
<1> USE DEF Recursion
<1> DEFINE Rhs(f, x) == IF x \in B THEN c[x] ELSE G[x][f[next[x]]]
           Agrees(f, n) == \A x \in S : mu[x] < n => f[x] = Rhs(f, x)
           P == {n \in Nat : \E f \in [S -> T] : Agrees(f, n)}
<1>1. \A f \in [S -> T], x \in S : Rhs(f, x) \in T
  OBVIOUS
<1>2. \A f, g, x :
         x \notin B => (f[next[x]] = g[next[x]] => Rhs(f, x) = Rhs(g, x))
  OBVIOUS
<1>3. \A f, g, x : x \in B => Rhs(f, x) = Rhs(g, x)
  OBVIOUS
<1>4. \A n \in Nat : n \in P
  <2>1. 0 \in P
    <3>1. Agrees(c, 0)
      OBVIOUS
    <3> QED BY <3>1
  <2>2. ASSUME NEW n \in Nat, n \in P
        PROVE  n + 1 \in P
    <3>1. PICK f \in [S -> T] : Agrees(f, n)
      BY <2>2
    <3> DEFINE g == [x \in S |-> IF mu[x] < n THEN f[x] ELSE Rhs(f, x)]
    <3> HIDE DEF Rhs
    <3>2. g \in [S -> T]
      BY <1>1
    <3>3. ASSUME NEW x \in S, mu[x] < n + 1
          PROVE  g[x] = Rhs(g, x)
      <4>1. g[x] = Rhs(f, x)
        BY <3>1
      <4>2. CASE x \in B
        BY <4>1, <4>2, <1>3
      <4>3. CASE x \notin B
        <5>1. mu[next[x]] < n /\ next[x] \in S
          BY <3>3, <4>3
        <5>2. g[next[x]] = f[next[x]]
          BY <5>1
        <5> QED BY <4>1, <4>3, <5>2, <3>2, <1>2
      <4> QED BY <4>2, <4>3
    <3>4. Agrees(g, n + 1)
      BY <3>3
    <3> HIDE DEF g, Agrees
    <3> QED BY <3>2, <3>4
  <2> HIDE DEF P
  <2> QED BY <2>1, <2>2, SetInduction
<1>5. \A n \in Nat : \E f \in [S -> T] : Agrees(f, n)
  BY <1>4
<1> HIDE DEF P
<1> DEFINE approx == [n \in Nat |-> CHOOSE f \in [S -> T] : Agrees(f, n)]
<1>6. \A n \in Nat : approx[n] \in [S -> T] /\ Agrees(approx[n], n)
  <2> HIDE DEF Agrees
  <2> QED BY <1>5
<1> HIDE DEF approx
<1> DEFINE Same == {x \in S : \A n \in Nat :
                       mu[x] < n => approx[n][x] = approx[mu[x] + 1][x]}
<1>7. S \subseteq Same
  <2>1. ASSUME NEW x \in S, \A y \in S : mu[y] < mu[x] => y \in Same
        PROVE  x \in Same
    <3> HIDE DEF Rhs
    <3> SUFFICES ASSUME NEW n \in Nat, mu[x] < n
                 PROVE  approx[n][x] = approx[mu[x] + 1][x]
      OBVIOUS
    <3>1. mu[x] + 1 \in Nat /\ mu[x] < mu[x] + 1
      OBVIOUS
    <3>2. approx[n][x] = Rhs(approx[n], x)
      BY <1>6
    <3>3. approx[mu[x] + 1][x] = Rhs(approx[mu[x] + 1], x)
      BY <1>6, <3>1
    <3>4. CASE x \in B
      BY <3>2, <3>3, <3>4, <1>3
    <3>5. CASE x \notin B
      <4>1. next[x] \in S /\ mu[next[x]] < mu[x]
        BY <3>5
      <4>2. next[x] \in Same
        BY <4>1, <2>1
      <4>3. approx[n][next[x]] = approx[mu[x] + 1][next[x]]
        BY <4>1, <4>2, <3>1
      <4>4. approx[n] \in [S -> T] /\ approx[mu[x] + 1] \in [S -> T]
        BY <1>6, <3>1
      <4>5. Rhs(approx[n], x) = Rhs(approx[mu[x] + 1], x)
        BY <4>3, <4>4, <3>5, <1>2
      <4> QED BY <3>2, <3>3, <4>5
    <3> QED BY <3>4, <3>5
  <2> HIDE DEF Same
  <2> QED BY <2>1, MeasureInduction
<1> DEFINE f == [x \in S |-> approx[mu[x] + 1][x]]
<1>8. f \in [S -> T]
  BY <1>6
<1>9. ASSUME NEW x \in S
      PROVE  f[x] = Rhs(f, x)
  <2> HIDE DEF Rhs
  <2>1. mu[x] + 1 \in Nat /\ mu[x] < mu[x] + 1
    OBVIOUS
  <2>2. f[x] = Rhs(approx[mu[x] + 1], x)
    BY <1>6, <2>1
  <2>3. CASE x \in B
    BY <2>2, <2>3, <1>3
  <2>4. CASE x \notin B
    <3>1. next[x] \in S /\ mu[next[x]] < mu[x]
      BY <2>4
    <3>2. f[next[x]] = approx[mu[x] + 1][next[x]]
      BY <3>1, <1>7, <2>1
    <3> QED BY <2>2, <2>4, <3>2, <2>1, <1>2, <1>6, <1>8
  <2> QED BY <2>3, <2>4
<1> QED BY <1>8, <1>9
(* Quotient and remainder. *)
LEMMA ModDef ==
  ASSUME NEW x \in Int, NEW n \in Nat, n > 0
  PROVE  /\ x % n \in 0..(n - 1)
         /\ x \div n \in Int
         /\ x = n * (x \div n) + (x % n)
         /\ x \in Nat => x \div n \in Nat
OBVIOUS

(* There is only one of each. *)
LEMMA ModUnique ==
  ASSUME NEW x \in Int, NEW n \in Nat, n > 0, NEW q \in Int, NEW r \in 0..(n - 1),
         x = n * q + r
  PROVE  x % n = r /\ x \div n = q
OBVIOUS

(* The power is defined by its recursion. *)
LEMMA PowerDefined ==
  ASSUME NEW b \in Nat, NEW m \in Nat, m > 0
  PROVE  /\ Power(b, 0, m) = 1 % m
         /\ \A e \in Nat : Power(b, e+1, m) = (b * Power(b, e, m)) % m
<1> DEFINE Body(f) == [e \in Nat |->
            IF e = 0 THEN 1 % m ELSE (b * f[e - 1]) % m]
           p == CHOOSE f : f = Body(f)
<1>1. \E f : f = Body(f)
  <2> DEFINE mu == [n \in Nat |-> n]
             c == [n \in Nat |-> 1 % m]
             next == [n \in Nat |-> IF n = 0 THEN 0 ELSE n - 1]
             G == [n \in Nat |-> [v \in Int |-> (b * v) % m]]
  <2>1. mu \in [Nat -> Nat] /\ c \in [Nat -> Int] /\ next \in [Nat -> Nat]
    OBVIOUS
  <2>2. G \in [Nat -> [Int -> Int]]
    OBVIOUS
  <2>3. \A n \in Nat \ {0} : mu[next[n]] < mu[n]
    OBVIOUS
  <2>4. \E f \in [Nat -> Int] :
           \A n \in Nat : f[n] = IF n \in {0} THEN c[n] ELSE G[n][f[next[n]]]
    <3>1. Recursion(Nat, Int, {0}, mu, c, next, G)
      BY <2>1, <2>2, <2>3 DEF Recursion
    <3> HIDE DEF mu, c, next, G
    <3> QED BY <3>1, RecursionDefined
  <2>5. PICK f \in [Nat -> Int] :
           \A n \in Nat : f[n] = IF n \in {0} THEN c[n] ELSE G[n][f[next[n]]]
    BY <2>4
  <2>6. \A n \in Nat : f[n] = IF n = 0 THEN 1 % m ELSE (b * f[n - 1]) % m
    <3> TAKE n \in Nat
    <3>1. CASE n = 0
      BY <2>5, <3>1
    <3>2. CASE n # 0
      <4>1. next[n] = n - 1 /\ n - 1 \in Nat
        BY <3>2
      <4>2. G[n][f[n - 1]] = (b * f[n - 1]) % m
        BY <4>1
      <4>3. f[n] = G[n][f[next[n]]]
        <5> HIDE DEF G, next, c
        <5> QED BY <2>5, <3>2
      <4> QED BY <4>1, <4>2, <4>3, <3>2
    <3> QED BY <3>1, <3>2
  <2>7. f = Body(f)
    BY <2>5, <2>6
  <2> QED BY <2>7
<1>2. p = Body(p)
  <2> HIDE DEF Body
  <2> QED BY <1>1
<1>3. \A e \in Nat : p[e] = IF e = 0 THEN 1 % m ELSE (b * p[e - 1]) % m
  <2> HIDE DEF p
  <2> QED BY <1>2
<1>4. \A e \in Nat : Power(b, e, m) = p[e]
  BY DEF Power
<1> HIDE DEF p
<1> QED BY <1>3, <1>4

(* The greatest common divisor is defined by its recursion (gcd). *)
LEMMA GcdDefined ==
  ASSUME NEW a \in Nat, NEW b \in Nat
  PROVE  Gcd(a, b) = IF b = 0 THEN a ELSE Gcd(b, a % b)
<1> DEFINE Body(f) == [p \in Nat \X Nat |->
            IF p[2] = 0 THEN p[1] ELSE f[<<p[2], p[1] % p[2]>>]]
           gcd == CHOOSE f : f = Body(f)
           Pairs == Nat \X Nat
           mu == [p \in Pairs |-> p[2]]
           c == [p \in Pairs |-> p[1]]
           next == [p \in Pairs |-> IF p[2] = 0 THEN p ELSE <<p[2], p[1] % p[2]>>]
           G == [p \in Pairs |-> [v \in Nat |-> v]]
           B == {p \in Pairs : p[2] = 0}
<1>1. Recursion(Pairs, Nat, B, mu, c, next, G)
  <2>1. mu \in [Pairs -> Nat] /\ c \in [Pairs -> Nat] /\ next \in [Pairs -> Pairs]
    OBVIOUS
  <2>2. G \in [Pairs -> [Nat -> Nat]]
    OBVIOUS
  <2>3. \A p \in Pairs \ B : mu[next[p]] < mu[p]
    <3> TAKE p \in Pairs \ B
    <3>1. next[p] = <<p[2], p[1] % p[2]>>
      OBVIOUS
    <3> QED BY <3>1
  <2> HIDE DEF mu, c, next, G, B
  <2> QED BY <2>1, <2>2, <2>3 DEF Recursion
<1>2. PICK f \in [Pairs -> Nat] :
         \A p \in Pairs : f[p] = IF p \in B THEN c[p] ELSE G[p][f[next[p]]]
  <2> HIDE DEF Pairs, mu, c, next, G, B
  <2> QED BY <1>1, RecursionDefined
<1>3. \A p \in Pairs : f[p] = IF p[2] = 0 THEN p[1] ELSE f[<<p[2], p[1] % p[2]>>]
  <2> TAKE p \in Pairs
  <2>1. CASE p[2] = 0
    BY <1>2, <2>1
  <2>2. CASE p[2] # 0
    <3>1. next[p] = <<p[2], p[1] % p[2]>> /\ next[p] \in Pairs
      BY <2>2
    <3>2. f[p] = G[p][f[next[p]]]
      <4> HIDE DEF next, G, c, mu
      <4> QED BY <1>2, <2>2
    <3>3. G[p][f[next[p]]] = f[next[p]]
      BY <3>1
    <3> HIDE DEF next, G
    <3> QED BY <3>1, <3>2, <3>3, <2>2
  <2> QED BY <2>1, <2>2
<1>4. f = Body(f)
  <2> HIDE DEF mu, c, next, G, B
  <2> QED BY <1>3
<1>5. gcd = Body(gcd)
  <2> HIDE DEF Body
  <2> QED BY <1>4
<1>6. \A p \in Pairs : gcd[p] = IF p[2] = 0 THEN p[1] ELSE gcd[<<p[2], p[1] % p[2]>>]
  <2> HIDE DEF gcd
  <2> QED BY <1>5
<1>7. \A x, y \in Nat : Gcd(x, y) = gcd[<<x, y>>]
  BY DEF Gcd
<1>8. <<a, b>> \in Pairs /\ <<a, b>>[1] = a /\ <<a, b>>[2] = b
  OBVIOUS
<1>9. gcd[<<a, b>>] = IF b = 0 THEN a ELSE gcd[<<b, a % b>>]
  <2> HIDE DEF gcd
  <2> QED BY <1>6, <1>8
<1>10. b # 0 => a % b \in Nat
  OBVIOUS
<1> HIDE DEF gcd
<1> QED BY <1>7, <1>9, <1>10

(* extended_gcd is defined by its recursion. *)
LEMMA ExtendedGcdDefined ==
  ASSUME NEW a \in Nat, NEW b \in Nat
  PROVE  /\ a = 0 => ExtendedGcd(a, b) = [gcd |-> b, x |-> 0, y |-> 1]
         /\ a # 0 => LET rest == ExtendedGcd(b % a, a)
                     IN ExtendedGcd(a, b) =
                           [gcd |-> rest.gcd, x |-> rest.y - (b \div a) * rest.x,
                            y |-> rest.x]
<1> DEFINE Combine(p, rest) ==
              [gcd |-> rest.gcd, x |-> rest.y - (p[2] \div p[1]) * rest.x, y |-> rest.x]
           Body(f) == [p \in Nat \X Nat |->
              IF p[1] = 0 THEN [gcd |-> p[2], x |-> 0, y |-> 1]
              ELSE Combine(p, f[<<p[2] % p[1], p[1]>>])]
           extended == CHOOSE f : f = Body(f)
           Pairs == Nat \X Nat
           Answers == [gcd : Nat, x : Int, y : Int]
           mu == [p \in Pairs |-> p[1]]
           c == [p \in Pairs |-> [gcd |-> p[2], x |-> 0, y |-> 1]]
           next == [p \in Pairs |-> IF p[1] = 0 THEN p ELSE <<p[2] % p[1], p[1]>>]
           G == [p \in Pairs |-> IF p[1] = 0 THEN [v \in Answers |-> v]
                                 ELSE [v \in Answers |-> Combine(p, v)]]
           B == {p \in Pairs : p[1] = 0}
<1>1. Recursion(Pairs, Answers, B, mu, c, next, G)
  <2>1. mu \in [Pairs -> Nat] /\ c \in [Pairs -> Answers]
    OBVIOUS
  <2>2. next \in [Pairs -> Pairs]
    OBVIOUS
  <2>3. G \in [Pairs -> [Answers -> Answers]]
    <3>1. ASSUME NEW p \in Pairs, p[1] # 0, NEW v \in Answers
          PROVE  Combine(p, v) \in Answers
      <4>1. p[2] \div p[1] \in Int
        BY <3>1
      <4>2. (p[2] \div p[1]) * v.x \in Int
        BY <4>1
      <4> QED BY <4>2
    <3> HIDE DEF Combine
    <3> QED BY <3>1
  <2>4. \A p \in Pairs \ B : mu[next[p]] < mu[p]
    <3> TAKE p \in Pairs \ B
    <3>1. next[p] = <<p[2] % p[1], p[1]>> /\ next[p] \in Pairs
      BY <2>2
    <3>2. mu[next[p]] = p[2] % p[1]
      BY <3>1
    <3> QED BY <3>2
  <2> HIDE DEF mu, c, next, G, B
  <2> QED BY <2>1, <2>2, <2>3, <2>4 DEF Recursion
<1>2. PICK f \in [Pairs -> Answers] :
         \A p \in Pairs : f[p] = IF p \in B THEN c[p] ELSE G[p][f[next[p]]]
  <2> HIDE DEF Pairs, Answers, mu, c, next, G, B
  <2> QED BY <1>1, RecursionDefined
<1>3. \A p \in Pairs : f[p] = IF p[1] = 0 THEN [gcd |-> p[2], x |-> 0, y |-> 1]
                              ELSE Combine(p, f[<<p[2] % p[1], p[1]>>])
  <2> TAKE p \in Pairs
  <2>1. CASE p[1] = 0
    BY <1>2, <2>1
  <2>2. CASE p[1] # 0
    <3>1. next[p] = <<p[2] % p[1], p[1]>> /\ next[p] \in Pairs
      BY <2>2
    <3>2. f[p] = G[p][f[next[p]]]
      <4> HIDE DEF next, G, c, mu
      <4> QED BY <1>2, <2>2
    <3>3. G[p][f[next[p]]] = Combine(p, f[next[p]])
      <4>1. f[next[p]] \in Answers
        BY <3>1
      <4> HIDE DEF Combine, Answers, next
      <4> QED BY <4>1, <2>2
    <3> HIDE DEF next, G, Combine
    <3> QED BY <3>1, <3>2, <3>3, <2>2
  <2> QED BY <2>1, <2>2
<1>4. f = Body(f)
  <2> HIDE DEF mu, c, next, G, B, Combine
  <2> QED BY <1>3
<1>5. extended = Body(extended)
  <2> HIDE DEF Body
  <2> QED BY <1>4
<1>6. \A p \in Pairs :
         extended[p] = IF p[1] = 0 THEN [gcd |-> p[2], x |-> 0, y |-> 1]
                       ELSE Combine(p, extended[<<p[2] % p[1], p[1]>>])
  <2> HIDE DEF extended, Combine
  <2> QED BY <1>5
<1>7. \A x, y \in Nat : ExtendedGcd(x, y) = extended[<<x, y>>]
  BY DEF ExtendedGcd
<1>8. <<a, b>> \in Pairs /\ <<a, b>>[1] = a /\ <<a, b>>[2] = b
  OBVIOUS
<1>9. extended[<<a, b>>] = IF a = 0 THEN [gcd |-> b, x |-> 0, y |-> 1]
                           ELSE Combine(<<a, b>>, extended[<<b % a, a>>])
  <2> HIDE DEF extended, Combine
  <2> QED BY <1>6, <1>8
<1>10. a # 0 => b % a \in Nat
  OBVIOUS
<1> HIDE DEF extended
<1> QED BY <1>7, <1>8, <1>9, <1>10

(* The loop of power_mod is defined by its recursion. *)
LEMMA SquareAndMultiplyDefined ==
  ASSUME NEW r \in Nat, NEW b \in Nat, NEW e \in Nat, NEW m \in Nat, m > 0
  PROVE  /\ e = 0 => SquareAndMultiply(r, b, e, m) = r
         /\ e # 0 => SquareAndMultiply(r, b, e, m) =
                        SquareAndMultiply(IF e % 2 = 1 THEN (r * b) % m ELSE r,
                                          (b * b) % m, e \div 2, m)
<1> DEFINE Next3(s) == <<IF s[3] % 2 = 1 THEN (s[1] * s[2]) % m ELSE s[1],
                         (s[2] * s[2]) % m, s[3] \div 2>>
           Body(f) == [s \in Nat \X Nat \X Nat |-> IF s[3] = 0 THEN s[1] ELSE f[Next3(s)]]
           loop == CHOOSE f : f = Body(f)
           States == Nat \X Nat \X Nat
           mu == [s \in States |-> s[3]]
           c == [s \in States |-> s[1]]
           next == [s \in States |-> IF s[3] = 0 THEN s ELSE Next3(s)]
           G == [s \in States |-> [v \in Nat |-> v]]
           B == {s \in States : s[3] = 0}
<1>1. ASSUME NEW s \in States, s[3] # 0
      PROVE  Next3(s) \in States /\ Next3(s)[3] < s[3]
  <2>1. (s[1] * s[2]) \in Nat /\ (s[2] * s[2]) \in Nat
    OBVIOUS
  <2>2. (s[1] * s[2]) % m \in Nat /\ (s[2] * s[2]) % m \in Nat
    BY <2>1, ModDef
  <2>3. s[3] \div 2 \in Nat /\ s[3] \div 2 < s[3]
    BY <1>1
  <2> QED BY <2>2, <2>3
<1>2. Recursion(States, Nat, B, mu, c, next, G)
  <2>1. mu \in [States -> Nat] /\ c \in [States -> Nat]
    OBVIOUS
  <2>2. next \in [States -> States]
    <3> HIDE DEF Next3
    <3> QED BY <1>1
  <2>3. G \in [States -> [Nat -> Nat]]
    OBVIOUS
  <2>4. \A s \in States \ B : mu[next[s]] < mu[s]
    <3> TAKE s \in States \ B
    <3>1. next[s] = Next3(s)
      OBVIOUS
    <3> HIDE DEF Next3
    <3> QED BY <3>1, <1>1
  <2> HIDE DEF mu, c, next, G, B
  <2> QED BY <2>1, <2>2, <2>3, <2>4 DEF Recursion
<1>3. PICK f \in [States -> Nat] :
         \A s \in States : f[s] = IF s \in B THEN c[s] ELSE G[s][f[next[s]]]
  <2> HIDE DEF States, mu, c, next, G, B
  <2> QED BY <1>2, RecursionDefined
<1>4. \A s \in States : f[s] = IF s[3] = 0 THEN s[1] ELSE f[Next3(s)]
  <2> HIDE DEF Next3
  <2> TAKE s \in States
  <2>1. CASE s[3] = 0
    BY <1>3, <2>1
  <2>2. CASE s[3] # 0
    <3>1. next[s] = Next3(s) /\ next[s] \in States
      BY <2>2, <1>1
    <3>2. f[s] = G[s][f[next[s]]]
      <4> HIDE DEF next, G, c, mu
      <4> QED BY <1>3, <2>2
    <3>3. G[s][f[next[s]]] = f[next[s]]
      BY <3>1
    <3> HIDE DEF next, G
    <3> QED BY <3>1, <3>2, <3>3, <2>2
  <2> QED BY <2>1, <2>2
<1>5. f = Body(f)
  <2> HIDE DEF mu, c, next, G, B, Next3
  <2> QED BY <1>4
<1>6. loop = Body(loop)
  <2> HIDE DEF Body
  <2> QED BY <1>5
<1>7. \A s \in States : loop[s] = IF s[3] = 0 THEN s[1] ELSE loop[Next3(s)]
  <2> HIDE DEF loop, Next3
  <2> QED BY <1>6
<1>8. \A x, y, z \in Nat : SquareAndMultiply(x, y, z, m) = loop[<<x, y, z>>]
  BY DEF SquareAndMultiply
<1> DEFINE s == <<r, b, e>>
<1>9. s \in States /\ s[1] = r /\ s[2] = b /\ s[3] = e
  OBVIOUS
<1>10. loop[s] = IF e = 0 THEN r ELSE loop[Next3(s)]
  <2> HIDE DEF loop, Next3, s
  <2> QED BY <1>7, <1>9
<1>11. e # 0 => /\ (IF e % 2 = 1 THEN (r * b) % m ELSE r) \in Nat
                /\ (b * b) % m \in Nat /\ e \div 2 \in Nat
  BY <1>1, <1>9
<1>12. Next3(s) = <<IF e % 2 = 1 THEN (r * b) % m ELSE r, (b * b) % m, e \div 2>>
  OBVIOUS
<1> HIDE DEF loop, Next3, s
<1>13. SquareAndMultiply(r, b, e, m) = loop[s]
  BY <1>8 DEF s
<1> QED BY <1>8, <1>10, <1>11, <1>12, <1>13

-----------------------------------------------------------------------------
(* Multiplication and powers of a modulus: square-and-multiply             *)
(* (power_mod).                                                            *)

(* Induction from all smaller numbers. *)
LEMMA StrongInduction ==
  ASSUME NEW P, \A n \in Nat : (\A k \in Nat : k < n => k \in P) => n \in P
  PROVE  \A n \in Nat : n \in P
<1> DEFINE mu == [n \in Nat |-> n]
<1>1. mu \in [Nat -> Nat]
  OBVIOUS
<1>2. \A n \in Nat : (\A k \in Nat : mu[k] < mu[n] => k \in P) => n \in P
  OBVIOUS
<1>3. Nat \subseteq P
  <2> HIDE DEF mu
  <2> QED BY ONLY <1>1, <1>2, MeasureInduction
<1> QED BY <1>3

(* Multiplication modulo m.                                                *)
Times(x, y, m) == (x * y) % m

(* Products are remainders. *)
LEMMA TimesType ==
  ASSUME NEW x \in Int, NEW y \in Int, NEW m \in Nat, m > 0
  PROVE  Times(x, y, m) \in 0..(m - 1)
<1>1. x * y \in Int
  OBVIOUS
<1> QED BY <1>1, ModDef DEF Times

(* Factors may change places. *)
LEMMA TimesCommutes ==
  ASSUME NEW x \in Int, NEW y \in Int, NEW m
  PROVE  Times(x, y, m) = Times(y, x, m)
<1>1. x * y = y * x
  OBVIOUS
<1> QED BY <1>1 DEF Times

(* A factor may be reduced first. *)
LEMMA TimesOfMod ==
  ASSUME NEW x \in Int, NEW y \in Int, NEW m \in Nat, m > 0
  PROVE  Times(x % m, y, m) = Times(x, y, m)
<1> DEFINE r == x % m
           q == x \div m
           s == (r * y) % m
           t == (r * y) \div m
           z == x * y
           u == q * y + t
<1>1. r \in Int /\ q \in Int /\ x = m * q + r
  BY ModDef
<1> HIDE DEF r, q
<1>2. r * y \in Int
  BY <1>1
<1>3. s \in 0..(m - 1) /\ t \in Int /\ r * y = m * t + s
  BY <1>2, ModDef
<1> HIDE DEF s, t
<1>4. z = m * (q * y) + r * y /\ q * y \in Int
  BY <1>1
<1>5. z = m * u + s /\ u \in Int /\ z \in Int
  BY <1>3, <1>4, <1>1
<1> HIDE DEF z, u
<1>6. z % m = s
  BY <1>3, <1>5, ModUnique
<1> QED BY <1>6 DEF s, r, z, Times

(* Products associate. *)
LEMMA TimesAssociates ==
  ASSUME NEW x \in Int, NEW y \in Int, NEW z \in Int, NEW m \in Nat, m > 0
  PROVE  Times(Times(x, y, m), z, m) = Times(x, Times(y, z, m), m)
<1> DEFINE xy == x * y
           yz == y * z
<1>1. xy \in Int /\ yz \in Int /\ xy * z = x * yz /\ x * yz = yz * x
  OBVIOUS
<1>2. Times(xy, z, m) = Times(yz, x, m)
  BY <1>1 DEF Times
<1> HIDE DEF xy, yz
<1>3. Times(xy % m, z, m) = Times(yz % m, x, m)
  BY <1>1, <1>2, TimesOfMod
<1>4. yz % m \in Int
  BY <1>1, ModDef
<1>5. Times(yz % m, x, m) = Times(x, yz % m, m)
  BY <1>4, TimesCommutes
<1> QED BY <1>3, <1>5 DEF xy, yz, Times

(* 1 only reduces. *)
LEMMA TimesOne ==
  ASSUME NEW x \in Int, NEW m \in Nat, m > 0
  PROVE  Times(1, x, m) = x % m /\ Times(x, 1, m) = x % m
BY DEF Times

(* A remainder is its own remainder. *)
LEMMA ModSmall ==
  ASSUME NEW m \in Nat, NEW x \in 0..(m - 1)
  PROVE  x % m = x
<1>1. x = m * 0 + x /\ x \in Int /\ m > 0
  OBVIOUS
<1> QED BY <1>1, ModUnique

(* The power with exponent 0. *)
LEMMA PowerZero ==
  ASSUME NEW b \in Nat, NEW m \in Nat, m > 0
  PROVE  Power(b, 0, m) = 1 % m
BY PowerDefined

(* The power with the next exponent. *)
LEMMA PowerNext ==
  ASSUME NEW b \in Nat, NEW e \in Nat, NEW m \in Nat, m > 0
  PROVE  Power(b, e + 1, m) = Times(b, Power(b, e, m), m)
BY PowerDefined DEF Times

(* Powers are remainders. *)
LEMMA PowerType ==
  ASSUME NEW b \in Nat, NEW e \in Nat, NEW m \in Nat, m > 0
  PROVE  Power(b, e, m) \in 0..(m - 1)
<1> DEFINE P == {n \in Nat : Power(b, n, m) \in 0..(m - 1)}
<1>1. 0 \in P
  <2>1. 1 % m \in 0..(m - 1)
    BY ModDef
  <2> QED BY <2>1, PowerZero
<1>2. ASSUME NEW n \in Nat, n \in P
      PROVE  n + 1 \in P
  <2>1. Power(b, n, m) \in Int /\ b \in Int
    BY <1>2
  <2>2. Power(b, n + 1, m) = Times(b, Power(b, n, m), m)
    BY PowerNext
  <2>3. Times(b, Power(b, n, m), m) \in 0..(m - 1)
    BY <2>1, TimesType
  <2> QED BY <2>2, <2>3
<1>3. \A n \in Nat : n \in P
  <2> HIDE DEF P
  <2> QED BY <1>1, <1>2, SetInduction
<1> QED BY <1>3

(* The power with exponent 1. *)
LEMMA PowerOne ==
  ASSUME NEW b \in Nat, NEW m \in Nat, m > 0
  PROVE  Power(b, 1, m) = b % m
<1>1. Power(b, 0 + 1, m) = Times(b, 1 % m, m)
  BY PowerZero, PowerNext
<1>2. 1 % m \in Int
  BY ModDef
<1>3. Times(b, 1 % m, m) = Times(1, b, m)
  BY <1>2, TimesCommutes, TimesOfMod
<1> QED BY <1>1, <1>3, TimesOne

(* The base may be reduced first. *)
LEMMA PowerOfMod ==
  ASSUME NEW b \in Nat, NEW e \in Nat, NEW m \in Nat, m > 0
  PROVE  Power(b % m, e, m) = Power(b, e, m)
<1> DEFINE P == {n \in Nat : Power(b % m, n, m) = Power(b, n, m)}
<1>1. b % m \in Nat
  BY ModDef
<1>2. 0 \in P
  BY <1>1, PowerZero
<1>3. ASSUME NEW n \in Nat, n \in P
      PROVE  n + 1 \in P
  <2>1. Power(b, n, m) \in Int
    BY PowerType
  <2>2. Power(b % m, n + 1, m) = Times(b % m, Power(b, n, m), m)
    BY <1>1, <1>3, PowerNext
  <2> QED BY <2>1, <2>2, TimesOfMod, PowerNext
<1>4. \A n \in Nat : n \in P
  <2> HIDE DEF P
  <2> QED BY <1>2, <1>3, SetInduction
<1> QED BY <1>4

(* Powers multiply when exponents are added. *)
LEMMA PowerOfSum ==
  ASSUME NEW b \in Nat, NEW e \in Nat, NEW f \in Nat, NEW m \in Nat, m > 0
  PROVE  Power(b, e + f, m) = Times(Power(b, e, m), Power(b, f, m), m)
<1> DEFINE F == Power(b, f, m)
           P == {n \in Nat : Power(b, n + f, m) = Times(Power(b, n, m), F, m)}
<1>1. F \in 0..(m - 1) /\ F \in Int
  BY PowerType
<1>2. 0 \in P
  <2>1. Times(1 % m, F, m) = F % m
    BY <1>1, TimesOfMod, TimesOne
  <2> QED BY <2>1, <1>1, ModSmall, PowerZero
<1>3. ASSUME NEW n \in Nat, n \in P
      PROVE  n + 1 \in P
  <2>1. Power(b, n, m) \in Int
    BY PowerType
  <2>2. (n + 1) + f = (n + f) + 1 /\ n + f \in Nat
    OBVIOUS
  <2>3. Power(b, (n + 1) + f, m) = Times(b, Times(Power(b, n, m), F, m), m)
    BY <1>3, <2>2, PowerNext
  <2>4. Power(b, (n + 1) + f, m) = Times(Times(b, Power(b, n, m), m), F, m)
    <3> HIDE DEF F
    <3> QED BY <2>1, <2>3, <1>1, TimesAssociates
  <2> QED BY <2>4, PowerNext
<1>4. \A n \in Nat : n \in P
  <2> HIDE DEF P
  <2> QED BY <1>2, <1>3, SetInduction
<1> QED BY <1>4

(* The exponents of a power of a power multiply. *)
LEMMA PowerOfPower ==
  ASSUME NEW b \in Nat, NEW e \in Nat, NEW f \in Nat, NEW m \in Nat, m > 0
  PROVE  Power(Power(b, f, m), e, m) = Power(b, f * e, m)
<1> DEFINE F == Power(b, f, m)
           P == {n \in Nat : Power(F, n, m) = Power(b, f * n, m)}
<1>1. F \in Nat /\ F \in 0..(m - 1)
  BY PowerType
<1>2. 0 \in P
  <2>1. f * 0 = 0
    OBVIOUS
  <2> HIDE DEF F
  <2> QED BY <1>1, <2>1, PowerZero
<1>3. ASSUME NEW n \in Nat, n \in P
      PROVE  n + 1 \in P
  <2>1. f * (n + 1) = f + f * n /\ f * n \in Nat
    OBVIOUS
  <2>2. Power(b, f + f * n, m) = Times(F, Power(b, f * n, m), m)
    BY <2>1, PowerOfSum
  <2> HIDE DEF F
  <2>3. Power(F, n + 1, m) = Times(F, Power(F, n, m), m)
    BY <1>1, PowerNext
  <2> QED BY <1>3, <2>1, <2>2, <2>3
<1>4. \A n \in Nat : n \in P
  <2> HIDE DEF P
  <2> QED BY <1>2, <1>3, SetInduction
<1> QED BY <1>4

(* Squaring the base doubles the exponent. *)
LEMMA PowerOfSquare ==
  ASSUME NEW b \in Nat, NEW e \in Nat, NEW m \in Nat, m > 0
  PROVE  Power(Times(b, b, m), e, m) = Power(b, 2 * e, m)
<1>1. Power(b, 1, m) = b % m /\ b % m \in Int
  BY PowerOne, ModDef
<1>2. Power(b, 1 + 1, m) = Times(b % m, b % m, m)
  BY <1>1, PowerOfSum
<1>3. Times(b % m, b % m, m) = Times(b, b % m, m)
  BY <1>1, TimesOfMod
<1>4. Times(b, b % m, m) = Times(b, b, m)
  BY <1>1, TimesOfMod, TimesCommutes
<1> QED BY <1>2, <1>3, <1>4, PowerOfPower

(* The loop multiplies what it starts from by the power. *)
LEMMA SquareAndMultiplyIsPower ==
  ASSUME NEW m \in Nat, m > 0, NEW e \in Nat
  PROVE  \A r, b \in Nat :
            SquareAndMultiply(r, b, e, m) = IF e = 0 THEN r ELSE Times(r, Power(b, e, m), m)
<1> DEFINE P == {n \in Nat : \A r, b \in Nat :
                   SquareAndMultiply(r, b, n, m)
                      = IF n = 0 THEN r ELSE Times(r, Power(b, n, m), m)}
<1>1. ASSUME NEW n \in Nat, \A k \in Nat : k < n => k \in P
      PROVE  n \in P
  <2> SUFFICES ASSUME NEW r \in Nat, NEW b \in Nat
               PROVE  SquareAndMultiply(r, b, n, m)
                         = IF n = 0 THEN r ELSE Times(r, Power(b, n, m), m)
    OBVIOUS
  <2>1. CASE n = 0
    BY <2>1, SquareAndMultiplyDefined
  <2>2. CASE n # 0
    <3> DEFINE h == n \div 2
               rr == IF n % 2 = 1 THEN Times(r, b, m) ELSE r
               bb == Times(b, b, m)
               Q == Power(b, 2 * h, m)
    <3>1. h \in Nat /\ 2 * h \in Nat /\ h < n /\ n = 2 * h + (n % 2) /\ n % 2 \in {0, 1}
      BY <2>2
    <3>2. rr \in Nat /\ bb \in Nat
      BY TimesType
    <3>3. SquareAndMultiply(r, b, n, m) = SquareAndMultiply(rr, bb, h, m)
      BY <2>2, SquareAndMultiplyDefined DEF Times
    <3> HIDE DEF h, bb, P
    <3>4. h \in P
      BY <3>1, <1>1
    <3>5. SquareAndMultiply(rr, bb, h, m)
             = IF h = 0 THEN rr ELSE Times(rr, Power(bb, h, m), m)
      <4> HIDE DEF rr
      <4> QED BY <3>2, <3>4 DEF P
    <3>6. Power(bb, h, m) = Q
      BY <3>1, PowerOfSquare DEF bb
    <3>7. Q \in Int
      BY <3>1, PowerType
    <3>8. CASE n % 2 = 1
      <4>1. n = 2 * h + 1 /\ rr = Times(r, b, m)
        BY <3>8, <3>1
      <4>2. Power(b, n, m) = Times(b, Q, m)
        BY <4>1, <3>1, PowerNext
      <4>3. CASE h = 0
        <5>1. n = 1
          BY <4>1, <4>3
        <5>2. Power(b, n, m) = b % m /\ b % m \in Int
          BY <5>1, PowerOne, ModDef
        <5>3. Times(r, b % m, m) = rr
          BY <5>2, <4>1, TimesOfMod, TimesCommutes
        <5> HIDE DEF rr
        <5> QED BY <3>3, <3>5, <4>3, <5>2, <5>3, <2>2
      <4>4. CASE h # 0
        <5>1. Times(Times(r, b, m), Q, m) = Times(r, Times(b, Q, m), m)
          <6> HIDE DEF Q
          <6> QED BY <3>7, TimesAssociates
        <5> HIDE DEF Q, rr
        <5> QED BY <3>3, <3>5, <3>6, <4>1, <4>2, <4>4, <5>1, <2>2
      <4> QED BY <4>3, <4>4
    <3>9. CASE n % 2 # 1
      <4>1. n = 2 * h /\ rr = r /\ h # 0
        BY <3>9, <3>1, <2>2
      <4> HIDE DEF rr
      <4> QED BY <4>1, <3>3, <3>5, <3>6, <2>2
    <3> QED BY <3>8, <3>9
  <2> QED BY <2>1, <2>2
<1>2. \A n \in Nat : n \in P
  <2> HIDE DEF P
  <2> QED BY <1>1, StrongInduction
<1> QED BY <1>2

(* Square-and-multiply computes the built-in pow for every base, exponent  *)
(* and modulus, except that it answers 1 for the exponent 0 also under the *)
(* modulus 1 (power_mod).                                                  *)
THEOREM PowerModIsPower ==
  ASSUME NEW b \in Nat, NEW e \in Nat, NEW m \in Nat, m > 0
  PROVE  PowerMod(b, e, m) = IF e = 0 THEN 1 ELSE Power(b, e, m)
<1>1. b % m \in Nat
  BY ModDef
<1>2. PowerMod(b, e, m) = IF e = 0 THEN 1 ELSE Times(1, Power(b % m, e, m), m)
  BY <1>1, SquareAndMultiplyIsPower DEF PowerMod
<1>3. Power(b % m, e, m) = Power(b, e, m) /\ Power(b, e, m) \in 0..(m - 1)
  BY PowerOfMod, PowerType
<1>4. Times(1, Power(b, e, m), m) = Power(b, e, m) % m
  BY <1>3, TimesOne
<1>5. Power(b, e, m) % m = Power(b, e, m)
  BY <1>3, ModSmall
<1> QED BY <1>2, <1>3, <1>4, <1>5

-----------------------------------------------------------------------------
(* Divisors: Euclid's algorithm, extended, and the inverses it finds       *)
(* (extended_gcd, mod_inverse).                                            *)

(* d divides n when n is a multiple of d. *)
LEMMA DividesMeans ==
  ASSUME NEW d \in Nat, d > 0, NEW n \in Int
  PROVE  Divides(d, n) <=> \E k \in Int : n = d * k
<1>1. ASSUME Divides(d, n)
      PROVE  \E k \in Int : n = d * k
  <2>1. n = d * (n \div d) + (n % d) /\ n \div d \in Int
    BY ModDef
  <2>2. n % d = 0
    BY <1>1 DEF Divides
  <2>3. n = d * (n \div d)
    BY <2>1, <2>2
  <2> QED BY <2>1, <2>3
<1>2. ASSUME NEW k \in Int, n = d * k
      PROVE  Divides(d, n)
  <2>1. n = d * k + 0 /\ 0 \in 0..(d - 1)
    BY <1>2
  <2>2. n % d = 0
    BY <2>1, ModUnique
  <2> QED BY <2>2 DEF Divides
<1> QED BY <1>1, <1>2

(* Everything divides 0. *)
LEMMA DividesZero ==
  ASSUME NEW d \in Nat
  PROVE  Divides(d, 0)
<1>1. d > 0 => 0 = d * 0 + 0 /\ 0 \in 0..(d - 1)
  OBVIOUS
<1>2. d > 0 => 0 % d = 0
  BY <1>1, ModUnique
<1> QED BY <1>2 DEF Divides

(* A number has no greater divisor, if it is not 0. *)
LEMMA DividesSmaller ==
  ASSUME NEW n \in Nat, NEW d \in Nat, d > n, Divides(d, n)
  PROVE  n = 0
<1>1. n \in 0..(d - 1)
  OBVIOUS
<1>2. n % d = n
  BY <1>1, ModSmall
<1> QED BY <1>2 DEF Divides

(* A number divides itself. *)
LEMMA DividesItself ==
  ASSUME NEW d \in Nat
  PROVE  Divides(d, d)
<1>1. CASE d = 0
  BY <1>1 DEF Divides
<1>2. CASE d > 0
  <2>1. d = d * 1
    OBVIOUS
  <2> QED BY <1>2, <2>1, DividesMeans
<1> QED BY <1>1, <1>2

(* y and z are the same up to multiples of x. *)
SameUpTo(x, y, z) == \E k \in Int : z = x * k + y

(* A number is its remainder up to multiples of the modulus. *)
LEMMA SameAsMod ==
  ASSUME NEW a \in Int, NEW b \in Nat, b > 0
  PROVE  SameUpTo(b, a % b, a) /\ a % b \in Nat
<1> DEFINE q == a \div b
<1>1. q \in Int /\ a = b * q + (a % b) /\ a % b \in Nat
  BY ModDef
<1> HIDE DEF q
<1> QED BY <1>1 DEF SameUpTo

(* What divides x divides both or none of two numbers that differ by       *)
(* multiples of x.                                                         *)
LEMMA DividesSum ==
  ASSUME NEW d \in Nat, d > 0, NEW x \in Int, NEW y \in Int, NEW z \in Int,
         SameUpTo(x, y, z), Divides(d, x)
  PROVE  Divides(d, y) <=> Divides(d, z)
<1>1. PICK k \in Int : z = x * k + y
  BY DEF SameUpTo
<1>2. PICK i \in Int : x = d * i
  BY DividesMeans
<1>3. x * k = d * (i * k) /\ i * k \in Int
  BY <1>2
<1>4. ASSUME Divides(d, y)
      PROVE  Divides(d, z)
  <2>1. PICK j \in Int : y = d * j
    BY <1>4, DividesMeans
  <2>2. z = d * (i * k + j) /\ i * k + j \in Int
    BY <1>1, <1>3, <2>1
  <2> QED BY <2>2, DividesMeans
<1>5. ASSUME Divides(d, z)
      PROVE  Divides(d, y)
  <2>1. PICK j \in Int : z = d * j
    BY <1>5, DividesMeans
  <2>2. y = d * (j - i * k) /\ j - i * k \in Int
    BY <1>1, <1>3, <2>1
  <2> QED BY <2>2, DividesMeans
<1> QED BY <1>4, <1>5

(* One step of Euclid's algorithm keeps the common divisors. *)
LEMMA DividesMod ==
  ASSUME NEW d \in Nat, d > 0, NEW a \in Nat, NEW b \in Nat, b > 0, Divides(d, b)
  PROVE  Divides(d, a) <=> Divides(d, a % b)
<1> DEFINE r == a % b
<1>1. SameUpTo(b, r, a) /\ r \in Int
  BY SameAsMod
<1> HIDE DEF r
<1>2. Divides(d, r) <=> Divides(d, a)
  BY <1>1, DividesSum
<1> QED BY <1>2 DEF r

(* Divisors are no greater. *)
LEMMA DividesBounds ==
  ASSUME NEW d \in Nat, d > 0, NEW n \in Nat, n > 0, Divides(d, n)
  PROVE  d <= n
BY DividesSmaller

(* A number is the greatest common divisor when its divisors are those     *)
(* that the two have in common.                                            *)
IsGcd(g, a, b) ==
    /\ g \in Nat
    /\ \A d \in Nat : d > 0 => (Divides(d, g) <=> Divides(d, a) /\ Divides(d, b))

(* There is one greatest common divisor. *)
LEMMA GcdUnique ==
  ASSUME NEW a \in Nat, NEW b \in Nat, NEW g, NEW h, IsGcd(g, a, b), IsGcd(h, a, b)
  PROVE  g = h
<1>1. g \in Nat /\ h \in Nat /\ \A d \in Nat : d > 0 => (Divides(d, g) <=> Divides(d, h))
  BY DEF IsGcd
<1>2. CASE g = 0
  <2>1. Divides(h + 1, h)
    BY <1>1, <1>2, DividesZero
  <2> QED BY <1>1, <1>2, <2>1, DividesSmaller
<1>3. CASE h = 0
  <2>1. Divides(g + 1, g)
    BY <1>1, <1>3, DividesZero
  <2> QED BY <1>1, <1>3, <2>1, DividesSmaller
<1>4. CASE g > 0 /\ h > 0
  <2>1. Divides(g, h) /\ Divides(h, g)
    BY <1>1, <1>4, DividesItself
  <2>2. g <= h /\ h <= g
    BY <1>1, <1>4, <2>1, DividesBounds
  <2> QED BY <1>1, <2>2
<1> QED BY <1>1, <1>2, <1>3, <1>4

(* The two numbers may change places. *)
LEMMA GcdCommutes ==
  ASSUME NEW a, NEW b, NEW g, IsGcd(g, a, b)
  PROVE  IsGcd(g, b, a)
BY DEF IsGcd

(* It is that of the smaller number and the remainder. *)
LEMMA GcdOfMod ==
  ASSUME NEW a \in Nat, NEW b \in Nat, b > 0, NEW g, IsGcd(g, b, a % b)
  PROVE  IsGcd(g, a, b)
BY DividesMod DEF IsGcd

(* Beside 0 it is the number itself. *)
LEMMA GcdWithZero ==
  ASSUME NEW a \in Nat
  PROVE  IsGcd(a, a, 0)
BY DividesZero DEF IsGcd

(* It is a divisor of both numbers. *)
LEMMA GcdPositive ==
  ASSUME NEW a \in Nat, NEW b \in Nat, a + b > 0, NEW g, IsGcd(g, a, b)
  PROVE  g \in 1..(a + b) /\ Divides(g, a) /\ Divides(g, b)
<1>1. g \in Nat
  BY DEF IsGcd
<1>2. g # 0
  <2> SUFFICES ASSUME g = 0 PROVE FALSE
    OBVIOUS
  <2>1. Divides(a + b + 1, a) /\ Divides(a + b + 1, b)
    BY DividesZero DEF IsGcd
  <2> QED BY <2>1, DividesSmaller
<1>3. Divides(g, a) /\ Divides(g, b)
  BY <1>1, <1>2, DividesItself DEF IsGcd
<1>4. g <= a + b
  BY <1>1, <1>2, <1>3, DividesBounds
<1> QED BY <1>1, <1>2, <1>3, <1>4

(* gcd computes it. *)
LEMMA GcdIsGcd ==
  ASSUME NEW b \in Nat
  PROVE  \A a \in Nat : IsGcd(Gcd(a, b), a, b)
<1> DEFINE P == {n \in Nat : \A a \in Nat : IsGcd(Gcd(a, n), a, n)}
<1>1. ASSUME NEW n \in Nat, \A k \in Nat : k < n => k \in P
      PROVE  n \in P
  <2> SUFFICES ASSUME NEW a \in Nat
               PROVE  IsGcd(Gcd(a, n), a, n)
    OBVIOUS
  <2>1. CASE n = 0
    BY <2>1, GcdDefined, GcdWithZero
  <2>2. CASE n # 0
    <3>1. a % n \in Nat /\ a % n < n
      BY <2>2, ModDef
    <3>2. IsGcd(Gcd(n, a % n), n, a % n)
      BY <3>1, <1>1
    <3>3. Gcd(a, n) = Gcd(n, a % n)
      BY <2>2, GcdDefined
    <3> QED BY <2>2, <3>2, <3>3, GcdOfMod
  <2> QED BY <2>1, <2>2
<1>2. \A n \in Nat : n \in P
  <2> HIDE DEF P
  <2> QED BY <1>1, StrongInduction
<1> QED BY <1>2

(* extended_gcd computes it with Bezout's coefficients (extended_gcd). *)
LEMMA ExtendedGcdIsGcd ==
  ASSUME NEW a \in Nat
  PROVE  \A b \in Nat :
            LET e == ExtendedGcd(a, b)
            IN  /\ IsGcd(e.gcd, a, b)
                /\ e.x \in Int /\ e.y \in Int
                /\ e.x * a + e.y * b = e.gcd
<1> DEFINE Holds(n, b) ==
             LET e == ExtendedGcd(n, b)
             IN  /\ IsGcd(e.gcd, n, b)
                 /\ e.x \in Int /\ e.y \in Int
                 /\ e.x * n + e.y * b = e.gcd
           P == {n \in Nat : \A b \in Nat : Holds(n, b)}
<1>1. ASSUME NEW n \in Nat, \A k \in Nat : k < n => k \in P
      PROVE  n \in P
  <2> SUFFICES ASSUME NEW b \in Nat
               PROVE  Holds(n, b)
    OBVIOUS
  <2> DEFINE e == ExtendedGcd(n, b)
  <2>1. CASE n = 0
    <3>1. e = [gcd |-> b, x |-> 0, y |-> 1]
      BY <2>1, ExtendedGcdDefined
    <3>2. IsGcd(b, n, b)
      BY <2>1, GcdWithZero, GcdCommutes
    <3>3. 0 * n + 1 * b = b
      OBVIOUS
    <3> HIDE DEF e
    <3>4. e.gcd = b /\ e.x = 0 /\ e.y = 1
      BY <3>1
    <3> QED BY <3>2, <3>3, <3>4 DEF e
  <2>2. CASE n # 0
    <3> DEFINE rest == ExtendedGcd(b % n, n)
               q == b \div n
               r == b % n
    <3>1. r \in Nat /\ r < n /\ q \in Int /\ b = n * q + r
      BY <2>2, ModDef
    <3>2. Holds(r, n)
      <4> HIDE DEF Holds, r
      <4> QED BY <3>1, <1>1
    <3>3. /\ IsGcd(rest.gcd, r, n) /\ rest.x \in Int /\ rest.y \in Int
          /\ rest.x * r + rest.y * n = rest.gcd
      BY <3>2
    <3>4. e = [gcd |-> rest.gcd, x |-> rest.y - q * rest.x, y |-> rest.x]
      BY <2>2, ExtendedGcdDefined
    <3>5. IsGcd(rest.gcd, n, b)
      BY <2>2, <3>3, GcdCommutes, GcdOfMod
    <3> HIDE DEF e, rest, q, r
    <3> DEFINE u == rest.x
               v == rest.y
    <3>6. u \in Int /\ v \in Int /\ u * r + v * n = rest.gcd
      BY <3>3
    <3>7. e.gcd = rest.gcd /\ e.x = v - q * u /\ e.y = u
      BY <3>4
    <3> HIDE DEF u, v
    <3>8. q * u \in Int /\ (v - q * u) * n + u * (n * q + r) = u * r + v * n
      <4>1. q * u \in Int /\ u * r \in Int /\ v * n \in Int /\ n * q \in Int /\ r \in Int
        BY <3>1, <3>6
      <4>2. (v - q * u) * n = v * n - (q * u) * n
        BY <3>1, <3>6, <4>1
      <4>3. u * (n * q + r) = u * (n * q) + u * r
        BY <3>6, <4>1
      <4>4. u * (n * q) = (q * u) * n /\ (q * u) * n \in Int
        BY <3>1, <3>6
      <4> QED BY <4>1, <4>2, <4>3, <4>4
    <3>9. e.x * n + e.y * b = e.gcd
      BY <3>1, <3>6, <3>7, <3>8
    <3>10. e.x \in Int /\ e.y \in Int
      BY <3>6, <3>7, <3>8
    <3> QED BY <3>5, <3>7, <3>9, <3>10 DEF e
  <2> QED BY <2>1, <2>2
<1>2. \A n \in Nat : n \in P
  <2> HIDE DEF P
  <2> QED BY <1>1, StrongInduction
<1> QED BY <1>2

(* Bezout's coefficient is an inverse, if the greatest common divisor is 1 *)
(* (mod_inverse).                                                          *)
LEMMA InverseFound ==
  ASSUME NEW a \in Nat, NEW b \in Nat, b > 0, IsGcd(1, a, b)
  PROVE  /\ ModInverse(a, b) \in 0..(b - 1)
         /\ Times(a, ModInverse(a, b), b) = 1 % b
<1> DEFINE e == ExtendedGcd(a, b)
           x == e.x
           y == e.y
           i == x % b
<1>1. IsGcd(e.gcd, a, b) /\ x \in Int /\ y \in Int /\ x * a + y * b = e.gcd
  BY ExtendedGcdIsGcd
<1>2. e.gcd = 1
  BY <1>1, GcdUnique
<1>3. i \in 0..(b - 1)
  <2> HIDE DEF x
  <2> QED BY <1>1, ModDef
<1>4. ModInverse(a, b) = (i + b) % b
  BY <1>2, b # 0 DEF ModInverse
<1>5. (i + b) % b = i
  <2> HIDE DEF i
  <2>1. i + b = b * 1 + i /\ i + b \in Int
    BY <1>3
  <2> QED BY <1>3, <2>1, ModUnique
<1>6. Times(a, i, b) = Times(x, a, b)
  <2> HIDE DEF x
  <2>1. i \in Int
    BY <1>3
  <2>2. Times(a, i, b) = Times(i, a, b)
    <3> HIDE DEF i
    <3> QED BY <2>1, TimesCommutes
  <2> QED BY <1>1, <2>2, TimesOfMod
<1>7. Times(x, a, b) = 1 % b
  <2> HIDE DEF x, y, e
  <2> DEFINE z == x * a
  <2>1. z \in Int /\ z = 1 - y * b /\ y * b \in Int
    BY <1>1, <1>2
  <2>2. 1 % b \in 0..(b - 1) /\ 1 \div b \in Int /\ 1 = b * (1 \div b) + (1 % b)
    BY ModDef
  <2> HIDE DEF z
  <2>3. z = b * ((1 \div b) - y) + (1 % b) /\ (1 \div b) - y \in Int
    <3>1. b * ((1 \div b) - y) = b * (1 \div b) - y * b
      BY <1>1, <2>2
    <3> QED BY <1>1, <2>1, <2>2, <3>1
  <2>4. z % b = 1 % b
    <3>1. PICK q \in Int, r \in 0..(b - 1) : z = b * q + r /\ r = 1 % b
      BY <2>2, <2>3
    <3>2. z % b = r
      BY ONLY <2>1, <3>1, b \in Nat, b > 0, ModUnique
    <3> QED BY <3>1, <3>2
  <2> QED BY <2>4 DEF z, Times
<1> QED BY <1>3, <1>4, <1>5, <1>6, <1>7

(* There is only one inverse. *)
LEMMA InverseUnique ==
  ASSUME NEW a \in Nat, NEW b \in Nat, b > 0, NEW i \in 0..(b - 1), NEW j \in 0..(b - 1),
         Times(a, i, b) = 1 % b, Times(a, j, b) = 1 % b
  PROVE  i = j
<1>1. Times(i, Times(a, j, b), b) = i
  <2>1. Times(i, 1 % b, b) = Times(1 % b, i, b) /\ 1 % b \in Int
    BY ModDef, TimesCommutes
  <2>2. Times(1 % b, i, b) = i % b
    BY TimesOfMod, TimesOne
  <2> QED BY <2>1, <2>2, ModSmall
<1>2. Times(Times(i, a, b), j, b) = j
  <2>1. Times(i, a, b) = 1 % b
    BY TimesCommutes
  <2>2. Times(1 % b, j, b) = j % b
    BY TimesOfMod, TimesOne
  <2> QED BY <2>1, <2>2, ModSmall
<1> QED BY <1>1, <1>2, TimesAssociates

(* There is none if the greatest common divisor is not 1. *)
LEMMA NoInverseExists ==
  ASSUME NEW a \in Nat, NEW b \in Nat, b > 0, NEW i \in Int, Times(a, i, b) = 1 % b,
         NEW g, IsGcd(g, a, b)
  PROVE  g = 1
<1>1. g \in Nat /\ g > 0 /\ Divides(g, a) /\ Divides(g, b)
  BY GcdPositive
<1> DEFINE z == a * i
<1>2. z \in Int /\ z % b = 1 % b
  BY DEF Times
<1>3. Divides(g, z)
  <2>1. SameUpTo(a, 0, z)
    BY DEF SameUpTo
  <2> HIDE DEF z
  <2> QED BY <1>1, <1>2, <2>1, DividesSum, DividesZero
<1> HIDE DEF z
<1>4. 1 % b \in Int /\ SameUpTo(b, 1 % b, z)
  BY <1>2, SameAsMod
<1>5. Divides(g, 1 % b)
  BY <1>1, <1>2, <1>3, <1>4, DividesSum
<1>6. SameUpTo(b, 1 % b, 1)
  BY SameAsMod
<1>7. Divides(g, 1)
  BY <1>1, <1>4, <1>5, <1>6, DividesSum
<1> QED BY <1>1, <1>7, DividesBounds

(* mod_inverse finds the inverse when there is one, and raises ValueError  *)
(* exactly when there is none, for every number and modulus (mod_inverse). *)
THEOREM InversesOfModulo ==
  ASSUME NEW a \in Nat, NEW b \in Nat, b > 0
  PROVE  {i \in 0..(b - 1) : (a * i) % b = 1 % b} = {ModInverse(a, b)} \ {NoInverse}
<1> DEFINE e == ExtendedGcd(a, b)
<1>1. IsGcd(e.gcd, a, b)
  BY ExtendedGcdIsGcd
<1>2. CASE e.gcd = 1
  <2>1. /\ ModInverse(a, b) \in 0..(b - 1)
        /\ Times(a, ModInverse(a, b), b) = 1 % b
    BY <1>1, <1>2, InverseFound
  <2>2. \A i \in 0..(b - 1) : Times(a, i, b) = 1 % b => i = ModInverse(a, b)
    BY <2>1, InverseUnique
  <2> QED BY <2>1, <2>2 DEF Times, NoInverse
<1>3. CASE e.gcd # 1
  <2>1. ModInverse(a, b) = NoInverse
    BY <1>3 DEF ModInverse
  <2>2. \A i \in 0..(b - 1) : Times(a, i, b) # 1 % b
    <3> HIDE DEF e
    <3> QED BY <1>1, <1>3, NoInverseExists
  <2> QED BY <2>1, <2>2 DEF Times
<1> QED BY <1>2, <1>3

(* What GcdsAgree says, of any two numbers. *)
LEMMA GcdAnswers ==
  ASSUME NEW a \in Nat, NEW b \in Nat
  PROVE  LET d == Gcd(a, b)  x == ExtendedGcd(a, b)
             Common == {c \in 1..(a + b) : Divides(c, a) /\ Divides(c, b)}
             inverse == ModInverse(a, b)
         IN  /\ \A c \in Common : Divides(c, d)
             /\ a + b > 0 => d \in Common
             /\ x.gcd = d /\ x.x * a + x.y * b = d
             /\ IF b = 0 THEN inverse < 0
                ELSE {i \in 0..(b - 1) : (a * i) % b = 1 % b} = {inverse} \ {NoInverse}
<1> DEFINE d == Gcd(a, b)
           x == ExtendedGcd(a, b)
           Common == {c \in 1..(a + b) : Divides(c, a) /\ Divides(c, b)}
           inverse == ModInverse(a, b)
<1>1. IsGcd(d, a, b)
  BY GcdIsGcd
<1>2. IsGcd(x.gcd, a, b) /\ x.x * a + x.y * b = x.gcd
  BY ExtendedGcdIsGcd
<1> HIDE DEF d, x
<1>3. x.gcd = d
  BY <1>1, <1>2, GcdUnique
<1>4. \A c \in Common : Divides(c, d)
  <2> TAKE c \in Common
  <2>1. c \in Nat /\ c > 0 /\ Divides(c, a) /\ Divides(c, b)
    OBVIOUS
  <2> QED BY <2>1, <1>1 DEF IsGcd
<1>5. a + b > 0 => d \in Common
  BY <1>1, GcdPositive
<1>6. IF b = 0 THEN inverse < 0
      ELSE {i \in 0..(b - 1) : (a * i) % b = 1 % b} = {inverse} \ {NoInverse}
  <2>1. CASE b = 0
    BY <2>1 DEF ModInverse, NoInverse, DividedByZero
  <2>2. CASE b > 0
    BY <2>2, InversesOfModulo
  <2> QED BY <2>1, <2>2
<1> HIDE DEF Common, inverse
<1>7. x.x * a + x.y * b = d
  BY <1>2, <1>3
<1> QED BY <1>3, <1>4, <1>5, <1>6, <1>7 DEF d, x, Common, inverse

(* In every state the answer of extended_gcd is the greatest common        *)
(* divisor with Bezout's identity, and that of mod_inverse is the one      *)
(* inverse, or the error when there is none (extended_gcd, mod_inverse).   *)
THEOREM GcdsAgreeHolds ==
  Spec => []GcdsAgree
<1>1. Init => GcdsAgree
  BY DEF Init, Idle, GcdsAgree
<1>2. ASSUME GcdsAgree, [Next]_call
      PROVE  GcdsAgree'
  <2>1. CASE UNCHANGED call
    BY <1>2, <2>1 DEF GcdsAgree
  <2>2. CASE AskGcd
    <3>1. PICK a \in Numbers, b \in Numbers :
          call' = [op |-> "gcd", a |-> a, b |-> b, gcd |-> Gcd(a, b),
                   extended |-> ExtendedGcd(a, b),
                   inverse |-> ModInverse(a, b)]
      BY <2>2 DEF AskGcd
    <3>2. a \in Nat /\ b \in Nat
      BY NumbersAssumption
    <3>3. /\ call'.a = a /\ call'.b = b /\ call'.gcd = Gcd(a, b)
          /\ call'.extended = ExtendedGcd(a, b)
          /\ call'.inverse = ModInverse(a, b)
      BY <3>1
    <3>4. LET d == Gcd(a, b)  x == ExtendedGcd(a, b)
             Common == {c \in 1..(a + b) : Divides(c, a) /\ Divides(c, b)}
             inverse == ModInverse(a, b)
         IN  /\ \A c \in Common : Divides(c, d)
             /\ a + b > 0 => d \in Common
             /\ x.gcd = d /\ x.x * a + x.y * b = d
             /\ IF b = 0 THEN inverse < 0
                ELSE {i \in 0..(b - 1) : (a * i) % b = 1 % b} = {inverse} \ {NoInverse}
      BY <3>2, GcdAnswers
    <3> QED BY <3>3, <3>4, Zenon DEF GcdsAgree
  <2>3. CASE AskPower \/ AskPrime \/ Exchange \/ MakeKeys \/ Seal \/ Open
    BY <2>3 DEF AskPower, AskPrime, Exchange, MakeKeys, Seal, Open, GcdsAgree
  <2>4. CASE SendMessage \/ SendFails \/ ReadMessage \/ Return
    BY <2>4 DEF SendMessage, Sent, SendFails, ReadMessage, Return, Idle, GcdsAgree
  <2> QED BY <1>2, <2>1, <2>2, <2>3, <2>4 DEF Next
<1> QED BY <1>1, <1>2, PTL DEF Spec

(* In every state the answer of power_mod is that of the built-in pow,     *)
(* except for the exponent 0 (power_mod).                                  *)
THEOREM PowersAgreeHolds ==
  Spec => []PowersAgree
<1>1. Init => PowersAgree
  BY DEF Init, Idle, PowersAgree
<1>2. ASSUME PowersAgree, [Next]_call
      PROVE  PowersAgree'
  <2>1. CASE UNCHANGED call
    BY <1>2, <2>1 DEF PowersAgree
  <2>2. CASE AskPower
    <3>1. PICK b \in Exponents, e \in Exponents, m \in Exponents \ {0} :
          call' = [op |-> "power", base |-> b, exponent |-> e, modulus |-> m,
                   answer |-> PowerMod(b, e, m)]
      BY <2>2 DEF AskPower
    <3>2. b \in Nat /\ e \in Nat /\ m \in Nat /\ m > 0
      BY NumbersAssumption
    <3>3. PowerMod(b, e, m) = IF e = 0 THEN 1 ELSE Power(b, e, m)
      BY <3>2, PowerModIsPower
    <3> QED BY <3>1, <3>3 DEF PowersAgree
  <2>3. CASE AskGcd \/ AskPrime \/ Exchange \/ MakeKeys \/ Seal \/ Open
    BY <2>3 DEF AskGcd, AskPrime, Exchange, MakeKeys, Seal, Open, PowersAgree
  <2>4. CASE SendMessage \/ SendFails \/ ReadMessage \/ Return
    BY <2>4 DEF SendMessage, Sent, SendFails, ReadMessage, Return, Idle, PowersAgree
  <2> QED BY <1>2, <2>1, <2>2, <2>3, <2>4 DEF Next
<1> QED BY <1>1, <1>2, PTL DEF Spec

-----------------------------------------------------------------------------
(* Prime moduli: every number but 0 has an inverse.                        *)

(* A prime modulus, and the numbers that are not 0 under it.               *)
PrimeModulus(p) == p \in Nat /\ Prime(p)
Units(p) == 1..(p - 1)

(* What a prime modulus and its units are. *)
LEMMA PrimeModulusType ==
  ASSUME NEW p, PrimeModulus(p)
  PROVE  /\ p \in Nat /\ p > 1 /\ p > 0
         /\ 1 \in Units(p) /\ 1 % p = 1
         /\ \A a \in Units(p) : a \in Nat /\ a \in Int /\ a > 0 /\ a \in 0..(p - 1)
                                /\ a % p = a /\ a # 0
<1>1. p \in Nat /\ p > 1
  BY DEF PrimeModulus, Prime
<1>2. \A a \in Units(p) : a \in Nat /\ a \in Int /\ a > 0 /\ a \in 0..(p - 1) /\ a # 0
  BY <1>1 DEF Units
<1>3. 1 \in Units(p)
  BY <1>1 DEF Units
<1>4. \A a \in Units(p) : a % p = a
  BY <1>1, <1>2, ModSmall
<1> QED BY <1>1, <1>2, <1>3, <1>4

(* A unit has no divisor in common with the prime. *)
LEMMA UnitsAreCoprime ==
  ASSUME NEW p, PrimeModulus(p), NEW a \in Units(p)
  PROVE  IsGcd(1, a, p)
<1>1. p \in Nat /\ p > 1 /\ a \in Nat /\ a > 0 /\ a < p
  BY PrimeModulusType DEF Units
<1> DEFINE g == Gcd(a, p)
<1>2. IsGcd(g, a, p)
  BY <1>1, GcdIsGcd
<1> HIDE DEF g
<1>3. g \in 1..(a + p) /\ Divides(g, a) /\ Divides(g, p)
  BY <1>1, <1>2, GcdPositive
<1>4. g <= a
  BY <1>1, <1>3, DividesBounds
<1>5. g = 1
  <2>1. g \notin 2..(p - 1)
    BY <1>3 DEF PrimeModulus, Prime
  <2> QED BY <2>1, <1>1, <1>3, <1>4
<1> QED BY <1>2, <1>5

(* Every unit has an inverse. *)
LEMMA UnitInverse ==
  ASSUME NEW p, PrimeModulus(p), NEW a \in Units(p)
  PROVE  /\ ModInverse(a, p) \in 0..(p - 1)
         /\ Times(a, ModInverse(a, p), p) = 1
<1>1. p \in Nat /\ p > 0 /\ a \in Nat /\ 1 % p = 1
  BY PrimeModulusType
<1> QED BY <1>1, UnitsAreCoprime, InverseFound

(* A unit can be cancelled. *)
LEMMA TimesCancels ==
  ASSUME NEW p, PrimeModulus(p), NEW a \in Units(p),
         NEW b \in 0..(p - 1), NEW c \in 0..(p - 1), Times(a, b, p) = Times(a, c, p)
  PROVE  b = c
<1>1. p \in Nat /\ p > 0 /\ a \in Int
  BY PrimeModulusType
<1> DEFINE i == ModInverse(a, p)
<1>2. i \in Int /\ Times(a, i, p) = 1
  BY UnitInverse
<1> HIDE DEF i
<1>3. Times(i, a, p) = 1
  BY <1>1, <1>2, TimesCommutes
<1>4. \A x \in 0..(p - 1) : Times(i, Times(a, x, p), p) = x
  <2> TAKE x \in 0..(p - 1)
  <2>1. x \in Int
    BY <1>1
  <2>2. Times(Times(i, a, p), x, p) = Times(i, Times(a, x, p), p)
    BY <1>1, <1>2, <2>1, TimesAssociates
  <2>3. Times(1, x, p) = x % p /\ x % p = x
    BY <1>1, <2>1, TimesOne, ModSmall
  <2> QED BY <1>3, <2>2, <2>3
<1> QED BY <1>4

(* Products of units are units. *)
LEMMA TimesUnits ==
  ASSUME NEW p, PrimeModulus(p), NEW a \in Units(p), NEW b \in Units(p)
  PROVE  Times(a, b, p) \in Units(p)
<1>1. p \in Nat /\ p > 0 /\ a \in Int /\ b \in Int /\ b \in 0..(p - 1) /\ b # 0
  BY PrimeModulusType
<1>2. Times(a, b, p) \in 0..(p - 1)
  BY <1>1, TimesType
<1>3. Times(a, 0, p) = 0
  <2>1. a * 0 = 0 /\ 0 % p = 0
    BY <1>1
  <2> QED BY <2>1 DEF Times
<1>4. Times(a, b, p) # 0
  <2>1. 0 \in 0..(p - 1)
    BY <1>1
  <2> QED BY <1>1, <1>3, <2>1, TimesCancels
<1> QED BY <1>1, <1>2, <1>4 DEF Units

(* Powers of units are units. *)
LEMMA PowerUnits ==
  ASSUME NEW p, PrimeModulus(p), NEW g \in Units(p), NEW e \in Nat
  PROVE  Power(g, e, p) \in Units(p)
<1>1. p \in Nat /\ p > 0 /\ g \in Nat /\ 1 % p = 1 /\ 1 \in Units(p)
  BY PrimeModulusType
<1> DEFINE P == {n \in Nat : Power(g, n, p) \in Units(p)}
<1>2. 0 \in P
  BY <1>1, PowerZero
<1>3. ASSUME NEW n \in Nat, n \in P
      PROVE  n + 1 \in P
  <2>1. Power(g, n + 1, p) = Times(g, Power(g, n, p), p)
    BY <1>1, PowerNext
  <2>2. Power(g, n, p) \in Units(p)
    BY <1>3
  <2> QED BY <2>1, <2>2, TimesUnits
<1>4. \A n \in Nat : n \in P
  <2> HIDE DEF P
  <2> QED BY <1>2, <1>3, SetInduction
<1> QED BY <1>4

(* A prime that divides a product divides one of its factors.              *)
LEMMA PrimeDivides ==
  ASSUME NEW q, PrimeModulus(q), NEW a \in Nat, NEW b \in Nat, Divides(q, a * b)
  PROVE  Divides(q, a) \/ Divides(q, b)
<1>1. q \in Nat /\ q > 0 /\ q # 0
  BY PrimeModulusType
<1> SUFFICES ASSUME ~Divides(q, a), ~Divides(q, b)
             PROVE  FALSE
  OBVIOUS
<1> DEFINE r == a % q
           s == b % q
<1>2. r \in Units(q) /\ s \in Units(q)
  <2>1. r # 0 /\ s # 0
    BY <1>1 DEF Divides
  <2>2. r \in 0..(q - 1) /\ s \in 0..(q - 1)
    BY <1>1, ModDef
  <2> HIDE DEF r, s
  <2> QED BY <1>1, <2>1, <2>2 DEF Units
<1>3. Times(r, s, q) # 0
  <2> HIDE DEF r, s
  <2>1. Times(r, s, q) \in Units(q)
    BY <1>2, TimesUnits
  <2> QED BY <2>1, PrimeModulusType
<1>4. Times(r, s, q) = Times(a, b, q)
  <2>1. r \in Int /\ s \in Int /\ a \in Int /\ b \in Int
    BY <1>1, ModDef
  <2>2. \A x, y \in Int : Times(x % q, y, q) = Times(x, y, q)
    BY ONLY <1>1, TimesOfMod
  <2>3. Times(r, s, q) = Times(a, s, q)
    <3> HIDE DEF s
    <3> QED BY <2>1, <2>2
  <2>4. Times(a, s, q) = Times(s, a, q)
    <3> HIDE DEF s
    <3> QED BY <2>1, TimesCommutes
  <2>5. Times(s, a, q) = Times(b, a, q)
    BY <2>1, <2>2
  <2>6. Times(b, a, q) = Times(a, b, q)
    BY <2>1, TimesCommutes
  <2> QED BY <2>3, <2>4, <2>5, <2>6
<1>5. Times(a, b, q) = 0
  BY <1>1 DEF Times, Divides
<1> QED BY <1>3, <1>4, <1>5

(* Divisors of divisors are divisors. *)
LEMMA DividesChain ==
  ASSUME NEW d \in Nat, d > 0, NEW e \in Nat, e > 0, NEW n \in Nat,
         Divides(d, e), Divides(e, n)
  PROVE  Divides(d, n)
<1>1. PICK i \in Int : e = d * i
  BY DividesMeans
<1>2. PICK j \in Int : n = e * j
  BY DividesMeans
<1>3. i * j \in Int /\ (d * i) * j = d * (i * j)
  OBVIOUS
<1>4. n = d * (i * j)
  BY <1>1, <1>2, <1>3
<1> DEFINE k == i * j
<1>5. k \in Int /\ n = d * k
  BY <1>3, <1>4
<1> HIDE DEF k
<1> QED BY <1>5, DividesMeans

(* Every number but 1 has a prime divisor. *)
LEMMA PrimeDivisor ==
  ASSUME NEW n \in Nat, n > 1
  PROVE  \E q \in Nat : PrimeModulus(q) /\ Divides(q, n)
<1> DEFINE S == {d \in Nat : d > 1 /\ Divides(d, n)}
<1>1. n \in S
  BY DividesItself
<1>2. PICK q \in Nat : q \in S /\ \A d \in Nat : d \in S => q <= d
  <2> HIDE DEF S
  <2> QED BY <1>1, LeastElement
<1>3. Prime(q)
  <2>1. ASSUME NEW d \in 2..(q - 1), Divides(d, q)
        PROVE  FALSE
    <3>1. d \in Nat /\ d > 1 /\ d > 0 /\ d < q
      BY <1>2
    <3>2. Divides(d, n)
      BY <1>2, <2>1, <3>1, DividesChain
    <3> QED BY <1>2, <3>1, <3>2
  <2> QED BY <1>2, <2>1 DEF Prime
<1> QED BY <1>2, <1>3 DEF PrimeModulus

-----------------------------------------------------------------------------
(* The order of a number under a prime modulus.                            *)

(* The least exponent with which g comes to 1. *)
IsOrder(t, g, p) ==
    /\ t \in 1..(p - 1)
    /\ Power(g, t, p) = 1
    /\ \A s \in 1..(t - 1) : Power(g, s, p) # 1

(* When two powers are the same, the difference of the exponents leads to  *)
(* 1.                                                                      *)
LEMMA EqualPowers ==
  ASSUME NEW p, PrimeModulus(p), NEW g \in Units(p), NEW i \in Nat, NEW d \in Nat,
         Power(g, i + d, p) = Power(g, i, p)
  PROVE  Power(g, d, p) = 1
<1>1. p \in Nat /\ p > 0 /\ g \in Nat
  BY PrimeModulusType
<1> DEFINE a == Power(g, i, p)
           b == Power(g, d, p)
<1>2. a \in Units(p) /\ b \in Units(p)
  BY PowerUnits
<1>3. Power(g, i + d, p) = Times(a, b, p)
  BY <1>1, PowerOfSum
<1> HIDE DEF a, b
<1>4. Times(a, 1, p) = a
  <2>1. a \in Int /\ a % p = a
    BY <1>2, PrimeModulusType
  <2> QED BY <1>1, <2>1, TimesOne
<1>5. Times(a, b, p) = Times(a, 1, p)
  BY <1>3, <1>4 DEF a
<1>6. b \in 0..(p - 1) /\ 1 \in 0..(p - 1)
  BY <1>2, PrimeModulusType
<1>7. b = 1
  BY <1>2, <1>5, <1>6, TimesCancels
<1> QED BY <1>7 DEF b

(* Every unit has an order: of p powers two are the same. *)
LEMMA OrderExists ==
  ASSUME NEW p, PrimeModulus(p), NEW g \in Units(p)
  PROVE  \E t \in 1..(p - 1) : IsOrder(t, g, p)
<1>1. p \in Nat /\ p > 1
  BY PrimeModulusType
<1> DEFINE S == 0..(p - 1)
           f == [i \in S |-> Power(g, i, p)]
<1>2. f \in [S -> Units(p)]
  <2>1. \A i \in S : i \in Nat
    BY <1>1
  <2> HIDE DEF S
  <2> QED BY <2>1, PowerUnits
<1>3. IsFiniteSet(S) /\ Cardinality(S) = p
  <2>1. Cardinality(S) = (p - 1) - 0 + 1 /\ IsFiniteSet(S)
    BY <1>1, FS_Interval
  <2> HIDE DEF S
  <2> QED BY <1>1, <2>1
<1>4. IsFiniteSet(Units(p)) /\ Cardinality(Units(p)) = p - 1
  <2>1. Cardinality(1..(p - 1)) = (p - 1) - 1 + 1 /\ IsFiniteSet(1..(p - 1))
    BY <1>1, FS_Interval
  <2>2. (p - 1) - 1 + 1 = p - 1
    BY <1>1
  <2> QED BY <2>1, <2>2 DEF Units
<1>5. \E i, j \in S : i # j /\ f[i] = f[j]
  <2>1. Cardinality(Units(p)) < Cardinality(S)
    BY <1>1, <1>3, <1>4
  <2> HIDE DEF S, f
  <2> QED BY <1>2, <1>3, <1>4, <2>1, FS_PigeonHole
<1>6. PICK i \in S, j \in S : i < j /\ Power(g, j, p) = Power(g, i, p)
  <2>1. PICK i \in S, j \in S : i # j /\ f[i] = f[j]
    BY <1>5
  <2>2. Power(g, i, p) = Power(g, j, p)
    BY <2>1
  <2>3. i < j \/ j < i
    BY <1>1, <2>1
  <2> QED BY <2>2, <2>3
<1> DEFINE d == j - i
           T == {s \in Nat : s > 0 /\ Power(g, s, p) = 1}
<1>7. d \in Nat /\ i \in Nat /\ i + d = j /\ d \in 1..(p - 1)
  BY <1>1, <1>6
<1>8. d \in T
  <2>1. Power(g, i + d, p) = Power(g, i, p)
    BY <1>6, <1>7
  <2> HIDE DEF d
  <2>2. Power(g, d, p) = 1
    BY <1>7, <2>1, EqualPowers
  <2> QED BY <1>7, <2>2
<1> HIDE DEF d
<1>9. PICK t \in Nat : t \in T /\ \A s \in Nat : s \in T => t <= s
  <2> HIDE DEF T
  <2> QED BY <1>7, <1>8, LeastElement
<1>10. t <= d
  <2> HIDE DEF T
  <2> QED BY <1>7, <1>8, <1>9
<1>11. t \in 1..(p - 1)
  BY <1>1, <1>7, <1>9, <1>10
<1>12. \A s \in 1..(t - 1) : Power(g, s, p) # 1
  BY <1>9
<1> QED BY <1>9, <1>11, <1>12 DEF IsOrder

(* Powers with exponents closer than the order differ. *)
LEMMA PowersDiffer ==
  ASSUME NEW p, PrimeModulus(p), NEW g \in Units(p), NEW t, IsOrder(t, g, p),
         NEW i \in Nat, NEW j \in Nat, i < j, j - i < t
  PROVE  Power(g, i, p) # Power(g, j, p)
<1> DEFINE d == j - i
<1>1. d \in Nat /\ i + d = j /\ d \in 1..(t - 1)
  BY DEF IsOrder
<1>2. Power(g, d, p) # 1
  BY <1>1 DEF IsOrder
<1> HIDE DEF d
<1> QED BY <1>1, <1>2, EqualPowers

(* With its order an exponent can be reduced. *)
LEMMA PowerOfMultiple ==
  ASSUME NEW p, PrimeModulus(p), NEW g \in Units(p), NEW t \in Nat, Power(g, t, p) = 1,
         NEW k \in Nat
  PROVE  Power(g, t * k, p) = 1
<1>1. p \in Nat /\ p > 0 /\ g \in Nat /\ 1 % p = 1
  BY PrimeModulusType
<1>2. Power(Power(g, t, p), k, p) = Power(g, t * k, p)
  BY <1>1, PowerOfPower
<1> DEFINE P == {n \in Nat : Power(1, n, p) = 1}
<1>3. 0 \in P
  BY <1>1, PowerZero
<1>4. ASSUME NEW n \in Nat, n \in P
      PROVE  n + 1 \in P
  <2>1. Power(1, n + 1, p) = Times(1, Power(1, n, p), p)
    BY <1>1, PowerNext
  <2>2. Times(1, 1, p) = 1
    BY <1>1, TimesOne
  <2> QED BY <1>4, <2>1, <2>2
<1>5. \A n \in Nat : n \in P
  <2> HIDE DEF P
  <2> QED BY <1>3, <1>4, SetInduction
<1> QED BY <1>2, <1>5

-----------------------------------------------------------------------------
(* The order divides p - 1: Lagrange's theorem, by orbits.                 *)

(* A set of numbers that multiplying by g does not leave.                  *)
Closed(U, g, p) == U \subseteq Units(p) /\ \A u \in U : Times(u, g, p) \in U

(* Multiplying by the next power is one more multiplication. *)
LEMMA TimesNextPower ==
  ASSUME NEW p, PrimeModulus(p), NEW g \in Units(p), NEW u \in Units(p), NEW i \in Nat
  PROVE  Times(u, Power(g, i + 1, p), p) = Times(Times(u, Power(g, i, p), p), g, p)
<1>1. p \in Nat /\ p > 0 /\ g \in Nat /\ g \in Int /\ u \in Int
  BY PrimeModulusType
<1> DEFINE a == Power(g, i, p)
<1>2. a \in Int
  BY PowerUnits, PrimeModulusType
<1>3. Power(g, i + 1, p) = Times(g, a, p)
  BY <1>1, PowerNext
<1> HIDE DEF a
<1>4. Times(g, a, p) = Times(a, g, p)
  BY <1>1, <1>2, TimesCommutes
<1>5. Times(u, Times(a, g, p), p) = Times(Times(u, a, p), g, p)
  BY <1>1, <1>2, TimesAssociates
<1> QED BY <1>3, <1>4, <1>5 DEF a

(* Multiplying by powers of g does not leave a closed set. *)
LEMMA OrbitInside ==
  ASSUME NEW p, PrimeModulus(p), NEW g \in Units(p), NEW U, Closed(U, g, p), NEW u \in U
  PROVE  \A i \in Nat : Times(u, Power(g, i, p), p) \in U
<1> DEFINE P == {i \in Nat : Times(u, Power(g, i, p), p) \in U}
<1>1. p \in Nat /\ p > 0 /\ g \in Nat /\ u \in Units(p) /\ 1 % p = 1
  BY PrimeModulusType DEF Closed
<1>2. 0 \in P
  <2>1. Power(g, 0, p) = 1
    BY <1>1, PowerZero
  <2>2. u \in Int /\ u % p = u
    BY <1>1, PrimeModulusType
  <2>3. Times(u, 1, p) = u
    BY <1>1, <2>2, TimesOne
  <2> QED BY <2>1, <2>3
<1>3. ASSUME NEW i \in Nat, i \in P
      PROVE  i + 1 \in P
  <2> DEFINE v == Times(u, Power(g, i, p), p)
  <2>1. v \in U
    BY <1>3
  <2>2. Times(u, Power(g, i + 1, p), p) = Times(v, g, p)
    BY <1>1, TimesNextPower
  <2> HIDE DEF v
  <2> QED BY <2>1, <2>2 DEF Closed
<1>4. \A i \in Nat : i \in P
  <2> HIDE DEF P
  <2> QED BY <1>2, <1>3, SetInduction
<1> QED BY <1>4

(* What g generates from u. *)
Orbit(u, g, t, p) == {Times(u, Power(g, i, p), p) : i \in 0..(t - 1)}

(* An orbit has as many members as the order says. *)
LEMMA OrbitSize ==
  ASSUME NEW p, PrimeModulus(p), NEW g \in Units(p), NEW t, IsOrder(t, g, p),
         NEW u \in Units(p)
  PROVE  IsFiniteSet(Orbit(u, g, t, p)) /\ Cardinality(Orbit(u, g, t, p)) = t
<1> DEFINE S == 0..(t - 1)
           O == Orbit(u, g, t, p)
           f == [i \in S |-> Times(u, Power(g, i, p), p)]
<1>1. p \in Nat /\ p > 0 /\ t \in Nat /\ t > 0
  BY PrimeModulusType DEF IsOrder
<1>2. f \in [S -> O]
  BY DEF Orbit
<1>3. \A i, j \in S : i < j => f[i] # f[j]
  <2> TAKE i, j \in S
  <2> HAVE i < j
  <2>1. i \in Nat /\ j \in Nat /\ j - i < t
    BY <1>1
  <2> DEFINE a == Power(g, i, p)
             b == Power(g, j, p)
  <2>2. a # b
    BY <2>1, PowersDiffer
  <2>3. a \in 0..(p - 1) /\ b \in 0..(p - 1)
    BY <2>1, PowerUnits, PrimeModulusType
  <2> HIDE DEF a, b
  <2>4. Times(u, a, p) # Times(u, b, p)
    BY <2>2, <2>3, TimesCancels
  <2> QED BY <2>4 DEF a, b
<1>4. f \in Injection(S, O)
  <2>1. \A i, j \in S : f[i] = f[j] => i = j
    <3> TAKE i, j \in S
    <3>1. i < j \/ j < i \/ i = j
      BY <1>1
    <3> HIDE DEF f, S
    <3> QED BY <3>1, <1>3
  <2> HIDE DEF f, O
  <2>2. DOMAIN f = S
    BY <1>2
  <2> HIDE DEF S
  <2> QED BY <1>2, <2>1, <2>2 DEF Injection, IsInjective
<1>5. f \in Surjection(S, O)
  <2>1. \A o \in O : \E i \in S : f[i] = o
    BY DEF Orbit
  <2> HIDE DEF f, O, S
  <2> QED BY <1>2, <2>1 DEF Surjection
<1>6. ExistsBijection(S, O)
  <2> HIDE DEF f, O, S
  <2> QED BY <1>4, <1>5 DEF ExistsBijection, Bijection
<1>7. IsFiniteSet(S) /\ Cardinality(S) = t
  <2>1. IsFiniteSet(S) /\ Cardinality(S) = (t - 1) - 0 + 1
    BY <1>1, FS_Interval
  <2> HIDE DEF S
  <2> QED BY <1>1, <2>1
<1> HIDE DEF O, S
<1>8. IsFiniteSet(O) /\ Cardinality(O) = t
  BY <1>6, <1>7, FS_Bijection
<1> QED BY <1>8 DEF O

(* What is left without an orbit is closed. *)
LEMMA OutsideOrbitClosed ==
  ASSUME NEW p, PrimeModulus(p), NEW g \in Units(p), NEW t, IsOrder(t, g, p),
         NEW U, Closed(U, g, p), NEW u \in U
  PROVE  Closed(U \ Orbit(u, g, t, p), g, p)
<1> DEFINE O == Orbit(u, g, t, p)
<1>1. /\ p \in Nat /\ p > 0 /\ t \in Nat /\ t > 0 /\ u \in Units(p) /\ g \in Int
      /\ u \in Int /\ u % p = u
  BY PrimeModulusType DEF IsOrder, Closed
<1>2. ASSUME NEW v \in U, Times(v, g, p) \in O
      PROVE  v \in O
  <2>1. v \in Units(p) /\ v \in 0..(p - 1) /\ v \in Int
    BY PrimeModulusType DEF Closed
  <2>2. PICK i \in 0..(t - 1) : Times(v, g, p) = Times(u, Power(g, i, p), p)
    BY <1>2 DEF Orbit
  <2>3. \E j \in 0..(t - 1) : Times(v, g, p) = Times(u, Power(g, j + 1, p), p)
    <3>1. CASE i = 0
      <4>1. t - 1 \in 0..(t - 1) /\ (t - 1) + 1 = t
        BY <1>1
      <4>2. Power(g, 0, p) = 1 /\ Power(g, t, p) = 1
        <5>1. g \in Nat /\ 1 % p = 1
          BY PrimeModulusType
        <5> QED BY <1>1, <5>1, PowerZero DEF IsOrder
      <4> QED BY <2>2, <3>1, <4>1, <4>2
    <3>2. CASE i # 0
      <4>1. i - 1 \in 0..(t - 1) /\ (i - 1) + 1 = i
        BY <1>1, <3>2
      <4> QED BY <2>2, <4>1
    <3> QED BY <3>1, <3>2
  <2>4. PICK j \in 0..(t - 1) : Times(v, g, p) = Times(u, Power(g, j + 1, p), p)
    BY <2>3
  <2> DEFINE w == Times(u, Power(g, j, p), p)
  <2>5. j \in Nat
    BY <1>1
  <2>6. w \in Units(p) /\ w \in 0..(p - 1) /\ w \in Int
    <3>1. Power(g, j, p) \in Units(p)
      BY <2>5, PowerUnits
    <3> QED BY <1>1, <3>1, TimesUnits, PrimeModulusType
  <2>7. Times(u, Power(g, j + 1, p), p) = Times(w, g, p)
    BY <1>1, <2>5, TimesNextPower
  <2>8. w \in O
    BY DEF Orbit
  <2> HIDE DEF w, O
  <2>9. Times(v, g, p) = Times(g, v, p) /\ Times(w, g, p) = Times(g, w, p)
    BY <1>1, <2>1, <2>6, TimesCommutes
  <2>10. v = w
    BY <2>1, <2>4, <2>6, <2>7, <2>9, TimesCancels
  <2> QED BY <2>8, <2>10
<1> HIDE DEF O
<1>3. Closed(U \ O, g, p)
  BY <1>2 DEF Closed
<1> QED BY <1>3 DEF O

(* Lagrange's theorem, for the group that g generates: its order divides   *)
(* the size of every closed set.                                           *)
LEMMA OrderDividesSize ==
  ASSUME NEW p, PrimeModulus(p), NEW g \in Units(p), NEW t, IsOrder(t, g, p)
  PROVE  \A n \in Nat : \A U : Closed(U, g, p) /\ Cardinality(U) = n => Divides(t, n)
<1>1. p \in Nat /\ p > 0 /\ t \in Nat /\ t > 0
  BY PrimeModulusType DEF IsOrder
<1> DEFINE P == {n \in Nat : \A U \in SUBSET Units(p) :
                    Closed(U, g, p) /\ Cardinality(U) = n => Divides(t, n)}
<1>2. ASSUME NEW n \in Nat, \A k \in Nat : k < n => k \in P
      PROVE  n \in P
  <2> SUFFICES ASSUME NEW U \in SUBSET Units(p), Closed(U, g, p), Cardinality(U) = n
               PROVE  Divides(t, n)
    OBVIOUS
  <2>1. IsFiniteSet(U)
    <3>1. IsFiniteSet(Units(p))
      BY <1>1, FS_Interval DEF Units
    <3> QED BY <3>1, FS_Subset
  <2>2. CASE U = {}
    <3>1. n = 0
      BY <2>2, FS_EmptySet
    <3> QED BY <1>1, <3>1, DividesZero
  <2>3. CASE U # {}
    <3>1. PICK u \in U : TRUE
      BY <2>3
    <3> DEFINE O == Orbit(u, g, t, p)
               V == U \ O
    <3>2. u \in Units(p)
      OBVIOUS
    <3>3. IsFiniteSet(O) /\ Cardinality(O) = t
      BY <3>2, OrbitSize
    <3>4. O \subseteq U
      <4>1. \A i \in Nat : Times(u, Power(g, i, p), p) \in U
        BY OrbitInside
      <4>2. \A i \in 0..(t - 1) : i \in Nat
        BY <1>1
      <4> QED BY <4>1, <4>2 DEF Orbit
    <3>5. Closed(V, g, p)
      BY OutsideOrbitClosed
    <3> HIDE DEF O
    <3>6. Cardinality(V) = n - t /\ t <= n
      <4>1. U \cap O = O
        BY <3>4
      <4>2. Cardinality(V) = Cardinality(U) - Cardinality(U \cap O)
        BY <2>1, FS_Difference
      <4>3. Cardinality(O) <= Cardinality(U)
        BY <2>1, <3>4, FS_Subset
      <4> QED BY <3>3, <4>1, <4>2, <4>3
    <3>7. n - t \in Nat /\ n - t < n
      BY <1>1, <3>6
    <3>8. V \in SUBSET Units(p)
      OBVIOUS
    <3> HIDE DEF V
    <3> DEFINE k == n - t
    <3>9. k \in P
      BY <1>2, <3>7
    <3>10. Divides(t, k)
      BY <3>5, <3>6, <3>8, <3>9
    <3>11. SameUpTo(t, k, n)
      <4>1. n = t * 1 + k
        BY <1>1
      <4> QED BY <4>1 DEF SameUpTo
    <3>12. Divides(t, t)
      BY <1>1, DividesItself
    <3> HIDE DEF k, P
    <3>13. k \in Int /\ n \in Int /\ t \in Int
      BY <1>1, <3>7 DEF k
    <3> QED BY <1>1, <3>10, <3>11, <3>12, <3>13, DividesSum
  <2> QED BY <2>2, <2>3
<1>3. \A n \in Nat : n \in P
  <2> HIDE DEF P
  <2> QED BY <1>2, StrongInduction
<1>4. \A U : Closed(U, g, p) => U \in SUBSET Units(p)
  BY DEF Closed
<1> QED BY <1>3, <1>4

(* The order of a unit divides p - 1. *)
LEMMA OrderDividesAll ==
  ASSUME NEW p, PrimeModulus(p), NEW g \in Units(p), NEW t, IsOrder(t, g, p)
  PROVE  Divides(t, p - 1)
<1>1. p \in Nat /\ p > 1 /\ p - 1 \in Nat
  BY PrimeModulusType
<1>2. Closed(Units(p), g, p)
  BY TimesUnits DEF Closed
<1>3. Cardinality(Units(p)) = p - 1
  <2>1. Cardinality(1..(p - 1)) = (p - 1) - 1 + 1
    BY <1>1, FS_Interval
  <2>2. (p - 1) - 1 + 1 = p - 1
    BY <1>1
  <2> QED BY <2>1, <2>2 DEF Units
<1> QED BY <1>1, <1>2, <1>3, OrderDividesSize

(* Fermat's little theorem. *)
LEMMA Fermat ==
  ASSUME NEW p, PrimeModulus(p), NEW g \in Units(p)
  PROVE  Power(g, p - 1, p) = 1
<1>1. p - 1 \in Nat
  BY PrimeModulusType
<1>2. PICK t : IsOrder(t, g, p)
  BY OrderExists
<1>3. t \in Nat /\ t > 0 /\ Power(g, t, p) = 1
  BY <1>2 DEF IsOrder
<1>4. PICK k \in Int : p - 1 = t * k
  <2> DEFINE n == p - 1
  <2>1. Divides(t, n) /\ n \in Int
    BY <1>1, <1>2, OrderDividesAll
  <2> HIDE DEF n
  <2>2. \E k \in Int : n = t * k
    BY <1>3, <2>1, DividesMeans
  <2> QED BY <2>2 DEF n
<1>5. k \in Nat
  <2>1. k < 0 => t * k < 0
    BY <1>3
  <2> QED BY <1>1, <1>4, <2>1
<1> QED BY <1>3, <1>4, <1>5, PowerOfMultiple

-----------------------------------------------------------------------------
(* Trial division (find_primitive_root).                                   *)

(* The numbers that loops divide. *)
Positive == Nat \ {0}

(* The inner loop is defined by its recursion. *)
LEMMA WithoutDefined ==
  ASSUME NEW n \in Positive, NEW i \in Nat, i > 1
  PROVE  Without(n, i) = IF n % i = 0 THEN Without(n \div i, i) ELSE n
<1> DEFINE S == Positive
           Body(f) == [k \in Nat \ {0} |-> IF k % i = 0 THEN f[k \div i] ELSE k]
           without == CHOOSE f : f = Body(f)
           mu == [k \in S |-> k]
           next == [k \in S |-> IF k % i = 0 THEN k \div i ELSE k]
           G == [k \in S |-> [v \in S |-> v]]
           B == {k \in S : k % i # 0}
<1>1. ASSUME NEW k \in S, k % i = 0
      PROVE  k \div i \in S /\ k \div i < k
  <2>1. k \in Nat /\ k > 0
    BY DEF Positive
  <2> DEFINE h == k \div i
  <2>2. h \in Nat /\ k = i * h + (k % i)
    BY <2>1, ModDef
  <2> HIDE DEF h
  <2>3. k = i * h
    BY <1>1, <2>1, <2>2
  <2>4. h # 0
    BY <2>1, <2>3
  <2>5. i * h > h
    BY <2>2, <2>4
  <2> QED BY <2>2, <2>3, <2>4, <2>5 DEF h, Positive
<1>2. Recursion(S, S, B, mu, mu, next, G)
  <2>1. mu \in [S -> Nat] /\ mu \in [S -> S]
    BY DEF Positive
  <2>2. next \in [S -> S]
    <3> HIDE DEF S
    <3> QED BY <1>1
  <2>3. G \in [S -> [S -> S]]
    OBVIOUS
  <2>4. \A k \in S \ B : mu[next[k]] < mu[k]
    <3> TAKE k \in S \ B
    <3>1. k % i = 0 /\ k \in S
      OBVIOUS
    <3>2. next[k] = k \div i /\ k \div i \in S /\ k \div i < k
      BY <3>1, <1>1
    <3> HIDE DEF next, S
    <3>3. mu[next[k]] = k \div i /\ mu[k] = k
      BY <3>1, <3>2
    <3> QED BY <3>2, <3>3
  <2> HIDE DEF S, mu, next, G, B
  <2> QED BY <2>1, <2>2, <2>3, <2>4 DEF Recursion
<1>3. PICK f \in [S -> S] :
         \A k \in S : f[k] = IF k \in B THEN mu[k] ELSE G[k][f[next[k]]]
  <2> HIDE DEF S, mu, next, G, B
  <2> QED BY <1>2, RecursionDefined
<1>4. \A k \in S : f[k] = IF k % i = 0 THEN f[k \div i] ELSE k
  <2> TAKE k \in S
  <2>1. CASE k % i # 0
    <3>1. k \in B /\ mu[k] = k
      BY <2>1
    <3> HIDE DEF B, mu, G, next, S
    <3> QED BY <1>3, <2>1, <3>1
  <2>2. CASE k % i = 0
    <3>1. next[k] = k \div i /\ k \div i \in S /\ k \notin B
      BY <2>2, <1>1
    <3> HIDE DEF S
    <3>2. G[k][f[k \div i]] = f[k \div i]
      BY <3>1, <1>3
    <3> HIDE DEF B, mu, G, next
    <3>3. f[k] = G[k][f[next[k]]]
      BY <1>3, <3>1
    <3> QED BY <2>2, <3>1, <3>2, <3>3
  <2> QED BY <2>1, <2>2
<1>5. f = Body(f)
  <2>1. f = [k \in S |-> f[k]]
    BY <1>3
  <2> QED BY <1>4, <2>1 DEF Positive
<1>6. without = Body(without)
  <2> HIDE DEF Body
  <2> QED BY <1>5
<1>7. \A k \in S : without[k] = IF k % i = 0 THEN without[k \div i] ELSE k
  <2> HIDE DEF without
  <2> QED BY <1>6 DEF Positive
<1>8. \A k \in S : Without(k, i) = without[k]
  BY DEF Without
<1> HIDE DEF without
<1>9. n \in S
  OBVIOUS
<1> HIDE DEF S
<1> QED BY <1>1, <1>7, <1>8, <1>9

(* The inner loop takes out every factor i, and no prime but those that    *)
(* divide i.                                                               *)
LEMMA WithoutProperties ==
  ASSUME NEW i \in Nat, i > 1
  PROVE  \A n \in Positive :
            /\ Without(n, i) \in Positive
            /\ Divides(Without(n, i), n)
            /\ ~Divides(i, Without(n, i))
            /\ \A q \in Nat : PrimeModulus(q) /\ Divides(q, n)
                                 => Divides(q, i) \/ Divides(q, Without(n, i))
<1> DEFINE Good(n) ==
              /\ Without(n, i) \in Positive
              /\ Divides(Without(n, i), n)
              /\ ~Divides(i, Without(n, i))
              /\ \A q \in Nat : PrimeModulus(q) /\ Divides(q, n)
                                 => Divides(q, i) \/ Divides(q, Without(n, i))
           P == {n \in Nat : n > 0 => Good(n)}
<1>1. ASSUME NEW n \in Nat, \A k \in Nat : k < n => k \in P
      PROVE  n \in P
  <2> SUFFICES ASSUME n > 0 PROVE Good(n)
    OBVIOUS
  <2>1. n \in Positive
    BY DEF Positive
  <2>2. CASE n % i # 0
    <3>1. Without(n, i) = n
      BY <2>1, <2>2, WithoutDefined
    <3>2. Divides(n, n)
      BY DividesItself
    <3>3. ~Divides(i, n)
      BY <2>2 DEF Divides
    <3> QED BY <2>1, <3>1, <3>2, <3>3
  <2>3. CASE n % i = 0
    <3> DEFINE h == n \div i
    <3>1. h \in Nat /\ n = i * h
      BY <2>3, ModDef
    <3>2. Without(n, i) = Without(h, i)
      BY <2>1, <2>3, WithoutDefined
    <3> HIDE DEF h
    <3>3. h # 0
      BY <3>1
    <3>4. i * h > h
      BY <3>1, <3>3
    <3>5. h < n /\ h > 0
      BY <3>1, <3>3, <3>4
    <3>6. Good(h)
      <4>1. h \in P
        BY <1>1, <3>1, <3>5
      <4> HIDE DEF Good
      <4> QED BY <3>5, <4>1
    <3> DEFINE w == Without(h, i)
    <3>7. /\ w \in Positive /\ Divides(w, h) /\ ~Divides(i, w)
          /\ \A q \in Nat : PrimeModulus(q) /\ Divides(q, h)
                                => Divides(q, i) \/ Divides(q, w)
      BY <3>6
    <3> HIDE DEF w
    <3>8. Divides(h, n)
      <4>1. n = h * i /\ i \in Int
        BY <3>1
      <4> QED BY <3>1, <3>5, <4>1, DividesMeans
    <3>9. Divides(w, n)
      <4>1. w \in Nat /\ w > 0
        BY <3>7 DEF Positive
      <4> QED BY <3>1, <3>5, <3>7, <3>8, <4>1, DividesChain
    <3>10. \A q \in Nat : PrimeModulus(q) /\ Divides(q, n) => Divides(q, i) \/ Divides(q, w)
      <4> TAKE q \in Nat
      <4> HAVE PrimeModulus(q) /\ Divides(q, n)
      <4>1. Divides(q, i * h)
        BY <3>1
      <4>2. Divides(q, i) \/ Divides(q, h)
        BY <3>1, <4>1, PrimeDivides
      <4> QED BY <3>7, <4>2
    <3>11. Without(n, i) = w
      BY <3>2 DEF w
    <3> QED BY <3>7, <3>9, <3>10, <3>11
  <2> QED BY <2>2, <2>3
<1>2. \A n \in Nat : n \in P
  <2> HIDE DEF P
  <2> QED BY <1>1, StrongInduction
<1>3. \A n \in Positive : n \in Nat /\ n > 0
  BY DEF Positive
<1>4. \A n \in Positive : Good(n)
  <2> HIDE DEF Good
  <2> QED BY <1>2, <1>3
<1> QED BY <1>4

(* The loop's bound is the integer part of the square root. *)
LEMMA RootDefined ==
  ASSUME NEW n \in Positive
  PROVE  Root(n) \in Positive /\ (Root(n) + 1) * (Root(n) + 1) > n
<1>1. n \in Nat /\ n > 0
  BY DEF Positive
<1> DEFINE S == {r \in Nat : (r + 1) * (r + 1) > n}
<1>2. n \in S
  <2>1. (n + 1) * (n + 1) = n * n + n + n + 1 /\ n * n >= 0
    BY <1>1
  <2>2. (n + 1) * (n + 1) > n
    BY <1>1, <2>1
  <2> QED BY <1>1, <2>2
<1>3. PICK r \in Nat : r \in S /\ \A k \in Nat : k \in S => r <= k
  <2> HIDE DEF S
  <2> QED BY <1>1, <1>2, LeastElement
<1>4. r <= n
  <2> HIDE DEF S
  <2> QED BY <1>1, <1>2, <1>3
<1>5. r * r <= n
  <2>1. CASE r = 0
    BY <1>1, <2>1
  <2>2. CASE r # 0
    <3>1. r - 1 \in Nat /\ (r - 1) + 1 = r /\ r - 1 < r
      BY <2>2
    <3>2. r - 1 \notin S
      <4> HIDE DEF S
      <4> QED BY <1>3, <3>1
    <3>3. ~(((r - 1) + 1) * ((r - 1) + 1) > n)
      BY <3>1, <3>2
    <3>4. ~(r * r > n)
      BY <3>1, <3>3
    <3>5. r * r \in Nat
      OBVIOUS
    <3> QED BY <1>1, <3>4, <3>5
  <2> QED BY <2>1, <2>2
<1>6. \E x \in 0..n : x * x <= n /\ (x + 1) * (x + 1) > n
  <2>1. r \in 0..n /\ (r + 1) * (r + 1) > n
    BY <1>1, <1>3, <1>4
  <2> QED BY <1>5, <2>1
<1>7. Root(n) \in 0..n /\ (Root(n) + 1) * (Root(n) + 1) > n
  BY <1>6 DEF Root
<1>8. Root(n) # 0
  <2>1. (0 + 1) * (0 + 1) = 1
    OBVIOUS
  <2> QED BY <1>1, <1>7, <2>1
<1> QED BY <1>1, <1>7, <1>8 DEF Positive

(* What is left of a number, and the factors found so far; and the outer   *)
(* loop's round for i.                                                     *)
Left == [n : Positive, factors : SUBSET Nat]
DividedBy(left, i) ==
    IF left.n % i # 0 THEN left
    ELSE [n |-> Without(left.n, i), factors |-> left.factors \cup {i}]

(* A round keeps the types. *)
LEMMA DividedByType ==
  ASSUME NEW left \in Left, NEW i \in Nat, i > 1
  PROVE  DividedBy(left, i) \in Left
<1>1. CASE left.n % i # 0
  BY <1>1 DEF DividedBy
<1>2. CASE left.n % i = 0
  <2>1. Without(left.n, i) \in Positive
    <3>1. left.n \in Positive
      BY DEF Left
    <3> QED BY <3>1, WithoutProperties
  <2>2. left.factors \cup {i} \in SUBSET Nat
    BY DEF Left
  <2> QED BY <1>2, <2>1, <2>2 DEF DividedBy, Left
<1> QED BY <1>1, <1>2

(* The outer loop is defined by its recursion. *)
LEMMA TrialDivisionDefined ==
  ASSUME NEW n \in Positive
  PROVE  \E f \in [Positive -> Left] :
            /\ TrialDivision(n) = f[Root(n)]
            /\ f[1] = [n |-> n, factors |-> {}]
            /\ \A i \in Nat : i > 1 => f[i] = DividedBy(f[i - 1], i)
<1> DEFINE S == Positive
           start == [n |-> n, factors |-> {}]
           Body(f) == [i \in Nat \ {0} |->
                          IF i = 1 THEN start ELSE DividedBy(f[i - 1], i)]
           divided == CHOOSE f : f = Body(f)
           mu == [i \in S |-> i]
           c == [i \in S |-> start]
           next == [i \in S |-> IF i = 1 THEN 1 ELSE i - 1]
           G == [i \in S |-> [v \in Left |-> IF i = 1 THEN v ELSE DividedBy(v, i)]]
           B == {1}
<1>1. start \in Left
  BY DEF Left
<1>2. 1 \in S /\ \A i \in S : i # 1 => i - 1 \in S /\ i \in Nat /\ i > 1
  BY DEF Positive
<1> HIDE DEF start
<1>3. Recursion(S, Left, B, mu, c, next, G)
  <2>1. mu \in [S -> Nat]
    BY DEF Positive
  <2>2. c \in [S -> Left]
    <3> HIDE DEF S
    <3> QED BY <1>1
  <2>3. next \in [S -> S]
    <3> HIDE DEF S
    <3> QED BY <1>2
  <2>4. G \in [S -> [Left -> Left]]
    <3>1. ASSUME NEW i \in S, NEW v \in Left
          PROVE  (IF i = 1 THEN v ELSE DividedBy(v, i)) \in Left
      <4> HIDE DEF S
      <4> QED BY <1>2, DividedByType
    <3> HIDE DEF S
    <3> QED BY <3>1
  <2>5. \A i \in S \ B : mu[next[i]] < mu[i]
    <3> TAKE i \in S \ B
    <3>1. i \in S /\ i # 1
      OBVIOUS
    <3>2. next[i] = i - 1 /\ i - 1 \in S /\ i \in Nat
      <4>1. i - 1 \in S /\ i \in Nat
        <5> HIDE DEF S
        <5> QED BY <3>1, <1>2
      <4> QED BY <3>1, <4>1
    <3> HIDE DEF S, next
    <3>3. mu[next[i]] = i - 1 /\ mu[i] = i
      BY <3>1, <3>2
    <3> HIDE DEF mu
    <3> QED BY <3>2, <3>3
  <2> HIDE DEF S, mu, c, next, G, B
  <2> QED BY <2>1, <2>2, <2>3, <2>4, <2>5 DEF Recursion
<1>4. PICK f \in [S -> Left] :
         \A i \in S : f[i] = IF i \in B THEN c[i] ELSE G[i][f[next[i]]]
  <2> HIDE DEF S, mu, c, next, G, B
  <2> QED BY <1>3, RecursionDefined
<1>5. \A i \in S : f[i] = IF i = 1 THEN start ELSE DividedBy(f[i - 1], i)
  <2> TAKE i \in S
  <2>1. CASE i = 1
    BY <1>4, <2>1
  <2>2. CASE i # 1
    <3>1. next[i] = i - 1 /\ i - 1 \in S /\ i \notin B
      <4>1. i - 1 \in S
        <5> HIDE DEF S
        <5> QED BY <2>2, <1>2
      <4> QED BY <2>2, <4>1
    <3>2. f[i - 1] \in Left
      <4> HIDE DEF S
      <4> QED BY <3>1, <1>4
    <3>3. G[i][f[i - 1]] = DividedBy(f[i - 1], i)
      <4> HIDE DEF S
      <4> QED BY <2>2, <3>2
    <3> HIDE DEF S, B, c, G, next
    <3>4. f[i] = G[i][f[next[i]]]
      BY <1>4, <3>1
    <3> QED BY <2>2, <3>1, <3>3, <3>4
  <2> QED BY <2>1, <2>2
<1>6. f = Body(f)
  <2>1. f = [i \in S |-> f[i]]
    BY <1>4
  <2> QED BY <1>5, <2>1 DEF Positive
<1>7. divided = Body(divided)
  <2> HIDE DEF Body
  <2> QED BY <1>6
<1>8. /\ divided = [i \in S |-> divided[i]]
      /\ \A i \in S : divided[i] = IF i = 1 THEN start ELSE DividedBy(divided[i - 1], i)
  <2> HIDE DEF divided
  <2> QED BY <1>7 DEF Positive
<1>9. TrialDivision(n) = divided[Root(n)]
  BY DEF TrialDivision, DividedBy, start
<1> HIDE DEF divided
<1>10. \A i \in Nat : i + 1 \in S /\ ((i + 1) - 1) = i
  BY DEF Positive
<1>11. \A i \in Nat : divided[i + 1] \in Left
  <2> DEFINE P == {i \in Nat : divided[i + 1] \in Left}
  <2>1. 0 \in P
    <3>1. divided[1] = start
      <4> HIDE DEF S
      <4> QED BY <1>2, <1>8
    <3> QED BY <1>1, <3>1
  <2>2. ASSUME NEW i \in Nat, i \in P
        PROVE  i + 1 \in P
    <3>1. (i + 1) + 1 \in S /\ ((i + 1) + 1) - 1 = i + 1 /\ (i + 1) + 1 > 1
          /\ (i + 1) + 1 # 1 /\ (i + 1) + 1 \in Nat
      BY DEF Positive
    <3>2. divided[i + 1] \in Left
      BY <2>2
    <3> DEFINE j == (i + 1) + 1
    <3>3. j \in S /\ j - 1 = i + 1 /\ j > 1 /\ j # 1 /\ j \in Nat
      BY <3>1
    <3> HIDE DEF j, S
    <3>4. divided[j] = DividedBy(divided[j - 1], j)
      BY <3>3, <1>8
    <3>5. divided[j] \in Left
      BY <3>2, <3>3, <3>4, DividedByType
    <3> QED BY <3>5 DEF j
  <2>3. \A i \in Nat : i \in P
    <3> HIDE DEF P
    <3> QED BY <2>1, <2>2, SetInduction
  <2> QED BY <2>3
<1>12. \A i \in S : divided[i] \in Left
  <2> TAKE i \in S
  <2>1. i - 1 \in Nat /\ (i - 1) + 1 = i
    BY DEF Positive
  <2> HIDE DEF S
  <2> QED BY <2>1, <1>11
<1>13. divided \in [S -> Left]
  <2> HIDE DEF S
  <2> QED BY <1>8, <1>12
<1>14. divided[1] = start
  <2> HIDE DEF S
  <2> QED BY <1>2, <1>8
<1>15. \A i \in Nat : i > 1 => divided[i] = DividedBy(divided[i - 1], i)
  <2> TAKE i \in Nat
  <2> HAVE i > 1
  <2>1. i \in S /\ i # 1
    BY DEF Positive
  <2> HIDE DEF S
  <2> QED BY <2>1, <1>8
<1> QED BY <1>9, <1>13, <1>14, <1>15 DEF start

(* Whenever the loop comes to i, no divisor up to i is left, and every     *)
(* prime divisor is among the factors or left.                             *)
Sieved(left, n, i) ==
    /\ left \in Left
    /\ left.n <= n
    /\ \A d \in Nat : d > 1 /\ Divides(d, left.n) => d > i
    /\ \A q \in Nat : PrimeModulus(q) /\ Divides(q, n)
                         => q \in left.factors \/ Divides(q, left.n)

(* A round keeps it. *)
LEMMA SievedNext ==
  ASSUME NEW n \in Positive, NEW i \in Nat, i > 1, NEW left, Sieved(left, n, i - 1)
  PROVE  Sieved(DividedBy(left, i), n, i)
<1> DEFINE m == left.n
           next == DividedBy(left, i)
<1>1. n \in Nat /\ n > 0 /\ i \in Nat /\ i - 1 \in Nat
  BY DEF Positive
<1>2. /\ left \in Left /\ m \in Positive /\ m \in Nat /\ m > 0 /\ m <= n
      /\ \A d \in Nat : d > 1 /\ Divides(d, m) => d > i - 1
      /\ \A q \in Nat : PrimeModulus(q) /\ Divides(q, n)
                         => q \in left.factors \/ Divides(q, m)
  BY DEF Sieved, Left, Positive
<1> HIDE DEF m
<1>3. next \in Left
  BY <1>2, DividedByType
<1>4. CASE m % i # 0
  <2>1. next = left
    BY <1>4 DEF DividedBy, m
  <2>2. ~Divides(i, m)
    BY <1>4 DEF Divides
  <2>3. \A d \in Nat : d > 1 /\ Divides(d, m) => d > i
    <3> TAKE d \in Nat
    <3> HAVE d > 1 /\ Divides(d, m)
    <3>1. d > i - 1 /\ d # i
      BY <1>2, <2>2
    <3> QED BY <3>1, <1>1
  <2> HIDE DEF next
  <2>4. Sieved(next, n, i)
    BY <1>2, <1>3, <2>1, <2>3 DEF Sieved, m
  <2> QED BY <2>4 DEF next
<1>5. CASE m % i = 0
  <2> DEFINE w == Without(m, i)
  <2>1. /\ w \in Positive /\ Divides(w, m) /\ ~Divides(i, w)
        /\ \A q \in Nat : PrimeModulus(q) /\ Divides(q, m)
                             => Divides(q, i) \/ Divides(q, w)
    BY <1>2, WithoutProperties
  <2>2. next.n = w /\ next.factors = left.factors \cup {i}
    BY <1>5 DEF DividedBy, m
  <2> HIDE DEF w, next
  <2>3. w \in Nat /\ w > 0
    BY <2>1 DEF Positive
  <2>4. w <= m
    BY <1>2, <2>1, <2>3, DividesBounds
  <2>5. \A d \in Nat : d > 1 /\ Divides(d, w) => d > i
    <3> TAKE d \in Nat
    <3> HAVE d > 1 /\ Divides(d, w)
    <3>1. Divides(d, m)
      BY <1>2, <2>1, <2>3, DividesChain
    <3>2. d > i - 1 /\ d # i
      BY <1>2, <2>1, <3>1
    <3> QED BY <3>2, <1>1
  <2>6. Divides(i, m)
    BY <1>5 DEF Divides
  <2>7. \A q \in Nat : PrimeModulus(q) /\ Divides(q, n)
                         => q \in left.factors \cup {i} \/ Divides(q, w)
    <3> TAKE q \in Nat
    <3> HAVE PrimeModulus(q) /\ Divides(q, n)
    <3>1. q > 1 /\ q > 0
      BY PrimeModulusType
    <3>2. CASE q \in left.factors
      BY <3>2
    <3>3. CASE Divides(q, m)
      <4>1. CASE Divides(q, w)
        BY <4>1
      <4>2. CASE Divides(q, i)
        <5>1. q <= i
          BY <1>1, <3>1, <4>2, DividesBounds
        <5>2. q > i - 1
          BY <1>2, <3>1, <3>3
        <5>3. q = i
          BY <1>1, <5>1, <5>2
        <5> QED BY <5>3
      <4> QED BY <2>1, <3>3, <4>1, <4>2
    <3> QED BY <1>2, <3>2, <3>3
  <2>8. w <= n
    BY <1>1, <1>2, <2>3, <2>4
  <2>9. Sieved(next, n, i)
    BY <1>3, <2>2, <2>5, <2>7, <2>8 DEF Sieved
  <2> QED BY <2>9 DEF next
<1> QED BY <1>4, <1>5

(* It holds when the loop ends. *)
LEMMA TrialDivisionSieves ==
  ASSUME NEW n \in Positive
  PROVE  Sieved(TrialDivision(n), n, Root(n))
<1>1. PICK f \in [Positive -> Left] :
            /\ TrialDivision(n) = f[Root(n)]
            /\ f[1] = [n |-> n, factors |-> {}]
            /\ \A i \in Nat : i > 1 => f[i] = DividedBy(f[i - 1], i)
  BY TrialDivisionDefined
<1> DEFINE P == {i \in Nat : Sieved(f[i + 1], n, i + 1)}
<1>2. 0 \in P
  <2>1. f[1] \in Left
    <3>1. 1 \in Positive
      BY DEF Positive
    <3> QED BY <1>1, <3>1
  <2>2. f[1].n = n /\ n \in Nat
    BY <1>1 DEF Positive
  <2>3. Sieved(f[1], n, 1)
    BY <2>1, <2>2 DEF Sieved
  <2> QED BY <2>3
<1>3. ASSUME NEW i \in Nat, i \in P
      PROVE  i + 1 \in P
  <2> DEFINE j == (i + 1) + 1
  <2>1. j \in Nat /\ j > 1 /\ j - 1 = i + 1
    OBVIOUS
  <2>2. Sieved(f[j - 1], n, j - 1)
    BY <1>3, <2>1
  <2>3. f[j] = DividedBy(f[j - 1], j)
    <3> HIDE DEF j
    <3> QED BY <1>1, <2>1
  <2> HIDE DEF j
  <2>4. Sieved(f[j], n, j)
    BY <2>1, <2>2, <2>3, SievedNext
  <2> QED BY <2>4 DEF j
<1>4. \A i \in Nat : i \in P
  <2> HIDE DEF P
  <2> QED BY <1>2, <1>3, SetInduction
<1> DEFINE r == Root(n)
<1>5. r - 1 \in Nat /\ (r - 1) + 1 = r
  <2>1. r \in Positive
    BY RootDefined
  <2> HIDE DEF r
  <2> QED BY <2>1 DEF Positive
<1>6. Sieved(f[r], n, r)
  <2> HIDE DEF r
  <2> QED BY <1>4, <1>5
<1> QED BY <1>1, <1>6

(* find_primitive_root's trial division misses no prime factor.            *)
THEOREM PrimeFactorsComplete ==
  ASSUME NEW n \in Positive, NEW q \in Nat, PrimeModulus(q), Divides(q, n)
  PROVE  q \in PrimeFactors(n)
<1> DEFINE left == TrialDivision(n)
           m == left.n
           r == Root(n)
<1>1. n \in Nat /\ n > 0 /\ q > 1 /\ q > 0
  BY PrimeModulusType DEF Positive
<1>2. Sieved(left, n, r)
  BY TrialDivisionSieves
<1>3. r \in Nat /\ (r + 1) * (r + 1) > n
  BY RootDefined DEF Positive
<1>4. PrimeFactors(n) = left.factors \cup (IF m > 1 THEN {m} ELSE {})
  BY DEF PrimeFactors
<1> HIDE DEF left, r
<1>5. CASE q \in left.factors
  BY <1>4, <1>5
<1>6. CASE q \notin left.factors
  <2>1. Divides(q, m) /\ m \in Nat /\ m > 0 /\ m <= n
    BY <1>2, <1>6 DEF Sieved, Left, Positive
  <2>2. q > r
    BY <1>1, <1>2, <2>1 DEF Sieved
  <2>3. PICK c \in Int : m = q * c
    <3> HIDE DEF m
    <3> QED BY <1>1, <2>1, DividesMeans
  <2>4. c > 0
    <3>1. c <= 0 => q * c <= 0
      BY <1>1
    <3> QED BY <2>1, <2>3, <3>1
  <2>5. CASE c > 1
    <3>1. Divides(c, m)
      <4>1. m = c * q /\ c \in Nat
        BY <2>3, <2>4
      <4> QED BY <2>1, <2>4, <4>1, DividesMeans
    <3>2. c > r
      BY <2>4, <2>5, <3>1, <1>2 DEF Sieved
    <3>3. q * c >= (r + 1) * (r + 1)
      <4>1. PICK u \in Nat, v \in Nat : q = (r + 1) + u /\ c = (r + 1) + v
        <5>1. q - (r + 1) \in Nat /\ c - (r + 1) \in Nat
          BY <1>3, <2>2, <3>2
        <5>2. q = (r + 1) + (q - (r + 1)) /\ c = (r + 1) + (c - (r + 1))
          BY <1>3
        <5> QED BY <5>1, <5>2
      <4>2. q * c = (r + 1) * (r + 1) + (r + 1) * v + u * (r + 1) + u * v
        BY <1>3, <4>1
      <4>3. (r + 1) * v >= 0 /\ u * (r + 1) >= 0 /\ u * v >= 0
            /\ (r + 1) * v \in Int /\ u * (r + 1) \in Int /\ u * v \in Int
            /\ (r + 1) * (r + 1) \in Int
        BY <1>3
      <4> DEFINE x == (r + 1) * v
                 y == u * (r + 1)
                 z == u * v
                 s == (r + 1) * (r + 1)
                 t == q * c
      <4>4. t = s + x + y + z /\ x >= 0 /\ y >= 0 /\ z >= 0
            /\ x \in Int /\ y \in Int /\ z \in Int /\ s \in Int
        BY <4>2, <4>3
      <4> HIDE DEF x, y, z, s, t
      <4>5. t >= s
        BY <4>4
      <4> QED BY <4>5 DEF t, s
    <3>4. (r + 1) * (r + 1) \in Int /\ q * c \in Int
      BY <1>3
    <3> QED BY <1>1, <1>3, <2>1, <2>3, <3>3, <3>4
  <2>6. CASE c = 1
    BY <1>1, <1>4, <2>3, <2>6
  <2> QED BY <2>4, <2>5, <2>6
<1> QED BY <1>5, <1>6

-----------------------------------------------------------------------------
(* Generators, ElGamal and the key exchange.                               *)

(* What find_primitive_root answers is a unit. *)
LEMMA PrimitiveRootType ==
  ASSUME NEW p \in Nat, NEW g \in FindPrimitiveRoot(p)
  PROVE  p > 1 /\ g \in Nat /\ g \in Units(p)
<1>1. CASE p = 2
  BY <1>1 DEF FindPrimitiveRoot, Units
<1>2. CASE p # 2
  <2>1. g \in 2..(p - 1)
    BY <1>2 DEF FindPrimitiveRoot
  <2> QED BY <2>1 DEF Units
<1> QED BY <1>1, <1>2

(* The order of the generator of a prime modulus is the greatest possible. *)
LEMMA GeneratorOrder ==
  ASSUME NEW p, PrimeModulus(p), NEW g \in FindPrimitiveRoot(p), NEW t, IsOrder(t, g, p)
  PROVE  t = p - 1
<1>1. p \in Nat /\ p > 1 /\ g \in Units(p) /\ g \in Nat
  BY PrimeModulusType, PrimitiveRootType
<1>2. t \in Nat /\ t > 0 /\ t <= p - 1 /\ Power(g, t, p) = 1
  BY <1>1 DEF IsOrder
<1>3. CASE p = 2
  BY <1>1, <1>2, <1>3
<1>4. CASE p # 2
  <2> DEFINE n == p - 1
  <2>1. n \in Nat /\ n > 0 /\ n \in Positive
    BY <1>1 DEF Positive
  <2>2. IsGenerator(g, p)
    BY <1>4 DEF FindPrimitiveRoot
  <2>3. Divides(t, n)
    BY <1>1, OrderDividesAll
  <2>4. \A factor \in PrimeFactors(n) : PowerMod(g, n \div factor, p) # 1
    BY <2>2 DEF IsGenerator
  <2> HIDE DEF n
  <2>5. PICK k \in Int : n = t * k
    <3>1. t \in Nat /\ t > 0 /\ n \in Int
      BY <1>2, <2>1
    <3> QED BY ONLY <3>1, <2>3, DividesMeans
  <2>6. k > 0
    <3>1. k <= 0 => t * k <= 0
      BY <1>2
    <3> QED BY <2>1, <2>5, <3>1
  <2>7. ~(k > 1)
    <3> SUFFICES ASSUME k > 1 PROVE FALSE
      OBVIOUS
    <3>1. k \in Nat
      BY <2>6
    <3>2. PICK q \in Nat : PrimeModulus(q) /\ Divides(q, k)
      BY <3>1, PrimeDivisor
    <3>3. q > 1 /\ q > 0
      BY <3>2, PrimeModulusType
    <3>4. PICK j \in Int : k = q * j
      BY <3>2, <3>3, DividesMeans
    <3>5. j > 0
      <4>1. j <= 0 => q * j <= 0
        BY <3>3
      <4> QED BY <2>6, <3>4, <4>1
    <3> DEFINE e == t * j
    <3>6. e \in Nat /\ e # 0
      <4>1. t * j > 0 /\ t * j \in Int
        BY <1>2, <3>5
      <4> QED BY <4>1
    <3>7. n = q * e
      <4>1. t * (q * j) = q * (t * j)
        BY <1>2, <3>2, <3>4
      <4> QED BY <2>5, <3>4, <4>1
    <3>8. Power(g, e, p) = 1
      <4>1. j \in Nat
        BY <3>5
      <4> QED BY <1>1, <1>2, <4>1, PowerOfMultiple
    <3> HIDE DEF e
    <3>9. Divides(q, n)
      <4>1. e \in Int /\ n \in Int
        BY <2>1, <3>6
      <4> QED BY <3>3, <3>7, <4>1, DividesMeans
    <3>10. n \div q = e
      <4>1. 0 \in 0..(q - 1) /\ n = q * e + 0
        BY <3>3, <3>6, <3>7
      <4> QED BY <2>1, <3>3, <3>6, <4>1, ModUnique
    <3>11. PowerMod(g, e, p) = 1
      BY <1>1, <3>6, <3>8, PowerModIsPower
    <3>12. q \in PrimeFactors(n)
      BY <2>1, <3>2, <3>9, PrimeFactorsComplete
    <3> QED BY <2>4, <3>10, <3>11, <3>12
  <2>8. k = 1
    BY <2>6, <2>7
  <2>9. n = t
    BY <1>2, <2>5, <2>8
  <2> QED BY <2>9 DEF n
<1> QED BY <1>3, <1>4

(* Under a prime modulus every unit is a power of what find_primitive_root *)
(* answers: the test of the prime factors of p - 1 is enough               *)
(* (find_primitive_root).                                                  *)
THEOREM GeneratorReachesAll ==
  ASSUME NEW p, PrimeModulus(p), NEW g \in FindPrimitiveRoot(p)
  PROVE  {Power(g, e, p) : e \in 1..(p - 1)} = 1..(p - 1)
<1>1. p \in Nat /\ p > 1 /\ g \in Units(p) /\ g \in Nat
  BY PrimeModulusType, PrimitiveRootType
<1>2. PICK t : IsOrder(t, g, p)
  BY <1>1, OrderExists
<1>3. t = p - 1
  BY <1>2, GeneratorOrder
<1> DEFINE S == 1..(p - 1)
           f == [e \in S |-> Power(g, e, p)]
<1>4. f \in [S -> S]
  <2>1. \A e \in S : e \in Nat
    BY <1>1
  <2>2. \A e \in S : Power(g, e, p) \in S
    BY <1>1, <2>1, PowerUnits DEF Units
  <2> HIDE DEF S
  <2> QED BY <2>2
<1>5. \A i, j \in S : i < j => f[i] # f[j]
  <2> TAKE i, j \in S
  <2> HAVE i < j
  <2>1. i \in Nat /\ j \in Nat /\ j - i < t
    BY <1>1, <1>3
  <2>2. Power(g, i, p) # Power(g, j, p)
    BY <1>1, <1>2, <2>1, PowersDiffer
  <2> QED BY <2>2
<1>6. f \in Injection(S, S)
  <2>1. \A i, j \in S : f[i] = f[j] => i = j
    <3> TAKE i, j \in S
    <3>1. i < j \/ j < i \/ i = j
      BY <1>1
    <3> HIDE DEF f, S
    <3> QED BY <3>1, <1>5
  <2>2. DOMAIN f = S
    OBVIOUS
  <2> HIDE DEF f, S
  <2> QED BY <1>4, <2>1, <2>2 DEF Injection, IsInjective
<1>7. IsFiniteSet(S)
  BY <1>1, FS_Interval
<1>8. f \in Surjection(S, S)
  <2> HIDE DEF f, S
  <2> QED BY <1>6, <1>7, FS_Injection
<1>9. \A s \in S : \E e \in S : f[e] = s
  <2> HIDE DEF f, S
  <2> QED BY <1>8 DEF Surjection
<1>10. \A e \in S : f[e] = Power(g, e, p) /\ f[e] \in S
  <2>1. \A e \in S : f[e] = Power(g, e, p)
    OBVIOUS
  <2> HIDE DEF f, S
  <2> QED BY <1>4, <2>1
<1>11. {Power(g, e, p) : e \in S} = S
  <2> HIDE DEF f, S
  <2> QED BY <1>9, <1>10
<1> QED BY <1>11

(* What generate_keys answers. *)
PairMade(pair) ==
    /\ pair.p \in Nat
    /\ pair.g \in FindPrimitiveRoot(pair.p)
    /\ pair.x \in Nat /\ pair.x # 0
    /\ pair.y = PowerMod(pair.g, pair.x, pair.p)

(* Every pair that generate_keys answers is so made                        *)
(* (ElGamal.generate_keys).                                                *)
LEMMA GenerateKeysMakes ==
  ASSUME NEW bits, NEW pair \in GenerateKeys(bits)
  PROVE  PairMade(pair)
<1>1. PICK p \in GeneratePrime(bits) :
         pair \in {[p |-> p, g |-> g, x |-> x, y |-> PowerMod(g, x, p)] :
                      g \in FindPrimitiveRoot(p), x \in 2..(p - 2)}
  BY DEF GenerateKeys
<1>2. PICK g \in FindPrimitiveRoot(p), x \in 2..(p - 2) :
         pair = [p |-> p, g |-> g, x |-> x, y |-> PowerMod(g, x, p)]
  BY <1>1
<1>3. p \in Nat
  <2>1. p \in 2^(bits - 1)..(2^bits - 1) /\ TRUE \in IsPrime(p)
    BY DEF GeneratePrime
  <2>2. p \in Int
    BY <2>1
  <2>3. ~(p < 2)
    BY <2>1, <2>2 DEF IsPrime
  <2> QED BY <2>2, <2>3
<1>4. x \in Nat /\ x # 0
  BY <1>3
<1> QED BY <1>2, <1>3, <1>4 DEF PairMade

(* Whoever holds the private key finds the mask that the message was       *)
(* multiplied by.                                                          *)
LEMMA MaskShared ==
  ASSUME NEW pair, PairMade(pair), NEW k \in Nat, k # 0
  PROVE  LET mask == PowerMod(pair.y, k, pair.p)
         IN  /\ PowerMod(PowerMod(pair.g, k, pair.p), pair.x, pair.p) = mask
             /\ mask \in 0..(pair.p - 1)
             /\ Prime(pair.p) => mask \in Units(pair.p)
<1>1. PICK p, g, x : p = pair.p /\ g = pair.g /\ x = pair.x
  OBVIOUS
<1>2. /\ p \in Nat /\ p > 0 /\ g \in Nat /\ g \in Units(p) /\ x \in Nat /\ x # 0
      /\ pair.y = PowerMod(g, x, p)
  <2>1. p \in Nat /\ g \in FindPrimitiveRoot(p) /\ x \in Nat /\ x # 0
        /\ pair.y = PowerMod(g, x, p)
    BY <1>1 DEF PairMade
  <2> QED BY <2>1, PrimitiveRootType
<1> DEFINE y == Power(g, x, p)
           c == Power(g, k, p)
<1>3. y \in 0..(p - 1) /\ c \in 0..(p - 1) /\ y \in Nat /\ c \in Nat
  <2>1. Power(g, x, p) \in 0..(p - 1)
    BY <1>2, PowerType
  <2>2. Power(g, k, p) \in 0..(p - 1)
    BY <1>2, PowerType
  <2>3. y \in 0..(p - 1) /\ c \in 0..(p - 1)
    BY <2>1, <2>2
  <2> HIDE DEF y, c
  <2> QED BY <1>2, <2>3
<1>4. pair.y = y /\ PowerMod(g, k, p) = c
  BY <1>2, PowerModIsPower
<1> HIDE DEF y, c
<1>5. PowerMod(y, k, p) = Power(y, k, p) /\ PowerMod(c, x, p) = Power(c, x, p)
  BY <1>2, <1>3, PowerModIsPower
<1>6. Power(y, k, p) = Power(g, x * k, p)
  BY <1>2, PowerOfPower DEF y
<1>7. Power(c, x, p) = Power(g, k * x, p)
  BY <1>2, PowerOfPower DEF c
<1>8. x * k = k * x
  BY <1>2
<1>9. Power(y, k, p) \in 0..(p - 1)
  BY <1>2, <1>3, PowerType
<1>10. Prime(p) => Power(y, k, p) \in Units(p)
  <2> HAVE Prime(p)
  <2>1. PrimeModulus(p)
    BY <1>2 DEF PrimeModulus
  <2>2. y \in Units(p)
    BY <1>2, <2>1, PowerUnits DEF y
  <2> QED BY <2>1, <2>2, PowerUnits
<1> QED BY <1>1, <1>4, <1>5, <1>6, <1>7, <1>8, <1>9, <1>10

(* What is encrypted can be recovered with the private key, or, if the     *)
(* modulus is no prime, mod_inverse may raise an error (ElGamal.encrypt,   *)
(* mod_inverse).                                                           *)
LEMMA SealRecovered ==
  ASSUME NEW pair, PairMade(pair), NEW m \in Nat, NEW c \in Encrypt(m, pair)
  PROVE  \/ Recovered(c, pair) = m
         \/ Recovered(c, pair) = NoInverse /\ ~Prime(pair.p)
<1>1. m < pair.p \/ ~(m < pair.p)
  OBVIOUS
<1>2. PICK p : p = pair.p
  OBVIOUS
<1>3. p \in Nat /\ p > 1 /\ p > 0
  BY <1>2, PrimitiveRootType DEF PairMade
<1>4. m < p
  BY <1>2, <1>3 DEF Encrypt
<1>5. PICK k \in 2..(p - 2) :
         c = [c1 |-> PowerMod(pair.g, k, p), c2 |-> (m * PowerMod(pair.y, k, p)) % p]
  BY <1>2, <1>3, <1>4 DEF Encrypt
<1>6. k \in Nat /\ k # 0
  BY <1>3
<1> DEFINE mask == PowerMod(pair.y, k, p)
           i == ModInverse(mask, p)
<1>7. /\ PowerMod(PowerMod(pair.g, k, p), pair.x, p) = mask
      /\ mask \in 0..(p - 1)
      /\ Prime(p) => mask \in Units(p)
  BY <1>2, <1>6, MaskShared
<1>8. Recovered(c, pair) = IF i = NoInverse THEN NoInverse ELSE (c.c2 * i) % p
  BY <1>2, <1>5, <1>7 DEF Recovered
<1>9. c.c2 = (m * mask) % p
  BY <1>5
<1> HIDE DEF mask
<1>10. mask \in Nat /\ mask \in Int
  BY <1>7
<1>11. CASE i = NoInverse
  <2>1. ~Prime(p)
    <3> SUFFICES ASSUME Prime(p) PROVE FALSE
      OBVIOUS
    <3>1. PrimeModulus(p) /\ mask \in Units(p)
      BY <1>3, <1>7 DEF PrimeModulus
    <3>2. i \in 0..(p - 1)
      BY <3>1, UnitInverse
    <3> HIDE DEF i
    <3> QED BY <1>11, <3>2 DEF NoInverse
  <2> QED BY <1>2, <1>8, <1>11, <2>1
<1>12. CASE i # NoInverse
  <2>1. i \in 0..(p - 1) /\ Times(mask, i, p) = 1 % p
    <3>1. {j \in 0..(p - 1) : (mask * j) % p = 1 % p} = {i} \ {NoInverse}
      BY <1>3, <1>10, InversesOfModulo
    <3> HIDE DEF i
    <3>2. i \in {j \in 0..(p - 1) : (mask * j) % p = 1 % p}
      BY <1>12, <3>1
    <3> QED BY <3>2 DEF Times
  <2> HIDE DEF i
  <2>2. i \in Int
    BY <2>1
  <2>3. 1 % p = 1 /\ m % p = m
    BY <1>3, <1>4, ModSmall
  <2>4. (c.c2 * i) % p = Times(Times(m, mask, p), i, p)
    BY <1>9 DEF Times
  <2>5. Times(Times(m, mask, p), i, p) = Times(m, Times(mask, i, p), p)
    BY <1>3, <1>10, <2>2, TimesAssociates
  <2>6. Times(m, 1, p) = m % p
    BY <1>3, TimesOne
  <2>7. Recovered(c, pair) = m
    BY <1>8, <1>12, <2>1, <2>3, <2>4, <2>5, <2>6 DEF i
  <2> QED BY <2>7
<1> QED BY <1>11, <1>12

(* The two ends of an exchange. *)
LEMMA SecretShared ==
  ASSUME NEW p \in Nat, p > 0, NEW g \in Nat, NEW a \in Nat, NEW b \in Nat
  PROVE  SharedSecret(PublicKey(b, p, g), a, p) = SharedSecret(PublicKey(a, p, g), b, p)
<1>1. Power(Power(g, b, p), a, p) = Power(g, b * a, p)
  BY PowerOfPower
<1>2. Power(Power(g, a, p), b, p) = Power(g, a * b, p)
  BY PowerOfPower
<1>3. a * b = b * a
  OBVIOUS
<1> QED BY <1>1, <1>2, <1>3 DEF SharedSecret, PublicKey

(* Key pairs are as generate_keys made them.                               *)
PairsInv == call.op = "keys" => PairMade(call.pair)

(* The inductive invariant. *)
PeersInv == PairsInv /\ PeersAgree

(* Every call keeps it. *)
LEMMA PeersInvHolds ==
  Spec => []PeersInv
<1>1. Init => PeersInv
  BY DEF Init, Idle, PeersInv, PairsInv, PeersAgree
<1>2. ASSUME PeersInv, [Next]_call
      PROVE  PeersInv'
  <2>1. CASE UNCHANGED call
    BY <1>2, <2>1 DEF PeersInv, PairsInv, PeersAgree
  <2>2. CASE Exchange
    <3>1. PICK p \in Groups, g \in Generators \cup {DemoG}, a \in Privates, b \in Privates :
             call' = [op |-> "exchange",
                      mine |-> SharedSecret(PublicKey(b, p, g), a, p),
                      theirs |-> SharedSecret(PublicKey(a, p, g), b, p)]
      BY <2>2 DEF Exchange
    <3>2. p \in Nat /\ p > 0 /\ g \in Nat /\ a \in Nat /\ b \in Nat
      BY NumbersAssumption DEF DemoG
    <3>3. SharedSecret(PublicKey(b, p, g), a, p) = SharedSecret(PublicKey(a, p, g), b, p)
      BY <3>2, SecretShared
    <3> QED BY <3>1, <3>3 DEF PeersInv, PairsInv, PeersAgree
  <2>3. CASE MakeKeys
    <3>1. PICK bits \in Sizes : \E pair \in GenerateKeys(bits) :
             call' = [op |-> "keys", pair |-> pair]
      BY <2>3 DEF MakeKeys
    <3>2. PICK pair \in GenerateKeys(bits) : call' = [op |-> "keys", pair |-> pair]
      BY <3>1
    <3>3. PairMade(pair)
      BY GenerateKeysMakes
    <3>4. Prime(pair.p)
             => {Power(pair.g, e, pair.p) : e \in 1..(pair.p - 1)} = 1..(pair.p - 1)
      <4> HAVE Prime(pair.p)
      <4>1. PrimeModulus(pair.p) /\ pair.g \in FindPrimitiveRoot(pair.p)
        BY <3>3 DEF PairMade, PrimeModulus
      <4> QED BY <4>1, GeneratorReachesAll
    <3>5. call'.op = "keys" /\ call'.pair = pair
      BY <3>2
    <3> QED BY <3>3, <3>4, <3>5 DEF PeersInv, PairsInv, PeersAgree
  <2>4. CASE Seal
    <3>1. call.op = "keys"
      BY <2>4 DEF Seal
    <3>2. PairMade(call.pair)
      BY <1>2, <3>1 DEF PeersInv, PairsInv
    <3>3. PICK m \in 0..call.pair.p : \E c \in Encrypt(m, call.pair) :
             call' = [op |-> "sealed", pair |-> call.pair, m |-> m, c |-> c]
      BY <2>4 DEF Seal
    <3>4. m \in Nat
      BY <3>2 DEF PairMade
    <3>5. PICK c \in Encrypt(m, call.pair) :
             call' = [op |-> "sealed", pair |-> call.pair, m |-> m, c |-> c]
      BY <3>3
    <3>6. \/ Recovered(c, call.pair) = m
          \/ Recovered(c, call.pair) = NoInverse /\ ~Prime(call.pair.p)
      BY <3>2, <3>4, SealRecovered
    <3>7. /\ call'.op = "sealed" /\ call'.pair = call.pair
          /\ call'.m = m /\ call'.c = c
      BY <3>5
    <3> QED BY <3>6, <3>7 DEF PeersInv, PairsInv, PeersAgree
  <2>5. CASE Open
    <3>1. call'.op = "opened"
      BY <2>5 DEF Open
    <3> QED BY <3>1 DEF PeersInv, PairsInv, PeersAgree
  <2>6. CASE AskGcd \/ AskPower \/ AskPrime
    BY <2>6 DEF AskGcd, AskPower, AskPrime, PeersInv, PairsInv, PeersAgree
  <2>7. CASE SendMessage
    <3>1. call'.op = "sent"
      BY <2>7 DEF SendMessage, Sent
    <3> QED BY <3>1 DEF PeersInv, PairsInv, PeersAgree
  <2>8. CASE ReadMessage \/ SendFails
    BY <2>8 DEF ReadMessage, SendFails, PeersInv, PairsInv, PeersAgree
  <2>9. CASE Return
    BY <2>9 DEF Return, Idle, PeersInv, PairsInv, PeersAgree
  <2> QED BY <1>2, <2>1, <2>2, <2>3, <2>4, <2>5, <2>6, <2>7, <2>8, <2>9 DEF Next
<1> QED BY <1>1, <1>2, PTL DEF Spec

(* In every state two ends of an exchange have one secret, the generator   *)
(* of a prime modulus generates every unit, and what was sealed can be     *)
(* recovered with the private key, or, under a modulus that is no prime,   *)
(* may have no inverse mask (DHKeyExchange, ElGamal).                                               *)
THEOREM PeersAgreeHolds ==
  Spec => []PeersAgree
<1>1. PeersInv => PeersAgree
  BY DEF PeersInv
<1> QED BY <1>1, PeersInvHolds, PTL

-----------------------------------------------------------------------------
(* The primality test (is_prime).                                          *)

(* What is_prime makes of n - 1. *)
Halves == [r : Nat, d : Nat \ {0}]

(* Half of an even number. *)
LEMMA HalfOf ==
  ASSUME NEW k \in Nat, k > 0, k % 2 # 1
  PROVE  k \div 2 \in Nat /\ k \div 2 > 0 /\ k \div 2 < k /\ k = 2 * (k \div 2)
OBVIOUS

(* The loop that halves n - 1 is defined by its recursion (is_prime). *)
LEMMA HalveDefined ==
  ASSUME NEW n \in Positive
  PROVE  /\ n % 2 = 1 => Halve(n) = [r |-> 0, d |-> n]
         /\ n % 2 # 1 => LET rest == Halve(n \div 2)
                         IN Halve(n) = [r |-> rest.r + 1, d |-> rest.d]
<1> DEFINE Count(rest) == [r |-> rest.r + 1, d |-> rest.d]
           Body(f) == [k \in Nat \ {0} |->
              IF k % 2 = 1 THEN [r |-> 0, d |-> k] ELSE Count(f[k \div 2])]
           halve == CHOOSE f : f = Body(f)
           S == Positive
           T == Halves
           mu == [k \in S |-> k]
           c == [k \in S |-> [r |-> 0, d |-> k]]
           next == [k \in S |-> IF k % 2 = 1 THEN k ELSE k \div 2]
           G == [k \in S |-> [v \in T |-> Count(v)]]
           B == {k \in S : k % 2 = 1}
<1>1. \A k \in S : k % 2 # 1 => k \div 2 \in S /\ k \div 2 < k
  BY HalfOf DEF Positive
<1>2. \A v \in T : Count(v) \in T
  BY DEF Halves
<1>3. Recursion(S, T, B, mu, c, next, G)
  <2>1. mu \in [S -> Nat] /\ c \in [S -> T]
    BY DEF Positive, Halves
  <2>2. next \in [S -> S]
    <3> HIDE DEF S
    <3> QED BY <1>1
  <2>3. G \in [S -> [T -> T]]
    <3> HIDE DEF T, S, Count
    <3> QED BY <1>2
  <2>4. \A k \in S \ B : mu[next[k]] < mu[k]
    <3> TAKE k \in S \ B
    <3>1. k % 2 # 1 /\ k \in S
      OBVIOUS
    <3>2. next[k] = k \div 2 /\ k \div 2 \in S /\ k \div 2 < k
      BY <3>1, <1>1
    <3> HIDE DEF next, S
    <3>3. mu[next[k]] = k \div 2 /\ mu[k] = k
      BY <3>1, <3>2
    <3> QED BY <3>2, <3>3
  <2> HIDE DEF S, T, mu, c, next, G, B
  <2> QED BY <2>1, <2>2, <2>3, <2>4 DEF Recursion
<1>4. PICK f \in [S -> T] :
         \A k \in S : f[k] = IF k \in B THEN c[k] ELSE G[k][f[next[k]]]
  <2> HIDE DEF S, T, mu, c, next, G, B
  <2> QED BY <1>3, RecursionDefined
<1>5. \A k \in S : f[k] = IF k % 2 = 1 THEN [r |-> 0, d |-> k] ELSE Count(f[k \div 2])
  <2> TAKE k \in S
  <2>1. CASE k % 2 = 1
    <3>1. k \in B /\ c[k] = [r |-> 0, d |-> k]
      BY <2>1
    <3> HIDE DEF B, mu, G, next, S, T, c, Count
    <3> QED BY <1>4, <2>1, <3>1
  <2>2. CASE k % 2 # 1
    <3>1. next[k] = k \div 2 /\ k \div 2 \in S /\ k \notin B
      BY <2>2, <1>1
    <3> HIDE DEF S, Count, T
    <3>2. G[k][f[k \div 2]] = Count(f[k \div 2])
      BY <3>1, <1>4
    <3> HIDE DEF B, mu, G, next, c
    <3>3. f[k] = G[k][f[next[k]]]
      BY <1>4, <3>1
    <3> QED BY <2>2, <3>1, <3>2, <3>3
  <2> QED BY <2>1, <2>2
<1>6. f = Body(f)
  <2> HIDE DEF T, mu, c, next, G, B, Count
  <2>1. f = [k \in S |-> f[k]]
    BY <1>4
  <2> QED BY <1>5, <2>1 DEF Positive
<1>7. halve = Body(halve)
  <2> HIDE DEF Body
  <2> QED BY <1>6
<1>8. \A k \in S : halve[k] = IF k % 2 = 1 THEN [r |-> 0, d |-> k]
                              ELSE Count(halve[k \div 2])
  <2> HIDE DEF halve, Count
  <2> QED BY <1>7 DEF Positive
<1>9. \A k \in S : Halve(k) = halve[k]
  BY DEF Halve
<1> HIDE DEF halve
<1>10. n \in S
  OBVIOUS
<1> HIDE DEF S
<1> QED BY <1>1, <1>8, <1>9, <1>10

(* The loop that squares x is defined by its recursion (is_prime). *)
LEMMA SquaredDefined ==
  ASSUME NEW x \in Nat, NEW n \in Nat, n > 0
  PROVE  /\ Squared(x, 0, n) = x
         /\ \A i \in Nat : /\ Squared(x, i, n) \in Nat
                           /\ Squared(x, i + 1, n) = Power(Squared(x, i, n), 2, n)
<1> DEFINE Body(f) == [j \in Nat |-> IF j = 0 THEN x ELSE Power(f[j - 1], 2, n)]
           squared == CHOOSE f : f = Body(f)
           mu == [j \in Nat |-> j]
           c == [j \in Nat |-> x]
           next == [j \in Nat |-> IF j = 0 THEN 0 ELSE j - 1]
           G == [j \in Nat |-> [v \in Nat |-> Power(v, 2, n)]]
<1>1. \A v \in Nat : Power(v, 2, n) \in Nat
  <2> TAKE v \in Nat
  <2>1. Power(v, 2, n) \in 0..(n - 1)
    BY PowerType
  <2> QED BY <2>1
<1>2. Recursion(Nat, Nat, {0}, mu, c, next, G)
  <2>1. mu \in [Nat -> Nat] /\ c \in [Nat -> Nat] /\ next \in [Nat -> Nat]
    OBVIOUS
  <2>2. G \in [Nat -> [Nat -> Nat]]
    BY <1>1
  <2>3. \A j \in Nat \ {0} : mu[next[j]] < mu[j]
    OBVIOUS
  <2> HIDE DEF mu, c, next, G
  <2> QED BY <2>1, <2>2, <2>3 DEF Recursion
<1>3. PICK f \in [Nat -> Nat] :
         \A j \in Nat : f[j] = IF j \in {0} THEN c[j] ELSE G[j][f[next[j]]]
  <2> HIDE DEF mu, c, next, G
  <2> QED BY <1>2, RecursionDefined
<1>4. \A j \in Nat : f[j] = IF j = 0 THEN x ELSE Power(f[j - 1], 2, n)
  <2> TAKE j \in Nat
  <2>1. CASE j = 0
    BY <1>3, <2>1
  <2>2. CASE j # 0
    <3>1. next[j] = j - 1 /\ j - 1 \in Nat
      BY <2>2
    <3>2. G[j][f[j - 1]] = Power(f[j - 1], 2, n)
      BY <3>1
    <3>3. f[j] = G[j][f[next[j]]]
      <4> HIDE DEF G, next, c
      <4> QED BY <1>3, <2>2
    <3> QED BY <3>1, <3>2, <3>3, <2>2
  <2> QED BY <2>1, <2>2
<1>5. f = Body(f)
  BY <1>3, <1>4
<1>6. squared = Body(squared)
  <2> HIDE DEF Body
  <2> QED BY <1>5
<1>7. \A j \in Nat : squared[j] = IF j = 0 THEN x ELSE Power(squared[j - 1], 2, n)
  <2> HIDE DEF squared
  <2> QED BY <1>6
<1>8. \A j \in Nat : Squared(x, j, n) = squared[j]
  BY DEF Squared
<1> HIDE DEF squared
<1>9. Squared(x, 0, n) = x
  BY <1>7, <1>8
<1>10. ASSUME NEW i \in Nat
       PROVE  Squared(x, i + 1, n) = Power(Squared(x, i, n), 2, n)
  <2>1. i + 1 \in Nat /\ i + 1 # 0 /\ (i + 1) - 1 = i
    OBVIOUS
  <2> QED BY <2>1, <1>7, <1>8
<1> DEFINE P == {i \in Nat : Squared(x, i, n) \in Nat}
<1>11. \A i \in Nat : i \in P
  <2>1. 0 \in P
    BY <1>9
  <2>2. \A i \in Nat : i \in P => i + 1 \in P
    BY <1>1, <1>10
  <2> HIDE DEF P
  <2> QED BY <2>1, <2>2, SetInduction
<1> QED BY <1>9, <1>10, <1>11

(* Squaring a^d as often as 2 was divided out of k gives a^k.              *)
LEMMA HalvedPower ==
  ASSUME NEW n \in Nat, n > 0, NEW a \in Nat
  PROVE  \A k \in Positive :
            /\ Halve(k) \in Halves
            /\ Squared(Power(a, Halve(k).d, n), Halve(k).r, n) = Power(a, k, n)
<1> DEFINE Good(k) ==
              /\ Halve(k) \in Halves
              /\ Squared(Power(a, Halve(k).d, n), Halve(k).r, n) = Power(a, k, n)
           P == {k \in Nat : k > 0 => Good(k)}
<1>1. ASSUME NEW k \in Nat, \A j \in Nat : j < k => j \in P
      PROVE  k \in P
  <2> SUFFICES ASSUME k > 0 PROVE Good(k)
    OBVIOUS
  <2>1. k \in Positive
    BY DEF Positive
  <2>2. CASE k % 2 = 1
    <3>1. Halve(k) = [r |-> 0, d |-> k]
      BY <2>1, <2>2, HalveDefined
    <3>2. Power(a, k, n) \in Nat
      <4>1. Power(a, k, n) \in 0..(n - 1)
        BY PowerType
      <4> QED BY <4>1
    <3>3. Squared(Power(a, k, n), 0, n) = Power(a, k, n)
      BY <3>2, SquaredDefined
    <3> QED BY <3>1, <3>3 DEF Halves
  <2>3. CASE k % 2 # 1
    <3> DEFINE h == k \div 2
    <3>1. h \in Nat /\ h > 0 /\ h < k /\ k = 2 * h
      BY <2>3, HalfOf
    <3>2. Halve(k) = [r |-> Halve(h).r + 1, d |-> Halve(h).d]
      BY <2>1, <2>3, HalveDefined
    <3> HIDE DEF h
    <3>3. Good(h)
      BY <1>1, <3>1
    <3>4. PICK r, d : r = Halve(h).r /\ d = Halve(h).d
      OBVIOUS
    <3>5. r \in Nat /\ d \in Nat /\ d # 0 /\ Squared(Power(a, d, n), r, n) = Power(a, h, n)
      BY <3>3, <3>4 DEF Halves
    <3>6. PICK x : x = Power(a, d, n)
      OBVIOUS
    <3>7. x \in Nat
      <4>1. Power(a, d, n) \in 0..(n - 1)
        BY <3>5, PowerType
      <4> QED BY <4>1, <3>6
    <3>8. Squared(x, r + 1, n) = Power(Power(a, h, n), 2, n)
      BY <3>5, <3>6, <3>7, SquaredDefined
    <3>9. Power(Power(a, h, n), 2, n) = Power(a, h * 2, n)
      BY <3>1, PowerOfPower
    <3>10. h * 2 = k
      BY <3>1
    <3>11. Halve(k).r = r + 1 /\ Halve(k).d = d /\ Halve(k) \in Halves
      BY <3>2, <3>4, <3>5 DEF Halves
    <3> QED BY <3>6, <3>8, <3>9, <3>10, <3>11
  <2> QED BY <2>2, <2>3
<1>2. \A k \in Nat : k \in P
  <2> HIDE DEF P
  <2> QED BY <1>1, StrongInduction
<1> QED BY <1>2 DEF Positive

(* Under a prime, 1 has no square root but 1 and -1.                       *)
LEMMA RootsOfOne ==
  ASSUME NEW p, PrimeModulus(p), NEW y \in Nat, Power(y, 2, p) = 1, y < p
  PROVE  y = 1 \/ y = p - 1
<1>1. p \in Nat /\ p > 1 /\ p > 0
  BY PrimeModulusType
<1>2. Times(y, y, p) = 1
  <2>1. Power(y, 1, p) = y
    <3>1. y \in 0..(p - 1)
      BY <1>1
    <3> QED BY <1>1, <3>1, PowerOne, ModSmall
  <2>2. Power(y, 1 + 1, p) = Times(y, Power(y, 1, p), p)
    BY <1>1, PowerNext
  <2> QED BY <2>1, <2>2
<1>3. y # 0
  <2>1. y = 0 => (y * y) % p = 0
    BY <1>1
  <2> QED BY <1>2, <2>1 DEF Times
<1> DEFINE z == y - 1
           w == y + 1
           s == y * y
           e == z * w
<1>4. z \in Nat /\ w \in Nat /\ s \in Int
  BY <1>3
<1>5. e = s - 1 /\ e \in Int
  <2>1. (y - 1) * (y + 1) = y * y - 1
    OBVIOUS
  <2> QED BY <2>1
<1>6. s % p = 1
  BY <1>2 DEF Times
<1> HIDE DEF z, w, s
<1>7. Divides(p, e)
  <2>1. s = p * (s \div p) + 1 /\ s \div p \in Int
    BY <1>1, <1>4, <1>6, ModDef
  <2> HIDE DEF e
  <2>2. PICK k \in Int : s = p * k + 1
    BY <2>1
  <2>3. e = p * k
    BY <1>1, <1>4, <1>5, <2>2
  <2>4. \E j \in Int : e = p * j
    BY <2>3
  <2> QED BY ONLY <1>1, <1>5, <2>4, DividesMeans
<1>8. Divides(p, z) \/ Divides(p, w)
  BY <1>4, <1>7, PrimeDivides
<1>9. z > 0 => ~Divides(p, z)
  <2>1. z < p
    BY <1>1 DEF z
  <2> QED BY <1>1, <1>4, <2>1, DividesBounds
<1>10. Divides(p, w) => p <= w
  <2>1. w > 0
    BY DEF w
  <2> QED BY <1>1, <1>4, <2>1, DividesBounds
<1> QED BY <1>1, <1>3, <1>8, <1>9, <1>10 DEF z, w

(* The squares of a round end in 1 under a prime, and what came before the *)
(* first 1 is -1, so that the round passes.                                *)
LEMMA PrimePassesRound ==
  ASSUME NEW n, PrimeModulus(n), NEW a \in Units(n)
  PROVE  Passes(n, a)
<1>1. n \in Nat /\ n > 0 /\ n > 1 /\ a \in Nat
  BY PrimeModulusType
<1>2. n - 1 \in Positive
  BY <1>1 DEF Positive
<1> DEFINE s == Halve(n - 1)
           x == Power(a, s.d, n)
<1>3. s \in Halves /\ Squared(x, s.r, n) = Power(a, n - 1, n)
  BY <1>1, <1>2, HalvedPower
<1>4. Power(a, n - 1, n) = 1
  BY Fermat
<1>5. s.d \in Nat /\ s.r \in Nat
  BY <1>3 DEF Halves
<1>6. x \in 0..(n - 1)
  <2> HIDE DEF s
  <2> QED BY <1>1, <1>5, PowerType
<1>7. x \in Nat
  <2> HIDE DEF x
  <2> QED BY <1>1, <1>6
<1> SUFFICES x \in {1, n - 1} \/ \E i \in 1..(s.r - 1) : Squared(x, i, n) = n - 1
  BY DEF Passes
<1> HIDE DEF s, x
<1>8. \A k \in Nat : /\ Squared(x, k, n) \in Nat
                      /\ Squared(x, k + 1, n) = Power(Squared(x, k, n), 2, n)
  BY ONLY <1>1, <1>7, SquaredDefined
<1> DEFINE Ones == {i \in Nat : Squared(x, i, n) = 1}
<1>9. s.r \in Ones
  BY <1>3, <1>4, <1>5
<1>10. PICK i \in Nat : i \in Ones /\ \A k \in Nat : k \in Ones => i <= k
  <2> HIDE DEF Ones
  <2> QED BY <1>5, <1>9, LeastElement
<1>11. i <= s.r
  BY <1>5, <1>9, <1>10
<1>12. CASE i = 0
  BY <1>1, <1>7, <1>10, <1>12, SquaredDefined
<1>13. CASE i # 0
  <2> DEFINE j == i - 1
             y == Squared(x, j, n)
  <2>1. j \in Nat /\ j < i /\ i = j + 1
    BY <1>13
  <2> HIDE DEF j
  <2>2. y \in Nat /\ Power(y, 2, n) = 1
    <3>1. Squared(x, i, n) = 1
      BY <1>10
    <3>2. y \in Nat /\ Squared(x, j + 1, n) = Power(y, 2, n)
      BY ONLY <2>1, <1>8
    <3> QED BY <2>1, <3>1, <3>2
  <2>3. y # 1
    BY <2>1, <1>10
  <2>4. y < n
    <3>1. CASE j = 0
      BY <1>1, <1>6, <1>7, <3>1, SquaredDefined
    <3>2. CASE j # 0
      <4>1. j - 1 \in Nat /\ (j - 1) + 1 = j
        BY <2>1, <3>2
      <4>2. Squared(x, j - 1, n) \in Nat /\ y = Power(Squared(x, j - 1, n), 2, n)
        <5>1. Squared(x, (j - 1) + 1, n) = y
          BY <4>1
        <5> HIDE DEF y
        <5> QED BY ONLY <4>1, <5>1, <1>8
      <4>3. y \in 0..(n - 1)
        BY <1>1, <4>2, PowerType
      <4> QED BY <1>1, <4>3
    <3> QED BY <3>1, <3>2
  <2>5. y = n - 1
    <3> HIDE DEF y
    <3> QED BY <2>2, <2>3, <2>4, RootsOfOne
  <2>6. CASE j = 0
    BY <1>1, <1>7, <2>5, <2>6, SquaredDefined
  <2>7. CASE j # 0
    <3>1. j \in 1..(s.r - 1)
      BY <1>5, <1>11, <2>1, <2>7
    <3> QED BY <2>5, <3>1
  <2> QED BY <2>6, <2>7
<1> QED BY <1>12, <1>13

(* Whatever bases it draws, is_prime answers True for every prime          *)
(* (is_prime).                                                             *)
THEOREM PrimesAccepted ==
  \A n \in Nat : Prime(n) => IsPrime(n) = {TRUE}
<1> SUFFICES ASSUME NEW n \in Nat, Prime(n) PROVE IsPrime(n) = {TRUE}
  OBVIOUS
<1>1. PrimeModulus(n) /\ n > 1
  BY PrimeModulusType DEF PrimeModulus
<1>2. CASE n \in {2, 3}
  BY <1>2 DEF IsPrime
<1>3. CASE n \notin {2, 3}
  <2>1. n > 3
    BY <1>1, <1>3
  <2>2. n % 2 # 0
    <3>1. 2 \in 2..(n - 1)
      BY <2>1
    <3> QED BY <3>1 DEF Prime, Divides
  <2>3. \A a \in 2..(n - 2) : Passes(n, a)
    <3> TAKE a \in 2..(n - 2)
    <3>1. a \in Units(n)
      BY <2>1 DEF Units
    <3> QED BY <1>1, <3>1, PrimePassesRound
  <2>4. IsPrime(n) = {Passes(n, a) : a \in 2..(n - 2)}
    <3>1. ~(n < 2 \/ n % 2 = 0)
      BY <2>1, <2>2
    <3> QED BY <1>3, <3>1, Zenon DEF IsPrime
  <2>5. 2 \in 2..(n - 2)
    BY <2>1
  <2>6. \A a \in 2..(n - 2) : Passes(n, a) = TRUE
    BY <2>3 DEF Passes
  <2> QED BY <2>4, <2>5, <2>6
<1> QED BY <1>2, <1>3

(* In no state is a prime answered to be none (is_prime). *)
THEOREM PrimesPassHolds ==
  Spec => []PrimesPass
<1>1. Init => PrimesPass
  BY DEF Init, Idle, PrimesPass
<1>2. ASSUME PrimesPass, [Next]_call
      PROVE  PrimesPass'
  <2>1. CASE UNCHANGED call
    BY <1>2, <2>1 DEF PrimesPass
  <2>2. CASE AskPrime
    <3>1. PICK n \in Candidates : \E answer \in IsPrime(n) :
             call' = [op |-> "prime", n |-> n, answer |-> answer]
      BY <2>2 DEF AskPrime
    <3>2. PICK answer \in IsPrime(n) :
             call' = [op |-> "prime", n |-> n, answer |-> answer]
      BY <3>1
    <3>3. n \in Nat
      BY NumbersAssumption
    <3>4. Prime(n) => answer
      <4> HAVE Prime(n)
      <4>1. IsPrime(n) = {TRUE}
        BY <3>3, PrimesAccepted
      <4>2. answer = TRUE
        BY <4>1
      <4> QED BY <4>2
    <3>5. call'.n = n /\ call'.answer = answer
      BY <3>2
    <3> QED BY <3>4, <3>5 DEF PrimesPass
  <2>3. CASE AskGcd \/ AskPower \/ Exchange \/ MakeKeys \/ Seal \/ Open
    BY <2>3 DEF AskGcd, AskPower, Exchange, MakeKeys, Seal, Open, PrimesPass
  <2>4. CASE SendMessage \/ SendFails \/ ReadMessage \/ Return
    BY <2>4 DEF SendMessage, Sent, SendFails, ReadMessage, Return, Idle, PrimesPass
  <2> QED BY <1>2, <2>1, <2>2, <2>3, <2>4 DEF Next
<1> QED BY <1>1, <1>2, PTL DEF Spec

-----------------------------------------------------------------------------
(* Bytes, their bits, and hexadecimal.                                     *)

(* What is in a bytes object. *)
Bytes == 0..255

(* A byte is the sum of its bits. *)
LEMMA ByteIsItsBits ==
  ASSUME NEW a \in Bytes
  PROVE  a = (a % 2) + 2 * ((a \div 2) % 2) + 4 * ((a \div 4) % 2) + 8 * ((a \div 8) % 2)
               + 16 * ((a \div 16) % 2) + 32 * ((a \div 32) % 2)
               + 64 * ((a \div 64) % 2) + 128 * ((a \div 128) % 2)
BY DEF Bytes

(* The byte with these bits, the lowest first. *)
FromBits(b0, b1, b2, b3, b4, b5, b6, b7) ==
    b0 + 2 * b1 + 4 * b2 + 8 * b3 + 16 * b4 + 32 * b5 + 64 * b6 + 128 * b7

(* The bits of that sum are the bits it was made of. *)
LEMMA BitsOfByte ==
  ASSUME NEW b0 \in {0, 1}, NEW b1 \in {0, 1}, NEW b2 \in {0, 1}, NEW b3 \in {0, 1},
         NEW b4 \in {0, 1}, NEW b5 \in {0, 1}, NEW b6 \in {0, 1}, NEW b7 \in {0, 1},
         NEW c, c = FromBits(b0, b1, b2, b3, b4, b5, b6, b7)
  PROVE  /\ c \in Bytes
         /\ c % 2 = b0 /\ (c \div 2) % 2 = b1 /\ (c \div 4) % 2 = b2 /\ (c \div 8) % 2 = b3
         /\ (c \div 16) % 2 = b4 /\ (c \div 32) % 2 = b5 /\ (c \div 64) % 2 = b6
         /\ (c \div 128) % 2 = b7
BY DEF Bytes, FromBits

(* Exclusive or with the same byte undoes itself. *)
LEMMA XorUndone ==
  ASSUME NEW a \in Bytes, NEW k \in Bytes
  PROVE  Xor(a, k) \in Bytes /\ Xor(Xor(a, k), k) = a
<1> DEFINE Bit(x, w) == (x \div w + k \div w) % 2
           c == Xor(a, k)
<1>1. a \in Nat /\ k \in Nat
  BY DEF Bytes
<1>2. c = FromBits(Bit(a, 1), Bit(a, 2), Bit(a, 4), Bit(a, 8),
                   Bit(a, 16), Bit(a, 32), Bit(a, 64), Bit(a, 128))
  BY DEF Xor, FromBits
<1>3. /\ Bit(a, 1) \in {0, 1} /\ Bit(a, 2) \in {0, 1} /\ Bit(a, 4) \in {0, 1}
      /\ Bit(a, 8) \in {0, 1} /\ Bit(a, 16) \in {0, 1} /\ Bit(a, 32) \in {0, 1}
      /\ Bit(a, 64) \in {0, 1} /\ Bit(a, 128) \in {0, 1}
  BY <1>1
<1> HIDE DEF c
<1>4. /\ c \in Bytes
      /\ c % 2 = Bit(a, 1) /\ (c \div 2) % 2 = Bit(a, 2) /\ (c \div 4) % 2 = Bit(a, 4)
      /\ (c \div 8) % 2 = Bit(a, 8) /\ (c \div 16) % 2 = Bit(a, 16)
      /\ (c \div 32) % 2 = Bit(a, 32) /\ (c \div 64) % 2 = Bit(a, 64)
      /\ (c \div 128) % 2 = Bit(a, 128)
  <2> HIDE DEF Bit
  <2> QED BY <1>2, <1>3, BitsOfByte
<1>5. /\ Bit(c, 1) = a % 2 /\ Bit(c, 2) = (a \div 2) % 2 /\ Bit(c, 4) = (a \div 4) % 2
      /\ Bit(c, 8) = (a \div 8) % 2 /\ Bit(c, 16) = (a \div 16) % 2
      /\ Bit(c, 32) = (a \div 32) % 2 /\ Bit(c, 64) = (a \div 64) % 2
      /\ Bit(c, 128) = (a \div 128) % 2
  <2>1. c \in Nat
    BY <1>4 DEF Bytes
  <2>2. Bit(c, 1) = a % 2
    BY <1>4, <1>1, <2>1
  <2>3. Bit(c, 2) = (a \div 2) % 2
    BY <1>4, <1>1, <2>1
  <2>4. Bit(c, 4) = (a \div 4) % 2
    BY <1>4, <1>1, <2>1
  <2>5. Bit(c, 8) = (a \div 8) % 2
    BY <1>4, <1>1, <2>1
  <2>6. Bit(c, 16) = (a \div 16) % 2
    BY <1>4, <1>1, <2>1
  <2>7. Bit(c, 32) = (a \div 32) % 2
    BY <1>4, <1>1, <2>1
  <2>8. Bit(c, 64) = (a \div 64) % 2
    BY <1>4, <1>1, <2>1
  <2>9. Bit(c, 128) = (a \div 128) % 2
    BY <1>4, <1>1, <2>1
  <2> HIDE DEF Bit
  <2> QED BY <2>2, <2>3, <2>4, <2>5, <2>6, <2>7, <2>8, <2>9
<1>6. Xor(c, k) = Bit(c, 1) + 2 * Bit(c, 2) + 4 * Bit(c, 4) + 8 * Bit(c, 8)
           + 16 * Bit(c, 16) + 32 * Bit(c, 32) + 64 * Bit(c, 64) + 128 * Bit(c, 128)
  BY DEF Xor
<1>7. Xor(c, k) = a
  <2> HIDE DEF Bit
  <2> QED BY <1>5, <1>6, ByteIsItsBits
<1> QED BY <1>4, <1>7 DEF c

(* Bytes are read back from their hexadecimal form (bytes.fromhex). *)
LEMMA HexReadBack ==
  ASSUME NEW s \in Seq(Bytes)
  PROVE  FromHex(Hex(s)) = s
<1> DEFINE h == Hex(s)
           n == Len(s)
<1>1. n \in Nat /\ s = [i \in 1..n |-> s[i]] /\ \A i \in 1..n : s[i] \in Bytes
  OBVIOUS
<1>2. Len(h) = 2 * n /\ (2 * n) \div 2 = n
  <2>1. h = [i \in 1..(2 * n) |->
                IF i % 2 = 1 THEN s[(i + 1) \div 2] \div 16 ELSE s[i \div 2] % 16]
    BY DEF Hex
  <2> HIDE DEF h, n
  <2>2. 2 * n \in Nat
    BY <1>1
  <2> QED BY <1>1, <2>1, <2>2
<1>3. ASSUME NEW i \in 1..n
      PROVE  16 * h[2 * i - 1] + h[2 * i] = s[i]
  <2>1. 2 * i - 1 \in 1..(2 * n) /\ 2 * i \in 1..(2 * n)
    BY <1>1
  <2>2. /\ (2 * i - 1) % 2 = 1 /\ ((2 * i - 1) + 1) \div 2 = i
        /\ (2 * i) % 2 # 1 /\ (2 * i) \div 2 = i
    BY <1>1
  <2>3. h[2 * i - 1] = s[i] \div 16 /\ h[2 * i] = s[i] % 16
    <3>1. \A j \in 1..(2 * n) :
             h[j] = IF j % 2 = 1 THEN s[(j + 1) \div 2] \div 16 ELSE s[j \div 2] % 16
      BY DEF Hex
    <3> HIDE DEF h, n
    <3> QED BY <2>1, <2>2, <3>1
  <2>4. s[i] \in Bytes
    BY <1>1
  <2> DEFINE v == s[i]
  <2>5. 16 * (v \div 16) + (v % 16) = v
    <3> HIDE DEF v
    <3>1. v \in 0..255
      BY <2>4 DEF Bytes, v
    <3> QED BY <3>1
  <2> HIDE DEF h
  <2> QED BY <2>3, <2>5
<1>4. FromHex(h) = [i \in 1..n |-> 16 * h[2 * i - 1] + h[2 * i]]
  <2> HIDE DEF h, n
  <2> QED BY <1>2 DEF FromHex
<1> HIDE DEF n
<1> QED BY <1>1, <1>3, <1>4

(* Encrypting with the repeated key twice is doing nothing                 *)
(* (XORStreamCipher).                                                      *)
LEMMA XorStreamUndone ==
  ASSUME NEW s \in Seq(Bytes), NEW key \in Seq(Bytes), Len(key) > 0
  PROVE  XorStream(s, key) \in Seq(Bytes) /\ XorStream(XorStream(s, key), key) = s
         /\ Len(XorStream(s, key)) = Len(s)
<1> DEFINE n == Len(s)
           K(i) == key[((i - 1) % Len(key)) + 1]
           x == XorStream(s, key)
<1>1. n \in Nat /\ DOMAIN s = 1..n /\ s = [i \in 1..n |-> s[i]]
      /\ \A i \in 1..n : s[i] \in Bytes
  OBVIOUS
<1>2. \A i \in 1..n : K(i) \in Bytes
  <2> TAKE i \in 1..n
  <2>1. Len(key) \in Nat /\ i - 1 \in Int
    OBVIOUS
  <2>2. (i - 1) % Len(key) \in 0..(Len(key) - 1)
    BY <2>1, ModDef
  <2> QED BY <2>1, <2>2
<1> HIDE DEF K
<1>3. x = [i \in 1..n |-> Xor(s[i], K(i))]
  BY <1>1 DEF XorStream, K
<1>4. \A i \in 1..n : x[i] \in Bytes /\ Xor(x[i], K(i)) = s[i]
  <2> HIDE DEF x, n
  <2> TAKE i \in 1..n
  <2>1. s[i] \in Bytes
    BY <1>1
  <2>2. K(i) \in Bytes
    BY <1>2
  <2>3. x[i] = Xor(s[i], K(i))
    BY <1>3
  <2> QED BY <2>1, <2>2, <2>3, XorUndone
<1>5. x \in Seq(Bytes) /\ Len(x) = n /\ DOMAIN x = 1..n
  <2> HIDE DEF x, n
  <2>1. x \in [1..n -> Bytes]
    BY <1>3, <1>4
  <2>2. n \in Nat
    BY <1>1
  <2> QED BY ONLY <2>1, <2>2
<1>6. XorStream(x, key) = [i \in 1..n |-> Xor(x[i], K(i))]
  <2> HIDE DEF x, n
  <2> QED BY <1>5 DEF XorStream, K
<1>7. XorStream(x, key) = s
  <2> HIDE DEF x, n
  <2> QED BY <1>1, <1>4, <1>6
<1> QED BY <1>5, <1>7

-----------------------------------------------------------------------------
(* Joining sequences.                                                      *)

(* Induction on sequences. *)
LEMMA SequenceInduction ==
  ASSUME NEW S, NEW P, << >> \in P,
         \A s \in Seq(S), e \in S : s \in P => Append(s, e) \in P
  PROVE  \A s \in Seq(S) : s \in P
<1> DEFINE mu == [s \in Seq(S) |-> Len(s)]
<1>1. mu \in [Seq(S) -> Nat]
  OBVIOUS
<1>2. ASSUME NEW s \in Seq(S), \A t \in Seq(S) : mu[t] < mu[s] => t \in P
      PROVE  s \in P
  <2>1. CASE s = << >>
    BY <2>1
  <2>2. CASE s # << >>
    <3>1. PICK t \in Seq(S), e \in S : s = Append(t, e)
      BY <2>2, SequenceEmptyOrAppend
    <3>2. Len(s) = Len(t) + 1 /\ Len(t) \in Nat
      BY <3>1, AppendProperties, LenProperties
    <3>3. t \in P
      BY <3>2, <1>2
    <3> QED BY <3>1, <3>3
  <2> QED BY <2>1, <2>2
<1> DEFINE T == Seq(S)
<1>3. mu \in [T -> Nat] /\ \A s \in T : (\A t \in T : mu[t] < mu[s] => t \in P) => s \in P
  BY <1>1, <1>2
<1>4. T \subseteq P
  <2> HIDE DEF mu, T
  <2> QED BY <1>3, MeasureInduction
<1> QED BY <1>4

(* Joining is defined by its recursion. *)
LEMMA FlattenDefined ==
  ASSUME NEW A, NEW ss \in Seq(Seq(A)), Len(ss) > 0
  PROVE  \E f \in [1..Len(ss) -> Seq(A)] :
            /\ FlattenSeq(ss) = f[Len(ss)]
            /\ f[1] = ss[1]
            /\ \A i \in 2..Len(ss) : f[i] = f[i - 1] \o ss[i]
<1> DEFINE n == Len(ss)
           S == 1..n
           T == Seq(A)
           Body(f) == [i \in 1..n |-> IF i = 1 THEN ss[i] ELSE f[i - 1] \o ss[i]]
           flatten == CHOOSE f : f = Body(f)
           mu == [i \in S |-> i]
           c == [i \in S |-> ss[i]]
           next == [i \in S |-> IF i = 1 THEN 1 ELSE i - 1]
           G == [i \in S |-> [v \in T |-> v \o ss[i]]]
           B == {1}
<1>1. n \in Nat /\ n > 0 /\ \A i \in S : ss[i] \in T
  OBVIOUS
<1>2. \A v, w \in T : v \o w \in T
  BY ConcatProperties
<1>3. Recursion(S, T, B, mu, c, next, G)
  <2>1. mu \in [S -> Nat] /\ c \in [S -> T]
    BY <1>1
  <2>2. next \in [S -> S]
    BY <1>1
  <2>3. G \in [S -> [T -> T]]
    <3> HIDE DEF S, T, n
    <3> QED BY <1>1, <1>2
  <2>4. \A i \in S \ B : mu[next[i]] < mu[i]
    <3> TAKE i \in S \ B
    <3>1. i \in Nat /\ i \in S /\ i # 1 /\ next[i] \in S
      BY <1>1, <2>2
    <3>2. i - 1 < i /\ next[i] = i - 1
      BY <3>1
    <3> HIDE DEF next
    <3>3. mu[next[i]] = i - 1 /\ mu[i] = i
      BY <3>1, <3>2
    <3> QED BY <3>2, <3>3
  <2> HIDE DEF S, T, mu, c, next, G, B
  <2> QED BY <2>1, <2>2, <2>3, <2>4 DEF Recursion
<1>4. PICK f \in [S -> T] :
         \A i \in S : f[i] = IF i \in B THEN c[i] ELSE G[i][f[next[i]]]
  <2> HIDE DEF S, T, mu, c, next, G, B
  <2> QED BY ONLY <1>3, RecursionDefined
<1>5. \A i \in S : f[i] = IF i = 1 THEN ss[i] ELSE f[i - 1] \o ss[i]
  <2> TAKE i \in S
  <2>1. CASE i = 1
    BY <1>4, <2>1
  <2>2. CASE i # 1
    <3>1. next[i] = i - 1 /\ i - 1 \in S
      BY <2>2, <1>1
    <3>2. f[i] = G[i][f[next[i]]]
      <4> HIDE DEF next, G, c, mu, S
      <4> QED BY <1>4, <2>2
    <3>3. G[i][f[i - 1]] = f[i - 1] \o ss[i]
      <4>1. f[i - 1] \in T
        BY <3>1
      <4> HIDE DEF T, S
      <4> QED BY <4>1
    <3> HIDE DEF next, G, S, T
    <3> QED BY <3>1, <3>2, <3>3, <2>2
  <2> QED BY <2>1, <2>2
<1>6. f = Body(f)
  <2> HIDE DEF mu, c, next, G, B
  <2> QED BY <1>5
<1>7. flatten = Body(flatten)
  <2> HIDE DEF Body
  <2> QED BY <1>6
<1>8. \A i \in S : flatten[i] = IF i = 1 THEN ss[i] ELSE flatten[i - 1] \o ss[i]
  <2> HIDE DEF flatten
  <2> QED BY <1>7
<1>9. DOMAIN flatten = S
  <2> HIDE DEF flatten
  <2> QED BY <1>7
<1>10. FlattenSeq(ss) = flatten[n]
  BY <1>1 DEF FlattenSeq
<1> HIDE DEF flatten
<1>11. \A i \in Nat : i \in {j \in Nat : j + 1 \in S => flatten[j + 1] \in T}
  <2> DEFINE P == {j \in Nat : j + 1 \in S => flatten[j + 1] \in T}
  <2>1. 0 \in P
    BY <1>1, <1>8
  <2>2. ASSUME NEW j \in Nat, j \in P
        PROVE  j + 1 \in P
    <3> SUFFICES ASSUME (j + 1) + 1 \in S
                 PROVE  flatten[(j + 1) + 1] \in T
      OBVIOUS
    <3>1. j + 1 \in S /\ (j + 1) + 1 # 1 /\ ((j + 1) + 1) - 1 = j + 1
      BY <1>1
    <3>2. flatten[(j + 1) + 1] = flatten[j + 1] \o ss[(j + 1) + 1]
      <4> HIDE DEF S
      <4> QED BY <3>1, <1>8
    <3>3. flatten[j + 1] \in T
      BY <2>2, <3>1
    <3> HIDE DEF S, T
    <3> QED BY <3>2, <3>3, <1>1, <1>2
  <2> HIDE DEF P
  <2>3. \A j \in Nat : j \in P
    BY <2>1, <2>2, SetInduction
  <2> QED BY <2>3 DEF P
<1>12. \A i \in S : flatten[i] \in T
  <2> TAKE i \in S
  <2>1. i - 1 \in Nat /\ i = (i - 1) + 1
    BY <1>1
  <2> HIDE DEF T
  <2> QED BY <2>1, <1>11
<1>13. flatten \in [S -> T]
  <2> HIDE DEF S, T
  <2> QED BY <1>7, <1>9, <1>12
<1>14. 1 \in S /\ flatten[1] = ss[1]
  BY <1>1, <1>8
<1>15. \A i \in 2..n : flatten[i] = flatten[i - 1] \o ss[i]
  <2> TAKE i \in 2..n
  <2>1. i \in S /\ i # 1
    BY <1>1
  <2> HIDE DEF S
  <2> QED BY <2>1, <1>8
<1> HIDE DEF n
<1> QED BY <1>10, <1>13, <1>14, <1>15 DEF n

(* Joining gives a sequence. *)
LEMMA FlattenType ==
  ASSUME NEW A, NEW ss \in Seq(Seq(A))
  PROVE  FlattenSeq(ss) \in Seq(A)
<1>1. CASE Len(ss) = 0
  <2>1. FlattenSeq(ss) = << >>
    BY <1>1 DEF FlattenSeq
  <2> QED BY <2>1
<1>2. CASE Len(ss) > 0
  <2>1. PICK f \in [1..Len(ss) -> Seq(A)] : FlattenSeq(ss) = f[Len(ss)]
    BY <1>2, FlattenDefined
  <2>2. Len(ss) \in 1..Len(ss)
    BY <1>2
  <2> QED BY <2>1, <2>2
<1> QED BY <1>1, <1>2

(* Joining one more piece puts it at the end. *)
LEMMA FlattenAppend ==
  ASSUME NEW A, NEW ss \in Seq(Seq(A)), NEW s \in Seq(A)
  PROVE  FlattenSeq(Append(ss, s)) = FlattenSeq(ss) \o s
<1> DEFINE n == Len(ss)
           tt == Append(ss, s)
<1>1. n \in Nat
  OBVIOUS
<1>2. /\ tt \in Seq(Seq(A)) /\ Len(tt) = n + 1 /\ tt[n + 1] = s
      /\ \A i \in 1..n : tt[i] = ss[i]
  BY AppendProperties
<1> HIDE DEF tt
<1>3. PICK g \in [1..(n + 1) -> Seq(A)] :
         /\ FlattenSeq(tt) = g[n + 1]
         /\ g[1] = tt[1]
         /\ \A i \in 2..(n + 1) : g[i] = g[i - 1] \o tt[i]
  <2>1. tt \in Seq(Seq(A)) /\ Len(tt) > 0
    BY <1>1, <1>2
  <2>2. \E g \in [1..Len(tt) -> Seq(A)] :
           /\ FlattenSeq(tt) = g[Len(tt)]
           /\ g[1] = tt[1]
           /\ \A i \in 2..Len(tt) : g[i] = g[i - 1] \o tt[i]
    BY <2>1, FlattenDefined
  <2> QED BY <1>2, <2>2
<1>4. CASE n = 0
  <2>1. FlattenSeq(ss) = << >> /\ ss = << >>
    BY <1>4 DEF FlattenSeq
  <2>2. FlattenSeq(tt) = s
    BY <1>2, <1>3, <1>4
  <2> QED BY <2>1, <2>2, ConcatEmptySeq DEF tt
<1>5. CASE n > 0
  <2>1. PICK f \in [1..n -> Seq(A)] :
           /\ FlattenSeq(ss) = f[n]
           /\ f[1] = ss[1]
           /\ \A i \in 2..n : f[i] = f[i - 1] \o ss[i]
    BY <1>5, FlattenDefined
  <2> DEFINE P == {j \in Nat : j + 1 \in 1..n => f[j + 1] = g[j + 1]}
  <2>2. \A j \in Nat : j \in P
    <3>1. 0 \in P
      BY <1>1, <1>2, <1>3, <1>5, <2>1
    <3>2. ASSUME NEW j \in Nat, j \in P
          PROVE  j + 1 \in P
      <4> SUFFICES ASSUME (j + 1) + 1 \in 1..n
                   PROVE  f[(j + 1) + 1] = g[(j + 1) + 1]
        OBVIOUS
      <4> DEFINE k == (j + 1) + 1
      <4>1. k \in 2..n /\ k \in 2..(n + 1) /\ k \in 1..n /\ k - 1 = j + 1 /\ j + 1 \in 1..n
        BY <1>1
      <4>2. f[j + 1] = g[j + 1]
        BY <3>2, <4>1
      <4> HIDE DEF k
      <4>3. f[k] = f[k - 1] \o ss[k] /\ g[k] = g[k - 1] \o tt[k] /\ tt[k] = ss[k]
        BY <1>2, <1>3, <2>1, <4>1
      <4>4. f[k] = g[k]
        BY <4>1, <4>2, <4>3
      <4> QED BY <4>4 DEF k
    <3> HIDE DEF P
    <3> QED BY <3>1, <3>2, SetInduction
  <2>3. f[n] = g[n]
    <3>1. n - 1 \in Nat /\ (n - 1) + 1 = n /\ n \in 1..n
      BY <1>1, <1>5
    <3> QED BY <2>2, <3>1
  <2>4. g[n + 1] = g[n] \o s
    <3>1. n + 1 \in 2..(n + 1) /\ (n + 1) - 1 = n
      BY <1>1, <1>5
    <3> QED BY <1>2, <1>3, <3>1
  <2> QED BY <1>3, <2>1, <2>3, <2>4 DEF tt
<1> QED BY <1>1, <1>4, <1>5

-----------------------------------------------------------------------------
(* UTF-8: what is encoded decodes to the text it was.                      *)

(* What Encode makes of a character, and Decode of the byte at i. *)
Encoded(c) ==
    IF c < 128 THEN <<c>> ELSE <<192 + c \div 64, 128 + (c % 64)>>
DecodedAt(bytes, i) ==
    IF bytes[i] < 128 THEN <<bytes[i]>>
    ELSE IF bytes[i] \in 194..223 /\ i < Len(bytes)
            /\ bytes[i + 1] \in 128..191
      THEN <<(bytes[i] - 192) * 64 + bytes[i + 1] - 128>>
    ELSE <<>>

(* The characters of one or two bytes. *)
Points == 0..2047

(* A character is one or two bytes. *)
LEMMA EncodedType ==
  ASSUME NEW c \in Points
  PROVE  Encoded(c) \in Seq(Bytes) /\ Len(Encoded(c)) > 0
<1>1. CASE c < 128
  <2>1. Encoded(c) = <<c>>
    BY <1>1 DEF Encoded
  <2>2. c \in Bytes
    BY <1>1 DEF Points, Bytes
  <2> QED BY <2>1, <2>2
<1>2. CASE c >= 128
  <2> DEFINE l == 192 + c \div 64
             t == 128 + (c % 64)
  <2>1. l \in Bytes /\ t \in Bytes
    BY <1>2 DEF Points, Bytes
  <2>2. Encoded(c) = <<l, t>>
    BY <1>2 DEF Encoded, Points
  <2> HIDE DEF l, t
  <2> QED BY <2>1, <2>2
<1> QED BY <1>1, <1>2 DEF Points

(* The pieces that F makes of the elements of a sequence, joined. *)
FlatMap(F, text) == FlattenSeq([i \in DOMAIN text |-> F[text[i]]])

(* It is a sequence, and one more element adds its piece.                  *)
JoinsNext(F, B, text, c) ==
    /\ FlatMap(F, text) \in Seq(B)
    /\ FlatMap(F, Append(text, c)) = FlatMap(F, text) \o F[c]

(* It is so for every function and sequence.                               *)
LEMMA FlattenMapAppend ==
  ASSUME NEW A, NEW B, NEW F \in [A -> Seq(B)], NEW text \in Seq(A), NEW c \in A
  PROVE  JoinsNext(F, B, text, c)
<1> DEFINE more == Append(text, c)
           p == [i \in DOMAIN text |-> F[text[i]]]
           q == [i \in DOMAIN more |-> F[more[i]]]
           n == Len(text)
           T == Seq(B)
<1>1. /\ more \in Seq(A) /\ Len(more) = n + 1 /\ more[n + 1] = c /\ n \in Nat
      /\ \A i \in 1..n : more[i] = text[i]
  BY AppendProperties
<1>2. DOMAIN text = 1..n /\ DOMAIN more = 1..(n + 1)
  BY <1>1
<1> HIDE DEF more
<1>3. \A i \in 1..n : text[i] \in A
  OBVIOUS
<1>4. p \in Seq(T) /\ Len(p) = n
  <2>1. p = [i \in 1..n |-> F[text[i]]]
    BY <1>2
  <2>2. \A i \in 1..n : F[text[i]] \in T
    BY <1>3
  <2> HIDE DEF T, n
  <2> QED BY <1>1, <2>1, <2>2
<1>5. F[c] \in T
  OBVIOUS
<1> DEFINE r == Append(p, F[c])
<1> HIDE DEF T
<1>6. /\ r \in Seq(T) /\ Len(r) = n + 1 /\ r[n + 1] = F[c]
      /\ \A i \in 1..n : r[i] = p[i]
  <2> DEFINE x == F[c]
  <2>1. p \in Seq(T) /\ x \in T /\ Len(p) = n
    BY <1>4, <1>5
  <2> HIDE DEF p, x, n
  <2>2. /\ Append(p, x) \in Seq(T) /\ Len(Append(p, x)) = n + 1
        /\ Append(p, x)[n + 1] = x
        /\ \A i \in 1..n : Append(p, x)[i] = p[i]
    BY <2>1, AppendProperties
  <2> QED BY <2>2 DEF x
<1>7. q[n + 1] = F[c] /\ \A i \in 1..n : q[i] = p[i]
  <2>1. n + 1 \in 1..(n + 1) /\ \A i \in 1..n : i \in 1..(n + 1)
    BY <1>1
  <2> QED BY <1>1, <1>2, <2>1
<1>8. q \in Seq(T) /\ Len(q) = n + 1
  <2>1. q = [i \in 1..(n + 1) |-> F[more[i]]]
    BY <1>2
  <2>2. \A i \in 1..(n + 1) : F[more[i]] \in T
    BY <1>1 DEF T
  <2> HIDE DEF n
  <2>3. n + 1 \in Nat
    BY <1>1
  <2> QED BY <2>1, <2>2, <2>3
<1> HIDE DEF p, q, r
<1>9. \A i \in 1..(n + 1) : q[i] = r[i]
  <2> TAKE i \in 1..(n + 1)
  <2>1. i = n + 1 \/ i \in 1..n
    BY <1>1
  <2> QED BY <2>1, <1>6, <1>7
<1>10. q = r
  BY <1>6, <1>8, <1>9, SeqEqual
<1>11. FlattenSeq(r) = FlattenSeq(p) \o F[c]
  <2>1. p \in Seq(Seq(B)) /\ F[c] \in Seq(B)
    BY <1>4, <1>5 DEF T
  <2> QED BY <2>1, FlattenAppend DEF r
<1>12. FlattenSeq(p) \in Seq(B)
  BY <1>4, FlattenType DEF T
<1> QED BY <1>10, <1>11, <1>12 DEF JoinsNext, FlatMap, p, q, more

(* Texts are encoded to bytes, and one more character at the end. *)
LEMMA EncodeAppend ==
  ASSUME NEW text \in Seq(Points), NEW c \in Points
  PROVE  Encode(text) \in Seq(Bytes) /\ Encode(Append(text, c)) = Encode(text) \o Encoded(c)
<1> DEFINE F == [d \in Points |-> Encoded(d)]
<1>1. F \in [Points -> Seq(Bytes)] /\ F[c] = Encoded(c)
  BY EncodedType
<1>2. ASSUME NEW t \in Seq(Points)
      PROVE  Encode(t) = FlatMap(F, t)
  <2>1. \A i \in DOMAIN t : F[t[i]] = Encoded(t[i])
    OBVIOUS
  <2>2. [i \in DOMAIN t |-> Encoded(t[i])] = [i \in DOMAIN t |-> F[t[i]]]
    BY <2>1
  <2> QED BY <2>2 DEF FlatMap, Encode, Encoded
<1>3. Append(text, c) \in Seq(Points)
  BY AppendProperties
<1> HIDE DEF F
<1>4. JoinsNext(F, Bytes, text, c)
  BY <1>1, FlattenMapAppend
<1> QED BY <1>1, <1>2, <1>3, <1>4 DEF JoinsNext

(* Texts are encoded to bytes. *)
LEMMA EncodeType ==
  ASSUME NEW text \in Seq(Points)
  PROVE  Encode(text) \in Seq(Bytes)
<1>1. 0 \in Points
  BY DEF Points
<1> QED BY <1>1, EncodeAppend

(* The first and the second byte of a character of two. *)
Leads == 194..223
Follows == 128..191
Paired(l, t) == (l - 192) * 64 + t - 128

(* Two such bytes are a character. *)
LEMMA PairDecodes ==
  ASSUME NEW l \in Leads, NEW t \in Follows
  PROVE  Paired(l, t) \in Points
BY DEF Points, Paired, Leads, Follows

(* What is decoded are characters. *)
LEMMA DecodedAtType ==
  ASSUME NEW bytes \in Seq(Bytes), NEW i \in 1..Len(bytes)
  PROVE  DecodedAt(bytes, i) \in Seq(Points)
<1>1. bytes[i] \in Bytes
  OBVIOUS
<1>2. CASE bytes[i] < 128
  <2>1. bytes[i] \in Points /\ DecodedAt(bytes, i) = <<bytes[i]>>
    BY <1>1, <1>2 DEF DecodedAt, Bytes, Points
  <2> QED BY <2>1
<1>3. CASE ~(bytes[i] < 128) /\ bytes[i] \in 194..223 /\ i < Len(bytes)
                             /\ bytes[i + 1] \in 128..191
  <2> DEFINE c == (bytes[i] - 192) * 64 + bytes[i + 1] - 128
  <2>1. c \in Points
    <3>1. bytes[i] \in Leads /\ bytes[i + 1] \in Follows
      BY <1>3 DEF Leads, Follows
    <3>2. Paired(bytes[i], bytes[i + 1]) \in Points
      BY <3>1, PairDecodes
    <3> QED BY <3>2 DEF Paired
  <2>2. DecodedAt(bytes, i) = <<c>>
    BY <1>3 DEF DecodedAt
  <2> HIDE DEF c
  <2> QED BY <2>1, <2>2
<1>4. CASE ~(bytes[i] < 128) /\ ~(bytes[i] \in 194..223 /\ i < Len(bytes)
                                  /\ bytes[i + 1] \in 128..191)
  <2>1. DecodedAt(bytes, i) = << >>
    BY <1>4 DEF DecodedAt
  <2> QED BY <2>1
<1> QED BY <1>2, <1>3, <1>4

(* Decoding joins what is decoded at each byte. *)
LEMMA DecodeIsFlatten ==
  ASSUME NEW bytes \in Seq(Bytes)
  PROVE  LET p == [i \in 1..Len(bytes) |-> DecodedAt(bytes, i)]
         IN  /\ Decode(bytes) = FlattenSeq(p)
             /\ p \in Seq(Seq(Points)) /\ Len(p) = Len(bytes)
             /\ \A i \in 1..Len(bytes) : p[i] = DecodedAt(bytes, i)
<1> DEFINE p == [i \in 1..Len(bytes) |-> DecodedAt(bytes, i)]
<1>1. Decode(bytes) = FlattenSeq(p)
  <2>1. DOMAIN bytes = 1..Len(bytes)
    OBVIOUS
  <2> QED BY <2>1 DEF Decode, DecodedAt
<1>2. \A i \in 1..Len(bytes) : p[i] \in Seq(Points)
  BY DecodedAtType
<1>3. Len(bytes) \in Nat
  OBVIOUS
<1>4. p \in Seq(Seq(Points)) /\ Len(p) = Len(bytes)
  BY <1>2, <1>3
<1> QED BY <1>1, <1>4

(* What comes next does not change what was decoded, if it is not the      *)
(* second byte of a character.                                             *)
LEMMA DecodedAtStable ==
  ASSUME NEW bytes \in Seq(Bytes), NEW x \in Bytes, NEW i \in 1..Len(bytes),
         i < Len(bytes) \/ x \notin 128..191
  PROVE  DecodedAt(Append(bytes, x), i) = DecodedAt(bytes, i)
<1> DEFINE T == Bytes
<1>1. /\ Len(Append(bytes, x)) = Len(bytes) + 1 /\ Len(bytes) \in Nat
      /\ Append(bytes, x)[Len(bytes) + 1] = x
      /\ \A j \in 1..Len(bytes) : Append(bytes, x)[j] = bytes[j]
  <2>1. bytes \in Seq(T) /\ x \in T
    OBVIOUS
  <2> HIDE DEF T
  <2> QED BY <2>1, AppendProperties, LenProperties
<1>2. PICK more, n : more = Append(bytes, x) /\ n = Len(bytes)
  OBVIOUS
<1>3. /\ Len(more) = n + 1 /\ n \in Nat /\ more[n + 1] = x /\ n = Len(bytes)
      /\ \A j \in 1..n : more[j] = bytes[j]
  BY <1>1, <1>2
<1>4. i \in 1..n /\ (i < n \/ x \notin 128..191)
  BY <1>3
<1>5. more[i] = bytes[i]
  BY <1>3, <1>4
<1>6. IF i < n THEN more[i + 1] = bytes[i + 1] ELSE more[i + 1] \notin 128..191
  <2>1. CASE i < n
    <3>1. i + 1 \in 1..n
      BY <1>3, <1>4, <2>1
    <3> QED BY <1>3, <2>1, <3>1
  <2>2. CASE ~(i < n)
    <3>1. n \in Nat /\ i \in 1..n
      BY <1>3, <1>4
    <3>2. i = n
      BY <2>2, <3>1
    <3> QED BY <1>3, <1>4, <2>2, <3>2
  <2> QED BY <2>1, <2>2
<1>7. DecodedAt(more, i) = DecodedAt(bytes, i)
  <2>1. CASE i < n
    <3>1. more[i + 1] = bytes[i + 1] /\ i < Len(bytes) /\ i < Len(more)
      BY <1>3, <1>4, <1>6, <2>1
    <3> QED BY <3>1, <1>5 DEF DecodedAt
  <2>2. CASE ~(i < n)
    <3>1. more[i + 1] \notin 128..191 /\ ~(i < Len(bytes))
      BY <1>3, <1>6, <2>2
    <3> QED BY <3>1, <1>5 DEF DecodedAt
  <2> QED BY <2>1, <2>2
<1> QED BY <1>2, <1>7

(* The pieces that bytes decode to. *)
DecodesTo(bytes, p) ==
    /\ p \in Seq(Seq(Points))
    /\ Len(p) = Len(bytes)
    /\ \A i \in 1..Len(bytes) : p[i] = DecodedAt(bytes, i)

(* Decoding joins the pieces. *)
LEMMA DecodeJoins ==
  ASSUME NEW bytes \in Seq(Bytes), NEW p, DecodesTo(bytes, p)
  PROVE  Decode(bytes) = FlattenSeq(p)
<1> DEFINE q == [i \in 1..Len(bytes) |-> DecodedAt(bytes, i)]
           T == Seq(Points)
           n == Len(bytes)
<1>1. n \in Nat
  OBVIOUS
<1>2. /\ Decode(bytes) = FlattenSeq(q) /\ q \in Seq(T) /\ Len(q) = n
      /\ \A i \in 1..n : q[i] = DecodedAt(bytes, i)
  BY DecodeIsFlatten
<1>3. p \in Seq(T) /\ Len(p) = n /\ \A i \in 1..n : p[i] = DecodedAt(bytes, i)
  BY DEF DecodesTo
<1> HIDE DEF q, T, n
<1>4. \A i \in 1..n : p[i] = q[i]
  BY <1>2, <1>3
<1>5. p = q
  BY <1>1, <1>2, <1>3, <1>4, SeqEqual
<1> QED BY <1>2, <1>5

(* All bytes decode to some pieces. *)
LEMMA DecodesToExists ==
  ASSUME NEW bytes \in Seq(Bytes)
  PROVE  \E p : DecodesTo(bytes, p)
<1> DEFINE q == [i \in 1..Len(bytes) |-> DecodedAt(bytes, i)]
<1>1. /\ q \in Seq(Seq(Points)) /\ Len(q) = Len(bytes)
      /\ \A i \in 1..Len(bytes) : q[i] = DecodedAt(bytes, i)
  BY DecodeIsFlatten
<1> HIDE DEF q
<1>2. DecodesTo(bytes, q)
  BY <1>1 DEF DecodesTo
<1> QED BY <1>2

(* One more byte decodes to one more piece. *)
LEMMA DecodesToAppend ==
  ASSUME NEW bytes \in Seq(Bytes), NEW x \in Bytes, NEW p, NEW piece \in Seq(Points),
         p \in Seq(Seq(Points)), Len(p) = Len(bytes),
         \A i \in 1..Len(bytes) : p[i] = DecodedAt(Append(bytes, x), i),
         piece = DecodedAt(Append(bytes, x), Len(bytes) + 1)
  PROVE  DecodesTo(Append(bytes, x), Append(p, piece))
<1> DEFINE more == Append(bytes, x)
           n == Len(bytes)
           q == Append(p, piece)
           T == Seq(Points)
<1>1. Len(more) = n + 1 /\ n \in Nat
  BY AppendProperties
<1>2. p \in Seq(T) /\ piece \in T
  OBVIOUS
<1>3. /\ q \in Seq(T) /\ Len(q) = n + 1 /\ q[n + 1] = piece
      /\ \A i \in 1..n : q[i] = p[i]
  <2> HIDE DEF T
  <2> QED BY <1>2, AppendProperties
<1>4. \A i \in 1..n : p[i] = DecodedAt(more, i)
  OBVIOUS
<1>5. piece = DecodedAt(more, n + 1)
  OBVIOUS
<1> HIDE DEF more, q
<1>6. \A i \in 1..Len(more) : q[i] = DecodedAt(more, i)
  <2> TAKE i \in 1..Len(more)
  <2>1. i = n + 1 \/ i \in 1..n
    BY <1>1
  <2> HIDE DEF n, T
  <2> QED BY <2>1, <1>3, <1>4, <1>5
<1>7. q \in Seq(Seq(Points)) /\ Len(q) = Len(more)
  BY <1>1, <1>3
<1>8. DecodesTo(more, q)
  BY <1>6, <1>7 DEF DecodesTo
<1> QED BY <1>8 DEF more, q

(* A byte below 128 adds its character. *)
LEMMA DecodeSingle ==
  ASSUME NEW bytes \in Seq(Bytes), NEW x \in 0..127
  PROVE  Decode(Append(bytes, x)) = Decode(bytes) \o <<x>>
<1> DEFINE more == Append(bytes, x)
           piece == <<x>>
<1>1. x \in Bytes /\ x \in Points /\ x \notin 128..191
  BY DEF Bytes, Points
<1>2. PICK p : DecodesTo(bytes, p)
  BY DecodesToExists
<1>3. /\ p \in Seq(Seq(Points)) /\ Len(p) = Len(bytes)
      /\ \A i \in 1..Len(bytes) : p[i] = DecodedAt(bytes, i)
  BY <1>2 DEF DecodesTo
<1>4. \A i \in 1..Len(bytes) : p[i] = DecodedAt(Append(bytes, x), i)
  BY <1>1, <1>3, DecodedAtStable
<1>5. piece = DecodedAt(Append(bytes, x), Len(bytes) + 1)
  <2>1. Append(bytes, x)[Len(bytes) + 1] = x
    BY <1>1, AppendProperties
  <2> QED BY <2>1 DEF DecodedAt
<1>6. piece \in Seq(Points)
  BY <1>1
<1> HIDE DEF piece
<1>7. DecodesTo(more, Append(p, piece))
  BY <1>1, <1>3, <1>4, <1>5, <1>6, DecodesToAppend
<1>8. more \in Seq(Bytes)
  BY <1>1, AppendProperties
<1>9. Decode(more) = FlattenSeq(Append(p, piece))
  <2> HIDE DEF more
  <2> QED BY <1>7, <1>8, DecodeJoins
<1>10. FlattenSeq(Append(p, piece)) = FlattenSeq(p) \o piece
  BY <1>3, <1>6, FlattenAppend
<1>11. Decode(bytes) = FlattenSeq(p)
  BY <1>2, DecodeJoins
<1> QED BY <1>9, <1>10, <1>11 DEF piece, more

(* The two bytes of a character add the character. *)
LEMMA DecodePair ==
  ASSUME NEW bytes \in Seq(Bytes), NEW l \in Leads, NEW t \in Follows
  PROVE  Decode(Append(Append(bytes, l), t)) = Decode(bytes) \o <<Paired(l, t)>>
<1> DEFINE n == Len(bytes)
           some == Append(bytes, l)
           more == Append(some, t)
           c == Paired(l, t)
           piece == <<c>>
           none == << >>
           T == Seq(Points)
<1>1. l \in Bytes /\ t \in Bytes /\ l \notin 128..191 /\ c \in Points
  <2>1. l \in Bytes /\ t \in Bytes /\ l \notin 128..191
    BY DEF Bytes, Leads, Follows
  <2> QED BY <2>1, PairDecodes
<1>2. PICK p : DecodesTo(bytes, p)
  BY DecodesToExists
<1>3. /\ p \in Seq(Seq(Points)) /\ Len(p) = n /\ n \in Nat
      /\ \A i \in 1..n : p[i] = DecodedAt(bytes, i)
  BY <1>2 DEF DecodesTo
<1>4. some \in Seq(Bytes) /\ Len(some) = n + 1 /\ some[n + 1] = l
  BY <1>1, AppendProperties
<1>5. \A i \in 1..n : p[i] = DecodedAt(some, i)
  BY <1>1, <1>3, DecodedAtStable
<1> HIDE DEF some
<1>6. /\ more \in Seq(Bytes) /\ Len(more) = n + 2 /\ more[n + 2] = t
      /\ \A i \in 1..(n + 1) : more[i] = some[i]
  <2>1. /\ more \in Seq(Bytes) /\ Len(more) = Len(some) + 1 /\ more[Len(some) + 1] = t
        /\ \A i \in 1..Len(some) : more[i] = some[i]
    <3>1. some \in Seq(Bytes) /\ t \in Bytes
      BY <1>1, <1>4
    <3> QED BY ONLY <3>1, AppendProperties DEF more
  <2>2. Len(some) = n + 1 /\ Len(some) + 1 = n + 2
    BY <1>3, <1>4
  <2> HIDE DEF more
  <2> QED BY <2>1, <2>2
<1>7. \A i \in 1..n : p[i] = DecodedAt(more, i)
  <2> TAKE i \in 1..n
  <2>1. i \in 1..Len(some) /\ i < Len(some)
    BY <1>3, <1>4
  <2>2. DecodedAt(more, i) = DecodedAt(some, i)
    BY <2>1, <1>1, <1>4, DecodedAtStable
  <2> HIDE DEF more, n
  <2> QED BY <2>2, <1>5
<1> HIDE DEF more
<1>8. piece = DecodedAt(more, n + 1)
  <2>1. more[n + 1] = l /\ more[(n + 1) + 1] = t /\ n + 1 < Len(more)
    BY <1>3, <1>4, <1>6
  <2> QED BY <2>1 DEF DecodedAt, Leads, Follows, Paired
<1>9. none = DecodedAt(more, n + 2)
  <2>1. more[n + 2] = t /\ ~(n + 2 < Len(more)) /\ ~(t < 128)
    BY <1>3, <1>6 DEF Follows
  <2> QED BY <2>1 DEF DecodedAt
<1>10. piece \in T /\ p \in Seq(T) /\ none \in T
  <2>1. piece \in T
    <3> HIDE DEF c
    <3> QED BY <1>1
  <2> QED BY <2>1, <1>3
<1> DEFINE q == Append(p, piece)
           r == Append(q, none)
<1> HIDE DEF piece, none, c, T
<1>11. /\ q \in Seq(T) /\ Len(q) = n + 1 /\ q[n + 1] = piece
       /\ \A i \in 1..n : q[i] = p[i]
  BY <1>3, <1>10, AppendProperties
<1> HIDE DEF q
<1>12. \A i \in 1..(n + 1) : q[i] = DecodedAt(more, i)
  <2> TAKE i \in 1..(n + 1)
  <2>1. i = n + 1 \/ i \in 1..n
    BY <1>3
  <2> HIDE DEF n
  <2> QED BY <2>1, <1>7, <1>8, <1>11
<1>13. DecodesTo(more, r)
  <2>1. q \in Seq(Seq(Points)) /\ none \in Seq(Points)
    BY <1>10, <1>11 DEF T
  <2>2. Len(q) = Len(some)
    BY <1>4, <1>11
  <2>3. \A i \in 1..Len(some) : q[i] = DecodedAt(Append(some, t), i)
    BY <1>4, <1>12 DEF more
  <2>4. none = DecodedAt(Append(some, t), Len(some) + 1)
    <3>1. Len(some) + 1 = n + 2
      BY <1>3, <1>4
    <3> QED BY <3>1, <1>9 DEF more
  <2>5. DecodesTo(Append(some, t), Append(q, none))
    <3> HIDE DEF n
    <3> QED BY <1>1, <1>4, <2>1, <2>2, <2>3, <2>4, DecodesToAppend
  <2> QED BY <2>5 DEF more
<1>14. Decode(more) = FlattenSeq(r)
  BY <1>6, <1>13, DecodeJoins
<1>15. FlattenSeq(r) = FlattenSeq(q) \o none
  <2>1. q \in Seq(Seq(Points)) /\ none \in Seq(Points)
    BY <1>10, <1>11 DEF T
  <2> QED BY <2>1, FlattenAppend
<1>16. FlattenSeq(q) = FlattenSeq(p) \o piece
  <2>1. p \in Seq(Seq(Points)) /\ piece \in Seq(Points)
    BY <1>10 DEF T
  <2> QED BY <2>1, FlattenAppend DEF q
<1>17. FlattenSeq(q) \o none = FlattenSeq(q)
  <2>1. FlattenSeq(q) \in Seq(Points)
    BY <1>11, FlattenType DEF T
  <2> QED BY <2>1, ConcatEmptySeq DEF none
<1>18. Decode(bytes) = FlattenSeq(p)
  BY <1>2, DecodeJoins
<1> QED BY <1>14, <1>15, <1>16, <1>17, <1>18 DEF more, some, piece, c

(* Characters of one byte, and of two. *)
LEMMA PointsSplit ==
  ASSUME NEW c \in Points
  PROVE  /\ c < 128 => c \in 0..127
         /\ ~(c < 128) => /\ 192 + c \div 64 \in Leads /\ 128 + (c % 64) \in Follows
                          /\ Paired(192 + c \div 64, 128 + (c % 64)) = c
<1>1. c < 128 => c \in 0..127
  BY DEF Points
<1>2. ASSUME ~(c < 128)
      PROVE  /\ 192 + c \div 64 \in Leads /\ 128 + (c % 64) \in Follows
             /\ Paired(192 + c \div 64, 128 + (c % 64)) = c
  <2> DEFINE q == c \div 64
             r == c % 64
  <2>1. q \in 2..31 /\ r \in 0..63 /\ c = 64 * q + r
    BY <1>2 DEF Points
  <2> HIDE DEF q, r
  <2>2. /\ 192 + q \in Leads /\ 128 + r \in Follows
        /\ Paired(192 + q, 128 + r) = c
    BY <2>1 DEF Leads, Follows, Paired
  <2> QED BY <2>2 DEF q, r
<1> QED BY <1>1, <1>2

(* What a text is encoded to decodes to the text: of characters of one or  *)
(* two bytes nothing is lost between encode() of the sender and decode()   *)
(* of the reader (XORStreamCipher, MiniBlockCipher).                       *)
THEOREM EncodeReadBack ==
  ASSUME NEW text \in Seq(Points)
  PROVE  Decode(Encode(text)) = text
<1> DEFINE P == {s \in Seq(Points) : Decode(Encode(s)) = s}
<1>1. << >> \in P
  <2>1. Encode(<< >>) = << >>
    BY DEF Encode, FlattenSeq
  <2>2. Decode(<< >>) = << >>
    BY DEF Decode, FlattenSeq
  <2> QED BY <2>1, <2>2
<1>2. ASSUME NEW s \in Seq(Points), NEW c \in Points, s \in P
      PROVE  Append(s, c) \in P
  <2> DEFINE e == Encode(s)
  <2>1. e \in Seq(Bytes) /\ Decode(e) = s /\ Append(s, c) \in Seq(Points)
    BY <1>2, EncodeType, AppendProperties
  <2>2. Encode(Append(s, c)) = e \o Encoded(c)
    BY EncodeAppend
  <2> HIDE DEF e
  <2>3. s \o <<c>> = Append(s, c)
    OBVIOUS
  <2>4. CASE c < 128
    <3>1. Encoded(c) = <<c>> /\ c \in 0..127
      BY <2>4, PointsSplit DEF Encoded
    <3>2. e \o <<c>> = Append(e, c)
      BY <2>1, <3>1 DEF Bytes
    <3>3. Decode(Append(e, c)) = s \o <<c>>
      BY <2>1, <3>1, DecodeSingle
    <3> QED BY <2>1, <2>2, <2>3, <3>1, <3>2, <3>3
  <2>5. CASE ~(c < 128)
    <3> DEFINE l == 192 + c \div 64
               t == 128 + (c % 64)
    <3>1. l \in Leads /\ t \in Follows /\ Paired(l, t) = c
      BY <2>5, PointsSplit
    <3>2. Encoded(c) = <<l, t>>
      BY <2>5 DEF Encoded
    <3> HIDE DEF l, t
    <3>3. e \o <<l, t>> = Append(Append(e, l), t)
      <4>1. l \in Bytes /\ t \in Bytes
        BY <3>1 DEF Bytes, Leads, Follows
      <4> QED BY <2>1, <4>1
    <3>4. Decode(Append(Append(e, l), t)) = s \o <<Paired(l, t)>>
      BY <2>1, <3>1, DecodePair
    <3> QED BY <2>1, <2>2, <2>3, <3>1, <3>2, <3>3, <3>4
  <2> QED BY <2>4, <2>5
<1>3. \A s \in Seq(Points), c \in Points : s \in P => Append(s, c) \in P
  BY <1>2
<1>4. \A s \in Seq(Points) : s \in P
  <2> HIDE DEF P
  <2> QED BY <1>1, <1>3, SequenceInduction
<1> QED BY <1>4

-----------------------------------------------------------------------------
(* The block cipher: one block.                                            *)

(* The blocks of MiniBlockCipher. *)
Block == [1..8 -> Bytes]

(* The inverse box undoes the box. *)
LEMMA SBoxUndone ==
  ASSUME NEW v \in 0..15
  PROVE  SBox[v + 1] \in 0..15 /\ InvSBox[SBox[v + 1]] = v
<1>1. \A n \in 0..15 :
         /\ n = 0 => SBox[n + 1] = 14
         /\ n = 1 => SBox[n + 1] = 4
         /\ n = 2 => SBox[n + 1] = 13
         /\ n = 3 => SBox[n + 1] = 1
         /\ n = 4 => SBox[n + 1] = 2
         /\ n = 5 => SBox[n + 1] = 15
         /\ n = 6 => SBox[n + 1] = 11
         /\ n = 7 => SBox[n + 1] = 8
         /\ n = 8 => SBox[n + 1] = 3
         /\ n = 9 => SBox[n + 1] = 10
         /\ n = 10 => SBox[n + 1] = 6
         /\ n = 11 => SBox[n + 1] = 12
         /\ n = 12 => SBox[n + 1] = 5
         /\ n = 13 => SBox[n + 1] = 9
         /\ n = 14 => SBox[n + 1] = 0
         /\ n = 15 => SBox[n + 1] = 7
  BY DEF SBox
<1>2. \A n \in 0..15 : SBox[n + 1] \in 0..15
  BY <1>1
<1>3. \A m, n \in 0..15 : SBox[m + 1] = SBox[n + 1] => m = n
  BY <1>1
<1> DEFINE w == SBox[v + 1]
<1>4. InvSBox[w] = CHOOSE n \in 0..15 : SBox[n + 1] = w
  BY <1>2 DEF InvSBox
<1>5. (CHOOSE n \in 0..15 : SBox[n + 1] = w) \in 0..15
      /\ SBox[(CHOOSE n \in 0..15 : SBox[n + 1] = w) + 1] = w
  OBVIOUS
<1> QED BY <1>2, <1>3, <1>4, <1>5

(* Two halves make a byte, and are read from it. *)
LEMMA HalvesOfByte ==
  ASSUME NEW x \in 0..15, NEW y \in 0..15
  PROVE  16 * x + y \in Bytes /\ (16 * x + y) \div 16 = x /\ (16 * x + y) % 16 = y
BY DEF Bytes

(* A byte is made of its halves. *)
LEMMA ByteIsItsHalves ==
  ASSUME NEW b \in Bytes
  PROVE  b \div 16 \in 0..15 /\ b % 16 \in 0..15 /\ 16 * (b \div 16) + (b % 16) = b
BY DEF Bytes

(* Substituting is undone by the inverse box. *)
LEMMA SubstituteUndone ==
  ASSUME NEW b \in Block
  PROVE  Substitute(b) \in Block /\ InvSubstitute(Substitute(b)) = b
<1>1. ASSUME NEW i \in 1..8
      PROVE  /\ Substitute(b)[i] \in Bytes
             /\ InvSubstitute(Substitute(b))[i] = b[i]
  <2> DEFINE h == b[i] \div 16
             l == b[i] % 16
             s == SBox[h + 1]
             t == SBox[l + 1]
             c == 16 * s + t
  <2>1. b[i] \in Bytes
    BY DEF Block
  <2>2. h \in 0..15 /\ l \in 0..15 /\ 16 * h + l = b[i]
    BY <2>1, ByteIsItsHalves
  <2>3. Substitute(b)[i] = c
    BY DEF Substitute
  <2> HIDE DEF h, l
  <2>4. s \in 0..15 /\ t \in 0..15 /\ InvSBox[s] = h /\ InvSBox[t] = l
    BY <2>2, SBoxUndone
  <2> HIDE DEF s, t
  <2>5. c \in Bytes /\ c \div 16 = s /\ c % 16 = t
    BY <2>4, HalvesOfByte
  <2>6. InvSubstitute(Substitute(b))[i] = 16 * InvSBox[c \div 16] + InvSBox[c % 16]
    BY <2>3 DEF InvSubstitute
  <2> QED BY <2>2, <2>3, <2>4, <2>5, <2>6
<1>2. Substitute(b) = [i \in 1..8 |-> Substitute(b)[i]]
  BY DEF Substitute
<1>3. InvSubstitute(Substitute(b)) = [i \in 1..8 |-> InvSubstitute(Substitute(b))[i]]
  BY DEF InvSubstitute
<1>4. b = [i \in 1..8 |-> b[i]]
  BY DEF Block
<1> QED BY <1>1, <1>2, <1>3, <1>4 DEF Block

(* The inverse places undo the places. *)
LEMMA PlacesUndone ==
  ASSUME NEW i \in 1..8
  PROVE  /\ Places[i] + 1 \in 1..8 /\ InvPlaces[i] + 1 \in 1..8
         /\ Places[InvPlaces[i] + 1] + 1 = i
<1>1. /\ i = 1 => Places[i] = 7 /\ InvPlaces[i] = 1
      /\ i = 2 => Places[i] = 0 /\ InvPlaces[i] = 5
      /\ i = 3 => Places[i] = 5 /\ InvPlaces[i] = 3
      /\ i = 4 => Places[i] = 2 /\ InvPlaces[i] = 7
      /\ i = 5 => Places[i] = 6 /\ InvPlaces[i] = 6
      /\ i = 6 => Places[i] = 1 /\ InvPlaces[i] = 2
      /\ i = 7 => Places[i] = 4 /\ InvPlaces[i] = 4
      /\ i = 8 => Places[i] = 3 /\ InvPlaces[i] = 0
  BY DEF Places, InvPlaces
<1>2. /\ Places[1] = 7 /\ Places[2] = 0 /\ Places[3] = 5 /\ Places[4] = 2
      /\ Places[5] = 6 /\ Places[6] = 1 /\ Places[7] = 4 /\ Places[8] = 3
  BY DEF Places
<1> QED BY <1>1, <1>2

(* Permuting is undone by the inverse places. *)
LEMMA PermuteUndone ==
  ASSUME NEW b \in Block
  PROVE  Permute(b) \in Block /\ InvPermute(Permute(b)) = b
<1>1. ASSUME NEW i \in 1..8
      PROVE  /\ Permute(b)[i] \in Bytes
             /\ InvPermute(Permute(b))[i] = b[i]
  <2> DEFINE k == InvPlaces[i] + 1
  <2>1. k \in 1..8 /\ Places[i] + 1 \in 1..8 /\ Places[k] + 1 = i
    BY PlacesUndone
  <2>2. Permute(b)[i] = b[Places[i] + 1]
    BY DEF Permute
  <2>3. InvPermute(Permute(b))[i] = Permute(b)[k]
    BY DEF InvPermute
  <2> HIDE DEF k
  <2>4. Permute(b)[k] = b[Places[k] + 1]
    BY <2>1 DEF Permute
  <2> QED BY <2>1, <2>2, <2>3, <2>4 DEF Block
<1>2. Permute(b) = [i \in 1..8 |-> Permute(b)[i]]
  BY DEF Permute
<1>3. InvPermute(Permute(b)) = [i \in 1..8 |-> InvPermute(Permute(b))[i]]
  BY DEF InvPermute
<1>4. b = [i \in 1..8 |-> b[i]]
  BY DEF Block
<1> QED BY <1>1, <1>2, <1>3, <1>4 DEF Block

(* A block is a sequence of eight bytes. *)
LEMMA BlockIsSequence ==
  ASSUME NEW b
  PROVE  b \in Block <=> b \in Seq(Bytes) /\ Len(b) = 8
<1>1. ASSUME b \in Block
      PROVE  b \in Seq(Bytes) /\ Len(b) = 8
  <2>1. PICK n \in Nat : n = 8
    OBVIOUS
  <2>2. b = [i \in 1..n |-> b[i]] /\ \A i \in 1..n : b[i] \in Bytes
    BY <1>1, <2>1 DEF Block
  <2>3. b \in Seq(Bytes) /\ Len(b) = n
    BY <2>2
  <2> QED BY <2>1, <2>3
<1>2. ASSUME b \in Seq(Bytes), Len(b) = 8
      PROVE  b \in Block
  <2>1. b \in [1..Len(b) -> Bytes]
    BY <1>2, LenProperties
  <2> QED BY <1>2, <2>1 DEF Block
<1> QED BY <1>1, <1>2

(* Adding the key a second time undoes it. *)
LEMMA BlockXorUndone ==
  ASSUME NEW b \in Block, NEW k \in Block
  PROVE  XorStream(b, k) \in Block /\ XorStream(XorStream(b, k), k) = b
<1>1. b \in Seq(Bytes) /\ Len(b) = 8 /\ k \in Seq(Bytes) /\ Len(k) > 0
  BY BlockIsSequence
<1>2. /\ XorStream(b, k) \in Seq(Bytes) /\ XorStream(XorStream(b, k), k) = b
      /\ Len(XorStream(b, k)) = Len(b)
  BY <1>1, XorStreamUndone
<1> QED BY <1>1, <1>2, BlockIsSequence

(* A block is decrypted to what it was: every step of every round is       *)
(* undone, in the reverse order (encrypt_block, decrypt_block).            *)
LEMMA BlockUndone ==
  ASSUME NEW b \in Block, NEW k \in Block
  PROVE  EncryptBlock(b, k) \in Block /\ DecryptBlock(EncryptBlock(b, k), k) = b
<1> DEFINE x == XorStream(b, k)
           s == Substitute(x)
           p == Permute(s)
           e == XorStream(p, k)
<1>1. x \in Block /\ XorStream(x, k) = b
  BY BlockXorUndone
<1>2. s \in Block /\ InvSubstitute(s) = x
  BY <1>1, SubstituteUndone
<1>3. p \in Block /\ InvPermute(p) = s
  BY <1>2, PermuteUndone
<1>4. e \in Block /\ XorStream(e, k) = p
  BY <1>3, BlockXorUndone
<1>5. EncryptBlock(b, k) = e
  BY DEF EncryptBlock
<1>6. DecryptBlock(e, k) = XorStream(InvSubstitute(InvPermute(XorStream(e, k))), k)
  BY DEF DecryptBlock
<1> HIDE DEF x, s, p, e
<1> QED BY <1>1, <1>2, <1>3, <1>4, <1>5, <1>6

-----------------------------------------------------------------------------
(* The block cipher: padding and blocks.                                   *)

(* Padding fills the last block, or adds one. *)
LEMMA PaddingLength ==
  ASSUME NEW n \in Nat
  PROVE  /\ 8 - (n % 8) \in 1..8
         /\ n + (8 - (n % 8)) = 8 * (n \div 8 + 1)
         /\ n \div 8 + 1 \in Nat
OBVIOUS

(* What padding adds, and that its last byte tells how much. *)
LEMMA PadProperties ==
  ASSUME NEW d \in Seq(Bytes)
  PROVE  LET l == 8 - (Len(d) % 8)
         IN  /\ l \in 1..8
             /\ Pad(d) \in Seq(Bytes)
             /\ Len(Pad(d)) = Len(d) + l
             /\ \A i \in 1..Len(d) : Pad(d)[i] = d[i]
             /\ Pad(d)[Len(d) + l] = l
<1> DEFINE n == Len(d)
           l == 8 - (n % 8)
           q == [i \in 1..l |-> l]
<1>1. n \in Nat
  OBVIOUS
<1>2. l \in 1..8 /\ l \in Bytes
  BY <1>1, PaddingLength DEF Bytes
<1>3. Pad(d) = d \o q
  BY DEF Pad
<1> HIDE DEF l
<1>4. q \in Seq(Bytes) /\ Len(q) = l /\ q[l] = l
  <2>1. l \in Nat /\ l \in 1..l
    BY <1>2
  <2>2. \A i \in 1..l : q[i] \in Bytes
    BY <1>2
  <2> QED BY <2>1, <2>2
<1> HIDE DEF q
<1>5. /\ d \o q \in Seq(Bytes) /\ Len(d \o q) = n + l
      /\ \A i \in 1..(n + l) : (d \o q)[i] = IF i <= n THEN d[i] ELSE q[i - n]
  BY <1>4, ConcatProperties
<1>6. \A i \in 1..n : i \in 1..(n + l) /\ i <= n
  BY <1>1, <1>2
<1>7. n + l \in 1..(n + l) /\ ~(n + l <= n) /\ (n + l) - n = l
  BY <1>1, <1>2
<1>8. (d \o q)[n + l] = l
  <2> HIDE DEF n
  <2> QED BY <1>4, <1>5, <1>7
<1>9. \A i \in 1..n : (d \o q)[i] = d[i]
  BY <1>5, <1>6
<1> QED BY <1>2, <1>3, <1>5, <1>8, <1>9 DEF l

(* Padding can be taken off (_pad, _unpad). *)
LEMMA PadUndone ==
  ASSUME NEW d \in Seq(Bytes)
  PROVE  Unpad(Pad(d)) = d
<1> DEFINE n == Len(d)
           T == Bytes
<1>1. PICK l, p : l = 8 - (n % 8) /\ p = Pad(d)
  OBVIOUS
<1>2. /\ n \in Nat /\ l \in 1..8 /\ p \in Seq(Bytes) /\ Len(p) = n + l
      /\ p[n + l] = l /\ \A i \in 1..n : p[i] = d[i]
  <2>1. LET m == 8 - (Len(d) % 8)
        IN  /\ m \in 1..8
            /\ Pad(d) \in Seq(Bytes)
            /\ Len(Pad(d)) = Len(d) + m
            /\ \A i \in 1..Len(d) : Pad(d)[i] = d[i]
            /\ Pad(d)[Len(d) + m] = m
    BY PadProperties
  <2>2. n \in Nat
    OBVIOUS
  <2> QED BY <1>1, <2>1, <2>2
<1>3. p # << >> /\ Last(p) = l
  BY <1>2 DEF Last
<1>4. Unpad(p) = SubSeq(p, 1, n)
  <2>1. /\ ~(Last(p) > 8) /\ ~(Last(p) > Len(p)) /\ Last(p) # 0
        /\ Len(p) - Last(p) = n
    BY <1>2, <1>3
  <2> QED BY <1>3, <2>1 DEF Unpad
<1>5. \A i \in 1..n : p[i] \in T
  BY <1>2
<1> DEFINE s == SubSeq(p, 1, n)
<1>6. s \in Seq(T) /\ Len(s) = n /\ \A i \in 1..n : s[i] = p[i]
  <2>1. 1 \in Int /\ n \in Int
    BY <1>2
  <2>2. /\ s \in Seq(T) /\ Len(s) = (IF 1 <= n THEN n - 1 + 1 ELSE 0)
        /\ \A i \in 1..(n - 1 + 1) : s[i] = p[1 + i - 1]
    <3> HIDE DEF T, n
    <3> QED BY <1>5, <2>1, SubSeqProperties
  <2>3. n - 1 + 1 = n /\ \A i \in 1..n : 1 + i - 1 = i
    BY <1>2
  <2>4. (IF 1 <= n THEN n - 1 + 1 ELSE 0) = n
    BY <1>2
  <2> HIDE DEF s, n, T
  <2> QED BY <2>2, <2>3, <2>4
<1>7. d \in Seq(T)
  OBVIOUS
<1>8. s = d
  <2> HIDE DEF s, T
  <2> QED BY <1>2, <1>6, <1>7, SeqEqual
<1> QED BY <1>1, <1>4, <1>8

(* Every place of the text is a place of a block. *)
LEMMA PlaceInBlocks ==
  ASSUME NEW k \in Nat, NEW i \in 1..(8 * k)
  PROVE  LET j == (i - 1) \div 8 + 1  r == ((i - 1) % 8) + 1
         IN j \in 1..k /\ r \in 1..8 /\ i = 8 * j - 8 + r
OBVIOUS

(* Every place of a block is a place of the text. *)
LEMMA PlaceOfPair ==
  ASSUME NEW k \in Nat, NEW j \in 1..k, NEW r \in 1..8
  PROVE  LET i == 8 * j - 8 + r
         IN i \in 1..(8 * k) /\ (i - 1) \div 8 + 1 = j /\ ((i - 1) % 8) + 1 = r
OBVIOUS

(* What a text is cut into. *)
LEMMA BlocksProperties ==
  ASSUME NEW d \in Seq(Bytes), NEW k \in Nat, Len(d) = 8 * k
  PROVE  /\ Blocks(d) \in [1..k -> Block]
         /\ \A j \in 1..k, r \in 1..8 : Blocks(d)[j][r] = d[8 * j - 8 + r]
<1>1. Len(d) \div 8 = k
  <2>1. (8 * k) \div 8 = k
    OBVIOUS
  <2> QED BY <2>1
<1>2. Blocks(d) = [j \in 1..k |-> SubSeq(d, 8 * j - 7, 8 * j)]
  BY <1>1 DEF Blocks
<1>3. ASSUME NEW j \in 1..k
      PROVE  /\ SubSeq(d, 8 * j - 7, 8 * j) \in Block
             /\ \A r \in 1..8 : SubSeq(d, 8 * j - 7, 8 * j)[r] = d[8 * j - 8 + r]
  <2>1. PICK m, n : m = 8 * j - 7 /\ n = 8 * j
    OBVIOUS
  <2>2. m \in Int /\ n \in Int /\ m <= n /\ n - m + 1 = 8 /\ m \in 1..Len(d) /\ n \in 1..Len(d)
    BY <2>1
  <2>3. \A i \in m..n : d[i] \in Bytes
    <3>1. \A i \in m..n : i \in 1..Len(d)
      BY <2>2
    <3> QED BY <3>1
  <2>4. /\ SubSeq(d, m, n) \in Seq(Bytes) /\ Len(SubSeq(d, m, n)) = 8
        /\ \A r \in 1..8 : SubSeq(d, m, n)[r] = d[m + r - 1]
    BY <2>2, <2>3, SubSeqProperties
  <2>5. \A r \in 1..8 : m + r - 1 = 8 * j - 8 + r
    BY <2>1
  <2>6. SubSeq(d, m, n) \in Block
    BY <2>4, BlockIsSequence
  <2>7. SubSeq(d, 8 * j - 7, 8 * j) = SubSeq(d, m, n)
    BY <2>1
  <2> QED BY <2>4, <2>5, <2>6, <2>7
<1> QED BY <1>2, <1>3

(* What blocks are joined to. *)
LEMMA JoinedProperties ==
  ASSUME NEW k \in Nat, NEW bs \in [1..k -> Block]
  PROVE  /\ Joined(bs) \in Seq(Bytes) /\ Len(Joined(bs)) = 8 * k
         /\ \A j \in 1..k, r \in 1..8 : Joined(bs)[8 * j - 8 + r] = bs[j][r]
<1> DEFINE J(i) == (i - 1) \div 8 + 1
           R(i) == ((i - 1) % 8) + 1
           n == 8 * k
<1>1. Len(bs) = k
  <2>1. bs = [j \in 1..k |-> bs[j]] /\ \A j \in 1..k : bs[j] \in Block
    OBVIOUS
  <2> QED BY <2>1
<1>2. Joined(bs) = [i \in 1..n |-> bs[J(i)][R(i)]] /\ n \in Nat
  BY <1>1 DEF Joined
<1>3. \A i \in 1..n : bs[J(i)][R(i)] \in Bytes
  <2> TAKE i \in 1..n
  <2>1. J(i) \in 1..k /\ R(i) \in 1..8
    BY PlaceInBlocks
  <2> HIDE DEF J, R
  <2>2. bs[J(i)] \in Block
    BY <2>1
  <2> QED BY <2>1, <2>2 DEF Block
<1>4. Joined(bs) \in Seq(Bytes) /\ Len(Joined(bs)) = n
  <2> HIDE DEF n, J, R
  <2> QED BY <1>2, <1>3
<1>5. ASSUME NEW j \in 1..k, NEW r \in 1..8
      PROVE  Joined(bs)[8 * j - 8 + r] = bs[j][r]
  <2> DEFINE i == 8 * j - 8 + r
  <2>1. i \in 1..n /\ J(i) = j /\ R(i) = r
    BY PlaceOfPair
  <2> HIDE DEF i, J, R, n
  <2>2. Joined(bs)[i] = bs[J(i)][R(i)]
    BY <1>2, <2>1
  <2> QED BY <2>1, <2>2 DEF i
<1> QED BY <1>4, <1>5

(* Joining undoes cutting. *)
LEMMA JoinedBlocks ==
  ASSUME NEW d \in Seq(Bytes), NEW k \in Nat, Len(d) = 8 * k
  PROVE  Joined(Blocks(d)) = d
<1>1. PICK bs : bs = Blocks(d)
  OBVIOUS
<1>2. bs \in [1..k -> Block] /\ \A j \in 1..k, r \in 1..8 : bs[j][r] = d[8 * j - 8 + r]
  BY <1>1, BlocksProperties
<1>3. PICK e : e = Joined(bs)
  OBVIOUS
<1>4. /\ e \in Seq(Bytes) /\ Len(e) = 8 * k
      /\ \A j \in 1..k, r \in 1..8 : e[8 * j - 8 + r] = bs[j][r]
  BY <1>2, <1>3, JoinedProperties
<1>5. \A i \in 1..(8 * k) : e[i] = d[i]
  <2> TAKE i \in 1..(8 * k)
  <2>1. PICK j \in 1..k, r \in 1..8 : i = 8 * j - 8 + r
    BY PlaceInBlocks
  <2> QED BY <1>2, <1>4, <2>1
<1>6. e = d
  BY <1>4, <1>5, SeqEqual
<1> QED BY <1>1, <1>3, <1>6

(* Cutting undoes joining. *)
LEMMA BlocksJoined ==
  ASSUME NEW k \in Nat, NEW bs \in [1..k -> Block]
  PROVE  Blocks(Joined(bs)) = bs
<1>1. PICK d : d = Joined(bs)
  OBVIOUS
<1>2. /\ d \in Seq(Bytes) /\ Len(d) = 8 * k
      /\ \A j \in 1..k, r \in 1..8 : d[8 * j - 8 + r] = bs[j][r]
  BY <1>1, JoinedProperties
<1>3. PICK cs : cs = Blocks(d)
  OBVIOUS
<1>4. cs \in [1..k -> Block] /\ \A j \in 1..k, r \in 1..8 : cs[j][r] = d[8 * j - 8 + r]
  BY <1>2, <1>3, BlocksProperties
<1>5. \A j \in 1..k : cs[j] = bs[j]
  <2> TAKE j \in 1..k
  <2>1. cs[j] \in [1..8 -> Bytes] /\ bs[j] \in [1..8 -> Bytes]
    BY <1>4 DEF Block
  <2>2. \A r \in 1..8 : cs[j][r] = bs[j][r]
    <3> TAKE r \in 1..8
    <3>1. cs[j][r] = d[8 * j - 8 + r]
      BY <1>4
    <3>2. d[8 * j - 8 + r] = bs[j][r]
      BY <1>2
    <3> QED BY ONLY <3>1, <3>2
  <2>3. cs[j] = [r \in 1..8 |-> cs[j][r]] /\ bs[j] = [r \in 1..8 |-> bs[j][r]]
    BY ONLY <2>1
  <2> QED BY ONLY <2>2, <2>3
<1>6. cs = bs
  BY <1>4, <1>5
<1> QED BY <1>1, <1>3, <1>6

(* What the block cipher encrypts, padded, it decrypts and strips of the   *)
(* padding (MiniBlockCipher).                                              *)
THEOREM BlockCipherUndone ==
  ASSUME NEW d \in Seq(Bytes), NEW key \in Block
  PROVE  BlockEncrypt(d, key) \in Seq(Bytes) /\ BlockDecrypt(BlockEncrypt(d, key), key) = d
<1> DEFINE n == Len(d)
<1>1. PICK p, k : p = Pad(d) /\ k = n \div 8 + 1
  OBVIOUS
<1>2. k \in Nat /\ p \in Seq(Bytes) /\ Len(p) = 8 * k
  <2>1. n \in Nat
    OBVIOUS
  <2>2. p \in Seq(Bytes) /\ Len(p) = n + (8 - (n % 8))
    BY <1>1, PadProperties
  <2> QED BY <1>1, <2>1, <2>2, PaddingLength
<1>3. PICK bs : bs = Blocks(p)
  OBVIOUS
<1>4. bs \in [1..k -> Block] /\ Joined(bs) = p
  BY <1>2, <1>3, BlocksProperties, JoinedBlocks
<1>5. PICK es : es = [j \in 1..k |-> EncryptBlock(bs[j], key)]
  OBVIOUS
<1>6. es \in [1..k -> Block] /\ \A j \in 1..k : DecryptBlock(es[j], key) = bs[j]
  BY <1>4, <1>5, BlockUndone
<1>7. PICK e : e = Joined(es)
  OBVIOUS
<1>8. BlockEncrypt(d, key) = e
  <2>1. DOMAIN bs = 1..k
    BY <1>4
  <2> QED BY <1>1, <1>3, <1>5, <1>7, <2>1 DEF BlockEncrypt
<1>9. e \in Seq(Bytes) /\ Blocks(e) = es
  BY <1>2, <1>6, <1>7, JoinedProperties, BlocksJoined
<1>10. BlockDecrypt(e, key) = Unpad(Joined([j \in DOMAIN es |-> DecryptBlock(es[j], key)]))
  BY <1>9 DEF BlockDecrypt
<1>11. [j \in DOMAIN es |-> DecryptBlock(es[j], key)] = bs
  <2>1. DOMAIN es = 1..k /\ bs = [j \in 1..k |-> bs[j]]
    BY <1>4, <1>6
  <2> QED BY <2>1, <1>6
<1>12. Unpad(p) = d
  BY <1>1, PadUndone
<1> QED BY <1>4, <1>8, <1>9, <1>10, <1>11, <1>12

-----------------------------------------------------------------------------
(* The letters: Caesar and Vigenere.                                       *)

(* Characters are code points of one or two bytes. *)
LEMMA CharactersArePoints ==
  ASSUME NEW c \in Characters
  PROVE  c \in Points /\ c \in Int
BY DEF Characters, Accented, SharpS, DotlessI, LongS, Points

(* The upper case of a letter, if it is one. *)
Capital(c) == ToUpper(c)[1]

(* What upper() makes of a character. *)
LEMMA UpperCase ==
  ASSUME NEW c \in Characters
  PROVE  /\ ToUpper(c) \in Seq(Int) /\ Len(ToUpper(c)) > 0
         /\ Len(ToUpper(c)) <= 1 => ToUpper(c) = <<Capital(c)>>
         /\ Capital(c) \in Int
         /\ c \notin Letters => Capital(c) = c
         /\ c \in 65..90 => Capital(c) = c
<1>1. c \in Int
  BY CharactersArePoints
<1>2. CASE c \in (97..122) \cup {233}
  <2>1. /\ c \in Letters /\ c \notin 65..90
        /\ c # SharpS /\ c # DotlessI /\ c # LongS
    BY <1>2 DEF Letters, SharpS, DotlessI, LongS
  <2>2. ToUpper(c) = <<c - 32>>
    BY <1>2, <2>1 DEF ToUpper
  <2> QED BY <1>1, <2>1, <2>2 DEF Capital
<1>3. CASE c = SharpS
  <2>1. /\ c \in Letters /\ c \notin 65..90
        /\ c \notin (97..122) \cup {233} /\ c # DotlessI /\ c # LongS
    BY <1>3 DEF Letters, SharpS, DotlessI, LongS
  <2>2. ToUpper(c) = <<83, 83>>
    BY <1>3, <2>1 DEF ToUpper
  <2> QED BY <1>1, <2>1, <2>2 DEF Capital
<1>4. CASE c = DotlessI
  <2>1. /\ c \in Letters /\ c \notin 65..90
        /\ c \notin (97..122) \cup {233} /\ c # SharpS /\ c # LongS
    BY <1>4 DEF Letters, SharpS, DotlessI, LongS
  <2>2. ToUpper(c) = <<73>>
    BY <1>4, <2>1 DEF ToUpper
  <2> QED BY <1>1, <2>1, <2>2 DEF Capital
<1>5. CASE c = LongS
  <2>1. /\ c \in Letters /\ c \notin 65..90
        /\ c \notin (97..122) \cup {233} /\ c # SharpS /\ c # DotlessI
    BY <1>5 DEF Letters, SharpS, DotlessI, LongS
  <2>2. ToUpper(c) = <<83>>
    BY <1>5, <2>1 DEF ToUpper
  <2> QED BY <1>1, <2>1, <2>2 DEF Capital
<1>6. CASE c \notin (97..122) \cup {233} /\ c # SharpS /\ c # DotlessI /\ c # LongS
  <2>1. ToUpper(c) = <<c>>
    BY <1>6 DEF ToUpper
  <2> QED BY <1>1, <2>1 DEF Capital
<1> QED BY <1>2, <1>3, <1>4, <1>5, <1>6

(* The upper case of a text, and of a text with one more character. *)
LEMMA UpperAppend ==
  ASSUME NEW text \in Seq(Characters), NEW c \in Characters
  PROVE  /\ UpperText(text) \in Seq(Int)
         /\ UpperText(Append(text, c)) = UpperText(text) \o ToUpper(c)
<1> DEFINE F == [d \in Characters |-> ToUpper(d)]
<1>1. F \in [Characters -> Seq(Int)] /\ F[c] = ToUpper(c)
  BY UpperCase
<1>2. ASSUME NEW t \in Seq(Characters)
      PROVE  UpperText(t) = FlatMap(F, t)
  <2>1. \A i \in DOMAIN t : F[t[i]] = ToUpper(t[i])
    OBVIOUS
  <2>2. [i \in DOMAIN t |-> ToUpper(t[i])] = [i \in DOMAIN t |-> F[t[i]]]
    BY <2>1
  <2> QED BY <2>2 DEF FlatMap, UpperText
<1>3. Append(text, c) \in Seq(Characters)
  BY AppendProperties
<1> HIDE DEF F
<1>4. JoinsNext(F, Int, text, c)
  BY <1>1, FlattenMapAppend
<1> QED BY <1>1, <1>2, <1>3, <1>4 DEF JoinsNext

(* The upper case of a text that is not empty is not empty. *)
LEMMA UpperNotEmpty ==
  ASSUME NEW text \in Seq(Characters), text # << >>
  PROVE  UpperText(text) \in Seq(Int) /\ Len(UpperText(text)) > 0
<1>1. PICK s \in Seq(Characters), c \in Characters : text = Append(s, c)
  BY SequenceEmptyOrAppend
<1>2. UpperText(text) = UpperText(s) \o ToUpper(c) /\ UpperText(s) \in Seq(Int)
  BY <1>1, UpperAppend
<1>3. ToUpper(c) \in Seq(Int) /\ Len(ToUpper(c)) > 0
  BY UpperCase
<1>4. /\ UpperText(s) \o ToUpper(c) \in Seq(Int)
      /\ Len(UpperText(s) \o ToUpper(c)) = Len(UpperText(s)) + Len(ToUpper(c))
  BY <1>2, <1>3, ConcatProperties
<1>5. Len(UpperText(s)) \in Nat /\ Len(ToUpper(c)) \in Nat
  BY <1>2, <1>3, LenProperties
<1> QED BY <1>2, <1>3, <1>4, <1>5

(* Character by character. *)
Capitals(text) == [i \in DOMAIN text |-> Capital(text[i])]

(* One more capital. *)
LEMMA CapitalsAppend ==
  ASSUME NEW s \in Seq(Characters), NEW c \in Characters
  PROVE  Capitals(Append(s, c)) = Capitals(s) \o <<Capital(c)>>
<1> DEFINE n == Len(s)
           more == Append(s, c)
           x == Capitals(s)
           y == Capitals(more)
           u == Capital(c)
<1>1. /\ more \in Seq(Characters) /\ Len(more) = n + 1 /\ more[n + 1] = c /\ n \in Nat
      /\ \A i \in 1..n : more[i] = s[i]
  BY AppendProperties
<1>2. DOMAIN s = 1..n /\ DOMAIN more = 1..(n + 1)
  BY <1>1
<1>3. \A d \in Characters : Capital(d) \in Int
  BY UpperCase
<1>4. x = [i \in 1..n |-> Capital(s[i])] /\ \A i \in 1..n : Capital(s[i]) \in Int
  BY <1>2, <1>3 DEF Capitals
<1> HIDE DEF more
<1>5. y = [i \in 1..(n + 1) |-> Capital(more[i])]
  BY <1>2 DEF Capitals
<1>6. \A i \in 1..(n + 1) : Capital(more[i]) \in Int
  BY <1>1, <1>3
<1>7. u \in Int /\ n + 1 \in Nat
  BY <1>1, <1>3
<1> HIDE DEF x, y, u, n
<1>8. x \in Seq(Int) /\ Len(x) = n
  BY <1>1, <1>4
<1>9. y \in Seq(Int) /\ Len(y) = n + 1
  BY <1>5, <1>6, <1>7
<1> DEFINE z == Append(x, u)
<1>10. /\ z \in Seq(Int) /\ Len(z) = n + 1 /\ z[n + 1] = u
       /\ \A i \in 1..n : z[i] = x[i]
  BY <1>7, <1>8, AppendProperties
<1>11. z = x \o <<u>>
  BY <1>7, <1>8
<1> HIDE DEF z
<1>12. \A i \in 1..(n + 1) : y[i] = z[i]
  <2> TAKE i \in 1..(n + 1)
  <2>1. y[i] = Capital(more[i])
    BY <1>5
  <2>2. CASE i = n + 1
    BY <2>1, <2>2, <1>1, <1>10 DEF u
  <2>3. CASE i \in 1..n
    BY <2>1, <2>3, <1>1, <1>4, <1>10
  <2> QED BY <2>2, <2>3, <1>1
<1>13. y = z
  BY <1>9, <1>10, <1>12, SeqEqual
<1> QED BY <1>11, <1>13 DEF x, y, u, more

(* A text for which Caesar does not raise is made upper case character by  *)
(* character.                                                              *)
LEMMA UpperIsCapitals ==
  ASSUME NEW text \in Seq(Characters), ~CaesarRaises(text)
  PROVE  UpperText(text) = Capitals(text)
<1> DEFINE P == {s \in Seq(Characters) : ~CaesarRaises(s) => UpperText(s) = Capitals(s)}
<1>1. << >> \in P
  <2>1. UpperText(<< >>) = << >>
    BY DEF UpperText, FlattenSeq
  <2>2. Capitals(<< >>) = << >>
    BY DEF Capitals
  <2> QED BY <2>1, <2>2
<1>2. ASSUME NEW s \in Seq(Characters), NEW c \in Characters, s \in P
      PROVE  Append(s, c) \in P
  <2>1. Append(s, c) \in Seq(Characters)
    BY AppendProperties
  <2> SUFFICES ASSUME ~CaesarRaises(Append(s, c))
               PROVE  UpperText(Append(s, c)) = Capitals(Append(s, c))
    BY <2>1
  <2> DEFINE more == Append(s, c)
             n == Len(s)
  <2>2. /\ Len(more) = n + 1 /\ more[n + 1] = c /\ n \in Nat
        /\ \A i \in 1..n : more[i] = s[i]
    BY AppendProperties
  <2>3. DOMAIN s = 1..n /\ DOMAIN more = 1..(n + 1)
    BY <2>1, <2>2
  <2>4. \A i \in 1..(n + 1) : ~(Len(ToUpper(more[i])) > 1)
    <3> HIDE DEF more
    <3>1. ~CaesarRaises(more)
      BY DEF more
    <3> QED BY <3>1, <2>3 DEF CaesarRaises
  <2> HIDE DEF more, n
  <2>5. ~CaesarRaises(s)
    <3>1. \A i \in 1..n : i \in 1..(n + 1)
      BY <2>2
    <3> QED BY <3>1, <2>2, <2>3, <2>4 DEF CaesarRaises
  <2>6. ToUpper(c) = <<Capital(c)>>
    <3>1. n + 1 \in 1..(n + 1)
      BY <2>2
    <3>2. ~(Len(ToUpper(c)) > 1)
      BY <3>1, <2>2, <2>4
    <3>3. ToUpper(c) \in Seq(Int)
      BY UpperCase
    <3>4. Len(ToUpper(c)) <= 1
      BY <3>2, <3>3
    <3> QED BY <3>4, UpperCase
  <2>7. UpperText(s) = Capitals(s)
    BY <1>2, <2>5
  <2>8. UpperText(Append(s, c)) = UpperText(s) \o ToUpper(c)
    BY UpperAppend
  <2>9. Capitals(Append(s, c)) = Capitals(s) \o <<Capital(c)>>
    BY CapitalsAppend
  <2> QED BY <2>6, <2>7, <2>8, <2>9
<1>3. \A s \in Seq(Characters), c \in Characters : s \in P => Append(s, c) \in P
  BY <1>2
<1>4. \A s \in Seq(Characters) : s \in P
  <2> HIDE DEF P
  <2> QED BY <1>1, <1>3, SequenceInduction
<1> QED BY <1>4

(* A shift of the alphabet and back is no shift. *)
LEMMA ShiftUndone ==
  ASSUME NEW u \in 0..25, NEW s \in Int
  PROVE  /\ (u + s) % 26 \in 0..25
         /\ (((u + s) % 26) - s) % 26 = u
OBVIOUS

(* Remainders are letters. *)
LEMMA RestOfLetters ==
  ASSUME NEW x \in Int
  PROVE  x % 26 \in 0..25
OBVIOUS

(* A letter and what Caesar makes of it. *)
Shifted(c, s) == IF c \in Letters THEN ((Capital(c) - 65 + s) % 26) + 65 ELSE c

(* A character is shifted back to its upper case just when Caesar does not *)
(* mistake it.                                                             *)
LEMMA ShiftedBack ==
  ASSUME NEW c \in Characters, NEW s \in Int
  PROVE  Shifted(Shifted(c, s), -s) = Capital(c) <=> c \notin Mistaken("Caesar")
<1>1. c \in Int /\ Capital(c) \in Int /\ (c \notin Letters => Capital(c) = c)
  BY CharactersArePoints, UpperCase
<1>2. c \in Mistaken("Caesar") <=> c \in Letters /\ Capital(c) \notin 65..90
  BY DEF Mistaken, Capital
<1>3. CASE c \notin Letters
  BY <1>1, <1>2, <1>3 DEF Shifted
<1>4. CASE c \in Letters
  <2> DEFINE v == Capital(c) - 65
             x == (v + s) % 26
             e == x + 65
             y == (x - s) % 26
  <2>1. v \in Int /\ v + s \in Int
    BY <1>1
  <2>2. Shifted(c, s) = e
    BY <1>4 DEF Shifted
  <2>3. x \in 0..25
    <3> HIDE DEF v
    <3> QED BY <2>1, RestOfLetters
  <2>4. v \in 0..25 => y = v
    <3> HIDE DEF v
    <3> QED BY ShiftUndone
  <2>5. v \in 0..25 <=> Capital(c) \in 65..90
    BY <1>1
  <2>6. Capital(c) = v + 65
    BY <1>1
  <2> HIDE DEF v, x
  <2>7. e \in 65..90 /\ e - 65 + (-s) = x - s /\ x - s \in Int
    BY <2>3
  <2>8. y \in 0..25
    BY <2>7, RestOfLetters
  <2>9. e \in Letters /\ Capital(e) = e
    <3> HIDE DEF e
    <3>1. e \in Characters /\ e \in Letters
      BY <2>7 DEF Characters, Letters, Uppers
    <3> QED BY <3>1, <2>7, UpperCase
  <2>10. Shifted(e, -s) = y + 65
    BY <2>7, <2>9 DEF Shifted
  <2> HIDE DEF e, y
  <2>11. CASE Capital(c) \in 65..90
    <3>1. y = v
      BY <2>4, <2>5, <2>11
    <3> QED BY <1>2, <2>2, <2>6, <2>10, <2>11, <3>1
  <2>12. CASE Capital(c) \notin 65..90
    <3>1. y + 65 \in 65..90
      BY <2>8
    <3> QED BY <1>2, <1>4, <2>2, <2>10, <2>12, <3>1
  <2> QED BY <2>11, <2>12
<1> QED BY <1>3, <1>4

(* No letter of a text is one that its cipher mistakes. *)
Faithful(text, method) == \A i \in DOMAIN text : text[i] \notin Mistaken(method)

(* Caesar's cipher is undone, in upper case, for just the texts without    *)
(* letters that it mistakes (CaesarCipher).                                *)
LEMMA CaesarUndone ==
  ASSUME NEW text \in Seq(Characters), NEW s \in Int, ~CaesarRaises(text)
  PROVE  Caesar(Caesar(text, s), -s) = UpperText(text) <=> Faithful(text, "Caesar")
<1> DEFINE D == DOMAIN text
           e == Caesar(text, s)
           d == Caesar(e, -s)
<1>1. e = [i \in D |-> Shifted(text[i], s)]
  BY DEF Caesar, Shifted, Capital
<1>2. d = [i \in D |-> Shifted(Shifted(text[i], s), -s)]
  <2> HIDE DEF e, D
  <2>1. DOMAIN e = D
    BY <1>1
  <2> QED BY <1>1, <2>1 DEF Caesar, Shifted, Capital
<1>3. UpperText(text) = [i \in D |-> Capital(text[i])]
  BY UpperIsCapitals DEF Capitals
<1>4. \A i \in D : text[i] \in Characters
  OBVIOUS
<1>5. \A i \in D : Shifted(Shifted(text[i], s), -s) = Capital(text[i])
                       <=> text[i] \notin Mistaken("Caesar")
  <2> HIDE DEF D
  <2> QED BY <1>4, ShiftedBack
<1>6. d = UpperText(text) <=> \A i \in D : Shifted(Shifted(text[i], s), -s) = Capital(text[i])
  <2> HIDE DEF d, D
  <2>1. ASSUME d = UpperText(text), NEW i \in D
        PROVE  Shifted(Shifted(text[i], s), -s) = Capital(text[i])
    <3>1. d[i] = UpperText(text)[i]
      BY <2>1
    <3> QED BY <3>1, <1>2, <1>3
  <2>2. ASSUME \A i \in D : Shifted(Shifted(text[i], s), -s) = Capital(text[i])
        PROVE  d = UpperText(text)
    BY <2>2, <1>2, <1>3
  <2> QED BY <2>1, <2>2
<1> HIDE DEF d
<1>7. d = UpperText(text) <=> Faithful(text, "Caesar")
  BY <1>5, <1>6 DEF Faithful
<1> QED BY <1>7 DEF d, e

(* A letter and what Vigenere makes of it, for one character of the key.   *)
Keyed(c, sign, k) ==
    IF c \in Letters THEN ((c - Base(c) + sign * (k - 65)) % 26) + Base(c) ELSE c

(* A character is shifted back by the same key character just when         *)
(* Vigenere does not mistake it.                                           *)
LEMMA KeyedLetter ==
  ASSUME NEW c \in Characters, NEW k \in Int
  PROVE  LET e == Keyed(c, 1, k)
         IN  /\ e \in Characters
             /\ e \in Letters <=> c \in Letters
             /\ Keyed(e, -1, k) = c <=> c \notin Mistaken("Vigenere")
<1>1. c \in Int
  BY CharactersArePoints
<1> DEFINE Strange == c > 127
<1>11. c \in Mistaken("Vigenere") <=> c \in Letters /\ Strange
  BY DEF Mistaken
<1>2. CASE c \notin Letters
  <2>1. Keyed(c, 1, k) = c /\ Keyed(c, -1, k) = c
    BY <1>2 DEF Keyed
  <2> QED BY <1>2, <1>11, <2>1
<1>3. CASE c \in Letters
  <2> DEFINE b == Base(c)
             s == k - 65
             v == c - b
             x == (v + s) % 26
             e == x + b
             y == (x - s) % 26
  <2>1. b \in {65, 97} /\ s \in Int /\ v \in Int
    BY <1>1 DEF Base
  <2>2. Keyed(c, 1, k) = e
    <3>1. 1 * (k - 65) = k - 65
      OBVIOUS
    <3> QED BY <1>3, <3>1 DEF Keyed
  <2>3. Strange \/ v \in 0..25
    BY <1>3 DEF Base, Letters, Uppers, SharpS, DotlessI, LongS
  <2>4. Strange => v \notin 0..25
    BY <1>3 DEF Base, Letters, Uppers, SharpS, DotlessI, LongS
  <2>5. v + b = c
    BY <1>1, <2>1
  <2> HIDE DEF b, s, v, Strange
  <2>6. x \in 0..25
    <3>1. v + s \in Int
      BY <2>1
    <3> QED BY <3>1, RestOfLetters
  <2>7. v \in 0..25 => y = v
    BY <2>1, ShiftUndone
  <2> HIDE DEF x
  <2>8. e \in Letters /\ Base(e) = b /\ e \in Characters /\ e - b = x
    BY <2>1, <2>6 DEF Letters, Uppers, Base, Characters
  <2> HIDE DEF e
  <2>9. Keyed(e, -1, k) = ((e - Base(e) + (-1) * (k - 65)) % 26) + Base(e)
    BY <2>8 DEF Keyed
  <2>10. e - Base(e) + (-1) * (k - 65) = x - s
    BY <2>8, <2>6 DEF s
  <2>11. Keyed(e, -1, k) = y + b
    BY <2>8, <2>9, <2>10
  <2>12. y \in 0..25
    <3>1. x - s \in Int
      BY <2>1, <2>6
    <3> QED BY <3>1, RestOfLetters
  <2> HIDE DEF y
  <2>13. Keyed(e, -1, k) = c <=> ~Strange
    <3>1. CASE Strange
      <4>1. y # v
        BY <2>4, <2>12, <3>1
      <4> QED BY <2>1, <2>5, <2>11, <2>12, <3>1, <4>1
    <3>2. CASE ~Strange
      <4>1. y = v
        BY <2>3, <2>7, <3>2
      <4> QED BY <2>5, <2>11, <3>2, <4>1
    <3> QED BY <3>1, <3>2
  <2> QED BY <1>3, <1>11, <2>2, <2>8, <2>13
<1> QED BY <1>2, <1>3

(* There is a key character for every place. *)
LEMMA KeyCharacterType ==
  ASSUME NEW text \in Seq(Characters), NEW key \in Seq(Characters), key # << >>,
         NEW i \in DOMAIN text
  PROVE  KeyCharacter(text, UpperText(key), i) \in Int
<1> DEFINE before == {j \in 1..(i - 1) : text[j] \in Letters}
           upper == UpperText(key)
           n == Len(upper)
           m == Cardinality(before)
<1>1. upper \in Seq(Int) /\ n > 0 /\ n \in Nat
  BY UpperNotEmpty, LenProperties
<1>2. i \in Nat
  OBVIOUS
<1>3. m \in Nat
  <2>1. IsFiniteSet(1..(i - 1))
    BY <1>2, FS_Interval
  <2> QED BY <2>1, FS_Subset, FS_CardinalityType
<1>4. KeyCharacter(text, upper, i) = upper[(m % n) + 1]
  BY DEF KeyCharacter
<1> HIDE DEF m, upper
<1>5. m % n \in 0..(n - 1)
  BY <1>1, <1>3, ModDef
<1>6. (m % n) + 1 \in 1..n
  <2> DEFINE r == m % n
  <2> HIDE DEF r
  <2>1. r + 1 \in 1..n
    BY <1>1, <1>5 DEF r
  <2> QED BY <2>1 DEF r
<1>7. upper[(m % n) + 1] \in Int
  BY <1>1, <1>6, ElementOfSeq
<1> QED BY <1>4, <1>7 DEF upper

(* Vigenere's cipher is undone for just the texts without letters that it  *)
(* mistakes (VigenereCipher).                                              *)
LEMMA VigenereUndone ==
  ASSUME NEW text \in Seq(Characters), NEW key \in Seq(Characters), key # << >>
  PROVE  Vigenere(Vigenere(text, key, 1), key, -1) = text <=> Faithful(text, "Vigenere")
<1> DEFINE D == DOMAIN text
           K(t, i) == KeyCharacter(t, UpperText(key), i)
           k(i) == K(text, i)
           e == Vigenere(text, key, 1)
           d == Vigenere(e, key, -1)
<1>1. \A i \in D : text[i] \in Characters
  OBVIOUS
<1>2. \A i \in D : k(i) \in Int
  BY KeyCharacterType
<1>3. e = [i \in D |-> Keyed(text[i], 1, k(i))]
  BY DEF Vigenere, Keyed
<1> HIDE DEF K
<1>4. /\ DOMAIN e = D
      /\ \A i \in D : /\ e[i] \in Letters <=> text[i] \in Letters
                      /\ Keyed(e[i], -1, k(i)) = text[i] <=> text[i] \notin Mistaken("Vigenere")
  <2> HIDE DEF e, D
  <2>1. DOMAIN e = D /\ \A i \in D : e[i] = Keyed(text[i], 1, k(i))
    BY <1>3
  <2> QED BY <1>1, <1>2, <2>1, KeyedLetter
<1>5. d = [i \in D |-> Keyed(e[i], -1, K(e, i))]
  <2> HIDE DEF e
  <2> QED BY <1>4 DEF Vigenere, Keyed, K
<1>6. \A i \in D : K(e, i) = k(i)
  <2> TAKE i \in D
  <2>1. \A j \in 1..(i - 1) : j \in D
    OBVIOUS
  <2> HIDE DEF e, D
  <2>2. {j \in 1..(i - 1) : e[j] \in Letters} = {j \in 1..(i - 1) : text[j] \in Letters}
    BY <1>4, <2>1
  <2> QED BY <2>2 DEF K, KeyCharacter
<1>7. text = [i \in D |-> text[i]]
  OBVIOUS
<1>8. d = text <=> \A i \in D : Keyed(e[i], -1, k(i)) = text[i]
  <2> HIDE DEF d, D, e, k
  <2>1. DOMAIN d = D /\ \A i \in D : d[i] = Keyed(e[i], -1, k(i))
    BY <1>5, <1>6
  <2>2. d = [i \in D |-> Keyed(e[i], -1, k(i))]
    BY <1>5, <1>6
  <2> QED BY <1>7, <2>1, <2>2
<1> HIDE DEF d, e, k
<1>9. d = text <=> Faithful(text, "Vigenere")
  BY <1>4, <1>8 DEF Faithful
<1> QED BY <1>9 DEF d, e

-----------------------------------------------------------------------------
(* Messages, from the sender's form to the reader's check.                 *)

(* The characters of a text are of one or two bytes. *)
LEMMA TextsArePoints ==
  ASSUME NEW text \in Seq(Characters)
  PROVE  text \in Seq(Points)
<1> DEFINE n == Len(text)
<1>1. n \in Nat /\ text = [i \in 1..n |-> text[i]] /\ \A i \in 1..n : text[i] \in Characters
  OBVIOUS
<1>2. \A i \in 1..n : text[i] \in Points
  BY <1>1, CharactersArePoints
<1> HIDE DEF n
<1> QED BY <1>1, <1>2

(* A text that is not empty has bytes. *)
LEMMA EncodeNotEmpty ==
  ASSUME NEW text \in Seq(Points), text # << >>
  PROVE  Len(Encode(text)) > 0
<1>1. PICK s \in Seq(Points), c \in Points : text = Append(s, c)
  BY SequenceEmptyOrAppend
<1>2. Encode(text) = Encode(s) \o Encoded(c)
  BY <1>1, EncodeAppend
<1>3. Encode(s) \in Seq(Bytes) /\ Encoded(c) \in Seq(Bytes) /\ Len(Encoded(c)) > 0
  BY EncodeType, EncodedType
<1>4. Len(Encode(s) \o Encoded(c)) = Len(Encode(s)) + Len(Encoded(c))
  BY <1>3, ConcatProperties
<1>5. Len(Encode(s)) \in Nat /\ Len(Encoded(c)) \in Nat
  BY <1>3, LenProperties
<1> QED BY <1>2, <1>3, <1>4, <1>5

(* The keys that generate_key makes for the stream cipher. *)
LEMMA XorKeysAreBytes ==
  ASSUME NEW key \in XorKeys
  PROVE  key \in Seq(Bytes) /\ Len(key) > 0
<1>1. ASSUME NEW k \in Keys, key = Encode(k)
      PROVE  key \in Seq(Bytes) /\ Len(key) > 0
  <2>1. k \in Seq(Points) /\ k # << >>
    BY TextsAssumption, TextsArePoints
  <2> QED BY <1>1, <2>1, EncodeType, EncodeNotEmpty
<1>2. ASSUME key \in Random16
      PROVE  key \in Seq(Bytes) /\ Len(key) > 0
  <2>1. PICK n \in Nat : n = 16
    OBVIOUS
  <2>2. key \in [1..n -> Bytes]
    BY <1>2, <2>1, TextsAssumption DEF Bytes
  <2>3. key = [i \in 1..n |-> key[i]] /\ \A i \in 1..n : key[i] \in Bytes
    BY <2>2
  <2>4. key \in Seq(Bytes) /\ Len(key) = n
    BY <2>3
  <2> QED BY <2>1, <2>4
<1> QED BY <1>1, <1>2 DEF XorKeys

(* The keys that generate_key makes for the block cipher. *)
LEMMA BlockKeysAreBlocks ==
  ASSUME NEW key \in BlockKeys
  PROVE  key \in Block
<1>1. ASSUME NEW k \in Keys, key = BlockKey(k)
      PROVE  key \in Block
  <2>1. k \in Seq(Points)
    BY TextsAssumption, TextsArePoints
  <2> DEFINE e == Encode(k)
  <2>2. e \in Seq(Bytes)
    BY <2>1, EncodeType
  <2>3. key = [i \in 1..8 |-> IF i <= Len(e) THEN e[i] ELSE 0]
    BY <1>1 DEF BlockKey
  <2> HIDE DEF e
  <2>4. \A i \in 1..8 : (IF i <= Len(e) THEN e[i] ELSE 0) \in Bytes
    <3> TAKE i \in 1..8
    <3>1. CASE i <= Len(e)
      <4>1. i \in 1..Len(e)
        BY <2>2, <3>1
      <4> QED BY <2>2, <3>1, <4>1
    <3>2. CASE ~(i <= Len(e))
      BY <3>2 DEF Bytes
    <3> QED BY <3>1, <3>2
  <2> QED BY <2>3, <2>4 DEF Block
<1>2. ASSUME key \in Random8
      PROVE  key \in Block
  BY <1>2, TextsAssumption DEF Block, Bytes
<1> QED BY <1>1, <1>2 DEF BlockKeys

(* What a message that was sent is made of, cipher by cipher.              *)
SentProperly(m) ==
    /\ m.text \in Seq(Characters)
    /\ \/ /\ m.method = "Caesar" /\ m.told \in Int /\ m.hash = UpperText(m.text)
          /\ ~CaesarRaises(m.text)
          /\ m.ciphertext = Caesar(m.text, m.told)
       \/ /\ m.method = "Vigenere" /\ m.told \in Seq(Characters) \ {<< >>}
          /\ m.hash = m.text
          /\ m.ciphertext = Vigenere(m.text, m.told, 1)
       \/ /\ m.method = "XOR" /\ m.hash = m.text
          /\ \E key \in XorKeys :
                /\ m.told = Hex(key)
                /\ m.ciphertext = Hex(XorStream(Encode(m.text), key))
       \/ /\ m.method = "Block" /\ m.hash = m.text
          /\ \E key \in BlockKeys :
                /\ m.told = Hex(key)
                /\ m.ciphertext = Hex(BlockEncrypt(Encode(m.text), key))

(* What its reader is to see. *)
Plain(m) == IF m.method = "Caesar" THEN UpperText(m.text) ELSE m.text

(* The hash is that of the plain text, and a reader decrypts the plain     *)
(* text just when it has no letter that its cipher mistakes.               *)
LEMMA SentIsReadBack ==
  ASSUME NEW m, SentProperly(m)
  PROVE  /\ m.hash = Plain(m)
         /\ Decrypted(m) = Plain(m) <=> Faithful(m.text, m.method)
<1>1. m.text \in Seq(Characters)
  BY DEF SentProperly
<1>2. CASE /\ m.method = "Caesar" /\ m.told \in Int /\ m.hash = UpperText(m.text)
           /\ ~CaesarRaises(m.text)
           /\ m.ciphertext = Caesar(m.text, m.told)
  <2>1. Decrypted(m) = Caesar(Caesar(m.text, m.told), -m.told)
    BY <1>2 DEF Decrypted
  <2>2. Plain(m) = UpperText(m.text)
    BY <1>2 DEF Plain
  <2>3. Caesar(Caesar(m.text, m.told), -m.told) = UpperText(m.text) <=> Faithful(m.text, "Caesar")
    BY <1>1, <1>2, CaesarUndone
  <2> QED BY <1>2, <2>1, <2>2, <2>3
<1>3. CASE /\ m.method = "Vigenere" /\ m.told \in Seq(Characters) \ {<< >>}
           /\ m.hash = m.text
           /\ m.ciphertext = Vigenere(m.text, m.told, 1)
  <2>1. Decrypted(m) = Vigenere(Vigenere(m.text, m.told, 1), m.told, -1)
    BY <1>3 DEF Decrypted
  <2>2. Plain(m) = m.text
    BY <1>3 DEF Plain
  <2>3. Vigenere(Vigenere(m.text, m.told, 1), m.told, -1) = m.text <=> Faithful(m.text, "Vigenere")
    BY <1>1, <1>3, VigenereUndone
  <2> QED BY <1>3, <2>1, <2>2, <2>3
<1> DEFINE e == Encode(m.text)
<1>4. e \in Seq(Bytes) /\ Decode(e) = m.text
  BY <1>1, TextsArePoints, EncodeType, EncodeReadBack
<1>5. ASSUME m.method = "XOR", m.hash = m.text, NEW key \in XorKeys,
             m.told = Hex(key), m.ciphertext = Hex(XorStream(e, key))
      PROVE  m.hash = Plain(m) /\ (Decrypted(m) = Plain(m) <=> Faithful(m.text, m.method))
  <2> HIDE DEF e
  <2>1. key \in Seq(Bytes) /\ Len(key) > 0
    BY XorKeysAreBytes
  <2> DEFINE x == XorStream(e, key)
  <2>2. x \in Seq(Bytes) /\ XorStream(x, key) = e
    BY <1>4, <2>1, XorStreamUndone
  <2> HIDE DEF x
  <2>3. FromHex(Hex(x)) = x /\ FromHex(Hex(key)) = key
    BY <2>1, <2>2, HexReadBack
  <2>4. Decrypted(m) = Decode(XorStream(FromHex(Hex(x)), FromHex(Hex(key))))
    BY <1>5 DEF Decrypted, x
  <2> QED BY <1>4, <1>5, <2>2, <2>3, <2>4 DEF Plain, Faithful, Mistaken
<1>6. ASSUME m.method = "Block", m.hash = m.text, NEW key \in BlockKeys,
             m.told = Hex(key), m.ciphertext = Hex(BlockEncrypt(e, key))
      PROVE  m.hash = Plain(m) /\ (Decrypted(m) = Plain(m) <=> Faithful(m.text, m.method))
  <2> HIDE DEF e
  <2>1. key \in Block /\ key \in Seq(Bytes)
    BY BlockKeysAreBlocks, BlockIsSequence
  <2> DEFINE x == BlockEncrypt(e, key)
  <2>2. x \in Seq(Bytes) /\ BlockDecrypt(x, key) = e
    BY <1>4, <2>1, BlockCipherUndone
  <2> HIDE DEF x
  <2>3. FromHex(Hex(x)) = x /\ FromHex(Hex(key)) = key
    BY <2>1, <2>2, HexReadBack
  <2>4. Decrypted(m) = Decode(BlockDecrypt(FromHex(Hex(x)), FromHex(Hex(key))))
    BY <1>6 DEF Decrypted, x
  <2> QED BY <1>4, <1>6, <2>2, <2>3, <2>4 DEF Plain, Faithful, Mistaken
<1> QED BY <1>2, <1>3, <1>5, <1>6 DEF SentProperly

SentInv == call.op = "sent" => SentProperly(call)

(* The inductive invariant: a message that was sent is what a cipher made  *)
(* of it.                                                                  *)
MessagesInv == SentInv /\ MessagesReadBack

(* Every call keeps it. *)
LEMMA MessagesInvHolds ==
  Spec => []MessagesInv
<1>1. Init => MessagesInv
  BY DEF Init, Idle, MessagesInv, SentInv, MessagesReadBack
<1>2. ASSUME MessagesInv, [Next]_call
      PROVE  MessagesInv'
  <2>1. CASE UNCHANGED call
    BY <1>2, <2>1 DEF MessagesInv, SentInv, MessagesReadBack
  <2>2. CASE SendMessage
    <3>1. call'.op = "sent" /\ SentProperly(call')
      <4>1. PICK text \in Texts :
          \/ \E shift \in Shifts :
                /\ ~CaesarRaises(text)
                /\ call' = Sent("Caesar", text, Caesar(text, shift), UpperText(text), shift)
          \/ \E key \in Keys :
                call' = Sent("Vigenere", text, Vigenere(text, key, 1), text, key)
          \/ \E key \in XorKeys :
                call' = Sent("XOR", text, Hex(XorStream(Encode(text), key)), text, Hex(key))
          \/ \E key \in BlockKeys :
                call' = Sent("Block", text, Hex(BlockEncrypt(Encode(text), key)), text,
                             Hex(key))
        BY <2>2 DEF SendMessage
      <4>2. text \in Seq(Characters)
        BY TextsAssumption
      <4>3. CASE \E shift \in Shifts :
                /\ ~CaesarRaises(text)
                /\ call' = Sent("Caesar", text, Caesar(text, shift), UpperText(text), shift)
        BY <4>2, <4>3, TextsAssumption DEF Sent, SentProperly
      <4>4. CASE \E key \in Keys :
                call' = Sent("Vigenere", text, Vigenere(text, key, 1), text, key)
        BY <4>2, <4>4, TextsAssumption DEF Sent, SentProperly
      <4>5. CASE \E key \in XorKeys :
                call' = Sent("XOR", text, Hex(XorStream(Encode(text), key)), text, Hex(key))
        BY <4>2, <4>5 DEF Sent, SentProperly
      <4>6. CASE \E key \in BlockKeys :
                call' = Sent("Block", text, Hex(BlockEncrypt(Encode(text), key)), text,
                             Hex(key))
        BY <4>2, <4>6 DEF Sent, SentProperly
      <4> QED BY <4>1, <4>3, <4>4, <4>5, <4>6
    <3> QED BY <3>1 DEF MessagesInv, SentInv, MessagesReadBack
  <2>3. CASE ReadMessage
    <3> DEFINE m == call
    <3>1. SentProperly(m) /\ m.op = "sent"
      BY <1>2, <2>3 DEF MessagesInv, SentInv, ReadMessage
    <3>2. m.hash = Plain(m) /\ (Decrypted(m) = Plain(m) <=> Faithful(m.text, m.method))
      BY <3>1, SentIsReadBack
    <3>3. /\ call'.op = "read" /\ call'.method = m.method /\ call'.text = m.text
          /\ call'.shown = Decrypted(m) /\ call'.verified = (Decrypted(m) = m.hash)
      BY <2>3 DEF ReadMessage
    <3> HIDE DEF m
    <3>4. MessagesReadBack'
      BY <3>2, <3>3 DEF MessagesReadBack, Plain, Faithful
    <3> QED BY <3>3, <3>4 DEF MessagesInv, SentInv
  <2>4. CASE AskGcd
    BY <2>4 DEF AskGcd, MessagesInv, SentInv, MessagesReadBack
  <2>5. CASE AskPower
    BY <2>5 DEF AskPower, MessagesInv, SentInv, MessagesReadBack
  <2>6. CASE AskPrime
    BY <2>6 DEF AskPrime, MessagesInv, SentInv, MessagesReadBack
  <2>7. CASE Exchange
    BY <2>7 DEF Exchange, MessagesInv, SentInv, MessagesReadBack
  <2>8. CASE MakeKeys
    BY <2>8 DEF MakeKeys, MessagesInv, SentInv, MessagesReadBack
  <2>9. CASE Seal
    BY <2>9 DEF Seal, MessagesInv, SentInv, MessagesReadBack
  <2>10. CASE Open
    BY <2>10 DEF Open, MessagesInv, SentInv, MessagesReadBack
  <2>11. CASE Return
    BY <2>11 DEF Return, Idle, MessagesInv, SentInv, MessagesReadBack
  <2>12. CASE SendFails
    BY <2>12 DEF SendFails, MessagesInv, SentInv, MessagesReadBack
  <2> QED BY <1>2, <2>1, <2>2, <2>3, <2>4, <2>5, <2>6, <2>7, <2>8, <2>9, <2>10, <2>11, <2>12
        DEF Next
<1> QED BY <1>1, <1>2, PTL DEF Spec

(* In every state who read a message with the right key was told that it   *)
(* is intact just when what is shown is what was sent, in upper case for   *)
(* Caesar, and that is so just when no letter is one that its cipher       *)
(* mistakes (_handle_send_message, _decrypt_message).             *)
THEOREM MessagesReadBackHolds ==
  Spec => []MessagesReadBack
<1>1. MessagesInv => MessagesReadBack
  BY DEF MessagesInv
<1> QED BY <1>1, MessagesInvHolds, PTL
=============================================================================
