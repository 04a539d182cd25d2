------------------------------ MODULE NatLemmas ------------------------------
(***************************************************************************)
(* Induction over the naturals and the functions it defines, stated over   *)
(* sets and functions so that the provers can use them: an operator as a   *)
(* parameter, which the library's own theorems take, is out of their       *)
(* reach.  And counting around a ring of n places.                         *)
(***************************************************************************)
EXTENDS Integers, WellFoundedInduction, TLAPS

(* A set of naturals that is not empty has a least element. *)
LEMMA Least ==
  ASSUME NEW T, T \subseteq Nat, T # {}
  PROVE  \E m \in T : \A k \in T : m <= k
<1>1. PICK m \in T : \A k \in T : ~(<<k, m>> \in OpToRel(<, Nat))
  BY WFMin, NatLessThanWellFounded, Zenon
<1>2. \A k \in T : ~(k < m)
  <2>1. \A k \in T : k < m => <<k, m>> \in OpToRel(<, Nat)
    BY DEF OpToRel
  <2> QED BY <1>1, <2>1, Zenon
<1> QED BY <1>2, SMT

(* Induction, over a set: no operator is a parameter. *)
LEMMA Induct ==
  ASSUME NEW S, 0 \in S, \A n \in Nat : n \in S => n + 1 \in S
  PROVE  \A n \in Nat : n \in S
<1> SUFFICES ASSUME NEW n \in Nat, n \notin S PROVE FALSE
  BY Zenon
<1> DEFINE T == Nat \ S
<1>1. T \subseteq Nat /\ T # {}
  BY Zenon
<1>2. PICK m \in T : \A k \in T : m <= k
  BY <1>1, Least, Zenon
<1>3. m \in Nat /\ m \notin S
  BY <1>2, Zenon
<1>4. m # 0
  BY <1>3, Zenon
<1>5. m - 1 \in Nat /\ (m - 1) + 1 = m /\ ~(m <= m - 1)
  BY <1>3, <1>4, SMT
<1>6. m - 1 \in S
  BY <1>5, <1>2, Zenon
<1> QED BY <1>3, <1>5, <1>6, Zenon

(* Induction up to a bound. *)
LEMMA InductTo ==
  ASSUME NEW n \in Nat, NEW S, 0 \in S, \A k \in Nat : k \in S /\ k < n => k + 1 \in S
  PROVE  \A k \in 0..n : k \in S
<1> DEFINE T == {k \in Nat : k <= n => k \in S}
<1>1. 0 \in T
  BY Zenon
<1>2. ASSUME NEW k \in Nat, k \in T PROVE k + 1 \in T
  <2>1. k + 1 \in Nat /\ (k + 1 <= n => k <= n /\ k < n)
    BY <1>2
  <2> QED BY <1>2, <2>1, Zenon
<1> HIDE DEF T
<1>3. \A k \in Nat : k \in T
  BY <1>1, <1>2, Induct, Zenon
<1>4. \A k \in 0..n : k \in Nat /\ k <= n
  OBVIOUS
<1> QED BY <1>3, <1>4, Zenon DEF T

(* f is a; G[1, a]; G[2, G[1, a]]; ... up to n. *)
Follows(f, n, a, G) == f[0] = a /\ \A k \in 1..n : f[k] = G[<<k, f[k - 1]>>]

(* What is defined from its value before exists, as a function. *)
LEMMA Iterates ==
  ASSUME NEW S, NEW a \in S, NEW G \in [Nat \X S -> S], NEW n \in Nat
  PROVE  \E f \in [0..n -> S] : Follows(f, n, a, G)
<1> DEFINE Good == {m \in Nat : \E f \in [0..m -> S] :
                      f = [k \in 0..m |-> IF k = 0 THEN a ELSE G[<<k, f[k - 1]>>]]}
<1>1. 0 \in Good
  <2> DEFINE f == [k \in 0..0 |-> a]
  <2>1. f \in [0..0 -> S]
    OBVIOUS
  <2>2. f = [k \in 0..0 |-> IF k = 0 THEN a ELSE G[<<k, f[k - 1]>>]]
    OBVIOUS
  <2> QED BY <2>1, <2>2
<1>2. ASSUME NEW m \in Nat, m \in Good PROVE m + 1 \in Good
  <2>1. PICK f \in [0..m -> S] :
               f = [k \in 0..m |-> IF k = 0 THEN a ELSE G[<<k, f[k - 1]>>]]
    BY <1>2
  <2>2. /\ m + 1 # 0 /\ m + 1 \in Nat /\ (m + 1) - 1 = m /\ m \in 0..m
        /\ \A k \in 0..(m + 1) : k \in 0..m \/ k = m + 1
        /\ \A k \in 0..m : k # m + 1 /\ k \in 0..(m + 1) /\ k \in Nat
        /\ \A k \in 0..(m + 1) : k # 0 => k - 1 \in 0..m /\ k - 1 # m + 1
    OBVIOUS
  <2> DEFINE g == [k \in 0..(m + 1) |-> IF k = m + 1 THEN G[<<m + 1, f[m]>>] ELSE f[k]]
  <2>3. /\ g[m + 1] = G[<<m + 1, f[m]>>]
        /\ \A k \in 0..m : g[k] = f[k]
    BY <2>2
  <2>4. f[m] \in S /\ <<m + 1, f[m]>> \in Nat \X S
    BY <2>1, <2>2
  <2>5. G[<<m + 1, f[m]>>] \in S
    BY <2>4
  <2>6. g \in [0..(m + 1) -> S]
    BY <2>5, <2>2, <2>1
  <2>7. \A k \in 0..(m + 1) : g[k] = IF k = 0 THEN a ELSE G[<<k, g[k - 1]>>]
    <3> SUFFICES ASSUME NEW k \in 0..(m + 1)
                 PROVE  g[k] = IF k = 0 THEN a ELSE G[<<k, g[k - 1]>>]
      BY Zenon
    <3>1. CASE k = m + 1
      <4>1. g[k - 1] = f[m] /\ k # 0
        BY <3>1, <2>2, <2>3
      <4> HIDE DEF g
      <4> QED BY <3>1, <4>1, <2>3
    <3>2. CASE k \in 0..m
      <4>1. g[k] = f[k] /\ (k # 0 => g[k - 1] = f[k - 1])
        BY <3>2, <2>2, <2>3
      <4>2. f[k] = IF k = 0 THEN a ELSE G[<<k, f[k - 1]>>]
        BY <2>1, <3>2
      <4> HIDE DEF g
      <4> QED BY <4>1, <4>2
    <3> QED BY <3>1, <3>2, <2>2
  <2>8. g = [k \in 0..(m + 1) |-> IF k = 0 THEN a ELSE G[<<k, g[k - 1]>>]]
    <3> HIDE DEF g
    <3> QED BY <2>6, <2>7
  <2> HIDE DEF g
  <2> QED BY <2>2, <2>6, <2>8
<1> HIDE DEF Good
<1>3. n \in Good
  BY <1>1, <1>2, Induct, Zenon
<1>4. PICK f \in [0..n -> S] : f = [k \in 0..n |-> IF k = 0 THEN a ELSE G[<<k, f[k - 1]>>]]
  BY <1>3, Zenon DEF Good
<1>5. 0 \in 0..n /\ \A k \in 1..n : k \in 0..n /\ k # 0
  OBVIOUS
<1>6. f[0] = a /\ \A k \in 1..n : f[k] = G[<<k, f[k - 1]>>]
  BY <1>4, <1>5, Zenon
<1> QED BY <1>6, Zenon DEF Follows

(* And without a bound. *)
LEMMA IteratesOn ==
  ASSUME NEW S, NEW a \in S, NEW G \in [Nat \X S -> S]
  PROVE  \E g \in [Nat -> S] : \A n \in Nat : Follows(g, n, a, G)
<1> DEFINE Up(n) == {f \in [0..n -> S] : Follows(f, n, a, G)}
<1>1. \A n \in Nat : \E f \in [0..n -> S] : Follows(f, n, a, G)
  BY Iterates, Zenon
<1>2. ASSUME NEW n \in Nat PROVE (CHOOSE f : f \in Up(n)) \in Up(n)
  <2>1. \E f : f \in Up(n)
    BY <1>1, Zenon
  <2> QED BY <2>1, Zenon
<1> DEFINE F == [n \in Nat |-> CHOOSE f : f \in Up(n)]
<1>3. ASSUME NEW n \in Nat PROVE F[n] \in [0..n -> S] /\ Follows(F[n], n, a, G)
  BY <1>2, Zenon
<1> HIDE DEF F, Up
<1>4. ASSUME NEW n \in Nat PROVE F[n + 1][n] = F[n][n]
  <2> DEFINE Same == {k \in Nat : F[n + 1][k] = F[n][k]}
  <2>1. n + 1 \in Nat /\ n \in 0..n
    OBVIOUS
  <2>2. 0 \in Same
    BY <1>3, <2>1, Zenon DEF Follows
  <2>3. ASSUME NEW k \in Nat, k \in Same, k < n PROVE k + 1 \in Same
    <3>1. k + 1 \in 1..n /\ k + 1 \in 1..(n + 1) /\ (k + 1) - 1 = k /\ k + 1 \in Nat
      BY <2>3
    <3>2. F[n][k + 1] = G[<<k + 1, F[n][(k + 1) - 1]>>]
      BY <1>3, <3>1, Zenon DEF Follows
    <3>3. F[n + 1][k + 1] = G[<<k + 1, F[n + 1][(k + 1) - 1]>>]
      BY <1>3, <2>1, <3>1, Zenon DEF Follows
    <3> QED BY <2>3, <3>1, <3>2, <3>3, Zenon
  <2> HIDE DEF Same
  <2>4. \A k \in 0..n : k \in Same
    BY <2>2, <2>3, InductTo, Zenon
  <2> QED BY <2>1, <2>4, Zenon DEF Same
<1> DEFINE g == [n \in Nat |-> F[n][n]]
<1>5. g \in [Nat -> S]
  <2>1. \A n \in Nat : n \in 0..n
    OBVIOUS
  <2> QED BY <1>3, <2>1, Zenon
<1>6. g[0] = a
  BY <1>3, Zenon DEF Follows
<1>7. ASSUME NEW n \in Nat, NEW k \in 1..n PROVE g[k] = G[<<k, g[k - 1]>>]
  <2>1. k \in Nat /\ k - 1 \in Nat /\ (k - 1) + 1 = k /\ k \in 1..k
    OBVIOUS
  <2>2. F[k][k] = G[<<k, F[k][k - 1]>>]
    BY <1>3, <2>1, Zenon DEF Follows
  <2>3. F[k][k - 1] = F[k - 1][k - 1]
    BY <1>4, <2>1, Zenon
  <2> QED BY <2>1, <2>2, <2>3, Zenon
<1> HIDE DEF g
<1> QED BY <1>5, <1>6, <1>7, Zenon DEF Follows
-----------------------------------------------------------------------------
(* Remainders. *)
LEMMA DivMod ==
  ASSUME NEW n \in Nat \ {0}, NEW a \in Nat
  PROVE  \E q \in Nat : a = q * n + (a % n) /\ a % n \in 0 .. n - 1
<1>1. a \div n \in Nat /\ a = (a \div n) * n + (a % n) /\ a % n \in 0 .. n - 1
  BY SMT
<1>2. QED
  BY <1>1

LEMMA ModIs ==
  ASSUME NEW n \in Nat \ {0}, NEW q \in Nat, NEW r \in 0 .. n - 1
  PROVE  (q * n + r) % n = r
<1>1. q * n + r \in Nat
  BY SMT
<1>2. PICK p \in Nat : q * n + r = p * n + ((q * n + r) % n) /\ (q * n + r) % n \in 0 .. n - 1
  BY <1>1, DivMod
<1>3. ASSUME p < q PROVE FALSE
  <2>1. (p + 1) * n <= q * n
    BY <1>3, SMT
  <2>2. QED
    BY <1>2, <2>1, SMT
<1>4. ASSUME q < p PROVE FALSE
  <2>1. (q + 1) * n <= p * n
    BY <1>4, SMT
  <2>2. QED
    BY <1>2, <2>1, SMT
<1>5. p = q
  BY <1>3, <1>4, SMT
<1>6. QED
  BY <1>2, <1>5, SMT

LEMMA ModAdd ==
  ASSUME NEW n \in Nat \ {0}, NEW a \in Nat, NEW b \in Nat
  PROVE  ((a % n) + b) % n = (a + b) % n
<1>1. PICK q \in Nat : a = q * n + (a % n) /\ a % n \in 0 .. n - 1
  BY DivMod
<1>2. PICK c \in Nat : c = (a % n) + b
  <2>1. (a % n) + b \in Nat
    BY <1>1, SMT
  <2>2. QED
    BY <2>1, Zenon
<1>3. PICK p \in Nat : c = p * n + (c % n) /\ c % n \in 0 .. n - 1
  BY DivMod
<1>4. a + b = (q + p) * n + (c % n) /\ q + p \in Nat
  <2>1. (q + p) * n = q * n + p * n /\ q * n \in Nat /\ p * n \in Nat /\ q + p \in Nat
    BY SMT
  <2>2. a % n \in Nat /\ c % n \in Nat
    BY <1>1, <1>3, SMT
  <2>3. PICK x, y, r, m \in Nat : x = q * n /\ y = p * n /\ r = a % n /\ m = c % n
    BY <2>1, <2>2, Zenon
  <2>4. a = x + r /\ c = r + b /\ c = y + m
    BY <1>1, <1>2, <1>3, <2>3, Zenon
  <2>5. a + b = (x + y) + m
    BY <2>4, SMT
  <2>6. QED
    BY <2>1, <2>3, <2>5, Zenon
<1>5. ((q + p) * n + (c % n)) % n = c % n
  BY <1>3, <1>4, ModIs, Zenon
<1>6. QED
  BY <1>2, <1>4, <1>5, Zenon

(* The distance from one place of the ring to a later one. *)
LEMMA ModGap ==
  ASSUME NEW n \in Nat \ {0}, NEW a \in Nat, NEW b \in Nat, a <= b, b < a + n
  PROVE  ((b % n) + n - (a % n)) % n = b - a
<1>1. PICK q \in Nat : a = q * n + (a % n) /\ a % n \in 0 .. n - 1
  BY DivMod
<1>2. PICK p \in Nat : b = p * n + (b % n) /\ b % n \in 0 .. n - 1
  BY DivMod
<1>3. ASSUME p < q PROVE FALSE
  <2>1. (p + 1) * n <= q * n
    BY <1>3, SMT
  <2>2. QED
    BY <1>1, <1>2, <2>1, SMT
<1>4. ASSUME q + 1 < p PROVE FALSE
  <2>1. (q + 2) * n <= p * n
    BY <1>4, SMT
  <2>2. QED
    BY <1>1, <1>2, <2>1, SMT
<1>5. CASE p = q
  <2>1. (b % n) + n - (a % n) = 1 * n + (b - a) /\ b - a \in 0 .. n - 1
    BY <1>1, <1>2, <1>5, SMT
  <2>2. QED
    BY <2>1, ModIs, SMT
<1>6. CASE p = q + 1
  <2>1. (b % n) + n - (a % n) = 0 * n + (b - a) /\ b - a \in 0 .. n - 1
    BY <1>1, <1>2, <1>6, SMT
  <2>2. QED
    BY <2>1, ModIs, SMT
<1>7. QED
  BY <1>3, <1>4, <1>5, <1>6, SMT

(* Two places less than a ring apart differ. *)
LEMMA ModApart ==
  ASSUME NEW n \in Nat \ {0}, NEW a \in Nat, NEW b \in Nat, a < b, b < a + n
  PROVE  a % n # b % n
<1>1. ((b % n) + n - (a % n)) % n = b - a
  <2>1. a <= b
    BY SMT
  <2>2. QED
    BY <2>1, ModGap, Zenon
<1>2. PICK q \in Nat : a = q * n + (a % n) /\ a % n \in 0 .. n - 1
  BY DivMod
<1>3. n % n = 0
  <2>1. n = 1 * n + 0 /\ 0 \in 0 .. n - 1
    BY SMT
  <2>2. QED
    BY <2>1, ModIs, SMT
<1>4. ASSUME a % n = b % n PROVE FALSE
  <2>1. (b % n) + n - (a % n) = n
    BY <1>2, <1>4, SMT
  <2>2. QED
    BY <1>1, <1>3, <2>1, SMT
<1>5. QED
  BY <1>4
(* Once around. *)
LEMMA ModRound ==
  ASSUME NEW n \in Nat \ {0}, NEW a \in Nat
  PROVE  (a + n) % n = a % n
<1>1. PICK q \in Nat : a = q * n + (a % n) /\ a % n \in 0 .. n - 1
  BY DivMod
<1>2. a + n = (q + 1) * n + (a % n) /\ q + 1 \in Nat
  BY <1>1, SMT
<1>3. ((q + 1) * n + (a % n)) % n = a % n
  BY <1>1, <1>2, ModIs, Zenon
<1>4. QED
  BY <1>2, <1>3, Zenon

(* Within two rounds of a ring a remainder is a comparison. *)
LEMMA ModTwice ==
  ASSUME NEW n \in Nat \ {0}, NEW a \in Nat, a < 2 * n
  PROVE  a % n = IF a < n THEN a ELSE a - n
<1>1. CASE a < n
  <2>1. 0 * n + a = a /\ a \in 0 .. n - 1 /\ 0 \in Nat
    BY <1>1, SMT
  <2>2. (0 * n + a) % n = a
    BY <2>1, ModIs, Zenon
  <2> QED BY <1>1, <2>1, <2>2, Zenon
<1>2. CASE ~(a < n)
  <2>1. PICK r \in 0 .. n - 1 : r = a - n
    <3>1. a - n \in 0 .. n - 1
      BY <1>2, SMT
    <3> QED BY <3>1, Zenon
  <2>2. 1 * n + r = a /\ 1 \in Nat
    BY <2>1, SMT
  <2>3. (1 * n + r) % n = r
    BY <2>2, ModIs, Zenon
  <2> QED BY <1>2, <2>1, <2>2, <2>3, Zenon
<1> QED BY <1>1, <1>2, Zenon
=============================================================================
