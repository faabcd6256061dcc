------------------------------ MODULE ModArith ------------------------------
(***************************************************************************)
(* Arithmetic modulo n, as the ring buffers of sync/lockfree.rs use it: a   *)
(* position k of an unbounded stream lives in slot k % n.                   *)
(***************************************************************************)
EXTENDS Integers, TLAPS

\* Quotient and remainder recompose the number they came from.
LEMMA DivMod ==
    ASSUME NEW n \in Nat, n >= 1, NEW a \in Nat
    PROVE  /\ a \div n \in Nat
           /\ a % n \in 0 .. n - 1
           /\ a = n * (a \div n) + (a % n)
BY Z3

\* A positive multiple of n is at least n.
LEMMA MultipleAtLeast ==
    ASSUME NEW n \in Nat, NEW q \in Int, q >= 1
    PROVE  n * q >= n
BY Z3

\* A decomposition of a number gives its remainder.
LEMMA ModOf ==
    ASSUME NEW n \in Nat, n >= 1, NEW a \in Nat,
           NEW q \in Int, NEW r \in 0 .. n - 1, a = n * q + r
    PROVE  a % n = r
<1> DEFINE p == a \div n
           m == a % n
<1>1. p \in Nat /\ m \in 0 .. n - 1 /\ a = n * p + m
  BY DivMod
<1> HIDE DEF p, m
<1>2. n * (p - q) = r - m /\ n * (q - p) = m - r
  BY <1>1
<1>3. ~ (p - q >= 1) /\ ~ (q - p >= 1)
  BY <1>1, <1>2, MultipleAtLeast
<1>4. p = q
  BY <1>1, <1>3
<1>5. m = r
  BY <1>1, <1>4
<1> QED
  BY <1>5 DEF m

\* Reducing a summand first does not change the remainder of the sum.
LEMMA ModAdd ==
    ASSUME NEW n \in Nat, n >= 1, NEW a \in Nat, NEW b \in Nat
    PROVE  ((a % n) + b) % n = (a + b) % n
<1> DEFINE q == a \div n
           m == a % n
           s == (m + b) \div n
           r == (m + b) % n
<1>1. q \in Nat /\ m \in 0 .. n - 1 /\ a = n * q + m
  BY DivMod
<1>2. m + b \in Nat
  BY <1>1
<1>3. s \in Nat /\ r \in 0 .. n - 1 /\ m + b = n * s + r
  BY DivMod, <1>2
<1> HIDE DEF q, m, s, r
<1>4. a + b = n * (q + s) + r
  BY <1>1, <1>3
<1>5. q + s \in Int /\ a + b \in Nat
  BY <1>1, <1>3
<1>6. (a + b) % n = r
  BY <1>3, <1>4, <1>5, ModOf
<1> QED
  BY <1>6 DEF r, m

\* Reducing modulo a multiple first changes no remainder.
LEMMA ModMod ==
    ASSUME NEW n \in Nat, n >= 1, NEW m \in Nat, m >= 1, m % n = 0, NEW a \in Nat
    PROVE  (a % m) % n = a % n
<1> DEFINE k == m \div n
           q == a \div m
           r == a % m
           p == r \div n
           s == r % n
<1>1. k \in Nat /\ m = n * k
  BY DivMod
<1>2. q \in Nat /\ r \in Nat /\ a = m * q + r
  BY DivMod
<1>3. p \in Nat /\ s \in 0 .. n - 1 /\ r = n * p + s
  BY <1>2, DivMod
<1>4. (k * q + p) \in Int /\ a = n * (k * q + p) + s
  <2> HIDE DEF k, q, r, p, s
  <2> QED
    BY <1>1, <1>2, <1>3, Z3
<1>5. a % n = s
  <2> HIDE DEF k, q, p, s
  <2> QED
    BY <1>3, <1>4, ModOf
<1> QED
  BY <1>5

\* Two positions of a window of length n that share a slot are the same position.
LEMMA ModInjective ==
    ASSUME NEW n \in Nat, n >= 1, NEW a \in Nat, NEW b \in Nat,
           a % n = b % n, a - b < n, b - a < n
    PROVE  a = b
<1> DEFINE qa == a \div n
           qb == b \div n
           ma == a % n
           mb == b % n
<1>1. qa \in Nat /\ ma \in 0 .. n - 1 /\ a = n * qa + ma
  BY DivMod
<1>2. qb \in Nat /\ mb \in 0 .. n - 1 /\ b = n * qb + mb
  BY DivMod
<1>3. ma = mb
  OBVIOUS
<1> HIDE DEF qa, qb, ma, mb
<1>4. n * (qb - qa) = b - a /\ n * (qa - qb) = a - b
  BY <1>1, <1>2, <1>3
<1>5. ~ (qb - qa >= 1)
  BY <1>1, <1>2, <1>4, MultipleAtLeast
<1>6. ~ (qa - qb >= 1)
  BY <1>1, <1>2, <1>4, MultipleAtLeast
<1>7. qa = qb
  BY <1>1, <1>2, <1>5, <1>6
<1> QED
  BY <1>1, <1>2, <1>3, <1>7

\* The distance from r up to w, modulo n: it grows when w moves on, ...
LEMMA DistanceGrows ==
    ASSUME NEW n \in Nat, n >= 1, NEW w \in 0 .. n - 1, NEW r \in 0 .. n - 1,
           NEW k \in Nat, NEW u \in Nat, u = (w + n - r) % n, u + k < n
    PROVE  (((w + k) % n) + n - r) % n = u + k
<1>1. w + n - r \in Nat /\ w + k \in Nat /\ n - r \in Nat
  OBVIOUS
<1>2. (w + k) % n \in Nat
  BY <1>1, DivMod
<1>3. ((w + k) % n) + n - r = ((w + k) % n) + (n - r)
  BY <1>1, <1>2
<1>4. (((w + k) % n) + (n - r)) % n = (w + k + (n - r)) % n
  BY <1>1, ModAdd
<1>5. w + k + (n - r) = w + n - r + k
  OBVIOUS
<1>6. (w + n - r + k) % n = (u + k) % n
  BY <1>1, ModAdd
<1>7. u + k = n * 0 + (u + k) /\ u + k \in 0 .. n - 1
  OBVIOUS
<1>8. (u + k) % n = u + k
  BY <1>7, ModOf
<1> QED
  BY <1>3, <1>4, <1>5, <1>6, <1>8

\* ... shrinks when r does, ...
LEMMA DistanceShrinks ==
    ASSUME NEW n \in Nat, n >= 1, NEW w \in 0 .. n - 1, NEW r \in 0 .. n - 1,
           NEW k \in Nat, NEW u \in Nat, u = (w + n - r) % n, k =< u
    PROVE  (w + n - ((r + k) % n)) % n = u - k
<1> DEFINE q == (w + n - r) \div n
           x == (r + k) % n
<1>1. w + n - r \in Nat /\ r + k \in Nat
  OBVIOUS
<1>2. q \in Nat /\ w + n - r = n * q + u /\ u \in 0 .. n - 1
  BY <1>1, DivMod
<1>3. u - k \in 0 .. n - 1
  BY <1>2
<1>4. x \in Nat /\ x < n
  BY <1>1, DivMod
<1>5. x = r + k \/ x = r + k - n
  <2>1. CASE r + k < n
    <3>1. r + k = n * 0 + (r + k) /\ r + k \in 0 .. n - 1
      BY <2>1
    <3> QED
      BY <3>1, <1>1, ModOf
  <2>2. CASE r + k >= n
    <3>1. r + k = n * 1 + (r + k - n) /\ r + k - n \in 0 .. n - 1
      BY <2>2, <1>2
    <3> QED
      BY <3>1, <1>1, ModOf
  <2> QED
    BY <2>1, <2>2
<1> HIDE DEF q, x
<1>6. n * (q + 1) = n * q + n /\ q + 1 \in Int
  BY <1>2
<1> DEFINE y == w + n - x
           d == u - k
<1>7. y \in Nat /\ d \in 0 .. n - 1
  BY <1>3, <1>4
<1>8. CASE x = r + k
  <2>1. y = n * q + d
    BY <1>2, <1>4, <1>8
  <2> HIDE DEF y, d
  <2>2. y % n = d
    BY <2>1, <1>2, <1>7, ModOf
  <2> QED
    BY <2>2 DEF y, d
<1>9. CASE x = r + k - n
  <2>1. y = n * (q + 1) + d
    BY <1>2, <1>4, <1>6, <1>9
  <2> HIDE DEF y, d
  <2>2. y % n = d
    BY <2>1, <1>6, <1>7, ModOf
  <2> QED
    BY <2>2 DEF y, d
<1> QED
  BY <1>5, <1>8, <1>9 DEF x

\* ... and leads from r to w.
LEMMA DistanceLeads ==
    ASSUME NEW n \in Nat, n >= 1, NEW w \in 0 .. n - 1, NEW r \in 0 .. n - 1,
           NEW u \in Nat, u = (w + n - r) % n
    PROVE  (r + u) % n = w
<1>1. w + n - r \in Nat /\ r \in Nat /\ w \in Nat
  OBVIOUS
<1>2. (u + r) % n = (w + n - r + r) % n
  BY <1>1, ModAdd
<1>3. w + n - r + r = n * 1 + w
  OBVIOUS
<1>4. (w + n - r + r) % n = w
  BY <1>1, <1>3, ModOf
<1>5. r + u = u + r
  OBVIOUS
<1> QED
  BY <1>2, <1>4, <1>5
=============================================================================
