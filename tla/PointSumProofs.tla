--------------------------- MODULE PointSumProofs ---------------------------
(***************************************************************************)
(* What PointSum promises, for every prime P with P % 4 = 3, any number of *)
(* points, and any points: the sums made in affine, Jacobian or projective *)
(* coordinates, in G1 and in G2, are those of the group up to the first    *)
(* two points of one x, and fail from there on.                            *)
(*                                                                         *)
(* The argument: computing with pairs of remainders is computing with      *)
(* pairs of integers (Stands), so the pairs are a ring, and a field        *)
(* because a norm is 0 for 0 only.  Each formula of Group.hpp, divided by  *)
(* the powers of Z it carries, is the chord through two points (ChordOf),  *)
(* and has no Z exactly when there is none (JacSumIs, ProjSumIs); in G1    *)
(* the same holds of the pairs without an imaginary part (Lifted).         *)
(***************************************************************************)
EXTENDS PointSum, WellFoundedInduction, TLAPS

-----------------------------------------------------------------------------
(* Remainders.                                                              *)
LEMMA Division ==
  ASSUME NEW q \in Nat, q > 0, NEW a \in Int
  PROVE  a = (a \div q) * q + (a % q) /\ a \div q \in Int /\ a % q \in 0 .. q - 1 /\ a % q \in Int
OBVIOUS

LEMMA Unique ==
  ASSUME NEW q \in Nat, NEW r \in 0 .. q - 1, NEW s \in 0 .. q - 1, NEW k \in Int, r = s + k * q
  PROVE  r = s /\ k = 0
<1>1. q > 0 /\ r \in Int /\ s \in Int /\ r < q /\ s < q /\ 0 <= r /\ 0 <= s
  OBVIOUS
<1>2. k * q < q /\ -q < k * q
  BY <1>1
<1>3. CASE k >= 1
  <2>1. k * q >= q
    BY <1>1, <1>3
  <2> QED BY <1>1, <1>2, <2>1
<1>4. CASE k <= -1
  <2>1. k * q <= -q
    BY <1>1, <1>4
  <2> QED BY <1>1, <1>2, <2>1
<1>5. CASE k = 0
  BY <1>1, <1>5
<1> QED BY <1>3, <1>4, <1>5

LEMMA DivIs ==
  ASSUME NEW q \in Nat, q > 0, NEW k \in Int, NEW r \in 0 .. q - 1, NEW a \in Int, a = k * q + r
  PROVE  a \div q = k /\ a % q = r
<1>1. PICK m \in Int : m = a \div q
  BY Division
<1>2. PICK s \in 0 .. q - 1 : s = a % q
  BY Division
<1>3. a = m * q + s
  BY <1>1, <1>2, Division
<1>4. PICK h \in Int : h = k - m
  OBVIOUS
<1>5. s = r + h * q
  <2>1. PICK x \in Int : x = k * q
    OBVIOUS
  <2>2. PICK y \in Int : y = m * q
    OBVIOUS
  <2>3. r \in Int /\ s \in Int
    OBVIOUS
  <2>4. s = r + (x - y)
    BY <1>3, <2>1, <2>2, <2>3
  <2>5. k * q - m * q = h * q
    BY <1>4
  <2> QED BY <2>1, <2>2, <2>4, <2>5
<1>6. s = r /\ h = 0
  BY <1>5, Unique
<1> QED BY <1>1, <1>2, <1>4, <1>6

LEMMA Congruent ==
  ASSUME NEW q \in Nat, q > 0, NEW a \in Int, NEW b \in Int, NEW k \in Int, a = b + k * q
  PROVE  a % q = b % q
<1>1. PICK n \in Int : n = b \div q
  BY Division
<1>2. PICK s \in 0 .. q - 1 : s = b % q
  BY Division
<1>3. b = n * q + s
  BY <1>1, <1>2, Division
<1>4. PICK m \in Int : m = n + k
  OBVIOUS
<1>5. a = m * q + s
  <2>1. PICK x \in Int : x = n * q
    OBVIOUS
  <2>2. PICK y \in Int : y = k * q
    OBVIOUS
  <2>3. s \in Int
    OBVIOUS
  <2>4. a = x + y + s
    BY <1>3, <2>1, <2>2, <2>3
  <2>5. n * q + k * q = m * q
    BY <1>4
  <2> QED BY <2>1, <2>2, <2>3, <2>4, <2>5
<1>6. a % q = s
  BY <1>5, DivIs
<1> QED BY <1>2, <1>6

LEMMA Small ==
  ASSUME NEW q \in Nat, NEW a \in 0 .. q - 1
  PROVE  a % q = a /\ a \in Int
OBVIOUS

LEMMA ModAdd ==
  ASSUME NEW q \in Nat, q > 0, NEW a \in Int, NEW b \in Int
  PROVE  (a + (b % q)) % q = (a + b) % q
<1>1. PICK r \in Int : r = b % q
  BY Division
<1>2. PICK k \in Int : b = k * q + r
  BY <1>1, Division
<1>3. a + b = (a + r) + k * q /\ a + b \in Int /\ a + r \in Int
  BY <1>2
<1>4. (a + b) % q = (a + r) % q
  BY <1>3, Congruent
<1> QED BY <1>1, <1>4

LEMMA ModMul ==
  ASSUME NEW q \in Nat, q > 0, NEW a \in Int, NEW b \in Int
  PROVE  (a * (b % q)) % q = (a * b) % q
<1>1. PICK r \in Int : r = b % q
  BY Division
<1>2. PICK k \in Int : b = k * q + r
  BY <1>1, Division
<1>3. PICK h \in Int : h = a * k
  OBVIOUS
<1>4. a * b = a * r + h * q /\ a * b \in Int /\ a * r \in Int
  BY <1>2, <1>3
<1>5. (a * b) % q = (a * r) % q
  BY <1>4, Congruent
<1> QED BY <1>1, <1>5

-----------------------------------------------------------------------------
(***************************************************************************)
(* The pairs are a ring.                                                   *)
(***************************************************************************)
LEMMA Prime ==
  /\ P \in Nat /\ P > 1 /\ P > 0 /\ P \in Int
  /\ \A a \in Fp : a \in Int /\ a % P = a
  /\ \A a \in Int : a % P \in Fp
BY FieldAssumption DEF Fp

LEMMA RemainderInside ==
  ASSUME NEW a \in Int, NEW b \in Int
  PROVE  (a * (b % P)) % P = (a * b) % P
<1>1. PICK q \in Nat : q = P /\ q > 0
  BY Prime
<1>2. q > 0
  BY <1>1
<1>3. (a * (b % q)) % q = (a * b) % q
  BY <1>2, ModMul
<1> QED BY <1>1, <1>3

(* Remainders may be taken of the terms of a sum or difference of products. *)
LEMMA Mixed ==
  ASSUME NEW a \in Int, NEW b \in Int, NEW c \in Int, NEW d \in Int
  PROVE  /\ ((a % P) * c + (b % P) * d) % P = (a * c + b * d) % P
         /\ ((a % P) * c - (b % P) * d) % P = (a * c - b * d) % P
<1>1. PICK q \in Nat : q = P /\ q > 0
  BY Prime
<1>0. q > 0
  BY <1>1
<1>2. PICK r \in Int : r = a % q
  BY <1>1, Division
<1>3. PICK k \in Int : a = k * q + r
  BY <1>1, <1>2, Division
<1>4. PICK s \in Int : s = b % q
  BY <1>1, Division
<1>5. PICK m \in Int : b = m * q + s
  BY <1>1, <1>4, Division
<1>6. PICK h \in Int : h = k * c + m * d
  OBVIOUS
<1>7. PICK l \in Int : l = k * c - m * d
  OBVIOUS
<1>8. (a * c + b * d) % q = (r * c + s * d) % q
  <2>1. PICK x \in Int : x = a * c + b * d
    OBVIOUS
  <2>2. PICK y \in Int : y = r * c + s * d
    OBVIOUS
  <2>3. x = y + h * q
    BY <1>3, <1>5, <1>6, <2>1, <2>2
  <2>4. x % q = y % q
    BY <1>0, <2>3, Congruent
  <2> QED BY <2>1, <2>2, <2>4
<1>9. (a * c - b * d) % q = (r * c - s * d) % q
  <2>1. PICK x \in Int : x = a * c - b * d
    OBVIOUS
  <2>2. PICK y \in Int : y = r * c - s * d
    OBVIOUS
  <2>3. x = y + l * q
    BY <1>3, <1>5, <1>7, <2>1, <2>2
  <2>4. x % q = y % q
    BY <1>0, <2>3, Congruent
  <2> QED BY <2>1, <2>2, <2>4
<1> QED BY <1>1, <1>2, <1>4, <1>8, <1>9

(* Sums and differences of remainders.                                      *)
LEMMA Sums ==
  ASSUME NEW a \in Int, NEW b \in Int
  PROVE  /\ ((a % P) + b) % P = (a + b) % P /\ (a + (b % P)) % P = (a + b) % P
         /\ ((a % P) - b) % P = (a - b) % P /\ (a - (b % P)) % P = (a - b) % P
<1>1. PICK o \in Int : o = 1
  OBVIOUS
<1>2. /\ ((a % P) * o + (b % P) * o) % P = (a * o + b * o) % P
      /\ ((a % P) * o - (b % P) * o) % P = (a * o - b * o) % P
  BY Mixed
<1>3. a % P \in Int /\ b % P \in Int
  BY Prime, Division
<1>4. /\ ((a % P) + (b % P)) % P = (a + b) % P
      /\ ((a % P) - (b % P)) % P = (a - b) % P
  BY <1>1, <1>2, <1>3
<1>5. ((a % P) % P) = a % P /\ (b % P) % P = b % P
  BY Prime
<1>6. PICK r \in Int : r = a % P
  BY <1>3
<1>7. PICK s \in Int : s = b % P
  BY <1>3
<1>8. /\ ((r % P) * o + (b % P) * o) % P = (r * o + b * o) % P
      /\ ((r % P) * o - (b % P) * o) % P = (r * o - b * o) % P
  BY Mixed
<1>9. /\ ((a % P) * o + (s % P) * o) % P = (a * o + s * o) % P
      /\ ((a % P) * o - (s % P) * o) % P = (a * o - s * o) % P
  BY Mixed
<1>10. /\ (r + s) % P = (r + b) % P /\ (r - s) % P = (r - b) % P
  BY <1>1, <1>5, <1>6, <1>7, <1>8
<1>11. /\ (r + s) % P = (a + s) % P /\ (r - s) % P = (a - s) % P
  BY <1>1, <1>5, <1>6, <1>7, <1>9
<1> QED BY <1>4, <1>6, <1>7, <1>10, <1>11

(* Every pair of numbers stands for a pair of remainders, and the           *)
(* operations are those of the numbers.                                     *)
Pair(m, n) == [real |-> m % P, imag |-> n % P]

LEMMA PairOf ==
  ASSUME NEW a \in Fp2
  PROVE  \E m, n \in Int : a = Pair(m, n)
<1>1. a.real \in Fp /\ a.imag \in Fp /\ a = [real |-> a.real, imag |-> a.imag]
  BY DEF Fp2
<1> QED BY <1>1, Prime DEF Pair

LEMMA PairType ==
  ASSUME NEW m \in Int, NEW n \in Int
  PROVE  Pair(m, n) \in Fp2
BY Prime DEF Pair, Fp2

LEMMA PairPlus ==
  ASSUME NEW m \in Int, NEW n \in Int, NEW u \in Int, NEW v \in Int
  PROVE  Fp2Plus(Pair(m, n), Pair(u, v)) = Pair(m + u, n + v)
<1>1. ASSUME NEW a \in Int, NEW b \in Int
      PROVE  ((a % P) + (b % P)) % P = (a + b) % P
  <2>1. PICK r \in Int : r = a % P
    BY Prime, Division
  <2>2. (r + (b % P)) % P = (r + b) % P
    BY Sums
  <2>3. ((a % P) + b) % P = (a + b) % P
    BY Sums
  <2> QED BY <2>1, <2>2, <2>3
<1>2. Fp2Plus(Pair(m, n), Pair(u, v))
        = [real |-> ((m % P) + (u % P)) % P, imag |-> ((n % P) + (v % P)) % P]
  BY DEF Fp2Plus, ComplexAdd, Add, Pair
<1> QED BY <1>1, <1>2 DEF Pair

LEMMA PairMinus ==
  ASSUME NEW m \in Int, NEW n \in Int, NEW u \in Int, NEW v \in Int
  PROVE  Fp2Minus(Pair(m, n), Pair(u, v)) = Pair(m - u, n - v)
<1>1. ASSUME NEW a \in Int, NEW b \in Int
      PROVE  ((a % P) - (b % P)) % P = (a - b) % P
  <2>1. PICK r \in Int : r = a % P
    BY Prime, Division
  <2>2. (r - (b % P)) % P = (r - b) % P
    BY Sums
  <2>3. ((a % P) - b) % P = (a - b) % P
    BY Sums
  <2> QED BY <2>1, <2>2, <2>3
<1>2. Fp2Minus(Pair(m, n), Pair(u, v))
        = [real |-> ((m % P) - (u % P)) % P, imag |-> ((n % P) - (v % P)) % P]
  BY DEF Fp2Minus, ComplexSub, Sub, Pair
<1> QED BY <1>1, <1>2 DEF Pair

LEMMA Products ==
  ASSUME NEW a \in Int, NEW b \in Int
  PROVE  ((a % P) * (b % P)) % P = (a * b) % P
<1>1. PICK q \in Nat : q = P /\ q > 0
  BY Prime
<1>0. q > 0
  BY <1>1
<1>2. PICK r \in Int : r = a % q
  BY <1>0, Division
<1>3. (r * (b % q)) % q = (r * b) % q
  BY <1>0, ModMul
<1>4. (b * (a % q)) % q = (b * a) % q
  BY <1>0, ModMul
<1>5. r * b = b * r /\ b * a = a * b
  OBVIOUS
<1> QED BY <1>1, <1>2, <1>3, <1>4, <1>5

LEMMA PairTimes ==
  ASSUME NEW m \in Int, NEW n \in Int, NEW u \in Int, NEW v \in Int
  PROVE  Fp2Times(Pair(m, n), Pair(u, v)) = Pair(m * u - n * v, m * v + n * u)
<1>1. ASSUME NEW a \in Int, NEW b \in Int
      PROVE  /\ ((a % P) - (b % P)) % P = (a - b) % P
             /\ ((a % P) + (b % P)) % P = (a + b) % P
  <2>1. PICK r \in Int : r = a % P
    BY Prime, Division
  <2>2. (r - (b % P)) % P = (r - b) % P /\ (r + (b % P)) % P = (r + b) % P
    BY Sums
  <2>3. ((a % P) - b) % P = (a - b) % P /\ ((a % P) + b) % P = (a + b) % P
    BY Sums
  <2> QED BY <2>1, <2>2, <2>3
<1>2. Fp2Times(Pair(m, n), Pair(u, v))
        = [real |-> ((((m % P) * (u % P)) % P) - (((n % P) * (v % P)) % P)) % P,
           imag |-> ((((m % P) * (v % P)) % P) + (((n % P) * (u % P)) % P)) % P]
  BY DEF Fp2Times, ComplexMul, Mul, Add, Sub, Pair
<1>3. /\ ((m % P) * (u % P)) % P = (m * u) % P /\ ((n % P) * (v % P)) % P = (n * v) % P
      /\ ((m % P) * (v % P)) % P = (m * v) % P /\ ((n % P) * (u % P)) % P = (n * u) % P
  BY Products
<1>4. PICK a \in Int : a = m * u
  OBVIOUS
<1>5. PICK b \in Int : b = n * v
  OBVIOUS
<1>6. PICK c \in Int : c = m * v
  OBVIOUS
<1>7. PICK d \in Int : d = n * u
  OBVIOUS
<1>8. ((a % P) - (b % P)) % P = (a - b) % P /\ ((c % P) + (d % P)) % P = (c + d) % P
  BY <1>1
<1> QED BY <1>2, <1>3, <1>4, <1>5, <1>6, <1>7, <1>8 DEF Pair

(* The number a field element stands for, with what the operations do.      *)
Stands(a, m, n) == m \in Int /\ n \in Int /\ a = Pair(m, n)

LEMMA StandsFor ==
  ASSUME NEW a \in Fp2
  PROVE  \E m, n \in Int : Stands(a, m, n)
BY PairOf DEF Stands

LEMMA Standing ==
  ASSUME NEW a, NEW b, NEW m, NEW n, NEW u, NEW v, Stands(a, m, n), Stands(b, u, v)
  PROVE  /\ Stands(Fp2Plus(a, b), m + u, n + v)
         /\ Stands(Fp2Minus(a, b), m - u, n - v)
         /\ Stands(Fp2Times(a, b), m * u - n * v, m * v + n * u)
<1>1. m \in Int /\ n \in Int /\ u \in Int /\ v \in Int /\ a = Pair(m, n) /\ b = Pair(u, v)
  BY DEF Stands
<1>2. /\ m + u \in Int /\ n + v \in Int /\ m - u \in Int /\ n - v \in Int
      /\ m * u - n * v \in Int /\ m * v + n * u \in Int
  BY <1>1
<1>3. /\ Fp2Plus(a, b) = Pair(m + u, n + v)
      /\ Fp2Minus(a, b) = Pair(m - u, n - v)
      /\ Fp2Times(a, b) = Pair(m * u - n * v, m * v + n * u)
  <2>1. Fp2Plus(a, b) = Pair(m + u, n + v)
    BY <1>1, PairPlus
  <2>2. Fp2Minus(a, b) = Pair(m - u, n - v)
    BY <1>1, PairMinus
  <2>3. Fp2Times(a, b) = Pair(m * u - n * v, m * v + n * u)
    BY <1>1, PairTimes
  <2> QED BY <2>1, <2>2, <2>3
<1> QED BY <1>2, <1>3 DEF Stands

LEMMA SameNumber ==
  ASSUME NEW a, NEW b, NEW m, NEW n, NEW u, NEW v, Stands(a, m, n), Stands(b, u, v), m = u, n = v
  PROVE  a = b /\ a \in Fp2
BY PairType DEF Stands

LEMMA RingTypes ==
  ASSUME NEW a \in Fp2, NEW b \in Fp2
  PROVE  /\ Fp2Plus(a, b) \in Fp2 /\ Fp2Minus(a, b) \in Fp2 /\ Fp2Times(a, b) \in Fp2
         /\ C(0) \in Fp2 /\ C(1) \in Fp2
<1>1. PICK m, n \in Int : Stands(a, m, n)
  BY StandsFor
<1>2. PICK u, v \in Int : Stands(b, u, v)
  BY StandsFor
<1>3. /\ Stands(Fp2Plus(a, b), m + u, n + v)
      /\ Stands(Fp2Minus(a, b), m - u, n - v)
      /\ Stands(Fp2Times(a, b), m * u - n * v, m * v + n * u)
  BY <1>1, <1>2, Standing
<1>4. Fp2Plus(a, b) \in Fp2 /\ Fp2Minus(a, b) \in Fp2 /\ Fp2Times(a, b) \in Fp2
  BY <1>3, SameNumber
<1>5. C(0) \in Fp2 /\ C(1) \in Fp2
  BY Prime DEF C, Fp2
<1> QED BY <1>4, <1>5

LEMMA TimesComm ==
  ASSUME NEW a \in Fp2, NEW b \in Fp2
  PROVE  Fp2Times(a, b) = Fp2Times(b, a)
<1>1. PICK m, n \in Int : Stands(a, m, n)
  BY StandsFor
<1>2. PICK u, v \in Int : Stands(b, u, v)
  BY StandsFor
<1>3. /\ Stands(Fp2Times(a, b), m * u - n * v, m * v + n * u)
      /\ Stands(Fp2Times(b, a), u * m - v * n, u * n + v * m)
  BY <1>1, <1>2, Standing
<1>4. m * u - n * v = u * m - v * n /\ m * v + n * u = u * n + v * m
  OBVIOUS
<1> QED BY <1>3, <1>4, SameNumber

LEMMA TimesAssoc ==
  ASSUME NEW a \in Fp2, NEW b \in Fp2, NEW c \in Fp2
  PROVE  Fp2Times(Fp2Times(a, b), c) = Fp2Times(a, Fp2Times(b, c))
<1>1. PICK m, n \in Int : Stands(a, m, n)
  BY StandsFor
<1>2. PICK u, v \in Int : Stands(b, u, v)
  BY StandsFor
<1>3. PICK g, h \in Int : Stands(c, g, h)
  BY StandsFor
<1>4. PICK d, e \in Int : d = m * u - n * v /\ e = m * v + n * u
  OBVIOUS
<1>5. PICK k, l \in Int : k = u * g - v * h /\ l = u * h + v * g
  OBVIOUS
<1>6. Stands(Fp2Times(a, b), d, e)
  BY <1>1, <1>2, <1>4, Standing
<1>7. Stands(Fp2Times(b, c), k, l)
  BY <1>2, <1>3, <1>5, Standing
<1>8. Stands(Fp2Times(Fp2Times(a, b), c), d * g - e * h, d * h + e * g)
  BY <1>3, <1>6, Standing
<1>9. Stands(Fp2Times(a, Fp2Times(b, c)), m * k - n * l, m * l + n * k)
  BY <1>1, <1>7, Standing
<1>10. d * g - e * h = m * k - n * l /\ d * h + e * g = m * l + n * k
  BY <1>4, <1>5
<1> QED BY <1>8, <1>9, <1>10, SameNumber

LEMMA TimesMinus ==
  ASSUME NEW a \in Fp2, NEW b \in Fp2, NEW c \in Fp2
  PROVE  /\ Fp2Times(a, Fp2Minus(b, c)) = Fp2Minus(Fp2Times(a, b), Fp2Times(a, c))
         /\ Fp2Times(a, Fp2Plus(b, c)) = Fp2Plus(Fp2Times(a, b), Fp2Times(a, c))
<1>1. PICK m, n \in Int : Stands(a, m, n)
  BY StandsFor
<1>2. PICK u, v \in Int : Stands(b, u, v)
  BY StandsFor
<1>3. PICK g, h \in Int : Stands(c, g, h)
  BY StandsFor
<1>4. PICK d, e \in Int : d = m * u - n * v /\ e = m * v + n * u
  OBVIOUS
<1>5. PICK k, l \in Int : k = m * g - n * h /\ l = m * h + n * g
  OBVIOUS
<1>6. Stands(Fp2Times(a, b), d, e)
  BY <1>1, <1>2, <1>4, Standing
<1>7. Stands(Fp2Times(a, c), k, l)
  BY <1>1, <1>3, <1>5, Standing
<1>8. /\ Stands(Fp2Minus(Fp2Times(a, b), Fp2Times(a, c)), d - k, e - l)
      /\ Stands(Fp2Plus(Fp2Times(a, b), Fp2Times(a, c)), d + k, e + l)
  BY <1>6, <1>7, Standing
<1>9. PICK p, q \in Int : p = u - g /\ q = v - h
  OBVIOUS
<1>10. PICK r, t \in Int : r = u + g /\ t = v + h
  OBVIOUS
<1>11. Stands(Fp2Minus(b, c), p, q)
  BY <1>2, <1>3, <1>9, Standing
<1>12. Stands(Fp2Plus(b, c), r, t)
  BY <1>2, <1>3, <1>10, Standing
<1>13. Stands(Fp2Times(a, Fp2Minus(b, c)), m * p - n * q, m * q + n * p)
  BY <1>1, <1>11, Standing
<1>14. Stands(Fp2Times(a, Fp2Plus(b, c)), m * r - n * t, m * t + n * r)
  BY <1>1, <1>12, Standing
<1>15. m * p - n * q = d - k /\ m * q + n * p = e - l
  BY <1>4, <1>5, <1>9
<1>16. m * r - n * t = d + k /\ m * t + n * r = e + l
  BY <1>4, <1>5, <1>10
<1>17. Fp2Times(a, Fp2Minus(b, c)) = Fp2Minus(Fp2Times(a, b), Fp2Times(a, c))
  BY <1>8, <1>13, <1>15, SameNumber
<1>18. Fp2Times(a, Fp2Plus(b, c)) = Fp2Plus(Fp2Times(a, b), Fp2Times(a, c))
  BY <1>8, <1>14, <1>16, SameNumber
<1> QED BY <1>17, <1>18

LEMMA ZeroOne ==
  ASSUME NEW a \in Fp2
  PROVE  /\ Fp2Times(a, C(1)) = a /\ Fp2Times(a, C(0)) = C(0)
         /\ Fp2Times(C(1), a) = a /\ Fp2Times(C(0), a) = C(0)
<1>1. PICK m, n \in Int : Stands(a, m, n)
  BY StandsFor
<1>2. PICK o, z \in Int : o = 1 /\ z = 0
  OBVIOUS
<1>3. z % P = 0
  BY <1>2, Prime DEF Fp
<1>4. Stands(C(1), o, z) /\ Stands(C(0), z, z) /\ Stands(C(0), z, z)
  BY <1>2, <1>3 DEF C, Pair, Stands
<1>5. m * o - n * z = m /\ m * z + n * o = n /\ m * z - n * z = z /\ m * z + n * z = z
  BY <1>2
<1>8. Stands(Fp2Times(a, C(1)), m * o - n * z, m * z + n * o)
  BY <1>1, <1>4, Standing
<1>9. Stands(Fp2Times(a, C(0)), m * z - n * z, m * z + n * z)
  BY <1>1, <1>4, Standing
<1>6. Fp2Times(a, C(1)) = a /\ Fp2Times(a, C(0)) = C(0)
  BY <1>1, <1>4, <1>5, <1>8, <1>9, SameNumber
<1>7. C(0) \in Fp2 /\ C(1) \in Fp2
  BY RingTypes
<1> QED BY <1>6, <1>7, TimesComm

LEMMA MinusZero ==
  ASSUME NEW a \in Fp2, NEW b \in Fp2
  PROVE  Fp2Minus(a, b) = C(0) <=> a = b
<1>1. PICK u, v, g, h \in Fp : a = [real |-> u, imag |-> v] /\ b = [real |-> g, imag |-> h]
  BY DEF Fp2
<1>2. Fp2Minus(a, b) = [real |-> (u - g) % P, imag |-> (v - h) % P]
  BY <1>1 DEF Fp2Minus, ComplexSub, Sub
<1>3. C(0) = [real |-> 0, imag |-> 0]
  BY Prime DEF C, Fp
<1>4. ASSUME NEW m \in Fp, NEW n \in Fp PROVE (m - n) % P = 0 <=> m = n
  <2>1. PICK q \in Nat : q = P /\ q > 1
    BY Prime
  <2>2. m \in 0 .. q - 1 /\ n \in 0 .. q - 1
    BY <2>1 DEF Fp
  <2>3. CASE m = n
    BY <2>1, <2>2, <2>3
  <2>4. CASE m > n
    <3>1. m - n \in 0 .. q - 1
      BY <2>2, <2>4
    <3>2. (m - n) % q = m - n
      BY <2>1, <3>1, Small
    <3> QED BY <2>1, <2>2, <2>4, <3>2
  <2>5. CASE m < n
    <3>1. PICK r \in 0 .. q - 1 : r = (m - n) + q
      BY <2>1, <2>2, <2>5
    <3>2. PICK k \in Int : k = -1
      OBVIOUS
    <3>3. PICK d \in Int : d = m - n
      BY <2>2
    <3>4. d = k * q + r
      BY <2>1, <3>1, <3>2, <3>3
    <3>5. d % q = r
      BY <2>1, <3>4, DivIs
    <3> QED BY <2>1, <2>2, <2>5, <3>1, <3>3, <3>5
  <2> QED BY <2>2, <2>3, <2>4, <2>5
<1> QED BY <1>1, <1>2, <1>3, <1>4

(* What the abscissa of a chord is, from the sum the formulas make.         *)
LEMMA ChordSum ==
  ASSUME NEW a \in Fp2, NEW b \in Fp2, NEW c \in Fp2
  PROVE  Fp2Minus(Fp2Plus(a, Fp2Minus(b, c)), Fp2Plus(b, b)) = Fp2Minus(Fp2Minus(a, b), c)
<1>1. PICK m, n \in Int : Stands(a, m, n)
  BY StandsFor
<1>2. PICK u, v \in Int : Stands(b, u, v)
  BY StandsFor
<1>3. PICK g, h \in Int : Stands(c, g, h)
  BY StandsFor
<1>4. PICK d, e \in Int : d = u - g /\ e = v - h
  OBVIOUS
<1>5. PICK k, l \in Int : k = m + d /\ l = n + e
  OBVIOUS
<1>6. PICK p, q \in Int : p = u + u /\ q = v + v
  OBVIOUS
<1>7. PICK r, t \in Int : r = m - u /\ t = n - v
  OBVIOUS
<1>8. Stands(Fp2Minus(b, c), d, e)
  BY <1>2, <1>3, <1>4, Standing
<1>9. Stands(Fp2Plus(b, b), p, q)
  BY <1>2, <1>6, Standing
<1>10. Stands(Fp2Minus(a, b), r, t)
  BY <1>1, <1>2, <1>7, Standing
<1>11. Stands(Fp2Plus(a, Fp2Minus(b, c)), k, l)
  BY <1>1, <1>5, <1>8, Standing
<1>12. Stands(Fp2Minus(Fp2Plus(a, Fp2Minus(b, c)), Fp2Plus(b, b)), k - p, l - q)
  BY <1>9, <1>11, Standing
<1>13. Stands(Fp2Minus(Fp2Minus(a, b), c), r - g, t - h)
  BY <1>3, <1>10, Standing
<1>14. k - p = r - g /\ l - q = t - h
  BY <1>4, <1>5, <1>6, <1>7
<1> QED BY <1>12, <1>13, <1>14, SameNumber

-----------------------------------------------------------------------------
(***************************************************************************)
(* They are a field, because -1 is no square.                              *)
(***************************************************************************)
LEMMA Multiple ==
  ASSUME NEW a \in Int, a % P = 0
  PROVE  \E k \in Int : a = k * P
<1>1. PICK q \in Nat : q = P /\ q > 0
  BY Prime
<1>2. q > 0
  BY <1>1
<1>3. a = (a \div q) * q + (a % q) /\ a \div q \in Int
  BY <1>2, Division
<1>4. PICK k \in Int : k = a \div q
  BY <1>3
<1>5. a = k * q
  BY <1>1, <1>3, <1>4
<1> QED BY <1>1, <1>5

DividesTo(q, k, r, a) == /\ q \in Nat /\ q > 0 /\ k \in Int /\ r \in 0 .. q - 1 /\ a \in Int
                         /\ a = k * q + r

LEMMA RemainderIs ==
  ASSUME NEW q, NEW k, NEW r, NEW a, DividesTo(q, k, r, a)
  PROVE  a % q = r
<1>1. q \in Nat /\ q > 0 /\ k \in Int /\ r \in 0 .. q - 1 /\ a \in Int /\ a = k * q + r
  BY DEF DividesTo
<1> HIDE DEF DividesTo
<1> QED BY <1>1, DivIs

LEMMA Multiples ==
  ASSUME NEW k \in Int, NEW r \in 0 .. P - 1, NEW a \in Int, a = k * P + r
  PROVE  a % P = r
<1>1. DividesTo(P, k, r, a)
  BY Prime DEF DividesTo
<1> QED BY <1>1, RemainderIs

LEMMA FpInverse ==
  ASSUME NEW a \in Fp, a # 0
  PROVE  \E b, k \in Int : b \in Fp /\ b # 0 /\ a * b = 1 + k * P /\ (a * b) % P = 1
<1>1. PICK b \in Fp : (a * b) % P = 1
  BY FieldAssumption DEF Mul
<1>2. a \in Int /\ b \in Int
  BY Prime
<1>3. b # 0
  <2>1. 0 % P = 0
    BY Prime DEF Fp
  <2>2. b = 0 => a * b = 0
    BY <1>2
  <2> QED BY <1>1, <2>1, <2>2
<1>4. PICK q \in Nat : q = P /\ q > 0
  BY Prime
<1>5. PICK c \in Int : c = a * b
  BY <1>2
<1>6. q > 0
  BY <1>4
<1>7. c = (c \div q) * q + (c % q) /\ c \div q \in Int
  BY <1>6, Division
<1>8. PICK k \in Int : k = c \div q
  BY <1>7
<1>9. c = k * q + 1
  BY <1>1, <1>4, <1>5, <1>7, <1>8
<1>10. a * b = 1 + k * P
  BY <1>2, <1>4, <1>5, <1>9
<1>11. b \in Int /\ k \in Int
  BY <1>2
<1> QED BY <1>1, <1>3, <1>10, <1>11

(* The norm of a number other than 0 is not 0.                              *)
LEMMA NormIsNot0 ==
  ASSUME NEW m \in Fp, NEW n \in Fp, (m * m + n * n) % P = 0
  PROVE  m = 0 /\ n = 0
<1>1. m \in Int /\ n \in Int /\ P \in Int
  BY Prime
<1>2. PICK s \in Int : s = m * m + n * n
  BY <1>1
<1>3. PICK k \in Int : s = k * P
  BY <1>2, Multiple
<1>4. n = 0
  <2> SUFFICES ASSUME n # 0 PROVE FALSE
    OBVIOUS
  <2>1. PICK w, j \in Int : n * w = 1 + j * P
    BY FpInverse
  <2>2. PICK x \in Int : x = m * w
    BY <1>1
  <2>3. PICK y \in Fp : y = x % P
    BY Prime
  <2>4. PICK h \in Int : h = k * (w * w) - j * (2 + j * P)
    BY <1>1
  <2>5. x * x + 1 = h * P
    <3>1. PICK z \in Int : z = j * P
      BY <1>1
    <3>2. PICK t \in Int : t = k * P
      BY <1>1
    <3>3. (m * w) * (m * w) + (n * w) * (n * w) = (m * m + n * n) * (w * w)
      BY <1>1
    <3>4. x * x + (1 + z) * (1 + z) = t * (w * w)
      BY <1>2, <1>3, <2>1, <2>2, <3>1, <3>2, <3>3
    <3>5. x * x + 1 = t * (w * w) - z * (2 + z)
      BY <3>4
    <3>6. h * P = (k * P) * (w * w) - (j * P) * (2 + j * P)
      BY <1>1, <2>4
    <3> QED BY <3>1, <3>2, <3>5, <3>6
  <2>6. (x * x + 1) % P = 0
    <3>1. PICK a \in Int : a = x * x + 1
      OBVIOUS
    <3>2. 0 \in 0 .. P - 1
      BY Prime DEF Fp
    <3>3. a = h * P + 0
      BY <1>1, <2>5, <3>1
    <3> QED BY <3>1, <3>2, <3>3, Multiples
  <2>7. Add(P, Mul(P, y, y), 1) = (x * x + 1) % P
    <3>1. (y * y) % P = (x * x) % P
      BY <2>3, Products
    <3>2. PICK a \in Int : a = x * x
      OBVIOUS
    <3>3. ((a % P) + 1) % P = (a + 1) % P
      BY Sums
    <3> QED BY <3>1, <3>2, <3>3 DEF Add, Mul
  <2> QED BY <2>6, <2>7, FieldAssumption
<1>5. m = 0
  <2> SUFFICES ASSUME m # 0 PROVE FALSE
    OBVIOUS
  <2>1. PICK w, j \in Int : m * w = 1 + j * P
    BY FpInverse
  <2>2. m * m = k * P
    BY <1>1, <1>2, <1>3, <1>4
  <2>3. PICK h \in Int : h = k * w - m * j
    BY <1>1
  <2>4. m = h * P
    <3>1. m * (m * w) = m + m * (j * P)
      BY <1>1, <2>1
    <3>2. m * (m * w) = (k * P) * w
      BY <1>1, <2>2
    <3> QED BY <1>1, <2>3, <3>1, <3>2
  <2>5. m % P = 0
    <3>1. 0 \in 0 .. P - 1
      BY Prime DEF Fp
    <3>2. m = h * P + 0
      BY <1>1, <2>4
    <3> QED BY <1>1, <3>1, <3>2, Multiples
  <2> QED BY <2>5, Prime
<1> QED BY <1>4, <1>5

(* What the protocol of inv finds: the inverse, unless r * a is 0.          *)
LEMMA InvIs ==
  ASSUME NEW a \in Fp, NEW r \in Fp, RA(P, a, r) # 0
  PROVE  Inv(P, a, r) \in Fp /\ (a * Inv(P, a, r)) % P = 1
<1>1. a \in Int /\ r \in Int
  BY Prime
<1>2. PICK m \in Fp : m = (r * a) % P /\ m # 0
  BY <1>1, Prime DEF RA, Mul
<1>3. PICK w \in Int : w \in Fp /\ w # 0 /\ (m * w) % P = 1
  BY <1>2, FpInverse
<1>4. w \in 1 .. P - 1
  BY <1>3, Prime DEF Fp
<1>5. PICK j : j = CHOOSE k \in 1 .. P - 1 : Mul(P, RA(P, a, r), k) = 1
  OBVIOUS
<1>6. j \in 1 .. P - 1 /\ (m * j) % P = 1
  BY <1>2, <1>3, <1>4, <1>5 DEF RA, Mul
<1>7. j \in Int /\ j \in Fp
  BY <1>6, Prime DEF Fp
<1>8. PICK c \in Int : c = r * j
  BY <1>1, <1>7
<1>9. Inv(P, a, r) = c % P
  BY <1>5, <1>8 DEF Inv, Mul
<1>10. (a * (c % P)) % P = (a * c) % P
  BY <1>1, RemainderInside
<1>11. ((r * a) * j) % P = (m * j) % P
  <2>1. PICK b \in Int : b = r * a
    BY <1>1
  <2>2. ((b % P) * (j % P)) % P = (b * j) % P
    BY <1>7, Products
  <2>3. j % P = j
    BY <1>7, Prime
  <2> QED BY <1>2, <2>1, <2>2, <2>3
<1>12. a * c = (r * a) * j
  BY <1>1, <1>7, <1>8
<1> QED BY <1>6, <1>8, <1>9, <1>10, <1>11, <1>12, Prime

(* The inverse of a pair: its conjugate times the inverse of its norm.      *)
LEMMA Conjugate ==
  ASSUME NEW a \in Fp2, NEW n \in Int, ((a.real * a.real + a.imag * a.imag) * n) % P = 1
  PROVE  Fp2Times(a, Pair(a.real * n, a.imag * (-n))) = C(1)
<1>1. PICK u, v \in Int : u = a.real /\ v = a.imag /\ u \in Fp /\ v \in Fp
  BY Prime DEF Fp2
<1>2. Stands(a, u, v)
  <2>1. a = [real |-> u, imag |-> v]
    BY <1>1 DEF Fp2
  <2> QED BY <1>1, <2>1, Prime DEF Stands, Pair
<1>3. PICK g, h \in Int : g = u * n /\ h = v * (-n)
  OBVIOUS
<1>4. Stands(Pair(g, h), g, h)
  BY DEF Stands
<1>5. Stands(Fp2Times(a, Pair(g, h)), u * g - v * h, u * h + v * g)
  BY <1>2, <1>4, Standing
<1>6. u * g - v * h = (u * u + v * v) * n /\ u * h + v * g = 0
  BY <1>3
<1>7. PICK z \in Int : z = (u * u + v * v) * n
  OBVIOUS
<1>8. Fp2Times(a, Pair(g, h)) = Pair(z, 0)
  BY <1>5, <1>6, <1>7 DEF Stands
<1>9. z % P = 1 /\ 1 % P = 1 /\ 0 % P = 0
  BY <1>1, <1>7, Prime DEF Fp
<1>10. Pair(z, 0) = C(1)
  BY <1>9 DEF Pair, C
<1> QED BY <1>1, <1>3, <1>8, <1>10

LEMMA Inverse2 ==
  ASSUME NEW a \in Fp2, a # C(0)
  PROVE  \E b \in Fp2 : Fp2Times(a, b) = C(1)
<1>1. PICK u, v \in Int : u = a.real /\ v = a.imag /\ u \in Fp /\ v \in Fp
  BY Prime DEF Fp2
<1>2. u # 0 \/ v # 0
  <2>1. a = [real |-> u, imag |-> v] /\ C(0) = [real |-> 0, imag |-> 0]
    BY <1>1, Prime DEF Fp2, Fp, C
  <2> QED BY <2>1
<1>3. PICK m \in Fp : m = (u * u + v * v) % P
  BY Prime
<1>4. m # 0
  BY <1>1, <1>2, <1>3, NormIsNot0
<1>5. PICK n \in Int : n \in Fp /\ (m * n) % P = 1
  BY <1>4, FpInverse
<1>6. ((u * u + v * v) * n) % P = 1
  <2>1. PICK s \in Int : s = u * u + v * v
    OBVIOUS
  <2>2. ((s % P) * (n % P)) % P = (s * n) % P
    BY Products
  <2>3. n % P = n
    BY <1>5, Prime
  <2> QED BY <1>3, <1>5, <2>1, <2>2, <2>3
<1>7. Fp2Times(a, Pair(a.real * n, a.imag * (-n))) = C(1)
  BY <1>1, <1>6, Conjugate
<1>8. Pair(a.real * n, a.imag * (-n)) \in Fp2
  <2>1. PICK g, h \in Int : g = u * n /\ h = v * (-n)
    OBVIOUS
  <2>2. Pair(g, h) \in Fp2
    BY PairType
  <2> QED BY <1>1, <2>1, <2>2
<1> QED BY <1>7, <1>8

(* The reference's inverse, and that there is one only.                     *)
LEMMA RecipIs ==
  ASSUME NEW a \in Fp2, a # C(0)
  PROVE  Recip[a] \in Fp2 /\ Fp2Times(a, Recip[a]) = C(1)
<1>1. Recip[a] = CHOOSE b \in Fp2 : Fp2Times(a, b) = C(1)
  BY DEF Recip
<1> QED BY <1>1, Inverse2

LEMMA OneInverse ==
  ASSUME NEW a \in Fp2, NEW b \in Fp2, a # C(0), Fp2Times(a, b) = C(1)
  PROVE  b = Recip[a]
<1>1. PICK c \in Fp2 : c = Recip[a] /\ Fp2Times(a, c) = C(1)
  BY RecipIs
<1>2. Fp2Times(Fp2Times(b, a), c) = Fp2Times(b, Fp2Times(a, c))
  BY TimesAssoc
<1>3. Fp2Times(b, a) = C(1)
  BY TimesComm
<1>4. Fp2Times(C(1), c) = c /\ Fp2Times(b, C(1)) = b
  BY ZeroOne
<1> QED BY <1>1, <1>2, <1>3, <1>4

LEMMA NoZeroDivisors ==
  ASSUME NEW a \in Fp2, NEW b \in Fp2, Fp2Times(a, b) = C(0)
  PROVE  a = C(0) \/ b = C(0)
<1> SUFFICES ASSUME a # C(0) PROVE b = C(0)
  OBVIOUS
<1>1. PICK c \in Fp2 : Fp2Times(a, c) = C(1)
  BY Inverse2
<1>2. Fp2Times(c, a) = C(1)
  BY <1>1, TimesComm
<1>3. Fp2Times(Fp2Times(c, a), b) = Fp2Times(c, Fp2Times(a, b))
  BY TimesAssoc
<1>4. Fp2Times(C(1), b) = b /\ Fp2Times(c, C(0)) = C(0)
  BY ZeroOne
<1> QED BY <1>2, <1>3, <1>4

-----------------------------------------------------------------------------
(***************************************************************************)
(* The protocols compute the operations of the field, in G1 and in G2.     *)
(***************************************************************************)
LEMMA FpTypes ==
  ASSUME NEW a \in Fp, NEW b \in Fp
  PROVE  FpPlus(a, b) \in Fp /\ FpMinus(a, b) \in Fp /\ FpTimes(a, b) \in Fp
<1>1. a \in Int /\ b \in Int
  BY Prime
<1>2. a + b \in Int /\ a - b \in Int /\ a * b \in Int
  BY <1>1
<1> QED BY <1>2, Prime DEF FpPlus, FpMinus, FpTimes, Add, Sub, Mul

(* The pair (s, s^2) a square spends does not show.                         *)
LEMMA SqrIs ==
  ASSUME NEW a \in Fp, NEW s \in Fp
  PROVE  Sqr(P, a, s) = (a * a) % P
<1>1. a \in Int /\ s \in Int /\ a % P = a
  BY Prime
<1>2. PICK d \in Int : d = a - s
  BY <1>1
<1>3. PICK e \in Int : e = d % P
  BY Prime, Division
<1>4. e % P = d % P
  BY <1>3, Prime
<1>5. PICK f, g, h \in Int : f = s * s /\ g = 2 * s * d /\ h = d * d
  BY <1>1
<1>6. (2 * s * e) % P = g % P
  <2>1. PICK t \in Int : t = 2 * s
    BY <1>1
  <2>2. ((t % P) * (e % P)) % P = (t * e) % P
    BY Products
  <2>3. ((t % P) * (d % P)) % P = (t * d) % P
    BY Products
  <2> QED BY <1>4, <1>5, <2>1, <2>2, <2>3
<1>7. (e * e) % P = h % P
  BY <1>3, <1>5, Products
<1>8. Sqr(P, a, s) = ((((f % P) + (g % P)) % P) + (h % P)) % P
  BY <1>2, <1>3, <1>5, <1>6, <1>7 DEF Sqr, Sub, Add, Mul
<1>9. ((f % P) + (g % P)) % P = (f + g) % P
  <2>1. PICK r \in Int : r = f % P
    BY Prime, Division
  <2>2. (r + (g % P)) % P = (r + g) % P
    BY Sums
  <2>3. ((f % P) + g) % P = (f + g) % P
    BY Sums
  <2> QED BY <2>1, <2>2, <2>3
<1>10. (((f + g) % P) + (h % P)) % P = ((f + g) + h) % P
  <2>1. PICK c \in Int : c = f + g
    OBVIOUS
  <2>2. PICK r \in Int : r = c % P
    BY Prime, Division
  <2>3. (r + (h % P)) % P = (r + h) % P
    BY Sums
  <2>4. ((c % P) + h) % P = (c + h) % P
    BY Sums
  <2> QED BY <2>1, <2>2, <2>3, <2>4
<1>11. (f + g) + h = a * a
  BY <1>1, <1>2, <1>5
<1> QED BY <1>8, <1>9, <1>10, <1>11

LEMMA Sqr1 ==
  ASSUME NEW a \in Fp, NEW s \in Fp
  PROVE  FpSqr(a, s) = FpTimes(a, a)
BY SqrIs DEF FpSqr, FpTimes, Mul

LEMMA Sqr2 ==
  ASSUME NEW a \in Fp2, NEW s \in Fp
  PROVE  Fp2Sqr(a, s) = Fp2Times(a, a)
<1>1. PICK u, v \in Int : u = a.real /\ v = a.imag /\ u \in Fp /\ v \in Fp
  BY Prime DEF Fp2
<1>2. Sqr(P, u, s) = (u * u) % P /\ Sqr(P, v, s) = (v * v) % P
  BY <1>1, SqrIs
<1>3. (2 * ((u * v) % P)) % P = (((u * v) % P) + ((v * u) % P)) % P
  <2>1. PICK c \in Int : c = u * v
    OBVIOUS
  <2>2. PICK r \in Int : r = c % P
    BY Prime, Division
  <2>3. 2 * r = r + r /\ v * u = c
    BY <2>1
  <2> QED BY <2>1, <2>2, <2>3
<1> QED BY <1>1, <1>2, <1>3
        DEF Fp2Sqr, ComplexSqr, Fp2Times, ComplexMul, Sub, Add, Mul

(* A coordinate of G1 as one without an imaginary part.                     *)
LEMMA Embeds ==
  ASSUME NEW a \in Fp, NEW b \in Fp
  PROVE  /\ C(a) \in Fp2 /\ (C(a) = C(b) <=> a = b)
         /\ C(FpPlus(a, b)) = Fp2Plus(C(a), C(b))
         /\ C(FpMinus(a, b)) = Fp2Minus(C(a), C(b))
         /\ C(FpTimes(a, b)) = Fp2Times(C(a), C(b))
<1>1. PICK m, n \in Int : m = a /\ n = b /\ m % P = m /\ n % P = n
  BY Prime
<1>2. 0 % P = 0 /\ 0 \in Fp
  BY Prime DEF Fp
<1>3. C(a) = [real |-> m, imag |-> 0] /\ C(b) = [real |-> n, imag |-> 0]
  BY <1>1 DEF C
<1>4. C(a) \in Fp2 /\ (C(a) = C(b) <=> a = b)
  BY <1>1, <1>2, <1>3 DEF Fp2
<1>5. PICK z \in Int : z = 0
  OBVIOUS
<1>6. Stands(C(a), m, z) /\ Stands(C(b), n, z)
  BY <1>1, <1>2, <1>3, <1>5 DEF Stands, Pair
<1>7. /\ Stands(Fp2Plus(C(a), C(b)), m + n, z + z)
      /\ Stands(Fp2Minus(C(a), C(b)), m - n, z - z)
      /\ Stands(Fp2Times(C(a), C(b)), m * n - z * z, m * z + z * n)
  BY <1>6, Standing
<1>8. m * n - z * z = m * n /\ m * z + z * n = 0 /\ z + z = 0 /\ z - z = 0
  BY <1>5
<1>9. PICK k \in Int : k = m + n
  OBVIOUS
<1>10. PICK l \in Int : l = m - n
  OBVIOUS
<1>11. PICK j \in Int : j = m * n
  OBVIOUS
<1>12. /\ Fp2Plus(C(a), C(b)) = [real |-> k % P, imag |-> 0]
       /\ Fp2Minus(C(a), C(b)) = [real |-> l % P, imag |-> 0]
       /\ Fp2Times(C(a), C(b)) = [real |-> j % P, imag |-> 0]
  BY <1>2, <1>7, <1>8, <1>9, <1>10, <1>11 DEF Stands, Pair
<1>13. FpPlus(a, b) = k % P /\ FpMinus(a, b) = l % P /\ FpTimes(a, b) = j % P
  BY <1>1, <1>9, <1>10, <1>11 DEF FpPlus, FpMinus, FpTimes, Add, Sub, Mul
<1>14. (k % P) % P = k % P /\ (l % P) % P = l % P /\ (j % P) % P = j % P
  BY Prime
<1> QED BY <1>4, <1>12, <1>13, <1>14 DEF C

-----------------------------------------------------------------------------
(***************************************************************************)
(* The three formulas give the chord.                                      *)
(***************************************************************************)
Interchanged(a, b, c, d) ==
  Fp2Times(Fp2Times(a, b), Fp2Times(c, d)) = Fp2Times(Fp2Times(a, c), Fp2Times(b, d))

LEMMA Interchange ==
  ASSUME NEW a \in Fp2, NEW b \in Fp2, NEW c \in Fp2, NEW d \in Fp2
  PROVE  Interchanged(a, b, c, d)
<1>1. PICK e \in Fp2 : e = Fp2Times(c, d)
  BY RingTypes
<1>2. PICK f \in Fp2 : f = Fp2Times(b, d)
  BY RingTypes
<1>3. Fp2Times(Fp2Times(a, b), e) = Fp2Times(a, Fp2Times(b, e))
  BY TimesAssoc
<1>4. Fp2Times(b, e) = Fp2Times(c, f)
  <2>1. Fp2Times(b, Fp2Times(c, d)) = Fp2Times(Fp2Times(b, c), d)
    BY TimesAssoc
  <2>2. Fp2Times(b, c) = Fp2Times(c, b)
    BY TimesComm
  <2>3. Fp2Times(Fp2Times(c, b), d) = Fp2Times(c, Fp2Times(b, d))
    BY TimesAssoc
  <2> QED BY <1>1, <1>2, <2>1, <2>2, <2>3
<1>5. Fp2Times(a, Fp2Times(c, f)) = Fp2Times(Fp2Times(a, c), f)
  BY TimesAssoc
<1> QED BY <1>1, <1>2, <1>3, <1>4, <1>5 DEF Interchanged

(* m is the slope of the chord through (x1, y1) and (x2, y2).               *)
Slope(x1, y1, x2, y2) == Fp2Times(Fp2Minus(y1, y2), Recip[Fp2Minus(x1, x2)])

LEMMA SlopeIs ==
  ASSUME NEW x1 \in Fp2, NEW y1 \in Fp2, NEW x2 \in Fp2, NEW y2 \in Fp2, x1 # x2
  PROVE  /\ Slope(x1, y1, x2, y2) \in Fp2
         /\ Fp2Minus(x1, x2) \in Fp2 /\ Fp2Minus(x1, x2) # C(0)
         /\ Fp2Times(Slope(x1, y1, x2, y2), Fp2Minus(x1, x2)) = Fp2Minus(y1, y2)
<1>1. PICK d \in Fp2 : d = Fp2Minus(x1, x2) /\ d # C(0)
  BY RingTypes, MinusZero
<1>2. PICK e \in Fp2 : e = Fp2Minus(y1, y2)
  BY RingTypes
<1>3. PICK r \in Fp2 : r = Recip[d] /\ Fp2Times(d, r) = C(1)
  BY <1>1, RecipIs
<1>4. Slope(x1, y1, x2, y2) = Fp2Times(e, r)
  BY <1>1, <1>2, <1>3 DEF Slope
<1>5. Fp2Times(e, r) \in Fp2
  BY RingTypes
<1>6. Fp2Times(Fp2Times(e, r), d) = Fp2Times(e, Fp2Times(r, d))
  BY TimesAssoc
<1>7. Fp2Times(r, d) = Fp2Times(d, r)
  BY TimesComm
<1>8. Fp2Times(e, C(1)) = e
  BY ZeroOne
<1> QED BY <1>1, <1>2, <1>3, <1>4, <1>5, <1>6, <1>7, <1>8

(* Multiplied by a common factor, the parts of the sum's abscissa.          *)
LEMMA ScaledChord ==
  ASSUME NEW q \in Fp2, NEW n \in Fp2, NEW x1 \in Fp2, NEW x2 \in Fp2
  PROVE  Fp2Minus(Fp2Plus(Fp2Times(q, n), Fp2Times(q, Fp2Minus(x1, x2))),
                  Fp2Plus(Fp2Times(q, x1), Fp2Times(q, x1)))
           = Fp2Times(q, Fp2Minus(Fp2Minus(n, x1), x2))
<1>1. PICK d \in Fp2 : d = Fp2Minus(x1, x2)
  BY RingTypes
<1>2. PICK e \in Fp2 : e = Fp2Plus(n, d)
  BY RingTypes
<1>3. PICK f \in Fp2 : f = Fp2Plus(x1, x1)
  BY RingTypes
<1>4. Fp2Plus(Fp2Times(q, n), Fp2Times(q, d)) = Fp2Times(q, e)
  BY <1>2, TimesMinus
<1>5. Fp2Plus(Fp2Times(q, x1), Fp2Times(q, x1)) = Fp2Times(q, f)
  BY <1>3, TimesMinus
<1>6. Fp2Minus(Fp2Times(q, e), Fp2Times(q, f)) = Fp2Times(q, Fp2Minus(e, f))
  BY TimesMinus
<1>7. Fp2Minus(e, f) = Fp2Minus(Fp2Minus(n, x1), x2)
  BY <1>1, <1>2, <1>3, ChordSum
<1> QED BY <1>1, <1>4, <1>5, <1>6, <1>7

(* The results of JacFrom and of AddProj, with squares as products.         *)
AbscissaFrom(U1, U2, n) ==
  LET H  == Fp2Minus(U1, U2)
      HH == Fp2Times(H, H)
      V  == Fp2Times(HH, U1)
  IN  Fp2Minus(Fp2Plus(n, Fp2Times(HH, H)), Fp2Plus(V, V))

OrdinateFrom(U1, U2, S1, S2, X) ==
  LET H  == Fp2Minus(U1, U2)
      HH == Fp2Times(H, H)
  IN  Fp2Minus(Fp2Times(Fp2Minus(Fp2Times(HH, U1), X), Fp2Minus(S1, S2)),
               Fp2Times(S1, Fp2Times(HH, H)))

(* Jacobian: w is the product of both Z.                                    *)
LEMMA JacobianChord ==
  ASSUME NEW w \in Fp2, NEW x1 \in Fp2, NEW y1 \in Fp2, NEW x2 \in Fp2, NEW y2 \in Fp2, x1 # x2,
         NEW w2 \in Fp2, w2 = Fp2Times(w, w), NEW w3 \in Fp2, w3 = Fp2Times(w2, w),
         NEW U1, U1 = Fp2Times(x1, w2), NEW U2, U2 = Fp2Times(x2, w2),
         NEW S1, S1 = Fp2Times(y1, w3), NEW S2, S2 = Fp2Times(y2, w3),
         NEW R, R = Fp2Minus(S1, S2),
         NEW X, X = AbscissaFrom(U1, U2, Fp2Times(R, R)),
         NEW Z, Z = Fp2Times(w, Fp2Minus(U1, U2)),
         NEW c, c = Chord([x |-> x1, y |-> y1], [x |-> x2, y |-> y2], Slope(x1, y1, x2, y2))
  PROVE  /\ Z \in Fp2 /\ c.x \in Fp2 /\ c.y \in Fp2
         /\ X = Fp2Times(c.x, Fp2Times(Z, Z))
         /\ OrdinateFrom(U1, U2, S1, S2, X) = Fp2Times(c.y, Fp2Times(Fp2Times(Z, Z), Z))
<1>1. PICK d \in Fp2 : d = Fp2Minus(x1, x2)
  BY RingTypes
<1>2. PICK m \in Fp2 : m = Slope(x1, y1, x2, y2) /\ Fp2Times(m, d) = Fp2Minus(y1, y2)
  BY <1>1, SlopeIs
<1>3. PICK H \in Fp2 : H = Fp2Times(w2, d)
  BY RingTypes
<1>4. Fp2Minus(U1, U2) = H
  <2>1. U1 = Fp2Times(w2, x1) /\ U2 = Fp2Times(w2, x2)
    BY TimesComm
  <2>2. Fp2Times(w2, Fp2Minus(x1, x2)) = Fp2Minus(Fp2Times(w2, x1), Fp2Times(w2, x2))
    BY TimesMinus
  <2> QED BY <1>1, <1>3, <2>1, <2>2
<1>5. PICK z \in Fp2 : z = Z /\ z = Fp2Times(w, H)
  BY <1>4, RingTypes
<1>6. z = Fp2Times(w3, d)
  <2>1. Fp2Times(w, Fp2Times(w2, d)) = Fp2Times(Fp2Times(w, w2), d)
    BY TimesAssoc
  <2>2. Fp2Times(w, w2) = Fp2Times(w2, w)
    BY TimesComm
  <2> QED BY <1>3, <1>5, <2>1, <2>2
<1>7. R = Fp2Times(z, m)
  <2>1. S1 = Fp2Times(w3, y1) /\ S2 = Fp2Times(w3, y2)
    BY TimesComm
  <2>2. Fp2Times(w3, Fp2Minus(y1, y2)) = Fp2Minus(Fp2Times(w3, y1), Fp2Times(w3, y2))
    BY TimesMinus
  <2>3. Fp2Times(m, d) = Fp2Times(d, m)
    BY TimesComm
  <2>4. Fp2Times(w3, Fp2Times(d, m)) = Fp2Times(Fp2Times(w3, d), m)
    BY TimesAssoc
  <2> QED BY <1>2, <1>6, <2>1, <2>2, <2>3, <2>4
<1>8. PICK n \in Fp2 : n = Fp2Times(m, m)
  BY RingTypes
<1>9. PICK z2 \in Fp2 : z2 = Fp2Times(z, z)
  BY RingTypes
<1>10. Fp2Times(R, R) = Fp2Times(z2, n)
  <2>1. Interchanged(z, m, z, m)
    BY Interchange
  <2> QED BY <1>7, <1>8, <1>9, <2>1 DEF Interchanged
<1>11. PICK HH \in Fp2 : HH = Fp2Times(H, H)
  BY RingTypes
<1>12. z2 = Fp2Times(w2, HH) /\ Fp2Times(HH, w2) = z2
  <2>1. Fp2Times(Fp2Times(w, H), Fp2Times(w, H)) = Fp2Times(Fp2Times(w, w), Fp2Times(H, H))
    <3>1. Interchanged(w, H, w, H)
      BY Interchange
    <3> QED BY <3>1 DEF Interchanged
  <2>2. Fp2Times(HH, w2) = Fp2Times(w2, HH)
    BY TimesComm
  <2> QED BY <1>5, <1>9, <1>11, <2>1, <2>2
<1>13. Fp2Times(HH, U1) = Fp2Times(z2, x1)
  <2>1. U1 = Fp2Times(w2, x1)
    BY TimesComm
  <2>2. Fp2Times(HH, Fp2Times(w2, x1)) = Fp2Times(Fp2Times(HH, w2), x1)
    BY TimesAssoc
  <2> QED BY <1>12, <2>1, <2>2
<1>14. PICK G \in Fp2 : G = Fp2Times(HH, H)
  BY RingTypes
<1>15. G = Fp2Times(z2, d)
  <2>1. Fp2Times(HH, Fp2Times(w2, d)) = Fp2Times(Fp2Times(HH, w2), d)
    BY TimesAssoc
  <2> QED BY <1>3, <1>12, <1>14, <2>1
<1>16. PICK x3 \in Fp2 : x3 = Fp2Minus(Fp2Minus(n, x1), x2)
  <2>1. Fp2Minus(n, x1) \in Fp2
    BY RingTypes
  <2> QED BY <2>1, RingTypes
<1>17. X = Fp2Times(z2, x3)
  <2>1. X = Fp2Minus(Fp2Plus(Fp2Times(z2, n), Fp2Times(z2, d)),
                     Fp2Plus(Fp2Times(z2, x1), Fp2Times(z2, x1)))
    <3>1. PICK a, b, e : a = Fp2Times(z2, n) /\ b = Fp2Times(z2, d) /\ e = Fp2Times(z2, x1)
      OBVIOUS
    <3>2. Fp2Times(R, R) = a /\ Fp2Times(HH, H) = b /\ Fp2Times(HH, U1) = e
      BY <1>10, <1>13, <1>14, <1>15, <3>1
    <3>3. AbscissaFrom(U1, U2, a) = Fp2Minus(Fp2Plus(a, b), Fp2Plus(e, e))
      BY <1>4, <1>11, <3>2 DEF AbscissaFrom
    <3>4. X = AbscissaFrom(U1, U2, a)
      BY <3>2
    <3>5. X = Fp2Minus(Fp2Plus(a, b), Fp2Plus(e, e))
      BY <3>3, <3>4
    <3> QED BY <3>1, <3>5
  <2> QED BY <1>1, <1>16, <2>1, ScaledChord
<1>18. PICK z3 \in Fp2 : z3 = Fp2Times(z2, z)
  BY RingTypes
<1>19. Fp2Times(S1, G) = Fp2Times(z3, y1)
  <2>1. Fp2Times(Fp2Times(w2, HH), Fp2Times(w, H)) = Fp2Times(Fp2Times(w2, w), Fp2Times(HH, H))
    <3>1. Interchanged(w2, HH, w, H)
      BY Interchange
    <3> QED BY <3>1 DEF Interchanged
  <2>2. z3 = Fp2Times(w3, G)
    BY <1>5, <1>12, <1>14, <1>18, <2>1
  <2>3. Fp2Times(Fp2Times(y1, w3), G) = Fp2Times(y1, Fp2Times(w3, G))
    BY TimesAssoc
  <2>4. Fp2Times(y1, z3) = Fp2Times(z3, y1)
    BY TimesComm
  <2> QED BY <2>2, <2>3, <2>4
<1>20. PICK e \in Fp2 : e = Fp2Minus(x1, x3)
  BY RingTypes
<1>21. Fp2Minus(Fp2Times(HH, U1), X) = Fp2Times(z2, e)
  BY <1>13, <1>17, <1>20, TimesMinus
<1>22. PICK f \in Fp2 : f = Fp2Times(m, e)
  BY RingTypes
<1>23. Fp2Times(Fp2Times(z2, e), R) = Fp2Times(z3, f)
  <2>1. Fp2Times(Fp2Times(z2, e), Fp2Times(z, m)) = Fp2Times(Fp2Times(z2, z), Fp2Times(e, m))
    <3>1. Interchanged(z2, e, z, m)
      BY Interchange
    <3> QED BY <3>1 DEF Interchanged
  <2>2. Fp2Times(e, m) = Fp2Times(m, e)
    BY TimesComm
  <2> QED BY <1>7, <1>18, <1>22, <2>1, <2>2
<1>24. PICK y3 \in Fp2 : y3 = Fp2Minus(f, y1)
  BY RingTypes
<1>25. OrdinateFrom(U1, U2, S1, S2, X) = Fp2Times(z3, y3)
  <2>1. OrdinateFrom(U1, U2, S1, S2, X) = Fp2Minus(Fp2Times(z3, f), Fp2Times(z3, y1))
    BY <1>4, <1>11, <1>14, <1>19, <1>21, <1>23 DEF OrdinateFrom
  <2> QED BY <1>24, <2>1, TimesMinus
<1>26. c.x = x3 /\ c.y = y3
  BY <1>2, <1>8, <1>16, <1>20, <1>22, <1>24 DEF Chord
<1>27. Fp2Times(z2, x3) = Fp2Times(x3, z2) /\ Fp2Times(z3, y3) = Fp2Times(y3, z3)
  BY TimesComm
<1> QED BY <1>5, <1>9, <1>17, <1>18, <1>25, <1>26, <1>27

(* Projective: w is the product of both Z again.                            *)
LEMMA ProjectiveChord ==
  ASSUME NEW w \in Fp2, NEW x1 \in Fp2, NEW y1 \in Fp2, NEW x2 \in Fp2, NEW y2 \in Fp2, x1 # x2,
         NEW U1, U1 = Fp2Times(x1, w), NEW U2, U2 = Fp2Times(x2, w),
         NEW S1, S1 = Fp2Times(y1, w), NEW S2, S2 = Fp2Times(y2, w),
         NEW R, R = Fp2Minus(S1, S2), NEW H, H = Fp2Minus(U1, U2),
         NEW W, W = AbscissaFrom(U1, U2, Fp2Times(Fp2Times(R, R), w)),
         NEW Z, Z = Fp2Times(w, Fp2Times(Fp2Times(H, H), H)),
         NEW c, c = Chord([x |-> x1, y |-> y1], [x |-> x2, y |-> y2], Slope(x1, y1, x2, y2))
  PROVE  /\ Z \in Fp2 /\ c.x \in Fp2 /\ c.y \in Fp2
         /\ Fp2Times(H, W) = Fp2Times(c.x, Z)
         /\ OrdinateFrom(U1, U2, S1, S2, W) = Fp2Times(c.y, Z)
<1>1. PICK d \in Fp2 : d = Fp2Minus(x1, x2)
  BY RingTypes
<1>2. PICK m \in Fp2 : m = Slope(x1, y1, x2, y2) /\ Fp2Times(m, d) = Fp2Minus(y1, y2)
  BY <1>1, SlopeIs
<1>3. PICK h \in Fp2 : h = H /\ h = Fp2Times(w, d)
  <2>1. U1 = Fp2Times(w, x1) /\ U2 = Fp2Times(w, x2)
    BY TimesComm
  <2>2. Fp2Times(w, Fp2Minus(x1, x2)) = Fp2Minus(Fp2Times(w, x1), Fp2Times(w, x2))
    BY TimesMinus
  <2>3. Fp2Times(w, d) \in Fp2
    BY RingTypes
  <2> QED BY <1>1, <2>1, <2>2, <2>3
<1>4. R = Fp2Times(h, m)
  <2>1. S1 = Fp2Times(w, y1) /\ S2 = Fp2Times(w, y2)
    BY TimesComm
  <2>2. Fp2Times(w, Fp2Minus(y1, y2)) = Fp2Minus(Fp2Times(w, y1), Fp2Times(w, y2))
    BY TimesMinus
  <2>3. Fp2Times(m, d) = Fp2Times(d, m)
    BY TimesComm
  <2>4. Fp2Times(w, Fp2Times(d, m)) = Fp2Times(Fp2Times(w, d), m)
    BY TimesAssoc
  <2> QED BY <1>2, <1>3, <2>1, <2>2, <2>3, <2>4
<1>5. PICK n \in Fp2 : n = Fp2Times(m, m)
  BY RingTypes
<1>6. PICK HH \in Fp2 : HH = Fp2Times(h, h)
  BY RingTypes
<1>7. PICK q \in Fp2 : q = Fp2Times(w, HH)
  BY RingTypes
<1>8. Fp2Times(Fp2Times(R, R), w) = Fp2Times(q, n)
  <2>1. Fp2Times(R, R) = Fp2Times(HH, n)
    <3>1. Interchanged(h, m, h, m)
      BY Interchange
    <3> QED BY <1>4, <1>5, <1>6, <3>1 DEF Interchanged
  <2>2. PICK k \in Fp2 : k = Fp2Times(HH, n)
    BY RingTypes
  <2>3. Fp2Times(k, w) = Fp2Times(w, k)
    BY TimesComm
  <2>4. Fp2Times(w, Fp2Times(HH, n)) = Fp2Times(Fp2Times(w, HH), n)
    BY TimesAssoc
  <2> QED BY <1>7, <2>1, <2>2, <2>3, <2>4
<1>9. Fp2Times(HH, U1) = Fp2Times(q, x1)
  <2>1. U1 = Fp2Times(w, x1)
    BY TimesComm
  <2>2. Fp2Times(HH, Fp2Times(w, x1)) = Fp2Times(Fp2Times(HH, w), x1)
    BY TimesAssoc
  <2>3. Fp2Times(HH, w) = Fp2Times(w, HH)
    BY TimesComm
  <2> QED BY <1>7, <2>1, <2>2, <2>3
<1>10. PICK G \in Fp2 : G = Fp2Times(HH, h)
  BY RingTypes
<1>11. G = Fp2Times(q, d)
  <2>1. Fp2Times(HH, Fp2Times(w, d)) = Fp2Times(Fp2Times(HH, w), d)
    BY TimesAssoc
  <2>2. Fp2Times(HH, w) = Fp2Times(w, HH)
    BY TimesComm
  <2> QED BY <1>3, <1>7, <1>10, <2>1, <2>2
<1>12. PICK x3 \in Fp2 : x3 = Fp2Minus(Fp2Minus(n, x1), x2)
  <2>1. Fp2Minus(n, x1) \in Fp2
    BY RingTypes
  <2> QED BY <2>1, RingTypes
<1>13. W = Fp2Times(q, x3)
  <2>1. W = Fp2Minus(Fp2Plus(Fp2Times(q, n), Fp2Times(q, d)),
                     Fp2Plus(Fp2Times(q, x1), Fp2Times(q, x1)))
    BY <1>3, <1>6, <1>8, <1>9, <1>10, <1>11 DEF AbscissaFrom
  <2> QED BY <1>1, <1>12, <2>1, ScaledChord
<1>14. PICK z \in Fp2 : z = Z /\ z = Fp2Times(w, G)
  BY <1>3, <1>6, <1>10, RingTypes
<1>15. z = Fp2Times(q, h)
  BY <1>7, <1>10, <1>14, TimesAssoc
<1>16. Fp2Times(H, W) = Fp2Times(x3, z)
  <2>1. Fp2Times(h, Fp2Times(q, x3)) = Fp2Times(Fp2Times(h, q), x3)
    BY TimesAssoc
  <2>2. Fp2Times(h, q) = Fp2Times(q, h) /\ Fp2Times(z, x3) = Fp2Times(x3, z)
    BY TimesComm
  <2> QED BY <1>3, <1>13, <1>15, <2>1, <2>2
<1>17. Fp2Times(S1, G) = Fp2Times(z, y1)
  <2>1. Fp2Times(Fp2Times(y1, w), G) = Fp2Times(y1, Fp2Times(w, G))
    BY TimesAssoc
  <2>2. Fp2Times(y1, z) = Fp2Times(z, y1)
    BY TimesComm
  <2> QED BY <1>14, <2>1, <2>2
<1>18. PICK e \in Fp2 : e = Fp2Minus(x1, x3)
  BY RingTypes
<1>19. Fp2Minus(Fp2Times(HH, U1), W) = Fp2Times(q, e)
  BY <1>9, <1>13, <1>18, TimesMinus
<1>20. PICK f \in Fp2 : f = Fp2Times(m, e)
  BY RingTypes
<1>21. Fp2Times(Fp2Times(q, e), R) = Fp2Times(z, f)
  <2>1. Fp2Times(Fp2Times(q, e), Fp2Times(h, m)) = Fp2Times(Fp2Times(q, h), Fp2Times(e, m))
    <3>1. Interchanged(q, e, h, m)
      BY Interchange
    <3> QED BY <3>1 DEF Interchanged
  <2>2. Fp2Times(e, m) = Fp2Times(m, e)
    BY TimesComm
  <2> QED BY <1>4, <1>15, <1>20, <2>1, <2>2
<1>22. PICK y3 \in Fp2 : y3 = Fp2Minus(f, y1)
  BY RingTypes
<1>23. OrdinateFrom(U1, U2, S1, S2, W) = Fp2Times(z, y3)
  <2>1. OrdinateFrom(U1, U2, S1, S2, W) = Fp2Minus(Fp2Times(z, f), Fp2Times(z, y1))
    BY <1>3, <1>6, <1>10, <1>17, <1>19, <1>21 DEF OrdinateFrom
  <2> QED BY <1>22, <2>1, TimesMinus
<1>24. c.x = x3 /\ c.y = y3
  BY <1>2, <1>5, <1>12, <1>18, <1>20, <1>22 DEF Chord
<1>25. Fp2Times(z, y3) = Fp2Times(y3, z)
  BY TimesComm
<1> QED BY <1>14, <1>16, <1>23, <1>24, <1>25

-----------------------------------------------------------------------------
(***************************************************************************)
(* Additions in Jacobian coordinates, over the pairs.                      *)
(***************************************************************************)
Triples2 == [X : Fp2, Y : Fp2, Z : Fp2]

LEMMA Rescale ==
  ASSUME NEW a \in Fp2, NEW k \in Fp2, NEW l \in Fp2, Fp2Times(k, l) = C(1)
  PROVE  Fp2Times(Fp2Times(a, k), l) = a /\ Fp2Times(Fp2Times(a, l), k) = a
<1>1. Fp2Times(Fp2Times(a, k), l) = Fp2Times(a, Fp2Times(k, l))
  BY TimesAssoc
<1>2. Fp2Times(Fp2Times(a, l), k) = Fp2Times(a, Fp2Times(l, k))
  BY TimesAssoc
<1>3. Fp2Times(l, k) = C(1)
  BY TimesComm
<1>4. Fp2Times(a, C(1)) = a
  BY ZeroOne
<1> QED BY <1>1, <1>2, <1>3, <1>4

(* Powers of a number and of its inverse.                                   *)
LEMMA Powers ==
  ASSUME NEW k \in Fp2, NEW l \in Fp2, Fp2Times(k, l) = C(1)
  PROVE  /\ Fp2Times(k, k) \in Fp2 /\ Fp2Times(l, l) \in Fp2
         /\ Fp2Times(Fp2Times(k, k), k) \in Fp2 /\ Fp2Times(Fp2Times(l, l), l) \in Fp2
         /\ Fp2Times(Fp2Times(k, k), Fp2Times(l, l)) = C(1)
         /\ Fp2Times(Fp2Times(Fp2Times(k, k), k), Fp2Times(Fp2Times(l, l), l)) = C(1)
<1>1. PICK k2, l2 \in Fp2 : k2 = Fp2Times(k, k) /\ l2 = Fp2Times(l, l)
  BY RingTypes
<1>2. PICK k3, l3 \in Fp2 : k3 = Fp2Times(k2, k) /\ l3 = Fp2Times(l2, l)
  BY RingTypes
<1>3. C(1) \in Fp2 /\ Fp2Times(C(1), C(1)) = C(1)
  BY RingTypes, ZeroOne
<1>4. Fp2Times(k2, l2) = C(1)
  <2>1. Fp2Times(Fp2Times(k, k), Fp2Times(l, l)) = Fp2Times(Fp2Times(k, l), Fp2Times(k, l))
    <3>1. Interchanged(k, k, l, l)
      BY Interchange
    <3> QED BY <3>1 DEF Interchanged
  <2> QED BY <1>1, <1>3, <2>1
<1>5. Fp2Times(k3, l3) = C(1)
  <2>1. Fp2Times(Fp2Times(k2, k), Fp2Times(l2, l)) = Fp2Times(Fp2Times(k2, l2), Fp2Times(k, l))
    <3>1. Interchanged(k2, k, l2, l)
      BY Interchange
    <3> QED BY <3>1 DEF Interchanged
  <2> QED BY <1>2, <1>3, <1>4, <2>1
<1> QED BY <1>1, <1>2, <1>4, <1>5

(* The affine point, as AffineOf has it in the form "jac".                  *)
FromJac(a) == LET z == Recip[a.Z]
              IN  [x |-> Fp2Times(a.X, Fp2Times(z, z)),
                   y |-> Fp2Times(a.Y, Fp2Times(Fp2Times(z, z), z))]

LEMMA FromJacIs ==
  ASSUME NEW a \in Triples2, a.Z # C(0)
  PROVE  /\ FromJac(a).x \in Fp2 /\ FromJac(a).y \in Fp2
         /\ a.X = Fp2Times(FromJac(a).x, Fp2Times(a.Z, a.Z))
         /\ a.Y = Fp2Times(FromJac(a).y, Fp2Times(Fp2Times(a.Z, a.Z), a.Z))
<1>1. PICK X, Y, Z \in Fp2 : X = a.X /\ Y = a.Y /\ Z = a.Z /\ Z # C(0)
  BY DEF Triples2
<1>2. PICK z \in Fp2 : z = Recip[Z] /\ Fp2Times(Z, z) = C(1)
  BY <1>1, RecipIs
<1>3. PICK ZZ, z2 \in Fp2 : ZZ = Fp2Times(Z, Z) /\ z2 = Fp2Times(z, z)
  BY RingTypes
<1>4. PICK ZZZ, z3 \in Fp2 : ZZZ = Fp2Times(ZZ, Z) /\ z3 = Fp2Times(z2, z)
  BY RingTypes
<1>5. Fp2Times(ZZ, z2) = C(1) /\ Fp2Times(ZZZ, z3) = C(1)
  BY <1>2, <1>3, <1>4, Powers
<1>6. FromJac(a).x = Fp2Times(X, z2) /\ FromJac(a).y = Fp2Times(Y, z3)
  BY <1>1, <1>2, <1>3, <1>4 DEF FromJac
<1>7. Fp2Times(X, z2) \in Fp2 /\ Fp2Times(Y, z3) \in Fp2
  BY RingTypes
<1>8. Fp2Times(Fp2Times(X, z2), ZZ) = X /\ Fp2Times(Fp2Times(Y, z3), ZZZ) = Y
  BY <1>5, Rescale
<1> QED BY <1>1, <1>3, <1>4, <1>6, <1>7, <1>8

LEMMA JacFromPoint ==
  ASSUME NEW x \in Fp2, NEW y \in Fp2, NEW Z \in Fp2, Z # C(0),
         NEW a, a = [X |-> Fp2Times(x, Fp2Times(Z, Z)),
                     Y |-> Fp2Times(y, Fp2Times(Fp2Times(Z, Z), Z)), Z |-> Z]
  PROVE  a \in Triples2 /\ FromJac(a) = [x |-> x, y |-> y]
<1>1. PICK z \in Fp2 : z = Recip[Z] /\ Fp2Times(Z, z) = C(1)
  BY RecipIs
<1>2. PICK ZZ, z2 \in Fp2 : ZZ = Fp2Times(Z, Z) /\ z2 = Fp2Times(z, z)
  BY RingTypes
<1>3. PICK ZZZ, z3 \in Fp2 : ZZZ = Fp2Times(ZZ, Z) /\ z3 = Fp2Times(z2, z)
  BY RingTypes
<1>4. Fp2Times(ZZ, z2) = C(1) /\ Fp2Times(ZZZ, z3) = C(1)
  BY <1>1, <1>2, <1>3, Powers
<1>5. a = [X |-> Fp2Times(x, ZZ), Y |-> Fp2Times(y, ZZZ), Z |-> Z]
  BY <1>2, <1>3
<1>6. Fp2Times(x, ZZ) \in Fp2 /\ Fp2Times(y, ZZZ) \in Fp2
  BY RingTypes
<1>7. Fp2Times(Fp2Times(x, ZZ), z2) = x /\ Fp2Times(Fp2Times(y, ZZZ), z3) = y
  BY <1>4, Rescale
<1>8. FromJac(a) = [x |-> Fp2Times(Fp2Times(x, ZZ), z2), y |-> Fp2Times(Fp2Times(y, ZZZ), z3)]
  BY <1>1, <1>2, <1>3, <1>5 DEF FromJac
<1> QED BY <1>5, <1>6, <1>7, <1>8 DEF Triples2

(* Both points over the product of their Z.                                 *)
LEMMA JacScaled ==
  ASSUME NEW a \in Triples2, a.Z # C(0), NEW b \in Triples2, NEW w, w = Fp2Times(a.Z, b.Z)
  PROVE  /\ Fp2Times(a.X, Fp2Times(b.Z, b.Z)) = Fp2Times(FromJac(a).x, Fp2Times(w, w))
         /\ Fp2Times(Fp2Times(Fp2Times(b.Z, b.Z), a.Y), b.Z)
              = Fp2Times(FromJac(a).y, Fp2Times(Fp2Times(w, w), w))
<1>1. PICK Y, Z, V \in Fp2 : Y = a.Y /\ Z = a.Z /\ V = b.Z
  BY DEF Triples2
<1>2. PICK x, y \in Fp2 : x = FromJac(a).x /\ y = FromJac(a).y
  BY FromJacIs
<1>3. PICK ZZ, VV \in Fp2 : ZZ = Fp2Times(Z, Z) /\ VV = Fp2Times(V, V)
  BY RingTypes
<1>4. PICK ZZZ, VVV \in Fp2 : ZZZ = Fp2Times(ZZ, Z) /\ VVV = Fp2Times(VV, V)
  BY RingTypes
<1>5. a.X = Fp2Times(x, ZZ) /\ Y = Fp2Times(y, ZZZ)
  BY <1>1, <1>2, <1>3, <1>4, FromJacIs
<1>6. Fp2Times(ZZ, VV) = Fp2Times(w, w)
  <2>1. Fp2Times(Fp2Times(Z, Z), Fp2Times(V, V)) = Fp2Times(Fp2Times(Z, V), Fp2Times(Z, V))
    <3>1. Interchanged(Z, Z, V, V)
      BY Interchange
    <3> QED BY <3>1 DEF Interchanged
  <2> QED BY <1>1, <1>3, <2>1
<1>7. Fp2Times(ZZZ, VVV) = Fp2Times(Fp2Times(w, w), w)
  <2>1. Fp2Times(Fp2Times(ZZ, Z), Fp2Times(VV, V)) = Fp2Times(Fp2Times(ZZ, VV), Fp2Times(Z, V))
    <3>1. Interchanged(ZZ, Z, VV, V)
      BY Interchange
    <3> QED BY <3>1 DEF Interchanged
  <2> QED BY <1>1, <1>4, <1>6, <2>1
<1>8. Fp2Times(Fp2Times(x, ZZ), VV) = Fp2Times(x, Fp2Times(ZZ, VV))
  BY TimesAssoc
<1>9. Fp2Times(Fp2Times(VV, Y), V) = Fp2Times(Y, VVV)
  <2>1. Fp2Times(VV, Y) = Fp2Times(Y, VV)
    BY TimesComm
  <2>2. Fp2Times(Fp2Times(Y, VV), V) = Fp2Times(Y, Fp2Times(VV, V))
    BY TimesAssoc
  <2> QED BY <1>4, <2>1, <2>2
<1>10. Fp2Times(Fp2Times(y, ZZZ), VVV) = Fp2Times(y, Fp2Times(ZZZ, VVV))
  BY TimesAssoc
<1> QED BY <1>1, <1>2, <1>3, <1>5, <1>6, <1>7, <1>8, <1>9, <1>10

JacSum(a, b) ==
  LET U1 == Fp2Times(a.X, Fp2Times(b.Z, b.Z))
      U2 == Fp2Times(b.X, Fp2Times(a.Z, a.Z))
      S1 == Fp2Times(Fp2Times(Fp2Times(b.Z, b.Z), a.Y), b.Z)
      S2 == Fp2Times(Fp2Times(Fp2Times(a.Z, a.Z), b.Y), a.Z)
      R  == Fp2Minus(S1, S2)
      X  == AbscissaFrom(U1, U2, Fp2Times(R, R))
  IN  [X |-> X, Y |-> OrdinateFrom(U1, U2, S1, S2, X),
       Z |-> Fp2Times(Fp2Times(a.Z, b.Z), Fp2Minus(U1, U2))]

ChordOf(a, b) == Chord(a, b, Slope(a.x, a.y, b.x, b.y))

LEMMA AbscissaType ==
  ASSUME NEW U1 \in Fp2, NEW U2 \in Fp2, NEW n \in Fp2
  PROVE  AbscissaFrom(U1, U2, n) \in Fp2
<1>1. PICK H \in Fp2 : H = Fp2Minus(U1, U2)
  BY RingTypes
<1>2. PICK HH \in Fp2 : HH = Fp2Times(H, H)
  BY RingTypes
<1>3. PICK V, G \in Fp2 : V = Fp2Times(HH, U1) /\ G = Fp2Times(HH, H)
  BY RingTypes
<1>4. PICK k, l \in Fp2 : k = Fp2Plus(n, G) /\ l = Fp2Plus(V, V)
  BY RingTypes
<1>5. Fp2Minus(k, l) \in Fp2
  BY RingTypes
<1> QED BY <1>1, <1>2, <1>3, <1>4, <1>5 DEF AbscissaFrom

LEMMA OrdinateType ==
  ASSUME NEW U1 \in Fp2, NEW U2 \in Fp2, NEW S1 \in Fp2, NEW S2 \in Fp2, NEW X \in Fp2
  PROVE  OrdinateFrom(U1, U2, S1, S2, X) \in Fp2
<1>1. PICK H \in Fp2 : H = Fp2Minus(U1, U2)
  BY RingTypes
<1>2. PICK HH \in Fp2 : HH = Fp2Times(H, H)
  BY RingTypes
<1>3. PICK V, G \in Fp2 : V = Fp2Times(HH, U1) /\ G = Fp2Times(HH, H)
  BY RingTypes
<1>4. OrdinateFrom(U1, U2, S1, S2, X) \in Fp2
  <2>1. PICK R, k, l \in Fp2 : R = Fp2Minus(S1, S2) /\ k = Fp2Minus(V, X) /\ l = Fp2Times(S1, G)
    BY RingTypes
  <2>2. PICK m \in Fp2 : m = Fp2Times(k, R)
    BY RingTypes
  <2>3. Fp2Minus(m, l) \in Fp2
    BY RingTypes
  <2> QED BY <1>1, <1>2, <1>3, <2>1, <2>2, <2>3 DEF OrdinateFrom
<1> QED BY <1>4

LEMMA JacSumType ==
  ASSUME NEW a \in Triples2, NEW b \in Triples2
  PROVE  JacSum(a, b) \in Triples2
<1>1. PICK AX, AY, AZ \in Fp2 : AX = a.X /\ AY = a.Y /\ AZ = a.Z
  BY DEF Triples2
<1>2. PICK BX, BY_, BZ \in Fp2 : BX = b.X /\ BY_ = b.Y /\ BZ = b.Z
  BY DEF Triples2
<1>3. PICK ZA, ZB, ZZ \in Fp2 : ZA = Fp2Times(AZ, AZ) /\ ZB = Fp2Times(BZ, BZ) /\ ZZ = Fp2Times(AZ, BZ)
  BY RingTypes
<1>4. PICK U1, U2 \in Fp2 : U1 = Fp2Times(AX, ZB) /\ U2 = Fp2Times(BX, ZA)
  BY RingTypes
<1>5. PICK s1, s2 \in Fp2 : s1 = Fp2Times(ZB, AY) /\ s2 = Fp2Times(ZA, BY_)
  BY RingTypes
<1>6. PICK S1, S2 \in Fp2 : S1 = Fp2Times(s1, BZ) /\ S2 = Fp2Times(s2, AZ)
  BY RingTypes
<1>7. PICK R, H \in Fp2 : R = Fp2Minus(S1, S2) /\ H = Fp2Minus(U1, U2)
  BY RingTypes
<1>8. PICK n, Z \in Fp2 : n = Fp2Times(R, R) /\ Z = Fp2Times(ZZ, H)
  BY RingTypes
<1>9. PICK X \in Fp2 : X = AbscissaFrom(U1, U2, n)
  BY AbscissaType
<1>10. OrdinateFrom(U1, U2, S1, S2, X) \in Fp2
  BY OrdinateType
<1>11. JacSum(a, b) = [X |-> X, Y |-> OrdinateFrom(U1, U2, S1, S2, X), Z |-> Z]
  BY <1>1, <1>2, <1>3, <1>4, <1>5, <1>6, <1>7, <1>8, <1>9 DEF JacSum
<1> QED BY <1>10, <1>11 DEF Triples2

(* The sum of two points of different x is the point of the chord; of two   *)
(* of one x, and of anything and a point without a Z, it has no Z.          *)
LEMMA JacSumIs ==
  ASSUME NEW a \in Triples2, NEW b \in Triples2, b.Z # C(0)
  PROVE  /\ a.Z = C(0) => JacSum(a, b).Z = C(0)
         /\ a.Z # C(0) /\ FromJac(a).x = FromJac(b).x => JacSum(a, b).Z = C(0)
         /\ a.Z # C(0) /\ FromJac(a).x # FromJac(b).x
              => /\ JacSum(a, b).Z # C(0)
                 /\ FromJac(JacSum(a, b)) = ChordOf(FromJac(a), FromJac(b))
                 /\ ChordOf(FromJac(a), FromJac(b)) \in [x : Fp2, y : Fp2]
<1>1. PICK AX, AY, AZ \in Fp2 : AX = a.X /\ AY = a.Y /\ AZ = a.Z
  BY DEF Triples2
<1>2. PICK BX, BY_, BZ \in Fp2 : BX = b.X /\ BY_ = b.Y /\ BZ = b.Z
  BY DEF Triples2
<1>3. PICK w \in Fp2 : w = Fp2Times(AZ, BZ)
  BY RingTypes
<1>4. PICK ZA, ZB \in Fp2 : ZA = Fp2Times(AZ, AZ) /\ ZB = Fp2Times(BZ, BZ)
  BY RingTypes
<1>5. PICK U1, U2 \in Fp2 : U1 = Fp2Times(AX, ZB) /\ U2 = Fp2Times(BX, ZA)
  BY RingTypes
<1>6. PICK H \in Fp2 : H = Fp2Minus(U1, U2)
  BY RingTypes
<1>7. JacSum(a, b).Z = Fp2Times(w, H)
  BY <1>1, <1>2, <1>3, <1>4, <1>5, <1>6 DEF JacSum
<1>8. a.Z = C(0) => JacSum(a, b).Z = C(0)
  <2>1. Fp2Times(C(0), BZ) = C(0) /\ Fp2Times(C(0), H) = C(0)
    BY ZeroOne
  <2> QED BY <1>1, <1>3, <1>7, <2>1
<1>9. ASSUME a.Z # C(0)
      PROVE  /\ FromJac(a).x = FromJac(b).x => JacSum(a, b).Z = C(0)
             /\ FromJac(a).x # FromJac(b).x
                  => /\ JacSum(a, b).Z # C(0)
                     /\ FromJac(JacSum(a, b)) = ChordOf(FromJac(a), FromJac(b))
                     /\ ChordOf(FromJac(a), FromJac(b)) \in [x : Fp2, y : Fp2]
  <2>1. PICK x1, y1 \in Fp2 : x1 = FromJac(a).x /\ y1 = FromJac(a).y
    BY <1>9, FromJacIs
  <2>2. PICK x2, y2 \in Fp2 : x2 = FromJac(b).x /\ y2 = FromJac(b).y
    BY FromJacIs
  <2>3. PICK w2 \in Fp2 : w2 = Fp2Times(w, w)
    BY RingTypes
  <2>4. PICK w3 \in Fp2 : w3 = Fp2Times(w2, w)
    BY RingTypes
  <2>5. w = Fp2Times(BZ, AZ)
    BY <1>3, TimesComm
  <2>6. PICK S1 : S1 = Fp2Times(Fp2Times(ZB, AY), BZ)
    OBVIOUS
  <2>7. PICK S2 : S2 = Fp2Times(Fp2Times(ZA, BY_), AZ)
    OBVIOUS
  <2>8. U1 = Fp2Times(x1, w2) /\ S1 = Fp2Times(y1, w3)
    <3>1. w = Fp2Times(a.Z, b.Z)
      BY <1>1, <1>2, <1>3
    <3>2. /\ Fp2Times(a.X, Fp2Times(b.Z, b.Z)) = Fp2Times(FromJac(a).x, Fp2Times(w, w))
          /\ Fp2Times(Fp2Times(Fp2Times(b.Z, b.Z), a.Y), b.Z)
               = Fp2Times(FromJac(a).y, Fp2Times(Fp2Times(w, w), w))
      BY <1>9, <3>1, JacScaled
    <3> QED BY <1>1, <1>2, <1>4, <1>5, <2>1, <2>3, <2>4, <2>6, <3>2
  <2>9. U2 = Fp2Times(x2, w2) /\ S2 = Fp2Times(y2, w3)
    <3>1. w = Fp2Times(b.Z, a.Z)
      BY <1>1, <1>2, <2>5
    <3>2. /\ Fp2Times(b.X, Fp2Times(a.Z, a.Z)) = Fp2Times(FromJac(b).x, Fp2Times(w, w))
          /\ Fp2Times(Fp2Times(Fp2Times(a.Z, a.Z), b.Y), a.Z)
               = Fp2Times(FromJac(b).y, Fp2Times(Fp2Times(w, w), w))
      BY <3>1, JacScaled
    <3> QED BY <1>1, <1>2, <1>4, <1>5, <2>2, <2>3, <2>4, <2>7, <3>2
  <2>10. w # C(0) /\ w2 # C(0)
    BY <1>1, <1>2, <1>3, <1>9, <2>3, NoZeroDivisors
  <2>11. PICK r \in Fp2 : Fp2Times(w2, r) = C(1)
    BY <2>10, Inverse2
  <2>12. U1 = U2 <=> x1 = x2
    <3>1. Fp2Times(Fp2Times(x1, w2), r) = x1 /\ Fp2Times(Fp2Times(x2, w2), r) = x2
      BY <2>11, Rescale
    <3> QED BY <2>8, <2>9, <3>1
  <2>13. ASSUME x1 = x2 PROVE JacSum(a, b).Z = C(0)
    <3>1. H = C(0)
      BY <1>6, <2>12, <2>13, MinusZero
    <3> QED BY <1>7, <3>1, ZeroOne
  <2>14. ASSUME x1 # x2
         PROVE  /\ JacSum(a, b).Z # C(0)
                /\ FromJac(JacSum(a, b)) = ChordOf(FromJac(a), FromJac(b))
                /\ ChordOf(FromJac(a), FromJac(b)) \in [x : Fp2, y : Fp2]
    <3>1. H # C(0)
      BY <1>6, <2>12, <2>14, MinusZero
    <3>2. PICK Z \in Fp2 : Z = Fp2Times(w, H) /\ Z # C(0)
      BY <2>10, <3>1, RingTypes, NoZeroDivisors
    <3>3. PICK c : c = Chord([x |-> x1, y |-> y1], [x |-> x2, y |-> y2], Slope(x1, y1, x2, y2))
      OBVIOUS
    <3>4. PICK R : R = Fp2Minus(S1, S2)
      OBVIOUS
    <3>5. PICK X : X = AbscissaFrom(U1, U2, Fp2Times(R, R))
      OBVIOUS
    <3>6. /\ c.x \in Fp2 /\ c.y \in Fp2
          /\ X = Fp2Times(c.x, Fp2Times(Z, Z))
          /\ OrdinateFrom(U1, U2, S1, S2, X) = Fp2Times(c.y, Fp2Times(Fp2Times(Z, Z), Z))
      <4>1. Z = Fp2Times(w, Fp2Minus(U1, U2))
        BY <1>6, <3>2
      <4> QED BY <2>3, <2>4, <2>8, <2>9, <2>14, <3>3, <3>4, <3>5, <4>1, JacobianChord
    <3>7. JacSum(a, b) = [X |-> X, Y |-> OrdinateFrom(U1, U2, S1, S2, X), Z |-> Z]
      BY <1>1, <1>2, <1>3, <1>4, <1>5, <1>6, <2>6, <2>7, <3>2, <3>4, <3>5 DEF JacSum
    <3>8. PICK x3, y3 \in Fp2 : x3 = c.x /\ y3 = c.y
      BY <3>6
    <3>9. JacSum(a, b) = [X |-> Fp2Times(x3, Fp2Times(Z, Z)),
                          Y |-> Fp2Times(y3, Fp2Times(Fp2Times(Z, Z), Z)), Z |-> Z]
      BY <3>6, <3>7, <3>8
    <3>10. FromJac(JacSum(a, b)) = [x |-> x3, y |-> y3]
      BY <3>2, <3>9, JacFromPoint
    <3>11. c = [x |-> x3, y |-> y3]
      BY <3>3, <3>8 DEF Chord
    <3>12. ChordOf(FromJac(a), FromJac(b)) = c
      BY <2>1, <2>2, <3>3 DEF ChordOf, Chord
    <3> QED BY <3>2, <3>9, <3>10, <3>11, <3>12
  <2> QED BY <2>1, <2>2, <2>13, <2>14
<1> QED BY <1>8, <1>9

-----------------------------------------------------------------------------
(***************************************************************************)
(* Additions in projective coordinates, over the pairs.                    *)
(***************************************************************************)
FromProj(a) == LET z == Recip[a.Z] IN [x |-> Fp2Times(a.X, z), y |-> Fp2Times(a.Y, z)]

LEMMA FromProjIs ==
  ASSUME NEW a \in Triples2, a.Z # C(0)
  PROVE  /\ FromProj(a).x \in Fp2 /\ FromProj(a).y \in Fp2
         /\ a.X = Fp2Times(FromProj(a).x, a.Z)
         /\ a.Y = Fp2Times(FromProj(a).y, a.Z)
<1>1. PICK X, Y, Z \in Fp2 : X = a.X /\ Y = a.Y /\ Z = a.Z /\ Z # C(0)
  BY DEF Triples2
<1>2. PICK z \in Fp2 : z = Recip[Z] /\ Fp2Times(Z, z) = C(1)
  BY <1>1, RecipIs
<1>3. FromProj(a).x = Fp2Times(X, z) /\ FromProj(a).y = Fp2Times(Y, z)
  BY <1>1, <1>2 DEF FromProj
<1>4. Fp2Times(X, z) \in Fp2 /\ Fp2Times(Y, z) \in Fp2
  BY RingTypes
<1>5. Fp2Times(Fp2Times(X, z), Z) = X /\ Fp2Times(Fp2Times(Y, z), Z) = Y
  BY <1>2, Rescale
<1> QED BY <1>1, <1>3, <1>4, <1>5

LEMMA ProjFromPoint ==
  ASSUME NEW x \in Fp2, NEW y \in Fp2, NEW Z \in Fp2, Z # C(0),
         NEW a, a = [X |-> Fp2Times(x, Z), Y |-> Fp2Times(y, Z), Z |-> Z]
  PROVE  a \in Triples2 /\ FromProj(a) = [x |-> x, y |-> y]
<1>1. PICK z \in Fp2 : z = Recip[Z] /\ Fp2Times(Z, z) = C(1)
  BY RecipIs
<1>2. Fp2Times(x, Z) \in Fp2 /\ Fp2Times(y, Z) \in Fp2
  BY RingTypes
<1>3. Fp2Times(Fp2Times(x, Z), z) = x /\ Fp2Times(Fp2Times(y, Z), z) = y
  BY <1>1, Rescale
<1>4. FromProj(a) = [x |-> Fp2Times(Fp2Times(x, Z), z), y |-> Fp2Times(Fp2Times(y, Z), z)]
  BY <1>1 DEF FromProj
<1> QED BY <1>2, <1>3, <1>4 DEF Triples2

LEMMA ProjScaled ==
  ASSUME NEW a \in Triples2, a.Z # C(0), NEW b \in Triples2, NEW w, w = Fp2Times(a.Z, b.Z)
  PROVE  /\ Fp2Times(a.X, b.Z) = Fp2Times(FromProj(a).x, w)
         /\ Fp2Times(a.Y, b.Z) = Fp2Times(FromProj(a).y, w)
<1>1. PICK Z, V \in Fp2 : Z = a.Z /\ V = b.Z
  BY DEF Triples2
<1>2. PICK x, y \in Fp2 : x = FromProj(a).x /\ y = FromProj(a).y
  BY FromProjIs
<1>3. a.X = Fp2Times(x, Z) /\ a.Y = Fp2Times(y, Z)
  BY <1>1, <1>2, FromProjIs
<1>4. /\ Fp2Times(Fp2Times(x, Z), V) = Fp2Times(x, Fp2Times(Z, V))
      /\ Fp2Times(Fp2Times(y, Z), V) = Fp2Times(y, Fp2Times(Z, V))
  BY TimesAssoc
<1> QED BY <1>1, <1>2, <1>3, <1>4

ProjSum(a, b) ==
  LET U1 == Fp2Times(a.X, b.Z)
      U2 == Fp2Times(b.X, a.Z)
      S1 == Fp2Times(a.Y, b.Z)
      S2 == Fp2Times(b.Y, a.Z)
      R  == Fp2Minus(S1, S2)
      H  == Fp2Minus(U1, U2)
      w  == Fp2Times(a.Z, b.Z)
      W  == AbscissaFrom(U1, U2, Fp2Times(Fp2Times(R, R), w))
  IN  [X |-> Fp2Times(H, W), Y |-> OrdinateFrom(U1, U2, S1, S2, W),
       Z |-> Fp2Times(w, Fp2Times(Fp2Times(H, H), H))]

LEMMA ProjSumType ==
  ASSUME NEW a \in Triples2, NEW b \in Triples2
  PROVE  ProjSum(a, b) \in Triples2
<1>1. PICK AX, AY, AZ \in Fp2 : AX = a.X /\ AY = a.Y /\ AZ = a.Z
  BY DEF Triples2
<1>2. PICK BX, BY_, BZ \in Fp2 : BX = b.X /\ BY_ = b.Y /\ BZ = b.Z
  BY DEF Triples2
<1>3. PICK w, U1, U2 \in Fp2 : w = Fp2Times(AZ, BZ) /\ U1 = Fp2Times(AX, BZ) /\ U2 = Fp2Times(BX, AZ)
  BY RingTypes
<1>4. PICK S1, S2 \in Fp2 : S1 = Fp2Times(AY, BZ) /\ S2 = Fp2Times(BY_, AZ)
  BY RingTypes
<1>5. PICK R, H \in Fp2 : R = Fp2Minus(S1, S2) /\ H = Fp2Minus(U1, U2)
  BY RingTypes
<1>6. PICK RR, HH \in Fp2 : RR = Fp2Times(R, R) /\ HH = Fp2Times(H, H)
  BY RingTypes
<1>7. PICK n, G \in Fp2 : n = Fp2Times(RR, w) /\ G = Fp2Times(HH, H)
  BY RingTypes
<1>8. PICK W \in Fp2 : W = AbscissaFrom(U1, U2, n)
  BY AbscissaType
<1>9. OrdinateFrom(U1, U2, S1, S2, W) \in Fp2
  BY OrdinateType
<1>10. Fp2Times(H, W) \in Fp2 /\ Fp2Times(w, G) \in Fp2
  BY RingTypes
<1>11. ProjSum(a, b) = [X |-> Fp2Times(H, W), Y |-> OrdinateFrom(U1, U2, S1, S2, W),
                        Z |-> Fp2Times(w, G)]
  BY <1>1, <1>2, <1>3, <1>4, <1>5, <1>6, <1>7, <1>8 DEF ProjSum
<1> QED BY <1>9, <1>10, <1>11 DEF Triples2

LEMMA ProjSumIs ==
  ASSUME NEW a \in Triples2, NEW b \in Triples2, b.Z # C(0)
  PROVE  /\ a.Z = C(0) => ProjSum(a, b).Z = C(0)
         /\ a.Z # C(0) /\ FromProj(a).x = FromProj(b).x => ProjSum(a, b).Z = C(0)
         /\ a.Z # C(0) /\ FromProj(a).x # FromProj(b).x
              => /\ ProjSum(a, b).Z # C(0)
                 /\ FromProj(ProjSum(a, b)) = ChordOf(FromProj(a), FromProj(b))
                 /\ ChordOf(FromProj(a), FromProj(b)) \in [x : Fp2, y : Fp2]
<1>1. PICK AX, AY, AZ \in Fp2 : AX = a.X /\ AY = a.Y /\ AZ = a.Z
  BY DEF Triples2
<1>2. PICK BX, BY_, BZ \in Fp2 : BX = b.X /\ BY_ = b.Y /\ BZ = b.Z
  BY DEF Triples2
<1>3. PICK w, U1, U2 \in Fp2 : w = Fp2Times(AZ, BZ) /\ U1 = Fp2Times(AX, BZ) /\ U2 = Fp2Times(BX, AZ)
  BY RingTypes
<1>4. PICK H \in Fp2 : H = Fp2Minus(U1, U2)
  BY RingTypes
<1>5. PICK HH \in Fp2 : HH = Fp2Times(H, H)
  BY RingTypes
<1>6. PICK G \in Fp2 : G = Fp2Times(HH, H)
  BY RingTypes
<1>7. ProjSum(a, b).Z = Fp2Times(w, G)
  BY <1>1, <1>2, <1>3, <1>4, <1>5, <1>6 DEF ProjSum
<1>8. a.Z = C(0) => ProjSum(a, b).Z = C(0)
  <2>1. Fp2Times(C(0), BZ) = C(0) /\ Fp2Times(C(0), G) = C(0)
    BY ZeroOne
  <2> QED BY <1>1, <1>3, <1>7, <2>1
<1>9. ASSUME a.Z # C(0)
      PROVE  /\ FromProj(a).x = FromProj(b).x => ProjSum(a, b).Z = C(0)
             /\ FromProj(a).x # FromProj(b).x
                  => /\ ProjSum(a, b).Z # C(0)
                     /\ FromProj(ProjSum(a, b)) = ChordOf(FromProj(a), FromProj(b))
                     /\ ChordOf(FromProj(a), FromProj(b)) \in [x : Fp2, y : Fp2]
  <2>1. PICK x1, y1 \in Fp2 : x1 = FromProj(a).x /\ y1 = FromProj(a).y
    BY <1>9, FromProjIs
  <2>2. PICK x2, y2 \in Fp2 : x2 = FromProj(b).x /\ y2 = FromProj(b).y
    BY FromProjIs
  <2>3. PICK S1 : S1 = Fp2Times(AY, BZ)
    OBVIOUS
  <2>4. PICK S2 : S2 = Fp2Times(BY_, AZ)
    OBVIOUS
  <2>5. U1 = Fp2Times(x1, w) /\ S1 = Fp2Times(y1, w)
    <3>1. w = Fp2Times(a.Z, b.Z)
      BY <1>1, <1>2, <1>3
    <3>2. /\ Fp2Times(a.X, b.Z) = Fp2Times(FromProj(a).x, w)
          /\ Fp2Times(a.Y, b.Z) = Fp2Times(FromProj(a).y, w)
      BY <1>9, <3>1, ProjScaled
    <3> QED BY <1>1, <1>2, <1>3, <2>1, <2>3, <3>2
  <2>6. U2 = Fp2Times(x2, w) /\ S2 = Fp2Times(y2, w)
    <3>1. w = Fp2Times(b.Z, a.Z)
      BY <1>1, <1>2, <1>3, TimesComm
    <3>2. /\ Fp2Times(b.X, a.Z) = Fp2Times(FromProj(b).x, w)
          /\ Fp2Times(b.Y, a.Z) = Fp2Times(FromProj(b).y, w)
      BY <3>1, ProjScaled
    <3> QED BY <1>1, <1>2, <1>3, <2>2, <2>4, <3>2
  <2>7. w # C(0)
    BY <1>1, <1>2, <1>3, <1>9, NoZeroDivisors
  <2>8. PICK r \in Fp2 : Fp2Times(w, r) = C(1)
    BY <2>7, Inverse2
  <2>9. U1 = U2 <=> x1 = x2
    <3>1. Fp2Times(Fp2Times(x1, w), r) = x1 /\ Fp2Times(Fp2Times(x2, w), r) = x2
      BY <2>8, Rescale
    <3> QED BY <2>5, <2>6, <3>1
  <2>10. ASSUME x1 = x2 PROVE ProjSum(a, b).Z = C(0)
    <3>1. H = C(0)
      BY <1>4, <2>9, <2>10, MinusZero
    <3>2. G = C(0)
      BY <1>6, <3>1, ZeroOne
    <3> QED BY <1>7, <3>2, ZeroOne
  <2>11. ASSUME x1 # x2
         PROVE  /\ ProjSum(a, b).Z # C(0)
                /\ FromProj(ProjSum(a, b)) = ChordOf(FromProj(a), FromProj(b))
                /\ ChordOf(FromProj(a), FromProj(b)) \in [x : Fp2, y : Fp2]
    <3>1. H # C(0)
      BY <1>4, <2>9, <2>11, MinusZero
    <3>2. G # C(0)
      BY <1>5, <1>6, <3>1, NoZeroDivisors
    <3>3. PICK Z \in Fp2 : Z = Fp2Times(w, G) /\ Z # C(0)
      BY <2>7, <3>2, RingTypes, NoZeroDivisors
    <3>4. PICK c : c = Chord([x |-> x1, y |-> y1], [x |-> x2, y |-> y2], Slope(x1, y1, x2, y2))
      OBVIOUS
    <3>5. PICK R : R = Fp2Minus(S1, S2)
      OBVIOUS
    <3>6. PICK W : W = AbscissaFrom(U1, U2, Fp2Times(Fp2Times(R, R), w))
      OBVIOUS
    <3>7. /\ c.x \in Fp2 /\ c.y \in Fp2
          /\ Fp2Times(H, W) = Fp2Times(c.x, Z)
          /\ OrdinateFrom(U1, U2, S1, S2, W) = Fp2Times(c.y, Z)
      <4>1. Z = Fp2Times(w, Fp2Times(Fp2Times(H, H), H))
        BY <1>5, <1>6, <3>3
      <4> QED BY <1>4, <2>5, <2>6, <2>11, <3>4, <3>5, <3>6, <4>1, ProjectiveChord
    <3>8. ProjSum(a, b) = [X |-> Fp2Times(H, W), Y |-> OrdinateFrom(U1, U2, S1, S2, W), Z |-> Z]
      BY <1>1, <1>2, <1>3, <1>4, <1>5, <1>6, <2>3, <2>4, <3>3, <3>5, <3>6 DEF ProjSum
    <3>9. PICK x3, y3 \in Fp2 : x3 = c.x /\ y3 = c.y
      BY <3>7
    <3>10. ProjSum(a, b) = [X |-> Fp2Times(x3, Z), Y |-> Fp2Times(y3, Z), Z |-> Z]
      BY <3>7, <3>8, <3>9
    <3>11. FromProj(ProjSum(a, b)) = [x |-> x3, y |-> y3]
      BY <3>3, <3>10, ProjFromPoint
    <3>12. c = [x |-> x3, y |-> y3]
      BY <3>4, <3>9 DEF Chord
    <3>13. ChordOf(FromProj(a), FromProj(b)) = c
      BY <2>1, <2>2, <3>4 DEF ChordOf, Chord
    <3> QED BY <3>3, <3>10, <3>11, <3>12, <3>13
  <2> QED BY <2>1, <2>2, <2>10, <2>11
<1> QED BY <1>8, <1>9

-----------------------------------------------------------------------------
(***************************************************************************)
(* The code's formulas are these sums, for shared and for public points.   *)
(***************************************************************************)
JacTriple(U1, U2, S1, S2, w) ==
  LET R == Fp2Minus(S1, S2)
      X == AbscissaFrom(U1, U2, Fp2Times(R, R))
  IN  [X |-> X, Y |-> OrdinateFrom(U1, U2, S1, S2, X), Z |-> Fp2Times(w, Fp2Minus(U1, U2))]

JacFrom2(U1, U2, S1, S2, w, s) == G2!JacFrom(U1, U2, S1, S2, w, s)

AreTriple(U1, U2, S1, S2, w, s) == JacFrom2(U1, U2, S1, S2, w, s) = JacTriple(U1, U2, S1, S2, w)

LEMMA JacTripleIs ==
  ASSUME NEW U1 \in Fp2, NEW U2 \in Fp2, NEW S1 \in Fp2, NEW S2 \in Fp2, NEW w \in Fp2,
         NEW s \in Fp
  PROVE  AreTriple(U1, U2, S1, S2, w, s)
<1>1. PICK H \in Fp2 : H = Fp2Minus(U1, U2)
  BY RingTypes
<1>2. PICK R \in Fp2 : R = Fp2Minus(S1, S2)
  BY RingTypes
<1>3. Fp2Sqr(H, s) = Fp2Times(H, H) /\ Fp2Sqr(R, s) = Fp2Times(R, R)
  BY Sqr2
<1>4. JacFrom2(U1, U2, S1, S2, w, s)
        = LET HH == Fp2Times(H, H)
              G  == Fp2Times(HH, H)
              V  == Fp2Times(HH, U1)
              x  == Fp2Minus(Fp2Plus(Fp2Times(R, R), G), Fp2Plus(V, V))
          IN  [X |-> x, Y |-> Fp2Minus(Fp2Times(Fp2Minus(V, x), R), Fp2Times(S1, G)),
               Z |-> Fp2Times(w, H)]
  BY <1>1, <1>2, <1>3 DEF JacFrom2, G2!JacFrom, G2!Cube, G2!Twice
<1> QED BY <1>1, <1>2, <1>4 DEF AbscissaFrom, OrdinateFrom, JacTriple, AreTriple

LEMMA G2Jac ==
  ASSUME NEW a \in Triples2, NEW b \in Triples2, NEW s \in Fp
  PROVE  G2AddJac(a, b, s) = JacSum(a, b) /\ G2AddPlainJac(a, b, s) = JacSum(a, b)
<1>1. PICK AX, AY, AZ \in Fp2 : AX = a.X /\ AY = a.Y /\ AZ = a.Z
  BY DEF Triples2
<1>2. PICK BX, BY_, BZ \in Fp2 : BX = b.X /\ BY_ = b.Y /\ BZ = b.Z
  BY DEF Triples2
<1>3. PICK ZA, ZB, w \in Fp2 : ZA = Fp2Times(AZ, AZ) /\ ZB = Fp2Times(BZ, BZ) /\ w = Fp2Times(AZ, BZ)
  BY RingTypes
<1>4. Fp2Sqr(AZ, s) = ZA /\ Fp2Sqr(BZ, s) = ZB
  BY <1>3, Sqr2
<1>5. PICK U1, U2 \in Fp2 : U1 = Fp2Times(AX, ZB) /\ U2 = Fp2Times(BX, ZA)
  BY RingTypes
<1>6. PICK t1, t2 \in Fp2 : t1 = Fp2Times(ZB, AY) /\ t2 = Fp2Times(ZA, BY_)
  BY RingTypes
<1>7. PICK S1, S2 \in Fp2 : S1 = Fp2Times(t1, BZ) /\ S2 = Fp2Times(t2, AZ)
  BY RingTypes
<1>10. JacSum(a, b) = JacTriple(U1, U2, S1, S2, w)
  BY <1>1, <1>2, <1>3, <1>5, <1>6, <1>7 DEF JacSum, JacTriple
<1>11. JacFrom2(U1, U2, S1, S2, w, s) = JacSum(a, b)
  <2>1. JacFrom2(U1, U2, S1, S2, w, s) = JacTriple(U1, U2, S1, S2, w)
    <3>1. AreTriple(U1, U2, S1, S2, w, s)
      BY JacTripleIs
    <3> QED BY <3>1 DEF AreTriple
  <2> QED BY <1>10, <2>1
<1>12. G2AddJac(a, b, s) = JacFrom2(U1, U2, S1, S2, w, s)
  BY <1>1, <1>2, <1>3, <1>4, <1>5, <1>6, <1>7 DEF JacFrom2, G2AddJac, G2!AddJac
<1>13. U2 = Fp2Times(ZA, BX) /\ S1 = Fp2Times(AY, Fp2Times(ZB, BZ))
  <2>1. Fp2Times(AY, Fp2Times(ZB, BZ)) = Fp2Times(Fp2Times(AY, ZB), BZ)
    BY TimesAssoc
  <2>2. Fp2Times(AY, ZB) = t1 /\ Fp2Times(ZA, BX) = U2
    BY <1>5, <1>6, TimesComm
  <2> QED BY <1>7, <2>1, <2>2
<1>14. G2AddPlainJac(a, b, s) = JacFrom2(U1, U2, S1, S2, w, s)
  BY <1>1, <1>2, <1>3, <1>4, <1>5, <1>6, <1>7, <1>13 DEF JacFrom2, G2AddPlainJac, G2!AddPlainJac
<1> QED BY <1>11, <1>12, <1>14

LEMMA G2Proj ==
  ASSUME NEW a \in Triples2, NEW b \in Triples2, NEW s \in Fp
  PROVE  G2AddProj(a, b, s) = ProjSum(a, b)
<1>1. PICK AX, AY, AZ \in Fp2 : AX = a.X /\ AY = a.Y /\ AZ = a.Z
  BY DEF Triples2
<1>2. PICK BX, BY_, BZ \in Fp2 : BX = b.X /\ BY_ = b.Y /\ BZ = b.Z
  BY DEF Triples2
<1>3. PICK w, U1, U2 \in Fp2 : w = Fp2Times(AZ, BZ) /\ U1 = Fp2Times(AX, BZ) /\ U2 = Fp2Times(BX, AZ)
  BY RingTypes
<1>4. PICK S1, S2 \in Fp2 : S1 = Fp2Times(AY, BZ) /\ S2 = Fp2Times(BY_, AZ)
  BY RingTypes
<1>5. PICK R, H \in Fp2 : R = Fp2Minus(S1, S2) /\ H = Fp2Minus(U1, U2)
  BY RingTypes
<1>6. PICK RR, HH \in Fp2 : RR = Fp2Times(R, R) /\ HH = Fp2Times(H, H)
  BY RingTypes
<1>7. Fp2Sqr(R, s) = RR /\ Fp2Sqr(H, s) = HH
  BY <1>6, Sqr2
<1>8. PICK n, G, V \in Fp2 : n = Fp2Times(RR, w) /\ G = Fp2Times(HH, H) /\ V = Fp2Times(HH, U1)
  BY RingTypes
<1>9. Fp2Times(U1, HH) = V
  BY <1>8, TimesComm
<1>10. PICK W : W = Fp2Minus(Fp2Plus(n, G), Fp2Plus(V, V))
  OBVIOUS
<1>11. G2AddProj(a, b, s)
         = [X |-> Fp2Times(H, W),
            Y |-> Fp2Minus(Fp2Times(Fp2Minus(V, W), R), Fp2Times(S1, G)),
            Z |-> Fp2Times(w, G)]
  BY <1>1, <1>2, <1>3, <1>4, <1>5, <1>7, <1>8, <1>9, <1>10
     DEF G2AddProj, G2!AddProj, G2!Cube, G2!Twice
<1>12. W = AbscissaFrom(U1, U2, n)
  BY <1>5, <1>6, <1>8, <1>10 DEF AbscissaFrom
<1>13. OrdinateFrom(U1, U2, S1, S2, W) = Fp2Minus(Fp2Times(Fp2Minus(V, W), R), Fp2Times(S1, G))
  BY <1>5, <1>6, <1>8 DEF OrdinateFrom
<1>14. ProjSum(a, b) = [X |-> Fp2Times(H, W), Y |-> OrdinateFrom(U1, U2, S1, S2, W),
                        Z |-> Fp2Times(w, G)]
  BY <1>1, <1>2, <1>3, <1>4, <1>5, <1>6, <1>8, <1>12 DEF ProjSum
<1> QED BY <1>11, <1>13, <1>14

-----------------------------------------------------------------------------
(***************************************************************************)
(* In G1 the formulas are those of the pairs without an imaginary part.    *)
(***************************************************************************)
Triples1  == [X : Fp, Y : Fp, Z : Fp]
Lifted(a) == [X |-> C(a.X), Y |-> C(a.Y), Z |-> C(a.Z)]

LEMMA LiftedType ==
  ASSUME NEW a \in Triples1
  PROVE  Lifted(a) \in Triples2
<1>1. a.X \in Fp /\ a.Y \in Fp /\ a.Z \in Fp
  BY DEF Triples1
<1>2. C(a.X) \in Fp2 /\ C(a.Y) \in Fp2 /\ C(a.Z) \in Fp2
  BY <1>1, Embeds
<1> QED BY <1>2 DEF Lifted, Triples2

LEMMA EmbedsSqr ==
  ASSUME NEW a \in Fp, NEW s \in Fp
  PROVE  FpSqr(a, s) \in Fp /\ C(FpSqr(a, s)) = Fp2Sqr(C(a), s)
<1>1. FpSqr(a, s) = FpTimes(a, a) /\ C(a) \in Fp2
  BY Sqr1, Embeds
<1>2. FpTimes(a, a) \in Fp /\ C(FpTimes(a, a)) = Fp2Times(C(a), C(a))
  BY FpTypes, Embeds
<1>3. Fp2Sqr(C(a), s) = Fp2Times(C(a), C(a))
  BY <1>1, Sqr2
<1> QED BY <1>1, <1>2, <1>3

\* The operations on a pair of numbers, and on what they stand for.
LEMMA Lifts ==
  ASSUME NEW a \in Fp, NEW b \in Fp
  PROVE  /\ FpPlus(a, b) \in Fp  /\ C(FpPlus(a, b)) = Fp2Plus(C(a), C(b))
         /\ FpMinus(a, b) \in Fp /\ C(FpMinus(a, b)) = Fp2Minus(C(a), C(b))
         /\ FpTimes(a, b) \in Fp /\ C(FpTimes(a, b)) = Fp2Times(C(a), C(b))
BY FpTypes, Embeds

JacFrom1(U1, U2, S1, S2, w, s) == G1!JacFrom(U1, U2, S1, S2, w, s)

JacLifts(U1, U2, S1, S2, w, s) ==
  /\ JacFrom1(U1, U2, S1, S2, w, s) \in Triples1
  /\ Lifted(JacFrom1(U1, U2, S1, S2, w, s)) = JacFrom2(C(U1), C(U2), C(S1), C(S2), C(w), s)

LEMMA JacFromLifts ==
  ASSUME NEW U1 \in Fp, NEW U2 \in Fp, NEW S1 \in Fp, NEW S2 \in Fp, NEW w \in Fp, NEW s \in Fp
  PROVE  JacLifts(U1, U2, S1, S2, w, s)
<1>1. PICK H \in Fp : H = FpMinus(U1, U2) /\ C(H) = Fp2Minus(C(U1), C(U2))
  BY Lifts
<1>2. PICK R \in Fp : R = FpMinus(S1, S2) /\ C(R) = Fp2Minus(C(S1), C(S2))
  BY Lifts
<1>3. PICK HH \in Fp : HH = FpSqr(H, s) /\ C(HH) = Fp2Sqr(C(H), s)
  BY EmbedsSqr
<1>4. PICK RR \in Fp : RR = FpSqr(R, s) /\ C(RR) = Fp2Sqr(C(R), s)
  BY EmbedsSqr
<1>5. PICK G \in Fp : G = FpTimes(HH, H) /\ C(G) = Fp2Times(C(HH), C(H))
  BY Lifts
<1>6. PICK V \in Fp : V = FpTimes(HH, U1) /\ C(V) = Fp2Times(C(HH), C(U1))
  BY Lifts
<1>7. PICK VV \in Fp : VV = FpPlus(V, V) /\ C(VV) = Fp2Plus(C(V), C(V))
  BY Lifts
<1>8. PICK t \in Fp : t = FpPlus(RR, G) /\ C(t) = Fp2Plus(C(RR), C(G))
  BY Lifts
<1>9. PICK x \in Fp : x = FpMinus(t, VV) /\ C(x) = Fp2Minus(C(t), C(VV))
  BY Lifts
<1>10. PICK d \in Fp : d = FpMinus(V, x) /\ C(d) = Fp2Minus(C(V), C(x))
  BY Lifts
<1>11. PICK e \in Fp : e = FpTimes(d, R) /\ C(e) = Fp2Times(C(d), C(R))
  BY Lifts
<1>12. PICK f \in Fp : f = FpTimes(S1, G) /\ C(f) = Fp2Times(C(S1), C(G))
  BY Lifts
<1>13. PICK y \in Fp : y = FpMinus(e, f) /\ C(y) = Fp2Minus(C(e), C(f))
  BY Lifts
<1>14. PICK z \in Fp : z = FpTimes(w, H) /\ C(z) = Fp2Times(C(w), C(H))
  BY Lifts
<1>15. JacFrom1(U1, U2, S1, S2, w, s) = [X |-> x, Y |-> y, Z |-> z]
  BY <1>1, <1>2, <1>3, <1>4, <1>5, <1>6, <1>7, <1>8, <1>9, <1>10, <1>11, <1>12, <1>13, <1>14
     DEF JacFrom1, G1!JacFrom, G1!Cube, G1!Twice
<1>16. JacFrom2(C(U1), C(U2), C(S1), C(S2), C(w), s) = [X |-> C(x), Y |-> C(y), Z |-> C(z)]
  BY <1>1, <1>2, <1>3, <1>4, <1>5, <1>6, <1>7, <1>8, <1>9, <1>10, <1>11, <1>12, <1>13, <1>14
     DEF JacFrom2, G2!JacFrom, G2!Cube, G2!Twice
<1> QED BY <1>15, <1>16 DEF JacLifts, Triples1, Lifted

G1AddJac(a, b, s)      == G1!AddJac(a, b, s)
G1AddPlainJac(a, b, s) == G1!AddPlainJac(a, b, s)
G1AddProj(a, b, s)     == G1!AddProj(a, b, s)

LEMMA G1Jac ==
  ASSUME NEW a \in Triples1, NEW b \in Triples1, NEW s \in Fp
  PROVE  /\ G1AddJac(a, b, s) \in Triples1
         /\ Lifted(G1AddJac(a, b, s)) = JacSum(Lifted(a), Lifted(b))
<1>1. PICK AX, AY, AZ \in Fp : AX = a.X /\ AY = a.Y /\ AZ = a.Z
  BY DEF Triples1
<1>2. PICK BX, BY_, BZ \in Fp : BX = b.X /\ BY_ = b.Y /\ BZ = b.Z
  BY DEF Triples1
<1>3. PICK ZA \in Fp : ZA = FpSqr(AZ, s) /\ C(ZA) = Fp2Sqr(C(AZ), s)
  BY EmbedsSqr
<1>4. PICK ZB \in Fp : ZB = FpSqr(BZ, s) /\ C(ZB) = Fp2Sqr(C(BZ), s)
  BY EmbedsSqr
<1>5. PICK w \in Fp : w = FpTimes(AZ, BZ) /\ C(w) = Fp2Times(C(AZ), C(BZ))
  BY Lifts
<1>6. PICK U1 \in Fp : U1 = FpTimes(AX, ZB) /\ C(U1) = Fp2Times(C(AX), C(ZB))
  BY Lifts
<1>7. PICK U2 \in Fp : U2 = FpTimes(BX, ZA) /\ C(U2) = Fp2Times(C(BX), C(ZA))
  BY Lifts
<1>8. PICK t1 \in Fp : t1 = FpTimes(ZB, AY) /\ C(t1) = Fp2Times(C(ZB), C(AY))
  BY Lifts
<1>9. PICK t2 \in Fp : t2 = FpTimes(ZA, BY_) /\ C(t2) = Fp2Times(C(ZA), C(BY_))
  BY Lifts
<1>10. PICK S1 \in Fp : S1 = FpTimes(t1, BZ) /\ C(S1) = Fp2Times(C(t1), C(BZ))
  BY Lifts
<1>11. PICK S2 \in Fp : S2 = FpTimes(t2, AZ) /\ C(S2) = Fp2Times(C(t2), C(AZ))
  BY Lifts
<1>12. G1AddJac(a, b, s) = JacFrom1(U1, U2, S1, S2, w, s)
  BY <1>1, <1>2, <1>3, <1>4, <1>5, <1>6, <1>7, <1>8, <1>9, <1>10, <1>11
     DEF JacFrom1, G1AddJac, G1!AddJac
<1>13. /\ Lifted(a) = [X |-> C(AX), Y |-> C(AY), Z |-> C(AZ)]
       /\ Lifted(b) = [X |-> C(BX), Y |-> C(BY_), Z |-> C(BZ)]
  BY <1>1, <1>2 DEF Lifted
<1>14. G2AddJac(Lifted(a), Lifted(b), s) = JacFrom2(C(U1), C(U2), C(S1), C(S2), C(w), s)
  BY <1>3, <1>4, <1>5, <1>6, <1>7, <1>8, <1>9, <1>10, <1>11, <1>13
     DEF JacFrom2, G2AddJac, G2!AddJac
<1>15. JacLifts(U1, U2, S1, S2, w, s)
  BY JacFromLifts
<1>16. G2AddJac(Lifted(a), Lifted(b), s) = JacSum(Lifted(a), Lifted(b))
  BY LiftedType, G2Jac
<1> QED BY <1>12, <1>14, <1>15, <1>16 DEF JacLifts

LEMMA G1PlainJac ==
  ASSUME NEW a \in Triples1, NEW b \in Triples1, NEW s \in Fp
  PROVE  /\ G1AddPlainJac(a, b, s) \in Triples1
         /\ Lifted(G1AddPlainJac(a, b, s)) = JacSum(Lifted(a), Lifted(b))
<1>1. PICK AX, AY, AZ \in Fp : AX = a.X /\ AY = a.Y /\ AZ = a.Z
  BY DEF Triples1
<1>2. PICK BX, BY_, BZ \in Fp : BX = b.X /\ BY_ = b.Y /\ BZ = b.Z
  BY DEF Triples1
<1>3. PICK ZA \in Fp : ZA = FpSqr(AZ, s) /\ C(ZA) = Fp2Sqr(C(AZ), s)
  BY EmbedsSqr
<1>4. PICK b2 \in Fp : b2 = FpTimes(BZ, BZ) /\ C(b2) = Fp2Times(C(BZ), C(BZ))
  BY Lifts
<1>5. PICK b3 \in Fp : b3 = FpTimes(b2, BZ) /\ C(b3) = Fp2Times(C(b2), C(BZ))
  BY Lifts
<1>6. PICK w \in Fp : w = FpTimes(AZ, BZ) /\ C(w) = Fp2Times(C(AZ), C(BZ))
  BY Lifts
<1>7. PICK U1 \in Fp : U1 = FpTimes(AX, b2) /\ C(U1) = Fp2Times(C(AX), C(b2))
  BY Lifts
<1>8. PICK U2 \in Fp : U2 = FpTimes(ZA, BX) /\ C(U2) = Fp2Times(C(ZA), C(BX))
  BY Lifts
<1>9. PICK S1 \in Fp : S1 = FpTimes(AY, b3) /\ C(S1) = Fp2Times(C(AY), C(b3))
  BY Lifts
<1>10. PICK t \in Fp : t = FpTimes(ZA, BY_) /\ C(t) = Fp2Times(C(ZA), C(BY_))
  BY Lifts
<1>11. PICK S2 \in Fp : S2 = FpTimes(t, AZ) /\ C(S2) = Fp2Times(C(t), C(AZ))
  BY Lifts
<1>12. G1AddPlainJac(a, b, s) = JacFrom1(U1, U2, S1, S2, w, s)
  BY <1>1, <1>2, <1>3, <1>4, <1>5, <1>6, <1>7, <1>8, <1>9, <1>10, <1>11
     DEF JacFrom1, G1AddPlainJac, G1!AddPlainJac
<1>13. /\ Lifted(a) = [X |-> C(AX), Y |-> C(AY), Z |-> C(AZ)]
       /\ Lifted(b) = [X |-> C(BX), Y |-> C(BY_), Z |-> C(BZ)]
  BY <1>1, <1>2 DEF Lifted
<1>14. G2AddPlainJac(Lifted(a), Lifted(b), s) = JacFrom2(C(U1), C(U2), C(S1), C(S2), C(w), s)
  BY <1>3, <1>4, <1>5, <1>6, <1>7, <1>8, <1>9, <1>10, <1>11, <1>13
     DEF JacFrom2, G2AddPlainJac, G2!AddPlainJac
<1>15. JacLifts(U1, U2, S1, S2, w, s)
  BY JacFromLifts
<1>16. G2AddPlainJac(Lifted(a), Lifted(b), s) = JacSum(Lifted(a), Lifted(b))
  BY LiftedType, G2Jac
<1> QED BY <1>12, <1>14, <1>15, <1>16 DEF JacLifts

LEMMA G1Proj ==
  ASSUME NEW a \in Triples1, NEW b \in Triples1, NEW s \in Fp
  PROVE  /\ G1AddProj(a, b, s) \in Triples1
         /\ Lifted(G1AddProj(a, b, s)) = ProjSum(Lifted(a), Lifted(b))
<1>1. PICK AX, AY, AZ \in Fp : AX = a.X /\ AY = a.Y /\ AZ = a.Z
  BY DEF Triples1
<1>2. PICK BX, BY_, BZ \in Fp : BX = b.X /\ BY_ = b.Y /\ BZ = b.Z
  BY DEF Triples1
<1>3. PICK S1 \in Fp : S1 = FpTimes(AY, BZ) /\ C(S1) = Fp2Times(C(AY), C(BZ))
  BY Lifts
<1>4. PICK U1 \in Fp : U1 = FpTimes(AX, BZ) /\ C(U1) = Fp2Times(C(AX), C(BZ))
  BY Lifts
<1>5. PICK S2 \in Fp : S2 = FpTimes(BY_, AZ) /\ C(S2) = Fp2Times(C(BY_), C(AZ))
  BY Lifts
<1>6. PICK U2 \in Fp : U2 = FpTimes(BX, AZ) /\ C(U2) = Fp2Times(C(BX), C(AZ))
  BY Lifts
<1>7. PICK R \in Fp : R = FpMinus(S1, S2) /\ C(R) = Fp2Minus(C(S1), C(S2))
  BY Lifts
<1>8. PICK H \in Fp : H = FpMinus(U1, U2) /\ C(H) = Fp2Minus(C(U1), C(U2))
  BY Lifts
<1>9. PICK w \in Fp : w = FpTimes(AZ, BZ) /\ C(w) = Fp2Times(C(AZ), C(BZ))
  BY Lifts
<1>10. PICK HH \in Fp : HH = FpSqr(H, s) /\ C(HH) = Fp2Sqr(C(H), s)
  BY EmbedsSqr
<1>11. PICK RR \in Fp : RR = FpSqr(R, s) /\ C(RR) = Fp2Sqr(C(R), s)
  BY EmbedsSqr
<1>12. PICK V \in Fp : V = FpTimes(U1, HH) /\ C(V) = Fp2Times(C(U1), C(HH))
  BY Lifts
<1>13. PICK G \in Fp : G = FpTimes(HH, H) /\ C(G) = Fp2Times(C(HH), C(H))
  BY Lifts
<1>14. PICK n \in Fp : n = FpTimes(RR, w) /\ C(n) = Fp2Times(C(RR), C(w))
  BY Lifts
<1>15. PICK t \in Fp : t = FpPlus(n, G) /\ C(t) = Fp2Plus(C(n), C(G))
  BY Lifts
<1>16. PICK VV \in Fp : VV = FpPlus(V, V) /\ C(VV) = Fp2Plus(C(V), C(V))
  BY Lifts
<1>17. PICK W \in Fp : W = FpMinus(t, VV) /\ C(W) = Fp2Minus(C(t), C(VV))
  BY Lifts
<1>18. PICK x \in Fp : x = FpTimes(H, W) /\ C(x) = Fp2Times(C(H), C(W))
  BY Lifts
<1>19. PICK d \in Fp : d = FpMinus(V, W) /\ C(d) = Fp2Minus(C(V), C(W))
  BY Lifts
<1>20. PICK e \in Fp : e = FpTimes(d, R) /\ C(e) = Fp2Times(C(d), C(R))
  BY Lifts
<1>21. PICK f \in Fp : f = FpTimes(S1, G) /\ C(f) = Fp2Times(C(S1), C(G))
  BY Lifts
<1>22. PICK y \in Fp : y = FpMinus(e, f) /\ C(y) = Fp2Minus(C(e), C(f))
  BY Lifts
<1>23. PICK z \in Fp : z = FpTimes(w, G) /\ C(z) = Fp2Times(C(w), C(G))
  BY Lifts
<1>24. G1AddProj(a, b, s) = [X |-> x, Y |-> y, Z |-> z]
  BY <1>1, <1>2, <1>3, <1>4, <1>5, <1>6, <1>7, <1>8, <1>9, <1>10, <1>11, <1>12, <1>13, <1>14,
     <1>15, <1>16, <1>17, <1>18, <1>19, <1>20, <1>21, <1>22, <1>23
     DEF G1AddProj, G1!AddProj, G1!Cube, G1!Twice
<1>25. /\ Lifted(a) = [X |-> C(AX), Y |-> C(AY), Z |-> C(AZ)]
       /\ Lifted(b) = [X |-> C(BX), Y |-> C(BY_), Z |-> C(BZ)]
  BY <1>1, <1>2 DEF Lifted
<1>26. G2AddProj(Lifted(a), Lifted(b), s) = [X |-> C(x), Y |-> C(y), Z |-> C(z)]
  BY <1>3, <1>4, <1>5, <1>6, <1>7, <1>8, <1>9, <1>10, <1>11, <1>12, <1>13, <1>14,
     <1>15, <1>16, <1>17, <1>18, <1>19, <1>20, <1>21, <1>22, <1>23, <1>25
     DEF G2AddProj, G2!AddProj, G2!Cube, G2!Twice
<1>27. G2AddProj(Lifted(a), Lifted(b), s) = ProjSum(Lifted(a), Lifted(b))
  BY LiftedType, G2Proj
<1> QED BY <1>24, <1>26, <1>27 DEF Triples1, Lifted

-----------------------------------------------------------------------------
(***************************************************************************)
(* Additions of affine points: what is masked and inverted is 0 exactly    *)
(* for points of one x, and otherwise the result is the chord's point.     *)
(***************************************************************************)
Affine1 == [x : Fp, y : Fp]
Affine2 == [x : Fp2, y : Fp2]
LiftedAff(a) == [x |-> C(a.x), y |-> C(a.y)]

LEMMA LiftedAffType ==
  ASSUME NEW a \in Affine1
  PROVE  LiftedAff(a) \in Affine2
<1>1. a.x \in Fp /\ a.y \in Fp
  BY DEF Affine1
<1>2. C(a.x) \in Fp2 /\ C(a.y) \in Fp2
  BY <1>1, Embeds
<1> QED BY <1>2 DEF LiftedAff, Affine2

LEMMA MaskedZero ==
  ASSUME NEW d \in Fp, NEW r \in Fp
  PROVE  RA(P, d, r) = 0 <=> (r = 0 \/ d = 0)
<1>1. RA(P, d, r) = FpTimes(r, d) /\ FpTimes(r, d) \in Fp
  BY FpTypes DEF RA, FpTimes
<1>2. 0 \in Fp
  BY Prime DEF Fp
<1>3. C(d) \in Fp2 /\ C(r) \in Fp2 /\ C(FpTimes(r, d)) = Fp2Times(C(r), C(d))
  BY Embeds
<1>4. ASSUME FpTimes(r, d) = 0
      PROVE  r = 0 \/ d = 0
  <2>1. C(r) = C(0) \/ C(d) = C(0)
    BY <1>3, <1>4, NoZeroDivisors
  <2> QED BY <1>2, <2>1, Embeds
<1>5. ASSUME r = 0 \/ d = 0
      PROVE  FpTimes(r, d) = 0
  <2>1. Fp2Times(C(r), C(d)) = C(0)
    BY <1>3, <1>5, ZeroOne
  <2> QED BY <1>1, <1>2, <1>3, <2>1, Embeds
<1> QED BY <1>1, <1>4, <1>5

\* The difference in G1, and its inverse.
LEMMA Inverse1Is ==
  ASSUME NEW d \in Fp, NEW s \in Fp, NEW r \in Fp, RA(P, d, r) # 0
  PROVE  FpInv(d, s, r) \in Fp /\ C(d) # C(0) /\ C(FpInv(d, s, r)) = Recip[C(d)]
<1>1. 0 \in Fp /\ 1 \in Fp
  BY Prime DEF Fp
<1>2. d # 0
  BY MaskedZero
<1>3. PICK v \in Fp : v = FpInv(d, s, r) /\ (d * v) % P = 1
  BY InvIs DEF FpInv
<1>4. C(d) # C(0) /\ C(d) \in Fp2 /\ C(v) \in Fp2
  BY <1>1, <1>2, Embeds
<1>5. FpTimes(d, v) = 1
  BY <1>3 DEF FpTimes, Mul
<1>6. Fp2Times(C(d), C(v)) = C(1)
  BY <1>5, Embeds
<1>7. C(v) = Recip[C(d)]
  BY <1>4, <1>6, OneInverse
<1> QED BY <1>3, <1>4, <1>7

LEMMA NormIs ==
  ASSUME NEW d \in Fp2, NEW s \in Fp
  PROVE  /\ Norm(P, d, s) \in Fp
         /\ Norm(P, d, s) = (d.real * d.real + d.imag * d.imag) % P
         /\ Norm(P, d, s) = 0 <=> d = C(0)
<1>1. PICK m, n \in Fp : m = d.real /\ n = d.imag /\ d = [real |-> m, imag |-> n]
  BY DEF Fp2
<1>2. m \in Int /\ n \in Int /\ m * m \in Int /\ n * n \in Int
  BY Prime
<1>3. Sqr(P, m, s) = (m * m) % P /\ Sqr(P, n, s) = (n * n) % P
  BY SqrIs
<1>4. Norm(P, d, s) = (((m * m) % P) + ((n * n) % P)) % P
  BY <1>1, <1>3 DEF Norm, Add
<1>5. (((m * m) % P) + ((n * n) % P)) % P = (m * m + n * n) % P
  <2>1. (n * n) % P \in Int
    BY <1>2, Prime DEF Fp
  <2>2. (((m * m) % P) + ((n * n) % P)) % P = (m * m + ((n * n) % P)) % P
    BY <1>2, <2>1, Sums
  <2>3. (m * m + ((n * n) % P)) % P = (m * m + n * n) % P
    BY <1>2, Sums
  <2> QED BY <2>2, <2>3
<1>6. (m * m + n * n) % P \in Fp
  BY <1>2, Prime
<1>7. C(0) = [real |-> 0, imag |-> 0]
  BY Prime DEF C, Fp
<1>8. ASSUME (m * m + n * n) % P = 0
      PROVE  d = C(0)
  BY <1>1, <1>7, <1>8, NormIsNot0
<1>9. ASSUME d = C(0)
      PROVE  (m * m + n * n) % P = 0
  <2>1. m = 0 /\ n = 0
    BY <1>1, <1>7, <1>9
  <2> QED BY <2>1, Prime DEF Fp
<1> QED BY <1>1, <1>4, <1>5, <1>6, <1>8, <1>9

\* The difference in G2, and its inverse.
LEMMA Inverse2Is ==
  ASSUME NEW d \in Fp2, NEW s \in Fp, NEW r \in Fp, RA(P, Norm(P, d, s), r) # 0
  PROVE  Fp2Inv(d, s, r) \in Fp2 /\ d # C(0) /\ Fp2Inv(d, s, r) = Recip[d]
<1>1. PICK N \in Fp : N = Norm(P, d, s) /\ N = (d.real * d.real + d.imag * d.imag) % P
  BY NormIs
<1>2. d # C(0)
  BY NormIs, MaskedZero
<1>3. PICK n \in Fp : n = Inv(P, N, r) /\ (N * n) % P = 1
  BY <1>1, InvIs
<1>4. n \in Int /\ d.real \in Int /\ d.imag \in Int /\ N \in Int
  BY Prime DEF Fp2
<1>5. PICK e \in Int : e = d.real * d.real + d.imag * d.imag
  BY <1>4
<1>6. (e * n) % P = 1
  <2>1. (n * (e % P)) % P = (n * e) % P
    BY <1>4, <1>5, RemainderInside
  <2>2. n * (e % P) = N * n /\ n * e = e * n
    BY <1>1, <1>4, <1>5
  <2> QED BY <1>3, <2>1, <2>2
<1>7. Fp2Times(d, Pair(d.real * n, d.imag * (-n))) = C(1)
  BY <1>4, <1>5, <1>6, Conjugate
<1>8. Fp2Inv(d, s, r) = Pair(d.real * n, d.imag * (-n))
  BY <1>1, <1>3 DEF Fp2Inv, ComplexInv, Mul, Pair
<1>9. Pair(d.real * n, d.imag * (-n)) \in Fp2
  BY <1>4, PairType
<1>10. Fp2Inv(d, s, r) = Recip[d]
  BY <1>2, <1>7, <1>8, <1>9, OneInverse
<1> QED BY <1>2, <1>8, <1>9, <1>10

G1AddAff(a, b, s, r) == G1!AddAff(a, b, s, r)

LEMMA G1Aff ==
  ASSUME NEW a \in Affine1, NEW b \in Affine1, NEW s \in Fp, NEW r \in Fp
  PROVE  /\ RA(P, FpMinus(a.x, b.x), r) = 0 => r = 0 \/ C(a.x) = C(b.x)
         /\ RA(P, FpMinus(a.x, b.x), r) # 0
              => /\ C(a.x) # C(b.x) /\ G1AddAff(a, b, s, r) \in Affine1
                 /\ LiftedAff(G1AddAff(a, b, s, r)) = ChordOf(LiftedAff(a), LiftedAff(b))
<1>1. PICK AX, AY, BX, BY_ \in Fp : AX = a.x /\ AY = a.y /\ BX = b.x /\ BY_ = b.y
  BY DEF Affine1
<1>2. PICK d \in Fp : d = FpMinus(AX, BX) /\ C(d) = Fp2Minus(C(AX), C(BX))
  BY Lifts
<1>3. 0 \in Fp /\ C(AX) \in Fp2 /\ C(BX) \in Fp2
  BY Prime, Embeds DEF Fp
<1>4. d = 0 <=> C(AX) = C(BX)
  <2>1. d = 0 <=> C(d) = C(0)
    BY <1>3, Embeds
  <2>2. Fp2Minus(C(AX), C(BX)) = C(0) <=> C(AX) = C(BX)
    BY <1>3, MinusZero
  <2> QED BY <1>2, <2>1, <2>2
<1>5. RA(P, d, r) = 0 <=> (r = 0 \/ d = 0)
  BY MaskedZero
<1>6. ASSUME RA(P, d, r) # 0
      PROVE  /\ G1AddAff(a, b, s, r) \in Affine1
             /\ LiftedAff(G1AddAff(a, b, s, r)) = ChordOf(LiftedAff(a), LiftedAff(b))
  <2>1. PICK v \in Fp : v = FpInv(d, s, r) /\ C(v) = Recip[C(d)]
    BY <1>6, Inverse1Is
  <2>2. PICK dy \in Fp : dy = FpMinus(AY, BY_) /\ C(dy) = Fp2Minus(C(AY), C(BY_))
    BY Lifts
  <2>3. PICK m \in Fp : m = FpTimes(v, dy) /\ C(m) = Fp2Times(C(v), C(dy))
    BY Lifts
  <2>4. PICK mm \in Fp : mm = FpSqr(m, s) /\ C(mm) = Fp2Times(C(m), C(m))
    BY EmbedsSqr, Embeds, Sqr2
  <2>5. PICK t \in Fp : t = FpMinus(mm, AX) /\ C(t) = Fp2Minus(C(mm), C(AX))
    BY Lifts
  <2>6. PICK x \in Fp : x = FpMinus(t, BX) /\ C(x) = Fp2Minus(C(t), C(BX))
    BY Lifts
  <2>7. PICK e \in Fp : e = FpMinus(AX, x) /\ C(e) = Fp2Minus(C(AX), C(x))
    BY Lifts
  <2>8. PICK f \in Fp : f = FpTimes(e, m) /\ C(f) = Fp2Times(C(e), C(m))
    BY Lifts
  <2>9. PICK y \in Fp : y = FpMinus(f, AY) /\ C(y) = Fp2Minus(C(f), C(AY))
    BY Lifts
  <2>10. C(v) \in Fp2 /\ C(dy) \in Fp2 /\ C(e) \in Fp2 /\ C(m) \in Fp2
    BY Embeds
  <2>11. Fp2Times(C(v), C(dy)) = Fp2Times(C(dy), C(v)) /\ Fp2Times(C(e), C(m)) = Fp2Times(C(m), C(e))
    BY <2>10, TimesComm
  <2>12. G1AddAff(a, b, s, r) = [x |-> x, y |-> y]
    BY <1>1, <1>2, <2>1, <2>2, <2>3, <2>4, <2>5, <2>6, <2>7, <2>8, <2>9 DEF G1AddAff, G1!AddAff
  <2>13. C(m) = Slope(C(AX), C(AY), C(BX), C(BY_))
    BY <1>2, <2>1, <2>2, <2>3, <2>11 DEF Slope
  <2>14. LiftedAff(a) = [x |-> C(AX), y |-> C(AY)] /\ LiftedAff(b) = [x |-> C(BX), y |-> C(BY_)]
    BY <1>1 DEF LiftedAff
  <2>15. ChordOf(LiftedAff(a), LiftedAff(b)) = [x |-> C(x), y |-> C(y)]
    BY <2>4, <2>5, <2>6, <2>7, <2>8, <2>9, <2>11, <2>13, <2>14 DEF ChordOf, Chord
  <2> QED BY <2>12, <2>15 DEF LiftedAff, Affine1
<1> QED BY <1>1, <1>2, <1>4, <1>5, <1>6

LEMMA G2Aff ==
  ASSUME NEW a \in Affine2, NEW b \in Affine2, NEW s \in Fp, NEW r \in Fp
  PROVE  /\ RA(P, Norm(P, Fp2Minus(a.x, b.x), s), r) = 0 => r = 0 \/ a.x = b.x
         /\ RA(P, Norm(P, Fp2Minus(a.x, b.x), s), r) # 0
              => /\ a.x # b.x /\ G2AddAff(a, b, s, r) \in Affine2
                 /\ G2AddAff(a, b, s, r) = ChordOf(a, b)
<1>1. PICK AX, AY, BX, BY_ \in Fp2 : AX = a.x /\ AY = a.y /\ BX = b.x /\ BY_ = b.y
  BY DEF Affine2
<1>2. PICK d \in Fp2 : d = Fp2Minus(AX, BX)
  BY RingTypes
<1>3. d = C(0) <=> AX = BX
  BY <1>2, MinusZero
<1>4. PICK N \in Fp : N = Norm(P, d, s) /\ (N = 0 <=> d = C(0))
  BY NormIs
<1>5. RA(P, N, r) = 0 <=> (r = 0 \/ N = 0)
  BY MaskedZero
<1>6. ASSUME RA(P, N, r) # 0
      PROVE  G2AddAff(a, b, s, r) \in Affine2 /\ G2AddAff(a, b, s, r) = ChordOf(a, b)
  <2>1. PICK v \in Fp2 : v = Fp2Inv(d, s, r) /\ v = Recip[d]
    BY <1>4, <1>6, Inverse2Is
  <2>2. PICK dy \in Fp2 : dy = Fp2Minus(AY, BY_)
    BY RingTypes
  <2>3. PICK m \in Fp2 : m = Fp2Times(v, dy) /\ m = Fp2Times(dy, v)
    BY RingTypes, TimesComm
  <2>4. PICK mm \in Fp2 : mm = Fp2Sqr(m, s) /\ mm = Fp2Times(m, m)
    BY Sqr2, RingTypes
  <2>5. PICK t \in Fp2 : t = Fp2Minus(mm, AX)
    BY RingTypes
  <2>6. PICK x \in Fp2 : x = Fp2Minus(t, BX)
    BY RingTypes
  <2>7. PICK e \in Fp2 : e = Fp2Minus(AX, x)
    BY RingTypes
  <2>8. PICK f \in Fp2 : f = Fp2Times(e, m) /\ f = Fp2Times(m, e)
    BY RingTypes, TimesComm
  <2>9. PICK y \in Fp2 : y = Fp2Minus(f, AY)
    BY RingTypes
  <2>12. G2AddAff(a, b, s, r) = [x |-> x, y |-> y]
    BY <1>1, <1>2, <2>1, <2>2, <2>3, <2>4, <2>5, <2>6, <2>7, <2>8, <2>9 DEF G2AddAff, G2!AddAff
  <2>13. m = Slope(AX, AY, BX, BY_)
    BY <1>2, <2>1, <2>2, <2>3 DEF Slope
  <2>15. ChordOf(a, b) = [x |-> x, y |-> y]
    BY <1>1, <2>4, <2>5, <2>6, <2>7, <2>8, <2>9, <2>13 DEF ChordOf, Chord
  <2> QED BY <2>12, <2>15 DEF Affine2
<1> QED BY <1>1, <1>2, <1>3, <1>4, <1>5, <1>6

-----------------------------------------------------------------------------
(***************************************************************************)
(* The reference is a sum made step by step.                               *)
(***************************************************************************)
(* Induction from 1 up to n.                                                *)
LEMMA UpTo ==
  ASSUME NEW n \in Int, NEW S, 1 \in S, \A k \in 1 .. n : k # n /\ k \in S => k + 1 \in S
  PROVE  1 .. n \subseteq S
<1> DEFINE D == {k \in Nat : 1 + k \in 1 .. n /\ 1 + k \notin S}
<1> SUFFICES ASSUME D # {} PROVE FALSE
  <2> SUFFICES ASSUME D = {}, NEW k \in 1 .. n PROVE k \in S
    OBVIOUS
  <2>1. k - 1 \in Nat /\ 1 + (k - 1) = k
    OBVIOUS
  <2> QED BY <2>1
<1>1. D \in SUBSET Nat
  OBVIOUS
<1> HIDE DEF D
<1>2. PICK k \in D : \A j \in D : ~ (<<j, k>> \in OpToRel(<, Nat))
  BY <1>1, NatLessThanWellFounded, WFMin
<1>3. k \in Nat /\ 1 + k \in 1 .. n /\ 1 + k \notin S
  BY DEF D
<1>4. k # 0
  BY <1>3
<1>5. k - 1 \in Nat /\ k - 1 < k /\ 1 + (k - 1) = k /\ k \in 1 .. n /\ k # n /\ k + 1 = 1 + k
  BY <1>3, <1>4
<1>6. k - 1 \notin D
  BY <1>2, <1>3, <1>5 DEF OpToRel
<1>7. k \in S
  BY <1>5, <1>6 DEF D
<1> QED BY <1>3, <1>5, <1>7

(* f[k] is the sum of the first k of n points.                              *)
PartialSums(f, n) ==
  f = [k \in 1 .. n |-> IF k = 1 THEN AffineOf(ac[1]) ELSE GroupAdd(f[k - 1], AffineOf(ac[k]))]

LEMMA PartialAt ==
  ASSUME NEW n \in Nat, NEW f, PartialSums(f, n), NEW k \in 1 .. n
  PROVE  f[k] = IF k = 1 THEN AffineOf(ac[1]) ELSE GroupAdd(f[k - 1], AffineOf(ac[k]))
BY DEF PartialSums

LEMMA PartialExist ==
  ASSUME NEW n \in Nat \ {0}
  PROVE  \E f : PartialSums(f, n)
<1> DEFINE G == {m \in 1 .. n : \E f : PartialSums(f, m)}
<1>1. 1 \in G
  <2>1. PICK f : f = [k \in 1 .. 1 |-> AffineOf(ac[1])]
    OBVIOUS
  <2>2. [k \in 1 .. 1 |-> IF k = 1 THEN AffineOf(ac[1]) ELSE GroupAdd(f[k - 1], AffineOf(ac[k]))]
          = [k \in 1 .. 1 |-> AffineOf(ac[1])]
    OBVIOUS
  <2> QED BY <2>1, <2>2 DEF PartialSums
<1>2. ASSUME NEW m \in 1 .. n, m # n, m \in G PROVE m + 1 \in G
  <2>1. PICK f : PartialSums(f, m)
    BY <1>2
  <2>2. PICK M \in Nat : M = m + 1
    OBVIOUS
  <2>3. PICK v : v = GroupAdd(f[m], AffineOf(ac[M]))
    OBVIOUS
  <2>4. PICK g : g = [k \in 1 .. M |-> IF k = M THEN v ELSE f[k]]
    OBVIOUS
  <2>5. ASSUME NEW k \in 1 .. M
        PROVE  g[k] = IF k = 1 THEN AffineOf(ac[1]) ELSE GroupAdd(g[k - 1], AffineOf(ac[k]))
    <3>1. CASE k = M
      <4>1. k - 1 = m /\ m # M /\ m \in 1 .. M /\ k # 1
        BY <2>2, <3>1
      <4>2. g[k] = v /\ g[k - 1] = f[m]
        BY <2>4, <3>1, <4>1
      <4> QED BY <2>3, <3>1, <4>1, <4>2
    <3>2. CASE k # M
      <4>1. k \in 1 .. m /\ (k # 1 => k - 1 \in 1 .. m /\ k - 1 \in 1 .. M /\ k - 1 # M)
        BY <2>2, <3>2
      <4>2. g[k] = f[k] /\ (k # 1 => g[k - 1] = f[k - 1])
        BY <2>4, <3>2, <4>1
      <4>3. f[k] = IF k = 1 THEN AffineOf(ac[1]) ELSE GroupAdd(f[k - 1], AffineOf(ac[k]))
        BY <2>1, <4>1, PartialAt
      <4> QED BY <4>2, <4>3
    <3> QED BY <3>1, <3>2
  <2>6. g = [k \in 1 .. M |-> g[k]]
    BY <2>4
  <2>7. PartialSums(g, M)
    BY <2>5, <2>6 DEF PartialSums
  <2>8. M \in 1 .. n
    BY <1>2, <2>2
  <2> QED BY <2>2, <2>7, <2>8
<1> HIDE DEF G
<1>3. 1 .. n \subseteq G
  BY <1>1, <1>2, UpTo
<1>4. n \in G
  BY <1>3
<1> QED BY <1>4 DEF G

LEMMA PartialSame ==
  ASSUME NEW n \in Nat, NEW m \in 1 .. n, NEW f, PartialSums(f, n), NEW g, PartialSums(g, m)
  PROVE  \A k \in 1 .. m : f[k] = g[k]
<1> DEFINE E == {k \in 1 .. m : f[k] = g[k]}
<1>1. 1 \in E
  <2>1. 1 \in 1 .. m /\ 1 \in 1 .. n /\ m \in Nat
    OBVIOUS
  <2> QED BY <2>1, PartialAt
<1>2. ASSUME NEW k \in 1 .. m, k # m, k \in E PROVE k + 1 \in E
  <2>1. PICK j \in Nat : j = k + 1
    OBVIOUS
  <2>2. j \in 1 .. m /\ j \in 1 .. n /\ j # 1 /\ j - 1 = k /\ m \in Nat
    BY <1>2, <2>1
  <2>3. f[j] = GroupAdd(f[k], AffineOf(ac[j]))
    BY <2>2, PartialAt
  <2>4. g[j] = GroupAdd(g[k], AffineOf(ac[j]))
    BY <2>2, PartialAt
  <2> QED BY <1>2, <2>1, <2>2, <2>3, <2>4
<1> HIDE DEF E
<1>3. m \in Int
  OBVIOUS
<1>4. 1 .. m \subseteq E
  BY <1>1, <1>2, <1>3, UpTo
<1> QED BY <1>4 DEF E

LEMMA ReferenceIs ==
  ASSUME NEW n \in Nat \ {0}
  PROVE  \E f : PartialSums(f, n) /\ Reference(n) = f[n]
<1>1. PICK g : g = CHOOSE f : PartialSums(f, n)
  OBVIOUS
<1>2. PartialSums(g, n)
  BY <1>1, PartialExist
<1>3. Reference(n) = g[n]
  BY <1>1 DEF Reference, PartialSums
<1> QED BY <1>2, <1>3

LEMMA ReferenceStep ==
  ASSUME NEW n \in Nat \ {0}
  PROVE  /\ Reference(1) = AffineOf(ac[1])
         /\ Reference(n + 1) = GroupAdd(Reference(n), AffineOf(ac[n + 1]))
<1>1. Reference(1) = AffineOf(ac[1])
  <2>1. PICK f : PartialSums(f, 1) /\ Reference(1) = f[1]
    BY ReferenceIs
  <2> QED BY <2>1, PartialAt
<1>2. PICK m \in Nat \ {0} : m = n + 1
  OBVIOUS
<1>3. PICK f : PartialSums(f, n) /\ Reference(n) = f[n]
  BY ReferenceIs
<1>4. PICK g : PartialSums(g, m) /\ Reference(m) = g[m]
  BY ReferenceIs
<1>5. m \in 1 .. m /\ m # 1 /\ m - 1 = n /\ n \in 1 .. m /\ n \in 1 .. n
  BY <1>2
<1>6. g[m] = GroupAdd(g[n], AffineOf(ac[m]))
  BY <1>4, <1>5, PartialAt
<1>7. g[n] = f[n]
  BY <1>3, <1>4, <1>5, PartialSame
<1> QED BY <1>1, <1>2, <1>3, <1>4, <1>6, <1>7

(* The n-th point has the x of the sum before it, or that is infinity.      *)
Clash(n) == LET a == Reference(n - 1) IN a = Infinity \/ a.x = AffineOf(ac[n]).x

LEMMA MetStep ==
  ASSUME NEW n \in Nat \ {0}
  PROVE  ~MetEqualX(1) /\ (MetEqualX(n + 1) <=> MetEqualX(n) \/ Clash(n + 1))
<1>1. \A m : MetEqualX(m) <=> \E k \in 2 .. m : Clash(k)
  BY DEF MetEqualX, Clash
<1>2. 2 .. 1 = {} /\ 2 .. n + 1 = 2 .. n \cup {n + 1}
  OBVIOUS
<1> QED BY <1>1, <1>2

-----------------------------------------------------------------------------
(***************************************************************************)
(* One addition, in the coordinates of the run.                            *)
(***************************************************************************)
Shapes == IF form = "aff" THEN IF group = "G1" THEN Affine1 ELSE Affine2
          ELSE IF group = "G1" THEN Triples1 ELSE Triples2

LEMMA AffineOfAff ==
  ASSUME form = "aff", NEW a \in Shapes
  PROVE  /\ Valid(a) /\ AffineOf(a) \in Affine2
         /\ group = "G1" => a \in Affine1 /\ AffineOf(a) = LiftedAff(a)
         /\ group # "G1" => a \in Affine2 /\ AffineOf(a) = a
<1>1. Valid(a)
  BY DEF Valid
<1>2. CASE group = "G1"
  <2>1. a \in Affine1
    BY <1>2 DEF Shapes
  <2>2. AffineOf(a) = LiftedAff(a)
    BY <1>2 DEF AffineOf, InFp2, LiftedAff
  <2> QED BY <1>1, <1>2, <2>1, <2>2, LiftedAffType
<1>3. CASE group # "G1"
  <2>1. a \in Affine2
    BY <1>3 DEF Shapes
  <2>2. AffineOf(a) = [x |-> a.x, y |-> a.y]
    BY <1>3 DEF AffineOf, InFp2
  <2>3. [x |-> a.x, y |-> a.y] = a
    BY <2>1 DEF Affine2
  <2> QED BY <1>1, <1>3, <2>1, <2>2, <2>3
<1> QED BY <1>2, <1>3

\* A triple, over the pairs.
Over(a) == IF group = "G1" THEN Lifted(a) ELSE a

LEMMA OverIs ==
  ASSUME form # "aff", NEW a \in Shapes
  PROVE  /\ Over(a) \in Triples2 /\ (Valid(a) <=> Over(a).Z # C(0))
         /\ form = "jac" => AffineOf(a) = FromJac(Over(a))
         /\ form # "jac" => AffineOf(a) = FromProj(Over(a))
<1>1. Over(a) \in Triples2 /\ InFp2(a.X) = Over(a).X /\ InFp2(a.Y) = Over(a).Y /\ InFp2(a.Z) = Over(a).Z
  BY LiftedType DEF Over, Shapes, InFp2, Lifted
<1> QED BY <1>1 DEF Valid, AffineOf, FromJac, FromProj

LEMMA AffineOfType ==
  ASSUME NEW a \in Shapes, Valid(a)
  PROVE  AffineOf(a) \in Affine2 /\ AffineOf(a).x \in Fp2 /\ AffineOf(a) # Infinity
<1>1. AffineOf(a) \in Affine2
  <2>1. CASE form = "aff"
    BY <2>1, AffineOfAff
  <2>2. CASE form = "jac"
    <3>1. Over(a) \in Triples2 /\ Over(a).Z # C(0) /\ AffineOf(a) = FromJac(Over(a))
      BY <2>2, OverIs
    <3>2. FromJac(Over(a)).x \in Fp2 /\ FromJac(Over(a)).y \in Fp2
      BY <3>1, FromJacIs
    <3> QED BY <3>1, <3>2 DEF FromJac, Affine2
  <2>3. CASE form \notin {"aff", "jac"}
    <3>1. Over(a) \in Triples2 /\ Over(a).Z # C(0) /\ AffineOf(a) = FromProj(Over(a))
      BY <2>3, OverIs
    <3>2. FromProj(Over(a)).x \in Fp2 /\ FromProj(Over(a)).y \in Fp2
      BY <3>1, FromProjIs
    <3> QED BY <3>1, <3>2 DEF FromProj, Affine2
  <2> QED BY <2>1, <2>2, <2>3
<1>2. \A p \in Affine2 : p # Infinity /\ p.x \in Fp2
  BY DEF Affine2, Infinity
<1> QED BY <1>1, <1>2

(* o is the sum of a and b when they have different x, and no point else.   *)
IsSum(o, a, b) ==
  /\ o \in Shapes
  /\ ~Valid(a) => ~Valid(o)
  /\ Valid(a) /\ AffineOf(a).x = AffineOf(b).x => ~Valid(o)
  /\ Valid(a) /\ AffineOf(a).x # AffineOf(b).x
       => Valid(o) /\ AffineOf(o) = ChordOf(AffineOf(a), AffineOf(b))

LEMMA IsSumJac ==
  ASSUME form = "jac", NEW o \in Shapes, NEW a \in Shapes, NEW b \in Shapes, Valid(b),
         Over(o) = JacSum(Over(a), Over(b))
  PROVE  IsSum(o, a, b)
<1>1. Over(b).Z # C(0) /\ Over(a) \in Triples2 /\ Over(b) \in Triples2
  BY OverIs
<1>2. /\ AffineOf(o) = FromJac(Over(o)) /\ AffineOf(a) = FromJac(Over(a))
      /\ AffineOf(b) = FromJac(Over(b))
      /\ Valid(o) <=> Over(o).Z # C(0)
      /\ Valid(a) <=> Over(a).Z # C(0)
  BY OverIs
<1> QED BY <1>1, <1>2, JacSumIs DEF IsSum

LEMMA IsSumProj ==
  ASSUME form = "proj", NEW o \in Shapes, NEW a \in Shapes, NEW b \in Shapes, Valid(b),
         Over(o) = ProjSum(Over(a), Over(b))
  PROVE  IsSum(o, a, b)
<1>1. Over(b).Z # C(0) /\ Over(a) \in Triples2 /\ Over(b) \in Triples2
  BY OverIs
<1>2. /\ AffineOf(o) = FromProj(Over(o)) /\ AffineOf(a) = FromProj(Over(a))
      /\ AffineOf(b) = FromProj(Over(b))
      /\ Valid(o) <=> Over(o).Z # C(0)
      /\ Valid(a) <=> Over(a).Z # C(0)
  BY OverIs
<1> QED BY <1>1, <1>2, ProjSumIs DEF IsSum

LEMMA JacobianStep ==
  ASSUME NEW b \in Shapes, Valid(b), out \in Shapes, NEW s \in Fp, AddJacobian(b, s)
  PROVE  IsSum(out', out, b) /\ status' = status
<1>1. form = "jac" /\ status' = status
  BY DEF AddJacobian
<1>2. CASE group = "G1"
  <2>1. out \in Triples1 /\ b \in Triples1
    BY <1>1, <1>2 DEF Shapes
  <2>2. out' = G1AddJac(out, b, s) \/ out' = G1AddPlainJac(out, b, s)
    BY <1>2 DEF AddJacobian, G1AddJac, G1AddPlainJac
  <2>3. out' \in Triples1 /\ Lifted(out') = JacSum(Lifted(out), Lifted(b))
    <3>1. CASE out' = G1AddJac(out, b, s)
      BY <2>1, <3>1, G1Jac
    <3>2. CASE out' = G1AddPlainJac(out, b, s)
      BY <2>1, <3>2, G1PlainJac
    <3> QED BY <2>2, <3>1, <3>2
  <2>4. out' \in Shapes /\ Over(out') = JacSum(Over(out), Over(b))
    BY <1>1, <1>2, <2>3 DEF Shapes, Over
  <2> QED BY <1>1, <2>4, IsSumJac
<1>3. CASE group # "G1"
  <2>1. out \in Triples2 /\ b \in Triples2
    BY <1>1, <1>3 DEF Shapes
  <2>2. out' = G2AddJac(out, b, s) \/ out' = G2AddPlainJac(out, b, s)
    BY <1>3 DEF AddJacobian
  <2>3. out' \in Triples2 /\ out' = JacSum(out, b)
    BY <2>1, <2>2, G2Jac, JacSumType
  <2>4. out' \in Shapes /\ Over(out') = JacSum(Over(out), Over(b))
    BY <1>1, <1>3, <2>3 DEF Shapes, Over
  <2> QED BY <1>1, <2>4, IsSumJac
<1> QED BY <1>2, <1>3

LEMMA ProjectiveStep ==
  ASSUME NEW b \in Shapes, Valid(b), out \in Shapes, NEW s \in Fp, AddProjective(b, s)
  PROVE  IsSum(out', out, b) /\ status' = status
<1>1. form = "proj" /\ status' = status
  BY DEF AddProjective
<1>2. CASE group = "G1"
  <2>1. out \in Triples1 /\ b \in Triples1
    BY <1>1, <1>2 DEF Shapes
  <2>2. out' = G1AddProj(out, b, s)
    BY <1>2 DEF AddProjective, G1AddProj
  <2>3. out' \in Triples1 /\ Lifted(out') = ProjSum(Lifted(out), Lifted(b))
    BY <2>1, <2>2, G1Proj
  <2>4. out' \in Shapes /\ Over(out') = ProjSum(Over(out), Over(b))
    BY <1>1, <1>2, <2>3 DEF Shapes, Over
  <2> QED BY <1>1, <2>4, IsSumProj
<1>3. CASE group # "G1"
  <2>1. out \in Triples2 /\ b \in Triples2
    BY <1>1, <1>3 DEF Shapes
  <2>2. out' = G2AddProj(out, b, s)
    BY <1>3 DEF AddProjective
  <2>3. out' \in Triples2 /\ out' = ProjSum(out, b)
    BY <2>1, <2>2, G2Proj, ProjSumType
  <2>4. out' \in Shapes /\ Over(out') = ProjSum(Over(out), Over(b))
    BY <1>1, <1>3, <2>3 DEF Shapes, Over
  <2> QED BY <1>1, <2>4, IsSumProj
<1> QED BY <1>2, <1>3

LEMMA AffineStep ==
  ASSUME NEW b \in Shapes, out \in Shapes, NEW s \in Fp, NEW r \in Fp, AddAffine(b, s, r)
  PROVE  \/ IsSum(out', out, b) /\ status' = status
         \/ /\ out' = out /\ status' \in {"zero_mask", "zero_divisor"} /\ Valid(out)
            /\ status' = "zero_divisor" => AffineOf(out).x = AffineOf(b).x
<1>1. form = "aff"
  BY DEF AddAffine
<1>2. CASE group = "G1"
  <2>1. /\ out \in Affine1 /\ AffineOf(out) = LiftedAff(out) /\ Valid(out)
        /\ b \in Affine1 /\ AffineOf(b) = LiftedAff(b)
    BY <1>1, <1>2, AffineOfAff
  <2>2. LiftedAff(out).x = C(out.x) /\ LiftedAff(b).x = C(b.x)
    BY DEF LiftedAff
  <2>3. PICK m : m = RA(P, FpMinus(out.x, b.x), r)
    OBVIOUS
  <2>4. Masked(b, s) = FpMinus(out.x, b.x)
    BY <1>2 DEF Masked
  <2>5. CASE m = 0
    <3>0. RA(P, FpMinus(out.x, b.x), r) = 0
      BY <2>3, <2>5
    <3>1. r = 0 \/ C(out.x) = C(b.x)
      BY <2>1, <3>0, G1Aff, Zenon
    <3>2. status' = (IF r = 0 THEN "zero_mask" ELSE "zero_divisor") /\ out' = out
      BY <2>3, <2>4, <2>5 DEF AddAffine
    <3> QED BY <2>1, <2>2, <3>1, <3>2
  <2>6. CASE m # 0
    <3>1. out' = G1AddAff(out, b, s, r) /\ status' = status
      BY <1>2, <2>3, <2>4, <2>6 DEF AddAffine, G1AddAff
    <3>2. /\ C(out.x) # C(b.x) /\ out' \in Affine1
          /\ LiftedAff(out') = ChordOf(LiftedAff(out), LiftedAff(b))
      BY <2>1, <2>3, <2>6, <3>1, G1Aff
    <3>3. out' \in Shapes
      BY <1>1, <1>2, <3>2 DEF Shapes
    <3>4. AffineOf(out') = LiftedAff(out') /\ Valid(out')
      BY <1>1, <1>2, <3>3, AffineOfAff
    <3> QED BY <2>1, <2>2, <3>1, <3>2, <3>3, <3>4 DEF IsSum
  <2> QED BY <2>5, <2>6
<1>3. CASE group # "G1"
  <2>1. /\ out \in Affine2 /\ AffineOf(out) = out /\ Valid(out)
        /\ b \in Affine2 /\ AffineOf(b) = b
    BY <1>1, <1>3, AffineOfAff
  <2>3. PICK m : m = RA(P, Norm(P, Fp2Minus(out.x, b.x), s), r)
    OBVIOUS
  <2>4. Masked(b, s) = Norm(P, Fp2Minus(out.x, b.x), s)
    BY <1>3 DEF Masked
  <2>5. CASE m = 0
    <3>0. RA(P, Norm(P, Fp2Minus(out.x, b.x), s), r) = 0
      BY <2>3, <2>5
    <3>1. r = 0 \/ out.x = b.x
      <4>1. ASSUME NEW a \in Affine2, NEW c \in Affine2, RA(P, Norm(P, Fp2Minus(a.x, c.x), s), r) = 0
            PROVE  r = 0 \/ a.x = c.x
        BY <4>1, G2Aff
      <4> QED BY <2>1, <3>0, <4>1
    <3>2. status' = (IF r = 0 THEN "zero_mask" ELSE "zero_divisor") /\ out' = out
      BY <2>3, <2>4, <2>5 DEF AddAffine
    <3> QED BY <2>1, <3>1, <3>2
  <2>6. CASE m # 0
    <3>1. out' = G2AddAff(out, b, s, r) /\ status' = status
      BY <1>3, <2>3, <2>4, <2>6 DEF AddAffine
    <3>2. out.x # b.x /\ out' \in Affine2 /\ out' = ChordOf(out, b)
      BY <2>1, <2>3, <2>6, <3>1, G2Aff
    <3>3. out' \in Shapes
      BY <1>1, <1>3, <3>2 DEF Shapes
    <3>4. AffineOf(out') = out' /\ Valid(out')
      BY <1>1, <1>3, <3>3, AffineOfAff
    <3> QED BY <2>1, <3>1, <3>2, <3>3, <3>4 DEF IsSum
  <2> QED BY <2>5, <2>6
<1> QED BY <1>2, <1>3

-----------------------------------------------------------------------------
(***************************************************************************)
(* The invariant: while no addition met two points of one x the running    *)
(* sum is the reference's, and once one did the run throws or the sum has   *)
(* no Z any more.                                                          *)
(***************************************************************************)
TypeOK ==
  /\ group \in {"G1", "G2"} /\ form \in {"aff", "jac", "proj"}
  /\ ac \in [1 .. Terms -> Inputs(group, form)]
  /\ out \in Shapes /\ i \in 2 .. Terms + 1
  /\ status \in {"adding", "done", "zero_mask", "zero_divisor"}

SumInv ==
  /\ TypeOK
  /\ status \in {"adding", "done"} /\ Valid(out)
       => ~MetEqualX(i - 1) /\ AffineOf(out) = Reference(i - 1)
  /\ status = "zero_divisor" \/ (status \in {"adding", "done"} /\ ~Valid(out))
       => MetEqualX(i - 1)

LEMMA InputType ==
  ASSUME group \in {"G1", "G2"}, form \in {"aff", "jac", "proj"}, NEW a \in Inputs(group, form)
  PROVE  a \in Shapes /\ Valid(a)
<1>1. CASE group = "G1"
  <2>1. PICK pt \in Points1, z \in Zs1 : a = Lift1(form, pt, z)
    BY <1>1 DEF Inputs
  <2>2. pt \in [x : Fp, y : Fp] /\ z \in Fp /\ z # 0
    BY PointsAssumption
  <2>3. pt.x \in Int /\ pt.y \in Int /\ z \in Int /\ 0 \in Fp
    BY <2>2, Prime DEF Fp
  <2>4. C(z) # C(0)
    BY <2>2, <2>3, Embeds
  <2>5. CASE form = "aff"
    <3>1. a = pt
      BY <2>1, <2>5 DEF Lift1
    <3> QED BY <1>1, <2>2, <2>5, <3>1 DEF Shapes, Valid, Affine1
  <2>6. CASE form = "jac"
    <3>1. a = [X |-> (pt.x * z * z) % P, Y |-> (pt.y * z * z * z) % P, Z |-> z]
      BY <2>1, <2>6 DEF Lift1
    <3>2. pt.x * z * z \in Int /\ pt.y * z * z * z \in Int
      BY <2>3
    <3>3. (pt.x * z * z) % P \in Fp /\ (pt.y * z * z * z) % P \in Fp
      BY <3>2, Prime
    <3> QED BY <1>1, <2>2, <2>4, <2>6, <3>1, <3>3 DEF Shapes, Valid, Triples1, InFp2
  <2>7. CASE form = "proj"
    <3>1. a = [X |-> (pt.x * z) % P, Y |-> (pt.y * z) % P, Z |-> z]
      BY <2>1, <2>7 DEF Lift1
    <3>2. pt.x * z \in Int /\ pt.y * z \in Int
      BY <2>3
    <3>3. (pt.x * z) % P \in Fp /\ (pt.y * z) % P \in Fp
      BY <3>2, Prime
    <3> QED BY <1>1, <2>2, <2>4, <2>7, <3>1, <3>3 DEF Shapes, Valid, Triples1, InFp2
  <2> QED BY <2>5, <2>6, <2>7
<1>2. CASE group = "G2"
  <2>1. PICK pt \in Points2, z \in Zs2 : a = Lift2(form, pt, z)
    BY <1>2 DEF Inputs
  <2>2. pt \in [x : Fp2, y : Fp2] /\ pt.x \in Fp2 /\ pt.y \in Fp2 /\ z \in Fp2 /\ z # C(0)
    BY PointsAssumption
  <2>3. PICK z2 \in Fp2 : z2 = Fp2Times(z, z)
    BY <2>2, RingTypes
  <2>4. PICK z3 \in Fp2 : z3 = Fp2Times(z2, z)
    BY <2>2, RingTypes
  <2>5. CASE form = "aff"
    <3>1. a = pt
      BY <2>1, <2>5 DEF Lift2
    <3> QED BY <1>2, <2>2, <2>5, <3>1 DEF Shapes, Valid, Affine2
  <2>6. CASE form = "jac"
    <3>1. a = [X |-> Fp2Times(pt.x, z2), Y |-> Fp2Times(pt.y, z3), Z |-> z]
      BY <2>1, <2>3, <2>4, <2>6 DEF Lift2
    <3>2. Fp2Times(pt.x, z2) \in Fp2 /\ Fp2Times(pt.y, z3) \in Fp2
      BY <2>2, RingTypes
    <3> QED BY <1>2, <2>2, <2>6, <3>1, <3>2 DEF Shapes, Valid, Triples2, InFp2
  <2>7. CASE form = "proj"
    <3>1. a = [X |-> Fp2Times(pt.x, z), Y |-> Fp2Times(pt.y, z), Z |-> z]
      BY <2>1, <2>7 DEF Lift2
    <3>2. Fp2Times(pt.x, z) \in Fp2 /\ Fp2Times(pt.y, z) \in Fp2
      BY <2>2, RingTypes
    <3> QED BY <1>2, <2>2, <2>7, <3>1, <3>2 DEF Shapes, Valid, Triples2, InFp2
  <2> QED BY <2>5, <2>6, <2>7
<1> QED BY <1>1, <1>2

LEMMA SumInvInit ==
  ASSUME Init
  PROVE  SumInv
<1>1. Terms \in Nat /\ Terms >= 1 /\ 1 \in 1 .. Terms /\ 2 \in 2 .. Terms + 1
  BY TermsAssumption
<1>2. /\ group \in {"G1", "G2"} /\ form \in {"aff", "jac", "proj"}
      /\ ac \in [1 .. Terms -> Inputs(group, form)]
      /\ out = ac[1] /\ i = 2 /\ status = "adding"
  BY DEF Init
<1>3. out \in Inputs(group, form)
  BY <1>1, <1>2
<1>4. out \in Shapes /\ Valid(out)
  BY <1>2, <1>3, InputType
<1>5. TypeOK
  BY <1>1, <1>2, <1>4 DEF TypeOK
<1>6. i - 1 = 1 /\ 1 \in Nat \ {0}
  BY <1>2
<1>7. ~MetEqualX(1) /\ Reference(1) = AffineOf(ac[1])
  BY <1>6, MetStep, ReferenceStep
<1> QED BY <1>2, <1>4, <1>5, <1>6, <1>7 DEF SumInv

\* What depends on the points and on the coordinates only.
LEMMA Constantly ==
  ASSUME UNCHANGED <<group, form, ac>>
  PROVE  /\ Shapes' = Shapes /\ Inputs(group, form)' = Inputs(group, form)
         /\ \A n : Reference(n)' = Reference(n) /\ (MetEqualX(n)' <=> MetEqualX(n))
         /\ AffineOf(out)' = AffineOf(out') /\ (Valid(out)' <=> Valid(out'))
<1>1. group' = group /\ form' = form /\ ac' = ac
  OBVIOUS
<1>2. Shapes' = Shapes /\ Inputs(group, form)' = Inputs(group, form)
  BY <1>1 DEF Shapes, Inputs
<1>3. AffineOf(out)' = AffineOf(out') /\ (Valid(out)' <=> Valid(out'))
  BY <1>1 DEF AffineOf, Valid, InFp2
<1>4. ASSUME NEW k PROVE AffineOf(ac[k])' = AffineOf(ac[k]) /\ AffineOf(ac[1])' = AffineOf(ac[1])
  BY <1>1 DEF AffineOf, InFp2
<1>5. ASSUME NEW n PROVE Reference(n)' = Reference(n)
  BY <1>1 DEF Reference, AffineOf, InFp2
<1>6. ASSUME NEW n PROVE MetEqualX(n)' <=> MetEqualX(n)
  BY <1>4, <1>5 DEF MetEqualX
<1> QED BY <1>2, <1>3, <1>5, <1>6

\* What one addition of the n-th point does to the sum of those before it.
LEMMA AdditionKeeps ==
  ASSUME NEW n \in Nat \ {0}, NEW o, NEW b \in Shapes, Valid(b), b = ac[n + 1],
         out \in Shapes, IsSum(o, out, b),
         Valid(out) => ~MetEqualX(n) /\ AffineOf(out) = Reference(n),
         ~Valid(out) => MetEqualX(n)
  PROVE  /\ Valid(o) => ~MetEqualX(n + 1) /\ AffineOf(o) = Reference(n + 1)
         /\ ~Valid(o) => MetEqualX(n + 1)
<1>1. (n + 1) - 1 = n /\ (MetEqualX(n + 1) <=> MetEqualX(n) \/ Clash(n + 1))
  BY MetStep
<1>2. Reference(n + 1) = GroupAdd(Reference(n), AffineOf(b))
  BY ReferenceStep
<1>3. AffineOf(b) # Infinity
  BY AffineOfType
<1>4. CASE ~Valid(out)
  <2>1. ~Valid(o) /\ MetEqualX(n + 1)
    BY <1>1, <1>4 DEF IsSum
  <2> QED BY <2>1
<1>5. CASE Valid(out)
  <2>1. ~MetEqualX(n) /\ AffineOf(out) = Reference(n)
    BY <1>5
  <2>2. Reference(n) # Infinity
    BY <1>5, <2>1, AffineOfType
  <2>3. Clash(n + 1) <=> AffineOf(out).x = AffineOf(b).x
    BY <1>1, <2>1, <2>2 DEF Clash
  <2>4. CASE AffineOf(out).x = AffineOf(b).x
    <3>1. ~Valid(o) /\ MetEqualX(n + 1)
      BY <1>1, <1>5, <2>3, <2>4 DEF IsSum
    <3> QED BY <3>1
  <2>5. CASE AffineOf(out).x # AffineOf(b).x
    <3>1. Valid(o) /\ AffineOf(o) = ChordOf(AffineOf(out), AffineOf(b)) /\ ~MetEqualX(n + 1)
      BY <1>1, <1>5, <2>1, <2>3, <2>5 DEF IsSum
    <3>2. GroupAdd(AffineOf(out), AffineOf(b)) = ChordOf(AffineOf(out), AffineOf(b))
      BY <1>3, <2>1, <2>2, <2>5 DEF GroupAdd, ChordOf, Slope
    <3> QED BY <1>2, <2>1, <3>1, <3>2
  <2> QED BY <2>4, <2>5
<1> QED BY <1>4, <1>5

LEMMA SumInvAdd ==
  ASSUME SumInv, AddNext
  PROVE  SumInv'
<1>1. /\ status = "adding" /\ i <= Terms /\ i' = i + 1
      /\ group' = group /\ form' = form /\ ac' = ac
  BY DEF AddNext
<1>2. TypeOK /\ i \in 2 .. Terms + 1 /\ Terms \in Nat /\ out \in Shapes
  BY TermsAssumption DEF SumInv, TypeOK
<1>3. PICK n \in Nat \ {0} : n = i - 1
  BY <1>2
<1>4. n + 1 = i /\ i' - 1 = n + 1 /\ i \in 1 .. Terms /\ i' \in 2 .. Terms + 1
  BY <1>1, <1>2, <1>3
<1>5. PICK b : b = ac[i]
  OBVIOUS
<1>6. b \in Shapes /\ Valid(b) /\ b = ac[n + 1]
  <2>1. b \in Inputs(group, form)
    BY <1>2, <1>4, <1>5 DEF TypeOK
  <2> QED BY <1>2, <1>4, <1>5, <2>1, InputType DEF TypeOK
<1>7. /\ Valid(out) => ~MetEqualX(n) /\ AffineOf(out) = Reference(n)
      /\ ~Valid(out) => MetEqualX(n)
  BY <1>1, <1>3 DEF SumInv
<1>8. PICK s, r \in Fp : AddAffine(b, s, r) \/ AddJacobian(b, s) \/ AddProjective(b, s)
  BY <1>5 DEF AddNext
<1>9. \/ IsSum(out', out, b) /\ status' = status
      \/ /\ out' = out /\ status' \in {"zero_mask", "zero_divisor"} /\ Valid(out)
         /\ status' = "zero_divisor" => AffineOf(out).x = AffineOf(b).x
  BY <1>2, <1>6, <1>8, AffineStep, JacobianStep, ProjectiveStep
<1>10. /\ Shapes' = Shapes /\ Inputs(group, form)' = Inputs(group, form)
       /\ Reference(n + 1)' = Reference(n + 1) /\ (MetEqualX(n + 1)' <=> MetEqualX(n + 1))
       /\ AffineOf(out)' = AffineOf(out') /\ (Valid(out)' <=> Valid(out'))
  BY <1>1, Constantly
<1>11. Reference(i - 1)' = Reference(n + 1)' /\ (MetEqualX(i - 1)' <=> MetEqualX(n + 1)')
  BY <1>4
<1>12. ASSUME IsSum(out', out, b), status' = status
       PROVE  SumInv'
  <2>1. /\ Valid(out') => ~MetEqualX(n + 1) /\ AffineOf(out') = Reference(n + 1)
        /\ ~Valid(out') => MetEqualX(n + 1)
    BY <1>2, <1>6, <1>7, <1>12, AdditionKeeps
  <2>2. TypeOK'
    <3>1. out' \in Shapes
      BY <1>12 DEF IsSum
    <3> QED BY <1>1, <1>2, <1>4, <1>10, <1>12, <3>1 DEF TypeOK
  <2> QED BY <1>1, <1>10, <1>11, <1>12, <2>1, <2>2 DEF SumInv
<1>13. ASSUME out' = out, status' \in {"zero_mask", "zero_divisor"}, Valid(out),
              status' = "zero_divisor" => AffineOf(out).x = AffineOf(b).x
       PROVE  SumInv'
  <2>1. status' = "zero_divisor" => MetEqualX(n + 1)
    <3>1. ASSUME AffineOf(out).x = AffineOf(b).x PROVE Clash(n + 1)
      BY <1>3, <1>6, <1>7, <1>13, <3>1 DEF Clash
    <3> QED BY <1>13, <3>1, MetStep
  <2>2. TypeOK'
    BY <1>1, <1>2, <1>4, <1>10, <1>13 DEF TypeOK
  <2> QED BY <1>10, <1>11, <1>13, <2>1, <2>2 DEF SumInv
<1> QED BY <1>9, <1>12, <1>13

LEMMA SumInvKept ==
  ASSUME SumInv, [Next]_vars
  PROVE  SumInv'
<1>1. CASE AddNext
  BY <1>1, SumInvAdd
<1>2. ASSUME Finish \/ UNCHANGED vars
      PROVE  SumInv'
  <2>1. UNCHANGED <<group, form, ac, out, i>> /\ (status' = status \/ (status = "adding" /\ status' = "done"))
    BY <1>2 DEF Finish, vars
  <2>2. PICK n : n = i - 1
    OBVIOUS
  <2>3. /\ Shapes' = Shapes /\ Inputs(group, form)' = Inputs(group, form)
        /\ Reference(n)' = Reference(n) /\ (MetEqualX(n)' <=> MetEqualX(n))
        /\ AffineOf(out)' = AffineOf(out') /\ (Valid(out)' <=> Valid(out'))
    BY <2>1, Constantly
  <2>4. Reference(i - 1)' = Reference(n)' /\ (MetEqualX(i - 1)' <=> MetEqualX(n)') /\ out' = out
    BY <2>1, <2>2
  <2>5. TypeOK'
    BY <2>1, <2>3 DEF SumInv, TypeOK
  <2> QED BY <2>1, <2>2, <2>3, <2>4, <2>5 DEF SumInv
<1> QED BY <1>1, <1>2 DEF Next

(* Reachable states satisfy the invariant: the sum dstb_sign makes, and     *)
(* those the operations tests make in G1 and G2, follow the group's sum up  *)
(* to the first pair of points of one x, and never recover from it.         *)
THEOREM SumFollowsGroup ==
  Spec => []SumInv
<1>1. Init => SumInv
  BY SumInvInit
<1>2. SumInv /\ [Next]_vars => SumInv'
  BY SumInvKept
<1> QED BY <1>1, <1>2, PTL DEF Spec

(* A sum that came to an end with a non-zero Z is the sum of the points in  *)
(* the group: dstb_sign reveals no other signature, whatever the masks, the *)
(* coordinates and the scalings of the inputs.                              *)
THEOREM OnlyTheSum ==
  Spec => []SumIsRight
<1>1. SumInv => SumIsRight
  BY DEF SumInv, SumIsRight
<1> QED BY <1>1, SumFollowsGroup, PTL

(* Additions fail, by division_by_zero or by a Z that is 0 and stays 0,     *)
(* exactly when two points of one x met, apart from an unlucky mask.        *)
THEOREM FailureMeansEqualX ==
  Spec => []FailsOnlyAtEqualX
<1>1. SumInv => FailsOnlyAtEqualX
  BY DEF SumInv, TypeOK, FailsOnlyAtEqualX, Threw
<1> QED BY <1>1, SumFollowsGroup, PTL
=============================================================================
