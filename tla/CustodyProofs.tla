---------------------------- MODULE CustodyProofs ----------------------------
(***************************************************************************)
(* For any primes, sizes of keys and messages, number of parties and bits  *)
(* drawn: the pipeline of Custody computes what its names promise.  The    *)
(* first half is arithmetic: sums, remainders, binary digits, and what the *)
(* operations of OnlineOp compute on vectors of bits.  The second half is  *)
(* the pipeline, whose inductive invariant says what each variable holds.  *)
(***************************************************************************)
EXTENDS Custody, SequenceTheorems, WellFoundedInduction, TLAPS

-----------------------------------------------------------------------------
(***************************************************************************)
(* Recursive functions, and sums.                                          *)
(***************************************************************************)
(* Induction from m up to n.                                                *)
LEMMA UpTo ==
  ASSUME NEW m \in Int, NEW n \in Int, NEW S, m \in S,
         \A i \in m .. n : i # n /\ i \in S => i + 1 \in S
  PROVE  m .. n \subseteq S
<1> DEFINE D == {i \in Nat : m + i \in m .. n /\ m + i \notin S}
<1> SUFFICES ASSUME D # {} PROVE FALSE
  <2> SUFFICES ASSUME D = {}, NEW i \in m .. n PROVE i \in S
    OBVIOUS
  <2>1. i - m \in Nat /\ m + (i - m) = i
    OBVIOUS
  <2> QED BY <2>1
<1>1. D \in SUBSET Nat
  OBVIOUS
<1> HIDE DEF D
<1>2. PICK k \in D : \A i \in D : ~ (<<i, k>> \in OpToRel(<, Nat))
  BY <1>1, NatLessThanWellFounded, WFMin
<1>3. k \in Nat /\ m + k \in m .. n /\ m + k \notin S
  BY DEF D
<1>4. k # 0
  BY <1>3
<1>5. k - 1 \in Nat /\ k \in Nat /\ k - 1 < k /\ m + (k - 1) \in m .. n /\ m + (k - 1) # n
      /\ m + (k - 1) + 1 = m + k
  BY <1>3, <1>4
<1>6. k - 1 \notin D
  BY <1>2, <1>5 DEF OpToRel
<1>7. m + (k - 1) \in S
  BY <1>5, <1>6 DEF D
<1> QED BY <1>3, <1>5, <1>7

(* f starts at v and goes on by the steps s, which stay in D.               *)
Steps(s, D, n) == \A k \in 1 .. n : \A d \in D : s[k][d] \in D
Follows(f, D, v, s, n) == /\ f \in [0 .. n -> D] /\ f[0] = v
                          /\ \A k \in 1 .. n : f[k] = s[k][f[k - 1]]

(* A function can be built step by step.                                    *)
LEMMA Recursion ==
  ASSUME NEW D, NEW v \in D, NEW n \in Nat, NEW s, Steps(s, D, n)
  PROVE  \E f : Follows(f, D, v, s, n)
<1> DEFINE G == {m \in 0 .. n : \E f : Follows(f, D, v, s, m)}
<1>1. 0 \in G
  <2>1. PICK f : f = [i \in 0 .. 0 |-> v]
    OBVIOUS
  <2>2. f \in [0 .. 0 -> D] /\ f[0] = v /\ 0 \in 0 .. n
    BY <2>1
  <2>3. \A k \in 1 .. 0 : f[k] = s[k][f[k - 1]]
    OBVIOUS
  <2> QED BY <2>2, <2>3 DEF Follows
<1>2. ASSUME NEW m \in 0 .. n, m # n, m \in G PROVE m + 1 \in G
  <2>0. PICK f : Follows(f, D, v, s, m)
    BY <1>2
  <2>1. f \in [0 .. m -> D] /\ f[0] = v /\ \A k \in 1 .. m : f[k] = s[k][f[k - 1]]
    BY <2>0 DEF Follows
  <2>2. PICK M \in Nat : M = m + 1
    OBVIOUS
  <2>3. PICK d : d = s[M][f[m]]
    OBVIOUS
  <2>4. d \in D
    <3>1. f[m] \in D /\ M \in 1 .. n
      BY <1>2, <2>1, <2>2
    <3> QED BY <2>3, <3>1 DEF Steps
  <2>5. PICK g : g = [i \in 0 .. M |-> IF i = M THEN d ELSE f[i]]
    OBVIOUS
  <2>6. \A i \in 0 .. M : i # M => i \in 0 .. m
    BY <2>2
  <2>7. g \in [0 .. M -> D]
    BY <2>1, <2>4, <2>5, <2>6
  <2>8. g[0] = v
    BY <2>1, <2>2, <2>5
  <2>9. ASSUME NEW k \in 1 .. M PROVE g[k] = s[k][g[k - 1]]
    <3>1. CASE k = M
      <4>1. k - 1 \in 0 .. M /\ k - 1 # M /\ k - 1 = m /\ M \in 0 .. M
        BY <2>2, <3>1
      <4>2. g[k - 1] = f[m] /\ g[k] = d
        BY <2>5, <3>1, <4>1
      <4> QED BY <2>3, <3>1, <4>2
    <3>2. CASE k # M
      <4>1. k \in 1 .. m /\ k - 1 \in 0 .. M /\ k - 1 # M /\ k \in 0 .. M
        BY <2>2, <3>2
      <4>2. g[k - 1] = f[k - 1] /\ g[k] = f[k]
        BY <2>5, <3>2, <4>1
      <4> QED BY <2>1, <4>1, <4>2
    <3> QED BY <3>1, <3>2
  <2>10. M \in 0 .. n
    BY <1>2, <2>2
  <2>11. Follows(g, D, v, s, M)
    BY <2>7, <2>8, <2>9 DEF Follows
  <2> QED BY <2>2, <2>10, <2>11
<1> HIDE DEF G
<1>3. 0 .. n \subseteq G
  BY <1>1, <1>2, UpTo
<1>4. n \in G
  BY <1>3
<1> QED BY <1>4 DEF G

(* sum[k] is the sum of the first k of n numbers.                           *)
Sums(sum, v, n) == /\ sum \in [0 .. n -> Int] /\ sum[0] = 0
                   /\ \A k \in 1 .. n : sum[k] = sum[k - 1] + v[k]

LEMMA SumsExist ==
  ASSUME NEW n \in Nat, NEW v, \A k \in 1 .. n : v[k] \in Int
  PROVE  \E sum : Sums(sum, v, n)
<1>1. PICK s : s = [k \in 1 .. n |-> [d \in Int |-> d + v[k]]]
  OBVIOUS
<1>2. \A k \in 1 .. n : \A d \in Int : s[k][d] = d + v[k] /\ s[k][d] \in Int
  BY <1>1
<1>3. Steps(s, Int, n) /\ 0 \in Int
  BY <1>2 DEF Steps
<1>4. PICK f : Follows(f, Int, 0, s, n)
  BY <1>3, Recursion
<1>7. f \in [0 .. n -> Int] /\ f[0] = 0
  BY <1>4 DEF Follows
<1>8. ASSUME NEW k \in 1 .. n PROVE f[k] = f[k - 1] + v[k]
  <2>1. f[k - 1] \in Int
    BY <1>7
  <2> QED BY <1>2, <1>4, <2>1 DEF Follows
<1> QED BY <1>7, <1>8 DEF Sums

LEMMA SumsType ==
  ASSUME NEW n \in Nat, NEW v, NEW sum, Sums(sum, v, n)
  PROVE  /\ \A k \in 0 .. n : sum[k] \in Int
         /\ sum[0] = 0
         /\ \A k \in 1 .. n : sum[k] = sum[k - 1] + v[k]
BY DEF Sums

LEMMA SumIs ==
  ASSUME NEW n \in Nat, NEW v, DOMAIN v = 1 .. n, Len(v) = n, NEW sum, Sums(sum, v, n)
  PROVE  SumOf(v) = sum[n]
<1> DEFINE Rec(g) == g = [i \in 0 .. Len(v) |-> IF i = 0 THEN 0 ELSE g[i - 1] + v[i]]
<1>1. SumOf(v) = (CHOOSE g : Rec(g))[n]
  BY DEF SumOf
<1>2. Rec(sum)
  <2>1. sum \in [0 .. n -> Int] /\ \A k \in 0 .. n : sum[k] = IF k = 0 THEN 0 ELSE sum[k - 1] + v[k]
    <3>1. \A k \in 0 .. n : k # 0 => k \in 1 .. n
      OBVIOUS
    <3> QED BY <3>1 DEF Sums
  <2>2. sum = [i \in 0 .. n |-> IF i = 0 THEN 0 ELSE sum[i - 1] + v[i]]
    BY <2>1
  <2> QED BY <2>2
<1>3. PICK g : g = CHOOSE h : Rec(h)
  OBVIOUS
<1>4. Rec(g)
  BY <1>2, <1>3
<1>5. \A i \in 0 .. n : g[i] = IF i = 0 THEN 0 ELSE g[i - 1] + v[i]
  BY <1>4
<1> DEFINE E == {i \in 0 .. n : g[i] = sum[i]}
<1>6. 0 \in E
  BY <1>5 DEF Sums
<1>7. ASSUME NEW i \in 0 .. n, i # n, i \in E PROVE i + 1 \in E
  <2>1. i + 1 \in 0 .. n /\ i + 1 # 0 /\ (i + 1) - 1 = i /\ i + 1 \in 1 .. n
    BY <1>7
  <2>2. g[i + 1] = g[i] + v[i + 1] /\ sum[i + 1] = sum[i] + v[i + 1]
    BY <1>5, <2>1 DEF Sums
  <2> QED BY <1>7, <2>1, <2>2
<1> HIDE DEF E
<1>8. 0 .. n \subseteq E
  BY <1>6, <1>7, UpTo
<1>9. g[n] = sum[n]
  BY <1>8 DEF E
<1> QED BY <1>1, <1>3, <1>9

-----------------------------------------------------------------------------
(***************************************************************************)
(* Remainders.                                                             *)
(***************************************************************************)
LEMMA Division ==
  ASSUME NEW q \in Nat, q > 0, NEW a \in Int
  PROVE  a = (a \div q) * q + (a % q) /\ a \div q \in Int /\ a % q \in 0 .. q - 1 /\ a % q \in Int
OBVIOUS

(* Remainders that differ by a multiple of q are equal.                     *)
LEMMA Unique ==
  ASSUME NEW q \in Nat, NEW r \in 0 .. q - 1, NEW s \in 0 .. q - 1, NEW k \in Int, r = s + k * q
  PROVE  r = s /\ k = 0
<1>1. q > 0 /\ r \in Int /\ s \in Int /\ r < q /\ s < q /\ 0 <= r /\ 0 <= s
  OBVIOUS
<1>2. k * q < q /\ -q < k * q
  BY <1>1
<1>3. CASE k >= 1
  <2>1. k * q >= q
    BY <1>1, <1>3
  <2> QED BY <1>1, <1>2, <2>1
<1>4. CASE k <= -1
  <2>1. k * q <= -q
    BY <1>1, <1>4
  <2> QED BY <1>1, <1>2, <2>1
<1>5. CASE k = 0
  BY <1>1, <1>5
<1> QED BY <1>3, <1>4, <1>5

(* Quotient and remainder are the only ones.                                *)
LEMMA DivIs ==
  ASSUME NEW q \in Nat, q > 0, NEW k \in Int, NEW r \in 0 .. q - 1, NEW a \in Int, a = k * q + r
  PROVE  a \div q = k /\ a % q = r
<1>1. PICK m \in Int : m = a \div q
  BY Division
<1>2. PICK s \in 0 .. q - 1 : s = a % q
  BY Division
<1>3. a = m * q + s
  BY <1>1, <1>2, Division
<1>4. PICK h \in Int : h = k - m
  OBVIOUS
<1>5. s = r + h * q
  <2>1. PICK x \in Int : x = k * q
    OBVIOUS
  <2>2. PICK y \in Int : y = m * q
    OBVIOUS
  <2>3. r \in Int /\ s \in Int
    OBVIOUS
  <2>4. s = r + (x - y)
    BY <1>3, <2>1, <2>2, <2>3
  <2>5. k * q - m * q = h * q
    BY <1>4
  <2> QED BY <2>1, <2>2, <2>4, <2>5
<1>6. s = r /\ h = 0
  BY <1>5, Unique
<1> QED BY <1>1, <1>2, <1>4, <1>6

(* Numbers that differ by a multiple of q have one remainder.               *)
LEMMA Congruent ==
  ASSUME NEW q \in Nat, q > 0, NEW a \in Int, NEW b \in Int, NEW k \in Int, a = b + k * q
  PROVE  a % q = b % q
<1>1. PICK n \in Int : n = b \div q
  BY Division
<1>2. PICK s \in 0 .. q - 1 : s = b % q
  BY Division
<1>3. b = n * q + s
  BY <1>1, <1>2, Division
<1>4. PICK m \in Int : m = n + k
  OBVIOUS
<1>5. a = m * q + s
  <2>1. PICK x \in Int : x = n * q
    OBVIOUS
  <2>2. PICK y \in Int : y = k * q
    OBVIOUS
  <2>3. s \in Int
    OBVIOUS
  <2>4. a = x + y + s
    BY <1>3, <2>1, <2>2, <2>3
  <2>5. n * q + k * q = m * q
    BY <1>4
  <2> QED BY <2>1, <2>2, <2>3, <2>4, <2>5
<1>6. a % q = s
  BY <1>5, DivIs
<1> QED BY <1>2, <1>6

LEMMA Small ==
  ASSUME NEW q \in Nat, NEW a \in 0 .. q - 1
  PROVE  a % q = a /\ a \in Int
OBVIOUS

(* The remainder may be taken of a summand first,                           *)
LEMMA ModAdd ==
  ASSUME NEW q \in Nat, q > 0, NEW a \in Int, NEW b \in Int
  PROVE  (a + (b % q)) % q = (a + b) % q
<1>1. PICK r \in Int : r = b % q
  BY Division
<1>2. PICK k \in Int : b = k * q + r
  BY <1>1, Division
<1>3. a + b = (a + r) + k * q /\ a + b \in Int /\ a + r \in Int
  BY <1>2
<1>4. (a + b) % q = (a + r) % q
  BY <1>3, Congruent
<1> QED BY <1>1, <1>4

(* and of a factor.                                                         *)
LEMMA ModMul ==
  ASSUME NEW q \in Nat, q > 0, NEW a \in Int, NEW b \in Int
  PROVE  (a * (b % q)) % q = (a * b) % q
<1>1. PICK r \in Int : r = b % q
  BY Division
<1>2. PICK k \in Int : b = k * q + r
  BY <1>1, Division
<1>3. PICK h \in Int : h = a * k
  OBVIOUS
<1>4. a * b = a * r + h * q /\ a * b \in Int /\ a * r \in Int
  BY <1>2, <1>3
<1>5. (a * b) % q = (a * r) % q
  BY <1>4, Congruent
<1> QED BY <1>1, <1>5

(* Rows of numbers with equal remainders have sums with equal remainders.   *)
LEMMA SumsCongruent ==
  ASSUME NEW q \in Nat, q > 0, NEW n \in Nat, NEW v, NEW w, NEW r, NEW s, Sums(r, v, n), Sums(s, w, n),
         \A k \in 1 .. n : v[k] \in Int /\ w[k] \in Int /\ v[k] % q = w[k] % q
  PROVE  r[n] % q = s[n] % q
<1> DEFINE E == {k \in 0 .. n : r[k] % q = s[k] % q}
<1>1. 0 \in E
  BY DEF Sums
<1>2. ASSUME NEW i \in 0 .. n, i # n, i \in E PROVE i + 1 \in E
  <2>1. PICK j \in 1 .. n : j = i + 1
    BY <1>2
  <2>2. PICK a \in Int : a = r[i]
    BY DEF Sums
  <2>3. PICK b \in Int : b = s[i]
    BY DEF Sums
  <2>4. PICK c \in Int : c = v[j]
    OBVIOUS
  <2>5. PICK d \in Int : d = w[j]
    OBVIOUS
  <2>6. r[j] = a + c /\ s[j] = b + d
    <3>1. j - 1 = i
      BY <2>1
    <3> QED BY <2>2, <2>3, <2>4, <2>5, <3>1 DEF Sums
  <2>7. a % q = b % q /\ c % q = d % q
    BY <1>2, <2>2, <2>3, <2>4, <2>5
  <2>8. (a + c) % q = (b + d) % q
    <3>1. (a + (c % q)) % q = (a + c) % q /\ (d + (a % q)) % q = (d + a) % q
      BY ModAdd
    <3>2. (a + (d % q)) % q = (a + d) % q /\ (d + (b % q)) % q = (d + b) % q
      BY ModAdd
    <3>3. a + d = d + a /\ d + b = b + d
      OBVIOUS
    <3> QED BY <2>7, <3>1, <3>2, <3>3
  <2> QED BY <2>1, <2>6, <2>8
<1> HIDE DEF E
<1>3. 0 .. n \subseteq E
  BY <1>1, <1>2, UpTo
<1>4. n \in E
  BY <1>3
<1> QED BY <1>4 DEF E

-----------------------------------------------------------------------------
(***************************************************************************)
(* Powers of two, and binary digits.                                       *)
(***************************************************************************)
(* pow[k] is 2 to the k, up to n.                                           *)
Doubles(pow, n) == /\ pow \in [0 .. n -> Nat \ {0}] /\ pow[0] = 1
                   /\ \A k \in 1 .. n : pow[k] = 2 * pow[k - 1]

LEMMA DoublesExist ==
  ASSUME NEW n \in Nat
  PROVE  \E pow : Doubles(pow, n)
<1>1. PICK s : s = [k \in 1 .. n |-> [d \in Nat \ {0} |-> 2 * d]]
  OBVIOUS
<1>2. \A k \in 1 .. n : \A d \in Nat \ {0} : s[k][d] = 2 * d /\ s[k][d] \in Nat \ {0}
  BY <1>1
<1>3. PICK D : D = Nat \ {0}
  OBVIOUS
<1>4. Steps(s, D, n) /\ 1 \in D
  BY <1>2, <1>3 DEF Steps
<1>5. PICK f : Follows(f, D, 1, s, n)
  BY <1>4, Recursion
<1>6. f \in [0 .. n -> Nat \ {0}] /\ f[0] = 1
  BY <1>3, <1>5 DEF Follows
<1>7. ASSUME NEW k \in 1 .. n PROVE f[k] = 2 * f[k - 1]
  <2>1. f[k - 1] \in Nat \ {0}
    BY <1>6
  <2> QED BY <1>2, <1>5, <2>1 DEF Follows
<1> QED BY <1>6, <1>7 DEF Doubles

LEMMA Pow2Is ==
  ASSUME NEW n \in Nat, NEW pow, Doubles(pow, n)
  PROVE  Pow2(n) = pow[n]
<1> DEFINE Rec(g) == g = [i \in 0 .. n |-> IF i = 0 THEN 1 ELSE 2 * g[i - 1]]
<1>1. Pow2(n) = (CHOOSE g : Rec(g))[n]
  BY DEF Pow2
<1>2. Rec(pow)
  <2>1. \A k \in 0 .. n : k # 0 => k \in 1 .. n
    OBVIOUS
  <2>2. pow \in [0 .. n -> Nat \ {0}]
        /\ \A k \in 0 .. n : pow[k] = IF k = 0 THEN 1 ELSE 2 * pow[k - 1]
    BY <2>1 DEF Doubles
  <2> QED BY <2>2
<1>3. PICK g : g = CHOOSE h : Rec(h)
  OBVIOUS
<1>4. Rec(g)
  BY <1>2, <1>3
<1>5. \A i \in 0 .. n : g[i] = IF i = 0 THEN 1 ELSE 2 * g[i - 1]
  BY <1>4
<1> DEFINE E == {i \in 0 .. n : g[i] = pow[i]}
<1>6. 0 \in E
  BY <1>5 DEF Doubles
<1>7. ASSUME NEW i \in 0 .. n, i # n, i \in E PROVE i + 1 \in E
  <2>1. i + 1 \in 0 .. n /\ i + 1 # 0 /\ (i + 1) - 1 = i /\ i + 1 \in 1 .. n
    BY <1>7
  <2>2. g[i + 1] = 2 * g[i] /\ pow[i + 1] = 2 * pow[i]
    BY <1>5, <2>1 DEF Doubles
  <2> QED BY <1>7, <2>1, <2>2
<1> HIDE DEF E
<1>8. 0 .. n \subseteq E
  BY <1>6, <1>7, UpTo
<1>9. g[n] = pow[n]
  BY <1>8 DEF E
<1> QED BY <1>1, <1>3, <1>9

LEMMA Pow2Step ==
  ASSUME NEW n \in Nat
  PROVE  /\ Pow2(n) \in Nat /\ Pow2(n) > 0 /\ Pow2(n) \in Int
         /\ Pow2(n + 1) = 2 * Pow2(n)
         /\ n > 0 => Pow2(n) = 2 * Pow2(n - 1)
<1> DEFINE Good(k) == Pow2(k) \in Nat /\ Pow2(k) > 0 /\ Pow2(k + 1) = 2 * Pow2(k)
<1>1. ASSUME NEW k \in Nat PROVE Good(k)
  <2>1. PICK m \in Nat : m = k + 1
    OBVIOUS
  <2>2. PICK pow : Doubles(pow, m)
    BY DoublesExist
  <2>3. PICK f : f = [i \in 0 .. k |-> pow[i]]
    OBVIOUS
  <2>4. Doubles(f, k) /\ f[k] = pow[k]
    <3>1. \A i \in 0 .. k : i \in 0 .. m /\ f[i] = pow[i] /\ pow[i] \in Nat \ {0}
      BY <2>1, <2>2, <2>3 DEF Doubles
    <3>2. \A i \in 1 .. k : i \in 1 .. m /\ i - 1 \in 0 .. k /\ pow[i] = 2 * pow[i - 1]
      BY <2>1, <2>2 DEF Doubles
    <3>3. f \in [0 .. k -> Nat \ {0}] /\ f[0] = 1
      BY <2>2, <2>3, <3>1 DEF Doubles
    <3>4. \A i \in 1 .. k : f[i] = 2 * f[i - 1]
      BY <3>1, <3>2
    <3> QED BY <3>1, <3>3, <3>4 DEF Doubles
  <2>5. Pow2(k) = pow[k] /\ Pow2(m) = pow[m]
    BY <2>2, <2>4, Pow2Is
  <2>6. pow[m] = 2 * pow[k] /\ pow[k] \in Nat \ {0}
    <3>1. m \in 1 .. m /\ m - 1 = k /\ k \in 0 .. m
      BY <2>1
    <3> QED BY <2>2, <3>1 DEF Doubles
  <2>7. Pow2(k) \in Nat /\ Pow2(k) > 0 /\ Pow2(m) = 2 * Pow2(k)
    BY <2>5, <2>6
  <2> QED BY <2>1, <2>7
<1> HIDE DEF Good
<1>2. Good(n) /\ (n > 0 => Good(n - 1))
  <2>1. n > 0 => n - 1 \in Nat
    OBVIOUS
  <2> QED BY <1>1, <2>1
<1>3. n > 0 => Pow2(n) = 2 * Pow2(n - 1)
  <2> SUFFICES ASSUME n > 0 PROVE Pow2(n) = 2 * Pow2(n - 1)
    OBVIOUS
  <2>1. PICK m \in Nat : m = n - 1
    OBVIOUS
  <2>2. Good(m) /\ m + 1 = n
    BY <1>2, <2>1
  <2> QED BY <2>1, <2>2 DEF Good
<1>4. Pow2(n) \in Nat /\ Pow2(n) > 0 /\ Pow2(n + 1) = 2 * Pow2(n)
  BY <1>2 DEF Good
<1> QED BY <1>3, <1>4

LEMMA Pow2Zero == Pow2(0) = 1 /\ Pow2(1) = 2
<1>1. PICK f : f = [i \in 0 .. 0 |-> 1]
  OBVIOUS
<1>2. Doubles(f, 0) /\ f[0] = 1
  BY <1>1 DEF Doubles
<1>3. Pow2(0) = 1
  BY <1>2, Pow2Is
<1>4. PICK z \in Nat : z = 0
  OBVIOUS
<1>5. Pow2(z + 1) = 2 * Pow2(z)
  BY Pow2Step
<1>6. z + 1 = 1
  BY <1>4
<1> QED BY <1>3, <1>4, <1>5, <1>6

LEMMA Pow2Plus ==
  ASSUME NEW m \in Nat, NEW n \in Nat
  PROVE  Pow2(m + n) = Pow2(m) * Pow2(n)
<1> DEFINE E == {k \in 0 .. n : Pow2(m + k) = Pow2(m) * Pow2(k)}
<1>0. PICK a \in Nat : a = Pow2(m)
  BY Pow2Step
<1>1. 0 \in E
  <2>1. a * 1 = a /\ m + 0 = m
    OBVIOUS
  <2> QED BY <1>0, <2>1, Pow2Zero
<1>2. ASSUME NEW i \in 0 .. n, i # n, i \in E PROVE i + 1 \in E
  <2>1. PICK j \in Nat : j = i
    OBVIOUS
  <2>2. PICK b \in Nat : b = Pow2(j)
    BY Pow2Step
  <2>3. Pow2(j + 1) = 2 * b
    BY <2>2, Pow2Step
  <2>4. PICK h \in Nat : h = m + j
    OBVIOUS
  <2>5. Pow2(h) = a * b
    BY <1>0, <1>2, <2>1, <2>2, <2>4
  <2>6. Pow2(h + 1) = 2 * Pow2(h)
    BY Pow2Step
  <2>7. h + 1 = m + (j + 1)
    BY <2>4
  <2>8. a * (2 * b) = 2 * (a * b)
    OBVIOUS
  <2>9. Pow2(m + (j + 1)) = a * Pow2(j + 1)
    BY <2>3, <2>5, <2>6, <2>7, <2>8
  <2>10. j + 1 \in 0 .. n
    BY <1>2, <2>1
  <2> QED BY <1>0, <2>1, <2>9, <2>10
<1> HIDE DEF E
<1>3. 0 .. n \subseteq E
  BY <1>1, <1>2, UpTo
<1>4. n \in E
  BY <1>3
<1> QED BY <1>4 DEF E

(* Rows of bits.                                                            *)
BitRow(n) == [1 .. n -> {0, 1}]

Digit(x, i) == (x \div Pow2(i - 1)) % 2

(* The numbers that Value and B2A add up.                                   *)
Weighted(bits) == [i \in DOMAIN bits |-> bits[i] * Pow2(i - 1)]

LEMMA RowLength ==
  ASSUME NEW n \in Nat, NEW a, DOMAIN a = 1 .. n, NEW S, a \in [1 .. n -> S]
  PROVE  Len(a) = n
OBVIOUS

(* One digit more.                                                          *)
LEMMA Halving ==
  ASSUME NEW d \in Nat, d > 0, NEW x \in Nat
  PROVE  /\ (x \div d) % 2 \in {0, 1}
         /\ x % (2 * d) = (x % d) + ((x \div d) % 2) * d
<1>1. PICK q \in Int : q = x \div d
  BY Division
<1>2. PICK r \in 0 .. d - 1 : r = x % d
  BY Division
<1>3. PICK h \in Int : h = q \div 2
  OBVIOUS
<1>4. PICK b \in {0, 1} : b = q % 2
  OBVIOUS
<1>5. x = q * d + r
  BY <1>1, <1>2, Division
<1>6. q = 2 * h + b
  BY <1>3, <1>4
<1>7. PICK e \in Nat : e = 2 * d
  OBVIOUS
<1>8. PICK t \in Nat : t = r + b * d
  <2>1. r \in Nat /\ b \in Nat
    OBVIOUS
  <2>2. b * d \in Nat
    BY <2>1
  <2> QED BY <2>1, <2>2
<1>9. t \in 0 .. e - 1
  <2>1. CASE b = 0
    BY <1>7, <1>8, <2>1
  <2>2. CASE b = 1
    BY <1>7, <1>8, <2>2
  <2> QED BY <2>1, <2>2
<1>10. x = h * e + t
  <2>1. q * d = h * (2 * d) + b * d
    BY <1>6
  <2>2. PICK y \in Int : y = h * (2 * d)
    OBVIOUS
  <2>3. PICK z \in Int : z = b * d
    OBVIOUS
  <2> QED BY <1>5, <1>7, <1>8, <2>1, <2>2, <2>3
<1>11. x % e = t
  BY <1>7, <1>9, <1>10, DivIs
<1> QED BY <1>1, <1>2, <1>4, <1>7, <1>8, <1>11

LEMMA DigitIs ==
  ASSUME NEW x \in Nat, NEW i \in Nat, i > 0
  PROVE  Digit(x, i) \in {0, 1} /\ x % Pow2(i) = (x % Pow2(i - 1)) + Digit(x, i) * Pow2(i - 1)
<1>1. PICK k \in Nat : k = i - 1
  OBVIOUS
<1>2. PICK d \in Nat : d = Pow2(k) /\ d > 0
  BY Pow2Step
<1>3. Pow2(i) = 2 * d
  BY <1>1, <1>2, Pow2Step
<1> QED BY <1>1, <1>2, <1>3, Halving DEF Digit

LEMMA DecomposeIs ==
  ASSUME NEW x \in Nat, NEW n \in Nat
  PROVE  /\ Decompose(x, n) \in BitRow(n)
         /\ \A i \in 1 .. n : Decompose(x, n)[i] = Digit(x, i)
         /\ Decompose(x, n) = [i \in 1 .. n |-> Digit(x, i)]
<1>1. \A i \in 1 .. n : Digit(x, i) \in {0, 1}
  BY DigitIs
<1>2. Decompose(x, n) = [i \in 1 .. n |-> Digit(x, i)]
  BY DEF Decompose, Digit
<1> QED BY <1>1, <1>2 DEF BitRow

LEMMA WeightedIs ==
  ASSUME NEW n \in Nat, NEW a \in BitRow(n)
  PROVE  /\ DOMAIN Weighted(a) = 1 .. n /\ Len(Weighted(a)) = n
         /\ \A i \in 1 .. n : Weighted(a)[i] = a[i] * Pow2(i - 1) /\ Weighted(a)[i] \in Nat
         /\ Value(a) = SumOf(Weighted(a))
<1>1. DOMAIN a = 1 .. n
  BY DEF BitRow
<1>2. \A i \in 1 .. n : a[i] * Pow2(i - 1) \in Nat
  <2> SUFFICES ASSUME NEW i \in 1 .. n PROVE a[i] * Pow2(i - 1) \in Nat
    OBVIOUS
  <2>1. i - 1 \in Nat /\ a[i] \in {0, 1}
    BY DEF BitRow
  <2>2. PICK d \in Nat : d = Pow2(i - 1)
    BY <2>1, Pow2Step
  <2>3. 0 * d \in Nat /\ 1 * d \in Nat
    OBVIOUS
  <2> QED BY <2>1, <2>2, <2>3
<1>3. Weighted(a) = [i \in 1 .. n |-> a[i] * Pow2(i - 1)]
  BY <1>1 DEF Weighted
<1>4. Weighted(a) \in [1 .. n -> Nat]
  BY <1>2, <1>3
<1>5. Len(Weighted(a)) = n
  BY <1>4
<1>6. Value(a) = SumOf(Weighted(a))
  BY DEF Value, Weighted
<1> QED BY <1>2, <1>3, <1>5, <1>6

(* The digits of x make up x again.                                         *)
LEMMA DigitsAdd ==
  ASSUME NEW x \in Nat, NEW n \in Nat, NEW a \in BitRow(n), \A i \in 1 .. n : a[i] = Digit(x, i)
  PROVE  Sums([i \in 0 .. n |-> x % Pow2(i)], Weighted(a), n)
<1>1. PICK s : s = [i \in 0 .. n |-> x % Pow2(i)]
  OBVIOUS
<1>2. \A i \in 0 .. n : x % Pow2(i) \in Int
  BY Pow2Step, Division
<1>3. s \in [0 .. n -> Int]
  BY <1>1, <1>2
<1>4. s[0] = 0
  <2>1. x % 1 = 0
    OBVIOUS
  <2> QED BY <1>1, <2>1, Pow2Zero
<1>5. ASSUME NEW i \in 1 .. n PROVE s[i] = s[i - 1] + Weighted(a)[i]
  <2>1. i - 1 \in 0 .. n /\ i \in 0 .. n /\ i \in Nat /\ i > 0
    OBVIOUS
  <2>2. x % Pow2(i) = (x % Pow2(i - 1)) + Digit(x, i) * Pow2(i - 1)
    BY <2>1, DigitIs
  <2>3. Weighted(a)[i] = Digit(x, i) * Pow2(i - 1)
    BY WeightedIs
  <2> QED BY <1>1, <2>1, <2>2, <2>3
<1> QED BY <1>1, <1>3, <1>4, <1>5 DEF Sums

LEMMA ValueOfDigits ==
  ASSUME NEW x \in Nat, NEW n \in Nat
  PROVE  Value(Decompose(x, n)) = x % Pow2(n)
<1>1. PICK a : a = Decompose(x, n)
  OBVIOUS
<1>2. a \in BitRow(n) /\ \A i \in 1 .. n : a[i] = Digit(x, i)
  BY <1>1, DecomposeIs
<1>3. PICK s : s = [i \in 0 .. n |-> x % Pow2(i)]
  OBVIOUS
<1>4. Sums(s, Weighted(a), n)
  BY <1>2, <1>3, DigitsAdd
<1>5. SumOf(Weighted(a)) = s[n]
  BY <1>2, <1>4, WeightedIs, SumIs
<1> QED BY <1>1, <1>2, <1>3, <1>5, WeightedIs

(* The first i bits of a row stand for a number below 2 to the i.           *)
LEMMA PrefixValue ==
  ASSUME NEW n \in Nat, NEW a \in BitRow(n), NEW s, Sums(s, Weighted(a), n)
  PROVE  /\ \A i \in 0 .. n : s[i] \in Nat /\ s[i] < Pow2(i)
         /\ s[0] = 0
         /\ \A i \in 1 .. n : s[i] = s[i - 1] + a[i] * Pow2(i - 1)
<1>0. \A i \in 1 .. n : s[i] = s[i - 1] + a[i] * Pow2(i - 1) /\ a[i] \in {0, 1}
  BY WeightedIs DEF Sums, BitRow
<1> DEFINE E == {i \in 0 .. n : s[i] \in Nat /\ s[i] < Pow2(i)}
<1>1. 0 \in E
  BY Pow2Zero DEF Sums
<1>2. ASSUME NEW i \in 0 .. n, i # n, i \in E PROVE i + 1 \in E
  <2>1. PICK j \in 1 .. n : j = i + 1
    BY <1>2
  <2>2. PICK d \in Nat : d = Pow2(i) /\ Pow2(j) = 2 * d
    BY <2>1, Pow2Step
  <2>3. PICK c \in Nat : c = s[i] /\ c < d
    BY <1>2, <2>2
  <2>4. s[j] = c + a[j] * d
    <3>1. j - 1 = i
      BY <2>1
    <3> QED BY <1>0, <2>2, <2>3, <3>1
  <2>5. CASE a[j] = 0
    BY <2>1, <2>2, <2>3, <2>4, <2>5
  <2>6. CASE a[j] = 1
    BY <2>1, <2>2, <2>3, <2>4, <2>6
  <2> QED BY <1>0, <2>5, <2>6
<1> HIDE DEF E
<1>3. 0 .. n \subseteq E
  BY <1>1, <1>2, UpTo
<1>4. \A i \in 0 .. n : s[i] \in Nat /\ s[i] < Pow2(i)
  BY <1>3 DEF E
<1> QED BY <1>0, <1>4 DEF Sums

(* The further bits add a multiple of 2 to the i.                           *)
LEMMA PrefixMore ==
  ASSUME NEW n \in Nat, NEW a \in BitRow(n), NEW s, Sums(s, Weighted(a), n), NEW i \in 0 .. n
  PROVE  \E t \in Nat : s[n] = s[i] + t * Pow2(i)
<1> DEFINE E == {j \in i .. n : \E t \in Nat : s[j] = s[i] + t * Pow2(i)}
<1>0. PICK d \in Nat : d = Pow2(i) /\ d > 0
  BY Pow2Step
<1>1. i \in E
  <2>1. s[i] \in Nat
    BY PrefixValue
  <2>2. s[i] = s[i] + 0 * d
    BY <2>1
  <2> QED BY <1>0, <2>2
<1>2. ASSUME NEW j \in i .. n, j # n, j \in E PROVE j + 1 \in E
  <2>1. PICK t \in Nat : s[j] = s[i] + t * Pow2(i)
    BY <1>2
  <2>2. PICK k \in 1 .. n : k = j + 1
    BY <1>2
  <2>3. PICK m \in Nat : m = j - i
    OBVIOUS
  <2>4. PICK f \in Nat : f = Pow2(m)
    BY Pow2Step
  <2>5. Pow2(j) = d * f
    <3>1. i + m = j /\ i \in Nat
      BY <2>3
    <3> QED BY <1>0, <2>4, <3>1, Pow2Plus
  <2>6. s[k] = s[j] + a[k] * Pow2(j) /\ a[k] \in {0, 1}
    <3>1. k - 1 = j
      BY <2>2
    <3> QED BY <3>1, PrefixValue DEF BitRow
  <2>7. PICK u \in Nat : u = t + a[k] * f
    <3>1. CASE a[k] = 0
      BY <3>1
    <3>2. CASE a[k] = 1
      BY <3>2
    <3> QED BY <2>6, <3>1, <3>2
  <2>8. PICK c \in Nat : c = s[i]
    BY PrefixValue
  <2>9. s[k] = c + u * d
    <3>1. s[j] = c + t * d
      BY <1>0, <2>1, <2>8
    <3>2. CASE a[k] = 0
      BY <2>5, <2>6, <2>7, <3>1, <3>2
    <3>3. CASE a[k] = 1
      <4>1. u = t + f
        BY <2>7, <3>3
      <4>2. s[k] = c + t * d + d * f
        BY <2>5, <2>6, <3>1, <3>3
      <4>3. (t + f) * d = t * d + d * f
        OBVIOUS
      <4> QED BY <4>1, <4>2, <4>3
    <3> QED BY <2>6, <3>2, <3>3
  <2>10. k \in i .. n
    BY <2>2
  <2>11. k \in E
    BY <1>0, <2>8, <2>9, <2>10
  <2> QED BY <2>2, <2>11
<1> HIDE DEF E
<1>3. i .. n \subseteq E
  BY <1>1, <1>2, UpTo
<1>4. n \in E
  BY <1>3
<1> QED BY <1>4 DEF E

(* The bits of a row are the digits of its value.                           *)
LEMMA BitsAreDigits ==
  ASSUME NEW n \in Nat, NEW a \in BitRow(n)
  PROVE  Value(a) \in 0 .. Pow2(n) - 1 /\ Value(a) \in Nat /\ a = Decompose(Value(a), n)
<1>1. PICK s : Sums(s, Weighted(a), n)
  <2>1. \A i \in 1 .. n : Weighted(a)[i] \in Int
    BY WeightedIs
  <2> QED BY <2>1, SumsExist
<1>2. Value(a) = s[n]
  BY <1>1, WeightedIs, SumIs
<1>3. PICK x \in Nat : x = s[n] /\ x < Pow2(n)
  BY <1>1, PrefixValue
<1>4. ASSUME NEW i \in 1 .. n PROVE a[i] = Digit(x, i)
  <2>1. PICK k \in 0 .. n : k = i - 1
    OBVIOUS
  <2>2. PICK t \in Nat : x = s[i] + t * Pow2(i)
    BY <1>1, <1>3, PrefixMore
  <2>3. PICK d \in Nat : d = Pow2(k) /\ d > 0 /\ Pow2(i) = 2 * d
    BY <2>1, Pow2Step
  <2>4. PICK c \in 0 .. d - 1 : c = s[k]
    BY <1>1, <2>3, PrefixValue
  <2>5. s[i] = c + a[i] * d /\ a[i] \in {0, 1}
    BY <1>1, <2>1, <2>3, <2>4, PrefixValue DEF BitRow
  <2>6. PICK b \in {0, 1} : b = a[i]
    BY <2>5
  <2>7. PICK q \in Int : q = 2 * t + b
    OBVIOUS
  <2>8. x = q * d + c
    <3>1. x = c + b * d + t * (2 * d)
      BY <2>2, <2>3, <2>5, <2>6
    <3>2. (2 * t + b) * d = b * d + t * (2 * d)
      OBVIOUS
    <3>3. c \in Int /\ b * d \in Int /\ t * (2 * d) \in Int
      OBVIOUS
    <3> QED BY <2>7, <3>1, <3>2, <3>3
  <2>9. x \div d = q
    BY <2>3, <2>8, DivIs
  <2>10. q % 2 = b
    BY <2>7
  <2> QED BY <2>1, <2>3, <2>6, <2>9, <2>10 DEF Digit
<1>5. a = Decompose(x, n)
  <2>1. a = [i \in 1 .. n |-> Digit(x, i)]
    BY <1>4 DEF BitRow
  <2> QED BY <2>1, DecomposeIs
<1>6. x \in 0 .. Pow2(n) - 1
  BY <1>3, Pow2Step
<1> QED BY <1>2, <1>3, <1>5, <1>6

(* Only the remainder modulo 2 to the n matters to the first n digits.      *)
LEMMA DigitsOfRemainder ==
  ASSUME NEW x \in Nat, NEW n \in Nat, NEW a \in BitRow(n), Value(a) = x % Pow2(n)
  PROVE  a = Decompose(x, n)
<1>1. PICK b \in BitRow(n) : b = Decompose(x, n)
  BY DecomposeIs
<1>2. Value(b) = Value(a)
  BY <1>1, ValueOfDigits
<1>3. a = Decompose(Value(a), n) /\ b = Decompose(Value(b), n)
  BY BitsAreDigits
<1> QED BY <1>1, <1>2, <1>3

-----------------------------------------------------------------------------
(***************************************************************************)
(* Operations on bits.                                                     *)
(***************************************************************************)
LEMMA BitOps ==
  ASSUME NEW p \in Nat, p > 1, NEW a \in {0, 1}, NEW b \in {0, 1}
  PROVE  /\ Xor(p, a, b) = IF a = b THEN 0 ELSE 1
         /\ Or(p, a, b) = IF a = 1 \/ b = 1 THEN 1 ELSE 0
         /\ Mul(p, a, b) = IF a = 1 /\ b = 1 THEN 1 ELSE 0
         /\ a >= b => Sub(p, a, b) = a - b
<1>1. 0 % p = 0 /\ 1 % p = 1
  OBVIOUS
<1>2. ((2 % p) - 1) % p = 1
  <2>1. CASE p = 2
    <3>1. PICK t \in Int : t = 0 - 1
      OBVIOUS
    <3>2. t % 2 = 1 /\ 2 % 2 = 0
      <4>1. PICK q \in Nat : q = 2
        OBVIOUS
      <4>2. PICK r \in 0 .. q - 1 : r = 1
        BY <4>1
      <4>3. t = t * q + r
        BY <3>1, <4>1, <4>2
      <4>4. t % q = r
        BY <4>1, <4>3, DivIs
      <4> QED BY <4>1, <4>2, <4>4
    <3> QED BY <2>1, <3>1, <3>2
  <2>2. CASE p > 2
    <3>1. 2 % p = 2
      BY <2>2
    <3> QED BY <1>1, <3>1
  <2> QED BY <2>1, <2>2
<1>3. CASE a = 0 /\ b = 0
  BY <1>1, <1>3 DEF Xor, Or, Mul, Sub, Add
<1>4. CASE a = 0 /\ b = 1
  BY <1>1, <1>4 DEF Xor, Or, Mul, Sub, Add
<1>5. CASE a = 1 /\ b = 0
  BY <1>1, <1>5 DEF Xor, Or, Mul, Sub, Add
<1>6. CASE a = 1 /\ b = 1
  <2>1. Add(p, a, b) = 2 % p /\ Mul(p, a, b) = 1
    BY <1>1, <1>6 DEF Add, Mul
  <2>2. PICK t : t = 2 % p
    OBVIOUS
  <2>3. Sub(p, t, 1) = 1
    BY <1>2, <2>2 DEF Sub
  <2>4. Sub(p, 1, 1) = 0
    <3>1. 1 - 1 = 0
      OBVIOUS
    <3> QED BY <1>1, <3>1 DEF Sub
  <2> QED BY <1>6, <2>1, <2>2, <2>3, <2>4 DEF Xor, Or
<1> QED BY <1>3, <1>4, <1>5, <1>6

LEMMA XorBit ==
  ASSUME NEW p \in Nat, p > 1, NEW a \in {0, 1}, NEW b \in {0, 1}
  PROVE  Xor(p, a, b) \in {0, 1} /\ Xor(p, a, b) = (a + b) % 2
<1>1. Xor(p, a, b) = IF a = b THEN 0 ELSE 1
  BY BitOps
<1>2. 0 % 2 = 0 /\ 1 % 2 = 1 /\ 2 % 2 = 0
  OBVIOUS
<1> QED BY <1>1, <1>2

LEMMA XorAllIs ==
  ASSUME NEW p \in Nat, p > 1, NEW n \in Nat, NEW a \in BitRow(n), NEW b, \A i \in 1 .. n : b[i] \in {0, 1}
  PROVE  /\ XorAll(p, a, b) \in BitRow(n)
         /\ \A i \in 1 .. n : XorAll(p, a, b)[i] = Xor(p, a[i], b[i])
<1>1. DOMAIN a = 1 .. n /\ \A i \in 1 .. n : a[i] \in {0, 1}
  BY DEF BitRow
<1>2. XorAll(p, a, b) = [i \in 1 .. n |-> Xor(p, a[i], b[i])]
  BY <1>1 DEF XorAll
<1>3. \A i \in 1 .. n : Xor(p, a[i], b[i]) \in {0, 1}
  BY <1>1, XorBit
<1> QED BY <1>2, <1>3 DEF BitRow

(* Rows one after the other, and parts of a row.                            *)
LEMMA Joined ==
  ASSUME NEW m \in Nat, NEW n \in Nat, NEW a \in BitRow(m), NEW b \in BitRow(n)
  PROVE  /\ a \o b \in BitRow(m + n) /\ Len(a) = m
         /\ \A i \in 1 .. m : (a \o b)[i] = a[i]
         /\ \A i \in 1 .. n : (a \o b)[m + i] = b[i]
<1>1. a \in Seq({0, 1}) /\ b \in Seq({0, 1}) /\ Len(a) = m /\ Len(b) = n
  BY DEF BitRow
<1>2. a \o b \in Seq({0, 1}) /\ Len(a \o b) = m + n
  BY <1>1
<1>3. a \o b \in BitRow(m + n)
  <2>1. PICK c : c = a \o b
    OBVIOUS
  <2>2. c \in [1 .. Len(c) -> {0, 1}]
    BY <1>2, <2>1, LenProperties
  <2> QED BY <1>2, <2>1, <2>2 DEF BitRow
<1>4. \A i \in 1 .. m : (a \o b)[i] = a[i]
  BY <1>1
<1>5. \A i \in 1 .. n : (a \o b)[m + i] = b[i]
  <2> SUFFICES ASSUME NEW i \in 1 .. n PROVE (a \o b)[m + i] = b[i]
    OBVIOUS
  <2>1. m + i \in 1 .. m + n /\ m + i > m /\ (m + i) - m = i
    OBVIOUS
  <2> QED BY <1>1, <2>1
<1> QED BY <1>1, <1>3, <1>4, <1>5

AreJoined(c, a, b, m, n) ==
  /\ c \in BitRow(m + n)
  /\ \A i \in 1 .. m : c[i] = a[i]
  /\ \A i \in 1 .. n : c[m + i] = b[i]

LEMMA JoinedAre ==
  ASSUME NEW m \in Nat, NEW n \in Nat, NEW a \in BitRow(m), NEW b \in BitRow(n)
  PROVE  AreJoined(a \o b, a, b, m, n)
BY Joined DEF AreJoined

LEMMA PartIs ==
  ASSUME NEW n \in Nat, NEW a \in BitRow(n), NEW i \in 0 .. n, NEW j \in i .. n
  PROVE  /\ SubSeq(a, i + 1, j) \in BitRow(j - i)
         /\ \A k \in 1 .. j - i : SubSeq(a, i + 1, j)[k] = a[i + k]
<1>1. a \in Seq({0, 1}) /\ Len(a) = n
  BY DEF BitRow
<1>2. SubSeq(a, i + 1, j) = [k \in 1 .. j - i |-> a[i + k]]
  <2>1. SubSeq(a, i + 1, j) = [k \in 1 .. (1 + j) - (i + 1) |-> a[k + (i + 1) - 1]]
    BY <1>1
  <2>2. (1 + j) - (i + 1) = j - i
    OBVIOUS
  <2>3. \A k \in 1 .. j - i : k + (i + 1) - 1 = i + k
    OBVIOUS
  <2> QED BY <2>1, <2>2, <2>3
<1>3. \A k \in 1 .. j - i : a[i + k] \in {0, 1}
  BY DEF BitRow
<1> QED BY <1>2, <1>3 DEF BitRow

-----------------------------------------------------------------------------
(***************************************************************************)
(* KXOR is the parity of a row.                                            *)
(***************************************************************************)
LEMMA BitSums ==
  ASSUME NEW n \in Nat, NEW a \in BitRow(n)
  PROVE  /\ \E s : Sums(s, a, n)
         /\ \A s : Sums(s, a, n) => SumOf(a) = s[n]
         /\ SumOf(a) \in Int
<1>1. DOMAIN a = 1 .. n /\ Len(a) = n /\ \A k \in 1 .. n : a[k] \in {0, 1}
  BY DEF BitRow
<1>2. \A k \in 1 .. n : a[k] \in Int
  BY <1>1
<1>3. PICK s : Sums(s, a, n)
  BY <1>2, SumsExist
<1>4. \A t : Sums(t, a, n) => SumOf(a) = t[n]
  BY <1>1, SumIs
<1>5. s[n] \in Int
  BY <1>3 DEF Sums
<1> QED BY <1>3, <1>4, <1>5

(* One round's pairs, at their places.                                      *)
LEMMA PairsAre ==
  ASSUME NEW p \in Nat, p > 1, NEW n \in Nat, NEW a \in BitRow(n), NEW h \in Nat, h = n \div 2
  PROVE  /\ XorAll(p, Evens(a), Odds(a)) \in BitRow(h)
         /\ \A i \in 1 .. h : /\ 2 * i - 1 \in 1 .. n /\ 2 * i \in 1 .. n
                              /\ XorAll(p, Evens(a), Odds(a))[i] = (a[2 * i - 1] + a[2 * i]) % 2
<1>1. Len(a) = n /\ \A k \in 1 .. n : a[k] \in {0, 1}
  BY DEF BitRow
<1>2. \A i \in 1 .. h : 2 * i - 1 \in 1 .. n /\ 2 * i \in 1 .. n
  <2>1. 2 * h <= n
    OBVIOUS
  <2> QED BY <2>1
<1>3. Evens(a) = [i \in 1 .. h |-> a[2 * i - 1]] /\ Odds(a) = [i \in 1 .. h |-> a[2 * i]]
  BY <1>1 DEF Evens, Odds
<1>4. Evens(a) \in BitRow(h)
  BY <1>1, <1>2, <1>3 DEF BitRow
<1>5. \A i \in 1 .. h : Evens(a)[i] = a[2 * i - 1] /\ Odds(a)[i] = a[2 * i] /\ Odds(a)[i] \in {0, 1}
  BY <1>1, <1>2, <1>3
<1>6. /\ XorAll(p, Evens(a), Odds(a)) \in BitRow(h)
      /\ \A i \in 1 .. h : XorAll(p, Evens(a), Odds(a))[i] = Xor(p, Evens(a)[i], Odds(a)[i])
  BY <1>4, <1>5, XorAllIs
<1>7. ASSUME NEW i \in 1 .. h
      PROVE  XorAll(p, Evens(a), Odds(a))[i] = (a[2 * i - 1] + a[2 * i]) % 2
  <2>1. PICK x \in {0, 1} : x = a[2 * i - 1]
    BY <1>1, <1>2
  <2>2. PICK y \in {0, 1} : y = a[2 * i]
    BY <1>1, <1>2
  <2>3. Xor(p, x, y) = (x + y) % 2
    BY XorBit
  <2> QED BY <1>5, <1>6, <2>1, <2>2, <2>3
<1> QED BY <1>2, <1>6, <1>7

(* A row of pairs adds up to the parity of the row it is made from.         *)
LEMMA PairSums ==
  ASSUME NEW n \in Nat, NEW a \in BitRow(n), NEW s, Sums(s, a, n),
         NEW m \in Nat, NEW b \in BitRow(m), NEW t, Sums(t, b, m),
         NEW h \in 0 .. m, 2 * h <= n,
         \A i \in 1 .. h : b[i] = (a[2 * i - 1] + a[2 * i]) % 2
  PROVE  t[h] % 2 = s[2 * h] % 2
<1> DEFINE E == {i \in 0 .. h : t[i] % 2 = s[2 * i] % 2}
<1>1. 0 \in E
  BY DEF Sums
<1>2. ASSUME NEW i \in 0 .. h, i # h, i \in E PROVE i + 1 \in E
  <2>1. PICK j \in 1 .. h : j = i + 1
    BY <1>2
  <2>2. PICK k \in 1 .. n : k = 2 * j
    BY <2>1
  <2>3. k - 1 \in 1 .. n /\ (k - 1) - 1 = 2 * i /\ 2 * i \in 0 .. n
    BY <2>1, <2>2
  <2>4. PICK x \in Int : x = s[2 * i]
    BY <2>3, SumsType
  <2>5. PICK c \in {0, 1} : c = a[k - 1]
    BY <2>3 DEF BitRow
  <2>6. PICK d \in {0, 1} : d = a[k]
    BY DEF BitRow
  <2>7. s[k] = x + c + d
    <3>1. s[k] = s[k - 1] + d /\ s[k - 1] = s[2 * i] + c
      BY <2>3, <2>5, <2>6, SumsType
    <3> QED BY <2>4, <3>1
  <2>8. PICK y \in Int : y = t[i]
    BY SumsType
  <2>9. t[j] = y + ((c + d) % 2)
    <3>1. j \in 1 .. m /\ j - 1 = i /\ 2 * j - 1 = k - 1
      BY <2>1, <2>2
    <3>2. b[j] = (c + d) % 2
      BY <2>2, <2>5, <2>6, <3>1
    <3> QED BY <2>8, <3>1, <3>2, SumsType
  <2>10. y % 2 = x % 2
    BY <1>2, <2>4, <2>8
  <2>11. (y + ((c + d) % 2)) % 2 = (x + c + d) % 2
    BY <2>10
  <2>12. t[j] % 2 = s[2 * j] % 2
    BY <2>2, <2>7, <2>9, <2>11
  <2> QED BY <2>1, <2>12
<1> HIDE DEF E
<1>3. 0 .. h \subseteq E
  <2>1. 0 \in Int /\ h \in Int
    OBVIOUS
  <2>2. \A i \in 0 .. h : i # h /\ i \in E => i + 1 \in E
    BY <1>2
  <2> QED BY <1>1, <2>1, <2>2, UpTo
<1>4. h \in E
  BY <1>3
<1> QED BY <1>4 DEF E

Parity(a) == SumOf(a) % 2

LEMMA HalveIs ==
  ASSUME NEW p \in Nat, p > 1, NEW n \in Nat, n > 0, NEW a \in BitRow(n)
  PROVE  \E m \in 1 .. n : /\ n > 1 => m < n
                           /\ Halve(p, a) \in BitRow(m) /\ Parity(Halve(p, a)) = Parity(a)
<1>0. a \in Seq({0, 1}) /\ Len(a) = n /\ \A k \in 1 .. n : a[k] \in {0, 1}
  BY DEF BitRow
<1>1. CASE n = 1
  <2>1. Halve(p, a) = a
    BY <1>0, <1>1 DEF Halve
  <2> QED BY <1>1, <2>1
<1>2. CASE n > 1
  <2>1. PICK h \in Nat : h = n \div 2
    OBVIOUS
  <2>2. PICK e : e = XorAll(p, Evens(a), Odds(a))
    OBVIOUS
  <2>3. e \in BitRow(h) /\ \A i \in 1 .. h : e[i] = (a[2 * i - 1] + a[2 * i]) % 2
    BY <2>1, <2>2, PairsAre
  <2>4. PICK s : Sums(s, a, n) /\ SumOf(a) = s[n]
    BY BitSums
  <2>5. Halve(p, a) = e \o OddOneOut(a)
    BY <1>0, <1>2, <2>2 DEF Halve
  <2>6. CASE n % 2 = 0
    <3>1. OddOneOut(a) = <<>> /\ n = 2 * h
      BY <1>0, <2>1, <2>6 DEF OddOneOut
    <3>2. Halve(p, a) = e
      <4>1. e \in Seq({0, 1})
        BY <2>3 DEF BitRow
      <4> QED BY <2>5, <3>1, <4>1
    <3>3. PICK t : Sums(t, e, h) /\ SumOf(e) = t[h]
      BY <2>3, BitSums
    <3>4. t[h] % 2 = s[2 * h] % 2
      <4>1. h \in 0 .. h /\ 2 * h <= n
        BY <3>1
      <4> QED BY <2>3, <2>4, <3>3, <4>1, PairSums
    <3>5. h \in 1 .. n /\ h < n
      BY <1>2, <3>1
    <3> QED BY <2>3, <2>4, <3>1, <3>2, <3>3, <3>4, <3>5 DEF Parity
  <2>7. CASE n % 2 = 1
    <3>1. PICK m \in Nat : m = h + 1
      OBVIOUS
    <3>2. n = 2 * h + 1
      BY <2>1, <2>7
    <3>3. PICK o : o = <<a[n]>>
      OBVIOUS
    <3>4. OddOneOut(a) = o /\ o \in BitRow(1) /\ o[1] = a[n]
      BY <1>0, <2>7, <3>3 DEF OddOneOut, Last, BitRow
    <3>5. PICK b : b = Halve(p, a)
      OBVIOUS
    <3>6. b \in BitRow(m) /\ (\A i \in 1 .. h : b[i] = e[i]) /\ b[m] = a[n]
      <4>1. PICK u \in Nat : u = 1
        OBVIOUS
      <4>2. o \in BitRow(u)
        BY <3>4, <4>1
      <4>3. e \o o \in BitRow(h + u) /\ (\A i \in 1 .. h : (e \o o)[i] = e[i])
            /\ \A i \in 1 .. u : (e \o o)[h + i] = o[i]
        <5>1. AreJoined(e \o o, e, o, h, u)
          BY <2>3, <4>2, JoinedAre
        <5> QED BY <5>1 DEF AreJoined
      <4>4. (e \o o)[h + 1] = o[1]
        <5>1. PICK i \in 1 .. u : i = 1
          BY <4>1
        <5>2. (e \o o)[h + i] = o[i]
          BY <4>3
        <5> QED BY <5>1, <5>2
      <4> QED BY <2>5, <3>1, <3>4, <3>5, <4>1, <4>3, <4>4
    <3>7. PICK t : Sums(t, b, m) /\ SumOf(b) = t[m]
      BY <3>6, BitSums
    <3>8. t[h] % 2 = s[2 * h] % 2
      <4>1. h \in 0 .. m /\ 2 * h <= n
        BY <3>1, <3>2
      <4>2. \A i \in 1 .. h : b[i] = (a[2 * i - 1] + a[2 * i]) % 2
        BY <2>3, <3>6
      <4> QED BY <2>4, <3>6, <3>7, <4>1, <4>2, PairSums
    <3>9. t[m] = t[h] + a[n] /\ s[n] = s[2 * h] + a[n]
      <4>1. m \in 1 .. m /\ m - 1 = h /\ n \in 1 .. n /\ n - 1 = 2 * h
        BY <3>1, <3>2
      <4> QED BY <2>4, <3>6, <3>7, <4>1, SumsType
    <3>10. t[m] % 2 = s[n] % 2
      <4>1. PICK x \in Int : x = t[h]
        <5>1. h \in 0 .. m
          BY <3>1
        <5> QED BY <3>7, <5>1, SumsType
      <4>2. PICK y \in Int : y = s[2 * h]
        <5>1. 2 * h \in 0 .. n
          BY <3>2
        <5> QED BY <2>4, <5>1, SumsType
      <4>3. PICK c \in {0, 1} : c = a[n]
        BY <1>0
      <4>4. (x + c) % 2 = (y + c) % 2
        <5>1. x % 2 = y % 2
          BY <3>8, <4>1, <4>2
        <5> QED BY <5>1
      <4> QED BY <3>9, <4>1, <4>2, <4>3, <4>4
    <3>11. m \in 1 .. n /\ m < n
      BY <1>2, <3>1, <3>2
    <3> QED BY <2>4, <3>5, <3>6, <3>7, <3>10, <3>11 DEF Parity
  <2>8. n % 2 = 0 \/ n % 2 = 1
    OBVIOUS
  <2> QED BY <2>6, <2>7, <2>8
<1> QED BY <1>1, <1>2

(* However many the elements, KXOR leaves their parity.                     *)
LEMMA KXORIs ==
  ASSUME NEW p \in Nat, p > 1, NEW n \in Nat, n > 0, NEW a \in BitRow(n)
  PROVE  KXOR(p, a) = SumOf(a) % 2 /\ KXOR(p, a) \in {0, 1}
<1> DEFINE Rec(g) == g = [k \in 0 .. n |-> IF k = 0 THEN a ELSE Halve(p, g[k - 1])]
           Rows(m) == {b \in BitRow(m) : Parity(b) = Parity(a)}
           D == UNION {Rows(m) : m \in 1 .. n}
<1>1. Len(a) = n
  BY DEF BitRow
<1>2. KXOR(p, a) = (CHOOSE g : Rec(g))[n][1]
  BY <1>1 DEF KXOR
<1>3. a \in D
  OBVIOUS
<1>4. ASSUME NEW d \in D PROVE Halve(p, d) \in D
  <2>1. PICK m \in 1 .. n : d \in BitRow(m) /\ Parity(d) = Parity(a)
    OBVIOUS
  <2>2. m \in Nat /\ m > 0
    OBVIOUS
  <2>3. PICK l \in 1 .. m : Halve(p, d) \in BitRow(l) /\ Parity(Halve(p, d)) = Parity(d)
    BY <2>1, <2>2, HalveIs
  <2>4. l \in 1 .. n
    OBVIOUS
  <2> QED BY <2>1, <2>3, <2>4
<1>5. PICK s : s = [k \in 1 .. n |-> [d \in D |-> Halve(p, d)]]
  OBVIOUS
<1>6. \E f : Rec(f)
  <2> HIDE DEF D
  <2>1. \A k \in 1 .. n : \A d \in D : s[k][d] = Halve(p, d) /\ s[k][d] \in D
    BY <1>4, <1>5
  <2>2. Steps(s, D, n)
    BY <2>1 DEF Steps
  <2>3. PICK f : Follows(f, D, a, s, n)
    BY <1>3, <2>2, Recursion
  <2>4. f \in [0 .. n -> D] /\ f[0] = a
    BY <2>3 DEF Follows
  <2>5. ASSUME NEW k \in 1 .. n PROVE f[k] = Halve(p, f[k - 1])
    <3>1. f[k - 1] \in D
      BY <2>4
    <3> QED BY <2>1, <2>3, <3>1 DEF Follows
  <2>6. \A k \in 0 .. n : f[k] = IF k = 0 THEN a ELSE Halve(p, f[k - 1])
    <3>1. \A k \in 0 .. n : k # 0 => k \in 1 .. n
      OBVIOUS
    <3> QED BY <2>4, <2>5, <3>1
  <2>7. Rec(f)
    BY <2>4, <2>6
  <2> QED BY <2>7
<1>7. PICK f : f = CHOOSE g : Rec(g)
  OBVIOUS
<1>8. Rec(f)
  BY <1>6, <1>7
<1>9. f[0] = a /\ \A k \in 1 .. n : f[k] = Halve(p, f[k - 1])
  <2>1. \A k \in 1 .. n : k \in 0 .. n /\ k # 0
    OBVIOUS
  <2> QED BY <1>8, <2>1
<1> DEFINE Short(k) == \E m \in 1 .. n : /\ m = 1 \/ m <= n - k
                                         /\ f[k] \in BitRow(m) /\ Parity(f[k]) = Parity(a)
           E == {k \in 0 .. n : Short(k)}
<1> HIDE DEF Rec, D
<1>10. 0 \in E
  <2>1. n \in 1 .. n /\ n <= n - 0
    OBVIOUS
  <2> QED BY <1>9, <2>1
<1>11. ASSUME NEW k \in 0 .. n, k # n, k \in E PROVE k + 1 \in E
  <2>1. PICK m \in 1 .. n : (m = 1 \/ m <= n - k) /\ f[k] \in BitRow(m) /\ Parity(f[k]) = Parity(a)
    BY <1>11
  <2>2. PICK j \in 1 .. n : j = k + 1
    BY <1>11
  <2>3. f[j] = Halve(p, f[k])
    <3>1. j - 1 = k
      BY <2>2
    <3> QED BY <1>9, <3>1
  <2>4. m \in Nat /\ m > 0
    OBVIOUS
  <2>5. PICK l \in 1 .. m : /\ m > 1 => l < m
                            /\ Halve(p, f[k]) \in BitRow(l) /\ Parity(Halve(p, f[k])) = Parity(f[k])
    BY <2>1, <2>4, HalveIs
  <2>6. l \in 1 .. n /\ (l = 1 \/ l <= n - j)
    BY <2>1, <2>2, <2>5
  <2>7. Short(j)
    BY <2>1, <2>3, <2>5, <2>6
  <2> QED BY <2>2, <2>7
<1> HIDE DEF E
<1>12. 0 .. n \subseteq E
  BY <1>10, <1>11, UpTo
<1>13. n \in E
  BY <1>12
<1>14. PICK b : b = f[n]
  OBVIOUS
<1>15. PICK u \in Nat : u = 1
  OBVIOUS
<1>16. b \in BitRow(u) /\ Parity(b) = Parity(a)
  <2>1. PICK m \in 1 .. n : (m = 1 \/ m <= n - n) /\ b \in BitRow(m) /\ Parity(b) = Parity(a)
    BY <1>13, <1>14 DEF E
  <2>2. m = u
    BY <1>15, <2>1
  <2> QED BY <2>1, <2>2
<1>17. PICK t : Sums(t, b, u) /\ SumOf(b) = t[u]
  BY <1>16, BitSums
<1>18. t[u] = b[1] /\ b[1] \in {0, 1}
  BY <1>15, <1>16, <1>17 DEF Sums, BitRow
<1>19. KXOR(p, a) = b[1]
  BY <1>2, <1>7, <1>14
<1>20. \A c \in {0, 1} : c % 2 = c
  OBVIOUS
<1> QED BY <1>16, <1>17, <1>18, <1>19, <1>20 DEF Parity

-----------------------------------------------------------------------------
(***************************************************************************)
(* prefix_OR and lt.                                                       *)
(***************************************************************************)
OneIn(a, x, y)  == IF \E j \in x .. y : a[j] = 1 THEN 1 ELSE 0
Span(a, x, y) == [k \in 1 .. y - x + 1 |-> OneIn(a, x, x + k - 1)]

IsSpan(s, a, x, n) == s \in BitRow(n) /\ \A k \in 1 .. n : s[k] = OneIn(a, x, x + k - 1)

LEMMA SpanIs ==
  ASSUME NEW a, NEW x \in Int, NEW y \in Int, NEW n \in Nat, n = y - x + 1
  PROVE  IsSpan(Span(a, x, y), a, x, n)
BY DEF IsSpan, Span, BitRow, OneIn

(* Two halves make up the whole.                                            *)
Joins(p, half, lo, hi) == lo \o [i \in DOMAIN hi |-> Or(p, lo[half], hi[i])]

LEMMA SpansJoin ==
  ASSUME NEW p \in Nat, p > 1, NEW a, NEW x \in Int, NEW half \in Nat, half > 0, NEW m \in Nat,
         NEW z \in Int, z = x + half, NEW lo, IsSpan(lo, a, x, half), NEW hi, IsSpan(hi, a, z, m)
  PROVE  IsSpan(Joins(p, half, lo, hi), a, x, half + m)
<1>1. lo \in BitRow(half) /\ \A k \in 1 .. half : lo[k] = OneIn(a, x, x + k - 1)
  BY DEF IsSpan
<1>2. hi \in BitRow(m) /\ \A k \in 1 .. m : hi[k] = OneIn(a, z, z + k - 1)
  BY DEF IsSpan
<1>3. \A i \in 1 .. m : hi[i] \in {0, 1} /\ lo[half] \in {0, 1}
  BY <1>1, <1>2 DEF BitRow
<1>4. PICK c : c = [i \in 1 .. m |-> Or(p, lo[half], hi[i])]
  OBVIOUS
<1>5. Joins(p, half, lo, hi) = lo \o c
  BY <1>2, <1>4 DEF Joins, BitRow
<1>6. ASSUME NEW i \in 1 .. m
      PROVE  c[i] \in {0, 1} /\ c[i] = OneIn(a, x, z + i - 1)
  <2>1. c[i] = IF lo[half] = 1 \/ hi[i] = 1 THEN 1 ELSE 0
    BY <1>3, <1>4, BitOps
  <2>2. lo[half] = 1 <=> \E j \in x .. z - 1 : a[j] = 1
    <3>1. half \in 1 .. half /\ x + half - 1 = z - 1
      OBVIOUS
    <3>2. lo[half] = OneIn(a, x, z - 1)
      BY <1>1, <3>1
    <3> QED BY <3>2 DEF OneIn
  <2>3. hi[i] = 1 <=> \E j \in z .. z + i - 1 : a[j] = 1
    BY <1>2 DEF OneIn
  <2>4. (x .. z - 1) \cup (z .. z + i - 1) = x .. z + i - 1
    OBVIOUS
  <2>5. (\E j \in x .. z - 1 : a[j] = 1) \/ (\E j \in z .. z + i - 1 : a[j] = 1)
        <=> \E j \in x .. z + i - 1 : a[j] = 1
    BY <2>4
  <2> QED BY <2>1, <2>2, <2>3, <2>5 DEF OneIn
<1>7. c \in BitRow(m)
  BY <1>4, <1>6 DEF BitRow
<1>8. PICK b : /\ b = lo \o c /\ b \in BitRow(half + m)
               /\ \A k \in 1 .. half : b[k] = lo[k]
               /\ \A k \in 1 .. m : b[half + k] = c[k]
  <2>1. lo \in BitRow(half)
    BY <1>1
  <2>2. /\ lo \o c \in BitRow(half + m)
        /\ \A k \in 1 .. half : (lo \o c)[k] = lo[k]
        /\ \A k \in 1 .. m : (lo \o c)[half + k] = c[k]
    <3>1. AreJoined(lo \o c, lo, c, half, m)
      BY <2>1, <1>7, JoinedAre
    <3> QED BY <3>1 DEF AreJoined
  <2> QED BY <2>2
<1>9. ASSUME NEW k \in 1 .. half + m PROVE b[k] = OneIn(a, x, x + k - 1)
  <2>1. CASE k <= half
    <3>1. k \in 1 .. half
      BY <2>1
    <3>2. b[k] = lo[k]
      BY <1>8, <3>1
    <3> QED BY <1>1, <3>1, <3>2
  <2>2. CASE k > half
    <3>1. PICK i \in 1 .. m : i = k - half
      BY <2>2
    <3>2. half + i = k /\ z + i - 1 = x + k - 1
      BY <3>1
    <3>3. b[half + i] = c[i]
      BY <1>8
    <3> QED BY <1>6, <3>2, <3>3
  <2> QED BY <2>1, <2>2
<1> QED BY <1>5, <1>8, <1>9 DEF IsSpan

LEMMA SpansSame ==
  ASSUME NEW n \in Nat, NEW a, NEW x, NEW s, IsSpan(s, a, x, n), NEW t, IsSpan(t, a, x, n)
  PROVE  s = t
<1>1. s = [k \in 1 .. n |-> OneIn(a, x, x + k - 1)] /\ t = [k \in 1 .. n |-> OneIn(a, x, x + k - 1)]
  BY DEF IsSpan, BitRow
<1> QED BY <1>1

LEMMA SpanSplits ==
  ASSUME NEW p \in Nat, p > 1, NEW a, NEW x \in Int, NEW y \in Int, x < y,
         NEW half \in Nat, half = (y - x + 1) \div 2
  PROVE  /\ half > 0 /\ x <= x + half - 1 /\ x + half - 1 < y /\ x < x + half /\ x + half <= y
         /\ Span(a, x, y) = Joins(p, half, Span(a, x, x + half - 1), Span(a, x + half, y))
<1>1. half > 0 /\ 2 * half <= y - x + 1
  OBVIOUS
<1>2. x <= x + half - 1 /\ x + half - 1 < y /\ x < x + half /\ x + half <= y
  BY <1>1
<1>3. PICK z \in Int : z = x + half
  OBVIOUS
<1>4. PICK w \in Int : w = x + half - 1
  OBVIOUS
<1>5. PICK m \in Nat : m = y - z + 1
  BY <1>2, <1>3
<1>6. PICK n \in Nat : n = half + m /\ n = y - x + 1
  BY <1>3, <1>5
<1>7. IsSpan(Span(a, x, w), a, x, half)
  <2>1. half = w - x + 1
    BY <1>4
  <2> QED BY <2>1, SpanIs
<1>8. IsSpan(Span(a, z, y), a, z, m)
  BY <1>5, SpanIs
<1>9. IsSpan(Span(a, x, y), a, x, n)
  BY <1>6, SpanIs
<1>10. IsSpan(Joins(p, half, Span(a, x, w), Span(a, z, y)), a, x, half + m)
  BY <1>1, <1>3, <1>7, <1>8, SpansJoin
<1>11. Span(a, x, y) = Joins(p, half, Span(a, x, w), Span(a, z, y))
  BY <1>6, <1>9, <1>10, SpansSame
<1> QED BY <1>1, <1>2, <1>3, <1>4, <1>11

LEMMA SpanOne ==
  ASSUME NEW n \in Nat, NEW a \in BitRow(n), NEW x \in 1 .. n
  PROVE  Span(a, x, x) = <<a[x]>>
<1>1. OneIn(a, x, x) = a[x]
  <2>1. x .. x = {x} /\ a[x] \in {0, 1}
    BY DEF BitRow
  <2> QED BY <2>1 DEF OneIn
<1>2. x - x + 1 = 1 /\ \A k \in 1 .. 1 : x + k - 1 = x
  OBVIOUS
<1>3. Span(a, x, x) = [k \in 1 .. 1 |-> a[x]]
  BY <1>1, <1>2 DEF Span
<1> QED BY <1>3

(* What prefix_OR makes of the elements from r[1] to r[2], given f for the   *)
(* halves.                                                                  *)
Halves(p, f, r) ==
  LET half == (r[2] - r[1] + 1) \div 2
  IN  Joins(p, half, f[<<r[1], r[1] + half - 1>>], f[<<r[1] + half, r[2]>>])

Spans(f, a, n, m) == \A u, v \in 1 .. n : u <= v /\ v - u < m => f[<<u, v>>] = Span(a, u, v)

LEMMA HalvesAre ==
  ASSUME NEW p \in Nat, p > 1, NEW a, NEW n \in Nat, NEW x, x \in 1 .. n, NEW y, y \in 1 .. n, x < y,
         NEW f, NEW m \in Int, y - x <= m, Spans(f, a, n, m)
  PROVE  Halves(p, f, <<x, y>>) = Span(a, x, y)
<1>1. PICK half \in Nat : half = (y - x + 1) \div 2
  OBVIOUS
<1>2. x \in Int /\ y \in Int
  OBVIOUS
<1>3. /\ half > 0 /\ x <= x + half - 1 /\ x + half - 1 < y /\ x < x + half /\ x + half <= y
      /\ Span(a, x, y) = Joins(p, half, Span(a, x, x + half - 1), Span(a, x + half, y))
  BY <1>1, <1>2, SpanSplits
<1>4. f[<<x, x + half - 1>>] = Span(a, x, x + half - 1) /\ f[<<x + half, y>>] = Span(a, x + half, y)
  <2>1. x + half - 1 \in 1 .. n /\ x + half \in 1 .. n
    BY <1>3
  <2>2. (x + half - 1) - x < m /\ y - (x + half) < m
    BY <1>3
  <2> QED BY <1>3, <2>1, <2>2 DEF Spans
<1>5. Halves(p, f, <<x, y>>) = Joins(p, half, f[<<x, x + half - 1>>], f[<<x + half, y>>])
  BY <1>1 DEF Halves
<1> QED BY <1>3, <1>4, <1>5

LEMMA PrefixORIs ==
  ASSUME NEW p \in Nat, p > 1, NEW n \in Nat, n > 0, NEW a \in BitRow(n)
  PROVE  PrefixOR(p, a) \in BitRow(n) /\ \A i \in 1 .. n : PrefixOR(p, a)[i] = OneIn(a, 1, i)
<1> DEFINE R == (1 .. n) \X (1 .. n)
           Rec(g) == g = [r \in R |-> IF r[1] >= r[2] THEN <<a[r[1]]>> ELSE Halves(p, g, r)]
<1>1. Len(a) = n /\ DOMAIN a = 1 .. n
  BY DEF BitRow
<1>2. PrefixOR(p, a) = (CHOOSE g : Rec(g))[<<1, n>>]
  BY <1>1 DEF PrefixOR, Halves, Joins
<1>3. PICK g : g = [r \in R |-> IF r[1] >= r[2] THEN <<a[r[1]]>> ELSE Span(a, r[1], r[2])]
  OBVIOUS
<1>4. \A u, v \in 1 .. n : u <= v => g[<<u, v>>] = Span(a, u, v)
  <2> SUFFICES ASSUME NEW u \in 1 .. n, NEW v \in 1 .. n, u <= v PROVE g[<<u, v>>] = Span(a, u, v)
    OBVIOUS
  <2>1. CASE u = v
    <3>1. g[<<u, v>>] = <<a[u]>>
      BY <1>3, <2>1
    <3> QED BY <2>1, <3>1, SpanOne
  <2>2. CASE u < v
    BY <1>3, <2>2
  <2> QED BY <2>1, <2>2
<1>5. Rec(g)
  <2>1. ASSUME NEW r \in R, ~ (r[1] >= r[2]) PROVE Span(a, r[1], r[2]) = Halves(p, g, r)
    <3>1. PICK x \in 1 .. n : x = r[1]
      OBVIOUS
    <3>2. PICK y \in 1 .. n : y = r[2]
      OBVIOUS
    <3>3. r = <<x, y>> /\ x < y
      BY <2>1, <3>1, <3>2
    <3>4. PICK m \in Int : m = y - x
      OBVIOUS
    <3>5. Halves(p, g, <<x, y>>) = Span(a, x, y)
      <4>1. Spans(g, a, n, m)
        BY <1>4 DEF Spans
      <4>2. x \in 1 .. n /\ y \in 1 .. n /\ y - x <= m
        BY <3>4
      <4> QED BY <3>3, <4>1, <4>2, HalvesAre
    <3> QED BY <3>1, <3>2, <3>3, <3>5
  <2> QED BY <1>3, <2>1
<1>6. PICK f : f = CHOOSE h : Rec(h)
  OBVIOUS
<1>7. Rec(f)
  BY <1>5, <1>6
<1>8. \A x, y \in 1 .. n : (x >= y => f[<<x, y>>] = <<a[x]>>) /\ (x < y => f[<<x, y>>] = Halves(p, f, <<x, y>>))
  <2> SUFFICES ASSUME NEW x \in 1 .. n, NEW y \in 1 .. n
               PROVE  (x >= y => f[<<x, y>>] = <<a[x]>>) /\ (x < y => f[<<x, y>>] = Halves(p, f, <<x, y>>))
    OBVIOUS
  <2>1. PICK r : r = <<x, y>>
    OBVIOUS
  <2>2. r \in R /\ r[1] = x /\ r[2] = y
    BY <2>1
  <2>3. f[r] = IF r[1] >= r[2] THEN <<a[r[1]]>> ELSE Halves(p, f, r)
    BY <1>7, <2>2
  <2> QED BY <2>1, <2>2, <2>3
<1> DEFINE E == {m \in 0 .. n : Spans(f, a, n, m)}
<1> HIDE DEF Rec
<1>9. 0 \in E
  BY DEF Spans
<1>10. ASSUME NEW m \in 0 .. n, m # n, m \in E PROVE m + 1 \in E
  <2>1. ASSUME NEW u \in 1 .. n, NEW v \in 1 .. n, u <= v, v - u < m + 1
        PROVE  f[<<u, v>>] = Span(a, u, v)
    <3>1. CASE u = v
      <4>1. f[<<u, v>>] = <<a[u]>>
        BY <1>8, <3>1
      <4> QED BY <3>1, <4>1, SpanOne
    <3>2. CASE u < v
      <4>1. f[<<u, v>>] = Halves(p, f, <<u, v>>)
        BY <1>8, <3>2
      <4>2. Spans(f, a, n, m) /\ v - u <= m /\ m \in Int /\ u \in 1 .. n /\ v \in 1 .. n
        BY <1>10, <2>1
      <4>3. Halves(p, f, <<u, v>>) = Span(a, u, v)
        BY <3>2, <4>2, HalvesAre
      <4> QED BY <4>1, <4>3
    <3> QED BY <2>1, <3>1, <3>2
  <2>2. m + 1 \in 0 .. n
    BY <1>10
  <2> QED BY <2>1, <2>2 DEF Spans
<1> HIDE DEF E
<1>11. 0 .. n \subseteq E
  BY <1>9, <1>10, UpTo
<1>12. n \in E
  BY <1>11
<1>13. f[<<1, n>>] = Span(a, 1, n)
  <2>1. 1 \in 1 .. n /\ n \in 1 .. n /\ n - 1 < n
    OBVIOUS
  <2> QED BY <1>12, <2>1 DEF E, Spans
<1>14. PrefixOR(p, a) = Span(a, 1, n)
  BY <1>2, <1>6, <1>13
<1>15. PICK o \in Int : o = 1
  OBVIOUS
<1>16. Span(a, o, n) \in BitRow(n) /\ \A k \in 1 .. n : Span(a, o, n)[k] = OneIn(a, o, o + k - 1)
  <2>1. n = n - o + 1 /\ n \in Int
    BY <1>15
  <2>2. IsSpan(Span(a, o, n), a, o, n)
    BY <2>1, SpanIs
  <2> QED BY <2>2 DEF IsSpan
<1>17. \A k \in 1 .. n : o + k - 1 = k
  BY <1>15
<1> QED BY <1>14, <1>15, <1>16, <1>17

LEMMA ReverseIs ==
  ASSUME NEW n \in Nat, NEW a \in BitRow(n)
  PROVE  Reverse(a) \in BitRow(n) /\ \A i \in 1 .. n : Reverse(a)[i] = a[n + 1 - i]
<1>1. Len(a) = n /\ \A i \in 1 .. n : a[i] \in {0, 1}
  BY DEF BitRow
<1>2. \A i \in 1 .. n : n + 1 - i \in 1 .. n /\ (n - i) + 1 = n + 1 - i
  OBVIOUS
<1>3. Reverse(a) = [i \in 1 .. n |-> a[n + 1 - i]]
  BY <1>1, <1>2 DEF Reverse
<1> QED BY <1>1, <1>2, <1>3 DEF BitRow

LEMMA DifferIs ==
  ASSUME NEW p \in Nat, p > 1, NEW n \in Nat, n > 0, NEW a \in BitRow(n), NEW b \in BitRow(n)
  PROVE  /\ Differ(p, a, b) \in BitRow(n)
         /\ \A i \in 1 .. n : Differ(p, a, b)[i] = 1 <=> \E j \in i .. n : a[j] # b[j]
<1>0. \A i \in 1 .. n : a[i] \in {0, 1} /\ b[i] \in {0, 1}
  BY DEF BitRow
<1>1. PICK x \in BitRow(n) : x = XorAll(p, a, b)
  BY <1>0, XorAllIs
<1>2. \A i \in 1 .. n : x[i] = 1 <=> a[i] # b[i]
  <2> SUFFICES ASSUME NEW i \in 1 .. n PROVE x[i] = 1 <=> a[i] # b[i]
    OBVIOUS
  <2>1. x[i] = Xor(p, a[i], b[i])
    BY <1>0, <1>1, XorAllIs
  <2>2. Xor(p, a[i], b[i]) = IF a[i] = b[i] THEN 0 ELSE 1
    BY <1>0, BitOps
  <2> QED BY <2>1, <2>2
<1>3. PICK r \in BitRow(n) : r = Reverse(x)
  BY ReverseIs
<1>4. \A i \in 1 .. n : r[i] = x[n + 1 - i]
  BY <1>3, ReverseIs
<1>5. PICK q \in BitRow(n) : q = PrefixOR(p, r)
  BY PrefixORIs
<1>6. \A i \in 1 .. n : q[i] = OneIn(r, 1, i)
  BY <1>5, PrefixORIs
<1>7. PICK d \in BitRow(n) : d = Reverse(q)
  BY ReverseIs
<1>8. \A i \in 1 .. n : d[i] = q[n + 1 - i]
  BY <1>7, ReverseIs
<1>9. d = Differ(p, a, b)
  BY <1>1, <1>3, <1>5, <1>7 DEF Differ
<1>10. ASSUME NEW i \in 1 .. n PROVE d[i] = 1 <=> \E j \in i .. n : a[j] # b[j]
  <2>1. PICK k \in 1 .. n : k = n + 1 - i
    OBVIOUS
  <2>2. d[i] = OneIn(r, 1, k)
    BY <1>6, <1>8, <2>1
  <2>3. d[i] = 1 <=> \E j \in 1 .. k : r[j] = 1
    BY <2>2 DEF OneIn
  <2>4. ASSUME NEW j \in 1 .. k, r[j] = 1 PROVE \E h \in i .. n : a[h] # b[h]
    <3>1. PICK h \in i .. n : h = n + 1 - j
      BY <2>1
    <3>2. j \in 1 .. n /\ h \in 1 .. n
      BY <2>1
    <3>3. x[h] = 1
      BY <1>4, <2>4, <3>1, <3>2
    <3> QED BY <1>2, <3>2, <3>3
  <2>5. ASSUME NEW h \in i .. n, a[h] # b[h] PROVE \E j \in 1 .. k : r[j] = 1
    <3>1. PICK j \in 1 .. k : j = n + 1 - h
      BY <2>1
    <3>2. j \in 1 .. n /\ h \in 1 .. n /\ n + 1 - j = h
      BY <2>1, <3>1
    <3>3. r[j] = x[h]
      BY <1>4, <3>2
    <3> QED BY <1>2, <2>5, <3>2, <3>3
  <2> QED BY <2>3, <2>4, <2>5
<1> QED BY <1>9, <1>10

(* i is the highest place at which a and b differ.                          *)
Top(a, b, n, i) == a[i] # b[i] /\ \A j \in i + 1 .. n : a[j] = b[j]

(* The value below is the one with a 0 there.                               *)
LEMMA TopDecides ==
  ASSUME NEW n \in Nat, NEW a \in BitRow(n), NEW b \in BitRow(n)
  PROVE  Value(a) < Value(b) <=> \E i \in 1 .. n : Top(a, b, n, i) /\ b[i] = 1
<1>1. PICK s : Sums(s, Weighted(a), n)
  <2>1. \A i \in 1 .. n : Weighted(a)[i] \in Int
    BY WeightedIs
  <2> QED BY <2>1, SumsExist
<1>2. PICK t : Sums(t, Weighted(b), n)
  <2>1. \A i \in 1 .. n : Weighted(b)[i] \in Int
    BY WeightedIs
  <2> QED BY <2>1, SumsExist
<1>3. Value(a) = s[n] /\ Value(b) = t[n]
  BY <1>1, <1>2, WeightedIs, SumIs
<1>4. /\ \A k \in 0 .. n : s[k] \in Nat /\ s[k] < Pow2(k)
      /\ s[0] = 0
      /\ \A i \in 1 .. n : s[i] = s[i - 1] + a[i] * Pow2(i - 1)
  BY <1>1, PrefixValue
<1>5. /\ \A k \in 0 .. n : t[k] \in Nat /\ t[k] < Pow2(k)
      /\ t[0] = 0
      /\ \A i \in 1 .. n : t[i] = t[i - 1] + b[i] * Pow2(i - 1)
  BY <1>2, PrefixValue
<1>6. \A i \in 1 .. n : a[i] \in {0, 1} /\ b[i] \in {0, 1}
  BY DEF BitRow
<1> DEFINE Found(k) == \E i \in 1 .. k : Top(a, b, k, i) /\ b[i] = 1
           E == {k \in 0 .. n : s[k] < t[k] <=> Found(k)}
<1>7. 0 \in E
  BY <1>4, <1>5
<1>8. ASSUME NEW k \in 0 .. n, k # n, k \in E PROVE k + 1 \in E
  <2>1. PICK m \in 1 .. n : m = k + 1
    BY <1>8
  <2>2. PICK d \in Nat : d = Pow2(k)
    BY Pow2Step
  <2>3. PICK x \in Nat : x = s[k] /\ x < d
    BY <1>4, <2>2
  <2>4. PICK y \in Nat : y = t[k] /\ y < d
    BY <1>5, <2>2
  <2>5. s[m] = x + a[m] * d /\ t[m] = y + b[m] * d
    <3>1. m - 1 = k
      BY <2>1
    <3> QED BY <1>4, <1>5, <2>2, <2>3, <2>4, <3>1
  <2>6. x < y <=> Found(k)
    BY <1>8, <2>3, <2>4
  <2>7. CASE a[m] = b[m]
    <3>1. s[m] < t[m] <=> x < y
      <4>1. CASE a[m] = 0
        BY <2>5, <2>7, <4>1
      <4>2. CASE a[m] = 1
        BY <2>5, <2>7, <4>2
      <4> QED BY <1>6, <4>1, <4>2
    <3>2. Found(m) <=> Found(k)
      <4>1. ~ Top(a, b, m, m)
        BY <2>7 DEF Top
      <4>2. ASSUME NEW i \in 1 .. k PROVE Top(a, b, m, i) <=> Top(a, b, k, i)
        <5>1. i + 1 .. m = (i + 1 .. k) \cup {m}
          BY <2>1
        <5> QED BY <2>7, <5>1 DEF Top
      <4>3. 1 .. m = (1 .. k) \cup {m}
        BY <2>1
      <4> QED BY <4>1, <4>2, <4>3
    <3> QED BY <2>1, <2>6, <3>1, <3>2
  <2>8. CASE a[m] # b[m]
    <3>1. Top(a, b, m, m)
      <4>1. m + 1 .. m = {}
        OBVIOUS
      <4> QED BY <2>8, <4>1 DEF Top
    <3>2. \A i \in 1 .. k : ~ Top(a, b, m, i)
      <4>1. \A i \in 1 .. k : m \in i + 1 .. m
        BY <2>1
      <4> QED BY <2>8, <4>1 DEF Top
    <3>3. Found(m) <=> b[m] = 1
      <4>1. 1 .. m = (1 .. k) \cup {m}
        BY <2>1
      <4> QED BY <3>1, <3>2, <4>1
    <3>4. CASE b[m] = 1
      <4>1. a[m] = 0
        BY <1>6, <2>8, <3>4
      <4>2. s[m] < t[m]
        BY <2>3, <2>4, <2>5, <3>4, <4>1
      <4> QED BY <2>1, <3>3, <3>4, <4>2
    <3>5. CASE b[m] = 0
      <4>1. a[m] = 1
        BY <1>6, <2>8, <3>5
      <4>2. ~ (s[m] < t[m])
        BY <2>3, <2>4, <2>5, <3>5, <4>1
      <4> QED BY <2>1, <3>3, <3>5, <4>2
    <3> QED BY <1>6, <3>4, <3>5
  <2> QED BY <2>7, <2>8
<1> HIDE DEF E
<1>9. 0 .. n \subseteq E
  BY <1>7, <1>8, UpTo
<1>10. n \in E
  BY <1>9
<1> QED BY <1>3, <1>10 DEF E

(* lt compares the values of two rows.                                      *)
LEMMA LtIs ==
  ASSUME NEW p \in Nat, p > 1, NEW n \in Nat, n > 0, NEW a \in BitRow(n), NEW b \in BitRow(n)
  PROVE  Lt(p, a, b) = IF Value(a) < Value(b) THEN 1 ELSE 0
<1>1. PICK d \in BitRow(n) : d = Differ(p, a, b)
  BY DifferIs
<1>2. \A i \in 1 .. n : d[i] = 1 <=> \E j \in i .. n : a[j] # b[j]
  BY <1>1, DifferIs
<1>3. PICK e : e = [i \in 1 .. n |-> IF i = n THEN d[i] ELSE Sub(p, d[i], d[i + 1])]
  OBVIOUS
<1>4. PICK v : v = [i \in 1 .. n |-> Mul(p, e[i], b[i])]
  OBVIOUS
<1>5. Lt(p, a, b) = SumOf(v) % p
  <2>1. Len(d) = n /\ DOMAIN d = 1 .. n /\ DOMAIN b = 1 .. n
    BY DEF BitRow
  <2>2. Lt(p, a, b) = Total(p, v)
    BY <1>1, <1>3, <1>4, <2>1 DEF Lt
  <2> QED BY <2>2 DEF Total
<1>6. \A i \in 1 .. n : a[i] \in {0, 1} /\ b[i] \in {0, 1} /\ d[i] \in {0, 1}
  BY DEF BitRow
<1>7. ASSUME NEW i \in 1 .. n PROVE e[i] = IF Top(a, b, n, i) THEN 1 ELSE 0
  <2>1. CASE i = n
    <3>1. i .. n = {i} /\ i + 1 .. n = {}
      BY <2>1
    <3>2. d[i] = 1 <=> Top(a, b, n, i)
      BY <1>2, <3>1 DEF Top
    <3> QED BY <1>3, <1>6, <2>1, <3>2
  <2>2. CASE i # n
    <3>1. PICK k \in 1 .. n : k = i + 1
      BY <2>2
    <3>2. i .. n = {i} \cup (k .. n)
      BY <3>1
    <3>3. d[i] = 1 <=> a[i] # b[i] \/ d[k] = 1
      BY <1>2, <3>2
    <3>4. Top(a, b, n, i) <=> a[i] # b[i] /\ d[k] = 0
      <4>1. d[k] = 0 <=> \A j \in k .. n : a[j] = b[j]
        BY <1>2, <1>6
      <4> QED BY <3>1, <4>1 DEF Top
    <3>5. e[i] = Sub(p, d[i], d[k])
      BY <1>3, <2>2, <3>1
    <3>6. Sub(p, d[i], d[k]) = d[i] - d[k]
      <4>1. PICK f \in {0, 1} : f = d[i]
        BY <1>6
      <4>2. PICK g \in {0, 1} : g = d[k]
        BY <1>6
      <4>3. f >= g
        BY <1>6, <3>3, <4>1, <4>2
      <4>4. Sub(p, f, g) = f - g
        BY <4>3, BitOps
      <4> QED BY <4>1, <4>2, <4>4
    <3> QED BY <1>6, <3>3, <3>4, <3>5, <3>6
  <2> QED BY <2>1, <2>2
<1>8. \A i, j \in 1 .. n : Top(a, b, n, i) /\ Top(a, b, n, j) => i = j
  <2> SUFFICES ASSUME NEW i \in 1 .. n, NEW j \in 1 .. n, Top(a, b, n, i), Top(a, b, n, j), i < j
               PROVE  FALSE
    OBVIOUS
  <2>1. j \in i + 1 .. n
    OBVIOUS
  <2> QED BY <2>1 DEF Top
<1> DEFINE Hit(i) == Top(a, b, n, i) /\ b[i] = 1
<1>9. \A i \in 1 .. n : v[i] = IF Hit(i) THEN 1 ELSE 0
  <2> SUFFICES ASSUME NEW i \in 1 .. n PROVE v[i] = IF Hit(i) THEN 1 ELSE 0
    OBVIOUS
  <2>1. PICK x \in {0, 1} : x = e[i]
    BY <1>7
  <2>2. PICK y \in {0, 1} : y = b[i]
    BY <1>6
  <2>3. Mul(p, x, y) = IF x = 1 /\ y = 1 THEN 1 ELSE 0
    BY BitOps
  <2>4. v[i] = Mul(p, x, y)
    BY <1>4, <2>1, <2>2
  <2> QED BY <1>7, <2>1, <2>2, <2>3, <2>4
<1>10. PICK s : s = [k \in 0 .. n |-> IF \E i \in 1 .. k : Hit(i) THEN 1 ELSE 0]
  OBVIOUS
<1>11. Sums(s, v, n)
  <2> HIDE DEF Hit
  <2>1. s \in [0 .. n -> Int] /\ s[0] = 0
    BY <1>10
  <2>2. ASSUME NEW k \in 1 .. n PROVE s[k] = s[k - 1] + v[k]
    <3>1. PICK m \in 0 .. n : m = k - 1
      OBVIOUS
    <3>2. 1 .. k = (1 .. m) \cup {k}
      BY <3>1
    <3>3. k \in 0 .. n
      OBVIOUS
    <3>4. /\ s[k] = IF \E i \in 1 .. k : Hit(i) THEN 1 ELSE 0
          /\ s[m] = IF \E i \in 1 .. m : Hit(i) THEN 1 ELSE 0
      BY <1>10, <3>3
    <3>5. CASE Hit(k)
      <4>1. \A i \in 1 .. m : ~ Hit(i)
        <5>1. \A i \in 1 .. m : i \in 1 .. n /\ i # k
          BY <3>1
        <5> QED BY <1>8, <3>5, <5>1 DEF Hit
      <4>2. s[k] = 1 /\ s[m] = 0 /\ v[k] = 1
        BY <1>9, <3>2, <3>4, <3>5, <4>1
      <4> QED BY <3>1, <4>2
    <3>6. CASE ~ Hit(k)
      <4>1. (\E i \in 1 .. k : Hit(i)) <=> (\E i \in 1 .. m : Hit(i))
        BY <3>2, <3>6
      <4>2. s[k] = s[m] /\ v[k] = 0 /\ s[m] \in Int
        BY <1>9, <3>4, <3>6, <4>1
      <4> QED BY <3>1, <4>2
    <3> QED BY <3>5, <3>6
  <2> QED BY <2>1, <2>2 DEF Sums
<1>12. SumOf(v) = s[n]
  <2>1. DOMAIN v = 1 .. n /\ Len(v) = n
    BY <1>4
  <2> QED BY <1>11, <2>1, SumIs
<1>13. s[n] = IF \E i \in 1 .. n : Hit(i) THEN 1 ELSE 0
  BY <1>10
<1>14. Value(a) < Value(b) <=> \E i \in 1 .. n : Hit(i)
  BY TopDecides
<1>15. 0 % p = 0 /\ 1 % p = 1
  OBVIOUS
<1> HIDE DEF Hit
<1> QED BY <1>5, <1>12, <1>13, <1>14, <1>15

-----------------------------------------------------------------------------
(***************************************************************************)
(* B2A, add_bit and A2B.                                                   *)
(***************************************************************************)
(* B2A is the value of the bits in the field.                               *)
LEMMA B2AIs ==
  ASSUME NEW p \in Nat, p > 1, NEW n \in Nat, NEW a \in BitRow(n)
  PROVE  B2A(p, a) = Value(a) % p
<1>1. DOMAIN a = 1 .. n
  BY DEF BitRow
<1>2. PICK v : v = [i \in 1 .. n |-> Mul(p, a[i], Pow2(i - 1))]
  OBVIOUS
<1>3. PICK w : w = Weighted(a)
  OBVIOUS
<1>4. /\ DOMAIN w = 1 .. n /\ Len(w) = n
      /\ \A i \in 1 .. n : w[i] = a[i] * Pow2(i - 1) /\ w[i] \in Nat
      /\ Value(a) = SumOf(w)
  BY <1>3, WeightedIs
<1>5. ASSUME NEW i \in 1 .. n PROVE v[i] \in Int /\ w[i] \in Int /\ v[i] % p = w[i] % p
  <2>1. PICK x \in Int : x = w[i]
    BY <1>4
  <2>2. v[i] = x % p
    BY <1>2, <1>4, <2>1 DEF Mul
  <2>3. PICK r \in 0 .. p - 1 : r = x % p
    BY Division
  <2>4. r % p = r
    BY Small
  <2> QED BY <2>1, <2>2, <2>3, <2>4
<1>6. PICK s : Sums(s, v, n)
  BY <1>5, SumsExist
<1>7. PICK t : Sums(t, w, n)
  BY <1>5, SumsExist
<1>8. s[n] % p = t[n] % p
  BY <1>5, <1>6, <1>7, SumsCongruent
<1>9. SumOf(v) = s[n] /\ SumOf(w) = t[n]
  <2>1. DOMAIN v = 1 .. n /\ Len(v) = n
    BY <1>2
  <2> QED BY <1>4, <1>6, <1>7, <2>1, SumIs
<1>10. B2A(p, a) = SumOf(v) % p
  BY <1>1, <1>2 DEF B2A, Total
<1> QED BY <1>4, <1>8, <1>9, <1>10

(* One place of the addition: sum and carry.                                *)
LEMMA CarryIs ==
  ASSUME NEW p \in Nat, p > 1, NEW x \in {0, 1}, NEW y \in {0, 1}, NEW c \in {0, 1}
  PROVE  /\ SumBit(p, x, y, c) \in {0, 1}
         /\ Carry(p, x, y, c) = IF x + y + c >= 2 THEN 1 ELSE 0
         /\ x + y + c = SumBit(p, x, y, c) + 2 * Carry(p, x, y, c)
         /\ Xor(p, x, y) \in {0, 1}
         /\ Mul(p, x, y) = IF x + y >= 2 THEN 1 ELSE 0
         /\ x + y = Xor(p, x, y) + 2 * Mul(p, x, y)
<1>1. \A a, b \in {0, 1} : /\ Xor(p, a, b) = IF a = b THEN 0 ELSE 1
                           /\ Mul(p, a, b) = IF a = 1 /\ b = 1 THEN 1 ELSE 0
  BY BitOps
<1>2. \A a, b \in {0, 1} : Xor(p, a, b) \in {0, 1} /\ Mul(p, a, b) \in {0, 1}
  BY <1>1
<1>3. PICK u \in {0, 1} : u = Xor(p, x, y)
  BY <1>2
<1>4. PICK s \in {0, 1} : s = Xor(p, u, c)
  BY <1>2
<1>5. s = SumBit(p, x, y, c)
  BY <1>3, <1>4 DEF SumBit
<1>6. PICK v \in {0, 1} : v = Xor(p, y, c)
  BY <1>2
<1>7. PICK w \in {0, 1} : w = Xor(p, x, c)
  BY <1>2
<1>8. PICK z \in {0, 1} : z = Mul(p, v, w)
  BY <1>2
<1>9. PICK d \in {0, 1} : d = Xor(p, z, c)
  BY <1>2
<1>10. d = Carry(p, x, y, c)
  BY <1>6, <1>7, <1>8, <1>9 DEF Carry
<1>11. /\ u = IF x = y THEN 0 ELSE 1
       /\ s = IF u = c THEN 0 ELSE 1
       /\ v = IF y = c THEN 0 ELSE 1
       /\ w = IF x = c THEN 0 ELSE 1
       /\ z = IF v = 1 /\ w = 1 THEN 1 ELSE 0
       /\ d = IF z = c THEN 0 ELSE 1
       /\ Mul(p, x, y) = IF x = 1 /\ y = 1 THEN 1 ELSE 0
  BY <1>1, <1>3, <1>4, <1>6, <1>7, <1>8, <1>9
<1>12. d = IF x + y + c >= 2 THEN 1 ELSE 0
  BY <1>11
<1>13. x + y + c = s + 2 * d
  BY <1>11
<1>14. PICK m \in {0, 1} : m = Mul(p, x, y)
  BY <1>2
<1>15. m = (IF x + y >= 2 THEN 1 ELSE 0) /\ x + y = u + 2 * m
  BY <1>11, <1>14
<1> QED BY <1>3, <1>5, <1>10, <1>12, <1>13, <1>14, <1>15

(* Whether the first i bits of two rows of prefix values s and t carry.     *)
Carries(s, t, i) == IF s[i] + t[i] >= Pow2(i) THEN 1 ELSE 0

LEMMA CarriesIs ==
  ASSUME NEW n \in Nat, NEW a \in BitRow(n), NEW b \in BitRow(n),
         NEW s, Sums(s, Weighted(a), n), NEW t, Sums(t, Weighted(b), n)
  PROVE  /\ Carries(s, t, 0) = 0
         /\ \A i \in 0 .. n : Carries(s, t, i) \in {0, 1}
         /\ \A i \in 1 .. n : Carries(s, t, i) =
              IF a[i] + b[i] + Carries(s, t, i - 1) >= 2 THEN 1 ELSE 0
<1>1. /\ \A k \in 0 .. n : s[k] \in Nat /\ s[k] < Pow2(k)
      /\ s[0] = 0
      /\ \A i \in 1 .. n : s[i] = s[i - 1] + a[i] * Pow2(i - 1)
  BY PrefixValue
<1>2. /\ \A k \in 0 .. n : t[k] \in Nat /\ t[k] < Pow2(k)
      /\ t[0] = 0
      /\ \A i \in 1 .. n : t[i] = t[i - 1] + b[i] * Pow2(i - 1)
  BY PrefixValue
<1>3. Carries(s, t, 0) = 0
  BY <1>1, <1>2, Pow2Zero DEF Carries
<1>4. \A i \in 0 .. n : Carries(s, t, i) \in {0, 1}
  BY DEF Carries
<1>5. ASSUME NEW i \in 1 .. n
      PROVE  Carries(s, t, i) = IF a[i] + b[i] + Carries(s, t, i - 1) >= 2 THEN 1 ELSE 0
  <2>1. PICK k \in 0 .. n : k = i - 1
    OBVIOUS
  <2>2. PICK d \in Nat : d = Pow2(k) /\ Pow2(i) = 2 * d /\ d > 0
    BY <2>1, Pow2Step
  <2>3. PICK x \in Nat : x = s[k] /\ x < d
    BY <1>1, <2>2
  <2>4. PICK y \in Nat : y = t[k] /\ y < d
    BY <1>2, <2>2
  <2>5. PICK u \in {0, 1} : u = a[i]
    BY DEF BitRow
  <2>6. PICK v \in {0, 1} : v = b[i]
    BY DEF BitRow
  <2>7. s[i] = x + u * d /\ t[i] = y + v * d
    BY <1>1, <1>2, <2>1, <2>2, <2>3, <2>4, <2>5, <2>6
  <2>8. PICK c \in {0, 1} : c = Carries(s, t, k)
    BY <1>4
  <2>9. c = IF x + y >= d THEN 1 ELSE 0
    BY <2>2, <2>3, <2>4, <2>8 DEF Carries
  <2>10. x + u * d + (y + v * d) >= 2 * d <=> u + v + c >= 2
    <3>1. CASE u = 0 /\ v = 0
      BY <2>3, <2>4, <2>9, <3>1
    <3>2. CASE u = 0 /\ v = 1
      BY <2>3, <2>4, <2>9, <3>2
    <3>3. CASE u = 1 /\ v = 0
      BY <2>3, <2>4, <2>9, <3>3
    <3>4. CASE u = 1 /\ v = 1
      BY <2>3, <2>4, <2>9, <3>4
    <3> QED BY <3>1, <3>2, <3>3, <3>4
  <2>11. Carries(s, t, i) = IF x + u * d + (y + v * d) >= 2 * d THEN 1 ELSE 0
    BY <2>2, <2>7 DEF Carries
  <2> QED BY <2>1, <2>5, <2>6, <2>8, <2>10, <2>11
<1> QED BY <1>3, <1>4, <1>5


(* add_bit without its last carry is addition modulo 2 to the n.            *)
LEMMA AddBitIs ==
  ASSUME NEW p \in Nat, p > 1, NEW n \in Nat, n > 0, NEW a \in BitRow(n), NEW b \in BitRow(n)
  PROVE  DropCarry(AddBit(p, a, b)) = Decompose(Value(a) + Value(b), n)
<1> DEFINE Rec(g) == g = [i \in 1 .. n |-> IF i = 1 THEN Mul(p, a[1], b[1])
                                           ELSE Carry(p, a[i], b[i], g[i - 1])]
           Row(g) == [i \in 1 .. n |-> IF i = 1 THEN Xor(p, a[1], b[1])
                                       ELSE SumBit(p, a[i], b[i], g[i - 1])]
<1>0. DOMAIN a = 1 .. n /\ Len(a) = n /\ \A i \in 1 .. n : a[i] \in {0, 1} /\ b[i] \in {0, 1}
  BY DEF BitRow
<1>1. PICK s : Sums(s, Weighted(a), n)
  <2>1. \A i \in 1 .. n : Weighted(a)[i] \in Int
    BY WeightedIs
  <2> QED BY <2>1, SumsExist
<1>2. PICK t : Sums(t, Weighted(b), n)
  <2>1. \A i \in 1 .. n : Weighted(b)[i] \in Int
    BY WeightedIs
  <2> QED BY <2>1, SumsExist
<1>3. /\ Carries(s, t, 0) = 0
      /\ \A i \in 0 .. n : Carries(s, t, i) \in {0, 1}
      /\ \A i \in 1 .. n : Carries(s, t, i) =
           IF a[i] + b[i] + Carries(s, t, i - 1) >= 2 THEN 1 ELSE 0
  BY <1>1, <1>2, CarriesIs
<1>4. AddBit(p, a, b) = Row(CHOOSE g : Rec(g)) \o <<(CHOOSE g : Rec(g))[n]>>
  BY <1>0 DEF AddBit
<1>5. ASSUME NEW i \in 1 .. n
      PROVE  /\ i = 1 => Mul(p, a[1], b[1]) = Carries(s, t, i)
             /\ i # 1 => Carry(p, a[i], b[i], Carries(s, t, i - 1)) = Carries(s, t, i)
             /\ i = 1 => /\ Xor(p, a[1], b[1]) \in {0, 1}
                         /\ a[i] + b[i] + Carries(s, t, i - 1)
                              = Xor(p, a[1], b[1]) + 2 * Carries(s, t, i)
             /\ i # 1 => LET x == SumBit(p, a[i], b[i], Carries(s, t, i - 1)) IN
                         /\ x \in {0, 1}
                         /\ a[i] + b[i] + Carries(s, t, i - 1) = x + 2 * Carries(s, t, i)
  <2>1. PICK x \in {0, 1} : x = a[i]
    BY <1>0
  <2>2. PICK y \in {0, 1} : y = b[i]
    BY <1>0
  <2>3. PICK c \in {0, 1} : c = Carries(s, t, i - 1)
    <3>1. i - 1 \in 0 .. n
      OBVIOUS
    <3> QED BY <1>3, <3>1
  <2>4. PICK d \in {0, 1} : d = Carries(s, t, i)
    BY <1>3
  <2>5. d = IF x + y + c >= 2 THEN 1 ELSE 0
    BY <1>3, <2>1, <2>2, <2>3, <2>4
  <2>6. /\ SumBit(p, x, y, c) \in {0, 1}
        /\ Carry(p, x, y, c) = IF x + y + c >= 2 THEN 1 ELSE 0
        /\ x + y + c = SumBit(p, x, y, c) + 2 * Carry(p, x, y, c)
        /\ Xor(p, x, y) \in {0, 1}
        /\ Mul(p, x, y) = IF x + y >= 2 THEN 1 ELSE 0
        /\ x + y = Xor(p, x, y) + 2 * Mul(p, x, y)
    BY CarryIs
  <2>7. i = 1 => c = 0
    <3>1. i = 1 => i - 1 = 0
      OBVIOUS
    <3>2. PICK h : h = i - 1
      OBVIOUS
    <3>3. c = Carries(s, t, h) /\ (i = 1 => h = 0)
      BY <2>3, <3>1, <3>2
    <3>4. Carries(s, t, 0) = 0
      BY <1>3
    <3>5. CASE i = 1
      <4>1. h = 0
        BY <3>3, <3>5
      <4> QED BY <3>3, <3>4, <4>1
    <3> QED BY <3>5
  <2>8. CASE i = 1
    <3>1. c = 0 /\ a[1] = x /\ b[1] = y
      BY <2>1, <2>2, <2>7, <2>8
    <3>2. PICK z \in {0, 1} : z = Xor(p, x, y)
      BY <2>6
    <3>3. Mul(p, x, y) = d
      BY <2>5, <2>6, <3>1
    <3>4. x + y + c = z + 2 * d
      BY <2>6, <3>1, <3>2, <3>3
    <3>5. Xor(p, a[1], b[1]) = z /\ Mul(p, a[1], b[1]) = d
      BY <3>1, <3>2, <3>3
    <3> QED BY <2>1, <2>2, <2>3, <2>4, <2>8, <3>2, <3>4, <3>5
  <2>9. CASE i # 1
    <3>1. PICK z \in {0, 1} : z = SumBit(p, x, y, c)
      BY <2>6
    <3>2. Carry(p, x, y, c) = d
      BY <2>5, <2>6
    <3>3. x + y + c = z + 2 * d
      BY <2>6, <3>1, <3>2
    <3>4. SumBit(p, a[i], b[i], Carries(s, t, i - 1)) = z
          /\ Carry(p, a[i], b[i], Carries(s, t, i - 1)) = d
      BY <2>1, <2>2, <2>3, <3>1, <3>2
    <3> QED BY <2>1, <2>2, <2>3, <2>4, <2>9, <3>1, <3>3, <3>4
  <2> QED BY <2>8, <2>9
<1>6. Rec([i \in 1 .. n |-> Carries(s, t, i)])
  <2>1. PICK w : w = [i \in 1 .. n |-> Carries(s, t, i)]
    OBVIOUS
  <2>2. \A i \in 1 .. n : w[i] = IF i = 1 THEN Mul(p, a[1], b[1])
                                 ELSE Carry(p, a[i], b[i], w[i - 1])
    <3>1. \A i \in 1 .. n : i # 1 => i - 1 \in 1 .. n
      OBVIOUS
    <3> QED BY <1>5, <2>1, <3>1
  <2>3. Rec(w)
    BY <2>1, <2>2
  <2> QED BY <2>1, <2>3
<1>7. PICK f : f = CHOOSE g : Rec(g)
  OBVIOUS
<1>8. Rec(f)
  BY <1>6, <1>7
<1>9. \A i \in 1 .. n : f[i] = IF i = 1 THEN Mul(p, a[1], b[1]) ELSE Carry(p, a[i], b[i], f[i - 1])
  BY <1>8
<1> DEFINE E == {i \in 1 .. n : f[i] = Carries(s, t, i)}
<1>10. 1 \in E
  BY <1>5, <1>9
<1>11. ASSUME NEW i \in 1 .. n, i # n, i \in E PROVE i + 1 \in E
  <2>1. i + 1 \in 1 .. n /\ i + 1 # 1 /\ (i + 1) - 1 = i
    BY <1>11
  <2> QED BY <1>5, <1>9, <1>11, <2>1
<1> HIDE DEF E, Rec
<1>12. \A i \in 1 .. n : f[i] = Carries(s, t, i)
  <2>1. 1 .. n \subseteq E
    <3>1. PICK m \in Int : m = 1
      OBVIOUS
    <3>2. m .. n \subseteq E
      BY <1>10, <1>11, <3>1, UpTo
    <3> QED BY <3>1, <3>2
  <2> QED BY <2>1 DEF E
<1>13. PICK c : c = Row(f)
  OBVIOUS
<1>14. ASSUME NEW i \in 1 .. n
       PROVE  c[i] \in {0, 1} /\ a[i] + b[i] + Carries(s, t, i - 1) = c[i] + 2 * Carries(s, t, i)
  <2>1. i # 1 => f[i - 1] = Carries(s, t, i - 1)
    <3>1. i # 1 => i - 1 \in 1 .. n
      OBVIOUS
    <3> QED BY <1>12, <3>1
  <2>2. c[i] = IF i = 1 THEN Xor(p, a[1], b[1]) ELSE SumBit(p, a[i], b[i], f[i - 1])
    BY <1>13
  <2> QED BY <1>5, <2>1, <2>2
<1>15. c \in BitRow(n)
  BY <1>13, <1>14 DEF BitRow
<1>16. DropCarry(AddBit(p, a, b)) = c
  <2>1. PICK u \in Nat : u = 1
    OBVIOUS
  <2>2. PICK o : o = <<f[n]>>
    OBVIOUS
  <2>3. o \in BitRow(u)
    <3>1. f[n] \in {0, 1}
      BY <1>3, <1>12
    <3> QED BY <2>1, <2>2, <3>1 DEF BitRow
  <2>4. PICK x : x = c \o o
    OBVIOUS
  <2>5. PICK m \in Nat : m = n + u
    OBVIOUS
  <2>6. x \in BitRow(m) /\ \A i \in 1 .. n : x[i] = c[i]
    <3>1. AreJoined(c \o o, c, o, n, u)
      BY <1>15, <2>3, JoinedAre
    <3> QED BY <2>4, <2>5, <3>1 DEF AreJoined
  <2>7. AddBit(p, a, b) = x
    BY <1>4, <1>7, <1>13, <2>2, <2>4
  <2>8. PICK z \in 0 .. m : z = 0
    BY <2>5
  <2>9. n \in z .. m
    BY <2>5, <2>8
  <2>10. /\ SubSeq(x, z + 1, n) \in BitRow(n - z)
         /\ \A k \in 1 .. n - z : SubSeq(x, z + 1, n)[k] = x[z + k]
    BY <2>6, <2>9, PartIs
  <2>11. Front(x) = SubSeq(x, z + 1, n)
    <3>1. Len(x) - 1 = n
      BY <2>1, <2>5, <2>6 DEF BitRow
    <3> QED BY <2>8, <3>1 DEF Front
  <2>12. Front(x) \in BitRow(n) /\ \A k \in 1 .. n : Front(x)[k] = c[k]
    <3>1. n - z = n /\ \A k \in 1 .. n : z + k = k
      BY <2>8
    <3> QED BY <2>6, <2>10, <2>11, <3>1
  <2>13. Front(x) = c
    BY <1>15, <2>12 DEF BitRow
  <2> QED BY <2>7, <2>13 DEF DropCarry
<1>17. /\ \A k \in 0 .. n : s[k] \in Nat /\ s[k] < Pow2(k)
       /\ s[0] = 0
       /\ \A i \in 1 .. n : s[i] = s[i - 1] + a[i] * Pow2(i - 1)
  BY <1>1, PrefixValue
<1>18. /\ \A k \in 0 .. n : t[k] \in Nat /\ t[k] < Pow2(k)
       /\ t[0] = 0
       /\ \A i \in 1 .. n : t[i] = t[i - 1] + b[i] * Pow2(i - 1)
  BY <1>2, PrefixValue
<1>19. PICK u : u = [i \in 0 .. n |-> s[i] + t[i] - Carries(s, t, i) * Pow2(i)]
  OBVIOUS
<1>20. Sums(u, Weighted(c), n)
  <2>1. \A i \in 0 .. n : u[i] \in Int
    <3> SUFFICES ASSUME NEW i \in 0 .. n PROVE u[i] \in Int
      OBVIOUS
    <3>1. PICK d \in Int : d = Pow2(i)
      BY Pow2Step
    <3>2. PICK e \in Int : e = Carries(s, t, i)
      BY <1>3
    <3>3. e * d \in Int /\ s[i] \in Int /\ t[i] \in Int
      BY <1>17, <1>18
    <3>4. PICK ed \in Int : ed = e * d
      BY <3>3
    <3>5. u[i] = s[i] + t[i] - ed
      BY <1>19, <3>1, <3>2, <3>4
    <3> QED BY <3>3, <3>4, <3>5
  <2>2. u[0] = 0
    <3>1. 0 \in 0 .. n
      OBVIOUS
    <3> QED BY <1>3, <1>17, <1>18, <1>19, <3>1, Pow2Zero
  <2>3. ASSUME NEW i \in 1 .. n PROVE u[i] = u[i - 1] + Weighted(c)[i]
    <3>1. PICK k \in 0 .. n : k = i - 1
      OBVIOUS
    <3>2. PICK d \in Nat : d = Pow2(k) /\ Pow2(i) = 2 * d
      BY <3>1, Pow2Step
    <3>3. PICK x \in Nat : x = s[k]
      BY <1>17
    <3>4. PICK y \in Nat : y = t[k]
      BY <1>18
    <3>5. PICK g \in {0, 1} : g = a[i]
      BY <1>0
    <3>6. PICK h \in {0, 1} : h = b[i]
      BY <1>0
    <3>7. PICK e \in {0, 1} : e = Carries(s, t, k)
      BY <1>3
    <3>8. PICK q \in {0, 1} : q = Carries(s, t, i)
      BY <1>3
    <3>9. PICK r \in {0, 1} : r = c[i]
      BY <1>14
    <3>10. g + h + e = r + 2 * q
      BY <1>14, <3>1, <3>5, <3>6, <3>7, <3>8, <3>9
    <3>11. s[i] = x + g * d /\ t[i] = y + h * d
      BY <1>17, <1>18, <3>1, <3>2, <3>3, <3>4, <3>5, <3>6
    <3>12. u[k] = x + y - e * d
      BY <1>19, <3>2, <3>3, <3>4, <3>7
    <3>13. u[i] = x + g * d + (y + h * d) - q * (2 * d)
      BY <1>19, <3>2, <3>8, <3>11
    <3>14. Weighted(c)[i] = r * d
      BY <1>15, <3>1, <3>2, <3>9, WeightedIs
    <3>15. g * d + h * d - q * (2 * d) = r * d - e * d
      <4>1. (g + h + e) * d = (r + 2 * q) * d
        BY <3>10
      <4>2. (g + h + e) * d = g * d + h * d + e * d
        OBVIOUS
      <4>3. (r + 2 * q) * d = r * d + q * (2 * d)
        OBVIOUS
      <4>4. PICK A \in Int : A = g * d
        OBVIOUS
      <4>5. PICK B \in Int : B = h * d
        OBVIOUS
      <4>6. PICK C \in Int : C = e * d
        OBVIOUS
      <4>7. PICK D \in Int : D = r * d
        OBVIOUS
      <4>8. PICK F \in Int : F = q * (2 * d)
        OBVIOUS
      <4>9. A + B + C = D + F
        BY <4>1, <4>2, <4>3, <4>4, <4>5, <4>6, <4>7, <4>8
      <4> QED BY <4>4, <4>5, <4>6, <4>7, <4>8, <4>9
    <3>16. PICK A \in Int : A = g * d
      OBVIOUS
    <3>17. PICK B \in Int : B = h * d
      OBVIOUS
    <3>18. PICK C \in Int : C = e * d
      OBVIOUS
    <3>19. PICK D \in Int : D = r * d
      OBVIOUS
    <3>20. PICK F \in Int : F = q * (2 * d)
      OBVIOUS
    <3>21. x + A + (y + B) - F = x + y - C + D
      BY <3>15, <3>16, <3>17, <3>18, <3>19, <3>20
    <3> QED BY <3>1, <3>12, <3>13, <3>14, <3>16, <3>17, <3>18, <3>19, <3>20, <3>21
  <2>4. u \in [0 .. n -> Int]
    BY <1>19, <2>1
  <2> QED BY <2>2, <2>3, <2>4 DEF Sums
<1>21. Value(c) = u[n] /\ Value(a) = s[n] /\ Value(b) = t[n]
  BY <1>1, <1>2, <1>15, <1>20, WeightedIs, SumIs
<1>22. PICK x \in Nat : x = s[n] + t[n]
  BY <1>17, <1>18
<1>23. PICK m \in Nat : m = Pow2(n) /\ m > 0
  BY Pow2Step
<1>24. PICK r \in 0 .. m - 1 : r = Value(c)
  BY <1>15, <1>23, BitsAreDigits
<1>25. PICK k \in Int : k = Carries(s, t, n)
  BY <1>3
<1>26. x = k * m + r
  <2>1. u[n] = x - k * m
    <3>1. n \in 0 .. n
      OBVIOUS
    <3>2. u[n] = s[n] + t[n] - Carries(s, t, n) * Pow2(n)
      BY <1>19, <3>1
    <3>3. PICK A \in Int : A = k * m
      OBVIOUS
    <3>4. u[n] = s[n] + t[n] - A
      BY <1>23, <1>25, <3>2, <3>3
    <3>5. s[n] + t[n] - A = x - A
      <4>1. PICK B \in Int : B = s[n]
        BY <1>17, <3>1
      <4>2. PICK C \in Int : C = t[n]
        BY <1>18, <3>1
      <4> QED BY <1>22, <4>1, <4>2
    <3> QED BY <3>3, <3>4, <3>5
  <2>2. PICK A \in Int : A = k * m
    OBVIOUS
  <2> QED BY <1>21, <1>24, <2>1, <2>2
<1>27. x % m = r
  BY <1>23, <1>26, DivIs
<1>28. c = Decompose(x, n)
  BY <1>15, <1>23, <1>24, <1>27, DigitsOfRemainder
<1> QED BY <1>16, <1>21, <1>22, <1>28

(* Numbers with one remainder have the same digits.                         *)
LEMMA SameDigits ==
  ASSUME NEW n \in Nat, NEW x \in Nat, NEW y \in Nat, x % Pow2(n) = y % Pow2(n)
  PROVE  Decompose(x, n) = Decompose(y, n)
<1>1. PICK a \in BitRow(n) : a = Decompose(x, n)
  BY DecomposeIs
<1>2. Value(a) = y % Pow2(n)
  BY <1>1, ValueOfDigits
<1> QED BY <1>1, <1>2, DigitsOfRemainder

LEMMA ModSub ==
  ASSUME NEW p \in Nat, p > 0, NEW x \in 0 .. p - 1, NEW y \in 0 .. p - 1
  PROVE  Sub(p, x, y) \in 0 .. p - 1 /\ Sub(p, x, y) = IF x >= y THEN x - y ELSE x - y + p
<1>1. CASE x >= y
  <2>1. x - y \in 0 .. p - 1
    BY <1>1
  <2>2. PICK z \in 0 .. p - 1 : z = x - y
    BY <2>1
  <2>3. z % p = z
    BY Small
  <2> QED BY <1>1, <2>2, <2>3 DEF Sub
<1>2. CASE x < y
  <2>1. PICK z \in 0 .. p - 1 : z = x - y + p
    BY <1>2
  <2>2. PICK w \in Int : w = x - y
    OBVIOUS
  <2>3. PICK k \in Int : k = 0 - 1
    OBVIOUS
  <2>4. w = k * p + z
    BY <2>1, <2>2, <2>3
  <2>5. w % p = z
    BY <2>4, DivIs
  <2> QED BY <1>2, <2>1, <2>2, <2>5 DEF Sub
<1> QED BY <1>1, <1>2

(* A2B, however the mask is drawn below p: the digits of a.                 *)
LEMMA A2BIs ==
  ASSUME NEW p \in Nat, p > 1, NEW k \in Nat, k > 0, p < Pow2(k), NEW a \in 0 .. p - 1,
         NEW r \in BitRow(k), Lt(p, r, Decompose(p, k)) = 1
  PROVE  A2B(p, k, a, r) = Decompose(a, k)
<1>1. PICK M \in Nat : M = Pow2(k) /\ M > 0 /\ p < M
  BY Pow2Step
<1>2. \A x \in Nat : x < M => Decompose(x, k) \in BitRow(k) /\ Value(Decompose(x, k)) = x
  <2> SUFFICES ASSUME NEW x \in Nat, x < M
               PROVE  Decompose(x, k) \in BitRow(k) /\ Value(Decompose(x, k)) = x
    OBVIOUS
  <2>1. x \in 0 .. M - 1
    OBVIOUS
  <2>2. x % M = x
    BY <2>1, Small
  <2> QED BY <1>1, <2>2, DecomposeIs, ValueOfDigits
<1>3. PICK R \in Nat : R = Value(r)
  BY BitsAreDigits
<1>4. R < p
  <2>1. PICK d \in BitRow(k) : d = Decompose(p, k) /\ Value(d) = p
    BY <1>1, <1>2
  <2>2. Lt(p, r, d) = IF Value(r) < Value(d) THEN 1 ELSE 0
    BY LtIs
  <2> QED BY <1>3, <2>1, <2>2
<1>5. R \in 0 .. p - 1
  BY <1>4
<1>6. B2A(p, r) = R
  <2>1. B2A(p, r) = R % p
    BY <1>3, B2AIs
  <2> QED BY <1>5, <2>1, Small
<1>7. PICK c \in 0 .. p - 1 : c = Sub(p, a, B2A(p, r)) /\ c = IF a >= R THEN a - R ELSE a - R + p
  <2>1. p > 0
    OBVIOUS
  <2> QED BY <1>5, <1>6, <2>1, ModSub
<1>8. CASE c = 0
  <2>1. a = R
    BY <1>5, <1>7, <1>8
  <2>2. A2B(p, k, a, r) = r
    BY <1>7, <1>8 DEF A2B
  <2> QED BY <1>3, <2>1, <2>2, BitsAreDigits
<1>9. CASE c # 0
  <2>1. PICK f \in BitRow(k) : f = Decompose(c, k) /\ Value(f) = c
    <3>1. c \in Nat /\ c < M
      BY <1>1
    <3> QED BY <1>2, <3>1
  <2>2. PICK y \in Nat : y = 2 * M + c - p
    BY <1>1
  <2>3. PICK tf \in BitRow(k) : tf = Decompose(y, k) /\ Value(tf) = y % M
    BY <1>1, DecomposeIs, ValueOfDigits
  <2>4. PICK l \in {0, 1} : /\ l = Lt(p, r, Decompose(p - c, k))
                            /\ l = IF R + c < p THEN 1 ELSE 0
    <3>1. PICK z \in Nat : z = p - c /\ z < M
      BY <1>1, <1>9
    <3>2. PICK d \in BitRow(k) : d = Decompose(z, k) /\ Value(d) = z
      BY <1>2, <3>1
    <3>3. Lt(p, r, d) = IF Value(r) < Value(d) THEN 1 ELSE 0
      BY LtIs
    <3>4. R < z <=> R + c < p
      BY <3>1
    <3> QED BY <1>3, <3>1, <3>2, <3>3, <3>4
  <2>5. PICK w \in {0, 1} : w = Sub(p, 1, l) /\ w = 1 - l
    <3>1. PICK o \in {0, 1} : o = 1
      OBVIOUS
    <3>2. o >= l
      BY <3>1
    <3>3. Sub(p, o, l) = o - l
      BY <3>2, BitOps
    <3> QED BY <3>1, <3>3
  <2>6. PICK tg : tg = [i \in 1 .. k |-> Add(p, Mul(p, w, tf[i] - f[i]), f[i])]
    OBVIOUS
  <2>7. A2B(p, k, a, r) = DropCarry(AddBit(p, tg, r))
    BY <1>1, <1>7, <1>9, <2>1, <2>2, <2>3, <2>4, <2>5, <2>6 DEF A2B
  <2>8. \A i \in 1 .. k : f[i] \in {0, 1} /\ tf[i] \in {0, 1}
    BY <2>1, <2>3 DEF BitRow
  <2>9. CASE l = 1
    <3>1. tg = f
      <4>1. ASSUME NEW i \in 1 .. k PROVE tg[i] = f[i]
        <5>1. PICK x \in {0, 1} : x = f[i]
          BY <2>8
        <5>2. PICK h \in Int : h = tf[i] - f[i]
          BY <2>8
        <5>3. w = 0
          BY <2>5, <2>9
        <5>4. Mul(p, w, h) = 0
          <6>1. 0 * h = 0 /\ 0 % p = 0
            OBVIOUS
          <6> QED BY <5>3, <6>1 DEF Mul
        <5>5. Add(p, 0, x) = x
          <6>1. 0 % p = 0 /\ 1 % p = 1 /\ 0 + x = x
            OBVIOUS
          <6> QED BY <6>1 DEF Add
        <5> QED BY <2>6, <5>1, <5>2, <5>4, <5>5
      <4> QED BY <2>1, <2>6, <4>1 DEF BitRow
    <3>2. a = c + R
      BY <1>5, <1>7, <2>4, <2>9
    <3>3. DropCarry(AddBit(p, f, r)) = Decompose(Value(f) + Value(r), k)
      BY AddBitIs
    <3> QED BY <1>3, <2>1, <2>7, <3>1, <3>2, <3>3
  <2>10. CASE l = 0
    <3>1. tg = tf
      <4>1. ASSUME NEW i \in 1 .. k PROVE tg[i] = tf[i]
        <5>1. PICK x \in {0, 1} : x = f[i]
          BY <2>8
        <5>2. PICK z \in {0, 1} : z = tf[i]
          BY <2>8
        <5>3. PICK h \in Int : h = z - x
          OBVIOUS
        <5>4. w = 1 /\ 1 * h = h
          BY <2>5, <2>10
        <5>5. Mul(p, w, h) = h % p
          BY <5>4 DEF Mul
        <5>6. PICK g \in Int : g = h % p
          BY Division
        <5>7. (x + g) % p = (x + h) % p
          BY <5>6, ModAdd
        <5>8. g + x = x + g /\ x + h = z /\ z % p = z
          <6>1. 0 % p = 0 /\ 1 % p = 1
            OBVIOUS
          <6> QED BY <5>3, <6>1
        <5>9. Add(p, g, x) = z
          BY <5>7, <5>8 DEF Add
        <5> QED BY <2>6, <5>1, <5>2, <5>3, <5>5, <5>6, <5>9
      <4> QED BY <2>3, <2>6, <4>1 DEF BitRow
    <3>2. a = c + R - p
      BY <1>5, <1>7, <2>4, <2>10
    <3>3. DropCarry(AddBit(p, tf, r)) = Decompose(Value(tf) + Value(r), k)
      BY AddBitIs
    <3>4. PICK v \in Nat : v = y % M
      BY <1>1
    <3>5. PICK n \in Nat : n = v + R
      OBVIOUS
    <3>6. n % M = a % M
      <4>0. R \in Int /\ y \in Int /\ a \in Int /\ M \in Nat /\ M > 0
        BY <1>1
      <4>1. (R + (y % M)) % M = (R + y) % M
        BY <4>0, ModAdd
      <4>2. PICK x \in Int : x = R + y
        OBVIOUS
      <4>3. PICK q \in Int : q = 2
        OBVIOUS
      <4>4. x = a + q * M
        BY <2>2, <3>2, <4>2, <4>3
      <4>5. x % M = a % M
        BY <4>0, <4>4, Congruent
      <4>6. R + (y % M) = n
        BY <3>4, <3>5
      <4> QED BY <4>1, <4>2, <4>5, <4>6
    <3>7. Decompose(n, k) = Decompose(a, k)
      BY <1>1, <3>6, SameDigits
    <3> QED BY <1>3, <2>3, <2>7, <3>1, <3>3, <3>4, <3>5, <3>7
  <2> QED BY <2>9, <2>10
<1> QED BY <1>8, <1>9

-----------------------------------------------------------------------------
(***************************************************************************)
(* Numbers cut into rows of bits.                                          *)
(***************************************************************************)
LEMMA ValueJoined ==
  ASSUME NEW m \in Nat, NEW n \in Nat, NEW a \in BitRow(m), NEW b \in BitRow(n)
  PROVE  Value(a \o b) = Value(a) + Value(b) * Pow2(m)
<1>1. PICK s : Sums(s, Weighted(a), m)
  <2>1. \A i \in 1 .. m : Weighted(a)[i] \in Int
    BY WeightedIs
  <2> QED BY <2>1, SumsExist
<1>2. PICK t : Sums(t, Weighted(b), n)
  <2>1. \A i \in 1 .. n : Weighted(b)[i] \in Int
    BY WeightedIs
  <2> QED BY <2>1, SumsExist
<1>3. /\ \A k \in 0 .. m : s[k] \in Nat
      /\ s[0] = 0
      /\ \A i \in 1 .. m : s[i] = s[i - 1] + a[i] * Pow2(i - 1)
  BY <1>1, PrefixValue
<1>4. /\ \A k \in 0 .. n : t[k] \in Nat
      /\ t[0] = 0
      /\ \A i \in 1 .. n : t[i] = t[i - 1] + b[i] * Pow2(i - 1)
  BY <1>2, PrefixValue
<1>5. PICK l \in Nat : l = m + n
  OBVIOUS
<1>6. PICK c : c = a \o b
  OBVIOUS
<1>7. /\ c \in BitRow(l)
      /\ \A i \in 1 .. m : c[i] = a[i]
      /\ \A i \in 1 .. n : c[m + i] = b[i]
  <2>1. AreJoined(a \o b, a, b, m, n)
    BY JoinedAre
  <2> QED BY <1>5, <1>6, <2>1 DEF AreJoined
<1>8. PICK d \in Nat : d = Pow2(m)
  BY Pow2Step
<1>9. PICK u : u = [i \in 0 .. l |-> IF i <= m THEN s[i] ELSE s[m] + t[i - m] * d]
  OBVIOUS
<1>10. PICK x \in Nat : x = s[m]
  BY <1>3
<1>11. Sums(u, Weighted(c), l)
  <2>1. ASSUME NEW i \in 0 .. l PROVE u[i] \in Int
    <3>1. CASE i <= m
      BY <1>3, <1>9, <3>1
    <3>2. CASE i > m
      <4>1. PICK y \in Nat : y = t[i - m]
        <5>1. i - m \in 0 .. n
          BY <1>5, <3>2
        <5> QED BY <1>4, <5>1
      <4>2. PICK z \in Nat : z = y * d
        OBVIOUS
      <4> QED BY <1>9, <1>10, <3>2, <4>1, <4>2
    <3> QED BY <3>1, <3>2
  <2>2. u[0] = 0
    BY <1>3, <1>9
  <2>3. ASSUME NEW i \in 1 .. l PROVE u[i] = u[i - 1] + Weighted(c)[i]
    <3>1. PICK k \in 0 .. l : k = i - 1
      OBVIOUS
    <3>2. Weighted(c)[i] = c[i] * Pow2(k)
      BY <1>7, <3>1, WeightedIs
    <3>3. CASE i <= m
      <4>1. i \in 1 .. m /\ k <= m /\ i \in 0 .. l
        BY <3>1, <3>3
      <4>2. u[i] = s[i] /\ u[k] = s[k] /\ c[i] = a[i]
        BY <1>7, <1>9, <4>1
      <4>3. s[i] = s[k] + a[i] * Pow2(k)
        BY <1>3, <3>1, <4>1
      <4> QED BY <3>1, <3>2, <4>2, <4>3
    <3>4. CASE i > m
      <4>1. PICK j \in 1 .. n : j = i - m
        BY <1>5, <3>4
      <4>2. PICK h \in 0 .. n : h = j - 1
        OBVIOUS
      <4>3. c[i] = b[j] /\ b[j] \in {0, 1}
        <5>1. m + j = i
          BY <4>1
        <5>2. c[m + j] = b[j]
          BY <1>7
        <5> QED BY <5>1, <5>2 DEF BitRow
      <4>4. PICK f \in Nat : f = Pow2(h)
        BY Pow2Step
      <4>5. Pow2(k) = d * f
        <5>1. m + h = k /\ h \in Nat
          BY <3>1, <4>1, <4>2
        <5> QED BY <1>8, <4>4, <5>1, Pow2Plus
      <4>6. PICK y \in Nat : y = t[h]
        BY <1>4
      <4>7. PICK e \in {0, 1} : e = b[j]
        BY <4>3
      <4>8. t[j] = y + e * f
        BY <1>4, <4>2, <4>4, <4>6, <4>7
      <4>9. u[i] = x + (y + e * f) * d
        BY <1>9, <1>10, <3>4, <4>1, <4>8
      <4>10. u[k] = x + y * d
        <5>1. CASE k = m
          <6>1. h = 0
            BY <3>1, <4>1, <4>2, <5>1
          <6>2. y = 0 /\ y * d = 0
            BY <1>4, <4>6, <6>1
          <6>3. u[k] = s[m]
            BY <1>9, <5>1
          <6> QED BY <1>10, <6>2, <6>3
        <5>2. CASE k > m
          <6>1. k - m = h
            BY <3>1, <4>1, <4>2
          <6> QED BY <1>9, <1>10, <4>6, <5>2, <6>1
        <5> QED BY <3>1, <3>4, <5>1, <5>2
      <4>11. Weighted(c)[i] = e * (d * f)
        BY <3>2, <4>3, <4>5, <4>7
      <4>12. (y + e * f) * d = y * d + e * (d * f)
        OBVIOUS
      <4>13. PICK A \in Int : A = y * d
        OBVIOUS
      <4>14. PICK B \in Int : B = e * (d * f)
        OBVIOUS
      <4> QED BY <3>1, <4>9, <4>10, <4>11, <4>12, <4>13, <4>14
    <3> QED BY <3>3, <3>4
  <2>4. u \in [0 .. l -> Int]
    BY <1>9, <2>1
  <2> QED BY <2>2, <2>3, <2>4 DEF Sums
<1>12. Value(c) = u[l] /\ Value(a) = s[m] /\ Value(b) = t[n]
  BY <1>1, <1>2, <1>7, <1>11, WeightedIs, SumIs
<1>13. u[l] = x + t[n] * d
  <2>1. CASE n = 0
    <3>1. l = m /\ t[n] * d = 0
      BY <1>4, <1>5, <2>1
    <3> QED BY <1>9, <1>10, <3>1
  <2>2. CASE n > 0
    <3>1. l > m /\ l - m = n /\ l \in 0 .. l
      BY <1>5, <2>2
    <3> QED BY <1>9, <1>10, <3>1
  <2> QED BY <2>1, <2>2
<1> QED BY <1>6, <1>8, <1>10, <1>12, <1>13

(* A row cut in three.                                                      *)
LEMMA ThreeParts ==
  ASSUME NEW q \in Nat, NEW n \in Nat, n = 3 * q, NEW c \in BitRow(n), NEW i \in 0 .. 2
  PROVE  /\ SubSeq(c, i * q + 1, (i + 1) * q) \in BitRow(q)
         /\ \A k \in 1 .. q : SubSeq(c, i * q + 1, (i + 1) * q)[k] = c[i * q + k]
<1>1. PICK u \in 0 .. n : u = i * q
  <2>1. i = 0 \/ i = 1 \/ i = 2
    OBVIOUS
  <2> QED BY <2>1
<1>2. PICK v \in u .. n : v = (i + 1) * q /\ v - u = q
  <2>1. i = 0 \/ i = 1 \/ i = 2
    OBVIOUS
  <2> QED BY <1>1, <2>1
<1>3. /\ SubSeq(c, u + 1, v) \in BitRow(v - u)
      /\ \A k \in 1 .. v - u : SubSeq(c, u + 1, v)[k] = c[u + k]
  BY PartIs
<1> QED BY <1>1, <1>2, <1>3

LEMMA ValueOfParts ==
  ASSUME NEW q \in Nat, NEW n \in Nat, n = 3 * q, NEW c \in BitRow(n),
         NEW x \in BitRow(q), \A k \in 1 .. q : x[k] = c[k],
         NEW y \in BitRow(q), \A k \in 1 .. q : y[k] = c[q + k],
         NEW z \in BitRow(q), \A k \in 1 .. q : z[k] = c[2 * q + k]
  PROVE  Value(c) = Value(x) + Value(y) * Pow2(q) + Value(z) * Pow2(2 * q)
<1>5. PICK h \in Nat : h = q + q
  OBVIOUS
<1>6. PICK w : w = x \o y
  OBVIOUS
<1>7. w \in BitRow(h) /\ (\A i \in 1 .. q : w[i] = x[i]) /\ \A i \in 1 .. q : w[q + i] = y[i]
  <2>1. /\ x \o y \in BitRow(q + q)
        /\ \A i \in 1 .. q : (x \o y)[i] = x[i]
        /\ \A i \in 1 .. q : (x \o y)[q + i] = y[i]
    <3>1. AreJoined(x \o y, x, y, q, q)
      BY JoinedAre
    <3> QED BY <3>1 DEF AreJoined
  <2> QED BY <1>5, <1>6, <2>1
<1>8. PICK l \in Nat : l = h + q
  OBVIOUS
<1>9. PICK v : v = w \o z
  OBVIOUS
<1>10. v \in BitRow(l) /\ (\A i \in 1 .. h : v[i] = w[i]) /\ \A i \in 1 .. q : v[h + i] = z[i]
  <2>0. w \in BitRow(h)
    BY <1>7
  <2>1. /\ w \o z \in BitRow(h + q)
        /\ \A i \in 1 .. h : (w \o z)[i] = w[i]
        /\ \A i \in 1 .. q : (w \o z)[h + i] = z[i]
    <3>1. AreJoined(w \o z, w, z, h, q)
      BY <2>0, JoinedAre
    <3> QED BY <3>1 DEF AreJoined
  <2> QED BY <1>8, <1>9, <2>1
<1>11. ASSUME NEW i \in 1 .. n PROVE v[i] = c[i]
  <2>1. CASE i <= q
    <3>1. i \in 1 .. q /\ i \in 1 .. h
      BY <1>5, <2>1
    <3> QED BY <1>7, <1>10, <3>1
  <2>2. CASE i > q /\ i <= h
    <3>1. PICK k \in 1 .. q : k = i - q
      BY <1>5, <2>2
    <3>2. i \in 1 .. h /\ q + k = i
      BY <2>2, <3>1
    <3>3. w[q + k] = y[k] /\ y[k] = c[q + k]
      BY <1>7
    <3> QED BY <1>10, <3>2, <3>3
  <2>3. CASE i > h
    <3>1. PICK k \in 1 .. q : k = i - h
      BY <1>5, <2>3
    <3>2. h + k = i /\ 2 * q + k = i
      BY <1>5, <3>1
    <3>3. v[h + k] = z[k] /\ z[k] = c[2 * q + k]
      BY <1>10
    <3> QED BY <3>2, <3>3
  <2> QED BY <1>5, <2>1, <2>2, <2>3
<1>12. v = c
  <2>1. l = n
    BY <1>5, <1>8
  <2>2. v \in BitRow(n)
    BY <1>10, <2>1
  <2> QED BY <1>11, <2>2 DEF BitRow
<1>13. Value(v) = Value(w) + Value(z) * Pow2(h) /\ Value(w) = Value(x) + Value(y) * Pow2(q)
  BY <1>6, <1>7, <1>9, ValueJoined
<1>14. h = 2 * q
  BY <1>5
<1> QED BY <1>12, <1>13, <1>14

-----------------------------------------------------------------------------
(***************************************************************************)
(* The key moves to the second field.                                      *)
(***************************************************************************)
LEMMA Numbers ==
  /\ PSize \in Nat /\ PSize > 0 /\ QSize \in Nat /\ QSize > 0
  /\ Parties \in Nat /\ Parties > 0 /\ Chunk \in Nat /\ Chunk > 0
  /\ P1 \in Nat /\ P1 > 1 /\ P2 \in Nat /\ P2 > 1 /\ Evals \in Nat
  /\ Bits \in Nat /\ Bits > 0 /\ Bits = PSize + PSize /\ Bits = 3 * QSize
BY NumbersAssumption, SizesAgree DEF Bits

(* The number whose bits the two components of a key e are; how many        *)
(* parties have a 1 for its j-th bit, for their bits l; the bits whose      *)
(* shares mask the key; and what is opened.                                 *)
KeyOf(e) == e[1] + e[2] * Pow2(PSize)
MasksAt(l, j) == SumOf([i \in Players |-> l[i][j]])
ParityRow(l) == [j \in 1 .. Bits |-> MasksAt(l, j) % 2]
Opened(e, l) == [j \in 1 .. Bits |-> (Digit(KeyOf(e), j) + MasksAt(l, j)) % 2]

LEMMA MasksAre ==
  ASSUME NEW l \in [Players -> LocalBits]
  PROVE  /\ \A j \in 1 .. Bits : MasksAt(l, j) \in Int /\ MasksAt(l, j) % 2 \in {0, 1}
         /\ ParityRow(l) \in BitRow(Bits)
         /\ \A p \in Nat : p > 1 => Shared(p, l) = ParityRow(l)
<1>1. ASSUME NEW j \in 1 .. Bits, NEW p \in Nat, p > 1
      PROVE  /\ MasksAt(l, j) \in Int
             /\ KXOR(p, [i \in Players |-> l[i][j]]) = MasksAt(l, j) % 2
  <2>1. PICK a : a = [i \in Players |-> l[i][j]]
    OBVIOUS
  <2>2. a \in BitRow(Parties)
    <3>1. \A i \in 1 .. Parties : l[i][j] \in {0, 1}
      <4>1. \A i \in 1 .. Parties : l[i] \in LocalBits
        BY DEF Players
      <4> QED BY <4>1, InputsFit
    <3> QED BY <2>1, <3>1 DEF BitRow, Players
  <2>3. SumOf(a) \in Int /\ KXOR(p, a) = SumOf(a) % 2
    <3>1. Parties \in Nat /\ Parties > 0
      BY Numbers
    <3>2. SumOf(a) \in Int
      BY <2>2, <3>1, BitSums
    <3>3. KXOR(p, a) = SumOf(a) % 2
      BY <1>1, <2>2, <3>1, KXORIs
    <3> QED BY <3>2, <3>3
  <2> QED BY <2>1, <2>3 DEF MasksAt
<1>2. ASSUME NEW j \in 1 .. Bits PROVE MasksAt(l, j) \in Int /\ MasksAt(l, j) % 2 \in {0, 1}
  <2>1. PICK x \in Int : x = MasksAt(l, j)
    BY <1>1, Numbers
  <2>2. x % 2 \in {0, 1}
    OBVIOUS
  <2> QED BY <2>1, <2>2
<1>3. ParityRow(l) \in BitRow(Bits)
  BY <1>2 DEF ParityRow, BitRow
<1>4. \A p \in Nat : p > 1 => Shared(p, l) = ParityRow(l)
  BY <1>1 DEF Shared, ParityRow
<1> QED BY <1>2, <1>3, <1>4

(* The components fit their rows of bits, and the bits of both, one after   *)
(* the other, are those of the key.                                         *)
LEMMA KeyIs ==
  ASSUME NEW e \in [1 .. 2 -> Field(P1)]
  PROVE  /\ \A k \in 1 .. 2 : /\ e[k] \in 0 .. P1 - 1 /\ e[k] \in Nat
                              /\ Decompose(e[k], PSize) \in BitRow(PSize)
                              /\ Value(Decompose(e[k], PSize)) = e[k]
         /\ KeyOf(e) \in Nat
         /\ Decompose(e[1], PSize) \o Decompose(e[2], PSize) = Decompose(KeyOf(e), Bits)
         /\ Value(Decompose(KeyOf(e), Bits)) = KeyOf(e)
<1>0. PICK M \in Nat : M = Pow2(PSize) /\ M > 0 /\ P1 < M
  BY Numbers, Pow2Step, PrimesFit
<1>1. ASSUME NEW k \in 1 .. 2
      PROVE  /\ e[k] \in 0 .. P1 - 1 /\ e[k] \in Nat
             /\ Decompose(e[k], PSize) \in BitRow(PSize)
             /\ Value(Decompose(e[k], PSize)) = e[k]
  <2>1. PICK x \in Nat : x = e[k] /\ x \in 0 .. P1 - 1
    BY DEF Field
  <2>2. x \in 0 .. M - 1
    BY <1>0, <2>1, Numbers
  <2>3. x % M = x
    BY <2>2, Small
  <2>4. Value(Decompose(x, PSize)) = x % Pow2(PSize) /\ Decompose(x, PSize) \in BitRow(PSize)
    BY Numbers, ValueOfDigits, DecomposeIs
  <2> QED BY <1>0, <2>1, <2>3, <2>4
<1>2. PICK x \in Nat : x = e[1] /\ x \in 0 .. P1 - 1
  BY <1>1
<1>3. PICK y \in Nat : y = e[2] /\ y \in 0 .. P1 - 1
  BY <1>1
<1>4. PICK a : a = Decompose(x, PSize)
  OBVIOUS
<1>5. PICK b : b = Decompose(y, PSize)
  OBVIOUS
<1>6. a \in BitRow(PSize) /\ b \in BitRow(PSize) /\ Value(a) = x /\ Value(b) = y
  <2>1. 1 \in 1 .. 2 /\ 2 \in 1 .. 2
    OBVIOUS
  <2> QED BY <1>1, <1>2, <1>3, <1>4, <1>5, <2>1
<1>7. PICK K \in Nat : K = x + y * M
  OBVIOUS
<1>8. K = KeyOf(e)
  BY <1>0, <1>2, <1>3, <1>7 DEF KeyOf
<1>9. PICK c : c = a \o b
  OBVIOUS
<1>10. c \in BitRow(Bits)
  <2>1. PSize \in Nat /\ Bits = PSize + PSize
    BY Numbers
  <2>2. a \o b \in BitRow(PSize + PSize)
    BY <1>6, <2>1, Joined
  <2> QED BY <1>9, <2>1, <2>2
<1>11. Value(c) = K
  <2>1. PSize \in Nat
    BY Numbers
  <2>2. Value(a \o b) = Value(a) + Value(b) * Pow2(PSize)
    BY <1>6, <2>1, ValueJoined
  <2> QED BY <1>0, <1>6, <1>7, <1>9, <2>2
<1>12. c = Decompose(K, Bits)
  BY <1>10, <1>11, Numbers, BitsAreDigits
<1> QED BY <1>1, <1>2, <1>3, <1>4, <1>5, <1>8, <1>9, <1>11, <1>12

(* What is opened are the key's bits, masked.                               *)
LEMMA OpenedIs ==
  ASSUME NEW e \in [1 .. 2 -> Field(P1)], NEW l \in [Players -> LocalBits]
  PROVE  XorAll(P1, Decompose(KeyOf(e), Bits), ParityRow(l)) = Opened(e, l)
<1>1. PICK K \in Nat : K = KeyOf(e)
  BY KeyIs
<1>2. PICK d \in BitRow(Bits) : d = Decompose(K, Bits) /\ \A j \in 1 .. Bits : d[j] = Digit(K, j)
  BY Numbers, DecomposeIs
<1>3. PICK m \in BitRow(Bits) : m = ParityRow(l)
  BY MasksAre
<1>4. \A j \in 1 .. Bits : m[j] \in {0, 1} /\ d[j] \in {0, 1} /\ m[j] = MasksAt(l, j) % 2
  BY <1>3 DEF BitRow, ParityRow
<1>5. /\ XorAll(P1, d, m) \in BitRow(Bits)
      /\ \A j \in 1 .. Bits : XorAll(P1, d, m)[j] = Xor(P1, d[j], m[j])
  BY <1>4, Numbers, XorAllIs
<1>6. ASSUME NEW j \in 1 .. Bits
      PROVE  XorAll(P1, d, m)[j] = (Digit(K, j) + MasksAt(l, j)) % 2
  <2>1. PICK x \in {0, 1} : x = d[j]
    BY <1>4
  <2>2. PICK y \in {0, 1} : y = m[j]
    BY <1>4
  <2>3. PICK z \in Int : z = MasksAt(l, j)
    BY MasksAre
  <2>4. Xor(P1, x, y) = (x + y) % 2
    BY Numbers, XorBit
  <2>5. (x + (z % 2)) % 2 = (x + z) % 2
    OBVIOUS
  <2> QED BY <1>2, <1>4, <1>5, <2>1, <2>2, <2>3, <2>4, <2>5
<1> QED BY <1>1, <1>2, <1>3, <1>5, <1>6 DEF Opened, BitRow

(* The same masks, in the second field, take off what was put on in the     *)
(* first.                                                                   *)
LEMMA Unmasked ==
  ASSUME NEW e \in [1 .. 2 -> Field(P1)], NEW l \in [Players -> LocalBits]
  PROVE  XorAll(P2, ParityRow(l), Opened(e, l)) = Decompose(KeyOf(e), Bits)
<1>1. PICK K \in Nat : K = KeyOf(e)
  BY KeyIs
<1>2. PICK d \in BitRow(Bits) : d = Decompose(K, Bits) /\ \A j \in 1 .. Bits : d[j] = Digit(K, j)
  BY Numbers, DecomposeIs
<1>3. PICK m \in BitRow(Bits) : m = ParityRow(l)
  BY MasksAre
<1>4. PICK o : o = Opened(e, l)
  OBVIOUS
<1>5. ASSUME NEW j \in 1 .. Bits
      PROVE  o[j] \in {0, 1} /\ Xor(P2, m[j], o[j]) = d[j]
  <2>1. PICK x \in {0, 1} : x = d[j]
    BY DEF BitRow
  <2>2. PICK y \in {0, 1} : y = m[j]
    BY DEF BitRow
  <2>3. PICK z \in Int : z = MasksAt(l, j)
    BY MasksAre
  <2>4. y = z % 2
    BY <1>3, <2>2, <2>3 DEF ParityRow
  <2>5. o[j] = (x + z) % 2
    BY <1>1, <1>2, <1>4, <2>1, <2>3 DEF Opened
  <2>6. PICK w \in {0, 1} : w = (x + z) % 2
    OBVIOUS
  <2>7. (y + w) % 2 = x
    BY <2>4, <2>6
  <2>8. Xor(P2, y, w) = (y + w) % 2
    BY Numbers, XorBit
  <2> QED BY <2>1, <2>2, <2>5, <2>6, <2>7, <2>8
<1>6. /\ XorAll(P2, m, o) \in BitRow(Bits)
      /\ \A j \in 1 .. Bits : XorAll(P2, m, o)[j] = Xor(P2, m[j], o[j])
  BY <1>5, Numbers, XorAllIs
<1>7. XorAll(P2, m, o) = d
  <2>1. PICK w : w = XorAll(P2, m, o)
    OBVIOUS
  <2>2. w \in [1 .. Bits -> {0, 1}] /\ \A j \in 1 .. Bits : w[j] = d[j]
    BY <1>5, <1>6, <2>1 DEF BitRow
  <2>3. d = [j \in 1 .. Bits |-> d[j]] /\ w = [j \in 1 .. Bits |-> w[j]]
    BY <2>2 DEF BitRow
  <2>4. w = d
    BY <2>2, <2>3
  <2> QED BY <2>1, <2>4
<1> QED BY <1>1, <1>2, <1>3, <1>4, <1>7

(* The three keys, from the bits of the two components.                     *)
LEMMA SlicesCarryOver ==
  ASSUME NEW e \in [1 .. 2 -> Field(P1)], NEW c, c = Decompose(KeyOf(e), Bits),
         NEW k, k = [i \in 1 .. 3 |-> B2A(P2, Slice(c, i - 1))]
  PROVE  /\ k \in [1 .. 3 -> Field(P2)]
         /\ k[1] + k[2] * Pow2(QSize) + k[3] * Pow2(2 * QSize) = KeyOf(e)
<1>1. PICK K \in Nat : K = KeyOf(e)
  BY KeyIs
<1>2. c \in BitRow(Bits) /\ Value(c) = K
  BY <1>1, Numbers, DecomposeIs, KeyIs
<1>3. \A i \in 0 .. 2 : /\ Slice(c, i) \in BitRow(QSize)
                        /\ \A h \in 1 .. QSize : Slice(c, i)[h] = c[i * QSize + h]
  BY <1>2, Numbers, ThreeParts DEF Slice
<1>4. ASSUME NEW a \in BitRow(QSize)
      PROVE  B2A(P2, a) = Value(a) /\ Value(a) \in Field(P2)
  <2>1. PICK v \in Nat : v = Value(a) /\ v < Pow2(QSize)
    <3>1. QSize \in Nat /\ Pow2(QSize) \in Nat
      BY Numbers, Pow2Step
    <3>2. Value(a) \in 0 .. Pow2(QSize) - 1 /\ Value(a) \in Nat
      BY <3>1, BitsAreDigits
    <3> QED BY <3>1, <3>2
  <2>2. v \in 0 .. P2 - 1
    <3>1. Pow2(QSize) \in Nat
      BY Numbers, Pow2Step
    <3> QED BY <2>1, <3>1, Numbers, PrimesFit
  <2>3. v % P2 = v
    BY <2>2, Numbers, Small
  <2>4. B2A(P2, a) = v % P2
    BY <2>1, Numbers, B2AIs
  <2> QED BY <2>1, <2>2, <2>3, <2>4 DEF Field
<1>5. PICK x \in BitRow(QSize) : x = Slice(c, 0)
  BY <1>3
<1>6. PICK y \in BitRow(QSize) : y = Slice(c, 1)
  BY <1>3
<1>7. PICK z \in BitRow(QSize) : z = Slice(c, 2)
  BY <1>3
<1>8. k[1] = Value(x) /\ k[2] = Value(y) /\ k[3] = Value(z)
  <2>1. k[1] = B2A(P2, Slice(c, 1 - 1)) /\ k[2] = B2A(P2, Slice(c, 2 - 1))
        /\ k[3] = B2A(P2, Slice(c, 3 - 1))
    OBVIOUS
  <2>2. 1 - 1 = 0 /\ 2 - 1 = 1 /\ 3 - 1 = 2
    OBVIOUS
  <2> QED BY <1>4, <1>5, <1>6, <1>7, <2>1, <2>2
<1>9. k \in [1 .. 3 -> Field(P2)]
  <2>1. k[1] \in Field(P2) /\ k[2] \in Field(P2) /\ k[3] \in Field(P2)
    BY <1>4, <1>8
  <2> QED BY <2>1
<1>10. Value(c) = Value(x) + Value(y) * Pow2(QSize) + Value(z) * Pow2(2 * QSize)
  <2>1. \A h \in 1 .. QSize : x[h] = c[h]
    <3>1. PICK i \in 0 .. 2 : i = 0
      OBVIOUS
    <3>2. \A h \in 1 .. QSize : Slice(c, i)[h] = c[i * QSize + h] /\ i * QSize + h = h
      BY <1>3, <3>1, Numbers
    <3> QED BY <1>5, <3>1, <3>2
  <2>2. \A h \in 1 .. QSize : y[h] = c[QSize + h]
    <3>1. PICK i \in 0 .. 2 : i = 1
      OBVIOUS
    <3>2. \A h \in 1 .. QSize : Slice(c, i)[h] = c[i * QSize + h] /\ i * QSize + h = QSize + h
      BY <1>3, <3>1, Numbers
    <3> QED BY <1>6, <3>1, <3>2
  <2>3. \A h \in 1 .. QSize : z[h] = c[2 * QSize + h]
    <3>1. PICK i \in 0 .. 2 : i = 2
      OBVIOUS
    <3>2. \A h \in 1 .. QSize : Slice(c, i)[h] = c[i * QSize + h] /\ i * QSize + h = 2 * QSize + h
      BY <1>3, <3>1, Numbers
    <3> QED BY <1>7, <3>1, <3>2
  <2>4. QSize \in Nat /\ Bits \in Nat /\ Bits = 3 * QSize
    BY Numbers
  <2> QED BY <1>2, <2>1, <2>2, <2>3, <2>4, ValueOfParts
<1> QED BY <1>1, <1>2, <1>8, <1>9, <1>10

(* What holds while the key is moved: by the stage, the bits whose shares   *)
(* mask it, the components decomposed so far, what is opened and the keys.  *)
Opening == {"phase one", "decompose"}
Moving  == Opening \cup {"phase two", "combine"}
Moved   == {"offline", "online", "legendre"}

StageInv  == stage \in Moving \cup Moved /\ ekey \in [1 .. 2 -> Field(P1)]
LocalInv  == stage # "phase one" => local \in [Players -> LocalBits]
SharedInv == stage \in {"decompose", "combine"} => shared = ParityRow(local)
DecoInv   == \/ deco = <<>>
             \/ /\ stage = "decompose"
                /\ \/ deco = Decompose(ekey[1], PSize)
                   \/ deco = Decompose(ekey[1], PSize) \o Decompose(ekey[2], PSize)
RevealInv == reveal = IF stage \in Opening THEN <<>> ELSE Opened(ekey, local)
KeysInv   == IF stage \in Moving THEN ek = <<>>
             ELSE /\ ek \in [1 .. 3 -> Field(P2)]
                  /\ ek[1] + ek[2] * Pow2(QSize) + ek[3] * Pow2(2 * QSize) = KeyOf(ekey)

KeyInv == StageInv /\ LocalInv /\ SharedInv /\ DecoInv /\ RevealInv /\ KeysInv

LEMMA KeyInvInit == Init => KeyInv
BY DEF Init, KeyInv, StageInv, LocalInv, SharedInv, DecoInv, RevealInv, KeysInv, Opening, Moving

(* The bits decomposed so far are none, one component's, or both's.         *)
LEMMA DecoLengths ==
  ASSUME KeyInv
  PROVE  \/ deco = <<>> /\ Len(deco) = 0
         \/ deco = Decompose(ekey[1], PSize) /\ Len(deco) = PSize
         \/ /\ deco = Decompose(ekey[1], PSize) \o Decompose(ekey[2], PSize)
            /\ deco = Decompose(KeyOf(ekey), Bits) /\ Len(deco) = Bits
<1>1. ekey \in [1 .. 2 -> Field(P1)]
  BY DEF KeyInv, StageInv
<1>2. /\ Decompose(ekey[1], PSize) \in BitRow(PSize)
      /\ Decompose(KeyOf(ekey), Bits) \in BitRow(Bits)
      /\ Decompose(ekey[1], PSize) \o Decompose(ekey[2], PSize) = Decompose(KeyOf(ekey), Bits)
  <2>1. 1 \in 1 .. 2 /\ KeyOf(ekey) \in Nat
    BY <1>1, KeyIs
  <2> QED BY <1>1, <2>1, KeyIs, Numbers, DecomposeIs
<1>3. Len(Decompose(ekey[1], PSize)) = PSize /\ Len(Decompose(KeyOf(ekey), Bits)) = Bits
  BY <1>2, Numbers DEF BitRow
<1>4. Len(<<>>) = 0
  OBVIOUS
<1> QED BY <1>2, <1>3, <1>4 DEF KeyInv, DecoInv

LEMMA PhaseOneKeeps == KeyInv /\ PhaseOne => KeyInv'
<1> SUFFICES ASSUME KeyInv, PhaseOne PROVE KeyInv'
  OBVIOUS
<1> USE DEF PhaseOne
<1>1. StageInv'
  BY DEF KeyInv, StageInv, Moving, Opening
<1>2. LocalInv'
  BY DEF LocalInv
<1>3. SharedInv'
  <2>1. Shared(P1, local') = ParityRow(local')
    BY Numbers, MasksAre
  <2> QED BY <2>1 DEF SharedInv, ParityRow, MasksAt
<1>4. DecoInv'
  BY DEF KeyInv, DecoInv
<1>5. RevealInv'
  BY DEF KeyInv, RevealInv, Opening
<1>6. KeysInv'
  BY DEF KeyInv, KeysInv, Moving, Opening
<1> QED BY <1>1, <1>2, <1>3, <1>4, <1>5, <1>6 DEF KeyInv

LEMMA DrawMaskKeeps == KeyInv /\ DrawMask => KeyInv'
<1> SUFFICES ASSUME KeyInv, DrawMask PROVE KeyInv'
  OBVIOUS
<1>0. stage = "decompose" /\ Len(deco) < Bits
      /\ UNCHANGED <<stage, ekey, local, shared, reveal, ek>>
  BY DEF DrawMask
<1>1. PICK r \in BitRow(PSize) :
        deco' = IF Lt(P1, r, Decompose(P1, PSize)) = 1
                THEN deco \o A2B(P1, PSize, ekey[(Len(deco) \div PSize) + 1], r)
                ELSE deco
  BY DEF DrawMask, BitRow
<1>2. ekey \in [1 .. 2 -> Field(P1)]
  BY DEF KeyInv, StageInv
<1>3. \A k \in 1 .. 2 : Lt(P1, r, Decompose(P1, PSize)) = 1
                          => A2B(P1, PSize, ekey[k], r) = Decompose(ekey[k], PSize)
  <2> SUFFICES ASSUME NEW k \in 1 .. 2, Lt(P1, r, Decompose(P1, PSize)) = 1
               PROVE  A2B(P1, PSize, ekey[k], r) = Decompose(ekey[k], PSize)
    OBVIOUS
  <2>1. PICK a \in 0 .. P1 - 1 : a = ekey[k]
    BY <1>2 DEF Field
  <2>2. A2B(P1, PSize, a, r) = Decompose(a, PSize)
    BY Numbers, PrimesFit, A2BIs
  <2> QED BY <2>1, <2>2
<1>4. DecoInv'
  <2>1. CASE Lt(P1, r, Decompose(P1, PSize)) # 1
    BY <1>0, <1>1, <2>1 DEF KeyInv, DecoInv
  <2>2. CASE Lt(P1, r, Decompose(P1, PSize)) = 1
    <3>1. CASE deco = <<>> /\ Len(deco) = 0
      <4>1. (Len(deco) \div PSize) + 1 = 1
        BY <3>1, Numbers
      <4>2. deco' = <<>> \o Decompose(ekey[1], PSize)
        BY <1>1, <1>3, <2>2, <3>1, <4>1
      <4>3. Decompose(ekey[1], PSize) \in Seq({0, 1})
        <5>1. Decompose(ekey[1], PSize) \in BitRow(PSize)
          BY <1>2, KeyIs
        <5> QED BY <5>1, Numbers DEF BitRow
      <4>4. deco' = Decompose(ekey[1], PSize)
        BY <4>2, <4>3
      <4> QED BY <1>0, <4>4 DEF DecoInv
    <3>2. CASE deco = Decompose(ekey[1], PSize) /\ Len(deco) = PSize
      <4>1. (Len(deco) \div PSize) + 1 = 2
        BY <3>2, Numbers
      <4>2. deco' = Decompose(ekey[1], PSize) \o Decompose(ekey[2], PSize)
        BY <1>1, <1>3, <2>2, <3>2, <4>1
      <4> QED BY <1>0, <4>2 DEF DecoInv
    <3> QED BY <1>0, <3>1, <3>2, DecoLengths, Numbers
  <2> QED BY <2>1, <2>2
<1>5. StageInv' /\ LocalInv' /\ SharedInv' /\ RevealInv' /\ KeysInv'
  BY <1>0 DEF KeyInv, StageInv, LocalInv, SharedInv, RevealInv, KeysInv, ParityRow, MasksAt, Opened, KeyOf
<1> QED BY <1>4, <1>5 DEF KeyInv

LEMMA RevealKeeps == KeyInv /\ Reveal => KeyInv'
<1> SUFFICES ASSUME KeyInv, Reveal PROVE KeyInv'
  OBVIOUS
<1> USE DEF Reveal
<1>0. stage = "decompose" /\ stage' = "phase two" /\ UNCHANGED <<ekey, local, ek>>
  OBVIOUS
<1>1. StageInv' /\ LocalInv' /\ SharedInv' /\ DecoInv' /\ KeysInv'
  BY DEF KeyInv, StageInv, LocalInv, SharedInv, DecoInv, KeysInv, Moving, Opening
<1>2. RevealInv'
  <2>1. deco = Decompose(KeyOf(ekey), Bits)
    <3>1. Len(deco) = Bits
      OBVIOUS
    <3> HIDE DEF Reveal
    <3>2. Bits # 0 /\ Bits # PSize
      BY Numbers
    <3> QED BY <3>1, <3>2, DecoLengths
  <2>2. shared = ParityRow(local) /\ local \in [Players -> LocalBits] /\ ekey \in [1 .. 2 -> Field(P1)]
    BY <1>0 DEF KeyInv, SharedInv, LocalInv, StageInv
  <2>3. reveal' = Opened(ekey, local)
    BY <2>1, <2>2, OpenedIs
  <2>4. Opened(ekey, local)' = Opened(ekey, local)
    BY <1>0 DEF Opened, KeyOf, MasksAt
  <2> QED BY <1>0, <2>3, <2>4 DEF RevealInv, Opening
<1> QED BY <1>1, <1>2 DEF KeyInv

LEMMA PhaseTwoKeeps == KeyInv /\ PhaseTwo => KeyInv'
<1> SUFFICES ASSUME KeyInv, PhaseTwo PROVE KeyInv'
  OBVIOUS
<1> USE DEF PhaseTwo
<1>1. StageInv' /\ LocalInv' /\ DecoInv' /\ KeysInv'
  BY DEF KeyInv, StageInv, LocalInv, DecoInv, KeysInv, Moving, Opening
<1>2. SharedInv'
  <2>1. local \in [Players -> LocalBits]
    BY DEF KeyInv, LocalInv
  <2>2. Shared(P2, local) = ParityRow(local)
    BY <2>1, Numbers, MasksAre
  <2> QED BY <2>2 DEF SharedInv, ParityRow, MasksAt
<1>3. RevealInv'
  BY DEF KeyInv, RevealInv, Opening, Opened, KeyOf, MasksAt
<1> QED BY <1>1, <1>2, <1>3 DEF KeyInv

LEMMA XorAndCombineKeeps == KeyInv /\ XorAndCombine => KeyInv'
<1> SUFFICES ASSUME KeyInv, XorAndCombine PROVE KeyInv'
  OBVIOUS
<1> USE DEF XorAndCombine
<1>0. stage = "combine" /\ stage' = "offline" /\ UNCHANGED <<ekey, local, deco, reveal>>
  OBVIOUS
<1>1. StageInv' /\ LocalInv' /\ SharedInv' /\ DecoInv'
  BY <1>0 DEF KeyInv, StageInv, LocalInv, SharedInv, DecoInv, Moving, Moved, Opening
<1>2. RevealInv'
  BY <1>0 DEF KeyInv, RevealInv, Opening, Opened, KeyOf, MasksAt
<1>3. KeysInv'
  <2>1. /\ shared = ParityRow(local) /\ local \in [Players -> LocalBits]
        /\ reveal = Opened(ekey, local) /\ ekey \in [1 .. 2 -> Field(P1)]
    BY <1>0 DEF KeyInv, SharedInv, LocalInv, StageInv, RevealInv, Opening
  <2>2. XorAll(P2, shared, reveal) = Decompose(KeyOf(ekey), Bits)
    BY <2>1, Unmasked
  <2>3. PICK c : c = Decompose(KeyOf(ekey), Bits)
    OBVIOUS
  <2>4. ek' = [i \in 1 .. 3 |-> B2A(P2, Slice(c, i - 1))]
    BY <2>2, <2>3
  <2>5. PICK e : e = ekey
    OBVIOUS
  <2>6. PICK k : k = ek'
    OBVIOUS
  <2>7. k \in [1 .. 3 -> Field(P2)] /\ k[1] + k[2] * Pow2(QSize) + k[3] * Pow2(2 * QSize) = KeyOf(e)
    BY <2>1, <2>3, <2>4, <2>5, <2>6, SlicesCarryOver
  <2>8. KeyOf(ekey)' = KeyOf(e)
    BY <1>0, <2>5 DEF KeyOf
  <2>9. stage' \notin Moving
    BY <1>0 DEF Moving, Opening
  <2> QED BY <2>6, <2>7, <2>8, <2>9 DEF KeysInv
<1> QED BY <1>1, <1>2, <1>3 DEF KeyInv

(* The steps of the second half leave all of this alone.                    *)
LEMMA OthersKeep ==
  ASSUME KeyInv, Offline \/ Hash \/ Evaluate \/ Answer \/ UNCHANGED vars
  PROVE  KeyInv'
<1>1. /\ UNCHANGED <<ekey, local, shared, deco, reveal, ek>>
      /\ stage' = stage \/ (stage \in Moved /\ stage' \in Moved)
  BY DEF Offline, Hash, Evaluate, Answer, vars, Moved
<1>2. stage \in Moved /\ stage' \in Moved =>
        /\ stage \notin Moving /\ stage' \notin Moving /\ stage \notin Opening /\ stage' \notin Opening
        /\ stage # "phase one" /\ stage' # "phase one"
        /\ stage' \notin {"decompose", "combine"} /\ stage # "decompose"
  BY DEF Moved, Moving, Opening
<1>3. StageInv' /\ LocalInv' /\ SharedInv' /\ DecoInv' /\ RevealInv' /\ KeysInv'
  BY <1>1, <1>2 DEF KeyInv, StageInv, LocalInv, SharedInv, DecoInv, RevealInv, KeysInv, ParityRow,
     MasksAt, Opened, KeyOf
<1> QED BY <1>3 DEF KeyInv

LEMMA KeyInvNext == KeyInv /\ [Next]_vars => KeyInv'
BY PhaseOneKeeps, DrawMaskKeeps, RevealKeeps, PhaseTwoKeeps, XorAndCombineKeeps, OthersKeep DEF Next

LEMMA KeyInvAlways == Spec => []KeyInv
BY KeyInvInit, KeyInvNext, PTL DEF Spec

(* A2B finds the bits of the key itself, whichever masks pre_rand settles   *)
(* on: each component of the ephemeral key is what its bits stand for.      *)
THEOREM BitsOfTheKey == Spec => []DecompositionRight
<1>1. KeyInv => DecompositionRight
  <2> SUFFICES ASSUME KeyInv, NEW k \in 1 .. Len(deco) \div PSize
               PROVE  Value(SubSeq(deco, (k - 1) * PSize + 1, k * PSize)) = ekey[k]
    BY DEF DecompositionRight
  <2>0. ekey \in [1 .. 2 -> Field(P1)]
    BY DEF KeyInv, StageInv
  <2>1. PICK a \in BitRow(PSize) : a = Decompose(ekey[1], PSize) /\ Value(a) = ekey[1]
    BY <2>0, KeyIs
  <2>2. PICK b \in BitRow(PSize) : b = Decompose(ekey[2], PSize) /\ Value(b) = ekey[2]
    BY <2>0, KeyIs
  <2>3. PICK n \in Nat : n = PSize /\ n > 0
    BY Numbers
  <2>4. PICK z \in 0 .. n : z = 0
    OBVIOUS
  <2>5. CASE deco = <<>> /\ Len(deco) = 0
    BY <2>3, <2>5
  <2>6. CASE deco = Decompose(ekey[1], PSize) /\ Len(deco) = PSize
    <3>1. k = 1
      BY <2>3, <2>6
    <3>2. (k - 1) * PSize + 1 = z + 1 /\ k * PSize = n
      BY <2>3, <2>4, <3>1
    <3>3. n \in z .. n /\ n - z = n /\ \A i \in 1 .. n : z + i = i
      BY <2>4
    <3>4. a \in BitRow(n)
      BY <2>3
    <3>5. /\ SubSeq(a, z + 1, n) \in BitRow(n - z)
          /\ \A i \in 1 .. n - z : SubSeq(a, z + 1, n)[i] = a[z + i]
      BY <3>3, <3>4, PartIs
    <3>6. SubSeq(a, z + 1, n) = a
      BY <3>3, <3>4, <3>5 DEF BitRow
    <3> QED BY <2>1, <2>6, <3>1, <3>2, <3>6
  <2>7. CASE /\ deco = Decompose(ekey[1], PSize) \o Decompose(ekey[2], PSize)
             /\ deco = Decompose(KeyOf(ekey), Bits) /\ Len(deco) = Bits
    <3>1. PICK m \in Nat : m = n + n
      OBVIOUS
    <3>2. PICK c : c = a \o b
      OBVIOUS
    <3>3. a \in BitRow(n) /\ b \in BitRow(n)
      BY <2>3
    <3>4. /\ c \in BitRow(m)
          /\ \A i \in 1 .. n : c[i] = a[i]
          /\ \A i \in 1 .. n : c[n + i] = b[i]
      <4>1. /\ a \o b \in BitRow(n + n)
            /\ \A i \in 1 .. n : (a \o b)[i] = a[i]
            /\ \A i \in 1 .. n : (a \o b)[n + i] = b[i]
        <5>1. AreJoined(a \o b, a, b, n, n)
          BY <3>3, JoinedAre
        <5> QED BY <5>1 DEF AreJoined
      <4> QED BY <3>1, <3>2, <4>1
    <3>5. deco = c /\ m = Bits
      BY <2>1, <2>2, <2>3, <2>7, <3>1, <3>2, Numbers
    <3>6. Len(deco) = m /\ (k = 1 \/ k = 2)
      BY <2>3, <2>7, <3>1, <3>5
    <3>7. CASE k = 1
      <4>1. (k - 1) * PSize + 1 = z + 1 /\ k * PSize = n
        BY <2>3, <2>4, <3>7
      <4>2. n \in z .. m /\ z \in 0 .. m /\ n - z = n /\ \A i \in 1 .. n : z + i = i
        BY <2>4, <3>1
      <4>3. /\ SubSeq(c, z + 1, n) \in BitRow(n - z)
            /\ \A i \in 1 .. n - z : SubSeq(c, z + 1, n)[i] = c[z + i]
        BY <3>4, <4>2, PartIs
      <4>4. SubSeq(c, z + 1, n) = a
        BY <3>3, <3>4, <4>2, <4>3 DEF BitRow
      <4> QED BY <2>1, <3>5, <3>7, <4>1, <4>4
    <3>8. CASE k = 2
      <4>1. (k - 1) * PSize + 1 = n + 1 /\ k * PSize = m
        BY <2>3, <3>1, <3>8
      <4>2. m \in n .. m /\ n \in 0 .. m /\ m - n = n
        BY <3>1
      <4>3. /\ SubSeq(c, n + 1, m) \in BitRow(m - n)
            /\ \A i \in 1 .. m - n : SubSeq(c, n + 1, m)[i] = c[n + i]
        BY <3>4, <4>2, PartIs
      <4>4. SubSeq(c, n + 1, m) = b
        <5>1. PICK w : w = SubSeq(c, n + 1, m)
          OBVIOUS
        <5>2. w \in [1 .. n -> {0, 1}] /\ \A i \in 1 .. n : w[i] = b[i]
          BY <3>4, <4>2, <4>3, <5>1 DEF BitRow
        <5>3. w = [i \in 1 .. n |-> b[i]] /\ b = [i \in 1 .. n |-> b[i]]
          BY <3>3, <5>2 DEF BitRow
        <5> QED BY <5>1, <5>3
      <4> QED BY <2>2, <3>5, <3>8, <4>1, <4>4
    <3> QED BY <3>6, <3>7, <3>8
  <2> QED BY <2>5, <2>6, <2>7, DecoLengths
<1> QED BY <1>1, KeyInvAlways, PTL

(* What is opened is the key's bits masked by the bits of every party, for  *)
(* any number of parties and any bits of theirs.                            *)
THEOREM OpensMasked == Spec => []MaskedByAll
<1>1. KeyInv => MaskedByAll
  <2> SUFFICES ASSUME KeyInv, reveal # <<>>, NEW j \in 1 .. Bits
               PROVE  reveal[j] = (((ekey[1] + ekey[2] * Pow2(PSize)) \div Pow2(j - 1))
                                     + SumOf([i \in Players |-> local[i][j]])) % 2
    BY DEF MaskedByAll
  <2>1. stage \notin Opening /\ reveal = Opened(ekey, local)
    BY DEF KeyInv, RevealInv
  <2>2. local \in [Players -> LocalBits] /\ ekey \in [1 .. 2 -> Field(P1)]
    BY <2>1 DEF KeyInv, LocalInv, StageInv, Opening
  <2>3. PICK m \in Int : m = MasksAt(local, j)
    BY <2>2, MasksAre
  <2>4. PICK K \in Nat : K = KeyOf(ekey)
    BY <2>2, KeyIs
  <2>5. PICK d \in Nat : d = Pow2(j - 1) /\ d > 0
    <3>1. j - 1 \in Nat
      OBVIOUS
    <3> QED BY <3>1, Pow2Step
  <2>6. PICK x \in Int : x = K \div d
    BY <2>5, Division
  <2>7. reveal[j] = ((x % 2) + m) % 2
    BY <2>1, <2>3, <2>4, <2>5, <2>6 DEF Opened, Digit
  <2>8. ((x % 2) + m) % 2 = (x + m) % 2
    OBVIOUS
  <2> QED BY <2>3, <2>4, <2>5, <2>6, <2>7, <2>8 DEF KeyOf, MasksAt
<1> QED BY <1>1, KeyInvAlways, PTL

(* The three keys of the second field hold the bits of the ephemeral key of *)
(* the first, in order and all of them.                                     *)
THEOREM KeysMove == Spec => []KeysCarryOver
<1>1. KeyInv => KeysCarryOver
  <2> SUFFICES ASSUME KeyInv, ek # <<>> PROVE KeysCarryOver
    BY DEF KeysCarryOver
  <2>1. stage \notin Moving
    BY DEF KeyInv, KeysInv
  <2> QED BY <2>1 DEF KeyInv, KeysInv, KeysCarryOver, KeyOf
<1> QED BY <1>1, KeyInvAlways, PTL

-----------------------------------------------------------------------------
(***************************************************************************)
(* Powers in a field, and the offline phase.                               *)
(***************************************************************************)
(* pow[k] is x to the k, up to n.                                           *)
PowersOf(pow, p, x, n) == /\ pow \in [0 .. n -> 0 .. p - 1] /\ pow[0] = 1
                          /\ \A k \in 1 .. n : pow[k] = Mul(p, pow[k - 1], x)

LEMMA MulType ==
  ASSUME NEW p \in Nat, p > 1, NEW a \in Int, NEW b \in Int
  PROVE  Mul(p, a, b) \in 0 .. p - 1 /\ Mul(p, a, b) \in Int /\ Mul(p, a, b) = (a * b) % p
<1>1. PICK c \in Int : c = a * b
  OBVIOUS
<1>2. c % p \in 0 .. p - 1 /\ c % p \in Int
  BY Division
<1> QED BY <1>1, <1>2 DEF Mul

LEMMA PowersExist ==
  ASSUME NEW p \in Nat, p > 1, NEW x \in 0 .. p - 1, NEW n \in Nat
  PROVE  \E pow : PowersOf(pow, p, x, n)
<1>1. PICK D : D = 0 .. p - 1
  OBVIOUS
<1>2. PICK s : s = [k \in 1 .. n |-> [d \in D |-> Mul(p, d, x)]]
  OBVIOUS
<1>3. \A k \in 1 .. n : \A d \in D : s[k][d] = Mul(p, d, x) /\ s[k][d] \in D
  <2>1. \A d \in D : d \in Int /\ x \in Int
    BY <1>1
  <2>2. \A d \in D : Mul(p, d, x) \in D
    BY <1>1, <2>1, MulType
  <2> QED BY <1>2, <2>2
<1>4. Steps(s, D, n) /\ 1 \in D
  BY <1>1, <1>3 DEF Steps
<1>5. PICK f : Follows(f, D, 1, s, n)
  BY <1>4, Recursion
<1>6. f \in [0 .. n -> 0 .. p - 1] /\ f[0] = 1
  BY <1>1, <1>5 DEF Follows
<1>7. ASSUME NEW k \in 1 .. n PROVE f[k] = Mul(p, f[k - 1], x)
  <2>1. f[k - 1] \in D
    BY <1>1, <1>6
  <2> QED BY <1>3, <1>5, <2>1 DEF Follows
<1> QED BY <1>6, <1>7 DEF PowersOf

LEMMA PowerOf ==
  ASSUME NEW p, NEW x, NEW n \in Nat, NEW pow, PowersOf(pow, p, x, n)
  PROVE  Power(p, x, n) = pow[n]
<1> DEFINE Rec(g) == g = [i \in 0 .. n |-> IF i = 0 THEN 1 ELSE Mul(p, g[i - 1], x)]
<1>1. Power(p, x, n) = (CHOOSE g : Rec(g))[n]
  BY DEF Power
<1>2. Rec(pow)
  <2>1. \A k \in 0 .. n : k # 0 => k \in 1 .. n
    OBVIOUS
  <2>2. /\ pow \in [0 .. n -> 0 .. p - 1]
        /\ \A k \in 0 .. n : pow[k] = IF k = 0 THEN 1 ELSE Mul(p, pow[k - 1], x)
    BY <2>1 DEF PowersOf
  <2> QED BY <2>2
<1>3. PICK g : g = CHOOSE h : Rec(h)
  OBVIOUS
<1>4. Rec(g)
  BY <1>2, <1>3
<1>5. \A i \in 0 .. n : g[i] = IF i = 0 THEN 1 ELSE Mul(p, g[i - 1], x)
  BY <1>4
<1> DEFINE E == {i \in 0 .. n : g[i] = pow[i]}
<1>6. 0 \in E
  BY <1>5 DEF PowersOf
<1>7. ASSUME NEW i \in 0 .. n, i # n, i \in E PROVE i + 1 \in E
  <2>1. i + 1 \in 0 .. n /\ i + 1 # 0 /\ (i + 1) - 1 = i /\ i + 1 \in 1 .. n
    BY <1>7
  <2>2. g[i + 1] = Mul(p, g[i], x) /\ pow[i + 1] = Mul(p, pow[i], x)
    BY <1>5, <2>1 DEF PowersOf
  <2> QED BY <1>7, <2>1, <2>2
<1> HIDE DEF E
<1>8. 0 .. n \subseteq E
  BY <1>6, <1>7, UpTo
<1>9. g[n] = pow[n]
  BY <1>8 DEF E
<1> QED BY <1>1, <1>3, <1>9

LEMMA PowerStep ==
  ASSUME NEW p \in Nat, p > 1, NEW x \in 0 .. p - 1, NEW n \in Nat
  PROVE  /\ Power(p, x, n) \in 0 .. p - 1
         /\ Power(p, x, n + 1) = Mul(p, Power(p, x, n), x)
<1>1. PICK m \in Nat : m = n + 1
  OBVIOUS
<1>2. PICK pow : PowersOf(pow, p, x, m)
  BY PowersExist
<1>3. PICK f : f = [i \in 0 .. n |-> pow[i]]
  OBVIOUS
<1>4. PowersOf(f, p, x, n) /\ f[n] = pow[n]
  <2>1. \A i \in 0 .. n : i \in 0 .. m /\ f[i] = pow[i] /\ pow[i] \in 0 .. p - 1
    BY <1>1, <1>2, <1>3 DEF PowersOf
  <2>2. \A i \in 1 .. n : i \in 0 .. n /\ i - 1 \in 0 .. n /\ pow[i] = Mul(p, pow[i - 1], x)
    BY <1>1, <1>2 DEF PowersOf
  <2>3. f \in [0 .. n -> 0 .. p - 1] /\ f[0] = 1
    BY <1>2, <1>3, <2>1 DEF PowersOf
  <2>4. \A i \in 1 .. n : f[i] = Mul(p, f[i - 1], x)
    BY <2>1, <2>2
  <2> QED BY <2>1, <2>3, <2>4 DEF PowersOf
<1>5. Power(p, x, n) = pow[n] /\ Power(p, x, m) = pow[m]
  BY <1>2, <1>4, PowerOf
<1>6. pow[n] \in 0 .. p - 1 /\ pow[m] = Mul(p, pow[n], x)
  <2>1. m \in 1 .. m /\ m - 1 = n /\ n \in 0 .. m
    BY <1>1
  <2> QED BY <1>2, <2>1 DEF PowersOf
<1> QED BY <1>1, <1>5, <1>6

(* The remainder may be taken before squaring.                              *)
LEMMA ModSquare ==
  ASSUME NEW q \in Nat, q > 0, NEW a \in Int, NEW c \in Int, a % q = c % q
  PROVE  (a * a) % q = (c * c) % q
<1>1. (a * (a % q)) % q = (a * a) % q /\ (c * (a % q)) % q = (c * a) % q
  BY ModMul
<1>2. (a * (c % q)) % q = (a * c) % q /\ (c * (c % q)) % q = (c * c) % q
  BY ModMul
<1>3. a * c = c * a
  OBVIOUS
<1> QED BY <1>1, <1>2, <1>3

LEMMA PowerOne ==
  ASSUME NEW p \in Nat, p > 1, NEW x \in 0 .. p - 1
  PROVE  /\ Power(p, x, 1) = x
         /\ Power(p, x, 2) = Mul(p, x, x)
         /\ Power(p, x, 3) = Mul(p, Mul(p, x, x), x)
<1>1. PICK z \in Nat : z = 0
  OBVIOUS
<1>2. Power(p, x, z) = 1
  <2>1. PICK f : f = [i \in 0 .. z |-> 1]
    OBVIOUS
  <2>2. 0 .. z = {0} /\ 1 .. z = {} /\ 1 \in 0 .. p - 1
    BY <1>1
  <2>3. PowersOf(f, p, x, z) /\ f[z] = 1
    BY <1>1, <2>1, <2>2 DEF PowersOf
  <2> QED BY <2>3, PowerOf
<1>3. PICK o \in Nat : o = 1
  OBVIOUS
<1>4. PICK t \in Nat : t = 2
  OBVIOUS
<1>5. z + 1 = o /\ o + 1 = t /\ t + 1 = 3
  BY <1>1, <1>3, <1>4
<1>6. /\ Power(p, x, z + 1) = Mul(p, Power(p, x, z), x)
      /\ Power(p, x, o + 1) = Mul(p, Power(p, x, o), x)
      /\ Power(p, x, t + 1) = Mul(p, Power(p, x, t), x)
  BY PowerStep
<1>7. Mul(p, o, x) = x
  <2>1. o * x = x /\ x % p = x
    BY <1>3, Small
  <2> QED BY <2>1 DEF Mul
<1> QED BY <1>2, <1>3, <1>4, <1>5, <1>6, <1>7

LEMMA PowerThree ==
  ASSUME NEW p \in Nat, p > 1, NEW x \in 0 .. p - 1, NEW n \in Nat
  PROVE  Power(p, x, n + 3) = Mul(p, Power(p, x, n), Mul(p, Mul(p, x, x), x))
<1>1. PICK a \in Int : a = Power(p, x, n) /\ a \in 0 .. p - 1
  <2>1. Power(p, x, n) \in 0 .. p - 1
    BY PowerStep
  <2> QED BY <2>1
<1>2. PICK m \in Nat : m = n + 1
  OBVIOUS
<1>3. PICK l \in Nat : l = m + 1
  OBVIOUS
<1>4. x \in Int /\ p > 0
  OBVIOUS
<1>5. PICK b \in Int : b = Power(p, x, m) /\ b = (a * x) % p
  BY <1>1, <1>2, <1>4, PowerStep, MulType
<1>6. PICK c \in Int : c = Power(p, x, l) /\ c = (b * x) % p
  <2>1. Power(p, x, m + 1) = Mul(p, Power(p, x, m), x)
    BY PowerStep
  <2>2. Mul(p, b, x) \in Int /\ Mul(p, b, x) = (b * x) % p
    BY <1>4, MulType
  <2> QED BY <1>3, <1>5, <2>1, <2>2
<1>7. PICK d \in Int : d = Power(p, x, l + 1) /\ d = (c * x) % p
  <2>1. Power(p, x, l + 1) = Mul(p, Power(p, x, l), x)
    BY PowerStep
  <2>2. Mul(p, c, x) \in Int /\ Mul(p, c, x) = (c * x) % p
    BY <1>4, MulType
  <2> QED BY <1>6, <2>1, <2>2
<1>8. PICK e \in Int : e = Mul(p, x, x) /\ e = (x * x) % p
  BY <1>4, MulType
<1>9. PICK g \in Int : g = Mul(p, e, x) /\ g = (e * x) % p
  BY <1>4, MulType
<1>10. PICK ax \in Int : ax = a * x
  BY <1>4
<1>11. PICK axx \in Int : axx = ax * x
  BY <1>4
<1>12. c = axx % p
  <2>1. (x * (ax % p)) % p = (x * ax) % p
    BY <1>4, ModMul
  <2>2. x * (ax % p) = b * x /\ x * ax = axx
    BY <1>4, <1>5, <1>10, <1>11
  <2> QED BY <1>6, <2>1, <2>2
<1>13. d = (axx * x) % p
  <2>1. (x * (axx % p)) % p = (x * axx) % p
    BY <1>4, ModMul
  <2>2. x * (axx % p) = c * x /\ x * axx = axx * x
    BY <1>4, <1>12
  <2> QED BY <1>7, <2>1, <2>2
<1>14. PICK xx \in Int : xx = x * x
  BY <1>4
<1>15. g = (xx * x) % p
  <2>1. (x * (xx % p)) % p = (x * xx) % p
    BY <1>4, ModMul
  <2>2. x * (xx % p) = e * x /\ x * xx = xx * x
    BY <1>4, <1>8, <1>14
  <2> QED BY <1>9, <2>1, <2>2
<1>16. PICK xxx \in Int : xxx = xx * x
  BY <1>4
<1>17. (a * (xxx % p)) % p = (a * xxx) % p
  BY <1>4, ModMul
<1>18. a * xxx = axx * x
  <2>1. a * ((x * x) * x) = ((a * x) * x) * x
    BY <1>4
  <2> QED BY <1>10, <1>11, <1>14, <1>16, <2>1
<1>19. Mul(p, a, g) = d
  BY <1>13, <1>15, <1>16, <1>17, <1>18 DEF Mul
<1>20. l + 1 = n + 3
  BY <1>2, <1>3
<1> QED BY <1>1, <1>7, <1>8, <1>9, <1>19, <1>20

(* pre_key, however long the messages.                                      *)
LEMMA PreKeysAre ==
  ASSUME NEW keys \in [1 .. 3 -> Field(P2)]
  PROVE  /\ PreKeys(keys) \in [1 .. Chunk -> Field(P2)]
         /\ \A e \in 1 .. Chunk : PreKeys(keys)[e] = Power(P2, keys[(e % 3) + 1], e)
<1> DEFINE Square(x) == Mul(P2, x, x)
           Cube(x) == Mul(P2, Square(x), x)
           Rec(f) == f = [i \in 0 .. Chunk - 1 |->
                            CASE i = 0 -> keys[2]
                              [] i = 1 -> Square(keys[3])
                              [] i = 2 -> Cube(keys[1])
                              [] OTHER -> Mul(P2, f[i - 3], Cube(keys[CubeOf(i)]))]
<1>1. PreKeys(keys) = [j \in 1 .. Chunk |-> (CHOOSE f : Rec(f))[j - 1]]
  BY DEF PreKeys
<1>2. PICK g : g = [i \in 0 .. Chunk - 1 |-> Power(P2, keys[((i + 1) % 3) + 1], i + 1)]
  OBVIOUS
<1>3. \A k \in 1 .. 3 : keys[k] \in 0 .. P2 - 1
  BY DEF Field
<1>4. ASSUME NEW i \in 0 .. Chunk - 1
      PROVE  /\ g[i] \in Field(P2)
             /\ i = 0 => g[i] = keys[2]
             /\ i = 1 => g[i] = Square(keys[3])
             /\ i = 2 => g[i] = Cube(keys[1])
             /\ i > 2 => g[i] = Mul(P2, g[i - 3], Cube(keys[CubeOf(i)]))
  <2>1. PICK m \in Nat : m = i + 1
    OBVIOUS
  <2>2. PICK k \in 1 .. 3 : k = (m % 3) + 1
    OBVIOUS
  <2>3. PICK x \in 0 .. P2 - 1 : x = keys[k]
    BY <1>3
  <2>4. g[i] = Power(P2, x, m)
    BY <1>2, <2>1, <2>2, <2>3
  <2>5. Power(P2, x, m) \in Field(P2)
    BY Numbers, PowerStep DEF Field
  <2>6. /\ Power(P2, x, 1) = x
        /\ Power(P2, x, 2) = Mul(P2, x, x)
        /\ Power(P2, x, 3) = Mul(P2, Mul(P2, x, x), x)
    BY Numbers, PowerOne
  <2>7. i = 0 => m = 1 /\ k = 2
    BY <2>1, <2>2
  <2>8. i = 1 => m = 2 /\ k = 3
    BY <2>1, <2>2
  <2>9. i = 2 => m = 3 /\ k = 1
    BY <2>1, <2>2
  <2>10. ASSUME i > 2 PROVE g[i] = Mul(P2, g[i - 3], Cube(keys[CubeOf(i)]))
    <3>1. PICK n \in Nat : n = m - 3 /\ n = i - 2
      BY <2>1, <2>10
    <3>2. n + 3 = m /\ i - 3 \in 0 .. Chunk - 1 /\ (i - 3) + 1 = n
      BY <2>1, <2>10, <3>1, Numbers
    <3>3. (n % 3) + 1 = k
      BY <2>2, <3>2
    <3>4. CubeOf(i) = k
      <4>1. i % 3 = 0 \/ i % 3 = 1 \/ i % 3 = 2
        OBVIOUS
      <4>2. CASE i % 3 = 0
        <5>1. k = 2
          BY <2>1, <2>2, <4>2
        <5> QED BY <4>2, <5>1 DEF CubeOf
      <4>3. CASE i % 3 = 1
        <5>1. k = 3
          BY <2>1, <2>2, <4>3
        <5> QED BY <4>3, <5>1 DEF CubeOf
      <4>4. CASE i % 3 = 2
        <5>1. k = 1
          BY <2>1, <2>2, <4>4
        <5> QED BY <4>4, <5>1 DEF CubeOf
      <4> QED BY <4>1, <4>2, <4>3, <4>4
    <3>5. g[i - 3] = Power(P2, x, n)
      BY <1>2, <2>3, <3>2, <3>3
    <3>6. Power(P2, x, n + 3) = Mul(P2, Power(P2, x, n), Mul(P2, Mul(P2, x, x), x))
      BY Numbers, PowerThree
    <3> QED BY <2>3, <2>4, <3>2, <3>4, <3>5, <3>6
  <2> QED BY <2>3, <2>4, <2>5, <2>6, <2>7, <2>8, <2>9, <2>10
<1>5. Rec(g)
  <2>1. g = [i \in 0 .. Chunk - 1 |-> g[i]]
    BY <1>2
  <2>2. \A i \in 0 .. Chunk - 1 : i = 0 \/ i = 1 \/ i = 2 \/ i > 2
    BY Numbers
  <2>3. \A i \in 0 .. Chunk - 1 : g[i] = CASE i = 0 -> keys[2]
                                           [] i = 1 -> Square(keys[3])
                                           [] i = 2 -> Cube(keys[1])
                                           [] OTHER -> Mul(P2, g[i - 3], Cube(keys[CubeOf(i)]))
    <3> HIDE DEF Square, Cube
    <3> QED BY <1>4, <2>2
  <2> QED BY <2>1, <2>3
<1> HIDE DEF Rec
<1>6. PICK f : f = CHOOSE h : Rec(h)
  OBVIOUS
<1>7. Rec(f)
  BY <1>5, <1>6
<1> DEFINE E == {i \in 0 .. Chunk - 1 : \A j \in 0 .. i : f[j] = g[j]}
<1> HIDE DEF Square, Cube
<1>8. \A i \in 0 .. Chunk - 1 : f[i] = CASE i = 0 -> keys[2]
                                         [] i = 1 -> Square(keys[3])
                                         [] i = 2 -> Cube(keys[1])
                                         [] OTHER -> Mul(P2, f[i - 3], Cube(keys[CubeOf(i)]))
  BY <1>7 DEF Rec
<1>9. ASSUME NEW i \in 0 .. Chunk - 1, i > 2 => f[i - 3] = g[i - 3]
      PROVE  f[i] = g[i]
  <2>1. i = 0 \/ i = 1 \/ i = 2 \/ i > 2
    OBVIOUS
  <2> QED BY <1>4, <1>8, <1>9, <2>1
<1>10. 0 \in E
  <2>1. 0 \in 0 .. Chunk - 1 /\ \A j \in 0 .. 0 : j = 0
    BY Numbers
  <2>2. f[0] = g[0]
    BY <1>9, <2>1
  <2> QED BY <2>1, <2>2
<1>11. PICK n \in Int : n = Chunk - 1
  BY Numbers
<1>12. ASSUME NEW i \in 0 .. n, i # n, i \in E PROVE i + 1 \in E
  <2>1. PICK k \in 0 .. Chunk - 1 : k = i + 1
    BY <1>11, <1>12
  <2>2. k > 2 => k - 3 \in 0 .. i
    BY <2>1
  <2>3. f[k] = g[k]
    BY <1>9, <1>12, <2>2
  <2>4. \A j \in 0 .. k : j \in 0 .. i \/ j = k
    BY <2>1
  <2> QED BY <1>12, <2>1, <2>3, <2>4
<1> HIDE DEF E
<1>13. \A i \in 0 .. Chunk - 1 : f[i] = g[i]
  <2>1. 0 .. n \subseteq E
    BY <1>10, <1>12, UpTo
  <2>2. \A i \in 0 .. n : i \in 0 .. i
    OBVIOUS
  <2> QED BY <1>11, <2>1, <2>2 DEF E
<1>14. ASSUME NEW e \in 1 .. Chunk
       PROVE  PreKeys(keys)[e] = Power(P2, keys[(e % 3) + 1], e) /\ PreKeys(keys)[e] \in Field(P2)
  <2>1. e - 1 \in 0 .. Chunk - 1 /\ (e - 1) + 1 = e
    BY Numbers
  <2>2. PreKeys(keys)[e] = g[e - 1]
    BY <1>1, <1>6, <1>13, <2>1
  <2> QED BY <1>2, <1>4, <2>1, <2>2
<1> QED BY <1>1, <1>14

(* pre_key holds powers 1, 2, 3, ... of the keys taken in turn.             *)
PreInv == IF stage \in Moving \cup {"offline"} THEN pre = <<>> ELSE pre = PreKeys(ek)

LEMMA PreInvNext == KeyInv /\ PreInv /\ [Next]_vars => PreInv'
<1> SUFFICES ASSUME KeyInv, PreInv, [Next]_vars PROVE PreInv'
  OBVIOUS
<1> USE DEF Moving, Opening
<1>1. CASE PhaseOne
  BY <1>1 DEF PhaseOne, PreInv
<1>2. CASE DrawMask
  BY <1>2 DEF DrawMask, PreInv
<1>3. CASE Reveal
  BY <1>3 DEF Reveal, PreInv
<1>4. CASE PhaseTwo
  BY <1>4 DEF PhaseTwo, PreInv
<1>5. CASE XorAndCombine
  BY <1>5 DEF XorAndCombine, PreInv
<1>6. CASE Offline
  <2>1. pre' = PreKeys(ek) /\ ek' = ek /\ stage' = "online"
    BY <1>6 DEF Offline
  <2> QED BY <2>1 DEF PreInv
<1>7. CASE Hash
  BY <1>7 DEF Hash, PreInv
<1>8. CASE Evaluate
  BY <1>8 DEF Evaluate, PreInv
<1>9. CASE Answer
  BY <1>9 DEF Answer, PreInv
<1>10. CASE UNCHANGED vars
  BY <1>10 DEF vars, PreInv
<1> QED BY <1>1, <1>2, <1>3, <1>4, <1>5, <1>6, <1>7, <1>8, <1>9, <1>10 DEF Next

LEMMA PreInvAlways == Spec => [](KeyInv /\ PreInv)
<1>1. Init => PreInv
  BY DEF Init, PreInv, Moving, Opening
<1> QED BY <1>1, KeyInvInit, KeyInvNext, PreInvNext, PTL DEF Spec

(* The offline phase leaves powers 1, 2, 3, ... of the keys taken in turn,  *)
(* from s1 on, however long the messages.                                   *)
THEOREM PowersInTurn == Spec => []PreKeyRight
<1>1. KeyInv /\ PreInv => PreKeyRight
  <2> SUFFICES ASSUME KeyInv, PreInv, pre # <<>> PROVE PreKeyRight
    BY DEF PreKeyRight
  <2>1. stage \notin Moving /\ pre = PreKeys(ek)
    BY DEF PreInv
  <2>2. ek \in [1 .. 3 -> Field(P2)]
    BY <2>1 DEF KeyInv, KeysInv
  <2> QED BY <2>1, <2>2, PreKeysAre DEF PreKeyRight
<1> QED BY <1>1, PreInvAlways, PTL

-----------------------------------------------------------------------------
(***************************************************************************)
(* The Legendre symbol, and the custody bit.                               *)
(***************************************************************************)
LEMMA SymbolOfRemainder ==
  ASSUME NEW p, NEW x, NEW y, x % p = y % p
  PROVE  Legendre(p, x) = Legendre(p, y)
BY DEF Legendre

(* A square other than 0 does not change what is a square: the masked       *)
(* symbol is the symbol of what is masked.                                  *)
LEMMA SquareOut ==
  ASSUME NEW s \in Field(P2), s # 0, NEW t \in Field(P2)
  PROVE  Legendre(P2, Mul(P2, s * s, t)) = Legendre(P2, t)
<1>0. P2 \in Nat /\ P2 > 1 /\ P2 > 0 /\ s \in Int /\ t \in Int
  BY Numbers DEF Field
<1>1. PICK b \in Int : (s * b) % P2 = 1
  <2>1. PICK b \in Field(P2) : Mul(P2, s, b) = 1
    BY PrimeAssumption
  <2> QED BY <1>0, <2>1 DEF Mul, Field
<1>2. PICK ss \in Int : ss = s * s
  BY <1>0
<1>3. PICK bb \in Int : bb = b * b
  OBVIOUS
<1>4. (bb * ss) % P2 = 1
  <2>1. PICK c \in Int : c = s * b
    BY <1>0
  <2>2. PICK o \in Int : o = 1
    OBVIOUS
  <2>3. c % P2 = o % P2 /\ 1 % P2 = 1
    BY <1>0, <1>1, <2>1, <2>2
  <2>4. (c * c) % P2 = (o * o) % P2
    BY <1>0, <2>3, ModSquare
  <2>5. c * c = bb * ss
    <3>1. (s * b) * (s * b) = (b * b) * (s * s)
      BY <1>0
    <3> QED BY <1>2, <1>3, <2>1, <3>1
  <2> QED BY <2>2, <2>3, <2>4, <2>5
<1>5. PICK x \in 0 .. P2 - 1 : x = Mul(P2, ss, t) /\ x = (ss * t) % P2
  BY <1>0, MulType
<1>6. x % P2 = x /\ t % P2 = t /\ x \in Int
  BY <1>0, Small DEF Field
\* back from x to t
<1>7. (bb * x) % P2 = t
  <2>1. PICK y \in Int : y = ss * t
    BY <1>0
  <2>2. (bb * (y % P2)) % P2 = (bb * y) % P2
    BY <1>0, ModMul
  <2>3. bb * (ss * t) = t * (bb * ss)
    BY <1>0
  <2>4. PICK z \in Int : z = bb * ss
    OBVIOUS
  <2>5. (t * (z % P2)) % P2 = (t * z) % P2
    BY <1>0, ModMul
  <2>6. z % P2 = 1 /\ t * 1 = t
    BY <1>0, <1>4, <2>4
  <2> QED BY <1>5, <1>6, <2>1, <2>2, <2>3, <2>4, <2>5, <2>6
<1>8. x = 0 <=> t = 0
  <2>1. CASE t = 0
    <3>1. ss * t = 0 /\ 0 % P2 = 0
      BY <1>0, <2>1
    <3> QED BY <1>5, <2>1, <3>1
  <2>2. CASE x = 0
    <3>1. bb * x = 0 /\ 0 % P2 = 0
      BY <1>0, <2>2
    <3> QED BY <1>7, <2>2, <3>1
  <2> QED BY <2>1, <2>2
\* the square of a product
<1>9. ASSUME NEW u \in Int, NEW v \in Int, NEW uu \in Int, uu = u * u, NEW w \in Int,
             (v * v) % P2 = w, NEW n \in Int, n = (uu * w) % P2, n # 0
      PROVE  \E y \in 1 .. P2 - 1 : (y * y) % P2 = n
  <2>1. PICK a \in Int : a = u * v
    OBVIOUS
  <2>2. PICK y \in 0 .. P2 - 1 : y = a % P2
    BY <1>0, Division
  <2>3. y % P2 = a % P2 /\ y \in Int
    BY <1>0, <2>2, Small
  <2>4. (y * y) % P2 = (a * a) % P2
    BY <1>0, <2>3, ModSquare
  <2>5. PICK vv \in Int : vv = v * v
    OBVIOUS
  <2>6. a * a = uu * vv
    <3>1. (u * v) * (u * v) = (u * u) * (v * v)
      OBVIOUS
    <3> QED BY <1>9, <2>1, <2>5, <3>1
  <2>7. (uu * (vv % P2)) % P2 = (uu * vv) % P2
    BY <1>0, ModMul
  <2>8. (y * y) % P2 = n
    BY <1>9, <2>4, <2>5, <2>6, <2>7
  <2>9. y # 0
    <3>1. 0 * 0 = 0 /\ 0 % P2 = 0
      BY <1>0
    <3> QED BY <1>9, <2>8, <3>1
  <2> QED BY <2>8, <2>9
<1>10. CASE t = 0
  <2>1. x = t
    BY <1>8, <1>10
  <2> QED BY <1>2, <1>5, <2>1
<1>11. CASE t # 0
  <2>1. ASSUME NEW v \in 1 .. P2 - 1, (v * v) % P2 = t
        PROVE  \E y \in 1 .. P2 - 1 : (y * y) % P2 = x
    <3>1. v \in Int /\ x # 0 /\ x = (ss * t) % P2
      BY <1>5, <1>8, <1>11
    <3> QED BY <1>0, <1>2, <1>6, <1>9, <2>1, <3>1
  <2>2. ASSUME NEW v \in 1 .. P2 - 1, (v * v) % P2 = x
        PROVE  \E y \in 1 .. P2 - 1 : (y * y) % P2 = t
    <3>1. v \in Int /\ t = (bb * x) % P2
      BY <1>7
    <3> QED BY <1>0, <1>3, <1>6, <1>9, <1>11, <2>2, <3>1
  <2>3. (\E y \in 1 .. P2 - 1 : (y * y) % P2 = x) <=> \E y \in 1 .. P2 - 1 : (y * y) % P2 = t
    BY <2>1, <2>2
  <2>4. Legendre(P2, x) = Legendre(P2, t)
    BY <1>6, <1>8, <2>3 DEF Legendre
  <2> QED BY <1>2, <1>5, <2>4
<1> QED BY <1>10, <1>11

(* The terms of the hash for the message m, from the rows the offline phase *)
(* left and from the powers they stand for.                                 *)
TermsOf(q, m) == [j \in 1 .. Chunk |-> IF j = 1 THEN m[1] ELSE Mul(P2, q[j - 1], m[j])]
ExactTerms(k, m) ==
  [j \in 1 .. Chunk |-> IF j = 1 THEN m[1] ELSE m[j] * Power(P2, k[((j - 1) % 3) + 1], j - 1)]
ExactHash(k, m) == SumOf(ExactTerms(k, m)) + Power(P2, k[(Chunk % 3) + 1], Chunk)

(* What the online phase hashes to.                                         *)
HashOf(q, m) == Add(P2, Total(P2, TermsOf(q, m)), q[Chunk])

LEMMA HashIs ==
  ASSUME NEW k \in [1 .. 3 -> Field(P2)], NEW m \in Messages
  PROVE  /\ ExactHash(k, m) \in Int
         /\ HashOf(PreKeys(k), m) \in Int
         /\ HashOf(PreKeys(k), m) = ExactHash(k, m) % P2
<1>0. P2 \in Nat /\ P2 > 1 /\ P2 > 0 /\ Chunk \in Nat /\ Chunk > 0
  BY Numbers
<1>1. PICK q : q = PreKeys(k)
  OBVIOUS
<1>2. \A e \in 1 .. Chunk : q[e] = Power(P2, k[(e % 3) + 1], e) /\ q[e] \in Int
  <2>1. q \in [1 .. Chunk -> Field(P2)] /\ \A e \in 1 .. Chunk : q[e] = Power(P2, k[(e % 3) + 1], e)
    BY <1>1, PreKeysAre
  <2>2. \A x \in Field(P2) : x \in Int
    BY <1>0 DEF Field
  <2> QED BY <2>1, <2>2
<1>3. \A j \in 1 .. Chunk : m[j] \in Int
  <2>1. m \in [1 .. Chunk -> Field(P2)]
    BY InputsFit
  <2>2. \A x \in Field(P2) : x \in Int
    BY <1>0 DEF Field
  <2> QED BY <2>1, <2>2
<1>4. PICK v : v = TermsOf(q, m)
  OBVIOUS
<1>5. PICK w : w = ExactTerms(k, m)
  OBVIOUS
<1>6. DOMAIN v = 1 .. Chunk /\ Len(v) = Chunk /\ DOMAIN w = 1 .. Chunk /\ Len(w) = Chunk
  BY <1>0, <1>4, <1>5 DEF TermsOf, ExactTerms
<1>7. ASSUME NEW j \in 1 .. Chunk PROVE v[j] \in Int /\ w[j] \in Int /\ v[j] % P2 = w[j] % P2
  <2>1. CASE j = 1
    BY <1>3, <1>4, <1>5, <2>1 DEF TermsOf, ExactTerms
  <2>2. CASE j # 1
    <3>1. PICK a \in Int : a = q[j - 1] /\ a = Power(P2, k[((j - 1) % 3) + 1], j - 1)
      <4>1. j - 1 \in 1 .. Chunk
        BY <1>0, <2>2
      <4> QED BY <1>2, <4>1
    <3>2. PICK b \in Int : b = m[j]
      BY <1>3
    <3>3. PICK c \in Int : c = a * b
      OBVIOUS
    <3>4. v[j] = c % P2
      BY <1>4, <2>2, <3>1, <3>2, <3>3 DEF TermsOf, Mul
    <3>5. w[j] = c
      <4>1. w[j] = b * a
        BY <1>5, <2>2, <3>1, <3>2 DEF ExactTerms
      <4> QED BY <3>3, <4>1
    <3>6. PICK r \in 0 .. P2 - 1 : r = c % P2
      BY <1>0, Division
    <3>7. r % P2 = r /\ r \in Int
      BY <1>0, Small
    <3> QED BY <3>4, <3>5, <3>6, <3>7
  <2> QED BY <2>1, <2>2
<1>8. PICK s : Sums(s, v, Chunk)
  BY <1>0, <1>7, SumsExist
<1>9. PICK t : Sums(t, w, Chunk)
  BY <1>0, <1>7, SumsExist
<1>10. SumOf(v) = s[Chunk] /\ SumOf(w) = t[Chunk]
  BY <1>0, <1>6, <1>8, <1>9, SumIs
<1>11. s[Chunk] % P2 = t[Chunk] % P2
  BY <1>0, <1>7, <1>8, <1>9, SumsCongruent
<1>12. PICK x \in Int : x = SumOf(v)
  <2>1. Chunk \in 0 .. Chunk
    BY <1>0
  <2> QED BY <1>0, <1>8, <1>10, <2>1, SumsType
<1>13. PICK y \in Int : y = SumOf(w)
  <2>1. Chunk \in 0 .. Chunk
    BY <1>0
  <2> QED BY <1>0, <1>9, <1>10, <2>1, SumsType
<1>14. PICK z \in Int : z = q[Chunk] /\ z = Power(P2, k[(Chunk % 3) + 1], Chunk)
  <2>1. Chunk \in 1 .. Chunk
    BY <1>0
  <2> QED BY <1>2, <2>1
<1>15. x % P2 = y % P2
  BY <1>10, <1>11, <1>12, <1>13
<1>16. PICK g \in Int : g = x % P2
  BY <1>0, Division
<1>17. (z + g) % P2 = (z + y) % P2
  <2>1. (z + (y % P2)) % P2 = (z + y) % P2
    BY <1>0, ModAdd
  <2> QED BY <1>15, <1>16, <2>1
<1>18. HashOf(q, m) = (g + z) % P2
  BY <1>4, <1>12, <1>14, <1>16 DEF HashOf, Add, Total
<1>19. ExactHash(k, m) = y + z
  BY <1>5, <1>13, <1>14 DEF ExactHash
<1>20. g + z = z + g /\ y + z = z + y
  OBVIOUS
<1>21. (g + z) % P2 \in Int
  <2>1. PICK h \in Int : h = g + z
    OBVIOUS
  <2> QED BY <1>0, <2>1, Division
<1> QED BY <1>1, <1>17, <1>18, <1>19, <1>20, <1>21

(* The number whose i-th symbol is computed for the message m.              *)
Asked(k, u, i) == Add(P2, k[1], Add(P2, u, i))

LEMMA AskedIs ==
  ASSUME NEW k \in [1 .. 3 -> Field(P2)], NEW m \in Messages, NEW i \in Int
  PROVE  /\ Asked(k, HashOf(PreKeys(k), m), i) \in Field(P2)
         /\ Legendre(P2, Asked(k, HashOf(PreKeys(k), m), i)) = Legendre(P2, k[1] + ExactHash(k, m) + i)
<1>0. P2 \in Nat /\ P2 > 1 /\ P2 > 0
  BY Numbers
<1>1. PICK h \in Int : h = ExactHash(k, m)
  BY HashIs
<1>2. PICK u \in Int : u = HashOf(PreKeys(k), m) /\ u = h % P2
  BY <1>1, HashIs
<1>3. PICK a \in Int : a = k[1]
  BY <1>0 DEF Field
<1>4. (i + u) % P2 = (i + h) % P2
  <2>1. (i + (h % P2)) % P2 = (i + h) % P2
    BY <1>0, ModAdd
  <2> QED BY <1>2, <2>1
<1>5. PICK b \in Int : b = i + h
  OBVIOUS
<1>6. Add(P2, u, i) = b % P2
  <2>1. u + i = i + u
    OBVIOUS
  <2> QED BY <1>4, <1>5, <2>1 DEF Add
<1>7. PICK c \in Int : c = a + b
  OBVIOUS
<1>8. (a + (b % P2)) % P2 = c % P2
  <2>1. (a + (b % P2)) % P2 = (a + b) % P2
    BY <1>0, ModAdd
  <2> QED BY <1>7, <2>1
<1>9. PICK d \in 0 .. P2 - 1 : d = c % P2
  BY <1>0, Division
<1>10. d % P2 = c % P2
  <2>1. d % P2 = d
    BY <1>0, Small
  <2> QED BY <1>9, <2>1
<1>11. Asked(k, u, i) = d
  BY <1>3, <1>6, <1>8, <1>9 DEF Asked, Add
<1>12. Legendre(P2, d) = Legendre(P2, c)
  BY <1>10, SymbolOfRemainder
<1>13. c = k[1] + ExactHash(k, m) + i
  BY <1>1, <1>3, <1>5, <1>7
<1> QED BY <1>2, <1>9, <1>11, <1>12, <1>13 DEF Field

(* While the symbols are computed: the hash is the message's, and the bit   *)
(* so far is the OR over the symbols so far, if no mask of theirs was 0.    *)
NonResidueBelow(k, u, n) == \E i \in 0 .. n - 1 : Legendre(P2, Asked(k, u, i)) # -1

BitInv == stage = "legendre" => /\ msg \in Messages /\ uhf = HashOf(pre, msg)
                                /\ count \in 0 .. Evals /\ res \in {0, 1}
                                /\ ~zero => (res = 1 <=> NonResidueBelow(ek, uhf, count))

LEMMA EvaluateKeeps == KeyInv /\ PreInv /\ BitInv /\ Evaluate => BitInv'
<1> SUFFICES ASSUME KeyInv, PreInv, BitInv, Evaluate PROVE BitInv'
  OBVIOUS
<1>0. /\ stage = "legendre" /\ count < Evals /\ count' = count + 1
      /\ UNCHANGED <<stage, ek, pre, msg, uhf>>
  BY DEF Evaluate
<1>1. /\ msg \in Messages /\ uhf = HashOf(pre, msg) /\ count \in 0 .. Evals /\ res \in {0, 1}
      /\ ~zero => (res = 1 <=> NonResidueBelow(ek, uhf, count))
  BY <1>0 DEF BitInv
<1>2. ek \in [1 .. 3 -> Field(P2)] /\ pre = PreKeys(ek)
  BY <1>0 DEF KeyInv, KeysInv, PreInv, Moving, Opening
<1>3. PICK s \in Field(P2) :
        /\ res' = Gather(res, LegendrePrf(P2, s, ek[1], Add(P2, uhf, count)))
        /\ zero' = (zero \/ s = 0)
  BY DEF Evaluate
<1>4. PICK t \in Field(P2) : t = Asked(ek, uhf, count)
  <2>1. count \in Int
    BY <1>1, Numbers
  <2>2. Asked(ek, HashOf(PreKeys(ek), msg), count) \in Field(P2)
    BY <1>1, <1>2, <2>1, AskedIs
  <2> QED BY <1>1, <1>2, <2>2
<1>5. PICK b \in {0, 1} : /\ b = LegendrePrf(P2, s, ek[1], Add(P2, uhf, count))
                          /\ b = IF Legendre(P2, Mul(P2, s * s, t)) = -1 THEN 0 ELSE 1
  BY <1>4 DEF LegendrePrf, Asked
<1>6. res' \in {0, 1} /\ (res' = 1 <=> res = 1 \/ b = 1)
  BY <1>3, <1>5 DEF Gather
<1>7. count' \in 0 .. Evals
  BY <1>0, <1>1, Numbers
<1>8. ASSUME ~zero' PROVE res' = 1 <=> NonResidueBelow(ek, uhf, count + 1)
  <2>1. ~zero /\ s # 0
    BY <1>3, <1>8
  <2>2. b = 1 <=> Legendre(P2, t) # -1
    BY <1>5, <2>1, SquareOut
  <2>3. 0 .. (count + 1) - 1 = (0 .. count - 1) \cup {count}
    BY <1>1, Numbers
  <2>4. NonResidueBelow(ek, uhf, count + 1)
          <=> NonResidueBelow(ek, uhf, count) \/ Legendre(P2, t) # -1
    BY <1>4, <2>3 DEF NonResidueBelow
  <2> QED BY <1>1, <1>6, <2>1, <2>2, <2>4
<1>9. uhf' = HashOf(pre, msg)' /\ msg' \in Messages
  BY <1>0, <1>1 DEF HashOf, TermsOf
<1>10. NonResidueBelow(ek, uhf, count)' <=> NonResidueBelow(ek, uhf, count + 1)
  BY <1>0 DEF NonResidueBelow, Asked
<1> QED BY <1>6, <1>7, <1>8, <1>9, <1>10 DEF BitInv

LEMMA HashKeeps == KeyInv /\ PreInv /\ BitInv /\ Hash => BitInv'
<1> SUFFICES ASSUME KeyInv, PreInv, BitInv, Hash PROVE BitInv'
  OBVIOUS
<1>1. /\ msg' \in Messages /\ count' = 0 /\ res' = 0 /\ pre' = pre
      /\ uhf' = Add(P2, Total(P2, Terms(msg')), pre[Chunk])
  BY DEF Hash
<1>2. HashOf(pre, msg)' = uhf'
  BY <1>1 DEF HashOf, TermsOf, Terms
<1>3. ~ NonResidueBelow(ek, uhf, count)'
  <2>1. 0 .. count' - 1 = {}
    BY <1>1
  <2> QED BY <2>1 DEF NonResidueBelow
<1>4. count' \in 0 .. Evals
  BY <1>1, Numbers
<1> QED BY <1>1, <1>2, <1>3, <1>4 DEF BitInv

LEMMA BitInvNext == KeyInv /\ PreInv /\ BitInv /\ [Next]_vars => BitInv'
<1> SUFFICES ASSUME KeyInv, PreInv, BitInv, [Next]_vars PROVE BitInv'
  OBVIOUS
<1>1. CASE Hash
  BY <1>1, HashKeeps
<1>2. CASE Evaluate
  BY <1>2, EvaluateKeeps
<1>3. CASE PhaseOne \/ DrawMask \/ Reveal \/ PhaseTwo \/ XorAndCombine \/ Offline \/ Answer
  <2>1. stage' # "legendre"
    BY <1>3 DEF PhaseOne, DrawMask, Reveal, PhaseTwo, XorAndCombine, Offline, Answer
  <2> QED BY <2>1 DEF BitInv
<1>4. CASE UNCHANGED vars
  BY <1>4 DEF vars, BitInv, HashOf, TermsOf, NonResidueBelow, Asked
<1> QED BY <1>1, <1>2, <1>3, <1>4 DEF Next

THEOREM KeyToBit == Spec => [](KeyInv /\ PreInv /\ BitInv)
<1>1. Init => PreInv /\ BitInv
  BY DEF Init, PreInv, BitInv, Moving, Opening
<1> QED BY <1>1, KeyInvInit, KeyInvNext, PreInvNext, BitInvNext, PTL DEF Spec

(* The bit returned is the one the keys and the message determine: some     *)
(* symbol of s0 + hash + i is not -1.  A mask of 0 hides a symbol, and the  *)
(* code takes the answer for a residue; that is the only exception.         *)
THEOREM BitOfTheMessage == Spec => []CustodyBitRight
<1>1. KeyInv /\ PreInv /\ BitInv => CustodyBitRight
  <2> SUFFICES ASSUME KeyInv, PreInv, BitInv, stage = "legendre", count = Evals, ~zero
               PROVE  res = 1 <=> Reference(msg)
    BY DEF CustodyBitRight
  <2>1. msg \in Messages /\ uhf = HashOf(pre, msg) /\ (res = 1 <=> NonResidueBelow(ek, uhf, Evals))
    BY DEF BitInv
  <2>2. ek \in [1 .. 3 -> Field(P2)] /\ pre = PreKeys(ek)
    BY DEF KeyInv, KeysInv, PreInv, Moving, Opening
  <2>3. \A i \in 0 .. Evals - 1 :
          Legendre(P2, Asked(ek, uhf, i)) = Legendre(P2, ek[1] + ExactHash(ek, msg) + i)
    <3>1. \A i \in 0 .. Evals - 1 : i \in Int
      BY Numbers
    <3> QED BY <2>1, <2>2, <3>1, AskedIs
  <2>4. Reference(msg) <=> \E i \in 0 .. Evals - 1 : Legendre(P2, ek[1] + ExactHash(ek, msg) + i) # -1
    BY DEF Reference, ExactHash, ExactTerms
  <2> QED BY <2>1, <2>3, <2>4 DEF NonResidueBelow
<1> QED BY <1>1, KeyToBit, PTL
====
