-------------------------- MODULE DistKeyGenProofs --------------------------
(***************************************************************************)
(* For any number of parties, threshold, stream capacity, number of wrong  *)
(* frames and prime field: the inductive invariant of DistKeyGen, and what *)
(* follows from it.  The first half is the arithmetic of FrArith: sums and *)
(* products over a set, the field of Q elements, Horner's rule, and the    *)
(* Lagrange weights, which recover the constant of a polynomial from the   *)
(* values at more points than its degree.  The second half is the protocol:*)
(* its invariant, the keys each party holds, and the joint key.            *)
(***************************************************************************)
EXTENDS JointKey, WellFoundedInduction, FiniteSetTheorems, TLAPS

-----------------------------------------------------------------------------
(***************************************************************************)
(* Sums and products over a finite set.                                    *)
(***************************************************************************)
(* Induction from 0 up to n.                                                *)
LEMMA UpTo ==
  ASSUME NEW n \in Nat, NEW S, 0 \in S, \A i \in 0 .. n : i # n /\ i \in S => i + 1 \in S
  PROVE  0 .. n \subseteq S
<1> DEFINE D == (0 .. n) \ S
<1> SUFFICES ASSUME D # {} PROVE FALSE
  OBVIOUS
<1>1. D \in SUBSET Nat
  OBVIOUS
<1> HIDE DEF D
<1>2. PICK m \in D : \A i \in D : ~ (<<i, m>> \in OpToRel(<, Nat))
  BY <1>1, NatLessThanWellFounded, WFMin
<1>3. m \in 0 .. n /\ m \notin S
  BY DEF D
<1>4. m # 0 /\ m - 1 \in 0 .. n /\ m - 1 # n /\ m - 1 + 1 = m /\ m - 1 < m /\ m \in Nat /\ m - 1 \in Nat
  BY <1>3
<1>5. m - 1 \notin D
  BY <1>2, <1>4 DEF OpToRel
<1>6. m - 1 \in S
  BY <1>4, <1>5 DEF D
<1> QED BY <1>3, <1>4, <1>6

(* Induction over a finite set, element by element.                         *)
LEMMA OverSet ==
  ASSUME NEW S, IsFiniteSet(S), NEW G, {} \in G,
         \A X \in SUBSET S : \A y \in S \ X : X \in G => X \cup {y} \in G
  PROVE  S \in G
<1>1. PICK n \in Nat : n = Cardinality(S)
  BY FS_CardinalityType
<1> DEFINE K == {k \in Nat : \E X \in SUBSET S : X \in G /\ Cardinality(X) = k}
<1>2. 0 \in K
  BY FS_EmptySet
<1>3. ASSUME NEW k \in 0 .. n, k # n, k \in K PROVE k + 1 \in K
  <2>1. PICK X \in SUBSET S : X \in G /\ Cardinality(X) = k
    BY <1>3
  <2>2. IsFiniteSet(X)
    BY FS_Subset
  <2>3. PICK y \in S \ X : TRUE
    BY <1>1, <1>3, <2>1
  <2>4. Cardinality(X \cup {y}) = k + 1
    BY <2>1, <2>2, <2>3, FS_AddElement
  <2>5. X \cup {y} \in G /\ X \cup {y} \in SUBSET S /\ k + 1 \in Nat
    BY <2>1, <2>3
  <2> QED BY <2>4, <2>5
<1> HIDE DEF K
<1>4. n \in K
  <2>1. 0 .. n \subseteq K
    BY <1>2, <1>3, UpTo
  <2> QED BY <2>1
<1>5. PICK X \in SUBSET S : X \in G /\ Cardinality(X) = n
  BY <1>4 DEF K
<1>6. X = S
  BY <1>1, <1>5, FS_Subset
<1> QED BY <1>5, <1>6

(* it[s] combines, starting from v, the values of f at the elements of s,   *)
(* in any order.                                                            *)
Gathers(it, U, V, o, v, f) ==
  /\ it \in [SUBSET U -> V] /\ it[{}] = v
  /\ \A s \in SUBSET U : \A x \in s : it[s] = o[f[x]][it[s \ {x}]]

(* An operation on V whose order does not matter.                           *)
Mixes(o, V) == /\ o \in [V -> [V -> V]]
               /\ \A a, b, c \in V : o[a][o[b][c]] = o[b][o[a][c]]

(* One element more can be combined.                                        *)
LEMMA FoldMore ==
  ASSUME NEW V, NEW v \in V, NEW o, Mixes(o, V), NEW U, NEW f, \A x \in U : f[x] \in V,
         NEW X \in SUBSET U, NEW y \in U \ X, NEW it, Gathers(it, X, V, o, v, f)
  PROVE  \E jt : Gathers(jt, X \cup {y}, V, o, v, f)
<1> DEFINE Y == X \cup {y}
           g(s) == IF y \in s THEN o[f[y]][it[s \ {y}]] ELSE it[s]
           jt == [s \in SUBSET Y |-> g(s)]
<1>1. \A s \in SUBSET Y : s \ {y} \in SUBSET X
  OBVIOUS
<1>2. \A s \in SUBSET X : it[s] \in V
  BY DEF Gathers
<1>3. \A a, b \in V : o[a][b] \in V
  BY DEF Mixes
<1>4. f[y] \in V
  OBVIOUS
<1>5. \A s \in SUBSET Y : y \notin s => s \in SUBSET X
  OBVIOUS
<1>6. \A s \in SUBSET Y : g(s) \in V
  BY <1>1, <1>2, <1>3, <1>4, <1>5
<1>7. jt \in [SUBSET Y -> V] /\ \A s \in SUBSET Y : jt[s] = g(s)
  BY <1>6
<1>8. jt[{}] = v
  <2>1. {} \in SUBSET Y /\ y \notin {}
    OBVIOUS
  <2>2. it[{}] = v
    BY DEF Gathers
  <2> QED BY <1>7, <2>1, <2>2
<1>9. ASSUME NEW s \in SUBSET Y, NEW x \in s PROVE jt[s] = o[f[x]][jt[s \ {x}]]
  <2>0. s \ {x} \in SUBSET Y
    OBVIOUS
  <2>1. CASE x = y
    <3>1. jt[s] = o[f[y]][it[s \ {y}]]
      BY <1>7, <2>1
    <3>2. jt[s \ {y}] = it[s \ {y}]
      BY <1>7, <2>0, <2>1
    <3> QED BY <2>1, <3>1, <3>2
  <2>2. CASE x # y /\ y \in s
    <3>1. PICK r : r = s \ {x, y}
      OBVIOUS
    <3>2. r \in SUBSET X /\ (s \ {y}) \ {x} = r /\ (s \ {x}) \ {y} = r /\ x \in X /\ x \in s \ {y}
      BY <2>2, <3>1
    <3>3. jt[s] = o[f[y]][it[s \ {y}]]
      BY <1>7, <2>2
    <3>4. it[s \ {y}] = o[f[x]][it[r]]
      BY <1>1, <3>2 DEF Gathers
    <3>5. jt[s \ {x}] = o[f[y]][it[r]]
      <4>1. y \in s \ {x}
        BY <2>2
      <4>2. jt[s \ {x}] = o[f[y]][it[(s \ {x}) \ {y}]]
        BY <1>7, <2>0, <4>1
      <4> QED BY <3>2, <4>2
    <3>6. f[x] \in V /\ it[r] \in V
      BY <1>2, <3>2
    <3>7. o[f[y]][o[f[x]][it[r]]] = o[f[x]][o[f[y]][it[r]]]
      BY <1>4, <3>6 DEF Mixes
    <3> QED BY <3>3, <3>4, <3>5, <3>7
  <2>3. CASE y \notin s
    <3>1. s \in SUBSET X /\ s \ {x} \in SUBSET X /\ y \notin s \ {x}
      BY <2>3
    <3>2. jt[s] = it[s] /\ jt[s \ {x}] = it[s \ {x}]
      BY <1>7, <2>0, <2>3, <3>1
    <3> QED BY <3>1, <3>2 DEF Gathers
  <2> QED BY <2>1, <2>2, <2>3
<1> HIDE DEF jt
<1>10. Gathers(jt, Y, V, o, v, f)
  BY <1>7, <1>8, <1>9 DEF Gathers
<1> QED BY <1>10

(* All elements of a finite set can.                                        *)
LEMMA FoldExists ==
  ASSUME NEW V, NEW v \in V, NEW o, Mixes(o, V), NEW U, IsFiniteSet(U), NEW f,
         \A x \in U : f[x] \in V
  PROVE  \E it : Gathers(it, U, V, o, v, f)
<1> DEFINE G == {X \in SUBSET U : \E it : Gathers(it, X, V, o, v, f)}
<1>1. {} \in G
  <2>1. PICK it : it = [s \in SUBSET {} |-> v]
    OBVIOUS
  <2>2. it \in [SUBSET {} -> V] /\ it[{}] = v
    BY <2>1
  <2>3. \A s \in SUBSET {} : \A x \in s : it[s] = o[f[x]][it[s \ {x}]]
    OBVIOUS
  <2>4. Gathers(it, {}, V, o, v, f)
    BY <2>2, <2>3 DEF Gathers
  <2> QED BY <2>4
<1>2. ASSUME NEW X \in SUBSET U, NEW y \in U \ X, X \in G PROVE X \cup {y} \in G
  <2>1. \E it : Gathers(it, X, V, o, v, f)
    BY <1>2
  <2>2. \E it : Gathers(it, X \cup {y}, V, o, v, f)
    BY <2>1, FoldMore
  <2>3. X \cup {y} \in SUBSET U
    OBVIOUS
  <2> QED BY <2>2, <2>3
<1> HIDE DEF G
<1>3. U \in G
  BY <1>1, <1>2, OverSet
<1> QED BY <1>3 DEF G

(* It can be done within a part of the set.                                 *)
LEMMA FoldWithin ==
  ASSUME NEW V, NEW v, NEW o, NEW U, NEW f, NEW it, Gathers(it, U, V, o, v, f), NEW X \in SUBSET U,
         NEW g, \A x \in X : g[x] = f[x]
  PROVE  \E jt : Gathers(jt, X, V, o, v, g) /\ jt[X] = it[X]
<1>0. PICK jt : jt = [s \in SUBSET X |-> it[s]]
  OBVIOUS
<1>1. \A s \in SUBSET X : s \in SUBSET U /\ jt[s] = it[s] /\ it[s] \in V
  BY <1>0 DEF Gathers
<1>2. jt \in [SUBSET X -> V] /\ jt[{}] = v
  BY <1>0, <1>1 DEF Gathers
<1>3. ASSUME NEW s \in SUBSET X, NEW x \in s PROVE jt[s] = o[g[x]][jt[s \ {x}]]
  <2>1. s \ {x} \in SUBSET X /\ x \in X
    OBVIOUS
  <2>2. it[s] = o[f[x]][it[s \ {x}]]
    BY <1>1 DEF Gathers
  <2> QED BY <1>1, <2>1, <2>2
<1>4. Gathers(jt, X, V, o, v, g)
  BY <1>2, <1>3 DEF Gathers
<1> QED BY <1>1, <1>4

First(s) == CHOOSE x \in s : TRUE

(* Two functions of the subsets that take one element out of them at a time.*)
LEMMA IterSame ==
  ASSUME NEW U, IsFiniteSet(U), NEW it, NEW jt, it[{}] = jt[{}],
         \A s \in SUBSET U : s # {} /\ it[s \ {First(s)}] = jt[s \ {First(s)}] => it[s] = jt[s]
  PROVE  it[U] = jt[U]
<1>0. \A s \in SUBSET U : IsFiniteSet(s) /\ Cardinality(s) \in Nat
  BY FS_Subset, FS_CardinalityType
<1> DEFINE K == {k \in Nat : \A s \in SUBSET U : Cardinality(s) = k => it[s] = jt[s]}
<1>1. 0 \in K
  BY <1>0, FS_EmptySet
<1>2. ASSUME NEW k \in Nat, k \in K PROVE k + 1 \in K
  <2>1. ASSUME NEW s \in SUBSET U, Cardinality(s) = k + 1 PROVE it[s] = jt[s]
    <3>1. s # {}
      <4>1. Cardinality({}) = 0
        BY FS_EmptySet
      <4>2. Cardinality(s) # 0
        BY <2>1
      <4> QED BY <4>1, <4>2
    <3>2. First(s) \in s
      BY <3>1 DEF First
    <3>3. Cardinality(s \ {First(s)}) = k
      BY <1>0, <2>1, <3>2, FS_RemoveElement
    <3>4. s \ {First(s)} \in SUBSET U
      OBVIOUS
    <3> QED BY <1>2, <3>1, <3>3, <3>4
  <2> QED BY <2>1
<1> HIDE DEF K
<1>3. PICK n \in Nat : n = Cardinality(U)
  BY <1>0
<1>4. n \in K
  <2>1. 0 .. n \subseteq K
    BY <1>1, <1>2, UpTo
  <2> QED BY <2>1
<1> QED BY <1>3, <1>4 DEF K

Adds == [a \in Int |-> [b \in Int |-> a + b]]
Muls == [a \in Scalar |-> [b \in Scalar |-> FrMul(a, b)]]

(* SumFunction adds up the values of a function.                            *)
LEMMA SumIs ==
  ASSUME NEW U, IsFiniteSet(U), NEW f, DOMAIN f = U, \A x \in U : f[x] \in Int,
         NEW jt, Gathers(jt, U, Int, Adds, 0, f)
  PROVE  SumFunction(f) = jt[U]
<1> DEFINE Iter(it) == it = [s \in SUBSET U |->
                               IF s = {} THEN 0 ELSE f[First(s)] + it[s \ {First(s)}]]
<1>1. SumFunction(f) = (CHOOSE it : Iter(it))[U]
  BY DEF SumFunction, SumFunctionOnSet, FoldFunctionOnSet, MapThenFoldSet, First
<1>2. /\ jt \in [SUBSET U -> Int] /\ jt[{}] = 0
      /\ \A s \in SUBSET U : \A x \in s : jt[s] = Adds[f[x]][jt[s \ {x}]]
  BY DEF Gathers
<1>3. \A s \in SUBSET U : s # {} => First(s) \in s /\ s \ {First(s)} \in SUBSET U
  BY DEF First
<1>4. \A s \in SUBSET U : s # {} => jt[s] = f[First(s)] + jt[s \ {First(s)}]
  <2> SUFFICES ASSUME NEW s \in SUBSET U, s # {} PROVE jt[s] = f[First(s)] + jt[s \ {First(s)}]
    OBVIOUS
  <2>1. PICK x \in s : x = First(s)
    BY <1>3
  <2>2. jt[s] = Adds[f[x]][jt[s \ {x}]]
    BY <1>2
  <2>3. f[x] \in Int /\ jt[s \ {x}] \in Int
    BY <1>2
  <2>4. Adds[f[x]][jt[s \ {x}]] = f[x] + jt[s \ {x}]
    BY <2>3 DEF Adds
  <2> QED BY <2>1, <2>2, <2>4
<1>5. Iter(jt)
  <2> DEFINE g(s) == IF s = {} THEN 0 ELSE f[First(s)] + jt[s \ {First(s)}]
  <2>1. \A s \in SUBSET U : jt[s] = g(s)
    BY <1>2, <1>4
  <2>2. DOMAIN jt = SUBSET U /\ jt = [s \in DOMAIN jt |-> jt[s]]
    BY <1>2
  <2> HIDE DEF g
  <2>3. jt = [s \in SUBSET U |-> g(s)]
    BY <2>1, <2>2
  <2> QED BY <2>3 DEF g
<1>6. PICK it : it = (CHOOSE t : Iter(t))
  OBVIOUS
<1>7. Iter(it)
  BY <1>5, <1>6
<1>8. it[{}] = 0 /\ \A s \in SUBSET U : s # {} => it[s] = f[First(s)] + it[s \ {First(s)}]
  <2>1. {} \in SUBSET U
    OBVIOUS
  <2> QED BY <1>7, <2>1
<1> HIDE DEF Iter
<1>9. \A s \in SUBSET U : s # {} /\ it[s \ {First(s)}] = jt[s \ {First(s)}] => it[s] = jt[s]
  BY <1>4, <1>8
<1>10. it[{}] = jt[{}]
  BY <1>2, <1>8
<1>11. it[U] = jt[U]
  BY <1>9, <1>10, IterSame
<1> QED BY <1>1, <1>6, <1>11

(* ProdOver multiplies them.                                                *)
LEMMA ProdIs ==
  ASSUME NEW U, IsFiniteSet(U), NEW f, DOMAIN f = U, \A x \in U : f[x] \in Scalar,
         NEW jt, Gathers(jt, U, Scalar, Muls, 1, f)
  PROVE  ProdOver(f) = jt[U]
<1> DEFINE Iter(it) == it = [s \in SUBSET U |->
                               IF s = {} THEN 1 ELSE FrMul(f[First(s)], it[s \ {First(s)}])]
<1>1. ProdOver(f) = (CHOOSE it : Iter(it))[U]
  BY DEF ProdOver, FoldFunction, FoldFunctionOnSet, MapThenFoldSet, First
<1>2. /\ jt \in [SUBSET U -> Scalar] /\ jt[{}] = 1
      /\ \A s \in SUBSET U : \A x \in s : jt[s] = Muls[f[x]][jt[s \ {x}]]
  BY DEF Gathers
<1>3. \A s \in SUBSET U : s # {} => First(s) \in s /\ s \ {First(s)} \in SUBSET U
  BY DEF First
<1>4. \A s \in SUBSET U : s # {} => jt[s] = FrMul(f[First(s)], jt[s \ {First(s)}])
  <2> SUFFICES ASSUME NEW s \in SUBSET U, s # {}
               PROVE  jt[s] = FrMul(f[First(s)], jt[s \ {First(s)}])
    OBVIOUS
  <2>1. PICK x \in s : x = First(s)
    BY <1>3
  <2>2. jt[s] = Muls[f[x]][jt[s \ {x}]]
    BY <1>2
  <2>3. f[x] \in Scalar /\ jt[s \ {x}] \in Scalar
    BY <1>2
  <2>4. Muls[f[x]][jt[s \ {x}]] = FrMul(f[x], jt[s \ {x}])
    BY <2>3 DEF Muls
  <2> QED BY <2>1, <2>2, <2>4
<1>5. Iter(jt)
  <2> DEFINE g(s) == IF s = {} THEN 1 ELSE FrMul(f[First(s)], jt[s \ {First(s)}])
  <2>1. \A s \in SUBSET U : jt[s] = g(s)
    BY <1>2, <1>4
  <2>2. DOMAIN jt = SUBSET U /\ jt = [s \in DOMAIN jt |-> jt[s]]
    BY <1>2
  <2> HIDE DEF g
  <2>3. jt = [s \in SUBSET U |-> g(s)]
    BY <2>1, <2>2
  <2> QED BY <2>3 DEF g
<1>6. PICK it : it = (CHOOSE t : Iter(t))
  OBVIOUS
<1>7. Iter(it)
  BY <1>5, <1>6
<1>8. it[{}] = 1 /\ \A s \in SUBSET U : s # {} => it[s] = FrMul(f[First(s)], it[s \ {First(s)}])
  <2>1. {} \in SUBSET U
    OBVIOUS
  <2> QED BY <1>7, <2>1
<1> HIDE DEF Iter
<1>9. \A s \in SUBSET U : s # {} /\ it[s \ {First(s)}] = jt[s \ {First(s)}] => it[s] = jt[s]
  BY <1>4, <1>8
<1>10. it[{}] = jt[{}]
  BY <1>2, <1>8
<1>11. it[U] = jt[U]
  BY <1>9, <1>10, IterSame
<1> QED BY <1>1, <1>6, <1>11

-----------------------------------------------------------------------------
(***************************************************************************)
(* Arithmetic modulo Q.                                                    *)
(***************************************************************************)
LEMMA Division ==
  ASSUME NEW q \in Nat, q > 0, NEW a \in Int
  PROVE  a = (a \div q) * q + (a % q)
OBVIOUS

(* A remainder is a scalar, off its number by a multiple of Q.              *)
LEMMA ModIs ==
  ASSUME NEW a \in Int
  PROVE  a % Q \in Scalar /\ a % Q \in Int /\ \E k \in Int : a = k * Q + (a % Q)
<1>1. Q \in Nat /\ Q > 0
  BY PrimeAssumption
<1>2. a % Q \in 0 .. Q - 1
  BY <1>1
<1>3. a \div Q \in Int
  BY <1>1
<1>4. a = (a \div Q) * Q + (a % Q)
  BY <1>1, Division
<1>5. a % Q \in Int
  BY <1>1, <1>2
<1> QED BY <1>2, <1>3, <1>4, <1>5 DEF Scalar

(* Scalars that differ by a multiple of q are equal.                        *)
LEMMA Unique ==
  ASSUME NEW q \in Nat, NEW r \in 0 .. q - 1, NEW s \in 0 .. q - 1, NEW k \in Int, r = s + k * q
  PROVE  r = s
<1>1. q > 0 /\ r \in Int /\ s \in Int /\ r < q /\ s < q /\ 0 <= r /\ 0 <= s
  OBVIOUS
<1>2. k * q < q /\ -q < k * q
  BY <1>1
<1>3. CASE k >= 1
  <2>1. k * q >= q
    BY <1>1, <1>3
  <2> QED BY <1>1, <1>2, <2>1
<1>4. CASE k <= -1
  <2>1. k * q <= -q
    BY <1>1, <1>4
  <2> QED BY <1>1, <1>2, <2>1
<1>5. CASE k = 0
  BY <1>1, <1>5
<1> QED BY <1>3, <1>4, <1>5

(* Numbers that differ by a multiple of Q have one remainder.               *)
LEMMA Congruent ==
  ASSUME NEW a \in Int, NEW b \in Int, NEW k \in Int, a = b + k * Q
  PROVE  a % Q = b % Q
<1>0. Q \in Nat /\ Q \in Int
  BY PrimeAssumption
<1>1. PICK r \in Scalar : r = a % Q /\ r \in Int
  BY ModIs
<1>2. PICK s \in Scalar : s = b % Q /\ s \in Int
  BY ModIs
<1>3. PICK m \in Int : a = m * Q + r
  BY <1>1, ModIs
<1>4. PICK n \in Int : b = n * Q + s
  BY <1>2, ModIs
<1>5. PICK h \in Int : h = n + k - m
  OBVIOUS
<1>6. r = s + h * Q
  <2>1. PICK x \in Int : x = m * Q
    BY <1>0
  <2>2. PICK y \in Int : y = n * Q
    BY <1>0
  <2>3. PICK z \in Int : z = k * Q
    BY <1>0
  <2>4. a = x + r /\ b = y + s /\ a = b + z
    BY <1>3, <1>4, <2>1, <2>2, <2>3
  <2>5. r = s + (y + z - x)
    <3>1. r \in Int /\ s \in Int
      BY <1>1, <1>2
    <3> QED BY <2>4, <3>1
  <2>6. n * Q + k * Q - m * Q = h * Q
    BY <1>0, <1>5
  <2> QED BY <2>1, <2>2, <2>3, <2>5, <2>6
<1> QED BY <1>0, <1>1, <1>2, <1>6, Unique DEF Scalar

(* A scalar is its own remainder.                                           *)
LEMMA Small ==
  ASSUME NEW a \in Scalar
  PROVE  a % Q = a /\ a \in Int /\ 0 \in Scalar /\ 1 \in Scalar
<1>1. Q \in Nat \ {0, 1} /\ a \in 0 .. Q - 1
  BY PrimeAssumption DEF Scalar
<1>2. a % Q = a
  BY <1>1
<1> QED BY <1>1, <1>2 DEF Scalar

(* The remainder may be taken of a summand first,                           *)
LEMMA ModAdd ==
  ASSUME NEW a \in Int, NEW b \in Int
  PROVE  (a + (b % Q)) % Q = (a + b) % Q
<1>0. Q \in Int
  BY PrimeAssumption
<1>1. PICK r \in Int : r = b % Q
  BY ModIs
<1>2. PICK k \in Int : b = k * Q + r
  BY <1>1, ModIs
<1>3. a + b = (a + r) + k * Q /\ a + b \in Int /\ a + r \in Int
  BY <1>0, <1>2
<1>4. (a + b) % Q = (a + r) % Q
  BY <1>3, Congruent
<1> QED BY <1>1, <1>4

(* and of a factor.                                                         *)
LEMMA ModMul ==
  ASSUME NEW a \in Int, NEW b \in Int
  PROVE  (a * (b % Q)) % Q = (a * b) % Q
<1>0. Q \in Int
  BY PrimeAssumption
<1>1. PICK r \in Int : r = b % Q
  BY ModIs
<1>2. PICK k \in Int : b = k * Q + r
  BY <1>1, ModIs
<1>3. PICK h \in Int : h = a * k
  OBVIOUS
<1>4. a * b = a * r + h * Q /\ a * b \in Int /\ a * r \in Int
  BY <1>0, <1>2, <1>3
<1>5. (a * b) % Q = (a * r) % Q
  BY <1>4, Congruent
<1> QED BY <1>1, <1>5

(* The scalars are a commutative ring.                                      *)
LEMMA Ring ==
  ASSUME NEW a \in Scalar, NEW b \in Scalar
  PROVE  /\ FrAdd(a, b) \in Scalar /\ FrMul(a, b) \in Scalar
         /\ FrAdd(a, b) = FrAdd(b, a) /\ FrMul(a, b) = FrMul(b, a)
         /\ FrAdd(a, 0) = a /\ FrMul(a, 1) = a /\ FrMul(a, 0) = 0
<1>1. a \in Int /\ b \in Int /\ a % Q = a /\ 0 % Q = 0
  BY Small
<1>2. a + b \in Int /\ a * b \in Int /\ a + b = b + a /\ a * b = b * a
  BY <1>1
<1>3. a + 0 = a /\ a * 1 = a /\ a * 0 = 0
  BY <1>1
<1> QED BY <1>1, <1>2, <1>3, ModIs DEF FrAdd, FrMul

(* FrAdd is associative,                                                    *)
LEMMA AddAssoc ==
  ASSUME NEW a \in Scalar, NEW b \in Scalar, NEW c \in Scalar
  PROVE  FrAdd(a, FrAdd(b, c)) = FrAdd(FrAdd(a, b), c)
<1>1. a \in Int /\ b \in Int /\ c \in Int
  BY Small
<1>2. (a + ((b + c) % Q)) % Q = (a + (b + c)) % Q
  BY <1>1, ModAdd
<1>3. (c + ((a + b) % Q)) % Q = (c + (a + b)) % Q
  BY <1>1, ModAdd
<1>4. PICK r \in Int : r = (a + b) % Q
  BY <1>1, ModIs
<1>5. a + (b + c) = c + (a + b) /\ c + r = r + c
  BY <1>1
<1> QED BY <1>2, <1>3, <1>4, <1>5 DEF FrAdd

(* FrMul is,                                                                *)
LEMMA MulAssoc ==
  ASSUME NEW a \in Scalar, NEW b \in Scalar, NEW c \in Scalar
  PROVE  FrMul(a, FrMul(b, c)) = FrMul(FrMul(a, b), c)
<1>1. a \in Int /\ b \in Int /\ c \in Int
  BY Small
<1>2. (a * ((b * c) % Q)) % Q = (a * (b * c)) % Q
  BY <1>1, ModMul
<1>3. (c * ((a * b) % Q)) % Q = (c * (a * b)) % Q
  BY <1>1, ModMul
<1>4. PICK r \in Int : r = (a * b) % Q
  BY <1>1, ModIs
<1>5. a * (b * c) = c * (a * b) /\ c * r = r * c
  BY <1>1
<1> QED BY <1>2, <1>3, <1>4, <1>5 DEF FrMul

(* and FrMul distributes over FrAdd.                                        *)
LEMMA Distrib ==
  ASSUME NEW a \in Scalar, NEW b \in Scalar, NEW c \in Scalar
  PROVE  FrMul(a, FrAdd(b, c)) = FrAdd(FrMul(a, b), FrMul(a, c))
<1>1. a \in Int /\ b \in Int /\ c \in Int
  BY Small
<1>2. (a * ((b + c) % Q)) % Q = (a * (b + c)) % Q
  BY <1>1, ModMul
<1>3. PICK x \in Int : x = a * b
  BY <1>1
<1>4. PICK y \in Int : y = a * c
  BY <1>1
<1>5. a * (b + c) = x + y
  BY <1>1, <1>3, <1>4
<1>6. PICK r \in Int : r = x % Q
  BY ModIs
<1>7. (r + (y % Q)) % Q = (r + y) % Q /\ (y + (x % Q)) % Q = (y + x) % Q
  BY ModAdd
<1>8. r + y = y + r /\ y + x = x + y
  OBVIOUS
<1> QED BY <1>2, <1>3, <1>4, <1>5, <1>6, <1>7, <1>8 DEF FrMul, FrAdd

-----------------------------------------------------------------------------
(***************************************************************************)
(* What SumOver and ProdOver compute, one element at a time.               *)
(***************************************************************************)
Without(f, x) == [y \in DOMAIN f \ {x} |-> f[y]]

(* The order of summands does not matter,                                   *)
LEMMA AddsMix == Mixes(Adds, Int)
<1>1. \A a, b \in Int : Adds[a][b] = a + b
  BY DEF Adds
<1>2. Adds \in [Int -> [Int -> Int]]
  BY DEF Adds
<1>3. ASSUME NEW a \in Int, NEW b \in Int, NEW c \in Int PROVE Adds[a][Adds[b][c]] = Adds[b][Adds[a][c]]
  <2>1. Adds[b][c] = b + c /\ Adds[a][c] = a + c
    BY <1>1
  <2>2. PICK y \in Int : y = b + c
    OBVIOUS
  <2>3. PICK z \in Int : z = a + c
    OBVIOUS
  <2>4. Adds[a][y] = a + y /\ Adds[b][z] = b + z
    BY <1>1
  <2>5. a + y = b + z
    BY <2>2, <2>3
  <2> QED BY <2>1, <2>2, <2>3, <2>4, <2>5
<1> QED BY <1>2, <1>3 DEF Mixes

(* nor that of factors.                                                     *)
LEMMA MulsMix == Mixes(Muls, Scalar)
<1>1. \A a, b \in Scalar : Muls[a][b] = FrMul(a, b) /\ FrMul(a, b) \in Scalar
  BY Ring DEF Muls
<1>2. Muls \in [Scalar -> [Scalar -> Scalar]]
  BY <1>1 DEF Muls
<1>3. ASSUME NEW a \in Scalar, NEW b \in Scalar, NEW c \in Scalar
      PROVE  Muls[a][Muls[b][c]] = Muls[b][Muls[a][c]]
  <2>1. Muls[b][c] = FrMul(b, c) /\ Muls[a][c] = FrMul(a, c)
    BY <1>1
  <2>2. Muls[a][FrMul(b, c)] = FrMul(a, FrMul(b, c)) /\ Muls[b][FrMul(a, c)] = FrMul(b, FrMul(a, c))
    BY <1>1
  <2>3. FrMul(a, FrMul(b, c)) = FrMul(FrMul(a, b), c) /\ FrMul(b, FrMul(a, c)) = FrMul(FrMul(b, a), c)
    BY MulAssoc
  <2>4. FrMul(a, b) = FrMul(b, a)
    BY Ring
  <2> QED BY <2>1, <2>2, <2>3, <2>4
<1> QED BY <1>2, <1>3 DEF Mixes

(* A sum is its value at an element and the sum of the others.              *)
LEMMA SumStep ==
  ASSUME NEW S, IsFiniteSet(S), NEW f \in [S -> Scalar]
  PROVE  /\ SumOver(f) \in Scalar
         /\ S = {} => SumOver(f) = 0
         /\ \A x \in S : SumOver(f) = FrAdd(f[x], SumOver(Without(f, x)))
<1>1. \A x \in S : f[x] \in Int
  BY Small
<1>0. 0 \in Int
  OBVIOUS
<1>2. PICK it : Gathers(it, S, Int, Adds, 0, f)
  BY <1>0, <1>1, AddsMix, FoldExists
<1>3. SumFunction(f) = it[S]
  BY <1>1, <1>2, SumIs
<1>4. it[S] \in Int
  BY <1>2 DEF Gathers
<1>5. SumOver(f) = it[S] % Q
  BY <1>3 DEF SumOver
<1>6. SumOver(f) \in Scalar
  BY <1>4, <1>5, ModIs
<1>7. S = {} => SumOver(f) = 0
  <2> SUFFICES ASSUME S = {} PROVE SumOver(f) = 0
    OBVIOUS
  <2>1. it[S] = 0
    BY <1>2 DEF Gathers
  <2>2. 0 % Q = 0
    BY Small, PrimeAssumption DEF Scalar
  <2> QED BY <1>5, <2>1, <2>2
<1>8. ASSUME NEW x \in S PROVE SumOver(f) = FrAdd(f[x], SumOver(Without(f, x)))
  <2>1. PICK X : X = S \ {x}
    OBVIOUS
  <2>2. PICK g : g = Without(f, x)
    OBVIOUS
  <2>3. DOMAIN g = X /\ \A y \in X : g[y] = f[y] /\ g[y] \in Int
    BY <1>1, <2>1, <2>2 DEF Without
  <2>5. X \in SUBSET S /\ IsFiniteSet(X)
    BY <2>1, FS_Subset
  <2>6. PICK jt : Gathers(jt, X, Int, Adds, 0, g) /\ jt[X] = it[X]
    <3>1. X \in SUBSET S /\ \A y \in X : g[y] = f[y]
      BY <2>3, <2>5
    <3> QED BY <1>2, <3>1, FoldWithin
  <2>7. SumFunction(g) = jt[X]
    BY <2>3, <2>5, <2>6, SumIs
  <2>9. PICK n \in Int : n = it[X]
    BY <1>2, <2>5 DEF Gathers
  <2>10. it[S] = Adds[f[x]][it[X]]
    BY <1>2, <2>1 DEF Gathers
  <2>11. PICK a \in Int : a = f[x]
    BY <1>1
  <2>12. it[S] = a + n
    BY <2>9, <2>10, <2>11 DEF Adds
  <2>13. SumOver(g) = n % Q
    BY <2>7, <2>6, <2>9 DEF SumOver
  <2>14. (a + n) % Q = (a + (n % Q)) % Q
    BY ModAdd
  <2> QED BY <1>5, <2>2, <2>11, <2>12, <2>13, <2>14 DEF FrAdd
<1> QED BY <1>6, <1>7, <1>8

(* And so is a product.                                                     *)
LEMMA ProdStep ==
  ASSUME NEW S, IsFiniteSet(S), NEW f \in [S -> Scalar]
  PROVE  /\ ProdOver(f) \in Scalar
         /\ S = {} => ProdOver(f) = 1
         /\ \A x \in S : ProdOver(f) = FrMul(f[x], ProdOver(Without(f, x)))
<1>0. 1 \in Scalar
  BY PrimeAssumption DEF Scalar
<1>1. \A x \in S : f[x] \in Scalar
  OBVIOUS
<1>2. PICK it : Gathers(it, S, Scalar, Muls, 1, f)
  BY <1>0, <1>1, MulsMix, FoldExists
<1>3. ProdOver(f) = it[S]
  BY <1>1, <1>2, ProdIs
<1>4. it[S] \in Scalar
  BY <1>2 DEF Gathers
<1>5. S = {} => ProdOver(f) = 1
  BY <1>2, <1>3 DEF Gathers
<1>6. ASSUME NEW x \in S PROVE ProdOver(f) = FrMul(f[x], ProdOver(Without(f, x)))
  <2>1. PICK X : X = S \ {x}
    OBVIOUS
  <2>2. PICK g : g = Without(f, x)
    OBVIOUS
  <2>3. DOMAIN g = X /\ \A y \in X : g[y] = f[y] /\ g[y] \in Scalar
    BY <1>1, <2>1, <2>2 DEF Without
  <2>5. X \in SUBSET S /\ IsFiniteSet(X)
    BY <2>1, FS_Subset
  <2>6. PICK jt : Gathers(jt, X, Scalar, Muls, 1, g) /\ jt[X] = it[X]
    <3>1. X \in SUBSET S /\ \A y \in X : g[y] = f[y]
      BY <2>3, <2>5
    <3> QED BY <1>2, <3>1, FoldWithin
  <2>7. ProdOver(g) = jt[X]
    BY <2>3, <2>5, <2>6, ProdIs
  <2>9. PICK n \in Scalar : n = it[X]
    BY <1>2, <2>5 DEF Gathers
  <2>10. it[S] = Muls[f[x]][it[X]]
    BY <1>2, <2>1 DEF Gathers
  <2>11. it[S] = FrMul(f[x], n)
    BY <1>1, <2>9, <2>10 DEF Muls
  <2> QED BY <1>3, <2>2, <2>7, <2>6, <2>9, <2>11
<1> QED BY <1>3, <1>4, <1>5, <1>6

(***************************************************************************)
(* Sums of sums and of multiples.                                          *)
(***************************************************************************)
On(f, X) == [x \in X |-> f[x]]

(* The sum over one element more.                                           *)
LEMMA SumMore ==
  ASSUME NEW S, IsFiniteSet(S), NEW f \in [S -> Scalar]
  PROVE  /\ \A X \in SUBSET S : SumOver(On(f, X)) \in Scalar
         /\ SumOver(On(f, {})) = 0
         /\ \A X \in SUBSET S : \A y \in S \ X :
              SumOver(On(f, X \cup {y})) = FrAdd(f[y], SumOver(On(f, X)))
         /\ On(f, S) = f
<1>1. \A X \in SUBSET S : IsFiniteSet(X) /\ On(f, X) \in [X -> Scalar]
  BY FS_Subset DEF On
<1>2. \A X \in SUBSET S : SumOver(On(f, X)) \in Scalar
  BY <1>1, SumStep
<1>3. SumOver(On(f, {})) = 0
  <2>1. {} \in SUBSET S
    OBVIOUS
  <2>2. IsFiniteSet({}) /\ On(f, {}) \in [{} -> Scalar]
    BY <1>1, <2>1
  <2> QED BY <2>2, SumStep
<1>4. ASSUME NEW X \in SUBSET S, NEW y \in S \ X
      PROVE  SumOver(On(f, X \cup {y})) = FrAdd(f[y], SumOver(On(f, X)))
  <2>1. PICK Y : Y = X \cup {y}
    OBVIOUS
  <2>2. Y \in SUBSET S /\ y \in Y
    BY <2>1
  <2>3. IsFiniteSet(Y) /\ On(f, Y) \in [Y -> Scalar]
    BY <1>1, <2>2
  <2>4. SumOver(On(f, Y)) = FrAdd(On(f, Y)[y], SumOver(Without(On(f, Y), y)))
    BY <2>2, <2>3, SumStep
  <2>5. On(f, Y)[y] = f[y]
    BY <2>2 DEF On
  <2>6. Without(On(f, Y), y) = On(f, X)
    <3>1. Y \ {y} = X
      BY <2>1
    <3>2. DOMAIN On(f, Y) = Y /\ \A z \in X : On(f, Y)[z] = f[z]
      BY <2>1 DEF On
    <3> QED BY <3>1, <3>2 DEF Without, On
  <2> QED BY <2>1, <2>4, <2>5, <2>6
<1>5. On(f, S) = f
  BY DEF On
<1> QED BY <1>2, <1>3, <1>4, <1>5

(* Two sums of two, added up.                                               *)
LEMMA AddSwap ==
  ASSUME NEW a \in Scalar, NEW b \in Scalar, NEW c \in Scalar, NEW d \in Scalar
  PROVE  FrAdd(FrAdd(a, b), FrAdd(c, d)) = FrAdd(FrAdd(a, c), FrAdd(b, d))
<1>1. FrAdd(c, d) \in Scalar /\ FrAdd(b, d) \in Scalar
  BY Ring
<1>2. FrAdd(FrAdd(a, b), FrAdd(c, d)) = FrAdd(a, FrAdd(b, FrAdd(c, d)))
  BY <1>1, AddAssoc
<1>3. FrAdd(FrAdd(a, c), FrAdd(b, d)) = FrAdd(a, FrAdd(c, FrAdd(b, d)))
  BY <1>1, AddAssoc
<1>4. FrAdd(b, FrAdd(c, d)) = FrAdd(FrAdd(b, c), d) /\ FrAdd(c, FrAdd(b, d)) = FrAdd(FrAdd(c, b), d)
  BY AddAssoc
<1>5. FrAdd(b, c) = FrAdd(c, b)
  BY Ring
<1> QED BY <1>2, <1>3, <1>4, <1>5

(* A sum of multiples of f and g is that of multiples of their sums.        *)
Combines(h, a, f, b, g, S) ==
  \A x \in S : h[x] = FrAdd(FrMul(a, f[x]), FrMul(b, g[x]))

(* SumOver is linear.                                                       *)
LEMMA SumLinear ==
  ASSUME NEW S, IsFiniteSet(S), NEW f \in [S -> Scalar], NEW g \in [S -> Scalar],
         NEW h \in [S -> Scalar], NEW a \in Scalar, NEW b \in Scalar, Combines(h, a, f, b, g, S)
  PROVE  SumOver(h) = FrAdd(FrMul(a, SumOver(f)), FrMul(b, SumOver(g)))
<1> DEFINE R(X) == FrAdd(FrMul(a, SumOver(On(f, X))), FrMul(b, SumOver(On(g, X))))
           G == {X \in SUBSET S : SumOver(On(h, X)) = R(X)}
<1>1. {} \in G
  <2>1. SumOver(On(f, {})) = 0 /\ SumOver(On(g, {})) = 0 /\ SumOver(On(h, {})) = 0
    BY SumMore
  <2>2. FrMul(a, 0) = 0 /\ FrMul(b, 0) = 0
    BY Ring
  <2>3. 0 \in Scalar
    BY Small
  <2>4. FrAdd(0, 0) = 0
    BY <2>3, Ring
  <2> QED BY <2>1, <2>2, <2>4
<1>2. ASSUME NEW X \in SUBSET S, NEW y \in S \ X, X \in G PROVE X \cup {y} \in G
  <2>1. PICK Y : Y = X \cup {y}
    OBVIOUS
  <2>2. PICK s \in Scalar : s = SumOver(On(f, X))
    BY SumMore
  <2>3. PICK t \in Scalar : t = SumOver(On(g, X))
    BY SumMore
  <2>4. PICK u \in Scalar : u = f[y]
    OBVIOUS
  <2>5. PICK v \in Scalar : v = g[y]
    OBVIOUS
  <2>6. SumOver(On(f, Y)) = FrAdd(u, s) /\ SumOver(On(g, Y)) = FrAdd(v, t)
    BY <2>1, <2>2, <2>3, <2>4, <2>5, SumMore
  <2>7. SumOver(On(h, Y)) = FrAdd(h[y], SumOver(On(h, X)))
    BY <2>1, SumMore
  <2>8. h[y] = FrAdd(FrMul(a, u), FrMul(b, v))
    BY <2>4, <2>5 DEF Combines
  <2>9. SumOver(On(h, X)) = FrAdd(FrMul(a, s), FrMul(b, t))
    BY <1>2, <2>2, <2>3
  <2>10. /\ FrMul(a, u) \in Scalar /\ FrMul(b, v) \in Scalar
         /\ FrMul(a, s) \in Scalar /\ FrMul(b, t) \in Scalar
    BY Ring
  <2>11. SumOver(On(h, Y)) = FrAdd(FrAdd(FrMul(a, u), FrMul(a, s)), FrAdd(FrMul(b, v), FrMul(b, t)))
    BY <2>7, <2>8, <2>9, <2>10, AddSwap
  <2>12. FrMul(a, FrAdd(u, s)) = FrAdd(FrMul(a, u), FrMul(a, s))
    BY Distrib
  <2>13. FrMul(b, FrAdd(v, t)) = FrAdd(FrMul(b, v), FrMul(b, t))
    BY Distrib
  <2>14. SumOver(On(h, Y)) = R(Y)
    BY <2>6, <2>11, <2>12, <2>13
  <2> HIDE DEF R
  <2>15. Y \in SUBSET S
    BY <2>1
  <2> QED BY <2>1, <2>14, <2>15
<1> HIDE DEF G
<1>3. S \in G
  BY <1>1, <1>2, OverSet
<1> USE DEF G
<1>4. On(f, S) = f /\ On(g, S) = g /\ On(h, S) = h
  BY SumMore
<1> QED BY <1>3, <1>4

(* A sum of sums, and a sum of multiples of f.                              *)
LEMMA SumAdds ==
  ASSUME NEW S, IsFiniteSet(S), NEW f \in [S -> Scalar], NEW g \in [S -> Scalar],
         NEW h \in [S -> Scalar], \A x \in S : h[x] = FrAdd(f[x], g[x])
  PROVE  SumOver(h) = FrAdd(SumOver(f), SumOver(g))
<1>1. 1 \in Scalar
  BY PrimeAssumption DEF Scalar
<1>2. ASSUME NEW x \in Scalar PROVE FrMul(1, x) = x
  BY <1>1, Ring
<1>3. ASSUME NEW x \in S PROVE h[x] = FrAdd(FrMul(1, f[x]), FrMul(1, g[x]))
  BY <1>2
<1>4. Combines(h, 1, f, 1, g, S)
  BY <1>3 DEF Combines
<1>5. SumOver(h) = FrAdd(FrMul(1, SumOver(f)), FrMul(1, SumOver(g)))
  BY <1>1, <1>4, SumLinear
<1>6. SumOver(f) \in Scalar /\ SumOver(g) \in Scalar
  BY SumStep
<1> QED BY <1>2, <1>5, <1>6

(* A sum of multiples.                                                      *)
LEMMA SumScales ==
  ASSUME NEW S, IsFiniteSet(S), NEW f \in [S -> Scalar], NEW c \in Scalar,
         NEW h \in [S -> Scalar], \A x \in S : h[x] = FrMul(c, f[x])
  PROVE  SumOver(h) = FrMul(c, SumOver(f))
<1>1. 0 \in Scalar
  BY Small
<1>2. ASSUME NEW x \in Scalar, NEW y \in Scalar PROVE FrAdd(y, FrMul(0, x)) = y
  BY <1>1, Ring
<1>3. ASSUME NEW x \in S PROVE h[x] = FrAdd(FrMul(c, f[x]), FrMul(0, f[x]))
  <2>1. f[x] \in Scalar /\ h[x] \in Scalar
    OBVIOUS
  <2> QED BY <1>2, <2>1
<1>4. Combines(h, c, f, 0, f, S)
  BY <1>3 DEF Combines
<1>5. SumOver(h) = FrAdd(FrMul(c, SumOver(f)), FrMul(0, SumOver(f)))
  BY <1>1, <1>4, SumLinear
<1>6. SumOver(f) \in Scalar /\ FrMul(c, SumOver(f)) \in Scalar
  BY SumStep, Ring
<1> QED BY <1>2, <1>5, <1>6

-----------------------------------------------------------------------------
(***************************************************************************)
(* Horner's rule: h[k] is the value at x of the coefficients from k on.    *)
(***************************************************************************)
Horner(h, n, c, x) == /\ h \in [0 .. n -> Scalar] /\ h[n] = c[n]
                      /\ \A k \in 0 .. n : k # n => h[k] = FrAdd(c[k], FrMul(x, h[k + 1]))

(* The rule can be followed,                                                *)
LEMMA HornerExists ==
  ASSUME NEW n \in Nat, NEW c \in [0 .. n -> Scalar], NEW x \in Scalar
  PROVE  \E h : Horner(h, n, c, x)
<1> DEFINE S == {d \in 0 .. n : \E h \in [0 .. n -> Scalar] :
                   h[n] = c[n] /\ \A k \in n - d .. n : k # n => h[k] = FrAdd(c[k], FrMul(x, h[k + 1]))}
<1>1. 0 \in S
  <2>1. c \in [0 .. n -> Scalar] /\ c[n] = c[n] /\ 0 \in 0 .. n
    OBVIOUS
  <2>2. \A k \in n - 0 .. n : k = n
    OBVIOUS
  <2> QED BY <2>1, <2>2
<1>2. ASSUME NEW d \in 0 .. n, d # n, d \in S PROVE d + 1 \in S
  <2>1. PICK h \in [0 .. n -> Scalar] :
          h[n] = c[n] /\ \A k \in n - d .. n : k # n => h[k] = FrAdd(c[k], FrMul(x, h[k + 1]))
    BY <1>2
  <2>2. PICK m \in 0 .. n : m = n - (d + 1)
    BY <1>2
  <2>3. m # n /\ m + 1 \in 0 .. n /\ m + 1 = n - d /\ d + 1 \in 0 .. n
    BY <1>2, <2>2
  <2>4. PICK v \in Scalar : v = FrAdd(c[m], FrMul(x, h[m + 1]))
    <3>1. h[m + 1] \in Scalar /\ c[m] \in Scalar
      BY <2>3
    <3> QED BY <3>1, Ring
  <2>5. PICK g : g = [h EXCEPT ![m] = v]
    OBVIOUS
  <2>6. g \in [0 .. n -> Scalar] /\ g[m] = v /\ \A k \in 0 .. n : k # m => g[k] = h[k]
    BY <2>5
  <2>7. ASSUME NEW k \in m .. n, k # n PROVE g[k] = FrAdd(c[k], FrMul(x, g[k + 1]))
    <3>1. k \in 0 .. n /\ k + 1 \in 0 .. n /\ k + 1 # m
      BY <2>7
    <3>2. g[k + 1] = h[k + 1]
      BY <2>6, <3>1
    <3>3. CASE k = m
      BY <2>4, <2>6, <3>2, <3>3
    <3>4. CASE k # m
      <4>1. k \in n - d .. n
        BY <2>3, <3>4
      <4>2. g[k] = h[k]
        BY <2>6, <3>1, <3>4
      <4> QED BY <2>1, <2>7, <3>2, <4>1, <4>2
    <3> QED BY <3>3, <3>4
  <2>8. g[n] = c[n]
    BY <2>1, <2>3, <2>6
  <2> QED BY <2>2, <2>3, <2>6, <2>7, <2>8
<1> HIDE DEF S
<1>3. n \in S
  <2>1. 0 .. n \subseteq S
    BY <1>1, <1>2, UpTo
  <2> QED BY <2>1
<1>4. PICK h \in [0 .. n -> Scalar] :
        h[n] = c[n] /\ \A k \in n - n .. n : k # n => h[k] = FrAdd(c[k], FrMul(x, h[k + 1]))
  BY <1>3 DEF S
<1>5. n - n = 0
  OBVIOUS
<1>6. Horner(h, n, c, x)
  BY <1>4, <1>5 DEF Horner
<1> QED BY <1>6

(* It has one result,                                                       *)
LEMMA HornerOne ==
  ASSUME NEW n \in Nat, NEW c, NEW x, NEW h, NEW g,
         h[n] = g[n], \A k \in 0 .. n : k # n /\ h[k + 1] = g[k + 1] => h[k] = g[k]
  PROVE  h[0] = g[0]
<1> DEFINE S == {d \in 0 .. n : h[n - d] = g[n - d]}
<1>1. 0 \in S
  <2>1. n - 0 = n /\ 0 \in 0 .. n
    OBVIOUS
  <2> QED BY <2>1
<1>2. ASSUME NEW d \in 0 .. n, d # n, d \in S PROVE d + 1 \in S
  <2>1. PICK m \in 0 .. n : m = n - (d + 1)
    BY <1>2
  <2>2. m # n /\ m + 1 = n - d /\ d + 1 \in 0 .. n
    BY <1>2, <2>1
  <2>3. h[m] = g[m]
    BY <1>2, <2>2
  <2> QED BY <2>1, <2>2, <2>3
<1> HIDE DEF S
<1>3. n \in S
  <2>1. 0 .. n \subseteq S
    BY <1>1, <1>2, UpTo
  <2> QED BY <2>1
<1>4. n - n = 0
  OBVIOUS
<1> QED BY <1>3, <1>4 DEF S

(* which is EvalPoly's.                                                     *)
LEMMA EvalIs ==
  ASSUME NEW n \in Nat, NEW c \in [0 .. n -> Scalar], NEW x \in Scalar, NEW h, Horner(h, n, c, x)
  PROVE  EvalPoly(c, x) = h[0]
<1>1. Max(DOMAIN c) = n
  <2>1. DOMAIN c = 0 .. n
    OBVIOUS
  <2>2. n \in 0 .. n /\ \A y \in 0 .. n : n >= y
    OBVIOUS
  <2>3. \A m \in 0 .. n : (\A y \in 0 .. n : m >= y) => m = n
    BY <2>2
  <2>4. (CHOOSE m \in 0 .. n : \A y \in 0 .. n : m >= y) = n
    BY <2>2, <2>3
  <2> QED BY <2>1, <2>4 DEF Max
<1> DEFINE Is(f) == f = [k \in 0 .. n |-> IF k = n THEN c[k] % Q ELSE (c[k] + x * f[k + 1]) % Q]
<1>2. EvalPoly(c, x) = (CHOOSE f : Is(f))[0]
  BY <1>1 DEF EvalPoly
<1>3. c[n] % Q = c[n]
  <2>1. c[n] \in Scalar
    OBVIOUS
  <2> QED BY <2>1, Small
<1>4. ASSUME NEW a \in Scalar, NEW b \in Scalar PROVE (a + x * b) % Q = FrAdd(a, FrMul(x, b))
  <2>1. a \in Int /\ b \in Int /\ x \in Int
    BY Small
  <2>2. PICK y \in Int : y = x * b
    BY <2>1
  <2>3. (a + (y % Q)) % Q = (a + y) % Q
    BY <2>1, ModAdd
  <2> QED BY <2>2, <2>3 DEF FrAdd, FrMul
<1>5. \A k \in 0 .. n : k # n => c[k] \in Scalar /\ k + 1 \in 0 .. n
  OBVIOUS
<1>6. h \in [0 .. n -> Scalar] /\ h[n] = c[n]
  BY DEF Horner
<1>7. \A k \in 0 .. n : k # n => h[k] = (c[k] + x * h[k + 1]) % Q
  <2> SUFFICES ASSUME NEW k \in 0 .. n, k # n PROVE h[k] = (c[k] + x * h[k + 1]) % Q
    OBVIOUS
  <2>1. h[k] = FrAdd(c[k], FrMul(x, h[k + 1]))
    BY DEF Horner
  <2>2. h[k + 1] \in Scalar /\ c[k] \in Scalar
    BY <1>5, <1>6
  <2> QED BY <1>4, <2>1, <2>2
<1>8. Is(h)
  <2> DEFINE g(k) == IF k = n THEN c[k] % Q ELSE (c[k] + x * h[k + 1]) % Q
  <2>1. \A k \in 0 .. n : h[k] = g(k)
    BY <1>3, <1>6, <1>7
  <2>2. DOMAIN h = 0 .. n /\ h = [k \in DOMAIN h |-> h[k]]
    BY <1>6
  <2> HIDE DEF g
  <2>3. h = [k \in 0 .. n |-> g(k)]
    BY <2>1, <2>2
  <2> QED BY <2>3 DEF g
<1>9. PICK f : f = (CHOOSE t : Is(t))
  OBVIOUS
<1>10. Is(f)
  BY <1>8, <1>9
<1>11. f[n] = c[n] % Q /\ \A k \in 0 .. n : k # n => f[k] = (c[k] + x * f[k + 1]) % Q
  <2>1. n \in 0 .. n
    OBVIOUS
  <2> QED BY <1>10, <2>1
<1> HIDE DEF Is
<1>12. f[n] = h[n]
  BY <1>3, <1>6, <1>11
<1>13. \A k \in 0 .. n : k # n /\ f[k + 1] = h[k + 1] => f[k] = h[k]
  BY <1>7, <1>11
<1>14. f[0] = h[0]
  BY <1>12, <1>13, HornerOne
<1> QED BY <1>2, <1>9, <1>14

(* The value of a sum of polynomials is the sum of their values.            *)
SumsTo(c, a, b, n) == \A k \in 0 .. n : c[k] = FrAdd(a[k], b[k])

(* The value of a sum of polynomials is the sum of their values.            *)
LEMMA EvalAdds ==
  ASSUME NEW n \in Nat, NEW a \in [0 .. n -> Scalar], NEW b \in [0 .. n -> Scalar],
         NEW c \in [0 .. n -> Scalar], SumsTo(c, a, b, n), NEW x \in Scalar
  PROVE  /\ EvalPoly(a, x) \in Scalar /\ EvalPoly(b, x) \in Scalar
         /\ EvalPoly(c, x) = FrAdd(EvalPoly(a, x), EvalPoly(b, x))
<1>1. PICK f : Horner(f, n, a, x)
  BY HornerExists
<1>2. PICK g : Horner(g, n, b, x)
  BY HornerExists
<1>3. EvalPoly(a, x) = f[0] /\ EvalPoly(b, x) = g[0]
  BY <1>1, <1>2, EvalIs
<1>4. PICK h : h = [k \in 0 .. n |-> FrAdd(f[k], g[k])]
  OBVIOUS
<1>5. \A k \in 0 .. n : f[k] \in Scalar /\ g[k] \in Scalar /\ h[k] = FrAdd(f[k], g[k])
  BY <1>1, <1>2, <1>4 DEF Horner
<1>6. h \in [0 .. n -> Scalar]
  BY <1>4, <1>5, Ring
<1>7. h[n] = c[n]
  <2>1. n \in 0 .. n
    OBVIOUS
  <2>2. f[n] = a[n] /\ g[n] = b[n]
    BY <1>1, <1>2 DEF Horner
  <2>3. c[n] = FrAdd(a[n], b[n])
    BY <2>1 DEF SumsTo
  <2> QED BY <1>5, <2>1, <2>2, <2>3
<1>8. ASSUME NEW k \in 0 .. n, k # n PROVE h[k] = FrAdd(c[k], FrMul(x, h[k + 1]))
  <2>1. k + 1 \in 0 .. n
    BY <1>8
  <2>2. PICK u \in Scalar : u = f[k + 1]
    BY <1>5, <2>1
  <2>3. PICK v \in Scalar : v = g[k + 1]
    BY <1>5, <2>1
  <2>4. f[k] = FrAdd(a[k], FrMul(x, u)) /\ g[k] = FrAdd(b[k], FrMul(x, v))
    BY <1>1, <1>2, <1>8, <2>2, <2>3 DEF Horner
  <2>5. a[k] \in Scalar /\ b[k] \in Scalar /\ FrMul(x, u) \in Scalar /\ FrMul(x, v) \in Scalar
    BY Ring
  <2>6. h[k] = FrAdd(FrAdd(a[k], b[k]), FrAdd(FrMul(x, u), FrMul(x, v)))
    <3>1. PICK p \in Scalar : p = FrMul(x, u)
      BY <2>5
    <3>2. PICK q \in Scalar : q = FrMul(x, v)
      BY <2>5
    <3>3. PICK y \in Scalar : y = a[k]
      BY <2>5
    <3>4. PICK z \in Scalar : z = b[k]
      BY <2>5
    <3>5. h[k] = FrAdd(FrAdd(y, p), FrAdd(z, q))
      BY <1>5, <2>4, <3>1, <3>2, <3>3, <3>4
    <3>6. FrAdd(FrAdd(y, p), FrAdd(z, q)) = FrAdd(FrAdd(y, z), FrAdd(p, q))
      BY AddSwap
    <3> QED BY <3>1, <3>2, <3>3, <3>4, <3>5, <3>6
  <2>7. FrMul(x, FrAdd(u, v)) = FrAdd(FrMul(x, u), FrMul(x, v))
    BY Distrib
  <2>8. h[k + 1] = FrAdd(u, v)
    BY <1>5, <2>1, <2>2, <2>3
  <2>9. c[k] = FrAdd(a[k], b[k])
    BY DEF SumsTo
  <2> QED BY <2>6, <2>7, <2>8, <2>9
<1>9. Horner(h, n, c, x)
  BY <1>6, <1>7, <1>8 DEF Horner
<1>10. EvalPoly(c, x) = h[0]
  BY <1>9, EvalIs
<1>11. 0 \in 0 .. n
  OBVIOUS
<1> QED BY <1>3, <1>5, <1>10, <1>11


-----------------------------------------------------------------------------
(***************************************************************************)
(* Differences and inverses of scalars.                                    *)
(***************************************************************************)
Neg(j)      == (-j) % Q
Minus(i, j) == (i - j) % Q

(* The scalars 0 and 1.                                                     *)
LEMMA ZeroOne == 0 \in Scalar /\ 1 \in Scalar /\ 0 # 1
BY PrimeAssumption DEF Scalar

(* The sum of two remainders.                                               *)
LEMMA AddMods ==
  ASSUME NEW a \in Int, NEW b \in Int
  PROVE  FrAdd(a % Q, b % Q) = (a + b) % Q
<1>1. PICK r \in Int : r = a % Q
  BY ModIs
<1>2. FrAdd(a % Q, b % Q) = (r + (b % Q)) % Q
  BY <1>1 DEF FrAdd
<1>3. (r + (b % Q)) % Q = (r + b) % Q
  BY ModAdd
<1>4. r + b = b + r /\ a + b = b + a
  OBVIOUS
<1>5. (b + (a % Q)) % Q = (b + a) % Q
  BY ModAdd
<1> QED BY <1>1, <1>2, <1>3, <1>4, <1>5

(* Neg is the inverse of FrAdd,                                             *)
LEMMA NegIs ==
  ASSUME NEW a \in Scalar
  PROVE  Neg(a) \in Scalar /\ FrAdd(a, Neg(a)) = 0 /\ FrAdd(Neg(a), a) = 0
<1>1. a \in Int /\ a % Q = a /\ 0 % Q = 0
  BY Small
<1>2. PICK b \in Int : b = -a
  BY <1>1
<1>3. FrAdd(a % Q, b % Q) = (a + b) % Q
  BY <1>1, AddMods
<1>4. a + b = 0
  BY <1>1, <1>2
<1>5. Neg(a) = b % Q
  BY <1>2 DEF Neg
<1>6. Neg(a) \in Scalar
  BY <1>5, ModIs
<1>7. FrAdd(a, Neg(a)) = 0
  BY <1>1, <1>3, <1>4, <1>5
<1> QED BY <1>6, <1>7, Ring

(* and a summand can be cancelled.                                          *)
LEMMA AddCancel ==
  ASSUME NEW a \in Scalar, NEW b \in Scalar, NEW c \in Scalar, FrAdd(a, c) = FrAdd(b, c)
  PROVE  a = b
<1>1. PICK d \in Scalar : FrAdd(c, d) = 0
  BY NegIs
<1>2. FrAdd(a, FrAdd(c, d)) = FrAdd(FrAdd(a, c), d) /\ FrAdd(b, FrAdd(c, d)) = FrAdd(FrAdd(b, c), d)
  BY AddAssoc
<1>3. FrAdd(a, 0) = a /\ FrAdd(b, 0) = b
  BY Ring
<1> QED BY <1>1, <1>2, <1>3

(* mclBnFr_inv inverts every scalar but 0.                                  *)
LEMMA InvIs ==
  ASSUME NEW a \in Scalar, a # 0
  PROVE  FrInv(a) \in Scalar /\ FrMul(a, FrInv(a)) = 1
<1>1. \E b \in Scalar : FrMul(a, b) = 1
  BY PrimeAssumption
<1> QED BY <1>1 DEF FrInv

(* A factor that is not 0 can be cancelled.                                 *)
LEMMA MulCancel ==
  ASSUME NEW a \in Scalar, NEW b \in Scalar, NEW k \in Scalar, k # 0, FrMul(k, a) = FrMul(k, b)
  PROVE  a = b
<1>1. PICK d \in Scalar : FrMul(k, d) = 1
  BY InvIs
<1>2. FrMul(d, k) = 1
  BY <1>1, Ring
<1>3. FrMul(d, FrMul(k, a)) = FrMul(FrMul(d, k), a) /\ FrMul(d, FrMul(k, b)) = FrMul(FrMul(d, k), b)
  BY MulAssoc
<1>4. 1 \in Scalar
  BY Small
<1>5. FrMul(1, a) = a /\ FrMul(1, b) = b
  BY <1>4, Ring
<1> QED BY <1>2, <1>3, <1>5

(* Q is a prime: no product of scalars that are not 0 is 0.                 *)
LEMMA NoZeros ==
  ASSUME NEW a \in Scalar, NEW b \in Scalar, a # 0, b # 0
  PROVE  FrMul(a, b) # 0
<1>1. 0 \in Scalar
  BY Small
<1>2. FrMul(a, 0) = 0
  BY Ring
<1> QED BY <1>1, <1>2, MulCancel

-----------------------------------------------------------------------------
(***************************************************************************)
(* The points 1 .. N are scalars, and no two of them are equal mod Q.      *)
(***************************************************************************)
Point == 1 .. N

(* The points are scalars: there are fewer than Q of them.                  *)
LEMMA PointIs ==
  /\ IsFiniteSet(Point)
  /\ \A i \in Point : i \in Scalar /\ i \in Int
<1>1. N \in Int /\ Q \in Int /\ N < Q
  BY SizeAssumption, PointsAssumption, PrimeAssumption
<1>2. \A i \in Point : i \in Scalar /\ i \in Int
  BY <1>1 DEF Point, Scalar
<1>3. IsFiniteSet(Point)
  BY <1>1, FS_Interval DEF Point
<1> QED BY <1>2, <1>3

(* The distance of two points, 0 only for a point from itself.              *)
LEMMA MinusIs ==
  ASSUME NEW i \in Point, NEW j \in Point
  PROVE  /\ Minus(i, j) \in Scalar /\ Neg(j) \in Scalar
         /\ FrAdd(Minus(i, j), j) = i
         /\ FrAdd(Minus(i, j), Neg(i)) = Neg(j)
         /\ i = j => Minus(i, j) = 0
         /\ i # j => Minus(i, j) # 0
<1>1. i \in Scalar /\ j \in Scalar /\ i \in Int /\ j \in Int
  BY PointIs
<1>2. i % Q = i /\ j % Q = j /\ 0 % Q = 0
  BY <1>1, Small
<1>3. PICK d \in Int : d = i - j
  BY <1>1
<1>4. PICK m \in Int : m = -i
  BY <1>1
<1>5. d + j = i /\ d + m = -j
  BY <1>1, <1>3, <1>4
<1>6. Minus(i, j) = d % Q /\ Neg(i) = m % Q
  BY <1>3, <1>4 DEF Minus, Neg
<1>7. Minus(i, j) \in Scalar
  BY <1>6, ModIs
<1>8. FrAdd(d % Q, j % Q) = (d + j) % Q
  BY <1>1, AddMods
<1>9. FrAdd(d % Q, m % Q) = (d + m) % Q
  BY AddMods
<1>10. (d + m) % Q = Neg(j)
  BY <1>5 DEF Neg
<1>11. i = j => Minus(i, j) = 0
  <2>1. i = j => d = 0
    BY <1>1, <1>3
  <2> QED BY <1>2, <1>6, <2>1
<1>12. FrAdd(Minus(i, j), j) = i
  BY <1>2, <1>5, <1>6, <1>8
<1>13. ASSUME Minus(i, j) = 0 PROVE i = j
  <2>1. 0 \in Scalar
    BY ZeroOne
  <2>2. FrAdd(0, j) = j
    BY <1>1, <2>1, Ring
  <2> QED BY <1>13, <1>12, <2>2
<1>14. FrAdd(Minus(i, j), Neg(i)) = Neg(j)
  BY <1>6, <1>9, <1>10
<1>15. Neg(j) \in Scalar
  BY <1>1, NegIs
<1> QED BY <1>7, <1>11, <1>13, <1>12, <1>14, <1>15

(* A difference goes through any third point.                               *)
LEMMA MinusVia ==
  ASSUME NEW i \in Point, NEW s \in Point, NEW t \in Point
  PROVE  Minus(i, s) = FrAdd(Minus(t, s), Minus(i, t))
<1>1. i \in Int /\ s \in Int /\ t \in Int
  BY PointIs
<1>2. PICK a \in Int : a = t - s
  BY <1>1
<1>3. PICK b \in Int : b = i - t
  BY <1>1
<1>4. a + b = i - s
  BY <1>1, <1>2, <1>3
<1>5. FrAdd(a % Q, b % Q) = (a + b) % Q
  BY AddMods
<1> QED BY <1>2, <1>3, <1>4, <1>5 DEF Minus

-----------------------------------------------------------------------------
(***************************************************************************)
(* The Lagrange weights of a set of points and of that set without one.    *)
(***************************************************************************)
LEMMA WeightIs ==
  ASSUME NEW S \in SUBSET Point, NEW i \in S
  PROVE  /\ ProdOver(Numerators(S, i)) \in Scalar
         /\ ProdOver(Denominators(S, i)) \in Scalar
         /\ \A s \in S \ {i} :
              /\ ProdOver(Numerators(S, i)) = FrMul(Neg(s), ProdOver(Numerators(S \ {s}, i)))
              /\ ProdOver(Denominators(S, i)) = FrMul(Minus(i, s), ProdOver(Denominators(S \ {s}, i)))
<1>1. IsFiniteSet(S \ {i})
  BY PointIs, FS_Subset
<1>2. PICK U : U = S \ {i}
  OBVIOUS
<1>3. PICK f : f = Numerators(S, i)
  OBVIOUS
<1>4. PICK g : g = Denominators(S, i)
  OBVIOUS
<1>5. \A s \in U : Neg(s) \in Scalar /\ Minus(i, s) \in Scalar
  BY <1>2, MinusIs
<1>6. f \in [U -> Scalar] /\ \A s \in U : f[s] = Neg(s)
  BY <1>2, <1>3, <1>5 DEF Numerators, Neg
<1>7. g \in [U -> Scalar] /\ \A s \in U : g[s] = Minus(i, s)
  BY <1>2, <1>4, <1>5 DEF Denominators, Minus
<1>8. ASSUME NEW s \in U
      PROVE  Without(f, s) = Numerators(S \ {s}, i) /\ Without(g, s) = Denominators(S \ {s}, i)
  <2>1. U \ {s} = (S \ {s}) \ {i} /\ DOMAIN f = U /\ DOMAIN g = U
    BY <1>2, <1>6, <1>7
  <2>2. \A y \in U \ {s} : f[y] = (-y) % Q /\ g[y] = (i - y) % Q
    BY <1>6, <1>7 DEF Neg, Minus
  <2> QED BY <2>1, <2>2 DEF Without, Numerators, Denominators
<1>9. ProdOver(f) \in Scalar /\ \A s \in U : ProdOver(f) = FrMul(f[s], ProdOver(Without(f, s)))
  BY <1>1, <1>2, <1>6, ProdStep
<1>10. ProdOver(g) \in Scalar /\ \A s \in U : ProdOver(g) = FrMul(g[s], ProdOver(Without(g, s)))
  BY <1>1, <1>2, <1>7, ProdStep
<1>11. ASSUME NEW s \in U
       PROVE  /\ ProdOver(f) = FrMul(Neg(s), ProdOver(Numerators(S \ {s}, i)))
              /\ ProdOver(g) = FrMul(Minus(i, s), ProdOver(Denominators(S \ {s}, i)))
  BY <1>6, <1>7, <1>8, <1>9, <1>10
<1> QED BY <1>2, <1>3, <1>4, <1>9, <1>10, <1>11

(* With one point both products are empty.                                  *)
LEMMA WeightOne ==
  ASSUME NEW i
  PROVE  ProdOver(Numerators({i}, i)) = 1 /\ ProdOver(Denominators({i}, i)) = 1
<1>1. {i} \ {i} = {} /\ IsFiniteSet({})
  BY FS_EmptySet
<1>2. PICK f : f = Numerators({i}, i)
  OBVIOUS
<1>3. PICK g : g = Denominators({i}, i)
  OBVIOUS
<1>4. f \in [{} -> Scalar]
  BY <1>1, <1>2 DEF Numerators
<1>5. g \in [{} -> Scalar]
  BY <1>1, <1>3 DEF Denominators
<1>6. ProdOver(f) = 1
  BY <1>1, <1>4, ProdStep
<1>7. ProdOver(g) = 1
  BY <1>1, <1>5, ProdStep
<1> QED BY <1>2, <1>3, <1>6, <1>7

(* No denominator is 0.                                                     *)
LEMMA NoZeroDenominator ==
  ASSUME NEW S \in SUBSET Point, NEW i \in S
  PROVE  ProdOver(Denominators(S, i)) # 0
<1> DEFINE G == {X \in SUBSET (S \ {i}) : ProdOver(Denominators(X \cup {i}, i)) # 0}
<1>1. {} \in G
  <2>1. {} \cup {i} = {i}
    OBVIOUS
  <2> QED BY <2>1, WeightOne
<1>2. ASSUME NEW X \in SUBSET (S \ {i}), NEW y \in (S \ {i}) \ X, X \in G PROVE X \cup {y} \in G
  <2>1. PICK D : D = (X \cup {y}) \cup {i}
    OBVIOUS
  <2>2. D \in SUBSET Point /\ i \in D /\ y \in D \ {i} /\ D \ {y} = X \cup {i}
    BY <1>2, <2>1
  <2>3. ProdOver(Denominators(D, i)) = FrMul(Minus(i, y), ProdOver(Denominators(X \cup {i}, i)))
    BY <2>2, WeightIs
  <2>4. X \cup {i} \in SUBSET Point /\ i \in X \cup {i}
    OBVIOUS
  <2>5. ProdOver(Denominators(X \cup {i}, i)) \in Scalar
    BY <2>4, WeightIs
  <2>6. Minus(i, y) \in Scalar /\ Minus(i, y) # 0
    BY <2>2, MinusIs
  <2>7. ProdOver(Denominators(X \cup {i}, i)) # 0
    BY <1>2
  <2>8. ProdOver(Denominators(D, i)) # 0
    BY <2>3, <2>5, <2>6, <2>7, NoZeros
  <2> QED BY <2>1, <2>8
<1>3. IsFiniteSet(S \ {i})
  BY PointIs, FS_Subset
<1> HIDE DEF G
<1>4. S \ {i} \in G
  BY <1>1, <1>2, <1>3, OverSet
<1>5. (S \ {i}) \cup {i} = S
  OBVIOUS
<1> QED BY <1>4, <1>5 DEF G

(* Algebra of the step: with u the inverse of d, and v that of m * d, m * v *)
(* is u.                                                                    *)
LEMMA InverseStep ==
  ASSUME NEW m \in Scalar, NEW d \in Scalar, NEW u \in Scalar, NEW v \in Scalar,
         FrMul(d, u) = 1, FrMul(FrMul(m, d), v) = 1
  PROVE  FrMul(m, v) = u
<1>0. d # 0
  <2>1. 0 \in Scalar /\ 1 # 0
    BY Small
  <2>2. FrMul(u, 0) = 0 /\ FrMul(d, u) = FrMul(u, d)
    BY <2>1, Ring
  <2> QED BY <2>1, <2>2
<1>1. FrMul(m, d) = FrMul(d, m)
  BY Ring
<1>2. FrMul(d, FrMul(m, v)) = FrMul(FrMul(d, m), v)
  BY MulAssoc
<1>3. FrMul(m, v) \in Scalar
  BY Ring
<1> QED BY <1>0, <1>1, <1>2, <1>3, MulCancel

(* The weight of i, scaled by its distance from s, is the weight without s. *)
LEMMA WeightStep ==
  ASSUME NEW S \in SUBSET Point, NEW i \in S, NEW s \in S, i # s
  PROVE  /\ LagrangeCoeff(S, i) \in Scalar
         /\ FrMul(Minus(i, s), LagrangeCoeff(S, i)) = FrMul(Neg(s), LagrangeCoeff(S \ {s}, i))
<1>0. S \ {s} \in SUBSET Point /\ i \in S \ {s} /\ s \in S \ {i} /\ i \in Point /\ s \in Point
  OBVIOUS
<1>1. PICK m \in Scalar : m = Minus(i, s)
  BY <1>0, MinusIs
<1>2. PICK n \in Scalar : n = Neg(s)
  BY <1>0, MinusIs
<1>3. PICK a \in Scalar : a = ProdOver(Numerators(S \ {s}, i))
  BY <1>0, WeightIs
<1>4. PICK d \in Scalar : d = ProdOver(Denominators(S \ {s}, i))
  BY <1>0, WeightIs
<1>5. PICK e \in Scalar : e = ProdOver(Denominators(S, i))
  BY WeightIs
<1>6. ProdOver(Numerators(S, i)) = FrMul(n, a) /\ e = FrMul(m, d)
  BY <1>0, <1>1, <1>2, <1>3, <1>4, <1>5, WeightIs
<1>7. d # 0 /\ e # 0
  BY <1>0, <1>4, <1>5, NoZeroDenominator
<1>8. PICK u \in Scalar : u = FrInv(d) /\ FrMul(d, u) = 1
  BY <1>7, InvIs
<1>9. PICK v \in Scalar : v = FrInv(e) /\ FrMul(e, v) = 1
  BY <1>7, InvIs
<1>10. FrMul(m, v) = u
  BY <1>6, <1>8, <1>9, InverseStep
<1>11. PICK b \in Scalar : b = FrMul(n, a)
  BY Ring
<1>12. LagrangeCoeff(S, i) = FrMul(b, v) /\ LagrangeCoeff(S \ {s}, i) = FrMul(a, u)
  BY <1>3, <1>4, <1>5, <1>6, <1>8, <1>9, <1>11 DEF LagrangeCoeff
<1>13. FrMul(b, v) \in Scalar
  BY Ring
<1>14. FrMul(m, FrMul(b, v)) = FrMul(b, u)
  <2>1. FrMul(m, FrMul(b, v)) = FrMul(FrMul(m, b), v)
    BY MulAssoc
  <2>2. FrMul(b, FrMul(m, v)) = FrMul(FrMul(b, m), v)
    BY MulAssoc
  <2>3. FrMul(m, b) = FrMul(b, m)
    BY Ring
  <2> QED BY <1>10, <2>1, <2>2, <2>3
<1>15. FrMul(n, FrMul(a, u)) = FrMul(FrMul(n, a), u)
  BY MulAssoc
<1> QED BY <1>1, <1>2, <1>11, <1>12, <1>13, <1>14, <1>15

(* The weight of the only point.                                            *)
LEMMA WeightOfOne ==
  ASSUME NEW i
  PROVE  LagrangeCoeff({i}, i) = 1
<1>1. 1 \in Scalar /\ 1 # 0
  BY ZeroOne
<1>2. FrInv(1) \in Scalar /\ FrMul(1, FrInv(1)) = 1
  BY <1>1, InvIs
<1> QED BY <1>2, WeightOne DEF LagrangeCoeff

(* Every weight is a scalar.                                                *)
LEMMA WeightScalar ==
  ASSUME NEW S \in SUBSET Point, NEW i \in S
  PROVE  LagrangeCoeff(S, i) \in Scalar
<1>1. PICK a \in Scalar : a = ProdOver(Numerators(S, i))
  BY WeightIs
<1>2. PICK d \in Scalar : d = ProdOver(Denominators(S, i)) /\ d # 0
  BY WeightIs, NoZeroDenominator
<1>3. PICK u \in Scalar : u = FrInv(d)
  BY <1>2, InvIs
<1>4. FrMul(a, u) \in Scalar
  BY Ring
<1> QED BY <1>1, <1>2, <1>3, <1>4 DEF LagrangeCoeff

-----------------------------------------------------------------------------
(***************************************************************************)
(* Interpolation at 0 from the values of f at the points of S.             *)
(***************************************************************************)
Weighted(S, f) == [i \in S |-> FrMul(f[i], LagrangeCoeff(S, i))]
Interp(S, f)   == SumOver(Weighted(S, f))

(* Interpolation gives a scalar.                                            *)
LEMMA WeightedIs ==
  ASSUME NEW S \in SUBSET Point, NEW f \in [Point -> Scalar]
  PROVE  IsFiniteSet(S) /\ Weighted(S, f) \in [S -> Scalar] /\ Interp(S, f) \in Scalar
<1>1. IsFiniteSet(S)
  BY PointIs, FS_Subset
<1>2. ASSUME NEW i \in S PROVE FrMul(f[i], LagrangeCoeff(S, i)) \in Scalar
  <2>1. f[i] \in Scalar /\ LagrangeCoeff(S, i) \in Scalar
    BY WeightScalar
  <2> QED BY <2>1, Ring
<1>3. PICK g \in [S -> Scalar] : g = Weighted(S, f)
  BY <1>2 DEF Weighted
<1>4. SumOver(g) \in Scalar
  BY <1>1, SumStep
<1> QED BY <1>1, <1>3, <1>4 DEF Interp

(* SumLinear, with its functions' type under a name.                        *)
Sampled(f, S) == f \in [S -> Scalar]

(* SumLinear, of functions Sampled at S.                                    *)
LEMMA SumCombines ==
  ASSUME NEW S, IsFiniteSet(S), NEW f, NEW g, NEW h, Sampled(f, S), Sampled(g, S), Sampled(h, S),
         NEW a \in Scalar, NEW b \in Scalar, Combines(h, a, f, b, g, S)
  PROVE  SumOver(h) = FrAdd(FrMul(a, SumOver(f)), FrMul(b, SumOver(g)))
BY SumLinear DEF Sampled

(* It is linear.                                                            *)
LEMMA InterpLinear ==
  ASSUME NEW S \in SUBSET Point, NEW f \in [Point -> Scalar], NEW g \in [Point -> Scalar],
         NEW h \in [Point -> Scalar], NEW a \in Scalar, NEW b \in Scalar,
         Combines(h, a, f, b, g, Point)
  PROVE  Interp(S, h) = FrAdd(FrMul(a, Interp(S, f)), FrMul(b, Interp(S, g)))
<1>1. IsFiniteSet(S)
  BY WeightedIs
<1>2. PICK F \in [S -> Scalar] : F = Weighted(S, f)
  BY WeightedIs
<1>3. PICK G \in [S -> Scalar] : G = Weighted(S, g)
  BY WeightedIs
<1>4. PICK H \in [S -> Scalar] : H = Weighted(S, h)
  BY WeightedIs
<1>5. ASSUME NEW i \in S PROVE H[i] = FrAdd(FrMul(a, F[i]), FrMul(b, G[i]))
  <2>1. PICK w \in Scalar : w = LagrangeCoeff(S, i)
    BY WeightScalar
  <2>2. PICK x \in Scalar : x = f[i]
    OBVIOUS
  <2>3. PICK y \in Scalar : y = g[i]
    OBVIOUS
  <2>4. PICK ax \in Scalar : ax = FrMul(a, x)
    BY Ring
  <2>5. PICK by \in Scalar : by = FrMul(b, y)
    BY Ring
  <2>6. h[i] = FrAdd(ax, by)
    BY <2>2, <2>3, <2>4, <2>5 DEF Combines
  <2>7. FrMul(FrAdd(ax, by), w) = FrAdd(FrMul(ax, w), FrMul(by, w))
    <3>1. FrMul(w, FrAdd(ax, by)) = FrAdd(FrMul(w, ax), FrMul(w, by))
      BY Distrib
    <3>2. FrAdd(ax, by) \in Scalar /\ FrMul(w, ax) = FrMul(ax, w) /\ FrMul(w, by) = FrMul(by, w)
      BY Ring
    <3>3. FrMul(w, FrAdd(ax, by)) = FrMul(FrAdd(ax, by), w)
      BY <3>2, Ring
    <3> QED BY <3>1, <3>2, <3>3
  <2>8. FrMul(ax, w) = FrMul(a, FrMul(x, w)) /\ FrMul(by, w) = FrMul(b, FrMul(y, w))
    BY <2>4, <2>5, MulAssoc
  <2>9. F[i] = FrMul(x, w) /\ G[i] = FrMul(y, w) /\ H[i] = FrMul(h[i], w)
    BY <1>2, <1>3, <1>4, <2>1, <2>2, <2>3 DEF Weighted
  <2> QED BY <2>6, <2>7, <2>8, <2>9
<1>6. Combines(H, a, F, b, G, S)
  BY <1>5 DEF Combines
<1>7. SumOver(H) = FrAdd(FrMul(a, SumOver(F)), FrMul(b, SumOver(G)))
  <2>1. Sampled(F, S) /\ Sampled(G, S) /\ Sampled(H, S)
    BY DEF Sampled
  <2> QED BY <1>1, <1>6, <2>1, SumCombines
<1> QED BY <1>2, <1>3, <1>4, <1>7 DEF Interp

(* Values scaled by the distance from s do not use the value at s.          *)
Scales(g, s, f) == \A i \in Point : g[i] = FrMul(Minus(i, s), f[i])

(* Interpolating them over S is interpolating over the other points.        *)
LEMMA InterpWithout ==
  ASSUME NEW S \in SUBSET Point, NEW s \in S, NEW f \in [Point -> Scalar],
         NEW g \in [Point -> Scalar], Scales(g, s, f)
  PROVE  Interp(S, g) = FrMul(Neg(s), Interp(S \ {s}, f))
<1>0. IsFiniteSet(S) /\ S \ {s} \in SUBSET Point /\ s \in Point
  BY WeightedIs
<1>1. PICK R : R = S \ {s}
  OBVIOUS
<1>2. R \in SUBSET Point /\ IsFiniteSet(R)
  BY <1>0, <1>1, WeightedIs
<1>3. PICK G \in [S -> Scalar] : G = Weighted(S, g)
  BY WeightedIs
<1>4. PICK F \in [R -> Scalar] : F = Weighted(R, f)
  BY <1>2, WeightedIs
<1>5. PICK n \in Scalar : n = Neg(s)
  BY <1>0, MinusIs
<1>6. G[s] = 0
  <2>1. PICK w \in Scalar : w = LagrangeCoeff(S, s)
    BY WeightScalar
  <2>2. Minus(s, s) = 0 /\ g[s] = FrMul(Minus(s, s), f[s]) /\ f[s] \in Scalar
    BY <1>0, MinusIs DEF Scales
  <2>3. 0 \in Scalar
    BY ZeroOne
  <2>4. FrMul(f[s], 0) = 0 /\ FrMul(f[s], 0) = FrMul(0, f[s])
    BY <2>2, <2>3, Ring
  <2>5. FrMul(w, 0) = 0 /\ FrMul(w, 0) = FrMul(0, w)
    BY <2>3, Ring
  <2>6. G[s] = FrMul(g[s], w)
    BY <1>3, <2>1 DEF Weighted
  <2> QED BY <2>2, <2>4, <2>5, <2>6
<1>7. ASSUME NEW i \in R PROVE G[i] = FrMul(n, F[i])
  <2>0. i \in S /\ i # s /\ i \in Point
    BY <1>1
  <2>1. PICK w \in Scalar : w = LagrangeCoeff(S, i)
    BY <2>0, WeightScalar
  <2>2. PICK v \in Scalar : v = LagrangeCoeff(R, i)
    BY <1>2, WeightScalar
  <2>3. PICK m \in Scalar : m = Minus(i, s)
    BY <1>0, <2>0, MinusIs
  <2>4. PICK x \in Scalar : x = f[i]
    BY <2>0
  <2>5. FrMul(m, w) = FrMul(n, v)
    BY <1>1, <1>5, <2>0, <2>1, <2>2, <2>3, WeightStep
  <2>6. G[i] = FrMul(FrMul(m, x), w)
    <3>1. G[i] = FrMul(g[i], w)
      BY <1>3, <2>0, <2>1 DEF Weighted
    <3>2. g[i] = FrMul(m, x)
      BY <2>0, <2>3, <2>4 DEF Scales
    <3> QED BY <3>1, <3>2
  <2>7. F[i] = FrMul(x, v)
    BY <1>4, <2>2, <2>4 DEF Weighted
  <2>8. FrMul(m, x) = FrMul(x, m) /\ FrMul(n, x) = FrMul(x, n)
    BY Ring
  <2>9. FrMul(x, FrMul(m, w)) = FrMul(FrMul(x, m), w)
    BY MulAssoc
  <2>10. FrMul(x, FrMul(n, v)) = FrMul(FrMul(x, n), v) /\ FrMul(n, FrMul(x, v)) = FrMul(FrMul(n, x), v)
    BY MulAssoc
  <2> QED BY <2>5, <2>6, <2>7, <2>8, <2>9, <2>10
<1>8. SumOver(G) = FrAdd(G[s], SumOver(Without(G, s)))
  BY <1>0, SumStep
<1>9. PICK K : K = Without(G, s)
  OBVIOUS
<1>10. K \in [R -> Scalar] /\ \A i \in R : K[i] = FrMul(n, F[i])
  <2>1. DOMAIN G = S
    OBVIOUS
  <2>2. K = [i \in R |-> G[i]]
    BY <1>1, <1>9, <2>1 DEF Without
  <2>3. \A i \in R : G[i] \in Scalar
    BY <1>1
  <2> QED BY <1>7, <2>2, <2>3
<1>11. SumOver(K) = FrMul(n, SumOver(F))
  BY <1>2, <1>10, SumScales
<1>12. SumOver(K) \in Scalar
  BY <1>2, <1>10, SumStep
<1>13. FrAdd(0, SumOver(K)) = SumOver(K)
  <2>1. 0 \in Scalar
    BY ZeroOne
  <2> QED BY <1>12, <2>1, Ring
<1> QED BY <1>1, <1>3, <1>4, <1>5, <1>6, <1>8, <1>9, <1>11, <1>13 DEF Interp

-----------------------------------------------------------------------------
(***************************************************************************)
(* The weights of any set of points add up to 1.                           *)
(***************************************************************************)
Ones    == [i \in Point |-> 1]
Away(s) == [i \in Point |-> Minus(i, s)]

(* Sums with 0 and products with 0 and 1.                                   *)
LEMMA OneTimes ==
  ASSUME NEW a \in Scalar
  PROVE  FrMul(1, a) = a /\ FrMul(a, 1) = a /\ FrMul(0, a) = 0 /\ FrMul(a, 0) = 0
         /\ FrAdd(a, 0) = a /\ FrAdd(0, a) = a
BY ZeroOne, Ring

(* From the points without s and those without t to all of them.            *)
LEMMA OnesStep ==
  ASSUME NEW S \in SUBSET Point, NEW s \in S, NEW t \in S, s # t,
         Interp(S \ {s}, Ones) = 1, Interp(S \ {t}, Ones) = 1
  PROVE  Interp(S, Ones) = 1
<1>0. s \in Point /\ t \in Point
  OBVIOUS
<1>1. PICK k \in Scalar : k = Minus(t, s) /\ k # 0
  BY <1>0, MinusIs
<1>2. PICK ns \in Scalar : ns = Neg(s)
  BY <1>0, MinusIs
<1>3. PICK nt \in Scalar : nt = Neg(t)
  BY <1>0, MinusIs
<1>4. FrAdd(k, nt) = ns
  BY <1>0, <1>1, <1>2, <1>3, MinusIs
<1>5. PICK f \in [Point -> Scalar] : f = Ones
  BY ZeroOne DEF Ones
<1>6. PICK g \in [Point -> Scalar] : g = Away(s)
  BY <1>0, MinusIs DEF Away
<1>7. PICK h \in [Point -> Scalar] : h = Away(t)
  BY <1>0, MinusIs DEF Away
<1>8. \A i \in Point : f[i] = 1 /\ g[i] = Minus(i, s) /\ h[i] = Minus(i, t)
  BY <1>5, <1>6, <1>7 DEF Ones, Away
<1>9. Interp(S, g) = ns
  <2>1. \A i \in Point : FrMul(Minus(i, s), 1) = Minus(i, s)
    BY <1>0, MinusIs, OneTimes
  <2>2. Scales(g, s, f)
    BY <1>8, <2>1 DEF Scales
  <2>3. Interp(S, g) = FrMul(ns, 1)
    BY <1>2, <1>5, <2>2, InterpWithout
  <2> QED BY <2>3, OneTimes
<1>10. Interp(S, h) = nt
  <2>1. \A i \in Point : FrMul(Minus(i, t), 1) = Minus(i, t)
    BY <1>0, MinusIs, OneTimes
  <2>2. Scales(h, t, f)
    BY <1>8, <2>1 DEF Scales
  <2>3. Interp(S, h) = FrMul(nt, 1)
    BY <1>3, <1>5, <2>2, InterpWithout
  <2> QED BY <2>3, OneTimes
<1>11. Combines(g, k, f, 1, h, Point)
  <2>1. ASSUME NEW i \in Point PROVE g[i] = FrAdd(FrMul(k, f[i]), FrMul(1, h[i]))
    <3>1. Minus(i, s) = FrAdd(Minus(t, s), Minus(i, t))
      BY <1>0, MinusVia
    <3>2. FrMul(1, h[i]) = h[i] /\ FrMul(k, f[i]) = k
      BY <1>8, OneTimes
    <3> QED BY <1>1, <1>8, <3>1, <3>2
  <2> QED BY <2>1 DEF Combines
<1>12. PICK v \in Scalar : v = Interp(S, f)
  BY WeightedIs
<1>13. Interp(S, g) = FrAdd(FrMul(k, v), FrMul(1, Interp(S, h)))
  BY <1>11, <1>12, ZeroOne, InterpLinear
<1>14. FrMul(1, nt) = nt
  BY OneTimes
<1>15. ns = FrAdd(FrMul(k, v), nt)
  BY <1>9, <1>10, <1>13, <1>14
<1>16. FrMul(k, v) \in Scalar
  BY Ring
<1>17. FrMul(k, v) = k
  BY <1>4, <1>15, <1>16, AddCancel
<1>18. FrMul(k, 1) = k
  BY OneTimes
<1>19. v = 1
  BY <1>1, <1>17, <1>18, ZeroOne, MulCancel
<1> QED BY <1>5, <1>12, <1>19

(* By induction on the number of points.                                    *)
LEMMA WeightsAddToOne ==
  ASSUME NEW S \in SUBSET Point, S # {}
  PROVE  Interp(S, Ones) = 1
<1> DEFINE G == {n \in 0 .. N : \A X \in SUBSET Point : Cardinality(X) = n + 1 => Interp(X, Ones) = 1}
<1>0. N \in Nat /\ IsFiniteSet(Point)
  BY SizeAssumption, PointIs
<1>1. 0 \in G
  <2>1. ASSUME NEW X \in SUBSET Point, Cardinality(X) = 0 + 1 PROVE Interp(X, Ones) = 1
    <3>1. IsFiniteSet(X) /\ Cardinality(X) = 1
      BY <1>0, <2>1, FS_Subset
    <3>2. PICK i : X = {i}
      BY <3>1, FS_Singleton
    <3>3. i \in Point /\ IsFiniteSet({i}) /\ IsFiniteSet({})
      BY <3>2, FS_Singleton, FS_EmptySet
    <3>4. PICK f : f = Weighted(X, Ones)
      OBVIOUS
    <3>5. Ones[i] = 1
      BY <3>3 DEF Ones
    <3>6. f \in [{i} -> Scalar] /\ f[i] = 1
      <4>1. FrMul(1, 1) = 1
        BY ZeroOne, OneTimes
      <4>2. f = [j \in {i} |-> 1]
        BY <3>2, <3>4, <3>5, <4>1, WeightOfOne DEF Weighted
      <4> QED BY <4>2, ZeroOne
    <3>7. SumOver(f) = FrAdd(f[i], SumOver(Without(f, i)))
      BY <3>3, <3>6, SumStep
    <3>8. PICK e : e = Without(f, i)
      OBVIOUS
    <3>9. e \in [{} -> Scalar]
      <4>1. DOMAIN f \ {i} = {}
        BY <3>6
      <4> QED BY <3>8, <4>1 DEF Without
    <3>10. SumOver(e) = 0
      BY <3>3, <3>9, SumStep
    <3>11. FrAdd(1, 0) = 1
      BY ZeroOne, OneTimes
    <3> QED BY <3>4, <3>6, <3>7, <3>8, <3>10, <3>11 DEF Interp
  <2>2. 0 \in 0 .. N
    BY <1>0
  <2> QED BY <2>1, <2>2
<1>2. ASSUME NEW n \in 0 .. N, n # N, n \in G PROVE n + 1 \in G
  <2>1. ASSUME NEW X \in SUBSET Point, Cardinality(X) = (n + 1) + 1 PROVE Interp(X, Ones) = 1
    <3>1. IsFiniteSet(X)
      BY <1>0, FS_Subset
    <3>2. Cardinality({}) = 0 /\ n \in Nat /\ Cardinality(X) # 0
      BY <2>1, FS_EmptySet
    <3>3. PICK s \in X : TRUE
      BY <3>2
    <3>4. PICK R : R = X \ {s}
      OBVIOUS
    <3>5. Cardinality(R) = n + 1
      <4>1. Cardinality(X \ {s}) = Cardinality(X) - 1
        BY <3>1, <3>3, FS_RemoveElement
      <4> QED BY <2>1, <3>2, <3>4, <4>1
    <3>6. Cardinality(R) # 0
      BY <3>2, <3>5
    <3>7. PICK t \in R : TRUE
      BY <3>2, <3>6
    <3>8. PICK L : L = X \ {t}
      OBVIOUS
    <3>9. t \in X /\ s # t
      BY <3>4, <3>7
    <3>10. Cardinality(L) = n + 1
      <4>1. Cardinality(X \ {t}) = Cardinality(X) - 1
        BY <3>1, <3>9, FS_RemoveElement
      <4> QED BY <2>1, <3>2, <3>8, <4>1
    <3>11. R \in SUBSET Point /\ L \in SUBSET Point
      BY <3>4, <3>8
    <3>12. Interp(R, Ones) = 1 /\ Interp(L, Ones) = 1
      BY <1>2, <3>5, <3>10, <3>11
    <3> QED BY <3>3, <3>4, <3>8, <3>9, <3>12, OnesStep
  <2>2. n + 1 \in 0 .. N
    BY <1>0, <1>2
  <2> QED BY <2>1, <2>2
<1> HIDE DEF G
<1>3. 0 .. N \subseteq G
  BY <1>0, <1>1, <1>2, UpTo
<1>4. IsFiniteSet(S) /\ Cardinality(S) \in Nat /\ Cardinality(S) # 0 /\ Cardinality(S) <= N
  <2>1. IsFiniteSet(S)
    BY <1>0, FS_Subset
  <2>2. Cardinality(S) \in Nat /\ Cardinality(S) # 0
    BY <2>1, FS_CardinalityType, FS_EmptySet
  <2>3. Cardinality(S) <= Cardinality(Point)
    BY <1>0, FS_Subset
  <2>4. Cardinality(Point) = N
    <3>1. 1 \in Int /\ N \in Int /\ N >= 1
      BY SizeAssumption
    <3>2. Cardinality(1 .. N) = N - 1 + 1
      BY <3>1, FS_Interval
    <3> QED BY <3>1, <3>2 DEF Point
  <2> QED BY <2>1, <2>2, <2>3, <2>4
<1>5. PICK m \in 0 .. N : Cardinality(S) = m + 1
  <2>1. PICK k \in Nat : k = Cardinality(S) /\ k # 0 /\ k <= N
    BY <1>4
  <2>2. k - 1 \in 0 .. N /\ k = (k - 1) + 1
    BY <1>0, <2>1
  <2> QED BY <2>1, <2>2
<1>6. m \in G
  BY <1>3
<1> QED BY <1>5, <1>6 DEF G

-----------------------------------------------------------------------------
(***************************************************************************)
(* Interpolation of a polynomial: as many points as coefficients give the  *)
(* constant.                                                               *)
(***************************************************************************)
LEMMA InterpHorner ==
  ASSUME NEW S \in SUBSET Point, NEW s \in S, NEW f \in [Point -> Scalar],
         NEW g \in [Point -> Scalar], NEW c \in Scalar, NEW v \in Scalar,
         \A i \in Point : g[i] = FrAdd(c, FrMul(i, f[i])),
         Interp(S, f) = v, Interp(S \ {s}, f) = v
  PROVE  Interp(S, g) = c
<1>0. s \in Point /\ \A i \in Point : i \in Scalar
  BY PointIs
<1>1. PICK p \in [Point -> Scalar] : \A i \in Point : p[i] = FrMul(Minus(i, s), f[i])
  <2>1. ASSUME NEW i \in Point PROVE FrMul(Minus(i, s), f[i]) \in Scalar
    <3>1. Minus(i, s) \in Scalar /\ f[i] \in Scalar
      BY <1>0, MinusIs
    <3> QED BY <3>1, Ring
  <2>2. [i \in Point |-> FrMul(Minus(i, s), f[i])] \in [Point -> Scalar]
    BY <2>1
  <2> QED BY <2>2
<1>2. PICK q \in [Point -> Scalar] : \A i \in Point : q[i] = FrMul(i, f[i])
  <2>1. ASSUME NEW i \in Point PROVE FrMul(i, f[i]) \in Scalar
    <3>1. i \in Scalar /\ f[i] \in Scalar
      BY <1>0
    <3> QED BY <3>1, Ring
  <2>2. [i \in Point |-> FrMul(i, f[i])] \in [Point -> Scalar]
    BY <2>1
  <2> QED BY <2>2
<1>3. PICK ns \in Scalar : ns = Neg(s) /\ FrAdd(ns, s) = 0
  BY <1>0, NegIs
<1>4. Interp(S, p) = FrMul(ns, v)
  BY <1>1, <1>3, InterpWithout DEF Scales
<1>5. Combines(q, 1, p, s, f, Point)
  <2>1. ASSUME NEW i \in Point PROVE q[i] = FrAdd(FrMul(1, p[i]), FrMul(s, f[i]))
    <3>1. PICK m \in Scalar : m = Minus(i, s) /\ FrAdd(m, s) = i
      BY <1>0, MinusIs
    <3>2. PICK x \in Scalar : x = f[i]
      OBVIOUS
    <3>3. s \in Scalar /\ FrAdd(m, s) \in Scalar
      BY <1>0, Ring
    <3>4. FrMul(x, FrAdd(m, s)) = FrAdd(FrMul(x, m), FrMul(x, s))
      BY <3>3, Distrib
    <3>5. /\ FrMul(x, FrAdd(m, s)) = FrMul(FrAdd(m, s), x)
          /\ FrMul(x, m) = FrMul(m, x) /\ FrMul(x, s) = FrMul(s, x)
      BY <3>3, Ring
    <3>6. FrMul(1, p[i]) = p[i] /\ p[i] = FrMul(m, x) /\ q[i] = FrMul(i, x)
      BY <1>1, <1>2, <3>1, <3>2, OneTimes
    <3> QED BY <3>1, <3>2, <3>4, <3>5, <3>6
  <2> QED BY <2>1 DEF Combines
<1>6. Interp(S, q) = 0
  <2>1. Interp(S, q) = FrAdd(FrMul(1, Interp(S, p)), FrMul(s, v))
    BY <1>0, <1>5, ZeroOne, InterpLinear
  <2>2. FrMul(ns, v) \in Scalar /\ s \in Scalar
    BY <1>0, Ring
  <2>3. FrMul(1, FrMul(ns, v)) = FrMul(ns, v)
    BY <2>2, OneTimes
  <2>4. FrMul(v, FrAdd(ns, s)) = FrAdd(FrMul(v, ns), FrMul(v, s))
    BY <2>2, Distrib
  <2>5. FrMul(v, ns) = FrMul(ns, v) /\ FrMul(v, s) = FrMul(s, v)
    BY <2>2, Ring
  <2>6. FrMul(v, 0) = 0
    BY OneTimes
  <2> QED BY <1>3, <1>4, <2>1, <2>3, <2>4, <2>5, <2>6
<1>7. PICK e \in [Point -> Scalar] : e = Ones
  BY ZeroOne DEF Ones
<1>8. Combines(g, c, e, 1, q, Point)
  <2>1. ASSUME NEW i \in Point PROVE g[i] = FrAdd(FrMul(c, e[i]), FrMul(1, q[i]))
    <3>1. e[i] = 1
      BY <1>7 DEF Ones
    <3>2. FrMul(c, 1) = c /\ FrMul(1, q[i]) = q[i]
      BY OneTimes
    <3> QED BY <1>2, <3>1, <3>2
  <2> QED BY <2>1 DEF Combines
<1>9. Interp(S, g) = FrAdd(FrMul(c, Interp(S, e)), FrMul(1, Interp(S, q)))
  BY <1>8, ZeroOne, InterpLinear
<1>10. Interp(S, e) = 1
  BY <1>7, WeightsAddToOne
<1>11. FrMul(c, 1) = c /\ FrMul(1, 0) = 0 /\ FrAdd(c, 0) = c
  BY ZeroOne, OneTimes
<1> QED BY <1>6, <1>9, <1>10, <1>11

(* Row k has the values at the points of the coefficients from k on.        *)
Row(H, k) == [i \in Point |-> H[i][k]]

(* From row k + 1, over S and over S without a point, to row k.             *)
LEMMA RowStep ==
  ASSUME NEW n \in Nat, NEW c \in [0 .. n -> Scalar], NEW H,
         \A i \in Point : Horner(H[i], n, c, i), NEW k \in 0 .. n, k # n,
         NEW S \in SUBSET Point, NEW s \in S,
         Interp(S, Row(H, k + 1)) = c[k + 1], Interp(S \ {s}, Row(H, k + 1)) = c[k + 1]
  PROVE  Interp(S, Row(H, k)) = c[k]
<1>1. k + 1 \in 0 .. n
  OBVIOUS
<1>2. \A i \in Point : H[i] \in [0 .. n -> Scalar] /\ H[i][k] = FrAdd(c[k], FrMul(i, H[i][k + 1]))
  BY DEF Horner
<1>3. PICK f \in [Point -> Scalar] : f = Row(H, k + 1)
  BY <1>1, <1>2 DEF Row
<1>4. PICK g \in [Point -> Scalar] : g = Row(H, k)
  BY <1>2 DEF Row
<1>5. \A i \in Point : g[i] = FrAdd(c[k], FrMul(i, f[i]))
  BY <1>2, <1>3, <1>4 DEF Row
<1>6. PICK a \in Scalar : a = c[k]
  OBVIOUS
<1>7. PICK v \in Scalar : v = c[k + 1]
  BY <1>1
<1>8. \A i \in Point : g[i] = FrAdd(a, FrMul(i, f[i]))
  BY <1>5, <1>6
<1>9. Interp(S, f) = v /\ Interp(S \ {s}, f) = v
  BY <1>3, <1>7
<1>10. Interp(S, g) = a
  BY <1>8, <1>9, InterpHorner
<1> QED BY <1>4, <1>6, <1>10

(* The last coefficient is a multiple of the sum of the weights.            *)
LEMMA RowLast ==
  ASSUME NEW n \in Nat, NEW c \in [0 .. n -> Scalar], NEW H,
         \A i \in Point : Horner(H[i], n, c, i), NEW S \in SUBSET Point, S # {}
  PROVE  Interp(S, Row(H, n)) = c[n]
<1>1. \A i \in Point : H[i][n] = c[n]
  BY DEF Horner
<1>2. PICK a \in Scalar : a = c[n]
  OBVIOUS
<1>3. PICK e \in [Point -> Scalar] : e = Ones
  BY ZeroOne DEF Ones
<1>4. PICK g \in [Point -> Scalar] : g = Row(H, n)
  BY <1>1, <1>2 DEF Row
<1>5. Combines(g, a, e, 0, e, Point)
  <2>1. ASSUME NEW i \in Point PROVE g[i] = FrAdd(FrMul(a, e[i]), FrMul(0, e[i]))
    <3>1. e[i] = 1 /\ g[i] = a
      BY <1>1, <1>2, <1>3, <1>4 DEF Ones, Row
    <3>2. FrMul(a, 1) = a /\ FrMul(0, 1) = 0 /\ FrAdd(a, 0) = a
      BY ZeroOne, OneTimes
    <3> QED BY <3>1, <3>2
  <2> QED BY <2>1 DEF Combines
<1>6. Interp(S, g) = FrAdd(FrMul(a, Interp(S, e)), FrMul(0, Interp(S, e)))
  BY <1>5, ZeroOne, InterpLinear
<1>7. Interp(S, e) = 1
  BY <1>3, WeightsAddToOne
<1>8. FrMul(a, 1) = a /\ FrMul(0, 1) = 0 /\ FrAdd(a, 0) = a
  BY ZeroOne, OneTimes
<1> QED BY <1>2, <1>4, <1>6, <1>7, <1>8

(* As many points as coefficients give the constant.                        *)
LEMMA InterpPoly ==
  ASSUME NEW n \in Nat, NEW c \in [0 .. n -> Scalar], NEW S \in SUBSET Point,
         Cardinality(S) > n, NEW f \in [Point -> Scalar], \A i \in Point : f[i] = EvalPoly(c, i)
  PROVE  Interp(S, f) = c[0]
<1>0. IsFiniteSet(Point) /\ \A i \in Point : i \in Scalar
  BY PointIs
<1>1. \A i \in Point : \E h : Horner(h, n, c, i)
  BY <1>0, HornerExists
<1>2. PICK H : H = [i \in Point |-> CHOOSE h : Horner(h, n, c, i)]
  OBVIOUS
<1>3. \A i \in Point : Horner(H[i], n, c, i)
  BY <1>1, <1>2
<1> DEFINE G == {d \in 0 .. n : \A X \in SUBSET Point :
                   Cardinality(X) > d => Interp(X, Row(H, n - d)) = c[n - d]}
<1>4. 0 \in G
  <2>1. ASSUME NEW X \in SUBSET Point, Cardinality(X) > 0 PROVE Interp(X, Row(H, n)) = c[n]
    <3>1. IsFiniteSet(X) /\ Cardinality(X) \in Nat
      BY <1>0, FS_Subset, FS_CardinalityType
    <3>2. X # {}
      <4>1. Cardinality(X) # 0
        BY <2>1, <3>1
      <4> QED BY <3>1, <4>1, FS_EmptySet
    <3> QED BY <1>3, <3>2, RowLast
  <2>2. n - 0 = n /\ 0 \in 0 .. n
    OBVIOUS
  <2> QED BY <2>1, <2>2
<1>5. ASSUME NEW d \in 0 .. n, d # n, d \in G PROVE d + 1 \in G
  <2>1. PICK k \in 0 .. n : k = n - (d + 1)
    BY <1>5
  <2>2. k # n /\ k + 1 = n - d /\ d + 1 \in 0 .. n
    BY <1>5, <2>1
  <2>3. ASSUME NEW X \in SUBSET Point, Cardinality(X) > d + 1 PROVE Interp(X, Row(H, k)) = c[k]
    <3>1. IsFiniteSet(X) /\ Cardinality(X) \in Nat
      BY <1>0, FS_Subset, FS_CardinalityType
    <3>2. Cardinality(X) # 0 /\ Cardinality({}) = 0
      BY <2>3, <3>1, FS_EmptySet
    <3>3. PICK s \in X : TRUE
      BY <3>2
    <3>4. PICK R : R = X \ {s}
      OBVIOUS
    <3>5. Cardinality(R) > d /\ Cardinality(X) > d
      <4>1. Cardinality(X \ {s}) = Cardinality(X) - 1
        BY <3>1, <3>3, FS_RemoveElement
      <4> QED BY <2>3, <3>1, <3>4, <4>1
    <3>6. R \in SUBSET Point
      BY <3>4
    <3>7. Interp(X, Row(H, k + 1)) = c[k + 1]
      BY <1>5, <2>2, <3>5
    <3>8. Interp(R, Row(H, k + 1)) = c[k + 1]
      BY <1>5, <2>2, <3>5, <3>6
    <3> QED BY <1>3, <2>2, <3>3, <3>4, <3>7, <3>8, RowStep
  <2> QED BY <2>1, <2>2, <2>3
<1> HIDE DEF G
<1>6. 0 .. n \subseteq G
  BY <1>4, <1>5, UpTo
<1>7. n \in G /\ n - n = 0
  BY <1>6
<1>8. Interp(S, Row(H, 0)) = c[0]
  BY <1>7 DEF G
<1>9. ASSUME NEW i \in Point PROVE H[i][0] = f[i]
  BY <1>0, <1>3, EvalIs
<1>10. f = Row(H, 0)
  BY <1>9 DEF Row
<1> QED BY <1>8, <1>10

-----------------------------------------------------------------------------
(***************************************************************************)
(* Parties 0 .. N - 1 and points 1 .. N: a sum over either is the same.    *)
(***************************************************************************)
LEMMA SumOnMore ==
  ASSUME NEW S, IsFiniteSet(S), NEW f \in [S -> Scalar], NEW X \in SUBSET S,
         NEW y \in S \ X, NEW E, E = X \cup {y}
  PROVE  SumOver(On(f, E)) = FrAdd(f[y], SumOver(On(f, X)))
<1>1. SumOver(On(f, X \cup {y})) = FrAdd(f[y], SumOver(On(f, X)))
  BY SumMore
<1> QED BY <1>1

(* By induction on N.                                                       *)
LEMMA SumShifted ==
  ASSUME NEW f \in [Party -> Scalar], NEW g \in [Point -> Scalar],
         \A p \in Party : f[p] = g[p + 1]
  PROVE  SumOver(f) = SumOver(g)
<1> DEFINE L(n) == 0 .. n - 1
           R(n) == 1 .. n
           G    == {n \in 0 .. N : SumOver(On(f, L(n))) = SumOver(On(g, R(n)))}
<1>0. N \in Nat /\ Party = 0 .. N - 1 /\ IsFiniteSet(Party) /\ IsFiniteSet(Point)
  <2>1. N \in Nat
    BY SizeAssumption
  <2>2. IsFiniteSet(0 .. N - 1)
    BY <2>1, FS_Interval
  <2> QED BY <2>1, <2>2, PointIs DEF Party
<1>1. 0 \in G
  <2>1. L(0) = {} /\ R(0) = {} /\ 0 \in 0 .. N
    BY <1>0
  <2>2. SumOver(On(f, {})) = 0
    BY <1>0, SumMore
  <2>3. SumOver(On(g, {})) = 0
    BY <1>0, SumMore
  <2> QED BY <2>1, <2>2, <2>3
<1>2. ASSUME NEW n \in 0 .. N, n # N, n \in G PROVE n + 1 \in G
  <2>1. PICK m \in Int : m = n + 1
    OBVIOUS
  <2>2. L(m) = L(n) \cup {n} /\ R(m) = R(n) \cup {m} /\ m \in 0 .. N
    BY <1>0, <1>2, <2>1
  <2>3. L(n) \in SUBSET Party /\ n \in Party \ L(n)
    BY <1>0, <1>2
  <2>4. R(n) \in SUBSET Point /\ m \in Point \ R(n)
    BY <1>0, <1>2, <2>1 DEF Point
  <2>5. PICK A \in SUBSET Party : A = L(n) /\ n \notin A
    BY <2>3
  <2>6. PICK B \in SUBSET Point : B = R(n) /\ m \notin B
    BY <2>4
  <2>7. PICK x : x = n
    OBVIOUS
  <2>8. PICK y : y = m
    OBVIOUS
  <2>9. x \in Party \ A /\ y \in Point \ B /\ f[x] = g[y]
    BY <2>1, <2>3, <2>4, <2>5, <2>6, <2>7, <2>8
  <2>10. SumOver(On(f, A)) = SumOver(On(g, B))
    BY <1>2, <2>5, <2>6
  <2>11. L(m) = A \cup {x} /\ R(m) = B \cup {y}
    BY <2>2, <2>5, <2>6, <2>7, <2>8
  <2> HIDE DEF L, R, G
  <2>12. PICK C : C = A \cup {x} /\ C = L(m)
    BY <2>11
  <2>13. PICK D : D = B \cup {y} /\ D = R(m)
    BY <2>11
  <2>14. SumOver(On(f, C)) = FrAdd(f[x], SumOver(On(f, A)))
    <3>1. IsFiniteSet(Party)
      BY <1>0
    <3> QED BY <2>9, <2>12, <3>1, SumOnMore
  <2>15. SumOver(On(g, D)) = FrAdd(g[y], SumOver(On(g, B)))
    <3>1. IsFiniteSet(Point)
      BY <1>0
    <3> QED BY <2>9, <2>13, <3>1, SumOnMore
  <2>16. SumOver(On(f, L(m))) = SumOver(On(g, R(m)))
    BY <2>9, <2>10, <2>12, <2>13, <2>14, <2>15
  <2> QED BY <2>1, <2>2, <2>16 DEF G
<1> HIDE DEF G
<1>3. 0 .. N \subseteq G
  BY <1>0, <1>1, <1>2, UpTo
<1>4. N \in G
  BY <1>0, <1>3
<1>5. SumOver(On(f, Party)) = SumOver(On(g, Point))
  BY <1>0, <1>4 DEF G, Point
<1>6. On(f, Party) = f
  BY <1>0, SumMore
<1>7. On(g, Point) = g
  BY <1>0, SumMore
<1> QED BY <1>5, <1>6, <1>7
-----------------------------------------------------------------------------
(***************************************************************************)
(* Sums of polynomials, given by their coefficients.                       *)
(***************************************************************************)
PolySum(P, D) == [k \in 0 .. T |-> SumOver([d \in D |-> P[d][k]])]

Polynomials(P, D) == \A d \in D : P[d] \in [0 .. T -> Scalar]

AddsPoly(P, D, E, q, x) ==
  /\ PolySum(P, D) \in [0 .. T -> Scalar]
  /\ PolySum(P, E) \in [0 .. T -> Scalar]
  /\ PolySum(P, E)[0] = FrAdd(PolySum(P, D)[0], P[q][0])
  /\ EvalPoly(PolySum(P, D), x) \in Scalar
  /\ EvalPoly(PolySum(P, E), x) = FrAdd(EvalPoly(PolySum(P, D), x), EvalPoly(P[q], x))

(* One polynomial more.                                                     *)
LEMMA PolySumMore ==
  ASSUME NEW D, IsFiniteSet(D), NEW q, q \notin D, NEW E, E = D \cup {q}, NEW x \in Scalar,
         NEW P, Polynomials(P, E)
  PROVE  AddsPoly(P, D, E, q, x)
<1>1. E = D \cup {q}
  OBVIOUS
<1>2. IsFiniteSet(E)
  BY <1>1, FS_AddElement
<1>3. \A k \in 0 .. T : [d \in E |-> P[d][k]] \in [E -> Scalar]
  BY <1>1 DEF Polynomials
<1>4. ASSUME NEW k \in 0 .. T
      PROVE  /\ PolySum(P, D)[k] \in Scalar /\ PolySum(P, E)[k] \in Scalar
             /\ PolySum(P, E)[k] = FrAdd(PolySum(P, D)[k], P[q][k])
  <2>1. PICK f \in [E -> Scalar] : f = [d \in E |-> P[d][k]]
    BY <1>3
  <2>2. On(f, D) = [d \in D |-> P[d][k]]
    <3>1. \A d \in D : d \in E /\ f[d] = P[d][k]
      BY <1>1, <2>1
    <3> QED BY <3>1 DEF On
  <2>3. PolySum(P, D)[k] = SumOver(On(f, D)) /\ PolySum(P, E)[k] = SumOver(f)
    BY <2>1, <2>2 DEF PolySum
  <2>4. D \in SUBSET E /\ q \in E \ D /\ D \cup {q} = E
    BY <1>1
  <2>5. SumOver(On(f, D)) \in Scalar /\ SumOver(f) \in Scalar
    BY <1>2, <2>4, SumMore, SumStep
  <2>6. SumOver(On(f, D \cup {q})) = FrAdd(f[q], SumOver(On(f, D)))
    BY <1>2, <2>4, SumMore
  <2>7. On(f, E) = f
    BY <1>2, SumMore
  <2>8. f[q] = P[q][k] /\ f[q] \in Scalar
    BY <2>1, <2>4
  <2>9. FrAdd(f[q], SumOver(On(f, D))) = FrAdd(SumOver(On(f, D)), f[q])
    BY <2>5, <2>8, Ring
  <2> QED BY <2>3, <2>4, <2>5, <2>6, <2>7, <2>8, <2>9
<1>5. PICK a \in [0 .. T -> Scalar] : a = PolySum(P, D)
  BY <1>4 DEF PolySum
<1>6. PICK c \in [0 .. T -> Scalar] : c = PolySum(P, E)
  BY <1>4 DEF PolySum
<1>7. PICK b \in [0 .. T -> Scalar] : b = P[q]
  BY DEF Polynomials
<1>8. \A k \in 0 .. T : c[k] = FrAdd(a[k], b[k])
  BY <1>4, <1>5, <1>6, <1>7
<1>9. T \in Nat
  BY SizeAssumption
<1>10. EvalPoly(a, x) \in Scalar /\ EvalPoly(c, x) = FrAdd(EvalPoly(a, x), EvalPoly(b, x))
  <2>1. PICK n \in Nat : n = T
    BY <1>9
  <2>2. /\ a \in [0 .. n -> Scalar] /\ b \in [0 .. n -> Scalar] /\ c \in [0 .. n -> Scalar]
        /\ SumsTo(c, a, b, n)
    BY <1>8, <2>1 DEF SumsTo
  <2> QED BY <2>2, EvalAdds
<1>11. 0 \in 0 .. T
  BY <1>9
<1> QED BY <1>5, <1>6, <1>7, <1>8, <1>10, <1>11 DEF AddsPoly

(* One polynomial only.                                                     *)
LEMMA PolySumOne ==
  ASSUME NEW q, NEW P, P[q] \in [0 .. T -> Scalar]
  PROVE  PolySum(P, {q}) = P[q]
<1>1. ASSUME NEW k \in 0 .. T PROVE SumOver([d \in {q} |-> P[d][k]]) = P[q][k]
  <2>1. PICK f : f = [d \in {q} |-> P[d][k]]
    OBVIOUS
  <2>2. f \in [{q} -> Scalar] /\ f[q] = P[q][k]
    BY <2>1
  <2>3. IsFiniteSet({q}) /\ IsFiniteSet({})
    BY FS_Singleton, FS_EmptySet
  <2>4. SumOver(f) = FrAdd(f[q], SumOver(Without(f, q)))
    BY <2>2, <2>3, SumStep
  <2>5. Without(f, q) \in [{} -> Scalar]
    <3>1. DOMAIN f \ {q} = {}
      BY <2>2
    <3> QED BY <3>1 DEF Without
  <2>6. SumOver(Without(f, q)) = 0
    BY <2>3, <2>5, SumStep
  <2>7. FrAdd(P[q][k], 0) = P[q][k]
    <3>1. P[q][k] \in Scalar
      OBVIOUS
    <3> QED BY <3>1, Ring
  <2> QED BY <2>1, <2>2, <2>4, <2>6, <2>7
<1>2. PolySum(P, {q}) = [k \in 0 .. T |-> P[q][k]]
  BY <1>1 DEF PolySum
<1> QED BY <1>2

(* The sum over dealers, and the share and key made of it.                  *)
HasKey(s, v, P, D, x) == s = EvalPoly(PolySum(P, D), x) /\ v = PolySum(P, D)[0]

(* The keys that dstb_keygen starts with (bls.cpp 53-67),                   *)
LEMMA KeyFirst ==
  ASSUME NEW q, NEW P, P[q] \in [0 .. T -> Scalar], NEW x
  PROVE  HasKey(EvalPoly(P[q], x), P[q][0], P, {q}, x)
BY PolySumOne DEF HasKey

(* and those with one more dealer.                                          *)
LEMMA KeyMore ==
  ASSUME NEW D, IsFiniteSet(D), NEW q, q \notin D, NEW E, E = D \cup {q}, NEW x \in Scalar,
         NEW P, Polynomials(P, E), NEW s, NEW v, HasKey(s, v, P, D, x)
  PROVE  HasKey(FrAdd(s, EvalPoly(P[q], x)), FrAdd(v, P[q][0]), P, E, x)
<1>1. s = EvalPoly(PolySum(P, D), x) /\ v = PolySum(P, D)[0]
  BY DEF HasKey
<1>2. AddsPoly(P, D, E, q, x)
  BY PolySumMore
<1>3. /\ PolySum(P, E)[0] = FrAdd(PolySum(P, D)[0], P[q][0])
      /\ EvalPoly(PolySum(P, E), x) = FrAdd(EvalPoly(PolySum(P, D), x), EvalPoly(P[q], x))
  BY <1>2 DEF AddsPoly
<1> QED BY <1>1, <1>3 DEF HasKey

-----------------------------------------------------------------------------
USE DEF Party, Slot

(***************************************************************************)
(* The loop "for i .. if (i != my_num)" visits every peer once.            *)
(***************************************************************************)
LEMMA PeerArith ==
  ASSUME NEW p \in Party
  PROVE  /\ FirstPeer(p) \in 0 .. N /\ FirstPeer(p) # p
         /\ \A r \in Party : r < FirstPeer(p) => r = p
         /\ \A q \in Party : q # p =>
              /\ NextPeer(p, q) \in 0 .. N /\ NextPeer(p, q) # p
              /\ \A r \in Party : r # p => (r < NextPeer(p, q) <=> r <= q)
BY SizeAssumption DEF FirstPeer, NextPeer

(* The slots of a round.                                                    *)
LEMMA SlotArith ==
  ASSUME NEW r \in Round
  PROVE  /\ FirstSlot(r) \in Slot /\ LastSlot(r) \in Slot
         /\ FirstSlot(r) <= LastSlot(r)
         /\ r # 4 => LastSlot(r) = FirstSlot(r + 1) - 1 /\ r + 1 \in Round
         /\ FirstSlot(r) .. LastSlot(r) \subseteq Slot
         /\ FirstSlot(r) = r
         /\ LastSlot(4) = T + 4
BY SizeAssumption DEF FirstSlot, LastSlot, Round

(* The types of what a party has and receives.                              *)
LEMMA Types ==
  ASSUME TypeOK, NEW p \in Party, NEW q \in Party
  PROVE  /\ log[p][q] \in Seq(Frame) /\ Len(log[p][q]) \in Nat
         /\ rd[p][q] \in Nat
         /\ round[p] \in Round /\ slot[p] \in Slot /\ peer[p] \in 0 .. N
         /\ mode[p] \in {"send", "recv", "check", "done", "threw"}
<1>1. log[p][q] \in Seq(Frame)
  <2>1. log \in [Party -> [Party -> Seq(Frame)]]
    BY DEF TypeOK
  <2> QED BY <2>1
<1>2. /\ rd[p][q] \in Nat
      /\ round[p] \in Round /\ slot[p] \in Slot /\ peer[p] \in 0 .. N
      /\ mode[p] \in {"send", "recv", "check", "done", "threw"}
  BY DEF TypeOK
<1> QED BY <1>1, <1>2

(* What a dealer deals is a scalar.                                         *)
LEMMA DealtInFr ==
  ASSUME TypeOK, NEW p \in Party, NEW q \in Party, NEW s \in Slot
  PROVE  Dealt(p, q, s) \in Fr
<1>1. poly[p] \in Coeff /\ poly[p] \in Polys(p)
  BY DEF TypeOK
<1>2. \A k \in 0 .. T : poly[p][k] \in Fr
  BY <1>1 DEF Coeff
<1>3. q + 1 \in 1 .. N
  BY SizeAssumption
<1>4. Eval(poly[p], q + 1) \in Fr
  BY <1>1, <1>3, FieldAssumption
<1>5. CASE s \in {CommSlot, OpenSlot}
  <2>1. 0 \in 0 .. T
    BY SizeAssumption
  <2>2. Dealt(p, q, s) = poly[p][0]
    BY <1>5 DEF Dealt, CommSlot, OpenSlot, ShareSlot
  <2> QED BY <2>1, <2>2, <1>2
<1>6. CASE s = ShareSlot
  BY <1>6, <1>4 DEF Dealt, CommSlot, OpenSlot, ShareSlot
<1>7. CASE s \notin {CommSlot, OpenSlot, ShareSlot}
  <2>1. s - 4 \in 0 .. T
    BY <1>7, SizeAssumption DEF CommSlot, OpenSlot, ShareSlot
  <2>2. Dealt(p, q, s) = poly[p][s - 4]
    BY <1>7 DEF Dealt
  <2> QED BY <2>1, <2>2, <1>2
<1> QED BY <1>5, <1>6, <1>7

-----------------------------------------------------------------------------
(* The invariant holds at the start,                                        *)
LEMMA InitInv == Init => IInv
<1> SUFFICES ASSUME Init PROVE IInv
  OBVIOUS
<1>1. TypeOK
  <2>1. \A p \in Party : poly[p] \in Polys(p) /\ poly[p] \in Coeff
    BY FieldAssumption DEF Init
  <2>2. poly \in [Party -> Coeff]
    BY <2>1 DEF Init
  <2>3. \A p \in Party : p + 1 \in 1 .. N
    BY SizeAssumption
  <2>4. sk \in [Party -> Fr]
    BY <2>1, <2>3, FieldAssumption DEF Init
  <2>5. vk \in [Party -> Fr]
    <3>1. 0 \in 0 .. T
      BY SizeAssumption
    <3> QED BY <2>1, <3>1 DEF Init, Coeff
  <2>6. /\ round \in [Party -> Round]
        /\ slot \in [Party -> Slot]
    BY SizeAssumption DEF Init, Round, FirstSlot
  <2>7. peer \in [Party -> 0 .. N] /\ \A p \in Party : peer[p] # p
    BY PeerArith DEF Init
  <2>8. got \in [Party -> [Party -> [Slot -> Fr \cup {None}]]]
    BY DEF Init
  <2>9. /\ mode \in [Party -> {"send", "recv", "check", "done", "threw"}]
        /\ log \in [Party -> [Party -> Seq(Frame)]]
        /\ rd \in [Party -> [Party -> Nat]]
        /\ faults \in 0 .. MaxFaults
    BY SizeAssumption DEF Init
  <2> QED BY <2>1, <2>2, <2>4, <2>5, <2>6, <2>7, <2>8, <2>9 DEF TypeOK
<1>2. CursorOK
  BY SizeAssumption, SlotArith DEF Init, CursorOK, FirstSlot, LastSlot, Round
<1>3. CountsOK
  BY PeerArith, SizeAssumption
     DEF Init, CountsOK, SentTo, ReadFrom, Reached, FirstSlot, LastSlot
<1>4. TagsOK /\ GotOK
  BY DEF Init, TagsOK, GotOK
<1>5. AcceptedOK
  BY DEF Init, AcceptedOK
<1> QED BY <1>1, <1>2, <1>3, <1>4, <1>5 DEF IInv

-----------------------------------------------------------------------------
(***************************************************************************)
(* What a step of a party's loop does to the counts Reached.               *)
(***************************************************************************)
LEMMA AdvanceCursor ==
  ASSUME TypeOK, CursorOK, NEW p \in Party, peer[p] < N,
         mode[p] \in {"send", "recv"},
         Advance(p), UNCHANGED <<mode, round>>
  PROVE  /\ peer[p] \in Party /\ peer[p] # p
         /\ peer' \in [Party -> 0 .. N] /\ slot' \in [Party -> Slot]
         /\ \A r \in Party : peer'[r] # r
         /\ CursorOK'
         /\ Reached(p, peer[p]) = slot[p] - 1
         /\ \A r \in Party \ {p} :
              Reached(p, r)' = IF r = peer[p] THEN slot[p] ELSE Reached(p, r)
         /\ \A o \in Party \ {p} : \A r \in Party : Reached(o, r)' = Reached(o, r)
<1> DEFINE q == peer[p]
<1>1. q \in Party /\ q # p /\ round[p] \in Round /\ slot[p] \in Slot
  BY SizeAssumption DEF TypeOK
<1>2. /\ slot[p] \in FirstSlot(round[p]) .. LastSlot(round[p])
      /\ round' = round
  BY DEF CursorOK
<1>3. /\ FirstSlot(round[p]) \in Slot /\ LastSlot(round[p]) \in Slot
      /\ FirstSlot(round[p]) <= LastSlot(round[p])
  BY <1>1, SlotArith
<1>4. \A o \in Party \ {p} : peer'[o] = peer[o] /\ slot'[o] = slot[o]
  BY DEF Advance, TypeOK
<1>5. Reached(p, q) = slot[p] - 1
  BY <1>1, SizeAssumption DEF Reached
<1>6. \A o \in Party \ {p} : \A r \in Party : Reached(o, r)' = Reached(o, r)
  BY <1>4, <1>2 DEF Reached
<1>7. CASE slot[p] < LastSlot(round[p])
  <2>1. /\ slot' = [slot EXCEPT ![p] = slot[p] + 1] /\ peer' = peer
        /\ slot'[p] = slot[p] + 1
        /\ slot[p] + 1 \in FirstSlot(round[p]) .. LastSlot(round[p])
    <3>1. slot' = [slot EXCEPT ![p] = slot[p] + 1] /\ peer' = peer
      BY <1>7 DEF Advance
    <3>2. slot'[p] = slot[p] + 1
      BY <3>1 DEF TypeOK
    <3>3. slot[p] + 1 \in FirstSlot(round[p]) .. LastSlot(round[p])
      BY <1>7, <1>1, <1>2, <1>3, SizeAssumption
    <3> QED BY <3>1, <3>2, <3>3
  <2>2. peer' \in [Party -> 0 .. N] /\ slot' \in [Party -> Slot]
        /\ \A r \in Party : peer'[r] # r
    <3>1. slot[p] + 1 \in Slot
      BY <2>1, <1>1, SlotArith
    <3> QED BY <2>1, <3>1 DEF TypeOK
  <2>3. CursorOK'
    BY <2>1, <1>4, <1>2, <1>1 DEF CursorOK
  <2>4. \A r \in Party \ {p} :
          Reached(p, r)' = IF r = peer[p] THEN slot[p] ELSE Reached(p, r)
    BY <2>1, <1>2, <1>1, SizeAssumption DEF Reached
  <2> QED BY <2>2, <2>3, <2>4, <1>1, <1>5, <1>6
<1>8. CASE ~ (slot[p] < LastSlot(round[p]))
  <2>1. /\ slot'[p] = FirstSlot(round[p]) /\ peer'[p] = NextPeer(p, q)
        /\ slot' = [slot EXCEPT ![p] = FirstSlot(round[p])]
        /\ peer' = [peer EXCEPT ![p] = NextPeer(p, q)]
    BY <1>8, <1>1 DEF Advance, TypeOK
  <2>2. /\ NextPeer(p, q) \in 0 .. N /\ NextPeer(p, q) # p
        /\ \A r \in Party : r # p => (r < NextPeer(p, q) <=> r <= q)
    BY <1>1, PeerArith
  <2>3. peer' \in [Party -> 0 .. N] /\ slot' \in [Party -> Slot]
        /\ \A r \in Party : peer'[r] # r
    BY <2>1, <2>2, <1>3 DEF TypeOK
  <2>4. CursorOK'
    BY <2>1, <1>4, <1>2, <1>3, <1>1, SizeAssumption DEF CursorOK
  <2>5. slot[p] = LastSlot(round[p])
    BY <1>8, <1>2, <1>3, SizeAssumption
  <2>6. ASSUME NEW r \in Party, r = q
        PROVE  Reached(p, r)' = slot[p]
    <3>1. r < NextPeer(p, q)
      BY <2>2, <2>6, <1>1, SizeAssumption
    <3>2. Reached(p, r)' = LastSlot(round[p])
      BY <3>1, <2>1, <1>2 DEF Reached
    <3> QED BY <3>2, <2>5
  <2>7. ASSUME NEW r \in Party \ {p, q}
        PROVE  Reached(p, r)' = Reached(p, r)
    <3>1. CASE r < q
      BY <3>1, <2>1, <2>2, <1>2, <1>1, SizeAssumption DEF Reached
    <3>2. CASE q < r
      <4>1. ~ (r < NextPeer(p, q)) /\ ~ (r < q) /\ r # q
        BY <3>2, <2>2, <1>1, SizeAssumption
      <4>2. Reached(p, r) = FirstSlot(round[p]) - 1
        BY <4>1 DEF Reached
      <4>3. Reached(p, r)' = FirstSlot(round[p]) - 1
        BY <4>1, <2>1, <1>2 DEF Reached
      <4> QED BY <4>2, <4>3
    <3> QED BY <3>1, <3>2, <1>1, SizeAssumption
  <2> QED BY <2>3, <2>4, <2>6, <2>7, <1>1, <1>5, <1>6
<1> QED BY <1>7, <1>8

(* Entering a loop puts the cursor at its first peer.                       *)
LEMMA EnterCursor ==
  ASSUME TypeOK, CursorOK, NEW p \in Party, NEW m \in {"send", "recv", "check"},
         NEW r \in Round, m = "check" => r = 4, Enter(p, m, r)
  PROVE  /\ mode' \in [Party -> {"send", "recv", "check", "done", "threw"}]
         /\ round' \in [Party -> Round]
         /\ peer' \in [Party -> 0 .. N] /\ slot' \in [Party -> Slot]
         /\ \A q \in Party : peer'[q] # q
         /\ CursorOK'
         /\ mode'[p] = m /\ round'[p] = r
         /\ \A q \in Party : Reached(p, q) = LastSlot(round[p])
         /\ \A q \in Party \ {p} : Reached(p, q)' = FirstSlot(r) - 1
         /\ \A o \in Party \ {p} :
              /\ mode'[o] = mode[o] /\ round'[o] = round[o] /\ peer'[o] = peer[o]
              /\ \A q \in Party : Reached(o, q)' = Reached(o, q)
<1>1. /\ FirstPeer(p) \in 0 .. N /\ FirstPeer(p) # p
      /\ \A q \in Party : q < FirstPeer(p) => q = p
  BY PeerArith
<1>2. FirstSlot(r) \in Slot /\ LastSlot(r) \in Slot /\ FirstSlot(r) <= LastSlot(r)
  BY SlotArith
<1>3. /\ mode' = [mode EXCEPT ![p] = m] /\ round' = [round EXCEPT ![p] = r]
      /\ peer' = [peer EXCEPT ![p] = FirstPeer(p)]
      /\ slot' = [slot EXCEPT ![p] = FirstSlot(r)]
      /\ peer[p] = N
  BY DEF Enter
<1>4. /\ mode' \in [Party -> {"send", "recv", "check", "done", "threw"}]
      /\ round' \in [Party -> Round]
      /\ peer' \in [Party -> 0 .. N] /\ slot' \in [Party -> Slot]
  BY <1>1, <1>2, <1>3 DEF TypeOK
<1>5. /\ mode'[p] = m /\ round'[p] = r
      /\ peer'[p] = FirstPeer(p) /\ slot'[p] = FirstSlot(r)
  BY <1>3 DEF TypeOK
<1>6. \A o \in Party \ {p} : /\ mode'[o] = mode[o] /\ round'[o] = round[o]
                             /\ peer'[o] = peer[o] /\ slot'[o] = slot[o]
  BY <1>3 DEF TypeOK
<1>7. \A q \in Party : peer'[q] # q
  BY <1>1, <1>5, <1>6 DEF TypeOK
<1>8. CursorOK'
  <2> SUFFICES ASSUME NEW o \in Party
               PROVE  /\ slot'[o] \in FirstSlot(round'[o]) .. LastSlot(round'[o])
                      /\ peer'[o] = N => slot'[o] = FirstSlot(round'[o])
                      /\ mode'[o] \notin {"send", "recv"}
                           => round'[o] = 4 /\ slot'[o] = FirstSlot(4)
    BY DEF CursorOK
  <2>1. CASE o = p
    BY <2>1, <1>2, <1>5, SizeAssumption
  <2>2. CASE o # p
    BY <2>2, <1>6 DEF CursorOK
  <2> QED BY <2>1, <2>2
<1>9. \A q \in Party : Reached(p, q) = LastSlot(round[p])
  BY <1>3, SizeAssumption DEF Reached
<1>10. \A q \in Party \ {p} : Reached(p, q)' = FirstSlot(r) - 1
  BY <1>1, <1>5 DEF Reached
<1>11. \A o \in Party \ {p} : \A q \in Party : Reached(o, q)' = Reached(o, q)
  BY <1>6 DEF Reached
<1> QED BY <1>4, <1>5, <1>6, <1>7, <1>8, <1>9, <1>10, <1>11

-----------------------------------------------------------------------------
(***************************************************************************)
(* One lemma per action: each keeps the inductive invariant.               *)
(***************************************************************************)
LEMMA SendInv ==
  ASSUME IInv, NEW p \in Party, Send(p) PROVE IInv'
<1> DEFINE q == peer[p]
<1> USE DEF IInv
<1>1. /\ mode[p] = "send" /\ peer[p] < N /\ Advance(p)
      /\ UNCHANGED <<mode, round, poly, rd, got, sk, vk>>
  BY DEF Send
<1>2. /\ q \in Party /\ q # p
      /\ peer' \in [Party -> 0 .. N] /\ slot' \in [Party -> Slot]
      /\ \A r \in Party : peer'[r] # r
      /\ CursorOK'
      /\ Reached(p, q) = slot[p] - 1
      /\ \A r \in Party \ {p} :
           Reached(p, r)' = IF r = q THEN slot[p] ELSE Reached(p, r)
      /\ \A o \in Party \ {p} : \A r \in Party : Reached(o, r)' = Reached(o, r)
  BY <1>1, AdvanceCursor
<1>3. PICK v \in Fr :
        log' = [log EXCEPT ![p][q] = Append(@, [slot |-> slot[p], val |-> v])]
  <2>1. slot[p] \in Slot
    BY DEF TypeOK
  <2>2. Dealt(p, q, slot[p]) \in Fr
    BY <1>2, <2>1, DealtInFr
  <2>3. \A w \in Wrong(Dealt(p, q, slot[p])) : w \in Fr
    BY <2>2, FieldAssumption
  <2> QED BY <2>2, <2>3 DEF Send
<1>4. faults' \in 0 .. MaxFaults
  <2>1. faults \in 0 .. MaxFaults /\ MaxFaults \in Nat
    BY SizeAssumption DEF TypeOK
  <2>2. faults' = faults \/ (faults < MaxFaults /\ faults' = faults + 1)
    BY DEF Send
  <2> QED BY <2>1, <2>2
<1>5. [slot |-> slot[p], val |-> v] \in Frame
  BY DEF TypeOK, Frame
<1>6. /\ log[p][q] \in Seq(Frame)
      /\ log'[p][q] = Append(log[p][q], [slot |-> slot[p], val |-> v])
      /\ \A o, r \in Party : o # p \/ r # q => log'[o][r] = log[o][r]
  BY <1>2, <1>3 DEF TypeOK
<1>7. log' \in [Party -> [Party -> Seq(Frame)]]
  <2>1. Append(log[p][q], [slot |-> slot[p], val |-> v]) \in Seq(Frame)
    BY <1>5, <1>6
  <2>2. log \in [Party -> [Party -> Seq(Frame)]]
    BY DEF TypeOK
  <2> QED BY <1>2, <1>3, <2>1, <2>2
<1>8. TypeOK'
  BY <1>1, <1>2, <1>4, <1>7 DEF TypeOK
<1>9. /\ Len(log'[p][q]) = Len(log[p][q]) + 1
      /\ \A i \in 1 .. Len(log[p][q]) : log'[p][q][i] = log[p][q][i]
      /\ log'[p][q][Len(log[p][q]) + 1] = [slot |-> slot[p], val |-> v]
      /\ Len(log[p][q]) \in Nat
  BY <1>6, <1>5
<1>10. Len(log[p][q]) = slot[p] - 1 /\ slot[p] \in Nat
  <2>1. Len(log[p][q]) = SentTo(p, q)
    BY <1>2 DEF CountsOK
  <2>2. SentTo(p, q) = slot[p] - 1
    BY <1>1, <1>2 DEF SentTo
  <2>3. slot[p] \in Nat
    BY SizeAssumption DEF TypeOK
  <2> QED BY <2>1, <2>2, <2>3
<1>11. CountsOK'
  <2> SUFFICES ASSUME NEW o \in Party, NEW r \in Party, o # r
               PROVE  /\ Len(log'[o][r]) = SentTo(o, r)'
                      /\ rd'[o][r] = ReadFrom(o, r)'
                      /\ rd'[o][r] <= Len(log'[r][o])
    BY DEF CountsOK
  <2>1. /\ Len(log[o][r]) = SentTo(o, r)
        /\ rd[o][r] = ReadFrom(o, r)
        /\ rd[o][r] <= Len(log[r][o])
        /\ rd[o][r] \in Nat
    BY DEF CountsOK, TypeOK
  <2>2. CASE o = p
    <3>1. SentTo(o, r)' = Reached(p, r)' /\ SentTo(o, r) = Reached(p, r)
      BY <2>2, <1>1 DEF SentTo
    <3>2. Len(log'[o][r]) = SentTo(o, r)'
      <4>1. CASE r = q
        BY <4>1, <2>2, <3>1, <1>2, <1>9, <1>10
      <4>2. CASE r # q
        <5>1. r \in Party \ {p}
          BY <2>2
        <5>2. Reached(p, r)' = Reached(p, r)
          BY <4>2, <5>1, <1>2
        <5>3. log'[o][r] = log[o][r]
          BY <4>2, <1>6
        <5> QED BY <5>2, <5>3, <2>1, <2>2, <3>1
      <4> QED BY <4>1, <4>2
    <3>3. rd'[o][r] = ReadFrom(o, r)'
      BY <2>1, <2>2, <1>1 DEF ReadFrom
    <3>4. log'[r][o] = log[r][o]
      BY <2>2, <1>6
    <3> QED BY <3>2, <3>3, <3>4, <2>1, <1>1
  <2>3. CASE o # p
    <3>1. SentTo(o, r)' = SentTo(o, r) /\ ReadFrom(o, r)' = ReadFrom(o, r)
      BY <2>3, <1>1, <1>2 DEF SentTo, ReadFrom
    <3>2. log'[o][r] = log[o][r]
      BY <2>3, <1>6
    <3>3. rd'[o][r] <= Len(log'[r][o])
      <4>1. CASE r = p /\ o = q
        <5>1. rd[o][r] <= Len(log[p][q]) /\ rd'[o][r] = rd[o][r]
          BY <4>1, <2>1, <1>1
        <5> QED BY <4>1, <5>1, <2>1, <1>9
      <4>2. CASE r # p \/ o # q
        BY <4>2, <2>1, <1>1, <1>6
      <4> QED BY <4>1, <4>2
    <3> QED BY <3>1, <3>2, <3>3, <2>1, <1>1
  <2> QED BY <2>2, <2>3
<1>12. TagsOK'
  <2> SUFFICES ASSUME NEW o \in Party, NEW r \in Party,
                      NEW i \in 1 .. Len(log'[o][r])
               PROVE  log'[o][r][i].slot = i
    BY DEF TagsOK
  <2>1. CASE o = p /\ r = q
    <3>1. CASE i = Len(log[p][q]) + 1
      <4>1. PICK f : f = [slot |-> slot[p], val |-> v]
        OBVIOUS
      <4>2. log'[p][q][i] = f
        BY <1>9, <3>1, <4>1
      <4>3. f.slot = slot[p]
        BY <4>1
      <4>4. slot[p] = i
        BY <1>10, <3>1
      <4> QED BY <2>1, <4>2, <4>3, <4>4
    <3>2. CASE i # Len(log[p][q]) + 1
      <4>1. i \in 1 .. Len(log[p][q])
        BY <2>1, <3>2, <1>9
      <4>2. log[p][q][i].slot = i
        BY <4>1, <1>2 DEF TagsOK
      <4> QED BY <2>1, <4>1, <4>2, <1>9
    <3> QED BY <3>1, <3>2
  <2>2. CASE o # p \/ r # q
    BY <2>2, <1>6 DEF TagsOK
  <2> QED BY <2>1, <2>2
<1>13. GotOK'
  <2> SUFFICES ASSUME NEW o \in Party, NEW r \in Party, o # r,
                      NEW s \in 1 .. rd[o][r]
               PROVE  got[o][r][s] = log'[r][o][s].val
    BY <1>1 DEF GotOK
  <2>1. got[o][r][s] = log[r][o][s].val
    BY DEF GotOK
  <2>2. s \in 1 .. Len(log[r][o])
    <3>1. rd[o][r] <= Len(log[r][o]) /\ rd[o][r] \in Nat /\ log[r][o] \in Seq(Frame)
      BY DEF CountsOK, TypeOK
    <3> QED BY <3>1
  <2>3. log'[r][o][s] = log[r][o][s]
    BY <2>2, <1>6, <1>9
  <2> QED BY <2>1, <2>3
<1>14. AcceptedOK'
  <2>1. got' = got /\ mode' = mode /\ peer \in [Party -> 0 .. N]
    BY <1>1 DEF TypeOK
  <2>2. \A o, r \in Party : Accepts(o, r)' = Accepts(o, r)
    BY <2>1 DEF Accepts, OpensCommitment, VerifyShare, AuxIsOpened, AuxReceived
  <2>3. mode'[p] = "send" /\ \A o \in Party : o # p => peer'[o] = peer[o]
    BY <1>1, <2>1 DEF Advance
  <2> QED BY <2>1, <2>2, <2>3 DEF AcceptedOK
<1> QED BY <1>2, <1>8, <1>11, <1>12, <1>13, <1>14

(* The end of a round of sends,                                             *)
LEMMA SentInv ==
  ASSUME IInv, NEW p \in Party, Sent(p) PROVE IInv'
<1> USE DEF IInv
<1>1. /\ mode[p] = "send" /\ Enter(p, "recv", round[p]) /\ round[p] \in Round
      /\ UNCHANGED <<poly, log, rd, got, sk, vk, faults>>
  BY DEF Sent, Enter, TypeOK
<1>2. /\ mode' \in [Party -> {"send", "recv", "check", "done", "threw"}]
      /\ round' \in [Party -> Round]
      /\ peer' \in [Party -> 0 .. N] /\ slot' \in [Party -> Slot]
      /\ \A r \in Party : peer'[r] # r
      /\ CursorOK'
      /\ mode'[p] = "recv" /\ round'[p] = round[p]
      /\ \A r \in Party : Reached(p, r) = LastSlot(round[p])
      /\ \A r \in Party \ {p} : Reached(p, r)' = FirstSlot(round[p]) - 1
      /\ \A o \in Party \ {p} :
           /\ mode'[o] = mode[o] /\ round'[o] = round[o] /\ peer'[o] = peer[o]
           /\ \A r \in Party : Reached(o, r)' = Reached(o, r)
  BY <1>1, EnterCursor
<1>3. TypeOK'
  BY <1>1, <1>2 DEF TypeOK
<1>4. CountsOK'
  <2> SUFFICES ASSUME NEW o \in Party, NEW r \in Party, o # r
               PROVE  SentTo(o, r)' = SentTo(o, r) /\ ReadFrom(o, r)' = ReadFrom(o, r)
    BY <1>1 DEF CountsOK
  <2>1. CASE o = p
    BY <2>1, <1>1, <1>2 DEF SentTo, ReadFrom
  <2>2. CASE o # p
    BY <2>2, <1>2 DEF SentTo, ReadFrom
  <2> QED BY <2>1, <2>2
<1>5. TagsOK' /\ GotOK'
  BY <1>1 DEF TagsOK, GotOK
<1>6. AcceptedOK'
  <2>1. \A o, r \in Party : Accepts(o, r)' = Accepts(o, r)
    BY <1>1 DEF Accepts, OpensCommitment, VerifyShare, AuxIsOpened, AuxReceived
  <2> QED BY <2>1, <1>2 DEF AcceptedOK
<1> QED BY <1>2, <1>3, <1>4, <1>5, <1>6

(* a frame received,                                                        *)
LEMMA ReceiveInv ==
  ASSUME IInv, NEW p \in Party, Receive(p) PROVE IInv'
<1> DEFINE q == peer[p]
<1> USE DEF IInv
<1>1. /\ mode[p] = "recv" /\ peer[p] < N /\ Advance(p)
      /\ UNCHANGED <<mode, round, poly, log, sk, vk, faults>>
      /\ rd[p][q] < Len(log[q][p])
      /\ got' = [got EXCEPT ![p][q][slot[p]] = log[q][p][rd[p][q] + 1].val]
      /\ rd'  = [rd EXCEPT ![p][q] = @ + 1]
  BY DEF Receive
<1>2. /\ q \in Party /\ q # p
      /\ peer' \in [Party -> 0 .. N] /\ slot' \in [Party -> Slot]
      /\ \A r \in Party : peer'[r] # r
      /\ CursorOK'
      /\ Reached(p, q) = slot[p] - 1
      /\ \A r \in Party \ {p} :
           Reached(p, r)' = IF r = q THEN slot[p] ELSE Reached(p, r)
      /\ \A o \in Party \ {p} : \A r \in Party : Reached(o, r)' = Reached(o, r)
  BY <1>1, AdvanceCursor
<1>3. slot[p] \in Slot /\ slot[p] \in Nat /\ rd[p][q] \in Nat /\ log[q][p] \in Seq(Frame)
  <2>1. slot[p] \in Slot
    BY DEF TypeOK
  <2>2. slot[p] \in Nat
    BY <2>1, SizeAssumption
  <2>3. rd[p][q] \in Nat /\ log[q][p] \in Seq(Frame)
    BY <1>2 DEF TypeOK
  <2> QED BY <2>1, <2>2, <2>3
<1>4. rd[p][q] = slot[p] - 1
  <2>1. rd[p][q] = ReadFrom(p, q)
    BY <1>2 DEF CountsOK
  <2> QED BY <2>1, <1>1, <1>2 DEF ReadFrom
<1>5. rd[p][q] + 1 = slot[p] /\ slot[p] \in 1 .. Len(log[q][p])
  BY <1>1, <1>3, <1>4
<1>6. log[q][p][slot[p]] \in Frame
  BY <1>3, <1>5
<1>7. log[q][p][slot[p]].val \in Fr
  BY <1>6 DEF Frame
<1>8. /\ rd'[p][q] = slot[p]
      /\ \A o, r \in Party : o # p \/ r # q => rd'[o][r] = rd[o][r]
      /\ rd' \in [Party -> [Party -> Nat]]
  BY <1>1, <1>2, <1>3, <1>5 DEF TypeOK
<1>9. /\ got'[p][q][slot[p]] = log[q][p][slot[p]].val
      /\ \A s \in Slot : s # slot[p] => got'[p][q][s] = got[p][q][s]
      /\ \A o, r \in Party : o # p \/ r # q => got'[o][r] = got[o][r]
  <2>1. got \in [Party -> [Party -> [Slot -> Fr \cup {None}]]]
    BY DEF TypeOK
  <2> DEFINE v == log[q][p][slot[p]].val
  <2>2. got' = [got EXCEPT ![p][q][slot[p]] = v]
    BY <1>1, <1>5
  <2> HIDE DEF v
  <2>3. got[p][q] \in [Slot -> Fr \cup {None}]
    BY <2>1, <1>2
  <2>4. got'[p][q] = [got[p][q] EXCEPT ![slot[p]] = v]
    BY <2>1, <2>2, <1>2
  <2>5. got'[p][q][slot[p]] = v /\ \A s \in Slot : s # slot[p] => got'[p][q][s] = got[p][q][s]
    BY <2>3, <2>4, <1>3
  <2>6. \A o, r \in Party : o # p \/ r # q => got'[o][r] = got[o][r]
    BY <2>1, <2>2, <1>2
  <2> QED BY <2>5, <2>6 DEF v
<1>10. got' \in [Party -> [Party -> [Slot -> Fr \cup {None}]]]
  <2>1. got \in [Party -> [Party -> [Slot -> Fr \cup {None}]]]
    BY DEF TypeOK
  <2> QED BY <2>1, <1>1, <1>2, <1>3, <1>5, <1>7
<1>11. TypeOK'
  BY <1>1, <1>2, <1>8, <1>10 DEF TypeOK
<1>12. CountsOK'
  <2> SUFFICES ASSUME NEW o \in Party, NEW r \in Party, o # r
               PROVE  /\ Len(log[o][r]) = SentTo(o, r)'
                      /\ rd'[o][r] = ReadFrom(o, r)'
                      /\ rd'[o][r] <= Len(log[r][o])
    BY <1>1 DEF CountsOK
  <2>1. /\ Len(log[o][r]) = SentTo(o, r)
        /\ rd[o][r] = ReadFrom(o, r)
        /\ rd[o][r] <= Len(log[r][o])
    BY DEF CountsOK
  <2>2. CASE o = p
    <3>1. SentTo(o, r)' = SentTo(o, r)
      BY <2>2, <1>1 DEF SentTo
    <3>2. ReadFrom(o, r) = Reached(p, r) /\ ReadFrom(o, r)' = Reached(p, r)'
      BY <2>2, <1>1 DEF ReadFrom
    <3>3. r \in Party \ {p}
      BY <2>2
    <3>4. CASE r = q
      BY <3>1, <3>2, <3>3, <3>4, <2>1, <2>2, <1>2, <1>8, <1>5
    <3>5. CASE r # q
      BY <3>1, <3>2, <3>3, <3>5, <2>1, <2>2, <1>2, <1>8
    <3> QED BY <3>4, <3>5
  <2>3. CASE o # p
    <3>1. SentTo(o, r)' = SentTo(o, r) /\ ReadFrom(o, r)' = ReadFrom(o, r)
      BY <2>3, <1>1, <1>2 DEF SentTo, ReadFrom
    <3> QED BY <3>1, <2>1, <2>3, <1>8
  <2> QED BY <2>2, <2>3
<1>13. TagsOK'
  BY <1>1 DEF TagsOK
<1>14. GotOK'
  <2> SUFFICES ASSUME NEW o \in Party, NEW r \in Party, o # r,
                      NEW s \in 1 .. rd'[o][r]
               PROVE  got'[o][r][s] = log[r][o][s].val
    <3>1. log' = log
      BY <1>1
    <3> QED BY <3>1 DEF GotOK
  <2>1. CASE o = p /\ r = q
    <3>1. CASE s = slot[p]
      BY <2>1, <3>1, <1>9
    <3>2. CASE s # slot[p]
      <4>1. s \in 1 .. slot[p] /\ slot[p] \in 1 .. T + 4 /\ rd[o][r] = slot[p] - 1
        BY <2>1, <1>8, <1>3, <1>4
      <4>2. s \in 1 .. rd[o][r] /\ s \in Slot
        BY <4>1, <3>2, SizeAssumption
      <4> QED BY <4>2, <2>1, <3>2, <1>9 DEF GotOK
    <3> QED BY <3>1, <3>2
  <2>2. CASE o # p \/ r # q
    <3>1. rd'[o][r] = rd[o][r]
      BY <2>2, <1>8
    <3>2. got'[o][r] = got[o][r]
      BY <2>2, <1>9
    <3>3. s \in 1 .. rd[o][r]
      BY <3>1
    <3>4. got[o][r][s] = log[r][o][s].val
      BY <3>3 DEF GotOK
    <3> QED BY <3>2, <3>4
  <2> QED BY <2>1, <2>2
<1>15. AcceptedOK'
  <2> SUFFICES ASSUME NEW o \in Party, NEW r \in Party, o # r,
                      mode'[o] = "done" \/ (mode'[o] = "check" /\ r < peer'[o])
               PROVE  Accepts(o, r)'
    BY DEF AcceptedOK
  <2>1. o # p /\ mode'[o] = mode[o]
    BY <1>1
  <2>2. peer'[o] = peer[o]
    BY <2>1, <1>1 DEF Advance, TypeOK
  <2>3. Accepts(o, r)
    BY <2>1, <2>2 DEF AcceptedOK
  <2>4. got'[o][r] = got[o][r]
    BY <2>1, <1>9
  <2> QED BY <2>3, <2>4 DEF Accepts, OpensCommitment, VerifyShare, AuxIsOpened, AuxReceived
<1> QED BY <1>2, <1>11, <1>12, <1>13, <1>14, <1>15

(* and the end of a round of receives.                                      *)
LEMMA ReceivedInv ==
  ASSUME IInv, NEW p \in Party, Received(p) PROVE IInv'
<1> DEFINE m == AfterReceiving(round[p])
           r == IF round[p] = 4 THEN 4 ELSE round[p] + 1
<1> USE DEF IInv
<1>1. /\ mode[p] = "recv" /\ Enter(p, m, r) /\ round[p] \in Round
      /\ UNCHANGED <<poly, log, rd, got, sk, vk, faults>>
  BY DEF Received, Enter, TypeOK
<1>2. /\ m \in {"send", "check"} /\ r \in Round
      /\ m = "check" => r = 4
      /\ m = "send" => FirstSlot(r) - 1 = LastSlot(round[p])
      /\ m = "check" => LastSlot(r) = LastSlot(round[p])
  BY <1>1, SlotArith DEF AfterReceiving, Round
<1> HIDE DEF m, r
<1>3. /\ mode' \in [Party -> {"send", "recv", "check", "done", "threw"}]
      /\ round' \in [Party -> Round]
      /\ peer' \in [Party -> 0 .. N] /\ slot' \in [Party -> Slot]
      /\ \A q \in Party : peer'[q] # q
      /\ CursorOK'
      /\ mode'[p] = m /\ round'[p] = r
      /\ \A q \in Party : Reached(p, q) = LastSlot(round[p])
      /\ \A q \in Party \ {p} : Reached(p, q)' = FirstSlot(r) - 1
      /\ \A o \in Party \ {p} :
           /\ mode'[o] = mode[o] /\ round'[o] = round[o] /\ peer'[o] = peer[o]
           /\ \A q \in Party : Reached(o, q)' = Reached(o, q)
  BY <1>1, <1>2, EnterCursor
<1>4. TypeOK'
  BY <1>1, <1>3 DEF TypeOK
<1>5. CountsOK'
  <2> SUFFICES ASSUME NEW o \in Party, NEW q \in Party, o # q
               PROVE  SentTo(o, q)' = SentTo(o, q) /\ ReadFrom(o, q)' = ReadFrom(o, q)
    BY <1>1 DEF CountsOK
  <2>1. CASE o = p
    BY <2>1, <1>1, <1>2, <1>3 DEF SentTo, ReadFrom
  <2>2. CASE o # p
    BY <2>2, <1>3 DEF SentTo, ReadFrom
  <2> QED BY <2>1, <2>2
<1>6. TagsOK' /\ GotOK'
  BY <1>1 DEF TagsOK, GotOK
<1>7. AcceptedOK'
  <2>1. \A o, q \in Party : Accepts(o, q)' = Accepts(o, q)
    BY <1>1 DEF Accepts, OpensCommitment, VerifyShare, AuxIsOpened, AuxReceived
  <2>2. \A q \in Party : q < peer'[p] => q = p
    BY <1>1, PeerArith DEF Enter, TypeOK
  <2> QED BY <2>1, <2>2, <1>2, <1>3 DEF AcceptedOK
<1> QED BY <1>3, <1>4, <1>5, <1>6, <1>7

(* A party that checks has all frames of all peers.                         *)
LEMMA CheckedGot ==
  ASSUME IInv, NEW p \in Party, NEW q \in Party, p # q,
         mode[p] \notin {"send", "recv"}
  PROVE  /\ rd[p][q] = T + 4
         /\ Len(log[q][p]) = T + 4
         /\ \A s \in Slot : got[p][q][s] \in Fr /\ got[p][q][s] = log[q][p][s].val
<1> USE DEF IInv
<1>1. rd[p][q] = T + 4
  <2>1. mode[p] \in {"check", "done", "threw"} /\ round[p] = 4
    BY DEF CursorOK, TypeOK
  <2>2. LastSlot(4) = T + 4
    BY DEF LastSlot
  <2> QED BY <2>1, <2>2 DEF CountsOK, ReadFrom
<1>2. Len(log[q][p]) = T + 4
  <2>1. /\ rd[p][q] <= Len(log[q][p]) /\ Len(log[q][p]) = SentTo(q, p)
    BY DEF CountsOK
  <2>2. SentTo(q, p) <= T + 4
    <3>1. /\ round[q] \in Round /\ slot[q] \in Slot /\ peer[q] \in 0 .. N
      BY Types
    <3> QED BY <3>1, SlotArith, SizeAssumption DEF SentTo, Reached
  <2>3. Len(log[q][p]) \in Nat
    BY Types
  <2> QED BY <1>1, <2>1, <2>2, <2>3, SizeAssumption
<1>3. ASSUME NEW s \in Slot
      PROVE  got[p][q][s] \in Fr /\ got[p][q][s] = log[q][p][s].val
  <2>1. got[p][q][s] = log[q][p][s].val
    BY <1>1 DEF GotOK
  <2>2. log[q][p] \in Seq(Frame)
    BY Types
  <2>3. log[q][p][s] \in Frame
    BY <2>2, <1>2
  <2> QED BY <2>1, <2>3 DEF Frame
<1> QED BY <1>1, <1>2, <1>3

(***************************************************************************)
(* Steps of the checking loop leave everything but mode, peer, sk and vk   *)
(* alone, so only TypeOK, CursorOK and AcceptedOK are at stake.            *)
(***************************************************************************)
LEMMA CheckFrame ==
  ASSUME IInv, NEW p \in Party, mode[p] = "check",
         NEW m \in {"check", "done", "threw"}, mode' = [mode EXCEPT ![p] = m],
         \A o \in Party \ {p} : peer'[o] = peer[o],
         UNCHANGED <<round, slot, log, rd, got>>
  PROVE  /\ CountsOK' /\ TagsOK' /\ GotOK'
         /\ mode'[p] = m /\ \A o \in Party \ {p} : mode'[o] = mode[o]
         /\ mode' \in [Party -> {"send", "recv", "check", "done", "threw"}]
<1>1. /\ mode'[p] = m /\ \A o \in Party \ {p} : mode'[o] = mode[o]
      /\ mode' \in [Party -> {"send", "recv", "check", "done", "threw"}]
  BY DEF IInv, TypeOK
<1>2. CountsOK'
  <2> SUFFICES ASSUME NEW o \in Party, NEW q \in Party, o # q
               PROVE  SentTo(o, q)' = SentTo(o, q) /\ ReadFrom(o, q)' = ReadFrom(o, q)
    BY DEF CountsOK, IInv
  <2>1. CASE o = p
    BY <2>1, <1>1 DEF SentTo, ReadFrom
  <2>2. CASE o # p
    BY <2>2, <1>1 DEF SentTo, ReadFrom, Reached
  <2> QED BY <2>1, <2>2
<1>3. TagsOK' /\ GotOK'
  BY DEF IInv, TagsOK, GotOK
<1> QED BY <1>1, <1>2, <1>3

(* A dealer accepted,                                                       *)
LEMMA AcceptInv ==
  ASSUME IInv, NEW p \in Party, Accept(p) PROVE IInv'
<1> DEFINE q == peer[p]
<1>1. /\ mode[p] = "check" /\ q < N /\ Accepts(p, q)
      /\ sk' = [sk EXCEPT ![p] = Plus(@, got[p][q][ShareSlot])]
      /\ vk' = [vk EXCEPT ![p] = Plus(@, got[p][q][AuxSlot(0)])]
      /\ peer' = [peer EXCEPT ![p] = NextPeer(p, q)]
      /\ UNCHANGED <<mode, round, slot, poly, log, rd, got, faults>>
  BY DEF Accept
<1>2. q \in Party /\ q # p
  BY <1>1, SizeAssumption DEF IInv, TypeOK
<1>3. got[p][q][ShareSlot] \in Fr /\ got[p][q][AuxSlot(0)] \in Fr
  <2>1. ShareSlot \in Slot /\ AuxSlot(0) \in Slot
    BY SizeAssumption DEF ShareSlot, AuxSlot
  <2> QED BY <1>1, <1>2, <2>1, CheckedGot
<1>4. sk' \in [Party -> Fr] /\ vk' \in [Party -> Fr]
  BY <1>1, <1>3, FieldAssumption DEF IInv, TypeOK
<1>5. /\ NextPeer(p, q) \in 0 .. N /\ NextPeer(p, q) # p
      /\ \A r \in Party : r # p => (r < NextPeer(p, q) <=> r <= q)
  BY <1>2, PeerArith
<1>6. /\ peer' \in [Party -> 0 .. N] /\ \A r \in Party : peer'[r] # r
      /\ peer'[p] = NextPeer(p, q) /\ \A o \in Party \ {p} : peer'[o] = peer[o]
  BY <1>1, <1>5 DEF IInv, TypeOK
<1>7. TypeOK'
  BY <1>1, <1>4, <1>6 DEF IInv, TypeOK
<1>8. CursorOK'
  <2>1. round[p] = 4 /\ slot[p] = FirstSlot(round[p])
    BY <1>1 DEF IInv, CursorOK
  <2> QED BY <2>1, <1>1, <1>6 DEF IInv, CursorOK
<1>9. CountsOK' /\ TagsOK' /\ GotOK'
  <2>1. mode' = [mode EXCEPT ![p] = "check"]
    BY <1>1 DEF IInv, TypeOK
  <2> QED BY <2>1, <1>1, <1>6, CheckFrame
<1>10. AcceptedOK'
  <2>1. \A o, r \in Party : Accepts(o, r)' = Accepts(o, r)
    BY <1>1 DEF Accepts, OpensCommitment, VerifyShare, AuxIsOpened, AuxReceived
  <2>2. ASSUME NEW r \in Party, r # p, r < peer'[p]
        PROVE  Accepts(p, r)
    <3>1. r < q \/ r = q
      BY <2>2, <1>5, <1>6, <1>2, SizeAssumption
    <3> QED BY <3>1, <1>1, <2>2 DEF IInv, AcceptedOK
  <2> QED BY <2>1, <2>2, <1>1, <1>6 DEF IInv, AcceptedOK
<1> QED BY <1>7, <1>8, <1>9, <1>10 DEF IInv

(* a throw or a return,                                                     *)
LEMMA LeaveInv ==
  ASSUME IInv, NEW p \in Party, Throw(p) \/ Return(p) PROVE IInv'
<1>1. PICK m \in {"done", "threw"} :
        /\ mode[p] = "check" /\ mode' = [mode EXCEPT ![p] = m]
        /\ m = "done" => peer[p] = N
        /\ UNCHANGED <<round, peer, slot, poly, log, rd, got, sk, vk, faults>>
  BY DEF Throw, Return
<1>2. /\ CountsOK' /\ TagsOK' /\ GotOK'
      /\ mode'[p] = m /\ \A o \in Party \ {p} : mode'[o] = mode[o]
      /\ mode' \in [Party -> {"send", "recv", "check", "done", "threw"}]
  BY <1>1, CheckFrame
<1>3. TypeOK'
  BY <1>1, <1>2 DEF IInv, TypeOK
<1>4. CursorOK'
  BY <1>1, <1>2 DEF IInv, CursorOK
<1>5. AcceptedOK'
  <2>1. \A o, r \in Party : Accepts(o, r)' = Accepts(o, r)
    BY <1>1 DEF Accepts, OpensCommitment, VerifyShare, AuxIsOpened, AuxReceived
  <2>2. m = "done" => \A r \in Party : r < peer[p]
    BY <1>1, SizeAssumption
  <2> QED BY <2>1, <2>2, <1>1, <1>2 DEF IInv, AcceptedOK
<1> QED BY <1>2, <1>3, <1>4, <1>5 DEF IInv

(* and so any step keep the invariant.                                      *)
LEMMA NextInv == IInv /\ [Next]_vars => IInv'
<1> SUFFICES ASSUME IInv, [Next]_vars PROVE IInv'
  OBVIOUS
<1>1. ASSUME NEW p \in Party, Step(p) PROVE IInv'
  BY <1>1, SendInv, SentInv, ReceiveInv, ReceivedInv, AcceptInv, LeaveInv DEF Step
<1>2. CASE UNCHANGED vars
  <2> USE <1>2 DEF vars
  <2>1. TypeOK'
    BY DEF IInv, TypeOK
  <2>2. CursorOK' /\ TagsOK' /\ GotOK'
    BY DEF IInv, CursorOK, TagsOK, GotOK
  <2>3. CountsOK'
    BY DEF IInv, CountsOK, SentTo, ReadFrom, Reached
  <2>4. AcceptedOK'
    BY DEF IInv, AcceptedOK, Accepts, OpensCommitment, VerifyShare, AuxIsOpened,
       AuxReceived
  <2> QED BY <2>1, <2>2, <2>3, <2>4 DEF IInv
<1> QED BY <1>1, <1>2 DEF Next, AllEnded

(* The invariant holds of every behaviour of dstb_keygen.                   *)
THEOREM Invariance == Spec => []IInv
BY InitInv, NextInv, PTL DEF Spec

(* Every variable of dstb_keygen keeps its type, and no party reads or      *)
(* writes a stream to itself.                                               *)
THEOREM TypeCorrect == Spec => []TypeOK
<1>1. IInv => TypeOK
  BY DEF IInv
<1> QED BY <1>1, Invariance, PTL

(* A party always parses a frame as what its sender sent it as.             *)
THEOREM FramesAlwaysMatch == Spec => []FramesMatch
<1>1. ASSUME IInv PROVE FramesMatch
  <2> SUFFICES ASSUME NEW p \in Party, mode[p] = "recv", peer[p] < N,
                      rd[p][peer[p]] < Len(log[peer[p]][p])
               PROVE  log[peer[p]][p][rd[p][peer[p]] + 1].slot = slot[p]
    BY DEF FramesMatch
  <2> DEFINE q == peer[p]
  <2>1. q \in Party /\ q # p /\ slot[p] \in Slot
    BY <1>1, SizeAssumption DEF IInv, TypeOK
  <2>2. Reached(p, q) = slot[p] - 1
    BY <2>1, SizeAssumption DEF Reached
  <2>3. rd[p][q] = slot[p] - 1
    BY <1>1, <2>1, <2>2 DEF IInv, CountsOK, ReadFrom
  <2>4. rd[p][q] + 1 = slot[p] /\ slot[p] \in 1 .. Len(log[q][p])
    <3>1. log[q][p] \in Seq(Frame)
      BY <1>1, <2>1, Types DEF IInv
    <3> QED BY <2>1, <2>3, <3>1, SizeAssumption
  <2> QED BY <1>1, <2>1, <2>4 DEF IInv, TagsOK
<1> QED BY <1>1, Invariance, PTL

(* A party that returned or threw has received every frame sent to it, and  *)
(* no peer has another one to send.                                         *)
THEOREM StreamsAlwaysDrained == Spec => []StreamsDrained
<1>1. ASSUME IInv PROVE StreamsDrained
  BY <1>1, CheckedGot DEF StreamsDrained, Ended
<1> QED BY <1>1, Invariance, PTL

(* No opening is sent while a commitment its sender should hold is missing. *)
THEOREM CommitmentsFirst == Spec => []CommitBeforeOpen
<1>1. ASSUME IInv PROVE CommitBeforeOpen
  <2> USE <1>1 DEF IInv
  <2> SUFFICES ASSUME NEW p \in Party, NEW q \in Party, p # q,
                      NEW i \in 1 .. Len(log[p][q]), log[p][q][i].slot = OpenSlot,
                      NEW d \in Party, d # p
               PROVE  got[p][d][CommSlot] # None /\ log[d][p] # <<>>
    BY DEF CommitBeforeOpen
  <2>1. Len(log[p][q]) >= 2
    <3>1. 1 .. Len(log[p][q]) # {} /\ i = 2
      BY DEF TagsOK, OpenSlot
    <3> QED BY <3>1, Types
  <2>2. /\ round[p] # 1 /\ round[p] \in Round
        /\ Len(log[p][q]) = SentTo(p, q)
    <3>1. /\ Len(log[p][q]) = SentTo(p, q) /\ round[p] \in Round
          /\ slot[p] \in FirstSlot(round[p]) .. LastSlot(round[p])
      BY Types DEF CountsOK, CursorOK
    <3>2. round[p] = 1 => SentTo(p, q) <= 1
      BY <3>1 DEF SentTo, Reached, FirstSlot, LastSlot
    <3> QED BY <2>1, <3>1, <3>2
  <2>3. rd[p][d] >= 1
    <3>1. /\ rd[p][d] = ReadFrom(p, d)
          /\ slot[p] \in FirstSlot(round[p]) .. LastSlot(round[p])
      BY DEF CountsOK, CursorOK
    <3>2. round[p] \in 2 .. 4 /\ T + 4 >= 1
      BY <2>2, SizeAssumption DEF Round
    <3>3. FirstSlot(round[p]) - 1 >= 1 /\ LastSlot(round[p]) >= 1
      BY <3>2, SizeAssumption DEF FirstSlot, LastSlot
    <3>4. slot[p] - 1 >= 1
      BY <3>1, <3>2, <3>3, SizeAssumption DEF FirstSlot, LastSlot
    <3>5. Reached(p, d) >= 1
      BY ONLY <3>3, <3>4 DEF Reached
    <3>6. ReadFrom(p, d) >= 1
      BY ONLY <3>3, <3>5 DEF ReadFrom
    <3> QED BY ONLY <3>1, <3>6
  <2>4. Len(log[d][p]) >= 1 /\ log[d][p] \in Seq(Frame) /\ rd[p][d] \in Nat
    BY <2>3, Types DEF CountsOK
  <2>5. log[d][p] # <<>>
    BY <2>4
  <2>6. got[p][d][CommSlot] = log[d][p][1].val
    BY <2>3, <2>4 DEF GotOK, CommSlot
  <2>7. log[d][p][1] \in Frame
    BY <2>4
  <2> QED BY <2>5, <2>6, <2>7, FieldAssumption DEF Frame
<1> QED BY <1>1, Invariance, PTL

(* Parties that succeed agree on the contribution of every dealer that      *)
(* committed to one value towards both.                                     *)
THEOREM ContributionsAlwaysAgree == Spec => []ContributionsAgree
<1>1. ASSUME IInv PROVE ContributionsAgree
  <2>1. ASSUME NEW p \in Party, NEW d \in Party, mode[p] = "done"
        PROVE  ContributionOf(p, d) = CommittedTo(p, d)
    BY <1>1, <2>1 DEF IInv, AcceptedOK, Accepts, OpensCommitment, AuxIsOpened,
       ContributionOf, CommittedTo
  <2> QED BY <2>1 DEF ContributionsAgree
<1> QED BY <1>1, Invariance, PTL

-----------------------------------------------------------------------------
(***************************************************************************)
(* The share and the key of a party, at every moment.                      *)
(***************************************************************************)
KeyOf(p) == /\ sk[p] = EvalPoly(SumOfPoints(p, Accepted(p)), p + 1)
            /\ vk[p] = SumOfPoints(p, Accepted(p))[0]

(* In terms of what the party holds of the dealers.                         *)
LEMMA KeyIs ==
  ASSUME NEW p \in Party, NEW D, D = Accepted(p), NEW P, \A d \in D : P[d] = Points(p, d)
  PROVE  KeyOf(p) <=> HasKey(sk[p], vk[p], P, D, p + 1)
<1>1. \A k \in 0 .. T : [d \in D |-> P[d][k]] = [d \in D |-> Points(p, d)[k]]
  OBVIOUS
<1>2. SumOfPoints(p, D) = PolySum(P, D)
  BY <1>1 DEF SumOfPoints, PolySum
<1> QED BY <1>2 DEF KeyOf, HasKey

(* The same after a step.                                                   *)
LEMMA KeyNextIs ==
  ASSUME NEW p \in Party, NEW D, D = Accepted(p)', NEW P, \A d \in D : P[d] = Points(p, d)'
  PROVE  KeyOf(p)' <=> HasKey(sk'[p], vk'[p], P, D, p + 1)
<1>1. \A k \in 0 .. T : [d \in D |-> P[d][k]] = [d \in D |-> Points(p, d)'[k]]
  OBVIOUS
<1>2. SumOfPoints(p, Accepted(p))' = PolySum(P, D)
  BY <1>1 DEF SumOfPoints, PolySum
<1> QED BY <1>2 DEF KeyOf, HasKey

(* A party that takes nothing in keeps both.                                *)
LEMMA KeyStays ==
  ASSUME NEW p \in Party, KeyOf(p), poly' = poly, sk'[p] = sk[p], vk'[p] = vk[p],
         Accepted(p)' = Accepted(p), \A d \in Accepted(p) \ {p} : got'[p][d] = got[p][d]
  PROVE  KeyOf(p)'
<1>1. PICK D : D = Accepted(p)
  OBVIOUS
<1>2. PICK P : P = [d \in D |-> Points(p, d)]
  OBVIOUS
<1>3. \A d \in D : P[d] = Points(p, d)
  BY <1>2
<1>4. \A d \in D : Points(p, d)' = Points(p, d)
  BY <1>1 DEF Points, AuxReceived
<1>5. \A d \in D : P[d] = Points(p, d)'
  BY <1>3, <1>4
<1>6. HasKey(sk[p], vk[p], P, D, p + 1)
  BY <1>1, <1>3, KeyIs
<1>7. D = Accepted(p)'
  BY <1>1
<1>8. HasKey(sk'[p], vk'[p], P, D, p + 1)
  BY <1>6
<1> QED BY <1>5, <1>7, <1>8, KeyNextIs

(* Without anything accepted they are the party's own.                      *)
LEMMA OwnPoints ==
  ASSUME TypeOK, NEW p \in Party
  PROVE  poly[p] \in [0 .. T -> Scalar] /\ Points(p, p) = poly[p]
<1>1. poly \in [Party -> Coeff]
  BY DEF TypeOK
<1>2. poly[p] \in Coeff
  BY <1>1
<1> QED BY <1>2, ArithmeticAssumption DEF Coeff, Points

(* At the start they are its own.                                           *)
LEMMA KeyInit == Init => KeyOK
<1> SUFFICES ASSUME Init, NEW p \in Party PROVE KeyOf(p)
  BY DEF KeyOK, KeyOf
<1>1. TypeOK
  BY InitInv DEF IInv
<1>2. poly[p] \in [0 .. T -> Scalar] /\ Points(p, p) = poly[p] /\ poly[p] \in Coeff
  BY <1>1, OwnPoints DEF TypeOK
<1>3. Accepted(p) = {p}
  BY DEF Init, Accepted
<1>4. PICK P : P = [d \in {p} |-> Points(p, d)]
  OBVIOUS
<1>5. PICK x : x = p + 1
  OBVIOUS
<1>6. x \in 1 .. N
  BY <1>5, SizeAssumption
<1>7. sk[p] = EvalPoly(P[p], x) /\ vk[p] = P[p][0]
  <2>1. sk[p] = Eval(poly[p], x) /\ vk[p] = poly[p][0]
    BY <1>5 DEF Init
  <2>2. Eval(poly[p], x) = EvalPoly(poly[p], x)
    BY <1>2, <1>6, ArithmeticAssumption
  <2> QED BY <1>2, <1>4, <2>1, <2>2
<1>8. P[p] \in [0 .. T -> Scalar]
  BY <1>2, <1>4
<1>9. HasKey(sk[p], vk[p], P, {p}, x)
  BY <1>7, <1>8, KeyFirst
<1>10. \A d \in {p} : P[d] = Points(p, d)
  BY <1>4
<1> QED BY <1>3, <1>5, <1>9, <1>10, KeyIs

(* What a step of one party leaves alone at the others.                     *)
LEMMA OthersStay ==
  ASSUME TypeOK, NEW p \in Party, Step(p), NEW o \in Party, o # p
  PROVE  /\ poly' = poly /\ mode'[o] = mode[o] /\ peer'[o] = peer[o]
         /\ sk'[o] = sk[o] /\ vk'[o] = vk[o] /\ got'[o] = got[o]
<1> USE DEF TypeOK, Step
<1>1. poly' = poly
  BY DEF Send, Sent, Receive, Received, Accept, Throw, Return, Enter
<1>2. mode'[o] = mode[o]
  BY DEF Send, Sent, Receive, Received, Accept, Throw, Return, Enter
<1>3. peer'[o] = peer[o]
  BY DEF Send, Sent, Receive, Received, Accept, Throw, Return, Enter, Advance
<1>4. sk'[o] = sk[o] /\ vk'[o] = vk[o]
  BY DEF Send, Sent, Receive, Received, Accept, Throw, Return, Enter
<1>5. got'[o] = got[o]
  <2>1. CASE Receive(p)
    <3>1. PICK q, s, v : got' = [got EXCEPT ![p][q][s] = v]
      BY <2>1 DEF Receive
    <3> QED BY <3>1
  <2>2. CASE got' = got
    BY <2>2
  <2> QED BY <2>1, <2>2 DEF Send, Sent, Received, Accept, Throw, Return, Enter
<1> QED BY <1>1, <1>2, <1>3, <1>4, <1>5

(* Accepting a dealer adds its points.                                      *)
LEMMA AcceptKey ==
  ASSUME IInv, NEW p \in Party, KeyOf(p), Accept(p) PROVE KeyOf(p)'
<1>1. PICK q : q = peer[p]
  OBVIOUS
<1>2. /\ mode[p] = "check" /\ q < N /\ Accepts(p, q)
      /\ sk' = [sk EXCEPT ![p] = Plus(@, got[p][q][ShareSlot])]
      /\ vk' = [vk EXCEPT ![p] = Plus(@, got[p][q][AuxSlot(0)])]
      /\ peer' = [peer EXCEPT ![p] = NextPeer(p, q)]
      /\ UNCHANGED <<mode, round, slot, poly, log, rd, got, faults>>
  BY <1>1 DEF Accept
<1>3. q \in Party /\ q # p
  BY <1>1, <1>2, SizeAssumption DEF IInv, TypeOK
<1>4. PICK D : D = Accepted(p)
  OBVIOUS
<1>5. PICK E : E = Accepted(p)'
  OBVIOUS
<1>6. peer'[p] = NextPeer(p, q)
  BY <1>2 DEF IInv, TypeOK
<1>7. D = {p} \cup {r \in Party : r < q} /\ E = {p} \cup {r \in Party : r < NextPeer(p, q)}
  BY <1>1, <1>2, <1>4, <1>5, <1>6 DEF Accepted
<1>8. E = D \cup {q} /\ q \notin D /\ D \subseteq Party /\ E \subseteq Party
  <2>1. \A r \in Party : r # p => (r < NextPeer(p, q) <=> r <= q)
    BY <1>3, PeerArith
  <2>2. \A r \in Party : r <= q <=> r < q \/ r = q
    BY <1>3, SizeAssumption
  <2>3. \A r : r \in E <=> r \in D \cup {q}
    BY <1>3, <1>7, <2>1, <2>2
  <2>4. q \notin D
    BY <1>3, <1>7, SizeAssumption
  <2> QED BY <1>3, <1>7, <2>3, <2>4
<1>9. PICK P : P = [d \in E |-> Points(p, d)]
  OBVIOUS
<1>10. \A d \in E : P[d] = Points(p, d) /\ Points(p, d)' = Points(p, d)
  BY <1>2, <1>9 DEF Points, AuxReceived
<1>11. ASSUME NEW d \in Party PROVE Points(p, d) \in [0 .. T -> Scalar]
  <2>1. CASE d = p
    BY <2>1, OwnPoints DEF IInv
  <2>2. CASE d # p
    <3>1. \A s \in Slot : got[p][d][s] \in Fr
      BY <1>2, <2>2, CheckedGot
    <3>2. \A k \in 0 .. T : AuxSlot(k) \in Slot
      BY SizeAssumption DEF AuxSlot
    <3>3. AuxReceived(p, d) \in [0 .. T -> Scalar]
      BY <3>1, <3>2, ArithmeticAssumption DEF AuxReceived
    <3> QED BY <2>2, <3>3 DEF Points
  <2> QED BY <2>1, <2>2
<1>12. Polynomials(P, E)
  BY <1>8, <1>10, <1>11 DEF Polynomials
<1>13. PICK x : x = p + 1
  OBVIOUS
<1>14. x \in 1 .. N /\ x \in Scalar
  BY <1>13, SizeAssumption, PointsAssumption, PrimeAssumption DEF Scalar
<1>15. HasKey(sk[p], vk[p], P, D, x)
  <2>1. \A d \in D : P[d] = Points(p, d)
    BY <1>8, <1>10
  <2> QED BY <1>4, <1>13, <2>1, KeyIs
<1>16. IsFiniteSet(D)
  <2>1. IsFiniteSet(Party)
    BY SizeAssumption, FS_Interval
  <2> QED BY <1>8, <2>1, FS_Subset
<1>17. PICK s \in Fr : s = sk[p]
  BY DEF IInv, TypeOK
<1>18. PICK v \in Fr : v = vk[p]
  BY DEF IInv, TypeOK
<1>19. HasKey(FrAdd(s, EvalPoly(P[q], x)), FrAdd(v, P[q][0]), P, E, x)
  BY <1>8, <1>12, <1>14, <1>15, <1>16, <1>17, <1>18, KeyMore
<1>20. P[q] = AuxReceived(p, q) /\ P[q] \in Coeff
  BY <1>3, <1>8, <1>10, <1>11, ArithmeticAssumption DEF Points, Coeff
<1>21. sk'[p] = FrAdd(s, EvalPoly(P[q], x))
  <2>1. got[p][q][ShareSlot] = Eval(P[q], x)
    BY <1>2, <1>13, <1>20 DEF Accepts, VerifyShare
  <2>2. Eval(P[q], x) = EvalPoly(P[q], x)
    BY <1>14, <1>20, ArithmeticAssumption
  <2>3. sk'[p] = Plus(s, got[p][q][ShareSlot])
    BY <1>2, <1>17 DEF IInv, TypeOK
  <2>4. got[p][q][ShareSlot] \in Fr
    <3>1. ShareSlot \in Slot
      BY SizeAssumption DEF ShareSlot
    <3> QED BY <1>2, <1>3, <3>1, CheckedGot
  <2> QED BY <2>1, <2>2, <2>3, <2>4, ArithmeticAssumption
<1>22. vk'[p] = FrAdd(v, P[q][0])
  <2>1. 0 \in 0 .. T
    BY SizeAssumption
  <2>2. got[p][q][AuxSlot(0)] = P[q][0]
    BY <1>20, <2>1 DEF AuxReceived
  <2>3. vk'[p] = Plus(v, got[p][q][AuxSlot(0)])
    BY <1>2, <1>18 DEF IInv, TypeOK
  <2>4. P[q][0] \in Fr
    BY <1>20, <2>1 DEF Coeff
  <2> QED BY <2>2, <2>3, <2>4, ArithmeticAssumption
<1>23. HasKey(sk'[p], vk'[p], P, E, x)
  BY <1>19, <1>21, <1>22
<1>24. \A d \in E : P[d] = Points(p, d)'
  BY <1>10
<1> QED BY <1>5, <1>13, <1>23, <1>24, KeyNextIs

(* Every step keeps the halves of a key together,                           *)
LEMMA KeyStep ==
  ASSUME IInv, KeyOK, NEW p \in Party, Step(p) PROVE KeyOK'
<1>1. ASSUME NEW o \in Party PROVE KeyOf(o)
  BY DEF KeyOK, KeyOf
<1>2. ASSUME NEW o \in Party, o # p PROVE KeyOf(o)'
  <2>1. /\ poly' = poly /\ mode'[o] = mode[o] /\ peer'[o] = peer[o]
        /\ sk'[o] = sk[o] /\ vk'[o] = vk[o] /\ got'[o] = got[o]
    BY <1>2, OthersStay DEF IInv
  <2>2. Accepted(o)' = Accepted(o)
    BY <2>1 DEF Accepted
  <2>3. \A d \in Accepted(o) \ {o} : got'[o][d] = got[o][d]
    BY <2>1
  <2> QED BY <1>1, <2>1, <2>2, <2>3, KeyStays
<1>3. KeyOf(p)'
  <2>0. KeyOf(p) /\ mode \in [Party -> {"send", "recv", "check", "done", "threw"}]
    BY <1>1 DEF IInv, TypeOK
  <2>1. CASE Accept(p)
    BY <2>0, <2>1, AcceptKey
  <2>2. CASE Throw(p)
    <3>1. /\ mode[p] = "check" /\ mode' = [mode EXCEPT ![p] = "threw"]
          /\ UNCHANGED <<poly, peer, got, sk, vk>>
      BY <2>2 DEF Throw
    <3>2. Accepted(p)' = Accepted(p)
      BY <2>0, <3>1 DEF Accepted
    <3> QED BY <2>0, <3>1, <3>2, KeyStays
  <2>3. CASE Return(p)
    <3>1. /\ mode[p] = "check" /\ peer[p] = N /\ mode' = [mode EXCEPT ![p] = "done"]
          /\ UNCHANGED <<poly, peer, got, sk, vk>>
      BY <2>3 DEF Return
    <3>2. \A q \in Party : q < N
      BY SizeAssumption
    <3>3. mode'[p] = "done"
      BY <2>0, <3>1
    <3>4. Accepted(p)' = {p} \cup Party /\ Accepted(p) = {p} \cup Party
      BY <3>1, <3>2, <3>3 DEF Accepted
    <3> QED BY <2>0, <3>1, <3>4, KeyStays
  <2>4. CASE Send(p) \/ Sent(p) \/ Receive(p) \/ Received(p)
    <3>1. mode[p] \in {"send", "recv"} /\ UNCHANGED <<poly, sk, vk>>
      BY <2>4 DEF Send, Sent, Receive, Received, Enter
    <3>2. Accepted(p) = {p}
      BY <3>1 DEF Accepted
    <3>3. mode'[p] \in {"send", "recv"} \/ (mode'[p] = "check" /\ peer'[p] = FirstPeer(p))
      <4>1. CASE Received(p)
        BY <2>0, <4>1 DEF Received, Enter, AfterReceiving, IInv, TypeOK
      <4>2. CASE Send(p) \/ Sent(p) \/ Receive(p)
        BY <2>0, <4>2 DEF Send, Sent, Receive, Enter
      <4> QED BY <2>4, <4>1, <4>2
    <3>4. \A q \in Party : q < FirstPeer(p) => q = p
      BY PeerArith
    <3>5. Accepted(p)' = {p}
      BY <3>3, <3>4 DEF Accepted
    <3>6. \A d \in Accepted(p) \ {p} : got'[p][d] = got[p][d]
      BY <3>2
    <3>7. poly' = poly /\ sk'[p] = sk[p] /\ vk'[p] = vk[p]
      BY <3>1
    <3> QED BY <2>0, <3>2, <3>5, <3>6, <3>7, KeyStays
  <2> QED BY <2>1, <2>2, <2>3, <2>4 DEF Step
<1> QED BY <1>2, <1>3 DEF KeyOK, KeyOf

(* a stuttering one too.                                                    *)
LEMMA KeyNext == IInv /\ KeyOK /\ [Next]_vars => KeyOK'
<1>1. ASSUME KeyOK, UNCHANGED vars PROVE KeyOK'
  <2>1. UNCHANGED <<poly, got, mode, peer, sk, vk>>
    BY <1>1 DEF vars
  <2>2. \A p \in Party : Accepted(p)' = Accepted(p)
    BY <2>1 DEF Accepted
  <2>3. ASSUME NEW p \in Party PROVE KeyOf(p)'
    <3>1. KeyOf(p)
      BY <1>1 DEF KeyOK, KeyOf
    <3>2. /\ poly' = poly /\ sk'[p] = sk[p] /\ vk'[p] = vk[p]
          /\ \A d \in Accepted(p) \ {p} : got'[p][d] = got[p][d]
      BY <2>1
    <3> QED BY <2>2, <3>1, <3>2, KeyStays
  <2> QED BY <2>3 DEF KeyOK, KeyOf
<1> QED BY <1>1, KeyStep DEF Next, AllEnded

(* At every moment the share and the public key of a party are made of the  *)
(* same polynomials: its own, and those of the dealers it has accepted.     *)
THEOREM KeyInvariance == Spec => []KeyOK
BY KeyInit, KeyNext, Invariance, PTL DEF Spec

(* Whatever wrong frames arrive, a party that returns from dstb_keygen      *)
(* holds the value at its point of the polynomial whose constant is vk.     *)
THEOREM SharesAlwaysMatchKey == Spec => []ShareMatchesKey
<1>1. ASSUME KeyOK PROVE ShareMatchesKey
  <2>1. ASSUME NEW p \in Party, mode[p] = "done"
        PROVE  sk[p] = EvalPoly(SumOfPoints(p, Party), p + 1) /\ vk[p] = SumOfPoints(p, Party)[0]
    <3>1. Accepted(p) = Party
      BY <2>1 DEF Accepted
    <3> QED BY <1>1, <3>1 DEF KeyOK
  <2> QED BY <2>1 DEF ShareMatchesKey
<1> QED BY <1>1, KeyInvariance, PTL

-----------------------------------------------------------------------------
(***************************************************************************)
(* Without a fault, all parties hold the polynomials that were dealt.      *)
(***************************************************************************)
LEMMA HonestStep ==
  ASSUME IInv, HonestOK, NEW p \in Party, Step(p) PROVE HonestOK'
<1>1. CASE ~ Send(p)
  <2>1. UNCHANGED <<poly, log, faults>>
    BY <1>1 DEF Step, Sent, Receive, Received, Accept, Throw, Return, Enter
  <2> QED BY <2>1 DEF HonestOK, Dealt
<1>2. CASE Send(p)
  <2> SUFFICES ASSUME faults' = 0, NEW o \in Party, NEW r \in Party, NEW i \in 1 .. Len(log'[o][r])
               PROVE  log'[o][r][i].val = Dealt(o, r, i)'
    BY DEF HonestOK
  <2>1. PICK q : q = peer[p]
    OBVIOUS
  <2>2. q \in Party /\ q # p /\ mode[p] = "send" /\ poly' = poly
    BY <1>2, <2>1, SizeAssumption DEF Send, IInv, TypeOK
  <2>3. faults \in Nat
    BY SizeAssumption DEF IInv, TypeOK
  <2>4. PICK f : f = [slot |-> slot[p], val |-> Dealt(p, q, slot[p])]
    OBVIOUS
  <2>5. /\ faults = 0 /\ log' = [log EXCEPT ![p][q] = Append(@, f)]
    BY <1>2, <2>1, <2>3, <2>4 DEF Send
  <2>6. log \in [Party -> [Party -> Seq(Frame)]]
    BY DEF IInv, TypeOK
  <2>7. log[p][q] \in Seq(Frame) /\ Len(log[p][q]) = slot[p] - 1
    <3>1. Len(log[p][q]) = SentTo(p, q)
      BY <2>2 DEF IInv, CountsOK
    <3>2. SentTo(p, q) = slot[p] - 1
      BY <2>1, <2>2, SizeAssumption DEF SentTo, Reached
    <3> QED BY <2>2, <2>6, <3>1, <3>2
  <2>8. /\ log'[p][q] = Append(log[p][q], f)
        /\ \A a, b \in Party : a # p \/ b # q => log'[a][b] = log[a][b]
    BY <2>2, <2>5, <2>6
  <2>9. Dealt(o, r, i)' = Dealt(o, r, i)
    BY <2>2 DEF Dealt
  <2>10. CASE o # p \/ r # q
    <3>1. log'[o][r] = log[o][r]
      BY <2>8, <2>10
    <3>2. i \in 1 .. Len(log[o][r])
      BY <3>1
    <3>3. log[o][r][i].val = Dealt(o, r, i)
      BY <2>5, <3>2 DEF HonestOK
    <3> QED BY <2>9, <3>1, <3>3
  <2>11. CASE o = p /\ r = q
    <3>0. PICK s : s = log[p][q]
      OBVIOUS
    <3>1. CASE i = Len(s) + 1
      <4>1. Append(s, f)[i] = f
        BY <2>7, <3>0, <3>1
      <4>2. i = slot[p]
        <5>1. slot[p] \in Nat
          BY SizeAssumption DEF IInv, TypeOK
        <5> QED BY <2>7, <3>0, <3>1, <5>1
      <4>3. f.val = Dealt(p, q, slot[p])
        BY <2>4
      <4> QED BY <2>8, <2>9, <2>11, <3>0, <4>1, <4>2, <4>3
    <3>2. CASE i # Len(s) + 1
      <4>1. Len(Append(s, f)) = Len(s) + 1 /\ Len(s) \in Nat
        BY <2>7, <3>0
      <4>2. i \in 1 .. Len(Append(s, f))
        BY <2>8, <2>11, <3>0
      <4>3. i \in 1 .. Len(s)
        BY <3>2, <4>1, <4>2
      <4>4. Append(s, f)[i] = s[i]
        BY <2>7, <3>0, <4>3
      <4>5. s[i].val = Dealt(p, q, i)
        BY <2>2, <2>5, <3>0, <4>3 DEF HonestOK
      <4> QED BY <2>8, <2>9, <2>11, <3>0, <4>4, <4>5
    <3> QED BY <3>1, <3>2
  <2> QED BY <2>10, <2>11
<1> QED BY <1>1, <1>2

(* Any step keeps what was sent as dealt,                                   *)
LEMMA HonestNext == IInv /\ HonestOK /\ [Next]_vars => HonestOK'
<1>1. ASSUME HonestOK, UNCHANGED vars PROVE HonestOK'
  BY <1>1 DEF vars, HonestOK, Dealt
<1> QED BY <1>1, HonestStep DEF Next, AllEnded

(* so that it always is.                                                    *)
LEMMA HonestInvariance == Spec => []HonestOK
<1>1. Init => HonestOK
  BY DEF Init, HonestOK
<1> QED BY <1>1, HonestNext, Invariance, PTL DEF Spec

(* Then every party that returns has the value of one polynomial.           *)
LEMMA HonestKeys ==
  ASSUME IInv, KeyOK, HonestOK, faults = 0, NEW p \in Party, mode[p] = "done"
  PROVE  HasKey(sk[p], vk[p], poly, Party, p + 1)
<1>1. ASSUME NEW d \in Party PROVE Points(p, d) = poly[d]
  <2>1. poly[d] \in [0 .. T -> Scalar] /\ Points(d, d) = poly[d]
    BY OwnPoints DEF IInv
  <2>2. CASE d = p
    BY <2>1, <2>2
  <2>3. CASE d # p
    <3>1. Len(log[d][p]) = T + 4 /\ \A s \in Slot : got[p][d][s] = log[d][p][s].val
      BY <2>3, CheckedGot
    <3>2. ASSUME NEW k \in 0 .. T PROVE got[p][d][AuxSlot(k)] = poly[d][k]
      <4>1. PICK s : s = 4 + k
        OBVIOUS
      <4>2. s \in 1 .. T + 4 /\ s \notin {1, 2, 3} /\ s - 4 = k
        BY <4>1, SizeAssumption
      <4>3. log[d][p][s].val = Dealt(d, p, s)
        BY <3>1, <4>2 DEF HonestOK
      <4>4. Dealt(d, p, s) = poly[d][k]
        BY <4>2 DEF Dealt, CommSlot, OpenSlot, ShareSlot
      <4> QED BY <3>1, <4>1, <4>2, <4>3, <4>4 DEF AuxSlot
    <3>3. AuxReceived(p, d) = [k \in 0 .. T |-> poly[d][k]]
      BY <3>2 DEF AuxReceived
    <3> QED BY <2>1, <2>3, <3>3 DEF Points
  <2> QED BY <2>2, <2>3
<1>2. Accepted(p) = Party
  BY DEF Accepted
<1>3. KeyOf(p)
  BY DEF KeyOK, KeyOf
<1>4. PICK P : P = poly
  OBVIOUS
<1>5. \A d \in Party : P[d] = Points(p, d)
  BY <1>1, <1>4
<1>6. HasKey(sk[p], vk[p], P, Party, p + 1)
  BY <1>2, <1>3, <1>5, KeyIs
<1> QED BY <1>4, <1>6


-----------------------------------------------------------------------------
(***************************************************************************)
(* The key shares of all parties interpolate to the secret of vk.          *)
(***************************************************************************)
LEMMA PointsEnough == T \in Nat /\ Cardinality(Point) > T /\ 0 \in 0 .. T
<1>1. N \in Int /\ T \in Nat /\ T < N /\ N >= 1
  BY SizeAssumption, PointsAssumption
<1>2. Cardinality(1 .. N) = N - 1 + 1
  BY <1>1, FS_Interval
<1> QED BY <1>1, <1>2 DEF Point

(* A sum of polynomials has as many coefficients as they have.              *)
LEMMA PolySumIs ==
  ASSUME NEW D, IsFiniteSet(D), NEW P, Polynomials(P, D)
  PROVE  PolySum(P, D) \in [0 .. T -> Scalar]
<1>1. ASSUME NEW k \in 0 .. T PROVE SumOver([d \in D |-> P[d][k]]) \in Scalar
  <2>1. PICK f : f = [d \in D |-> P[d][k]]
    OBVIOUS
  <2>2. f \in [D -> Scalar]
    BY <2>1 DEF Polynomials
  <2>3. SumOver(f) \in Scalar
    BY <2>2, SumStep
  <2> QED BY <2>1, <2>3
<1> QED BY <1>1 DEF PolySum

(* Everyone's halves of one key, when all hold the same polynomials.        *)
LEMMA JointKeys ==
  ASSUME IInv, KeyOK, HonestOK, faults = 0, \A p \in Party : mode[p] = "done"
  PROVE  \E f \in [Point -> Scalar] :
           /\ \A p \in Party : sk[p] = f[p + 1] /\ vk[p] = Interp(Point, f)
<1>0. IsFiniteSet(Party) /\ N \in Nat /\ Party = 0 .. N - 1
  <2>1. N \in Nat
    BY SizeAssumption
  <2>2. IsFiniteSet(0 .. N - 1)
    BY <2>1, FS_Interval
  <2> QED BY <2>1, <2>2 DEF Party
<1>1. \A p \in Party : HasKey(sk[p], vk[p], poly, Party, p + 1)
  BY HonestKeys
<1>2. PICK P : P = poly
  OBVIOUS
<1>3. Polynomials(P, Party)
  <2>1. \A p \in Party : poly[p] \in [0 .. T -> Scalar]
    BY OwnPoints DEF IInv
  <2> QED BY <1>2, <2>1 DEF Polynomials
<1>4. PICK c \in [0 .. T -> Scalar] : c = PolySum(P, Party)
  BY <1>0, <1>3, PolySumIs
<1>5. \A p \in Party : sk[p] = EvalPoly(c, p + 1) /\ vk[p] = c[0]
  BY <1>1, <1>2, <1>4 DEF HasKey
<1>6. ASSUME NEW i \in Point PROVE EvalPoly(c, i) \in Scalar
  <2>1. i \in Scalar
    BY PointIs
  <2>2. PICK h : Horner(h, T, c, i)
    BY <2>1, PointsEnough, HornerExists
  <2>3. EvalPoly(c, i) = h[0] /\ h[0] \in Scalar
    BY <2>1, <2>2, PointsEnough, EvalIs DEF Horner
  <2> QED BY <2>3
<1>7. PICK f \in [Point -> Scalar] : \A i \in Point : f[i] = EvalPoly(c, i)
  <2>1. [i \in Point |-> EvalPoly(c, i)] \in [Point -> Scalar]
    BY <1>6
  <2> QED BY <2>1
<1>8. Interp(Point, f) = c[0]
  BY <1>7, PointsEnough, InterpPoly
<1>9. \A p \in Party : p + 1 \in Point
  BY <1>0 DEF Point
<1>10. \A p \in Party : sk[p] = f[p + 1] /\ vk[p] = Interp(Point, f)
  BY <1>5, <1>7, <1>8, <1>9
<1> QED BY <1>10

(* What recover_share and dstb_sign make of them.                           *)
LEMMA Recovered ==
  ASSUME NEW f \in [Point -> Scalar], NEW ys, ys = f
  PROVE  RecoverShare(ys) = Interp(Point, f)
BY DEF RecoverShare, Interp, Weighted

(* The exponent of the signature, for a message hashed to h.                *)
LEMMA Signed ==
  ASSUME NEW f \in [Point -> Scalar], \A p \in Party : sk[p] = f[p + 1], NEW h \in Scalar
  PROVE  SignatureExponent(h) = FrMul(h, Interp(Point, f))
<1>0. \A p \in Party : p + 1 \in Point
  BY SizeAssumption DEF Party, Point
<1>1. PICK w \in [Point -> Scalar] : w = Weighted(Point, f)
  BY WeightedIs
<1>2. \A p \in Party : FrMul(sk[p], LagrangeCoeff(1 .. N, p + 1)) = w[p + 1]
  BY <1>0, <1>1 DEF Weighted, Point
<1>3. PICK g \in [Point -> Scalar] : \A i \in Point : g[i] = FrMul(h, w[i])
  <2>1. \A i \in Point : FrMul(h, w[i]) \in Scalar
    BY Ring
  <2>2. [i \in Point |-> FrMul(h, w[i])] \in [Point -> Scalar]
    BY <2>1
  <2> QED BY <2>2
<1>4. PICK u : u = [p \in Party |-> FrMul(h, FrMul(sk[p], LagrangeCoeff(1 .. N, p + 1)))]
  OBVIOUS
<1>5. \A p \in Party : u[p] = g[p + 1]
  BY <1>0, <1>2, <1>3, <1>4
<1>6. u \in [Party -> Scalar]
  <2>1. \A p \in Party : u[p] \in Scalar
    BY <1>0, <1>5
  <2>2. u = [p \in Party |-> u[p]]
    BY <1>4
  <2> QED BY <2>1, <2>2
<1>7. SumOver(u) = SumOver(g)
  BY <1>5, <1>6, SumShifted
<1>8. IsFiniteSet(Point)
  BY PointIs
<1>9. SumOver(g) = FrMul(h, SumOver(w))
  BY <1>3, <1>8, SumScales
<1>10. SignatureExponent(h) = SumOver(u)
  BY <1>4 DEF SignatureExponent
<1> QED BY <1>1, <1>7, <1>9, <1>10 DEF Interp

(* Whatever the dealers dealt, the shares of all parties recover the secret *)
(* of the joint public key, and dstb_sign makes the signature of that key.  *)
THEOREM JointKeyAlwaysSigns == Spec => []JointKeySigns
<1>1. ASSUME IInv, KeyOK, HonestOK PROVE JointKeySigns
  <2> SUFFICES ASSUME \A p \in Party : mode[p] = "done", faults = 0
               PROVE  /\ \A p \in Party : vk[p] = RecoverShare([i \in 1 .. N |-> sk[i - 1]])
                      /\ \A h \in Scalar \ {0} : SignatureExponent(h) = FrMul(h, vk[0])
    BY DEF JointKeySigns
  <2>1. PICK f \in [Point -> Scalar] : \A p \in Party : sk[p] = f[p + 1] /\ vk[p] = Interp(Point, f)
    BY <1>1, JointKeys
  <2>2. PICK ys : ys = [i \in 1 .. N |-> sk[i - 1]]
    OBVIOUS
  <2>3. ASSUME NEW i \in Point PROVE i - 1 \in Party /\ sk[i - 1] = f[i]
    <3>1. PICK p \in Party : p + 1 = i /\ p = i - 1
      BY SizeAssumption DEF Party, Point
    <3> QED BY <2>1, <3>1
  <2>4. ys = f
    BY <2>2, <2>3 DEF Point
  <2>5. \A p \in Party : vk[p] = RecoverShare(ys)
    BY <2>1, <2>4, Recovered
  <2>6. ASSUME NEW h \in Scalar \ {0} PROVE SignatureExponent(h) = FrMul(h, vk[0])
    <3>1. SignatureExponent(h) = FrMul(h, Interp(Point, f))
      BY <2>1, Signed
    <3>2. 0 \in Party
      BY SizeAssumption DEF Party
    <3> QED BY <2>1, <3>1, <3>2
  <2> QED BY <2>2, <2>5, <2>6
<1> QED BY <1>1, Invariance, KeyInvariance, HonestInvariance, PTL
=============================================================================
