------------------------------ MODULE OnlineOp ------------------------------
(***************************************************************************)
(* The bit and field operations of POC/OnlineOp.hpp, on the values the     *)
(* shares stand for.  Additions and products of shares are those of the    *)
(* field of p elements (the protocols that compute them are the subject of *)
(* other modules); what is kept is the arithmetic the code builds on them. *)
(* Vectors are sequences, lowest bit first; index i of the code is i + 1.  *)
(***************************************************************************)
EXTENDS Integers, SequencesExt

Add(p, a, b) == (a + b) % p
Sub(p, a, b) == (a - b) % p
Mul(p, a, b) == (a * b) % p

(* The sum of a vector, as integers and in the field.                       *)
SumOf(v) == LET sum[i \in 0 .. Len(v)] == IF i = 0 THEN 0 ELSE sum[i - 1] + v[i]
            IN  sum[Len(v)]
Total(p, v) == SumOf(v) % p

(* 2 to the n.                                                              *)
Pow2(n) == LET pow[i \in 0 .. n] == IF i = 0 THEN 1 ELSE 2 * pow[i - 1] IN pow[n]

(* sqr: with a preprocessed pair (s, s^2), open a - s and correct.          *)
Sqr(p, a, s) ==
  LET epsilon == Sub(p, a, s)
  IN  Add(p, Add(p, Mul(p, s, s), Mul(p, 2 * s, epsilon)), Mul(p, epsilon, epsilon))

(* inv: a preprocessed r masks the argument, r * a is opened and inverted in *)
(* the clear; division_by_zero is thrown when it is 0.                      *)
RA(p, a, r)  == Mul(p, r, a)
Inv(p, a, r) == Mul(p, r, CHOOSE i \in 1 .. p - 1 : Mul(p, RA(p, a, r), i) = 1)

(* The same operations on Complex<T>, the field of p^2 elements.            *)
ComplexAdd(p, a, b) ==
  [real |-> Add(p, a.real, b.real), imag |-> Add(p, a.imag, b.imag)]
ComplexSub(p, a, b) ==
  [real |-> Sub(p, a.real, b.real), imag |-> Sub(p, a.imag, b.imag)]
ComplexMul(p, a, b) ==
  [real |-> Sub(p, Mul(p, a.real, b.real), Mul(p, a.imag, b.imag)),
   imag |-> Add(p, Mul(p, a.real, b.imag), Mul(p, a.imag, b.real))]
ComplexSqr(p, a, s) ==
  [real |-> Sub(p, Sqr(p, a.real, s), Sqr(p, a.imag, s)),
   imag |-> 2 * Mul(p, a.real, a.imag) % p]

(* Complex inv: the conjugate over the norm; Norm is what inv_inplace masks. *)
NormMinus(p, a, s) == Sub(p, Sqr(p, a.real, s), Sqr(p, a.imag, s))  \* mutant: the sign
Norm(p, a, s) == Add(p, Sqr(p, a.real, s), Sqr(p, a.imag, s))
ComplexInv(p, a, s, r) ==
  LET rr == Inv(p, Norm(p, a, s), r)
  IN  [real |-> Mul(p, a.real, rr), imag |-> Mul(p, a.imag, -rr)]

(* XOR, XOR_plain: c = a + b, minus the product, minus the product again.   *)
Xor(p, a, b) == Sub(p, Sub(p, Add(p, a, b), Mul(p, a, b)), Mul(p, a, b))

(* OR, OR_plain.                                                            *)
Or(p, a, b) == Sub(p, Add(p, a, b), Mul(p, a, b))

(* XOR on vectors of one length (invalid_length is thrown otherwise).       *)
XorAll(p, u, v) == [i \in DOMAIN u |-> Xor(p, u[i], v[i])]

Evens(a) == [i \in 1 .. Len(a) \div 2 |-> a[2 * i - 1]]
Odds(a)  == [i \in 1 .. Len(a) \div 2 |-> a[2 * i]]

(* KXOR: pairs are combined until one element is left; the odd one out goes *)
(* to the end of the next round.                                            *)
(* Mutant: the odd one out is forgotten.                                    *)
Forgotten(a) == <<>>

OddOneOut(a) == IF Len(a) % 2 = 1 THEN <<Last(a)>> ELSE <<>>

Halve(p, a) == IF Len(a) = 1 THEN a
               ELSE XorAll(p, Evens(a), Odds(a)) \o OddOneOut(a)

\* One round per element is more than enough.
KXOR(p, a) == LET left[n \in 0 .. Len(a)] == IF n = 0 THEN a ELSE Halve(p, left[n - 1])
              IN  left[Len(a)][1]

(* prefix_OR: both halves, then the OR of the first half's last element     *)
(* into every element of the second.                                        *)
PrefixOR(p, a) ==
  LET or[r \in (DOMAIN a) \X (DOMAIN a)] ==   \* of the elements from r[1] to r[2]
        IF r[1] >= r[2] THEN <<a[r[1]]>>
        ELSE LET half == (r[2] - r[1] + 1) \div 2
                 lo == or[<<r[1], r[1] + half - 1>>]
                 hi == or[<<r[1] + half, r[2]>>]
             IN  lo \o [i \in DOMAIN hi |-> Or(p, lo[half], hi[i])]
  IN  or[<<1, Len(a)>>]

(* lt: the highest differing bit is singled out, and b's value there is the *)
(* answer.                                                                  *)
Differ(p, a, b) == Reverse(PrefixOR(p, Reverse(XorAll(p, a, b))))

Lt(p, a, b) ==
  LET d == Differ(p, a, b)
      e == [i \in DOMAIN d |-> IF i = Len(d) THEN d[i] ELSE Sub(p, d[i], d[i + 1])]
  IN  Total(p, [i \in DOMAIN b |-> Mul(p, e[i], b[i])])

(* decompose: the k low bits of x.                                          *)
Decompose(x, k) == [i \in 1 .. k |-> (x \div Pow2(i - 1)) % 2]

(* B2A: the sum of bits[i] * 2^i in the field.                              *)
B2A(p, bits) == Total(p, [i \in DOMAIN bits |-> Mul(p, bits[i], Pow2(i - 1))])

(* carry_sum: sum and carry of x + y + c by the majority formula.           *)
SumBit(p, x, y, c) == Xor(p, Xor(p, x, y), c)
Carry(p, x, y, c)  == Xor(p, Mul(p, Xor(p, y, c), Xor(p, x, c)), c)

(* add_bit: ripple-carry addition, one bit longer than its arguments.       *)
AddBit(p, a, b) ==
  LET carry[i \in DOMAIN a] == IF i = 1 THEN Mul(p, a[1], b[1])
                               ELSE Carry(p, a[i], b[i], carry[i - 1])
  IN  [i \in DOMAIN a |-> IF i = 1 THEN Xor(p, a[1], b[1])
                          ELSE SumBit(p, a[i], b[i], carry[i - 1])]
        \o <<carry[Len(a)]>>

(* bits.pop_back()                                                          *)
DropCarry(bits) == Front(bits)

(* Mutant: c itself is added, whether it passes p or not.                   *)
A2BNoWrap(p, k, a, r) ==
  LET c == Sub(p, a, B2A(p, r)) IN
  IF c = 0 THEN r ELSE DropCarry(AddBit(p, Decompose(c, k), r))

(* A2B with the mask of bits r: open c = a - r; when adding c to r passes p *)
(* add c - p modulo 2^k instead; the carry out is dropped.  The offset the  *)
(* code adds before it decomposes is 2^(k+1), whose low k bits are 0.       *)
A2B(p, k, a, r) ==
  LET c == Sub(p, a, B2A(p, r))
      f == Decompose(c, k)
      tf == Decompose(2 * Pow2(k) + c - p, k)
      wraps == Sub(p, 1, Lt(p, r, Decompose(p - c, k)))
      tg == [i \in 1 .. k |-> Add(p, Mul(p, wraps, tf[i] - f[i]), f[i])]
  IN  IF c = 0 THEN r ELSE DropCarry(AddBit(p, tg, r))

(* uhf, by Horner's rule from the last element of the message.              *)
Uhf(p, key, in) ==
  FoldRight(LAMBDA m, acc : Add(p, Mul(p, acc, key), m), in, 0)

(* mpz_legendre, the library's Legendre symbol.                             *)
Legendre(p, x) ==
  IF x % p = 0 THEN 0
  ELSE IF \E y \in 1 .. p - 1 : (y * y) % p = x % p THEN 1 ELSE -1

(* legendre and legendre_prf: the symbol of s^2 (key + in), for s^2 the     *)
(* square of a preprocessed s, with -1 mapped to 0, and 0 and 1 to 1.       *)
LegendrePrf(p, s, key, in) ==
  IF Legendre(p, Mul(p, s * s, Add(p, key, in))) = -1 THEN 0 ELSE 1
=============================================================================
