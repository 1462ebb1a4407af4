------------------------------- MODULE FrArith -------------------------------
(***************************************************************************)
(* The scalar field of the BLS curve for a small prime Q, with the calls   *)
(* of the mcl library the code makes on it, and the Lagrange helpers of    *)
(* Math/Lagrange.cpp and POC/vss.cpp. A group element g^x is represented   *)
(* by its exponent x, so that the calls on G1 and G2 are those on Fr.      *)
(***************************************************************************)
EXTENDS Integers, FiniteSetsExt

CONSTANT Q  \* the group order, a prime

Scalar == 0 .. Q - 1

FrAdd(a, b) == (a + b) % Q
FrMul(a, b) == (a * b) % Q

(* Q is a prime: every scalar but 0 has an inverse.                         *)
ASSUME PrimeAssumption ==
  Q \in Nat \ {0, 1} /\ \A a \in Scalar \ {0} : \E b \in Scalar : FrMul(a, b) = 1

(* mclBnFr_inv sets the result to 0 for 0.                                  *)
FrInv(a) == IF a = 0 THEN 0 ELSE CHOOSE b \in Scalar : FrMul(a, b) = 1

(* mclBn_FrEvaluatePolynomial, by Horner's rule.                            *)
EvalPoly(c, x) ==
  LET deg == Max(DOMAIN c)
      h[k \in 0 .. deg] == IF k = deg THEN c[k] % Q
                           ELSE (c[k] + x * h[k + 1]) % Q
  IN  h[0]

SumOver(f)  == SumFunction(f) % Q
ProdOver(f) == FoldFunction(FrMul, 1, f)

(***************************************************************************)
(* get_lagrange_coeff: the weight at 0 of point i among the points in      *)
(* `points' (1 .. n in the code), the product over j # i of (-j) / (i +    *)
(* (-j)). lagrange_coeff of vss.cpp, which nothing calls, gives the same.  *)
(***************************************************************************)
Numerators(points, i)   == [j \in points \ {i} |-> (-j) % Q]
Denominators(points, i) == [j \in points \ {i} |-> (i - j) % Q]

LagrangeCoeffNoInverse(points, i) ==   \* mutant: mclBnFr_inv left out
  FrMul(ProdOver(Numerators(points, i)), ProdOver(Denominators(points, i)))

LagrangeCoeff(points, i) ==
  FrMul(ProdOver(Numerators(points, i)), FrInv(ProdOver(Denominators(points, i))))

(* recover_share: interpolation at 0 through (1, ys[1]), (2, ys[2]), ...   *)
(* by mclBn_FrLagrangeInterpolation.                                       *)
RecoverShare(ys) ==
  SumOver([i \in DOMAIN ys |-> FrMul(ys[i], LagrangeCoeff(DOMAIN ys, i))])
=============================================================================
