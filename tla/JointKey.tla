------------------------------ MODULE JointKey ------------------------------
(***************************************************************************)
(* DistKeyGen with the arithmetic of the scalar field, and what it says of *)
(* the joint key: the share each party ends with, and the signature        *)
(* dstb_sign assembles from the shares.                                    *)
(***************************************************************************)
EXTENDS DistKeyGen, FrArith

(* The library calls of DistKeyGen are those of FrArith.                    *)
ASSUME ArithmeticAssumption ==
  /\ Fr = Scalar
  /\ \A a, b \in Fr : Plus(a, b) = FrAdd(a, b)
  /\ \A c \in Coeff : \A x \in 1 .. N : Eval(c, x) = EvalPoly(c, x)

(* Fewer points than scalars, and at least one more than the degree: main   *)
(* makes T one less than the number of parties.                             *)
ASSUME PointsAssumption == N < Q /\ T < N

(* What party p holds of dealer d: its own polynomial or the points received. *)
Points(p, d) == IF d = p THEN poly[p] ELSE AuxReceived(p, d)

(***************************************************************************)
(* dstb_sign (bls.h 108-132): every party scales its signature share by    *)
(* its Lagrange weight, and the shares are added up.  The exponent of the  *)
(* result, for a message hashed to h.                                      *)
(***************************************************************************)
SignatureExponent(h) ==
  SumOver([p \in Party |-> FrMul(h, FrMul(sk[p], LagrangeCoeff(1 .. N, p + 1)))])

(***************************************************************************)
(* The share a party ends with is the value at its own point of the sum of *)
(* the polynomials whose auxiliary points it holds, and vk is that sum at  *)
(* 0: whatever wrong frames arrive, a party that does not throw ends with  *)
(* matching halves of one key (the checks of bls.cpp 147-164).             *)
(***************************************************************************)
SumOfPoints(p, dealers) ==
  [k \in 0 .. T |-> SumOver([d \in dealers |-> Points(p, d)[k]])]

ShareMatchesKey ==
  \A p \in Party : mode[p] = "done" =>
    LET sum == SumOfPoints(p, Party) IN
    sk[p] = EvalPoly(sum, p + 1) /\ vk[p] = sum[0]

(***************************************************************************)
(* When the dealers dealt what gen_share computes, the key shares of all   *)
(* parties interpolate to the secret of vk, and the signature assembled by *)
(* dstb_sign is the one the joint key would give.                          *)
(***************************************************************************)
JointKeySigns ==
  (\A p \in Party : mode[p] = "done") /\ faults = 0
    => /\ \A p \in Party : vk[p] = RecoverShare([i \in 1 .. N |-> sk[i - 1]])
       /\ \A h \in Scalar \ {0} : SignatureExponent(h) = FrMul(h, vk[0])

(***************************************************************************)
(* Behind ShareMatchesKey: at every moment sk and vk are made of p's own    *)
(* polynomial and the points of the dealers it has accepted so far.         *)
(***************************************************************************)
Accepted(p) == {p} \cup {q \in Party : \/ mode[p] = "done"
                                       \/ mode[p] \in {"check", "threw"} /\ q < peer[p]}

KeyOK ==
  \A p \in Party :
    /\ sk[p] = EvalPoly(SumOfPoints(p, Accepted(p)), p + 1)
    /\ vk[p] = SumOfPoints(p, Accepted(p))[0]

(* Behind JointKeySigns: without a fault all that was sent is as dealt.     *)
HonestOK ==
  faults = 0 => \A p, q \in Party : \A i \in 1 .. Len(log[p][q]) : log[p][q][i].val = Dealt(p, q, i)
=============================================================================
