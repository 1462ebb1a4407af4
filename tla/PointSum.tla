------------------------------ MODULE PointSum ------------------------------
(***************************************************************************)
(* The assembly of a distributed signature, BLS::dstb_sign of POC/bls.h,   *)
(* and the point additions it could use instead: the partial signatures,   *)
(* one per party, are added one after the other with the secret-shared     *)
(* arithmetic of G1Op or G2Op (POC/Group.hpp).  dstb_sign adds affine      *)
(* points of G2; the operations tests add in G1 and G2 and in all three    *)
(* systems of coordinates.                                                 *)
(*                                                                         *)
(* The formulas know no point at infinity and no doubling: every addition  *)
(* is of two points of different x, or fails.  Masks (s for the squares, r *)
(* for the inverse) are preprocessed and uniform, so 0 is among them.      *)
(***************************************************************************)
EXTENDS OnlineOp

CONSTANTS P,           \* the base field, of P elements
          Terms,       \* the number of points to add, one per party
          Points1,     \* affine points [x, y] of a curve y^2 = x^3 + b over Fp
          Points2,     \* the same over the field of P^2 elements
          Zs1, Zs2     \* non-zero scalings of the non-affine inputs

Fp   == 0 .. P - 1
Fp2  == [real : Fp, imag : Fp]
C(n) == [real |-> n % P, imag |-> 0]

(* P is a prime, and as for that of BLS12-381 (P % 4 = 3) -1 is no square,  *)
(* so that a norm is 0 for 0 only and the pairs are a field.                *)
ASSUME FieldAssumption ==
  /\ P \in Nat \ {0, 1}
  /\ \A a \in Fp \ {0} : \E b \in Fp : Mul(P, a, b) = 1
  /\ \A a \in Fp : Add(P, Mul(P, a, a), 1) # 0
ASSUME PointsAssumption ==
  /\ Points1 \subseteq [x : Fp, y : Fp]   /\ Zs1 \subseteq Fp \ {0}
  /\ Points2 \subseteq [x : Fp2, y : Fp2] /\ Zs2 \subseteq Fp2 \ {C(0)}
ASSUME TermsAssumption == Terms \in Nat \ {0}

FpPlus(a, b)     == Add(P, a, b)
FpMinus(a, b)    == Sub(P, a, b)
FpTimes(a, b)    == Mul(P, a, b)
FpSqr(a, s)      == Sqr(P, a, s)
FpInv(a, s, r)   == Inv(P, a, r)
Fp2Plus(a, b)    == ComplexAdd(P, a, b)
Fp2Minus(a, b)   == ComplexSub(P, a, b)
Fp2Times(a, b)   == ComplexMul(P, a, b)
Fp2Sqr(a, s)     == ComplexSqr(P, a, s)
Fp2Inv(a, s, r)  == ComplexInv(P, a, s, r)

G1 == INSTANCE PointFormulas WITH Plus <- FpPlus, Minus <- FpMinus,
        Times <- FpTimes, Square <- FpSqr, Inverse_ <- FpInv
G2 == INSTANCE PointFormulas WITH Plus <- Fp2Plus, Minus <- Fp2Minus,
        Times <- Fp2Times, Square <- Fp2Sqr, Inverse_ <- Fp2Inv

(* The additions of G2Op, over Complex<T>.                                  *)
G2AddAff(a, b, s, r)   == G2!AddAff(a, b, s, r)
G2AddJac(a, b, s)      == G2!AddJac(a, b, s)
G2AddPlainJac(a, b, s) == G2!AddPlainJac(a, b, s)
G2AddProj(a, b, s)     == G2!AddProj(a, b, s)

VARIABLES group,    \* "G1" or "G2"
          form,     \* coordinates: "aff", "jac" or "proj"
          ac,       \* the points to add
          out,      \* the running sum
          i,        \* the next point to add
          status    \* "adding", "done", or why division_by_zero was thrown

vars == <<group, form, ac, out, i, status>>

(* What the caller hands over: the coordinates of an affine point with a    *)
(* scaling z of its own (mclBnG2_to_Complex_Plain reads affine ones).       *)
Lift1(f, pt, z) ==
  CASE f = "aff"  -> pt
    [] f = "jac"  -> [X |-> pt.x * z * z % P, Y |-> pt.y * z * z * z % P, Z |-> z]
    [] f = "proj" -> [X |-> pt.x * z % P, Y |-> pt.y * z % P, Z |-> z]
Lift2(f, pt, z) ==
  LET z2 == Fp2Times(z, z) IN
  CASE f = "aff"  -> pt
    [] f = "jac"  -> [X |-> Fp2Times(pt.x, z2), Y |-> Fp2Times(pt.y, Fp2Times(z2, z)), Z |-> z]
    [] f = "proj" -> [X |-> Fp2Times(pt.x, z), Y |-> Fp2Times(pt.y, z), Z |-> z]

Inputs(g, f) ==
  IF g = "G1" THEN {Lift1(f, pt, z) : pt \in Points1, z \in Zs1}
  ELSE {Lift2(f, pt, z) : pt \in Points2, z \in Zs2}

(* out = ac[0], then the loop from 1.                                       *)
Init == /\ group \in {"G1", "G2"} /\ form \in {"aff", "jac", "proj"}
        /\ ac \in [1 .. Terms -> Inputs(group, form)]
        /\ out = ac[1] /\ i = 2 /\ status = "adding"

(* What inv masks and opens when out and b are added: dx, or its norm.      *)
Masked(b, s) == IF group = "G1" THEN FpMinus(out.x, b.x)
                ELSE Norm(P, Fp2Minus(out.x, b.x), s)

(* add_aff_inplace and add_plain_aff_inplace.                               *)
AddAffine(b, s, r) ==
  /\ form = "aff"
  /\ IF RA(P, Masked(b, s), r) = 0
     THEN /\ status' = IF r = 0 THEN "zero_mask" ELSE "zero_divisor"
          /\ UNCHANGED out
     ELSE /\ out' = IF group = "G1" THEN G1!AddAff(out, b, s, r)
                    ELSE G2AddAff(out, b, s, r)
          /\ UNCHANGED status

(* add_jac_inplace, add_plain_jac_inplace: b is shared or public.           *)
AddJacobian(b, s) ==
  /\ form = "jac" /\ UNCHANGED status
  /\ \/ out' = IF group = "G1" THEN G1!AddJac(out, b, s) ELSE G2AddJac(out, b, s)
     \/ out' = IF group = "G1" THEN G1!AddPlainJac(out, b, s) ELSE G2AddPlainJac(out, b, s)

(* add_proj_inplace, add_plain_proj_inplace.                                *)
AddProjective(b, s) ==
  /\ form = "proj" /\ UNCHANGED status
  /\ out' = IF group = "G1" THEN G1!AddProj(out, b, s) ELSE G2AddProj(out, b, s)

AddNext ==
  /\ status = "adding" /\ i <= Terms
  /\ \E s \in Fp : \/ \E r \in Fp : AddAffine(ac[i], s, r)
                  \/ AddJacobian(ac[i], s)
                  \/ AddProjective(ac[i], s)
  /\ i' = i + 1
  /\ UNCHANGED <<group, form, ac>>

Finish == /\ status = "adding" /\ i > Terms
          /\ status' = "done" /\ UNCHANGED <<group, form, ac, out, i>>

Next == AddNext \/ Finish

Spec == Init /\ [][Next]_vars

-----------------------------------------------------------------------------
(***************************************************************************)
(* The group law, with infinity and doubling, over the field of P^2        *)
(* elements; a point of G1 is one whose coordinates have no imaginary part. *)
(***************************************************************************)
Infinity == [x |-> "infinity"]
Recip    == [a \in Fp2 \ {C(0)} |-> CHOOSE b \in Fp2 : Fp2Times(a, b) = C(1)]

Chord(a, b, m) == LET x == Fp2Minus(Fp2Minus(Fp2Times(m, m), a.x), b.x)
                  IN  [x |-> x, y |-> Fp2Minus(Fp2Times(m, Fp2Minus(a.x, x)), a.y)]

GroupAdd(a, b) ==
  CASE a = Infinity -> b
    [] b = Infinity -> a
    [] a # Infinity /\ b # Infinity /\ a.x # b.x ->
         Chord(a, b, Fp2Times(Fp2Minus(a.y, b.y), Recip[Fp2Minus(a.x, b.x)]))
    [] a # Infinity /\ a = b /\ a.y # C(0) ->
         Chord(a, b, Fp2Times(Fp2Times(C(3), Fp2Times(a.x, a.x)),
                              Recip[Fp2Times(C(2), a.y)]))
    [] OTHER -> Infinity

InFp2(c) == IF group = "G1" THEN C(c) ELSE c

\* The affine point that coordinates with a non-zero Z stand for.
AffineOf(pt) ==
  IF form = "aff" THEN [x |-> InFp2(pt.x), y |-> InFp2(pt.y)]
  ELSE LET z == Recip[InFp2(pt.Z)]
           zx == IF form = "jac" THEN Fp2Times(z, z) ELSE z
           zy == IF form = "jac" THEN Fp2Times(zx, z) ELSE z
       IN  [x |-> Fp2Times(InFp2(pt.X), zx), y |-> Fp2Times(InFp2(pt.Y), zy)]

Reference(n) ==   \* the sum of the first n points
  LET sum[k \in 1 .. n] == IF k = 1 THEN AffineOf(ac[1])
                           ELSE GroupAdd(sum[k - 1], AffineOf(ac[k]))
  IN  sum[n]

Valid(pt) == IF form = "aff" THEN TRUE ELSE InFp2(pt.Z) # C(0)
Threw     == status \in {"zero_mask", "zero_divisor"}

(* An addition met two points of one x: equal points, opposite points, or   *)
(* the sum before was infinity already.                                     *)
MetEqualX(n) ==
  \E k \in 2 .. n : LET a == Reference(k - 1) IN
                     a = Infinity \/ a.x = AffineOf(ac[k]).x

(* A sum that came to an end and has a non-zero Z is the sum of the points  *)
(* in the group, whatever the coordinates, the masks, and the arguments     *)
(* that were public: the signature dstb_sign reveals is no other point.     *)
SumIsRight ==
  (status \in {"adding", "done"} /\ Valid(out)) =>
     AffineOf(out) = Reference(i - 1)

(* An addition fails (division_by_zero in affine coordinates, Z = 0 in the  *)
(* others, from where it never recovers) exactly when two points of one x   *)
(* met or, in affine coordinates, the mask was 0.                           *)
FailsOnlyAtEqualX ==
  /\ (status = "zero_divisor" \/ (~Threw /\ ~Valid(out))) => MetEqualX(i - 1)
  /\ (status \in {"adding", "done"} /\ Valid(out)) => ~MetEqualX(i - 1)
=============================================================================
