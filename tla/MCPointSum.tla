----------------------------- MODULE MCPointSum -----------------------------
(***************************************************************************)
(* Small curves of the shape of BLS12-381's y^2 = x^3 + 4 and              *)
(* y^2 = x^3 + 4(1 + u): all points of y^2 = x^3 + 3 over 7 elements (a     *)
(* group of 13) and points of y^2 = x^3 + 3(1 + u) over 49 elements (a     *)
(* group of 63), both signs of y with each x.                              *)
(***************************************************************************)
EXTENDS PointSum

MCPoints1 ==
  {pt \in [x : Fp, y : Fp] : FpTimes(pt.y, pt.y) = (pt.x * pt.x * pt.x + 3) % P}

Abscissas == [real : {0, 1, 2}, imag : {0, 1}]
MCPoints2 ==
  {pt \in [x : Abscissas, y : Fp2] :
     Fp2Times(pt.y, pt.y) =
       Fp2Plus(Fp2Times(pt.x, Fp2Times(pt.x, pt.x)), [real |-> 3, imag |-> 3])}

MCZs1 == {1, 5}
MCZs2 == {C(1), [real |-> 2, imag |-> 3]}
=============================================================================
