--------------------------- MODULE PointFormulas ---------------------------
(***************************************************************************)
(* The additions of points of POC/Group.hpp, over a field given by its     *)
(* operations: G1Op takes those of T, G2Op those of Complex<T>, and the    *)
(* formulas are the same.  s is the preprocessed square a sqr spends, r    *)
(* the mask an inv spends.  Each function writes a fresh result, as the    *)
(* _inplace forms make sure of with their temporary.                       *)
(***************************************************************************)
CONSTANTS Plus(_, _), Minus(_, _), Times(_, _), Square(_, _), Inverse_(_, _, _)

Cube(a, s) == Times(Square(a, s), a)
Twice(a)   == Plus(a, a)

(* add_aff, add_plain_aff: chord through two points of different x.         *)
AddAffSameX(a, b, s, r) ==   \* mutant: c.x is written over a.x before its last use
  LET m == Times(Inverse_(Minus(a.x, b.x), s, r), Minus(a.y, b.y))
      x == Minus(Minus(Square(m, s), a.x), b.x)
  IN  [x |-> x, y |-> Minus(Times(Minus(x, x), m), a.y)]

AddAff(a, b, s, r) ==
  LET m == Times(Inverse_(Minus(a.x, b.x), s, r), Minus(a.y, b.y))
      x == Minus(Minus(Square(m, s), a.x), b.x)
  IN  [x |-> x, y |-> Minus(Times(Minus(a.x, x), m), a.y)]

(* The part add_jac and add_plain_jac share, from R = S1 - S2 on.           *)
JacFrom(U1, U2, S1, S2, ZZ, s) ==
  LET R == Minus(S1, S2)
      H == Minus(U1, U2)
      G == Cube(H, s)
      V == Times(Square(H, s), U1)
      X == Minus(Plus(Square(R, s), G), Twice(V))
  IN  [X |-> X, Y |-> Minus(Times(Minus(V, X), R), Times(S1, G)), Z |-> Times(ZZ, H)]

AddJac(a, b, s) ==
  LET ZA == Square(a.Z, s)
      ZB == Square(b.Z, s)
  IN  JacFrom(Times(a.X, ZB), Times(b.X, ZA),
              Times(Times(ZB, a.Y), b.Z), Times(Times(ZA, b.Y), a.Z),
              Times(a.Z, b.Z), s)

(* b is public, and so are the powers of its Z.                             *)
AddPlainJac(a, b, s) ==
  LET ZA  == Square(a.Z, s)
      bZ2 == Times(b.Z, b.Z)
      bZ3 == Times(bZ2, b.Z)
  IN  JacFrom(Times(a.X, bZ2), Times(ZA, b.X),
              Times(a.Y, bZ3), Times(Times(ZA, b.Y), a.Z),
              Times(a.Z, b.Z), s)

(* add_proj, add_plain_proj.                                                *)
AddProj(a, b, s) ==
  LET S1 == Times(a.Y, b.Z)
      U1 == Times(a.X, b.Z)
      R  == Minus(S1, Times(b.Y, a.Z))
      H  == Minus(U1, Times(b.X, a.Z))
      T_ == Times(a.Z, b.Z)
      V  == Times(U1, Square(H, s))
      G  == Cube(H, s)
      W  == Minus(Plus(Times(Square(R, s), T_), G), Twice(V))
  IN  [X |-> Times(H, W),
       Y |-> Minus(Times(Minus(V, W), R), Times(S1, G)),
       Z |-> Times(T_, G)]
=============================================================================
