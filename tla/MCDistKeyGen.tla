---------------------------- MODULE MCDistKeyGen ----------------------------
(***************************************************************************)
(* DistKeyGen over a small prime field.                                    *)
(***************************************************************************)
EXTENDS JointKey

OneOff(v) == {FrAdd(v, 1)}

\* A dealer draws one polynomial, another one than the other dealers.
OwnPoly(p) == {[k \in 0 .. T |-> (p + 1 + k * k * (p + 2)) % Q]}

(***************************************************************************)
(* Every party leaves dstb_keygen, by return or by exception, whatever the *)
(* speed of the others, as soon as a stream can hold the T + 1 points a    *)
(* dealer sends in a row.                                                  *)
(***************************************************************************)
EveryoneEnds == \A p \in Party : <>Ended(p)
=============================================================================
