----------------------------- MODULE MCCustody -----------------------------
(***************************************************************************)
(* A small instance of Custody: 2 * 3 = 3 * 2 bits of key, a second prime  *)
(* with three non-residues in a row (so that a custody bit may be 0), five *)
(* elements per message, so that 5 mod 3 = CHUNK_NUM mod 3 = 2.            *)
(***************************************************************************)
EXTENDS Custody

(* No bit, every bit, and a pattern that differs between the slices.        *)
MCLocalBits == {[j \in 1 .. Bits |-> 0], [j \in 1 .. Bits |-> 1],
                [j \in 1 .. Bits |-> IF j \in {1, 4, 5} THEN 1 ELSE 0]}

(* Nothing, every element different, and elements at both ends of the field. *)
MCMessages == {<<0, 0, 0, 0, 0>>, <<1, 2, 3, 4, 5>>, <<6, 1, 0, 2, 10>>}
=============================================================================
