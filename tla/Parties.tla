------------------------------ MODULE Parties ------------------------------
(* The parties of a run, numbered from 0 (Names::player_no).               *)
EXTENDS Integers

CONSTANT N  \* Names::nplayers

ASSUME SizeAssumption == N \in Nat \ {0}

Party == 0 .. N - 1
Layer == {0, 1}  \* the player objects a party may have, each with a connection per party
=============================================================================
