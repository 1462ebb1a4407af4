------------------------------ MODULE Opening ------------------------------
(***************************************************************************)
(* What opening a batch of shared values promises (Protocols/MAC_Check.h,  *)
(* Protocols/MAC_Check.hpp): every player puts in its shares, and every    *)
(* player gets the sum of all of them, openings one after another.  A      *)
(* player knows a sum only after all have entered that opening.            *)
(***************************************************************************)
EXTENDS Naturals, Sequences

CONSTANTS Players,
          Runs,     \* openings, a bound of the model
          Sum(_)    \* Sum(k): the sum of all players' shares in opening k

VARIABLES entered,  \* entered[p]: openings p has put its shares into
          opened    \* opened[p]: the sums p has got, in order

vars == <<entered, opened>>

Init == /\ entered = [p \in Players |-> 0]
        /\ opened = [p \in Players |-> <<>>]

Enter(p) == /\ entered[p] = Len(opened[p])
            /\ entered[p] < Runs
            /\ entered' = [entered EXCEPT ![p] = @ + 1]
            /\ UNCHANGED opened

Learn(p) == /\ entered[p] = Len(opened[p]) + 1
            /\ \A q \in Players : entered[q] >= entered[p]
            /\ opened' = [opened EXCEPT ![p] = Append(@, Sum(entered[p]))]
            /\ UNCHANGED entered

Next == \E p \in Players : Enter(p) \/ Learn(p)

Spec == Init /\ [][Next]_vars

FairSpec == Spec /\ \A p \in Players : WF_vars(Enter(p)) /\ WF_vars(Learn(p))
=============================================================================
