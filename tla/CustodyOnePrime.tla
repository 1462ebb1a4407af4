-------------------------- MODULE CustodyOnePrime --------------------------
(***************************************************************************)
(* The one-prime version of the custody bit in POC/poc.hpp: an offline and *)
(* an online step, and poc_compute_custody_bit, which POC/poc.h presents   *)
(* as both in one.  No program of Source/ calls them any longer.           *)
(***************************************************************************)
EXTENDS OnlineOp

CONSTANTS P,       \* the prime
          Chunk,   \* CHUNK_NUM, the elements of a message; even
          Messages \* the messages asked about

VARIABLES keys, msg,
          pre,     \* pre_key
          online,  \* what poc_compute_custody_bit_online returns
          oneStep  \* what poc_compute_custody_bit returns

vars == <<keys, msg, pre, online, oneStep>>

Pending == 2  \* no bit yet

Init == /\ keys \in [1 .. 2 -> 0 .. P - 1] /\ msg \in Messages
        /\ pre = <<>> /\ online = Pending /\ oneStep = Pending

(* poc_compute_custody_bit_offline: s1, s0^2, s1^3, s0^4, ...               *)
Offline ==
  /\ pre = <<>>
  /\ LET Square(x) == Mul(P, x, x)
         f[i \in 0 .. Chunk - 1] ==
           CASE i = 0 -> keys[2]
             [] i = 1 -> Square(keys[1])
             [] OTHER -> Mul(P, f[i - 2], Square(keys[IF i % 2 = 0 THEN 2 ELSE 1]))
     IN  pre' = [j \in 1 .. Chunk |-> f[j - 1]]
  /\ UNCHANGED <<keys, msg, online, oneStep>>

Hash == Add(P, FoldLeft(LAMBDA acc, j : Add(P, acc, Mul(P, pre[j - 1], msg[j])), msg[1],
                        [j \in 1 .. Chunk - 1 |-> j + 1]), pre[Chunk])

(* poc_compute_custody_bit_online, on a mask s other than 0.                *)
Online ==
  /\ pre # <<>> /\ online = Pending
  /\ \E s \in 1 .. P - 1 : online' = LegendrePrf(P, s, pre[1], Hash)
  /\ UNCHANGED <<keys, msg, pre, oneStep>>

(* poc_compute_custody_bit, on a mask s other than 0.                       *)
OneStep ==
  /\ oneStep = Pending
  /\ \E s \in 1 .. P - 1 : oneStep' = LegendrePrf(P, s, keys[2], Uhf(P, keys[1], msg))
  /\ UNCHANGED <<keys, msg, pre, online>>

Spec == Init /\ [][Offline \/ Online \/ OneStep]_vars

(* "run offline and online in one step" (POC/poc.h, of                      *)
(* poc_compute_custody_bit): the same keys and message give the same bit.   *)
OneStepAgrees == online # Pending /\ oneStep # Pending => online = oneStep
=============================================================================
