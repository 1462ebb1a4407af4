------------------------------ MODULE Channels ------------------------------
(***************************************************************************)
(* From the start of the programs to their messages: the parties get       *)
(* connected (Rendezvous) and run their rounds of messages on the          *)
(* connections, with a PlainPlayer (Exchange) or a CryptoPlayer            *)
(* (CryptoRounds), each as soon as its own set-up has returned, whether or *)
(* not the others' have.  What becomes of a round when another party has   *)
(* given up its set-up is not followed: there is no program then.          *)
(***************************************************************************)
EXTENDS CryptoRounds

CONSTANT Behind  \* how many parties may still be in their set-up when the first begins

chVars == <<vars, exVars, queues, owing>>

ChInit == Init /\ ExInit /\ QueuesInit

Begin         == /\ late = {} /\ Cardinality({p \in Party : pc[p] # "done"}) <= Behind
                 /\ Given /\ UNCHANGED <<vars, queues, owing>>

Connecting    == UNCHANGED <<exVars, queues, owing>>
Exchanging(p) == pc[p] = "done" /\ RoundStep(p) /\ UNCHANGED vars
Threads       == ThreadStep /\ UNCHANGED <<vars, owing>>

Over(p) == Ended(p) /\ (pc[p] = "done" /\ late = {} => program # <<>> /\ Through(p))
AllOver == (\A p \in Party : Over(p)) /\ UNCHANGED chVars

ChNext == \/ Step /\ Connecting
          \/ Begin
          \/ \E p \in Party : Exchanging(p)
          \/ Threads
          \/ AllOver

(* Parties that are not late are started; threads run until they block, and *)
(* a wait that is over its time is broken off.  As no thread runs for ever, *)
(* it is enough that some thread runs while one can.                        *)
ChSpec == /\ ChInit /\ [][ChNext]_chVars
          /\ WF_chVars(\/ Setup /\ Connecting
                       \/ Begin
                       \/ \E p \in Party : Exchanging(p)
                       \/ Threads)

-----------------------------------------------------------------------------
(* Everyone ends, connected and with all rounds done, or by giving up when  *)
(* someone is late or by the failed check: no thread waits for ever for a   *)
(* client, a name, a lock or a byte (get_connection_socket, setup_names,    *)
(* Exchanger::round, Check_Broadcast).                                      *)
EveryoneEnds == <>(\A p \in Party : Over(p))
=============================================================================
