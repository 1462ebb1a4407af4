---------------------------- MODULE CryptoRounds ----------------------------
(***************************************************************************)
(* The same rounds of messages between encrypted players                   *)
(* (Networking/CryptoPlayer.cpp, Sender.cpp, Receiver.cpp and the queues   *)
(* of Tools/WaitQueue.h).  A CryptoPlayer has a sender and a receiver      *)
(* thread for every other party, each on a connection of its own, asks     *)
(* them for what an operation needs and waits for all of it.  Only an      *)
(* operation that receives into the buffer it sends from has exchangers,   *)
(* and those use the first of the two connections in both directions; over *)
(* TLS the two halves of a round wait for each other.                      *)
(*                                                                         *)
(* A thread's Send or Receive of a message is one step: no other thread    *)
(* uses that direction of the connection meanwhile.  The destructors,      *)
(* which stop the threads once nothing is asked of them, are left out.     *)
(***************************************************************************)
EXTENDS Rendezvous, Exchange

VARIABLES asked,   \* in the queue `in` of a thread: who sends to or receives from whom
          served,  \* in the queue `out`; as an operation waits for all it has
                   \* asked, no queue holds two requests
          owing    \* parties whose exchanger has sent in this round of it and has
                   \* to receive before it sends again

queues == <<asked, served>>

QueuesInit == asked = {} /\ served = {} /\ owing = {}

Threaded(p) == layers = 2 /\ ~Through(p) /\ ~Op(p).same

Requests(p) == {<<"send", p, To(p, d)>> : d \in Exchangers(p)} \cup
               {<<"receive", p, From(p, d)>> : d \in Exchangers(p)}

(* The first loop of an operation: request(...) of every thread concerned.  *)
Request(p) ==
  /\ Threaded(p) /\ begun[p] # Exchangers(p)
  /\ asked' = asked \cup Requests(p)
  /\ begun' = [begun EXCEPT ![p] = Exchangers(p)]
  /\ UNCHANGED <<program, op, sent, got, newLen, pipe, lied, ctx, threw, served>>

ServeSilently(request) ==  \* mutant: nothing is put into the queue `out`
  asked' = asked \ {request} /\ UNCHANGED served
Serve(request) == /\ asked' = asked \ {request}
                  /\ served' = served \cup {request}

SenderRun(p, q) ==
  /\ <<"send", p, q>> \in asked /\ Serve(<<"send", p, q>>)
  /\ LET bytes == Content(p, q, op[p]) IN
     Put(SendLayer(p, q), p, q,
         <<LengthUnit(p)>> \o [k \in 1 .. Len(bytes) |-> ByteUnit(bytes[k])])
  /\ UNCHANGED <<program, op, begun, sent, got, newLen, lied, ctx, threw>>

ReceiverRun(p, q) ==
  /\ <<"receive", p, q>> \in asked /\ Serve(<<"receive", p, q>>)
  /\ LET l  == ReceiveLayer(p, q)
         in == pipe[l][q][p]
         d  == CHOOSE d \in Exchangers(p) : From(p, d) = q
     IN /\ in # <<>> /\ Len(in) > Head(in).len
        /\ newLen' = [newLen EXCEPT ![p][d] = Head(in).len]
        /\ got' = [got EXCEPT ![p][d] = [k \in 1 .. Head(in).len |-> in[k + 1].val]]
        /\ Take(l, p, q, Head(in).len + 1)
  /\ UNCHANGED <<program, op, begun, sent, lied, ctx, threw>>

(* The second loop: wait(...) for every thread.                             *)
AllServed(p) ==
  /\ Threaded(p) /\ begun[p] = Exchangers(p) /\ Requests(p) \subseteq served
  /\ served' = served \ Requests(p)
  /\ Conclude(p)
  /\ UNCHANGED asked

ThreadStep == \E p, q \in Party : SenderRun(p, q) \/ ReceiverRun(p, q)

(* An exchanger over TLS: write_some and read_some wait for one byte at      *)
(* least and the length is read in whole, so that a round sends some, while *)
(* there are any, and then waits for some.                                  *)
TlsStep(p) ==
  \/ \E d \in 1 .. N - 1 :
       \/ Construct(p, d) /\ UNCHANGED owing
       \/ p \notin owing /\ RoundSend(p, d) /\ owing' = owing \cup {p}
       \/ /\ Running(p, d) /\ (p \in owing \/ sent[p][d] = Op(p).len[p])
          /\ RoundLength(p, d) \/ RoundReceive(p, d)
          /\ owing' = owing \ {p}
  \/ Complete(p) /\ UNCHANGED owing

RoundStep(p) ==
  \/ layers = 1 /\ ExStep(p) /\ UNCHANGED <<queues, owing>>
  \/ layers = 2 /\ ~Threaded(p) /\ TlsStep(p) /\ UNCHANGED queues
  \/ (Request(p) \/ AllServed(p)) /\ UNCHANGED owing

-----------------------------------------------------------------------------
(* The parties the main thread has an exchanger of one buffer with.         *)
ExchangedWith(p) ==
  IF Through(p) \/ ~Op(p).same THEN {}
  ELSE UNION {{To(p, d), From(p, d)} : d \in Exchangers(p)}

(* The threads of a CryptoPlayer that are at work, with the connection each  *)
(* uses: senders and receivers that have been asked, and the main thread.   *)
AtWork(p) ==
  {<<<<"send", q>>, sock[p][SendLayer(p, q)][q]>> :
     q \in {r \in Party : <<"send", p, r>> \in asked}} \cup
  {<<<<"receive", q>>, sock[p][ReceiveLayer(p, q)][q]>> :
     q \in {r \in Party : <<"receive", p, r>> \in asked}} \cup
  {<<<<"main">>, sock[p][0][q]>> : q \in ExchangedWith(p)}

(* No two threads of a party are at work on one TLS connection: they would   *)
(* be in one SSL object at once.  Sender and receiver of a peer have        *)
(* connections of their own, and the main thread, whose exchangers send and *)
(* receive on the first of them, does so only when nothing is asked of      *)
(* either (CryptoPlayer::CryptoPlayer, pass_around_no_stats).               *)
OneThreadEach ==
  layers = 2 => \A p \in Party : pc[p] = "done" =>
                  \A a, b \in AtWork(p) : a[2] = b[2] => a[1] = b[1]
=============================================================================
