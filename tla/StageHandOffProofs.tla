------------------------- MODULE StageHandOffProofs -------------------------
(***************************************************************************)
(* For any number of executions and deaths, and any room in the queue: a   *)
(* normal execution leaves no queue behind, and the one after it works on  *)
(* its own messages only, none of which is removed before it was taken.    *)
(***************************************************************************)
EXTENDS StageHandOff, SequenceTheorems, WellFoundedInduction, TLAPS

(* Every variable holds a value of its kind (poc_main2fork.cpp, ipc_msg.h). *)
TypeOK ==
  /\ run \in Run
  /\ one \in {"phase_one", "init", "send", "ack", "remove", "check", "ended", "died"}
  /\ two \in {"setup", "init", "recv", "ack", "phase_two", "wait", "ended", "died"}
  /\ n1 \in 1 .. Ack /\ n2 \in 1 .. Ack
  /\ queue \in [id : Nat, msgs : Seq(Message)]
  /\ created \in Nat /\ q1 \in Nat /\ q2 \in Nat
  /\ took \in [Kind -> Nat]
  /\ clean \in BOOLEAN

Has(k) == \E j \in DOMAIN queue.msgs : queue.msgs[j].kind = k

\* Stage two has taken all messages of this execution and acknowledged them.
Done == /\ \A k \in Kind : took[k] = run
        /\ two \in {"phase_two", "wait", "ended", "died"}

(* Which queue there is.  Only stage one removes one, and once; a queue     *)
(* made after that is stage two's alone, who then waits for a first message *)
(* that nobody sends.                                                       *)
QueueOK ==
  /\ queue.id = 0 => queue.msgs = <<>>
  /\ queue.id <= created
  /\ one \in {"send", "ack", "remove"} => queue.id = q1 /\ q1 # 0
  /\ two \in {"recv", "ack", "phase_two", "wait", "ended"} =>
       /\ queue.id \in {0, q2} /\ q2 # 0
       /\ one \in {"phase_one", "init"} => queue.id = q2
  /\ one = "send" => n1 \in Kind
  /\ two = "recv" => n2 \in Kind
  /\ two = "ack" => n2 = Ack
  /\ one \in {"phase_one", "init"} => n1 = 1
  /\ two \in {"setup", "init"} => n2 = 1
  /\ one \in {"check", "ended"} =>
       \/ queue.id = 0
       \/ queue.msgs = <<>> /\ two \in {"recv", "died"} /\ n2 = 1

(* An execution after a normal one begins without a queue.                  *)
CleanOK ==
  clean =>
    /\ \A j \in DOMAIN queue.msgs : queue.msgs[j].run = run
    /\ Has(Ack) \/ one \in {"remove", "check", "ended"} => Done
    /\ two \in {"recv", "ack"} => queue.id = q2
    /\ \A k \in Kind : took[k] \in {None, run}
    /\ two \in {"recv", "ack"} => \A k \in Kind : k < n2 => took[k] = run

IInv == TypeOK /\ QueueOK /\ CleanOK

-----------------------------------------------------------------------------
(* A set of positions that is not empty has a least one.                    *)
LEMMA OldestIs ==
  ASSUME TypeOK, NEW k, Positions(k) # {}
  PROVE  Oldest(k) \in DOMAIN queue.msgs /\ queue.msgs[Oldest(k)].kind = k
<1>1. Positions(k) \subseteq Nat /\ Positions(k) \subseteq DOMAIN queue.msgs
  BY DEF TypeOK, Positions
<1>2. PICK i \in Positions(k) :
        \A j \in Positions(k) : ~ (<<j, i>> \in OpToRel(<, Nat))
  BY <1>1, NatLessThanWellFounded, WFMin
<1>3. ASSUME NEW j \in Positions(k) PROVE i <= j
  <2>1. i \in Nat /\ j \in Nat
    BY <1>1
  <2>2. j < i => <<j, i>> \in OpToRel(<, Nat)
    BY <2>1 DEF OpToRel
  <2>3. ~ (j < i)
    BY <2>2, <1>2
  <2> QED BY <2>1, <2>3
<1>4. Oldest(k) \in Positions(k)
  BY <1>3 DEF Oldest
<1> QED BY <1>4, <1>1 DEF Positions

(* Taking a message out leaves others only.                                 *)
LEMMA RemovedOne ==
  ASSUME NEW S, NEW s \in Seq(S), NEW i \in DOMAIN s
  PROVE  /\ RemoveAt(s, i) \in Seq(S)
         /\ \A j \in DOMAIN RemoveAt(s, i) :
              \E k \in DOMAIN s : RemoveAt(s, i)[j] = s[k]
<1> DEFINE a == SubSeq(s, 1, i - 1)
           b == SubSeq(s, i + 1, Len(s))
<1>1. i \in 1 .. Len(s) /\ Len(s) \in Nat
  OBVIOUS
<1>2. a \in Seq(S) /\ Len(a) = i - 1 /\ \A j \in 1 .. i - 1 : a[j] = s[j]
  BY <1>1
<1>3. b \in Seq(S) /\ Len(b) = Len(s) - i /\ \A j \in 1 .. Len(s) - i : b[j] = s[i + j]
  BY <1>1
<1>4. RemoveAt(s, i) = a \o b
  BY DEF RemoveAt
<1> HIDE DEF a, b
<1>5. a \o b \in Seq(S) /\ Len(a \o b) = Len(s) - 1
  BY <1>1, <1>2, <1>3
<1>6. ASSUME NEW j \in 1 .. Len(s) - 1
      PROVE  \E k \in DOMAIN s : (a \o b)[j] = s[k]
  <2>0. i \in Int /\ j \in Int /\ Len(s) \in Int
    BY <1>1
  <2>1. CASE j <= i - 1
    <3>1. (a \o b)[j] = a[j]
      BY <2>1, <1>1, <1>2, <1>3
    <3> QED BY <3>1, <2>1, <1>1, <1>2
  <2>2. CASE j > i - 1
    <3>0. /\ a \in Seq(S) /\ b \in Seq(S) /\ Len(a) = i - 1
          /\ j \in 1 .. Len(a) + Len(b) /\ ~ (j <= Len(a))
      BY <2>2, <2>0, <1>1, <1>2, <1>3
    <3>1. (a \o b)[j] = b[j - (i - 1)]
      BY <3>0, ConcatProperties
    <3>2. j - (i - 1) \in 1 .. Len(s) - i /\ i + (j - (i - 1)) \in 1 .. Len(s)
      BY <2>2, <1>1
    <3>3. DOMAIN s = 1 .. Len(s)
      OBVIOUS
    <3> QED BY <3>1, <3>2, <3>3, <1>3
  <2>3. j <= i - 1 \/ j > i - 1
    BY <2>0
  <2> QED BY <2>1, <2>2, <2>3
<1>7. DOMAIN (a \o b) = 1 .. Len(s) - 1
  BY <1>1, <1>5
<1> QED BY <1>4, <1>5, <1>6, <1>7

(* msgrcv: a message of the queue goes, and the others stay as they are.    *)
LEMMA TookOut ==
  ASSUME TypeOK, NEW k, Positions(k) # {}, TakeOut(Oldest(k))
  PROVE  /\ queue' \in [id : Nat, msgs : Seq(Message)] /\ queue'.id = queue.id
         /\ \A j \in DOMAIN queue'.msgs : \E l \in DOMAIN queue.msgs :
              queue'.msgs[j] = queue.msgs[l]
         /\ queue.msgs # <<>>
<1>1. queue.msgs \in Seq(Message) /\ queue.id \in Nat
  BY DEF TypeOK
<1>2. Oldest(k) \in DOMAIN queue.msgs
  BY OldestIs
<1>3. queue' = [queue EXCEPT !.msgs = RemoveAt(queue.msgs, Oldest(k))]
  BY DEF TakeOut
<1>4. queue'.id = queue.id /\ queue'.msgs = RemoveAt(queue.msgs, Oldest(k))
  BY <1>3 DEF TypeOK
<1>5. RemoveAt(queue.msgs, Oldest(k)) \in Seq(Message)
  BY <1>1, <1>2, RemovedOne
<1>6. queue' \in [id : Nat, msgs : Seq(Message)]
  BY <1>3, <1>5 DEF TypeOK
<1>7. queue.msgs # <<>>
  BY <1>2
<1>8. \A j \in DOMAIN queue'.msgs : \E l \in DOMAIN queue.msgs : queue'.msgs[j] = queue.msgs[l]
  BY <1>1, <1>2, <1>4, RemovedOne
<1> QED BY <1>4, <1>6, <1>7, <1>8

(* msgsnd: one message of this execution comes to those that are there.     *)
LEMMA PutOne ==
  ASSUME TypeOK, NEW q, NEW k \in 1 .. Ack, Put(q, k), queue.id = q
  PROVE  /\ queue' \in [id : Nat, msgs : Seq(Message)] /\ queue'.id = queue.id
         /\ \A j \in DOMAIN queue'.msgs :
              \/ j \in DOMAIN queue.msgs /\ queue'.msgs[j] = queue.msgs[j]
              \/ queue'.msgs[j] = [kind |-> k, run |-> run]
<1> DEFINE m == [kind |-> k, run |-> run]
<1>1. m \in Message /\ queue.msgs \in Seq(Message)
  BY DEF Message, TypeOK
<1>2. queue' = [queue EXCEPT !.msgs = Append(queue.msgs, m)]
  BY DEF Put
<1>3. queue'.id = queue.id /\ queue'.msgs = Append(queue.msgs, m)
  BY <1>2 DEF TypeOK
<1> HIDE DEF m
<1>4. Append(queue.msgs, m) \in Seq(Message)
  BY <1>1
<1>5. \A j \in DOMAIN Append(queue.msgs, m) :
         (j \in DOMAIN queue.msgs /\ Append(queue.msgs, m)[j] = queue.msgs[j])
           \/ Append(queue.msgs, m)[j] = m
  BY <1>1
<1>6. queue' \in [id : Nat, msgs : Seq(Message)]
  BY <1>2, <1>4 DEF TypeOK
<1> QED BY <1>3, <1>5, <1>6 DEF m

-----------------------------------------------------------------------------
(* The first execution starts without a queue.                              *)
LEMMA InitInv == Init => IInv
<1> SUFFICES ASSUME Init PROVE IInv
  OBVIOUS
<1> USE DEF Init, NoQueue
<1>1. TypeOK
  <2>1. <<>> \in Seq(Message)
    OBVIOUS
  <2> QED BY <2>1, BoundAssumption DEF TypeOK, Run, Kind, Ack, None
<1>2. QueueOK
  BY DEF QueueOK
<1>3. CleanOK
  BY DEF CleanOK, Has, Kind, None
<1> QED BY <1>1, <1>2, <1>3 DEF IInv

(* Steps that leave the queue and what was taken from it alone.             *)
LEMMA PhaseOneInv == ASSUME IInv, PhaseOne PROVE IInv'
<1> USE DEF IInv, PhaseOne, oneVars, twoVars
<1>1. TypeOK'
  BY DEF TypeOK
<1>2. QueueOK'
  BY DEF QueueOK
<1>3. CleanOK'
  BY DEF CleanOK, Has, Done
<1> QED BY <1>1, <1>2, <1>3

LEMMA EndOneInv == ASSUME IInv, EndOne PROVE IInv'
<1> USE DEF IInv, EndOne, oneVars, twoVars
<1>1. TypeOK'
  BY DEF TypeOK
<1>2. QueueOK'
  BY DEF QueueOK
<1>3. CleanOK'
  BY DEF CleanOK, Has, Done
<1> QED BY <1>1, <1>2, <1>3

LEMMA SetupInv == ASSUME IInv, Setup PROVE IInv'
<1> USE DEF IInv, Setup, oneVars, twoVars
<1>1. TypeOK'
  BY DEF TypeOK
<1>2. QueueOK'
  BY DEF QueueOK
<1>3. CleanOK'
  BY DEF CleanOK, Has, Done
<1> QED BY <1>1, <1>2, <1>3

LEMMA PhaseTwoInv == ASSUME IInv, PhaseTwo PROVE IInv'
<1> USE DEF IInv, PhaseTwo, oneVars, twoVars
<1>1. TypeOK'
  BY DEF TypeOK
<1>2. QueueOK'
  BY DEF QueueOK
<1>3. CleanOK'
  BY DEF CleanOK, Has, Done
<1> QED BY <1>1, <1>2, <1>3

LEMMA WaitPidInv == ASSUME IInv, WaitPid PROVE IInv'
<1> USE DEF IInv, WaitPid, oneVars, twoVars
<1>1. TypeOK'
  BY DEF TypeOK
<1>2. QueueOK'
  BY DEF QueueOK
<1>3. CleanOK'
  BY DEF CleanOK, Has, Done
<1> QED BY <1>1, <1>2, <1>3

LEMMA DieInv == ASSUME IInv, Die PROVE IInv'
<1> USE DEF IInv, Die, Gone
<1>1. TypeOK'
  BY DEF TypeOK
<1>2. QueueOK'
  BY DEF QueueOK
<1>3. CleanOK'
  BY DEF CleanOK, Has, Done
<1> QED BY <1>1, <1>2, <1>3

-----------------------------------------------------------------------------
(* msgget: the queue that is there, or a new and empty one.                 *)
LEMMA OpenedOne ==
  ASSUME IInv, Open
  PROVE  /\ queue' = Opened /\ queue' \in [id : Nat, msgs : Seq(Message)]
         /\ created' \in Nat /\ queue'.id \in Nat \ {0} /\ queue'.id <= created'
         /\ \/ queue.id # 0 /\ queue' = queue
            \/ queue.id = 0 /\ queue'.msgs = <<>>
<1> USE DEF IInv
<1>1. queue \in [id : Nat, msgs : Seq(Message)] /\ created \in Nat
  BY DEF TypeOK
<1>2. <<>> \in Seq(Message)
  OBVIOUS
<1>3. CASE queue.id = 0
  <2>1. queue' = [id |-> created + 1, msgs |-> <<>>] /\ created' = created + 1
    BY <1>3 DEF Open, Opened
  <2> QED BY <2>1, <1>1, <1>2, <1>3 DEF Open
<1>4. CASE queue.id # 0
  <2>1. queue' = queue /\ created' = created
    BY <1>4 DEF Open, Opened
  <2>2. queue.id <= created
    BY DEF QueueOK
  <2> QED BY <2>1, <2>2, <1>1, <1>4 DEF Open
<1> QED BY <1>3, <1>4

LEMMA InitOneInv == ASSUME IInv, InitOne PROVE IInv'
<1> USE DEF IInv, InitOne, twoVars
<1>1. /\ queue' \in [id : Nat, msgs : Seq(Message)] /\ created' \in Nat
      /\ queue'.id \in Nat \ {0} /\ queue'.id <= created' /\ q1' = queue'.id
      /\ \/ queue.id # 0 /\ queue' = queue
         \/ queue.id = 0 /\ queue'.msgs = <<>>
  BY OpenedOne
<1>2. TypeOK'
  BY <1>1 DEF TypeOK
<1>3. QueueOK'
  <2>1. n1 = 1
    BY DEF QueueOK
  <2> QED BY <1>1, <2>1 DEF QueueOK, Kind
<1>4. CleanOK'
  BY <1>1 DEF CleanOK, QueueOK, Has, Done
<1> QED BY <1>2, <1>3, <1>4

LEMMA InitTwoInv == ASSUME IInv, InitTwo PROVE IInv'
<1> USE DEF IInv, InitTwo, oneVars
<1>1. /\ queue' \in [id : Nat, msgs : Seq(Message)] /\ created' \in Nat
      /\ queue'.id \in Nat \ {0} /\ queue'.id <= created' /\ q2' = queue'.id
      /\ \/ queue.id # 0 /\ queue' = queue
         \/ queue.id = 0 /\ queue'.msgs = <<>>
  BY OpenedOne
<1>2. TypeOK'
  BY <1>1 DEF TypeOK
<1>3. QueueOK'
  <2>1. n2 = 1 /\ 1 \in Kind
    BY DEF QueueOK, Kind
  <2> QED BY <1>1, <2>1 DEF QueueOK
<1>4. CleanOK'
  <2> SUFFICES ASSUME clean PROVE CleanOK'
    BY DEF CleanOK
  <2>1. n2 = 1
    BY DEF QueueOK
  <2>2. ~ Has(Ack) /\ one \notin {"remove", "check", "ended"}
    BY DEF CleanOK, Done
  <2>3. \A k \in Kind : ~ (k < 1)
    BY DEF Kind
  <2> QED BY <1>1, <2>1, <2>2, <2>3 DEF CleanOK, Has, Done
<1> QED BY <1>2, <1>3, <1>4

LEMMA SendInv == ASSUME IInv, Send PROVE IInv'
<1> USE DEF IInv, Send, twoVars
<1>1. queue.id = q1 /\ n1 \in Kind /\ n1 \in 1 .. Ack /\ n1 # Ack /\ n1 + 1 \in 1 .. Ack
  BY DEF QueueOK, Kind, Ack
<1>2. /\ queue' \in [id : Nat, msgs : Seq(Message)] /\ queue'.id = queue.id
      /\ \A j \in DOMAIN queue'.msgs :
           \/ j \in DOMAIN queue.msgs /\ queue'.msgs[j] = queue.msgs[j]
           \/ queue'.msgs[j] = [kind |-> n1, run |-> run]
  BY <1>1, PutOne
<1>3. TypeOK'
  BY <1>1, <1>2 DEF TypeOK
<1>4. QueueOK'
  <2>1. one' = "send" => n1' \in Kind
    BY <1>1 DEF Kind
  <2>2. queue.id # 0
    BY DEF QueueOK
  <2> QED BY <1>1, <1>2, <2>1, <2>2 DEF QueueOK
<1>5. CleanOK'
  <2>1. Has(Ack)' => Has(Ack)
    BY <1>1, <1>2 DEF Has
  <2>2. clean => \A j \in DOMAIN queue'.msgs : queue'.msgs[j].run = run
    BY <1>2 DEF CleanOK
  <2> QED BY <1>1, <1>2, <2>1, <2>2 DEF CleanOK, Done
<1> QED BY <1>3, <1>4, <1>5

LEMMA AwaitAckInv == ASSUME IInv, AwaitAck PROVE IInv'
<1> USE DEF IInv, AwaitAck, twoVars
<1>1. queue.id = q1 /\ q1 # 0
  BY DEF QueueOK
<1>2. Positions(Ack) # {} /\ TakeOut(Oldest(Ack))
  BY <1>1
<1>3. /\ queue' \in [id : Nat, msgs : Seq(Message)] /\ queue'.id = queue.id
      /\ \A j \in DOMAIN queue'.msgs : \E l \in DOMAIN queue.msgs :
           queue'.msgs[j] = queue.msgs[l]
  BY <1>2, TookOut
<1>4. Has(Ack)
  BY <1>2 DEF Positions, Has
<1>5. TypeOK'
  BY <1>3 DEF TypeOK
<1>6. QueueOK'
  BY <1>1, <1>3 DEF QueueOK
<1>7. CleanOK'
  <2>1. clean => \A j \in DOMAIN queue'.msgs : queue'.msgs[j].run = run
    BY <1>3 DEF CleanOK
  <2> QED BY <1>3, <1>4, <2>1 DEF CleanOK, Done
<1> QED BY <1>5, <1>6, <1>7

LEMMA RemoveQueueInv == ASSUME IInv, RemoveQueue PROVE IInv'
<1> USE DEF IInv, RemoveQueue, twoVars
<1>1. queue' = NoQueue /\ queue'.id = 0 /\ queue'.msgs = <<>>
  BY DEF QueueOK, NoQueue
<1>2. TypeOK'
  <2>1. <<>> \in Seq(Message)
    OBVIOUS
  <2> QED BY <1>1, <2>1 DEF TypeOK, NoQueue
<1>3. QueueOK'
  BY <1>1 DEF QueueOK, TypeOK
<1>4. CleanOK'
  BY <1>1 DEF CleanOK, Has, Done
<1> QED BY <1>2, <1>3, <1>4

LEMMA AcknowledgeInv == ASSUME IInv, Acknowledge PROVE IInv'
<1> USE DEF IInv, Acknowledge, oneVars
<1>1. n2 = Ack /\ q2 # 0 /\ queue.id \in {0, q2}
  BY DEF QueueOK
<1>2. CASE queue.id = q2
  <2>1. /\ queue' \in [id : Nat, msgs : Seq(Message)] /\ queue'.id = queue.id
        /\ \A j \in DOMAIN queue'.msgs :
             \/ j \in DOMAIN queue.msgs /\ queue'.msgs[j] = queue.msgs[j]
             \/ queue'.msgs[j] = [kind |-> Ack, run |-> run]
    BY <1>2, PutOne DEF Ack
  <2>2. TypeOK'
    BY <2>1 DEF TypeOK
  <2>3. QueueOK'
    BY <1>1, <1>2, <2>1 DEF QueueOK
  <2>4. CleanOK'
    <3>1. clean => \A j \in DOMAIN queue'.msgs : queue'.msgs[j].run = run
      BY <2>1 DEF CleanOK
    <3>2. clean => Done'
      BY <1>1 DEF CleanOK, Done, Kind, Ack
    <3> QED BY <3>1, <3>2 DEF CleanOK
  <2> QED BY <2>2, <2>3, <2>4
<1>3. CASE queue.id # q2
  <2>1. queue' = queue /\ queue.id = 0
    BY <1>1, <1>3 DEF Put
  <2>2. TypeOK'
    BY <2>1 DEF TypeOK
  <2>3. QueueOK'
    BY <1>1, <2>1 DEF QueueOK
  <2>4. CleanOK'
    BY <1>3, <2>1 DEF CleanOK
  <2> QED BY <2>2, <2>3, <2>4
<1> QED BY <1>2, <1>3

LEMMA TakeInv == ASSUME IInv, Take PROVE IInv'
<1> USE DEF IInv, Take, oneVars
<1>1. n2 \in Kind /\ n2 \in Nat /\ n2 + 1 \in 1 .. Ack /\ q2 # 0 /\ queue.id \in {0, q2}
  BY DEF QueueOK, Kind, Ack
<1>2. /\ two' = "ack" => n2' = Ack
      /\ two' = "recv" => n2' \in Kind
      /\ two' \in {"recv", "ack"}
  BY <1>1 DEF Kind, Ack
<1>3. CASE queue.id # q2
  <2>1. took' = [took EXCEPT ![n2] = Garbage] /\ queue' = queue
    BY <1>3
  <2>2. TypeOK'
    <3>1. Garbage \in Nat
      BY BoundAssumption DEF Garbage
    <3> QED BY <1>1, <1>2, <2>1, <3>1 DEF TypeOK
  <2>3. QueueOK'
    BY <1>1, <1>2, <1>3, <2>1 DEF QueueOK
  <2>4. CleanOK'
    BY <1>3 DEF CleanOK
  <2> QED BY <2>2, <2>3, <2>4
<1>4. CASE queue.id = q2
  <2>1. /\ Positions(n2) # {} /\ TakeOut(Oldest(n2))
        /\ took' = [took EXCEPT ![n2] = queue.msgs[Oldest(n2)].run]
    BY <1>4
  <2>2. /\ queue' \in [id : Nat, msgs : Seq(Message)] /\ queue'.id = queue.id
        /\ \A j \in DOMAIN queue'.msgs : \E l \in DOMAIN queue.msgs :
             queue'.msgs[j] = queue.msgs[l]
        /\ queue.msgs # <<>>
    BY <2>1, TookOut
  <2>3. Oldest(n2) \in DOMAIN queue.msgs
    BY <2>1, OldestIs
  <2>4. TypeOK'
    <3>1. queue.msgs[Oldest(n2)] \in Message
      BY <2>3 DEF TypeOK
    <3>2. queue.msgs[Oldest(n2)].run \in Nat
      BY <3>1 DEF Message, Run
    <3> QED BY <1>1, <1>2, <2>1, <2>2, <3>2 DEF TypeOK
  <2>5. QueueOK'
    <3>1. one \notin {"check", "ended"}
      BY <1>1, <1>4, <2>2 DEF QueueOK
    <3> QED BY <1>1, <1>2, <1>4, <2>2, <3>1 DEF QueueOK
  <2>6. CleanOK'
    <3> SUFFICES ASSUME clean PROVE CleanOK'
      BY DEF CleanOK
    <3>1. queue.msgs[Oldest(n2)].run = run
      BY <2>3 DEF CleanOK
    <3>2. took \in [Kind -> Nat]
      BY DEF TypeOK
    <3>3. took'[n2] = run /\ \A k \in Kind : k # n2 => took'[k] = took[k]
      BY <1>1, <2>1, <3>1, <3>2
    <3>4. \A k \in Kind : k < n2 + 1 => took'[k] = run
      BY <1>1, <3>3 DEF CleanOK, Kind
    <3>5. \A k \in Kind : took'[k] \in {None, run}
      BY <3>3 DEF CleanOK
    <3>6. \A j \in DOMAIN queue'.msgs : queue'.msgs[j].run = run
      BY <2>2 DEF CleanOK
    <3>7. ~ Has(Ack) /\ one \notin {"remove", "check", "ended"}
      BY DEF CleanOK, Done
    <3>8. ~ Has(Ack)'
      BY <2>2, <3>7 DEF Has
    <3> QED BY <1>2, <1>4, <2>2, <3>4, <3>5, <3>6, <3>7, <3>8 DEF CleanOK
  <2> QED BY <2>4, <2>5, <2>6
<1> QED BY <1>3, <1>4

LEMMA RerunInv == ASSUME IInv, Rerun PROVE IInv'
<1> USE DEF IInv, Rerun
<1>1. TypeOK'
  BY BoundAssumption DEF TypeOK, Run, Kind, Ack, None
<1>2. QueueOK'
  BY DEF QueueOK
<1>3. CleanOK'
  <2> SUFFICES ASSUME clean' PROVE CleanOK'
    BY DEF CleanOK
  <2>1. queue.msgs = <<>> /\ queue' = queue
    BY DEF QueueOK
  <2>2. \A j \in DOMAIN queue'.msgs : FALSE
    BY <2>1
  <2> QED BY <2>1, <2>2 DEF CleanOK, Has, Kind
<1> QED BY <1>1, <1>2, <1>3

LEMMA StutterInv == ASSUME IInv, UNCHANGED vars PROVE IInv'
BY DEF IInv, vars, oneVars, twoVars, TypeOK, QueueOK, CleanOK, Has, Done

-----------------------------------------------------------------------------
(* The inductive invariant holds in every state, however many executions,   *)
(* deaths, and messages the queue has room for (poc_main2fork.cpp, run).    *)
THEOREM Invariance == Spec => []IInv
<1>1. IInv /\ [Next]_vars => IInv'
  <2> SUFFICES ASSUME IInv, [Next]_vars PROVE IInv'
    OBVIOUS
  <2>1. CASE StageOne
    BY <2>1, PhaseOneInv, InitOneInv, SendInv, AwaitAckInv, RemoveQueueInv, EndOneInv
       DEF StageOne
  <2>2. CASE StageTwo
    BY <2>2, SetupInv, InitTwoInv, TakeInv, AcknowledgeInv, PhaseTwoInv, WaitPidInv
       DEF StageTwo
  <2>3. CASE Die
    BY <2>3, DieInv
  <2>4. CASE Rerun
    BY <2>4, RerunInv
  <2>5. CASE UNCHANGED vars
    BY <2>5, StutterInv
  <2> QED BY <2>1, <2>2, <2>3, <2>4, <2>5 DEF Next
<1> QED BY InitInv, <1>1, PTL DEF Spec

(* After a normal execution stage two takes what stage one of the same      *)
(* execution sent, and nothing else.                                        *)
THEOREM AlwaysFresh == Spec => []FreshBits
<1>1. IInv => FreshBits
  BY DEF IInv, CleanOK, FreshBits
<1> QED BY <1>1, Invariance, PTL

(* After a normal execution the queue is removed only when stage two has    *)
(* taken and acknowledged all messages.                                     *)
THEOREM AlwaysRemovedAfter == Spec => []RemovedAfterTaken
<1>1. IInv => RemovedAfterTaken
  BY DEF IInv, CleanOK, Done, RemovedAfterTaken
<1> QED BY <1>1, Invariance, PTL

(* An execution of two normal ends leaves no queue, whatever it found.      *)
THEOREM NeverQueueLeft == Spec => []NoQueueLeft
<1>1. IInv => NoQueueLeft
  BY DEF IInv, QueueOK, NoQueueLeft
<1> QED BY <1>1, Invariance, PTL
=============================================================================
