---------------------------- MODULE StageHandOff ----------------------------
(***************************************************************************)
(* poc_main2fork.cpp on one host: the program forks; the child runs stage  *)
(* one (381-bit field) and hands the bits of the ephemeral key to the      *)
(* parent, which runs stage two (256-bit field), over a System V message   *)
(* queue named after the party (ipc_msg.h).  The queue belongs to the      *)
(* kernel: it outlives both processes, and the next execution of the       *)
(* program finds it unless stage one removed it.                           *)
(*                                                                         *)
(* Messages are taken by type: 1 the number of bits, 2 the length of the   *)
(* text, 3 the text, 4 the acknowledgement that lets stage one remove the  *)
(* queue.  A message is modelled by its type and the execution that sent   *)
(* it.  No return value of the queue calls is looked at by the program: a  *)
(* call on a queue that has been removed fails and the process goes on     *)
(* with whatever its buffer held.                                          *)
(***************************************************************************)
EXTENDS Naturals, Sequences, SequencesExt

CONSTANTS
  MaxRuns,    \* bound: executions of the program, one after the other
  MaxCrashes, \* bound: processes that die (an exception, a signal)
  Room,       \* messages the queue holds before msgsnd blocks (msgmnb)
  Local(_),   \* local_bits of stage one in execution r, a sequence of 0 and 1
  Reveal(_)   \* reveal_bits of stage one in execution r, as long as Local(r)

Run  == 1 .. MaxRuns
Kind == 1 .. 3            \* what stage one sends
Ack  == 4

None    == 0              \* stage two has not taken this kind yet
Garbage == MaxRuns + 1    \* its msgrcv failed: the buffer as it was

ASSUME BoundAssumption ==
  /\ MaxRuns \in Nat \ {0} /\ Room \in Nat \ {0} /\ MaxCrashes \in Nat

Message == [kind : 1 .. Ack, run : Run]

VARIABLES
  run,      \* the current execution
  one, two, \* where its stage one and its stage two stand
  n1, n2,   \* the kind stage one sends next, the kind stage two takes next
  queue,    \* the kernel's queue of this party: its id, 0 when there is none
  created,  \* ids given out so far
  q1, q2,   \* msg.id of stage one and of stage two, 0 before msgget
  took,     \* took[k]: the execution whose message of kind k stage two took
  crashes,
  clean     \* the previous execution ended normally in both processes

oneVars == <<one, n1, q1>>
twoVars == <<two, n2, q2, took>>
vars == <<run, oneVars, twoVars, queue, created, crashes, clean>>

NoQueue == [id |-> 0, msgs |-> <<>>]

Init ==
  /\ one = "phase_one" /\ two = "setup"
  /\ n1 = 1 /\ n2 = 1 /\ q1 = 0 /\ q2 = 0
  /\ took = [k \in Kind |-> None]
  /\ run = 1 /\ queue = NoQueue /\ created = 0 /\ crashes = 0 /\ clean = TRUE

(* ipc_msg_init: msgget(key, IPC_CREAT) makes the queue when there is none. *)
Opened == IF queue.id = 0 THEN [id |-> created + 1, msgs |-> <<>>] ELSE queue

Open ==
  /\ queue' = Opened
  /\ created' = IF queue.id = 0 THEN created + 1 ELSE created

(* ipc_msg_send: an error when queue q is gone, else msgsnd blocks while it *)
(* is full.                                                                 *)
Put(q, k) ==
  IF queue.id # q THEN UNCHANGED queue
  ELSE /\ Len(queue.msgs) < Room
       /\ queue' = [queue EXCEPT !.msgs = Append(@, [kind |-> k, run |-> run])]

(* ipc_msg_recv: msgrcv takes the oldest message of the type asked for.     *)
Positions(k) == {i \in DOMAIN queue.msgs : queue.msgs[i].kind = k}
Oldest(k)    == CHOOSE i \in Positions(k) : \A j \in Positions(k) : i <= j
TakeOut(i)   == queue' = [queue EXCEPT !.msgs = RemoveAt(@, i)]

-----------------------------------------------------------------------------
(* The child, run() with stage = 1.                                         *)

\* Networking, key generation and phase one of the ephemeral key are over.
PhaseOne ==
  /\ one = "phase_one" /\ one' = "init"
  /\ UNCHANGED <<run, n1, q1, twoVars, queue, created, crashes, clean>>

InitOne ==
  /\ one = "init" /\ one' = "send"
  /\ Open /\ q1' = Opened.id
  /\ UNCHANGED <<run, n1, twoVars, crashes, clean>>

Send ==
  /\ one = "send"
  /\ Put(q1, n1)
  /\ n1' = n1 + 1
  /\ one' = IF n1 = 3 THEN "ack" ELSE "send"
  /\ UNCHANGED <<run, q1, twoVars, created, crashes, clean>>

(* Mutant: stage one removes the queue without waiting for type 4.          *)
RemovesAtOnce ==
  /\ one = "ack" /\ one' = "remove"
  /\ UNCHANGED <<run, n1, q1, twoVars, queue, created, crashes, clean>>

(* Stage one waits for type 4, in the buffer it sent the text from.         *)
AwaitAck ==
  /\ one = "ack" /\ one' = "remove"
  /\ IF queue.id # q1 THEN UNCHANGED queue
     ELSE Positions(Ack) # {} /\ TakeOut(Oldest(Ack))
  /\ UNCHANGED <<run, n1, q1, twoVars, created, crashes, clean>>

(* Mutant: the queue is emptied and left there.                             *)
EmptiesQueue ==
  /\ one = "remove" /\ one' = "check"
  /\ queue' = IF queue.id = q1 THEN [queue EXCEPT !.msgs = <<>>] ELSE queue
  /\ UNCHANGED <<run, n1, q1, twoVars, created, crashes, clean>>

(* ipc_msg_uninit: IPC_RMID, an error when the queue is gone already.       *)
RemoveQueue ==
  /\ one = "remove" /\ one' = "check"
  /\ queue' = IF queue.id = q1 THEN NoQueue ELSE queue
  /\ UNCHANGED <<run, n1, q1, twoVars, created, crashes, clean>>

\* output.Check(P), teardown, return from main.
EndOne ==
  /\ one = "check" /\ one' = "ended"
  /\ UNCHANGED <<run, n1, q1, twoVars, queue, created, crashes, clean>>

-----------------------------------------------------------------------------
(* The parent, run() with stage = 2.                                        *)

Setup ==
  /\ two = "setup" /\ two' = "init"
  /\ UNCHANGED <<run, n2, q2, took, oneVars, queue, created, crashes, clean>>

InitTwo ==
  /\ two = "init" /\ two' = "recv"
  /\ Open /\ q2' = Opened.id
  /\ UNCHANGED <<run, n2, took, oneVars, crashes, clean>>

Take ==
  /\ two = "recv"
  /\ IF queue.id # q2
     THEN took' = [took EXCEPT ![n2] = Garbage] /\ UNCHANGED queue
     ELSE /\ Positions(n2) # {}
          /\ took' = [took EXCEPT ![n2] = queue.msgs[Oldest(n2)].run]
          /\ TakeOut(Oldest(n2))
  /\ n2' = n2 + 1
  /\ two' = IF n2 = 3 THEN "ack" ELSE "recv"
  /\ UNCHANGED <<run, q2, oneVars, created, crashes, clean>>

(* Mutant: stage two goes on without acknowledging.                         *)
NoAcknowledge ==
  /\ two = "ack" /\ two' = "phase_two"
  /\ UNCHANGED <<run, n2, q2, took, oneVars, queue, created, crashes, clean>>

(* Type 4: stage one may remove the queue.                                  *)
Acknowledge ==
  /\ two = "ack" /\ two' = "phase_two"
  /\ Put(q2, Ack)
  /\ UNCHANGED <<run, n2, q2, took, oneVars, created, crashes, clean>>

\* Phase two, the custody bits, output.Check(P), teardown.
PhaseTwo ==
  /\ two = "phase_two" /\ two' = "wait"
  /\ UNCHANGED <<run, n2, q2, took, oneVars, queue, created, crashes, clean>>

WaitPid ==
  /\ two = "wait" /\ one \in {"ended", "died"} /\ two' = "ended"
  /\ UNCHANGED <<run, n2, q2, took, oneVars, queue, created, crashes, clean>>

-----------------------------------------------------------------------------
Gone(at) == at \in {"ended", "died"}

Die ==
  /\ crashes < MaxCrashes /\ crashes' = crashes + 1
  /\ \/ ~ Gone(one) /\ one' = "died" /\ UNCHANGED two
     \/ ~ Gone(two) /\ two' = "died" /\ UNCHANGED one
  /\ UNCHANGED <<run, n1, q1, n2, q2, took, queue, created, clean>>

(* The next execution: both processes start over, the kernel's queue stays. *)
Rerun ==
  /\ Gone(one) /\ Gone(two) /\ run < MaxRuns
  /\ run' = run + 1
  /\ clean' = (one = "ended" /\ two = "ended")
  /\ one' = "phase_one" /\ two' = "setup"
  /\ n1' = 1 /\ n2' = 1 /\ q1' = 0 /\ q2' = 0
  /\ took' = [k \in Kind |-> None]
  /\ UNCHANGED <<queue, created, crashes>>

StageOne == PhaseOne \/ InitOne \/ Send \/ AwaitAck \/ RemoveQueue \/ EndOne
StageTwo == Setup \/ InitTwo \/ Take \/ Acknowledge \/ PhaseTwo \/ WaitPid

Next == StageOne \/ StageTwo \/ Die \/ Rerun

Spec == Init /\ [][Next]_vars

(* Both processes run until they block; nobody has to die or be rerun.      *)
FairSpec == Spec /\ WF_vars(StageOne) /\ WF_vars(StageTwo)

-----------------------------------------------------------------------------
(* What stage two makes of the text (poc_main2fork.cpp 210-217, 275-285).   *)

(* The bits are written one after the other, with nothing in between.       *)
Text(r) == Local(r) \o Reveal(r)

(* "is >> x" takes all the digits up to the next blank: the whole text is   *)
(* one number, and every later extraction fails and leaves 0.               *)
Number(digits) == FoldLeft(LAMBDA acc, d : 10 * acc + d, 0, digits)
Numbers(text)  == IF text = <<>> THEN <<>> ELSE <<Number(text)>>
Nth(text, i)   == IF i \in DOMAIN Numbers(text) THEN Numbers(text)[i] ELSE 0

(* The second loop starts at index 10, so the first ten are never read.     *)
ReadLocal(r, size)  == [i \in 1 .. size |-> Nth(Text(r), i)]
ReadReveal(r, size) ==
  [i \in 1 .. size |-> IF i <= 10 THEN 0 ELSE Nth(Text(r), size + i - 10)]

-----------------------------------------------------------------------------
(* Properties.                                                              *)

(***************************************************************************)
(* In an execution that follows one that ended normally, stage two only    *)
(* ever takes what stage one of the same execution sent: no bits of an     *)
(* earlier execution, and no failed receive taken for a message.           *)
(***************************************************************************)
FreshBits == clean => \A k \in Kind : took[k] \in {None, run}

(***************************************************************************)
(* Stage one does not remove the queue under stage two: when it has, stage *)
(* two had taken all three messages and acknowledged them.                 *)
(***************************************************************************)
RemovedAfterTaken ==
  clean /\ one \in {"check", "ended"} =>
    /\ \A k \in Kind : took[k] = run
    /\ two \in {"phase_two", "wait", "ended", "died"}

(***************************************************************************)
(* An execution whose two processes both end normally leaves no queue      *)
(* behind, whatever earlier executions left: the hand-off heals itself.    *)
(***************************************************************************)
NoQueueLeft == one = "ended" /\ two = "ended" => queue.id = 0

(***************************************************************************)
(* After a normal execution, the two processes end unless one of them      *)
(* dies: neither waits for ever on the other's message.                    *)
(***************************************************************************)
HandOffEnds ==
  \A r \in Run :
    (run = r /\ clean)
      ~> (run = r /\ one = "ended" /\ two = "ended") \/ one = "died" \/ two = "died"

(***************************************************************************)
(* "Run stages in two processes" (poc_args.h 76): stage two works on the   *)
(* bits stage one computed, as the one-process program does.               *)
(***************************************************************************)
StageTwoHasTheBits ==
  two \in {"ack", "phase_two"} /\ (\A k \in Kind : took[k] = run) =>
    /\ ReadLocal(run, Len(Local(run)))   = Local(run)
    /\ ReadReveal(run, Len(Reveal(run))) = Reveal(run)
=============================================================================
