-------------------------- MODULE TripleGeneration --------------------------
(***************************************************************************)
(* Preprocessing by oblivious transfer (OT/NPartyTripleGenerator.hpp,      *)
(* OT/OTMultiplier.hpp).  Every party has a main thread, which generates   *)
(* what the program asks for, and one multiplier thread per peer, which    *)
(* runs the two-party protocol with that peer's thread for it.  Main and   *)
(* multipliers hand jobs over through an inbox and an outbox per           *)
(* multiplier (WaitQueue); everything else they share without a lock: the  *)
(* bits to multiply (valueBits), the multipliers' results and the one      *)
(* connection to each peer, since the generator gets the Player that the   *)
(* rest of the program talks over.                                         *)
(*                                                                         *)
(* What a thread does is a script, a sequence of operations with one       *)
(* action for each kind.  A vector of valueBits is the write that filled   *)
(* it: the call and the operation of main.  The consecutive messages of    *)
(* one protocol step are one message, and a queue is ideal: its condition  *)
(* variable wakes nobody without a signal.                                 *)
(***************************************************************************)
EXTENDS Integers, Sequences, FiniteSets

CONSTANTS N,        \* parties
          Loops,    \* nloops: rounds of a generation of triples (1)
          Programs  \* sequences of calls

Parties == 0 .. N - 1
Peers(p) == Parties \ {p}

(* The multipliers are numbered by their peers.                             *)
FirstPeer(p)   == IF p = 0 THEN 1 ELSE 0
NextPeer(p, q) == IF q + 1 = p THEN q + 2 ELSE q + 1

(* buffer_triples and buffer_bits; buffer_inputs of one party.              *)
Triples   == [op |-> "triples", player |-> 0]
Inputs(p) == [op |-> "inputs", player |-> p]
Call      == {Triples} \cup {Inputs(p) : p \in Parties}

ASSUME SizeAssumption == N \in Nat /\ N > 1 /\ Loops \in Nat
ASSUME ProgramAssumption == Programs \subseteq Seq(Call)

Blank == <<0, 0>>  \* bits that nothing has been written into
Go    == [op |-> "go", player |-> 0]
Start == [op |-> "start", player |-> 0]

VARIABLES
  program,    \* the calls every party makes
  call,       \* call[p]: the call p's main is in; 0 is the constructor
  at,         \* at[p]: the operation of its script it is at
  next,       \* next[p]: the peer it collects from, stops or joins
  heard,      \* heard[p]: whom it has heard of in an exchange, with itself
              \* once it has sent
  valueBits,  \* valueBits[p]: the three vectors
  locked,     \* the generator's mutex
  used,       \* used[p]: the writes behind the results it has combined last
  job,        \* job[p][q]: the job of p's multiplier for q
  step,       \* step[p][q]: the operation of the job's script it is at
  inbox, outbox, running,  \* the queues of that multiplier
  result,     \* result[p][q]: the writes behind c_output, macs or input_macs
  chan        \* chan[p][q]: what is under way from p to q

mains   == <<call, at, next, heard, valueBits, locked, used>>
threads == <<job, step, result>>
vars    == <<program, mains, threads, inbox, outbox, running, chan>>

Repeated(s, n) == [i \in 1 .. n * Len(s) |-> s[((i - 1) % Len(s)) + 1]]

-----------------------------------------------------------------------------
(* The script of main.  The constructor waits for the threads; the          *)
(* destructor stops and joins one after the other.                          *)

(* Mutant: the multipliers are sent for before the bits are there.          *)
TripleRoundEarly == <<"go", "randomize", "collect", "combine", "talk",
                      "amplify", "go", "collect", "combine", "talk">>

TripleRound == <<"randomize", "go", "collect", "combine", "talk",
                 "amplify", "go", "collect", "combine", "talk">>

Lead == <<"job", "resize", "collect", "lock">>

(* Mutant: the caller does not unlock.                                      *)
TriplesScriptLocked == Lead \o Repeated(TripleRound, Loops)

TriplesScript == Lead \o Repeated(TripleRound, Loops) \o <<"unlock">>

InputsScript(mine) == <<"shrink", "job">> \o (IF mine THEN <<"randomize", "go">> ELSE <<>>)
                        \o <<"collect", "talk", "combine", "talk">>

MainScript(p) ==
  IF call[p] = 0 THEN <<"collect">>
  ELSE IF call[p] > Len(program) THEN <<"destroy", "ended">>
  ELSE IF program[call[p]].op = "triples" THEN TriplesScript
  ELSE InputsScript(program[call[p]].player = p)

Op(p) == MainScript(p)[at[p]]

(* On to the next operation, or the next call.                              *)
Advance(p) == IF at[p] < Len(MainScript(p))
              THEN at' = [at EXCEPT ![p] = @ + 1] /\ UNCHANGED call
              ELSE at' = [at EXCEPT ![p] = 1] /\ call' = [call EXCEPT ![p] = @ + 1]

(* The script of a multiplier.  Exchange(j) reads the j-th vector, sends    *)
(* and receives; in an opening of inputs the owner only sends.              *)
Exchange(j)  == <<<<"send", j>>, <<"receive", j>>>>
Pop          == <<"pop", 0>>
Answer       == <<"answer", 0>>
KeyExchange  == -1

(* Mutant: an answer before the last exchange.                              *)
MultiplierRoundEarly == <<Pop>> \o Exchange(1) \o <<Answer>> \o Exchange(2) \o <<Pop>>
                          \o Exchange(1) \o Exchange(2) \o Exchange(3) \o <<Answer>>

MultiplierRound == <<Pop>> \o Exchange(1) \o Exchange(2) \o <<Answer, Pop>>
                     \o Exchange(1) \o Exchange(2) \o Exchange(3) \o <<Answer>>

(* Mutant: a multiplier that has no part in an input does not answer.       *)
NoEcho == <<>>

Echo == <<Answer>>

MultiplierScript(p, q) ==
  LET j == job[p][q]
  IN  CASE j.op = "start"   -> Exchange(KeyExchange) \o <<Answer>>
        [] j.op = "triples" -> <<Answer>> \o Repeated(MultiplierRound, Loops)
        [] j.op = "inputs"  -> IF j.player = p THEN <<Pop, <<"send", 1>>, Answer>>
                               ELSE IF j.player = q THEN <<<<"receive", 1>>, Answer>>
                               ELSE Echo
        [] OTHER            -> <<>>

Idle == [op |-> "idle", player |-> 0]
Over == [op |-> "over", player |-> 0]

Does(p, q, kind) == /\ step[p][q] \in DOMAIN MultiplierScript(p, q)
                    /\ MultiplierScript(p, q)[step[p][q]][1] = kind

(* Back in the loop of multiply when the script is over.                    *)
StepOn(p, q) ==
  IF step[p][q] < Len(MultiplierScript(p, q))
  THEN step' = [step EXCEPT ![p][q] = @ + 1] /\ UNCHANGED job
  ELSE step' = [step EXCEPT ![p][q] = 1] /\ job' = [job EXCEPT ![p][q] = Idle]

Init == /\ program \in Programs
        /\ call = [p \in Parties |-> 0] /\ at = [p \in Parties |-> 1]
        /\ next = [p \in Parties |-> FirstPeer(p)] /\ heard = [p \in Parties |-> {}]
        /\ valueBits = [p \in Parties |-> <<>>]
        /\ locked = [p \in Parties |-> FALSE]
        /\ used = [p \in Parties |-> {}]
        /\ job = [p \in Parties |-> [q \in Peers(p) |-> Start]]
        /\ step = [p \in Parties |-> [q \in Peers(p) |-> 1]]
        /\ inbox = [p \in Parties |-> [q \in Peers(p) |-> <<>>]]
        /\ outbox = [p \in Parties |-> [q \in Peers(p) |-> <<>>]]
        /\ running = [p \in Parties |-> [q \in Peers(p) |-> TRUE]]
        /\ result = [p \in Parties |-> [q \in Peers(p) |-> {}]]
        /\ chan = [p \in Parties |-> [q \in Peers(p) |-> <<>>]]

-----------------------------------------------------------------------------
(* signal_multipliers, for one peer after the other; the order shows        *)
(* nowhere but here, so that all get the job at once.                       *)
Push(p, j) == inbox' = [inbox EXCEPT ![p] = [q \in Peers(p) |-> Append(@[q], j)]]

SignalJob(p) ==
  /\ Op(p) = "job" /\ Push(p, program[call[p]]) /\ Advance(p)
  /\ UNCHANGED <<program, next, heard, valueBits, locked, used, threads, outbox, running, chan>>

SignalGo(p) ==
  /\ Op(p) = "go" /\ Push(p, Go) /\ Advance(p)
  /\ UNCHANGED <<program, next, heard, valueBits, locked, used, threads, outbox, running, chan>>

(* Mutant: the last multiplier is not waited for.                           *)
WaitedForButLast(p) == NextPeer(p, NextPeer(p, next[p])) >= N

WaitedFor(p) == NextPeer(p, next[p]) >= N

(* One turn of the loop of wait_for_multipliers.                            *)
Collect(p) ==
  /\ Op(p) = "collect"
  /\ outbox[p][next[p]] # <<>>
  /\ outbox' = [outbox EXCEPT ![p][next[p]] = Tail(@)]
  /\ IF WaitedFor(p) THEN next' = [next EXCEPT ![p] = FirstPeer(p)] /\ Advance(p)
     ELSE next' = [next EXCEPT ![p] = NextPeer(p, @)] /\ UNCHANGED <<call, at>>
  /\ UNCHANGED <<program, heard, valueBits, locked, used, threads, inbox, running, chan>>

(* The lock of start_progress, which the caller of generate lets go.        *)
Lock(p) ==
  /\ Op(p) = "lock" /\ ~ locked[p] /\ locked' = [locked EXCEPT ![p] = TRUE] /\ Advance(p)
  /\ UNCHANGED <<program, next, heard, valueBits, used, threads, inbox, outbox, running, chan>>

Unlock(p) ==
  /\ Op(p) = "unlock" /\ locked' = [locked EXCEPT ![p] = FALSE] /\ Advance(p)
  /\ UNCHANGED <<program, next, heard, valueBits, used, threads, inbox, outbox, running, chan>>

Writes == {"resize", "shrink", "randomize", "amplify"}

(* resize keeps what is there.                                              *)
Resized(p, n) == [j \in 1 .. n |-> IF j \in DOMAIN valueBits[p] THEN valueBits[p][j] ELSE Blank]

Filled(p, vectors) == [j \in DOMAIN valueBits[p] |-> IF j \in vectors THEN <<call[p], at[p]>>
                                                     ELSE valueBits[p][j]]

(* Mutant: amplify leaves the third vector.                                 *)
WrittenTwo(p) == CASE Op(p) = "resize" -> Resized(p, 3)
                   [] Op(p) = "shrink" -> Resized(p, 1)
                   [] OTHER            -> Filled(p, 1 .. 2)

(* Two vectors are drawn, or one for inputs; amplify fills all three.       *)
Written(p) == CASE Op(p) = "resize"    -> Resized(p, 3)
                [] Op(p) = "shrink"    -> Resized(p, 1)
                [] Op(p) = "randomize" -> Filled(p, 1 .. 2)
                [] Op(p) = "amplify"   -> Filled(p, 1 .. 3)

Write(p) ==
  /\ Op(p) \in Writes /\ valueBits' = [valueBits EXCEPT ![p] = Written(p)] /\ Advance(p)
  /\ UNCHANGED <<program, next, heard, locked, used, threads, inbox, outbox, running, chan>>

(* The results of all multipliers are added up, c_output or macs; of inputs *)
(* of another party, input_macs of the multiplier for it.                   *)
Combine(p) ==
  /\ Op(p) = "combine"
  /\ LET c       == program[call[p]]
         sources == IF c.op = "inputs" /\ c.player # p THEN {c.player} ELSE Peers(p)
     IN  used' = [used EXCEPT ![p] = UNION {result[p][q] : q \in sources}]
  /\ Advance(p)
  /\ UNCHANGED <<program, next, heard, valueBits, locked, threads, inbox, outbox, running, chan>>

(* Which exchange of a call it is: how many operations are left after it.   *)
Topic(p) == <<call[p], Len(MainScript(p)) - at[p]>>

Message(user, about) == [user |-> user, about |-> about]

(* An exchange of main with all peers: a common seed, the shares of inputs, *)
(* the openings and the check of a sacrifice.                               *)
Talk(p) ==
  /\ Op(p) = "talk" /\ heard[p] = {}
  /\ chan' = [chan EXCEPT ![p] = [q \in Peers(p) |-> Append(@[q], Message("main", Topic(p)))]]
  /\ heard' = [heard EXCEPT ![p] = {p}]
  /\ UNCHANGED <<program, call, at, next, valueBits, locked, used, threads, inbox, outbox, running>>

Hear(p, q) ==
  /\ Op(p) = "talk" /\ p \in heard[p] /\ q \notin heard[p] /\ chan[q][p] # <<>>
  /\ chan' = [chan EXCEPT ![q][p] = Tail(@)]
  /\ IF heard[p] \cup {q} = Parties
     THEN heard' = [heard EXCEPT ![p] = {}] /\ Advance(p)
     ELSE heard' = [heard EXCEPT ![p] = @ \cup {q}] /\ UNCHANGED <<call, at>>
  /\ UNCHANGED <<program, next, valueBits, locked, used, threads, inbox, outbox, running>>

(* The destructor: stop of a multiplier's inbox, pthread_join.              *)
Stop(p) ==
  /\ Op(p) = "destroy" /\ running[p][next[p]]
  /\ running' = [running EXCEPT ![p][next[p]] = FALSE]
  /\ UNCHANGED <<program, mains, threads, inbox, outbox, chan>>

Join(p) ==
  /\ Op(p) = "destroy" /\ ~ running[p][next[p]] /\ job[p][next[p]] = Over
  /\ next' = [next EXCEPT ![p] = NextPeer(p, @)]
  /\ IF NextPeer(p, next[p]) >= N THEN Advance(p) ELSE UNCHANGED <<call, at>>
  /\ UNCHANGED <<program, heard, valueBits, locked, used, threads, inbox, outbox, running, chan>>

MainStep(p) == \/ SignalJob(p) \/ SignalGo(p) \/ Collect(p) \/ Lock(p) \/ Unlock(p)
               \/ Write(p) \/ Combine(p) \/ Talk(p) \/ (\E q \in Peers(p) : Hear(p, q))
               \/ Stop(p) \/ Join(p)

-----------------------------------------------------------------------------
(* The loop of multiply takes a job, or ends.                               *)
TakeJob(p, q) ==
  /\ job[p][q] = Idle /\ running[p][q] /\ inbox[p][q] # <<>>
  /\ inbox' = [inbox EXCEPT ![p][q] = Tail(@)]
  /\ job' = [job EXCEPT ![p][q] = Head(inbox[p][q])]
  /\ step' = [step EXCEPT ![p][q] = 1]
  /\ result' = [result EXCEPT ![p][q] = {}]
  /\ UNCHANGED <<program, mains, outbox, running, chan>>

End(p, q) ==
  /\ job[p][q] = Idle /\ ~ running[p][q]
  /\ job' = [job EXCEPT ![p][q] = Over]
  /\ UNCHANGED <<program, mains, step, result, inbox, outbox, running, chan>>

(* A pop within a job, whose result nobody looks at: it goes on with the    *)
(* old job when the queue has been stopped.                                 *)
TakeGo(p, q) ==
  /\ Does(p, q, "pop")
  /\ \/ running[p][q] /\ inbox[p][q] # <<>> /\ inbox' = [inbox EXCEPT ![p][q] = Tail(@)]
     \/ ~ running[p][q] /\ UNCHANGED inbox
  /\ result' = [result EXCEPT ![p][q] = {}]
  /\ StepOn(p, q)
  /\ UNCHANGED <<program, mains, outbox, running, chan>>

Vector(p, q)  == MultiplierScript(p, q)[step[p][q]][2]
BitsFor(p, q) == IF Vector(p, q) \in DOMAIN valueBits[p] THEN valueBits[p][Vector(p, q)]
                 ELSE Blank

(* correlate reads the bits and sends.                                      *)
Send(p, q) ==
  /\ Does(p, q, "send")
  /\ chan' = [chan EXCEPT ![p][q] = Append(@, Message("ot", <<Vector(p, q), BitsFor(p, q)>>))]
  /\ result' = [result EXCEPT ![p][q] = @ \cup {BitsFor(p, q)}]
  /\ StepOn(p, q)
  /\ UNCHANGED <<program, mains, inbox, outbox, running>>

Receive(p, q) ==
  /\ Does(p, q, "receive") /\ chan[q][p] # <<>>
  /\ chan' = [chan EXCEPT ![q][p] = Tail(@)]
  /\ result' = [result EXCEPT ![p][q] = @ \cup {Head(chan[q][p]).about[2]}]
  /\ StepOn(p, q)
  /\ UNCHANGED <<program, mains, inbox, outbox, running>>

PushAnswer(p, q) ==
  /\ Does(p, q, "answer")
  /\ outbox' = [outbox EXCEPT ![p][q] = Append(@, job[p][q])]
  /\ StepOn(p, q)
  /\ UNCHANGED <<program, mains, result, inbox, running, chan>>

MultiplierStep(p, q) == TakeJob(p, q) \/ End(p, q) \/ TakeGo(p, q) \/ Send(p, q)
                        \/ Receive(p, q) \/ PushAnswer(p, q)

AllOver == /\ \A p \in Parties : Op(p) = "ended"
           /\ UNCHANGED vars

Next == \/ AllOver
        \/ \E p \in Parties : MainStep(p) \/ \E q \in Peers(p) : MultiplierStep(p, q)

Spec == Init /\ [][Next]_vars

(* The threads of all parties are scheduled.                                *)
FairSpec == /\ Spec
            /\ \A p \in Parties : /\ WF_vars(MainStep(p))
                                  /\ \A q \in Peers(p) : WF_vars(MultiplierStep(p, q))

-----------------------------------------------------------------------------
(* No thread holds the bits of a multiplication while main writes them:     *)
(* while a multiplier may read before its next pop, main is waiting for it. *)
Reading(p, q) == job[p][q] # Start /\ Does(p, q, "send")

BitsHeldStill == \A p \in Parties : \A q \in Peers(p) :
                   Reading(p, q) => Op(p) = "collect" /\ next[p] <= q

(* A connection has one user at each end: no thread sends or receives on it *)
(* between the messages of the other.                                       *)
OneUser == \A p \in Parties : \A q \in Peers(p) :
             Does(p, q, "send") \/ Does(p, q, "receive") => Op(p) # "talk"

(* Untagged messages of two threads follow one another in one stream, and   *)
(* each is read by the thread and for the step it was sent for.             *)
RightReader ==
  \A p \in Parties : \A q \in Peers(p) :
    chan[q][p] # <<>> =>
      LET m == Head(chan[q][p])
      IN  /\ Does(p, q, "receive") => m.user = "ot" /\ m.about[1] = Vector(p, q)
          /\ Op(p) = "talk" /\ heard[p] # {} /\ q \notin heard[p]
               => m.user = "main" /\ m.about = Topic(p)

(* What a party adds up comes from one set of bits on both sides of every   *)
(* multiplication: that of its own last writing, when it wrote any.         *)
OneMultiplication ==
  \A p \in Parties :
    at[p] > 1 /\ MainScript(p)[at[p] - 1] = "combine" =>
      /\ Cardinality(used[p]) = 1
      /\ program[call[p]] \in {Triples, Inputs(p)} => used[p] = {valueBits[p][1]}
      /\ \A w \in used[p] : w[1] = call[p]

(* A generation that is over leaves nothing in a queue and no thread at     *)
(* work, and the lock free, for the next.                                   *)
LeftClean ==
  \A p \in Parties :
    at[p] = 1 /\ call[p] > 0 =>
      /\ ~ locked[p]
      /\ \A q \in Peers(p) : inbox[p][q] = <<>> /\ outbox[p][q] = <<>> /\ job[p][q] \in {Idle, Over}

(* Every party gets through the program and its destructor.                 *)
EveryoneEnds == \A p \in Parties : <>(Op(p) = "ended")
=============================================================================
