# Proof of custody in TLA+

This directory is the verification development of the proof-of-custody program: TLA+ modules
translated from its C++ sources, the configurations under which TLC checks them, and theorems
whose proofs TLAPS checks. Paths below are relative to the repository.

## 1. The system

N parties hold shares of a BLS secret key and act as one Ethereum validator. They run the same
program over pairwise TCP connections: generate the key, sign a domain, turn the signature into an
"ephemeral key", carry the key's bits from the 381-bit field of the curve into a 256-bit field, and
compute there the custody bits of messages, nobody ever seeing the key. The repository is a fork of
MP-SPDZ: the directory `POC/` and the programs in `Source/` are its own, the rest is the inherited
library, of which only `Math/`, `Tools/`, `Networking/`, `OT/` and parts of `Processor/`,
`Protocols/` and `GC/` reach a program.

| Component | State | Operations | Interacts with |
|---|---|---|---|
| Distributed key generation, `POC/bls.cpp`, `POC/vss.cpp` | polynomial, `sk`, `vk`, received commitments, openings, shares, points | `dstb_keygen`: four rounds of send to all, receive from all; `dstb_sign` | channels (messages) |
| Shared bit and field operations, `POC/OnlineOp.hpp` | none beyond the vectors passed | XOR, OR, KXOR, `A2B`, `B2A`, `uhf`, `legendre_prf` | multiplication, opening, preprocessing (calls) |
| Custody pipeline, `POC/poc.hpp`, `POC/RunPoc.hpp` | local and shared bits, opened bits, keys, `pre_key` | phase one, decompose and reveal, phase two, combine, offline, online | shared operations (calls) |
| Two-process execution, `Source/poc_main2fork.cpp`, `Source/ipc_msg.h` | a System V queue kept by the kernel | `msgget`, `msgsnd`, `msgrcv`, `IPC_RMID`, `fork`, `waitpid` | both stages (messages) |
| Opening, `Protocols/MAC_Check.h` | the partial sum of a batch | `TreeSum::run` | channels (messages) |
| Deferred MAC check, `Protocols/MAC_Check.hpp` | `popen_cnt`, `vals`, `macs` | `AddToValues`, `CheckIfNeeded`, `Check`, destructor | opening (calls), commitments, coins |
| Commitments, `Tools/Commit.cpp`; broadcast check, `Networking/Player.cpp` | opened messages; a running hash | `commit_and_open`; `Broadcast_Receive`, `Check_Broadcast` | channels |
| Connection set-up, `Networking/Server.cpp`, `ServerSocket.cpp`, `Player.cpp` | the coordinator's clients; per server its clients by number and the numbers used; per party its sockets | coordinator thread, accept thread, client threads, `get_connection_socket`, `setup_names`, `setup_sockets` | threads (lock, condition), kernel backlog |
| Point addition, `POC/Group.hpp`, `dstb_sign` | the running sum | additions in G1 and G2, affine, Jacobian, projective | shared operations (calls) |
| Simultaneous exchange, `Networking/Exchanger.h`; encrypted channels, `Networking/CryptoPlayer.cpp`, `Tools/WaitQueue.h` | one buffer; a queue and a thread per peer and direction | partial sends and receives; request and wait | threads |
| Triple generation, `OT/NPartyTripleGenerator.hpp`, `OT/OTMultiplier.hpp` | `valueBits`, inbox and outbox of each multiplier | jobs to one thread per peer, answers, sacrifice | threads, channels, buffers |
| Preprocessing buffers, `Protocols/MascotPrep.hpp` | tuples | take one, refill when empty | triple generation (calls) |
| Multiplication and input, `Protocols/Beaver.hpp`, `Processor/Input.hpp` | prepared products | `prepare`, `exchange`, `finalize` | opening, buffers |

**What is hard in it.** Messages carry no tags: a frame is known by its place in a TCP stream, so one
send or receive out of turn makes a party read an opening as a share. Parties run at their own speed
through rounds of messages, and sockets block when full. A party may receive values that do not fit
together. The two-process program synchronises over a kernel queue that survives crashes. The
pipeline is numerically delicate: every step has a carry, an index or an exponent that, when wrong,
leaves values that look just as random. `PROJECT.json` lists these hazards, each at its line.

**What makes each component correct.** Key generation: every frame is read as what it was sent as,
streams end empty, no opening precedes the commitments, accepted shares match the public key, the
signature assembled is the joint key's, everybody ends. Hand-off: stage two works on this
execution's bits, the queue is not removed under it and does not remain, both processes end.
Pipeline: the bits opened are masked by everybody, the three keys hold the bits of the first two,
the custody bit is that of the formula. Opening: everybody gets the sum of all shares of that
opening, and none before all have entered. MAC check: no value is used for output unchecked, all
players check at the same point. Triple generation: a thread works on the job it was given, with
`valueBits` nobody is changing. Connections: every end fits the end the other party has for it, no connection
is lost, taken twice or filed under a wrong number, a message arrives with the bytes it was sent with, and
whoever waits for a party that is late or dead gives up. Signature: the sum of points revealed is the sum in
the group, or there is none.

## 2. Modules

### Key generation: `DistKeyGen`, `FrArith`, `JointKey`, `MCDistKeyGen`, `DistKeyGenProofs`

`DistKeyGen` is `BLS_::dstb_keygen`. `mode`, `round`, `peer` and `slot` are a party's program counter:
the round, the loop index `i` and the frame within the iteration. `log[p][q]` is everything p has
sent to q and `rd[q][p]` how much of it q has read; what is between is in the socket, at most `Cap`
frames, and `Send` blocks beyond that. `Send` and `Receive` are one iteration each of the loops of
`send_to` and `receive_player`; `Sent` and `Received` leave a loop; `Accept`, `Throw` and `Return`
are the checking loop and its exits. A frame in the model carries the slot it was sent for; no
action looks at it, only the properties do.

A group element g^x is its exponent x, and the commitment hash is ideal. A dealer in `Faulty` may put `Wrong`
values into up to `MaxFaults` frames: an error of arithmetic or memory in that party, which the three checks
(`Accepts`) are there to catch. `FrArith` holds the field operations, the weights of `Math/Lagrange.cpp` that
`dstb_sign` uses and `recover_share` of `vss.cpp`, for any prime `Q`; `JointKey` brings the two together, with
the exponent of the signature that `dstb_sign` assembles and the properties that need the arithmetic;
`MCDistKeyGen` takes the integers modulo 5.

### Hand-off between the two processes: `StageHandOff`, `MCStageHandOff`, `StageHandOffProofs`

`one` and `two` are where the child (stage one) and the parent (stage two) stand. The queue has an
id: `msgget` finds the one that is there or makes a new one, `IPC_RMID` removes it, and calls that
name a removed id fail. The program looks at no result, so a failed call goes on with the buffer as
it was (`Garbage`). `Die` is the death of a process anywhere; `Rerun` starts the next execution on
whatever queue is there. `Text`, `ReadLocal` and `ReadReveal` are the conversion to text and back.

### Pipeline: `OnlineOp`, `Custody`, `CustodyProofs`, `MCCustody`, `CustodyOnePrime`, `MCCustodyOnePrime`

`OnlineOp` gives, for each function of `POC/OnlineOp.hpp`, the value its result's shares stand for as
a function of the values its arguments' shares stand for, step for step: the comparison behind `A2B`
goes by prefix-OR as in the code, `KXOR` halves its vector and carries the odd element. What the code does
by recursion or in a loop is a recursive function (`left`, `or`, `carry`, `sum`), so that it can be proved about. `Custody`
calls them in the pipeline's order, one action per function of `POC/poc.hpp`; `DrawMask` is one turn
of `pre_rand`'s loop with the rest of `A2B` when the draw is below the prime. The parties run these
steps together on shares, so the pipeline has one state. `CustodyOnePrime` is the earlier version
with one prime, which the header still offers.

### Opening: `TreeSum`, `Opening`, `TreeSumProofs`

`TreeSum` is `TreeSum<T>::run` with `start`, `add_openings`, `finish`: the loop that
narrows the players that hold a sum, and the broadcast back. Players are numbered relative to the
base player, as the code's index arithmetic does. A value is the bag of the shares added into it, so
that a share lost or added twice shows. `Opening` is what this promises, and `OpensTheSum` says that
`TreeSum` implements it: `entered` and `opened` map to themselves, and every message is a stutter.

### Deferred MAC check: `MacCheck`, `MCMacCheck`, `MacCheckProofs`

`MacCheck` is `Tree_MAC_Check` with the `Check` of `MAC_Check_`. Every player runs the same program of
calls: an opening of some secrets (`POpenBegin`, `POpenEnd` around the summing), a value claimed for a
secret (`AddToCheck`, which triple generation uses) and `Check`. `vals`, `macs` and `popen_cnt` are the
code's; `CheckIfNeeded` is the last line of `POpenEnd` and `AddToCheck`. A check is two exchanges when
few values wait, four otherwise: `CheckSay` and `CheckHear` make one each, `Pass` erases the values,
`Fail` is the exception, which no program catches, and `Destroy` the destructor.

An opening and an exchange are rounds which a player leaves once all have entered, as `Opening`
promises for the one and `Broadcast_Receive` for the other; `said[p]` is all p has put into rounds, and
its length the round it is in. The check is ideal: wrong shares do not cancel one another, a delta is
zero exactly for a right value and its own MAC, and the random combination of ten or more is zero
exactly when all deltas are.

### Triple generation: `TripleGeneration`, `MCTripleGeneration`, `TripleGenerationProofs`

The generator of Mascot, as `MascotPrep` calls it: a main thread and one `MascotMultiplier` thread per peer
at every party. What a thread does is a script, read off its function from top to bottom
(`TripleRound`, `InputsScript`, `MultiplierRound`, ...), and there is one action per kind of operation:
signalling and collecting through the queues, the lock of `start_progress`, writing `valueBits`,
sending and receiving, adding up, and the destructor's stop and join. The parties' main threads run the same
`program` of calls. `valueBits[p][j]` is the write that filled the j-th vector, a multiplier's
`result` the writes behind both sides of its multiplication, `used` those behind what main last added up.
`chan[p][q]` is the one connection, on which main and multiplier both send.

Consecutive messages of one protocol step are one message; an exchange with everybody is sent at once
and heard of one peer after the other. Sends do not block, a condition variable wakes only when
signalled, and an exception ends the program and is left out. The
generators of gf2n bits, of plain triples and of SPDZ2k are not in the module.

### Connections: `Parties`, `Rendezvous`

`Rendezvous` is the start of networking. Party 0 runs a coordinator (`Server::start`) in a thread; everyone
sends it a number and gets all addresses back; then everyone opens a server (`ServerSocket`), connects to
itself and to the parties of higher numbers, and takes the connections of the lower ones from its server.
`pc` is where a party's main thread or the coordinator stands, `i` the index of its loop, `layer` which of the
players of a `CryptoPlayer` it is setting up. `backlog` is the kernel's; `AcceptClient` is a turn of
`accept_clients`, which files a client whose number is there and hands any other to a thread (`jobs`,
`ServeJob`). `GetConnectionSocket` is `get_connection_socket` with what its caller does with the result.

A connection is a record of who opened it, to which server, and for which player object; both ends hold the same
record. The model does not count the 60 and 600 seconds after which a wait is given up. `TimesOut` says when
they may be over: once a party is late or has failed, at any moment; and whenever the whole set-up stands still
(`Stuck`: every main thread and the coordinator wait or are over, and no server has anything left to file),
since then only time goes on. In time otherwise, because 60 and 600 seconds are more than all steps take. A
connection that were lost, or filed under a number nobody asks for, or a circle of parties waiting for one
another, would so end in a time-out with nobody late, which `FailsOnlyIfLate` forbids. `Starts` says who may be
late (`LateStart` need never happen) and whether players are plain or encrypted. A process that fails takes its
servers with it; the coordinator is a thread of party 0's.

### Rounds of messages: `Exchange`, `CryptoRounds`, `Channels`, `MCChannels`, `ChannelsProofs`

`Exchange` has the class `Exchanger` and the rounds `Player.cpp` makes of it. `pipe[l][p][q]` holds the units
under way, a unit being a byte or a length prefix, at most `Cap` of them; a send takes as many bytes as there
is room for, a receive as many as there are, in every split (`RoundSend`, `RoundReceive`), and every interleaving
of the exchangers of one round, of which the code's polling loop takes some. `ByteAt` is what lies in the
buffer: when an operation receives into the stream it sends, bytes received replace those sent. A byte
names its sender, its operation and its place. `ctx[p]` is all a party has hashed, an ideal hash; a party in
`Liars` may broadcast one content to one party and another to the rest.

`CryptoRounds` has the same operations for a `CryptoPlayer`: a sender and a receiver thread per peer, each on a
connection of its own, `asked` and `served` for their queues; operations on one buffer still go through
exchangers, over the first connection in both directions. Those wait where plain ones poll: `ssl_socket` sends
or reads one byte at least, and the length in whole (`Networking/ssl_sockets.h:76`), so the sending half of
`Exchanger::round` comes before the receiving half and each holds up the other (`TlsStep`; `owing` are the
parties between the two). `AtWork` are the threads of a party that are sending or receiving, each with its
connection, and `OneThreadEach` says that no two are on one: they would be in one SSL object at once. `Channels`
puts `Rendezvous` before both: a party begins as soon as its own set-up is over.

### Point addition: `PointFormulas`, `PointSum`, `MCPointSum`, `PointSumProofs`

`PointFormulas` are the addition formulas of `POC/Group.hpp` over any field; `PointSum` instantiates them with the
operations of `OnlineOp` on a prime field (G1) and on pairs (G2, class `Complex`), each product, square and
inverse by its protocol with its preprocessed mask, and runs the loop of `dstb_sign`. Every group and form takes
the same loop, although `dstb_sign` uses only `add_aff_inplace` of G2; `poc_online_op_test.cpp` uses the
others. `GroupAdd` is the reference: the group law with infinity and doubling.

## 3. Runs

| Run | Instance | Question |
|---|---|---|
| `dkg_safety` | 3 parties, T = 2 = N - 1 as the programs pass it, field of 5, streams of 3 frames, dealer 0 may send 4 wrong frames; about 2 million states | does everything a party reads, accepts and adds up fit together? |
| `dkg_live` | the same, 1 wrong frame, fair | does everyone leave the key generation? |
| `hand_off` | 4 executions, 4 deaths, room for 4 messages, fair | is the hand-off in step, does it end, does the queue go? |
| `hand_off_bits` | 1 execution, nothing dies | does stage two get stage one's bits? No: see findings |
| `custody` | primes 5 and 11, 2 x 3 = 3 x 2 bits, 3 parties, 5 elements per message, 3 symbols per bit, 2 messages; about 41,000 states | is the custody bit that of the formula, for every key and every mask? |
| `one_prime` | prime 7, messages of 4 | is the one-step function the two steps in one? No: see findings |
| `tree_sum` | 6 players, fan-in and fan-out 2, 3 openings, connections of two messages, fair; about 13,000 states | is every opening the sum of all, although players overtake one another? |
| `mac_check` | 2 players, all 281 programs made of up to three calls, with and without a last `Check`; limit 3, combined check from 2 values on, 2 wrong shares, fair; about 115,000 states | is every value checked, in step, against its own MAC, and is only a wrong one rejected? |
| `triples` | 3 parties, one round per generation as the programs have it, four programs of two calls; about 810,000 states | are bits, connections and results each one thread's at a time, and is nothing left between two calls? |
| `triples_live` | 3 parties, one generation of inputs and the destructor, fair; about 37,000 states | does every thread come to its end? |
| `channels` | 3 parties, plain, encrypted, or plain with party 1 late; four programs of up to three rounds with messages of 0 to 3 bytes, connections of two units, one party may still be in its set-up when the first begins, fair; about 365,000 states | do all ends fit, do threads keep apart, do all bytes arrive, and do all parties end, giving up only if one is late? |
| `point_sum` | curves over 7 and 49 elements, three points, all masks; about 155,000 states | is the sum of the points that of the group? |

**Why the bounds are enough.** *Key generation*: three parties give every party two peers, one before and
one after its own number or both on one side, which is all `FirstPeer` and `NextPeer` tell apart. Four
wrong frames are what a dealer needs to open, deal and publish another secret towards one party
(opening, share, and points), so a missing check is found. T + 1 = 3 is the least capacity with
which the code ends: with 2 all three parties block sending their points before anyone reads (TLC
reports that deadlock with `Cap = 2`), and TCP buffers hold far more. *Hand-off*: two executions suffice
for a leftover to be met, a third for it to be cleaned, a fourth to follow a normal one; a queue with
room for four messages is filled by what a dead stage two left. *Pipeline*: 2 x 3 = 3 x 2 is the
smallest case of 2 x 381 = 3 x 254 in which slices cross from one key component to the other; 11 has
three consecutive non-residues, so a custody bit may be 0; three parties make `KXOR`'s odd round
happen; 5 elements make the offline loop take each of its three branches with the same remainder
as `CHUNK_NUM`. *Opening*: with fan-in 2 six players need three rounds and an unequal one; with
fan-out 2 the result goes through players that are neither base nor leaf; three openings let a
player be in the next one while others finish the last. Connections could hold two messages and never
hold more than one (`OneKindPerDirection`), so that no `send_to` of the tree ever blocks, whatever the buffers.
*MAC check*: three calls of up to two values reach the limit of 3 exactly and pass it, from an opening and
from a claim, with and without a check before; from 2 values on a check combines them, so both kinds
occur; two players suffice because every round is a barrier that treats all players alike, and the
theorems cover any number. *Triple generation*: three parties are the least with a multiplier that has no
part in another's input; two calls in every order of kinds show what the first leaves to the second,
the same call twice included; a generation has one round because `MascotPrep` passes `nloops` as 1.
Liveness is checked of the inputs, where multipliers of one party take different paths; that no
program of `triples` gets stuck is its deadlock check. *Channels*: party 1 of three is a client of party 2 and
a server of party 0, and connects to itself, which is every case of `setup_sockets`; with party 1 late, one
party waits for it as a client and one as a server. Connections of two units split messages of three bytes and
block even a length behind a message. The programs have a round without content, messages of unequal lengths,
one buffer for both directions before and after rounds with two, rounds with two of the three parties, and a check
with and without something to check. *Point sum*: the curves are of the form of BLS12-381's, with -1 no square; all points of the first and
eight of the second, with both signs of y, so that equal points, opposite points and an intermediate
infinity occur, and with two scalings the same point in two sets of coordinates.

**Fairness.** Each party, process or thread is assumed to take its next step when it can go on having
one (weak fairness on the disjunction of its own actions). These are operating-system processes that
only ever block in a socket or queue call, so the assumption is the scheduler's. No fairness is put
on a wrong frame, a death or the next execution: none of them has to happen. `Channels` has one weak fairness
condition over all threads: none of them runs for ever, so that all that can move will, and a party that is
late need never start. `hand_off`, `custody` and `point_sum`
switch TLC's deadlock check off, because there the system may stop: a process may wait on the queue
of one that died, and a run is over after the last message, draw or point. The others check for deadlock.

## 4. What is proved

`DistKeyGenProofs` proves for `DistKeyGen`, for every number of parties N >= 2, every threshold, every
stream capacity, every field and every number of wrong frames, from `SizeAssumption` and
`FieldAssumption`:

* `Invariance`: the inductive invariant `IInv`;
* `TypeCorrect`: `TypeOK`;
* `FramesAlwaysMatch`: a frame is read as what it was sent as;
* `StreamsAlwaysDrained`: a party that returns or throws has read all that was or will be sent to it;
* `CommitmentsFirst`: no opening goes out before all commitments are in;
* `ContributionsAlwaysAgree`: parties that return add the same contribution of a dealer that
  committed to the same value towards them.

None of these properties is inductive: that the next frame has the right tag says nothing of the one
after it. What carries them is that a party's program counter alone determines how many frames it
has sent to and read from each peer (`CountsOK`), together with the tags being the positions
(`TagsOK`) and what was received being what was sent (`GotOK`). Then a stream's k-th frame is sent
and read for the k-th purpose, whatever the interleaving. `CommitBeforeOpen` follows because a second frame
means a sender in round two, which has read a frame of every peer; `ContributionsAgree` from
`AcceptedOK`, the checks a party has made so far. Each action has a lemma that it preserves `IInv`.

The module then proves for `JointKey`, from `PrimeAssumption` (`Q` is a prime), `ArithmeticAssumption` (the library's
calls are those of `FrArith`) and `PointsAssumption` (fewer parties than scalars, and more than the degree, as the
programs have it with T = N - 1):

* `KeyInvariance`: at every moment `sk` and `vk` of a party are the value at its point, and the constant, of the sum
  of its own polynomial and those it has accepted (`KeyOK`), also at a party that will throw;
* `SharesAlwaysMatchKey`: so a party that returns holds matching halves of one key, whatever was sent to it;
* `JointKeyAlwaysSigns`: without a wrong frame `recover_share` finds the secret of `vk` from the shares of all, and
  `dstb_sign` makes the signature of that key, whatever polynomials were dealt.

`KeyOK` is kept because a share is accepted only when it is the value of the points it came with (`VerifyShare`), and
the values of polynomials add up to the value of their sum (`EvalAdds`). The joint key needs Lagrange's theorem, which
the module proves for the code's own weights: the weight of i, scaled by its distance from s, is the weight among the
points without s (`WeightStep`), so values that are multiples of that distance do not use point s (`InterpWithout`).
From two such points follows that the weights add up to 1 (`WeightsAddToOne`, by induction on the number of points), and
from that, along Horner's rule from the last coefficient to the first, that as many points as coefficients give the
constant (`InterpPoly`). Sums and products over a set are folds that choose an order; the first lemmas show that the
order does not matter (`SumIs`, `ProdIs`). These inductions are over sets of numbers, with `UpTo` and `OverSet`, not
over data with an operator.

`MacCheckProofs` proves for `MacCheck`, for any number of players, any set of programs, any limits and any
number of wrong shares, from `SizeAssumption` and `ProgramAssumption`:

* `Invariance`: the inductive invariant `IInv`;
* `TypeCorrect`: `TypeOK`, which no run checks for itself;
* `AlwaysAligned`: values, MACs and the counter agree between calls and during a check;
* `WrongAlwaysCaught`: a wrong value stays until a check fails, and no program it was given to ends.

`Aligned` says nothing of the moment in between: while the sum is under way the MACs are already there
and the values are not. `MacsAhead` adds that they are ahead by exactly what is being opened, and by the
MACs of those very secrets; `StepOK` that a check keeps to its exchanges. `WrongIsCaught` rests on
`Aligned`: a check that passes compared `popen_cnt` values, and those are all there are. The invariant is
a conjunction over the players, so each action has one lemma for the player that moves, and `Untouched`
deals with the rest.

Its second part proves, from the same assumptions:

* `AlwaysInStep`: `InStep`, the rounds and what is compared in them are the same for all;
* `NeverFalseAlarm`: `NoFalseAlarm`.

Players may be any number of calls apart, and nothing of a player's past is left in its variables but what it
has said, so that no invariant over two players' present states is inductive. The invariant (`Lockstep`)
says instead that there is one course, a sequence of local states (`Place`), on which every player is
somewhere: each state of it is followed by the one its own action makes of it (`After`), which depends on the
messages of its round only, and a state that waits for a round has been left only once all have entered it
(`Settled`), so that what follows it can no longer change. A player behind the end of the course does what the first
has done before; a player at its end makes the course one state longer. The messages of two players on one
course agree in all rounds both have made, but for the errors in their shares. Then, if nothing has been
wrong, all opened values are right (`Calm`), all compare the values with the same MACs, and a check passes; and
after a call of `Check` nothing waits (`LastCall`).

The first part of `ChannelsProofs` proves for `Rendezvous`, for any number of parties, plain or encrypted
players, and any parties late, from `SizeAssumption` and `StartsAssumption`:

* `Invariant`: the inductive invariant `IInv`;
* `EndsFit`: `SocketsFit`, two parties' ends belong to each other;
* `Calm`: `FailsOnlyIfLate`, nobody gives up unless someone is late.

That two ends fit is a matter of two parties and two loops which know nothing of each other. The invariant makes
it one of each party: a connection wherever it is, in a backlog, with a job or filed, is one its client opened
to that server and is filed under the number computed from it; numbers determine client and layer, since a
party's number is below N and layers are N apart (`IdUnique`); and a party's sockets and the numbers its
server has given out are those its loop has passed (`Loops`). Then the socket a party takes from its server is the
very connection its peer opened. That a number is not asked for twice follows from the loops' indices and layers
only growing, which keeps a party from the exception "already used".

That nobody gives up needs the reverse as well, that what a party has done is there for the others (`Kept`): a
connection that its client's loop has passed is in its server's backlog, with a job, or filed; a server listens
from the moment its party has its names; and whom the coordinator has answered is what its loop says. From that
follows that the set-up never stands still before all are connected (`NeverStuck`): were it to, the coordinator
would be through, so everybody has names and a server, so nobody is still connecting, and whoever is on the
lowest layer waits for a client that has connected and is filed. `TimesOut` then needs a party that is late or
has failed, and the first to fail cannot have been one.

`StageHandOffProofs` proves for `StageHandOff`, for any number of executions and deaths, any number of bits and
any room in the queue, from `BoundAssumption`:

* `Invariance`: the inductive invariant `IInv`;
* `AlwaysFresh`: `FreshBits`;
* `AlwaysRemovedAfter`: `RemovedAfterTaken`;
* `NeverQueueLeft`: `NoQueueLeft`.

The invariant says whose the queue is (`QueueOK`). Only stage one removes a queue, and once; as long as it has not
come to that, a stage two that has its queue has the one there is; a queue made after the removal is stage two's
alone, who waits at it for a first message nobody sends, and so does not end normally. That gives `NoQueueLeft`,
and with it that an execution after a normal one finds no queue. In such an execution (`CleanOK`) all
messages are of this execution, and an acknowledgement in the queue, or a stage one past waiting for it, means
that stage two has taken them all.

`TripleGenerationProofs` proves for `TripleGeneration`, for any number of parties, any number of rounds and any set
of programs, from `SizeAssumption` and `ProgramAssumption`:

* `Invariance`: the inductive invariant `IInv`;
* `AlwaysHeldStill`: `BitsHeldStill`;
* `AlwaysOneUser`: `OneUser`;
* `AlwaysLeftClean`: `LeftClean`.

The invariant relates a main thread and one of its multipliers (`PairOK`) and says nothing of another party: where
main is in its script determines what is in the two queues and where the multiplier stands. Main's script is cut
into stretches in which the multiplier waits at a pop with both queues empty (`Waits`), and stretches in which it
has one job, is at work on it, or has answered (`Works`); while main collects, those not yet collected from work
and the others wait (`Working`). Each stretch is one turn of the multiplier's script, from a pop to an answer
(`Turn`), so one lemma (`TurnStep`) covers every step of every turn. What the programs rest on without a lock
follows: a multiplier that reads or exchanges is in a turn, and main is then collecting and has not come to it.
Only in a party's own inputs does main put two jobs in a queue before one is taken, and `OwnInputsOK` says so.
An operation of a script is found by its round, which is arithmetic on positions (`Rounds`, `Where`).

The second half of `TripleGenerationProofs` proves of the same module, from the same assumptions:

* `StreamsInvariance`: the inductive invariant `CInv`, which includes `IInv`;
* `AlwaysRightReader`: `RightReader`;
* `AlwaysOneMultiplication`: `OneMultiplication`.

These two are about both ends of a connection, and what a message is for is fixed by nothing but its place among
all that was sent before. The proof therefore states what each party says in a whole program, main and
multiplier together, as one stream (`Stream`), the same for every peer: the messages of the calls one after the
other (`Said`), each call's numbered from the sum of the earlier calls' (`Base`; that such sums exist and grow
is induction written with sets, `UpTo`). Where a party's main and its multiplier for a peer stand says how much
of its stream it has sent to that peer and how much of the peer's it has read (`Sent`, `Read`), and a connection
holds the part of the stream between the two counts (`Linked`). That is inductive because of `IInv`: main counts
up only when the multipliers have answered, by as much as their turn comes to (`Counted`), so that at every
moment one thread alone moves a count. The remaining conjuncts say that the bits main has drawn last are in the
vectors (`BitsOK`), are what a multiplier of a turn has on both sides (`ResultOK`), and what main has added up
(`UsedOK`). The bits on the peer's side are the message's, which `Linked` identifies. Both parties name a set of
bits by call and operation, so the streams of two parties can be compared at all only because the programs are
the same.

The second part of `ChannelsProofs` proves for `Channels`, for any number of parties N >= 2, any set of programs
of rounds with messages of any length, any capacity of a connection, any parties that lie, plain or encrypted
players, and any parties late, from `CompanyAssumption`, `CapAssumption`, `LiarsAssumption`,
`ProgramsAssumption` and those of `Rendezvous`:

* `RoundsInvariant`: the inductive invariant `RoundsInv`;
* `Delivered`: `RightBytes`;
* `LiesAreCaught`: `CheckCatchesLies`;
* `SetUpRefined`: `Channels` implements `Rendezvous`, so that its properties hold of the composition as well
  (`RoundsOnRightSockets`);
* `ThreadsApart`: `OneThreadEach`. The connections of one party are all different (its sockets are those of its loops), a
  sender and the receiver of a peer have different layers, and threads are asked only in an operation with two
  buffers, in which there is no exchanger (`AskedOfThreads`).

`ProgramsAssumption` says what `Player.cpp` needs of its callers (`WellFormed`): a message that is received into
the buffer it is sent from has one length at all parties, and a swap is of two different parties. A byte carries
no sign of its operation that anyone looks at, and a party may be whole operations ahead of the next, with one
connection used by exchangers in one operation and by threads in another. The invariant is about each connection
as a log. The program, and who lies to whom (`Plan`), decide which messages are put into a connection and in
which order, and so where in the log each operation begins (`Base`). How far a party is in its round, exchanger
by exchanger or thread by thread (`Local`), says how many units it has put in (`In`) and how many it has taken
out (`Out`); the connection holds the units between the two counts (`Flow`). Then the next unit a party takes is
the length of its own operation's message or the next byte of it (`FlowSees`), so what it has received is a
beginning of the message (`GotOK`); with one buffer for both directions, the byte sent from a place is the
original one, because no more is received than has been sent. What a party has hashed is a function of the plan
too (`Hashed`, `PlaceOK`): a course through the operations, which broadcasts extend and checks empty. A lie
since the last check is in the hash of the party it was told to and not in its teller's (`LieShows`); without
one all hashes are the same (`SameWithoutLies`); and all hashes are empty or none is, so that all parties take
part in the check or none does (`EmptyTogether`).

`TreeSumProofs` proves for `TreeSum`, for any number of players N >= 2, any `opening_sum`, any `max_broadcast` >= 2,
any number of openings and any room on a connection, from `SizeAssumption`:

* `Invariance`: the inductive invariant `IInv`;
* `KindsApart`: `OneKindPerDirection`;
* `NothingKept`: `NothingLeftOver`;
* `SumsRight`: `OpensTheSum`, the refinement of `Opening`, step by step: `Begin` is `Enter`, `Finish` is `Learn`.

The first half is about the trees. `Width`, a recursive function, is unfolded by induction written with sets
(`WidthIs`); the widths fall to 0 (`Shrinks`), so every player but the base player sends in exactly one round
(`RoundIs`), to a player of a lower number (`ReceiverIs`), and is one of those that `SendersTo` makes that player ask,
which is the arithmetic of remainders (`SendersAre`). The shares a player sends (`Under`) are its own and those of its
senders, which do not meet (`UnderParts`, `UnderApart`); under the base player is everybody (`UnderBase`). The second
half is about the counts: how many sums a player has sent and its receiver has heard, how many results it has got and
its source has passed. Each pair of ends is at most one apart, because a player sends the next sum only after
it knows the last result, and a result exists only when all sums have been heard (`KnownOK`, `Chain`). So a connection
holds the difference of two counts (`Up`, `Down`), a send never meets a message, and what is read is of the
opening the reader is in; that is all there is instead of a tag.

`CustodyProofs` proves for `Custody`, for any primes P1 < 2^PSize and P2 > 2^QSize with 2 PSize = 3 QSize, any number
of parties, any length and set of messages, any number of evaluations and of answers, from `SizesAgree`,
`PrimesFit`, `InputsFit`, `NumbersAssumption` and `PrimeAssumption` (an element of the second field but 0 has an
inverse; of P1 not even that is needed):

* `KeyToBit`: the inductive invariant `KeyInv /\ PreInv /\ BitInv`;
* `BitsOfTheKey`: `DecompositionRight`;
* `OpensMasked`: `MaskedByAll`;
* `KeysMove`: `KeysCarryOver`;
* `PowersInTurn`: `PreKeyRight`;
* `BitOfTheMessage`: `CustodyBitRight`.

Most of the module is what the operators of `OnlineOp` compute, for every length. The library's induction theorems
cannot be used, so a recursive function is shown to exist and unfold by well-founded induction written with
sets: there is no least length without it (`UpTo`, `SumsExist`, and the like). On rows of bits `KXOR` is the parity of
the sum (`KXORIs`), `PrefixOR` says where the first 1 is, `Lt` compares the numbers two rows stand for, `AddBit` adds
them (`AddBitIs`, whose carries are the quotients of the prefixes), and `Decompose` takes a number modulo 2^k
(`SameDigits`). Together they say that `A2B` gives the bits of the value behind the shares, with or without the wrap
past the prime (`A2BIs`). The invariant then states each stage's results as functions of what they came from:
the decomposed bits of the key so far, the opened bits as the key's masked by everybody's, the second field's
keys as three slices of those with the masks taken off again (`Unmasked`, `SlicesCarryOver`), the
powers, the hash, and the answer as whether some symbol so far was not -1. That the symbol of s^2 x is that of x,
for s not 0, is where the second prime must be one (`SquareOut`).

`PointSumProofs` proves for `PointSum`, for any prime P for which -1 is no square (that of BLS12-381 is 3 modulo 4), any
number of points, any points and scalings, from `FieldAssumption`, `PointsAssumption` (coordinates and scalings are
elements of the fields, and no scaling is 0) and `TermsAssumption`:

* `SumFollowsGroup`: the inductive invariant `SumInv`;
* `OnlyTheSum`: `SumIsRight`;
* `FailureMeansEqualX`: `FailsOnlyAtEqualX`.

`FieldAssumption` says that every element but 0 has an inverse and that no square is -1; that the pairs are a field is
proved from it. Remainders are first got rid of: a pair of remainders stands for a pair of integers (`Stands`), and the
operations of `Complex` are those of the integers, so that the laws of a ring are integer arithmetic. A pair but 0 has
an inverse because its norm is not 0 (`NormIsNot0`), which is also why the norm is 0 exactly for two points of one x.
The protocols of `OnlineOp` are then those operations whatever the mask (`SqrIs`, `InvIs`). Over the field, both
points of a Jacobian or projective addition are brought to the product of their Z (`JacScaled`, `ProjScaled`), from
which the code's formulas are the chord's point times powers of the new Z (`JacobianChord`, `ProjectiveChord`), and the new
Z is 0 exactly if there is no chord (`JacSumIs`, `ProjSumIs`). The forms for a public point are the same sums
(`G2Jac`), and those of G1 the same without an imaginary part (`Lifted`, `JacFromLifts`). The invariant needs the
two properties together: what an addition makes of a sum that failed before is known only because it then has
no Z. That the points are on a curve is used nowhere, since no tangent is ever taken.

Only model-checked: all liveness, which is out of the prover's reach.

## 5. Findings

* **The bits do not cross between the processes** (`hand_off_bits`, `Source/poc_main2fork.cpp:282`). Stage
  one writes its bits as digits without separators; stage two's first `is >> x` reads them all as one
  number, the later ones fail and leave 0, and the loop for `reveal_bits` starts at index 10. The
  one-process program (`Source/poc_main.cpp`) passes the same bits unchanged.
* **`poc_compute_custody_bit` is not both steps in one** (`one_prime`, `POC/poc.h:59`). It hashes with powers
  of the first key only and adds nothing at the end; the two steps use both keys in turn and add the
  last power.

Seen in reading and not a property of a run: the option declared as `-r` is asked for as `-s`
(`Source/poc_args.h:88`), and `poc_main2fork.cpp:39` sets the option to true regardless. `power`
(`POC/OnlineOp.hpp:15`) gives 0 for the exponent 0, which no caller passes. `pre_rand` (line 758) ends with
probability 1 only. A mask that draws
0 makes a Legendre symbol 0, which counts as a residue; `CustodyBitRight` excludes such a draw, whose
chance in the real field is 2^-256.

## 6. Not modelled

Limb arithmetic (`Math/`), serialisation (`Tools/octetStream.cpp`) and the bit-matrix algebra of oblivious
transfer have no control state. The MP-SPDZ virtual machine, its compiler, its other protocols and their
preprocessing are not in any program of this repository; they are most of its lines, so that the share of the
repository the modules cover stays small, however much of the program itself is modelled. Preprocessing buffers,
multiplication and input are calls of one thread around the openings that `TreeSum` and `MacCheck` model.
`PROJECT.json` gives the reason for each component.

Left out of what is modelled, and why it cannot change what is checked, or why it is beyond the model:

* the coordinator's check that all or none of the parties are local, and parties given by a file of hosts: both
  end before, or do without, the steps of `Rendezvous`;
* the TLS handshakes, which take place between two ends of one connection, in the order of the set-up;
* what becomes of a round of messages when a party dies in the middle of it: an exception of the others, after
  which no program goes on;
* a receive of more bytes than the buffer holds when it is also sent from (`Exchanger.h:125`): `octetStream::resize`
  then moves the bytes, and what the exchanger sends from its old address is undefined. The programs pass
  messages of one length that way;
* in `hand_off`, what an execution does with the messages a crashed one left: it takes them, since nothing tells the
  executions apart, and blocks if they fill the queue. `FreshBits` and `HandOffEnds` speak of executions after a normal
  end; that no queue remains after the next normal end is `NoQueueLeft`;
* an exception in a main thread of triple generation, which would destroy the generator in the middle of a round
  (`OT/OTMultiplier.hpp:157`): the program ends with it;
* a sender thread that blocks in the middle of a message: `SenderRun` puts in the whole message, whatever `Cap`. Nothing
  but the receiver thread at the other end reads that direction meanwhile, and it reads until it has all;
* a spurious wake-up in `WaitQueue::pop`, whose single test of the queue would then take the front of an empty
  one: undefined behaviour, allowed by POSIX and not excluded by the code.

## 7. What could follow

An abstract key generation that `DistKeyGen` implements.
