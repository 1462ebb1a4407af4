------------------------------ MODULE Exchange ------------------------------
(***************************************************************************)
(* Messages between unencrypted players, byte by byte: the class Exchanger *)
(* (Networking/Exchanger.h) and the rounds of Networking/Player.cpp made   *)
(* of it, Broadcast_Receive, pass_around, exchange and Check_Broadcast.    *)
(*                                                                         *)
(* An exchanger sends one stream and receives another at the same time,    *)
(* neither waiting for the other, over connections that take only so many  *)
(* bytes; it may send out of the very buffer it receives into.  Nothing    *)
(* separates two messages on a connection but their lengths.               *)
(*                                                                         *)
(* A byte is a unit, and so is a length: it is sent and read in whole.  A   *)
(* round of an exchanger that moves nothing is left out.                   *)
(***************************************************************************)
EXTENDS Parties, Sequences, FiniteSets
Seqs == INSTANCE SequencesExt

CONSTANTS Cap,        \* units a connection holds per direction
          Programs,   \* sequences of operations, the same at every party
          Liars       \* parties that may broadcast different things to different parties

Least(a, b) == IF a < b THEN a ELSE b

(***************************************************************************)
(* An operation: its kind, the length of each party's message, and for     *)
(* "pass" whether it is received into the buffer it is sent from, for      *)
(* "swap" which two parties.                                               *)
(***************************************************************************)
Broadcast(len)  == [kind |-> "broadcast", len |-> len, same |-> FALSE, who |-> Party]
Pass(len, same) == [kind |-> "pass", len |-> len, same |-> same, who |-> Party]
Swap(len, two)  == [kind |-> "swap", len |-> len, same |-> FALSE, who |-> two]
Check           == [kind |-> "check", len |-> [p \in Party |-> 1], same |-> FALSE, who |-> Party]

(* What Player.cpp needs of them: a party other than oneself to exchange    *)
(* with; messages of one length where the buffer received into is the one   *)
(* sent from (octetStream::resize discards it otherwise); swaps of two.     *)
WellFormed(o) ==
  /\ o.same => o.kind = "pass" /\ \A p, q \in Party : o.len[p] = o.len[q]
  /\ o.kind = "check" => \A p \in Party : o.len[p] = 1
  /\ o.kind = "swap" => \E p, q \in Party : p # q /\ o.who = {p, q}

Operation == [kind : {"broadcast", "pass", "swap", "check"}, len : [Party -> Nat],
              same : BOOLEAN, who : SUBSET Party]

ASSUME CompanyAssumption  == N > 1
ASSUME CapAssumption      == Cap \in Nat
ASSUME LiarsAssumption    == Liars \subseteq Party
ASSUME ProgramsAssumption ==
  \A p \in Programs : p \in Seq(Operation) /\ \A t \in 1 .. Len(p) : WellFormed(p[t])

VARIABLES program,  \* the sequence of operations
          op,       \* the one a party is at
          begun,    \* exchangers constructed, that is, lengths sent
          sent, got, newLen,  \* per exchanger: sent, the bytes received, new_len
          pipe,     \* what is on its way on a layer between two parties
          lied,     \* whom a party shows another broadcast in this operation
          ctx,      \* the broadcasts a party has hashed
          threw     \* parties that threw broadcast_invalid

exVars == <<program, op, begun, sent, got, newLen, pipe, lied, ctx, threw>>

Op(p)     == program[op[p]]
Through(p) == op[p] > Len(program) \/ p \in threw
NotYet    == -1  \* not length_received

(* The exchangers of an operation, numbered by the distance to the receiver: *)
(* check sends to nobody while nothing has been hashed.                     *)
Exchangers(p) ==
  CASE Op(p).kind = "broadcast" -> 1 .. N - 1
    [] Op(p).kind = "check"     -> IF ctx[p] = <<>> THEN {} ELSE 1 .. N - 1
    [] Op(p).kind = "pass"      -> {1}
    [] Op(p).kind = "swap"      -> {d \in 1 .. N - 1 : {p, (p + d) % N} = Op(p).who}
To(p, d)   == (p + d) % N
From(p, d) == IF Op(p).kind = "swap" THEN To(p, d) ELSE (p - d) % N

(* What p sends to q in operation t: bytes of its own, or the digest.       *)
Content(p, q, t) ==
  IF program[t].kind = "check" THEN <<ctx[p]>>
  ELSE [k \in 1 .. program[t].len[p] |-> <<p, t, k, p \in Liars /\ q \in lied[p]>>]

ExInit ==
  /\ program = <<>>
  /\ op = [p \in Party |-> 1] /\ begun = [p \in Party |-> {}]
  /\ sent = [p \in Party |-> [d \in 1 .. N - 1 |-> 0]]
  /\ got = [p \in Party |-> [d \in 1 .. N - 1 |-> <<>>]]
  /\ newLen = [p \in Party |-> [d \in 1 .. N - 1 |-> NotYet]]
  /\ pipe = [l \in Layer |-> [p \in Party |-> [q \in Party |-> <<>>]]]
  /\ lied = [p \in Party |-> {}]
  /\ ctx = [p \in Party |-> <<>>] /\ threw = {}

(* What the parties are going to do, drawn before the first of them begins. *)
Given ==
  /\ program = <<>> /\ program' \in Programs
  /\ \E liars \in {{}, Liars} :
       /\ liars # {} => \E t \in 1 .. Len(program') : program'[t].kind = "broadcast"
       /\ lied' = [p \in Party |-> IF p \in liars THEN {To(p, 1)} ELSE {}]
  /\ UNCHANGED <<op, begun, sent, got, newLen, pipe, ctx, threw>>

Put(l, p, q, units) == pipe' = [pipe EXCEPT ![l][p][q] = @ \o units]
Take(l, p, q, n)    == pipe' = [pipe EXCEPT ![l][q][p] = SubSeq(@, n + 1, Len(@))]

(* An exchanger uses sockets[...], in either direction.                     *)
Coming(p, d)   == pipe[0][From(p, d)][p]
Room(p, d)     == Cap - Len(pipe[0][p][To(p, d)])
LengthUnit(p)  == [val |-> "length", len |-> Op(p).len[p]]
ByteUnit(b)    == [val |-> b, len |-> 1]

(* The constructor sends the length, and blocks while there is no room.     *)
Construct(p, d) ==
  /\ ~Through(p) /\ d \in Exchangers(p) \ begun[p]
  /\ \A e \in Exchangers(p) \ begun[p] : d <= e
  /\ Room(p, d) > 0
  /\ Put(0, p, To(p, d), <<LengthUnit(p)>>)
  /\ begun' = [begun EXCEPT ![p] = @ \cup {d}]
  /\ UNCHANGED <<program, op, sent, got, newLen, lied, ctx, threw>>

Running(p, d) == ~Through(p) /\ begun[p] = Exchangers(p) /\ d \in Exchangers(p)

(* The byte at k of the buffer sent from: what was received may be there.   *)
ByteAt(p, d, k) ==
  IF Op(p).same /\ k <= Len(got[p][d]) THEN got[p][d][k]
  ELSE Content(p, To(p, d), op[p])[k]

(* round, its first half: as many bytes as the connection takes.            *)
RoundSend(p, d) ==
  /\ Running(p, d) /\ sent[p][d] < Op(p).len[p]
  /\ \E n \in 1 .. Least(Op(p).len[p] - sent[p][d], Room(p, d)) :
       /\ Put(0, p, To(p, d), [j \in 1 .. n |-> ByteUnit(ByteAt(p, d, sent[p][d] + j))])
       /\ sent' = [sent EXCEPT ![p][d] = @ + n]
  /\ UNCHANGED <<program, op, begun, got, newLen, lied, ctx, threw>>

(* round, its second half: the length first, all or nothing.                *)
RoundLength(p, d) ==
  /\ Running(p, d) /\ newLen[p][d] = NotYet /\ Coming(p, d) # <<>>
  /\ newLen' = [newLen EXCEPT ![p][d] = Head(Coming(p, d)).len]
  /\ Take(0, p, From(p, d), 1)
  /\ UNCHANGED <<program, op, begun, sent, got, lied, ctx, threw>>

(* Then as many bytes as there are, but none over a byte still to be sent.  *)
ToReceiveAll(p, d) == newLen[p][d] - Len(got[p][d])   \* mutant: the buffers never differ
ToReceive(p, d) ==
  IF sent[p][d] = Op(p).len[p] \/ ~Op(p).same THEN newLen[p][d] - Len(got[p][d])
  ELSE sent[p][d] - Len(got[p][d])

RoundReceive(p, d) ==
  /\ Running(p, d) /\ Len(got[p][d]) < newLen[p][d]
  /\ \E n \in 1 .. Least(ToReceive(p, d), Len(Coming(p, d))) :
       /\ got' = [got EXCEPT ![p][d] = @ \o [j \in 1 .. n |-> Coming(p, d)[j].val]]
       /\ Take(0, p, From(p, d), n)
  /\ UNCHANGED <<program, op, begun, sent, newLen, lied, ctx, threw>>

Finished(p, d) == /\ Running(p, d) /\ sent[p][d] = Op(p).len[p]
                  /\ Len(got[p][d]) = newLen[p][d]

(* What Broadcast_Receive hashes: the streams of all parties, its own too,  *)
(* in the order of the parties, as one run of bytes.                        *)
StreamOf(p, q) == IF q = p THEN Content(p, p, op[p])
                  ELSE got[p][CHOOSE d \in 1 .. N - 1 : From(p, d) = q]
JoinedMineFirst(p) == Seqs!FlattenSeq([k \in 1 .. N |-> StreamOf(p, (p + k - 1) % N)]) \* mutant
Joined(p) == Seqs!FlattenSeq([k \in 1 .. N |-> StreamOf(p, k - 1)])

(* Check_Broadcast throws when a digest is not its own; ctx.reset() else.   *)
Valid(p) == \A d \in Exchangers(p) : got[p][d] = <<ctx[p]>>

(* The operation is over, and its exchangers are gone.                      *)
Conclude(p) ==
  /\ IF Op(p).kind = "check" /\ ~Valid(p)
     THEN threw' = threw \cup {p} /\ UNCHANGED <<op, ctx>>
     ELSE /\ op' = [op EXCEPT ![p] = @ + 1]
          /\ ctx' = [ctx EXCEPT ![p] = CASE Op(p).kind = "broadcast" -> @ \o Joined(p)
                                         [] Op(p).kind = "check"     -> <<>>
                                         [] OTHER                    -> @]
          /\ UNCHANGED threw
  /\ begun' = [begun EXCEPT ![p] = {}]
  /\ sent' = [sent EXCEPT ![p] = [d \in 1 .. N - 1 |-> 0]]
  /\ got' = [got EXCEPT ![p] = [d \in 1 .. N - 1 |-> <<>>]]
  /\ newLen' = [newLen EXCEPT ![p] = [d \in 1 .. N - 1 |-> NotYet]]
  /\ UNCHANGED <<program, pipe, lied>>

Complete(p) ==
  /\ ~Through(p) /\ begun[p] = Exchangers(p) /\ \A d \in Exchangers(p) : Finished(p, d)
  /\ Conclude(p)

ExStep(p) ==
  \/ \E d \in 1 .. N - 1 :
       Construct(p, d) \/ RoundSend(p, d) \/ RoundLength(p, d) \/ RoundReceive(p, d)
  \/ Complete(p)

-----------------------------------------------------------------------------
(* A party that has received a message has the bytes its source put in, in  *)
(* this operation and for this party: none of another operation, and none   *)
(* of its own, although an exchanger may have sent them out of the same     *)
(* buffer while both moved in pieces (Exchanger::round), and messages of    *)
(* the threads and of exchangers follow each other on a connection          *)
(* (CryptoPlayer::pass_around_no_stats).                                    *)
RightBytes ==
  \A p \in Party : \A d \in 1 .. N - 1 :
    ~Through(p) /\ Op(p).kind # "check" /\ Len(got[p][d]) = newLen[p][d]
      => got[p][d] = Content(From(p, d), p, op[p])

(* Check_Broadcast lets a party pass only if everyone was shown the same    *)
(* since the last check, and stops nobody otherwise: all parties hash the   *)
(* same bytes in the same order, and enter the check after the same          *)
(* broadcasts.                                                              *)
Told(t) == \E p \in Liars : /\ program[t].kind = "broadcast" /\ program[t].len[p] > 0
                            /\ lied[p] # {}
CheckCatchesLies ==
  \A p \in Party :
    /\ \A s \in 1 .. Len(program) :
         s < op[p] /\ program[s].kind = "check" => \A t \in 1 .. s : ~Told(t)
    /\ p \in threw => \E t \in 1 .. op[p] : Told(t)

=============================================================================
