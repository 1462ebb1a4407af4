------------------------------ MODULE DistKeyGen ------------------------------
(***************************************************************************)
(* BLS_::dstb_keygen (POC/bls.cpp): every party deals a Feldman sharing of *)
(* a random secret to every other party, over one FIFO stream per ordered  *)
(* pair of parties, and adds up what it was dealt into its share sk of the *)
(* joint key and into the joint public key vk.                             *)
(*                                                                         *)
(* The function is four rounds of "send to every peer, then receive from   *)
(* every peer": commitment, opening, share, and the T+1 auxiliary points.  *)
(* Frames carry no tag on the wire: a party knows what it reads only from  *)
(* the position of the frame in the stream.  The tag `slot' kept in the    *)
(* model lets the properties say what a frame was sent as.                 *)
(*                                                                         *)
(* A group element g^x is represented by its exponent x.  The commitment   *)
(* hash is ideal: a commitment stands for the value it was computed from.  *)
(***************************************************************************)
EXTENDS Naturals, Sequences

CONSTANTS
  N,            \* number of parties, numbered 0 .. N-1 as in the code
  T,            \* degree of the dealt polynomials (the code passes N-1)
  Cap,          \* frames a stream holds unread before the sender blocks
  Fr,           \* the scalar field
  None,         \* a value not received yet
  Plus(_, _),   \* mclBnFr_add, and mclBnG1_add on exponents
  Eval(_, _),   \* mclBn_FrEvaluatePolynomial, and the G1 one on exponents
  Polys(_),     \* polynomials a dealer may draw, for TLC a few of them
  Wrong(_),     \* what a frame may hold instead of the value it should hold
  Faulty,       \* dealers that may send something else than gen_share computed
  MaxFaults     \* bound on the frames that do so

Party == 0 .. N - 1
Slot  == 1 .. T + 4
Coeff == [0 .. T -> Fr]

ASSUME SizeAssumption ==
  /\ N \in Nat /\ N >= 2
  /\ T \in 0 .. N            \* the constructor of VSS throws otherwise
  /\ Cap \in Nat \ {0}
  /\ Faulty \subseteq Party /\ MaxFaults \in Nat

ASSUME FieldAssumption ==
  /\ None \notin Fr
  /\ \A p \in Party : Polys(p) \subseteq Coeff
  /\ \A a, b \in Fr : Plus(a, b) \in Fr
  /\ \A a \in Fr : Wrong(a) \subseteq Fr
  /\ \A p \in Party : \A c \in Polys(p) : \A x \in 1 .. N : Eval(c, x) \in Fr

(***************************************************************************)
(* The position in a stream of each thing a dealer sends.                  *)
(***************************************************************************)
CommSlot   == 1
OpenSlot   == 2
ShareSlot  == 3
AuxSlot(k) == 4 + k

Round == 1 .. 4
FirstSlot(r) == r
LastSlot(r)  == IF r = 4 THEN T + 4 ELSE r

(* The peers of p in the order of the loops "for i .. if (i != my_num)".   *)
FirstPeer(p)   == IF p = 0 THEN 1 ELSE 0
(* Mutants: the test for my_num dropped; the loop ends one peer too early.  *)
NextPeerWithSelf(p, q) == q + 1
NextPeerShort(p, q) ==
  LET n == IF q + 1 = p THEN q + 2 ELSE q + 1 IN IF n = N - 1 THEN N ELSE n

NextPeer(p, q)    == IF q + 1 = p THEN q + 2 ELSE q + 1

VARIABLES
  mode,    \* "send", "recv", "check", "done" or "threw", per party
  round,   \* the round a party is in
  peer,    \* index i of the loop it is in; N once the loop is over
  slot,    \* slot it sends or expects next
  poly,    \* the coefficients of its VSS polynomial, poly[p][0] the secret
  log,     \* log[p][q]: all frames p ever sent to q, oldest first
  rd,      \* rd[p][q]: how many frames of log[q][p] p has received
  got,     \* got[p][q][s]: os_comms, os_opens, tmp_shares and aux_tmp of p
  sk, vk,  \* bls.sk and bls.vk
  faults   \* frames so far that hold a wrong value

vars == <<mode, round, peer, slot, poly, log, rd, got, sk, vk, faults>>

Frame == [slot : Slot, val : Fr]

-----------------------------------------------------------------------------

Init ==
  /\ mode  = [p \in Party |-> "send"]
  /\ round = [p \in Party |-> 1]
  /\ peer  = [p \in Party |-> FirstPeer(p)]
  /\ slot  = [p \in Party |-> FirstSlot(1)]
  /\ poly \in [Party -> UNION {Polys(p) : p \in Party}]
  /\ \A p \in Party : poly[p] \in Polys(p)
  /\ log   = [p \in Party |-> [q \in Party |-> <<>>]]
  /\ rd    = [p \in Party |-> [q \in Party |-> 0]]
  /\ got   = [p \in Party |-> [q \in Party |-> [s \in Slot |-> None]]]
  /\ sk    = [p \in Party |-> Eval(poly[p], p + 1)]
  /\ vk    = [p \in Party |-> poly[p][0]]
  /\ faults = 0

(* What gen_share and Commit computed for slot s of the stream from p to q. *)
Dealt(p, q, s) ==
  CASE s \in {CommSlot, OpenSlot} -> poly[p][0]
    [] s = ShareSlot              -> Eval(poly[p], q + 1)
    [] OTHER                      -> poly[p][s - 4]

(* After the frame of slot[p] is sent to or received from peer[p]: the next *)
(* slot of the same peer, else the next peer.                               *)
Advance(p) ==
  IF slot[p] < LastSlot(round[p])
  THEN /\ slot' = [slot EXCEPT ![p] = @ + 1]
       /\ UNCHANGED peer
  ELSE /\ slot' = [slot EXCEPT ![p] = FirstSlot(round[p])]
       /\ peer' = [peer EXCEPT ![p] = NextPeer(p, @)]

(* The loop over the peers is over: on to mode m of round r.               *)
Enter(p, m, r) ==
  /\ peer[p] = N
  /\ mode'  = [mode EXCEPT ![p] = m]
  /\ round' = [round EXCEPT ![p] = r]
  /\ peer'  = [peer EXCEPT ![p] = FirstPeer(p)]
  /\ slot'  = [slot EXCEPT ![p] = FirstSlot(r)]
  /\ UNCHANGED <<poly, log, rd, got, sk, vk, faults>>

Send(p) ==
  /\ mode[p] = "send" /\ peer[p] < N
  /\ LET q == peer[p]
         v == Dealt(p, q, slot[p]) IN
     /\ Len(log[p][q]) - rd[q][p] < Cap
     /\ \/ /\ log' = [log EXCEPT ![p][q] = Append(@, [slot |-> slot[p], val |-> v])]
           /\ UNCHANGED faults
        \/ /\ p \in Faulty /\ faults < MaxFaults
           /\ faults' = faults + 1
           /\ \E w \in Wrong(v) :
                log' = [log EXCEPT ![p][q] = Append(@, [slot |-> slot[p], val |-> w])]
  /\ Advance(p)
  /\ UNCHANGED <<mode, round, poly, rd, got, sk, vk>>

(* Mutant: the opening is sent before the commitments are received.         *)
SentOpensEarly(p) ==
  /\ mode[p] = "send"
  /\ IF round[p] = 1 THEN Enter(p, "send", 2) ELSE Enter(p, "recv", round[p])

Sent(p) == mode[p] = "send" /\ Enter(p, "recv", round[p])

Receive(p) ==
  /\ mode[p] = "recv" /\ peer[p] < N
  /\ LET q == peer[p] IN
     /\ rd[p][q] < Len(log[q][p])
     /\ got' = [got EXCEPT ![p][q][slot[p]] = log[q][p][rd[p][q] + 1].val]
     /\ rd'  = [rd EXCEPT ![p][q] = @ + 1]
  /\ Advance(p)
  /\ UNCHANGED <<mode, round, poly, log, sk, vk, faults>>

(* Mutant: a round that receives before it sends.                           *)
ReceivesFirst(r) == IF r = 4 THEN "check" ELSE "recv"

AfterReceiving(r) == IF r = 4 THEN "check" ELSE "send"

Received(p) ==
  /\ mode[p] = "recv"
  /\ Enter(p, AfterReceiving(round[p]), IF round[p] = 4 THEN 4 ELSE round[p] + 1)

(* res1, res2 and res3 of the checking loop.                                *)
OpensCommitment(p, q) == got[p][q][OpenSlot] = got[p][q][CommSlot]
AuxReceived(p, q)     == [k \in 0 .. T |-> got[p][q][AuxSlot(k)]]
VerifyShare(p, q)     == got[p][q][ShareSlot] = Eval(AuxReceived(p, q), p + 1)
AuxIsOpened(p, q)     == got[p][q][OpenSlot] = got[p][q][AuxSlot(0)]

(* Mutants: the share, or the binding of the points to the opening, is not  *)
(* looked at.                                                               *)
AcceptsAnyShare(p, q) == OpensCommitment(p, q) /\ AuxIsOpened(p, q)
AcceptsAnyAux(p, q)   == OpensCommitment(p, q) /\ VerifyShare(p, q)

Accepts(p, q) ==
  OpensCommitment(p, q) /\ VerifyShare(p, q) /\ AuxIsOpened(p, q)

Accept(p) ==
  /\ mode[p] = "check" /\ peer[p] < N
  /\ LET q == peer[p] IN
     /\ Accepts(p, q)
     /\ sk' = [sk EXCEPT ![p] = Plus(@, got[p][q][ShareSlot])]
     /\ vk' = [vk EXCEPT ![p] = Plus(@, got[p][q][AuxSlot(0)])]
  /\ peer' = [peer EXCEPT ![p] = NextPeer(p, @)]
  /\ UNCHANGED <<mode, round, slot, poly, log, rd, got, faults>>

(* throw invalid_commitment: sk and vk keep the sums reached so far.        *)
Throw(p) ==
  /\ mode[p] = "check" /\ peer[p] < N
  /\ ~ Accepts(p, peer[p])
  /\ mode' = [mode EXCEPT ![p] = "threw"]
  /\ UNCHANGED <<round, peer, slot, poly, log, rd, got, sk, vk, faults>>

Return(p) ==
  /\ mode[p] = "check" /\ peer[p] = N
  /\ mode' = [mode EXCEPT ![p] = "done"]
  /\ UNCHANGED <<round, peer, slot, poly, log, rd, got, sk, vk, faults>>

Step(p) == \/ Send(p)    \/ Sent(p)
           \/ Receive(p) \/ Received(p)
           \/ Accept(p)  \/ Throw(p)  \/ Return(p)

Ended(p) == mode[p] \in {"done", "threw"}

(* Every party has left dstb_keygen: the only state that may have no step. *)
AllEnded == (\A p \in Party : Ended(p)) /\ UNCHANGED vars

Next == (\E p \in Party : Step(p)) \/ AllEnded

Spec == Init /\ [][Next]_vars

(* Each party is a process of its own that runs until it blocks.           *)
FairSpec == Spec /\ \A p \in Party : WF_vars(Step(p))
-----------------------------------------------------------------------------
(* Properties. *)

(***************************************************************************)
(* Every variable holds a value of its kind; in particular no party ever   *)
(* addresses itself, which its socket table has no stream for.             *)
(***************************************************************************)
TypeOK ==
  /\ mode  \in [Party -> {"send", "recv", "check", "done", "threw"}]
  /\ round \in [Party -> Round]
  /\ peer  \in [Party -> 0 .. N]
  /\ \A p \in Party : peer[p] # p
  /\ slot  \in [Party -> Slot]
  /\ poly  \in [Party -> Coeff]
  /\ \A p \in Party : poly[p] \in Polys(p)
  /\ log   \in [Party -> [Party -> Seq(Frame)]]
  /\ rd    \in [Party -> [Party -> Nat]]
  /\ got   \in [Party -> [Party -> [Slot -> Fr \cup {None}]]]
  /\ sk    \in [Party -> Fr]
  /\ vk    \in [Party -> Fr]
  /\ faults \in 0 .. MaxFaults

(***************************************************************************)
(* Whatever the other parties' speed, the frame at the head of the stream  *)
(* a party is about to read was sent as what it will be parsed as: the     *)
(* untagged streams of bls.cpp 70-138 never get out of step.               *)
(***************************************************************************)
FramesMatch ==
  \A p \in Party :
    LET q == peer[p] IN
    mode[p] = "recv" /\ q < N /\ rd[p][q] < Len(log[q][p])
      => log[q][p][rd[p][q] + 1].slot = slot[p]

(***************************************************************************)
(* A party that leaves dstb_keygen, even by the exception, leaves nothing  *)
(* in its streams and nothing is still to come: the online phase that uses *)
(* the same sockets next starts at a frame boundary of its own.            *)
(***************************************************************************)
StreamsDrained ==
  \A p, q \in Party :
    Ended(p) /\ p # q => rd[p][q] = Len(log[q][p]) /\ rd[p][q] = T + 4

(***************************************************************************)
(* No opening is on the wire before every party has received every         *)
(* commitment addressed to it by its sender: no dealer can pick its        *)
(* contribution to the joint key after seeing another one (bls.cpp 70-82). *)
(***************************************************************************)
CommitBeforeOpen ==
  \A p \in Party : \A q \in Party \ {p} :
    (\E i \in 1 .. Len(log[p][q]) : log[p][q][i].slot = OpenSlot)
      => \A d \in Party \ {p} : /\ got[p][d][CommSlot] # None
                                /\ log[d][p] # <<>>

(***************************************************************************)
(* Two parties that both succeed add the same contribution of dealer d to  *)
(* vk, unless d committed to different values towards them: nothing a      *)
(* dealer sends after the commitments can split the parties.               *)
(***************************************************************************)
CommittedTo(p, d)     == IF d = p THEN poly[p][0] ELSE got[p][d][CommSlot]
ContributionOf(p, d)  == IF d = p THEN poly[p][0] ELSE got[p][d][AuxSlot(0)]

ContributionsAgree ==
  \A p, q, d \in Party :
    mode[p] = "done" /\ mode[q] = "done" /\ CommittedTo(p, d) = CommittedTo(q, d)
      => ContributionOf(p, d) = ContributionOf(q, d)

-----------------------------------------------------------------------------
(***************************************************************************)
(* The inductive invariant behind FramesMatch, StreamsDrained and          *)
(* CommitBeforeOpen: the control state of a party alone tells how many     *)
(* frames it has sent to and received from each peer.                      *)
(***************************************************************************)
\* Frames handled towards q when the loop of p's round stands at peer[p], slot[p].
Reached(p, q) ==
  IF q < peer[p] THEN LastSlot(round[p])
  ELSE IF q = peer[p] THEN slot[p] - 1
  ELSE FirstSlot(round[p]) - 1

SentTo(p, q)   == IF mode[p] = "send" THEN Reached(p, q) ELSE LastSlot(round[p])
ReadFrom(p, q) == CASE mode[p] = "send" -> FirstSlot(round[p]) - 1
                    [] mode[p] = "recv" -> Reached(p, q)
                    [] OTHER            -> LastSlot(round[p])

CursorOK ==
  \A p \in Party :
    /\ slot[p] \in FirstSlot(round[p]) .. LastSlot(round[p])
    /\ peer[p] = N => slot[p] = FirstSlot(round[p])
    /\ mode[p] \notin {"send", "recv"} => round[p] = 4 /\ slot[p] = FirstSlot(4)

CountsOK ==
  \A p, q \in Party : p # q =>
    /\ Len(log[p][q]) = SentTo(p, q)
    /\ rd[p][q] = ReadFrom(p, q)
    /\ rd[p][q] <= Len(log[q][p])

TagsOK == \A p, q \in Party : \A i \in 1 .. Len(log[p][q]) : log[p][q][i].slot = i

GotOK ==
  \A p, q \in Party : p # q =>
    \A s \in 1 .. rd[p][q] : got[p][q][s] = log[q][p][s].val

AcceptedOK ==
  \A p, q \in Party :
    p # q /\ (mode[p] = "done" \/ (mode[p] = "check" /\ q < peer[p]))
      => Accepts(p, q)

IInv == TypeOK /\ CursorOK /\ CountsOK /\ TagsOK /\ GotOK /\ AcceptedOK
=============================================================================
