------------------------------ MODULE TreeSum ------------------------------
(***************************************************************************)
(* The opening of shared values by TreeSum<T>::run (Protocols/             *)
(* MAC_Check.h): partial sums travel down to the base player along one     *)
(* tree, the result travels back along another, over one connection per    *)
(* pair of players, without tags: a message is known by its position only. *)
(* A player is named by its number relative to the base player.            *)
(*                                                                         *)
(* A value is the bag of the shares added into it, <<player, opening>>, so *)
(* a share lost, added twice or taken from another opening shows.          *)
(***************************************************************************)
EXTENDS Integers, Sequences, Bags, FiniteSetsExt

CONSTANTS N,            \* players
          OpeningSum,   \* opening_sum (10 by default)
          MaxBroadcast, \* max_broadcast (10 by default)
          Runs,         \* openings run one after another
          Cap           \* messages a connection holds before a send blocks

ASSUME SizeAssumption == /\ N \in Nat \ {0, 1} /\ Runs \in Nat /\ Cap \in Nat \ {0}
                         /\ OpeningSum \in Nat \ {0} /\ MaxBroadcast \in Nat \ {0, 1}

Players == 0 .. N - 1

-----------------------------------------------------------------------------
(* The loop of start() narrows the players that hold a sum round by round:  *)
(* last_sum_players of round i, then sum_players of the same round.         *)
Width[i \in 0 .. N] ==
  IF i = 0 THEN N
  ELSE IF Width[i - 1] = 0 THEN 0 ELSE (Width[i - 1] - 2 + OpeningSum) \div OpeningSum

(* The round in which r sends its sum, r not the base player.               *)
RoundOf(r) == CHOOSE i \in 0 .. N - 1 : Width[i + 1] <= r /\ r < Width[i]

(* Mutant: the receiver is computed from the width before the round.        *)
ReceiverOfLastWidth(r) == r % Width[RoundOf(r)]

Receiver(r) == r % Width[RoundOf(r) + 1]

(* Mutant: the last sender of a round is not asked.                         *)
SendersButLast(r, i) ==
  {s \in Width[i + 1] + r .. Width[i] - 2 : (s - r) % Width[i + 1] = 0}

(* add_openings: whom r asks in round i.                                    *)
SendersTo(r, i) ==
  IF r >= Width[i + 1] THEN {}
  ELSE {s \in Width[i + 1] + r .. Width[i] - 1 : (s - r) % Width[i + 1] = 0}

(* Mutant: a player passes the result on to one player too many.            *)
TargetsOverlap(r) == {s \in 1 .. N - 1 : s \div MaxBroadcast = r \/ s = (r + 1) * MaxBroadcast}

(* Whom r passes the result on to.                                          *)
Targets(r) == {s \in 1 .. N - 1 : s \div MaxBroadcast = r}

(* Mutant: the players behind r are counted from r itself.                  *)
SourceOffByOne(r) == (r - 1) \div MaxBroadcast

(* From whom r gets the result.                                             *)
Source(r) == r \div MaxBroadcast

-----------------------------------------------------------------------------
VARIABLES
  phase,    \* phase[p]: where p is in run()
  round,    \* round[p]: the round of the loop p is in
  asked,    \* asked[p]: senders p has heard in that round
  sent,     \* sent[p]: players p has passed the result on to
  values,   \* values[p]: what p holds
  chan,     \* chan[<<p, q>>]: messages from p to q, in order
  entered,  \* entered[p]: openings p has begun
  opened    \* opened[p]: what run() has given p, in order

vars == <<phase, round, asked, sent, values, chan, entered, opened>>

Init == /\ phase = [p \in Players |-> "idle"]
        /\ round = [p \in Players |-> 0]
        /\ asked = [p \in Players |-> {}]
        /\ sent = [p \in Players |-> {}]
        /\ values = [p \in Players |-> EmptyBag]
        /\ chan = [c \in Players \X Players |-> <<>>]
        /\ entered = [p \in Players |-> 0]
        /\ opened = [p \in Players |-> <<>>]

Send(p, q) == /\ Len(chan[<<p, q>>]) < Cap
              /\ chan' = [chan EXCEPT ![<<p, q>>] = Append(@, values[p])]

Receive(p, q) == /\ chan[<<q, p>>] # <<>>
                 /\ chan' = [chan EXCEPT ![<<q, p>>] = Tail(@)]

(* run() is called on p's shares.                                           *)
Begin(p) == /\ phase[p] = "idle"
            /\ entered[p] < Runs
            /\ entered' = [entered EXCEPT ![p] = @ + 1]
            /\ values' = [values EXCEPT ![p] = SetToBag({<<p, entered'[p]>>})]
            /\ round' = [round EXCEPT ![p] = 0]
            /\ phase' = [phase EXCEPT ![p] = "summing"]
            /\ UNCHANGED <<asked, sent, chan, opened>>

Unheard(p) == SendersTo(p, round[p]) \ asked[p]

(* add_openings: the senders of the round are heard in order.               *)
HearSum(p) == /\ phase[p] = "summing"
              /\ Unheard(p) # {}
              /\ LET q == Min(Unheard(p))
                 IN  /\ Receive(p, q)
                     /\ values' = [values EXCEPT ![p] = @ (+) Head(chan[<<q, p>>])]
                     /\ asked' = [asked EXCEPT ![p] = @ \cup {q}]
              /\ UNCHANGED <<phase, round, sent, entered, opened>>

(* The next round, for a player that goes on holding a sum.                 *)
NextRound(p) == /\ phase[p] = "summing"
                /\ Unheard(p) = {}
                /\ p < Width[round[p] + 1]
                /\ round' = [round EXCEPT ![p] = @ + 1]
                /\ asked' = [asked EXCEPT ![p] = {}]
                /\ UNCHANGED <<phase, sent, values, chan, entered, opened>>

(* A player that the next width leaves out sends its sum and then awaits    *)
(* the result; for it the rounds left do nothing.                           *)
SendSum(p) == /\ phase[p] = "summing"
              /\ p # 0
              /\ Width[round[p] + 1] <= p
              /\ Send(p, Receiver(p))
              /\ asked' = [asked EXCEPT ![p] = {}]
              /\ phase' = [phase EXCEPT ![p] = "awaiting"]
              /\ UNCHANGED <<round, sent, values, entered, opened>>

(* The base player has the sum once the width is 0.                         *)
BaseHasSum == /\ phase[0] = "summing"
              /\ Width[round[0] + 1] = 0
              /\ phase' = [phase EXCEPT ![0] = "passing"]
              /\ UNCHANGED <<round, asked, sent, values, chan, entered, opened>>

(* ReceiveValues                                                            *)
HearResult(p) == /\ phase[p] = "awaiting"
                 /\ Receive(p, Source(p))
                 /\ values' = [values EXCEPT ![p] = Head(chan[<<Source(p), p>>])]
                 /\ phase' = [phase EXCEPT ![p] = "passing"]
                 /\ UNCHANGED <<round, asked, sent, entered, opened>>

PassOn(p) == /\ phase[p] = "passing"
             /\ Targets(p) \ sent[p] # {}
             /\ LET q == Min(Targets(p) \ sent[p])
                IN  Send(p, q) /\ sent' = [sent EXCEPT ![p] = @ \cup {q}]
             /\ UNCHANGED <<phase, round, asked, values, entered, opened>>

(* run() returns.                                                           *)
Finish(p) == /\ phase[p] = "passing"
             /\ Targets(p) \subseteq sent[p]
             /\ opened' = [opened EXCEPT ![p] = Append(@, values[p])]
             /\ sent' = [sent EXCEPT ![p] = {}]
             /\ phase' = [phase EXCEPT ![p] = "idle"]
             /\ UNCHANGED <<round, asked, values, chan, entered>>

Step(p) == \/ Begin(p) \/ HearSum(p) \/ NextRound(p) \/ SendSum(p)
           \/ HearResult(p) \/ PassOn(p) \/ Finish(p)
           \/ p = 0 /\ BaseHasSum

(* Not a step of the code: it keeps the end of the last opening from        *)
(* counting as a deadlock.                                                  *)
AllDone == /\ \A p \in Players : phase[p] = "idle" /\ entered[p] = Runs
           /\ UNCHANGED vars

Next == AllDone \/ \E p \in Players : Step(p)

Spec == Init /\ [][Next]_vars

(* A player's thread goes on as long as it can.                             *)
FairSpec == Spec /\ \A p \in Players : WF_vars(Step(p))

-----------------------------------------------------------------------------
Whole(k) == SetToBag(Players \X {k})

(* The connections carry no tags, so a direction may carry one kind of      *)
(* message only: towards the base player partial sums of one opening, each  *)
(* share in them once, and away from it the finished sums.  It never holds  *)
(* more than one, even when it could: no send of run() ever blocks.         *)
OneKindPerDirection ==
  \A p, q \in Players :
    /\ Len(chan[<<p, q>>]) <= 1
    /\ \A i \in DOMAIN chan[<<p, q>>] :
         LET m == chan[<<p, q>>][i] IN
         IF q < p THEN \E k \in 1 .. Runs : <<p, k>> \in DOMAIN m /\ m # Whole(k)
                                           /\ m = SetToBag(DOMAIN m)
                                           /\ DOMAIN m \subseteq Players \X {k}
                  ELSE \E k \in 1 .. Runs : m = Whole(k)

(* A message left unread would be taken for one of the next opening: when   *)
(* all players have finished as many openings, nothing is under way.        *)
NothingLeftOver ==
  (\A p, q \in Players : phase[p] = "idle" /\ entered[p] = entered[q])
    => \A c \in DOMAIN chan : chan[c] = <<>>

(* What TreeSum promises: the sums of Opening, in order.                    *)
Promise == INSTANCE Opening WITH Sum <- Whole

(* Every run() gives the sum of all the players' shares of that opening,    *)
(* and none returns before all the players have entered it.                 *)
OpensTheSum == Promise!Spec

(* run() always returns, however little a connection buffers.               *)
EveryRunReturns == \A p \in Players : <>(Len(opened[p]) = Runs)
=============================================================================
