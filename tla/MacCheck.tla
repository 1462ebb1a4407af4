------------------------------ MODULE MacCheck ------------------------------
(***************************************************************************)
(* The deferred MAC check of Tree_MAC_Check and MAC_Check_ (Protocols/     *)
(* MAC_Check.hpp).  Opened values are used at once and checked later: each *)
(* opening puts a value into vals and a MAC into macs, and when POPEN_MAX  *)
(* wait, or when the program asks, all players check those values together *)
(* and erase them.  Every player runs the same program of calls, at its    *)
(* own speed; an opening and each exchange of a check is a round, which a  *)
(* player leaves once all have entered it (module Opening).                *)
(*                                                                         *)
(* A value is the number of its secret and 1 if it is wrong, 0 if not; a   *)
(* MAC is the number of its secret; wrong shares do not cancel each other. *)
(* The check is ideal: a player's delta is zero exactly when the value is  *)
(* right and is compared with its own MAC, and the random combination of   *)
(* ten and more is zero exactly when all deltas are.                       *)
(***************************************************************************)
EXTENDS Integers, Sequences, FiniteSetsExt

CONSTANTS N,         \* players; 0 is the base player of the openings
          PopenMax,  \* POPEN_MAX (1000000)
          Few,       \* from this many values on, the check combines them (10)
          Programs,  \* programs: sequences of calls
          MaxErrors  \* bound on the wrong shares the players put in

Players == 0 .. N - 1

(* POpen of n secrets; AddToCheck of a claim, right or not; Check.          *)
Open(n)  == [op |-> "open", size |-> n, right |-> TRUE]
Claim(b) == [op |-> "claim", size |-> 1, right |-> b]
DoCheck  == [op |-> "check", size |-> 0, right |-> TRUE]
Call     == [op : {"open", "claim", "check"}, size : Nat, right : BOOLEAN]

ASSUME SizeAssumption == /\ N \in Nat \ {0} /\ PopenMax \in Nat \ {0}
                         /\ Few \in Nat /\ MaxErrors \in Nat
ASSUME ProgramAssumption == Programs \subseteq Seq(Call)

Garbage == <<0, 0>>  \* what is read behind the end of vals

VARIABLES
  program,   \* the calls every player makes
  pc,        \* pc[p]: calls p has begun
  at,        \* at[p]: what p is doing
  vals,      \* vals[p], each <<secret, error>>
  macs,      \* macs[p], each a secret
  popen_cnt,
  step,      \* step[p]: exchanges of the check p has finished
  said,      \* said[p]: what p has put into each round so far
  next,      \* next[p]: secrets p has opened or claimed
  given,     \* given[p]: the values p's program has got or claimed
  errors     \* wrong shares so far

vars == <<program, pc, at, vals, macs, popen_cnt, step, said, next, given, errors>>

Init == /\ program \in Programs
        /\ pc = [p \in Players |-> 0]
        /\ at = [p \in Players |-> "ready"]
        /\ vals = [p \in Players |-> <<>>]
        /\ macs = [p \in Players |-> <<>>]
        /\ popen_cnt = [p \in Players |-> 0]
        /\ step = [p \in Players |-> 0]
        /\ said = [p \in Players |-> <<>>]
        /\ next = [p \in Players |-> 0]
        /\ given = [p \in Players |-> {}]
        /\ errors = 0

WaitingForCheck(ms, vs) == Max({Len(ms), Len(vs)})

(* Mutants: the limit may be passed by one; the base player alone looks.    *)
NeedsCheckLate(p, ms, vs) == WaitingForCheck(ms, vs) > PopenMax
NeedsCheckAtBase(p, ms, vs) == p = 0 /\ WaitingForCheck(ms, vs) >= PopenMax

(* CheckIfNeeded, once a value has been added.                              *)
NeedsCheck(p, ms, vs) == WaitingForCheck(ms, vs) >= PopenMax

Calls(p, op) == /\ at[p] = "ready" /\ pc[p] < Len(program)
                /\ program[pc[p] + 1].op = op
                /\ pc' = [pc EXCEPT ![p] = @ + 1]

(* A message of an opening holds shares, one of a check what is compared.   *)
Say(p, kind, shares, compared) ==
  said' = [said EXCEPT ![p] = Append(@, [kind |-> kind, shares |-> shares,
                                         compared |-> compared])]

(* All the players have entered the round p is in.                          *)
AllSaid(p) == \A q \in Players : Len(said[q]) >= Len(said[p])

(* What q has said in the round p is in.                                    *)
Heard(p, q) == said[q][Len(said[p])]

-----------------------------------------------------------------------------
(* init_open, prepare_open of every secret, and the start of exchange.      *)
POpenBegin(p) ==
  /\ Calls(p, "open")
  /\ LET n   == program[pc[p] + 1].size
         ids == [i \in 1 .. n |-> next[p] + i]
     IN  \E wrong \in SUBSET (1 .. n) :
           /\ errors + Cardinality(wrong) <= MaxErrors
           /\ errors' = errors + Cardinality(wrong)
           /\ Say(p, "sum", [i \in 1 .. n |-> <<ids[i], IF i \in wrong THEN 1 ELSE 0>>], <<>>)
           /\ macs' = [macs EXCEPT ![p] = @ \o ids]
           /\ next' = [next EXCEPT ![p] = @ + n]
  /\ at' = [at EXCEPT ![p] = "summing"]
  /\ UNCHANGED <<program, vals, popen_cnt, step, given>>

(* What the opening gives p: a value is wrong when a share of it is.        *)
WrongShare(m, i) == i \in DOMAIN m.shares => m.shares[i][2] = 1

Opened(p) ==
  [i \in DOMAIN Heard(p, p).shares |->
     <<Heard(p, p).shares[i][1],
       IF \E q \in Players : WrongShare(Heard(p, q), i) THEN 1 ELSE 0>>]

(* Mutant: ReceiveValues leaves AddToValues to the base player.             *)
AddedAtBase(p, values) == IF p = 0 THEN vals[p] \o values ELSE vals[p]

AddToValues(p, values) == vals[p] \o values

(* The sum is there: AddToValues, the count, CheckIfNeeded.                 *)
POpenEnd(p) ==
  /\ at[p] = "summing" /\ AllSaid(p)
  /\ vals' = [vals EXCEPT ![p] = AddToValues(p, Opened(p))]
  /\ popen_cnt' = [popen_cnt EXCEPT ![p] = @ + Len(Opened(p))]
  /\ given' = [given EXCEPT ![p] = @ \cup {Opened(p)[i] : i \in DOMAIN Opened(p)}]
  /\ at' = [at EXCEPT ![p] = IF NeedsCheck(p, macs[p], vals'[p]) THEN "checking" ELSE "ready"]
  /\ UNCHANGED <<program, pc, macs, step, said, next, errors>>

(* AddToCheck: a value all players claim for a secret of theirs.            *)
AddToCheck(p) ==
  /\ Calls(p, "claim")
  /\ LET v == <<next[p] + 1, IF program[pc[p] + 1].right THEN 0 ELSE 1>>
     IN  /\ macs' = [macs EXCEPT ![p] = Append(@, v[1])]
         /\ vals' = [vals EXCEPT ![p] = Append(@, v)]
         /\ given' = [given EXCEPT ![p] = @ \cup {v}]
  /\ next' = [next EXCEPT ![p] = @ + 1]
  /\ popen_cnt' = [popen_cnt EXCEPT ![p] = @ + 1]
  /\ at' = [at EXCEPT ![p] = IF NeedsCheck(p, macs'[p], vals'[p]) THEN "checking" ELSE "ready"]
  /\ UNCHANGED <<program, step, said, errors>>

(* Check, called by the program; it returns at once when nothing waits.     *)
Check(p) ==
  /\ Calls(p, "check")
  /\ at' = [at EXCEPT ![p] = IF WaitingForCheck(macs[p], vals[p]) = 0
                             THEN "ready" ELSE "checking"]
  /\ UNCHANGED <<program, vals, macs, popen_cnt, step, said, next, given, errors>>

(* Commit_And_Open_ of all deltas, or Create_Random_Seed and then           *)
(* Commit_And_Open of the combination tau.                                  *)
Exchanges(cnt) == IF cnt < Few THEN <<"commit deltas", "deltas">>
                  ELSE <<"commit seed", "seed", "commit tau", "tau">>

(* Mutant: the last value is left out of the check.                         *)
ComparedButLast(p) ==
  [i \in 1 .. popen_cnt[p] - 1 |-> <<IF i \in DOMAIN vals[p] THEN vals[p][i] ELSE Garbage,
                                     macs[p][i]>>]

(* The values p compares and the MACs it compares them with.                *)
Compared(p) ==
  [i \in 1 .. popen_cnt[p] |-> <<IF i \in DOMAIN vals[p] THEN vals[p][i] ELSE Garbage,
                                 macs[p][i]>>]

CheckSay(p) ==
  /\ at[p] = "checking"
  /\ LET kind == Exchanges(popen_cnt[p])[step[p] + 1]
     IN  Say(p, kind, <<>>, IF kind \in {"seed", "commit seed"} THEN <<>> ELSE Compared(p))
  /\ at' = [at EXCEPT ![p] = "exchanging"]
  /\ UNCHANGED <<program, pc, vals, macs, popen_cnt, step, next, given, errors>>

CheckHear(p) ==
  /\ at[p] = "exchanging" /\ AllSaid(p)
  /\ step[p] + 1 < Len(Exchanges(popen_cnt[p]))
  /\ step' = [step EXCEPT ![p] = @ + 1]
  /\ at' = [at EXCEPT ![p] = "checking"]
  /\ UNCHANGED <<program, pc, vals, macs, popen_cnt, said, next, given, errors>>

(* The openings match the commitments and all deltas are zero: every player *)
(* compared the same right value with the MAC of the same secret.           *)
AllZero(p) ==
  /\ \A q \in Players : Heard(p, q).kind = Heard(p, p).kind
  /\ \A i \in DOMAIN Compared(p) :
       /\ Compared(p)[i][1] = <<Compared(p)[i][2], 0>>
       /\ \A q \in Players : /\ i \in DOMAIN Heard(p, q).compared
                              /\ Heard(p, q).compared[i] = Compared(p)[i]

(* Mutant: the MACs are kept.                                               *)
KeepMacs(p) == /\ vals' = [vals EXCEPT ![p] = SubSeq(@, popen_cnt[p] + 1, Len(@))]
               /\ UNCHANGED macs

Erase(p) == /\ vals' = [vals EXCEPT ![p] = SubSeq(@, popen_cnt[p] + 1, Len(@))]
            /\ macs' = [macs EXCEPT ![p] = SubSeq(@, popen_cnt[p] + 1, Len(@))]

CheckEnd(p) == /\ at[p] = "exchanging" /\ AllSaid(p)
               /\ step[p] + 1 = Len(Exchanges(popen_cnt[p]))

Pass(p) == /\ CheckEnd(p) /\ AllZero(p)
           /\ Erase(p)
           /\ popen_cnt' = [popen_cnt EXCEPT ![p] = 0]
           /\ step' = [step EXCEPT ![p] = 0]
           /\ at' = [at EXCEPT ![p] = "ready"]
           /\ UNCHANGED <<program, pc, said, next, given, errors>>

(* throw mac_fail or invalid_commitment: no program catches them.           *)
Fail(p) == /\ CheckEnd(p) /\ ~ AllZero(p)
           /\ at' = [at EXCEPT ![p] = "failed"]
           /\ UNCHANGED <<program, pc, vals, macs, popen_cnt, step, said, next, given, errors>>

(* The destructor, which terminates the program on unchecked values.        *)
Destroy(p) ==
  /\ at[p] = "ready" /\ pc[p] = Len(program)
  /\ at' = [at EXCEPT ![p] = IF WaitingForCheck(macs[p], vals[p]) > 0
                             THEN "terminated" ELSE "ended"]
  /\ UNCHANGED <<program, pc, vals, macs, popen_cnt, step, said, next, given, errors>>

Step(p) == \/ POpenBegin(p) \/ POpenEnd(p) \/ AddToCheck(p) \/ Check(p)
           \/ CheckSay(p) \/ CheckHear(p) \/ Pass(p) \/ Fail(p) \/ Destroy(p)

Stopped(p) == at[p] \in {"failed", "terminated", "ended"}

AllStopped == (\A p \in Players : Stopped(p)) /\ UNCHANGED vars

Next == AllStopped \/ \E p \in Players : Step(p)

Spec == Init /\ [][Next]_vars

(* A player's thread goes on as long as it can.                             *)
FairSpec == Spec /\ \A p \in Players : WF_vars(Step(p))

-----------------------------------------------------------------------------
(* Every variable holds a value of its kind.                                *)
Value   == Nat \X {0, 1}
Message == [kind : {"sum", "commit deltas", "deltas", "commit seed", "seed",
                    "commit tau", "tau"},
            shares : Seq(Value), compared : Seq(Value \X Nat)]

TypeOK ==
  /\ program \in Programs
  /\ pc \in [Players -> Nat]
  /\ at \in [Players -> {"ready", "summing", "checking", "exchanging", "failed",
                         "terminated", "ended"}]
  /\ vals \in [Players -> Seq(Value)]
  /\ macs \in [Players -> Seq(Nat)]
  /\ popen_cnt \in [Players -> Nat]
  /\ step \in [Players -> 0 .. 3]
  /\ said \in [Players -> Seq(Message)]
  /\ next \in [Players -> Nat]
  /\ given \in [Players -> SUBSET Value]

(* The two vectors and the count, which grow at different calls, agree      *)
(* between calls and during a check: every value stands at the place of its *)
(* own MAC, all of them are counted, and between calls they are fewer than  *)
(* PopenMax.                                                                *)
Aligned ==
  \A p \in Players : at[p] # "summing" =>
    /\ Len(vals[p]) = popen_cnt[p] /\ Len(macs[p]) = popen_cnt[p]
    /\ \A i \in 1 .. popen_cnt[p] : vals[p][i][1] = macs[p][i]
    /\ at[p] = "ready" => popen_cnt[p] < PopenMax

(* A check is itself made of rounds of messages.  All players make the same *)
(* rounds in the same order, although each decides from its own counts when *)
(* and how to check, and in each check they compare the same values.        *)
InStep ==
  \A p, q \in Players : \A k \in DOMAIN said[p] \cap DOMAIN said[q] :
    /\ said[p][k].kind = said[q][k].kind
    /\ said[p][k].compared = said[q][k].compared

(* A wrong value that was given to the program waits in vals until a check  *)
(* fails: none is erased by a check that passes, and a program that ends    *)
(* was given right values only.                                             *)
WrongIsCaught ==
  \A p \in Players : \A v \in given[p] :
    v[2] # 0 => (\E i \in DOMAIN vals[p] : vals[p][i] = v) /\ at[p] # "ended"

(* Without a wrong share or claim no check fails, and the destructor stops  *)
(* no program whose last call is Check.                                     *)
NoFalseAlarm ==
  errors = 0 /\ (\A i \in DOMAIN program : program[i].right) =>
    \A p \in Players :
      /\ at[p] # "failed"
      /\ at[p] = "terminated" => program[Len(program)] # DoCheck

(* What carries the invariants through a step: while the sum is under way   *)
(* the MACs are ahead of the values by what is being opened, and a check    *)
(* keeps to its exchanges.                                                  *)
Batch(p) == Heard(p, p).shares

MacsAhead ==
  \A p \in Players : at[p] = "summing" =>
    /\ said[p] # <<>>
    /\ Len(vals[p]) = popen_cnt[p] /\ Len(macs[p]) = popen_cnt[p] + Len(Batch(p))
    /\ \A i \in 1 .. popen_cnt[p] : vals[p][i][1] = macs[p][i]
    /\ \A i \in 1 .. Len(Batch(p)) : Batch(p)[i][1] = macs[p][popen_cnt[p] + i]

StepOK ==
  \A p \in Players : step[p] < Len(Exchanges(popen_cnt[p]))
                     /\ (at[p] \in {"ready", "summing"} => step[p] = 0)

IInv == TypeOK /\ Aligned /\ MacsAhead /\ StepOK /\ WrongIsCaught

(* Every player comes to an end: none waits in a check for the others.      *)
EveryoneStops == \A p \in Players : <>Stopped(p)
=============================================================================
