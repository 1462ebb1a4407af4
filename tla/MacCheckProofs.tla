--------------------------- MODULE MacCheckProofs ---------------------------
(***************************************************************************)
(* For any number of players, any program of calls, any limits and any     *)
(* number of wrong shares: the vectors of MacCheck stay aligned, and no    *)
(* wrong value leaves them without a check that fails.                     *)
(***************************************************************************)
EXTENDS MacCheck, FiniteSetTheorems, SequenceTheorems, TLAPS

(* A function on 1 .. n into S is a sequence over S of length n.            *)
LEMMA FunctionIsSeq ==
  ASSUME NEW n \in Nat, NEW S, NEW f \in [1 .. n -> S]
  PROVE  f \in Seq(S) /\ Len(f) = n
OBVIOUS

(* The two parts of a concatenation.                                        *)
LEMMA Joined ==
  ASSUME NEW S, NEW s \in Seq(S), NEW t \in Seq(S)
  PROVE  /\ s \o t \in Seq(S) /\ Len(s \o t) = Len(s) + Len(t)
         /\ \A i \in 1 .. Len(s) : (s \o t)[i] = s[i]
         /\ \A i \in 1 .. Len(t) : (s \o t)[Len(s) + i] = t[i]
<1>1. Len(s) \in Nat /\ Len(t) \in Nat
  OBVIOUS
<1>2. ASSUME NEW i \in 1 .. Len(t) PROVE (s \o t)[Len(s) + i] = t[i]
  <2>1. Len(s) + i \in 1 .. Len(s) + Len(t) /\ ~ (Len(s) + i <= Len(s))
    BY <1>1
  <2> QED BY <2>1, <1>1, ConcatProperties
<1> QED BY <1>1, <1>2, ConcatProperties

(* The last element of a sequence that has just grown.                      *)
LEMMA LastOfAppend ==
  ASSUME NEW S, NEW s \in Seq(S), NEW e \in S
  PROVE  Append(s, e) # <<>> /\ Append(s, e)[Len(Append(s, e))] = e
OBVIOUS

(* WaitingForCheck of vectors of one length is that length.                 *)
LEMMA Waiting ==
  ASSUME NEW ms, NEW vs, Len(ms) \in Nat, Len(vs) = Len(ms)
  PROVE  WaitingForCheck(ms, vs) = Len(ms)
<1>1. {Len(ms), Len(vs)} = {Len(ms)}
  OBVIOUS
<1> QED BY <1>1 DEF WaitingForCheck, Max

LEMMA Types ==
  ASSUME TypeOK, NEW p \in Players
  PROVE  /\ vals[p] \in Seq(Value) /\ macs[p] \in Seq(Nat) /\ said[p] \in Seq(Message)
         /\ Len(vals[p]) \in Nat /\ Len(macs[p]) \in Nat /\ Len(said[p]) \in Nat
         /\ popen_cnt[p] \in Nat /\ next[p] \in Nat /\ step[p] \in 0 .. 3 /\ pc[p] \in Nat
         /\ given[p] \subseteq Value
<1>1. vals[p] \in Seq(Value) /\ macs[p] \in Seq(Nat) /\ said[p] \in Seq(Message)
  BY DEF TypeOK
<1>2. /\ popen_cnt[p] \in Nat /\ next[p] \in Nat /\ step[p] \in 0 .. 3 /\ pc[p] \in Nat
      /\ given[p] \subseteq Value
  BY DEF TypeOK
<1> QED BY <1>1, <1>2

(* What p has said last, and what its opening holds.                        *)
LEMMA BatchTypes ==
  ASSUME TypeOK, NEW p \in Players, said[p] # <<>>
  PROVE  /\ Heard(p, p) \in Message /\ Batch(p) \in Seq(Value) /\ Len(Batch(p)) \in Nat
         /\ DOMAIN Batch(p) = 1 .. Len(Batch(p))
<1>1. Heard(p, p) \in Message
  BY Types DEF Heard
<1>2. Batch(p) \in Seq(Value)
  BY <1>1 DEF Batch, Message
<1> QED BY <1>1, <1>2

LEMMA OpenedTypes ==
  ASSUME TypeOK, NEW p \in Players, said[p] # <<>>
  PROVE  /\ Opened(p) \in Seq(Value) /\ Len(Opened(p)) = Len(Batch(p))
         /\ DOMAIN Opened(p) = 1 .. Len(Batch(p))
         /\ \A i \in 1 .. Len(Batch(p)) :
              Opened(p)[i] \in Value /\ Opened(p)[i][1] = Batch(p)[i][1]
<1> DEFINE n == Len(Batch(p))
<1>1. n \in Nat /\ DOMAIN Batch(p) = 1 .. n /\ Batch(p) \in Seq(Value)
  BY BatchTypes
<1>2. ASSUME NEW i \in 1 .. n
      PROVE  Batch(p)[i] \in Value /\ Batch(p)[i][1] \in Nat
  BY <1>1, <1>2 DEF Value
<1>3. Opened(p) = [i \in 1 .. n |->
        <<Batch(p)[i][1], IF \E q \in Players : WrongShare(Heard(p, q), i) THEN 1 ELSE 0>>]
  BY <1>1 DEF Opened, Batch
<1> HIDE DEF n
<1>4. ASSUME NEW i \in 1 .. n
      PROVE  Opened(p)[i] \in Value /\ Opened(p)[i][1] = Batch(p)[i][1]
  <2>1. Opened(p)[i] =
        <<Batch(p)[i][1], IF \E q \in Players : WrongShare(Heard(p, q), i) THEN 1 ELSE 0>>
    BY <1>3, <1>4
  <2> QED BY <2>1, <1>2, <1>4 DEF Value
<1>5. Opened(p) \in [1 .. n -> Value]
  BY <1>3, <1>4
<1>6. Opened(p) \in Seq(Value) /\ Len(Opened(p)) = n
  BY <1>5, <1>1, FunctionIsSeq
<1> QED BY <1>1, <1>3, <1>4, <1>5, <1>6 DEF n

-----------------------------------------------------------------------------
LEMMA InitInv == Init => IInv
<1> SUFFICES ASSUME Init PROVE IInv
  OBVIOUS
<1> USE DEF Init
<1>1. TypeOK
  <2>1. <<>> \in Seq(Value) /\ <<>> \in Seq(Nat) /\ <<>> \in Seq(Message)
    OBVIOUS
  <2> QED BY <2>1 DEF TypeOK
<1>2. Aligned /\ MacsAhead
  BY SizeAssumption DEF Aligned, MacsAhead
<1>3. StepOK
  BY DEF StepOK, Exchanges
<1>4. WrongIsCaught
  BY DEF WrongIsCaught
<1> QED BY <1>1, <1>2, <1>3, <1>4 DEF IInv

(* The calls of a program.                                                  *)
LEMMA CallTypes ==
  ASSUME TypeOK, NEW p \in Players, NEW op, Calls(p, op)
  PROVE  /\ program[pc[p] + 1].size \in Nat
         /\ pc' \in [Players -> Nat]
         /\ at[p] = "ready"
<1>1. program \in Seq(Call)
  BY ProgramAssumption DEF TypeOK
<1>2. pc[p] \in Nat /\ pc[p] < Len(program)
  BY Types DEF Calls
<1>3. program[pc[p] + 1] \in Call
  BY <1>1, <1>2
<1> QED BY <1>2, <1>3 DEF Calls, Call, TypeOK

LEMMA POpenBeginInv ==
  ASSUME IInv, NEW p \in Players, POpenBegin(p)
  PROVE  IInv'
<1> USE DEF IInv
<1> DEFINE n == program[pc[p] + 1].size
           ids == [i \in 1 .. n |-> next[p] + i]
<1>1. n \in Nat /\ pc' \in [Players -> Nat] /\ at[p] = "ready"
  BY CallTypes DEF POpenBegin
<1>2. PICK wrong \in SUBSET (1 .. n) :
        Say(p, "sum", [i \in 1 .. n |-> <<ids[i], IF i \in wrong THEN 1 ELSE 0>>], <<>>)
  BY DEF POpenBegin
<1> DEFINE shares == [i \in 1 .. n |-> <<ids[i], IF i \in wrong THEN 1 ELSE 0>>]
           msg == [kind |-> "sum", shares |-> shares, compared |-> <<>>]
<1>3. /\ macs' = [macs EXCEPT ![p] = @ \o ids]
      /\ next' = [next EXCEPT ![p] = @ + n]
      /\ said' = [said EXCEPT ![p] = Append(@, msg)]
      /\ at' = [at EXCEPT ![p] = "summing"]
      /\ UNCHANGED <<program, vals, popen_cnt, step, given>>
  BY <1>2 DEF POpenBegin, Say
<1> HIDE DEF n
<1>4. ids \in Seq(Nat) /\ Len(ids) = n /\ \A i \in 1 .. n : ids[i] = next[p] + i
  <2>1. ids \in [1 .. n -> Nat]
    BY <1>1, Types
  <2> QED BY <2>1, <1>1, FunctionIsSeq
<1>5. shares \in Seq(Value) /\ Len(shares) = n /\ \A i \in 1 .. n : shares[i][1] = ids[i]
  <2>1. ASSUME NEW i \in 1 .. n PROVE shares[i] \in Value /\ shares[i][1] = ids[i]
    <3>1. ids[i] \in Nat
      BY <1>1, Types
    <3> QED BY <3>1 DEF Value
  <2>2. shares \in [1 .. n -> Value]
    BY <2>1
  <2> QED BY <2>1, <2>2, <1>1, FunctionIsSeq
<1> HIDE DEF ids, shares
<1>6. msg \in Message
  BY <1>5 DEF Message
<1> HIDE DEF msg
<1>7. /\ macs[p] \o ids \in Seq(Nat) /\ Len(macs[p] \o ids) = Len(macs[p]) + n
      /\ \A i \in 1 .. Len(macs[p]) : (macs[p] \o ids)[i] = macs[p][i]
      /\ \A i \in 1 .. n : (macs[p] \o ids)[Len(macs[p]) + i] = ids[i]
  <2> DEFINE S == Nat
  <2>1. macs[p] \in Seq(S) /\ ids \in Seq(S)
    BY <1>4, Types
  <2> HIDE DEF S
  <2>2. /\ macs[p] \o ids \in Seq(S) /\ Len(macs[p] \o ids) = Len(macs[p]) + Len(ids)
        /\ \A i \in 1 .. Len(macs[p]) : (macs[p] \o ids)[i] = macs[p][i]
        /\ \A i \in 1 .. Len(ids) : (macs[p] \o ids)[Len(macs[p]) + i] = ids[i]
    BY <2>1, Joined
  <2> QED BY <2>2, <1>4 DEF S
<1>8. TypeOK'
  <2>1. macs' \in [Players -> Seq(Nat)]
    BY <1>3, <1>7 DEF TypeOK
  <2>2. said' \in [Players -> Seq(Message)]
    BY <1>3, <1>6, Types DEF TypeOK
  <2>3. next' \in [Players -> Nat] /\ at' \in [Players -> {"ready", "summing", "checking",
           "exchanging", "failed", "terminated", "ended"}]
    BY <1>1, <1>3 DEF TypeOK
  <2> QED BY <1>1, <1>3, <2>1, <2>2, <2>3 DEF TypeOK
<1>9. Aligned'
  BY <1>1, <1>3 DEF Aligned, TypeOK
<1>10. MacsAhead'
  <2> SUFFICES ASSUME NEW q \in Players, at'[q] = "summing"
               PROVE  /\ said'[q] # <<>>
                      /\ Len(vals'[q]) = popen_cnt'[q]
                      /\ Len(macs'[q]) = popen_cnt'[q] + Len(Batch(q)')
                      /\ \A i \in 1 .. popen_cnt'[q] : vals'[q][i][1] = macs'[q][i]
                      /\ \A i \in 1 .. Len(Batch(q)') :
                           Batch(q)'[i][1] = macs'[q][popen_cnt'[q] + i]
    BY DEF MacsAhead
  <2>1. CASE q = p
    <3>1. said'[p] = Append(said[p], msg) /\ said[p] \in Seq(Message)
      BY <1>3, Types DEF TypeOK
    <3>2. said'[p] # <<>> /\ said'[p][Len(said'[p])] = msg
      BY <3>1, <1>6, LastOfAppend
    <3>5. Batch(q)' = shares
      BY <2>1, <3>2 DEF Batch, Heard, msg
    <3>3. Len(vals[p]) = popen_cnt[p] /\ Len(macs[p]) = popen_cnt[p]
          /\ \A i \in 1 .. popen_cnt[p] : vals[p][i][1] = macs[p][i]
      BY <1>1 DEF Aligned
    <3>4. macs'[p] = macs[p] \o ids
      BY <1>3 DEF TypeOK
    <3>6. vals'[p] = vals[p] /\ popen_cnt'[p] = popen_cnt[p]
      BY <1>3
    <3>7. \A i \in 1 .. n : shares[i][1] = (macs[p] \o ids)[popen_cnt[p] + i]
      BY <3>3, <1>5, <1>7
    <3>8. /\ said'[q] # <<>> /\ Len(vals'[q]) = popen_cnt'[q]
          /\ Len(macs'[q]) = popen_cnt'[q] + Len(Batch(q)')
      BY <2>1, <3>2, <3>3, <3>4, <3>5, <3>6, <1>5, <1>7
    <3>9. \A i \in 1 .. popen_cnt'[q] : vals'[q][i][1] = macs'[q][i]
      BY <2>1, <3>3, <3>4, <3>6, <1>7
    <3>10. \A i \in 1 .. Len(Batch(q)') : Batch(q)'[i][1] = macs'[q][popen_cnt'[q] + i]
      BY <2>1, <3>4, <3>5, <3>6, <3>7, <1>5
    <3> QED BY <3>8, <3>9, <3>10
  <2>2. CASE q # p
    <3>1. /\ at'[q] = at[q] /\ said'[q] = said[q] /\ macs'[q] = macs[q]
      BY <1>3, <2>2 DEF TypeOK
    <3>2. Batch(q)' = Batch(q)
      BY <3>1 DEF Batch, Heard
    <3> QED BY <3>1, <3>2, <1>3 DEF MacsAhead
  <2> QED BY <2>1, <2>2
<1>11. StepOK'
  BY <1>1, <1>3 DEF StepOK, TypeOK
<1>12. WrongIsCaught'
  BY <1>3 DEF WrongIsCaught, TypeOK
<1> QED BY <1>8, <1>9, <1>10, <1>11, <1>12

-----------------------------------------------------------------------------
(* The invariant of one player, and what a step of another leaves of it.    *)
AlignedAt(p) ==
  at[p] # "summing" =>
    /\ Len(vals[p]) = popen_cnt[p] /\ Len(macs[p]) = popen_cnt[p]
    /\ \A i \in 1 .. popen_cnt[p] : vals[p][i][1] = macs[p][i]
    /\ at[p] = "ready" => popen_cnt[p] < PopenMax

AheadAt(p) ==
  at[p] = "summing" =>
    /\ said[p] # <<>>
    /\ Len(vals[p]) = popen_cnt[p] /\ Len(macs[p]) = popen_cnt[p] + Len(Batch(p))
    /\ \A i \in 1 .. popen_cnt[p] : vals[p][i][1] = macs[p][i]
    /\ \A i \in 1 .. Len(Batch(p)) : Batch(p)[i][1] = macs[p][popen_cnt[p] + i]

StepAt(p) == /\ step[p] < Len(Exchanges(popen_cnt[p]))
             /\ at[p] \in {"ready", "summing"} => step[p] = 0

CaughtAt(p) ==
  \A v \in given[p] :
    v[2] # 0 => (\E i \in DOMAIN vals[p] : vals[p][i] = v) /\ at[p] # "ended"

InvAt(p) == AlignedAt(p) /\ AheadAt(p) /\ StepAt(p) /\ CaughtAt(p)

LEMMA PerPlayer == IInv <=> TypeOK /\ \A p \in Players : InvAt(p)
BY DEF IInv, Aligned, MacsAhead, StepOK, WrongIsCaught, InvAt, AlignedAt, AheadAt, StepAt,
   CaughtAt

LEMMA PerPlayerNext ==
  ASSUME TypeOK', \A p \in Players : InvAt(p)'
  PROVE  IInv'
BY DEF IInv, Aligned, MacsAhead, StepOK, WrongIsCaught, InvAt, AlignedAt, AheadAt, StepAt,
   CaughtAt

LEMMA Untouched ==
  ASSUME NEW p \in Players, InvAt(p),
         at'[p] = at[p], vals'[p] = vals[p], macs'[p] = macs[p],
         popen_cnt'[p] = popen_cnt[p], step'[p] = step[p], said'[p] = said[p],
         given'[p] = given[p]
  PROVE  InvAt(p)'
<1>1. Batch(p)' = Batch(p)
  BY DEF Batch, Heard
<1> QED BY <1>1 DEF InvAt, AlignedAt, AheadAt, StepAt, CaughtAt

(* A check makes two exchanges or four.                                     *)
LEMMA ExchangesLen ==
  ASSUME NEW c
  PROVE  Len(Exchanges(c)) \in {2, 4}
BY DEF Exchanges

(* No exchange of the next check has been made.                              *)
LEMMA NoExchangeYet ==
  ASSUME NEW p \in Players, step'[p] = 0
  PROVE  StepAt(p)'
<1>1. Len(Exchanges(popen_cnt'[p])) \in {2, 4}
  BY ExchangesLen
<1>2. Len(Exchanges(popen_cnt[p]))' = Len(Exchanges(popen_cnt'[p]))
  BY DEF Exchanges
<1>3. ASSUME NEW len \in {2, 4} PROVE 0 < len
  OBVIOUS
<1>4. 0 < Len(Exchanges(popen_cnt'[p]))
  BY <1>1, <1>3
<1> QED BY <1>2, <1>4 DEF StepAt

LEMMA StepBelow ==
  ASSUME NEW i \in 0 .. 3, NEW len \in {2, 4}, i + 1 < len
  PROVE  i + 1 \in 0 .. 3
OBVIOUS

LEMMA Tuples ==
  ASSUME NEW S, NEW a \in S, NEW b \in S, NEW c \in S, NEW d \in S
  PROVE  <<a, b>> \in Seq(S) /\ <<a, b, c, d>> \in Seq(S)
OBVIOUS

LEMMA ExchangesKind ==
  ASSUME NEW c, NEW i \in 0 .. 3, i < Len(Exchanges(c))
  PROVE  Exchanges(c)[i + 1] \in {"commit deltas", "deltas", "commit seed", "seed",
                                  "commit tau", "tau"}
<1> DEFINE K == {"commit deltas", "deltas", "commit seed", "seed", "commit tau", "tau"}
<1>1. Exchanges(c) \in Seq(K)
  <2>1. /\ "commit deltas" \in K /\ "deltas" \in K /\ "commit seed" \in K
        /\ "seed" \in K /\ "commit tau" \in K /\ "tau" \in K
    OBVIOUS
  <2> HIDE DEF K
  <2>2. <<"commit deltas", "deltas">> \in Seq(K)
    BY <2>1, Tuples
  <2>3. <<"commit seed", "seed", "commit tau", "tau">> \in Seq(K)
    BY <2>1, Tuples
  <2> QED BY <2>2, <2>3 DEF Exchanges
<1> HIDE DEF K
<1>2. i + 1 \in 1 .. Len(Exchanges(c))
  BY ExchangesLen
<1>3. Exchanges(c)[i + 1] \in K
  BY <1>1, <1>2
<1> QED BY <1>3 DEF K

LEMMA POpenEndInv ==
  ASSUME IInv, NEW p \in Players, POpenEnd(p)
  PROVE  IInv'
<1> USE DEF IInv
<1>1. at[p] = "summing" /\ AheadAt(p) /\ StepAt(p) /\ CaughtAt(p) /\ TypeOK
  BY PerPlayer DEF POpenEnd, InvAt
<1> DEFINE b == Opened(p)
           n == Len(b)
<1>2. /\ b \in Seq(Value) /\ n = Len(Batch(p)) /\ n \in Nat /\ DOMAIN b = 1 .. n
      /\ \A i \in 1 .. n : b[i] \in Value /\ b[i][1] = Batch(p)[i][1]
  BY <1>1, OpenedTypes, BatchTypes DEF AheadAt
<1>3. /\ vals'[p] = vals[p] \o b /\ popen_cnt'[p] = popen_cnt[p] + n
      /\ given'[p] = given[p] \cup {b[i] : i \in 1 .. n}
      /\ at'[p] = IF NeedsCheck(p, macs[p], vals'[p]) THEN "checking" ELSE "ready"
      /\ macs'[p] = macs[p] /\ step'[p] = step[p]
  BY <1>2 DEF POpenEnd, AddToValues, TypeOK
<1>4. /\ vals[p] \in Seq(Value) /\ macs[p] \in Seq(Nat) /\ popen_cnt[p] \in Nat
      /\ given[p] \subseteq Value /\ step[p] \in 0 .. 3
  BY Types
<1>5. TypeOK'
  <2>1. {b[i] : i \in 1 .. n} \subseteq Value
    BY <1>2
  <2>2. vals[p] \o b \in Seq(Value)
    BY <1>2, <1>4
  <2> HIDE DEF b, n
  <2>3. vals' \in [Players -> Seq(Value)]
    <3>1. vals' = [vals EXCEPT ![p] = vals[p] \o b]
      BY DEF POpenEnd, AddToValues, b
    <3> QED BY <3>1, <2>2 DEF TypeOK
  <2>4. popen_cnt' \in [Players -> Nat]
    <3>1. popen_cnt' = [popen_cnt EXCEPT ![p] = popen_cnt[p] + n]
      BY DEF POpenEnd, b, n
    <3> QED BY <3>1, <1>2, <1>4 DEF TypeOK
  <2>5. given' \in [Players -> SUBSET Value]
    <3>1. given' = [given EXCEPT ![p] = given[p] \cup {b[i] : i \in 1 .. n}]
      BY <1>2 DEF POpenEnd, b
    <3> QED BY <3>1, <2>1, <1>4 DEF TypeOK
  <2>6. at' \in [Players -> {"ready", "summing", "checking", "exchanging", "failed",
                            "terminated", "ended"}]
    BY DEF POpenEnd, TypeOK
  <2> QED BY <2>3, <2>4, <2>5, <2>6 DEF TypeOK, POpenEnd
<1> HIDE DEF b, n
<1>6. /\ Len(vals[p]) = popen_cnt[p] /\ Len(vals'[p]) = popen_cnt[p] + n
      /\ \A i \in 1 .. popen_cnt[p] : vals'[p][i] = vals[p][i]
      /\ \A i \in 1 .. n : vals'[p][popen_cnt[p] + i] = b[i]
  <2>1. Len(vals[p]) = popen_cnt[p] /\ Len(b) = n
    BY <1>1 DEF AheadAt, n
  <2>2. /\ Len(vals[p] \o b) = Len(vals[p]) + Len(b)
        /\ \A i \in 1 .. Len(vals[p]) : (vals[p] \o b)[i] = vals[p][i]
        /\ \A i \in 1 .. Len(b) : (vals[p] \o b)[Len(vals[p]) + i] = b[i]
    BY <1>2, <1>4, Joined
  <2> QED BY <2>1, <2>2, <1>3
<1>7. AlignedAt(p)'
  <2>1. Len(vals'[p]) = popen_cnt'[p] /\ Len(macs'[p]) = popen_cnt'[p]
    BY <1>1, <1>2, <1>3, <1>6 DEF AheadAt
  <2>2. ASSUME NEW i \in 1 .. popen_cnt'[p] PROVE vals'[p][i][1] = macs'[p][i]
    <3>1. CASE i <= popen_cnt[p]
      BY <3>1, <1>1, <1>3, <1>4, <1>6, <2>2 DEF AheadAt
    <3>2. CASE i > popen_cnt[p]
      <4>1. i - popen_cnt[p] \in 1 .. n /\ popen_cnt[p] + (i - popen_cnt[p]) = i
        BY <3>2, <1>2, <1>3, <1>4, <2>2
      <4>2. vals'[p][i] = b[i - popen_cnt[p]]
        BY <4>1, <1>6
      <4>3. Batch(p)[i - popen_cnt[p]][1] = macs[p][i]
        BY <4>1, <1>1, <1>2 DEF AheadAt
      <4> QED BY <4>1, <4>2, <4>3, <1>2, <1>3
    <3> QED BY <3>1, <3>2, <1>4
  <2>3. at'[p] = "ready" => popen_cnt'[p] < PopenMax
    <3>1. WaitingForCheck(macs[p], vals'[p]) = popen_cnt'[p]
      <4>1. Len(macs[p]) = popen_cnt'[p] /\ popen_cnt'[p] \in Nat
        BY <2>1, <1>2, <1>3, <1>4
      <4>2. Len(vals'[p]) = Len(macs[p])
        BY <2>1, <4>1
      <4> QED BY <4>1, <4>2, Waiting
    <3> QED BY <3>1, <1>2, <1>3, <1>4, SizeAssumption DEF NeedsCheck
  <2> QED BY <2>1, <2>2, <2>3 DEF AlignedAt
<1>8. AheadAt(p)' /\ StepAt(p)'
  <2>1. step'[p] = 0 /\ at'[p] # "summing"
    BY <1>1, <1>3 DEF StepAt
  <2>2. StepAt(p)'
    BY <2>1, NoExchangeYet
  <2> QED BY <2>1, <2>2 DEF AheadAt
<1>9. CaughtAt(p)'
  <2> SUFFICES ASSUME NEW v \in given'[p], v[2] # 0
               PROVE  \E i \in DOMAIN vals'[p] : vals'[p][i] = v
    BY <1>3 DEF CaughtAt
  <2>0. DOMAIN vals'[p] = 1 .. popen_cnt[p] + n /\ DOMAIN vals[p] = 1 .. popen_cnt[p]
    <3>1. vals'[p] \in Seq(Value)
      BY <1>5 DEF TypeOK
    <3> QED BY <3>1, <1>4, <1>6
  <2>1. CASE v \in given[p]
    <3>1. PICK i \in 1 .. popen_cnt[p] : vals[p][i] = v
      BY <2>0, <2>1, <1>1 DEF CaughtAt
    <3>2. i \in DOMAIN vals'[p] /\ vals'[p][i] = vals[p][i]
      BY <2>0, <1>2, <1>4, <1>6
    <3> QED BY <3>1, <3>2
  <2>2. CASE v \in {b[i] : i \in 1 .. n}
    <3>1. PICK i \in 1 .. n : v = b[i]
      BY <2>2
    <3>2. popen_cnt[p] + i \in DOMAIN vals'[p]
      BY <2>0, <1>2, <1>4
    <3> QED BY <3>1, <3>2, <1>6
  <2> QED BY <2>1, <2>2, <1>3
<1>10. ASSUME NEW q \in Players, q # p PROVE InvAt(q)'
  BY <1>10, PerPlayer, Untouched DEF POpenEnd, TypeOK
<1> QED BY <1>5, <1>7, <1>8, <1>9, <1>10, PerPlayerNext DEF InvAt

LEMMA AddToCheckInv ==
  ASSUME IInv, NEW p \in Players, AddToCheck(p)
  PROVE  IInv'
<1> USE DEF IInv
<1> DEFINE v == <<next[p] + 1, IF program[pc[p] + 1].right THEN 0 ELSE 1>>
<1>1. /\ at[p] = "ready" /\ AlignedAt(p) /\ StepAt(p) /\ CaughtAt(p) /\ TypeOK
      /\ pc' \in [Players -> Nat]
  BY PerPlayer, CallTypes DEF AddToCheck, InvAt
<1>2. /\ vals[p] \in Seq(Value) /\ macs[p] \in Seq(Nat) /\ popen_cnt[p] \in Nat
      /\ given[p] \subseteq Value /\ next[p] \in Nat
  BY Types
<1>3. v \in Value /\ v[1] \in Nat /\ v[1] = next[p] + 1
  BY <1>2 DEF Value
<1>4. /\ macs' = [macs EXCEPT ![p] = Append(macs[p], v[1])]
      /\ vals' = [vals EXCEPT ![p] = Append(vals[p], v)]
      /\ given' = [given EXCEPT ![p] = given[p] \cup {v}]
      /\ next' = [next EXCEPT ![p] = next[p] + 1]
      /\ popen_cnt' = [popen_cnt EXCEPT ![p] = popen_cnt[p] + 1]
      /\ at' = [at EXCEPT ![p] = IF NeedsCheck(p, macs'[p], vals'[p]) THEN "checking" ELSE "ready"]
      /\ UNCHANGED <<program, step, said>>
  BY DEF AddToCheck
<1> HIDE DEF v
<1>5. TypeOK'
  <2>1. macs' \in [Players -> Seq(Nat)] /\ vals' \in [Players -> Seq(Value)]
    BY <1>2, <1>3, <1>4 DEF TypeOK
  <2>2. given' \in [Players -> SUBSET Value]
    BY <1>2, <1>3, <1>4 DEF TypeOK
  <2>3. next' \in [Players -> Nat] /\ popen_cnt' \in [Players -> Nat]
    BY <1>2, <1>4 DEF TypeOK
  <2>4. at' \in [Players -> {"ready", "summing", "checking", "exchanging", "failed",
                            "terminated", "ended"}]
    BY <1>4 DEF TypeOK
  <2> QED BY <1>1, <1>4, <2>1, <2>2, <2>3, <2>4 DEF TypeOK
<1>6. /\ vals'[p] = Append(vals[p], v) /\ macs'[p] = Append(macs[p], v[1])
      /\ popen_cnt'[p] = popen_cnt[p] + 1 /\ step'[p] = step[p]
      /\ given'[p] = given[p] \cup {v}
      /\ at'[p] = IF NeedsCheck(p, macs'[p], vals'[p]) THEN "checking" ELSE "ready"
  BY <1>4 DEF TypeOK
<1>7. /\ Len(vals[p]) = popen_cnt[p] /\ Len(macs[p]) = popen_cnt[p]
      /\ Len(vals'[p]) = popen_cnt'[p] /\ Len(macs'[p]) = popen_cnt'[p]
      /\ popen_cnt'[p] \in Nat
  BY <1>1, <1>2, <1>3, <1>6 DEF AlignedAt
<1>8. /\ \A i \in 1 .. popen_cnt[p] : vals'[p][i] = vals[p][i] /\ macs'[p][i] = macs[p][i]
      /\ vals'[p][popen_cnt'[p]] = v /\ macs'[p][popen_cnt'[p]] = v[1]
  BY <1>2, <1>3, <1>6, <1>7
<1>9. AlignedAt(p)'
  <2>1. ASSUME NEW i \in 1 .. popen_cnt'[p] PROVE vals'[p][i][1] = macs'[p][i]
    <3>1. i = popen_cnt'[p] \/ i \in 1 .. popen_cnt[p]
      BY <2>1, <1>2, <1>6
    <3>2. i \in 1 .. popen_cnt[p] => vals[p][i][1] = macs[p][i]
      BY <1>1 DEF AlignedAt
    <3> QED BY <3>1, <3>2, <1>8
  <2>2. at'[p] = "ready" => popen_cnt'[p] < PopenMax
    <3>1. Len(vals'[p]) = Len(macs'[p]) /\ Len(macs'[p]) \in Nat
      BY <1>7
    <3>2. WaitingForCheck(macs'[p], vals'[p]) = Len(macs'[p])
      BY <3>1, Waiting
    <3> QED BY <3>2, <1>6, <1>7, SizeAssumption DEF NeedsCheck
  <2> QED BY <1>7, <2>1, <2>2 DEF AlignedAt
<1>10. AheadAt(p)' /\ StepAt(p)'
  <2>1. step'[p] = 0 /\ at'[p] # "summing"
    BY <1>1, <1>6 DEF StepAt
  <2>2. StepAt(p)'
    BY <2>1, NoExchangeYet
  <2> QED BY <2>1, <2>2 DEF AheadAt
<1>11. CaughtAt(p)'
  <2> SUFFICES ASSUME NEW w \in given'[p], w[2] # 0
               PROVE  \E i \in DOMAIN vals'[p] : vals'[p][i] = w
    BY <1>6 DEF CaughtAt
  <2>1. DOMAIN vals'[p] = 1 .. popen_cnt'[p] /\ DOMAIN vals[p] = 1 .. popen_cnt[p]
    <3>1. vals'[p] \in Seq(Value)
      BY <1>5 DEF TypeOK
    <3> QED BY <3>1, <1>2, <1>7
  <2>2. CASE w \in given[p]
    <3>1. PICK i \in 1 .. popen_cnt[p] : vals[p][i] = w
      BY <2>1, <2>2, <1>1 DEF CaughtAt
    <3>2. i \in DOMAIN vals'[p] /\ vals'[p][i] = vals[p][i]
      BY <2>1, <1>2, <1>6, <1>8
    <3> QED BY <3>1, <3>2
  <2>3. CASE w = v
    <3>1. popen_cnt'[p] \in DOMAIN vals'[p]
      BY <2>1, <1>2, <1>6, <1>7
    <3> QED BY <2>3, <3>1, <1>8
  <2> QED BY <2>2, <2>3, <1>6
<1>12. ASSUME NEW q \in Players, q # p PROVE InvAt(q)'
  BY <1>12, <1>4, PerPlayer, Untouched DEF TypeOK
<1> QED BY <1>5, <1>9, <1>10, <1>11, <1>12, PerPlayerNext DEF InvAt

-----------------------------------------------------------------------------
(* The steps that leave the vectors as they are.                            *)
LEMMA CheckInv ==
  ASSUME IInv, NEW p \in Players, Check(p)
  PROVE  IInv'
<1> USE DEF IInv
<1>1. InvAt(p) /\ TypeOK /\ at[p] = "ready" /\ pc' \in [Players -> Nat]
  BY PerPlayer, CallTypes DEF Check
<1>2. /\ at'[p] \in {"ready", "checking"}
      /\ UNCHANGED <<program, vals, macs, popen_cnt, step, said, next, given>>
      /\ at' = [at EXCEPT ![p] = at'[p]]
  BY DEF Check, TypeOK
<1>3. TypeOK'
  BY <1>1, <1>2 DEF TypeOK
<1>4. InvAt(p)'
  BY <1>1, <1>2 DEF InvAt, AlignedAt, AheadAt, StepAt, CaughtAt
<1>5. ASSUME NEW q \in Players, q # p PROVE InvAt(q)'
  BY <1>5, <1>2, PerPlayer, Untouched DEF TypeOK
<1> QED BY <1>3, <1>4, <1>5, PerPlayerNext

LEMMA CheckSayInv ==
  ASSUME IInv, NEW p \in Players, CheckSay(p)
  PROVE  IInv'
<1> USE DEF IInv
<1>1. InvAt(p) /\ TypeOK /\ at[p] = "checking"
  BY PerPlayer DEF CheckSay
<1> DEFINE kind == Exchanges(popen_cnt[p])[step[p] + 1]
           msg == [kind |-> kind, shares |-> <<>>,
                   compared |-> IF kind \in {"seed", "commit seed"} THEN <<>> ELSE Compared(p)]
<1>2. /\ said' = [said EXCEPT ![p] = Append(said[p], msg)]
      /\ at' = [at EXCEPT ![p] = "exchanging"]
      /\ UNCHANGED <<program, pc, vals, macs, popen_cnt, step, next, given>>
  BY DEF CheckSay, Say
<1>3. msg \in Message
  <2>1. kind \in {"commit deltas", "deltas", "commit seed", "seed", "commit tau", "tau"}
    <3>1. step[p] \in 0 .. 3 /\ step[p] < Len(Exchanges(popen_cnt[p]))
      BY <1>1, Types DEF InvAt, StepAt
    <3> QED BY <3>1, ExchangesKind
  <2>2. Compared(p) \in Seq(Value \X Nat)
    <3>1. /\ vals[p] \in Seq(Value) /\ macs[p] \in Seq(Nat) /\ popen_cnt[p] \in Nat
          /\ Len(macs[p]) = popen_cnt[p]
      BY <1>1, Types DEF InvAt, AlignedAt
    <3>2. Garbage \in Value
      BY DEF Garbage, Value
    <3>3. ASSUME NEW i \in 1 .. popen_cnt[p]
          PROVE  <<IF i \in DOMAIN vals[p] THEN vals[p][i] ELSE Garbage, macs[p][i]>>
                   \in Value \X Nat
      BY <3>1, <3>2, <3>3
    <3>4. Compared(p) \in [1 .. popen_cnt[p] -> Value \X Nat]
      BY <3>3 DEF Compared
    <3> QED BY <3>1, <3>4, FunctionIsSeq
  <2>3. <<>> \in Seq(Value) /\ <<>> \in Seq(Value \X Nat)
    OBVIOUS
  <2> QED BY <2>1, <2>2, <2>3 DEF Message
<1> HIDE DEF msg
<1>4. TypeOK'
  <2>1. said' \in [Players -> Seq(Message)]
    BY <1>2, <1>3, Types DEF TypeOK
  <2> QED BY <1>1, <1>2, <2>1 DEF TypeOK
<1>5. InvAt(p)'
  <2>1. at'[p] = "exchanging"
    BY <1>2 DEF TypeOK
  <2> QED BY <1>1, <1>2, <2>1 DEF InvAt, AlignedAt, AheadAt, StepAt, CaughtAt
<1>6. ASSUME NEW q \in Players, q # p PROVE InvAt(q)'
  BY <1>6, <1>2, PerPlayer, Untouched DEF TypeOK
<1> QED BY <1>4, <1>5, <1>6, PerPlayerNext

LEMMA CheckHearInv ==
  ASSUME IInv, NEW p \in Players, CheckHear(p)
  PROVE  IInv'
<1> USE DEF IInv
<1>1. InvAt(p) /\ TypeOK /\ at[p] = "exchanging"
      /\ step[p] + 1 < Len(Exchanges(popen_cnt[p])) /\ step[p] \in 0 .. 3
  BY PerPlayer, Types DEF CheckHear
<1>2. /\ step' = [step EXCEPT ![p] = step[p] + 1]
      /\ at' = [at EXCEPT ![p] = "checking"]
      /\ UNCHANGED <<program, pc, vals, macs, popen_cnt, said, next, given>>
  BY DEF CheckHear
<1>3. step[p] + 1 \in 0 .. 3
  <2>1. Len(Exchanges(popen_cnt[p])) \in {2, 4}
    BY ExchangesLen
  <2>2. step[p] \in 0 .. 3 /\ step[p] + 1 < Len(Exchanges(popen_cnt[p]))
    BY <1>1
  <2> QED BY <2>1, <2>2, StepBelow
<1>4. TypeOK'
  BY <1>1, <1>2, <1>3 DEF TypeOK
<1>5. InvAt(p)'
  <2>1. at'[p] = "checking" /\ step'[p] = step[p] + 1
    BY <1>2 DEF TypeOK
  <2> QED BY <1>1, <1>2, <2>1 DEF InvAt, AlignedAt, AheadAt, StepAt, CaughtAt
<1>6. ASSUME NEW q \in Players, q # p PROVE InvAt(q)'
  BY <1>6, <1>2, PerPlayer, Untouched DEF TypeOK
<1> QED BY <1>4, <1>5, <1>6, PerPlayerNext

LEMMA FailInv ==
  ASSUME IInv, NEW p \in Players, Fail(p)
  PROVE  IInv'
<1> USE DEF IInv
<1>1. InvAt(p) /\ TypeOK /\ at[p] = "exchanging"
  BY PerPlayer DEF Fail, CheckEnd
<1>2. /\ at' = [at EXCEPT ![p] = "failed"]
      /\ UNCHANGED <<program, pc, vals, macs, popen_cnt, step, said, next, given>>
  BY DEF Fail
<1>3. TypeOK'
  BY <1>1, <1>2 DEF TypeOK
<1>4. InvAt(p)'
  <2>1. at'[p] = "failed"
    BY <1>2 DEF TypeOK
  <2> QED BY <1>1, <1>2, <2>1 DEF InvAt, AlignedAt, AheadAt, StepAt, CaughtAt
<1>5. ASSUME NEW q \in Players, q # p PROVE InvAt(q)'
  BY <1>5, <1>2, PerPlayer, Untouched DEF TypeOK
<1> QED BY <1>3, <1>4, <1>5, PerPlayerNext

(* The destructor lets a program end only when nothing waits, so that       *)
(* nothing wrong was given to it.                                           *)
LEMMA DestroyInv ==
  ASSUME IInv, NEW p \in Players, Destroy(p)
  PROVE  IInv'
<1> USE DEF IInv
<1>1. InvAt(p) /\ TypeOK /\ at[p] = "ready"
  BY PerPlayer DEF Destroy
<1>2. /\ at'[p] = IF WaitingForCheck(macs[p], vals[p]) > 0 THEN "terminated" ELSE "ended"
      /\ at' = [at EXCEPT ![p] = at'[p]]
      /\ UNCHANGED <<program, pc, vals, macs, popen_cnt, step, said, next, given>>
  BY DEF Destroy, TypeOK
<1>3. TypeOK'
  BY <1>1, <1>2 DEF TypeOK
<1>4. at'[p] = "ended" => DOMAIN vals[p] = {}
  <2>1. vals[p] \in Seq(Value) /\ Len(vals[p]) = Len(macs[p]) /\ Len(macs[p]) \in Nat
    BY <1>1, Types DEF InvAt, AlignedAt
  <2>2. WaitingForCheck(macs[p], vals[p]) = Len(macs[p])
    BY <2>1, Waiting
  <2> QED BY <1>2, <2>1, <2>2
<1>5. InvAt(p)'
  <2>1. CaughtAt(p)'
    BY <1>1, <1>2, <1>4 DEF InvAt, CaughtAt
  <2>2. AlignedAt(p)' /\ AheadAt(p)' /\ StepAt(p)'
    BY <1>1, <1>2 DEF InvAt, AlignedAt, AheadAt, StepAt
  <2> QED BY <2>1, <2>2 DEF InvAt
<1>6. ASSUME NEW q \in Players, q # p PROVE InvAt(q)'
  BY <1>6, <1>2, PerPlayer, Untouched DEF TypeOK
<1> QED BY <1>3, <1>5, <1>6, PerPlayerNext

(* A check that passes erases all the values, and all of them are right.    *)
LEMMA PassInv ==
  ASSUME IInv, NEW p \in Players, Pass(p)
  PROVE  IInv'
<1> USE DEF IInv
<1>1. InvAt(p) /\ TypeOK /\ at[p] = "exchanging" /\ AllZero(p)
  BY PerPlayer DEF Pass, CheckEnd
<1>2. /\ vals[p] \in Seq(Value) /\ macs[p] \in Seq(Nat) /\ popen_cnt[p] \in Nat
      /\ Len(vals[p]) = popen_cnt[p] /\ Len(macs[p]) = popen_cnt[p]
      /\ DOMAIN vals[p] = 1 .. popen_cnt[p]
  BY <1>1, Types DEF InvAt, AlignedAt
<1>3. /\ SubSeq(vals[p], popen_cnt[p] + 1, Len(vals[p])) = <<>>
      /\ SubSeq(macs[p], popen_cnt[p] + 1, Len(macs[p])) = <<>>
  BY <1>2, SubSeqEmpty
<1>4. /\ vals' = [vals EXCEPT ![p] = <<>>] /\ macs' = [macs EXCEPT ![p] = <<>>]
      /\ popen_cnt' = [popen_cnt EXCEPT ![p] = 0]
      /\ step' = [step EXCEPT ![p] = 0]
      /\ at' = [at EXCEPT ![p] = "ready"]
      /\ UNCHANGED <<program, pc, said, next, given>>
  BY <1>3 DEF Pass, Erase
<1>5. TypeOK'
  <2>1. <<>> \in Seq(Value) /\ <<>> \in Seq(Nat)
    OBVIOUS
  <2> QED BY <1>1, <1>4, <2>1 DEF TypeOK
<1>6. /\ vals'[p] = <<>> /\ macs'[p] = <<>> /\ popen_cnt'[p] = 0 /\ step'[p] = 0
      /\ at'[p] = "ready" /\ given'[p] = given[p]
  BY <1>4 DEF TypeOK
<1>7. \A v \in given[p] : v[2] = 0
  <2> SUFFICES ASSUME NEW v \in given[p], v[2] # 0 PROVE FALSE
    OBVIOUS
  <2>1. PICK i \in 1 .. popen_cnt[p] : vals[p][i] = v
    BY <1>1, <1>2 DEF InvAt, CaughtAt
  <2>2. i \in DOMAIN Compared(p) /\ Compared(p)[i][1] = v
    BY <1>2, <2>1 DEF Compared
  <2>3. v = <<Compared(p)[i][2], 0>>
    BY <1>1, <2>2 DEF AllZero
  <2> QED BY <2>3
<1>8. InvAt(p)'
  <2>1. AlignedAt(p)' /\ AheadAt(p)'
    BY <1>6, SizeAssumption DEF AlignedAt, AheadAt
  <2>2. StepAt(p)'
    BY <1>6, NoExchangeYet
  <2>3. CaughtAt(p)'
    BY <1>6, <1>7 DEF CaughtAt
  <2> QED BY <2>1, <2>2, <2>3 DEF InvAt
<1>9. ASSUME NEW q \in Players, q # p PROVE InvAt(q)'
  BY <1>9, <1>4, PerPlayer, Untouched DEF TypeOK
<1> QED BY <1>5, <1>8, <1>9, PerPlayerNext

LEMMA NextInv == IInv /\ [Next]_vars => IInv'
<1> SUFFICES ASSUME IInv, [Next]_vars PROVE IInv'
  OBVIOUS
<1>1. CASE UNCHANGED vars
  <2>1. TypeOK' /\ StepOK' /\ WrongIsCaught'
    BY <1>1 DEF vars, IInv, TypeOK, StepOK, WrongIsCaught
  <2>2. Aligned' /\ MacsAhead'
    BY <1>1 DEF vars, IInv, Aligned, MacsAhead, Batch, Heard
  <2> QED BY <2>1, <2>2 DEF IInv
<1>2. ASSUME NEW p \in Players, Step(p) PROVE IInv'
  BY <1>2, POpenBeginInv, POpenEndInv, AddToCheckInv, CheckInv, CheckSayInv, CheckHearInv,
     PassInv, FailInv, DestroyInv DEF Step
<1> QED BY <1>1, <1>2 DEF Next, AllStopped

-----------------------------------------------------------------------------
(* The inductive invariant holds throughout every run of every program.     *)
THEOREM Invariance == Spec => []IInv
BY InitInv, NextInv, PTL DEF Spec

(* Every variable holds a value of its kind.                                *)
THEOREM TypeCorrect == Spec => []TypeOK
<1>1. IInv => TypeOK
  BY DEF IInv
<1> QED BY <1>1, Invariance, PTL

(* Between calls and during a check, popen_cnt is the length of vals and of *)
(* macs, every value has its own MAC beside it, and fewer than POPEN_MAX    *)
(* values wait.                                                             *)
THEOREM AlwaysAligned == Spec => []Aligned
<1>1. IInv => Aligned
  BY DEF IInv
<1> QED BY <1>1, Invariance, PTL

(* No wrong value that was given to a program is erased by a check that     *)
(* passes, and no program given one comes to its end.                       *)
THEOREM WrongAlwaysCaught == Spec => []WrongIsCaught
<1>1. IInv => WrongIsCaught
  BY DEF IInv
<1> QED BY <1>1, Invariance, PTL

-----------------------------------------------------------------------------
(***************************************************************************)
(* For any number of players and any program of MacCheck: all players make *)
(* the same rounds of messages with the same contents to be checked, and   *)
(* without a wrong share or claim no check fails.                          *)
(*                                                                         *)
(* Players are at different places, any number of calls apart, and nothing *)
(* of the past is left but the messages.  What relates them is a common    *)
(* course: a sequence of local states, each of which determines the next   *)
(* together with the messages of its round, and every player is somewhere  *)
(* in it.                                                                  *)
(***************************************************************************)

(* A message without the shares, which are each player's own.               *)
Told(m) == [kind |-> m.kind, ids |-> [i \in DOMAIN m.shares |-> m.shares[i][1]],
            compared |-> m.compared]

Trace(p) == [k \in DOMAIN said[p] |-> Told(said[p][k])]

(* The local state of p: all that decides what it does.                     *)
Place(p) == [pc |-> pc[p], at |-> at[p], vals |-> vals[p], macs |-> macs[p],
             cnt |-> popen_cnt[p], step |-> step[p], next |-> next[p], trace |-> Trace(p)]

(* The state after s, by the action that s enables.                         *)
Ids(s) == [i \in 1 .. program[s.pc + 1].size |-> s.next + i]

AfterBegin(s) ==
  [pc |-> s.pc + 1, at |-> "summing", vals |-> s.vals, macs |-> s.macs \o Ids(s), cnt |-> s.cnt,
   step |-> s.step, next |-> s.next + program[s.pc + 1].size,
   trace |-> Append(s.trace, [kind |-> "sum", ids |-> Ids(s), compared |-> <<>>])]

SumOf(s) ==
  [i \in DOMAIN s.trace[Len(s.trace)].ids |->
     <<s.trace[Len(s.trace)].ids[i],
       IF \E q \in Players : WrongShare(said[q][Len(s.trace)], i) THEN 1 ELSE 0>>]

Full(ms, vs) == WaitingForCheck(ms, vs) >= PopenMax

AfterSum(s) ==
  [pc |-> s.pc, at |-> IF Full(s.macs, s.vals \o SumOf(s)) THEN "checking" ELSE "ready",
   vals |-> s.vals \o SumOf(s), macs |-> s.macs, cnt |-> s.cnt + Len(SumOf(s)),
   step |-> s.step, next |-> s.next, trace |-> s.trace]

Claimed(s) == <<s.next + 1, IF program[s.pc + 1].right THEN 0 ELSE 1>>

AfterClaim(s) ==
  [pc |-> s.pc + 1,
   at |-> IF Full(Append(s.macs, s.next + 1), Append(s.vals, Claimed(s))) THEN "checking"
          ELSE "ready",
   vals |-> Append(s.vals, Claimed(s)), macs |-> Append(s.macs, s.next + 1),
   cnt |-> s.cnt + 1, step |-> s.step, next |-> s.next + 1, trace |-> s.trace]

AfterCall(s) ==
  [pc |-> s.pc + 1, at |-> IF WaitingForCheck(s.macs, s.vals) = 0 THEN "ready" ELSE "checking",
   vals |-> s.vals, macs |-> s.macs, cnt |-> s.cnt, step |-> s.step, next |-> s.next,
   trace |-> s.trace]

ComparedAt(s) ==
  [i \in 1 .. s.cnt |-> <<IF i \in DOMAIN s.vals THEN s.vals[i] ELSE Garbage, s.macs[i]>>]

KindAt(s) == Exchanges(s.cnt)[s.step + 1]

AfterSay(s) ==
  [pc |-> s.pc, at |-> "exchanging", vals |-> s.vals, macs |-> s.macs, cnt |-> s.cnt,
   step |-> s.step, next |-> s.next,
   trace |-> Append(s.trace,
                    [kind |-> KindAt(s), ids |-> <<>>,
                     compared |-> IF KindAt(s) \in {"seed", "commit seed"} THEN <<>>
                                  ELSE ComparedAt(s)])]

AfterHear(s) ==
  [pc |-> s.pc, at |-> "checking", vals |-> s.vals, macs |-> s.macs, cnt |-> s.cnt,
   step |-> s.step + 1, next |-> s.next, trace |-> s.trace]

ZeroAt(s) ==
  LET k == Len(s.trace)
  IN  /\ \A q \in Players : said[q][k].kind = s.trace[k].kind
      /\ \A i \in DOMAIN ComparedAt(s) :
           /\ ComparedAt(s)[i][1] = <<ComparedAt(s)[i][2], 0>>
           /\ \A q \in Players : /\ i \in DOMAIN said[q][k].compared
                                  /\ said[q][k].compared[i] = ComparedAt(s)[i]

AfterPass(s) ==
  [pc |-> s.pc, at |-> "ready", vals |-> SubSeq(s.vals, s.cnt + 1, Len(s.vals)),
   macs |-> SubSeq(s.macs, s.cnt + 1, Len(s.macs)), cnt |-> 0, step |-> 0, next |-> s.next,
   trace |-> s.trace]

(* The state s with another at, for Fail and Destroy.                       *)
Stop(s, a) ==
  [pc |-> s.pc, at |-> a, vals |-> s.vals, macs |-> s.macs, cnt |-> s.cnt, step |-> s.step,
   next |-> s.next, trace |-> s.trace]

AfterReady(s) ==
  IF ~ (s.pc < Len(program))
  THEN Stop(s, IF WaitingForCheck(s.macs, s.vals) > 0 THEN "terminated" ELSE "ended")
  ELSE IF program[s.pc + 1].op = "open"  THEN AfterBegin(s)
  ELSE IF program[s.pc + 1].op = "claim" THEN AfterClaim(s)
  ELSE AfterCall(s)

AfterExchange(s) ==
  IF s.step + 1 < Len(Exchanges(s.cnt)) THEN AfterHear(s)
  ELSE IF ZeroAt(s) THEN AfterPass(s)
  ELSE Stop(s, "failed")

After(s) == IF s.at = "ready" THEN AfterReady(s)
            ELSE IF s.at = "summing" THEN AfterSum(s)
            ELSE IF s.at = "checking" THEN AfterSay(s)
            ELSE AfterExchange(s)

(* A state that waits for a round has been left only once all have entered. *)
Settled(s) == s.at \notin {"ready", "checking"} =>
                /\ Len(s.trace) \in Nat \ {0}
                /\ \A q \in Players : Len(s.trace) <= Len(said[q])

Continues(t, s) == /\ Len(s) \in Nat /\ Len(t) \in Nat /\ Len(s) <= Len(t)
                   /\ \A k \in 1 .. Len(s) : t[k] = s[k]

Course(n, T) ==
  /\ \A j \in 0 .. n - 1 : T[j + 1] = After(T[j]) /\ Settled(T[j])
  /\ \A i, j \in 0 .. n : i <= j => Continues(T[j].trace, T[i].trace)
  /\ \A p \in Players : \E j \in 0 .. n : Place(p) = T[j]

Lockstep == \E n \in Nat : \E T : Course(n, T)

(* The last message of a player that has entered a round of a check.        *)
Exchanging ==
  \A p \in Players : at[p] = "exchanging" =>
    /\ said[p] # <<>>
    /\ LET kind == Exchanges(popen_cnt[p])[step[p] + 1]
       IN  Heard(p, p) = [kind |-> kind, shares |-> <<>>,
                          compared |-> IF kind \in {"seed", "commit seed"} THEN <<>>
                                       ELSE Compared(p)]

-----------------------------------------------------------------------------
LEMMA TraceIs ==
  ASSUME TypeOK, NEW p \in Players
  PROVE  /\ DOMAIN Trace(p) = 1 .. Len(said[p]) /\ Len(Trace(p)) = Len(said[p])
         /\ Trace(p) \in Seq({Told(said[p][k]) : k \in DOMAIN said[p]})
         /\ \A k \in 1 .. Len(said[p]) : Trace(p)[k] = Told(said[p][k])
<1>1. said[p] \in Seq(Message) /\ Len(said[p]) \in Nat /\ DOMAIN said[p] = 1 .. Len(said[p])
  BY Types
<1> DEFINE S == {Told(said[p][k]) : k \in DOMAIN said[p]}
<1>2. Trace(p) \in [1 .. Len(said[p]) -> S]
  BY <1>1 DEF Trace
<1> HIDE DEF S
<1>3. Trace(p) \in Seq(S) /\ Len(Trace(p)) = Len(said[p])
  BY <1>1, <1>2, FunctionIsSeq
<1> QED BY <1>1, <1>3 DEF Trace, S

LEMMA LastTold ==
  ASSUME TypeOK, NEW p \in Players, said[p] # <<>>
  PROVE  /\ Len(said[p]) \in Nat \ {0} /\ Len(Trace(p)) = Len(said[p])
         /\ Trace(p)[Len(said[p])] = Told(Heard(p, p)) /\ Heard(p, p) \in Message
<1>1. said[p] \in Seq(Message) /\ Len(said[p]) \in Nat
  BY Types
<1>2. Len(said[p]) \in 1 .. Len(said[p]) /\ said[p][Len(said[p])] \in Message
  BY <1>1
<1>3. /\ Len(Trace(p)) = Len(said[p])
      /\ \A k \in 1 .. Len(said[p]) : Trace(p)[k] = Told(said[p][k])
  BY TraceIs
<1>4. Heard(p, p) = said[p][Len(said[p])]
  BY DEF Heard
<1>5. Len(said[p]) \in Nat \ {0}
  BY <1>1, <1>2
<1> QED BY <1>2, <1>3, <1>4, <1>5

LEMMA AppendIs ==
  ASSUME NEW S, NEW s \in Seq(S), NEW e, NEW t, NEW n, n = Len(s),
         t = [k \in 1 .. n + 1 |-> IF k <= n THEN s[k] ELSE e]
  PROVE  t = Append(s, e)
OBVIOUS

LEMMA ToldMore ==
  ASSUME TypeOK, NEW p \in Players, NEW m, said'[p] = Append(said[p], m)
  PROVE  Trace(p)' = Append(Trace(p), Told(m))
<1>1. said[p] \in Seq(Message) /\ Len(said[p]) \in Nat
  BY Types
<1> DEFINE n == Len(said[p])
<1>2. DOMAIN said'[p] = 1 .. n + 1 /\ said'[p][n + 1] = m
      /\ \A k \in 1 .. n : said'[p][k] = said[p][k]
  BY <1>1
<1>3. Trace(p)' = [k \in 1 .. n + 1 |-> IF k <= n THEN Trace(p)[k] ELSE Told(m)]
  <2>1. Trace(p)' = [k \in 1 .. n + 1 |-> Told(said'[p][k])]
    BY <1>2 DEF Trace, Told
  <2>2. \A k \in 1 .. n + 1 : Told(said'[p][k]) = IF k <= n THEN Trace(p)[k] ELSE Told(m)
    <3>1. n \in Nat /\ \A k \in 1 .. n : Trace(p)[k] = Told(said[p][k])
      BY <1>1, TraceIs
    <3> HIDE DEF n
    <3> SUFFICES ASSUME NEW k \in 1 .. n + 1
                 PROVE  Told(said'[p][k]) = IF k <= n THEN Trace(p)[k] ELSE Told(m)
      OBVIOUS
    <3>2. CASE k <= n
      <4>1. k \in 1 .. n
        BY <3>1, <3>2
      <4>2. said'[p][k] = said[p][k]
        BY <4>1, <1>2
      <4>3. Told(said'[p][k]) = Told(said[p][k])
        BY <4>2
      <4> QED BY <3>1, <3>2, <4>1, <4>3
    <3>3. CASE k = n + 1
      BY <3>1, <3>3, <1>2
    <3>4. k <= n \/ k = n + 1
      <4>1. n \in Nat
        BY <3>1
      <4> QED BY <4>1
    <3> QED BY <3>2, <3>3, <3>4
  <2> QED BY <2>1, <2>2
<1>4. PICK S : Trace(p) \in Seq(S) /\ Len(Trace(p)) = n
  BY TraceIs
<1>5. n = Len(Trace(p))
  BY <1>4
<1> DEFINE s == Trace(p)
           t == Trace(p)'
           e == Told(m)
<1>6. s \in Seq(S) /\ n = Len(s) /\ t = [k \in 1 .. n + 1 |-> IF k <= n THEN s[k] ELSE e]
  BY <1>3, <1>4, <1>5
<1> HIDE DEF n, s, t, e
<1>7. t = Append(s, e)
  BY <1>6, AppendIs
<1> QED BY <1>7 DEF s, t, e

LEMMA ToldSame ==
  ASSUME NEW p, said'[p] = said[p]
  PROVE  Trace(p)' = Trace(p)
BY DEF Trace, Told

-----------------------------------------------------------------------------
(* What each action makes of the local state.                               *)
LEMMA BeginIs ==
  ASSUME IInv, NEW p \in Players, POpenBegin(p)
  PROVE  Place(p)' = After(Place(p)) /\ at[p] = "ready"
<1> DEFINE n == program[pc[p] + 1].size
           ids == [i \in 1 .. n |-> next[p] + i]
<1>1. PICK wrong \in SUBSET (1 .. n) :
        Say(p, "sum", [i \in 1 .. n |-> <<ids[i], IF i \in wrong THEN 1 ELSE 0>>], <<>>)
  BY DEF POpenBegin
<1> DEFINE m == [kind |-> "sum", shares |-> [i \in 1 .. n |-> <<ids[i], IF i \in wrong THEN 1 ELSE 0>>],
                 compared |-> <<>>]
<1>2. said' = [said EXCEPT ![p] = Append(@, m)]
  BY <1>1 DEF Say
<1>3. Told(m) = [kind |-> "sum", ids |-> ids, compared |-> <<>>]
  BY DEF Told
<1> HIDE DEF m
<1>4. /\ TypeOK /\ at[p] = "ready" /\ pc[p] < Len(program) /\ program[pc[p] + 1].op = "open"
      /\ pc'[p] = pc[p] + 1 /\ at'[p] = "summing" /\ macs'[p] = macs[p] \o ids
      /\ next'[p] = next[p] + n /\ vals' = vals /\ popen_cnt' = popen_cnt /\ step' = step
      /\ said'[p] = Append(said[p], m)
  BY <1>2 DEF POpenBegin, Calls, IInv, TypeOK
<1>5. Trace(p)' = Append(Trace(p), Told(m))
  BY <1>4, ToldMore
<1>6. After(Place(p)) = AfterBegin(Place(p))
  BY <1>4 DEF After, AfterReady, Place
<1>7. Ids(Place(p)) = ids
  BY DEF Ids, Place
<1> HIDE DEF n, ids
<1>8. AfterBegin(Place(p)) =
        [pc |-> pc[p] + 1, at |-> "summing", vals |-> vals[p], macs |-> macs[p] \o ids,
         cnt |-> popen_cnt[p], step |-> step[p], next |-> next[p] + n,
         trace |-> Append(Trace(p), [kind |-> "sum", ids |-> ids, compared |-> <<>>])]
  BY <1>7 DEF AfterBegin, Place, n
<1> QED BY <1>3, <1>4, <1>5, <1>6, <1>8 DEF Place

LEMMA SumIs ==
  ASSUME IInv, NEW p \in Players, POpenEnd(p)
  PROVE  Place(p)' = After(Place(p)) /\ at[p] = "summing" /\ AllSaid(p) /\ said[p] # <<>>
<1>1. at[p] = "summing" /\ AllSaid(p) /\ said[p] # <<>> /\ TypeOK
  BY DEF POpenEnd, IInv, MacsAhead
<1>2. SumOf(Place(p)) = Opened(p)
  <2>1. /\ Len(Trace(p)) = Len(said[p]) /\ Len(said[p]) \in 1 .. Len(said[p])
        /\ Trace(p)[Len(said[p])] = Told(Heard(p, p))
    BY <1>1, LastTold
  <2>2. /\ DOMAIN Told(Heard(p, p)).ids = DOMAIN Heard(p, p).shares
        /\ \A i \in DOMAIN Heard(p, p).shares : Told(Heard(p, p)).ids[i] = Heard(p, p).shares[i][1]
    BY DEF Told
  <2>3. Place(p).trace = Trace(p)
    BY DEF Place
  <2>4. SumOf(Place(p)) =
          [i \in DOMAIN Told(Heard(p, p)).ids |->
             <<Told(Heard(p, p)).ids[i],
               IF \E q \in Players : WrongShare(said[q][Len(said[p])], i) THEN 1 ELSE 0>>]
    BY <2>1, <2>3 DEF SumOf
  <2>5. Opened(p) =
          [i \in DOMAIN Heard(p, p).shares |->
             <<Heard(p, p).shares[i][1],
               IF \E q \in Players : WrongShare(said[q][Len(said[p])], i) THEN 1 ELSE 0>>]
    BY DEF Opened, Heard
  <2> QED BY <2>2, <2>4, <2>5
<1>3. /\ vals'[p] = vals[p] \o Opened(p) /\ popen_cnt'[p] = popen_cnt[p] + Len(Opened(p))
      /\ at'[p] = IF Full(macs[p], vals[p] \o Opened(p)) THEN "checking" ELSE "ready"
      /\ pc' = pc /\ macs' = macs /\ step' = step /\ said' = said /\ next' = next
  BY <1>1 DEF POpenEnd, AddToValues, TypeOK, NeedsCheck, Full
<1>4. Trace(p)' = Trace(p)
  BY <1>3, ToldSame
<1>5. After(Place(p)) = AfterSum(Place(p))
  BY <1>1 DEF After, Place
<1>6. AfterSum(Place(p)) =
        [pc |-> pc[p], at |-> IF Full(macs[p], vals[p] \o Opened(p)) THEN "checking" ELSE "ready",
         vals |-> vals[p] \o Opened(p), macs |-> macs[p], cnt |-> popen_cnt[p] + Len(Opened(p)),
         step |-> step[p], next |-> next[p], trace |-> Trace(p)]
  BY <1>2 DEF AfterSum, Place
<1> QED BY <1>1, <1>3, <1>4, <1>5, <1>6 DEF Place

LEMMA ClaimIs ==
  ASSUME IInv, NEW p \in Players, AddToCheck(p)
  PROVE  Place(p)' = After(Place(p)) /\ at[p] = "ready"
<1> DEFINE v == <<next[p] + 1, IF program[pc[p] + 1].right THEN 0 ELSE 1>>
<1>1. /\ TypeOK /\ at[p] = "ready" /\ pc[p] < Len(program) /\ program[pc[p] + 1].op = "claim"
      /\ pc'[p] = pc[p] + 1 /\ macs'[p] = Append(macs[p], next[p] + 1)
      /\ vals'[p] = Append(vals[p], v) /\ next'[p] = next[p] + 1
      /\ popen_cnt'[p] = popen_cnt[p] + 1 /\ step' = step /\ said' = said
      /\ at'[p] = IF NeedsCheck(p, macs'[p], vals'[p]) THEN "checking" ELSE "ready"
  BY DEF AddToCheck, Calls, IInv, TypeOK
<1>2. Trace(p)' = Trace(p)
  BY <1>1, ToldSame
<1>3. After(Place(p)) = AfterClaim(Place(p))
  BY <1>1 DEF After, AfterReady, Place
<1>4. Claimed(Place(p)) = v
  BY DEF Claimed, Place
<1> HIDE DEF v
<1>5. AfterClaim(Place(p)) =
        [pc |-> pc[p] + 1,
         at |-> IF Full(Append(macs[p], next[p] + 1), Append(vals[p], v)) THEN "checking" ELSE "ready",
         vals |-> Append(vals[p], v), macs |-> Append(macs[p], next[p] + 1),
         cnt |-> popen_cnt[p] + 1, step |-> step[p], next |-> next[p] + 1, trace |-> Trace(p)]
  BY <1>4 DEF AfterClaim, Place
<1>6. at'[p] = IF Full(Append(macs[p], next[p] + 1), Append(vals[p], v)) THEN "checking" ELSE "ready"
  BY <1>1 DEF NeedsCheck, Full
<1> QED BY <1>1, <1>2, <1>3, <1>5, <1>6 DEF Place

LEMMA CheckIs ==
  ASSUME IInv, NEW p \in Players, Check(p)
  PROVE  Place(p)' = After(Place(p)) /\ at[p] = "ready"
<1>1. /\ TypeOK /\ at[p] = "ready" /\ pc[p] < Len(program) /\ program[pc[p] + 1].op = "check"
      /\ pc'[p] = pc[p] + 1 /\ macs' = macs /\ vals' = vals /\ next' = next
      /\ popen_cnt' = popen_cnt /\ step' = step /\ said' = said
      /\ at'[p] = IF WaitingForCheck(macs[p], vals[p]) = 0 THEN "ready" ELSE "checking"
  BY DEF Check, Calls, IInv, TypeOK
<1>2. Trace(p)' = Trace(p)
  BY <1>1, ToldSame
<1>3. After(Place(p)) = AfterCall(Place(p))
  BY <1>1 DEF After, AfterReady, Place
<1> QED BY <1>1, <1>2, <1>3 DEF Place, AfterCall

LEMMA DestroyIs ==
  ASSUME IInv, NEW p \in Players, Destroy(p)
  PROVE  Place(p)' = After(Place(p)) /\ at[p] = "ready"
<1>1. /\ TypeOK /\ at[p] = "ready" /\ pc[p] = Len(program) /\ pc[p] \in Nat
      /\ pc' = pc /\ macs' = macs /\ vals' = vals /\ next' = next
      /\ popen_cnt' = popen_cnt /\ step' = step /\ said' = said
      /\ at'[p] = IF WaitingForCheck(macs[p], vals[p]) > 0 THEN "terminated" ELSE "ended"
  BY Types DEF Destroy, IInv, TypeOK
<1>2. Trace(p)' = Trace(p)
  BY <1>1, ToldSame
<1>3. After(Place(p)) =
        Stop(Place(p), IF WaitingForCheck(macs[p], vals[p]) > 0 THEN "terminated" ELSE "ended")
  BY <1>1 DEF After, AfterReady, Place
<1> QED BY <1>1, <1>2, <1>3 DEF Place, Stop

LEMMA SayIs ==
  ASSUME IInv, NEW p \in Players, CheckSay(p)
  PROVE  Place(p)' = After(Place(p)) /\ at[p] = "checking"
<1> DEFINE kind == Exchanges(popen_cnt[p])[step[p] + 1]
           comp == IF kind \in {"seed", "commit seed"} THEN <<>> ELSE Compared(p)
           m == [kind |-> kind, shares |-> <<>>, compared |-> comp]
<1>1. /\ TypeOK /\ at[p] = "checking" /\ pc' = pc /\ macs' = macs /\ vals' = vals /\ next' = next
      /\ popen_cnt' = popen_cnt /\ step' = step /\ said'[p] = Append(said[p], m)
      /\ at'[p] = "exchanging"
  BY DEF CheckSay, Say, IInv, TypeOK
<1>2. Trace(p)' = Append(Trace(p), Told(m))
  BY <1>1, ToldMore
<1>3. Told(m) = [kind |-> kind, ids |-> <<>>, compared |-> comp]
  <2>1. [i \in DOMAIN m.shares |-> m.shares[i][1]] = <<>>
    OBVIOUS
  <2> QED BY <2>1 DEF Told
<1>4. After(Place(p)) = AfterSay(Place(p))
  BY <1>1 DEF After, Place
<1>5. KindAt(Place(p)) = kind /\ ComparedAt(Place(p)) = Compared(p)
  BY DEF KindAt, ComparedAt, Compared, Place
<1>6. Place(p).trace = Trace(p)
  BY DEF Place
<1> HIDE DEF kind, m
<1>7. AfterSay(Place(p)) =
        [pc |-> pc[p], at |-> "exchanging", vals |-> vals[p], macs |-> macs[p], cnt |-> popen_cnt[p],
         step |-> step[p], next |-> next[p],
         trace |-> Append(Trace(p), [kind |-> kind, ids |-> <<>>, compared |-> comp])]
  BY <1>5 DEF AfterSay, Place
<1> QED BY <1>1, <1>2, <1>3, <1>4, <1>7 DEF Place

-----------------------------------------------------------------------------
(* A player that hears a round of a check.                                  *)
LEMMA ZeroIs ==
  ASSUME IInv, NEW p \in Players, said[p] # <<>>
  PROVE  ZeroAt(Place(p)) = AllZero(p)
<1>1. TypeOK
  BY DEF IInv
<1>2. /\ Len(Trace(p)) = Len(said[p])
      /\ Trace(p)[Len(said[p])] = Told(Heard(p, p))
  BY <1>1, LastTold
<1>3. Told(Heard(p, p)).kind = Heard(p, p).kind
  BY DEF Told
<1>4. Place(p).trace = Trace(p) /\ ComparedAt(Place(p)) = Compared(p)
  BY DEF Place, ComparedAt, Compared
<1> QED BY <1>2, <1>3, <1>4 DEF ZeroAt, AllZero, Heard

LEMMA HearIs ==
  ASSUME IInv, NEW p \in Players, CheckHear(p)
  PROVE  Place(p)' = After(Place(p)) /\ at[p] = "exchanging" /\ AllSaid(p)
<1>1. /\ TypeOK /\ at[p] = "exchanging" /\ pc' = pc /\ macs' = macs /\ vals' = vals /\ next' = next
      /\ popen_cnt' = popen_cnt /\ step'[p] = step[p] + 1 /\ said' = said
      /\ at'[p] = "checking" /\ step[p] + 1 < Len(Exchanges(popen_cnt[p])) /\ AllSaid(p)
  BY DEF CheckHear, IInv, TypeOK
<1>2. Trace(p)' = Trace(p)
  BY <1>1, ToldSame
<1>3. After(Place(p)) = AfterHear(Place(p))
  BY <1>1 DEF After, AfterExchange, Place
<1> QED BY <1>1, <1>2, <1>3 DEF Place, AfterHear

LEMMA PassIs ==
  ASSUME IInv, NEW p \in Players, said[p] # <<>>, Pass(p)
  PROVE  Place(p)' = After(Place(p)) /\ at[p] = "exchanging" /\ AllSaid(p)
<1>1. /\ TypeOK /\ at[p] = "exchanging" /\ pc' = pc /\ next' = next
      /\ macs'[p] = SubSeq(macs[p], popen_cnt[p] + 1, Len(macs[p]))
      /\ vals'[p] = SubSeq(vals[p], popen_cnt[p] + 1, Len(vals[p]))
      /\ popen_cnt'[p] = 0 /\ step'[p] = 0 /\ said' = said
      /\ at'[p] = "ready" /\ step[p] + 1 = Len(Exchanges(popen_cnt[p])) /\ AllSaid(p) /\ AllZero(p)
  BY DEF Pass, CheckEnd, Erase, IInv, TypeOK
<1>2. Trace(p)' = Trace(p)
  BY <1>1, ToldSame
<1>3. ~ (Len(Exchanges(popen_cnt[p])) < Len(Exchanges(popen_cnt[p])))
  BY ExchangesLen
<1>4. After(Place(p)) = AfterPass(Place(p))
  BY <1>1, <1>3, ZeroIs DEF After, AfterExchange, Place
<1> QED BY <1>1, <1>2, <1>4 DEF Place, AfterPass

LEMMA FailIs ==
  ASSUME IInv, NEW p \in Players, said[p] # <<>>, Fail(p)
  PROVE  Place(p)' = After(Place(p)) /\ at[p] = "exchanging" /\ AllSaid(p)
<1>1. /\ TypeOK /\ at[p] = "exchanging" /\ pc' = pc /\ macs' = macs /\ vals' = vals /\ next' = next
      /\ popen_cnt' = popen_cnt /\ step' = step /\ said' = said
      /\ at'[p] = "failed" /\ step[p] + 1 = Len(Exchanges(popen_cnt[p])) /\ AllSaid(p) /\ ~ AllZero(p)
  BY DEF Fail, CheckEnd, IInv, TypeOK
<1>2. Trace(p)' = Trace(p)
  BY <1>1, ToldSame
<1>3. ~ (Len(Exchanges(popen_cnt[p])) < Len(Exchanges(popen_cnt[p])))
  BY ExchangesLen
<1>4. After(Place(p)) = Stop(Place(p), "failed")
  BY <1>1, <1>3, ZeroIs DEF After, AfterExchange, Place
<1> QED BY <1>1, <1>2, <1>4 DEF Place, Stop

-----------------------------------------------------------------------------
(* A step is one player's.                                                  *)
LEMMA Others ==
  ASSUME TypeOK, NEW p \in Players, Step(p), NEW q \in Players, q # p
  PROVE  /\ at'[q] = at[q] /\ said'[q] = said[q] /\ vals'[q] = vals[q] /\ macs'[q] = macs[q]
         /\ popen_cnt'[q] = popen_cnt[q] /\ step'[q] = step[q] /\ pc'[q] = pc[q]
         /\ next'[q] = next[q] /\ program' = program
<1>1. CASE POpenBegin(p)
  BY <1>1 DEF POpenBegin, Calls, Say, TypeOK
<1>2. CASE POpenEnd(p)
  BY <1>2 DEF POpenEnd, TypeOK
<1>3. CASE AddToCheck(p)
  BY <1>3 DEF AddToCheck, Calls, TypeOK
<1>4. CASE Check(p)
  BY <1>4 DEF Check, Calls, TypeOK
<1>5. CASE CheckSay(p)
  BY <1>5 DEF CheckSay, Say, TypeOK
<1>6. CASE CheckHear(p)
  BY <1>6 DEF CheckHear, TypeOK
<1>7. CASE Pass(p)
  BY <1>7 DEF Pass, Erase, TypeOK
<1>8. CASE Fail(p)
  BY <1>8 DEF Fail, TypeOK
<1>9. CASE Destroy(p)
  BY <1>9 DEF Destroy, TypeOK
<1> QED BY <1>1, <1>2, <1>3, <1>4, <1>5, <1>6, <1>7, <1>8, <1>9 DEF Step

(* Only CheckSay leads into a round of a check.                             *)
LEMMA AtIs ==
  ASSUME TypeOK, NEW p \in Players, Step(p), at'[p] = "exchanging"
  PROVE  CheckSay(p)
<1>1. /\ POpenBegin(p) => at'[p] = "summing"
      /\ POpenEnd(p) => at'[p] \in {"checking", "ready"}
      /\ AddToCheck(p) => at'[p] \in {"checking", "ready"}
      /\ Check(p) => at'[p] \in {"checking", "ready"}
      /\ CheckHear(p) => at'[p] = "checking"
      /\ Pass(p) => at'[p] = "ready"
      /\ Fail(p) => at'[p] = "failed"
      /\ Destroy(p) => at'[p] \in {"terminated", "ended"}
  BY DEF POpenBegin, POpenEnd, AddToCheck, Check, CheckHear, Pass, Fail, Destroy, TypeOK
<1> QED BY <1>1 DEF Step

(* The last message of a player in a round of a check is that round's.      *)
LEMMA ExchangingAt ==
  ASSUME NEW p \in Players, Exchanging, at'[p] = at[p], said'[p] = said[p],
         vals'[p] = vals[p], macs'[p] = macs[p], popen_cnt'[p] = popen_cnt[p], step'[p] = step[p],
         at'[p] = "exchanging"
  PROVE  /\ said'[p] # <<>>
         /\ LET kind == Exchanges(popen_cnt'[p])[step'[p] + 1]
            IN  Heard(p, p)' = [kind |-> kind, shares |-> <<>>,
                                compared |-> IF kind \in {"seed", "commit seed"} THEN <<>>
                                             ELSE Compared(p)']
<1>1. Heard(p, p)' = Heard(p, p) /\ Compared(p)' = Compared(p)
  BY DEF Heard, Compared
<1> QED BY <1>1 DEF Exchanging

LEMMA ExchangingStep ==
  ASSUME IInv, Exchanging, [Next]_vars
  PROVE  Exchanging'
<1>1. TypeOK
  BY DEF IInv
<1> SUFFICES ASSUME NEW p \in Players, at'[p] = "exchanging"
             PROVE  /\ said'[p] # <<>>
                    /\ LET kind == Exchanges(popen_cnt'[p])[step'[p] + 1]
                       IN  Heard(p, p)' = [kind |-> kind, shares |-> <<>>,
                                           compared |-> IF kind \in {"seed", "commit seed"} THEN <<>>
                                                        ELSE Compared(p)']
  BY DEF Exchanging, Exchanges
<1>2. CASE UNCHANGED vars
  BY <1>2, ExchangingAt DEF vars
<1>3. ASSUME NEW q \in Players, Step(q), q # p
      PROVE  /\ at'[p] = at[p] /\ said'[p] = said[p] /\ vals'[p] = vals[p]
             /\ macs'[p] = macs[p] /\ popen_cnt'[p] = popen_cnt[p] /\ step'[p] = step[p]
  BY <1>1, <1>3, Others
<1>4. CASE Step(p)
  <2>1. CheckSay(p)
    BY <1>1, <1>4, AtIs
  <2> DEFINE kind == Exchanges(popen_cnt[p])[step[p] + 1]
             m == [kind |-> kind, shares |-> <<>>,
                   compared |-> IF kind \in {"seed", "commit seed"} THEN <<>> ELSE Compared(p)]
  <2>2. /\ said'[p] = Append(said[p], m) /\ popen_cnt' = popen_cnt /\ step' = step
        /\ vals' = vals /\ macs' = macs
    BY <1>1, <2>1 DEF CheckSay, Say, TypeOK
  <2>3. said[p] \in Seq(Message)
    BY <1>1, Types
  <2>4. Compared(p)' = Compared(p)
    BY <2>2 DEF Compared
  <2> HIDE DEF m
  <2>5. said'[p] # <<>> /\ said'[p][Len(said'[p])] = m
    BY <2>2, <2>3
  <2> QED BY <2>2, <2>4, <2>5 DEF Heard, m
<1>5. \/ UNCHANGED vars \/ Step(p) \/ \E q \in Players : q # p /\ Step(q)
  BY DEF Next, AllStopped
<1> QED BY <1>2, <1>3, <1>4, <1>5, ExchangingAt

-----------------------------------------------------------------------------
(* The step of a player is the next of its course, and it leaves a round    *)
(* only once all have entered it.                                           *)
LEMMA StepIs ==
  ASSUME IInv, Exchanging, NEW p \in Players, Step(p)
  PROVE  /\ Place(p)' = After(Place(p))
         /\ Settled(Place(p))
<1>1. CASE at[p] \in {"ready", "checking"}
  <2>1. Place(p)' = After(Place(p))
    BY <1>1, BeginIs, SumIs, ClaimIs, CheckIs, SayIs, HearIs, DestroyIs DEF Step, Pass, Fail, CheckEnd
  <2> QED BY <1>1, <2>1 DEF Settled, Place
<1>2. CASE at[p] \notin {"ready", "checking"}
  <2>1. Place(p)' = After(Place(p)) /\ AllSaid(p) /\ said[p] # <<>>
    <3>1. POpenEnd(p) \/ CheckHear(p) \/ Pass(p) \/ Fail(p)
      BY <1>2, BeginIs, ClaimIs, CheckIs, SayIs, DestroyIs DEF Step
    <3>2. POpenEnd(p) \/ at[p] = "exchanging"
      BY <3>1 DEF CheckHear, Pass, Fail, CheckEnd
    <3>3. POpenEnd(p) \/ said[p] # <<>>
      BY <3>2 DEF Exchanging
    <3> QED BY <3>1, <3>3, SumIs, HearIs, PassIs, FailIs
  <2>2. Place(p).trace = Trace(p) /\ TypeOK
    BY DEF Place, IInv
  <2>3. Len(Trace(p)) = Len(said[p]) /\ Len(said[p]) \in Nat \ {0}
    BY <2>1, <2>2, LastTold
  <2> QED BY <2>1, <2>2, <2>3 DEF Settled, AllSaid
<1> QED BY <1>1, <1>2

(* What has been said stays said.                                           *)
LEMMA SaidStays ==
  ASSUME TypeOK, [Next]_vars, NEW q \in Players
  PROVE  /\ Len(said[q]) \in Nat /\ Len(said'[q]) \in Nat /\ Len(said[q]) <= Len(said'[q])
         /\ \A k \in 1 .. Len(said[q]) : said'[q][k] = said[q][k]
<1>1. said[q] \in Seq(Message) /\ Len(said[q]) \in Nat
  BY Types
<1>2. said'[q] = said[q] \/ \E m : said'[q] = Append(said[q], m)
  <2>1. CASE UNCHANGED vars
    BY <2>1 DEF vars
  <2>2. ASSUME NEW p \in Players, Step(p)
        PROVE  said'[q] = said[q] \/ \E m : said'[q] = Append(said[q], m)
    <3>1. CASE p # q
      BY <2>2, <3>1, Others
    <3>2. CASE p = q
      <4>1. CASE CheckSay(q)
        BY <4>1 DEF CheckSay, Say, TypeOK
      <4>2. CASE POpenBegin(q)
        BY <4>2 DEF POpenBegin, Say, TypeOK
      <4>3. CASE ~ (CheckSay(q) \/ POpenBegin(q))
        <5>1. UNCHANGED said
          BY <2>2, <3>2, <4>3 DEF Step, POpenEnd, AddToCheck, Check, CheckHear, Pass, Fail, Destroy
        <5> QED BY <5>1
      <4> QED BY <4>1, <4>2, <4>3
    <3> QED BY <3>1, <3>2
  <2> QED BY <2>1, <2>2 DEF Next, AllStopped
<1>3. CASE said'[q] = said[q]
  BY <1>1, <1>3
<1>4. ASSUME NEW m, said'[q] = Append(said[q], m)
      PROVE  /\ Len(said'[q]) \in Nat /\ Len(said[q]) <= Len(said'[q])
             /\ \A k \in 1 .. Len(said[q]) : said'[q][k] = said[q][k]
  BY <1>1, <1>4
<1> QED BY <1>1, <1>2, <1>3, <1>4

LEMMA ProgramStays ==
  ASSUME [Next]_vars
  PROVE  program' = program
<1>1. ASSUME NEW p \in Players, Step(p) PROVE program' = program
  BY <1>1 DEF Step, POpenBegin, POpenEnd, AddToCheck, Check, CheckSay, CheckHear, Pass, Fail, Destroy
<1> QED BY <1>1 DEF Next, AllStopped, vars

(* So a state that has been left has the same successor for good.           *)
LEMMA SettledStays ==
  ASSUME TypeOK, [Next]_vars, NEW s, Settled(s)
  PROVE  Settled(s)' /\ After(s)' = After(s)
<1>1. program' = program
  BY ProgramStays
<1>2. CASE s.at \in {"ready", "checking"}
  BY <1>1, <1>2 DEF Settled, After, AfterReady, AfterBegin, AfterClaim, AfterCall, AfterSay, Stop, Ids,
     Claimed, KindAt, ComparedAt, Full
<1>3. CASE s.at \notin {"ready", "checking"}
  <2> DEFINE k == Len(s.trace)
  <2>1. k \in Nat \ {0} /\ \A q \in Players : k <= Len(said[q])
    BY <1>3 DEF Settled
  <2>2. \A q \in Players : k <= Len(said'[q]) /\ said'[q][k] = said[q][k]
    BY <2>1, SaidStays
  <2> HIDE DEF k
  <2>3. Settled(s)'
    BY <2>1, <2>2 DEF Settled, k
  <2>4. SumOf(s)' = SumOf(s)
    BY <2>2 DEF SumOf, k
  <2>5. ZeroAt(s)' = ZeroAt(s)
    <3>1. ComparedAt(s)' = ComparedAt(s)
      BY DEF ComparedAt, Garbage
    <3>2. (\A q \in Players : said'[q][k].kind = s.trace[k].kind)
            <=> (\A q \in Players : said[q][k].kind = s.trace[k].kind)
      BY <2>2
    <3>3. ASSUME NEW i
          PROVE  (\A q \in Players : /\ i \in DOMAIN said'[q][k].compared
                                      /\ said'[q][k].compared[i] = ComparedAt(s)[i])
                 <=> (\A q \in Players : /\ i \in DOMAIN said[q][k].compared
                                          /\ said[q][k].compared[i] = ComparedAt(s)[i])
      BY <2>2
    <3> QED BY <3>1, <3>2, <3>3 DEF ZeroAt, k
  <2>6. AfterSum(s)' = AfterSum(s)
    BY <2>4 DEF AfterSum, Full
  <2>7. AfterExchange(s)' = AfterExchange(s)
    BY <2>5 DEF AfterExchange, AfterHear, AfterPass, Stop, Exchanges
  <2> QED BY <1>3, <2>3, <2>6, <2>7 DEF After
<1> QED BY <1>2, <1>3

(* The trace of a player goes on from its course.                           *)
LEMMA TraceGoesOn ==
  ASSUME TypeOK, TypeOK', NEW p \in Players, [Next]_vars
  PROVE  Continues(Trace(p)', Trace(p)) /\ Continues(Trace(p)', Trace(p)')
<1>1. /\ Len(said[p]) \in Nat /\ Len(said'[p]) \in Nat /\ Len(said[p]) <= Len(said'[p])
      /\ \A k \in 1 .. Len(said[p]) : said'[p][k] = said[p][k]
  BY SaidStays
<1>4. said'[p] \in Seq(Message)
  BY DEF TypeOK
<1>2. /\ Len(Trace(p)) = Len(said[p])
      /\ \A k \in 1 .. Len(said[p]) : Trace(p)[k] = Told(said[p][k])
  BY TraceIs
<1>3. Len(Trace(p)') = Len(said'[p])
  <2> DEFINE S == {Told(said'[p][k]) : k \in 1 .. Len(said'[p])}
  <2>1. DOMAIN said'[p] = 1 .. Len(said'[p])
    BY <1>4
  <2>2. Trace(p)' \in [1 .. Len(said'[p]) -> S]
    BY <2>1 DEF Trace, Told
  <2> HIDE DEF S
  <2> QED BY <1>1, <2>2, FunctionIsSeq
<1>5. ASSUME NEW k \in 1 .. Len(said[p]) PROVE Trace(p)'[k] = Trace(p)[k]
  <2>1. k \in DOMAIN said'[p]
    BY <1>1, <1>4
  <2>2. Trace(p)'[k] = Told(said'[p][k])
    BY <2>1 DEF Trace, Told
  <2>3. Told(said'[p][k]) = Told(said[p][k])
    BY <1>1
  <2> QED BY <1>2, <2>2, <2>3
<1> QED BY <1>1, <1>2, <1>3, <1>5 DEF Continues

-----------------------------------------------------------------------------
(* At first every player is at the start of one course.                     *)
LEMMA LockstepInit == Init => Lockstep /\ Exchanging
<1> SUFFICES ASSUME Init PROVE Lockstep /\ Exchanging
  OBVIOUS
<1> DEFINE s == [pc |-> 0, at |-> "ready", vals |-> <<>>, macs |-> <<>>, cnt |-> 0, step |-> 0,
                 next |-> 0, trace |-> <<>>]
           T == [j \in 0 .. 0 |-> s]
<1>1. ASSUME NEW p \in Players PROVE Place(p) = s
  <2>1. said[p] = <<>>
    BY DEF Init
  <2>2. Trace(p) = <<>>
    BY <2>1 DEF Trace
  <2> QED BY <2>2 DEF Init, Place
<1> HIDE DEF s
<1>2. T[0] = s /\ 0 .. 0 = {0} /\ 0 .. 0 - 1 = {}
  OBVIOUS
<1>3. Continues(s.trace, s.trace)
  BY DEF Continues, s
<1> HIDE DEF T
<1>4. Course(0, T)
  BY <1>1, <1>2, <1>3 DEF Course
<1>5. Exchanging
  BY DEF Init, Exchanging
<1> QED BY <1>4, <1>5 DEF Lockstep

LEMMA GoesFurther ==
  ASSUME NEW s, NEW t, NEW u, Continues(t, s), Continues(u, t)
  PROVE  Continues(u, s)
<1>1. \A k \in 1 .. Len(s) : k \in 1 .. Len(t)
  BY DEF Continues
<1> QED BY <1>1 DEF Continues

(* A player at the end of the course takes it one state further; any other  *)
(* takes the step the first has taken before it.                            *)
LEMMA LockstepStays ==
  ASSUME IInv, IInv', Exchanging, Lockstep, [Next]_vars
  PROVE  Lockstep'
<1>1. TypeOK /\ TypeOK'
  BY DEF IInv
<1>0. PICK n \in Nat : \E T : Course(n, T)
  BY DEF Lockstep
<1>2. PICK T : Course(n, T)
  BY <1>0
<1>3. \A j \in 0 .. n - 1 : Settled(T[j])' /\ T[j + 1] = After(T[j])'
  BY <1>1, <1>2, SettledStays DEF Course
<1>4. CASE UNCHANGED vars
  <2>1. \A p \in Players : Place(p)' = Place(p)
    BY <1>4, ToldSame DEF vars, Place
  <2>2. Course(n, T)'
    BY <1>2, <1>3, <2>1 DEF Course, Continues
  <2> QED BY <2>2 DEF Lockstep
<1>5. ASSUME NEW p \in Players, Step(p)
      PROVE  Lockstep'
  <2>1. Place(p)' = After(Place(p)) /\ Settled(Place(p))
    BY <1>5, StepIs
  <2>2. \A q \in Players : q # p => Place(q)' = Place(q)
    BY <1>1, <1>5, Others, ToldSame DEF Place
  <2>3. PICK j \in 0 .. n : Place(p) = T[j]
    BY <1>2 DEF Course
  <2>4. CASE j < n
    <3>1. Place(p)' = T[j + 1] /\ j + 1 \in 0 .. n /\ j \in 0 .. n - 1
      BY <1>2, <2>1, <2>3, <2>4 DEF Course
    <3>2. \A q \in Players : \E i \in 0 .. n : Place(q)' = T[i]
      BY <1>2, <2>2, <3>1 DEF Course
    <3>3. Course(n, T)'
      BY <1>2, <1>3, <3>2 DEF Course, Continues
    <3> QED BY <3>3 DEF Lockstep
  <2>5. CASE j = n
    <3>11. PICK e : e = Place(p)'
      OBVIOUS
    <3>12. PICK U : U = [i \in 0 .. n + 1 |-> IF i <= n THEN T[i] ELSE e]
      OBVIOUS
    <3>1. U[n + 1] = e /\ n + 1 \in 0 .. n + 1 /\ \A i \in 0 .. n : U[i] = T[i] /\ i \in 0 .. n + 1
      BY <1>2, <3>12
    <3>2. \A i \in 0 .. n + 1 : i \in 0 .. n \/ i = n + 1
      BY <1>2
    <3>3. \A i \in 0 .. n : i \in 0 .. n - 1 \/ i = n
      BY <1>2
    <3>4. Settled(T[n])' /\ e = After(T[n])'
      BY <1>1, <2>1, <2>3, <2>5, <3>11, SettledStays
    <3>5. ASSUME NEW i \in 0 .. n
          PROVE  U[i + 1] = After(U[i])' /\ Settled(U[i])'
      <4>1. CASE i \in 0 .. n - 1
        <5>1. i + 1 \in 0 .. n
          BY <1>2, <4>1
        <5>2. U[i] = T[i] /\ U[i + 1] = T[i + 1]
          BY <3>1, <5>1
        <5> QED BY <1>3, <4>1, <5>2
      <4>2. CASE i = n
        <5>1. U[i] = T[n] /\ U[i + 1] = e
          BY <3>1, <4>2
        <5> QED BY <3>4, <5>1
      <4> QED BY <3>3, <4>1, <4>2
    <3>6. Continues(e.trace, T[n].trace) /\ Continues(e.trace, e.trace)
      <4>1. e.trace = Trace(p)' /\ T[n].trace = Trace(p)
        BY <2>3, <2>5, <3>11 DEF Place
      <4> QED BY <1>1, <4>1, TraceGoesOn
    <3>7. ASSUME NEW i \in 0 .. n + 1, NEW k \in 0 .. n + 1, i <= k
          PROVE  Continues(U[k].trace, U[i].trace)
      <4>1. CASE k \in 0 .. n
        <5>1. i \in 0 .. n
          BY <1>2, <3>7, <4>1
        <5>2. U[i] = T[i] /\ U[k] = T[k]
          BY <3>1, <4>1, <5>1
        <5> QED BY <1>2, <3>7, <4>1, <5>1, <5>2 DEF Course
      <4>2. CASE k = n + 1 /\ i \in 0 .. n
        <5>1. U[i] = T[i] /\ U[k] = e /\ i <= n /\ n \in 0 .. n
          BY <1>2, <3>1, <4>2
        <5>2. Continues(T[n].trace, T[i].trace)
          BY <1>2, <4>2, <5>1 DEF Course
        <5> QED BY <3>6, <5>1, <5>2, GoesFurther
      <4>3. CASE k = n + 1 /\ i = n + 1
        BY <3>1, <3>6, <4>3
      <4> QED BY <3>2, <4>1, <4>2, <4>3
    <3>8. ASSUME NEW q \in Players
          PROVE  \E i \in 0 .. n + 1 : Place(q)' = U[i]
      <4>1. CASE q = p
        BY <3>1, <3>11, <4>1
      <4>2. CASE q # p
        <5>1. PICK i \in 0 .. n : Place(q) = T[i]
          BY <1>2 DEF Course
        <5>2. Place(q)' = U[i] /\ i \in 0 .. n + 1
          BY <2>2, <3>1, <4>2, <5>1
        <5> QED BY <5>2
      <4> QED BY <4>1, <4>2
    <3>9. n + 1 \in Nat /\ 0 .. n + 1 - 1 = 0 .. n
      BY <1>2
    <3>10. Course(n + 1, U)'
      <4>1. \A i \in 0 .. n + 1 - 1 : U[i + 1] = After(U[i])' /\ Settled(U[i])'
        BY <3>5, <3>9
      <4>2. \A i, k \in 0 .. n + 1 : i <= k => Continues(U[k].trace, U[i].trace)'
        BY <3>7 DEF Continues
      <4> QED BY <3>8, <4>1, <4>2 DEF Course
    <3> QED BY <3>9, <3>10 DEF Lockstep
  <2> QED BY <1>2, <2>3, <2>4, <2>5
<1> QED BY <1>4, <1>5 DEF Next, AllStopped

(* Players on one course have said the same in every round both have made.  *)
LEMMA SameRounds ==
  ASSUME TypeOK, Lockstep, NEW p \in Players, NEW q \in Players,
         NEW k \in DOMAIN said[p] \cap DOMAIN said[q]
  PROVE  Told(said[p][k]) = Told(said[q][k])
<1>0. PICK n \in Nat : \E T : Course(n, T)
  BY DEF Lockstep
<1>1. PICK T : Course(n, T)
  BY <1>0
<1>2. PICK i \in 0 .. n : Place(p) = T[i]
  BY <1>1 DEF Course
<1>3. PICK j \in 0 .. n : Place(q) = T[j]
  BY <1>1 DEF Course
<1>4. /\ Trace(p) = T[i].trace /\ Trace(q) = T[j].trace
      /\ k \in 1 .. Len(Trace(p)) /\ k \in 1 .. Len(Trace(q))
      /\ Trace(p)[k] = Told(said[p][k]) /\ Trace(q)[k] = Told(said[q][k])
  <2>1. Trace(p) = T[i].trace /\ Trace(q) = T[j].trace
    BY <1>2, <1>3 DEF Place
  <2>2. /\ DOMAIN Trace(p) = 1 .. Len(said[p]) /\ Len(Trace(p)) = Len(said[p])
        /\ DOMAIN Trace(q) = 1 .. Len(said[q]) /\ Len(Trace(q)) = Len(said[q])
        /\ DOMAIN Trace(p) = DOMAIN said[p] /\ DOMAIN Trace(q) = DOMAIN said[q]
    BY TraceIs DEF Trace
  <2> QED BY <2>1, <2>2, TraceIs
<1>5. CASE i <= j
  BY <1>1, <1>4, <1>5 DEF Course, Continues
<1>6. CASE j <= i
  BY <1>1, <1>4, <1>6 DEF Course, Continues
<1>7. i <= j \/ j <= i
  BY <1>1
<1> QED BY <1>5, <1>6, <1>7

LEMMA InStepIs ==
  ASSUME TypeOK, Lockstep
  PROVE  InStep
<1> SUFFICES ASSUME NEW p \in Players, NEW q \in Players,
                    NEW k \in DOMAIN said[p] \cap DOMAIN said[q]
             PROVE  /\ said[p][k].kind = said[q][k].kind
                    /\ said[p][k].compared = said[q][k].compared
  BY DEF InStep
<1>1. Told(said[p][k]) = Told(said[q][k])
  BY SameRounds
<1>2. /\ Told(said[p][k]).kind = said[p][k].kind
      /\ Told(said[q][k]).kind = said[q][k].kind
      /\ Told(said[p][k]).compared = said[p][k].compared
      /\ Told(said[q][k]).compared = said[q][k].compared
  BY DEF Told
<1> QED BY <1>1, <1>2

LEMMA LockstepHolds == Spec => [](IInv /\ Exchanging /\ Lockstep)
<1>1. Init => IInv /\ Exchanging /\ Lockstep
  BY InitInv, LockstepInit
<1>2. IInv /\ Exchanging /\ Lockstep /\ [Next]_vars => (IInv /\ Exchanging /\ Lockstep)'
  BY NextInv, ExchangingStep, LockstepStays
<1> QED BY <1>1, <1>2, PTL DEF Spec

(* All players make the same rounds, of the same kinds and in the same      *)
(* order, and compare the same values with the same MACs in each check,     *)
(* although CheckIfNeeded of each looks at its own vectors only.            *)
THEOREM AlwaysInStep == Spec => []InStep
<1>1. IInv /\ Exchanging /\ Lockstep => InStep
  BY InStepIs DEF IInv
<1> QED BY <1>1, LockstepHolds, PTL

-----------------------------------------------------------------------------
(* When no share and no claim has been wrong, all that waits and all that   *)
(* has been said is right, and no check has failed.                         *)
Quiet == errors = 0 /\ \A i \in DOMAIN program : program[i].right

RightMessage(m) == \A i \in DOMAIN m.shares : m.shares[i][2] = 0

CalmAt(p) == /\ \A i \in DOMAIN vals[p] : vals[p][i][2] = 0
             /\ \A k \in DOMAIN said[p] : RightMessage(said[p][k])
             /\ at[p] # "failed"

Calm == errors \in Nat /\ (Quiet => \A p \in Players : CalmAt(p))

(* After a call of Check nothing waits, and only then does the program end. *)
LastAt(p) == /\ pc[p] <= Len(program)
             /\ at[p] = "terminated" => pc[p] = Len(program)
             /\ (pc[p] = 0 \/ program[pc[p]].op = "check") =>
                  /\ at[p] \notin {"summing", "terminated"}
                  /\ at[p] = "ready" => popen_cnt[p] = 0

LastCall == \A p \in Players : LastAt(p)

LEMMA CalmUntouched ==
  ASSUME NEW p, CalmAt(p), at'[p] = at[p], vals'[p] = vals[p], said'[p] = said[p]
  PROVE  CalmAt(p)'
BY DEF CalmAt, RightMessage

LEMMA CalmSaid ==
  ASSUME TypeOK, NEW p \in Players, CalmAt(p), NEW m, RightMessage(m), vals'[p] = vals[p],
         said'[p] = Append(said[p], m), at'[p] # "failed"
  PROVE  CalmAt(p)'
<1>1. said[p] \in Seq(Message) /\ Len(said[p]) \in Nat
  BY Types
<1>2. /\ DOMAIN said[p] = 1 .. Len(said[p])
      /\ DOMAIN said'[p] = 1 .. Len(said[p]) + 1 /\ said'[p][Len(said[p]) + 1] = m
      /\ \A k \in 1 .. Len(said[p]) : said'[p][k] = said[p][k]
  BY <1>1
<1>3. ASSUME NEW k \in DOMAIN said'[p] PROVE RightMessage(said'[p][k])
  <2>1. k \in 1 .. Len(said[p]) \/ k = Len(said[p]) + 1
    BY <1>1, <1>2
  <2> QED BY <1>2, <2>1 DEF CalmAt
<1> QED BY <1>3 DEF CalmAt, RightMessage

LEMMA CalmBegin ==
  ASSUME IInv, Calm, NEW p \in Players, POpenBegin(p), Quiet'
  PROVE  Quiet /\ CalmAt(p)'
<1> DEFINE n == program[pc[p] + 1].size
           ids == [i \in 1 .. n |-> next[p] + i]
<1>1. PICK wrong \in SUBSET (1 .. n) :
        /\ errors' = errors + Cardinality(wrong)
        /\ Say(p, "sum", [i \in 1 .. n |-> <<ids[i], IF i \in wrong THEN 1 ELSE 0>>], <<>>)
  BY DEF POpenBegin
<1> DEFINE shares == [i \in 1 .. n |-> <<ids[i], IF i \in wrong THEN 1 ELSE 0>>]
           m == [kind |-> "sum", shares |-> shares, compared |-> <<>>]
<1>2. TypeOK /\ n \in Nat /\ errors \in Nat
  BY CallTypes DEF IInv, POpenBegin, Calm
<1>3. IsFiniteSet(wrong) /\ Cardinality(wrong) \in Nat
  <2>1. IsFiniteSet(1 .. n)
    BY <1>2, FS_Interval
  <2> QED BY <2>1, FS_Subset, FS_CardinalityType
<1>4. errors = 0 /\ Cardinality(wrong) = 0
  <2>1. errors' = 0
    BY DEF Quiet
  <2> QED BY <1>1, <1>2, <1>3, <2>1
<1>5. wrong = {}
  BY <1>3, <1>4, FS_EmptySet
<1>6. /\ said'[p] = Append(said[p], m) /\ vals' = vals /\ program' = program
      /\ at'[p] = "summing"
  BY <1>1, <1>2 DEF POpenBegin, Say, TypeOK
<1>7. Quiet
  BY <1>4, <1>6 DEF Quiet
<1> HIDE DEF n, ids
<1>8. RightMessage(m)
  <2>1. \A i \in 1 .. n : shares[i][2] = 0
    BY <1>5
  <2> QED BY <2>1 DEF RightMessage
<1> QED BY <1>2, <1>6, <1>7, <1>8, CalmSaid DEF Calm

LEMMA CalmSum ==
  ASSUME IInv, Lockstep, Quiet, \A q \in Players : CalmAt(q), NEW p \in Players, POpenEnd(p)
  PROVE  CalmAt(p)'
<1>1. /\ TypeOK /\ said[p] # <<>> /\ AllSaid(p) /\ said' = said
      /\ vals'[p] = vals[p] \o Opened(p) /\ at'[p] # "failed"
  BY DEF POpenEnd, IInv, MacsAhead, TypeOK, AddToValues
<1>2. Opened(p) \in Seq(Value) /\ vals[p] \in Seq(Value) /\ DOMAIN Opened(p) = DOMAIN Heard(p, p).shares
  BY <1>1, OpenedTypes, Types DEF Opened
<1>3. ASSUME NEW i \in DOMAIN Opened(p) PROVE Opened(p)[i][2] = 0
  <2>1. ASSUME NEW q \in Players PROVE ~ WrongShare(Heard(p, q), i)
    <3>1. /\ Len(said[p]) \in DOMAIN said[p] \cap DOMAIN said[q]
          /\ Heard(p, q) = said[q][Len(said[p])] /\ Heard(p, p) = said[p][Len(said[p])]
      <4>1. Len(said[p]) \in Nat \ {0} /\ Len(said[q]) \in Nat /\ Len(said[p]) <= Len(said[q])
        BY <1>1, LastTold, Types DEF AllSaid
      <4>2. said[p] \in Seq(Message) /\ said[q] \in Seq(Message)
        BY <1>1, Types
      <4> QED BY <4>1, <4>2 DEF Heard
    <3>2. Told(Heard(p, q)) = Told(Heard(p, p))
      BY <1>1, <3>1, SameRounds
    <3>3. DOMAIN Heard(p, q).shares = DOMAIN Heard(p, p).shares
      <4>1. \A m : DOMAIN Told(m).ids = DOMAIN m.shares
        BY DEF Told
      <4> QED BY <3>2, <4>1
    <3>4. Heard(p, q).shares[i][2] = 0
      BY <1>2, <1>3, <3>1, <3>3 DEF CalmAt, RightMessage
    <3> QED BY <1>2, <1>3, <3>3, <3>4 DEF WrongShare
  <2> QED BY <1>2, <1>3, <2>1 DEF Opened
<1>4. ASSUME NEW i \in DOMAIN vals'[p] PROVE vals'[p][i][2] = 0
  <2> DEFINE a == Len(vals[p])
             b == Len(Opened(p))
  <2>1. /\ a \in Nat /\ b \in Nat /\ Len(vals'[p]) = a + b /\ vals'[p] \in Seq(Value)
        /\ \A k \in 1 .. a : vals'[p][k] = vals[p][k]
        /\ \A k \in 1 .. b : vals'[p][a + k] = Opened(p)[k]
    BY <1>1, <1>2, Joined
  <2>2. DOMAIN vals[p] = 1 .. a /\ DOMAIN Opened(p) = 1 .. b /\ DOMAIN vals'[p] = 1 .. a + b
    BY <1>2, <2>1
  <2> HIDE DEF a, b
  <2>3. i \in 1 .. a \/ (i - a \in 1 .. b /\ a + (i - a) = i)
    BY <1>4, <2>1, <2>2
  <2>4. CASE i \in 1 .. a
    <3>1. \A k \in DOMAIN vals[p] : vals[p][k][2] = 0
      BY DEF CalmAt
    <3>2. vals'[p][i] = vals[p][i] /\ i \in DOMAIN vals[p]
      BY <2>1, <2>2, <2>4
    <3> QED BY <3>1, <3>2
  <2>5. CASE i - a \in 1 .. b /\ a + (i - a) = i
    <3>1. vals'[p][i] = Opened(p)[i - a]
      BY <2>1, <2>5
    <3> QED BY <1>3, <2>2, <2>5, <3>1
  <2> QED BY <2>3, <2>4, <2>5
<1> QED BY <1>1, <1>4 DEF CalmAt, RightMessage

LEMMA CalmClaim ==
  ASSUME IInv, Quiet, NEW p \in Players, CalmAt(p), AddToCheck(p)
  PROVE  CalmAt(p)'
<1> DEFINE v == <<next[p] + 1, IF program[pc[p] + 1].right THEN 0 ELSE 1>>
<1>1. /\ TypeOK /\ vals'[p] = Append(vals[p], v) /\ said' = said
      /\ at'[p] \in {"checking", "ready"}
  BY DEF AddToCheck, IInv, TypeOK
<1>2. v[2] = 0
  <2>1. program \in Seq(Call) /\ pc[p] \in Nat /\ pc[p] < Len(program)
    BY <1>1, ProgramAssumption, Types DEF AddToCheck, Calls, TypeOK
  <2>2. pc[p] + 1 \in DOMAIN program
    BY <2>1
  <2> QED BY <2>2 DEF Quiet
<1>3. vals[p] \in Seq(Value) /\ Len(vals[p]) \in Nat
  BY <1>1, Types
<1> HIDE DEF v
<1>4. ASSUME NEW i \in DOMAIN vals'[p] PROVE vals'[p][i][2] = 0
  <2>1. /\ DOMAIN vals[p] = 1 .. Len(vals[p])
        /\ DOMAIN vals'[p] = 1 .. Len(vals[p]) + 1 /\ vals'[p][Len(vals[p]) + 1] = v
        /\ \A k \in 1 .. Len(vals[p]) : vals'[p][k] = vals[p][k]
    BY <1>1, <1>3
  <2>2. i \in 1 .. Len(vals[p]) \/ i = Len(vals[p]) + 1
    BY <1>3, <1>4, <2>1
  <2> QED BY <1>2, <2>1, <2>2 DEF CalmAt
<1> QED BY <1>1, <1>4 DEF CalmAt, RightMessage

LEMMA CalmSay ==
  ASSUME IInv, NEW p \in Players, CalmAt(p), CheckSay(p)
  PROVE  CalmAt(p)'
<1>1. PICK kind, comp : Say(p, kind, <<>>, comp)
  BY DEF CheckSay
<1> DEFINE m == [kind |-> kind, shares |-> <<>>, compared |-> comp]
<1>2. TypeOK /\ said'[p] = Append(said[p], m) /\ vals' = vals /\ at'[p] = "exchanging"
  BY <1>1 DEF CheckSay, Say, IInv, TypeOK
<1>3. RightMessage(m)
  BY DEF RightMessage
<1> HIDE DEF m
<1> QED BY <1>2, <1>3, CalmSaid

LEMMA CalmPass ==
  ASSUME IInv, NEW p \in Players, CalmAt(p), Pass(p)
  PROVE  CalmAt(p)'
<1> DEFINE c == popen_cnt[p]
           n == Len(vals[p])
<1>1. /\ TypeOK /\ said' = said /\ at'[p] = "ready" /\ vals'[p] = SubSeq(vals[p], c + 1, n)
  BY DEF Pass, Erase, IInv, TypeOK
<1>2. vals[p] \in Seq(Value) /\ n \in Nat /\ c \in Nat
  BY <1>1, Types
<1>3. Len(vals[p]) = popen_cnt[p]
  BY DEF IInv, Aligned, Pass, CheckEnd
<1>4. DOMAIN vals'[p] = {}
  <2> HIDE DEF c, n
  <2>1. c = n
    BY <1>3 DEF c, n
  <2>2. \A k \in n + 1 .. n : vals[p][k] \in Value
    BY <1>2
  <2>3. Len(SubSeq(vals[p], n + 1, n)) = 0 /\ SubSeq(vals[p], n + 1, n) \in Seq(Value)
    BY <1>2, <2>2, SubSeqProperties
  <2> QED BY <1>1, <2>1, <2>3
<1> QED BY <1>1, <1>4 DEF CalmAt, RightMessage

LEMMA LastOfTwo ==
  ASSUME NEW a, NEW b, NEW s, s = <<a, b>>
  PROVE  s[Len(s)] = b
OBVIOUS

LEMMA LastOfFour ==
  ASSUME NEW s, s = <<"commit seed", "seed", "commit tau", "tau">>
  PROVE  s[Len(s)] = "tau"
OBVIOUS

(* The last exchange of a check is the one in which values are compared.    *)
LEMMA LastExchange ==
  ASSUME NEW c, NEW i \in 0 .. 3, i + 1 = Len(Exchanges(c))
  PROVE  Exchanges(c)[i + 1] \in {"deltas", "tau"}
<1>1. CASE c < Few
  <2>1. Exchanges(c) = <<"commit deltas", "deltas">>
    BY <1>1 DEF Exchanges
  <2>2. Exchanges(c)[Len(Exchanges(c))] = "deltas"
    BY <2>1, LastOfTwo
  <2> QED BY <2>2
<1>2. CASE ~ (c < Few)
  <2>1. Exchanges(c) = <<"commit seed", "seed", "commit tau", "tau">>
    BY <1>2 DEF Exchanges
  <2>2. Exchanges(c)[Len(Exchanges(c))] = "tau"
    BY <2>1, LastOfFour
  <2> QED BY <2>2
<1> QED BY <1>1, <1>2

LEMMA NoFail ==
  ASSUME IInv, Exchanging, Lockstep, NEW p \in Players, CalmAt(p), CheckEnd(p)
  PROVE  AllZero(p)
<1>1. /\ TypeOK /\ at[p] = "exchanging" /\ AllSaid(p) /\ said[p] # <<>>
      /\ step[p] + 1 = Len(Exchanges(popen_cnt[p]))
  BY DEF CheckEnd, IInv, Exchanging
<1>2. Heard(p, p).compared = Compared(p)
  <2>1. Exchanges(popen_cnt[p])[step[p] + 1] \in {"deltas", "tau"}
    <3>1. step[p] \in 0 .. 3
      BY <1>1, Types
    <3> QED BY <1>1, <3>1, LastExchange
  <2> DEFINE kind == Exchanges(popen_cnt[p])[step[p] + 1]
             comp == IF kind \in {"seed", "commit seed"} THEN <<>> ELSE Compared(p)
  <2>2. Heard(p, p) = [kind |-> kind, shares |-> <<>>, compared |-> comp]
    BY <1>1 DEF Exchanging
  <2>3. kind \notin {"seed", "commit seed"}
    BY <2>1
  <2>4. comp = Compared(p)
    BY <2>3
  <2> HIDE DEF kind, comp
  <2> QED BY <2>2, <2>4
<1>3. ASSUME NEW q \in Players
      PROVE  Heard(p, q).kind = Heard(p, p).kind /\ Heard(p, q).compared = Compared(p)
  <2>1. /\ Len(said[p]) \in DOMAIN said[p] \cap DOMAIN said[q]
        /\ Heard(p, q) = said[q][Len(said[p])] /\ Heard(p, p) = said[p][Len(said[p])]
    <3>1. Len(said[p]) \in Nat \ {0} /\ Len(said[q]) \in Nat /\ Len(said[p]) <= Len(said[q])
      BY <1>1, LastTold, Types DEF AllSaid
    <3>2. said[p] \in Seq(Message) /\ said[q] \in Seq(Message)
      BY <1>1, Types
    <3> QED BY <3>1, <3>2 DEF Heard
  <2> QED BY <1>1, <1>2, <2>1, InStepIs DEF InStep
<1>4. ASSUME NEW i \in DOMAIN Compared(p)
      PROVE  Compared(p)[i][1] = <<Compared(p)[i][2], 0>>
  <2>1. /\ Len(vals[p]) = popen_cnt[p] /\ vals[p] \in Seq(Value) /\ i \in 1 .. popen_cnt[p]
        /\ \A k \in 1 .. popen_cnt[p] : vals[p][k][1] = macs[p][k]
    BY <1>1, Types DEF IInv, Aligned, Compared
  <2>2. i \in DOMAIN vals[p] /\ vals[p][i] \in Value
    BY <2>1
  <2>3. Compared(p)[i] = <<vals[p][i], macs[p][i]>>
    BY <2>1, <2>2 DEF Compared
  <2>4. vals[p][i][1] = macs[p][i] /\ vals[p][i][2] = 0
    BY <2>1, <2>2 DEF CalmAt
  <2>5. vals[p][i] = <<vals[p][i][1], vals[p][i][2]>>
    BY <2>2 DEF Value
  <2> QED BY <2>3, <2>4, <2>5
<1> QED BY <1>3, <1>4 DEF AllZero

LEMMA CalmStays ==
  ASSUME IInv, Exchanging, Lockstep, Calm, [Next]_vars
  PROVE  Calm'
<1>1. TypeOK
  BY DEF IInv
<1>2. CASE UNCHANGED vars
  <2>1. Quiet' = Quiet /\ \A p : CalmAt(p)' = CalmAt(p)
    BY <1>2 DEF vars, Quiet, CalmAt, RightMessage
  <2> QED BY <1>2, <2>1 DEF Calm, vars
<1>3. ASSUME NEW p \in Players, Step(p)
      PROVE  Calm'
  <2>1. errors' \in Nat
    <3>1. CASE POpenBegin(p)
      <4> DEFINE n == program[pc[p] + 1].size
      <4>1. PICK wrong \in SUBSET (1 .. n) : errors' = errors + Cardinality(wrong)
        BY <3>1 DEF POpenBegin
      <4>2. n \in Nat
        BY <1>1, <3>1, CallTypes DEF POpenBegin
      <4> HIDE DEF n
      <4>4. IsFiniteSet(1 .. n)
        BY <4>2, FS_Interval
      <4>3. Cardinality(wrong) \in Nat
        BY <4>4, FS_Subset, FS_CardinalityType
      <4> QED BY <4>1, <4>3 DEF Calm
    <3>2. CASE ~ POpenBegin(p)
      BY <1>3, <3>2 DEF Step, POpenEnd, AddToCheck, Check, CheckSay, CheckHear, Pass, Fail, Destroy,
         Calm
    <3> QED BY <3>1, <3>2
  <2>2. ASSUME Quiet' PROVE Quiet /\ CalmAt(p)'
    <3>1. CASE POpenBegin(p)
      BY <2>2, <3>1, CalmBegin
    <3>2. CASE ~ POpenBegin(p)
      <4>1. errors' = errors /\ program' = program
        BY <1>3, <3>2 DEF Step, POpenEnd, AddToCheck, Check, CheckSay, CheckHear, Pass, Fail, Destroy
      <4>2. Quiet
        BY <2>2, <4>1 DEF Quiet
      <4>3. \A q \in Players : CalmAt(q)
        BY <4>2 DEF Calm
      <4>4. ~ Fail(p)
        BY <4>3, NoFail DEF Fail
      <4>5. CASE POpenEnd(p)
        BY <4>2, <4>3, <4>5, CalmSum
      <4>6. CASE AddToCheck(p) \/ CheckSay(p) \/ Pass(p)
        BY <4>2, <4>3, <4>6, CalmClaim, CalmSay, CalmPass
      <4>7. CASE Check(p) \/ CheckHear(p) \/ Destroy(p)
        <5>1. vals' = vals /\ said' = said
          BY <4>7 DEF Check, CheckHear, Destroy
        <5>2. at'[p] # "failed"
          BY <1>1, <4>7 DEF Check, CheckHear, Destroy, TypeOK
        <5>3. CalmAt(p)
          BY <4>3
        <5> QED BY <4>2, <5>3, <5>2, <5>1 DEF CalmAt, RightMessage
      <4> QED BY <1>3, <3>2, <4>2, <4>4, <4>5, <4>6, <4>7 DEF Step
    <3> QED BY <3>1, <3>2
  <2>3. ASSUME Quiet', NEW q \in Players, q # p PROVE CalmAt(q)'
    <3>1. CalmAt(q)
      BY <2>2, <2>3 DEF Calm
    <3> QED BY <1>1, <1>3, <2>3, <3>1, Others, CalmUntouched
  <2> QED BY <2>1, <2>2, <2>3 DEF Calm
<1> QED BY <1>2, <1>3 DEF Next, AllStopped

-----------------------------------------------------------------------------
LEMMA LastUntouched ==
  ASSUME NEW p, LastAt(p), at'[p] = at[p], pc'[p] = pc[p], popen_cnt'[p] = popen_cnt[p],
         program' = program
  PROVE  LastAt(p)'
BY DEF LastAt

LEMMA LastStep ==
  ASSUME IInv, NEW p \in Players, LastAt(p), Step(p)
  PROVE  LastAt(p)'
<1>1. /\ TypeOK /\ program' = program /\ pc[p] \in Nat /\ Len(program) \in Nat
  <2>1. TypeOK /\ program' = program
    BY ProgramStays DEF IInv, Next
  <2>2. program \in Seq(Call)
    BY <2>1, ProgramAssumption DEF TypeOK
  <2> QED BY <2>1, <2>2, Types
<1>9. LastAt(p)' <=> /\ pc'[p] <= Len(program)
                     /\ at'[p] = "terminated" => pc'[p] = Len(program)
                     /\ (pc'[p] = 0 \/ program[pc'[p]].op = "check") =>
                          /\ at'[p] \notin {"summing", "terminated"}
                          /\ at'[p] = "ready" => popen_cnt'[p] = 0
  BY <1>1 DEF LastAt
<1>2. CASE POpenBegin(p)
  <2>1. /\ pc'[p] = pc[p] + 1 /\ pc[p] < Len(program) /\ program[pc'[p]].op = "open"
        /\ at'[p] = "summing"
    BY <1>1, <1>2 DEF POpenBegin, Calls, TypeOK
  <2> QED BY <1>1, <1>9, <2>1
<1>3. CASE POpenEnd(p)
  <2>1. at[p] = "summing" /\ pc' = pc /\ at'[p] \in {"checking", "ready"}
    BY <1>1, <1>3 DEF POpenEnd, TypeOK
  <2> QED BY <1>1, <1>9, <2>1 DEF LastAt
<1>4. CASE AddToCheck(p)
  <2>1. /\ pc'[p] = pc[p] + 1 /\ pc[p] < Len(program) /\ program[pc'[p]].op = "claim"
        /\ at'[p] \in {"checking", "ready"}
    BY <1>1, <1>4 DEF AddToCheck, Calls, TypeOK
  <2> QED BY <1>1, <1>9, <2>1
<1>5. CASE Check(p)
  <2>1. /\ pc'[p] = pc[p] + 1 /\ pc[p] < Len(program) /\ at[p] = "ready"
        /\ at'[p] = IF WaitingForCheck(macs[p], vals[p]) = 0 THEN "ready" ELSE "checking"
        /\ popen_cnt' = popen_cnt
    BY <1>1, <1>5 DEF Check, Calls, TypeOK
  <2>2. WaitingForCheck(macs[p], vals[p]) = popen_cnt[p]
    BY <1>1, <2>1, Types, Waiting DEF IInv, Aligned
  <2> QED BY <1>1, <1>9, <2>1, <2>2
<1>6. CASE CheckSay(p) \/ CheckHear(p) \/ Fail(p)
  <2>1. pc' = pc /\ at'[p] \in {"checking", "exchanging", "failed"}
    BY <1>1, <1>6 DEF CheckSay, CheckHear, Fail, TypeOK
  <2> QED BY <1>1, <1>9, <2>1 DEF LastAt
<1>7. CASE Pass(p)
  <2>1. pc' = pc /\ at'[p] = "ready" /\ popen_cnt'[p] = 0
    BY <1>1, <1>7 DEF Pass, TypeOK
  <2> QED BY <1>1, <1>9, <2>1 DEF LastAt
<1>8. CASE Destroy(p)
  <2>1. /\ pc' = pc /\ at[p] = "ready" /\ pc[p] = Len(program) /\ popen_cnt' = popen_cnt
        /\ at'[p] = IF WaitingForCheck(macs[p], vals[p]) > 0 THEN "terminated" ELSE "ended"
    BY <1>1, <1>8 DEF Destroy, TypeOK
  <2>2. WaitingForCheck(macs[p], vals[p]) = popen_cnt[p]
    BY <1>1, <2>1, Types, Waiting DEF IInv, Aligned
  <2> QED BY <1>1, <1>9, <2>1, <2>2 DEF LastAt
<1> QED BY <1>2, <1>3, <1>4, <1>5, <1>6, <1>7, <1>8 DEF Step

LEMMA LastStays ==
  ASSUME IInv, LastCall, [Next]_vars
  PROVE  LastCall'
<1>1. TypeOK
  BY DEF IInv
<1>2. CASE UNCHANGED vars
  BY <1>2, LastUntouched DEF vars, LastCall
<1>3. ASSUME NEW p \in Players, Step(p) PROVE LastCall'
  <2>1. LastAt(p)'
    BY <1>3, LastStep DEF LastCall
  <2>2. ASSUME NEW q \in Players, q # p PROVE LastAt(q)'
    BY <1>1, <1>3, <2>2, Others, LastUntouched DEF LastCall
  <2> QED BY <2>1, <2>2 DEF LastCall
<1> QED BY <1>2, <1>3 DEF Next, AllStopped

LEMMA AlarmInit == Init => Calm /\ LastCall
<1> SUFFICES ASSUME Init PROVE Calm /\ LastCall
  OBVIOUS
<1>1. Calm
  BY DEF Init, Calm, CalmAt
<1>2. Len(program) \in Nat
  BY ProgramAssumption DEF Init
<1>3. LastCall
  BY <1>2 DEF Init, LastCall, LastAt
<1> QED BY <1>1, <1>3

(* Without a wrong share or claim no check throws mac_fail, and no program  *)
(* whose last call is Check is stopped by the destructor for values that    *)
(* were never checked.                                                      *)
THEOREM NeverFalseAlarm == Spec => []NoFalseAlarm
<1> DEFINE Inv == IInv /\ Exchanging /\ Lockstep /\ Calm /\ LastCall
<1>1. Init => Inv
  BY InitInv, LockstepInit, AlarmInit
<1>2. Inv /\ [Next]_vars => Inv'
  BY NextInv, ExchangingStep, LockstepStays, CalmStays, LastStays
<1>3. Inv => NoFalseAlarm
  <2> SUFFICES ASSUME Inv, Quiet, NEW p \in Players
               PROVE  at[p] # "failed"
                      /\ (at[p] = "terminated" => program[Len(program)] # DoCheck)
    BY DEF NoFalseAlarm, Quiet
  <2>1. at[p] # "failed"
    BY DEF Calm, CalmAt
  <2>2. ASSUME at[p] = "terminated", program[Len(program)] = DoCheck PROVE FALSE
    <3>1. program[pc[p]].op = "check"
      BY <2>2 DEF LastCall, LastAt, DoCheck
    <3> QED BY <2>2, <3>1 DEF LastCall, LastAt
  <2> QED BY <2>1, <2>2
<1> HIDE DEF Inv
<1> QED BY <1>1, <1>2, <1>3, PTL DEF Spec
=============================================================================
