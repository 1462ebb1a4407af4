---------------------------- MODULE TreeSumProofs ----------------------------
(***************************************************************************)
(* For any number of players, any width of the two trees and any number of *)
(* openings: TreeSum keeps to one kind of message in each direction of a   *)
(* connection, leaves nothing under way, and implements Opening.           *)
(*                                                                         *)
(* The first part is about the trees: every player but the base player has *)
(* one receiver, a lower number, and asks the players it has to, each      *)
(* once.  The second is about the steps: what p has sent and heard of an   *)
(* opening follows from where it is, so that what is under way on a        *)
(* connection is the difference between what its two ends have done.       *)
(***************************************************************************)
EXTENDS TreeSum, WellFoundedInduction, TLAPS

Others == Players \ {0}  \* all but the base player

(* The players whose shares are in the sum that r sends: those from which   *)
(* Receiver leads to r, that is, that are with r in every set it does not   *)
(* lead out of.                                                             *)
Closed(S) == \A s \in S \ {0} : Receiver(s) \in S

Ancestors(t) == {s \in Players : \A S \in SUBSET Players : t \in S /\ Closed(S) => s \in S}

Under(s) == {t \in Players : s \in Ancestors(t)}

(* How many sums p has sent down the tree (the base player: has had), how   *)
(* many results it has got and how many calls have returned.                *)
Sums(p)  == IF phase[p] = "summing" THEN entered[p] - 1 ELSE entered[p]
Knows(p) == IF phase[p] \in {"summing", "awaiting"} THEN entered[p] - 1 ELSE entered[p]
Done(p)  == IF phase[p] = "idle" THEN entered[p] ELSE entered[p] - 1

(* The receiver of s has heard it in the opening it is in.                  *)
Heard(s) == LET r == Receiver(s)
            IN  phase[r] = "summing" => \/ RoundOf(s) < round[r]
                                        \/ RoundOf(s) = round[r] /\ s \in asked[r]

HeardSums(s) == IF Heard(s) THEN entered[Receiver(s)] ELSE entered[Receiver(s)] - 1

Passed(s) == IF s \in sent[Source(s)] THEN Done(Source(s)) + 1 ELSE Done(Source(s))

(* Whose shares p has while it adds up.                                     *)
Held(p) == {p} \cup UNION {Under(s) : s \in {t \in Others : Receiver(t) = p /\ Heard(t)}}

TypeOK ==
  /\ phase \in [Players -> {"idle", "summing", "awaiting", "passing"}]
  /\ round \in [Players -> 0 .. N - 1]
  /\ asked \in [Players -> SUBSET Players]
  /\ sent \in [Players -> SUBSET Players]
  /\ DOMAIN values = Players
  /\ DOMAIN chan = Players \X Players
  /\ entered \in [Players -> 0 .. Runs]
  /\ DOMAIN opened = Players

PhaseAt(p) ==
  /\ p < Width[round[p]]
  /\ asked[p] \subseteq SendersTo(p, round[p])
  /\ phase[p] # "summing" => asked[p] = {}
  /\ sent[p] \subseteq Targets(p)
  /\ phase[p] # "passing" => sent[p] = {}
  /\ phase[p] # "idle" => entered[p] # 0
  /\ p = 0 => phase[p] # "awaiting"

ValuesAt(p) ==
  /\ phase[p] = "summing" => values[p] = SetToBag(Held(p) \X {entered[p]})
  /\ phase[p] = "passing" => values[p] = Whole(entered[p])
  /\ opened[p] = [k \in 1 .. Done(p) |-> Whole(k)]

PlayersOK == \A p \in Players : PhaseAt(p) /\ ValuesAt(p)

(* Whoever knows a result, all the sums of that opening have been heard.    *)
KnownOK ==
  \A p \in Players : Knows(p) <= Knows(0) /\ \A s \in Others : Knows(p) <= HeardSums(s)

(* What is under way is what one end has done and the other has not.        *)
Up(s) == IF HeardSums(s) < Sums(s) THEN <<SetToBag(Under(s) \X {Sums(s)})>> ELSE <<>>

Down(s) == IF Knows(s) < Passed(s) THEN <<Whole(Passed(s))>> ELSE <<>>

UpOK(s) == HeardSums(s) <= Sums(s) /\ chan[<<s, Receiver(s)>>] = Up(s)

DownOK(s) == Knows(s) <= Passed(s) /\ chan[<<Source(s), s>>] = Down(s)

Used(p, q) == \/ p \in Others /\ q = Receiver(p)
              \/ q \in Others /\ p = Source(q)

ChanOK == /\ \A s \in Others : UpOK(s) /\ DownOK(s)
          /\ \A p, q \in Players : Used(p, q) \/ chan[<<p, q>>] = <<>>

IInv == TypeOK /\ PlayersOK /\ KnownOK /\ ChanOK

-----------------------------------------------------------------------------
(* A set of numbers that is not empty has a least one.                      *)
LEMMA LeastOf ==
  ASSUME NEW S \in SUBSET Nat, S # {}
  PROVE  \E m \in S : \A n \in S : m <= n
<1>1. PICK m \in S : \A n \in S : ~ (<<n, m>> \in OpToRel(<, Nat))
  BY NatLessThanWellFounded, WFMin
<1>2. ASSUME NEW n \in S PROVE m <= n
  <2>1. m \in Nat /\ n \in Nat
    OBVIOUS
  <2>2. n < m => <<n, m>> \in OpToRel(<, Nat)
    BY <2>1 DEF OpToRel
  <2>3. ~ (n < m)
    BY <2>2, <1>1
  <2> QED BY <2>1, <2>3
<1> QED BY <1>2

(* Induction from 0 up to n, and over the players.                          *)
LEMMA UpTo ==
  ASSUME NEW n \in Nat, NEW S, 0 \in S, \A i \in 0 .. n : i # n /\ i \in S => i + 1 \in S
  PROVE  0 .. n \subseteq S
<1> SUFFICES ASSUME (0 .. n) \ S # {} PROVE FALSE
  OBVIOUS
<1> DEFINE D == (0 .. n) \ S
<1>3. D \in SUBSET Nat /\ D # {}
  OBVIOUS
<1> HIDE DEF D
<1>4. PICK m \in D : \A i \in D : m <= i
  BY <1>3, LeastOf
<1> USE DEF D
<1>1. m \in (0 .. n) \ S /\ \A i \in (0 .. n) \ S : m <= i
  BY <1>4
<1>2. m # 0 /\ m - 1 \in 0 .. n /\ m - 1 # n /\ m - 1 + 1 = m /\ ~ (m <= m - 1)
  BY <1>1
<1>5. m - 1 \in S
  BY <1>1, <1>2
<1> QED BY <1>1, <1>2, <1>5

LEMMA ByPlayers ==
  ASSUME NEW S, \A q \in Players : (\A s \in Players : s < q => s \in S) => q \in S
  PROVE  Players \subseteq S
<1> SUFFICES ASSUME Players \ S # {} PROVE FALSE
  OBVIOUS
<1>1. Players \ S \subseteq Nat
  BY SizeAssumption DEF Players
<1>2. PICK m \in Players \ S : \A i \in Players \ S : m <= i
  BY <1>1, LeastOf
<1>3. \A s \in Players : s < m => s \in S
  <2> SUFFICES ASSUME NEW s \in Players \ S, s < m PROVE FALSE
    OBVIOUS
  <2>1. m <= s /\ m \in Nat /\ s \in Nat
    BY <1>1, <1>2
  <2> QED BY <2>1
<1> QED BY <1>2, <1>3

-----------------------------------------------------------------------------
(* The widths of the rounds.                                                *)
Narrow(w) == IF w = 0 THEN 0 ELSE (w - 2 + OpeningSum) \div OpeningSum

LEMMA Division ==
  ASSUME NEW a \in Nat, NEW b \in Nat \ {0}
  PROVE  /\ a \div b \in Nat /\ a % b \in 0 .. b - 1
         /\ a = (b * (a \div b)) + (a % b)
OBVIOUS

LEMMA Quotient ==
  ASSUME NEW a \in Nat, NEW b \in Nat \ {0}, NEW q \in Int, NEW r \in 0 .. b - 1,
         a = (b * q) + r
  PROVE  q = a \div b /\ r = a % b
OBVIOUS

LEMMA QuotientBounds ==
  ASSUME NEW a \in Nat, NEW b \in Nat \ {0}, NEW q \in Int
  PROVE  /\ a < b * q => a \div b < q
         /\ b * q <= a => q <= a \div b
OBVIOUS

LEMMA NarrowIs ==
  ASSUME NEW w \in Nat
  PROVE  /\ Narrow(w) \in Nat /\ Narrow(w) <= w
         /\ w # 0 => Narrow(w) < w
         /\ w > 1 => Narrow(w) # 0
<1>1. OpeningSum \in Nat \ {0}
  BY SizeAssumption
<1>2. CASE w = 0
  BY <1>2 DEF Narrow
<1>3. CASE w # 0
  <2> DEFINE O == OpeningSum
             a == w - 2 + O
  <2>1. Narrow(w) = a \div O /\ a \in Nat /\ O \in Nat \ {0}
    BY <1>1, <1>3 DEF Narrow
  <2>2. a < O * w
    <3>1. (O - 1) * (w - 1) >= 0
      BY <2>1, <1>3
    <3>2. (O - 1) * (w - 1) = (O * w) - O - w + 1
      BY <2>1
    <3>3. O * w \in Int
      BY <2>1
    <3> QED BY <2>1, <3>1, <3>2, <3>3
  <2>3. w > 1 => O * 1 <= a
    BY <2>1
  <2> HIDE DEF a, O
  <2>4. a \div O \in Nat /\ a \div O < w
    <3>1. a \div O \in Nat
      BY <2>1, Division
    <3>2. w \in Int
      OBVIOUS
    <3> QED BY <2>1, <2>2, <3>1, <3>2, QuotientBounds
  <2>5. w > 1 => 1 <= a \div O
    BY <2>1, <2>3, QuotientBounds
  <2> QED BY <2>1, <2>4, <2>5
<1> QED BY <1>2, <1>3

(* The widths as far as round n.                                            *)
Widths(n, g) == /\ g \in [0 .. n -> Nat] /\ g[0] = N
                /\ \A i \in 1 .. n : g[i] = Narrow(g[i - 1])

LEMMA WidthIs == Widths(N, Width)
<1> DEFINE S == {n \in Nat : \E g : Widths(n, g)}
<1>1. 0 \in S
  <2>1. Widths(0, [i \in 0 .. 0 |-> N])
    BY SizeAssumption DEF Widths
  <2> QED BY <2>1
<1>2. ASSUME NEW n \in Nat, n \in S PROVE n + 1 \in S
  <2>1. PICK g : Widths(n, g)
    BY <1>2
  <2>2. PICK h : h = [i \in 0 .. n + 1 |-> IF i <= n THEN g[i] ELSE Narrow(g[n])]
    OBVIOUS
  <2>3. n \in 0 .. n /\ g[n] \in Nat /\ Narrow(g[n]) \in Nat
    BY <2>1, NarrowIs DEF Widths
  <2>4. h[n + 1] = Narrow(g[n]) /\ h[n] = g[n] /\ \A i \in 0 .. n : h[i] = g[i]
    BY <2>2
  <2>5. h \in [0 .. n + 1 -> Nat]
    BY <2>1, <2>2, <2>3 DEF Widths
  <2>6. ASSUME NEW i \in 1 .. n + 1 PROVE h[i] = Narrow(h[i - 1])
    <3>1. CASE i = n + 1
      BY <2>4, <3>1
    <3>2. CASE i \in 1 .. n
      <4>1. i \in 0 .. n /\ i - 1 \in 0 .. n
        BY <3>2
      <4> QED BY <2>1, <2>4, <3>2, <4>1 DEF Widths
    <3>3. i = n + 1 \/ i \in 1 .. n
      OBVIOUS
    <3> QED BY <3>1, <3>2, <3>3
  <2>7. h[0] = N
    BY <2>1, <2>4 DEF Widths
  <2>8. Widths(n + 1, h)
    BY <2>5, <2>6, <2>7 DEF Widths
  <2> QED BY <2>8
<1>3. N \in S
  <2>1. N \in Nat
    BY SizeAssumption
  <2> HIDE DEF S
  <2>2. \A i \in 0 .. N : i # N /\ i \in S => i + 1 \in S
    BY <1>2
  <2>3. 0 .. N \subseteq S
    BY <1>1, <2>1, <2>2, UpTo
  <2> QED BY <2>1, <2>3
<1>4. PICK g : Widths(N, g)
  BY <1>3
<1> DEFINE Unfolds(f) == f = [i \in 0 .. N |-> IF i = 0 THEN N ELSE IF f[i - 1] = 0 THEN 0
                                    ELSE (f[i - 1] - 2 + OpeningSum) \div OpeningSum]
<1>8. N \in Nat
  BY SizeAssumption
<1>5. ASSUME NEW f, Unfolds(f) PROVE Widths(N, f)
  <2>1. f[0] = N /\ DOMAIN f = 0 .. N /\ f = [i \in 0 .. N |-> f[i]]
    BY <1>5, <1>8
  <2>2. ASSUME NEW i \in 1 .. N PROVE f[i] = Narrow(f[i - 1])
    <3>1. f[i] = IF i = 0 THEN N ELSE IF f[i - 1] = 0 THEN 0
                 ELSE (f[i - 1] - 2 + OpeningSum) \div OpeningSum
      BY <1>5, <1>8
    <3>2. i # 0
      OBVIOUS
    <3> QED BY <3>1, <3>2 DEF Narrow
  <2> DEFINE T == {i \in 0 .. N : f[i] \in Nat}
  <2>3. 0 \in T
    BY <1>8, <2>1
  <2>4. ASSUME NEW i \in 0 .. N, i # N, i \in T PROVE i + 1 \in T
    <3>1. i + 1 \in 1 .. N /\ i + 1 - 1 = i
      BY <1>8, <2>4
    <3>2. f[i + 1] = Narrow(f[i])
      BY <2>2, <3>1
    <3> QED BY <2>4, <3>1, <3>2, NarrowIs
  <2> HIDE DEF T
  <2>5. 0 .. N \subseteq T
    BY <1>8, <2>3, <2>4, UpTo
  <2> QED BY <2>1, <2>2, <2>5 DEF Widths, T
<1>6. Unfolds(g)
  <2>1. ASSUME NEW i \in 0 .. N
        PROVE  g[i] = IF i = 0 THEN N ELSE IF g[i - 1] = 0 THEN 0
                      ELSE (g[i - 1] - 2 + OpeningSum) \div OpeningSum
    <3>1. CASE i = 0
      BY <1>4, <3>1 DEF Widths
    <3>2. CASE i # 0
      <4>1. i \in 1 .. N
        BY <1>8, <3>2
      <4> QED BY <1>4, <3>2, <4>1 DEF Widths, Narrow
    <3> QED BY <3>1, <3>2
  <2> QED BY <1>4, <2>1 DEF Widths
<1>7. Width = CHOOSE f : Unfolds(f)
  BY DEF Width
<1> HIDE DEF Unfolds
<1> QED BY <1>5, <1>6, <1>7

(* The widths shrink to 0 in at most N rounds.                              *)
LEMMA Shrinks ==
  /\ N \in Nat /\ Width[0] = N /\ Width[N] = 0
  /\ \A i \in 0 .. N : Width[i] \in Nat
  /\ \A i \in 0 .. N - 1 : /\ i + 1 \in 0 .. N /\ i \in 0 .. N
                           /\ Width[i + 1] <= Width[i]
                           /\ Width[i] # 0 => Width[i + 1] < Width[i]
                           /\ Width[i] > 1 => Width[i + 1] # 0
<1>1. N \in Nat
  BY SizeAssumption
<1>2. Width[0] = N /\ \A i \in 0 .. N : Width[i] \in Nat
  BY WidthIs DEF Widths
<1>3. ASSUME NEW i \in 0 .. N - 1
      PROVE  /\ i + 1 \in 0 .. N /\ i \in 0 .. N
             /\ Width[i + 1] <= Width[i]
             /\ Width[i] # 0 => Width[i + 1] < Width[i]
             /\ Width[i] > 1 => Width[i + 1] # 0
  <2>1. i + 1 \in 1 .. N /\ i + 1 - 1 = i /\ i \in 0 .. N
    BY <1>1
  <2>2. Width[i + 1] = Narrow(Width[i])
    BY <2>1, WidthIs DEF Widths
  <2> QED BY <1>2, <2>1, <2>2, NarrowIs
<1> DEFINE S == {i \in 0 .. N : Width[i] <= N - i}
<1>4. 0 \in S
  BY <1>1, <1>2
<1>5. ASSUME NEW i \in 0 .. N, i # N, i \in S PROVE i + 1 \in S
  <2>1. i \in 0 .. N - 1
    BY <1>1, <1>5
  <2>2. Width[i] \in Nat /\ Width[i + 1] \in Nat
    BY <1>2, <1>3, <2>1
  <2> QED BY <1>1, <1>3, <1>5, <2>1, <2>2
<1>6. N \in S
  <2> HIDE DEF S
  <2>1. 0 .. N \subseteq S
    BY <1>1, <1>4, <1>5, UpTo
  <2> QED BY <1>1, <2>1
<1>7. Width[N] = 0
  BY <1>1, <1>2, <1>6
<1> QED BY <1>1, <1>2, <1>3, <1>7

LEMMA Antitone ==
  ASSUME NEW i \in 0 .. N, NEW j \in 0 .. N, i <= j
  PROVE  Width[j] <= Width[i]
<1> DEFINE S == {k \in 0 .. N : i <= k => Width[k] <= Width[i]}
<1>1. N \in Nat /\ Width[i] \in Nat
  BY Shrinks
<1>2. 0 \in S
  BY <1>1
<1>3. ASSUME NEW k \in 0 .. N, k # N, k \in S PROVE k + 1 \in S
  <2>1. k \in 0 .. N - 1
    BY <1>1, <1>3
  <2>2. Width[k + 1] <= Width[k] /\ Width[k] \in Nat /\ Width[k + 1] \in Nat /\ k + 1 \in 0 .. N
    BY <2>1, Shrinks
  <2> QED BY <1>1, <1>3, <2>2
<1> HIDE DEF S
<1>4. 0 .. N \subseteq S
  BY <1>1, <1>2, <1>3, UpTo
<1>5. j \in S
  BY <1>4
<1> QED BY <1>5 DEF S

-----------------------------------------------------------------------------
(* Every player but the base player sends its sum in one round.             *)
LEMMA PlayersAre ==
  /\ 0 \in Players /\ Players \subseteq Nat
  /\ \A s \in Others : s \in Players /\ s \in 1 .. N - 1 /\ s \in Nat
BY SizeAssumption DEF Players, Others

LEMMA OneRound ==
  ASSUME NEW s \in Nat, NEW i \in 0 .. N - 1, NEW j \in 0 .. N - 1,
         Width[i + 1] <= s, s < Width[i], Width[j + 1] <= s, s < Width[j]
  PROVE  i = j
<1>1. /\ i + 1 \in 0 .. N /\ j + 1 \in 0 .. N /\ i \in 0 .. N /\ j \in 0 .. N
      /\ Width[i + 1] \in Nat /\ Width[j + 1] \in Nat /\ Width[i] \in Nat /\ Width[j] \in Nat
  BY Shrinks
<1>2. ~ (i + 1 <= j)
  BY <1>1, Antitone
<1>3. ~ (j + 1 <= i)
  BY <1>1, Antitone
<1> QED BY <1>1, <1>2, <1>3

LEMMA RoundIs ==
  ASSUME NEW s \in Others
  PROVE  /\ RoundOf(s) \in 0 .. N - 1 /\ Width[RoundOf(s) + 1] <= s /\ s < Width[RoundOf(s)]
         /\ \A i \in 0 .. N - 1 : Width[i + 1] <= s /\ s < Width[i] => i = RoundOf(s)
<1> DEFINE Late == {i \in 0 .. N : Width[i] <= s}
<1>1. s \in 1 .. N - 1 /\ s \in Nat
  BY PlayersAre
<1>2. N \in Late /\ Late \in SUBSET Nat /\ ~ (0 \in Late)
  BY <1>1, Shrinks
<1>3. PICK m \in Late : \A i \in Late : m <= i
  <2> HIDE DEF Late
  <2> QED BY <1>2, LeastOf
<1>4. m - 1 \in 0 .. N - 1 /\ Width[m - 1 + 1] <= s /\ s < Width[m - 1]
  <2>1. m \in 0 .. N /\ m # 0 /\ N \in Nat
    BY <1>2, <1>3, Shrinks
  <2>2. m - 1 \in 0 .. N /\ m - 1 + 1 = m /\ ~ (m <= m - 1)
    BY <2>1
  <2>3. ~ (m - 1 \in Late)
    BY <1>3, <2>2
  <2>4. Width[m - 1] \in Nat
    BY <2>2, Shrinks
  <2> QED BY <1>1, <1>3, <2>1, <2>2, <2>3, <2>4
<1> HIDE DEF Late
<1>5. \E i \in 0 .. N - 1 : Width[i + 1] <= s /\ s < Width[i]
  BY <1>4
<1>6. RoundOf(s) \in 0 .. N - 1 /\ Width[RoundOf(s) + 1] <= s /\ s < Width[RoundOf(s)]
  BY <1>5 DEF RoundOf
<1> QED BY <1>1, <1>6, OneRound

(* Its sum goes to a player of a lower number, which goes on.               *)
LEMMA ReceiverIs ==
  ASSUME NEW s \in Others
  PROVE  /\ Width[RoundOf(s) + 1] \in Nat \ {0}
         /\ Receiver(s) \in 0 .. Width[RoundOf(s) + 1] - 1
         /\ Receiver(s) \in Players /\ Receiver(s) < s
<1> DEFINE w == Width[RoundOf(s) + 1]
<1>1. s \in 1 .. N - 1 /\ s \in Nat /\ N \in Nat
  BY PlayersAre, Shrinks
<1>2. RoundOf(s) \in 0 .. N - 1 /\ w <= s /\ s < Width[RoundOf(s)]
  BY RoundIs
<1>3. Width[RoundOf(s)] \in Nat /\ w \in Nat /\ (Width[RoundOf(s)] > 1 => w # 0)
  BY <1>2, Shrinks
<1>4. w \in Nat \ {0}
  BY <1>1, <1>2, <1>3
<1>5. Receiver(s) = s % w
  BY DEF Receiver
<1> HIDE DEF w
<1>6. s % w \in 0 .. w - 1
  BY <1>1, <1>4, Division
<1>7. Receiver(s) \in Players /\ Receiver(s) < s
  BY <1>1, <1>2, <1>4, <1>5, <1>6 DEF Players
<1> QED BY <1>4, <1>5, <1>6, <1>7 DEF w

Rest(a, b) == a % b  \* a name, to keep the arithmetic out of a step

LEMMA Remainder ==
  ASSUME NEW a \in Nat, NEW b \in Nat \ {0}, NEW r \in 0 .. b - 1, r <= a
  PROVE  Rest(a - r, b) = 0 <=> Rest(a, b) = r
<1>1. a - r \in Nat
  OBVIOUS
<1>2. ASSUME (a - r) % b = 0 PROVE a % b = r
  <2>1. a - r = (b * ((a - r) \div b)) + 0 /\ (a - r) \div b \in Int
    BY <1>1, <1>2, Division
  <2>2. a = (b * ((a - r) \div b)) + r
    BY <2>1
  <2> QED BY <2>1, <2>2, Quotient
<1>3. ASSUME a % b = r PROVE (a - r) % b = 0
  <2>1. a - r = (b * (a \div b)) + 0 /\ a \div b \in Int
    BY <1>3, Division
  <2> QED BY <1>1, <2>1, Quotient
<1> QED BY <1>2, <1>3 DEF Rest

(* A player asks in a round just those that send their sums to it then.     *)
LEMMA SendersAre ==
  ASSUME NEW r \in Players, NEW i \in 0 .. N - 1
  PROVE  SendersTo(r, i) = {s \in Others : RoundOf(s) = i /\ Receiver(s) = r}
<1>1. /\ i \in 0 .. N /\ i + 1 \in 0 .. N /\ Width[i] \in Nat /\ Width[i + 1] \in Nat /\ N \in Nat
      /\ Width[i] <= N /\ r \in Nat
  <2>1. i \in 0 .. N /\ i + 1 \in 0 .. N /\ 0 \in 0 .. N /\ 0 <= i
    BY Shrinks
  <2>2. Width[i] <= Width[0]
    BY <2>1, Antitone
  <2> QED BY <2>1, <2>2, Shrinks, PlayersAre
<1> DEFINE w == Width[i + 1]
<1>2. ASSUME NEW s \in Others, RoundOf(s) = i, Receiver(s) = r PROVE s \in SendersTo(r, i)
  <2>1. /\ s \in Nat /\ w \in Nat \ {0} /\ r \in 0 .. w - 1 /\ w <= s /\ s < Width[i]
        /\ s % w = r
    BY <1>2, PlayersAre, RoundIs, ReceiverIs DEF Receiver
  <2> HIDE DEF w
  <2>2. (s - r) % w = 0
    <3>1. s \in Nat /\ w \in Nat \ {0} /\ r \in 0 .. w - 1 /\ r <= s
      BY <1>1, <2>1
    <3>2. Rest(s - r, w) = 0 <=> Rest(s, w) = r
      BY <3>1, Remainder
    <3> QED BY <2>1, <3>2 DEF Rest
  <2>3. s = (w * (s \div w)) + r /\ s \div w \in Nat /\ s \div w # 0
    <3>1. w * 1 <= s
      BY <2>1
    <3>2. 1 <= s \div w
      BY <2>1, <3>1, QuotientBounds
    <3> QED BY <2>1, <3>2, Division
  <2>4. w + r <= s
    <3>1. w * (s \div w) = w + (w * (s \div w - 1)) /\ w * (s \div w - 1) >= 0
      BY <2>1, <2>3
    <3>2. w * (s \div w) \in Int /\ w * (s \div w - 1) \in Int
      BY <2>1, <2>3
    <3> QED BY <2>1, <2>3, <3>1, <3>2
  <2>5. ~ (r >= w) /\ s \in w + r .. Width[i] - 1
    BY <1>1, <2>1, <2>4
  <2> QED BY <2>2, <2>5 DEF SendersTo, w
<1>3. ASSUME NEW s \in SendersTo(r, i)
      PROVE  s \in Others /\ RoundOf(s) = i /\ Receiver(s) = r
  <2>1. r < w /\ s \in w + r .. Width[i] - 1 /\ (s - r) % w = 0
    BY <1>1, <1>3 DEF SendersTo
  <2>2. /\ s \in Nat /\ s # 0 /\ w <= s /\ s < Width[i] /\ r \in 0 .. w - 1 /\ r <= s
        /\ w \in Nat \ {0}
    BY <1>1, <2>1
  <2>3. s \in Others
    BY <1>1, <2>2 DEF Others, Players
  <2>4. i = RoundOf(s)
    BY <2>2, <2>3, RoundIs
  <2>5. s % w = r
    <3> HIDE DEF w
    <3>1. s \in Nat /\ w \in Nat \ {0} /\ r \in 0 .. w - 1 /\ r <= s
      BY <2>2
    <3>2. Rest(s - r, w) = 0 <=> Rest(s, w) = r
      BY <3>1, Remainder
    <3> QED BY <2>1, <3>2 DEF Rest
  <2> QED BY <2>3, <2>4, <2>5 DEF Receiver
<1> QED BY <1>2, <1>3

(* The result comes from a player of a lower number.                        *)
LEMMA SourceIs ==
  /\ \A s \in Others : Source(s) \in Players /\ Source(s) < s
  /\ \A r : Targets(r) = {s \in Others : Source(s) = r}
<1>1. N \in Nat /\ MaxBroadcast \in Nat \ {0, 1}
  BY SizeAssumption
<1>2. Others = 1 .. N - 1
  BY <1>1 DEF Others, Players
<1>3. ASSUME NEW s \in Others
      PROVE  Source(s) \in Players /\ Source(s) < s
  <2>1. s \in Nat /\ s # 0 /\ s \in 1 .. N - 1
    BY <1>1, <1>2
  <2>2. s \div MaxBroadcast \in Nat
    BY <1>1, <2>1, Division
  <2>3. s < MaxBroadcast * s
    BY <1>1, <2>1
  <2>4. s \div MaxBroadcast < s
    BY <1>1, <2>1, <2>3, QuotientBounds
  <2> QED BY <1>1, <2>1, <2>2, <2>4 DEF Source, Players
<1> QED BY <1>2, <1>3 DEF Targets, Source

-----------------------------------------------------------------------------
(* Where the share of a player comes by on its way to the base player.      *)
LEMMA AncestorsAre ==
  ASSUME NEW t \in Players
  PROVE  /\ t \in Ancestors(t) /\ Ancestors(t) \subseteq Players /\ Closed(Ancestors(t))
         /\ \A s \in Ancestors(t) : s <= t
<1>1. t \in Ancestors(t) /\ Ancestors(t) \subseteq Players
  BY DEF Ancestors
<1>2. Closed(Ancestors(t))
  <2> SUFFICES ASSUME NEW s \in Ancestors(t) \ {0}
               PROVE  Receiver(s) \in Ancestors(t)
    BY DEF Closed
  <2>1. Receiver(s) \in Players
    BY <1>1, ReceiverIs DEF Others
  <2>2. ASSUME NEW S \in SUBSET Players, t \in S, Closed(S) PROVE Receiver(s) \in S
    <3>1. s \in S
      BY <2>2 DEF Ancestors
    <3> QED BY <2>2, <3>1 DEF Closed
  <2> QED BY <2>1, <2>2 DEF Ancestors
<1>3. ASSUME NEW s \in Ancestors(t) PROVE s <= t
  <2> DEFINE S == {q \in Players : q <= t}
  <2>1. t \in S /\ S \in SUBSET Players
    BY PlayersAre
  <2>2. Closed(S)
    <3> SUFFICES ASSUME NEW q \in S \ {0} PROVE Receiver(q) \in S
      BY DEF Closed
    <3>1. q \in Others /\ q <= t /\ q \in Nat /\ t \in Nat
      BY PlayersAre DEF Others
    <3>2. Receiver(q) \in Players /\ Receiver(q) < q /\ Receiver(q) \in Nat
      BY <3>1, ReceiverIs, PlayersAre
    <3> QED BY <3>1, <3>2
  <2> HIDE DEF S
  <2>3. s \in S
    BY <2>1, <2>2 DEF Ancestors
  <2> QED BY <2>3 DEF S
<1> QED BY <1>1, <1>2, <1>3

LEMMA NextAncestor ==
  ASSUME NEW t \in Others
  PROVE  /\ Ancestors(t) = {t} \cup Ancestors(Receiver(t))
         /\ ~ (t \in Ancestors(Receiver(t)))
<1>1. t \in Players /\ t # 0 /\ t \in Nat /\ Receiver(t) \in Players /\ Receiver(t) < t
  BY ReceiverIs, PlayersAre DEF Others
<1>2. Receiver(t) \in Nat /\ Ancestors(Receiver(t)) \subseteq Nat
  BY <1>1, AncestorsAre, PlayersAre
<1>3. ~ (t \in Ancestors(Receiver(t)))
  <2>1. t \in Ancestors(Receiver(t)) => t <= Receiver(t)
    BY <1>1, AncestorsAre
  <2> QED BY <1>1, <1>2, <2>1
<1>4. ASSUME NEW s \in Ancestors(t) PROVE s \in {t} \cup Ancestors(Receiver(t))
  <2> DEFINE S == {t} \cup Ancestors(Receiver(t))
  <2>1. t \in S /\ S \in SUBSET Players
    BY <1>1, AncestorsAre
  <2>2. Closed(S)
    BY <1>1, AncestorsAre DEF Closed
  <2> HIDE DEF S
  <2>3. s \in S
    BY <2>1, <2>2 DEF Ancestors
  <2> QED BY <2>3 DEF S
<1>5. ASSUME NEW s \in Ancestors(Receiver(t)) PROVE s \in Ancestors(t)
  <2>1. s \in Players
    BY <1>1, AncestorsAre
  <2>2. ASSUME NEW S \in SUBSET Players, t \in S, Closed(S) PROVE s \in S
    <3>1. Receiver(t) \in S
      BY <1>1, <2>2 DEF Closed
    <3> QED BY <2>2, <3>1 DEF Ancestors
  <2> QED BY <2>1, <2>2 DEF Ancestors
<1> QED BY <1>1, <1>3, <1>4, <1>5, AncestorsAre

(* The base player gets every share; a player's share is its own and those  *)
(* of the players that send to it, and none of them comes to it twice.      *)
LEMMA UnderBase == Under(0) = Players
<1> DEFINE S == {t \in Players : 0 \in Ancestors(t)}
<1>1. ASSUME NEW t \in Players, \A s \in Players : s < t => s \in S
      PROVE  t \in S
  <2>1. CASE t = 0
    BY <2>1, AncestorsAre
  <2>2. CASE t # 0
    <3>1. t \in Others
      BY <2>2 DEF Others
    <3>2. Receiver(t) \in S
      BY <1>1, <3>1, ReceiverIs
    <3> QED BY <3>1, <3>2, NextAncestor
  <2> QED BY <2>1, <2>2
<1> HIDE DEF S
<1>2. Players \subseteq S
  BY <1>1, ByPlayers
<1> QED BY <1>2 DEF S, Under

LEMMA UnderSelf ==
  ASSUME NEW s \in Players
  PROVE  /\ s \in Under(s) /\ Under(s) \subseteq Players
         /\ \A t \in Under(s) : s <= t
BY AncestorsAre DEF Under

LEMMA UnderParts ==
  ASSUME NEW p \in Players
  PROVE  Under(p) = {p} \cup UNION {Under(s) : s \in {t \in Others : Receiver(t) = p}}
<1> DEFINE U == {p} \cup UNION {Under(s) : s \in {t \in Others : Receiver(t) = p}}
           S == {t \in Players : p \in Ancestors(t) => t \in U}
<1>1. ASSUME NEW x \in U PROVE x \in Under(p)
  <2>1. CASE x = p
    BY <2>1, UnderSelf
  <2>2. ASSUME NEW s \in Others, Receiver(s) = p, x \in Under(s) PROVE x \in Under(p)
    <3>1. s \in Ancestors(x) /\ x \in Players /\ s # 0
      BY <2>2 DEF Under, Others
    <3>2. Closed(Ancestors(x))
      BY <3>1, AncestorsAre
    <3>3. p \in Ancestors(x)
      BY <2>2, <3>1, <3>2 DEF Closed
    <3> QED BY <3>1, <3>3 DEF Under
  <2> QED BY <2>1, <2>2
<1>2. ASSUME NEW t \in Players, \A s \in Players : s < t => s \in S
      PROVE  t \in S
  <2> SUFFICES ASSUME p \in Ancestors(t), t # p PROVE t \in U
    OBVIOUS
  <2>1. t # 0
    <3>1. t = 0 => p <= 0 /\ p \in Nat
      BY AncestorsAre, PlayersAre
    <3> QED BY <3>1
  <2>2. t \in Others
    BY <2>1 DEF Others
  <2>3. p \in Ancestors(Receiver(t)) /\ Receiver(t) \in Players /\ Receiver(t) < t
    BY <2>2, NextAncestor, ReceiverIs
  <2>4. CASE Receiver(t) = p
    BY <2>2, <2>4, UnderSelf
  <2>5. CASE Receiver(t) # p
    <3>1. Receiver(t) \in U
      BY <1>2, <2>3
    <3>2. PICK s \in Others : Receiver(s) = p /\ Receiver(t) \in Under(s)
      BY <2>5, <3>1
    <3>3. s \in Ancestors(t)
      BY <2>2, <3>2, NextAncestor DEF Under
    <3>4. t \in Under(s)
      BY <3>3 DEF Under
    <3> QED BY <3>2, <3>4
  <2> QED BY <2>4, <2>5
<1>3. Players \subseteq S
  <2> HIDE DEF S
  <2> QED BY <1>2, ByPlayers
<1>4. ASSUME NEW x \in Under(p) PROVE x \in U
  BY <1>3 DEF Under
<1> HIDE DEF U
<1>5. Under(p) = U
  BY <1>1, <1>4
<1> QED BY <1>5 DEF U

LEMMA UnderApart ==
  ASSUME NEW a \in Others, NEW b \in Others, Receiver(a) = Receiver(b), a # b
  PROVE  Under(a) \cap Under(b) = {}
<1> DEFINE S == {t \in Players : ~ (a \in Ancestors(t) /\ b \in Ancestors(t))}
<1>1. ASSUME NEW t \in Players, \A s \in Players : s < t => s \in S
      PROVE  t \in S
  <2> SUFFICES ASSUME a \in Ancestors(t), b \in Ancestors(t) PROVE FALSE
    OBVIOUS
  <2>1. t \in Others
    <3>1. t = 0 => a <= 0 /\ b <= 0
      BY AncestorsAre
    <3>2. a \in 1 .. N - 1
      BY PlayersAre
    <3> QED BY <3>1, <3>2 DEF Others
  <2>2. Receiver(t) \in Players /\ Receiver(t) < t
    BY <2>1, ReceiverIs
  <2>3. Receiver(t) \in S
    BY <1>1, <2>2
  <2>4. (a = t \/ a \in Ancestors(Receiver(t))) /\ (b = t \/ b \in Ancestors(Receiver(t)))
    BY <2>1, NextAncestor
  <2>5. ASSUME NEW c \in Others, Receiver(c) = Receiver(t), c \in Ancestors(Receiver(t))
        PROVE  FALSE
    <3>1. c <= Receiver(t) /\ Receiver(c) < c /\ c \in Nat /\ Receiver(t) \in Nat
      BY <2>2, <2>5, AncestorsAre, ReceiverIs, PlayersAre
    <3> QED BY <2>5, <3>1
  <2> QED BY <2>3, <2>4, <2>5
<1> HIDE DEF S
<1>2. Players \subseteq S
  BY <1>1, ByPlayers
<1> QED BY <1>2 DEF S, Under

LEMMA UnderAbove ==
  ASSUME NEW s \in Others
  PROVE  ~ (Receiver(s) \in Under(s)) /\ ~ (0 \in Under(s))
<1>1. /\ s \in Players /\ s \in 1 .. N - 1 /\ Receiver(s) < s /\ Receiver(s) \in Nat
      /\ \A t \in Under(s) : s <= t
  BY PlayersAre, ReceiverIs, UnderSelf
<1> QED BY <1>1

-----------------------------------------------------------------------------
(* Adding two sums of different shares.                                     *)
LEMMA AddedUp ==
  ASSUME NEW C, NEW D, NEW E, C \cap D = {}, E = C \cup D
  PROVE  SetToBag(C) (+) SetToBag(D) = SetToBag(E)
<1>1. SetToBag(C) (+) SetToBag(D) =
        [e \in C \cup D |-> (IF e \in C THEN 1 ELSE 0) + (IF e \in D THEN 1 ELSE 0)]
  BY DEF SetToBag, (+)
<1>2. ASSUME NEW e \in C \cup D
      PROVE  (IF e \in C THEN 1 ELSE 0) + (IF e \in D THEN 1 ELSE 0) = 1
  OBVIOUS
<1> QED BY <1>1, <1>2 DEF SetToBag

-----------------------------------------------------------------------------
(* What the counts are among: no player is more than one step ahead.        *)
LEMMA Ranges ==
  ASSUME TypeOK, NEW p \in Players, PhaseAt(p)
  PROVE  /\ Sums(p) \in Nat /\ Knows(p) \in Nat /\ Done(p) \in Nat /\ entered[p] \in Nat
         /\ Done(p) <= Knows(p) /\ Knows(p) <= Sums(p) /\ Sums(p) <= entered[p]
         /\ entered[p] <= Done(p) + 1
         /\ \A s \in Others : Receiver(s) = p =>
              HeardSums(s) \in Nat /\ HeardSums(s) <= entered[p] /\ Sums(p) <= HeardSums(s)
         /\ \A s \in Others : Source(s) = p =>
              Passed(s) \in Nat /\ Passed(s) <= Knows(p) /\ Done(p) <= Passed(s)
<1>1. /\ phase[p] \in {"idle", "summing", "awaiting", "passing"} /\ entered[p] \in Nat
      /\ phase[p] # "idle" => entered[p] # 0
      /\ phase[p] # "passing" => sent[p] = {}
  BY SizeAssumption DEF TypeOK, PhaseAt
<1>2. /\ Sums(p) \in Nat /\ Knows(p) \in Nat /\ Done(p) \in Nat
      /\ Done(p) <= Knows(p) /\ Knows(p) <= Sums(p) /\ Sums(p) <= entered[p]
      /\ entered[p] <= Done(p) + 1
  BY <1>1 DEF Sums, Knows, Done
<1>3. ASSUME NEW s \in Others, Receiver(s) = p
      PROVE  HeardSums(s) \in Nat /\ HeardSums(s) <= entered[p] /\ Sums(p) <= HeardSums(s)
  <2>1. Heard(s) \/ phase[p] = "summing"
    BY <1>3 DEF Heard
  <2> QED BY <1>1, <1>3, <2>1 DEF HeardSums, Sums
<1>4. ASSUME NEW s \in Others, Source(s) = p
      PROVE  Passed(s) \in Nat /\ Passed(s) <= Knows(p) /\ Done(p) <= Passed(s)
  <2>1. s \in sent[p] => phase[p] = "passing"
    BY <1>1
  <2>2. Passed(s) = IF s \in sent[p] THEN Done(p) + 1 ELSE Done(p)
    BY <1>4 DEF Passed
  <2>3. phase[p] = "passing" => Done(p) + 1 = Knows(p)
    BY <1>1 DEF Done, Knows
  <2> QED BY <1>2, <2>1, <2>2, <2>3
<1> QED BY <1>1, <1>2, <1>3, <1>4

(* How far the ends of the connections of s can be apart.                   *)
LEMMA Chain ==
  ASSUME IInv, NEW s \in Others
  PROVE  /\ Sums(s) \in Nat /\ Knows(s) \in Nat /\ HeardSums(s) \in Nat /\ Passed(s) \in Nat
         /\ Knows(s) <= HeardSums(s) /\ HeardSums(s) <= Sums(s) /\ Sums(s) <= Knows(s) + 1
         /\ Knows(s) <= Passed(s) /\ Passed(s) <= Knows(Source(s)) /\ Passed(s) <= HeardSums(s)
         /\ Knows(Source(s)) <= HeardSums(s) /\ Knows(Source(s)) \in Nat
         /\ Knows(Source(s)) <= Knows(0) /\ Knows(0) \in Nat
<1>1. /\ s \in Players /\ Receiver(s) \in Players /\ Source(s) \in Players /\ 0 \in Players
      /\ TypeOK /\ \A p \in Players : PhaseAt(p)
  BY PlayersAre, ReceiverIs, SourceIs DEF IInv, PlayersOK
<1>2. /\ Sums(s) \in Nat /\ Knows(s) \in Nat /\ HeardSums(s) \in Nat /\ Passed(s) \in Nat
      /\ Knows(Source(s)) \in Nat /\ Knows(0) \in Nat /\ Passed(s) <= Knows(Source(s))
      /\ Sums(s) <= entered[s] /\ entered[s] <= Done(s) + 1 /\ Done(s) <= Knows(s)
      /\ entered[s] \in Nat /\ Done(s) \in Nat
  BY <1>1, Ranges
<1>3. /\ Knows(s) <= HeardSums(s) /\ Knows(Source(s)) <= HeardSums(s)
      /\ Knows(Source(s)) <= Knows(0)
  BY <1>1 DEF IInv, KnownOK
<1>4. HeardSums(s) <= Sums(s) /\ Knows(s) <= Passed(s)
  BY DEF IInv, ChanOK, UpOK, DownOK
<1> QED BY <1>2, <1>3, <1>4

-----------------------------------------------------------------------------
(* A step changes nothing of another player, nor what follows from it.      *)
Same(q) ==
  /\ phase'[q] = phase[q] /\ round'[q] = round[q] /\ asked'[q] = asked[q] /\ sent'[q] = sent[q]
  /\ entered'[q] = entered[q] /\ values'[q] = values[q] /\ opened'[q] = opened[q]

LEMMA OnlyOne ==
  ASSUME TypeOK, NEW p \in Players, Step(p), NEW q \in Players, q # p
  PROVE  Same(q)
<1>1. CASE Begin(p)
  BY <1>1 DEF Begin, TypeOK, Same
<1>2. CASE HearSum(p)
  BY <1>2 DEF HearSum, TypeOK, Same
<1>3. CASE NextRound(p)
  BY <1>3 DEF NextRound, TypeOK, Same
<1>4. CASE SendSum(p)
  BY <1>4 DEF SendSum, TypeOK, Same
<1>5. CASE HearResult(p)
  BY <1>5 DEF HearResult, TypeOK, Same
<1>6. CASE PassOn(p)
  BY <1>6 DEF PassOn, TypeOK, Same
<1>7. CASE Finish(p)
  BY <1>7 DEF Finish, TypeOK, Same
<1>8. CASE p = 0 /\ BaseHasSum
  BY <1>8 DEF BaseHasSum, TypeOK, Same
<1> QED BY <1>1, <1>2, <1>3, <1>4, <1>5, <1>6, <1>7, <1>8 DEF Step

LEMMA CountsKept ==
  ASSUME NEW q, Same(q)
  PROVE  /\ Sums(q)' = Sums(q) /\ Knows(q)' = Knows(q) /\ Done(q)' = Done(q)
         /\ \A s : Receiver(s) = q => (Heard(s)' <=> Heard(s)) /\ HeardSums(s)' = HeardSums(s)
         /\ \A s : Source(s) = q => Passed(s)' = Passed(s)
<1>1. Sums(q)' = Sums(q) /\ Knows(q)' = Knows(q) /\ Done(q)' = Done(q)
  BY DEF Same, Sums, Knows, Done
<1>2. ASSUME NEW s, Receiver(s) = q
      PROVE  (Heard(s)' <=> Heard(s)) /\ HeardSums(s)' = HeardSums(s)
  BY <1>2 DEF Same, Heard, HeardSums
<1>3. ASSUME NEW s, Source(s) = q
      PROVE  Passed(s)' = Passed(s)
  BY <1>1, <1>3 DEF Same, Passed
<1> QED BY <1>1, <1>2, <1>3

LEMMA PlayerKept ==
  ASSUME NEW q \in Players, Same(q), PhaseAt(q), ValuesAt(q)
  PROVE  PhaseAt(q)' /\ ValuesAt(q)'
<1>1. Done(q)' = Done(q) /\ \A s : Receiver(s) = q => (Heard(s)' <=> Heard(s))
  BY CountsKept
<1>2. Held(q)' = Held(q)
  BY <1>1 DEF Held
<1>3. PhaseAt(q)'
  BY DEF Same, PhaseAt
<1>4. ValuesAt(q)'
  BY <1>1, <1>2 DEF Same, ValuesAt
<1> QED BY <1>3, <1>4

-----------------------------------------------------------------------------
(* No two uses of the connections meet.                                     *)
LEMMA EdgesApart ==
  ASSUME NEW s \in Others, NEW t \in Others
  PROVE  /\ s # t => <<s, Receiver(s)>> # <<t, Receiver(t)>>
         /\ s # t => <<Source(s), s>> # <<Source(t), t>>
         /\ <<s, Receiver(s)>> # <<Source(t), t>>
         /\ <<s, Receiver(s)>> \in Players \X Players
         /\ <<Source(s), s>> \in Players \X Players
<1>1. /\ s \in Players /\ Receiver(s) \in Players /\ Source(s) \in Players
      /\ t \in Players /\ Receiver(t) \in Players /\ Source(t) \in Players
      /\ Receiver(s) < s /\ Source(t) < t
      /\ s \in Nat /\ t \in Nat /\ Receiver(s) \in Nat
  BY PlayersAre, ReceiverIs, SourceIs
<1>2. s = Source(t) => Receiver(s) # t
  BY <1>1
<1> QED BY <1>1, <1>2

LEMMA KnownKept ==
  ASSUME KnownOK, \A q \in Players : Knows(q)' = Knows(q),
         \A s \in Others : HeardSums(s)' = HeardSums(s)
  PROVE  KnownOK'
BY PlayersAre DEF KnownOK

LEMMA ChanKept ==
  ASSUME ChanOK, chan' = chan,
         \A s \in Others : /\ Sums(s)' = Sums(s) /\ HeardSums(s)' = HeardSums(s)
                           /\ Knows(s)' = Knows(s) /\ Passed(s)' = Passed(s)
  PROVE  ChanOK'
<1>1. ASSUME NEW s \in Others PROVE UpOK(s)' /\ DownOK(s)'
  <2>1. UpOK(s) /\ DownOK(s)
    BY DEF ChanOK
  <2> QED BY <2>1 DEF UpOK, DownOK, Up, Down, Whole
<1> QED BY <1>1 DEF ChanOK, Used

LEMMA OneUp ==
  ASSUME TypeOK, ChanOK, NEW t \in Others, NEW x,
         chan' = [chan EXCEPT ![<<t, Receiver(t)>>] = x],
         x = Up(t)', HeardSums(t)' <= Sums(t)',
         \A s \in Others : s # t => Sums(s)' = Sums(s) /\ HeardSums(s)' = HeardSums(s),
         \A s \in Others : Knows(s)' = Knows(s) /\ Passed(s)' = Passed(s)
  PROVE  ChanOK'
<1>1. DOMAIN chan = Players \X Players
  BY DEF TypeOK
<1>2. chan'[<<t, Receiver(t)>>] = x
  BY <1>1, EdgesApart
<1>3. ASSUME NEW s \in Others PROVE UpOK(s)'
  <2>1. CASE s = t
    BY <1>2, <2>1 DEF UpOK
  <2>2. CASE s # t
    <3>1. UpOK(s) /\ chan'[<<s, Receiver(s)>>] = chan[<<s, Receiver(s)>>]
      BY <1>1, <2>2, EdgesApart DEF ChanOK
    <3> QED BY <2>2, <3>1 DEF UpOK, Up
  <2> QED BY <2>1, <2>2
<1>4. ASSUME NEW s \in Others PROVE DownOK(s)'
  <2>1. DownOK(s) /\ chan'[<<Source(s), s>>] = chan[<<Source(s), s>>]
    BY <1>1, EdgesApart DEF ChanOK
  <2> QED BY <2>1 DEF DownOK, Down, Whole
<1>5. ASSUME NEW p \in Players, NEW q \in Players, ~ Used(p, q) PROVE chan'[<<p, q>>] = <<>>
  <2>1. <<p, q>> # <<t, Receiver(t)>>
    BY <1>5 DEF Used
  <2> QED BY <1>1, <1>5, <2>1 DEF ChanOK
<1> QED BY <1>3, <1>4, <1>5 DEF ChanOK, Used

LEMMA OneDown ==
  ASSUME TypeOK, ChanOK, NEW t \in Others, NEW x,
         chan' = [chan EXCEPT ![<<Source(t), t>>] = x],
         x = Down(t)', Knows(t)' <= Passed(t)',
         \A s \in Others : s # t => Knows(s)' = Knows(s) /\ Passed(s)' = Passed(s),
         \A s \in Others : Sums(s)' = Sums(s) /\ HeardSums(s)' = HeardSums(s)
  PROVE  ChanOK'
<1>1. DOMAIN chan = Players \X Players
  BY DEF TypeOK
<1>2. chan'[<<Source(t), t>>] = x
  BY <1>1, EdgesApart
<1>3. ASSUME NEW s \in Others PROVE DownOK(s)'
  <2>1. CASE s = t
    BY <1>2, <2>1 DEF DownOK
  <2>2. CASE s # t
    <3>1. DownOK(s) /\ chan'[<<Source(s), s>>] = chan[<<Source(s), s>>]
      BY <1>1, <2>2, EdgesApart DEF ChanOK
    <3> QED BY <2>2, <3>1 DEF DownOK, Down, Whole
  <2> QED BY <2>1, <2>2
<1>4. ASSUME NEW s \in Others PROVE UpOK(s)'
  <2>1. UpOK(s) /\ chan'[<<s, Receiver(s)>>] = chan[<<s, Receiver(s)>>]
    BY <1>1, EdgesApart DEF ChanOK
  <2> QED BY <2>1 DEF UpOK, Up
<1>5. ASSUME NEW p \in Players, NEW q \in Players, ~ Used(p, q) PROVE chan'[<<p, q>>] = <<>>
  <2>1. <<p, q>> # <<Source(t), t>>
    BY <1>5 DEF Used
  <2> QED BY <1>1, <1>5, <2>1 DEF ChanOK
<1> QED BY <1>3, <1>4, <1>5 DEF ChanOK, Used

(* Everything but what the step of p does.                                  *)
LEMMA Assembled ==
  ASSUME IInv, TypeOK', NEW p \in Players, \A q \in Players : q # p => Same(q),
         PhaseAt(p)', ValuesAt(p)', KnownOK', ChanOK'
  PROVE  IInv'
<1>1. ASSUME NEW q \in Players PROVE PhaseAt(q)' /\ ValuesAt(q)'
  <2>1. CASE q = p
    BY <2>1
  <2>2. CASE q # p
    BY <2>2, PlayerKept DEF IInv, PlayersOK
  <2> QED BY <2>1, <2>2
<1> QED BY <1>1 DEF IInv, PlayersOK

(* A step that no other player sees.                                        *)
LEMMA Silent ==
  ASSUME IInv, TypeOK', NEW p \in Players, \A q \in Players : q # p => Same(q),
         PhaseAt(p)', ValuesAt(p)', chan' = chan,
         Sums(p)' = Sums(p), Knows(p)' = Knows(p),
         \A s \in Others : Receiver(s) = p => HeardSums(s)' = HeardSums(s),
         \A s \in Others : Source(s) = p => Passed(s)' = Passed(s)
  PROVE  IInv'
<1>1. \A q \in Players : Sums(q)' = Sums(q) /\ Knows(q)' = Knows(q)
  BY CountsKept
<1>2. \A s \in Others : HeardSums(s)' = HeardSums(s) /\ Passed(s)' = Passed(s)
  <2> SUFFICES ASSUME NEW s \in Others
               PROVE  HeardSums(s)' = HeardSums(s) /\ Passed(s)' = Passed(s)
    OBVIOUS
  <2>1. Receiver(s) \in Players /\ Source(s) \in Players
    BY ReceiverIs, SourceIs
  <2>2. HeardSums(s)' = HeardSums(s)
    BY <2>1, CountsKept
  <2>3. Passed(s)' = Passed(s)
    BY <2>1, CountsKept
  <2> QED BY <2>2, <2>3
<1>3. KnownOK'
  BY <1>1, <1>2, KnownKept DEF IInv
<1>4. ChanOK'
  BY <1>1, <1>2, ChanKept, PlayersAre DEF IInv
<1> QED BY <1>3, <1>4, Assembled

LEMMA BeginInv ==
  ASSUME IInv, NEW p \in Players, Begin(p)
  PROVE  IInv'
<1>1. TypeOK /\ PhaseAt(p) /\ ValuesAt(p) /\ N \in Nat \ {0} /\ Runs \in Nat
  BY SizeAssumption DEF IInv, PlayersOK
<1>2. /\ phase[p] = "idle" /\ entered[p] < Runs /\ entered'[p] = entered[p] + 1
      /\ values'[p] = SetToBag({<<p, entered'[p]>>}) /\ round'[p] = 0 /\ phase'[p] = "summing"
      /\ asked' = asked /\ sent' = sent /\ chan' = chan /\ opened' = opened
      /\ asked[p] = {} /\ sent[p] = {} /\ entered[p] \in Nat
  BY <1>1 DEF Begin, TypeOK, PhaseAt
<1>3. TypeOK'
  <2>1. entered' \in [Players -> 0 .. Runs]
    BY <1>1, <1>2 DEF Begin, TypeOK
  <2> QED BY <1>1, <2>1 DEF Begin, TypeOK
<1>4. \A q \in Players : q # p => Same(q)
  BY <1>1, OnlyOne DEF Step
<1>5. PhaseAt(p)'
  <2>1. p < Width[0]
    BY <1>1, Shrinks DEF Players
  <2> QED BY <1>1, <1>2, <2>1 DEF PhaseAt
<1>6. /\ Sums(p)' = Sums(p) /\ Knows(p)' = Knows(p) /\ Done(p)' = Done(p)
  BY <1>2 DEF Sums, Knows, Done
<1>7. ASSUME NEW s \in Others, Receiver(s) = p
      PROVE  ~ Heard(s)' /\ HeardSums(s)' = HeardSums(s)
  <2>1. ~ Heard(s)'
    BY <1>2, <1>7, RoundIs DEF Heard
  <2>2. Heard(s)
    BY <1>2, <1>7 DEF Heard
  <2> QED BY <1>2, <1>7, <2>1, <2>2 DEF HeardSums
<1>8. \A s \in Others : Source(s) = p => Passed(s)' = Passed(s)
  BY <1>2, <1>6 DEF Passed
<1>9. ValuesAt(p)'
  <2>1. Held(p)' = {p}
    BY <1>7 DEF Held
  <2>2. {p} \X {entered'[p]} = {<<p, entered'[p]>>}
    OBVIOUS
  <2> QED BY <1>1, <1>2, <1>6, <2>1, <2>2 DEF ValuesAt
<1> QED BY <1>2, <1>3, <1>4, <1>5, <1>6, <1>7, <1>8, <1>9, Silent

(* A player hears all the senders of a round before the next.               *)
LEMMA NextRoundInv ==
  ASSUME IInv, NEW p \in Players, NextRound(p)
  PROVE  IInv'
<1>1. TypeOK /\ PhaseAt(p) /\ ValuesAt(p) /\ round[p] \in 0 .. N - 1 /\ N \in Nat /\ p \in Nat
  BY Shrinks, PlayersAre DEF IInv, PlayersOK, TypeOK
<1>2. /\ phase[p] = "summing" /\ Unheard(p) = {} /\ p < Width[round[p] + 1]
      /\ round'[p] = round[p] + 1 /\ asked'[p] = {} /\ phase' = phase /\ sent' = sent
      /\ values' = values /\ chan' = chan /\ entered' = entered /\ opened' = opened
  BY <1>1 DEF NextRound, TypeOK
<1>3. round[p] + 1 \in 0 .. N - 1
  <2>1. round[p] + 1 \in 0 .. N /\ Width[N] = 0
    BY <1>1, Shrinks
  <2> QED BY <1>1, <1>2, <2>1
<1>4. TypeOK'
  BY <1>1, <1>2, <1>3 DEF NextRound, TypeOK
<1>5. \A q \in Players : q # p => Same(q)
  BY <1>1, OnlyOne DEF Step
<1>6. PhaseAt(p)'
  BY <1>1, <1>2 DEF PhaseAt
<1>7. Sums(p)' = Sums(p) /\ Knows(p)' = Knows(p) /\ Done(p)' = Done(p)
  BY <1>2 DEF Sums, Knows, Done
<1>8. ASSUME NEW s \in Others, Receiver(s) = p
      PROVE  (Heard(s)' <=> Heard(s)) /\ HeardSums(s)' = HeardSums(s)
  <2>1. RoundOf(s) \in 0 .. N - 1
    BY RoundIs
  <2>2. RoundOf(s) = round[p] => s \in asked[p]
    BY <1>1, <1>2, <1>8, SendersAre DEF Unheard
  <2>3. Heard(s)' <=> RoundOf(s) < round[p] + 1 \/ (RoundOf(s) = round[p] + 1 /\ s \in {})
    BY <1>2, <1>8 DEF Heard
  <2>4. Heard(s) <=> RoundOf(s) < round[p] \/ (RoundOf(s) = round[p] /\ s \in asked[p])
    BY <1>2, <1>8 DEF Heard
  <2>5. Heard(s)' <=> Heard(s)
    BY <1>1, <2>1, <2>2, <2>3, <2>4
  <2> QED BY <1>2, <1>8, <2>5 DEF HeardSums
<1>9. \A s \in Others : Source(s) = p => Passed(s)' = Passed(s)
  BY <1>2, <1>7 DEF Passed
<1>10. ValuesAt(p)'
  <2>1. Held(p)' = Held(p)
    BY <1>8 DEF Held
  <2> QED BY <1>1, <1>2, <1>7, <2>1 DEF ValuesAt
<1> QED BY <1>2, <1>4, <1>5, <1>6, <1>7, <1>8, <1>9, <1>10, Silent

LEMMA OneMore ==
  ASSUME NEW n \in Nat, NEW s, NEW t, s = [k \in 1 .. n |-> Whole(k)],
         t = Append(s, Whole(n + 1))
  PROVE  t = [k \in 1 .. n + 1 |-> Whole(k)]
<1> DEFINE S == {Whole(k) : k \in 1 .. n + 1}
<1>1. s \in [1 .. n -> S] /\ Whole(n + 1) \in S
  <2>1. \A k \in 1 .. n : k \in 1 .. n + 1
    OBVIOUS
  <2> QED BY <2>1
<1> HIDE DEF S
<1>2. s \in Seq(S) /\ Len(s) = n
  BY <1>1
<1>3. /\ DOMAIN t = 1 .. n + 1 /\ t[n + 1] = Whole(n + 1)
      /\ \A k \in 1 .. n : t[k] = s[k]
      /\ t = [k \in 1 .. n + 1 |-> t[k]]
  BY <1>1, <1>2
<1>4. ASSUME NEW k \in 1 .. n + 1 PROVE t[k] = Whole(k)
  <2>1. k \in 1 .. n \/ k = n + 1
    OBVIOUS
  <2> QED BY <1>3, <2>1
<1> QED BY <1>3, <1>4

(* run() returns when the result has gone to all the targets.               *)
LEMMA FinishInv ==
  ASSUME IInv, NEW p \in Players, Finish(p)
  PROVE  IInv'
<1>1. TypeOK /\ PhaseAt(p) /\ ValuesAt(p) /\ entered[p] \in Nat /\ entered[p] # 0
  <2>1. TypeOK /\ PhaseAt(p) /\ ValuesAt(p) /\ phase[p] = "passing"
    BY DEF IInv, PlayersOK, Finish
  <2>2. entered[p] \in Nat
    BY <2>1, Ranges
  <2> QED BY <2>1, <2>2 DEF PhaseAt
<1>2. /\ phase[p] = "passing" /\ Targets(p) \subseteq sent[p]
      /\ opened'[p] = Append(opened[p], values[p]) /\ sent'[p] = {} /\ phase'[p] = "idle"
      /\ round' = round /\ asked' = asked /\ values' = values /\ chan' = chan /\ entered' = entered
  BY <1>1 DEF Finish, TypeOK
<1>3. TypeOK'
  BY <1>1, <1>2 DEF Finish, TypeOK
<1>4. \A q \in Players : q # p => Same(q)
  BY <1>1, OnlyOne DEF Step
<1>5. PhaseAt(p)'
  BY <1>1, <1>2 DEF PhaseAt
<1>6. /\ Sums(p)' = Sums(p) /\ Knows(p)' = Knows(p) /\ Done(p)' = Done(p) + 1
      /\ Done(p) \in Nat /\ Done(p) + 1 = entered[p]
  BY <1>1, <1>2 DEF Sums, Knows, Done
<1>7. \A s \in Others : Receiver(s) = p => HeardSums(s)' = HeardSums(s)
  BY <1>2 DEF HeardSums, Heard
<1>8. ASSUME NEW s \in Others, Source(s) = p PROVE Passed(s)' = Passed(s)
  <2>1. s \in sent[p]
    BY <1>2, <1>8, SourceIs
  <2> QED BY <1>2, <1>6, <1>8, <2>1 DEF Passed
<1>9. ValuesAt(p)'
  <2>1. values[p] = Whole(Done(p) + 1) /\ opened[p] = [k \in 1 .. Done(p) |-> Whole(k)]
    BY <1>1, <1>2, <1>6 DEF ValuesAt
  <2>2. opened'[p] = [k \in 1 .. Done(p) + 1 |-> Whole(k)]
    BY <1>2, <1>6, <2>1, OneMore
  <2> QED BY <1>2, <1>6, <2>2 DEF ValuesAt, Whole
<1> QED BY <1>2, <1>3, <1>4, <1>5, <1>6, <1>7, <1>8, <1>9, Silent

-----------------------------------------------------------------------------
LEMMA LeastIn ==
  ASSUME NEW S \in SUBSET Players, S # {}
  PROVE  Min(S) \in S
<1>1. S \in SUBSET Nat
  BY PlayersAre
<1>2. \E m \in S : \A n \in S : m <= n
  BY <1>1, LeastOf
<1> QED BY <1>2 DEF Min

LEMMA KnownMore ==
  ASSUME IInv, \A q \in Players : Knows(q)' = Knows(q),
         \A s \in Others : HeardSums(s)' \in Nat /\ HeardSums(s) <= HeardSums(s)'
  PROVE  KnownOK'
<1>1. ASSUME NEW q \in Players, NEW s \in Others PROVE Knows(q) <= HeardSums(s)'
  <2>1. Knows(q) <= HeardSums(s) /\ HeardSums(s) \in Nat /\ Knows(q) \in Nat
    BY Chain, Ranges DEF IInv, KnownOK, PlayersOK
  <2> QED BY <2>1
<1> QED BY <1>1, PlayersAre DEF IInv, KnownOK

(* A sum that is read is that of the opening the reader is in, and holds    *)
(* shares that the reader has not.                                          *)
LEMMA HearSumInv ==
  ASSUME IInv, NEW p \in Players, HearSum(p)
  PROVE  IInv'
<1>1. /\ TypeOK /\ PhaseAt(p) /\ ValuesAt(p) /\ round[p] \in 0 .. N - 1 /\ entered[p] \in Nat
      /\ ChanOK
  BY Ranges DEF IInv, PlayersOK, TypeOK
<1>2. PICK q \in Others : /\ q = Min(Unheard(p)) /\ RoundOf(q) = round[p] /\ Receiver(q) = p
                          /\ ~ (q \in asked[p])
  <2>1. SendersTo(p, round[p]) = {s \in Others : RoundOf(s) = round[p] /\ Receiver(s) = p}
    BY <1>1, SendersAre
  <2>2. Unheard(p) # {} /\ Unheard(p) \in SUBSET Players
    BY <2>1, PlayersAre DEF Unheard, HearSum
  <2>3. Min(Unheard(p)) \in Unheard(p)
    BY <2>2, LeastIn
  <2> QED BY <2>1, <2>3 DEF Unheard
<1>3. /\ phase[p] = "summing" /\ chan[<<q, p>>] # <<>>
      /\ chan' = [chan EXCEPT ![<<q, p>>] = Tail(@)]
      /\ values' = [values EXCEPT ![p] = @ (+) Head(chan[<<q, p>>])]
      /\ asked' = [asked EXCEPT ![p] = @ \cup {q}]
      /\ phase' = phase /\ round' = round /\ sent' = sent /\ entered' = entered /\ opened' = opened
  BY <1>2 DEF HearSum, Receive
<1>4. q \in Players /\ <<q, p>> \in Players \X Players /\ p # q
  BY <1>2, PlayersAre, ReceiverIs, EdgesApart
<1>5. TypeOK'
  BY <1>1, <1>3, <1>4 DEF TypeOK
<1>6. \A r \in Players : r # p => Same(r)
  BY <1>1, OnlyOne DEF Step
<1>7. asked'[p] = asked[p] \cup {q} /\ values'[p] = values[p] (+) Head(chan[<<q, p>>])
  BY <1>1, <1>3 DEF TypeOK
<1>8. Sums(p)' = Sums(p) /\ Knows(p)' = Knows(p) /\ Done(p)' = Done(p)
  BY <1>3 DEF Sums, Knows, Done
<1>9. PhaseAt(p)'
  <2>1. q \in SendersTo(p, round[p])
    BY <1>1, <1>2, SendersAre
  <2> QED BY <1>1, <1>3, <1>7, <2>1 DEF PhaseAt
<1>10. ASSUME NEW s \in Others, Receiver(s) = p
       PROVE  (Heard(s)' <=> Heard(s) \/ s = q)
  BY <1>2, <1>3, <1>7, <1>10 DEF Heard
<1>11. ~ Heard(q)
  BY <1>1, <1>2, <1>3 DEF Heard
<1>12. HeardSums(q) = entered[p] - 1 /\ HeardSums(q)' = entered[p]
  BY <1>2, <1>3, <1>10, <1>11 DEF HeardSums
<1>13. ASSUME NEW s \in Others, s # q PROVE HeardSums(s)' = HeardSums(s)
  <2>1. CASE Receiver(s) = p
    BY <1>3, <1>10, <1>13, <2>1 DEF HeardSums
  <2>2. CASE Receiver(s) # p
    BY <1>6, <2>2, CountsKept, ReceiverIs
  <2> QED BY <2>1, <2>2
<1>14. /\ chan[<<q, p>>] = <<SetToBag(Under(q) \X {entered[p]})>>
       /\ Sums(q) = entered[p] /\ Sums(q)' = entered[p] /\ HeardSums(q) < Sums(q)
  <2>1. UpOK(q) /\ Receiver(q) = p
    BY <1>1, <1>2 DEF ChanOK
  <2>2. HeardSums(q) < Sums(q) /\ chan[<<q, p>>] = <<SetToBag(Under(q) \X {Sums(q)})>>
    BY <1>3, <2>1 DEF UpOK, Up
  <2>3. Sums(q) \in Nat /\ Sums(q) <= HeardSums(q) + 1
    <3>1. Sums(q) <= Knows(q) + 1 /\ Knows(q) <= HeardSums(q) /\ Sums(q) \in Nat
          /\ Knows(q) \in Nat /\ HeardSums(q) \in Nat
      BY <1>2, Chain
    <3> QED BY <3>1
  <2>4. Sums(q) = entered[p]
    BY <1>1, <1>12, <2>2, <2>3
  <2>5. Sums(q)' = Sums(q)
    BY <1>4, <1>6, CountsKept
  <2> QED BY <2>2, <2>4, <2>5
<1>15. \A r \in Players : Sums(r)' = Sums(r) /\ Knows(r)' = Knows(r)
  BY <1>6, <1>8, CountsKept
<1>16. ASSUME NEW s \in Others PROVE Passed(s)' = Passed(s)
  <2>1. CASE Source(s) = p
    BY <1>3, <1>8, <2>1 DEF Passed
  <2>2. CASE Source(s) # p
    BY <1>6, <2>2, CountsKept, SourceIs
  <2> QED BY <2>1, <2>2
<1>17. ValuesAt(p)'
  <2>1. Held(p)' = Held(p) \cup Under(q)
    <3>1. {t \in Others : Receiver(t) = p /\ Heard(t)'}
            = {t \in Others : Receiver(t) = p /\ Heard(t)} \cup {q}
      BY <1>2, <1>10
    <3> QED BY <3>1 DEF Held
  <2>2. Held(p) \cap Under(q) = {}
    <3>1. ~ (p \in Under(q))
      BY <1>2, UnderAbove
    <3>2. ASSUME NEW t \in Others, Receiver(t) = p, Heard(t) PROVE Under(t) \cap Under(q) = {}
      BY <1>2, <1>11, <3>2, UnderApart
    <3> QED BY <3>1, <3>2 DEF Held
  <2>3. values[p] = SetToBag(Held(p) \X {entered[p]})
    BY <1>1, <1>3 DEF ValuesAt
  <2>4. Head(chan[<<q, p>>]) = SetToBag(Under(q) \X {entered[p]})
    BY <1>14
  <2>5. values'[p] = SetToBag(Held(p)' \X {entered[p]})
    <3>1. SetToBag(Held(p) \X {entered[p]}) (+) SetToBag(Under(q) \X {entered[p]})
            = SetToBag((Held(p) \cup Under(q)) \X {entered[p]})
      <4> DEFINE C == Held(p) \X {entered[p]}
                 D == Under(q) \X {entered[p]}
                 E == (Held(p) \cup Under(q)) \X {entered[p]}
      <4>1. C \cap D = {} /\ E = C \cup D
        BY <2>2
      <4> HIDE DEF C, D, E
      <4>2. SetToBag(C) (+) SetToBag(D) = SetToBag(E)
        BY <4>1, AddedUp
      <4> QED BY <4>2 DEF C, D, E
    <3> QED BY <1>7, <2>1, <2>3, <2>4, <3>1
  <2> QED BY <1>1, <1>3, <1>8, <2>5 DEF ValuesAt
<1>18. ChanOK'
  <2>1. Tail(chan[<<q, p>>]) = <<>>
    BY <1>14
  <2>2. Up(q)' = <<>> /\ HeardSums(q)' <= Sums(q)'
    BY <1>1, <1>12, <1>14 DEF Up
  <2>3. chan' = [chan EXCEPT ![<<q, Receiver(q)>>] = Up(q)']
    BY <1>2, <1>3, <2>1, <2>2
  <2> QED BY <1>1, <1>2, <1>13, <1>15, <1>16, <2>2, <2>3, OneUp, PlayersAre
<1>19. KnownOK'
  <2>1. ASSUME NEW s \in Others PROVE HeardSums(s)' \in Nat /\ HeardSums(s) <= HeardSums(s)'
    <3>1. HeardSums(s) \in Nat
      BY Chain
    <3>2. CASE s = q
      BY <1>1, <1>12, <3>2
    <3>3. CASE s # q
      BY <1>13, <3>1, <3>3
    <3> QED BY <3>2, <3>3
  <2> QED BY <1>15, <2>1, KnownMore
<1> QED BY <1>5, <1>6, <1>9, <1>17, <1>18, <1>19, Assembled

(* A sum that is sent has all the shares under the sender in it, and the    *)
(* one before it has been read.                                             *)
LEMMA SendSumInv ==
  ASSUME IInv, NEW p \in Players, SendSum(p)
  PROVE  IInv'
<1>1. /\ TypeOK /\ PhaseAt(p) /\ ValuesAt(p) /\ round[p] \in 0 .. N - 1 /\ entered[p] \in Nat
      /\ ChanOK /\ p \in Others /\ p \in Nat
  BY Ranges, PlayersAre DEF IInv, PlayersOK, TypeOK, SendSum, Others
<1>2. /\ phase[p] = "summing" /\ Width[round[p] + 1] <= p
      /\ chan' = [chan EXCEPT ![<<p, Receiver(p)>>] = Append(@, values[p])]
      /\ asked' = [asked EXCEPT ![p] = {}] /\ phase' = [phase EXCEPT ![p] = "awaiting"]
      /\ round' = round /\ sent' = sent /\ values' = values /\ entered' = entered /\ opened' = opened
  BY DEF SendSum, Send
<1>3. RoundOf(p) = round[p] /\ Receiver(p) \in Players /\ Receiver(p) # p
  BY <1>1, <1>2, RoundIs, ReceiverIs DEF PhaseAt
<1>4. TypeOK'
  BY <1>1, <1>2, <1>3 DEF TypeOK
<1>5. \A r \in Players : r # p => Same(r)
  BY <1>1, OnlyOne DEF Step
<1>6. phase'[p] = "awaiting" /\ asked'[p] = {}
  BY <1>1, <1>2 DEF TypeOK
<1>7. /\ Sums(p) = entered[p] - 1 /\ Sums(p)' = entered[p]
      /\ Knows(p) = entered[p] - 1 /\ Knows(p)' = Knows(p) /\ Done(p)' = Done(p)
  BY <1>2, <1>6 DEF Sums, Knows, Done
<1>8. PhaseAt(p)'
  <2>1. entered[p] # 0 /\ p # 0
    BY <1>1, <1>2 DEF PhaseAt, Others
  <2> QED BY <1>1, <1>2, <1>6, <2>1 DEF PhaseAt
<1>9. ASSUME NEW s \in Others, Receiver(s) = p
      PROVE  Heard(s) /\ HeardSums(s)' = HeardSums(s)
  <2>1. RoundOf(s) \in 0 .. N - 1 /\ p < Width[RoundOf(s) + 1] /\ Width[RoundOf(s) + 1] \in Nat
    BY <1>1, <1>9, RoundIs, ReceiverIs
  <2>2. /\ round[p] + 1 \in 0 .. N /\ RoundOf(s) + 1 \in 0 .. N /\ Width[round[p] + 1] \in Nat
    BY <1>1, <2>1, Shrinks
  <2>3. ~ (round[p] + 1 <= RoundOf(s) + 1)
    <3>1. round[p] + 1 <= RoundOf(s) + 1 => Width[RoundOf(s) + 1] <= Width[round[p] + 1]
      BY <2>2, Antitone
    <3> QED BY <1>1, <1>2, <2>1, <2>2, <3>1
  <2>4. RoundOf(s) < round[p]
    BY <1>1, <2>1, <2>3
  <2>5. Heard(s)
    BY <1>9, <2>4 DEF Heard
  <2>6. Heard(s)'
    BY <1>6, <1>9 DEF Heard
  <2> QED BY <1>2, <2>5, <2>6 DEF HeardSums
<1>10. values[p] = SetToBag(Under(p) \X {entered[p]})
  <2>1. Held(p) = Under(p)
    <3>1. {t \in Others : Receiver(t) = p /\ Heard(t)} = {t \in Others : Receiver(t) = p}
      BY <1>9
    <3> QED BY <1>1, <3>1, UnderParts DEF Held
  <2> QED BY <1>1, <1>2, <2>1 DEF ValuesAt
<1>11. ASSUME NEW s \in Others PROVE HeardSums(s)' = HeardSums(s) /\ Passed(s)' = Passed(s)
  <2>1. HeardSums(s)' = HeardSums(s)
    <3>1. CASE Receiver(s) = p
      BY <1>9, <3>1
    <3>2. CASE Receiver(s) # p
      BY <1>5, <3>2, CountsKept, ReceiverIs
    <3> QED BY <3>1, <3>2
  <2>2. Passed(s)' = Passed(s)
    <3>1. CASE Source(s) = p
      BY <1>2, <1>7, <3>1 DEF Passed
    <3>2. CASE Source(s) # p
      BY <1>5, <3>2, CountsKept, SourceIs
    <3> QED BY <3>1, <3>2
  <2> QED BY <2>1, <2>2
<1>12. \A r \in Players : Knows(r)' = Knows(r)
  BY <1>5, <1>7, CountsKept
<1>13. ChanOK'
  <2>1. HeardSums(p) = entered[p] - 1
    <3>1. Knows(p) <= HeardSums(p) /\ HeardSums(p) <= Sums(p) /\ HeardSums(p) \in Nat
      BY <1>1, Chain
    <3> QED BY <1>1, <1>7, <3>1
  <2>2. HeardSums(p)' = entered[p] - 1
    BY <1>1, <1>11, <2>1
  <2>3. chan[<<p, Receiver(p)>>] = <<>>
    <3>1. UpOK(p)
      BY <1>1 DEF ChanOK
    <3> QED BY <1>1, <1>7, <2>1, <3>1 DEF UpOK, Up
  <2>4. Append(chan[<<p, Receiver(p)>>], values[p]) = <<SetToBag(Under(p) \X {entered[p]})>>
    BY <1>10, <2>3
  <2>5. Up(p)' = <<SetToBag(Under(p) \X {entered[p]})>> /\ HeardSums(p)' <= Sums(p)'
    <3>1. HeardSums(p)' < Sums(p)' /\ HeardSums(p)' <= Sums(p)'
      BY <1>1, <1>7, <2>2
    <3> QED BY <1>7, <3>1 DEF Up
  <2>6. chan' = [chan EXCEPT ![<<p, Receiver(p)>>] = Up(p)']
    BY <1>2, <2>4, <2>5
  <2>7. ASSUME NEW s \in Others, s # p PROVE Sums(s)' = Sums(s) /\ HeardSums(s)' = HeardSums(s)
    BY <1>5, <1>11, <2>7, CountsKept, PlayersAre
  <2>8. \A s \in Others : Knows(s)' = Knows(s) /\ Passed(s)' = Passed(s)
    BY <1>11, <1>12, PlayersAre
  <2> QED BY <1>1, <2>5, <2>6, <2>7, <2>8, OneUp
<1>14. KnownOK'
  BY <1>11, <1>12, KnownKept DEF IInv
<1>15. ValuesAt(p)'
  <2>1. opened[p] = [k \in 1 .. Done(p) |-> Whole(k)]
    BY <1>1 DEF ValuesAt
  <2> QED BY <1>2, <1>6, <1>7, <2>1 DEF ValuesAt, Whole
<1> QED BY <1>4, <1>5, <1>8, <1>13, <1>14, <1>15, Assembled

(* The base player has heard all that send to it, and so has everybody.     *)
LEMMA BaseHasSumInv ==
  ASSUME IInv, BaseHasSum
  PROVE  IInv'
<1>1. /\ TypeOK /\ PhaseAt(0) /\ ValuesAt(0) /\ round[0] \in 0 .. N - 1 /\ entered[0] \in Nat
      /\ 0 \in Players /\ N \in Nat
  BY Ranges, PlayersAre, Shrinks DEF IInv, PlayersOK, TypeOK
<1>2. /\ phase[0] = "summing" /\ Width[round[0] + 1] = 0
      /\ phase' = [phase EXCEPT ![0] = "passing"] /\ round' = round /\ asked' = asked
      /\ sent' = sent /\ values' = values /\ chan' = chan /\ entered' = entered /\ opened' = opened
  BY DEF BaseHasSum
<1>3. phase'[0] = "passing"
  BY <1>1, <1>2 DEF TypeOK
<1>4. TypeOK'
  BY <1>1, <1>2 DEF TypeOK
<1>5. \A r \in Players : r # 0 => Same(r)
  BY <1>1, <1>2, OnlyOne DEF Step
<1>6. /\ Knows(0) = entered[0] - 1 /\ Knows(0)' = entered[0] /\ Done(0)' = Done(0)
      /\ entered[0] # 0
  BY <1>1, <1>2, <1>3 DEF Knows, Done, PhaseAt
<1>7. PhaseAt(0)'
  <2>1. asked[0] = {}
    <3>1. SendersTo(0, round[0]) = {}
      BY <1>2 DEF SendersTo
    <3> QED BY <1>1, <3>1 DEF PhaseAt
  <2> QED BY <1>1, <1>2, <1>3, <1>6, <2>1 DEF PhaseAt
<1>8. ASSUME NEW s \in Others, Receiver(s) = 0
      PROVE  /\ Heard(s) /\ HeardSums(s)' = HeardSums(s) /\ HeardSums(s) = entered[0]
  <2>1. /\ RoundOf(s) \in 0 .. N - 1 /\ Width[RoundOf(s) + 1] \in Nat \ {0}
    BY RoundIs, ReceiverIs
  <2>2. round[0] + 1 \in 0 .. N /\ RoundOf(s) + 1 \in 0 .. N
    BY <1>1, <2>1, Shrinks
  <2>3. ~ (round[0] + 1 <= RoundOf(s) + 1)
    <3>1. round[0] + 1 <= RoundOf(s) + 1 => Width[RoundOf(s) + 1] <= Width[round[0] + 1]
      BY <2>2, Antitone
    <3> QED BY <1>2, <2>1, <3>1
  <2>4. RoundOf(s) < round[0]
    BY <1>1, <2>1, <2>3
  <2>5. Heard(s)
    BY <1>8, <2>4 DEF Heard
  <2>6. Heard(s)'
    BY <1>3, <1>8 DEF Heard
  <2> QED BY <1>2, <1>8, <2>5, <2>6 DEF HeardSums
<1>9. values[0] = Whole(entered[0])
  <2>1. Held(0) = Players
    <3>1. {t \in Others : Receiver(t) = 0 /\ Heard(t)} = {t \in Others : Receiver(t) = 0}
      BY <1>8
    <3>2. Held(0) = Under(0)
      BY <1>1, <3>1, UnderParts DEF Held
    <3> QED BY <3>2, UnderBase
  <2> QED BY <1>1, <1>2, <2>1 DEF ValuesAt, Whole
<1>10. ASSUME NEW s \in Others PROVE HeardSums(s)' = HeardSums(s) /\ Passed(s)' = Passed(s)
  <2>1. HeardSums(s)' = HeardSums(s)
    <3>1. CASE Receiver(s) = 0
      BY <1>8, <3>1
    <3>2. CASE Receiver(s) # 0
      BY <1>5, <3>2, CountsKept, ReceiverIs
    <3> QED BY <3>1, <3>2
  <2>2. Passed(s)' = Passed(s)
    <3>1. CASE Source(s) = 0
      BY <1>2, <1>6, <3>1 DEF Passed
    <3>2. CASE Source(s) # 0
      BY <1>5, <3>2, CountsKept, SourceIs
    <3> QED BY <3>1, <3>2
  <2> QED BY <2>1, <2>2
<1>11. ASSUME NEW s \in Others PROVE Sums(s)' = Sums(s) /\ Knows(s)' = Knows(s)
  BY <1>5, CountsKept, PlayersAre DEF Others
<1>12. ASSUME NEW s \in Others PROVE entered[0] <= HeardSums(s)
  <2> DEFINE S == {t \in Players : t \in Others => entered[0] <= HeardSums(t)}
  <2>1. ASSUME NEW t \in Players, \A r \in Players : r < t => r \in S
        PROVE  t \in S
    <3> SUFFICES ASSUME t \in Others PROVE entered[0] <= HeardSums(t)
      OBVIOUS
    <3>1. CASE Receiver(t) = 0
      BY <1>1, <1>8, <3>1
    <3>2. CASE Receiver(t) # 0
      <4>1. PICK r : r = Receiver(t)
        OBVIOUS
      <4>2. r \in Others /\ r \in Players /\ r < t
        BY <3>2, <4>1, ReceiverIs DEF Others
      <4>3. r \in S
        BY <2>1, <4>2
      <4>4. HeardSums(r) <= Sums(r) /\ HeardSums(r) \in Nat /\ Sums(r) \in Nat /\ HeardSums(t) \in Nat
        BY <4>2, Chain
      <4>5. Sums(r) <= HeardSums(t)
        BY <1>1, <4>1, <4>2, Ranges DEF IInv, PlayersOK
      <4> QED BY <1>1, <4>2, <4>3, <4>4, <4>5
    <3> QED BY <3>1, <3>2
  <2> HIDE DEF S
  <2>2. Players \subseteq S
    BY <2>1, ByPlayers
  <2> QED BY <2>2, PlayersAre DEF S
<1>13. KnownOK'
  <2>1. ASSUME NEW r \in Players
        PROVE  Knows(r)' <= entered[0] /\ Knows(r)' \in Nat
    <3>1. CASE r = 0
      BY <1>1, <1>6, <3>1
    <3>2. CASE r # 0
      <4>1. Knows(r)' = Knows(r) /\ Knows(r) <= Knows(0) /\ Knows(r) \in Nat
        BY <1>5, <3>2, CountsKept, Ranges DEF IInv, KnownOK, PlayersOK
      <4> QED BY <1>1, <1>6, <4>1
    <3> QED BY <3>1, <3>2
  <2>2. ASSUME NEW s \in Others
        PROVE  entered[0] <= HeardSums(s)' /\ HeardSums(s)' \in Nat
    BY <1>10, <1>12, Chain
  <2>3. ASSUME NEW r \in Players, NEW s \in Others PROVE Knows(r)' <= HeardSums(s)'
    BY <1>1, <2>1, <2>2
  <2> QED BY <1>6, <2>1, <2>3 DEF KnownOK
<1>14. ChanOK'
  BY <1>2, <1>10, <1>11, ChanKept DEF IInv
<1>15. ValuesAt(0)'
  BY <1>1, <1>2, <1>3, <1>6, <1>9 DEF ValuesAt, Whole
<1> QED BY <1>1, <1>4, <1>5, <1>7, <1>13, <1>14, <1>15, Assembled

(* A result that is read is that of the opening the reader is in.           *)
LEMMA HearResultInv ==
  ASSUME IInv, NEW p \in Players, HearResult(p)
  PROVE  IInv'
<1>1. /\ TypeOK /\ PhaseAt(p) /\ ValuesAt(p) /\ entered[p] \in Nat /\ ChanOK
      /\ phase[p] = "awaiting" /\ p \in Others
  BY Ranges DEF IInv, PlayersOK, HearResult, PhaseAt, Others
<1>2. /\ chan[<<Source(p), p>>] # <<>>
      /\ chan' = [chan EXCEPT ![<<Source(p), p>>] = Tail(@)]
      /\ values' = [values EXCEPT ![p] = Head(chan[<<Source(p), p>>])]
      /\ phase' = [phase EXCEPT ![p] = "passing"]
      /\ round' = round /\ asked' = asked /\ sent' = sent /\ entered' = entered /\ opened' = opened
  BY DEF HearResult, Receive
<1>3. Source(p) \in Players /\ Source(p) # p /\ p # 0
  BY <1>1, SourceIs, PlayersAre DEF Others
<1>4. TypeOK'
  BY <1>1, <1>2, <1>3 DEF TypeOK
<1>5. \A r \in Players : r # p => Same(r)
  BY <1>1, OnlyOne DEF Step
<1>6. phase'[p] = "passing" /\ values'[p] = Head(chan[<<Source(p), p>>])
  BY <1>1, <1>2 DEF TypeOK
<1>7. /\ Sums(p) = entered[p] /\ Sums(p)' = entered[p]
      /\ Knows(p) = entered[p] - 1 /\ Knows(p)' = entered[p] /\ Done(p)' = Done(p)
  BY <1>1, <1>2, <1>6 DEF Sums, Knows, Done
<1>8. Passed(p) = entered[p] /\ chan[<<Source(p), p>>] = <<Whole(entered[p])>>
  <2>1. Knows(p) < Passed(p) /\ chan[<<Source(p), p>>] = <<Whole(Passed(p))>>
    BY <1>1, <1>2 DEF ChanOK, DownOK, Down
  <2>2. Passed(p) <= HeardSums(p) /\ HeardSums(p) <= Sums(p) /\ Passed(p) \in Nat
        /\ HeardSums(p) \in Nat
    BY <1>1, Chain
  <2>3. Passed(p) = entered[p]
    BY <1>1, <1>7, <2>1, <2>2
  <2> QED BY <2>1, <2>3
<1>9. PhaseAt(p)'
  BY <1>1, <1>2, <1>6 DEF PhaseAt
<1>10. ValuesAt(p)'
  BY <1>1, <1>2, <1>6, <1>7, <1>8 DEF ValuesAt, Whole
<1>11. ASSUME NEW s \in Others PROVE HeardSums(s)' = HeardSums(s) /\ Passed(s)' = Passed(s)
  <2>1. HeardSums(s)' = HeardSums(s)
    <3>1. CASE Receiver(s) = p
      BY <1>1, <1>2, <1>6, <3>1 DEF HeardSums, Heard
    <3>2. CASE Receiver(s) # p
      BY <1>5, <3>2, CountsKept, ReceiverIs
    <3> QED BY <3>1, <3>2
  <2>2. Passed(s)' = Passed(s)
    <3>1. CASE Source(s) = p
      BY <1>2, <1>7, <3>1 DEF Passed
    <3>2. CASE Source(s) # p
      BY <1>5, <3>2, CountsKept, SourceIs
    <3> QED BY <3>1, <3>2
  <2> QED BY <2>1, <2>2
<1>12. ASSUME NEW r \in Players, r # p PROVE Sums(r)' = Sums(r) /\ Knows(r)' = Knows(r)
  BY <1>5, <1>12, CountsKept
<1>13. KnownOK'
  <2>1. Knows(0)' = Knows(0) /\ Knows(0) \in Nat
    BY <1>1, <1>3, <1>12, Chain, PlayersAre
  <2>2. entered[p] <= Knows(0) /\ \A s \in Others : entered[p] <= HeardSums(s)
    <3>1. Passed(p) <= Knows(Source(p)) /\ Knows(Source(p)) \in Nat
      BY <1>1, Chain
    <3>2. Knows(Source(p)) <= Knows(0) /\ \A s \in Others : Knows(Source(p)) <= HeardSums(s)
      BY <1>3 DEF IInv, KnownOK
    <3>3. \A s \in Others : HeardSums(s) \in Nat
      BY Chain
    <3>4. entered[p] <= Knows(Source(p))
      BY <1>8, <3>1
    <3> QED BY <1>1, <2>1, <3>1, <3>2, <3>3, <3>4
  <2>3. ASSUME NEW r \in Players
        PROVE  Knows(r)' <= Knows(0)' /\ \A s \in Others : Knows(r)' <= HeardSums(s)'
    <3>1. CASE r = p
      BY <1>7, <1>11, <2>1, <2>2, <3>1
    <3>2. CASE r # p
      BY <1>11, <1>12, <2>1, <3>2 DEF IInv, KnownOK
    <3> QED BY <3>1, <3>2
  <2> QED BY <2>3 DEF KnownOK
<1>14. ChanOK'
  <2>1. Tail(chan[<<Source(p), p>>]) = <<>>
    BY <1>8
  <2>2. Passed(p)' = entered[p]
    BY <1>1, <1>8, <1>11
  <2>3. Down(p)' = <<>> /\ Knows(p)' <= Passed(p)'
    BY <1>1, <1>7, <2>2 DEF Down
  <2>4. chan' = [chan EXCEPT ![<<Source(p), p>>] = Down(p)']
    BY <1>2, <2>1, <2>3
  <2>5. \A s \in Others : s # p => Knows(s)' = Knows(s) /\ Passed(s)' = Passed(s)
    BY <1>11, <1>12, PlayersAre
  <2>6. \A s \in Others : Sums(s)' = Sums(s) /\ HeardSums(s)' = HeardSums(s)
    <3>1. Sums(p)' = Sums(p)
      BY <1>7
    <3> QED BY <1>11, <1>12, <3>1, PlayersAre
  <2> QED BY <1>1, <2>3, <2>4, <2>5, <2>6, OneDown
<1> QED BY <1>4, <1>5, <1>9, <1>10, <1>13, <1>14, Assembled

(* A result is passed on when the one before it has been read.              *)
LEMMA PassOnInv ==
  ASSUME IInv, NEW p \in Players, PassOn(p)
  PROVE  IInv'
<1>1. /\ TypeOK /\ PhaseAt(p) /\ ValuesAt(p) /\ entered[p] \in Nat /\ ChanOK
      /\ phase[p] = "passing"
  BY Ranges DEF IInv, PlayersOK, PassOn
<1>2. PICK q \in Others : q = Min(Targets(p) \ sent[p]) /\ Source(q) = p /\ ~ (q \in sent[p])
  <2>1. Targets(p) = {s \in Others : Source(s) = p}
    BY SourceIs
  <2>2. Targets(p) \ sent[p] # {} /\ Targets(p) \ sent[p] \in SUBSET Players
    BY <2>1, PlayersAre DEF PassOn
  <2>3. Min(Targets(p) \ sent[p]) \in Targets(p) \ sent[p]
    BY <2>2, LeastIn
  <2> QED BY <2>1, <2>3
<1>3. /\ chan' = [chan EXCEPT ![<<p, q>>] = Append(@, values[p])]
      /\ sent' = [sent EXCEPT ![p] = @ \cup {q}]
      /\ phase' = phase /\ round' = round /\ asked' = asked /\ values' = values
      /\ entered' = entered /\ opened' = opened
  BY <1>2 DEF PassOn, Send
<1>4. q \in Players /\ q # p
  BY <1>2, PlayersAre, SourceIs
<1>5. TypeOK'
  BY <1>1, <1>3, <1>4 DEF TypeOK
<1>6. \A r \in Players : r # p => Same(r)
  BY <1>1, OnlyOne DEF Step
<1>7. sent'[p] = sent[p] \cup {q}
  BY <1>1, <1>3 DEF TypeOK
<1>8. /\ \A r : Sums(r)' = Sums(r) /\ Knows(r)' = Knows(r) /\ Done(r)' = Done(r)
      /\ \A s : (Heard(s)' <=> Heard(s)) /\ HeardSums(s)' = HeardSums(s)
      /\ Knows(p) = entered[p] /\ Done(p) = entered[p] - 1
  BY <1>1, <1>3 DEF Sums, Knows, Done, HeardSums, Heard
<1>9. PhaseAt(p)'
  <2>1. q \in Targets(p)
    BY <1>2, SourceIs
  <2> QED BY <1>1, <1>3, <1>7, <2>1 DEF PhaseAt
<1>10. ValuesAt(p)'
  <2>1. Done(p)' = Done(p)
    BY <1>8
  <2> QED BY <1>1, <1>3, <2>1 DEF ValuesAt, Whole
<1>11. Passed(q) = entered[p] - 1 /\ Passed(q)' = entered[p]
  <2>1. Passed(q) = Done(p)
    BY <1>2 DEF Passed
  <2>2. Done(p)' = Done(p)
    BY <1>8
  <2>3. Passed(q)' = Done(p)' + 1
    BY <1>2, <1>7 DEF Passed
  <2> QED BY <1>1, <1>8, <2>1, <2>2, <2>3
<1>12. ASSUME NEW s \in Others, s # q PROVE Passed(s)' = Passed(s)
  <2>1. CASE Source(s) = p
    BY <1>7, <1>8, <1>12, <2>1 DEF Passed
  <2>2. CASE Source(s) # p
    BY <1>6, <2>2, CountsKept, SourceIs
  <2> QED BY <2>1, <2>2
<1>13. KnownOK'
  BY <1>8, KnownKept DEF IInv
<1>14. ChanOK'
  <2>1. Knows(q) = entered[p] - 1 /\ Knows(q)' = entered[p] - 1
    <3>1. /\ Knows(q) <= Passed(q) /\ Knows(Source(q)) <= HeardSums(q) /\ HeardSums(q) <= Sums(q)
          /\ Sums(q) <= Knows(q) + 1 /\ Knows(q) \in Nat /\ HeardSums(q) \in Nat /\ Sums(q) \in Nat
      BY <1>2, Chain
    <3>2. entered[p] <= HeardSums(q) /\ Knows(q) <= entered[p] - 1
      BY <1>2, <1>8, <1>11, <3>1
    <3>3. Knows(q) = entered[p] - 1
      BY <1>1, <3>1, <3>2
    <3> QED BY <1>8, <3>3
  <2>2. chan[<<p, q>>] = <<>>
    <3>1. DownOK(q)
      BY <1>1 DEF ChanOK
    <3>2. Down(q) = <<>>
      BY <1>1, <1>11, <2>1 DEF Down
    <3> QED BY <1>2, <3>1, <3>2 DEF DownOK
  <2>3. values[p] = Whole(entered[p])
    BY <1>1 DEF ValuesAt
  <2>4. Append(chan[<<p, q>>], values[p]) = <<Whole(entered[p])>>
    BY <2>2, <2>3
  <2>5. Down(q)' = <<Whole(entered[p])>> /\ Knows(q)' <= Passed(q)'
    <3>1. Knows(q)' < Passed(q)' /\ Knows(q)' <= Passed(q)'
      BY <1>1, <1>11, <2>1
    <3> QED BY <1>11, <3>1 DEF Down, Whole
  <2>6. chan' = [chan EXCEPT ![<<Source(q), q>>] = Down(q)']
    BY <1>2, <1>3, <2>4, <2>5
  <2>7. \A s \in Others : s # q => Knows(s)' = Knows(s) /\ Passed(s)' = Passed(s)
    BY <1>8, <1>12
  <2>8. \A s \in Others : Sums(s)' = Sums(s) /\ HeardSums(s)' = HeardSums(s)
    BY <1>8
  <2> QED BY <1>1, <2>5, <2>6, <2>7, <2>8, OneDown
<1> QED BY <1>5, <1>6, <1>9, <1>10, <1>13, <1>14, Assembled

-----------------------------------------------------------------------------
LEMMA InitInv == Init => IInv
<1> SUFFICES ASSUME Init PROVE IInv
  OBVIOUS
<1>1. /\ phase = [p \in Players |-> "idle"] /\ round = [p \in Players |-> 0]
      /\ asked = [p \in Players |-> {}] /\ sent = [p \in Players |-> {}]
      /\ DOMAIN values = Players /\ chan = [c \in Players \X Players |-> <<>>]
      /\ entered = [p \in Players |-> 0] /\ opened = [p \in Players |-> <<>>]
      /\ N \in Nat \ {0} /\ Runs \in Nat /\ Width[0] = N
  BY SizeAssumption, Shrinks DEF Init
<1>2. TypeOK
  BY <1>1 DEF TypeOK
<1>3. ASSUME NEW p \in Players
      PROVE  Sums(p) = 0 /\ Knows(p) = 0 /\ Done(p) = 0
  BY <1>1 DEF Sums, Knows, Done
<1>4. ASSUME NEW s \in Others
      PROVE  HeardSums(s) = 0 /\ Passed(s) = 0 /\ Sums(s) = 0 /\ Knows(s) = 0
  <2>1. s \in Players /\ Receiver(s) \in Players /\ Source(s) \in Players
    BY PlayersAre, ReceiverIs, SourceIs
  <2>2. HeardSums(s) = 0
    BY <1>1, <2>1 DEF HeardSums, Heard
  <2>3. Passed(s) = 0
    BY <1>1, <1>3, <2>1 DEF Passed
  <2> QED BY <1>3, <2>1, <2>2, <2>3
<1>5. ASSUME NEW p \in Players PROVE PhaseAt(p) /\ ValuesAt(p)
  <2>1. p < N
    BY <1>1 DEF Players
  <2>2. PhaseAt(p)
    BY <1>1, <2>1 DEF PhaseAt
  <2>3. <<>> = [k \in 1 .. 0 |-> Whole(k)]
    OBVIOUS
  <2>4. ValuesAt(p)
    BY <1>1, <1>3, <2>3 DEF ValuesAt
  <2> QED BY <2>2, <2>4
<1>6. KnownOK
  BY <1>3, <1>4, PlayersAre DEF KnownOK
<1>7. ChanOK
  <2>1. \A p, q \in Players : chan[<<p, q>>] = <<>>
    BY <1>1
  <2>2. ASSUME NEW s \in Others PROVE UpOK(s) /\ DownOK(s)
    <3>1. s \in Players /\ Receiver(s) \in Players /\ Source(s) \in Players
      BY PlayersAre, ReceiverIs, SourceIs
    <3>2. Up(s) = <<>> /\ Down(s) = <<>>
      BY <1>4 DEF Up, Down
    <3> QED BY <1>4, <2>1, <3>1, <3>2 DEF UpOK, DownOK
  <2> QED BY <2>1, <2>2 DEF ChanOK
<1> QED BY <1>2, <1>5, <1>6, <1>7 DEF IInv, PlayersOK

LEMMA NextInv == IInv /\ [Next]_vars => IInv'
<1> SUFFICES ASSUME IInv, [Next]_vars PROVE IInv'
  OBVIOUS
<1>1. ASSUME NEW p \in Players, Step(p) PROVE IInv'
  <2>1. CASE Begin(p)
    BY <2>1, BeginInv
  <2>2. CASE HearSum(p)
    BY <2>2, HearSumInv
  <2>3. CASE NextRound(p)
    BY <2>3, NextRoundInv
  <2>4. CASE SendSum(p)
    BY <2>4, SendSumInv
  <2>5. CASE HearResult(p)
    BY <2>5, HearResultInv
  <2>6. CASE PassOn(p)
    BY <2>6, PassOnInv
  <2>7. CASE Finish(p)
    BY <2>7, FinishInv
  <2>8. CASE p = 0 /\ BaseHasSum
    BY <2>8, BaseHasSumInv
  <2> QED BY <1>1, <2>1, <2>2, <2>3, <2>4, <2>5, <2>6, <2>7, <2>8 DEF Step
<1>2. CASE UNCHANGED vars
  <2>1. \A q \in Players : Same(q)
    BY <1>2 DEF vars, Same
  <2>2. TypeOK'
    BY <1>2 DEF IInv, TypeOK, vars
  <2>3. PlayersOK'
    BY <2>1, PlayerKept DEF IInv, PlayersOK
  <2>4. ASSUME NEW s \in Others
        PROVE  /\ Sums(s)' = Sums(s) /\ HeardSums(s)' = HeardSums(s)
               /\ Knows(s)' = Knows(s) /\ Passed(s)' = Passed(s)
    <3>1. s \in Players /\ Receiver(s) \in Players /\ Source(s) \in Players
      BY PlayersAre, ReceiverIs, SourceIs
    <3> QED BY <2>1, <3>1, CountsKept
  <2>5. KnownOK'
    BY <2>1, <2>4, CountsKept, KnownKept DEF IInv
  <2>6. ChanOK'
    BY <1>2, <2>4, ChanKept DEF IInv, vars
  <2> QED BY <2>2, <2>3, <2>5, <2>6 DEF IInv
<1> QED BY <1>1, <1>2 DEF Next, AllDone

(* In every state what is under way on a connection is what one of its ends *)
(* has sent and the other not read, and a player holds the shares of those  *)
(* it has heard: the invariant the two claims below follow from.            *)
THEOREM Invariance == Spec => []IInv
BY InitInv, NextInv, PTL DEF Spec

LEMMA BagDomain ==
  ASSUME NEW S
  PROVE  DOMAIN SetToBag(S) = S
BY DEF SetToBag

(* A connection holds at most one message, towards the base player a        *)
(* partial sum with the sender's share in it and not that of the base       *)
(* player, away from it a finished sum.                                     *)
LEMMA OneKind == IInv => OneKindPerDirection
<1> SUFFICES ASSUME IInv, NEW p \in Players, NEW q \in Players
             PROVE  /\ Len(chan[<<p, q>>]) <= 1
                    /\ \A i \in DOMAIN chan[<<p, q>>] :
                         LET m == chan[<<p, q>>][i] IN
                         IF q < p THEN \E k \in 1 .. Runs : <<p, k>> \in DOMAIN m /\ m # Whole(k)
                                                   /\ m = SetToBag(DOMAIN m)
                                                   /\ DOMAIN m \subseteq Players \X {k}
                         ELSE \E k \in 1 .. Runs : m = Whole(k)
  BY DEF OneKindPerDirection
<1>1. /\ TypeOK /\ ChanOK /\ \A r \in Players : PhaseAt(r) /\ entered[r] \in 0 .. Runs
      /\ Runs \in Nat
  BY SizeAssumption DEF IInv, PlayersOK, TypeOK
<1>2. CASE p \in Others /\ q = Receiver(p)
  <2>1. q < p /\ chan[<<p, q>>] = Up(p)
    BY <1>1, <1>2, ReceiverIs DEF ChanOK, UpOK
  <2>2. CASE HeardSums(p) < Sums(p)
    <3> DEFINE k == Sums(p)
               m == SetToBag(Under(p) \X {k})
    <3>1. chan[<<p, q>>] = <<m>>
      BY <2>1, <2>2 DEF Up
    <3>2. k \in 1 .. Runs
      <4>1. HeardSums(p) \in Nat /\ k \in Nat /\ k <= entered[p]
        BY <1>1, <1>2, Chain, Ranges
      <4> QED BY <1>1, <2>2, <4>1
    <3>3. DOMAIN m = Under(p) \X {k}
      BY BagDomain
    <3>4. <<p, k>> \in DOMAIN m /\ m = SetToBag(DOMAIN m) /\ DOMAIN m \subseteq Players \X {k}
      BY <3>3, UnderSelf
    <3>5. m # Whole(k)
      <4>1. DOMAIN Whole(k) = Players \X {k}
        BY BagDomain DEF Whole
      <4>2. <<0, k>> \in Players \X {k} /\ ~ (<<0, k>> \in Under(p) \X {k})
        BY <1>2, PlayersAre, UnderAbove
      <4> QED BY <3>3, <4>1, <4>2
    <3> HIDE DEF k, m
    <3>6. Len(chan[<<p, q>>]) <= 1 /\ DOMAIN chan[<<p, q>>] = {1} /\ chan[<<p, q>>][1] = m
      BY <3>1
    <3> QED BY <2>1, <3>2, <3>4, <3>5, <3>6
  <2>3. CASE ~ (HeardSums(p) < Sums(p))
    BY <2>1, <2>3 DEF Up
  <2> QED BY <2>2, <2>3
<1>3. CASE q \in Others /\ p = Source(q)
  <2>1. ~ (q < p) /\ chan[<<p, q>>] = Down(q)
    <3>1. p < q /\ p \in Nat /\ q \in Nat
      BY <1>3, SourceIs, PlayersAre
    <3> QED BY <1>1, <1>3, <3>1 DEF ChanOK, DownOK
  <2>2. CASE Knows(q) < Passed(q)
    <3> DEFINE k == Passed(q)
    <3>1. chan[<<p, q>>] = <<Whole(k)>>
      BY <2>1, <2>2 DEF Down
    <3>2. k \in 1 .. Runs
      <4>1. /\ Knows(q) \in Nat /\ k \in Nat /\ k <= Knows(p) /\ Knows(p) <= Sums(p)
            /\ Sums(p) <= entered[p] /\ Knows(p) \in Nat /\ Sums(p) \in Nat
        BY <1>1, <1>3, Chain, Ranges
      <4> QED BY <1>1, <2>2, <4>1
    <3> HIDE DEF k
    <3>3. Len(chan[<<p, q>>]) <= 1 /\ DOMAIN chan[<<p, q>>] = {1} /\ chan[<<p, q>>][1] = Whole(k)
      BY <3>1
    <3> QED BY <2>1, <3>2, <3>3
  <2>3. CASE ~ (Knows(q) < Passed(q))
    BY <2>1, <2>3 DEF Down
  <2> QED BY <2>2, <2>3
<1>4. CASE ~ Used(p, q)
  <2>1. chan[<<p, q>>] = <<>>
    BY <1>1, <1>4 DEF ChanOK
  <2> QED BY <2>1
<1> QED BY <1>2, <1>3, <1>4 DEF Used

(* TreeSum::run sends without tags, and needs none: in each direction of a  *)
(* connection there is one kind of message, and never more than one.        *)
THEOREM KindsApart == Spec => []OneKindPerDirection
BY Invariance, OneKind, PTL

(* When all players have returned from as many calls of run(), nothing is   *)
(* under way.                                                               *)
LEMMA NothingLeft == IInv => NothingLeftOver
<1> SUFFICES ASSUME IInv, \A p, q \in Players : phase[p] = "idle" /\ entered[p] = entered[q],
                    NEW c \in DOMAIN chan
             PROVE  chan[c] = <<>>
  BY DEF NothingLeftOver
<1>1. TypeOK /\ ChanOK /\ \A r \in Players : PhaseAt(r)
  BY DEF IInv, PlayersOK
<1>2. PICK p \in Players, q \in Players : c = <<p, q>>
  BY <1>1 DEF TypeOK
<1>3. ASSUME NEW s \in Others PROVE Up(s) = <<>> /\ Down(s) = <<>>
  <2>1. s \in Players /\ Receiver(s) \in Players /\ Source(s) \in Players
    BY PlayersAre, ReceiverIs, SourceIs
  <2>2. Sums(s) = entered[s] /\ Knows(s) = entered[s] /\ entered[s] \in Nat
    BY <1>1, <2>1, Ranges DEF Sums, Knows
  <2>3. HeardSums(s) = entered[s]
    BY <2>1 DEF HeardSums, Heard
  <2>4. Passed(s) = entered[s]
    <3>1. sent[Source(s)] = {}
      BY <1>1, <2>1 DEF PhaseAt
    <3> QED BY <2>1, <3>1 DEF Passed, Done
  <2> QED BY <2>2, <2>3, <2>4 DEF Up, Down
<1> QED BY <1>1, <1>2, <1>3 DEF ChanOK, UpOK, DownOK, Used

(* No message of one call of run() is left for the next.                    *)
THEOREM NothingKept == Spec => []NothingLeftOver
BY Invariance, NothingLeft, PTL

-----------------------------------------------------------------------------
LEMMA LenIs ==
  ASSUME NEW n \in Nat, NEW s, s = [k \in 1 .. n |-> Whole(k)]
  PROVE  Len(s) = n
<1> DEFINE S == {Whole(k) : k \in 1 .. n}
<1>1. s \in [1 .. n -> S]
  OBVIOUS
<1> HIDE DEF S
<1> QED BY <1>1

(* Begin is Enter, Finish is Learn, and no other step is seen.              *)
LEMMA StepOpens ==
  ASSUME IInv, NEW p \in Players, Step(p)
  PROVE  Promise!Next \/ UNCHANGED Promise!vars
<1>1. /\ TypeOK /\ PhaseAt(p) /\ opened[p] = [k \in 1 .. Done(p) |-> Whole(k)]
      /\ entered[p] \in Nat /\ Done(p) \in Nat
  BY Ranges DEF IInv, PlayersOK, ValuesAt
<1>2. Len(opened[p]) = Done(p)
  BY <1>1, LenIs
<1>3. CASE Begin(p)
  <2>1. entered[p] = Len(opened[p])
    BY <1>2, <1>3 DEF Begin, Done
  <2>2. Promise!Enter(p)
    BY <1>3, <2>1 DEF Begin, Promise!Enter
  <2> QED BY <2>2 DEF Promise!Next
<1>4. CASE Finish(p)
  <2>1. entered[p] = Len(opened[p]) + 1 /\ Knows(p) = entered[p]
    BY <1>1, <1>2, <1>4 DEF Finish, Done, Knows
  <2>2. ASSUME NEW q \in Players PROVE entered[q] >= entered[p]
    <3>1. /\ Knows(q) <= Sums(q) /\ Sums(q) <= entered[q] /\ Knows(q) \in Nat
          /\ Sums(q) \in Nat /\ entered[q] \in Nat
      BY Ranges DEF IInv, PlayersOK
    <3>2. CASE q = 0
      <4>1. entered[p] <= Knows(q)
        BY <2>1, <3>2 DEF IInv, KnownOK
      <4> QED BY <1>1, <3>1, <4>1
    <3>3. CASE q # 0
      <4>1. entered[p] <= HeardSums(q) /\ HeardSums(q) <= Sums(q) /\ HeardSums(q) \in Nat
        BY <2>1, <3>3, Chain DEF IInv, KnownOK, Others
      <4> QED BY <1>1, <3>1, <4>1
    <3> QED BY <3>2, <3>3
  <2>3. values[p] = Whole(entered[p])
    BY <1>4 DEF IInv, PlayersOK, ValuesAt, Finish
  <2>4. Promise!Learn(p)
    BY <1>4, <2>1, <2>2, <2>3 DEF Finish, Promise!Learn
  <2> QED BY <2>4 DEF Promise!Next
<1>5. CASE ~ Begin(p) /\ ~ Finish(p)
  <2>1. entered' = entered /\ opened' = opened
    BY <1>5 DEF Step, HearSum, NextRound, SendSum, BaseHasSum, HearResult, PassOn
  <2> QED BY <2>1 DEF Promise!vars
<1> QED BY <1>3, <1>4, <1>5

(* TreeSum implements Opening: every call of run() gives every player the   *)
(* sum of all the players' shares of that opening, in order, and none       *)
(* returns before all the players have entered it.                          *)
THEOREM SumsRight == Spec => OpensTheSum
<1>1. Init => Promise!Init
  BY DEF Init, Promise!Init
<1>2. IInv /\ [Next]_vars => [Promise!Next]_Promise!vars
  <2> SUFFICES ASSUME IInv, [Next]_vars PROVE Promise!Next \/ UNCHANGED Promise!vars
    OBVIOUS
  <2>1. ASSUME UNCHANGED vars PROVE UNCHANGED Promise!vars
    BY <2>1 DEF vars, Promise!vars
  <2> QED BY <2>1, StepOpens DEF Next, AllDone
<1> QED BY <1>1, <1>2, Invariance, PTL DEF Spec, OpensTheSum, Promise!Spec
=============================================================================
